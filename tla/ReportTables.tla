------------------------------ MODULE ReportTables ------------------------------
(***************************************************************************)
(* The tables of a report.  Each function first computes the number of     *)
(* rows and columns, allocates a vector of that many cells, and then       *)
(* writes cell after cell with an index it counts up itself, without       *)
(* comparing it with the size.  A table here is how many cells were        *)
(* allocated and how many were written, and whether what was written is    *)
(* what the size was computed for.                                         *)
(*                                                                         *)
(* A layout is what handle_one_cpu made of a package: `cores', its         *)
(* children by number, each with its number of CPUs and whether it can     *)
(* collapse; `levels', the lines for which some node has an idle state;    *)
(* `frequencies', the most frequencies a CPU has. A number without a core  *)
(* is a child of type "none".                                              *)
(***************************************************************************)
EXTENDS Integers, Sequences, FiniteSets, SequencesExt

LEVEL_HEADER == -2
LEVEL_C0 == -1

TableIf(exact, name, allocated, written) ==
  [name |-> name, allocated |-> allocated, written |-> written, exact |-> exact]

Table(name, allocated, written) == TableIf(TRUE, name, allocated, written)

Fits(table) == table.written <= table.allocated

\* mutant: no spare row.
SummaryTable_Exact(n, used, limit, cols) ==
  LET total == Min({n, limit})
      shown == Min({used, total + 1})
  IN Table("summary", cols * (total + 1), cols + cols * shown)

\* report_summary: n entries of all_power, of which the first `used' have any
\* usage.  The loop ends after index total, not before it.
SummaryTable(n, used, limit, cols) ==
  LET total == Min({n, limit})
      rows == total + 1
      shown == Min({used, total + 1})
  IN Table("summary", cols * (rows + 1), cols + cols * shown)

\* report_process_update_display: devices are skipped.
SoftwareTable(n, shown, limit, cols) ==
  LET total == Min({n, limit})
  IN Table("software", cols * (total + 1), cols + cols * Min({shown, total}))

\* show_report_devices
DevicesTable(shown, cols) == Table("devices", cols * (shown + 1), cols + cols * shown)

\* report_show_open_devices
OpenDevicesTable(list) == Table("open_devices", 2 * (Len(list) + 1), 2 + 2 * Len(list))

\* ahci_create_device_stats_table, report_device_stats: each link by its number.
AhciTables(links) == IF links = 0 THEN {} ELSE {Table("ahci", 5 * (links + 1), 5 * links + 5)}

\* report_gpu_stats: power, frequency, idle and fans of an Xe card, each only if
\* there is any.  A graphics unit that could not be read is neither counted nor
\* shown.
GpuRows(name, n, cols) == IF n = 0 THEN {} ELSE {Table(name, (n + 1) * cols, cols + n * cols)}

GpuTables(gpu) ==
  IF ~gpu.present THEN {}
  ELSE GpuRows("gpu_power", gpu.channels, 3) \cup GpuRows("gpu_frequency", gpu.gts, 6)
         \cup GpuRows("gpu_idle", gpu.valid, 3) \cup GpuRows("gpu_fans", gpu.fans, 2)

Counted(states, state) == Cardinality({t \in DOMAIN states : states[t] = state})

\* report_show_tunables reads all settings once to count the rows and again to
\* write them: "first" and "second" are what it reads.
TunablesTables(first, second, untunables) ==
  LET bad == Counted(first, "bad")
      unchanged == first = second
  IN (IF bad = 0 THEN {}
      ELSE {TableIf(unchanged, "tunables", 2 * (bad + 1), 2 + 2 * Counted(second, "bad"))})
       \cup {Table("untunables", untunables + 1, 1 + untunables),
             TableIf(unchanged, "tuned", Counted(first, "good") + 1, 1 + Counted(second, "good"))}

\* report_show_wakeup does the same with the devices that may not wake the machine.
WakeupTables(first, second) ==
  LET off == Counted(first, "disabled")
  IN IF off = 0 THEN {}
     ELSE {TableIf(first = second, "wakeup", 2 * (off + 1), 2 + 2 * Counted(second, "disabled"))}
-----------------------------------------------------------------------------
(***************************************************************************)
(* Idle states and frequencies.                                            *)
(***************************************************************************)
IsCore(core) == core.type = "Core"
IsPresent(core) == core.type # "none"

CpusOf(layout) == FoldLeft(LAMBDA n, core : n + core.cpus, 0, layout.cores)
CoresOf(layout) == Cardinality({k \in DOMAIN layout.cores : IsCore(layout.cores[k])})
Uniform(layout) ==
  \A j, k \in DOMAIN layout.cores :
    IsCore(layout.cores[j]) /\ IsCore(layout.cores[k]) => layout.cores[j].cpus = layout.cores[k].cpus

\* CPUs of a core, on average and rounded down.
CpusPerCore(layout) == IF CoresOf(layout) > 0 THEN CpusOf(layout) \div CoresOf(layout) ELSE 0

\* handle_i965_gpu and handle_xe_gpu: each adds a child without CPUs behind the
\* last core of the first package.
WithGpus(layout, n) ==
  [layout EXCEPT !.cores = @ \o [i \in 1..n |-> [type |-> "GPU", cpus |-> 0, collapses |-> FALSE]]]

\* get_cstates_num: the last line that has an idle state.
cstates_num(layout) == Max(layout.levels \cup {0})

\* From the header to the last of them.
Lines(layout) == [i \in 1..(cstates_num(layout) + 3) |-> i - 3]

\* The tables of the idle states: two columns for the package and the cores.
CStateCells(layout) ==
  LET children == Len(layout.cores)
      n == cstates_num(layout)
  IN [package |-> 2 * ((n + 1) - LEVEL_HEADER + 1),
      core |-> 2 * (n * children + children),
      cpu |-> (2 * CpusPerCore(layout) + 1) * ((n + 1 - LEVEL_HEADER) * children + children)]

\* The same of the frequencies.
PStateCells(layout) ==
  LET children == Len(layout.cores)
      pstates_num == layout.frequencies
  IN [package |-> 2 * ((pstates_num + 1) - LEVEL_HEADER + 2),
      core |-> 2 * ((pstates_num + 2) * children),
      cpu |-> (CpusPerCore(layout) + 1) * ((pstates_num + 2) * children + children)]

Start == [package |-> 0, core |-> 0, cpu |-> 0, first |-> TRUE, stopped |-> FALSE]

\* The cells of one line of the idle states of one core, if any node has such a
\* state.  The table of the cores is full earlier if there are states below C0;
\* then the rest of the core is left out of the table of the CPUs, too.
CStateLine(core, levels, coreCells, acc, line) ==
  LET package == acc.package + (IF acc.first THEN 2 ELSE 0)
      full == ~core.collapses /\ acc.core >= coreCells
      cells == IF line = LEVEL_HEADER THEN 2 * core.cpus
               ELSE IF core.cpus > 0 THEN 1 + 2 * core.cpus ELSE 0
  IN IF acc.stopped \/ line \notin {LEVEL_HEADER} \cup levels THEN acc
     ELSE IF full THEN [acc EXCEPT !.package = package, !.stopped = TRUE]
     ELSE [acc EXCEPT !.package = package, !.cpu = @ + cells,
                      !.core = IF core.collapses THEN @ ELSE @ + 2]

CStateCore(layout, acc, core) ==
  LET begun == [acc EXCEPT !.cpu = @ + 1, !.stopped = FALSE]
      done == FoldLeft(LAMBDA at, line : CStateLine(core, layout.levels, CStateCells(layout).core, at, line),
                       begun, Lines(layout))
  IN IF IsPresent(core) THEN [done EXCEPT !.first = FALSE] ELSE begun

CStateTables(layout) ==
  LET cells == CStateCells(layout)
      done == FoldLeft(LAMBDA acc, core : CStateCore(layout, acc, core), Start, layout.cores)
  IN {Table("package_idle", cells.package, done.package),
      Table("core_idle", cells.core, done.core),
      TableIf(Uniform(layout), "cpu_idle", cells.cpu, done.cpu)}

\* GPUs have no frequencies here.  The lines are the header and one for each
\* frequency.
PStateCore(layout, acc, core) ==
  LET lines == 2 * (layout.frequencies + 1)
      states == layout.frequencies * (IF core.cpus > 0 THEN 1 + core.cpus ELSE 0)
  IN IF ~IsCore(core) THEN [acc EXCEPT !.cpu = @ + 1]
     ELSE [acc EXCEPT !.package = IF acc.first THEN @ + lines ELSE @,
                      !.core = IF core.collapses THEN @ ELSE @ + lines,
                      !.cpu = @ + 1 + core.cpus + states,
                      !.first = FALSE]

PStateTables(layout) ==
  LET cells == PStateCells(layout)
      done == FoldLeft(LAMBDA acc, core : PStateCore(layout, acc, core), Start, layout.cores)
  IN {Table("package_frequency", cells.package, done.package),
      Table("core_frequency", cells.core, done.core),
      TableIf(Uniform(layout), "cpu_frequency", cells.cpu, done.cpu)}
=================================================================================
