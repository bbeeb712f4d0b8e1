----------------------------- MODULE ResultBundles -----------------------------
(***************************************************************************)
(* Past results and parameters (src/src/parameters/) and the two files     *)
(* that keep them from one start of the program to the next.               *)
(*                                                                         *)
(* Of a result bundle there is its power and how many of its utilizations  *)
(* have a value.  Of the parameters there are their names in the order in  *)
(* which they got their index, and the length of the vector of the values. *)
(* A saved file is a sequence of lines; when the program is stopped while  *)
(* it writes, the last one may be cut: "short" to one or two characters,   *)
(* "long" to more.                                                         *)
(***************************************************************************)
EXTENDS Integers, Sequences, FiniteSets, SequencesExt

CONSTANTS
  MAX_PARAM,    \* 750: the most results that are kept
  FIRST_KEPT,   \* 50: the oldest, which are never replaced
  SAVE_EVERY,   \* 10
  Utilizations, \* how many names of results there are
  MIN_DURATION, \* 5: what measurements must last to be stored
  Fixed,        \* sequence of the parameters registered at start, in order
  HotPlug       \* the parameters of USB devices that may be plugged in

ASSUME RingAssumption == FIRST_KEPT \in 0..(MAX_PARAM - 1)

\* powertop_init registers parameters of its own in any case.
ASSUME NamesAssumption ==
  /\ Fixed \in Seq(ToSet(Fixed)) /\ Fixed # <<>>
  /\ IsFiniteSet(HotPlug)

ASSUME ValuesAssumption == Utilizations \in Nat

VARIABLES
  past_results,     \* sequence of [power, values]
  measurement_time, \* set by the trace records; kept if there are none
  param_index,      \* sequence of names
  slots,            \* the length of parameters and of weights
  results_file, parameters_file, \* sequences of lines
  saved             \* history: the results that were last written, or begun to be

resultVars == <<past_results, measurement_time>>
parameterVars == <<param_index, slots>>
fileVars == <<results_file, parameters_file, saved>>
-----------------------------------------------------------------------------
(***************************************************************************)
(* The ring of past results.                                               *)
(***************************************************************************)

\* mutant: any result is replaced.
Stored_AnyIndex(results, bundle) ==
  IF Len(results) >= MAX_PARAM
  THEN {[results EXCEPT ![i] = bundle] : i \in 1..MAX_PARAM}
  ELSE {Append(results, bundle)}

\* A random one of the later results is replaced when there are too many.
Stored(results, bundle) ==
  IF Len(results) >= MAX_PARAM
  THEN {[results EXCEPT ![i] = bundle] : i \in (FIRST_KEPT + 1)..MAX_PARAM}
  ELSE {Append(results, bundle)}
-----------------------------------------------------------------------------
(***************************************************************************)
(* Saving and loading.                                                     *)
(***************************************************************************)
Line(kind, what) == [kind |-> kind, what |-> what, cut |-> "whole"]

RecordLines(bundle) ==
  <<Line("power", bundle.power)>> \o [i \in 1..Utilizations |-> Line("value", i)] \o <<Line("end", 0)>>

ResultLines(results) == FlattenSeq([i \in DOMAIN results |-> RecordLines(results[i])])

ParameterLines(names) == [i \in DOMAIN names |-> Line("parameter", names[i])]

\* What a file may be when writing it was cut off.
CutFiles(lines) ==
  {SubSeq(lines, 1, k) : k \in 0..Len(lines)}
    \cup {Append(SubSeq(lines, 1, k - 1), [lines[k] EXCEPT !.cut = c]) :
            k \in {n \in DOMAIN lines : lines[n].kind # "end"}, c \in {"short", "long"}}

NoBundle == [power |-> 0, values |-> 0]

\* The first digits of a number are a number, too.
PowerRead(line) == IF line.cut = "whole" THEN line.what ELSE -1

\* Any line of fewer than three characters ends a record, also one that was
\* cut to that length.
ReadLine(acc, l) ==
  CASE acc.first -> [acc EXCEPT !.first = FALSE, !.bundle.power = PowerRead(l)]
    [] ~acc.first /\ (l.kind = "end" \/ l.cut = "short") ->
         [first |-> TRUE, bundle |-> NoBundle, loaded |-> Append(acc.loaded, acc.bundle)]
    [] ~acc.first /\ l.kind = "value" /\ l.cut = "whole" -> [acc EXCEPT !.bundle.values = @ + 1]
    [] OTHER -> acc

NothingRead == [first |-> TRUE, bundle |-> NoBundle, loaded |-> <<>>]
ReadLines(lines) == FoldLeft(ReadLine, NothingRead, lines)

\* mutant: a record that the file ends in is kept.
LoadResults_KeepsLast(lines) ==
  LET done == ReadLines(lines)
  IN IF done.first THEN done.loaded ELSE Append(done.loaded, done.bundle)

\* load_results, into an empty past_results.  A record without an end is dropped.
LoadResults(lines) == ReadLines(lines).loaded
-----------------------------------------------------------------------------
(***************************************************************************)
(* The names of parameters.  The index of a name is its place in           *)
(* param_index plus one: the first is 2.                                   *)
(***************************************************************************)
IndexOf(table, name) == SelectInSeq(table.names, LAMBDA n : n = name) + 1

\* get_param_index
WithName(table, name) ==
  IF name \in ToSet(table.names) THEN table ELSE [table EXCEPT !.names = Append(@, name)]

\* mutant: only new names make room.
RegisterParameter_NewNamesOnly(table, name) ==
  LET named == WithName(table, name)
  IN IF name \in ToSet(table.names) THEN table ELSE [named EXCEPT !.slots = IndexOf(named, name) + 1]

\* register_parameter, and as far as it goes here, set_parameter_value.
RegisterParameter(table, name) ==
  LET named == WithName(table, name)
      index == IndexOf(named, name)
  IN [named EXCEPT !.slots = IF index >= @ THEN index + 1 ELSE @]

\* The constructor of a device asks for the index, and then it is registered.
RegisterDevice(table, name) == RegisterParameter(WithName(table, name), name)

RegisterAll(table, names) == FoldLeft(RegisterDevice, table, names)

\* A line that was cut before its value is skipped.
ReadParameter(table, line) ==
  IF line.cut = "short" THEN table ELSE RegisterParameter(table, line.what)

LoadParameters(lines) == FoldLeft(ReadParameter, [names |-> <<>>, slots |-> 0], lines)

\* The devices, and then what powertop_init itself registers.
RegisterFixed(table) == RegisterAll(table, Fixed)

\* Every name of a utilization is written for every result, as 0 if it has no
\* value there.  The file is truncated first.
Written(results) == [i \in DOMAIN results |-> [results[i] EXCEPT !.values = Utilizations]]

SaveAllResults(results) == results_file' = ResultLines(results) /\ saved' = Written(results)

\* The program is stopped while it writes.
CutResults(results) == results_file' \in CutFiles(ResultLines(results)) /\ saved' = Written(results)

ResultsInit ==
  /\ past_results = <<>> /\ measurement_time = 0
  /\ param_index = <<>> /\ slots = 0
  /\ results_file = <<>> /\ parameters_file = <<>> /\ saved = <<>>
================================================================================
