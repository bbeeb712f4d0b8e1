------------------------------- MODULE Tunables -------------------------------
(***************************************************************************)
(* Tunables and wakeup sources (src/src/tuning, src/src/wakeup): how a     *)
(* setting of the machine is judged, toggled and described by a command,   *)
(* and the lists of them.  What a file contains is a number; 0 is what is  *)
(* read when it is missing or cannot be read.                              *)
(***************************************************************************)
EXTENDS BluetoothIdle, SequencesExt, FiniteSets

CONSTANTS
  Files,        \* files of the machine, and what stands for an interface
  Tunables,
  Kind,         \* [Tunables -> Kinds]
  FilesOf,      \* [Tunables and wakeup sources -> sequence of files its path matches]
  Target,       \* [Tunables -> content]; of the sysfs kinds
  Rank,         \* [Tunables -> Nat]: highest score first, then the description
  Unsupported,  \* devices without runtime power management or autosuspend
  EthernetWakeups, UsbWakeups \* sequences

Kinds == {"choice", "at least", "at most", "runtime", "usb", "wifi", "bluetooth"}

Missing == 0
Off == 1        \* "on" of power/control, power saving off, interface down
On == 2         \* "auto", power saving on, interface up; wakeup enabled

Wakeups == ToSet(EthernetWakeups) \cup ToSet(UsbWakeups)

ASSUME FilesAssumption ==
  /\ IsFiniteSet(Tunables)
  /\ \A x \in Tunables \cup Wakeups : FilesOf[x] \in Seq(Files)
  /\ \A t \in Tunables : Kind[t] # "choice" => Len(FilesOf[t]) = 1
  /\ EthernetWakeups \in Seq(Wakeups) /\ UsbWakeups \in Seq(Wakeups)

\* A target is a content, not its absence.  Tunables that share a file, as the two
\* paths of an energy preference may, want the same of it.
ASSUME TargetAssumption ==
  /\ Kind \in [Tunables -> Kinds]
  /\ \A t \in Tunables : Kind[t] \in {"choice", "at least", "at most"} =>
       Target[t] \in Nat \ {Missing}
  /\ \A t, u \in Tunables :
       t # u /\ ToSet(FilesOf[t]) \cap ToSet(FilesOf[u]) # {} =>
         Kind[t] = "choice" /\ Kind[u] = "choice" /\ Target[t] = Target[u]

ASSUME RankAssumption ==
  /\ \A t \in Tunables : Rank[t] \in Nat
  /\ \A t, u \in Tunables : Rank[t] = Rank[u] => t = u

VARIABLES
  setting,      \* [Files -> content]
  all_tunables, \* as sorted last
  all_untunables, \* a set
  memory,       \* bad_value and toggle_bad of a tunable: <<>> or <<content>>
  wakeup_all

tunableVars == <<setting, all_tunables, all_untunables, memory, wakeup_all>>

\* pt_access of what has no wildcard, or of one of the files that match
Exists(s, x) == \E f \in ToSet(FilesOf[x]) : s[f] # Missing

\* write_sysfs and the like: what does not exist is not made.
WriteSysfs(s, files, content) ==
  [f \in Files |-> IF f \in ToSet(files) /\ s[f] # Missing THEN content ELSE s[f]]

OfKind(kinds) == {t \in Tunables : Kind[t] \in kinds}
Sysfs == OfKind({"choice", "at least", "at most"})
Numeric == OfKind({"at least", "at most"})
-----------------------------------------------------------------------------
(***************************************************************************)
(* Verdicts.                                                               *)
(***************************************************************************)
NumberIsGood(t, n) ==
  /\ n # Missing
  /\ IF Kind[t] = "at least" THEN n >= Target[t] ELSE n <= Target[t]

\* runtime_tunable, usb_tunable and i2c_tunable judge alike; a wireless card
\* that does not answer is good.
FileIsGood(t, content) ==
  CASE t \in Numeric -> NumberIsGood(t, content)
    [] Kind[t] = "choice" -> content = Target[t]
    [] Kind[t] \in {"runtime", "usb"} -> content = On
    [] Kind[t] = "wifi" -> content # Off

BluetoothIsGood(s, t) == s[FilesOf[t][1]] = On => ~SeemsIdle(snap)

\* good_bad, TUNE_GOOD or TUNE_BAD
IsGood(s, t) ==
  IF Kind[t] = "bluetooth" THEN BluetoothIsGood(s, t)
  ELSE \A f \in ToSet(FilesOf[t]) : FileIsGood(t, s[f])

\* The bad_value that good_bad keeps: the last one found; a number that cannot
\* be read is bad and leaves no value.
Remembered(s, t, m) ==
  LET bad == SelectSeq(FilesOf[t], LAMBDA f : ~FileIsGood(t, s[f]))
  IN IF bad = <<>> \/ (t \in Numeric /\ s[Last(bad)] = Missing)
     THEN m[t] ELSE <<s[Last(bad)]>>

\* Each tunable of a list is judged once more.
AllRemembered(s, list, m) ==
  [t \in Tunables |-> IF t \in ToSet(list) \cap Sysfs THEN Remembered(s, t, m) ELSE m[t]]

IsUp(s, listed) == \E t \in listed \cap OfKind({"bluetooth"}) : s[FilesOf[t][1]] = On

\* The snapshots after a handler that changes the settings from s to after and
\* judges the listed tunables.
Snaps(s, after, list) ==
  IF IsUp(s, ToSet(list)) \/ IsUp(after, ToSet(list)) THEN Snapped(snap) ELSE snap

-----------------------------------------------------------------------------
(***************************************************************************)
(* Toggling.                                                               *)
(***************************************************************************)
\* A good tunable that was never seen bad, or was unreadable then, is left alone.
SysfsToggling(s, t, m) ==
  IF ~IsGood(s, t) THEN <<Target[t]>>
  ELSE IF m[t] = <<Missing>> THEN <<>> ELSE m[t]

\* An active Bluetooth interface is switched on.
BluetoothToggling(s, t) == IF IsGood(s, t) THEN <<On>> ELSE <<Off>>

SwitchToggling(s, t) == IF IsGood(s, t) THEN <<Off>> ELSE <<On>>

\* What toggle writes, if anything.
Toggling(s, t, m) ==
  CASE t \in Sysfs -> SysfsToggling(s, t, m)
    [] Kind[t] = "bluetooth" -> BluetoothToggling(s, t)
    [] OTHER -> SwitchToggling(s, t)

\* mutant: only the first of the files that a path matches is written.
Toggled_FirstFile(s, t, m) ==
  LET content == Toggling(s, t, m)
  IN IF content = <<>> THEN s ELSE WriteSysfs(s, <<FilesOf[t][1]>>, content[1])

Toggled(s, t, m) ==
  LET content == Toggling(s, t, m)
  IN IF content = <<>> THEN s ELSE WriteSysfs(s, FilesOf[t], content[1])

\* toggle_script: <<>>, or the content that the command gives the files.
ToggleScript(s, t, m) ==
  IF t \notin Sysfs THEN Toggling(s, t, m)
  ELSE IF IsGood(s, t) THEN m[t] ELSE <<Target[t]>>

WakeupValue(s, w) == s[FilesOf[w][1]] = On
WakeupToggling(s, w) == IF WakeupValue(s, w) THEN Off ELSE On
WakeupScript(s, w) == IF WakeupValue(s, w) THEN <<Off>> ELSE <<On>>

-----------------------------------------------------------------------------
(***************************************************************************)
(* The lists.                                                              *)
(***************************************************************************)
SysfsTunables(s) == {t \in Sysfs \ Numeric : Exists(s, t)}
NumericTunables(s) == {t \in Numeric : Exists(s, t)}
BluetoothTunables(s) == {t \in OfKind({"bluetooth"}) : Exists(s, t)}
WifiTunables(s) == {t \in OfKind({"wifi"}) : Exists(s, t)}
\* A USB device that cannot suspend is not mentioned, ...
UsbTunables(s) == {t \in OfKind({"usb"}) \ Unsupported : Exists(s, t)}
\* ... a PCI or I2C device that has no runtime power management is.
RuntimeTunables(s) == {t \in OfKind({"runtime"}) \ Unsupported : Exists(s, t)}
Untunables(s) == {t \in OfKind({"runtime"}) \cap Unsupported : Exists(s, t)}

Listed(s) ==
  BluetoothTunables(s) \cup RuntimeTunables(s) \cup UsbTunables(s) \cup WifiTunables(s)
    \cup SysfsTunables(s) \cup NumericTunables(s)

\* What stands first in the order comes first.
InOrder(S, order) ==
  [i \in 1..Cardinality(S) |->
     CHOOSE x \in S : Cardinality({y \in S : <<y, x>> \in order}) = i - 1]

SortOrder(listed, good) ==
  {p \in listed \X listed :
     IF (p[1] \in good) = (p[2] \in good) THEN Rank[p[1]] < Rank[p[2]] ELSE p[2] \in good}

\* tunables_sort, by verdicts that are given: bad ones first.  At least two are
\* listed on any machine, so that sorting judges each.
Sorted(listed, good) == InOrder(listed, SortOrder(listed, good))

\* init_tuning; a Bluetooth interface that has just been listed is good.
InitTuning(s) == Sorted(Listed(s), {t \in Tunables : Kind[t] = "bluetooth" \/ IsGood(s, t)})

FirstMemory(s) == AllRemembered(s, SetToSeq(Listed(s)), [t \in Tunables |-> <<>>])
FirstSnaps(s) == IF IsUp(s, Tunables) THEN Snapped(NoSnaps) ELSE NoSnaps

WakeupsThere(s, wakeups) ==
  LET there == {i \in DOMAIN wakeups : Exists(s, wakeups[i])}
      place == InOrder(there, {p \in there \X there : p[1] < p[2]})
  IN [i \in DOMAIN place |-> wakeups[place[i]]]
InitWakeup(s) == WakeupsThere(s, EthernetWakeups) \o WakeupsThere(s, UsbWakeups)

\* auto_toggle_tuning: one after the other, each judged when its turn comes.
AutoToggle(acc, t) ==
  IF IsGood(acc.setting, t) THEN acc
  ELSE LET judged == AllRemembered(acc.setting, <<t>>, acc.memory)
       IN [setting |-> Toggled(acc.setting, t, judged), memory |-> judged]

AutoToggled(s, list, m) == FoldLeft(AutoToggle, [setting |-> s, memory |-> m], list)
=============================================================================
