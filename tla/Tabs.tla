--------------------------------- MODULE Tabs ---------------------------------
(***************************************************************************)
(* The tabs on the screen and the keys (src/src/display.cpp and do_sleep   *)
(* of main.cpp), with the two tabs that have a cursor: tunables and wakeup *)
(* sources.  A tab is painted on a pad, of which a part is on the screen.  *)
(* Sideways scrolling, the GPU's and the devices' tabs are left out: they  *)
(* have no cursor, as "Overview" has none.                                 *)
(***************************************************************************)
EXTENDS Tunables

CONSTANTS
  Machines,     \* settings that a machine may start with
  Removable,    \* [file -> content it has when plugged in]
  Changeable,   \* files that others than this program write ...
  Contents,     \* ... to these contents
  MaxChanges,   \* bound on what others change
  ScrollMargin,
  Sizes,        \* lines of the terminal
  PlainRows     \* lines of a tab without a cursor

ASSUME ScreenAssumption ==
  /\ Machines \subseteq [Files -> Nat]
  /\ \A n \in Sizes : n \in Nat /\ n >= 6
  /\ ScrollMargin \in Nat /\ ScrollMargin >= 6

VARIABLES
  mode,         \* "keys", "auto-tune", "tuned" or "crashed"
  lines,
  current_tab,
  cursor_pos, cursor_max, ypad_pos,  \* of each tab
  pad,          \* of each tab: the entries and the cursor as painted last
  screen,       \* the tab, its pad and the first line of it that are shown
  notification, \* <<>>, or what was announced: a tunable or wakeup source and content
  changes

tabVars == <<current_tab, cursor_pos, ypad_pos, pad, screen, notification>>
terminalVars == <<cursor_max, lines>>
vars == <<bluetoothVars, tunableVars, tabVars, terminalVars, mode, changes>>

tab_names == <<"Overview", "Tunables", "WakeUp">>
Tabs == ToSet(tab_names)
Lists == {"Tunables", "WakeUp"}
FirstRow == [Overview |-> 0, Tunables |-> 2, WakeUp |-> 1]

Tab == tab_names[current_tab]

\* What a repaint puts on the pad, of a list and a position.
Painted(list, pos) == [entries |-> list, cursor |-> pos]

\* show_tab, on what the handler leaves.
ShowTab ==
  LET tab == tab_names[current_tab']
  IN screen' = [tab |-> tab, pad |-> pad'[tab], top |-> ypad_pos'[tab]]

\* repaint of these tabs; the plain ones have nothing to paint.
Repaint(tabs) ==
  pad' = [w \in Tabs |->
            IF w \notin tabs THEN pad[w]
            ELSE CASE w = "Tunables" -> Painted(all_tunables', cursor_pos'["Tunables"])
                   [] w = "WakeUp" -> Painted(wakeup_all', cursor_pos'["WakeUp"])
                   [] OTHER -> pad[w]]

LastIndex(list) == IF list = <<>> THEN 0 ELSE Len(list) - 1

\* After the first, short measurement, which painted both lists.
Init ==
  /\ clock = 0 /\ bytes = 0 /\ last_traffic = 0
  /\ setting \in Machines /\ snap = FirstSnaps(setting)
  /\ all_tunables = InitTuning(setting)
  /\ all_untunables = Untunables(setting)
  /\ memory = FirstMemory(setting)
  /\ wakeup_all = InitWakeup(setting)
  /\ mode \in {"keys", "auto-tune"} /\ lines \in Sizes
  /\ current_tab = 1
  /\ cursor_pos = [w \in Tabs |-> 0] /\ ypad_pos = [w \in Tabs |-> 0]
  /\ cursor_max = [Overview |-> 0, Tunables |-> LastIndex(all_tunables), WakeUp |-> LastIndex(wakeup_all)]
  /\ pad = [Overview |-> Painted(<<>>, 0), Tunables |-> Painted(all_tunables, 0),
            WakeUp |-> Painted(wakeup_all, 0)]
  /\ screen = [tab |-> "Overview", pad |-> pad["Overview"], top |-> 0]
  /\ notification = <<>> /\ changes = 0

Keys == mode = "keys" /\ UNCHANGED <<cursor_max, changes>>
SameBytes == UNCHANGED <<clock, bytes, last_traffic>>

-----------------------------------------------------------------------------
(***************************************************************************)
(* Tabs.                                                                   *)
(***************************************************************************)
SortedNow == Sorted(ToSet(all_tunables), {t \in Tunables : IsGood(setting, t)})

\* expose of the tab; every result on the tunables' tab is asked for again.
Expose(tab) ==
  /\ cursor_pos' = [cursor_pos EXCEPT ![tab] = 0]
  /\ all_tunables' = IF tab = "Tunables" THEN SortedNow ELSE all_tunables
  /\ IF tab = "Tunables"
     THEN /\ memory' = AllRemembered(setting, all_tunables, memory)
          /\ snap' = Snaps(setting, setting, all_tunables)
     ELSE UNCHANGED <<memory, snap>>
  /\ Repaint({tab})

GoTo(number) ==
  /\ Keys /\ mode' = mode /\ lines' = lines
  /\ current_tab' = number
  /\ SameBytes /\ UNCHANGED <<setting, all_untunables, wakeup_all, ypad_pos>>
  /\ Expose(tab_names[number])
  /\ notification' = <<>>
  /\ ShowTab

ShowNextTab == GoTo(IF current_tab = Len(tab_names) THEN 1 ELSE current_tab + 1)
ShowPrevTab == GoTo(IF current_tab = 1 THEN Len(tab_names) ELSE current_tab - 1)

-----------------------------------------------------------------------------
(***************************************************************************)
(* The cursor.                                                             *)
(***************************************************************************)
\* Moving repaints, for which the tunables are judged again.
Moved ==
  /\ Keys /\ mode' = mode /\ lines' = lines
  /\ IF Tab = "Tunables"
     THEN /\ memory' = AllRemembered(setting, all_tunables, memory)
          /\ snap' = Snaps(setting, setting, all_tunables)
     ELSE UNCHANGED <<memory, snap>>
  /\ SameBytes
  /\ UNCHANGED <<setting, all_tunables, all_untunables, wakeup_all, current_tab, notification>>
  /\ Repaint({Tab})
  /\ ShowTab

Viewport == lines - 3
ContentMaxY(w) == IF w \in Lists THEN FirstRow[w] + Len(pad[w].entries) ELSE PlainRows
YpadMax(w) == IF ContentMaxY(w) - Viewport + 2 < 0 THEN 0 ELSE ContentMaxY(w) - Viewport + 2

\* mutant: the list scrolls when the cursor is two lines from the bottom.
ScrollsDown_Late(w) ==
  /\ ypad_pos[w] < YpadMax(w)
  /\ w \in Lists => cursor_pos[w] + 2 >= lines

ScrollsDown(w) ==
  /\ ypad_pos[w] < YpadMax(w)
  /\ w \in Lists => cursor_pos[w] + ScrollMargin >= lines

CursorDown ==
  /\ ypad_pos' = [ypad_pos EXCEPT ![Tab] = IF ScrollsDown(Tab) THEN @ + 1 ELSE @]
  /\ cursor_pos' = [cursor_pos EXCEPT
       ![Tab] = IF Tab \in Lists /\ @ < cursor_max[Tab] THEN @ + 1 ELSE @]
  /\ Moved

CursorUp ==
  /\ cursor_pos' = [cursor_pos EXCEPT ![Tab] = IF @ > 0 THEN @ - 1 ELSE @]
  /\ ypad_pos' = [ypad_pos EXCEPT ![Tab] = IF @ > 0 THEN @ - 1 ELSE @]
  /\ Moved

\* mutant: the command is asked for after the toggle.
EnterTunable_ScriptAfter ==
  /\ Tab = "Tunables"
  /\ cursor_pos[Tab] < Len(all_tunables)
  /\ LET t == all_tunables[cursor_pos[Tab] + 1]
         judged == AllRemembered(setting, <<t>>, memory)
     IN /\ setting' = Toggled(setting, t, judged)
        /\ memory' = AllRemembered(setting', all_tunables, judged)
        /\ snap' = Snaps(setting, setting', all_tunables)
        /\ LET script == ToggleScript(setting', t, memory')
           IN notification' = IF script = <<>> THEN notification
                              ELSE <<[entry |-> t, content |-> script[1]]>>
  /\ UNCHANGED <<mode, wakeup_all>>

\* cursor_enter on a tunable.  Only the wakeup tab checks that the list still
\* reaches to the cursor; without the check the program reads past its end.
EnterTunable ==
  /\ Tab = "Tunables"
  /\ IF cursor_pos[Tab] >= Len(all_tunables)
     THEN /\ mode' = "crashed"
          /\ UNCHANGED <<setting, memory, snap, notification>>
     ELSE LET t == all_tunables[cursor_pos[Tab] + 1]
              judged == AllRemembered(setting, <<t>>, memory)
              script == ToggleScript(setting, t, judged)
          IN /\ mode' = mode
             /\ setting' = Toggled(setting, t, judged)
             /\ memory' = AllRemembered(setting', all_tunables, judged)
             /\ snap' = Snaps(setting, setting', all_tunables)
             /\ notification' = IF script = <<>> THEN notification
                                ELSE <<[entry |-> t, content |-> script[1]]>>
  /\ UNCHANGED wakeup_all

EnterWakeup ==
  /\ Tab = "WakeUp"
  /\ IF cursor_pos[Tab] >= Len(wakeup_all) THEN UNCHANGED <<setting, notification>>
     ELSE LET w == wakeup_all[cursor_pos[Tab] + 1]
          IN /\ setting' = WriteSysfs(setting, FilesOf[w], WakeupToggling(setting, w))
             /\ notification' = <<[entry |-> w, content |-> WakeupScript(setting, w)[1]]>>
  /\ UNCHANGED <<mode, memory, snap, wakeup_all>>

CursorEnter ==
  /\ Keys /\ lines' = lines
  /\ Tab \in Lists
  /\ EnterTunable \/ EnterWakeup
  /\ UNCHANGED <<all_tunables, all_untunables, current_tab, cursor_pos, ypad_pos>>
  /\ SameBytes
  /\ Repaint({Tab})
  /\ ShowTab

-----------------------------------------------------------------------------
(***************************************************************************)
(* Refreshing, and the rest of the keys.                                   *)
(***************************************************************************)
\* window_refresh: the list is made anew, its tunables have seen nothing yet.
\* cursor_pos and cursor_max are left alone.
WindowRefresh ==
  /\ Keys /\ mode' = mode
  /\ ypad_pos' = [ypad_pos EXCEPT ![Tab] = 0]
  /\ IF Tab = "Tunables"
     THEN /\ all_tunables' = InitTuning(setting)
          /\ all_untunables' = Untunables(setting)
          /\ memory' = FirstMemory(setting)
          /\ snap' = FirstSnaps(setting)
     ELSE UNCHANGED <<all_tunables, all_untunables, memory, snap>>
  /\ wakeup_all' = IF Tab = "WakeUp" THEN InitWakeup(setting) ELSE wakeup_all
  /\ notification' = <<>>
  /\ UNCHANGED <<setting, current_tab, cursor_pos>>
  /\ SameBytes
  /\ Repaint({Tab})
  /\ ShowTab

Refresh == WindowRefresh /\ UNCHANGED lines
Resize == WindowRefresh /\ lines' \in Sizes \ {lines}

\* set_refresh_timeout goes to the first tab without exposing it.
SetRefreshTimeout ==
  /\ Keys /\ mode' = mode /\ lines' = lines
  /\ current_tab' = 1
  /\ UNCHANGED <<bluetoothVars, tunableVars, cursor_pos, ypad_pos, pad, notification>>
  /\ ShowTab

\* The end of a measurement: both lists are painted, and the current tab shown.
EndOfMeasurement ==
  /\ Keys /\ mode' = mode /\ lines' = lines
  /\ memory' = AllRemembered(setting, all_tunables, memory)
  /\ snap' = Snaps(setting, setting, all_tunables)
  /\ UNCHANGED <<setting, all_tunables, all_untunables, wakeup_all, current_tab, cursor_pos, ypad_pos, notification>>
  /\ SameBytes
  /\ Repaint(Lists)
  /\ ShowTab

\* --auto-tune: once, and without a display.
AutoTune ==
  /\ mode = "auto-tune" /\ mode' = "tuned"
  /\ LET tuned == AutoToggled(setting, all_tunables, memory)
     IN setting' = tuned.setting /\ memory' = tuned.memory
  /\ snap' = Snaps(setting, setting, all_tunables)
  /\ SameBytes
  /\ UNCHANGED <<all_tunables, all_untunables, wakeup_all, tabVars, terminalVars, changes>>

-----------------------------------------------------------------------------
(***************************************************************************)
(* The machine: settings change and devices come and go.                   *)
(***************************************************************************)
Change(f, content) ==
  /\ changes < MaxChanges /\ changes' = changes + 1
  /\ mode = "keys"
  /\ setting' = [setting EXCEPT ![f] = content]
  /\ UNCHANGED <<bluetoothVars, all_tunables, all_untunables, memory, wakeup_all, tabVars, terminalVars, mode>>

Unplug == \E f \in DOMAIN Removable : setting[f] # Missing /\ Change(f, Missing)
PlugIn == \E f \in DOMAIN Removable : setting[f] = Missing /\ Change(f, Removable[f])
OthersWrite ==
  \E f \in Changeable, content \in Contents :
    setting[f] \notin {Missing, content} /\ Change(f, content)

Air ==
  /\ \E t \in Tunables : Kind[t] = "bluetooth" /\ setting[FilesOf[t][1]] # Missing
  /\ mode = "keys"
  /\ \/ TimePasses
     \/ /\ \E t \in Tunables : Kind[t] = "bluetooth" /\ setting[FilesOf[t][1]] = On
        /\ Traffic
  /\ UNCHANGED <<tunableVars, tabVars, terminalVars, mode, changes>>

Next ==
  \/ ShowNextTab \/ ShowPrevTab
  \/ CursorDown \/ CursorUp \/ CursorEnter
  \/ Refresh \/ Resize \/ SetRefreshTimeout
  \/ EndOfMeasurement \/ AutoTune
  \/ Unplug \/ PlugIn \/ OthersWrite \/ Air

Spec == Init /\ [][Next]_vars
-----------------------------------------------------------------------------
(***************************************************************************)
(* Properties.                                                             *)
(***************************************************************************)
Highlighted(s) == s.pad.entries[s.pad.cursor + 1]

\* Enter acts on the entry that is highlighted on the screen and on nothing
\* else, and each file of it that exists then has the content that the
\* notification names (tuning.cpp:164, waketab.cpp:99, display.cpp:423).  A
\* value that was read as empty is named but not written.  Since the cursor is
\* compared with cursor_max and not with the list at hand, the key reads past
\* the end of the list of tunables, but only where the list was made anew and
\* does not reach to the last line that it had at first (tuning.cpp:166 and 195,
\* display.h:89-98; for wakeup sources waketab.cpp:101 compares them).
EnterDoesWhatItSays ==
  [][CursorEnter =>
       /\ \A f \in Files : setting'[f] # setting[f] =>
            /\ screen.pad.cursor < Len(screen.pad.entries)
            /\ f \in ToSet(FilesOf[Highlighted(screen)])
       /\ notification' # notification =>
            /\ notification'[1].entry = Highlighted(screen)
            /\ \A f \in ToSet(FilesOf[Highlighted(screen)]) :
                 setting[f] # Missing /\ notification'[1].content # Missing =>
                   setting'[f] = notification'[1].content
       /\ mode' = "crashed" => Len(all_tunables) <= cursor_max["Tunables"]]_vars

InSight(w) ==
  /\ cursor_pos[w] < Len(pad[w].entries)
  /\ FirstRow[w] + cursor_pos[w] \in ypad_pos[w]..(ypad_pos[w] + Viewport - 1)

\* As long as the user stays on a tab, the highlighted entry goes out of sight
\* only where the code moves one of the cursor and the scroll position without
\* the other: when the list is made anew (display.cpp:440-447), and when moving
\* down in a list that has not the length it had when the tab was made
\* (cursor_max, display.h:89-98).  Changing tabs may lose it too, since expose()
\* resets only the cursor (tuning.cpp:205).  Moving up always leads back to it:
\* it never loses an entry in sight, and otherwise one of the cursor and the
\* scroll position, neither of which is ever negative, gets smaller until an
\* entry is in sight (display.cpp:371-393).
HighlightInSight ==
  [][\A w \in Lists : Tab = w =>
       /\ Tab' = w /\ InSight(w) /\ ~InSight(w)' =>
            \/ Refresh \/ Resize
            \/ CursorDown /\ Len(pad[w].entries) # cursor_max[w] + 1
       /\ CursorUp /\ pad[w].entries # <<>> =>
            \/ InSight(w)'
            \/ /\ ~InSight(w)
               /\ cursor_pos'[w] + ypad_pos'[w] \in 0..(cursor_pos[w] + ypad_pos[w] - 1)]_vars

\* --auto-tune leaves no tunable bad whose files all exist: verdicts, targets
\* and what toggling writes agree (tuning.cpp:330, tuningsysfs.cpp:112,
\* runtime.cpp:99, bluetooth.cpp:200, wifi.cpp:59).
AutoTuneFixes ==
  [][AutoTune =>
       \A t \in ToSet(all_tunables) :
         (\A f \in ToSet(FilesOf[t]) : setting[f] # Missing) => IsGood(setting', t)]_vars

\* Whenever Bluetooth is called idle, there was no traffic for a minute, as the
\* comment at bluetooth.cpp:116-120 promises, whatever was refreshed, toggled
\* or repainted in between.
IdleMeansQuiet ==
  \A t \in ToSet(all_tunables) :
    Kind[t] = "bluetooth" /\ ~IsGood(setting, t) => clock - last_traffic >= Minute
=============================================================================
