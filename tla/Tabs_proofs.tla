----------------------------- MODULE Tabs_proofs -----------------------------
(***************************************************************************)
(* Proofs about the tabs: when Bluetooth is called idle, and that Enter    *)
(* and the cursor act on what is on the screen.                            *)
(***************************************************************************)
EXTENDS Tabs, Sums_proofs

(***************************************************************************)
(* Bluetooth.                                                              *)
(***************************************************************************)
\* What a snapshot knows: if the counter still has the value it had then, no
\* byte went over the air since; and the older one, if there is one, was taken
\* a minute before the younger at least.
SnapOK(s) ==
  /\ s \in [bytes : Int \X Int, time : Nat \X Nat]
  /\ \A i \in 1..2 :
       /\ s.time[i] <= clock
       /\ s.bytes[i] <= bytes
       /\ s.bytes[i] = bytes => last_traffic <= s.time[i]
  /\ s.bytes[2] >= 0 => s.time[2] + Minute <= s.time[1]

IdleInv ==
  /\ clock \in Nat /\ bytes \in 0..MaxBytes /\ last_traffic \in 0..clock
  /\ SnapOK(snap)

\* As long as the sum of the counters is not negative it is the number of bytes.
LEMMA ReadingIs ==
  ASSUME IdleInv
  PROVE  ThisBytes \in Int /\ ThisBytes <= bytes /\ (ThisBytes >= 0 => ThisBytes = bytes)
BY WrapAssumption DEF IdleInv, ThisBytes

\* Snapshots stay right when one more is taken.
LEMMA SnappedIsOK ==
  ASSUME IdleInv, NEW s, SnapOK(s)
  PROVE  SnapOK(Snapped(s))
<1>1. s = [bytes |-> <<s.bytes[1], s.bytes[2]>>, time |-> <<s.time[1], s.time[2]>>]
  BY DEF SnapOK
<1>2. PICK b1 \in Int, b2 \in Int, t1 \in Nat, t2 \in Nat :
        s = [bytes |-> <<b1, b2>>, time |-> <<t1, t2>>]
  BY <1>1 DEF SnapOK
<1>3. CASE b1 < 0
  <2>1. Snapped(s) = [bytes |-> <<ThisBytes, b2>>, time |-> <<clock, t2>>]
    BY <1>2, <1>3 DEF Snapped
  <2> QED  BY <1>2, <2>1, ReadingIs, WrapAssumption DEF SnapOK, IdleInv
<1>4. CASE b1 >= 0 /\ clock - t1 >= Minute
  <2>1. Snapped(s) = [bytes |-> <<ThisBytes, b1>>, time |-> <<clock, t1>>]
    BY <1>2, <1>4 DEF Snapped
  <2> QED  BY <1>2, <1>4, <2>1, ReadingIs, WrapAssumption DEF SnapOK, IdleInv
<1>5. CASE b1 >= 0 /\ ~(clock - t1 >= Minute)
  BY <1>2, <1>5 DEF Snapped
<1> QED  BY <1>3, <1>4, <1>5

\* So are those of a list that has just been made, and those of any handler.
LEMMA SnapsAreOK ==
  ASSUME IdleInv
  PROVE  /\ \A s : SnapOK(FirstSnaps(s))
         /\ \A s, after, list : SnapOK(Snaps(s, after, list))
<1>1. SnapOK(NoSnaps)  BY WrapAssumption DEF SnapOK, NoSnaps, IdleInv
<1>2. SnapOK(Snapped(NoSnaps)) /\ SnapOK(Snapped(snap)) /\ SnapOK(snap)
  BY <1>1, SnappedIsOK DEF IdleInv
<1> QED  BY <1>1, <1>2 DEF FirstSnaps, Snaps

LEMMA InitIsIdle == Init => IdleInv
<1> SUFFICES ASSUME Init PROVE IdleInv  OBVIOUS
<1>1. SnapOK(NoSnaps)  BY DEF SnapOK, NoSnaps, Init
<1>2. SnapOK(Snapped(NoSnaps))
  <2>1. NoSnaps.bytes[1] < 0 /\ NoSnaps.bytes[2] = -1 /\ NoSnaps.time[2] = 0  BY DEF NoSnaps
  <2>2. ThisBytes \in {0, -(2 * HalfRange)}  BY WrapAssumption DEF Init, ThisBytes
  <2>3. Snapped(NoSnaps) = [bytes |-> <<ThisBytes, -1>>, time |-> <<0, 0>>]
    BY <2>1 DEF Snapped, Init
  <2> QED  BY <2>2, <2>3, WrapAssumption DEF SnapOK, Init
<1> QED  BY <1>1, <1>2, WrapAssumption DEF Init, IdleInv, FirstSnaps

\* A handler counts no bytes, and takes no snapshots but those of SnapsAreOK.
LEMMA HandlersKeepIdle ==
  ASSUME IdleInv, SameBytes,
         \/ UNCHANGED snap
         \/ \E s : snap' = FirstSnaps(s)
         \/ \E s, after, list : snap' = Snaps(s, after, list)
  PROVE  IdleInv'
<1>1. SnapOK(snap')  BY SnapsAreOK DEF IdleInv
<1> QED  BY <1>1 DEF IdleInv, SnapOK, SameBytes

LEMMA NextKeepsIdle == IdleInv /\ [Next]_vars => IdleInv'
<1> SUFFICES ASSUME IdleInv, [Next]_vars PROVE IdleInv'  OBVIOUS
<1> USE HandlersKeepIdle
<1>1. CASE ShowNextTab \/ ShowPrevTab
  BY <1>1 DEF ShowNextTab, ShowPrevTab, GoTo, Expose
<1>2. CASE CursorDown \/ CursorUp  BY <1>2 DEF CursorDown, CursorUp, Moved
<1>3. CASE CursorEnter
  <2>1. SameBytes  BY <1>3 DEF CursorEnter
  <2>2. UNCHANGED snap \/ \E s, after, list : snap' = Snaps(s, after, list)
    <3>1. CASE EnterTunable  BY <3>1, Zenon DEF EnterTunable
    <3>2. CASE EnterWakeup  BY <3>2 DEF EnterWakeup
    <3> QED  BY <1>3, <3>1, <3>2 DEF CursorEnter
  <2> QED  BY <2>1, <2>2
<1>4. CASE Refresh \/ Resize  BY <1>4 DEF Refresh, Resize, WindowRefresh
<1>5. CASE SetRefreshTimeout  BY <1>5 DEF SetRefreshTimeout, SameBytes, bluetoothVars
<1>6. CASE EndOfMeasurement  BY <1>6 DEF EndOfMeasurement
<1>7. CASE AutoTune  BY <1>7 DEF AutoTune
<1>8. CASE Unplug \/ PlugIn \/ OthersWrite
  BY <1>8 DEF Unplug, PlugIn, OthersWrite, Change, SameBytes, bluetoothVars
<1>9. CASE Air
  <2>1. CASE TimePasses  BY <2>1 DEF TimePasses, IdleInv, SnapOK
  <2>2. CASE Traffic
    <3>1. \A i \in 1..2 : snap.bytes[i] \in Int /\ snap.time[i] \in Nat  BY DEF IdleInv, SnapOK
    <3>2. \A i \in 1..2 : snap.bytes[i] < bytes + 1  BY <3>1 DEF IdleInv, SnapOK
    <3>3. SnapOK(snap)'  BY <2>2, <3>1, <3>2 DEF Traffic, IdleInv, SnapOK
    <3> QED  BY <2>2, <3>3, WrapAssumption DEF Traffic, IdleInv
  <2> QED  BY <1>9, <2>1, <2>2 DEF Air
<1>10. CASE UNCHANGED vars  BY <1>10 DEF vars, SameBytes, bluetoothVars
<1> QED
  BY <1>1, <1>2, <1>3, <1>4, <1>5, <1>6, <1>7, <1>8, <1>9, <1>10 DEF Next

\* Bluetooth is called idle only after a minute without traffic, whatever is
\* refreshed, toggled or repainted in between (bluetooth.cpp:103-160).
THEOREM IdleIsQuiet == Spec => []IdleMeansQuiet
<1>1. IdleInv => IdleMeansQuiet
  <2> SUFFICES ASSUME IdleInv, SeemsIdle(snap) PROVE clock - last_traffic >= Minute
    BY DEF IdleMeansQuiet, IsGood, BluetoothIsGood
  <2>1. SnapOK(snap) /\ SnapOK(Snapped(snap))  BY SnappedIsOK DEF IdleInv
  <2>2. Snapped(snap).bytes[2] = bytes /\ Snapped(snap).bytes[2] >= 0
    BY <2>1, ReadingIs DEF SeemsIdle
  <2>3. Snapped(snap).time[1] <= clock /\ last_traffic <= Snapped(snap).time[2]
        /\ Snapped(snap).time[2] + Minute <= Snapped(snap).time[1]
    BY <2>1, <2>2 DEF SnapOK
  <2>4. Snapped(snap).time[1] \in Nat /\ Snapped(snap).time[2] \in Nat  BY <2>1 DEF SnapOK
  <2> QED  BY <2>3, <2>4, WrapAssumption DEF IdleInv
<1> QED  BY <1>1, InitIsIdle, NextKeepsIdle, PTL DEF Spec
-----------------------------------------------------------------------------
(***************************************************************************)
(* The lists.                                                              *)
(***************************************************************************)
\* Putting a finite set in a strict total order gives each of its members once.
LEMMA InOrderIsOnto ==
  ASSUME NEW S, NEW order, IsFiniteSet(S),
         \A x \in S : <<x, x>> \notin order,
         \A x, y \in S : x # y => <<x, y>> \in order \/ <<y, x>> \in order,
         \A x, y, z \in S : <<x, y>> \in order /\ <<y, z>> \in order => <<x, z>> \in order
  PROVE  /\ InOrder(S, order) \in [1..Cardinality(S) -> S]
         /\ Cardinality(S) \in Nat
<1> DEFINE Before(x) == {y \in S : <<y, x>> \in order}
           place == [x \in S |-> Cardinality(Before(x))]
<1>1. Cardinality(S) \in Nat  BY FS_CardinalityType
<1>2. ASSUME NEW x \in S
      PROVE  IsFiniteSet(Before(x)) /\ place[x] \in 0..(Cardinality(S) - 1)
  <2>1. Before(x) \subseteq S \ {x}  OBVIOUS
  <2>2. IsFiniteSet(S \ {x}) /\ Cardinality(S \ {x}) = Cardinality(S) - 1
    BY FS_RemoveElement
  <2> HIDE DEF Before
  <2>3. IsFiniteSet(Before(x)) /\ Cardinality(Before(x)) <= Cardinality(S) - 1
    BY <2>1, <2>2, FS_Subset
  <2>4. Cardinality(Before(x)) \in Nat  BY <2>3, FS_CardinalityType
  <2> QED  BY <1>1, <2>3, <2>4
<1>3. ASSUME NEW x \in S, NEW y \in S, <<x, y>> \in order PROVE place[x] # place[y]
  <2>1. Before(x) \subseteq Before(y) /\ x \in Before(y) \ Before(x)  BY <1>3
  <2>2. Cardinality(Before(x)) # Cardinality(Before(y))
    BY <1>2, <2>1, FS_Subset
  <2> QED  BY <2>2
<1>4. place \in Injection(S, 0..(Cardinality(S) - 1))
  <2>1. place \in [S -> 0..(Cardinality(S) - 1)]  BY <1>2
  <2>2. \A x, y \in S : place[x] = place[y] => x = y
    <3> HIDE DEF place
    <3> QED  BY <1>3
  <2> QED  BY <2>1, <2>2 DEF Injection, IsInjective
<1>5. place \in Surjection(S, 0..(Cardinality(S) - 1))
  <2> DEFINE last == Cardinality(S) - 1
  <2>1. last \in Int /\ (0 > last => last = -1) /\ last - 0 + 1 = Cardinality(S)  BY <1>1
  <2> HIDE DEF last
  <2>2. IsFiniteSet(0..last) /\ Cardinality(0..last) = Cardinality(S)
    BY <2>1, FS_Interval
  <2> HIDE DEF place
  <2> QED  BY <1>4, <2>2, FS_Injection DEF last
<1>6. ASSUME NEW i \in 1..Cardinality(S) PROVE InOrder(S, order)[i] \in S
  <2>1. i - 1 \in 0..(Cardinality(S) - 1)  BY <1>1
  <2>2. \E x \in S : place[x] = i - 1  BY <1>5, <2>1 DEF Surjection
  <2>3. \E x \in S : Cardinality(Before(x)) = i - 1  BY <2>2
  <2> QED  BY <2>3 DEF InOrder
<1> QED  BY <1>1, <1>6 DEF InOrder

\* The tunables are put in the order of their scores and verdicts.
LEMMA SortedIsList ==
  ASSUME NEW listed \in SUBSET Tunables, NEW good
  PROVE  Sorted(listed, good) \in Seq(Tunables)
<1> DEFINE order == SortOrder(listed, good)
<1>1. IsFiniteSet(listed)  BY FilesAssumption, FS_Subset
<1>2. \A t, u \in listed :
        <<t, u>> \in order <=>
          IF (t \in good) = (u \in good) THEN Rank[t] < Rank[u] ELSE u \in good
  BY DEF SortOrder
<1>3. \A t, u \in listed : Rank[t] \in Nat /\ (Rank[t] = Rank[u] => t = u)
  BY RankAssumption
<1>4. \A t \in listed : <<t, t>> \notin order  BY <1>2, <1>3
<1>5. \A t, u \in listed : t # u => <<t, u>> \in order \/ <<u, t>> \in order
  BY <1>2, <1>3
<1>6. \A t, u, v \in listed : <<t, u>> \in order /\ <<u, v>> \in order => <<t, v>> \in order
  BY <1>2, <1>3
<1> HIDE DEF order
<1>7. InOrder(listed, order) \in [1..Cardinality(listed) -> listed] /\ Cardinality(listed) \in Nat
  BY <1>1, <1>4, <1>5, <1>6, InOrderIsOnto
<1> QED  BY <1>7 DEF Sorted, order

\* The devices that can wake the machine are listed as they were found.
LEMMA WakeupsAreListed ==
  ASSUME NEW s
  PROVE  InitWakeup(s) \in Seq(Wakeups)
<1>1. ASSUME NEW found \in Seq(Wakeups) PROVE WakeupsThere(s, found) \in Seq(Wakeups)
  <2> DEFINE there == {i \in DOMAIN found : Exists(s, found[i])}
             order == {p \in there \X there : p[1] < p[2]}
             place == InOrder(there, order)
  <2>1. IsFiniteSet(there)
    <3>1. DOMAIN found = 1..Len(found) /\ Len(found) \in Nat  OBVIOUS
    <3>2. IsFiniteSet(1..Len(found))  BY <3>1, FS_Interval
    <3> QED  BY <3>1, <3>2, FS_Subset
  <2>2. \A i, j \in there : <<i, j>> \in order <=> i < j  OBVIOUS
  <2>3. there \subseteq Int  OBVIOUS
  <2>4. \A i \in there : found[i] \in Wakeups  OBVIOUS
  <2> HIDE DEF order, there
  <2>5. \A i \in there : <<i, i>> \notin order  BY <2>2, <2>3
  <2>6. \A i, j \in there : i # j => <<i, j>> \in order \/ <<j, i>> \in order  BY <2>2, <2>3
  <2>7. \A i, j, k \in there : <<i, j>> \in order /\ <<j, k>> \in order => <<i, k>> \in order
    BY <2>2, <2>3
  <2>8. place \in [1..Cardinality(there) -> there] /\ Cardinality(there) \in Nat
    BY <2>1, <2>5, <2>6, <2>7, InOrderIsOnto
  <2>9. WakeupsThere(s, found) = [i \in DOMAIN place |-> found[place[i]]]
    BY DEF WakeupsThere, there, order
  <2> HIDE DEF place
  <2>10. [i \in DOMAIN place |-> found[place[i]]] \in [1..Cardinality(there) -> Wakeups]
    BY <2>4, <2>8
  <2>11. [1..Cardinality(there) -> Wakeups] \subseteq Seq(Wakeups)  BY <2>8
  <2> QED  BY <2>9, <2>10, <2>11
<1> QED  BY <1>1, FilesAssumption DEF InitWakeup
-----------------------------------------------------------------------------
(***************************************************************************)
(* The screen.                                                             *)
(***************************************************************************)
ListsOK == all_tunables \in Seq(Tunables) /\ wakeup_all \in Seq(Wakeups)

PositionsOK ==
  /\ current_tab \in 1..3
  /\ lines \in Sizes
  /\ cursor_pos \in [Tabs -> Nat] /\ ypad_pos \in [Tabs -> Nat] /\ cursor_max \in [Tabs -> Nat]
  /\ \A w \in Tabs : cursor_pos[w] <= cursor_max[w]

\* What was painted last is what there is, and the current tab is shown.
PaintedOK ==
  /\ pad["Tunables"] = Painted(all_tunables, cursor_pos["Tunables"])
  /\ pad["WakeUp"] = Painted(wakeup_all, cursor_pos["WakeUp"])
  /\ screen.tab = Tab /\ screen.pad = pad[Tab]

\* While there is a display.
ScreenInv == mode = "keys" => ListsOK /\ PositionsOK /\ PaintedOK

LEMMA TabNames ==
  /\ Tabs = {"Overview", "Tunables", "WakeUp"}
  /\ Len(tab_names) = 3
  /\ \A i \in 1..3 : tab_names[i] \in Tabs
BY DEF Tabs, tab_names, ToSet

LEMMA ListsAreMade ==
  /\ \A s : InitTuning(s) \in Seq(Tunables)
  /\ \A s : InitWakeup(s) \in Seq(Wakeups)
  /\ ListsOK => SortedNow \in Seq(Tunables)
<1>1. \A s : Listed(s) \subseteq Tunables
  <2>1. \A kinds : OfKind(kinds) \subseteq Tunables  BY DEF OfKind
  <2>2. Sysfs \subseteq Tunables /\ Numeric \subseteq Tunables  BY <2>1, Zenon DEF Sysfs, Numeric
  <2> QED
    BY <2>1, <2>2 DEF Listed, BluetoothTunables, RuntimeTunables, UsbTunables, WifiTunables,
      SysfsTunables, NumericTunables
<1>2. ListsOK => ToSet(all_tunables) \subseteq Tunables  BY DEF ListsOK, ToSet
<1> QED  BY <1>1, <1>2, SortedIsList, WakeupsAreListed DEF InitTuning, SortedNow

LEMMA InitShows == Init => ScreenInv
<1> SUFFICES ASSUME Init PROVE ListsOK /\ PositionsOK /\ PaintedOK  BY DEF ScreenInv
<1>1. ListsOK  BY ListsAreMade DEF Init, ListsOK
<1>2. PositionsOK
  <2>1. cursor_max \in [Tabs -> Nat]
    BY <1>1, TabNames DEF Init, ListsOK, LastIndex
  <2> QED  BY <2>1, TabNames DEF Init, PositionsOK
<1>3. PaintedOK
  BY TabNames DEF Init, PaintedOK, Tab, tab_names
<1> QED  BY <1>1, <1>2, <1>3

\* Once the tabs that a handler touched are repainted, and the current one is
\* shown, the screen is right.
LEMMA RepaintedIsShown ==
  ASSUME PaintedOK, PositionsOK, PositionsOK', NEW tabs, Repaint(tabs), ShowTab,
         "Tunables" \in tabs \/ (UNCHANGED all_tunables /\ cursor_pos'["Tunables"] = cursor_pos["Tunables"]),
         "WakeUp" \in tabs \/ (UNCHANGED wakeup_all /\ cursor_pos'["WakeUp"] = cursor_pos["WakeUp"])
  PROVE  PaintedOK'
<1>1. pad'["Tunables"] = Painted(all_tunables', cursor_pos'["Tunables"])
  BY TabNames DEF Repaint, PaintedOK
<1>2. pad'["WakeUp"] = Painted(wakeup_all', cursor_pos'["WakeUp"])
  BY TabNames DEF Repaint, PaintedOK
<1>3. screen'.tab = tab_names[current_tab'] /\ screen'.pad = pad'[tab_names[current_tab']]
  BY DEF ShowTab
<1> QED  BY <1>1, <1>2, <1>3 DEF PaintedOK, Tab

\* The current tab is repainted by every handler that changes a list or a
\* position, which are its own.
LEMMA OwnRepaint ==
  ASSUME PaintedOK, PositionsOK, PositionsOK', NEW tab, Repaint({tab}), ShowTab,
         \A w \in Lists \ {tab} : cursor_pos'[w] = cursor_pos[w],
         tab # "Tunables" => UNCHANGED all_tunables,
         tab # "WakeUp" => UNCHANGED wakeup_all
  PROVE  PaintedOK'
BY RepaintedIsShown DEF Lists

LEMMA NextShows == ScreenInv /\ [Next]_vars => ScreenInv'
<1> SUFFICES ASSUME mode' = "keys", ScreenInv, [Next]_vars
             PROVE  ListsOK' /\ PositionsOK' /\ PaintedOK'
  BY DEF ScreenInv
<1>0. CASE AutoTune  BY <1>0 DEF AutoTune
<1>k. CASE mode = "keys"
  <2>0. ListsOK /\ PositionsOK /\ PaintedOK  BY <1>k DEF ScreenInv
  <2>t. Tab \in Tabs  BY <2>0, TabNames DEF PositionsOK, Tab
  <2>1. ASSUME NEW number \in 1..3, GoTo(number) PROVE ListsOK' /\ PositionsOK' /\ PaintedOK'
    <3> DEFINE tab == tab_names[number]
    <3>1. Expose(tab) /\ current_tab' = number /\ ShowTab /\ UNCHANGED <<lines, ypad_pos, cursor_max, wakeup_all>>
      BY <2>1 DEF GoTo, Keys
    <3>2. ListsOK'  BY <2>0, <3>1, ListsAreMade DEF Expose, ListsOK
    <3>3. PositionsOK'  BY <2>0, <3>1, TabNames DEF Expose, PositionsOK
    <3>4. \A w \in Lists \ {tab} : cursor_pos'[w] = cursor_pos[w]
      BY <2>0, <3>1, TabNames DEF Expose, PositionsOK, Lists
    <3>5. (tab # "Tunables" => UNCHANGED all_tunables) /\ Repaint({tab})  BY <3>1 DEF Expose
    <3> HIDE DEF tab
    <3> QED  BY <2>0, <3>1, <3>2, <3>3, <3>4, <3>5, OwnRepaint
  <2>2. CASE ShowNextTab \/ ShowPrevTab
    BY <2>0, <2>1, <2>2, TabNames DEF ShowNextTab, ShowPrevTab, PositionsOK
  <2>3. CASE CursorDown \/ CursorUp
    <3>1. Moved  BY <2>3 DEF CursorDown, CursorUp
    <3>2. /\ Repaint({Tab}) /\ ShowTab
          /\ UNCHANGED <<all_tunables, wakeup_all, current_tab, cursor_max, lines>>
      BY <3>1 DEF Moved, Keys
    <3>3. ListsOK'  BY <2>0, <3>2 DEF ListsOK
    <3>4. PositionsOK' /\ \A w \in Lists \ {Tab} : cursor_pos'[w] = cursor_pos[w]
      <4>1. CASE CursorDown
        BY <2>0, <2>t, <3>2, <4>1, TabNames DEF CursorDown, PositionsOK, Lists
      <4>2. CASE CursorUp
        BY <2>0, <2>t, <3>2, <4>2, TabNames DEF CursorUp, PositionsOK, Lists
      <4> QED  BY <2>3, <4>1, <4>2
    <3> QED  BY <2>0, <3>2, <3>3, <3>4, OwnRepaint
  <2>4. CASE CursorEnter
    <3>1. /\ Repaint({Tab}) /\ ShowTab
          /\ UNCHANGED <<all_tunables, wakeup_all, current_tab, cursor_pos, ypad_pos, cursor_max, lines>>
      BY <2>4 DEF CursorEnter, Keys, EnterTunable, EnterWakeup
    <3>2. ListsOK' /\ PositionsOK'  BY <2>0, <3>1 DEF ListsOK, PositionsOK
    <3> QED  BY <2>0, <3>1, <3>2, OwnRepaint
  <2>5. CASE Refresh \/ Resize
    <3>1. WindowRefresh /\ lines' \in Sizes
      BY <2>0, <2>5 DEF Refresh, Resize, PositionsOK
    <3>2. /\ Repaint({Tab}) /\ ShowTab /\ UNCHANGED <<current_tab, cursor_pos, cursor_max>>
          /\ (Tab # "Tunables" => UNCHANGED all_tunables) /\ (Tab # "WakeUp" => UNCHANGED wakeup_all)
      BY <3>1 DEF WindowRefresh, Keys
    <3>3. ListsOK'  BY <2>0, <3>1, ListsAreMade DEF WindowRefresh, ListsOK
    <3>4. PositionsOK'  BY <2>0, <2>t, <3>1, <3>2 DEF WindowRefresh, PositionsOK
    <3> QED  BY <2>0, <3>2, <3>3, <3>4, OwnRepaint
  <2>6. CASE SetRefreshTimeout
    <3>1. /\ current_tab' = 1 /\ ShowTab
          /\ UNCHANGED <<all_tunables, wakeup_all, cursor_pos, ypad_pos, cursor_max, lines, pad>>
      BY <2>6 DEF SetRefreshTimeout, Keys, tunableVars
    <3>2. ListsOK' /\ PositionsOK'  BY <2>0, <3>1 DEF ListsOK, PositionsOK
    <3>3. screen'.tab = tab_names[current_tab'] /\ screen'.pad = pad'[tab_names[current_tab']]
      BY <3>1 DEF ShowTab
    <3> QED  BY <2>0, <3>1, <3>2, <3>3 DEF PaintedOK, Tab
  <2>7. CASE EndOfMeasurement
    <3>1. /\ Repaint(Lists) /\ ShowTab
          /\ UNCHANGED <<all_tunables, wakeup_all, current_tab, cursor_pos, ypad_pos, cursor_max, lines>>
      BY <2>7 DEF EndOfMeasurement, Keys
    <3>2. ListsOK' /\ PositionsOK'  BY <2>0, <3>1 DEF ListsOK, PositionsOK
    <3> QED  BY <2>0, <3>1, <3>2, RepaintedIsShown DEF Lists
  <2>8. CASE Unplug \/ PlugIn \/ OthersWrite \/ Air \/ UNCHANGED vars
    <3>1. UNCHANGED <<all_tunables, wakeup_all, tabVars, terminalVars>>
      BY <2>8 DEF Unplug, PlugIn, OthersWrite, Change, Air, vars, tunableVars
    <3> QED  BY <2>0, <3>1 DEF tabVars, terminalVars, ListsOK, PositionsOK, PaintedOK, Tab
  <2> QED  BY <1>0, <2>2, <2>3, <2>4, <2>5, <2>6, <2>7, <2>8 DEF Next
<1> QED
  <2>1. mode # "keys" => mode' = mode \/ AutoTune
    BY DEF Next, ShowNextTab, ShowPrevTab, GoTo, CursorDown, CursorUp, Moved, CursorEnter, Refresh, Resize,
      WindowRefresh, SetRefreshTimeout, EndOfMeasurement, Unplug, PlugIn, OthersWrite, Change, Air, Keys, vars
  <2> QED  BY <1>0, <1>k, <2>1
-----------------------------------------------------------------------------
(***************************************************************************)
(* Enter.                                                                  *)
(***************************************************************************)
\* What the command names is what toggling writes, unless nothing could be read.
LEMMA ScriptTells ==
  ASSUME NEW s, NEW t, NEW m, ToggleScript(s, t, m) # <<>>, ToggleScript(s, t, m)[1] # Missing
  PROVE  Toggling(s, t, m) = ToggleScript(s, t, m)
<1>1. CASE t \notin Sysfs  BY <1>1 DEF ToggleScript
<1>2. CASE t \in Sysfs
  <2>1. Kind[t] # "bluetooth"  BY <1>2, Zenon DEF Sysfs, OfKind
  <2>2. Toggling(s, t, m) = SysfsToggling(s, t, m)  BY <1>2, <2>1 DEF Toggling
  <2> QED  BY <1>2, <2>2 DEF SysfsToggling, ToggleScript
<1> QED  BY <1>1, <1>2

\* Toggling writes to files of the tunable that are there, and to no others.
LEMMA ToggledFiles ==
  ASSUME NEW s, NEW t, NEW m, NEW f \in Files
  PROVE  /\ Toggled(s, t, m)[f] # s[f] => f \in ToSet(FilesOf[t])
         /\ f \in ToSet(FilesOf[t]) /\ s[f] # Missing /\ Toggling(s, t, m) # <<>>
              => Toggled(s, t, m)[f] = Toggling(s, t, m)[1]
BY DEF Toggled, WriteSysfs

LEMMA EnterStep == ScreenInv /\ CursorEnter =>
       /\ \A f \in Files : setting'[f] # setting[f] =>
            /\ screen.pad.cursor < Len(screen.pad.entries)
            /\ f \in ToSet(FilesOf[Highlighted(screen)])
       /\ notification' # notification =>
            /\ notification'[1].entry = Highlighted(screen)
            /\ \A f \in ToSet(FilesOf[Highlighted(screen)]) :
                 setting[f] # Missing /\ notification'[1].content # Missing =>
                   setting'[f] = notification'[1].content
       /\ mode' = "crashed" => Len(all_tunables) <= cursor_max["Tunables"]
<1> SUFFICES ASSUME ScreenInv, CursorEnter
             PROVE  /\ \A f \in Files : setting'[f] # setting[f] =>
                         /\ screen.pad.cursor < Len(screen.pad.entries)
                         /\ f \in ToSet(FilesOf[Highlighted(screen)])
                    /\ notification' # notification =>
                         /\ notification'[1].entry = Highlighted(screen)
                         /\ \A f \in ToSet(FilesOf[Highlighted(screen)]) :
                              setting[f] # Missing /\ notification'[1].content # Missing =>
                                setting'[f] = notification'[1].content
                    /\ mode' = "crashed" => Len(all_tunables) <= cursor_max["Tunables"]
  OBVIOUS
<1> DEFINE x == Highlighted(screen)
           pos == cursor_pos[Tab]
<1>0. ListsOK /\ PositionsOK /\ PaintedOK  BY DEF ScreenInv, CursorEnter, Keys
<1>1. Tab \in Lists /\ pos \in Nat  BY <1>0, TabNames DEF CursorEnter, PositionsOK, Tab
<1>2. CASE EnterTunable
  <2>1. screen.pad = Painted(all_tunables, pos) /\ x = all_tunables[pos + 1]
    BY <1>0, <1>2 DEF EnterTunable, PaintedOK, Painted, Highlighted
  <2>2. screen.pad.cursor = pos /\ screen.pad.entries = all_tunables  BY <2>1 DEF Painted
  <2>3. CASE pos >= Len(all_tunables)
    <3>1. Tab = "Tunables" /\ pos <= cursor_max["Tunables"] /\ cursor_max["Tunables"] \in Nat
      BY <1>0, <1>2, TabNames DEF EnterTunable, PositionsOK
    <3>2. Len(all_tunables) \in Nat  BY <1>0 DEF ListsOK
    <3>3. Len(all_tunables) <= cursor_max["Tunables"]
      <4> HIDE DEF pos
      <4> QED  BY <1>1, <2>3, <3>1, <3>2
    <3> QED  BY <1>2, <2>3, <3>3 DEF EnterTunable
  <2>4. CASE ~(pos >= Len(all_tunables))
    <3> DEFINE judged == AllRemembered(setting, <<x>>, memory)
               script == ToggleScript(setting, x, judged)
    <3>1. /\ setting' = Toggled(setting, x, judged)
          /\ notification' = IF script = <<>> THEN notification ELSE <<[entry |-> x, content |-> script[1]]>>
      BY <1>2, <2>1, <2>4 DEF EnterTunable
    <3>2. pos < Len(all_tunables) /\ x \in Tunables
      BY <1>0, <1>1, <2>1, <2>4 DEF ListsOK
    <3> HIDE DEF judged, x, pos
    <3>3. \A f \in Files : setting'[f] # setting[f] => f \in ToSet(FilesOf[x])
      BY <3>1, ToggledFiles
    <3>4. ASSUME notification' # notification, NEW f \in ToSet(FilesOf[x]),
                 setting[f] # Missing, notification'[1].content # Missing
          PROVE  setting'[f] = notification'[1].content
      <4>1. script # <<>> /\ script[1] # Missing /\ notification'[1].content = script[1]
        BY <3>1, <3>4
      <4>2. f \in Files  BY <3>2, FilesAssumption DEF ToSet
      <4> HIDE DEF script
      <4>3. Toggling(setting, x, judged) = script
        BY <4>1, ScriptTells DEF script
      <4> QED  BY <3>1, <3>4, <4>1, <4>2, <4>3, ToggledFiles
    <3>5. notification' # notification => notification'[1].entry = x  BY <3>1
    <3>6. mode' = "keys"  BY <1>2, <2>4 DEF EnterTunable, CursorEnter, Keys, pos
    <3> QED  BY <2>2, <3>2, <3>3, <3>4, <3>5, <3>6 DEF x
  <2> QED  BY <2>3, <2>4
<1>3. CASE EnterWakeup
  <2>1. screen.pad = Painted(wakeup_all, pos) /\ x = wakeup_all[pos + 1]
    BY <1>0, <1>3 DEF EnterWakeup, PaintedOK, Painted, Highlighted
  <2>2. screen.pad.cursor = pos /\ screen.pad.entries = wakeup_all  BY <2>1 DEF Painted
  <2>3. CASE pos >= Len(wakeup_all)  BY <1>3, <2>3 DEF EnterWakeup, CursorEnter, Keys
  <2>4. CASE ~(pos >= Len(wakeup_all))
    <3>1. /\ setting' = WriteSysfs(setting, FilesOf[x], WakeupToggling(setting, x))
          /\ notification' = <<[entry |-> x, content |-> WakeupScript(setting, x)[1]]>>
      BY <1>3, <2>1, <2>4 DEF EnterWakeup
    <3>2. pos < Len(wakeup_all) /\ x \in Wakeups
      BY <1>0, <1>1, <2>1, <2>4 DEF ListsOK
    <3>3. WakeupScript(setting, x)[1] = WakeupToggling(setting, x)
      BY DEF WakeupScript, WakeupToggling
    <3>4. \A f \in ToSet(FilesOf[x]) : f \in Files  BY <3>2, FilesAssumption DEF ToSet
    <3> HIDE DEF x, pos
    <3>5. \A f \in Files : setting'[f] # setting[f] => f \in ToSet(FilesOf[x])
      BY <3>1 DEF WriteSysfs
    <3>6. \A f \in ToSet(FilesOf[x]) : setting[f] # Missing => setting'[f] = WakeupToggling(setting, x)
      BY <3>1, <3>4 DEF WriteSysfs
    <3>7. mode' = "keys"  BY <1>3 DEF EnterWakeup, CursorEnter, Keys
    <3> QED  BY <2>2, <3>1, <3>2, <3>3, <3>5, <3>6, <3>7 DEF x
  <2> QED  BY <2>3, <2>4
<1> QED  BY <1>2, <1>3 DEF CursorEnter

\* Enter acts on the entry that is highlighted on the screen, as the notification
\* says, and reads past the end of the list of tunables only when it got shorter
\* (tuning.cpp:164, waketab.cpp:99, display.cpp:423).
THEOREM EnterActsOnTheScreen == Spec => EnterDoesWhatItSays
BY InitShows, NextShows, EnterStep, PTL DEF Spec, EnterDoesWhatItSays
-----------------------------------------------------------------------------
(***************************************************************************)
(* The cursor.                                                             *)
(***************************************************************************)
\* Moving up keeps an entry in sight, whatever the length of the list.
LEMMA UpKeepsSight ==
  ASSUME ScreenInv, [Next]_vars, NEW w \in Lists, Tab = w, CursorUp, InSight(w)
  PROVE  InSight(w)'
<1> DEFINE c == cursor_pos[w]
           y == ypad_pos[w]
           row == FirstRow[w]
           len == Len(pad[w].entries)
<1>0. ScreenInv' /\ mode = "keys" /\ mode' = "keys"
  BY NextShows DEF CursorUp, Moved, Keys
<1>1. ListsOK /\ PositionsOK /\ PaintedOK /\ PaintedOK'  BY <1>0 DEF ScreenInv
<1>2. w \in Tabs  BY TabNames DEF Lists
<1>3. /\ c \in Nat /\ y \in Nat /\ row \in 1..2 /\ len \in Nat
      /\ lines \in Nat /\ lines >= 6 /\ lines' = lines
  <2>1. pad[w].entries \in Seq(Tunables) \/ pad[w].entries \in Seq(Wakeups)
    BY <1>1 DEF PaintedOK, Painted, Lists, ListsOK
  <2>2. len \in Nat  BY <2>1
  <2> QED
    BY <1>1, <1>2, <2>2, ScreenAssumption DEF PositionsOK, Lists, FirstRow, CursorUp, Moved
<1>4. /\ cursor_pos'[w] = IF c > 0 THEN c - 1 ELSE c
      /\ ypad_pos'[w] = IF y > 0 THEN y - 1 ELSE y
  BY <1>1, <1>2 DEF CursorUp, PositionsOK
<1>5. Len(pad'[w].entries) = len
  <2>1. UNCHANGED <<all_tunables, wakeup_all>>  BY DEF CursorUp, Moved
  <2>2. pad'[w].entries = pad[w].entries  BY <1>1, <2>1 DEF PaintedOK, Painted, Lists
  <2> QED  BY <2>2
<1>6. c < len /\ row + c \in y..(y + (lines - 3) - 1)  BY DEF InSight, Viewport
<1>7. cursor_pos'[w] < len /\ row + cursor_pos'[w] \in ypad_pos'[w]..(ypad_pos'[w] + (lines' - 3) - 1)
  <2> HIDE DEF c, y, row, len
  <2> QED  BY <1>3, <1>4, <1>6
<1> QED  BY <1>5, <1>7 DEF InSight, Viewport

\* Moving down keeps an entry in sight in a list of the length that it had at first.
LEMMA DownKeepsSight ==
  ASSUME ScreenInv, [Next]_vars, NEW w \in Lists, Tab = w, CursorDown,
         Len(pad[w].entries) = cursor_max[w] + 1, InSight(w)
  PROVE  InSight(w)'
<1> DEFINE c == cursor_pos[w]
           y == ypad_pos[w]
           last == cursor_max[w]
           row == FirstRow[w]
<1>0. ScreenInv' /\ mode = "keys" /\ mode' = "keys"
  BY NextShows DEF CursorDown, Moved, Keys
<1>1. ListsOK /\ PositionsOK /\ PaintedOK /\ PositionsOK' /\ PaintedOK'  BY <1>0 DEF ScreenInv
<1>2. w \in Tabs  BY TabNames DEF Lists
<1>3. /\ c \in Nat /\ y \in Nat /\ last \in Nat /\ row \in 1..2
      /\ lines \in Nat /\ lines >= 6 /\ lines' = lines
  BY <1>1, <1>2, ScreenAssumption DEF PositionsOK, Lists, FirstRow, CursorDown, Moved
<1>4. c <= last /\ y <= row + c /\ row + c <= y + lines - 4
  <2>1. c < last + 1 /\ row + c \in y..(y + (lines - 3) - 1)
    BY DEF InSight, Viewport
  <2> HIDE DEF c, y, last, row
  <2> QED  BY <1>3, <2>1
<1>5. Len(pad'[w].entries) = last + 1
  <2>1. UNCHANGED <<all_tunables, wakeup_all>>  BY DEF CursorDown, Moved
  <2> QED  BY <1>1, <2>1 DEF PaintedOK, Painted, Lists
<1>6. ASSUME cursor_pos'[w] \in Nat, ypad_pos'[w] \in Nat, cursor_pos'[w] <= last,
             ypad_pos'[w] <= row + cursor_pos'[w], row + cursor_pos'[w] <= ypad_pos'[w] + lines - 4
      PROVE  InSight(w)'
  <2>1. cursor_pos'[w] < Len(pad'[w].entries)  BY <1>3, <1>5, <1>6
  <2>2. row + cursor_pos'[w] \in ypad_pos'[w]..(ypad_pos'[w] + (lines' - 3) - 1)
    <3> HIDE DEF row, last
    <3>1. row + cursor_pos'[w] \in Int /\ ypad_pos'[w] \in Int /\ lines \in Int  BY <1>3, <1>6
    <3>2. ypad_pos'[w] + (lines - 3) - 1 = ypad_pos'[w] + lines - 4  BY <3>1
    <3> QED  BY <1>3, <1>6, <3>1, <3>2
  <2> QED  BY <2>1, <2>2 DEF InSight, Viewport
<1> QED
  <2> DEFINE scrolls == y < row + last + 6 - lines /\ c + ScrollMargin >= lines
  <2>1. ScrollsDown(w) <=> scrolls
    <3>1. ContentMaxY(w) = row + (last + 1)  BY DEF ContentMaxY
    <3>2. YpadMax(w) = IF row + (last + 1) - (lines - 3) + 2 < 0 THEN 0 ELSE row + (last + 1) - (lines - 3) + 2
      <4> HIDE DEF row, last
      <4> QED  BY <1>3, <3>1 DEF YpadMax, Viewport
    <3>3. y < YpadMax(w) <=> y < row + last + 6 - lines
      <4> HIDE DEF row, last, y
      <4> QED  BY <1>3, <3>2
    <3> QED  BY <3>3 DEF ScrollsDown
  <2>2. /\ cursor_pos'[w] = IF c < last THEN c + 1 ELSE c
        /\ ypad_pos'[w] = IF scrolls THEN y + 1 ELSE y
    BY <1>1, <1>2, <2>1 DEF CursorDown, PositionsOK
  <2> HIDE DEF c, y, last, row
  <2>3. /\ cursor_pos'[w] \in Nat /\ ypad_pos'[w] \in Nat /\ cursor_pos'[w] <= last
        /\ ypad_pos'[w] <= row + cursor_pos'[w]
    <3>1. CASE scrolls
      <4>1. y < row + last + 6 - lines /\ ypad_pos'[w] = y + 1 /\ c + ScrollMargin >= lines
        BY <2>2, <3>1
      <4> HIDE DEF scrolls
      <4>2. CASE c < last
        <5>1. cursor_pos'[w] = c + 1  BY <2>2, <4>2
        <5> QED  BY <1>3, <1>4, <4>1, <4>2, <5>1
      <4>3. CASE ~(c < last)
        <5>1. cursor_pos'[w] = c /\ c = last  BY <1>3, <1>4, <2>2, <4>3
        <5>2. y + 1 <= row + c  BY <1>3, <4>1, <5>1
        <5> QED  BY <1>3, <4>1, <5>1, <5>2
      <4> QED  BY <4>2, <4>3
    <3>2. CASE ~scrolls
      <4> HIDE DEF scrolls
      <4> QED  BY <1>3, <1>4, <2>2, <3>2
    <3> QED  BY <3>1, <3>2
  <2>4. row + cursor_pos'[w] <= ypad_pos'[w] + lines - 4
    <3>1. CASE scrolls  BY <1>3, <1>4, <2>2, <3>1
    <3>2. CASE ~scrolls  BY <1>3, <1>4, <2>2, <3>2, ScreenAssumption
    <3> QED  BY <3>1, <3>2
  <2> QED  BY <1>6, <2>3, <2>4

\* Moving up shows an entry or gets nearer to the first lines, where all is in
\* sight.
LEMMA UpStep ==
  ASSUME ScreenInv, [Next]_vars, NEW w \in Lists, Tab = w, CursorUp, pad[w].entries # <<>>, ~InSight(w)'
  PROVE  cursor_pos'[w] + ypad_pos'[w] \in 0..(cursor_pos[w] + ypad_pos[w] - 1)
<1> DEFINE c == cursor_pos[w]
           y == ypad_pos[w]
           row == FirstRow[w]
<1>0. ScreenInv' /\ mode = "keys" /\ mode' = "keys"
  BY NextShows DEF CursorUp, Moved, Keys
<1>1. ListsOK /\ PositionsOK /\ PaintedOK /\ PaintedOK'  BY <1>0 DEF ScreenInv
<1>2. w \in Tabs  BY TabNames DEF Lists
<1>3. /\ c \in Nat /\ y \in Nat /\ row \in 1..2
      /\ lines \in Nat /\ lines >= 6 /\ lines' = lines
  BY <1>1, <1>2, ScreenAssumption DEF PositionsOK, Lists, FirstRow, CursorUp, Moved
<1>4. /\ cursor_pos'[w] = IF c > 0 THEN c - 1 ELSE c
      /\ ypad_pos'[w] = IF y > 0 THEN y - 1 ELSE y
  BY <1>1, <1>2 DEF CursorUp, PositionsOK
<1>5. Len(pad'[w].entries) > 0
  <2>1. UNCHANGED <<all_tunables, wakeup_all>>  BY DEF CursorUp, Moved
  <2>2. pad'[w].entries = pad[w].entries  BY <1>1, <2>1 DEF PaintedOK, Painted, Lists
  <2>3. pad[w].entries \in Seq(Tunables) \/ pad[w].entries \in Seq(Wakeups)
    BY <1>1 DEF PaintedOK, Painted, Lists, ListsOK
  <2> QED  BY <2>2, <2>3
<1>6. CASE c = 0 /\ y = 0
  <2>1. cursor_pos'[w] = 0 /\ ypad_pos'[w] = 0  BY <1>4, <1>6
  <2>2. row \in 0..(0 + (lines' - 3) - 1)
    <3> HIDE DEF row
    <3> QED  BY <1>3
  <2>3. FirstRow[w] + cursor_pos'[w] = row
    <3>1. row \in Int  BY <1>3
    <3> QED  BY <2>1, <3>1
  <2>4. InSight(w)'  BY <1>5, <2>1, <2>2, <2>3 DEF InSight, Viewport
  <2> QED  BY <2>4
<1>7. CASE c > 0 \/ y > 0
  <2> HIDE DEF c, y
  <2>1. cursor_pos'[w] + ypad_pos'[w] \in 0..(c + y - 1)  BY <1>3, <1>4, <1>7
  <2> QED  BY <2>1 DEF c, y
<1> QED
  <2> HIDE DEF c, y
  <2> QED  BY <1>3, <1>6, <1>7

\* Only what makes the list anew, or moving in a list of another length, takes
\* the highlighted entry out of sight.
LEMMA StayStep ==
  ASSUME ScreenInv, [Next]_vars, NEW w \in Lists, Tab = w, (Tab = w)', InSight(w), ~InSight(w)'
  PROVE  \/ Refresh \/ Resize
         \/ CursorDown /\ Len(pad[w].entries) # cursor_max[w] + 1
<1>1. CASE ShowNextTab \/ ShowPrevTab \/ SetRefreshTimeout
  <2>0. ListsOK /\ PositionsOK  BY <1>1 DEF ScreenInv, ShowNextTab, ShowPrevTab, SetRefreshTimeout, GoTo, Keys
  <2>1. current_tab' \in 1..3 /\ current_tab \in 1..3 /\ (current_tab' # current_tab \/ current_tab' = 1)
    BY <1>1, <2>0, TabNames DEF ShowNextTab, ShowPrevTab, SetRefreshTimeout, GoTo, PositionsOK
  <2> QED  BY <2>1 DEF Tab, tab_names, Lists
<1>2. CASE CursorDown \/ CursorUp  BY <1>2, DownKeepsSight, UpKeepsSight
<1>3. CASE CursorEnter
  <2>1. UNCHANGED <<all_tunables, wakeup_all, cursor_pos, ypad_pos, lines>>
    BY <1>3 DEF CursorEnter, EnterTunable, EnterWakeup
  <2>2. Len(pad'[w].entries) = Len(pad[w].entries)
    <3>1. PaintedOK  BY <1>3 DEF ScreenInv, CursorEnter, Keys
    <3>2. Repaint({Tab})  BY <1>3 DEF CursorEnter
    <3>3. pad'[w].entries = pad[w].entries
      BY <2>1, <3>1, <3>2, TabNames DEF Repaint, Painted, PaintedOK, Lists
    <3> QED  BY <3>3
  <2> QED  BY <2>1, <2>2 DEF InSight, Viewport
<1>4. CASE EndOfMeasurement
  <2>1. UNCHANGED <<all_tunables, wakeup_all, cursor_pos, ypad_pos, lines>>
    BY <1>4 DEF EndOfMeasurement
  <2>2. Len(pad'[w].entries) = Len(pad[w].entries)
    <3>1. PaintedOK  BY <1>4 DEF ScreenInv, EndOfMeasurement, Keys
    <3>2. Repaint(Lists)  BY <1>4 DEF EndOfMeasurement
    <3>3. pad'[w].entries = pad[w].entries
      BY <2>1, <3>1, <3>2, TabNames DEF Repaint, Painted, PaintedOK, Lists
    <3> QED  BY <3>3
  <2> QED  BY <2>1, <2>2 DEF InSight, Viewport
<1>5. CASE AutoTune \/ Unplug \/ PlugIn \/ OthersWrite \/ Air \/ UNCHANGED vars
  <2>1. UNCHANGED <<tabVars, terminalVars>>
    BY <1>5 DEF AutoTune, Unplug, PlugIn, OthersWrite, Change, Air, vars
  <2> QED  BY <2>1 DEF tabVars, terminalVars, InSight, Viewport
<1> QED  BY <1>1, <1>2, <1>3, <1>4, <1>5 DEF Next

LEMMA SightStep == ScreenInv /\ [Next]_vars =>
  \A w \in Lists : Tab = w =>
    /\ Tab' = w /\ InSight(w) /\ ~InSight(w)' =>
         \/ Refresh \/ Resize
         \/ CursorDown /\ Len(pad[w].entries) # cursor_max[w] + 1
    /\ CursorUp /\ pad[w].entries # <<>> =>
         \/ InSight(w)'
         \/ /\ ~InSight(w)
            /\ cursor_pos'[w] + ypad_pos'[w] \in 0..(cursor_pos[w] + ypad_pos[w] - 1)
<1> SUFFICES ASSUME ScreenInv, [Next]_vars, NEW w \in Lists, Tab = w
             PROVE  /\ Tab' = w /\ InSight(w) /\ ~InSight(w)' =>
                         \/ Refresh \/ Resize
                         \/ CursorDown /\ Len(pad[w].entries) # cursor_max[w] + 1
                    /\ CursorUp /\ pad[w].entries # <<>> =>
                         \/ InSight(w)'
                         \/ /\ ~InSight(w)
                            /\ cursor_pos'[w] + ypad_pos'[w] \in 0..(cursor_pos[w] + ypad_pos[w] - 1)
  OBVIOUS
<1>1. CursorUp /\ InSight(w) => InSight(w)'  BY UpKeepsSight
<1>2. Tab' = w /\ InSight(w) /\ ~InSight(w)' =>
        \/ Refresh \/ Resize
        \/ CursorDown /\ Len(pad[w].entries) # cursor_max[w] + 1
  BY StayStep
<1>3. CursorUp /\ pad[w].entries # <<>> /\ ~InSight(w)' =>
        cursor_pos'[w] + ypad_pos'[w] \in 0..(cursor_pos[w] + ypad_pos[w] - 1)
  BY UpStep
<1> QED  BY <1>1, <1>2, <1>3

\* On a tab the highlighted entry goes out of sight only when the list is made
\* anew or has another length than at first, and moving up leads back to it
\* (display.cpp:344-393 and 435-451).
THEOREM HighlightIsInSight == Spec => HighlightInSight
BY InitShows, NextShows, SightStep, PTL DEF Spec, HighlightInSight
-----------------------------------------------------------------------------
(***************************************************************************)
(* --auto-tune.                                                            *)
(***************************************************************************)
\* What a bad tunable's files are given.
Wanted(t) ==
  IF t \in Sysfs THEN Target[t] ELSE IF Kind[t] = "bluetooth" THEN Off ELSE On

LEMMA FileVerdicts ==
  ASSUME NEW t \in Tunables, NEW n
  PROVE  /\ t \in Numeric => (FileIsGood(t, n) <=> NumberIsGood(t, n))
         /\ Kind[t] = "choice" => (FileIsGood(t, n) <=> n = Target[t])
         /\ Kind[t] = "runtime" \/ Kind[t] = "usb" => (FileIsGood(t, n) <=> n = On)
         /\ Kind[t] = "wifi" => (FileIsGood(t, n) <=> n # Off)
<1>1. t \in Numeric <=> Kind[t] \in {"at least", "at most"}  BY Zenon DEF Numeric, OfKind
<1>2. CASE t \in Numeric
  <2>1. Kind[t] # "choice" /\ Kind[t] # "runtime" /\ Kind[t] # "usb" /\ Kind[t] # "wifi"
    BY <1>1, <1>2, Zenon
  <2> QED  BY <1>2, <2>1 DEF FileIsGood
<1>3. CASE t \notin Numeric
  BY <1>3 DEF FileIsGood
<1> QED  BY <1>2, <1>3

\* Verdicts, targets and toggling agree, whatever the kind.
LEMMA BadGetsWanted ==
  ASSUME NEW t \in Tunables, NEW s, NEW m, ~IsGood(s, t)
  PROVE  /\ Toggling(s, t, m) = <<Wanted(t)>>
         /\ Wanted(t) \in Nat \ {Missing}
         /\ IF Kind[t] = "bluetooth" THEN Wanted(t) # On ELSE FileIsGood(t, Wanted(t))
<1>1. Kind[t] \in {"choice", "at least", "at most"} \/ Kind[t] = "runtime" \/ Kind[t] = "usb"
        \/ Kind[t] = "wifi" \/ Kind[t] = "bluetooth"
  BY TargetAssumption, Zenon DEF Kinds
<1>2. t \in Sysfs <=> Kind[t] \in {"choice", "at least", "at most"}  BY Zenon DEF Sysfs, OfKind
<1>3. t \in Numeric <=> Kind[t] \in {"at least", "at most"}  BY Zenon DEF Numeric, OfKind
<1>4. CASE Kind[t] \in {"choice", "at least", "at most"}
  <2>1. t \in Sysfs /\ Kind[t] # "bluetooth"  BY <1>2, <1>4, Zenon
  <2>2. Target[t] \in Nat \ {Missing} /\ Wanted(t) = Target[t]
    BY <1>4, <2>1, TargetAssumption, Zenon DEF Wanted
  <2>3. Toggling(s, t, m) = <<Target[t]>>  BY <2>1 DEF Toggling, SysfsToggling
  <2>4. FileIsGood(t, Target[t])
    <3>1. CASE t \in Numeric
      <4>1. NumberIsGood(t, Target[t])  BY <2>2 DEF NumberIsGood
      <4> QED  BY <3>1, <4>1, FileVerdicts
    <3>2. CASE t \notin Numeric
      <4>1. Kind[t] = "choice"  BY <1>3, <1>4, <3>2, Zenon
      <4> QED  BY <4>1, FileVerdicts
    <3> QED  BY <3>1, <3>2
  <2> QED  BY <2>1, <2>2, <2>3, <2>4
<1>5. CASE ~(Kind[t] \in {"choice", "at least", "at most"})
  <2>1. t \notin Sysfs /\ t \notin Numeric /\ Kind[t] # "choice"  BY <1>2, <1>3, <1>5, Zenon
  <2>2. CASE Kind[t] = "bluetooth"
    BY <2>1, <2>2 DEF Toggling, BluetoothToggling, Wanted, On, Off, Missing
  <2>3. CASE Kind[t] = "runtime" \/ Kind[t] = "usb" \/ Kind[t] = "wifi"
    <3>1. Kind[t] # "bluetooth" /\ Wanted(t) = On  BY <2>1, <2>3 DEF Wanted
    <3>2. Toggling(s, t, m) = <<On>>  BY <2>1, <3>1 DEF Toggling, SwitchToggling
    <3>3. FileIsGood(t, On)  BY <2>3, FileVerdicts DEF On, Off
    <3> QED  BY <3>1, <3>2, <3>3 DEF On, Missing
  <2> QED  BY <1>1, <1>5, <2>2, <2>3
<1> QED  BY <1>4, <1>5

\* A toggle gives the files that are there what is wanted, and makes or removes none.
LEMMA BadIsWritten ==
  ASSUME NEW t \in Tunables, NEW s \in [Files -> Nat], NEW m, ~IsGood(s, t)
  PROVE  /\ Toggled(s, t, m) \in [Files -> Nat]
         /\ \A f \in Files :
              /\ Toggled(s, t, m)[f] =
                   IF f \in ToSet(FilesOf[t]) /\ s[f] # Missing THEN Wanted(t) ELSE s[f]
              /\ Toggled(s, t, m)[f] = Missing <=> s[f] = Missing
<1>1. Toggling(s, t, m) = <<Wanted(t)>> /\ Wanted(t) \in Nat \ {Missing}  BY BadGetsWanted
<1>2. Toggled(s, t, m) = [f \in Files |->
        IF f \in ToSet(FilesOf[t]) /\ s[f] # Missing THEN Wanted(t) ELSE s[f]]
  BY <1>1 DEF Toggled, WriteSysfs
<1> QED  BY <1>1, <1>2

\* The verdict of a tunable is that of its files.
LEMMA VerdictOfFiles ==
  ASSUME NEW t \in Tunables, NEW s
  PROVE  /\ \A f \in ToSet(FilesOf[t]) : f \in Files
         /\ Kind[t] = "bluetooth" =>
              FilesOf[t][1] \in ToSet(FilesOf[t]) /\ (s[FilesOf[t][1]] # On => IsGood(s, t))
         /\ Kind[t] # "bluetooth" =>
              (IsGood(s, t) <=> \A f \in ToSet(FilesOf[t]) : FileIsGood(t, s[f]))
<1>1. FilesOf[t] \in Seq(Files)  BY FilesAssumption
<1>2. Kind[t] = "bluetooth" => Len(FilesOf[t]) = 1  BY FilesAssumption
<1> QED  BY <1>1, <1>2 DEF ToSet, IsGood, BluetoothIsGood

LEMMA ToggledIsGood ==
  ASSUME NEW t \in Tunables, NEW s \in [Files -> Nat], NEW m, ~IsGood(s, t),
         \A f \in ToSet(FilesOf[t]) : s[f] # Missing
  PROVE  IsGood(Toggled(s, t, m), t)
<1> DEFINE after == Toggled(s, t, m)
<1>1. \A f \in ToSet(FilesOf[t]) : after[f] = Wanted(t)  BY BadIsWritten, VerdictOfFiles
<1> HIDE DEF after
<1> QED  BY <1>1, BadGetsWanted, VerdictOfFiles DEF after

\* Toggling one does no harm to another.
LEMMA ToggledKeepsGood ==
  ASSUME NEW t \in Tunables, NEW u \in Tunables, t # u,
         NEW s \in [Files -> Nat], NEW m, ~IsGood(s, t), IsGood(s, u)
  PROVE  IsGood(Toggled(s, t, m), u)
<1> DEFINE after == Toggled(s, t, m)
           shared == ToSet(FilesOf[t]) \cap ToSet(FilesOf[u])
<1>1. \A f \in ToSet(FilesOf[u]) : after[f] = s[f] \/ (f \in shared /\ after[f] = Wanted(t))
  BY BadIsWritten, VerdictOfFiles
<1>2. shared # {} => Kind[t] = "choice" /\ Kind[u] = "choice" /\ Target[t] = Target[u]
  BY TargetAssumption
<1> HIDE DEF after, shared
<1>3. CASE Kind[u] = "bluetooth"
  <2>1. FilesOf[u][1] \in ToSet(FilesOf[u])  BY <1>3, VerdictOfFiles
  <2>2. after[FilesOf[u][1]] = s[FilesOf[u][1]]  BY <1>1, <1>2, <1>3, <2>1
  <2> QED  BY <1>3, <2>2 DEF IsGood, BluetoothIsGood, after
<1>4. CASE Kind[u] # "bluetooth"
  <2>1. \A f \in ToSet(FilesOf[u]) : FileIsGood(u, s[f])  BY <1>4, VerdictOfFiles
  <2>2. ASSUME NEW f \in ToSet(FilesOf[u]), f \in shared, after[f] = Wanted(t)
        PROVE  FileIsGood(u, after[f])
    <3>1. Kind[t] = "choice" /\ Kind[u] = "choice" /\ Target[t] = Target[u]  BY <1>2, <2>2
    <3>2. t \in Sysfs /\ u \notin Numeric  BY <3>1, Zenon DEF Sysfs, Numeric, OfKind
    <3> QED  BY <2>2, <3>1, <3>2 DEF FileIsGood, Wanted
  <2>3. \A f \in ToSet(FilesOf[u]) : FileIsGood(u, after[f])  BY <1>1, <2>1, <2>2
  <2> QED  BY <1>4, <2>3, VerdictOfFiles DEF after
<1> QED  BY <1>3, <1>4

\* auto_toggle_tuning goes through the list: what it has after each member.
LEMMA ToggleRuns ==
  ASSUME NEW S, NEW ps \in Seq(S), NEW s, NEW m,
         NEW A, [setting |-> s, memory |-> m] \in A, \A a \in A : \A x \in S : AutoToggle(a, x) \in A
  PROVE  \E t \in [0..Len(ps) -> A] :
           /\ t[0] = [setting |-> s, memory |-> m] /\ t[Len(ps)] = AutoToggled(s, ps, m)
           /\ \A k \in 1..Len(ps) : t[k] = AutoToggle(t[k - 1], ps[k])
<1> DEFINE f == [a \in A |-> [x \in S |-> AutoToggle(a, x)]]
           Behind(g) == g = [r \in SUBSET DOMAIN ps |->
                               IF r = {} THEN [setting |-> s, memory |-> m] ELSE AutoToggle(g[r \ {Max(r)}], ps[Max(r)])]
<1>0. DOMAIN ps = 1..Len(ps)  OBVIOUS
<1>1. \E g : Behind(g)
  <2>1. \A a \in A : \A x \in S : f[a][x] = AutoToggle(a, x)  OBVIOUS
  <2> HIDE DEF f
  <2>2. \A a \in A : \A x \in S : f[a][x] \in A  BY <2>1
  <2>3. PICK g : Folded(f, [setting |-> s, memory |-> m], ps, g) /\ \A r \in SUBSET DOMAIN ps : g[r] \in A
    BY <2>2, LeftFold
  <2>4. ASSUME NEW r \in SUBSET DOMAIN ps, r # {}
        PROVE  f[g[r \ {Max(r)}]][ps[Max(r)]] = AutoToggle(g[r \ {Max(r)}], ps[Max(r)])
    <3>1. Max(r) \in r  BY <2>4, MaxIn
    <3>2. ps[Max(r)] \in S /\ g[r \ {Max(r)}] \in A  BY <2>3, <3>1
    <3> QED  BY <2>1, <3>2
  <2>5. Behind(g)  BY <2>3, <2>4 DEF Folded
  <2> QED  BY <2>5
<1>2. PICK g : Behind(g) /\ AutoToggled(s, ps, m) = g[DOMAIN ps]
  BY <1>1 DEF AutoToggled, FoldLeft, MapThenFoldSet
<1>3. \A r \in SUBSET DOMAIN ps : g[r] = IF r = {} THEN [setting |-> s, memory |-> m] ELSE AutoToggle(g[r \ {Max(r)}], ps[Max(r)])
  BY <1>2, Zenon
<1>4. ASSUME NEW r \in SUBSET DOMAIN ps, r # {}, g[r \ {Max(r)}] \in A PROVE g[r] \in A
  <2>1. g[r] = AutoToggle(g[r \ {Max(r)}], ps[Max(r)])  BY <1>3, <1>4
  <2>2. ps[Max(r)] \in S
    <3>1. Max(r) \in r  BY <1>4, MaxIn
    <3> QED  BY <3>1
  <2> QED  BY <1>4, <2>1, <2>2
<1>5. g[{}] = [setting |-> s, memory |-> m]  BY <1>3
<1> HIDE DEF Behind, f
<1>6. PICK t \in [0..Len(ps) -> A] : Course(g, t, Len(ps))
  <2>1. g[{}] \in A  BY <1>5
  <2> QED  BY <1>4, <2>1, FoldCourse
<1>7. ASSUME NEW k \in 1..Len(ps) PROVE t[k] = AutoToggle(t[k - 1], ps[k])
  <2>1. PICK r \in SUBSET (1..Len(ps)) : r # {} /\ Max(r) = k /\ g[r] = t[k] /\ g[r \ {Max(r)}] = t[k - 1]
    BY <1>6, Zenon DEF Course
  <2>2. g[r] = AutoToggle(g[r \ {Max(r)}], ps[Max(r)])  BY <1>0, <1>3, <2>1
  <2> QED  BY <2>1, <2>2
<1>8. t[0] = [setting |-> s, memory |-> m] /\ t[Len(ps)] = AutoToggled(s, ps, m)  BY <1>0, <1>2, <1>5, <1>6 DEF Course
<1> QED  BY <1>7, <1>8

\* A memory keeps what it had, or takes what is read now.
LEMMA MemoryGrows ==
  ASSUME NEW s, NEW t, NEW m, NEW n
  PROVE  Remembered(s, t, m) \in {m[t], Remembered(s, t, n)}
BY Zenon DEF Remembered

\* What is right after the first members of the list: nothing came or went, and
\* those that have all their files are good.
Mended(before, s, done) ==
  /\ \A f \in Files : s[f] = Missing <=> before[f] = Missing
  /\ \A t \in done : (\A f \in ToSet(FilesOf[t]) : before[f] # Missing) => IsGood(s, t)

LEMMA ToggleMends ==
  ASSUME NEW before, NEW acc, acc.setting \in [Files -> Nat], NEW t \in Tunables,
         NEW done \in SUBSET Tunables, Mended(before, acc.setting, done)
  PROVE  /\ AutoToggle(acc, t).setting \in [Files -> Nat]
         /\ Mended(before, AutoToggle(acc, t).setting, done \cup {t})
<1> DEFINE s == acc.setting
           m == AllRemembered(s, <<t>>, acc.memory)
           after == Toggled(s, t, m)
<1>1. CASE IsGood(s, t)
  <2>1. AutoToggle(acc, t) = acc  BY <1>1 DEF AutoToggle
  <2> QED  BY <1>1, <2>1 DEF Mended
<1>2. CASE ~IsGood(s, t)
  <2>1. AutoToggle(acc, t).setting = after  BY <1>2 DEF AutoToggle
  <2> HIDE DEF s, m
  <2>2. s \in [Files -> Nat] /\ Mended(before, s, done)  BY DEF s
  <2>3. after \in [Files -> Nat] /\ \A f \in Files : after[f] = Missing <=> s[f] = Missing
    BY <1>2, <2>2, BadIsWritten
  <2>4. ASSUME NEW u \in done \cup {t}, \A f \in ToSet(FilesOf[u]) : before[f] # Missing
        PROVE  IsGood(after, u)
    <3>1. u \in Tunables  OBVIOUS
    <3>2. \A f \in ToSet(FilesOf[u]) : s[f] # Missing
      BY <2>2, <2>4, <3>1, VerdictOfFiles DEF Mended
    <3>3. CASE u = t  BY <1>2, <2>2, <3>2, <3>3, ToggledIsGood
    <3>4. CASE u # t
      <4>1. IsGood(s, u)  BY <2>2, <2>4, <3>4 DEF Mended
      <4> QED  BY <1>2, <2>2, <3>1, <3>4, <4>1, ToggledKeepsGood
    <3> QED  BY <3>3, <3>4
  <2> HIDE DEF after
  <2> QED  BY <2>1, <2>2, <2>3, <2>4 DEF Mended
<1> QED  BY <1>1, <1>2

\* What the settings and the memory may become while the list is gone through.
Memories(m) ==
  {m[t] : t \in Tunables} \cup UNION {{Remembered(c, t, m) : c \in [Files -> Nat]} : t \in Tunables}
Toggles(m) == [setting : [Files -> Nat], memory : [Tunables -> Memories(m)]]

LEMMA TogglesStay ==
  ASSUME NEW m, NEW acc \in Toggles(m), NEW t \in Tunables
  PROVE  AutoToggle(acc, t) \in Toggles(m)
<1>1. CASE IsGood(acc.setting, t)  BY <1>1, Zenon DEF AutoToggle
<1>2. CASE ~IsGood(acc.setting, t)
  <2> DEFINE judged == AllRemembered(acc.setting, <<t>>, acc.memory)
  <2>1. AutoToggle(acc, t) = [setting |-> Toggled(acc.setting, t, judged), memory |-> judged]
    BY <1>2 DEF AutoToggle
  <2>2. acc.setting \in [Files -> Nat] /\ acc.memory \in [Tunables -> Memories(m)]  BY DEF Toggles
  <2>3. ASSUME NEW u \in Tunables PROVE Remembered(acc.setting, u, acc.memory) \in Memories(m)
    <3>1. Remembered(acc.setting, u, acc.memory) \in {acc.memory[u], Remembered(acc.setting, u, m)}
      BY MemoryGrows
    <3>2. acc.memory[u] \in Memories(m)  BY <2>2
    <3>3. Remembered(acc.setting, u, m) \in Memories(m)  BY <2>2 DEF Memories
    <3> QED  BY <3>1, <3>2, <3>3
  <2>4. judged \in [Tunables -> Memories(m)]  BY <2>2, <2>3 DEF AllRemembered
  <2> HIDE DEF judged
  <2>5. Toggled(acc.setting, t, judged) \in [Files -> Nat]  BY <1>2, <2>2, BadIsWritten
  <2> QED  BY <2>1, <2>4, <2>5 DEF Toggles
<1> QED  BY <1>1, <1>2

Done(list, k) == {list[i] : i \in 1..k}

LEMMA AllAreMended ==
  ASSUME NEW list \in Seq(Tunables), NEW s \in [Files -> Nat], NEW m, m = [t \in Tunables |-> m[t]]
  PROVE  Mended(s, AutoToggled(s, list, m).setting, ToSet(list))
<1>1. [setting |-> s, memory |-> m] \in Toggles(m)
  <2>1. \A t \in Tunables : m[t] \in Memories(m)  BY DEF Memories
  <2>2. m \in [Tunables -> Memories(m)]
    <3> HIDE DEF Memories
    <3>1. [t \in Tunables |-> m[t]] \in [Tunables -> Memories(m)]  BY <2>1
    <3> QED  BY <3>1, Zenon
  <2> QED  BY <2>2 DEF Toggles
<1>2. \A acc \in Toggles(m) : \A t \in Tunables : AutoToggle(acc, t) \in Toggles(m)
  BY TogglesStay
<1>0. list \in Seq(Tunables)  OBVIOUS
<1>3. PICK r \in [0..Len(list) -> Toggles(m)] :
        /\ r[0] = [setting |-> s, memory |-> m] /\ r[Len(list)] = AutoToggled(s, list, m)
        /\ \A k \in 1..Len(list) : r[k] = AutoToggle(r[k - 1], list[k])
  BY ONLY <1>1, <1>2, <1>0, ToggleRuns
<1> DEFINE N == {k \in Nat : k <= Len(list) => Mended(s, r[k].setting, Done(list, k))}
<1>4. Len(list) \in Nat  OBVIOUS
<1>5. 0 \in N  BY <1>3 DEF Mended, Done
<1>6. ASSUME NEW k \in Nat, k \in N PROVE k + 1 \in N
  <2>1. SUFFICES ASSUME k + 1 <= Len(list) PROVE Mended(s, r[k + 1].setting, Done(list, k + 1))  OBVIOUS
  <2>2. k + 1 \in 1..Len(list) /\ k \in 0..Len(list) /\ (k + 1) - 1 = k /\ k <= Len(list)  BY <1>4, <2>1
  <2>3. r[k + 1] = AutoToggle(r[k], list[k + 1])  BY <1>3, <2>2
  <2>4. r[k].setting \in [Files -> Nat]  BY <1>3, <2>2 DEF Toggles
  <2>5. list[k + 1] \in Tunables /\ Done(list, k) \in SUBSET Tunables  BY <1>4, <2>2 DEF Done
  <2>6. Done(list, k + 1) = Done(list, k) \cup {list[k + 1]}  BY <2>2 DEF Done
  <2>7. Mended(s, r[k].setting, Done(list, k))  BY <1>6, <2>2
  <2> DEFINE acc == r[k]
             t == list[k + 1]
             done == Done(list, k)
  <2> HIDE DEF acc, t, done
  <2>8. Mended(s, AutoToggle(acc, t).setting, done \cup {t})
    <3>1. acc.setting \in [Files -> Nat] /\ t \in Tunables /\ done \in SUBSET Tunables /\ Mended(s, acc.setting, done)
      BY <2>4, <2>5, <2>7 DEF acc, t, done
    <3> QED  BY ONLY <3>1, ToggleMends
  <2> QED  BY <2>3, <2>6, <2>8, Zenon DEF acc, t, done
<1> HIDE DEF N
<1>7. \A k \in Nat : k \in N  BY <1>5, <1>6, Induction
<1>8. Done(list, Len(list)) = ToSet(list)  BY <1>4 DEF ToSet, Done
<1> QED  BY <1>3, <1>4, <1>7, <1>8 DEF N

\* Until it tunes, --auto-tune has what the program found when it started.
TuneInv ==
  mode = "auto-tune" =>
    all_tunables \in Seq(Tunables) /\ setting \in [Files -> Nat] /\ memory = FirstMemory(setting)

LEMMA InitTunes == Init => TuneInv
BY ListsAreMade, ScreenAssumption DEF Init, TuneInv

LEMMA NextTunes == TuneInv /\ [Next]_vars => TuneInv'
<1>1. Next => mode' # "auto-tune"
  BY DEF Next, ShowNextTab, ShowPrevTab, GoTo, CursorDown, CursorUp, Moved, CursorEnter, EnterTunable, EnterWakeup,
    Refresh, Resize, WindowRefresh, SetRefreshTimeout, EndOfMeasurement, AutoTune, Unplug, PlugIn, OthersWrite,
    Change, Air, Keys
<1> QED  BY <1>1 DEF TuneInv, vars, tunableVars

LEMMA TuneStep == TuneInv /\ AutoTune =>
  \A t \in ToSet(all_tunables) :
    (\A f \in ToSet(FilesOf[t]) : setting[f] # Missing) => IsGood(setting', t)
<1> SUFFICES ASSUME TuneInv, AutoTune
             PROVE  \A t \in ToSet(all_tunables) :
                      (\A f \in ToSet(FilesOf[t]) : setting[f] # Missing) => IsGood(setting', t)
  OBVIOUS
<1>1. all_tunables \in Seq(Tunables) /\ setting \in [Files -> Nat]  BY DEF TuneInv, AutoTune
<1>2. memory = [t \in Tunables |-> memory[t]]  BY DEF TuneInv, AutoTune, FirstMemory, AllRemembered
<1>3. setting' = AutoToggled(setting, all_tunables, memory).setting  BY DEF AutoTune
<1>4. Mended(setting, setting', ToSet(all_tunables))  BY <1>1, <1>2, <1>3, AllAreMended
<1> QED  BY <1>4 DEF Mended

\* --auto-tune leaves nothing bad that it can mend, of any number of tunables of
\* any kinds in any order (tuning.cpp:330).
THEOREM AutoTuneMends == Spec => AutoTuneFixes
BY InitTunes, NextTunes, TuneStep, PTL DEF Spec, AutoTuneFixes
=============================================================================
