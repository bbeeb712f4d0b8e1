----------------------------- MODULE NetworkDevices -----------------------------
(***************************************************************************)
(* Network cards (src/src/devices/network.cpp): the packets that           *)
(* /proc/net/dev counts, read at most once a second for all cards.  The    *)
(* second is the time of the machine and not of the test framework.  The   *)
(* link is asked for with system calls that the framework does not know.   *)
(***************************************************************************)
EXTENDS TestFramework, FiniteSets

CONSTANTS
  TicksPerSecond    \* how often the clock of the machine ticks in a second

ASSUME TicksAssumption == TicksPerSecond \in Nat \ {0}

Packets == <<"R", "packets">>     \* the line of the card in /proc/net/dev

\* "last_time" is static in do_proc_net_dev: the second of the last read, 0 at first.
NewNic ==
  [last_time |-> 0, pkts |-> 0, start_pkts |-> 0, end_pkts |-> 0, before |-> 0, after |-> 0,
   start_up |-> 0, end_up |-> 0, start_speed |-> 0, end_speed |-> 0, valid |-> <<>>]

\* A system call about the card; one that fails leaves zeros in its answer.
I(name) == <<"I", name>>
Answer(name) == IF Content(I(name)) = Absent THEN 0 ELSE kernel[I(name)]

get_iface_up == Answer("up")
NoSpeed == 65535

\* The speed in classes: 100 and 1000 stand for what is slower, too.
SpeedClass(speed) ==
  CASE speed \in 1..100 -> 100
    [] speed \in 101..1000 -> 1000
    [] OTHER -> speed

get_iface_speed ==
  LET speed == Answer("speed")
  IN IF speed = NoSpeed \/ Answer("link") = 0 THEN 0 ELSE SpeedClass(speed)

\* A card that cannot be asked, one of a wire among them, saves power.
get_wifi_power_saving == IF Content(I("saving")) = Absent THEN 1 ELSE kernel[I("saving")]

SecondOf(now) == now \div TicksPerSecond

NicReads(d, now) ==
  Once({<<"T", "now">>} \cup IF SecondOf(now) = d.last_time THEN {} ELSE {Packets})

\* A card without a line keeps its count.
DoProcNetDev(d, got, now) ==
  IF SecondOf(now) = d.last_time THEN d
  ELSE [d EXCEPT !.last_time = SecondOf(now),
                 !.pkts = IF got[Packets] = Absent THEN @ ELSE got[Packets]]

NicStarted(d, got, now) ==
  LET read == DoProcNetDev(d, got, now)
  IN [read EXCEPT !.start_pkts = read.pkts, !.before = got[<<"T", "now">>],
                  !.start_up = get_iface_up, !.end_up = 1,
                  !.start_speed = get_iface_speed, !.end_speed = 0]

\* A count that fell, of a card that was made again, counts as no packet.
NicEnded(d, got, now) ==
  LET read == DoProcNetDev(d, got, now)
  IN [read EXCEPT !.end_pkts = IF d.start_pkts > read.pkts THEN d.start_pkts ELSE read.pkts,
                  !.after = got[<<"T", "now">>],
                  !.end_up = get_iface_up, !.end_speed = get_iface_speed]

\* A speed at the start and one at the end make half of the share each.
LinkShare(d, speeds) ==
  50 * Cardinality({m \in {1, 2} : (IF m = 1 THEN d.start_speed ELSE d.end_speed) \in speeds})

\* The sum of "up" stands for their mean.  The packets are below.
NicReports(d) ==
  [up |-> d.start_up + d.end_up, powerunsave |-> 100 - 100 * get_wifi_power_saving,
   link_100  |-> LinkShare(d, {100}),
   link_1000 |-> LinkShare(d, {1000}),
   link_high |-> LinkShare(d, {speed \in Nat : speed > 1000})]

\* Of the utilization there are the packets and the time they are divided by.
NicUtilization(d) ==
  IF d.after = d.before THEN [packets |-> 0, duration |-> 0]
  ELSE [packets |-> d.end_pkts - d.start_pkts, duration |-> d.after - d.before]
=============================================================================
