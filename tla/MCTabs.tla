--------------------------------- MODULE MCTabs ---------------------------------
EXTENDS Tabs

\* Three machines: with Bluetooth and a PCI bridge that cannot be managed; with a
\* number to be tuned, a wireless card, a single file and a USB device; with a
\* setting of each of two CPUs, of which one may go offline, a wireless card and
\* a network card that can wake the machine.
MCFiles == {"hci0", "wlan0", "dirty", "watchdog", "epb0", "epb1", "usb", "bridge", "usb wakeup", "eth wakeup"}
MCTunables == {"bluetooth", "wifi", "dirty", "watchdog", "epb", "usb", "bridge"}
MCKind == [bluetooth |-> "bluetooth", wifi |-> "wifi", dirty |-> "at least",
           watchdog |-> "choice", epb |-> "choice", usb |-> "usb", bridge |-> "runtime"]
MCEthernetWakeups == <<"eth wakeup">>
MCUsbWakeups == <<"usb wakeup">>
MCFilesOf ==
  [x \in MCTunables \cup {"usb wakeup", "eth wakeup"} |->
     CASE x = "bluetooth" -> <<"hci0">>
       [] x = "wifi" -> <<"wlan0">>
       [] x = "epb" -> <<"epb0", "epb1">>
       [] OTHER -> <<x>>]
MCTarget == [t \in MCTunables |-> IF t = "dirty" THEN 2 ELSE 1]
MCRank == [wifi |-> 1, bluetooth |-> 2, epb |-> 3, watchdog |-> 4, dirty |-> 5, usb |-> 6, bridge |-> 7]

Machine(has) == [f \in MCFiles |-> IF f \in DOMAIN has THEN has[f] ELSE Missing]
MCMachines ==
  {Machine([hci0 |-> On, watchdog |-> 1, bridge |-> Off]),
   Machine([wlan0 |-> On, dirty |-> 1, watchdog |-> 1, usb |-> Off] @@ ("usb wakeup" :> Off)),
   Machine([epb0 |-> 2, epb1 |-> 3, wlan0 |-> Off] @@ ("eth wakeup" :> Off))}

MCRemovable == [usb |-> Off, epb1 |-> 2] @@ ("usb wakeup" :> Off)
MCChangeable == {"dirty"}
=============================================================================
