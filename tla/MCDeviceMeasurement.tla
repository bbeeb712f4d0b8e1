-------------------------- MODULE MCDeviceMeasurement --------------------------
EXTENDS DeviceMeasurement

MCClasses ==
  (ShareClasses \ {"usb"}) \cup {"xe_energy", "devfreq", "cpu", "rc6", "xe_gts"}
MCUnits ==
  [class : MCClasses, model : {"none"}]
    \cup {[class |-> "rapl_powercap", model |-> "dram"], [class |-> "rapl_msr", model |-> "pp0"]}
    \cup [class : {"usb"}, model : {"shown", "reported", "hub"}]
    \cup [class : {"nic"}, model : {"wired", "wireless"}]
    \cup [class : {"core"}, model : {"nehalem", "haswell_ult", "braswell"}]
    \cup [class : {"package"}, model : Models]

\* The first and the last state of a package, and those that need a table.
MCPackages ==
  [nehalem |-> {"c0", "c3", "c6"}, haswell_ult |-> {"c0", "c7", "c10"},
   baytrail_t |-> {"c0", "c2", "c7"}, baytrail_m |-> {"c2", "c6"}, braswell |-> {"c0", "c6"}]

\* Two saved results: the share of the USB device and the slow link of the card vary.
MCPast ==
  <<[name |-> 10, link_100 |-> 0, link_high |-> 100], [name |-> 20, link_100 |-> 50, link_high |-> 100]>>

MCParameters ==
  [usb |-> 3, up |-> 2, link_100 |-> 5, link_high |-> 7, powerunsave |-> 11, backlight |-> 3, radio |-> 2,
   runtime |-> 2] @@
  ("alsa-codec-power" :> 5) @@ ("ahci-link-power-active" :> 6) @@ ("ahci-link-power-partial" :> 2) @@
  ("backlight-power" :> 4) @@ ("backlight-boost-40" :> 1) @@ ("backlight-boost-100" :> 2) @@
  ("thinkpad-fan" :> 9) @@ ("thinkpad-fan-sqr" :> 6) @@ ("thinkpad-fan-cub" :> 10) @@
  ("thinkpad-light" :> 12)
=============================================================================
