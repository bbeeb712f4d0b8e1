------------------------------ MODULE DevicePower ------------------------------
(***************************************************************************)
(* What devices are charged for the results that they reported: the        *)
(* power_usage of the classes in src/src/devices/, from the parameters     *)
(* and results of src/src/parameters/parameters.cpp.  Powers are in        *)
(* hundredths of a Watt; a fan turns in units of 3600 per minute.          *)
(***************************************************************************)
EXTENDS ShareDevices, NetworkDevices

CONSTANTS
  Parameters,   \* [name -> value]
  Past          \* the saved results: a sequence of [name -> value]

ResultValue(results, name) == IF name \in DOMAIN results THEN results[name] ELSE 0
ParameterValue(name)       == IF name \in DOMAIN Parameters THEN Parameters[name] ELSE 0

\* utilization_power_valid: there is something to learn from a result that varies.
UtilizationPowerValid(name) ==
  /\ Past # <<>>
  /\ name \in DOMAIN Past[1]
  /\ \E i \in 2..Len(Past) : ResultValue(Past[i], name) # Past[1][name]

\* precompute_valid, of a USB device.
PrecomputeValid(d) == [d EXCEPT !.cached_valid = UtilizationPowerValid("name")]

UsbPower(d, results) ==
  IF d.rootport \/ ~d.cached_valid THEN 0
  ELSE ResultValue(results, "name") * ParameterValue("usb")

AlsaPower(results) == ResultValue(results, "name") * ParameterValue("alsa-codec-power")

AhciPower(results) ==
  ResultValue(results, "active") * ParameterValue("ahci-link-power-active")
    + ResultValue(results, "partial") * ParameterValue("ahci-link-power-partial")

BoostOf(level) ==
  CASE level >= 99 -> ParameterValue("backlight-boost-100")
    [] level \in 80..98 -> ParameterValue("backlight-boost-80")
    [] level \in 40..79 -> ParameterValue("backlight-boost-40")
    [] OTHER -> 0

BacklightPower(results) ==
  ResultValue(results, "name") * ParameterValue("backlight")
    + 100 * BoostOf(ResultValue(results, "name"))
    + ResultValue(results, "power") * ParameterValue("backlight-power")

\* The results of radios are under another name than "radio:" and their own, and
\* devices with runtime power management report none.
RfkillPower(results)    == ResultValue(results, "radio") * ParameterValue("radio")
RuntimePmPower(results) == ResultValue(results, "runtime") * ParameterValue("runtime")

\* Linear, square and cubic parts, less what the parameters are at first.
FanPower(results) ==
  LET util == NotBelow(0, ResultValue(results, "name"))
  IN NotBelow(0, 100 * ParameterValue("thinkpad-fan-cub") * util * util * util
                   + 100 * (ParameterValue("thinkpad-fan-sqr") - 5) * util * util
                   + 72 * (ParameterValue("thinkpad-fan") - 10) * util)

LightPower(results) ==
  NotBelow(0, NotBelow(0, ResultValue(results, "name")) * (ParameterValue("thinkpad-light") - 10))

SharePower(class, d, results) ==
  CASE class = "usb"        -> UsbPower(d, results)
    [] class = "alsa"       -> AlsaPower(results)
    [] class = "ahci"       -> AhciPower(results)
    [] class = "backlight"  -> BacklightPower(results)
    [] class = "rfkill"     -> RfkillPower(results)
    [] class = "runtime_pm" -> RuntimePmPower(results)
    [] class = "fan"        -> FanPower(results)
    [] class = "light"      -> LightPower(results)
    [] class = "xe_fan"     -> 0

\* What can be learned of a card is looked up when it is charged first, and kept.
NicResults == {"link_100", "link_1000", "link_high", "powerunsave"}
NicCharged(d) ==
  IF d.valid # <<>> THEN d ELSE [d EXCEPT !.valid = [r \in NicResults |-> UtilizationPowerValid(r)]]

\* The packets are left out; "up" is a sum of two and counts half.
NicPower(valid, results) ==
  50 * ResultValue(results, "up") * ParameterValue("up")
    + FoldLeft(LAMBDA power, r : power + ResultValue(results, r) * ParameterValue(r), 0,
               SetToSeq({r \in NicResults : valid[r]}))
=============================================================================
