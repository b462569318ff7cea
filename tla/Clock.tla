------------------------------- MODULE Clock -------------------------------
(***************************************************************************)
(* The wall clock every module of the daemon reads with time(NULL).        *)
(*                                                                         *)
(* It is not a monotonic clock: on an access point without a battery-      *)
(* backed clock, NTP sets it once the uplink is there.  ClockSteps is the  *)
(* set of values such a correction may set it to (empty: a steady clock).  *)
(***************************************************************************)
EXTENDS Integers

CONSTANTS
  MaxTime,        \* bound: the model's last second
  ClockSteps      \* values a correction of the wall clock may set it to

ASSUME ClockAssumption ==
  /\ MaxTime \in Nat
  /\ ClockSteps \subseteq 0..MaxTime

VARIABLE now      \* what time(NULL) returns

Times == 0..MaxTime

ClockInit == now = 0

Tick == now < MaxTime /\ now' = now + 1

ClockStep == now' \in ClockSteps

=============================================================================
