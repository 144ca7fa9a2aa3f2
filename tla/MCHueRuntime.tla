--------------------------------- MODULE MCHueRuntime ---------------------------------
(* Small instances of HueRuntime for TLC: what the calls ask for, and what may  *)
(* go wrong while they are answered.                                            *)
EXTENDS HueRuntime

StartAndStop == {"start", "stop"}
Deaths == {"death"}
AnyMishap == AllMishaps
DeathsAndFailures == {"death", "transport"}
DeathsAndErrors == {"death", "transport", "auth"}
=======================================================================================
