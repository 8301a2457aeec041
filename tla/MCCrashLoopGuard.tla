--------------------------- MODULE MCCrashLoopGuard ---------------------------
(* Model checking of CrashLoopGuard; the cfgs choose the faults of the store. *)
EXTENDS CrashLoopGuard

Reliable == {}
MarkerFails == {"marker"}
==============================================================================
