---------------------------- MODULE MCBreakerLatch ----------------------------
(* Model checking of BreakerLatch on two interchangeable processes. *)
EXTENDS BreakerLatch, TLC

Symmetry == Permutations(Procs)

\* Against limits of 3 / 10 / 15 percent: 100 is the peak, 98 a tolerable day,
\* 89 a peak drawdown but above the baseline floor of 85, 84 below the floor.
MCEquities == {84, 89, 98, 100}
MCNoUnparsable == {}
MCUnparsable == {0}
===============================================================================
