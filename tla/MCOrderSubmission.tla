-------------------------- MODULE MCOrderSubmission --------------------------
(* Model checking of OrderSubmission; each cfg chooses the settings it covers. *)
EXTENDS OrderSubmission

Setting(s, hours, c, f) ==
    [side |-> s, symbolCooldownHours |-> hours, maxCrashes |-> c, faults |-> f]

\* Either side through crashes and lost answers, on a cooldown that ends within the
\* day; and a BUY with a broker that changes its mind about brackets, through a crash,
\* a store and reads that fail, cooled for the day or for less.
CrashesAndFaults ==
    {Setting(s, 4, 2, {"lostAnswer", "degradedRead", "riskRejects"}) : s \in {"buy", "sell"}}
      \cup {Setting("buy", 24, 1, FaultKinds),
            Setting("buy", 4, 1, {"bracketFlaky", "lostAnswer", "storeFails"})}

CrashedBuy == {Setting("buy", 24, 1, {})}
RepeatedSell == {Setting("sell", 24, 0, {})}
FlakyBuy == {Setting("buy", 24, 1, {"bracketFlaky"})}
FailingStore == {Setting("buy", 24, 1, {"storeFails"})}
==============================================================================
