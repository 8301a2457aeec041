--------------------------- MODULE MCBracketPosition ---------------------------
(* Model checking of BracketPosition; each cfg chooses the conditions it covers. *)
EXTENDS BracketPosition

\* One share, one poller, orders that may expire, and nothing adverse.
Plain == [q |-> 1, maxCrashes |-> 0, pollers |-> {"cycle"}, deaths |-> {"expired"},
          staleCancel |-> FALSE, quirks |-> {}]

\* Everything adverse at once, on two shares.
Adverse == [Plain EXCEPT !.q = 2, !.maxCrashes = 1, !.staleCancel = TRUE,
                         !.deaths = {"canceled", "expired", "rejected"},
                         !.quirks = QuirkKinds]
PartialFills == {[Plain EXCEPT !.q = 2, !.maxCrashes = 1]}

\* Part fills that come to their end, or outlive their age or die at the broker.
EndingPartials ==
    {[Plain EXCEPT !.q = 2, !.maxCrashes = 1, !.staleCancel = stale,
                   !.quirks = IF stale THEN {"partialDies"} ELSE {}] : stale \in BOOLEAN}

\* Both pollers (on orders that fill or are canceled); part fills and a crash; all
\* adversity; all but untrue DELETE answers.
LedgerConditions ==
    {[Plain EXCEPT !.pollers = {"cycle", "boot"}, !.deaths = {}], Adverse,
     [Adverse EXCEPT !.q = 1, !.maxCrashes = 0, !.quirks = @ \ {"gone404", "cancelRace"}]}
      \cup PartialFills
PlainOnly == {Plain}
Undying == {[Plain EXCEPT !.deaths = {}]}
StalePartials == {[Plain EXCEPT !.q = 2, !.staleCancel = TRUE]}
================================================================================
