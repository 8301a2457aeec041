---------------------------- MODULE SignalPipeline ----------------------------
(***************************************************************************)
(* The way of a newsletter mail through a sync cycle: Claude's analysis,   *)
(* the whipsaw gate, the cross-source check, review and deduplication      *)
(* against the stored signals (signalReviewStep.ts), the long-only bearish *)
(* mapping, and the automated order.  A cycle visits its mails one by one, *)
(* awaiting Claude and the broker in between, and may die at any await;    *)
(* the next cycle lists the same mails again.                              *)
(*                                                                         *)
(* A cycle holds the appStore mutex to its end (SyncScheduler), so the     *)
(* configuration cannot change under it.  Positions change at any time.    *)
(* Confidence is reduced to being over the limit or not, sizing to its     *)
(* yielding a share or not.  Time advances in steps of one window.         *)
(***************************************************************************)
EXTENDS Naturals

CONSTANTS
    Mails, Symbols, Sources,
    SourceOf,                   \* the registry source that listed a mail
    SentAt,                     \* a mail's internalDate
    MaxAge,                     \* maxAgeHours of a source
    CROSS_SOURCE_WINDOW_HOURS,
    MAX_BUYS_PER_CYCLE,
    Reworded,                   \* mails whose analysis Claude may word as it did before
    Faults,                     \* see FaultKinds
    MaxTime, MaxCrashes         \* (bounds)

\* crash:      the process dies at an await of a cycle
\* storeFails: a read or write of SQLite throws
FaultKinds == {"crash", "storeFails"}

ASSUME SignalAssumption ==
    /\ SourceOf \in [Mails -> Sources]
    /\ SentAt \in [Mails -> Nat]
    /\ MaxAge \in [Sources -> Nat]
    /\ CROSS_SOURCE_WINDOW_HOURS \in Nat
    /\ MAX_BUYS_PER_CYCLE \in Nat
    /\ Reworded \subseteq Mails
    /\ Faults \subseteq FaultKinds
    /\ MaxTime \in Nat /\ MaxCrashes \in Nat

VARIABLES
    accepted,      \* reviewed_signals: the stance of the row that holds the key, or "none"
    invalidated,   \* thesis_invalidations
    doNotBuy,      \* do_not_buy
    autoTrading,   \* persisted: system.autoTrading
    held,          \* broker: the symbols with a position
    now,
    cycle,         \* the sync cycle in flight
    attempts,      \* history: intents executed for a mail's call on a symbol, up to 2
    underKey,      \* history: those executed under the key now stored, up to 2
    bought,        \* history: the calls a BUY was placed for
    unrecorded,    \* history: bearish SELLs accepted whose consequence is not stored
    failed,        \* history: calls whose handling a crash or a failing store cut short
    crashes

stored == <<accepted, invalidated, doNotBuy, autoTrading>>
history == <<attempts, underKey, bought, unrecorded, failed>>
vars == <<stored, held, now, cycle, history, crashes>>

Stances == {"bullish", "bearish", "neutral"}
Decisions == {"BUY", "SELL", "HOLD"}   \* HOLD stands for NONE too

\* Claude's structured answer about a mail.
Answers == [symbol : Symbols, decision : Decisions, reversal : BOOLEAN,
            stance : Stances, confident : BOOLEAN, sameWording : BOOLEAN]
\* What of it can get a signal rejected or put its row in another's place.
Reviewed == [symbol : Symbols, confident : BOOLEAN, sameWording : BOOLEAN]

\* A call: an accepted signal on its way to its consequences.
Calls == [mail : Mails, symbol : Symbols, decision : Decisions, bearishSell : BOOLEAN,
          downgraded : BOOLEAN, conflict : BOOLEAN, lookedUp : BOOLEAN]
Idle == [pc |-> "idle", todo |-> {}, buys |-> 0]
Scanning == [pc : {"scanning"}, todo : SUBSET Mails, buys : Nat]
Handling == [pc : {"mapping", "deciding", "submitting"}, todo : SUBSET Mails, buys : Nat,
             call : Calls]
Key(call) == <<call.mail, call.symbol>>
handling == cycle.pc \in {"mapping", "deciding", "submitting"}

Init ==
    /\ accepted = [key \in Mails \X Symbols |-> "none"]
    /\ invalidated = {}
    /\ doNotBuy = {}
    /\ autoTrading \in BOOLEAN
    /\ held \in SUBSET Symbols
    /\ now = 0
    /\ cycle = Idle
    /\ attempts = [key \in Mails \X Symbols |-> 0]
    /\ underKey = attempts
    /\ bought = {}
    /\ unrecorded = {}
    /\ failed = {}
    /\ crashes = 0

-------------------------------------------------------------------------------
(* Ingestion, analysis and review *)

\* Whatever Gmail lists of the mails sent; a reduced cycle, or one without a token,
\* lists none.
StartCycle ==
    /\ cycle.pc = "idle"
    /\ \E listed \in SUBSET {mail \in Mails : SentAt[mail] <= now} :
          cycle' = [pc |-> "scanning", todo |-> listed, buys |-> 0]
    /\ UNCHANGED <<stored, held, now, history, crashes>>

EndCycle ==
    /\ cycle.pc = "scanning" /\ cycle.todo = {}
    /\ cycle' = Idle
    /\ UNCHANGED <<stored, held, now, history, crashes>>

\* evaluateCrossSource: another source's accepted signal of the opposite stance.
Opposite == [stance \in {"bullish", "bearish"} |->
                IF stance = "bullish" THEN "bearish" ELSE "bullish"]
InWindow(mail) == now - SentAt[mail] <= CROSS_SOURCE_WINDOW_HOURS
Opposed(mail, symbol, stance) ==
    /\ stance # "neutral"
    /\ \E other \in Mails : /\ SourceOf[other] # SourceOf[mail]
                            /\ InWindow(other)
                            /\ accepted[<<other, symbol>>] = Opposite[stance]

\* mutant of ConflictForBuy: the bearish side is flagged instead of the bullish one
ConflictForBearish(mail, answer) ==
    answer.stance = "bearish" /\ Opposed(mail, answer.symbol, answer.stance)
\* A conflict flags the bullish side only.
ConflictForBuy(mail, answer) ==
    answer.stance = "bullish" /\ Opposed(mail, answer.symbol, answer.stance)

\* applyWhipsawGate, and a bearish BUY forced to NONE.
Downgraded(answer) == answer.decision = "SELL" /\ ~answer.reversal
Effective(answer) ==
    IF Downgraded(answer) \/ (answer.decision = "BUY" /\ answer.stance = "bearish")
    THEN "HOLD" ELSE answer.decision

CallOf(mail, answer, lookedUp) ==
    [mail |-> mail, symbol |-> answer.symbol, decision |-> Effective(answer),
     bearishSell |-> answer.decision = "SELL" /\ answer.stance = "bearish",
     downgraded |-> Downgraded(answer),
     conflict |-> lookedUp /\ ConflictForBuy(mail, answer), lookedUp |-> lookedUp]

Stale(mail) == now - SentAt[mail] > MaxAge[SourceOf[mail]]

\* mutant of Duplicate: the key hashes the thesis, which Claude words anew each time
DuplicateThesis(mail, answer) ==
    accepted[<<mail, answer.symbol>>] # "none" /\ answer.sameWording
\* The key hashes the mail's content.
Duplicate(mail, answer) == accepted[<<mail, answer.symbol>>] # "none"
Rejected(mail, answer) == Stale(mail) \/ Duplicate(mail, answer) \/ ~answer.confident

\* A rejected row without a key replaces the accepted one if their ids are equal.
Overwrites(mail, answer) == answer.sameWording /\ accepted[<<mail, answer.symbol>>] # "none"

Return == [pc |-> "scanning", todo |-> cycle.todo, buys |-> cycle.buys]
Enter(pc, call) == [pc |-> pc, todo |-> cycle.todo, buys |-> cycle.buys, call |-> call]
Drop(mail) == [cycle EXCEPT !.todo = @ \ {mail}]
AfterMapping(call) ==
    IF autoTrading /\ call.decision \in {"BUY", "SELL"}
    THEN Enter("deciding", call) ELSE Return
AfterReview(mail, call) ==
    LET then == IF call.bearishSell THEN Enter("mapping", call) ELSE AfterMapping(call)
    IN  [then EXCEPT !.todo = cycle.todo \ {mail}]

\* Claude does not answer, names no ticker, or the signal cannot be stored: the mail
\* is left for the next cycle.
SkipMail(mail) ==
    /\ cycle.pc = "scanning" /\ mail \in cycle.todo
    /\ cycle' = Drop(mail)
    /\ UNCHANGED <<stored, held, now, history, crashes>>

Reject(mail) ==
    /\ cycle.pc = "scanning" /\ mail \in cycle.todo
    /\ \E answer \in Reviewed :
          /\ answer.sameWording => mail \in Reworded
          /\ Rejected(mail, answer)
          /\ IF Overwrites(mail, answer)
             THEN /\ accepted' = [accepted EXCEPT ![<<mail, answer.symbol>>] = "none"]
                  /\ underKey' = [underKey EXCEPT ![<<mail, answer.symbol>>] = 0]
             ELSE UNCHANGED <<accepted, underKey>>
    /\ cycle' = Drop(mail)
    /\ UNCHANGED <<invalidated, doNotBuy, autoTrading, held, now, attempts, bought,
                   unrecorded, failed, crashes>>

\* The row is stored with its key before anything is done about the signal.
Accept(mail) ==
    /\ cycle.pc = "scanning" /\ mail \in cycle.todo
    /\ \E answer \in Answers, lookedUp \in {TRUE, "storeFails" \notin Faults} :
          LET call == CallOf(mail, answer, lookedUp)
          IN  /\ ~Rejected(mail, answer)
              /\ answer.sameWording = FALSE
              /\ accepted' = [accepted EXCEPT ![Key(call)] = answer.stance]
              /\ unrecorded' = unrecorded \cup {k \in {Key(call)} : call.bearishSell}
              /\ \/ /\ cycle' = AfterReview(mail, call)
                    /\ UNCHANGED failed
                 \/ /\ "storeFails" \in Faults   \* appendAnalysis throws
                    /\ cycle' = Drop(mail)
                    /\ failed' = failed \cup {Key(call)}
    /\ UNCHANGED <<invalidated, doNotBuy, autoTrading, held, now, attempts, underKey, bought,
                   crashes>>

-------------------------------------------------------------------------------
(* Consequences of an accepted signal *)

\* getAlpacaPortfolio: a failed read of the positions degrades to none.
Snapshots == {held, {}}

\* mutant of Mapped: only what the whipsaw gate left a SELL is mapped
MappedAfterGate(call, isHeld) ==
    IF call.downgraded THEN "none"
    ELSE IF isHeld THEN "thesis_invalidation" ELSE "do_not_buy"
\* evaluateBearishMapping: invalidating a thesis needs a verified reversal, avoiding a
\* buy does not.
Mapped(call, isHeld) ==
    IF ~isHeld THEN "do_not_buy"
    ELSE IF call.downgraded THEN "none" ELSE "thesis_invalidation"

\* A downgraded SELL of a held symbol has no consequence to store.
Settles(call, isHeld) == Mapped(call, isHeld) # "none" \/ (isHeld /\ call.downgraded)

MapBearish ==
    /\ cycle.pc = "mapping"
    /\ \E positions \in Snapshots :
          LET call == cycle.call
              isHeld == call.symbol \in positions
              kind == Mapped(call, isHeld)
          IN  \/ /\ invalidated' = invalidated \cup
                       {s \in {call.symbol} : kind = "thesis_invalidation"}
                 /\ doNotBuy' = doNotBuy \cup {s \in {call.symbol} : kind = "do_not_buy"}
                 /\ unrecorded' = IF Settles(call, isHeld)
                                  THEN unrecorded \ {Key(call)} ELSE unrecorded
                 /\ UNCHANGED failed
              \/ /\ "storeFails" \in Faults /\ kind # "none"
                 /\ failed' = failed \cup {Key(call)}
                 /\ UNCHANGED <<invalidated, doNotBuy, unrecorded>>
    /\ cycle' = AfterMapping(cycle.call)
    /\ UNCHANGED <<accepted, autoTrading, held, now, attempts, underKey, bought, crashes>>

\* The automated order up to executeTradeIntent.  No price, no size, a store that
\* cannot be read or a sell the preflight refuses end the call.
Decide ==
    /\ cycle.pc = "deciding"
    /\ \/ /\ cycle.call.decision = "BUY"
          /\ cycle.call.symbol \notin doNotBuy
          /\ cycle.buys < MAX_BUYS_PER_CYCLE
          /\ cycle' = [cycle EXCEPT !.pc = "submitting", !.buys = @ + 1]
       \/ /\ cycle.call.decision = "SELL"
          /\ cycle.call.symbol \in held
          /\ cycle' = [cycle EXCEPT !.pc = "submitting"]
       \/ cycle' = Return
    /\ UNCHANGED <<stored, held, now, history, crashes>>

\* executeTradeIntent: a listed symbol is rejected again, a conflict waits for a human;
\* any other gate may reject too.
Submit ==
    /\ cycle.pc = "submitting"
    /\ LET call == cycle.call
       IN  /\ attempts' = [attempts EXCEPT ![Key(call)] = IF @ = 2 THEN 2 ELSE @ + 1]
           /\ underKey' = [underKey EXCEPT ![Key(call)] = IF @ = 2 THEN 2 ELSE @ + 1]
           /\ \/ /\ call.decision = "BUY"
                 /\ call.symbol \notin doNotBuy
                 /\ ~call.conflict
                 /\ bought' = bought \cup {Key(call)}
              \/ UNCHANGED bought
    /\ cycle' = Return
    /\ UNCHANGED <<stored, held, now, unrecorded, failed, crashes>>

-------------------------------------------------------------------------------
(* The world around a cycle *)

\* The operator, between cycles: autoTrading changes under the mutex.
ToggleAutoTrading ==
    /\ cycle.pc = "idle"
    /\ autoTrading' = ~autoTrading
    /\ UNCHANGED <<accepted, invalidated, doNotBuy, held, now, cycle, history, crashes>>

\* An admin removes an entry of the do-not-buy list, or it expires; a thesis
\* invalidation only expires.
Unlist(symbol) ==
    /\ symbol \in doNotBuy \cup invalidated
    /\ \/ doNotBuy' = doNotBuy \ {symbol} /\ UNCHANGED invalidated
       \/ invalidated' = invalidated \ {symbol} /\ UNCHANGED doNotBuy
    /\ UNCHANGED <<accepted, autoTrading, held, now, cycle, history, crashes>>

\* Fills, bracket legs and exits open and close positions.
PositionChanges ==
    /\ held' \in SUBSET Symbols
    /\ UNCHANGED <<stored, now, cycle, history, crashes>>

Tick ==
    /\ now < MaxTime
    /\ now' = now + 1
    /\ UNCHANGED <<stored, held, cycle, history, crashes>>

\* The rows survive; the call at hand does not.
Crash ==
    /\ "crash" \in Faults
    /\ cycle.pc # "idle" /\ crashes < MaxCrashes
    /\ crashes' = crashes + 1
    /\ failed' = failed \cup (IF handling THEN {Key(cycle.call)} ELSE {})
    /\ cycle' = Idle
    /\ UNCHANGED <<stored, held, now, attempts, underKey, bought, unrecorded>>

Next ==
    \/ StartCycle \/ EndCycle
    \/ \E mail \in Mails : SkipMail(mail) \/ Reject(mail) \/ Accept(mail)
    \/ MapBearish \/ Decide \/ Submit
    \/ ToggleAutoTrading \/ PositionChanges \/ Tick \/ Crash
    \/ \E symbol \in Symbols : Unlist(symbol)

Spec == Init /\ [][Next]_vars

-------------------------------------------------------------------------------
(* Properties *)

\* The stored rows, the cycle and the histories keep their types.
TypeOK ==
    /\ accepted \in [Mails \X Symbols -> Stances \cup {"none"}]
    /\ invalidated \in SUBSET Symbols
    /\ doNotBuy \in SUBSET Symbols
    /\ autoTrading \in BOOLEAN
    /\ held \in SUBSET Symbols
    /\ now \in Nat
    /\ cycle \in {Idle} \cup Scanning \cup Handling
    /\ attempts \in [Mails \X Symbols -> 0..2]
    /\ underKey \in [Mails \X Symbols -> 0..2]
    /\ bought \in SUBSET (Mails \X Symbols)
    /\ unrecorded \in SUBSET (Mails \X Symbols)
    /\ failed \in SUBSET (Mails \X Symbols)
    /\ crashes \in Nat

\* However often a mail is listed and whatever crashes, its call on a symbol is executed at
\* most once under one stored key (signalReviewStep.ts): every further execution has a
\* rejected duplicate before it that Claude worded as the accepted row and that took its
\* place, and its key, in the store.
ActedOncePerKey == \A key \in Mails \X Symbols : underKey[key] <= 1

\* A mail's call on a symbol is executed at most once, however Claude words it: the promise
\* of signalReviewStep.ts:16, which the replaced row breaks.
ActedOnce == \A key \in Mails \X Symbols : attempts[key] <= 1

\* An accepted bearish SELL leaves its entry in one of the two lists, autoTrading on or
\* off: the mail is a duplicate from then on, so nothing would make up for it.  Only a
\* crash or a failing store loses it.
NoCallLost ==
    unrecorded \subseteq failed \cup (IF cycle.pc = "mapping" THEN {Key(cycle.call)} ELSE {})

\* No automated BUY on a bullish call while the window holds another source's bearish
\* one, even if a crash kept that one from the do-not-buy list or an admin cleared it.
OpposedCallNeedsHuman ==
    [][\A mail \in Mails, symbol \in Symbols :
          (/\ <<mail, symbol>> \in bought' \ bought
           /\ cycle.call.lookedUp
           /\ accepted[<<mail, symbol>>] = "bullish")
          => ~Opposed(mail, symbol, "bullish")]_vars
===============================================================================
