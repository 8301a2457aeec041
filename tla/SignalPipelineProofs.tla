------------------------- MODULE SignalPipelineProofs -------------------------
(***************************************************************************)
(* The signal pipeline for every set of mails, symbols and sources, every  *)
(* window and age limit, any number of crashes.                            *)
(***************************************************************************)
EXTENDS SignalPipeline, TLAPS

-------------------------------------------------------------------------------
(* Calls and where they go *)

\* An answer becomes a well-formed call on the mail and symbol it is about.
LEMMA CallType ==
    ASSUME NEW mail \in Mails, NEW answer \in Answers, NEW lookedUp \in BOOLEAN
    PROVE  /\ CallOf(mail, answer, lookedUp) \in Calls
           /\ Key(CallOf(mail, answer, lookedUp)) = <<mail, answer.symbol>>
           /\ <<mail, answer.symbol>> \in Mails \X Symbols
<1>1. Effective(answer) \in Decisions
  BY DEF Effective, Answers, Decisions
<1>2. Downgraded(answer) \in BOOLEAN /\ ConflictForBuy(mail, answer) \in BOOLEAN
  BY DEF Downgraded, ConflictForBuy, Answers
<1>3. (answer.decision = "SELL" /\ answer.stance = "bearish") \in BOOLEAN
  OBVIOUS
<1> QED
  BY <1>1, <1>2, <1>3 DEF CallOf, Calls, Answers, Key

\* The key of a call is a mail and a symbol.
LEMMA KeyType == ASSUME NEW call \in Calls PROVE Key(call) \in Mails \X Symbols
BY DEF Calls, Key

\* A cycle that is scanning or handling a call can return to the scan.
LEMMA ReturnType ==
    ASSUME cycle \in Scanning \cup Handling
    PROVE  Return \in Scanning /\ Return.pc = "scanning"
BY DEF Return, Scanning, Handling

\* After the mapping a call is decided about or done with.
LEMMA AfterMappingType ==
    ASSUME cycle \in Scanning \cup Handling, NEW call \in Calls
    PROVE  \/ /\ AfterMapping(call) \in Handling
              /\ AfterMapping(call).pc = "deciding"
              /\ AfterMapping(call).call = call
           \/ AfterMapping(call) \in Scanning
<1>1. Return \in Scanning
  BY ReturnType
<1>2. /\ Enter("deciding", call) \in Handling
      /\ Enter("deciding", call).pc = "deciding"
      /\ Enter("deciding", call).call = call
  BY DEF Enter, Handling, Scanning
<1> QED
  BY <1>1, <1>2 DEF AfterMapping

\* After the review a bearish SELL is mapped, any other call decided about or done with.
LEMMA AfterReviewType ==
    ASSUME cycle \in Scanning, NEW mail \in Mails, NEW call \in Calls
    PROVE  \/ /\ AfterReview(mail, call) \in Handling
              /\ AfterReview(mail, call).call = call
              /\ AfterReview(mail, call).pc =
                    IF call.bearishSell THEN "mapping" ELSE "deciding"
           \/ AfterReview(mail, call) \in Scanning /\ ~call.bearishSell
<1> DEFINE then == IF call.bearishSell THEN Enter("mapping", call) ELSE AfterMapping(call)
           rest == cycle.todo \ {mail}
<1>1. AfterReview(mail, call) = [then EXCEPT !.todo = rest]
  BY DEF AfterReview
<1>2. rest \in SUBSET Mails
  BY DEF Scanning
<1>3. CASE call.bearishSell
  <2>1. Enter("mapping", call) \in Handling /\ Enter("mapping", call).pc = "mapping"
        /\ Enter("mapping", call).call = call
    BY DEF Enter, Handling, Scanning
  <2> HIDE DEF rest
  <2> QED
    BY <1>1, <1>2, <1>3, <2>1 DEF Handling
<1>4. CASE ~call.bearishSell
  <2>1. then = AfterMapping(call)
    BY <1>4
  <2>2. CASE AfterMapping(call) \in Scanning
    <3> HIDE DEF rest
    <3> QED
      BY <1>1, <1>2, <1>4, <2>1, <2>2 DEF Scanning
  <2>3. CASE AfterMapping(call) \in Handling /\ AfterMapping(call).pc = "deciding"
             /\ AfterMapping(call).call = call
    <3> HIDE DEF rest
    <3> QED
      BY <1>1, <1>2, <1>4, <2>1, <2>3 DEF Handling
  <2> QED
    BY <2>2, <2>3, AfterMappingType
<1> QED
  BY <1>3, <1>4

-------------------------------------------------------------------------------
(* Types *)

\* Which states of a cycle have a call at hand.
LEMMA CycleShapes ==
    ASSUME cycle \in {Idle} \cup Scanning \cup Handling
    PROVE  /\ cycle.pc = "idle" <=> cycle = Idle
           /\ cycle.pc = "scanning" <=> cycle \in Scanning
           /\ handling <=> cycle \in Handling
           /\ handling => cycle.call \in Calls /\ Key(cycle.call) \in Mails \X Symbols
           /\ cycle.pc \in {"idle", "scanning", "mapping", "deciding", "submitting"}
<1>1. Idle.pc = "idle"
  BY DEF Idle
<1> QED
  BY <1>1, KeyType DEF Scanning, Handling, handling

\* A rejected row takes one accepted row's place, with its key, or none's.
LEMMA RejectGives ==
    ASSUME NEW mail \in Mails, Reject(mail)
    PROVE  \E key \in Mails \X Symbols :
              \/ /\ accepted' = [accepted EXCEPT ![key] = "none"]
                 /\ underKey' = [underKey EXCEPT ![key] = 0]
              \/ accepted' = accepted /\ underKey' = underKey
<1>1. PICK answer \in Reviewed :
         IF Overwrites(mail, answer)
         THEN /\ accepted' = [accepted EXCEPT ![<<mail, answer.symbol>>] = "none"]
              /\ underKey' = [underKey EXCEPT ![<<mail, answer.symbol>>] = 0]
         ELSE UNCHANGED <<accepted, underKey>>
  BY DEF Reject
<1>2. <<mail, answer.symbol>> \in Mails \X Symbols
  BY DEF Reviewed
<1> QED
  BY <1>1, <1>2

\* A cycle starts with nothing stored and nothing in flight.
LEMMA TypesInit == Init => TypeOK
BY DEF Init, TypeOK, Stances

\* Every step keeps the types.
LEMMA TypesNext == TypeOK /\ [Next]_vars => TypeOK'
<1> SUFFICES ASSUME TypeOK, [Next]_vars PROVE TypeOK'
  OBVIOUS
<1> USE SignalAssumption DEF TypeOK
<1>0. /\ cycle.pc = "scanning" => cycle \in Scanning
      /\ handling => cycle \in Handling /\ cycle.call \in Calls
      /\ handling => Key(cycle.call) \in Mails \X Symbols
  BY CycleShapes
<1>1. CASE StartCycle
  BY <1>1 DEF StartCycle, Scanning, stored, history
<1>2. CASE EndCycle
  BY <1>2 DEF EndCycle, stored, history
<1>3. ASSUME NEW mail \in Mails, SkipMail(mail) PROVE TypeOK'
  <2>1. cycle' \in Scanning
    BY <1>3, <1>0 DEF SkipMail, Drop, Scanning
  <2> QED
    BY <1>3, <2>1 DEF SkipMail, stored, history
<1>4. ASSUME NEW mail \in Mails, Reject(mail) PROVE TypeOK'
  <2>1. cycle' \in Scanning
    BY <1>4, <1>0 DEF Reject, Drop, Scanning
  <2>2. /\ accepted' \in [Mails \X Symbols -> Stances \cup {"none"}]
        /\ underKey' \in [Mails \X Symbols -> 0..2]
    <3>1. PICK key \in Mails \X Symbols :
             \/ /\ accepted' = [accepted EXCEPT ![key] = "none"]
                /\ underKey' = [underKey EXCEPT ![key] = 0]
             \/ accepted' = accepted /\ underKey' = underKey
      BY <1>4, RejectGives
    <3>2. CASE accepted' = accepted /\ underKey' = underKey
      BY <3>2
    <3>3. CASE accepted' = [accepted EXCEPT ![key] = "none"]
      BY <3>1, <3>3
    <3> QED
      BY <3>1, <3>2, <3>3
  <2> QED
    BY <1>4, <2>1, <2>2 DEF Reject
<1>5. ASSUME NEW mail \in Mails, Accept(mail) PROVE TypeOK'
  <2>1. PICK answer \in Answers, lookedUp \in {TRUE, "storeFails" \notin Faults} :
          LET call == CallOf(mail, answer, lookedUp)
          IN  /\ accepted' = [accepted EXCEPT ![Key(call)] = answer.stance]
              /\ unrecorded' = unrecorded \cup {k \in {Key(call)} : call.bearishSell}
              /\ \/ /\ cycle' = AfterReview(mail, call)
                    /\ UNCHANGED failed
                 \/ /\ cycle' = Drop(mail)
                    /\ failed' = failed \cup {Key(call)}
    BY <1>5 DEF Accept
  <2> DEFINE call == CallOf(mail, answer, lookedUp)
  <2>2. call \in Calls /\ Key(call) \in Mails \X Symbols
    BY CallType
  <2>3. answer.stance \in Stances
    BY DEF Answers
  <2>4. cycle \in Scanning
    BY <1>5, <1>0 DEF Accept
  <2>5. Drop(mail) \in Scanning
    BY <2>4 DEF Drop, Scanning
  <2>6. AfterReview(mail, call) \in Scanning \cup Handling
    BY <2>2, <2>4, AfterReviewType
  <2> HIDE DEF call
  <2>7. /\ accepted' \in [Mails \X Symbols -> Stances \cup {"none"}]
        /\ unrecorded' \in SUBSET (Mails \X Symbols)
        /\ failed' \in SUBSET (Mails \X Symbols)
        /\ cycle' \in Scanning \cup Handling
    BY <2>1, <2>2, <2>3, <2>5, <2>6 DEF call
  <2> QED
    BY <1>5, <2>7 DEF Accept
<1>6. CASE MapBearish
  <2>1. cycle \in Handling /\ cycle.call \in Calls /\ Key(cycle.call) \in Mails \X Symbols
    BY <1>6, <1>0 DEF MapBearish, handling
  <2>2. cycle' \in Scanning \cup Handling
    BY <1>6, <2>1, AfterMappingType DEF MapBearish
  <2>3. cycle.call.symbol \in Symbols
    BY <2>1 DEF Calls
  <2>4. /\ invalidated' \in SUBSET Symbols /\ doNotBuy' \in SUBSET Symbols
        /\ unrecorded' \in SUBSET (Mails \X Symbols)
        /\ failed' \in SUBSET (Mails \X Symbols)
    BY <1>6, <2>1, <2>3 DEF MapBearish
  <2> QED
    BY <1>6, <2>2, <2>4 DEF MapBearish
<1>7. CASE Decide
  <2>1. cycle \in Handling
    BY <1>7, <1>0 DEF Decide, handling
  <2>2. Return \in Scanning
    BY <2>1, ReturnType
  <2>3. /\ [cycle EXCEPT !.pc = "submitting"] \in Handling
        /\ [cycle EXCEPT !.pc = "submitting", !.buys = @ + 1] \in Handling
    <3>1. cycle.buys \in Nat /\ cycle.buys + 1 \in Nat
      BY <2>1 DEF Handling
    <3>2. \A n \in Nat : [cycle EXCEPT !.pc = "submitting", !.buys = n] \in Handling
      BY <2>1 DEF Handling
    <3>3. [cycle EXCEPT !.pc = "submitting"] \in Handling
      BY <2>1 DEF Handling
    <3> QED
      BY <3>1, <3>2, <3>3
  <2>4. cycle' \in Scanning \cup Handling
    BY <1>7, <2>2, <2>3 DEF Decide
  <2> QED
    BY <1>7, <2>4 DEF Decide, stored, history
<1>8. CASE Submit
  <2>1. cycle \in Handling /\ Key(cycle.call) \in Mails \X Symbols
    BY <1>8, <1>0 DEF Submit, handling
  <2>2. cycle' \in Scanning
    BY <1>8, <2>1, ReturnType DEF Submit
  <2>3. bought' \in SUBSET (Mails \X Symbols)
    BY <1>8, <2>1 DEF Submit
  <2>4. /\ attempts' \in [Mails \X Symbols -> 0..2]
        /\ underKey' \in [Mails \X Symbols -> 0..2]
    <3>1. /\ attempts' = [attempts EXCEPT ![Key(cycle.call)] = IF @ = 2 THEN 2 ELSE @ + 1]
          /\ underKey' = [underKey EXCEPT ![Key(cycle.call)] = IF @ = 2 THEN 2 ELSE @ + 1]
      BY <1>8 DEF Submit
    <3>2. \A n \in 0..2 : (IF n = 2 THEN 2 ELSE n + 1) \in 0..2
      OBVIOUS
    <3> QED
      BY <3>1, <3>2, <2>1
  <2> QED
    BY <1>8, <2>2, <2>3, <2>4 DEF Submit, stored
<1>9. CASE ToggleAutoTrading
  BY <1>9 DEF ToggleAutoTrading, history
<1>10. ASSUME NEW symbol \in Symbols, Unlist(symbol) PROVE TypeOK'
  BY <1>10 DEF Unlist, history
<1>11. CASE PositionChanges
  BY <1>11 DEF PositionChanges, stored, history
<1>12. CASE Tick
  BY <1>12 DEF Tick, stored, history
<1>13. CASE Crash
  BY <1>13, <1>0 DEF Crash, stored
<1>14. CASE UNCHANGED vars
  BY <1>14 DEF vars, stored, history
<1> QED
  BY <1>1, <1>2, <1>3, <1>4, <1>5, <1>6, <1>7, <1>8, <1>9, <1>10, <1>11, <1>12, <1>13,
     <1>14 DEF Next

\* The stored rows, the cycle in flight and the histories keep their types
\* (signalReviewStep.ts, the sync loop of server.ts).
THEOREM TypesHold == Spec => []TypeOK
BY TypesInit, TypesNext, PTL DEF Spec

-------------------------------------------------------------------------------
(* What accepting a signal does *)

\* The call an accepted signal becomes, and the steps that can follow it.
LEMMA AcceptGives ==
    ASSUME TypeOK, NEW mail \in Mails, Accept(mail)
    PROVE  \E answer \in Answers, lookedUp \in BOOLEAN, call \in Calls :
              /\ call = CallOf(mail, answer, lookedUp)
              /\ Key(call) = <<mail, answer.symbol>> /\ Key(call) \in Mails \X Symbols
              /\ accepted[Key(call)] = "none"
              /\ accepted' = [accepted EXCEPT ![Key(call)] = answer.stance]
              /\ answer.stance \in Stances
              /\ unrecorded' = unrecorded \cup {k \in {Key(call)} : call.bearishSell}
              /\ \/ /\ cycle' \in Handling
                    /\ cycle'.call = call
                    /\ cycle'.pc = IF call.bearishSell THEN "mapping" ELSE "deciding"
                    /\ failed' = failed
                 \/ /\ cycle' \in Scanning /\ ~call.bearishSell
                    /\ failed' = failed
                 \/ /\ cycle' \in Scanning
                    /\ failed' = failed \cup {Key(call)}
<1>1. PICK answer \in Answers, lookedUp \in {TRUE, "storeFails" \notin Faults} :
        LET call == CallOf(mail, answer, lookedUp)
        IN  /\ ~Rejected(mail, answer)
            /\ accepted' = [accepted EXCEPT ![Key(call)] = answer.stance]
            /\ unrecorded' = unrecorded \cup {k \in {Key(call)} : call.bearishSell}
            /\ \/ /\ cycle' = AfterReview(mail, call)
                  /\ UNCHANGED failed
               \/ /\ cycle' = Drop(mail)
                  /\ failed' = failed \cup {Key(call)}
  BY DEF Accept
<1> DEFINE call == CallOf(mail, answer, lookedUp)
<1>2. call \in Calls /\ Key(call) = <<mail, answer.symbol>> /\ Key(call) \in Mails \X Symbols
  BY CallType
<1>3. answer.stance \in Stances
  BY DEF Answers
<1>4. cycle \in Scanning
  BY CycleShapes DEF Accept, TypeOK
<1>5. Drop(mail) \in Scanning
  BY <1>4 DEF Drop, Scanning
<1>6. accepted[Key(call)] = "none"
  BY <1>1, <1>2 DEF Rejected, Duplicate
<1>7. \/ /\ AfterReview(mail, call) \in Handling
         /\ AfterReview(mail, call).call = call
         /\ AfterReview(mail, call).pc = IF call.bearishSell THEN "mapping" ELSE "deciding"
      \/ AfterReview(mail, call) \in Scanning /\ ~call.bearishSell
  BY <1>2, <1>4, AfterReviewType
<1> call \in Calls
  BY <1>2
<1> HIDE DEF call
<1> WITNESS answer \in Answers, lookedUp \in BOOLEAN, call \in Calls
<1> QED
  BY <1>1, <1>2, <1>3, <1>5, <1>6, <1>7 DEF call

\* Every step that is neither an acceptance nor a rejection leaves the accepted rows.
LEMMA RowsOnlyByReview ==
    ASSUME [Next]_vars, \A mail \in Mails : ~Accept(mail) /\ ~Reject(mail)
    PROVE  accepted' = accepted
BY DEF Next, vars, stored, StartCycle, EndCycle, SkipMail, MapBearish, Decide, Submit,
       ToggleAutoTrading, PositionChanges, Tick, Crash, Unlist

\* A call at hand stays the one at hand until it is done with.
LEMMA CallStays ==
    ASSUME TypeOK, [Next]_vars, \A mail \in Mails : ~Accept(mail)
    PROVE  handling' => /\ handling /\ cycle'.call = cycle.call
                        /\ ~Submit
                        /\ \A mail \in Mails : ~Reject(mail)
<1> SUFFICES ASSUME handling'
             PROVE  /\ handling /\ cycle'.call = cycle.call /\ ~Submit
                    /\ \A mail \in Mails : ~Reject(mail)
  OBVIOUS
<1>0. /\ cycle.pc = "scanning" => cycle \in Scanning
      /\ handling => cycle \in Handling /\ cycle.call \in Calls
  BY CycleShapes DEF TypeOK
<1>1. CASE StartCycle \/ EndCycle \/ \E mail \in Mails : SkipMail(mail) \/ Reject(mail)
  <2>1. cycle'.pc \in {"scanning", "idle"}
    BY <1>1, <1>0 DEF StartCycle, EndCycle, SkipMail, Reject, Drop, Idle, Scanning
  <2> QED
    BY <2>1 DEF handling
<1>2. CASE MapBearish
  <2>1. handling /\ cycle.call \in Calls /\ cycle \in Handling
    BY <1>2, <1>0 DEF MapBearish, handling
  <2>2. cycle'.call = cycle.call
    BY <1>2, <2>1, AfterMappingType DEF MapBearish, handling, Scanning
  <2> QED
    BY <1>2, <2>1, <2>2 DEF MapBearish, Submit, Reject
<1>3. CASE Decide
  <2>1. handling /\ cycle \in Handling
    BY <1>3, <1>0 DEF Decide, handling
  <2>2. Return.pc = "scanning"
    BY <2>1, ReturnType
  <2>3. cycle'.call = cycle.call
    BY <1>3, <2>1, <2>2 DEF Decide, handling, Handling
  <2> QED
    BY <1>3, <2>1, <2>3 DEF Decide, Submit, Reject
<1>4. CASE Submit
  <2>1. cycle'.pc = "scanning"
    BY <1>4 DEF Submit, Return
  <2> QED
    BY <2>1 DEF handling
<1>5. CASE Crash
  BY <1>5 DEF Crash, Idle, handling
<1>6. CASE cycle' = cycle
  BY <1>6, <1>1, <1>4 DEF handling
<1>7. CASE ToggleAutoTrading \/ PositionChanges \/ Tick \/ (\E symbol \in Symbols : Unlist(symbol))
           \/ UNCHANGED vars
  BY <1>7, <1>6 DEF ToggleAutoTrading, PositionChanges, Tick, Unlist, vars
<1> QED
  BY <1>1, <1>2, <1>3, <1>4, <1>5, <1>7 DEF Next

-------------------------------------------------------------------------------
(* An accepted bearish SELL is not forgotten *)

\* NoCallLost is inductive as it stands, given the types.
LEMMA CallsInit == Init => NoCallLost
BY DEF Init, NoCallLost

\* A call is unrecorded only while it is being mapped, or after it failed.
LEMMA CallsNext == TypeOK /\ NoCallLost /\ [Next]_vars => NoCallLost'
<1> SUFFICES ASSUME TypeOK, NoCallLost, [Next]_vars PROVE NoCallLost'
  OBVIOUS
<1> USE DEF NoCallLost
<1>0. cycle.pc = "scanning" => cycle \in Scanning
  BY CycleShapes DEF TypeOK
<1>1. CASE StartCycle \/ EndCycle
  BY <1>1 DEF StartCycle, EndCycle, history
<1>2. ASSUME NEW mail \in Mails, SkipMail(mail) PROVE NoCallLost'
  BY <1>2 DEF SkipMail, history
<1>3. ASSUME NEW mail \in Mails, Reject(mail) PROVE NoCallLost'
  BY <1>3 DEF Reject, history
<1>4. ASSUME NEW mail \in Mails, Accept(mail) PROVE NoCallLost'
  <2>1. unrecorded \subseteq failed
    BY <1>4 DEF Accept
  <2> QED
    BY <1>4, <2>1, AcceptGives
<1>5. CASE MapBearish
  <2>1. unrecorded \subseteq failed \cup {Key(cycle.call)}
    BY <1>5 DEF MapBearish
  <2>2. \/ unrecorded' = unrecorded \ {Key(cycle.call)} /\ failed' = failed
        \/ unrecorded' = unrecorded /\ failed' = failed \cup {Key(cycle.call)}
    <3>1. PICK positions \in Snapshots :
            \/ /\ unrecorded' = IF Settles(cycle.call, cycle.call.symbol \in positions)
                                THEN unrecorded \ {Key(cycle.call)} ELSE unrecorded
               /\ UNCHANGED failed
            \/ /\ failed' = failed \cup {Key(cycle.call)}
               /\ UNCHANGED unrecorded
      BY <1>5 DEF MapBearish
    <3>2. Settles(cycle.call, cycle.call.symbol \in positions)
      BY DEF Settles, Mapped
    <3> QED
      BY <3>1, <3>2
  <2> QED
    BY <2>1, <2>2
<1>6. CASE Decide \/ Submit
  BY <1>6 DEF Decide, Submit, history
<1>7. CASE ToggleAutoTrading \/ PositionChanges \/ Tick \/ (\E symbol \in Symbols : Unlist(symbol))
           \/ UNCHANGED vars
  <2>1. UNCHANGED <<unrecorded, failed, cycle>>
    BY <1>7 DEF ToggleAutoTrading, PositionChanges, Tick, Unlist, vars, history
  <2> QED
    BY <2>1
<1>8. CASE Crash
  BY <1>8 DEF Crash, handling
<1> QED
  BY <1>1, <1>2, <1>3, <1>4, <1>5, <1>6, <1>7, <1>8 DEF Next

\* An accepted bearish SELL leaves its entry in one of the two lists unless a crash or a
\* failing store cuts its handling short (evaluateBearishMapping, which has a
\* consequence for whatever the whipsaw gate and the positions say).
THEOREM NoBearishCallLost == Spec => []NoCallLost
<1>1. Init => TypeOK /\ NoCallLost
  BY TypesInit, CallsInit
<1>2. TypeOK /\ NoCallLost /\ [Next]_vars => (TypeOK /\ NoCallLost)'
  BY TypesNext, CallsNext
<1> QED
  BY <1>1, <1>2, PTL DEF Spec

-------------------------------------------------------------------------------
(* At most one execution per stored key *)

\* A call that was executed under the key now stored is found by it, and the call at hand is
\* stored and was not executed.
ActedInv ==
    /\ \A key \in Mails \X Symbols :
          underKey[key] <= 1 /\ (underKey[key] > 0 => accepted[key] # "none")
    /\ handling => /\ accepted[Key(cycle.call)] # "none"
                   /\ underKey[Key(cycle.call)] = 0

\* Nothing is executed before the first acceptance.
LEMMA ActedInit == Init => ActedInv
BY DEF Init, ActedInv, Idle, handling

\* A rejected row that takes an accepted one's place starts the count of its call afresh; no
\* call is at hand while mails are reviewed.
LEMMA RejectKeepsActed ==
    ASSUME TypeOK, ActedInv, NEW mail \in Mails, Reject(mail)
    PROVE  ActedInv'
<1>1. PICK key \in Mails \X Symbols :
         \/ /\ accepted' = [accepted EXCEPT ![key] = "none"]
            /\ underKey' = [underKey EXCEPT ![key] = 0]
         \/ accepted' = accepted /\ underKey' = underKey
  BY RejectGives
<1>2. ~handling'
  BY CycleShapes DEF TypeOK, Reject, Drop, handling
<1> QED
  BY <1>1, <1>2 DEF ActedInv, TypeOK

\* The key is stored before the call is acted on, and found by whoever comes later.
LEMMA ActedNext == TypeOK /\ ActedInv /\ [Next]_vars => ActedInv'
<1> SUFFICES ASSUME TypeOK, ActedInv, [Next]_vars PROVE ActedInv'
  OBVIOUS
<1>0. \A key \in Mails \X Symbols : underKey[key] \in 0..2
  BY DEF TypeOK
<1>1. CASE \E mail \in Mails : Accept(mail)
  <2>1. PICK mail \in Mails : Accept(mail)
    BY <1>1
  <2>2. PICK answer \in Answers, lookedUp \in BOOLEAN, call \in Calls :
           /\ Key(call) \in Mails \X Symbols
           /\ accepted[Key(call)] = "none"
           /\ accepted' = [accepted EXCEPT ![Key(call)] = answer.stance]
           /\ answer.stance \in Stances
           /\ cycle' \in Scanning \/ (cycle' \in Handling /\ cycle'.call = call)
    BY <2>1, AcceptGives
  <2>3. underKey' = underKey
    BY <2>1 DEF Accept
  <2>4. underKey[Key(call)] = 0
    BY <2>2, <1>0 DEF ActedInv
  <2>5. \A key \in Mails \X Symbols : accepted[key] # "none" => accepted'[key] # "none"
    BY <2>2 DEF TypeOK, Stances
  <2>6. accepted'[Key(call)] # "none"
    BY <2>2 DEF TypeOK, Stances
  <2>7. handling' => cycle'.call = call
    BY <2>2 DEF handling, Scanning
  <2> QED
    BY <2>3, <2>4, <2>5, <2>6, <2>7 DEF ActedInv
<1>2. CASE (\A mail \in Mails : ~Accept(mail) /\ ~Reject(mail)) /\ ~Submit
  <2>1. underKey' = underKey
    BY <1>2 DEF Next, vars, stored, history, StartCycle, EndCycle, SkipMail,
                MapBearish, Decide, ToggleAutoTrading, PositionChanges, Tick, Crash, Unlist
  <2>2. accepted' = accepted
    BY <1>2, RowsOnlyByReview
  <2>3. handling' => handling /\ cycle'.call = cycle.call
    BY <1>2, CallStays
  <2> QED
    BY <2>1, <2>2, <2>3 DEF ActedInv
<1>3. CASE (\A mail \in Mails : ~Accept(mail)) /\ Submit
  <2>1. handling /\ Key(cycle.call) \in Mails \X Symbols
    BY <1>3, CycleShapes DEF Submit, TypeOK, handling
  <2>2. accepted' = accepted /\ ~handling'
    BY <1>3 DEF Submit, Return, handling, stored
  <2>3. underKey' = [underKey EXCEPT ![Key(cycle.call)] = IF @ = 2 THEN 2 ELSE @ + 1]
    BY <1>3 DEF Submit
  <2>4. underKey[Key(cycle.call)] = 0 /\ accepted[Key(cycle.call)] # "none"
    BY <2>1 DEF ActedInv
  <2>5. underKey' = [underKey EXCEPT ![Key(cycle.call)] = 1]
    BY <2>3, <2>4
  <2> QED
    BY <2>1, <2>2, <2>4, <2>5, <1>0 DEF ActedInv, TypeOK
<1>4. CASE \E mail \in Mails : Reject(mail)
  BY <1>4, RejectKeepsActed
<1> QED
  BY <1>1, <1>2, <1>3, <1>4

\* However often a mail is listed again, however Claude words it and wherever the process
\* dies, its call on a symbol is executed at most once between two losses of its key: the key
\* is stored before the call is acted on (signalReviewStep.ts), and only a rejected row worded
\* as the accepted one takes it away (persistence.ts:413).
THEOREM ActedAtMostOnce == Spec => []ActedOncePerKey
<1>1. Init => TypeOK /\ ActedInv
  BY TypesInit, ActedInit
<1>2. TypeOK /\ ActedInv /\ [Next]_vars => (TypeOK /\ ActedInv)'
  BY TypesNext, ActedNext
<1>3. ActedInv => ActedOncePerKey
  BY DEF ActedInv, ActedOncePerKey
<1> QED
  BY <1>1, <1>2, <1>3, PTL DEF Spec

-------------------------------------------------------------------------------
(* Opposed calls wait for a human *)

\* The cross-source check of the call at hand still stands: mails only grow older and no
\* other row is accepted while it is handled.
CheckStands ==
    (/\ handling
     /\ cycle.call.lookedUp /\ ~cycle.call.conflict
     /\ accepted[Key(cycle.call)] = "bullish")
    => ~Opposed(cycle.call.mail, cycle.call.symbol, "bullish")

\* No call is at hand at boot.
LEMMA CheckInit == Init => CheckStands
BY DEF Init, CheckStands, Idle, handling

\* Time moves forward only.
LEMMA TimeAdvances == TypeOK /\ [Next]_vars => now' \in Nat /\ now' >= now
<1> SUFFICES ASSUME TypeOK, [Next]_vars PROVE now' \in Nat /\ now' >= now
  OBVIOUS
<1>1. CASE Tick
  BY <1>1 DEF TypeOK, Tick
<1>2. CASE ~Tick
  <2>1. now' = now
    BY <1>2 DEF Next, vars, StartCycle, EndCycle, SkipMail, Reject, Accept, MapBearish,
                Decide, Submit, ToggleAutoTrading, PositionChanges, Crash, Unlist
  <2> QED
    BY <2>1 DEF TypeOK
<1> QED
  BY <1>1, <1>2

\* An acceptance after a check that found no opposing row leaves none.
LEMMA FreshCheckStands ==
    ASSUME TypeOK, NEW mail \in Mails, Accept(mail)
    PROVE  CheckStands'
<1> SUFFICES ASSUME handling', cycle'.call.lookedUp, ~cycle'.call.conflict,
                    accepted'[Key(cycle'.call)] = "bullish"
             PROVE  ~Opposed(cycle.call.mail, cycle.call.symbol, "bullish")'
  BY DEF CheckStands, Key
<1>1. PICK answer \in Answers, lookedUp \in BOOLEAN, call \in Calls :
         /\ call = CallOf(mail, answer, lookedUp)
         /\ Key(call) = <<mail, answer.symbol>> /\ Key(call) \in Mails \X Symbols
         /\ accepted' = [accepted EXCEPT ![Key(call)] = answer.stance]
         /\ cycle' \in Scanning \/ (cycle' \in Handling /\ cycle'.call = call)
  BY AcceptGives
<1>2. cycle'.call = call
  BY <1>1 DEF handling, Scanning
<1>3. answer.stance = "bullish"
  <2>1. accepted'[Key(call)] = "bullish"
    BY <1>2
  <2>2. accepted'[Key(call)] = answer.stance
    BY <1>1 DEF TypeOK
  <2> QED
    BY <2>1, <2>2
<1>4. call.mail = mail /\ call.symbol = answer.symbol /\ ~ConflictForBuy(mail, answer)
  <2>1. /\ call.mail = mail /\ call.symbol = answer.symbol
        /\ call.lookedUp = lookedUp
    BY <1>1 DEF CallOf
  <2>2. call.conflict = (lookedUp /\ ConflictForBuy(mail, answer))
    BY <1>1 DEF CallOf
  <2>3. lookedUp /\ ~call.conflict
    BY <1>2, <2>1, Zenon
  <2>4. ~ConflictForBuy(mail, answer)
    BY <2>2, <2>3, Zenon
  <2> QED
    BY <2>1, <2>4
<1>5. ~Opposed(mail, answer.symbol, "bullish")
  BY <1>3, <1>4 DEF ConflictForBuy
<1>6. now' = now
  BY DEF Accept
<1>7. \A other \in Mails : SourceOf[other] # SourceOf[mail] =>
          accepted'[<<other, answer.symbol>>] = accepted[<<other, answer.symbol>>]
  BY <1>1 DEF TypeOK, Answers
<1> QED
  BY <1>2, <1>4, <1>5, <1>6, <1>7 DEF Opposed, InWindow

\* No step makes the check of the call at hand out of date.
LEMMA CheckNext == TypeOK /\ CheckStands /\ [Next]_vars => CheckStands'
<1> SUFFICES ASSUME TypeOK, CheckStands, [Next]_vars PROVE CheckStands'
  OBVIOUS
<1>1. CASE \E mail \in Mails : Accept(mail)
  BY <1>1, FreshCheckStands
<1>2. CASE ~handling'
  BY <1>2 DEF CheckStands
<1>3. CASE (\A mail \in Mails : ~Accept(mail)) /\ handling'
  <2>1. handling /\ cycle'.call = cycle.call /\ \A mail \in Mails : ~Reject(mail)
    BY <1>3, CallStays
  <2>2. accepted' = accepted
    BY <1>3, <2>1, RowsOnlyByReview
  <2>3. now \in Nat /\ now' \in Nat /\ now' >= now
    BY TimeAdvances DEF TypeOK
  <2>4. \A other \in Mails : InWindow(other)' => InWindow(other)
    BY <2>3, SignalAssumption DEF InWindow
  <2>5. Opposed(cycle.call.mail, cycle.call.symbol, "bullish")'
          => Opposed(cycle.call.mail, cycle.call.symbol, "bullish")
    BY <2>1, <2>2, <2>4 DEF Opposed
  <2> QED
    BY <2>1, <2>2, <2>5 DEF CheckStands, Key
<1> QED
  BY <1>1, <1>2, <1>3

\* Only a bullish call without a conflict is bought on.
LEMMA OnlySubmitBuys ==
    ASSUME TypeOK, CheckStands, [Next]_vars
    PROVE  [\A mail \in Mails, symbol \in Symbols :
              (/\ <<mail, symbol>> \in bought' \ bought
               /\ cycle.call.lookedUp
               /\ accepted[<<mail, symbol>>] = "bullish")
              => ~Opposed(mail, symbol, "bullish")]_vars
<1>1. CASE Submit
  <2>1. handling /\ cycle.call \in Calls
    BY <1>1, CycleShapes DEF Submit, TypeOK, handling
  <2>2. \/ ~cycle.call.conflict /\ bought' = bought \cup {Key(cycle.call)}
        \/ bought' = bought
    BY <1>1 DEF Submit
  <2> QED
    BY <2>1, <2>2 DEF CheckStands, Key
<1>2. CASE ~Submit
  <2>1. bought' = bought
    BY <1>2 DEF Next, vars, history, StartCycle, EndCycle, SkipMail, Reject, Accept,
                MapBearish, Decide, ToggleAutoTrading, PositionChanges, Tick, Crash, Unlist
  <2> QED
    BY <2>1
<1> QED
  BY <1>1, <1>2

\* A bullish call whose check was made is bought on only while no other source's bearish
\* row is in the window, whoever cleared the do-not-buy list (evaluateCrossSource).
THEOREM OpposedCallsWait == Spec => OpposedCallNeedsHuman
<1>1. Init => TypeOK /\ CheckStands
  BY TypesInit, CheckInit
<1>2. TypeOK /\ CheckStands /\ [Next]_vars => (TypeOK /\ CheckStands)'
  BY TypesNext, CheckNext
<1> QED
  BY <1>1, <1>2, OnlySubmitBuys, PTL DEF Spec, OpposedCallNeedsHuman
===============================================================================
