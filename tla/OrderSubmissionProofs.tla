------------------------ MODULE OrderSubmissionProofs ------------------------
(***************************************************************************)
(* The order path for every set of settings and any number of attempts,    *)
(* crashes and reconciliation retries.                                     *)
(***************************************************************************)
EXTENDS OrderSubmission, TLAPS, SequenceTheorems

Attempt == [pc : {"idle", "review", "post", "postPlain", "result", "saved"},
            openDup : BOOLEAN, status : TradeState, order : ClientIds \cup {None}]
Recon == [pc : {"idle", "start", "poll", "sweep", "finish", "wait", "gaveUp", "ended", "hung"},
          tries : Nat, work : Seq(Row), failed : BOOLEAN, open : SUBSET ClientIds]

\* TypeOK without its bounds.
SubmissionTypes ==
    /\ setting \in Settings
    /\ broker \in [ClientIds -> BrokerStatus \cup {Absent}]
    /\ rows \in Seq(Row)
    /\ cooldown \in BOOLEAN
    /\ att \in Attempt
    /\ recon \in Recon
    /\ lapsed \in BOOLEAN
    /\ crashes \in Nat

-------------------------------------------------------------------------------
(* Types *)

\* What the broker calls an order becomes the state of a trade row.
LEMMA MappingType == \A status : mapBrokerStatusToTradeState(status) \in TradeState
BY DEF mapBrokerStatusToTradeState, TradeState

\* Nothing is in progress when the process boots, but a reconciliation.
LEMMA BootTypes ==
    /\ NoAttempt \in Attempt /\ NoAttempt.pc = "idle" /\ NoAttempt.order = None
    /\ NoRecon \in Recon /\ NoRecon.pc = "idle" /\ NoRecon.work = <<>>
    /\ BootRecon \in Recon /\ BootRecon.pc = "start" /\ BootRecon.work = <<>>
    /\ NoRecon.tries = 0
<1>1. NoAttempt \in Attempt /\ NoAttempt.pc = "idle" /\ NoAttempt.order = None
  BY DEF NoAttempt, Attempt, TradeState
<1>2. <<>> \in Seq(Row) /\ {} \in SUBSET ClientIds
  OBVIOUS
<1>3. /\ NoRecon \in Recon /\ NoRecon.pc = "idle" /\ NoRecon.work = <<>>
      /\ NoRecon.tries = 0
  BY <1>2 DEF NoRecon, Recon
<1>4. BootRecon \in Recon /\ BootRecon.pc = "start" /\ BootRecon.work = <<>>
  BY <1>3 DEF BootRecon, Recon
<1> QED
  BY <1>1, <1>3, <1>4

\* The end of a try leaves no list behind and polls nothing.
LEMMA NewRecon ==
    ASSUME ReconSucceeds \/ ReconFails \/ ReconEnds
    PROVE  recon'.work = <<>> /\ recon'.pc # "poll"
<1>1. CASE ReconSucceeds
  BY <1>1, BootTypes DEF ReconSucceeds
<1>2. CASE ReconFails
  BY <1>2 DEF ReconFails, NoRecon
<1>3. CASE ReconEnds
  BY <1>3 DEF ReconEnds, NoRecon
<1> QED
  BY <1>1, <1>2, <1>3

\* Rows rewritten one by one are rows again.
LEMMA RewrittenRows ==
    ASSUME SubmissionTypes, NEW new,
           new = [i \in DOMAIN rows |-> new[i]],
           \A i \in DOMAIN rows : new[i] \in Row
    PROVE  new \in Seq(Row) /\ DOMAIN new = DOMAIN rows
<1>1. DOMAIN rows = 1..Len(rows) /\ Len(rows) \in Nat
  BY DEF SubmissionTypes
<1>2. DOMAIN new = 1..Len(rows) /\ new \in [1..Len(rows) -> Row]
  BY <1>1
<1> QED
  BY <1>1, <1>2, IsASeq

\* A polled row is a row of the same order.
LEMMA PolledType ==
    ASSUME NEW row \in Row
    PROVE  Polled(row) \in Row /\ Polled(row).order = row.order
BY MappingType DEF Polled, Row

\* What a poll writes, row by row.
LEMMA PollWrites ==
    ASSUME SubmissionTypes, CyclePoll
    PROVE  /\ rows' \in Seq(Row) /\ DOMAIN rows' = DOMAIN rows
           /\ \A i \in DOMAIN rows : rows'[i] = Polled(rows[i])
<1>1. \A i \in DOMAIN rows : rows[i] \in Row
  BY DEF SubmissionTypes
<1>2. rows' = [i \in DOMAIN rows |-> Polled(rows[i])]
  BY DEF CyclePoll
<1>3. \A i \in DOMAIN rows : rows'[i] = Polled(rows[i]) /\ rows'[i] \in Row
  BY <1>1, <1>2, PolledType
<1>4. rows' = [i \in DOMAIN rows |-> rows'[i]]
  BY <1>2
<1> QED
  BY <1>3, <1>4, RewrittenRows

\* What a reconciliation's poll writes: a row of its list, or nothing.
LEMMA ReconWrites ==
    ASSUME SubmissionTypes, NEW failed \in BOOLEAN, ReconPoll(failed)
    PROVE  /\ rows' \in Seq(Row) /\ DOMAIN rows' = DOMAIN rows
           /\ \A i \in DOMAIN rows :
                 \/ rows'[i] = rows[i]
                 \/ /\ i \in DOMAIN recon.work /\ PollableRow(recon.work[i])
                    /\ rows'[i] \in {recon.work[i], Polled(recon.work[i])}
<1>1. /\ \A i \in DOMAIN rows : rows[i] \in Row
      /\ \A i \in DOMAIN recon.work : recon.work[i] \in Row
      /\ DOMAIN rows = 1..Len(rows)
      /\ DOMAIN recon.work = 1..Len(recon.work) /\ Len(recon.work) \in Nat
  BY DEF SubmissionTypes, Recon
<1>2. rows' = [i \in DOMAIN rows |->
                 IF i <= Len(recon.work) /\ PollableRow(recon.work[i])
                 THEN IF failed THEN recon.work[i] ELSE Polled(recon.work[i])
                 ELSE rows[i]]
  BY DEF ReconPoll
<1>3. \A i \in DOMAIN rows : i <= Len(recon.work) => i \in DOMAIN recon.work
  BY <1>1
<1>4. \A i \in DOMAIN rows :
         /\ \/ rows'[i] = rows[i]
            \/ /\ i \in DOMAIN recon.work /\ PollableRow(recon.work[i])
               /\ rows'[i] \in {recon.work[i], Polled(recon.work[i])}
         /\ rows'[i] \in Row
  BY <1>1, <1>2, <1>3, PolledType
<1>5. rows' = [i \in DOMAIN rows |-> rows'[i]]
  BY <1>2
<1> QED
  BY <1>4, <1>5, RewrittenRows

\* What saving an attempt writes: one row, over the last one or after it.
LEMMA SaveWrites ==
    ASSUME SubmissionTypes, SaveAttempt
    PROVE  LET row == [status |-> att.status, order |-> att.order]
           IN  /\ row \in Row /\ rows' \in Seq(Row) /\ rows' # <<>>
               /\ DOMAIN rows \subseteq DOMAIN rows' /\ Len(rows') \in DOMAIN rows'
               /\ rows'[Len(rows')] = row
               /\ \A i \in DOMAIN rows' : i # Len(rows') => i \in DOMAIN rows /\ rows'[i] = rows[i]
<1> DEFINE row == [status |-> att.status, order |-> att.order]
<1>1. row \in Row /\ rows \in Seq(Row) /\ Len(rows) \in Nat /\ DOMAIN rows = 1..Len(rows)
  BY DEF SubmissionTypes, Attempt, Row
<1>2. (rows' = [rows EXCEPT ![Len(rows)] = row] /\ Len(rows) > 0) \/ rows' = Append(rows, row)
  BY DEF SaveAttempt
<1> HIDE DEF row
<1>3. CASE rows' = [rows EXCEPT ![Len(rows)] = row] /\ Len(rows) > 0
  <2>1. rows' \in Seq(Row) /\ DOMAIN rows' = DOMAIN rows /\ Len(rows') = Len(rows)
    BY <1>1, <1>3, ExceptSeq
  <2>2. Len(rows) \in DOMAIN rows
    BY <1>1, <1>3
  <2> QED
    BY <1>1, <1>3, <2>1, <2>2 DEF row
<1>4. CASE rows' = Append(rows, row)
  <2>1. /\ rows' \in Seq(Row) /\ Len(rows') = Len(rows) + 1
        /\ rows'[Len(rows) + 1] = row
        /\ \A i \in 1..Len(rows) : rows'[i] = rows[i]
    BY <1>1, <1>4, AppendProperties
  <2> QED
    BY <1>1, <2>1 DEF row
<1> QED
  BY <1>2, <1>3, <1>4

\* What one POST does.
LEMMA SubmitGives ==
    ASSUME SubmissionTypes, NEW c \in ClientIds, Submit(c)
    PROVE  /\ \/ broker' = broker
              \/ broker[c] = Absent /\ broker' = [broker EXCEPT ![c] = "new"]
           /\ att' \in Attempt /\ att'.pc = "result"
           /\ att'.status \in TradeState
           /\ \/ att'.order = None /\ att'.status = "BrokerFailed"
              \/ /\ att'.order = c /\ broker'[c] # Absent
                 /\ att'.status = mapBrokerStatusToTradeState(broker'[c])
<1>1. att \in Attempt /\ broker \in [ClientIds -> BrokerStatus \cup {Absent}]
  BY DEF SubmissionTypes
<1>2. "new" # Absent /\ "BrokerFailed" \in TradeState
  BY DEF Absent, TradeState
<1>3. /\ Failed \in Attempt /\ Failed.pc = "result" /\ Failed.order = None
      /\ Failed.status = "BrokerFailed"
  BY <1>1, <1>2 DEF Failed, Attempt
<1>4. /\ Placed(c) \in Attempt /\ Placed(c).pc = "result" /\ Placed(c).order = c
      /\ Placed(c).status = mapBrokerStatusToTradeState(broker'[c])
  BY <1>1, MappingType DEF Placed, Attempt
<1>5. Failed.status \in TradeState /\ Placed(c).status \in TradeState
  BY <1>3, <1>4, MappingType, <1>2
<1>6. CASE broker[c] = Absent /\ broker' = [broker EXCEPT ![c] = "new"]
           /\ (att' = Placed(c) \/ att' = Failed)
  <2>1. broker'[c] = "new"
    BY <1>1, <1>6
  <2> QED
    BY <1>2, <1>3, <1>4, <1>5, <1>6, <2>1
<1>7. CASE broker[c] # Absent /\ broker' = broker /\ att' = Placed(c)
  BY <1>3, <1>4, <1>5, <1>7
<1>8. CASE broker' = broker /\ att' = Failed
  BY <1>3, <1>5, <1>8
<1> QED
  BY <1>6, <1>7, <1>8 DEF Submit

\* The process boots with well-formed state.
LEMMA TypesInit == Init => SubmissionTypes
<1> SUFFICES ASSUME Init PROVE SubmissionTypes
  OBVIOUS
<1>1. broker \in [ClientIds -> BrokerStatus \cup {Absent}]
  BY DEF Init
<1>2. /\ rows = <<>> /\ cooldown = FALSE /\ crashes = 0 /\ lapsed = FALSE /\ setting \in Settings
      /\ att = NoAttempt /\ recon = BootRecon
  BY DEF Init
<1>3. att \in Attempt /\ recon \in Recon /\ rows \in Seq(Row)
  BY <1>2, BootTypes
<1> QED
  BY <1>1, <1>2, <1>3 DEF SubmissionTypes

\* Every step keeps the types.
LEMMA TypesNext == SubmissionTypes /\ [Next]_vars => SubmissionTypes'
<1> SUFFICES ASSUME SubmissionTypes, [Next]_vars PROVE SubmissionTypes'
  OBVIOUS
<1>0. /\ att \in Attempt /\ recon \in Recon /\ rows \in Seq(Row)
      /\ broker \in [ClientIds -> BrokerStatus \cup {Absent}]
  BY DEF SubmissionTypes
<1>1. ASSUME NEW openDup \in BOOLEAN, BeginAttempt(openDup) PROVE SubmissionTypes'
  <2>1. att' \in Attempt
    BY <1>1, BootTypes DEF BeginAttempt, Attempt
  <2> QED
    BY <1>1, <2>1 DEF BeginAttempt, SubmissionTypes
<1>2. CASE ReviewRejects
  <2>1. [status |-> "RiskRejected", order |-> None] \in Row
    BY DEF Row, TradeState
  <2>2. rows' \in Seq(Row)
    BY <1>2, <2>1, <1>0, AppendProperties DEF ReviewRejects, SubmissionTypes
  <2> QED
    BY <1>2, <2>2, BootTypes DEF ReviewRejects, SubmissionTypes, others
<1>3. CASE ReviewApproves \/ BracketRefused
  <2>1. att' \in Attempt
    BY <1>3, <1>0 DEF ReviewApproves, BracketRefused, Attempt
  <2> QED
    BY <1>3, <2>1 DEF ReviewApproves, BracketRefused, SubmissionTypes, others
<1>4. ASSUME NEW c \in ClientIds, Submit(c),
             UNCHANGED <<setting, rows, cooldown, recon, lapsed, crashes>>
      PROVE  SubmissionTypes'
  <2>1. att' \in Attempt /\ broker' \in [ClientIds -> BrokerStatus \cup {Absent}]
    <3>1. "new" \in BrokerStatus
      BY DEF BrokerStatus
    <3> QED
      BY <1>4, <1>0, <3>1, SubmitGives
  <2> QED
    BY <1>4, <2>1 DEF SubmissionTypes
<1>5. CASE PostK \/ PostPlainRetry
  <2>1. "K" \in ClientIds /\ "K-p" \in ClientIds
    BY DEF ClientIds
  <2> QED
    BY <1>4, <1>5, <2>1 DEF PostK, PostPlainRetry, others
<1>6. CASE SaveAttempt
  <2>1. att' \in Attempt
    BY <1>6, <1>0 DEF SaveAttempt, Attempt
  <2>2. rows' \in Seq(Row)
    BY <1>6, SaveWrites
  <2> QED
    BY <1>6, <2>1, <2>2 DEF SaveAttempt, SubmissionTypes, others
<1>7. CASE ArmCooldown \/ CooldownExpires \/ AttemptUnsaved \/ CooldownUnsaved
  <2>1. cooldown' \in BOOLEAN /\ lapsed' \in BOOLEAN
    BY <1>7 DEF ArmCooldown, AttemptUnsaved, CooldownUnsaved, CooldownExpires,
       SubmissionTypes, others
  <2>2. att' \in Attempt
    BY <1>0, <1>7, BootTypes DEF ArmCooldown, AttemptUnsaved, CooldownUnsaved, CooldownExpires
  <2>3. UNCHANGED <<setting, broker, rows, recon, crashes>>
    BY <1>7 DEF ArmCooldown, AttemptUnsaved, CooldownUnsaved, CooldownExpires, others
  <2> QED
    BY <2>1, <2>2, <2>3 DEF SubmissionTypes
<1>8. CASE CyclePoll
  <2>1. rows' \in Seq(Row)
    BY <1>8, PollWrites
  <2> QED
    BY <1>8, <2>1 DEF CyclePoll, SubmissionTypes, others
<1>9. ASSUME NEW failed \in BOOLEAN, ReconPoll(failed) PROVE SubmissionTypes'
  <2>1. rows' \in Seq(Row)
    BY <1>9, ReconWrites
  <2>2. recon' \in Recon
    BY <1>9, <1>0 DEF ReconPoll, Recon
  <2> QED
    BY <1>9, <2>1, <2>2 DEF ReconPoll, SubmissionTypes, others
<1>10. CASE ReconList \/ ReconSweep \/ ReconSucceeds \/ ReconFails \/ ReconRetry \/ ReconEnds
            \/ ReconHangs
  <2>1. Live \in SUBSET ClientIds
    BY DEF Live
  <2>2. recon' \in Recon
    <3>1. CASE ReconList
      BY <3>1, <1>0 DEF ReconList, Recon
    <3>2. CASE ReconSweep
      BY <3>2, <1>0, <2>1 DEF ReconSweep, Recon
    <3>3. CASE ReconSucceeds
      BY <3>3, BootTypes DEF ReconSucceeds
    <3>4. CASE ReconFails
      <4>1. recon.tries \in Nat
        BY <1>0 DEF Recon
      <4> QED
        BY <3>4, <4>1, BootTypes DEF ReconFails, Recon
    <3>5. CASE ReconRetry
      <4>1. recon.tries + 1 \in Nat
        BY <1>0 DEF Recon
      <4> QED
        BY <3>5, <4>1, <1>0 DEF ReconRetry, Recon
    <3>6. CASE ReconEnds
      BY <3>6, BootTypes DEF ReconEnds, Recon
    <3>7. CASE ReconHangs
      BY <3>7, <1>0 DEF ReconHangs, Recon
    <3> QED
      BY <1>10, <3>1, <3>2, <3>3, <3>4, <3>5, <3>6, <3>7
  <2>3. UNCHANGED <<setting, broker, rows, cooldown, att, lapsed, crashes>>
    BY <1>10 DEF ReconList, ReconSweep, ReconSucceeds, ReconFails, ReconEnds, ReconDies,
       ReconHangs, ReconRetry, others
  <2> QED
    BY <2>2, <2>3 DEF SubmissionTypes
<1>11. CASE clearOrphans \/ BracketRuleChanges \/ UNCHANGED vars
  BY <1>11 DEF clearOrphans, BracketRuleChanges, vars, SubmissionTypes
<1>12. ASSUME NEW c \in ClientIds, NEW st \in {"filled", "canceled"}, OrderMoves(c, st)
       PROVE  SubmissionTypes'
  <2>1. broker' \in [ClientIds -> BrokerStatus \cup {Absent}]
    <3>1. st \in BrokerStatus
      BY DEF BrokerStatus
    <3> QED
      BY <1>12, <1>0, <3>1 DEF OrderMoves
  <2> QED
    BY <1>12, <2>1 DEF OrderMoves, SubmissionTypes, others
<1>13. CASE Crash
  <2>1. lapsed' \in BOOLEAN
    BY <1>13 DEF Crash, SubmissionTypes
  <2> QED
    BY <1>13, <2>1, BootTypes DEF Crash, SubmissionTypes
<1> QED
  BY <1>1, <1>2, <1>3, <1>5, <1>6, <1>7, <1>8, <1>9, <1>10, <1>11, <1>12, <1>13
  DEF Next, AttemptStep, ReconStep, ReconDies

-------------------------------------------------------------------------------
(* One of the two client ids *)

\* While the broker's rule about the bracket form stands, only one of the two client
\* ids is ever posted.
OnePath ==
    "bracketFlaky" \notin Faults =>
        IF bracketForm = "refused" THEN broker["K"] = Absent
        ELSE broker["K-p"] = Absent /\ att.pc # "postPlain"

\* No order exists at boot.
LEMMA PathInit == Init => OnePath
BY BootTypes DEF Init, OnePath, ClientIds

\* Every step but a POST leaves the broker's orders or moves an existing one.
LEMMA BrokerStep ==
    ASSUME SubmissionTypes, [Next]_vars
    PROVE  \/ PostK \/ PostPlainRetry
           \/ UNCHANGED broker
           \/ \E c \in Live, st \in {"filled", "canceled"} :
                 broker' = [broker EXCEPT ![c] = st] /\ att' = att
BY DEF Next, vars, others, AttemptStep, ReconStep, BeginAttempt, ReviewRejects,
   ReviewApproves, BracketRefused, SaveAttempt, ArmCooldown, AttemptUnsaved, CooldownUnsaved,
   CooldownExpires, CyclePoll, ReconList, ReconPoll, ReconSweep, ReconSucceeds, ReconFails,
   ReconEnds, ReconDies, ReconHangs, ReconRetry, clearOrphans, OrderMoves, BracketRuleChanges,
   Crash

\* The settings never change, nor does the form without the fault that changes it.
LEMMA SettingStays ==
    ASSUME SubmissionTypes, [Next]_vars
    PROVE  /\ setting' = setting
           /\ "bracketFlaky" \notin Faults => bracketForm' = bracketForm
BY DEF Next, vars, others, AttemptStep, ReconStep, BeginAttempt, ReviewRejects,
   ReviewApproves, BracketRefused, PostK, PostPlainRetry, SaveAttempt, ArmCooldown,
   AttemptUnsaved, CooldownUnsaved, CooldownExpires, CyclePoll, ReconList, ReconPoll,
   ReconSweep, ReconSucceeds, ReconFails, ReconEnds, ReconDies, ReconHangs, ReconRetry,
   clearOrphans, OrderMoves, BracketRuleChanges, Crash

\* A plain retry follows only a refused bracket.
LEMMA PlainNeedsRefusal ==
    ASSUME SubmissionTypes, [Next]_vars, att'.pc = "postPlain"
    PROVE  att' = att \/ (BracketRefused /\ UNCHANGED broker)
<1>0. att \in Attempt
  BY DEF SubmissionTypes
<1>1. CASE PostK \/ PostPlainRetry
  <2>1. att'.pc = "result"
    BY <1>1, SubmitGives DEF PostK, PostPlainRetry, ClientIds
  <2> QED
    BY <2>1
<1>2. ASSUME NEW openDup \in BOOLEAN, BeginAttempt(openDup) PROVE att'.pc = "review"
  BY <1>2, BootTypes DEF BeginAttempt, Attempt
<1>3. CASE ReviewRejects \/ ReviewApproves \/ SaveAttempt \/ ArmCooldown \/ AttemptUnsaved
           \/ CooldownUnsaved \/ Crash
  <2>1. att'.pc # "postPlain"
    BY <1>0, <1>3, BootTypes DEF ReviewRejects, ReviewApproves, SaveAttempt, ArmCooldown,
       AttemptUnsaved, CooldownUnsaved, Crash, Attempt
  <2> QED
    BY <2>1
<1>4. CASE BracketRefused
  BY <1>4 DEF BracketRefused
<1>5. CASE CooldownExpires \/ CyclePoll \/ (ReconStep /\ ~ReconDies) \/ ReconHangs
           \/ clearOrphans \/ BracketRuleChanges
           \/ (\E c \in ClientIds, st \in {"filled", "canceled"} : OrderMoves(c, st))
           \/ UNCHANGED vars
  BY <1>5 DEF CooldownExpires, CyclePoll, ReconStep, ReconList, ReconPoll, ReconSweep,
              ReconSucceeds, ReconFails, ReconEnds, ReconHangs, ReconRetry, clearOrphans,
              BracketRuleChanges, OrderMoves, vars
<1> QED
  BY <1>1, <1>2, <1>3, <1>4, <1>5 DEF Next, AttemptStep, ReconDies

\* The path once taken stays the only one.
LEMMA PathNext == SubmissionTypes /\ OnePath /\ [Next]_vars => OnePath'
<1> SUFFICES ASSUME SubmissionTypes, OnePath, [Next]_vars PROVE OnePath'
  OBVIOUS
<1>0. /\ broker \in [ClientIds -> BrokerStatus \cup {Absent}]
      /\ "K" \in ClientIds /\ "K-p" \in ClientIds /\ "K" # "K-p"
  BY DEF SubmissionTypes, ClientIds
<1>a. Faults' = Faults
  BY SettingStays DEF Faults
<1>b. CASE "bracketFlaky" \in Faults
  BY <1>a, <1>b DEF OnePath
<1>c. SUFFICES ASSUME "bracketFlaky" \notin Faults PROVE OnePath'
  BY <1>b
<1>1. "bracketFlaky" \notin Faults' /\ bracketForm' = bracketForm
  BY <1>a, <1>c, SettingStays
<1>2. CASE bracketForm = "refused"
  <2>1. broker["K"] = Absent
    BY <1>c, <1>2 DEF OnePath
  <2>2. broker'["K"] = Absent
    <3>1. CASE PostK
      BY <1>2, <2>1, <3>1 DEF PostK
    <3>2. CASE PostPlainRetry
      <4>1. Submit("K-p")
        BY <3>2 DEF PostPlainRetry
      <4> QED
        BY <1>0, <2>1, <4>1, SubmitGives
    <3>3. CASE UNCHANGED broker
      BY <2>1, <3>3
    <3>4. CASE \E c \in Live, st \in {"filled", "canceled"} :
                  broker' = [broker EXCEPT ![c] = st]
      BY <1>0, <2>1, <3>4 DEF Live, Absent
    <3> QED
      BY <3>1, <3>2, <3>3, <3>4, BrokerStep
  <2> QED
    BY <1>1, <1>2, <2>2 DEF OnePath
<1>3. CASE bracketForm # "refused"
  <2>1. broker["K-p"] = Absent /\ att.pc # "postPlain"
    BY <1>c, <1>3 DEF OnePath
  <2>2. broker'["K-p"] = Absent
    <3>1. CASE PostK
      <4>1. Submit("K")
        BY <3>1 DEF PostK
      <4> QED
        BY <1>0, <2>1, <4>1, SubmitGives
    <3>2. CASE PostPlainRetry
      BY <2>1, <3>2 DEF PostPlainRetry
    <3>3. CASE UNCHANGED broker
      BY <2>1, <3>3
    <3>4. CASE \E c \in Live, st \in {"filled", "canceled"} :
                  broker' = [broker EXCEPT ![c] = st]
      BY <1>0, <2>1, <3>4 DEF Live, Absent
    <3> QED
      BY <3>1, <3>2, <3>3, <3>4, BrokerStep
  <2>3. att'.pc # "postPlain"
    BY <1>3, <2>1, PlainNeedsRefusal DEF BracketRefused
  <2> QED
    BY <1>1, <1>3, <2>2, <2>3 DEF OnePath
<1> QED
  BY <1>2, <1>3

-------------------------------------------------------------------------------
(* Rows follow the broker *)

\* A recorded order exists, and a terminal state recorded of it is its final one.
Follows(b, row) ==
    row.order # None =>
        /\ b[row.order] # Absent
        /\ isTerminalTradeState(row.status)
             => row.status = mapBrokerStatusToTradeState(b[row.order])

\* So do the rows, the list a reconciliation will save from, and the answer at hand.
FollowInv ==
    /\ \A i \in DOMAIN rows : Follows(broker, rows[i])
    /\ \A i \in DOMAIN recon.work : Follows(broker, recon.work[i])
    /\ att.pc \in {"result", "saved"} => Follows(broker, [status |-> att.status, order |-> att.order])

\* What a live order maps to is not terminal.
LEMMA LiveNotTerminal ==
    \A c \in Live : ~isTerminalTradeState(mapBrokerStatusToTradeState(broker[c]))
BY DEF Live, isTerminalTradeState, TERMINAL_TRADE_STATES, mapBrokerStatusToTradeState

\* No step makes a row that followed its order fall behind it.
LEMMA FollowsStays ==
    ASSUME SubmissionTypes, [Next]_vars, NEW row \in Row, Follows(broker, row)
    PROVE  Follows(broker', row)
<1> SUFFICES ASSUME row.order # None
             PROVE  /\ broker'[row.order] # Absent
                    /\ isTerminalTradeState(row.status)
                         => row.status = mapBrokerStatusToTradeState(broker'[row.order])
  BY DEF Follows
<1>0. /\ broker \in [ClientIds -> BrokerStatus \cup {Absent}]
      /\ row.order \in ClientIds /\ broker[row.order] # Absent
      /\ isTerminalTradeState(row.status)
           => row.status = mapBrokerStatusToTradeState(broker[row.order])
  BY DEF SubmissionTypes, Follows, Row
<1>1. ASSUME NEW c \in ClientIds, Submit(c) PROVE broker'[row.order] = broker[row.order]
  BY <1>0, <1>1, SubmitGives
<1>2. CASE PostK \/ PostPlainRetry
  BY <1>0, <1>1, <1>2 DEF PostK, PostPlainRetry, ClientIds
<1>3. CASE UNCHANGED broker
  BY <1>0, <1>3
<1>4. ASSUME NEW c \in Live, NEW st \in {"filled", "canceled"},
             broker' = [broker EXCEPT ![c] = st]
      PROVE  /\ broker'[row.order] # Absent
             /\ isTerminalTradeState(row.status)
                  => row.status = mapBrokerStatusToTradeState(broker'[row.order])
  <2>1. CASE row.order = c
    <3>1. broker'[row.order] = st /\ st # Absent
      BY <1>0, <1>4, <2>1 DEF Absent
    <3>2. ~isTerminalTradeState(row.status)
      BY <1>0, <2>1, LiveNotTerminal
    <3> QED
      BY <3>1, <3>2
  <2>2. CASE row.order # c
    <3>1. broker'[row.order] = broker[row.order]
      BY <1>0, <1>4, <2>2
    <3> QED
      BY <1>0, <3>1
  <2> QED
    BY <2>1, <2>2
<1> QED
  BY <1>2, <1>3, <1>4, BrokerStep

\* A polled row follows its order.
LEMMA PolledFollows ==
    ASSUME SubmissionTypes, NEW row \in Row, Follows(broker, row)
    PROVE  Follows(broker, Polled(row))
BY DEF Follows, Polled, Row

\* Nothing is recorded at boot.
LEMMA FollowInit == Init => FollowInv
BY BootTypes DEF Init, FollowInv

\* Rows, list and answer keep following.
LEMMA FollowNext == SubmissionTypes /\ FollowInv /\ [Next]_vars => FollowInv'
<1> SUFFICES ASSUME SubmissionTypes, FollowInv, [Next]_vars PROVE FollowInv'
  OBVIOUS
<1>0. /\ \A i \in DOMAIN rows : rows[i] \in Row
      /\ \A i \in DOMAIN recon.work : recon.work[i] \in Row
      /\ att \in Attempt
      /\ \A row \in Row : row.order \in ClientIds \cup {None}
  <2>1. \A seq \in Seq(Row) : \A i \in DOMAIN seq : seq[i] \in Row
    OBVIOUS
  <2>2. rows \in Seq(Row) /\ att \in Attempt /\ recon.work \in Seq(Row)
    BY DEF SubmissionTypes, Recon
  <2>3. \A row \in Row : row.order \in ClientIds \cup {None}
    BY DEF Row
  <2> QED
    BY <2>1, <2>2, <2>3
<1>1. \A row \in Row : Follows(broker, row) => Follows(broker', row)
  <2> SUFFICES ASSUME NEW row \in Row, Follows(broker, row) PROVE Follows(broker', row)
    OBVIOUS
  <2> QED
    BY FollowsStays
<1>2. \A i \in DOMAIN rows' : Follows(broker', rows'[i])
  <2>1. CASE rows' = rows
    BY <2>1, <1>0, <1>1 DEF FollowInv
  <2>2. CASE ReviewRejects /\ rows' # rows
    <3> DEFINE row == [status |-> "RiskRejected", order |-> None]
    <3>1. rows' = Append(rows, row) /\ rows \in Seq(Row) /\ Follows(broker', row)
      BY <2>2 DEF ReviewRejects, SubmissionTypes, Follows
    <3> HIDE DEF row
    <3>2. \A i \in DOMAIN rows' : (i \in DOMAIN rows /\ rows'[i] = rows[i]) \/ rows'[i] = row
      <4>1. row \in Row
        BY DEF row, Row, TradeState
      <4> QED
        BY <3>1, <4>1, AppendProperties
    <3>3. \A i \in DOMAIN rows : Follows(broker', rows[i])
      BY <1>0, <1>1 DEF FollowInv
    <3> QED
      BY <3>1, <3>2, <3>3
  <2>3. CASE SaveAttempt
    <3> DEFINE row == [status |-> att.status, order |-> att.order]
    <3>1. Follows(broker, row)
      BY <2>3 DEF SaveAttempt, FollowInv
    <3>2. row \in Row
      BY <2>3, SaveWrites
    <3>3. \A i \in DOMAIN rows' : (i \in DOMAIN rows /\ rows'[i] = rows[i]) \/ rows'[i] = row
      BY <2>3, SaveWrites
    <3>4. \A i \in DOMAIN rows : Follows(broker', rows[i])
      BY <1>0, <1>1 DEF FollowInv
    <3>5. Follows(broker', row)
      BY <1>1, <3>1, <3>2
    <3> HIDE DEF row
    <3> QED
      BY <3>3, <3>4, <3>5
  <2>4. CASE CyclePoll
    <3>1. DOMAIN rows' = DOMAIN rows /\ \A i \in DOMAIN rows : rows'[i] = Polled(rows[i])
      BY <2>4, PollWrites
    <3>2. \A i \in DOMAIN rows : Follows(broker, Polled(rows[i])) /\ Polled(rows[i]) \in Row
      BY <1>0, PolledFollows, PolledType DEF FollowInv
    <3> QED
      BY <3>1, <3>2, <1>1
  <2>5. ASSUME NEW failed \in BOOLEAN, ReconPoll(failed)
        PROVE  \A i \in DOMAIN rows' : Follows(broker', rows'[i])
    <3>1. /\ DOMAIN rows' = DOMAIN rows
          /\ \A i \in DOMAIN rows :
                \/ rows'[i] = rows[i]
                \/ /\ i \in DOMAIN recon.work
                   /\ rows'[i] \in {recon.work[i], Polled(recon.work[i])}
      BY <2>5, ReconWrites
    <3>2. /\ \A i \in DOMAIN rows : Follows(broker, rows[i])
          /\ \A i \in DOMAIN recon.work :
                /\ Follows(broker, recon.work[i]) /\ Follows(broker, Polled(recon.work[i]))
                /\ Polled(recon.work[i]) \in Row
      BY <1>0, PolledFollows, PolledType DEF FollowInv
    <3> QED
      BY <1>0, <1>1, <3>1, <3>2
  <2>6. \/ rows' = rows \/ ReviewRejects \/ SaveAttempt \/ CyclePoll
        \/ \E failed \in BOOLEAN : ReconPoll(failed)
    BY DEF Next, vars, AttemptStep, ReconStep, BeginAttempt, ReviewApproves, PostK,
       BracketRefused, PostPlainRetry, ArmCooldown, AttemptUnsaved, CooldownUnsaved,
       CooldownExpires, ReconList, ReconSweep, ReconSucceeds, ReconFails, ReconEnds,
       ReconDies, ReconHangs, ReconRetry, clearOrphans, OrderMoves, BracketRuleChanges, Crash
  <2> QED
    BY <2>1, <2>2, <2>3, <2>4, <2>5, <2>6
<1>3. \A i \in DOMAIN recon'.work : Follows(broker', recon'.work[i])
  <2>1. recon'.work \in {recon.work, rows, <<>>}
    <3>1. recon \in Recon
      BY DEF SubmissionTypes
    <3>2. CASE ReconList \/ ReconSweep \/ ReconHangs \/ ReconRetry
               \/ \E failed \in BOOLEAN : ReconPoll(failed)
      BY <3>1, <3>2 DEF ReconList, ReconPoll, ReconSweep, ReconHangs, ReconRetry, Recon
    <3>5. CASE ReconSucceeds \/ ReconFails \/ ReconEnds
      BY <3>5, NewRecon
    <3>3. CASE Crash
      BY <3>3, BootTypes DEF Crash
    <3>4. CASE recon' = recon
      BY <3>4
    <3> QED
      BY <3>2, <3>3, <3>4, <3>5 DEF Next, vars, others, AttemptStep, ReconStep, ReconDies,
         BeginAttempt, ReviewRejects,
         ReviewApproves, PostK, BracketRefused, PostPlainRetry, SaveAttempt, ArmCooldown,
         AttemptUnsaved, CooldownUnsaved, CooldownExpires, CyclePoll, clearOrphans,
         OrderMoves, BracketRuleChanges
  <2>2. CASE recon'.work = recon.work
    BY <2>2, <1>0, <1>1 DEF FollowInv
  <2>3. CASE recon'.work = rows
    BY <2>3, <1>0, <1>1 DEF FollowInv
  <2>4. CASE recon'.work = <<>>
    BY <2>4
  <2> QED
    BY <2>1, <2>2, <2>3, <2>4
<1>4. att'.pc \in {"result", "saved"} => Follows(broker', [status |-> att'.status, order |-> att'.order])
  <2>1. ASSUME NEW c \in ClientIds, Submit(c)
        PROVE  Follows(broker', [status |-> att'.status, order |-> att'.order])
    BY <2>1, SubmitGives DEF Follows
  <2>2. CASE PostK \/ PostPlainRetry
    BY <2>1, <2>2 DEF PostK, PostPlainRetry, ClientIds
  <2>3. CASE SaveAttempt \/ att' = att
    <3>1. att'.status = att.status /\ att'.order = att.order
          /\ (att'.pc \in {"result", "saved"} => att.pc \in {"result", "saved"})
      BY <2>3, <1>0 DEF SaveAttempt, Attempt
    <3>2. [status |-> att.status, order |-> att.order] \in Row
      BY <1>0 DEF Attempt, Row
    <3> QED
      BY <1>1, <3>1, <3>2 DEF FollowInv
  <2>4. CASE ~(PostK \/ PostPlainRetry \/ SaveAttempt \/ att' = att)
    <3>1. att'.pc \notin {"result", "saved"}
      BY <2>4, <1>0, BootTypes DEF Next, vars, AttemptStep, ReconStep, BeginAttempt,
         ReviewRejects, ReviewApproves, BracketRefused, ArmCooldown, AttemptUnsaved,
         CooldownUnsaved, CooldownExpires, CyclePoll, ReconList, ReconPoll, ReconSweep,
         ReconSucceeds, ReconFails, ReconEnds, ReconDies, ReconHangs, ReconRetry,
         clearOrphans, OrderMoves, BracketRuleChanges, Crash, Attempt
    <3> QED
      BY <3>1
  <2> QED
    BY <2>2, <2>3, <2>4
<1> QED
  BY <1>2, <1>3, <1>4 DEF FollowInv

\* A terminal row tells the final state of its order, whatever stale lists a
\* reconciliation saves from and however the broker moves in between.
THEOREM RowsFollow == Spec => []RowsFollowBroker
<1>1. Init => SubmissionTypes /\ FollowInv
  BY TypesInit, FollowInit
<1>2. SubmissionTypes /\ FollowInv /\ [Next]_vars => (SubmissionTypes /\ FollowInv)'
  BY TypesNext, FollowNext
<1>3. FollowInv => RowsFollowBroker
  BY DEF FollowInv, Follows, RowsFollowBroker
<1> QED
  BY <1>1, <1>2, <1>3, PTL DEF Spec

-------------------------------------------------------------------------------
(* The gate of the boot *)

\* Every step but a POST leaves the broker's orders in existence.
LEMMA ExistsStays ==
    ASSUME SubmissionTypes, [Next]_vars, ~PostK, ~PostPlainRetry
    PROVE  Exists' = Exists
<1>1. broker \in [ClientIds -> BrokerStatus \cup {Absent}]
  BY DEF SubmissionTypes
<1>2. CASE UNCHANGED broker
  BY <1>2 DEF Exists
<1>3. ASSUME NEW c \in Live, NEW st \in {"filled", "canceled"},
             broker' = [broker EXCEPT ![c] = st]
      PROVE  Exists' = Exists
  BY <1>1, <1>3 DEF Exists, Live, Absent
<1> QED
  BY <1>2, <1>3, BrokerStep

\* Once ready to trade, a boot reconciles no more; and a BUY past its review was let
\* through by a gate that has stayed open since.
GateInv ==
    /\ tradingReady => recon.pc = "idle"
    /\ side = "buy" /\ att.pc \notin {"idle", "review"} => tradingReady /\ orphanOrders = {}

\* Nothing is past its review at boot.
LEMMA GateInit == Init => GateInv
BY BootTypes DEF Init, GateInv

\* What a review leaves to do, and what the later steps of an attempt do to the gate.
LEMMA GateNext == SubmissionTypes /\ GateInv /\ [Next]_vars => GateInv'
<1> SUFFICES ASSUME SubmissionTypes, GateInv, [Next]_vars PROVE GateInv'
  OBVIOUS
<1>0. att \in Attempt /\ recon \in Recon /\ side' = side
  BY SettingStays DEF SubmissionTypes, side
<1>1. CASE \/ \E openDup \in BOOLEAN : BeginAttempt(openDup)
           \/ ReviewRejects \/ ArmCooldown \/ AttemptUnsaved \/ CooldownUnsaved
  <2>1. att'.pc \in {"idle", "review"} /\ UNCHANGED <<recon, tradingReady>>
    BY <1>1, BootTypes DEF BeginAttempt, ReviewRejects, ArmCooldown, AttemptUnsaved,
       CooldownUnsaved, Attempt
  <2> QED
    BY <2>1 DEF GateInv
<1>2. CASE ReviewApproves
  <2>1. UNCHANGED <<recon, tradingReady, orphanOrders>>
    BY <1>2 DEF ReviewApproves
  <2>2. side = "buy" => tradingReady /\ orphanOrders = {}
    BY <1>2 DEF ReviewApproves, BuyGateRejects
  <2> QED
    BY <1>0, <2>1, <2>2 DEF GateInv
<1>3. CASE BracketRefused \/ PostK \/ PostPlainRetry \/ SaveAttempt
  <2>1. att.pc \notin {"idle", "review"} /\ UNCHANGED <<recon, tradingReady, orphanOrders>>
    BY <1>3 DEF BracketRefused, PostK, PostPlainRetry, SaveAttempt
  <2> QED
    BY <1>0, <2>1 DEF GateInv
<1>4. CASE ReconList \/ ReconSweep \/ ReconFails \/ ReconRetry \/ ReconHangs \/ ReconEnds
           \/ ReconSucceeds \/ \E failed \in BOOLEAN : ReconPoll(failed)
  <2>1. recon.pc # "idle" /\ UNCHANGED att
    BY <1>4 DEF ReconList, ReconSweep, ReconFails, ReconRetry, ReconHangs, ReconEnds,
       ReconSucceeds, ReconPoll, ReconThrows
  <2>2. ~tradingReady
    BY <2>1 DEF GateInv
  <2>3. side = "buy" => att'.pc \in {"idle", "review"}
    BY <2>1, <2>2 DEF GateInv
  <2>4. tradingReady' => recon'.pc = "idle"
    <3>1. CASE ReconSucceeds
      BY <3>1, BootTypes DEF ReconSucceeds
    <3>2. CASE ~ReconSucceeds
      <4>1. tradingReady' = tradingReady
        BY <1>4, <3>2 DEF ReconList, ReconSweep, ReconFails, ReconRetry, ReconHangs, ReconEnds,
           ReconPoll
      <4> QED
        BY <2>2, <4>1
    <3> QED
      BY <3>1, <3>2
  <2> QED
    BY <1>0, <2>3, <2>4 DEF GateInv
<1>5. CASE clearOrphans
  BY <1>0, <1>5 DEF clearOrphans, GateInv
<1>6. CASE Crash
  BY <1>6, BootTypes DEF Crash, GateInv
<1>7. CASE CooldownExpires \/ CyclePoll \/ BracketRuleChanges \/ UNCHANGED vars
           \/ (\E c \in ClientIds, st \in {"filled", "canceled"} : OrderMoves(c, st))
  <2>1. UNCHANGED <<att, recon, tradingReady, orphanOrders>>
    BY <1>7 DEF CooldownExpires, CyclePoll, BracketRuleChanges, vars, OrderMoves
  <2> QED
    BY <1>0, <2>1 DEF GateInv
<1> QED
  BY <1>1, <1>2, <1>3, <1>4, <1>5, <1>6, <1>7 DEF Next, AttemptStep, ReconStep, ReconDies

\* No BUY is posted before the boot's reconciliation is over and its orphans are cleared
\* (buyGateRejectionReason), although the gate was asked awaits before.
THEOREM BuysWait == Spec => BuyAwaitsReconciliation
<1> DEFINE A == side = "buy" /\ Exists' # Exists => tradingReady /\ orphanOrders = {}
<1>1. ASSUME SubmissionTypes, GateInv, [Next]_vars PROVE A
  <2>1. SUFFICES ASSUME side = "buy", Exists' # Exists PROVE tradingReady /\ orphanOrders = {}
    OBVIOUS
  <2>2. PostK \/ PostPlainRetry
    BY <1>1, <2>1, ExistsStays
  <2>3. att.pc \in {"post", "postPlain"}
    BY <2>2 DEF PostK, PostPlainRetry
  <2> QED
    BY <1>1, <2>1, <2>3 DEF GateInv
<1> HIDE DEF A
<1>2. SubmissionTypes /\ GateInv /\ [Next]_vars => [A]_vars
  BY <1>1
<1>3. Init => SubmissionTypes /\ GateInv
  BY TypesInit, GateInit
<1>4. SubmissionTypes /\ GateInv /\ [Next]_vars => (SubmissionTypes /\ GateInv)'
  BY TypesNext, GateNext
<1>5. Spec => [][A]_vars
  BY <1>2, <1>3, <1>4, PTL DEF Spec
<1> QED
  BY <1>5 DEF A, BuyAwaitsReconciliation

-------------------------------------------------------------------------------
(* A BUY whose cooldown stands *)

\* A cooldown that lapsed stays lapsed, and the settings stay.
LEMMA CooledStays ==
    ASSUME SubmissionTypes, [Next]_vars
    PROVE  CooledBuy' => CooledBuy
<1>1. setting' = setting
  BY SettingStays
<1>2. lapsed => lapsed'
  BY DEF Next, vars, others, AttemptStep, ReconStep, BeginAttempt, ReviewRejects,
     ReviewApproves, BracketRefused, PostK, PostPlainRetry, SaveAttempt, ArmCooldown,
     AttemptUnsaved, CooldownUnsaved, CooldownExpires, CyclePoll, ReconList, ReconPoll,
     ReconSweep, ReconSucceeds, ReconFails, ReconEnds, ReconDies, ReconHangs, ReconRetry,
     clearOrphans, OrderMoves, BracketRuleChanges, Crash
<1> QED
  BY <1>1, <1>2 DEF CooledBuy, side, symbolCooldownHours

\* While its cooldown stands, one attempt of a BUY passes the review and its answer arms
\* the cooldown before the next begins.  Before that nothing exists and no row names an
\* order, after that no attempt gets as far as a POST.  A reconciliation, of whichever
\* boot, saves rows of the same orders it read.
CooledInv ==
    /\ att.pc \in {"result", "saved"} => att.status \in BROKER_REACHED_TRADE_STATUSES
    /\ CooledBuy =>
          /\ Exists # {} => cooldown \/ att.pc \in {"result", "saved"}
          /\ Exists # ClientIds
          /\ cooldown => att.pc \in {"idle", "review"}
          /\ ~cooldown /\ att.pc # "saved" => \A i \in DOMAIN rows : rows[i].order = None
          /\ \A i, j \in DOMAIN rows :
                rows[i].order # None /\ rows[j].order # None => i = j
          /\ recon.pc = "poll" =>
                \A i \in DOMAIN recon.work :
                    i \in DOMAIN rows /\ rows[i].order = recon.work[i].order

\* The answers of a POST count as having reached the broker.
LEMMA AnswersReached ==
    /\ "BrokerFailed" \in BROKER_REACHED_TRADE_STATUSES
    /\ \A status : mapBrokerStatusToTradeState(status) \in BROKER_REACHED_TRADE_STATUSES
BY DEF BROKER_REACHED_TRADE_STATUSES, mapBrokerStatusToTradeState

\* Nothing exists at boot.
LEMMA CooledInit == Init => CooledInv
<1> SUFFICES ASSUME Init PROVE CooledInv
  OBVIOUS
<1>1. att.pc = "idle" /\ recon.pc = "start" /\ rows = <<>> /\ cooldown = FALSE
  BY BootTypes DEF Init
<1>2. Exists = {} /\ Exists # ClientIds
  BY DEF Init, Exists, ClientIds
<1> QED
  BY <1>1, <1>2 DEF CooledInv

\* Rows of the same orders are as good as the same rows.
LEMMA SameOrders ==
    ASSUME SubmissionTypes, CooledInv, [Next]_vars, Exists' = Exists, cooldown' = cooldown,
           DOMAIN rows' = DOMAIN rows, \A i \in DOMAIN rows : rows'[i].order = rows[i].order,
           att' = att, recon'.pc = "poll" => recon' = recon
    PROVE  CooledInv'
BY CooledStays DEF CooledInv

\* What a reconciliation's poll saves over a row records the same order.
LEMMA ReconKeepsOrders ==
    ASSUME SubmissionTypes, CooledInv, CooledBuy, NEW failed \in BOOLEAN, ReconPoll(failed)
    PROVE  \A i \in DOMAIN rows : rows'[i].order = rows[i].order
<1>1. recon.pc = "poll"
  BY DEF ReconPoll
<1>2. \A i \in DOMAIN recon.work : recon.work[i] \in Row
  BY DEF SubmissionTypes, Recon
<1>3. \A i \in DOMAIN recon.work : /\ rows[i].order = recon.work[i].order
                                   /\ Polled(recon.work[i]).order = rows[i].order
  BY <1>1, <1>2, PolledType DEF CooledInv
<1> QED
  BY <1>3, ReconWrites

\* One attempt at a time reaches the broker, and the next finds its cooldown.
LEMMA CooledNext == SubmissionTypes /\ GateInv /\ CooledInv /\ [Next]_vars => CooledInv'
<1> SUFFICES ASSUME SubmissionTypes, GateInv, CooledInv, [Next]_vars PROVE CooledInv'
  OBVIOUS
<1>0. /\ att \in Attempt /\ recon \in Recon /\ rows \in Seq(Row)
      /\ cooldown \in BOOLEAN
      /\ CooledBuy' => CooledBuy
  BY CooledStays DEF SubmissionTypes
<1>1. ASSUME NEW openDup \in BOOLEAN, BeginAttempt(openDup) PROVE CooledInv'
  <2>1. att'.pc = "review" /\ att.pc = "idle" /\ UNCHANGED <<rows, cooldown, recon>>
    BY <1>1, BootTypes DEF BeginAttempt, Attempt, MutexFree
  <2>2. Exists' = Exists
    BY <1>1 DEF BeginAttempt, Exists
  <2> QED
    BY <1>0, <2>1, <2>2 DEF CooledInv
<1>2. CASE ReviewRejects
  <2>1. att.pc = "review" /\ att'.pc = "idle" /\ UNCHANGED <<cooldown, recon>>
    BY <1>2, BootTypes DEF ReviewRejects
  <2>2. Exists' = Exists
    BY <1>2 DEF ReviewRejects, Exists
  <2> DEFINE row == [status |-> "RiskRejected", order |-> None]
  <2>3. /\ DOMAIN rows \subseteq DOMAIN rows'
        /\ \A i \in DOMAIN rows : rows'[i] = rows[i]
        /\ \A i \in DOMAIN rows' : i \in DOMAIN rows \/ rows'[i].order = None
    <3>1. (rows' = Append(rows, row) \/ rows' = rows) /\ row.order = None
      BY <1>2 DEF ReviewRejects
    <3>2. row \in Row
      BY DEF Row, TradeState
    <3> HIDE DEF row
    <3> QED
      BY <1>0, <3>1, <3>2, AppendProperties
  <2> QED
    BY <1>0, <2>1, <2>2, <2>3 DEF CooledInv
<1>3. CASE ReviewApproves
  <2>1. /\ att.pc = "review" /\ att'.pc = "post"
        /\ side = "buy" /\ symbolCooldownHours > 0 => ~cooldown
        /\ UNCHANGED <<rows, cooldown, recon>>
    BY <1>3, <1>0 DEF ReviewApproves, CooldownRejects, Attempt
  <2>2. Exists' = Exists /\ (CooledBuy => ~cooldown)
    BY <1>3, <2>1 DEF ReviewApproves, Exists, CooledBuy
  <2> QED
    BY <1>0, <2>1, <2>2 DEF CooledInv
<1>4. CASE BracketRefused
  <2>1. att.pc = "post" /\ att'.pc = "postPlain" /\ UNCHANGED <<rows, cooldown, recon>>
    BY <1>4, <1>0 DEF BracketRefused, Attempt
  <2>2. Exists' = Exists
    BY <1>4 DEF BracketRefused, Exists
  <2> QED
    BY <1>0, <2>1, <2>2 DEF CooledInv
<1>5. CASE PostK \/ PostPlainRetry
  <2>1. PICK c \in ClientIds : Submit(c)
    BY <1>5 DEF PostK, PostPlainRetry, ClientIds
  <2>2. att'.pc = "result" /\ att'.status \in BROKER_REACHED_TRADE_STATUSES
    BY <2>1, SubmitGives, AnswersReached
  <2>3. att.pc \in {"post", "postPlain"} /\ UNCHANGED <<rows, cooldown, recon>>
    BY <1>5 DEF PostK, PostPlainRetry
  <2>4. CooledBuy => ~cooldown /\ Exists = {}
    BY <2>3 DEF CooledInv
  <2>5. CooledBuy => Exists' # ClientIds
    <3>1. broker \in [ClientIds -> BrokerStatus \cup {Absent}]
      BY DEF SubmissionTypes
    <3>2. \A d \in ClientIds : d # c => broker'[d] = broker[d]
      BY <2>1, <3>1, SubmitGives
    <3>3. CooledBuy => Exists' \subseteq {c}
      BY <2>4, <3>2 DEF Exists
    <3>4. {c} # ClientIds
      BY DEF ClientIds
    <3> QED
      BY <3>3, <3>4
  <2> QED
    BY <1>0, <2>2, <2>3, <2>4, <2>5 DEF CooledInv
<1>6. CASE SaveAttempt
  <2>1. /\ att.pc = "result" /\ att'.pc = "saved" /\ att'.status = att.status
        /\ UNCHANGED <<cooldown, recon>>
    BY <1>6, <1>0 DEF SaveAttempt, Attempt
  <2>2. Exists' = Exists
    BY <1>6 DEF SaveAttempt, Exists
  <2>3. CooledBuy => /\ ~cooldown /\ recon.pc # "poll"
                     /\ \A i \in DOMAIN rows : rows[i].order = None
    BY <2>1 DEF CooledInv, GateInv, CooledBuy
  <2>4. \A i \in DOMAIN rows' : i # Len(rows') => i \in DOMAIN rows /\ rows'[i] = rows[i]
    BY <1>6, SaveWrites
  <2>5. CooledBuy => \A i \in DOMAIN rows' : i # Len(rows') => rows'[i].order = None
    BY <2>3, <2>4
  <2> QED
    BY <1>0, <2>1, <2>2, <2>3, <2>5 DEF CooledInv
<1>7. CASE ArmCooldown
  <2>1. /\ att.pc = "saved" /\ att'.pc = "idle"
        /\ symbolCooldownHours > 0 /\ att.status \in BROKER_REACHED_TRADE_STATUSES => cooldown'
        /\ UNCHANGED <<rows, recon>>
    BY <1>7, BootTypes DEF ArmCooldown
  <2>2. Exists' = Exists
    BY <1>7 DEF ArmCooldown, Exists
  <2>3. CooledBuy => cooldown'
    BY <2>1 DEF CooledBuy, CooledInv
  <2> QED
    BY <1>0, <2>1, <2>2, <2>3 DEF CooledInv
<1>8. CASE CooldownExpires \/ AttemptUnsaved \/ CooldownUnsaved
  <2>1. ~CooledBuy'
    BY <1>8 DEF CooldownExpires, AttemptUnsaved, CooldownUnsaved, CooledBuy
  <2>2. att' = att \/ att'.pc = "idle"
    BY <1>8, BootTypes DEF CooldownExpires, AttemptUnsaved, CooldownUnsaved
  <2> QED
    BY <2>1, <2>2 DEF CooledInv
<1>9. CASE CyclePoll
  <2>1. \A i \in DOMAIN rows : rows[i] \in Row
    BY <1>0
  <2>2. /\ DOMAIN rows' = DOMAIN rows
        /\ \A i \in DOMAIN rows : rows'[i].order = rows[i].order
    BY <1>9, <2>1, PollWrites, PolledType
  <2>3. Exists' = Exists /\ UNCHANGED <<att, cooldown, recon>>
    BY <1>9 DEF CyclePoll, Exists
  <2> QED
    BY <2>2, <2>3, SameOrders
<1>10. ASSUME NEW failed \in BOOLEAN, ReconPoll(failed) PROVE CooledInv'
  <2>1. /\ Exists' = Exists /\ UNCHANGED <<att, cooldown>>
        /\ recon.pc = "poll" /\ recon'.pc = "sweep"
    BY <1>10, <1>0 DEF ReconPoll, Exists, Recon
  <2>2. CASE CooledBuy
    <3>1. DOMAIN rows' = DOMAIN rows
      BY <1>10, ReconWrites
    <3>2. \A i \in DOMAIN rows : rows'[i].order = rows[i].order
      BY <1>10, <2>2, ReconKeepsOrders
    <3> QED
      BY <2>1, <3>1, <3>2, SameOrders
  <2>3. CASE ~CooledBuy
    BY <1>0, <2>1, <2>3 DEF CooledInv
  <2> QED
    BY <2>2, <2>3
<1>11. CASE ReconList
  <2>1. /\ Exists' = Exists /\ UNCHANGED <<rows, att, cooldown>>
        /\ recon'.pc = "poll" /\ recon'.work = rows
    BY <1>11, <1>0 DEF ReconList, Exists, Recon
  <2> QED
    BY <1>0, <2>1 DEF CooledInv
<1>12. CASE ReconSweep \/ ReconFails \/ ReconRetry \/ ReconSucceeds \/ ReconEnds \/ ReconHangs
  <2>1. Exists' = Exists /\ UNCHANGED <<rows, att, cooldown>>
    BY <1>12 DEF ReconSweep, ReconFails, ReconRetry, ReconSucceeds, ReconEnds, ReconHangs, Exists
  <2>2. recon'.pc # "poll"
    <3>0. recon \in Recon
      BY <1>0
    <3>1. CASE ReconSweep \/ ReconRetry \/ ReconHangs
      BY <3>0, <3>1 DEF ReconSweep, ReconRetry, ReconHangs, Recon
    <3>2. CASE ReconFails \/ ReconSucceeds \/ ReconEnds
      BY <3>2, NewRecon
    <3> QED
      BY <1>12, <3>1, <3>2
  <2> QED
    BY <2>1, <2>2, SameOrders
<1>13. CASE clearOrphans \/ BracketRuleChanges \/ UNCHANGED vars
            \/ (\E c \in ClientIds, st \in {"filled", "canceled"} : OrderMoves(c, st))
  <2>1. UNCHANGED <<rows, att, cooldown, recon>>
    BY <1>13 DEF clearOrphans, BracketRuleChanges, vars, OrderMoves
  <2>2. Exists' = Exists
    <3>1. CASE PostK \/ PostPlainRetry
      <4>1. att'.pc = "result" /\ att.pc \in {"post", "postPlain"}
        BY <3>1, SubmitGives DEF PostK, PostPlainRetry, ClientIds
      <4> QED
        BY <2>1, <4>1
    <3> QED
      BY <3>1, ExistsStays
  <2> QED
    BY <2>1, <2>2, SameOrders
<1>14. CASE Crash
  <2>1. Exists' = Exists /\ UNCHANGED <<rows, cooldown>> /\ att'.pc = "idle" /\ recon'.pc = "start"
    BY <1>14, BootTypes DEF Crash, Exists
  <2>2. CooledBuy' => att.pc \notin {"result", "saved"}
    BY <1>14 DEF Crash, CooledBuy
  <2> QED
    BY <1>0, <2>1, <2>2 DEF CooledInv
<1> QED
  BY <1>1, <1>2, <1>3, <1>4, <1>5, <1>6, <1>7, <1>8, <1>9, <1>10, <1>11, <1>12, <1>13, <1>14
  DEF Next, AttemptStep, ReconStep, ReconDies

\* The invariants together hold of every behaviour.
LEMMA CooledHolds == Spec => [](SubmissionTypes /\ OnePath /\ CooledInv)
<1>1. Init => SubmissionTypes /\ OnePath /\ GateInv /\ CooledInv
  BY TypesInit, PathInit, GateInit, CooledInit
<1>2. SubmissionTypes /\ OnePath /\ GateInv /\ CooledInv /\ [Next]_vars
        => (SubmissionTypes /\ OnePath /\ GateInv /\ CooledInv)'
  BY TypesNext, PathNext, GateNext, CooledNext
<1> QED
  BY <1>1, <1>2, PTL DEF Spec

\* A second order of one content takes a broker that changed its mind about brackets and
\* a cooldown that is off, was lost or has expired: short of that, whatever attempts repeat,
\* answers get lost and crashes lose the row, there is one (the client order id of
\* tradingSafety.ts together with the cooldown of executeTradeIntent).
THEOREM OneOrder == Spec => []OneOrderPerIntent
<1>1. OnePath => (Exists = ClientIds => "bracketFlaky" \in Faults)
  BY DEF OnePath, Exists, ClientIds
<1>2. CooledInv => (Exists = ClientIds => ~CooledBuy)
  BY DEF CooledInv
<1>3. OnePath /\ CooledInv => OneOrderPerIntent
  BY <1>1, <1>2 DEF OneOrderPerIntent
<1> QED
  BY <1>3, CooledHolds, PTL

\* A BUY that exists at the broker has armed the cooldown by the end of its attempt, though
\* its answer may have been lost, and later crashes leave it: only a crash or a failing
\* store between answer and cooldown, and its expiry, take it (executeTradeIntent).
THEOREM CooldownArmed == Spec => []PlacedOrderArmsCooldown
<1>1. CooledInv => PlacedOrderArmsCooldown
  BY DEF CooledInv, PlacedOrderArmsCooldown, MutexFree
<1> QED
  BY <1>1, CooledHolds, PTL

\* No order id of such a BUY is recorded by two rows.
THEOREM OneRow == Spec => []OneRowPerOrder
<1>1. CooledInv => OneRowPerOrder
  BY DEF CooledInv, OneRowPerOrder
<1> QED
  BY <1>1, CooledHolds, PTL

\* No step takes the order id of such a BUY out of its row.
LEMMA TrackedStep ==
    ASSUME SubmissionTypes, CooledInv, [Next]_vars, CooledBuy
    PROVE  Tracked \subseteq Tracked'
<1>0. rows \in Seq(Row) /\ \A i \in DOMAIN rows : rows[i] \in Row
  BY DEF SubmissionTypes
<1>1. CASE UNCHANGED rows
  BY <1>1 DEF Tracked
<1>2. ASSUME DOMAIN rows \subseteq DOMAIN rows',
             \A i \in DOMAIN rows : rows'[i].order = rows[i].order
      PROVE  Tracked \subseteq Tracked'
  BY <1>2 DEF Tracked
<1>3. CASE ReviewRejects /\ rows' # rows
  <2> DEFINE row == [status |-> "RiskRejected", order |-> None]
  <2>1. rows' = Append(rows, row)
    BY <1>3 DEF ReviewRejects
  <2>2. row \in Row
    BY DEF Row, TradeState
  <2> HIDE DEF row
  <2>3. DOMAIN rows \subseteq DOMAIN rows' /\ \A i \in DOMAIN rows : rows'[i] = rows[i]
    BY <1>0, <2>1, <2>2, AppendProperties
  <2> QED
    BY <2>3, <1>2
<1>4. CASE SaveAttempt
  <2>1. att.pc = "result"
    BY <1>4 DEF SaveAttempt
  <2>2. \A i \in DOMAIN rows : rows[i].order = None
    BY <2>1 DEF CooledInv
  <2> QED
    BY <2>2 DEF Tracked
<1>5. CASE CyclePoll
  <2>1. DOMAIN rows' = DOMAIN rows /\ \A i \in DOMAIN rows : rows'[i].order = rows[i].order
    BY <1>0, <1>5, PollWrites, PolledType
  <2> QED
    BY <2>1, <1>2
<1>6. ASSUME NEW failed \in BOOLEAN, ReconPoll(failed) PROVE Tracked \subseteq Tracked'
  <2>1. DOMAIN rows' = DOMAIN rows
    BY <1>6, ReconWrites
  <2>2. \A i \in DOMAIN rows : rows'[i].order = rows[i].order
    BY <1>6, ReconKeepsOrders
  <2> QED
    BY <2>1, <2>2, <1>2
<1>7. \/ UNCHANGED rows \/ (ReviewRejects /\ rows' # rows) \/ SaveAttempt \/ CyclePoll
      \/ \E failed \in BOOLEAN : ReconPoll(failed)
  BY DEF Next, vars, AttemptStep, ReconStep, BeginAttempt, ReviewApproves, BracketRefused,
     PostK, PostPlainRetry, ArmCooldown, AttemptUnsaved, CooldownUnsaved, CooldownExpires,
     ReconList, ReconSweep, ReconSucceeds, ReconFails, ReconEnds, ReconDies, ReconHangs,
     ReconRetry, clearOrphans, OrderMoves, BracketRuleChanges, Crash
<1> QED
  BY <1>1, <1>3, <1>4, <1>5, <1>6, <1>7

\* An order of such a BUY, once recorded, stays recorded whatever attempt or poll
\* saves rows after it (findTradeIntentByClientOrderId, saveTradeIntent).
THEOREM RecordsAreKept == Spec => TrackedOrderStaysTracked
<1>1. SubmissionTypes /\ CooledInv /\ [Next]_vars => [CooledBuy => Tracked \subseteq Tracked']_vars
  BY TrackedStep
<1> QED
  BY <1>1, CooledHolds, PTL DEF Spec, TrackedOrderStaysTracked

-------------------------------------------------------------------------------
(* Types and bounds *)

\* What is bounded, and the parts of TypeOK the other arguments do without.
Bounded ==
    /\ bracketForm \in BracketForms
    /\ tradingReady \in BOOLEAN
    /\ orphanOrders \subseteq ClientIds /\ cleared \subseteq ClientIds
    /\ attempts \in 0..MaxAttempts /\ crashes \in 0..MaxCrashes
    /\ recon.tries <= RECONCILIATION_MAX_RETRY_ATTEMPTS
    /\ recon.pc = "wait" => recon.tries < RECONCILIATION_MAX_RETRY_ATTEMPTS

\* A start has tried nothing and waits for its first reconciliation.
LEMMA BoundedInit == Init => Bounded
<1> SUFFICES ASSUME Init PROVE Bounded
  OBVIOUS
<1>1. BootRecon.tries = 1 /\ BootRecon.pc = "start"
  BY DEF BootRecon, NoRecon
<1>2. MaxCrashes \in Nat
  BY SubmissionAssumption DEF Init, MaxCrashes
<1>3. bracketForm \in BracketForms
  BY DEF Init, BracketForms
<1>4. /\ recon = BootRecon /\ tradingReady = FALSE /\ orphanOrders = {} /\ cleared = {}
      /\ attempts = 0 /\ crashes = 0
  BY DEF Init
<1>5. attempts \in 0..MaxAttempts /\ crashes \in 0..MaxCrashes
  BY <1>2, <1>4, SubmissionAssumption
<1>6. 1 <= RECONCILIATION_MAX_RETRY_ATTEMPTS
  BY SubmissionAssumption
<1> QED
  BY <1>1, <1>3, <1>4, <1>5, <1>6 DEF Bounded

\* Every step counts within its bounds; only a failed reconciliation with a try left
\* waits for the next one (scheduleReconciliationRetry).
LEMMA BoundedNext == SubmissionTypes /\ Bounded /\ [Next]_vars => Bounded'
<1> SUFFICES ASSUME SubmissionTypes, Bounded, [Next]_vars PROVE Bounded'
  OBVIOUS
<1> DEFINE Counted == /\ attempts \in 0..MaxAttempts /\ crashes \in 0..MaxCrashes
                      /\ cleared \subseteq ClientIds /\ bracketForm \in BracketForms
           Retried == /\ recon.tries <= RECONCILIATION_MAX_RETRY_ATTEMPTS
                      /\ recon.pc = "wait" => recon.tries < RECONCILIATION_MAX_RETRY_ATTEMPTS
           Ready == tradingReady \in BOOLEAN /\ orphanOrders \subseteq ClientIds
<1>0. Counted /\ Retried /\ Ready
  BY DEF Bounded
<1>1. SUFFICES Counted' /\ Retried' /\ Ready'
  BY DEF Bounded
<1>a. /\ recon \in Recon /\ recon.tries \in Nat /\ setting \in Settings
      /\ MaxCrashes \in Nat /\ MaxAttempts \in Nat
      /\ RECONCILIATION_MAX_RETRY_ATTEMPTS \in Nat \ {0}
  BY SubmissionAssumption DEF SubmissionTypes, Recon, MaxCrashes
<1>2. ASSUME UNCHANGED <<setting, bracketForm, cleared, attempts, crashes, recon, tradingReady,
                         orphanOrders>>
      PROVE  Counted' /\ Retried' /\ Ready'
  BY <1>0, <1>2 DEF MaxCrashes
<1>3. ASSUME NEW openDup \in BOOLEAN, BeginAttempt(openDup)
      PROVE  Counted' /\ Retried' /\ Ready'
  BY <1>0, <1>3, <1>a DEF BeginAttempt, MaxCrashes
<1>4. CASE ReconList \/ ReconSweep \/ ReconHangs \/ \E failed \in BOOLEAN : ReconPoll(failed)
  <2>1. UNCHANGED <<tradingReady, orphanOrders, others>>
    BY <1>4 DEF ReconList, ReconSweep, ReconHangs, ReconPoll
  <2>2. recon'.tries = recon.tries /\ recon'.pc # "wait"
    BY <1>4, <1>a DEF ReconList, ReconSweep, ReconHangs, ReconPoll, Recon
  <2> QED
    BY <1>0, <2>1, <2>2 DEF others, MaxCrashes
<1>5. CASE ReconSucceeds
  <2>1. /\ UNCHANGED others /\ tradingReady' = TRUE
        /\ orphanOrders' = detectOrphanOrders(recon.open) /\ recon' = NoRecon
    BY <1>5 DEF ReconSucceeds
  <2>2. orphanOrders' \subseteq ClientIds
    BY <1>a, <2>1 DEF detectOrphanOrders, Recon
  <2>3. NoRecon.tries = 0 /\ NoRecon.pc = "idle"
    BY DEF NoRecon
  <2> QED
    BY <1>0, <1>a, <2>1, <2>2, <2>3 DEF others, MaxCrashes
<1>6. CASE ReconFails
  <2>1. UNCHANGED <<tradingReady, orphanOrders, others>>
    BY <1>6 DEF ReconFails
  <2>2. /\ recon'.tries = recon.tries
        /\ recon'.pc = IF recon.tries < RECONCILIATION_MAX_RETRY_ATTEMPTS THEN "wait" ELSE "gaveUp"
    BY <1>6 DEF ReconFails, NoRecon
  <2> QED
    BY <1>0, <2>1, <2>2 DEF others, MaxCrashes
<1>13. CASE ReconEnds
  <2>1. /\ UNCHANGED <<tradingReady, others>> /\ recon'.tries = 1 /\ recon'.pc = "ended"
        /\ orphanOrders' = orphanOrders \/ orphanOrders' = detectOrphanOrders(recon.open)
    BY <1>13 DEF ReconEnds, NoRecon
  <2>2. orphanOrders' \subseteq ClientIds
    BY <1>0, <1>a, <2>1 DEF detectOrphanOrders, Recon
  <2> QED
    BY <1>0, <1>a, <2>1, <2>2 DEF others, MaxCrashes
<1>7. CASE ReconRetry
  <2>1. UNCHANGED <<tradingReady, orphanOrders, others>> /\ recon.pc = "wait"
    BY <1>7 DEF ReconRetry
  <2>2. recon'.tries = recon.tries + 1 /\ recon'.pc = "start"
    BY <1>7, <1>a DEF ReconRetry, Recon
  <2> QED
    BY <1>0, <1>a, <2>1, <2>2 DEF others, MaxCrashes
<1>8. CASE clearOrphans
  BY <1>0, <1>8 DEF clearOrphans, MaxCrashes
<1>9. CASE BracketRuleChanges
  BY <1>0, <1>9 DEF BracketRuleChanges, MaxCrashes
<1>10. CASE Crash
  <2>1. BootRecon.tries = 1 /\ BootRecon.pc = "start"
    BY DEF BootRecon, NoRecon
  <2>2. /\ recon' = BootRecon /\ tradingReady' = FALSE /\ orphanOrders' = {} /\ cleared' = {}
        /\ crashes < MaxCrashes /\ crashes' = crashes + 1
        /\ UNCHANGED <<setting, bracketForm, attempts>>
    BY <1>10 DEF Crash
  <2>3. MaxCrashes' = MaxCrashes
    BY <2>2 DEF MaxCrashes
  <2>4. crashes' \in 0..MaxCrashes
    BY <1>0, <1>a, <2>2
  <2>5. Counted'
    BY <1>0, <2>2, <2>3, <2>4
  <2>6. Retried'
    BY <1>a, <2>1, <2>2
  <2>7. Ready'
    BY <2>2
  <2> QED
    BY <2>5, <2>6, <2>7
<1>11. CASE UNCHANGED vars
  BY <1>0, <1>11 DEF vars, MaxCrashes
<1>12. CASE \/ ReviewRejects \/ ReviewApproves \/ PostK \/ BracketRefused \/ PostPlainRetry
            \/ SaveAttempt \/ ArmCooldown \/ AttemptUnsaved \/ CooldownUnsaved
            \/ CooldownExpires \/ CyclePoll
            \/ \E c \in ClientIds, st \in {"filled", "canceled"} : OrderMoves(c, st)
  BY <1>2, <1>12 DEF ReviewRejects, ReviewApproves, PostK, BracketRefused, PostPlainRetry,
     SaveAttempt, ArmCooldown, AttemptUnsaved, CooldownUnsaved, CooldownExpires, CyclePoll,
     OrderMoves, others
<1> HIDE DEF Counted, Retried, Ready
<1> QED
  BY <1>3, <1>4, <1>5, <1>6, <1>7, <1>8, <1>9, <1>10, <1>11, <1>12, <1>13
     DEF Next, AttemptStep, ReconStep, ReconDies

\* Every variable keeps its type, and the startup reconciliation is tried at most
\* RECONCILIATION_MAX_RETRY_ATTEMPTS times a start (runStartupReconciliation).
THEOREM TypesCorrect == Spec => []TypeOK
<1>1. Init => SubmissionTypes /\ Bounded
  BY TypesInit, BoundedInit
<1>2. SubmissionTypes /\ Bounded /\ [Next]_vars => (SubmissionTypes /\ Bounded)'
  BY TypesNext, BoundedNext
<1>3. SubmissionTypes /\ Bounded => TypeOK
  BY SubmissionAssumption DEF SubmissionTypes, Bounded, TypeOK, Attempt, Recon
<1> QED
  BY <1>1, <1>2, <1>3, PTL DEF Spec
===============================================================================
