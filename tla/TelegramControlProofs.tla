------------------------- MODULE TelegramControlProofs -------------------------
(***************************************************************************)
(* The confirmation tokens of the Telegram runtime, for any number of      *)
(* concurrent polls, updates and restarts.  The argument does not need the *)
(* mutex: a token leaves the pending ones in the synchronous step that     *)
(* accepts it.                                                             *)
(***************************************************************************)
EXTENDS TelegramControl, TLAPS, SequenceTheorems

Polling == [pc : {"idle", "command", "reset", "resetting", "reply"},
            batch : Seq(Nat), token : Tokens \cup {NoToken}]

\* The parts of TypeOK the argument needs, without the bounds.
ControlTypes ==
    /\ sent \in Seq(Update) /\ issued \in Seq(Users) /\ Len(issued) <= MaxTokens
    /\ dropped \in Nat /\ offset \in Nat \ {0}
    /\ poll \in [Polls -> Polling]
    /\ pending \subseteq Tokens
    /\ resets \in [Tokens -> Nat]

\* A poll handles updates that were sent, and at a command it has one.
BatchesKnown ==
    \A p \in Polls :
       /\ \A k \in DOMAIN poll[p].batch : poll[p].batch[k] \in DOMAIN sent
       /\ poll[p].pc = "command" => poll[p].batch # <<>>

\* The poll has accepted the token and has yet to reset, or is about to.
Carries(p, t) == poll[p].pc \in {"reset", "resetting"} /\ poll[p].token = t

\* The token was issued to an admin who confirmed it.
Confirmed(t) ==
    /\ t \in 1..Len(issued)
    /\ issued[t] \in Admins
    /\ \E i \in DOMAIN sent :
          sent[i] = [user |-> issued[t], command |-> "/confirm", token |-> t]

\* A token is not issued, pending, carried by one poll, or spent.
TokenInv(t) ==
    /\ t > Len(issued) => t \notin pending /\ resets[t] = 0 /\ \A p \in Polls : ~Carries(p, t)
    /\ t \in pending => resets[t] = 0 /\ \A p \in Polls : ~Carries(p, t)
    /\ \A p \in Polls : Carries(p, t) =>
          /\ resets[t] = 0 /\ Confirmed(t)
          /\ \A q \in Polls : Carries(q, t) => p = q
    /\ resets[t] > 0 => resets[t] = 1 /\ Confirmed(t)

ControlInv == ControlTypes /\ BatchesKnown /\ \A t \in Tokens : TokenInv(t)

-------------------------------------------------------------------------------
(* Batches *)

\* A poll at rest has nothing to handle.
LEMMA RestType == AtRest \in Polling /\ AtRest.pc = "idle" /\ AtRest.batch = <<>>
BY DEF AtRest, Polling

\* There is nothing at boot.
LEMMA ControlInit == Init => ControlInv
<1> SUFFICES ASSUME Init PROVE ControlInv
  OBVIOUS
<1>1. ControlTypes
  BY RestType, TelegramAssumption DEF Init, ControlTypes
<1>2. BatchesKnown
  BY RestType DEF Init, BatchesKnown
<1>3. ASSUME NEW t \in Tokens PROVE TokenInv(t)
  BY RestType DEF Init, TokenInv, Carries, Tokens
<1> QED
  BY <1>1, <1>2, <1>3 DEF ControlInv

\* A run of numbers is a sequence of them.
LEMMA RunIsSeq ==
    ASSUME NEW n \in Nat, n > 0, NEW first \in Nat, NEW last \in Nat,
           last = first + n - 1, first > 0
    PROVE  LET run == [i \in 1..n |-> first + i - 1]
           IN  /\ run \in Seq(Nat) /\ run # <<>>
               /\ \A k \in DOMAIN run : run[k] \in 1..last
<1> DEFINE run == [i \in 1..n |-> first + i - 1]
<1>1. \A i \in 1..n : first + i - 1 \in Nat /\ first + i - 1 \in 1..last
  OBVIOUS
<1>2. run \in [1..n -> Nat] /\ DOMAIN run = 1..n
  BY <1>1
<1>3. run \in Seq(Nat)
  BY <1>2, IsASeq
<1>4. \A k \in DOMAIN run : run[k] \in 1..last
  BY <1>1
<1>5. 1 \in DOMAIN run
  BY <1>2
<1>6. run # <<>>
  <2> HIDE DEF run
  <2> QED
    BY <1>5
<1> QED
  BY <1>3, <1>4, <1>6

\* The updates from the offset on are known ones.
LEMMA FetchedKnown ==
    ASSUME ControlTypes, offset <= Len(sent)
    PROVE  LET batch == [i \in 1..(Len(sent) + 1 - offset) |-> offset + i - 1]
           IN  /\ batch \in Seq(Nat) /\ batch # <<>>
               /\ \A k \in DOMAIN batch : batch[k] \in DOMAIN sent
<1>1. Len(sent) \in Nat /\ offset \in Nat /\ offset > 0 /\ DOMAIN sent = 1..Len(sent)
  BY DEF ControlTypes
<1>2. /\ Len(sent) + 1 - offset \in Nat /\ Len(sent) + 1 - offset > 0
      /\ Len(sent) = offset + (Len(sent) + 1 - offset) - 1
  BY <1>1
<1> QED
  BY <1>1, <1>2, RunIsSeq

\* What is left of a batch is known.
LEMMA TailKnown ==
    ASSUME NEW batch \in Seq(Nat), Len(batch) > 1,
           \A k \in DOMAIN batch : batch[k] \in DOMAIN sent
    PROVE  /\ Tail(batch) \in Seq(Nat) /\ Tail(batch) # <<>>
           /\ \A k \in DOMAIN Tail(batch) : Tail(batch)[k] \in DOMAIN sent
<1>1. /\ Tail(batch) \in Seq(Nat) /\ Len(Tail(batch)) = Len(batch) - 1
      /\ \A k \in 1..Len(Tail(batch)) : Tail(batch)[k] = batch[k + 1]
  OBVIOUS
<1>2. Len(batch) \in Nat /\ DOMAIN batch = 1..Len(batch)
      /\ DOMAIN Tail(batch) = 1..Len(Tail(batch))
  BY <1>1
<1>3. \A k \in 1..Len(Tail(batch)) : k + 1 \in DOMAIN batch
  BY <1>1, <1>2
<1>4. Tail(batch) # <<>>
  BY <1>1, <1>2
<1> QED
  BY <1>1, <1>2, <1>3, <1>4

\* A poll begins an update only when it carries no token, and then carries none.
LEMMA BeginKeeps ==
    ASSUME ControlInv, NEW p \in Polls, NEW batch \in Seq(Nat), batch # <<>>,
           \A k \in DOMAIN batch : batch[k] \in DOMAIN sent,
           Begin(p, batch), dropped' \in Nat,
           UNCHANGED <<sent, issued, pending, resets>>
    PROVE  ControlInv'
<1> DEFINE new == [AtRest EXCEPT !.pc = "command", !.batch = batch]
<1>1. new \in Polling /\ new.pc = "command" /\ new.batch = batch
  BY DEF AtRest, Polling
<1>2. poll' = [poll EXCEPT ![p] = new]
  BY DEF Begin
<1> HIDE DEF new
<1>3. Head(batch) \in Nat
  OBVIOUS
<1>4. offset' \in Nat \ {0}
  BY <1>3 DEF Begin, NextOffset, ControlInv, ControlTypes
<1>5. ControlTypes'
  BY <1>1, <1>2, <1>4 DEF ControlInv, ControlTypes
<1>6. BatchesKnown'
  BY <1>1, <1>2 DEF ControlInv, ControlTypes, BatchesKnown
<1>7. \A q \in Polls, t \in Tokens : Carries(q, t)' => Carries(q, t)
  BY <1>1, <1>2 DEF Carries, ControlInv, ControlTypes
<1>8. \A t \in Tokens : Confirmed(t) => Confirmed(t)'
  BY DEF Confirmed
<1> QED
  BY <1>5, <1>6, <1>7, <1>8 DEF ControlInv, TokenInv

\* A poll that only moves on, without a new token, keeps the invariant.
LEMMA MoveKeeps ==
    ASSUME ControlInv, NEW p \in Polls, NEW pc \in {"reply", "resetting"},
           pc = "resetting" => poll[p].pc = "reset",
           poll' = [poll EXCEPT ![p].pc = pc],
           UNCHANGED <<sent, dropped, offset, issued, pending, resets>>
    PROVE  ControlInv'
<1> DEFINE new == [poll[p] EXCEPT !.pc = pc]
<1>1. poll[p] \in Polling
  BY DEF ControlInv, ControlTypes
<1>2. new \in Polling /\ new.pc = pc /\ new.token = poll[p].token /\ new.batch = poll[p].batch
  BY <1>1 DEF Polling
<1>3. poll' = [poll EXCEPT ![p] = new]
  OBVIOUS
<1> HIDE DEF new
<1>4. ControlTypes'
  BY <1>2, <1>3 DEF ControlInv, ControlTypes
<1>5. BatchesKnown'
  BY <1>2, <1>3 DEF ControlInv, ControlTypes, BatchesKnown
<1>6. \A q \in Polls, t \in Tokens : Carries(q, t)' => Carries(q, t)
  BY <1>2, <1>3 DEF Carries, ControlInv, ControlTypes
<1>7. \A t \in Tokens : Confirmed(t) => Confirmed(t)'
  BY DEF Confirmed
<1> QED
  BY <1>4, <1>5, <1>6, <1>7 DEF ControlInv, TokenInv

-------------------------------------------------------------------------------
(* Tokens *)

\* A fresh token is pending, unspent and carried by nobody.
LEMMA RequestKeeps ==
    ASSUME ControlInv, NEW p \in Polls, RequestReset(p)
    PROVE  ControlInv'
<1>1. poll[p] \in Polling /\ Len(issued) \in Nat /\ MaxTokens \in Nat
  BY TelegramAssumption DEF ControlInv, ControlTypes
<1>2. poll' = [poll EXCEPT ![p].pc = "reply"]
  BY DEF RequestReset, Replying
<1>3. CASE Len(issued) < MaxTokens
  <2> DEFINE u == sent[Head(poll[p].batch)]
             t0 == Len(issued) + 1
  <2>1. u \in Update
    <3>1. poll[p].batch \in Seq(Nat) /\ poll[p].batch # <<>>
      BY <1>1 DEF RequestReset, Locked, ControlInv, BatchesKnown, Polling
    <3>2. Head(poll[p].batch) = poll[p].batch[1] /\ 1 \in DOMAIN poll[p].batch
      BY <3>1
    <3>3. Head(poll[p].batch) \in DOMAIN sent
      BY <3>2 DEF ControlInv, BatchesKnown
    <3> QED
      BY <3>3 DEF ControlInv, ControlTypes
  <2>2. /\ issued' = Append(issued, u.user) /\ pending' = pending \cup {t0}
        /\ UNCHANGED <<sent, dropped, offset, resets>>
    BY <1>3 DEF RequestReset
  <2>3. u.user \in Users
    BY <2>1 DEF Update
  <2> HIDE DEF u
  <2>4. /\ issued' \in Seq(Users) /\ Len(issued') = t0
        /\ \A i \in 1..Len(issued) : issued'[i] = issued[i]
    BY <2>2, <2>3 DEF ControlInv, ControlTypes
  <2>5. t0 \in Tokens /\ t0 > Len(issued) /\ t0 <= MaxTokens
    BY <1>1, <1>3 DEF Tokens
  <2> HIDE DEF t0
  <2>6. poll' \in [Polls -> Polling]
    BY <1>1, <1>2 DEF ControlInv, ControlTypes, Polling
  <2>7. ControlTypes'
    BY <2>2, <2>4, <2>5, <2>6 DEF ControlInv, ControlTypes
  <2>8. BatchesKnown'
    BY <1>1, <1>2, <2>2 DEF ControlInv, ControlTypes, BatchesKnown, Polling
  <2>9. \A q \in Polls, t \in Tokens : Carries(q, t)' => Carries(q, t)
    BY <1>1, <1>2 DEF Carries, ControlInv, ControlTypes, Polling
  <2>10. \A t \in Tokens : Confirmed(t) => Confirmed(t)'
    BY <1>1, <2>2, <2>4, <2>5 DEF Confirmed, t0
  <2>11. ASSUME NEW t \in Tokens PROVE TokenInv(t)'
    <3>1. CASE t = t0
      BY <3>1, <1>1, <2>2, <2>4, <2>5, <2>9 DEF ControlInv, TokenInv
    <3>2. CASE t # t0
      <4>1. t > Len(issued') => t > Len(issued)
        BY <1>1, <2>4, <2>5 DEF t0, Tokens
      <4> QED
        BY <3>2, <4>1, <2>2, <2>9, <2>10 DEF ControlInv, TokenInv
    <3> QED
      BY <3>1, <3>2
  <2> QED
    BY <2>7, <2>8, <2>11 DEF ControlInv
<1>4. CASE ~(Len(issued) < MaxTokens)
  <2>1. UNCHANGED <<sent, dropped, offset, issued, pending, resets>>
    BY <1>4 DEF RequestReset
  <2> QED
    BY <1>2, <2>1, MoveKeeps
<1> QED
  BY <1>3, <1>4

\* An accepted token stops being pending and is carried by this poll only.
LEMMA ConfirmKeeps ==
    ASSUME ControlInv, NEW p \in Polls, Confirm(p)
    PROVE  ControlInv'
<1> DEFINE u == sent[Head(poll[p].batch)]
<1>1. poll[p] \in Polling /\ poll[p].pc = "command"
  BY DEF Confirm, Locked, ControlInv, ControlTypes
<1>2. Head(poll[p].batch) \in DOMAIN sent
  <2>1. poll[p].batch \in Seq(Nat) /\ poll[p].batch # <<>>
    BY <1>1 DEF ControlInv, BatchesKnown, Polling
  <2>2. Head(poll[p].batch) = poll[p].batch[1] /\ 1 \in DOMAIN poll[p].batch
    BY <2>1
  <2> QED
    BY <2>2 DEF ControlInv, BatchesKnown
<1>3. u \in Update
  BY <1>2 DEF ControlInv, ControlTypes
<1>4. u.command = "/confirm" /\ u.user \in Admins
  BY <1>2 DEF Confirm, Locked, Authorized
<1>5. UNCHANGED <<sent, dropped, offset, issued, resets>>
  BY DEF Confirm
<1>6. CASE Acceptable(u.token, u.user)
  <2> DEFINE t0 == u.token
             new == [poll[p] EXCEPT !.pc = "reset", !.token = t0]
  <2>1. /\ pending' = pending \ {t0}
        /\ poll' = [poll EXCEPT ![p] = new]
    BY <1>6, <1>1 DEF Confirm, PendingAfter, Polling
  <2>2. t0 \in pending /\ issued[t0] = u.user /\ t0 \in Tokens
    BY <1>6 DEF Acceptable, ControlInv, ControlTypes
  <2>3. new \in Polling /\ new.pc = "reset" /\ new.token = t0 /\ new.batch = poll[p].batch
    BY <1>1, <2>2 DEF Polling
  <2>4. u = [user |-> issued[t0], command |-> "/confirm", token |-> t0]
    BY <1>3, <1>4, <2>2 DEF Update
  <2>5. Confirmed(t0)
    <3>1. t0 \in 1..Len(issued)
      BY <2>2 DEF ControlInv, TokenInv, Tokens, ControlTypes
    <3> QED
      BY <1>2, <1>4, <2>2, <2>4, <3>1 DEF Confirmed
  <2> HIDE DEF new, t0
  <2>6. ControlTypes'
    BY <1>5, <2>1, <2>3 DEF ControlInv, ControlTypes
  <2>7. BatchesKnown'
    BY <1>5, <2>1, <2>3 DEF ControlInv, ControlTypes, BatchesKnown
  <2>8. \A q \in Polls, t \in Tokens : Carries(q, t)' => Carries(q, t) \/ (q = p /\ t = t0)
    BY <2>1, <2>3 DEF Carries, ControlInv, ControlTypes
  <2>9. \A t \in Tokens : Confirmed(t)' <=> Confirmed(t)
    BY <1>5 DEF Confirmed
  <2>10. ASSUME NEW t \in Tokens PROVE TokenInv(t)'
    <3>1. CASE t = t0
      <4>1. /\ \A q \in Polls : Carries(q, t)' => q = p
            /\ resets'[t] = 0 /\ t \notin pending' /\ ~(t > Len(issued')) /\ Confirmed(t)'
        <5>1. Len(issued) \in Nat
          BY DEF ControlInv, ControlTypes
        <5>2. ~(t > Len(issued))
          BY <2>2, <3>1 DEF ControlInv, TokenInv
        <5> QED
          BY <3>1, <5>2, <1>5, <2>1, <2>2, <2>5, <2>8, <2>9 DEF ControlInv, TokenInv
      <4> QED
        BY <4>1 DEF TokenInv
    <3>2. CASE t # t0
      BY <3>2, <1>5, <2>1, <2>8, <2>9 DEF ControlInv, TokenInv
    <3> QED
      BY <3>1, <3>2
  <2> QED
    BY <2>6, <2>7, <2>10 DEF ControlInv
<1>7. CASE ~Acceptable(u.token, u.user)
  <2>1. /\ poll' = [poll EXCEPT ![p].pc = "reply"]
        /\ UNCHANGED <<sent, dropped, offset, issued, pending, resets>>
    BY <1>5, <1>7 DEF Confirm, Replying
  <2> QED
    BY <2>1, MoveKeeps
<1> QED
  BY <1>6, <1>7

\* A reset spends the token its poll alone carries.
LEMMA ResetKeeps ==
    ASSUME ControlInv, NEW p \in Polls, Reset(p)
    PROVE  ControlInv'
<1> DEFINE t0 == poll[p].token
<1>1. poll[p] \in Polling /\ poll[p].pc = "resetting"
  BY DEF Reset, ControlInv, ControlTypes
<1>2. PICK new \in {AtRest, [poll[p] EXCEPT !.pc = "reply", !.token = NoToken]} :
          poll' = [poll EXCEPT ![p] = new]
  BY DEF Reset
<1>a. /\ resets' = [resets EXCEPT ![t0] = resets[t0] + 1]
      /\ UNCHANGED <<sent, dropped, offset, issued, pending>>
  BY DEF Reset
<1>3. /\ new \in Polling /\ new.pc \in {"idle", "reply"}
      /\ new.batch = <<>> \/ new.batch = poll[p].batch
  <2>1. CASE new = AtRest
    BY <2>1, RestType
  <2>2. CASE new = [poll[p] EXCEPT !.pc = "reply", !.token = NoToken]
    BY <1>1, <2>2 DEF Polling
  <2> QED
    BY <2>1, <2>2
<1>4. Carries(p, t0)
  BY <1>1 DEF Carries
<1> HIDE DEF t0
<1>5. ControlTypes'
  <2>1. resets' \in [Tokens -> Nat]
    <3>1. \A t \in Tokens : resets[t] + 1 \in Nat
      BY DEF ControlInv, ControlTypes
    <3>2. CASE t0 \in Tokens
      BY <3>1, <3>2, <1>a DEF ControlInv, ControlTypes
    <3>3. CASE t0 \notin Tokens
      BY <3>3, <1>a DEF ControlInv, ControlTypes
    <3> QED
      BY <3>2, <3>3
  <2> QED
    BY <2>1, <1>2, <1>a, <1>3 DEF ControlInv, ControlTypes
<1>6. BatchesKnown'
  BY <1>2, <1>a, <1>3 DEF ControlInv, ControlTypes, BatchesKnown
<1>7. \A q \in Polls, t \in Tokens : Carries(q, t)' => Carries(q, t) /\ q # p
  BY <1>2, <1>3 DEF Carries, ControlInv, ControlTypes
<1>8. \A t \in Tokens : Confirmed(t)' <=> Confirmed(t)
  BY <1>a DEF Confirmed
<1>9. ASSUME NEW t \in Tokens PROVE TokenInv(t)'
  <2>1. CASE t = t0
    <3>1. resets'[t] = 1 /\ Confirmed(t) /\ \A q \in Polls : ~Carries(q, t)'
      BY <2>1, <1>a, <1>4, <1>7 DEF ControlInv, TokenInv, ControlTypes
    <3>2. t \notin pending /\ ~(t > Len(issued))
      BY <2>1, <1>4 DEF ControlInv, TokenInv
    <3> QED
      BY <3>1, <3>2, <1>a, <1>8 DEF TokenInv
  <2>2. CASE t # t0
    <3>1. resets'[t] = resets[t]
      BY <2>2, <1>a DEF ControlInv, ControlTypes
    <3> QED
      BY <3>1, <1>a, <1>7, <1>8 DEF ControlInv, TokenInv
  <2> QED
    BY <2>1, <2>2
<1> QED
  BY <1>5, <1>6, <1>9 DEF ControlInv

-------------------------------------------------------------------------------
(* The theorem *)

\* Every step keeps each token in one place.
LEMMA ControlNext == ControlInv /\ [Next]_vars => ControlInv'
<1> SUFFICES ASSUME ControlInv, [Next]_vars PROVE ControlInv'
  OBVIOUS
<1>0. \A p \in Polls : poll[p] \in Polling
  BY DEF ControlInv, ControlTypes
<1>1. ASSUME NEW update \in Messages, Send(update) PROVE ControlInv'
  <2>1. /\ sent' = Append(sent, update) /\ update \in Update /\ sent \in Seq(Update)
        /\ UNCHANGED <<dropped, offset, poll, issued, pending, resets>>
    BY <1>1, TelegramAssumption DEF Send, ControlInv, ControlTypes
  <2>2. /\ sent' \in Seq(Update) /\ DOMAIN sent \subseteq DOMAIN sent'
        /\ \A i \in DOMAIN sent : sent'[i] = sent[i]
    BY <2>1
  <2>3. ControlTypes'
    BY <2>1, <2>2 DEF ControlInv, ControlTypes
  <2>4. BatchesKnown'
    BY <2>1, <2>2 DEF ControlInv, BatchesKnown
  <2>5. \A t \in Tokens : Confirmed(t) => Confirmed(t)'
    BY <2>1, <2>2 DEF Confirmed
  <2>6. \A q \in Polls, t \in Tokens : Carries(q, t)' <=> Carries(q, t)
    BY <2>1 DEF Carries
  <2> QED
    BY <2>1, <2>3, <2>4, <2>5, <2>6 DEF ControlInv, TokenInv
<1>2. CASE UNCHANGED <<sent, dropped, offset, poll, issued, pending, resets>>
  BY <1>2 DEF ControlInv, ControlTypes, BatchesKnown, TokenInv, Carries, Confirmed
<1>3. ASSUME NEW p \in Polls, GetUpdates(p) PROVE ControlInv'
  <2> DEFINE batch == [i \in 1..(Len(sent) + 1 - offset) |-> offset + i - 1]
  <2>1. /\ batch \in Seq(Nat) /\ batch # <<>>
        /\ \A k \in DOMAIN batch : batch[k] \in DOMAIN sent
    BY <1>3, FetchedKnown DEF GetUpdates, ControlInv
  <2>2. Begin(p, batch) /\ UNCHANGED <<sent, issued, pending, resets>>
    BY <1>3 DEF GetUpdates
  <2>3. dropped' \in Nat
    BY <1>3 DEF GetUpdates, ControlInv, ControlTypes
  <2> HIDE DEF batch
  <2> QED
    BY <2>1, <2>2, <2>3, BeginKeeps
<1>4. ASSUME NEW p \in Polls, Replied(p) PROVE ControlInv'
  <2>1. CASE Len(poll[p].batch) > 1
    <3>1. poll[p].batch \in Seq(Nat) /\ \A k \in DOMAIN poll[p].batch : poll[p].batch[k] \in DOMAIN sent
      BY <1>0 DEF Polling, ControlInv, BatchesKnown
    <3>2. /\ Begin(p, Tail(poll[p].batch)) /\ UNCHANGED <<sent, issued, pending, resets>>
          /\ dropped' \in Nat
      BY <1>4, <2>1 DEF Replied, ControlInv, ControlTypes
    <3> QED
      BY <2>1, <3>1, <3>2, TailKnown, BeginKeeps
  <2>2. CASE ~(Len(poll[p].batch) > 1)
    <3>1. poll' = [poll EXCEPT ![p] = AtRest]
          /\ UNCHANGED <<sent, dropped, offset, issued, pending, resets>>
      BY <1>4, <2>2 DEF Replied
    <3>2. ControlTypes' /\ BatchesKnown'
      BY <3>1, RestType DEF ControlInv, ControlTypes, BatchesKnown
    <3>3. \A q \in Polls, t \in Tokens : Carries(q, t)' => Carries(q, t)
      BY <3>1, RestType DEF Carries, ControlInv, ControlTypes
    <3>4. \A t \in Tokens : Confirmed(t) => Confirmed(t)'
      BY <3>1 DEF Confirmed
    <3> QED
      BY <3>1, <3>2, <3>3, <3>4 DEF ControlInv, TokenInv
  <2> QED
    BY <2>1, <2>2
<1>5. ASSUME NEW p \in Polls, SwitchTrading(p) \/ Unauthorized(p) PROVE ControlInv'
  <2>1. /\ poll' = [poll EXCEPT ![p].pc = "reply"]
        /\ UNCHANGED <<sent, dropped, offset, issued, pending, resets>>
    BY <1>5 DEF SwitchTrading, Unauthorized, Replying
  <2> QED
    BY <2>1, MoveKeeps
<1>6. ASSUME NEW p \in Polls, ResetAsksForMutex(p) PROVE ControlInv'
  BY <1>6, MoveKeeps DEF ResetAsksForMutex
<1>7. ASSUME NEW p \in Polls, ResetFails(p) \/ StoreThrows(p) PROVE ControlInv'
  <2>1. poll' = [poll EXCEPT ![p] = AtRest]
        /\ UNCHANGED <<sent, dropped, offset, issued, pending, resets>>
    BY <1>7 DEF ResetFails, StoreThrows
  <2>2. ControlTypes' /\ BatchesKnown'
    BY <2>1, RestType DEF ControlInv, ControlTypes, BatchesKnown
  <2>3. \A q \in Polls, t \in Tokens : Carries(q, t)' => Carries(q, t)
    BY <2>1, RestType DEF Carries, ControlInv, ControlTypes
  <2>4. \A t \in Tokens : Confirmed(t) => Confirmed(t)'
    BY <2>1 DEF Confirmed
  <2> QED
    BY <2>1, <2>2, <2>3, <2>4 DEF ControlInv, TokenInv
<1>8. CASE Crash
  <2>1. /\ poll' = [p \in Polls |-> AtRest] /\ offset' = dropped + 1 /\ pending' = {}
        /\ UNCHANGED <<sent, dropped, issued, resets>>
    BY <1>8 DEF Crash
  <2>2. ControlTypes' /\ BatchesKnown'
    BY <2>1, RestType DEF ControlInv, ControlTypes, BatchesKnown
  <2>3. \A q \in Polls, t \in Tokens : ~Carries(q, t)'
    BY <2>1, RestType DEF Carries
  <2>4. \A t \in Tokens : Confirmed(t) => Confirmed(t)'
    BY <2>1 DEF Confirmed
  <2> QED
    BY <2>1, <2>2, <2>3, <2>4 DEF ControlInv, TokenInv
<1>9. ASSUME \/ CycleAcquires \/ CycleReleases \/ CycleHangs \/ (\E t \in Tokens : TokenExpires(t))
             \/ UNCHANGED vars
      PROVE  UNCHANGED <<sent, dropped, offset, poll, issued, pending, resets>>
  BY <1>9 DEF CycleAcquires, CycleReleases, CycleHangs, TokenExpires, vars
<1> QED
  BY <1>1, <1>2, <1>3, <1>4, <1>5, <1>6, <1>7, <1>8, <1>9, RequestKeeps, ConfirmKeeps,
     ResetKeeps DEF Next, PollStep

\* A token carries at most one breaker reset, and only if the admin it was issued to
\* confirmed it, for any number of overlapping polls, repeated updates and restarts
\* (consumeConfirmationToken of telegramEngine.ts).
THEOREM TokensResetOnce == Spec => []OneResetPerToken
<1>1. ControlInv => OneResetPerToken
  BY DEF ControlInv, TokenInv, Confirmed, OneResetPerToken
<1> QED
  BY <1>1, ControlInit, ControlNext, PTL DEF Spec

-------------------------------------------------------------------------------
(* Types and bounds *)

\* The bounds, and the parts of TypeOK the argument about tokens does without.
Counted ==
    /\ Len(sent) <= MaxUpdates
    /\ dropped <= Len(sent) /\ offset <= Len(sent) + 1
    /\ queue \in Seq(Polls \cup {Cycle})
    /\ autoTrading \in BOOLEAN
    /\ expired \subseteq Tokens
    /\ {handled, lost} \subseteq SUBSET (DOMAIN sent) /\ hung \in BOOLEAN

\* A sequence is one over any set that holds its elements.
LEMMA SeqOver ==
    ASSUME NEW S, NEW T, NEW seq \in Seq(S), \A k \in DOMAIN seq : seq[k] \in T
    PROVE  seq \in Seq(T)
<1>1. Len(seq) \in Nat /\ DOMAIN seq = 1..Len(seq)
  OBVIOUS
<1>2. seq = [k \in 1..Len(seq) |-> seq[k]]
  OBVIOUS
<1>3. [k \in 1..Len(seq) |-> seq[k]] \in Seq(T)
  BY <1>1, IsASeq
<1> QED
  BY <1>2, <1>3

\* Handling an update moves the offset at most past the updates sent.
LEMMA BeginCounts ==
    ASSUME ControlInv, Counted, NEW p \in Polls, NEW batch \in Seq(Nat), batch # <<>>,
           \A k \in DOMAIN batch : batch[k] \in DOMAIN sent,
           Begin(p, batch)
    PROVE  offset' <= Len(sent) + 1 /\ queue' \in Seq(Polls \cup {Cycle})
<1>1. Head(batch) = batch[1] /\ 1 \in DOMAIN batch
  OBVIOUS
<1>2. Head(batch) \in 1..Len(sent) /\ Len(sent) \in Nat /\ offset \in Nat
  BY <1>1 DEF ControlInv, ControlTypes
<1>3. offset' <= Len(sent) + 1
  BY <1>2 DEF Begin, NextOffset, Counted
<1>4. queue' \in Seq(Polls \cup {Cycle})
  BY DEF Begin, Counted
<1> QED
  BY <1>3, <1>4

\* Only what was sent is counted, dropped or handled.
LEMMA CountedNext == ControlInv /\ Counted /\ [Next]_vars => Counted'
<1> SUFFICES ASSUME ControlInv, Counted, [Next]_vars PROVE Counted'
  OBVIOUS
<1>0. /\ Len(sent) \in Nat /\ dropped \in Nat /\ offset \in Nat \ {0} /\ sent \in Seq(Update)
      /\ DOMAIN sent = 1..Len(sent) /\ MaxUpdates \in Nat
  BY TelegramAssumption DEF ControlInv, ControlTypes
<1>a. ASSUME queue # <<>> PROVE Tail(queue) \in Seq(Polls \cup {Cycle})
  BY <1>a DEF Counted
<1>b. ASSUME NEW p \in Polls, poll[p].pc = "command" PROVE Head(poll[p].batch) \in DOMAIN sent
  <2>1. poll[p].batch \in Seq(Nat) /\ poll[p].batch # <<>>
    BY <1>b DEF ControlInv, ControlTypes, BatchesKnown, Polling
  <2>2. Head(poll[p].batch) = poll[p].batch[1] /\ 1 \in DOMAIN poll[p].batch
    BY <2>1
  <2> QED
    BY <2>2 DEF ControlInv, BatchesKnown
<1>1. ASSUME NEW update \in Messages, Send(update) PROVE Counted'
  <2>1. /\ sent' = Append(sent, update) /\ Len(sent) < MaxUpdates
        /\ UNCHANGED <<dropped, offset, queue, autoTrading, expired, handled, lost, hung>>
    BY <1>1 DEF Send
  <2>2. Len(sent') = Len(sent) + 1 /\ DOMAIN sent' = 1..(Len(sent) + 1)
    BY <1>0, <2>1
  <2>3. {handled', lost'} \subseteq SUBSET (DOMAIN sent')
    BY <1>0, <2>1, <2>2 DEF Counted
  <2> QED
    BY <1>0, <2>1, <2>2, <2>3 DEF Counted
<1>2. CASE CycleAcquires
  BY <1>2 DEF CycleAcquires, Counted
<1>d. CASE CycleHangs
  <2>1. UNCHANGED <<sent, dropped, offset, queue, autoTrading, expired, handled, lost>>
        /\ hung' = TRUE
    BY <1>d DEF CycleHangs
  <2> QED
    BY <2>1 DEF Counted
<1>3. CASE CycleReleases
  BY <1>3, <1>a DEF CycleReleases, CycleHolds, Counted
<1>4. ASSUME NEW p \in Polls, GetUpdates(p) PROVE Counted'
  <2> DEFINE batch == [i \in 1..(Len(sent) + 1 - offset) |-> offset + i - 1]
  <2>1. /\ batch \in Seq(Nat) /\ batch # <<>>
        /\ \A k \in DOMAIN batch : batch[k] \in DOMAIN sent
    BY <1>4, FetchedKnown DEF GetUpdates, ControlInv
  <2>2. Begin(p, batch) /\ UNCHANGED <<sent, autoTrading, expired, handled, lost, hung>>
    BY <1>4 DEF GetUpdates
  <2>3. dropped' <= Len(sent)
    BY <1>0, <1>4 DEF GetUpdates, Counted
  <2> HIDE DEF batch
  <2>4. offset' <= Len(sent) + 1 /\ queue' \in Seq(Polls \cup {Cycle})
    BY <2>1, <2>2, BeginCounts
  <2> QED
    BY <2>2, <2>3, <2>4 DEF Counted
<1>5. ASSUME NEW p \in Polls, Replied(p) PROVE Counted'
  <2>0. UNCHANGED <<sent, dropped, autoTrading, expired, handled, lost, hung>>
    BY <1>5 DEF Replied
  <2>1. offset' <= Len(sent) + 1 /\ queue' \in Seq(Polls \cup {Cycle})
    <3>1. CASE Len(poll[p].batch) > 1
      <4>1. /\ poll[p].batch \in Seq(Nat)
            /\ \A k \in DOMAIN poll[p].batch : poll[p].batch[k] \in DOMAIN sent
        BY DEF Polling, ControlInv, ControlTypes, BatchesKnown
      <4>2. Begin(p, Tail(poll[p].batch))
        BY <1>5, <3>1 DEF Replied
      <4>3. /\ Tail(poll[p].batch) \in Seq(Nat) /\ Tail(poll[p].batch) # <<>>
            /\ \A k \in DOMAIN Tail(poll[p].batch) : Tail(poll[p].batch)[k] \in DOMAIN sent
        BY <3>1, <4>1, TailKnown
      <4> QED
        BY <4>2, <4>3, BeginCounts
    <3>2. CASE ~(Len(poll[p].batch) > 1)
      BY <1>5, <3>2 DEF Replied, Counted
    <3> QED
      BY <3>1, <3>2
  <2> QED
    BY <2>0, <2>1 DEF Counted
<1>6. ASSUME NEW p \in Polls, NEW command, Locked(p, command) \/ Unauthorized(p)
      PROVE  queue' \in Seq(Polls \cup {Cycle}) /\ handled' \subseteq DOMAIN sent
  BY <1>6, <1>a, <1>b DEF Locked, Unauthorized, Holds, Counted
<1>7. ASSUME NEW p \in Polls, SwitchTrading(p) \/ RequestReset(p) \/ Confirm(p) \/ Unauthorized(p)
      PROVE  Counted'
  <2>1. queue' \in Seq(Polls \cup {Cycle}) /\ handled' \subseteq DOMAIN sent
    BY <1>6, <1>7 DEF SwitchTrading, RequestReset, Confirm
  <2>2. UNCHANGED <<sent, dropped, offset, expired, lost, hung>> /\ autoTrading' \in BOOLEAN
    BY <1>7 DEF SwitchTrading, RequestReset, Confirm, Unauthorized, Counted
  <2> QED
    BY <2>1, <2>2 DEF Counted
<1>c. ASSUME NEW p \in Polls, StoreThrows(p) PROVE Counted'
  <2>1. queue' \in Seq(Polls \cup {Cycle}) /\ lost' \subseteq DOMAIN sent
    BY <1>c, <1>a, <1>b DEF StoreThrows, Holds, Counted
  <2>2. UNCHANGED <<sent, dropped, offset, autoTrading, expired, handled, hung>>
    BY <1>c DEF StoreThrows
  <2> QED
    BY <2>1, <2>2 DEF Counted
<1>8. ASSUME NEW p \in Polls, ResetAsksForMutex(p) PROVE Counted'
  BY <1>8 DEF ResetAsksForMutex, Counted
<1>9. ASSUME NEW p \in Polls, ResetFails(p) \/ Reset(p) PROVE Counted'
  BY <1>9, <1>a DEF ResetFails, Reset, Holds, Counted
<1>10. ASSUME NEW t \in Tokens, TokenExpires(t) PROVE Counted'
  BY <1>10 DEF TokenExpires, Counted
<1>11. CASE Crash
  <2>1. UNCHANGED <<sent, dropped, autoTrading, expired, handled, lost>>
        /\ offset' = dropped + 1 /\ queue' = <<>> /\ hung' = FALSE
    BY <1>11 DEF Crash
  <2>2. offset' <= Len(sent) + 1 /\ queue' \in Seq(Polls \cup {Cycle})
    BY <1>0, <2>1 DEF Counted
  <2> QED
    BY <2>1, <2>2 DEF Counted
<1>12. CASE UNCHANGED vars
  BY <1>12 DEF vars, Counted
<1> QED
  BY <1>1, <1>2, <1>3, <1>4, <1>5, <1>7, <1>c, <1>d, <1>8, <1>9, <1>10, <1>11, <1>12
  DEF Next, PollStep

\* Every variable keeps its type: the offset never passes the updates sent, and only
\* updates that were sent are handled (startTelegramRuntime).
THEOREM TypesCorrect == Spec => []TypeOK
<1>1. Init => Counted
  <2> SUFFICES ASSUME Init PROVE Counted
    OBVIOUS
  <2>1. /\ sent = <<>> /\ dropped = 0 /\ offset = 1 /\ queue = <<>> /\ autoTrading = FALSE
        /\ expired = {} /\ handled = {} /\ lost = {} /\ hung = FALSE
    BY DEF Init
  <2>2. Len(sent) = 0 /\ MaxUpdates \in Nat
    BY <2>1, TelegramAssumption
  <2>3. queue \in Seq(Polls \cup {Cycle})
    BY <2>1
  <2>4. /\ Len(sent) <= MaxUpdates
        /\ dropped <= Len(sent) /\ offset <= Len(sent) + 1
    BY <2>1, <2>2
  <2>5. autoTrading \in BOOLEAN /\ expired \subseteq Tokens
        /\ {handled, lost} \subseteq SUBSET (DOMAIN sent) /\ hung \in BOOLEAN
    BY <2>1
  <2> QED
    BY <2>3, <2>4, <2>5 DEF Counted
<1>2. ControlInv /\ Counted => TypeOK
  <2> SUFFICES ASSUME ControlInv, Counted PROVE TypeOK
    OBVIOUS
  <2>1. /\ Len(sent) \in Nat /\ DOMAIN sent = 1..Len(sent) /\ MaxUpdates \in Nat
        /\ DOMAIN sent \subseteq 1..MaxUpdates
    BY TelegramAssumption DEF ControlInv, ControlTypes, Counted
  <2>2. ASSUME NEW p \in Polls
        PROVE  poll[p] \in [pc : {"idle", "command", "reset", "resetting", "reply"},
                            batch : Seq(1..MaxUpdates), token : Tokens \cup {NoToken}]
    <3>1. poll[p] \in Polling
      BY DEF ControlInv, ControlTypes
    <3>2. \A k \in DOMAIN poll[p].batch : poll[p].batch[k] \in 1..MaxUpdates
      BY <2>1 DEF ControlInv, BatchesKnown
    <3>3. poll[p].batch \in Seq(1..MaxUpdates)
      <4>1. poll[p].batch \in Seq(Nat)
        BY <3>1 DEF Polling
      <4> QED
        BY <3>2, <4>1, SeqOver
    <3> QED
      BY <3>1, <3>3 DEF Polling
  <2>3. dropped \in 0..MaxUpdates /\ offset \in 1..(MaxUpdates + 1)
    BY <2>1 DEF ControlInv, ControlTypes, Counted
  <2>4. {handled, lost} \subseteq SUBSET (1..MaxUpdates)
    BY <2>1 DEF Counted
  <2> QED
    BY <2>2, <2>3, <2>4 DEF ControlInv, ControlTypes, Counted, TypeOK
<1> QED
  BY <1>1, <1>2, ControlInit, ControlNext, CountedNext, PTL DEF Spec
===============================================================================
