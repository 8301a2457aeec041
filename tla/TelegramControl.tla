---------------------------- MODULE TelegramControl ----------------------------
(***************************************************************************)
(* The Telegram runtime: a timer polls for updates without waiting for the *)
(* poll before, so several polls may be handling updates at once, each one *)
(* update after the other.  A command takes the appStore mutex, in FIFO    *)
(* order with the sync cycle; dangerous ones are confirmed by a token.     *)
(*                                                                         *)
(* Telegram is external: it keeps the updates in order and drops those     *)
(* below the offset of a request.  A request is answered at once when      *)
(* there are updates, so request and answer are one step.                  *)
(***************************************************************************)
EXTENDS Naturals, Sequences, FiniteSets

CONSTANTS
    Admins, Operators, \* user ids by role
    Messages,          \* the updates that may be sent
    Polls,             \* concurrent runs of the poll timer
    MaxUpdates,        \* updates the users send (bound)
    MaxTokens,         \* confirmation tokens issued (bound)
    MaxCrashes         \* process deaths (bound)

Users == Admins \cup Operators
Tokens == 1..MaxTokens
Cycle == "cycle"
Commands == {"/pause", "/resume", "/breaker_reset", "/confirm"}
NoToken == 0
Update == [user : Users, command : Commands, token : Tokens \cup {NoToken}]
AtRest == [pc |-> "idle", batch |-> <<>>, token |-> NoToken]

ASSUME TelegramAssumption ==
    /\ Admins \cap Operators = {} /\ Messages \subseteq Update
    /\ MaxUpdates \in Nat /\ MaxTokens \in Nat /\ MaxCrashes \in Nat

VARIABLES
    sent,       \* all updates: [user, command, token], update ids are positions
    dropped,    \* Telegram has dropped the updates up to this one
    offset,     \* in memory: the next update asked for
    poll,       \* poll -> where it is and the updates it still handles
    queue,      \* the mutex: its holder at the head, then who waits
    autoTrading,
    issued,     \* tokens -> the user of the request each was made for, in order
    pending,    \* pendingTelegramConfirmations
    expired,    \* tokens older than their five minutes
    handled,    \* history: updates handled to the end of their locked part
    lost,       \* history: updates whose locked part ended in a throw of the store
    resets,     \* history: token -> breaker resets executed on it
    hung,       \* the cycle that holds the mutex waits for an answer that never comes
    crashes

vars == <<sent, dropped, offset, poll, queue, autoTrading, issued, pending, expired, handled,
          lost, resets, hung, crashes>>

Init ==
    /\ sent = <<>> /\ dropped = 0 /\ offset = 1
    /\ poll = [p \in Polls |-> AtRest]
    /\ queue = <<>>
    /\ autoTrading = FALSE
    /\ issued = <<>> /\ pending = {} /\ expired = {}
    /\ handled = {} /\ lost = {} /\ hung = FALSE /\ resets = [t \in Tokens |-> 0]
    /\ crashes = 0

\* authorizeTelegramCommand: /confirm and /breaker_reset are the admin's.
Authorized(u) == u.user \in Admins \/ u.command \in {"/pause", "/resume"}

-------------------------------------------------------------------------------
(* Users, and the sync cycle as the other user of the mutex *)

Send(update) ==
    /\ Len(sent) < MaxUpdates
    /\ update.token \in {NoToken} \cup DOMAIN issued  \* told in a reply
    /\ sent' = Append(sent, update)
    /\ UNCHANGED <<dropped, offset, poll, queue, autoTrading, issued, pending, expired, handled,
                   resets, lost, hung, crashes>>

CycleAcquires ==
    /\ Cycle \notin {queue[i] : i \in DOMAIN queue}
    /\ queue' = Append(queue, Cycle)
    /\ UNCHANGED <<sent, dropped, offset, poll, autoTrading, issued, pending, expired, handled,
                   resets, lost, hung, crashes>>

CycleHolds == queue # <<>> /\ Head(queue) = Cycle

CycleReleases ==
    /\ CycleHolds /\ ~hung
    /\ queue' = Tail(queue)
    /\ UNCHANGED <<sent, dropped, offset, poll, autoTrading, issued, pending, expired, handled,
                   resets, lost, hung, crashes>>

\* An order poll under the mutex has no timeout.
CycleHangs ==
    /\ CycleHolds /\ ~hung /\ hung' = TRUE
    /\ UNCHANGED <<sent, dropped, offset, poll, queue, autoTrading, issued, pending, expired,
                   handled, resets, lost, crashes>>

-------------------------------------------------------------------------------
(* startTelegramRuntime *)

\* mutant of the next operator: every returned update counts as begun
WholeBatch(batch) == batch[Len(batch)] + 1

\* The offset moves past an update when its handling begins, never back.
NextOffset(batch) == IF Head(batch) + 1 > offset THEN Head(batch) + 1 ELSE offset

\* The first update of what is left: handleTelegramCommand asks for the mutex at once.
Begin(p, batch) ==
    /\ offset' = NextOffset(batch)
    /\ queue' = Append(queue, p)
    /\ poll' = [poll EXCEPT ![p] = [AtRest EXCEPT !.pc = "command", !.batch = batch]]

\* getUpdates: what was asked for before is dropped, what came since is returned.
GetUpdates(p) ==
    /\ poll[p].pc = "idle" /\ offset <= Len(sent)
    /\ dropped' = IF offset - 1 > dropped THEN offset - 1 ELSE dropped
    /\ Begin(p, [i \in 1..(Len(sent) + 1 - offset) |-> offset + i - 1])
    /\ UNCHANGED <<sent, autoTrading, issued, pending, expired, handled, resets,
                   lost, hung, crashes>>

\* The replies of an update are sent: the next of the batch, or the end of the poll.
Replied(p) ==
    /\ poll[p].pc = "reply"
    /\ IF Len(poll[p].batch) > 1 THEN Begin(p, Tail(poll[p].batch))
       ELSE poll' = [poll EXCEPT ![p] = AtRest] /\ UNCHANGED <<offset, queue>>
    /\ UNCHANGED <<sent, dropped, autoTrading, issued, pending, expired, handled, resets,
                   lost, hung, crashes>>

-------------------------------------------------------------------------------
(* handleTelegramCommand *)

Holds(p) == queue # <<>> /\ Head(queue) = p

\* The locked part of a command is one synchronous step; it ends with the release.
Locked(p, command) ==
    /\ poll[p].pc = "command" /\ Holds(p)
    /\ sent[Head(poll[p].batch)].command = command
    /\ Authorized(sent[Head(poll[p].batch)])
    /\ queue' = Tail(queue)
    /\ handled' = handled \cup {Head(poll[p].batch)}

\* The replies are sent after the release, then the poll goes on with its batch.
Replying(p) == poll' = [poll EXCEPT ![p].pc = "reply"]

SwitchTrading(p) ==
    /\ Locked(p, "/pause") \/ Locked(p, "/resume")
    /\ autoTrading' = (sent[Head(poll[p].batch)].command = "/resume")
    /\ Replying(p)
    /\ UNCHANGED <<sent, dropped, offset, issued, pending, expired, resets, lost,
                   hung, crashes>>

\* createConfirmationToken for the user, told in the reply.  A token past the bound
\* is one nobody confirms.
RequestReset(p) ==
    /\ Locked(p, "/breaker_reset")
    /\ IF Len(issued) < MaxTokens
       THEN /\ issued' = Append(issued, sent[Head(poll[p].batch)].user)
            /\ pending' = pending \cup {Len(issued) + 1}
       ELSE UNCHANGED <<issued, pending>>
    /\ Replying(p)
    /\ UNCHANGED <<sent, dropped, offset, autoTrading, expired, resets, lost, hung, crashes>>

\* consumeConfirmationToken: known, of this user, not expired.  A token that was
\* consumed is not pending any more.
Acceptable(token, user) ==
    token \in pending /\ issued[token] = user /\ token \notin expired

\* mutant of the next operator: an accepted token stays
StillPending(token) == pending

PendingAfter(token) == pending \ {token}

\* The reset itself runs after the release and takes the mutex again.
Confirm(p) ==
    LET u == sent[Head(poll[p].batch)] IN
    /\ Locked(p, "/confirm")
    /\ IF Acceptable(u.token, u.user)
       THEN /\ pending' = PendingAfter(u.token)
            /\ poll' = [poll EXCEPT ![p].pc = "reset", ![p].token = u.token]
       ELSE Replying(p) /\ UNCHANGED pending
    /\ UNCHANGED <<sent, dropped, offset, autoTrading, issued, expired, resets, lost, hung,
                   crashes>>

Unauthorized(p) ==
    /\ poll[p].pc = "command" /\ Holds(p)
    /\ ~Authorized(sent[Head(poll[p].batch)])
    /\ queue' = Tail(queue)
    /\ handled' = handled \cup {Head(poll[p].batch)}
    /\ Replying(p)
    /\ UNCHANGED <<sent, dropped, offset, autoTrading, issued, pending, expired, resets, lost,
                   hung, crashes>>

\* The audit event or the configuration cannot be stored: the release, then the end of the
\* whole poll.  The offset has moved past this update, not past those left of the batch.
StoreThrows(p) ==
    /\ poll[p].pc = "command" /\ Holds(p)
    /\ queue' = Tail(queue)
    /\ lost' = lost \cup {Head(poll[p].batch)}
    /\ poll' = [poll EXCEPT ![p] = AtRest]
    /\ UNCHANGED <<sent, dropped, offset, autoTrading, issued, pending, expired, handled,
                   resets, hung, crashes>>

\* performBreakerReset takes the mutex again and reads the account under it ...
ResetAsksForMutex(p) ==
    /\ poll[p].pc = "reset"
    /\ queue' = Append(queue, p)
    /\ poll' = [poll EXCEPT ![p].pc = "resetting"]
    /\ UNCHANGED <<sent, dropped, offset, autoTrading, issued, pending, expired, handled, resets,
                   lost, hung, crashes>>

\* ... and a failed read or store ends the whole poll: what is left of its batch was not
\* begun, so the offset has not moved past it and it is asked for again.
ResetFails(p) ==
    /\ poll[p].pc = "resetting" /\ Holds(p)
    /\ queue' = Tail(queue)
    /\ poll' = [poll EXCEPT ![p] = AtRest]
    /\ UNCHANGED <<sent, dropped, offset, autoTrading, issued, pending, expired, handled, resets,
                   lost, hung, crashes>>

\* Its audit event is written last: a throw there ends the poll after the reset.
Reset(p) ==
    /\ poll[p].pc = "resetting" /\ Holds(p)
    /\ queue' = Tail(queue)
    /\ resets' = [resets EXCEPT ![poll[p].token] = @ + 1]
    /\ \E after \in {AtRest, [poll[p] EXCEPT !.pc = "reply", !.token = NoToken]} :
          poll' = [poll EXCEPT ![p] = after]
    /\ UNCHANGED <<sent, dropped, offset, autoTrading, issued, pending, expired, handled, lost,
                   hung, crashes>>

-------------------------------------------------------------------------------
TokenExpires(t) ==
    /\ t \in pending \ expired
    /\ expired' = expired \cup {t}
    /\ UNCHANGED <<sent, dropped, offset, poll, queue, autoTrading, issued, pending, handled,
                   resets, lost, hung, crashes>>

\* Offset, tokens, polls and waiters are in memory; Telegram returns what it kept.
Crash ==
    /\ crashes < MaxCrashes /\ crashes' = crashes + 1
    /\ offset' = dropped + 1
    /\ poll' = [p \in Polls |-> AtRest]
    /\ queue' = <<>> /\ pending' = {} /\ hung' = FALSE
    /\ UNCHANGED <<sent, dropped, autoTrading, issued, expired, handled, lost, resets>>

PollStep(p) ==
    \/ GetUpdates(p) \/ Replied(p)
    \/ SwitchTrading(p) \/ RequestReset(p) \/ Confirm(p) \/ Unauthorized(p)
    \/ StoreThrows(p)
    \/ ResetAsksForMutex(p) \/ ResetFails(p) \/ Reset(p)

Next ==
    \/ (\E update \in Messages : Send(update))
    \/ CycleAcquires \/ CycleReleases \/ CycleHangs
    \/ (\E p \in Polls : PollStep(p))
    \/ (\E t \in Tokens : TokenExpires(t))
    \/ Crash

Spec == Init /\ [][Next]_vars

\* The timer ticks, the calls of a poll end or time out, and a cycle that does not hang
\* releases the mutex.
FairSpec == /\ Spec /\ WF_vars(CycleReleases)
            /\ \A p \in Polls : WF_vars(PollStep(p))

-------------------------------------------------------------------------------
(* Properties *)

\* Updates, offsets, polls, the queue and the tokens keep their types.
TypeOK ==
    /\ sent \in Seq(Update) /\ dropped \in 0..MaxUpdates /\ offset \in 1..(MaxUpdates + 1)
    /\ poll \in [Polls -> [pc : {"idle", "command", "reset", "resetting", "reply"},
                           batch : Seq(1..MaxUpdates), token : Tokens \cup {NoToken}]]
    /\ queue \in Seq(Polls \cup {Cycle})
    /\ autoTrading \in BOOLEAN
    /\ issued \in Seq(Users) /\ {pending, expired} \subseteq SUBSET Tokens
    /\ {handled, lost} \subseteq SUBSET (1..MaxUpdates) /\ hung \in BOOLEAN
    /\ resets \in [Tokens -> Nat]

\* A confirmation resets the breaker once: however often its update is handled, by
\* overlapping polls or again after a restart, a token carries at most one reset,
\* and only if the admin it was issued to confirmed it (telegramEngine.ts).
OneResetPerToken ==
    \A t \in Tokens : resets[t] > 0 =>
        /\ resets[t] = 1
        /\ issued[t] \in Admins
        /\ \E i \in DOMAIN sent :
              sent[i] = [user |-> issued[t], command |-> "/confirm", token |-> t]

\* While the process lives, and no hung cycle keeps the mutex, every update sent is handled
\* but those the store threw on: a poll that ends in an error, of the store or of a reset,
\* takes none of the rest of its batch with it, through overlapping polls and a mutex held
\* by cycles (startTelegramRuntime).
EveryCommandHandled == []<>(DOMAIN sent \subseteq handled \cup lost \/ hung \/ crashes > 0)

\* When every update was handled and no poll is at work, automatic trading is what
\* the last /pause or /resume asked for.
LastCommandStands ==
    LET switches == {i \in DOMAIN sent : sent[i].command \in {"/pause", "/resume"}} IN
    (/\ switches # {} /\ DOMAIN sent \subseteq handled
     /\ \A p \in Polls : poll[p] = AtRest)
    => \E i \in switches : /\ \A j \in switches : j <= i
                           /\ autoTrading = (sent[i].command = "/resume")
================================================================================
