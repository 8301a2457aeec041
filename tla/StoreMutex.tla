------------------------------- MODULE StoreMutex -------------------------------
(***************************************************************************)
(* What the mutex of appStore.ts promises to those who share the           *)
(* configuration, whatever they are: they are served in the order in which *)
(* they asked; one of them at a time stays inside with the value it read   *)
(* when it came in; and a value is written by one who finds nobody inside. *)
(* A restart empties the queue and keeps the stored value.                 *)
(***************************************************************************)
EXTENDS Naturals, Sequences

CONSTANTS Users, Values

VARIABLES
    value,    \* the stored value
    holder,   \* who is inside, or Nobody
    waiting,  \* who asked and is not inside yet, in order
    read      \* the value the holder works on, or Nothing

storeVars == <<value, holder, waiting, read>>

Nobody == "nobody"
Nothing == "nothing"

StoreInit ==
    /\ value \in Values
    /\ holder = Nobody
    /\ waiting = <<>>
    /\ read = Nothing

Ask(user) ==
    /\ user # holder /\ \A i \in DOMAIN waiting : waiting[i] # user
    /\ waiting' = Append(waiting, user)
    /\ UNCHANGED <<value, holder, read>>

Enter ==
    /\ holder = Nobody /\ waiting # <<>>
    /\ holder' = Head(waiting)
    /\ waiting' = Tail(waiting)
    /\ read' = value
    /\ UNCHANGED value

Leave ==
    /\ holder # Nobody
    /\ holder' = Nobody
    /\ read' = Nothing
    /\ UNCHANGED <<value, waiting>>

\* updateConfig: in, read, written and out again in one go
Write(new) ==
    /\ holder = Nobody /\ waiting # <<>>
    /\ value' = new
    /\ waiting' = Tail(waiting)
    /\ UNCHANGED <<holder, read>>

StoreRestart ==
    /\ holder' = Nobody
    /\ waiting' = <<>>
    /\ read' = Nothing
    /\ UNCHANGED value

StoreNext ==
    \/ (\E user \in Users : Ask(user))
    \/ Enter \/ Leave \/ (\E new \in Values : Write(new))
    \/ StoreRestart

StoreSpec == StoreInit /\ [][StoreNext]_storeVars
================================================================================
