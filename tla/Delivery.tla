------------------------------ MODULE Delivery ------------------------------
(***************************************************************************)
(* How outcomes and events reach the owner of a session (session/mod.rs):  *)
(* the state under the lock, the condition variable, the Pendings, and the *)
(* calls of the one thread that holds the Session, which blocks in them.   *)
(* A Pending may be dropped by any thread.                                 *)
(***************************************************************************)
EXTENDS Naturals, Sequences, FiniteSets, Functions, FiniteSetsExt

CONSTANTS
    Ids,        \* ids of the commands that are accepted, from 1
    EventCap    \* 256

ASSUME IdsAssumption == IsFiniteSet(Ids) /\ Ids = 1 .. Cardinality(Ids)
ASSUME EventCapAssumption == EventCap \in Nat \ {0}

VARIABLES
    accepted,   \* how many commands the coordinator accepted
    open,       \* those it has not completed
    results,    \* outcomes nobody took yet
    abandoned,  \* commands whose outcome nobody will take
    events,     \* events nobody took yet
    ended,      \* set last of all
    pending,    \* each Pending: none, held, consumed or dropped
    caller      \* where the owner of the session is, and what it waits for

deliveryVars == <<accepted, open, results, abandoned, events, ended, pending, caller>>

AnEvent == 0    \* what receive_event() waits for

At(pc, target) == [pc |-> pc, target |-> target]

DeliveryInit ==
    /\ accepted = 0 /\ open = {} /\ results = {} /\ abandoned = {}
    /\ events = << >> /\ ended = FALSE
    /\ pending = [id \in Ids |-> "none"]
    /\ caller = At("idle", AnEvent)

-----------------------------------------------------------------------------
(* The coordinator's side; each change notifies under the lock. *)

\* notify_all() wakes the one who sleeps.
Notified == [caller EXCEPT !.pc = IF @ = "asleep" THEN "try" ELSE @]

\* An internal command, of a replay, has no Pending.
Accept(internal) ==
    LET id == accepted + 1 IN
    /\ id \in Ids
    /\ accepted' = id
    /\ open' = open \cup {id}
    /\ IF internal
       THEN /\ abandoned' = abandoned \cup {id}
            /\ UNCHANGED <<pending, caller>>
       ELSE /\ caller.pc = "submitting"
            /\ pending' = [pending EXCEPT ![id] = "held"]
            /\ caller' = At("idle", AnEvent)
            /\ UNCHANGED abandoned
    /\ UNCHANGED <<results, events, ended>>

\* complete() forgets the mark, or keeps the outcome.
Settled(id) ==
    IF id \in abandoned
    THEN abandoned' = abandoned \ {id} /\ UNCHANGED results
    ELSE results' = results \cup {id} /\ UNCHANGED abandoned

Complete(id) ==
    /\ id \in open
    /\ open' = open \ {id}
    /\ Settled(id)
    /\ caller' = Notified
    /\ UNCHANGED <<accepted, events, ended, pending>>

-----------------------------------------------------------------------------
(* The owner's side *)

CallerOnly == UNCHANGED <<accepted, open, results, abandoned, events, ended, pending>>

\* submit() sends the operation and blocks for the reply.
Submit ==
    /\ caller.pc = "idle" /\ ~ended
    /\ caller' = At("submitting", AnEvent)
    /\ CallerOnly

\* The coordinator refuses, or is gone.
Refused ==
    /\ caller.pc = "submitting"
    /\ caller' = At("idle", AnEvent)
    /\ CallerOnly

\* receive(pending), or receive_event().
Receive(target) ==
    /\ caller.pc = "idle"
    /\ target # AnEvent => pending[target] = "held"
    /\ caller' = At("try", target)
    /\ CallerOnly

IsThere(target) == IF target = AnEvent THEN events # << >> ELSE target \in results

\* try_receive() and try_receive_event(), under one lock.
Try ==
    /\ caller.pc = "try"
    /\ LET target == caller.target
           takes  == IsThere(target)
       IN  /\ caller' = IF takes \/ ended THEN At("idle", AnEvent) ELSE At("test", target)
           /\ pending' = IF target # AnEvent /\ (takes \/ ended)
                         THEN [pending EXCEPT ![target] = "consumed"] ELSE pending
           /\ results' = results \ {target}
           /\ events' = IF target = AnEvent /\ takes THEN Tail(events) ELSE events
    /\ UNCHANGED <<accepted, open, abandoned, ended>>

\* Mutation of MaySleep: what try_receive() saw is not looked at again.
MaySleepAtOnce(target) == TRUE

MaySleep(target) == ~ended /\ ~IsThere(target)

\* The lock is taken anew, and given up while it sleeps.
Test ==
    /\ caller.pc = "test"
    /\ caller' = [caller EXCEPT !.pc = IF MaySleep(caller.target) THEN "asleep" ELSE "try"]
    /\ CallerOnly

\* A condition variable may wake without a reason.
WakeSpuriously ==
    /\ caller.pc = "asleep"
    /\ caller' = [caller EXCEPT !.pc = "try"]
    /\ CallerOnly

\* Drop for Pending; receive() owns the one it waits for.
DropPending(id) ==
    /\ pending[id] = "held" /\ caller.target # id
    /\ pending' = [pending EXCEPT ![id] = "dropped"]
    /\ results' = results \ {id}
    /\ abandoned' = IF id \notin results /\ ~ended THEN abandoned \cup {id} ELSE abandoned
    /\ UNCHANGED <<accepted, open, events, ended, caller>>

DeliveryStep ==
    \/ Submit \/ Try \/ Test \/ WakeSpuriously
    \/ \E target \in Ids \cup {AnEvent} : Receive(target)
    \/ \E id \in Ids : DropPending(id)

-----------------------------------------------------------------------------
(* Properties *)

(***************************************************************************)
(* No outcome is kept for nobody, and nobody is kept from an outcome: each *)
(* result has the Pending that will take it, only open commands are marked *)
(* as abandoned, and nothing lies there for an owner that sleeps.  A drop  *)
(* of a Pending, complete() and the two looks of receive() at the state    *)
(* (session/mod.rs:83-92, 259-272) come in any order.                      *)
(***************************************************************************)
PendingsAreServed ==
    /\ \A id \in results : pending[id] = "held"
    /\ ~ended => abandoned \subseteq open
    /\ caller.pc = "asleep" => ~ended /\ ~IsThere(caller.target)
=============================================================================
