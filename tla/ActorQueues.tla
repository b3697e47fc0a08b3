---------------------------- MODULE ActorQueues ----------------------------
(***************************************************************************)
(* What an actor thread pool promises: every actor has a queue of its own, *)
(* its tasks run one at a time and in the order they were submitted, and a *)
(* task is lost only once the pool is shut down.                           *)
(***************************************************************************)
EXTENDS Sequences

CONSTANTS Actors, Tasks, None

VARIABLES
  pending,  \* actor -> the tasks submitted and not started
  current,  \* actor -> the task that runs, or None
  stopped   \* the pool was shut down

queues == <<pending, current, stopped>>

Init ==
  /\ pending = [a \in Actors |-> << >>]
  /\ current = [a \in Actors |-> None]
  /\ stopped = FALSE

Submit(a, t) ==
  /\ pending' = [pending EXCEPT ![a] = Append(@, t)]
  /\ UNCHANGED <<current, stopped>>

Start(a) ==
  /\ current[a] = None
  /\ pending[a] # << >>
  /\ current' = [current EXCEPT ![a] = Head(pending[a])]
  /\ pending' = [pending EXCEPT ![a] = Tail(@)]
  /\ UNCHANGED stopped

End(a) ==
  /\ current[a] # None
  /\ current' = [current EXCEPT ![a] = None]
  /\ UNCHANGED <<pending, stopped>>

\* Shutting down, and everything after it, may drop the first task of a queue.
Drop(S) == pending' = [a \in Actors |-> IF a \in S THEN Tail(pending[a]) ELSE pending[a]]

Stop ==
  /\ stopped' = TRUE
  /\ \E S \in SUBSET {a \in Actors : pending[a] # << >>} : Drop(S)
  /\ UNCHANGED current

Next ==
  \/ \E a \in Actors : (\E t \in Tasks : Submit(a, t)) \/ Start(a) \/ End(a)
  \/ Stop

Spec == Init /\ [][Next]_queues
=============================================================================
