-------------------------- MODULE ActorThreadPool --------------------------
(***************************************************************************)
(* ActorThreadPool: the pool that runs the tasks the reactor submits for   *)
(* its connections, one at a time for each of them.  An actor is guarded   *)
(* by its own monitor (synchronized (act)), the table of pending queues by *)
(* a read-write lock, and the tasks that may run go through the queue of a *)
(* fixed pool of worker threads.                                           *)
(***************************************************************************)
EXTENDS Integers, Sequences, FiniteSets

CONSTANTS
  Actors,      \* the connection handlers
  Tasks,       \* bound: each task is submitted at most once
  Submitters,  \* the threads that call submit (the reactor has one)
  Workers,     \* the threads of the fixed pool
  None

Threads == Submitters \cup Workers

ASSUME PoolAssumption ==
  /\ Submitters \cap Workers = {}
  /\ None \notin Tasks \cup Threads \cup Actors \cup Seq(Tasks)

VARIABLES
  acts,        \* actor -> its queue of pending tasks, or None
  playingNow,  \* the actors that have a task in the pool
  monitor,     \* actor -> the thread in synchronized (act), or None
  readers,     \* the threads that hold the read lock of actsRWLock
  writer,      \* the thread that holds its write lock, or None
  queue,       \* the work queue of the fixed pool
  stopped,     \* threads.shutdownNow() was called
  at,          \* thread -> the step it makes next
  job,         \* thread -> the task and actor it works on
  submitted,   \* the tasks submitted so far (history)
  done         \* the tasks that have run (history)

table == <<acts, readers, writer>>
history == <<submitted, done>>
vars == <<acts, playingNow, monitor, readers, writer, queue, stopped, at, job,
          submitted, done>>

Jobs == [task : Tasks, act : Actors]

NoJob == [task |-> None, act |-> None]

Act(th) == job[th].act

Goto(th, label) == at' = [at EXCEPT ![th] = label]

Init ==
  /\ acts = [a \in Actors |-> None]
  /\ playingNow = {}
  /\ monitor = [a \in Actors |-> None]
  /\ readers = {}
  /\ writer = None
  /\ queue = << >>
  /\ stopped = FALSE
  /\ at = [th \in Threads |-> "idle"]
  /\ job = [th \in Threads |-> NoJob]
  /\ submitted = {}
  /\ done = {}

-----------------------------------------------------------------------------
\* Leaving synchronized (act) and the call it guards.
Leave(th) ==
  /\ monitor' = [monitor EXCEPT ![Act(th)] = None]
  /\ Goto(th, "idle")
  /\ job' = [job EXCEPT ![th] = NoJob]

\* threads.execute: throws RejectedExecutionException once the pool is shut
\* down, which leaves the call with the task lost and playingNow as it is.
Execute(j) == queue' = IF stopped THEN queue ELSE Append(queue, j)

\* Mutant: the methods are not synchronized.
LockActorMutant(th) ==
  /\ at[th] = "lock"
  /\ Goto(th, IF th \in Submitters THEN "check" ELSE "readLock")
  /\ UNCHANGED <<table, monitor, playingNow, queue, stopped, job, history>>

\* synchronized (act), on entry to submit and to complete.
LockActor(th) ==
  /\ at[th] = "lock"
  /\ monitor[Act(th)] = None
  /\ monitor' = [monitor EXCEPT ![Act(th)] = th]
  /\ Goto(th, IF th \in Submitters THEN "check" ELSE "readLock")
  /\ UNCHANGED <<table, playingNow, queue, stopped, job, history>>

-----------------------------------------------------------------------------
(***************************************************************************)
(* pendingRunnablesOf.                                                     *)
(***************************************************************************)
ReadLock(th) ==
  /\ at[th] = "readLock"
  /\ writer = None
  /\ readers' = readers \cup {th}
  /\ Goto(th, "get")
  /\ UNCHANGED <<acts, writer, playingNow, monitor, queue, stopped, job, history>>

\* Mutant: a new queue is made every time.
GetMutant(th) ==
  /\ at[th] = "get"
  /\ readers' = readers \ {th}
  /\ Goto(th, "writeLock")
  /\ UNCHANGED <<acts, writer, playingNow, monitor, queue, stopped, job, history>>

Get(th) ==
  /\ at[th] = "get"
  /\ readers' = readers \ {th}
  /\ Goto(th, IF acts[Act(th)] = None THEN "writeLock" ELSE "pending")
  /\ UNCHANGED <<acts, writer, playingNow, monitor, queue, stopped, job, history>>

WriteLock(th) ==
  /\ at[th] = "writeLock"
  /\ writer = None /\ readers = {}
  /\ writer' = th
  /\ Goto(th, "put")
  /\ UNCHANGED <<acts, readers, playingNow, monitor, queue, stopped, job, history>>

Put(th) ==
  /\ at[th] = "put"
  /\ acts' = [acts EXCEPT ![Act(th)] = << >>]
  /\ writer' = None
  /\ Goto(th, "pending")
  /\ UNCHANGED <<readers, playingNow, monitor, queue, stopped, job, history>>

PendingRunnablesOf(th) == ReadLock(th) \/ Get(th) \/ WriteLock(th) \/ Put(th)

-----------------------------------------------------------------------------
(***************************************************************************)
(* submit(act, r).                                                         *)
(***************************************************************************)
Submit(s) ==
  /\ at[s] = "idle"
  /\ ~ stopped
  /\ \E j \in Jobs : /\ j.task \notin submitted
                     /\ submitted' = submitted \cup {j.task}
                     /\ job' = [job EXCEPT ![s] = j]
  /\ Goto(s, "lock")
  /\ UNCHANGED <<table, playingNow, monitor, queue, stopped, done>>

\* Mutant: the actor is not marked as playing.
CheckPlayingMutant(s) ==
  /\ at[s] = "check"
  /\ Goto(s, IF Act(s) \in playingNow THEN "readLock" ELSE "execute")
  /\ UNCHANGED <<table, playingNow, monitor, queue, stopped, job, history>>

CheckPlaying(s) ==
  /\ at[s] = "check"
  /\ IF Act(s) \in playingNow
     THEN Goto(s, "readLock") /\ UNCHANGED playingNow
     ELSE Goto(s, "execute") /\ playingNow' = playingNow \cup {Act(s)}
  /\ UNCHANGED <<table, monitor, queue, stopped, job, history>>

ExecuteFirst(s) ==
  /\ at[s] = "execute"
  /\ Execute(job[s])
  /\ Leave(s)
  /\ UNCHANGED <<table, playingNow, stopped, history>>

AddPending(s) ==
  /\ s \in Submitters
  /\ at[s] = "pending"
  /\ acts' = [acts EXCEPT ![Act(s)] = Append(@, job[s].task)]
  /\ Leave(s)
  /\ UNCHANGED <<readers, writer, playingNow, queue, stopped, history>>

\* shutdown, which the reactor's thread calls when its loop has ended.
Shutdown(s) ==
  /\ at[s] = "idle"
  /\ ~ stopped
  /\ stopped' = TRUE
  /\ queue' = << >>
  /\ UNCHANGED <<table, playingNow, monitor, at, job, history>>

-----------------------------------------------------------------------------
(***************************************************************************)
(* A worker: takes a task, runs it, and whether it returned or threw, calls *)
(* complete(act).                                                          *)
(***************************************************************************)
Take(w) ==
  /\ at[w] = "idle"
  /\ queue # << >>
  /\ job' = [job EXCEPT ![w] = Head(queue)]
  /\ queue' = Tail(queue)
  /\ Goto(w, "run")
  /\ UNCHANGED <<table, playingNow, monitor, stopped, history>>

Run(w) ==
  /\ at[w] = "run"
  /\ done' = done \cup {job[w].task}
  /\ Goto(w, "lock")
  /\ UNCHANGED <<table, playingNow, monitor, queue, stopped, job, submitted>>

\* Mutant: the task added last goes first.
CompleteMutant(w) ==
  LET a == Act(w)
      n == Len(acts[a])
  IN
  /\ w \in Workers
  /\ at[w] = "pending"
  /\ IF acts[a] = << >>
     THEN playingNow' = playingNow \ {a} /\ UNCHANGED <<acts, queue>>
     ELSE /\ acts' = [acts EXCEPT ![a] = SubSeq(@, 1, n - 1)]
          /\ Execute([task |-> acts[a][n], act |-> a])
          /\ UNCHANGED playingNow
  /\ Leave(w)
  /\ UNCHANGED <<readers, writer, stopped, history>>

\* complete: poll() touches a queue that only this thread can reach.
Complete(w) ==
  LET a == Act(w) IN
  /\ w \in Workers
  /\ at[w] = "pending"
  /\ IF acts[a] = << >>
     THEN playingNow' = playingNow \ {a} /\ UNCHANGED <<acts, queue>>
     ELSE /\ acts' = [acts EXCEPT ![a] = Tail(@)]
          /\ Execute([task |-> Head(acts[a]), act |-> a])
          /\ UNCHANGED playingNow
  /\ Leave(w)
  /\ UNCHANGED <<readers, writer, stopped, history>>

-----------------------------------------------------------------------------
SubmitterStep(s) ==
  CheckPlaying(s) \/ ExecuteFirst(s) \/ AddPending(s) \/ LockActor(s)
    \/ PendingRunnablesOf(s)

WorkerStep(w) ==
  Take(w) \/ Run(w) \/ Complete(w) \/ LockActor(w) \/ PendingRunnablesOf(w)

\* Nothing is left to do.
Quiescent ==
  /\ stopped \/ submitted = Tasks
  /\ queue = << >>
  /\ \A th \in Threads : at[th] = "idle"
  /\ UNCHANGED vars

Next ==
  \/ \E s \in Submitters : Submit(s) \/ Shutdown(s) \/ SubmitterStep(s)
  \/ \E w \in Workers : WorkerStep(w)
  \/ Quiescent

Spec == Init /\ [][Next]_vars

\* Every thread that can go on does; a task that runs ends.  No task has to be
\* submitted, and the pool need not be shut down.
FairSpec ==
  /\ Spec
  /\ \A s \in Submitters : WF_vars(SubmitterStep(s))
  /\ \A w \in Workers : WF_vars(WorkerStep(w))

-----------------------------------------------------------------------------
Steps == {"idle", "lock", "check", "execute", "readLock", "get", "writeLock", "put",
          "pending", "run"}

\* The type of every variable.
TypeOK ==
  /\ acts \in [Actors -> Seq(Tasks) \cup {None}]
  /\ playingNow \subseteq Actors
  /\ monitor \in [Actors -> Threads \cup {None}]
  /\ readers \subseteq Threads
  /\ writer \in Threads \cup {None}
  /\ queue \in Seq(Jobs)
  /\ stopped \in BOOLEAN
  /\ at \in [Threads -> Steps]
  /\ job \in [Threads -> Jobs \cup {NoJob}]
  /\ submitted \subseteq Tasks
  /\ done \subseteq Tasks

\* A worker on its way from taking a task to the end of complete, and a
\* submitter that has just marked the actor as playing.
Active(th, a) ==
  /\ Act(th) = a
  /\ IF th \in Workers THEN at[th] # "idle" ELSE at[th] = "execute"

Queued(i, a) == i \in DOMAIN queue /\ queue[i].act = a

\* At most one task of an actor is in the pool, queued or running, at any
\* time, whichever thread submits while another one completes: playingNow is
\* set before the first task is executed and cleared only by the worker that
\* found no other (submit, complete).
OneTaskPerActor ==
  \A a \in Actors :
    /\ \A th, k \in Threads : Active(th, a) /\ Active(k, a) => th = k
    /\ \A i, j \in DOMAIN queue : Queued(i, a) /\ Queued(j, a) => i = j
    /\ \A th \in Threads, i \in DOMAIN queue : ~ (Active(th, a) /\ Queued(i, a))

\* A pending task is never stranded: until shutdown, an actor that has pending
\* tasks, or is marked as playing, has a task in the pool whose completion
\* will look at them; the window between poll and playingNow.remove is closed
\* by the actor's monitor.
NoStrandedTask ==
  \A a \in Actors :
    ~ stopped /\ (acts[a] \notin {None, << >>} \/ a \in playingNow) =>
      /\ a \in playingNow
      /\ \/ \E th \in Threads : Active(th, a)
         \/ \E i \in DOMAIN queue : Queued(i, a)

\* Every task submitted runs, unless the pool is shut down first.
TasksRun == \A t \in Tasks : t \in submitted ~> (t \in done \/ stopped)

-----------------------------------------------------------------------------
\* The abstract queue of an actor: its task in the pool's queue, if any (there
\* is at most one: OneTaskPerActor), then its pending ones.
InPool(a) ==
  LET mine == {i \in DOMAIN queue : Queued(i, a)}
  IN  IF mine = {} THEN << >> ELSE <<queue[CHOOSE i \in mine : TRUE].task>>

PendingOf(a) == InPool(a) \o (IF acts[a] = None THEN << >> ELSE acts[a])

Running(a) == {w \in Workers : at[w] = "run" /\ Act(w) = a}

CurrentOf(a) ==
  IF Running(a) = {} THEN None ELSE job[CHOOSE w \in Running(a) : TRUE].task

Q == INSTANCE ActorQueues WITH
       pending <- [a \in Actors |-> PendingOf(a)],
       current <- [a \in Actors |-> CurrentOf(a)]

\* The pool implements a queue for each actor: tasks of one actor run one at a
\* time, in the order submit accepted them, and only a shutdown loses any.
ActorQueuesImplemented == Q!Spec
=============================================================================
