----------------------- MODULE ActorThreadPoolProofs -----------------------
(***************************************************************************)
(* Theorems about the actor thread pool, for every set of actors, tasks,   *)
(* submitters and workers.                                                 *)
(***************************************************************************)
EXTENDS ActorThreadPool, SequenceTheorems, TLAPS

-----------------------------------------------------------------------------
\* What a thread works on, and which of submit and complete its label is in.
JobsFit ==
  \A th \in Threads :
    /\ at[th] # "idle" => job[th] \in Jobs
    /\ th \in Workers => at[th] \notin {"check", "execute"}
    /\ th \in Submitters => at[th] # "run"
    /\ at[th] = "pending" => acts[Act(th)] \in Seq(Tasks)

Inside == {"check", "execute", "readLock", "get", "writeLock", "put", "pending"}

\* A thread between the braces of synchronized (act) holds the monitor.
MonitorInv == \A th \in Threads : at[th] \in Inside => monitor[Act(th)] = th

PoolTypes == TypeOK /\ JobsFit /\ MonitorInv

\* A submitter that found its actor playing, and will add a pending task.
Waiting(s) == at[s] \in {"readLock", "get", "writeLock", "put", "pending"}

\* Whoever relies on an actor being marked as playing is right.
PlayingInv ==
  /\ \A th \in Threads, a \in Actors : Active(th, a) => a \in playingNow
  /\ \A i \in DOMAIN queue, a \in Actors : Queued(i, a) => a \in playingNow
  /\ \A s \in Submitters : Waiting(s) => Act(s) \in playingNow

TaskInv == OneTaskPerActor /\ PlayingInv /\ NoStrandedTask

-----------------------------------------------------------------------------
LEMMA DistinctThreads ==
  /\ \A s \in Submitters : s \in Threads /\ s \notin Workers
  /\ \A w \in Workers : w \in Threads /\ w \notin Submitters
  /\ None \notin Tasks /\ None \notin Threads /\ None \notin Actors
  BY PoolAssumption DEF Threads

\* Taking the first task of the pool's queue.
LEMMA QueuePop ==
  ASSUME queue \in Seq(Jobs), queue # << >>, queue' = Tail(queue)
  PROVE  /\ Head(queue) \in Jobs
         /\ queue' \in Seq(Jobs)
         /\ Queued(1, Head(queue).act)
         /\ \A i \in DOMAIN queue', a \in Actors :
              Queued(i, a)' => i + 1 \in DOMAIN queue /\ Queued(i + 1, a) /\ i \in Nat \ {0}
         /\ \A i \in DOMAIN queue, a \in Actors :
              Queued(i, a) /\ i # 1 => i - 1 \in DOMAIN queue' /\ Queued(i - 1, a)'
<1>1. Head(queue) \in Jobs /\ Tail(queue) \in Seq(Jobs)
  OBVIOUS
<1>2. /\ Len(queue) \in Nat \ {0} /\ Len(Tail(queue)) = Len(queue) - 1
      /\ DOMAIN queue = 1 .. Len(queue)
      /\ DOMAIN Tail(queue) = 1 .. Len(queue) - 1
      /\ \A i \in 1 .. Len(queue) - 1 : Tail(queue)[i] = queue[i + 1]
      /\ Head(queue) = queue[1]
  OBVIOUS
<1>3. Queued(1, Head(queue).act)
  BY <1>2 DEF Queued
<1>4. ASSUME NEW i \in DOMAIN queue', NEW a \in Actors, Queued(i, a)'
      PROVE  i + 1 \in DOMAIN queue /\ Queued(i + 1, a) /\ i \in Nat \ {0}
  BY <1>2, <1>4 DEF Queued
<1>5. ASSUME NEW i \in DOMAIN queue, NEW a \in Actors, Queued(i, a), i # 1
      PROVE  i - 1 \in DOMAIN queue' /\ Queued(i - 1, a)'
  <2>1. i - 1 \in 1 .. Len(queue) - 1 /\ (i - 1) + 1 = i
    BY <1>2, <1>5
  <2> QED
    BY <1>2, <1>5, <2>1 DEF Queued
<1> QED
  BY <1>1, <1>3, <1>4, <1>5

\* threads.execute before a shutdown.
LEMMA QueueAdd ==
  ASSUME queue \in Seq(Jobs), NEW j \in Jobs, queue' = Append(queue, j),
         NEW n, n = Len(queue) + 1
  PROVE  /\ queue' \in Seq(Jobs)
         /\ n \in DOMAIN queue' /\ Queued(n, j.act)'
         /\ n \notin DOMAIN queue
         /\ \A i \in DOMAIN queue', a \in Actors :
              Queued(i, a)' => \/ i \in DOMAIN queue /\ Queued(i, a)
                               \/ i = n /\ a = j.act
         /\ \A i \in DOMAIN queue, a \in Actors :
              Queued(i, a) => i \in DOMAIN queue' /\ Queued(i, a)'
<1>1. /\ Append(queue, j) \in Seq(Jobs) /\ Len(queue) \in Nat
      /\ DOMAIN queue = 1 .. Len(queue)
      /\ DOMAIN Append(queue, j) = 1 .. Len(queue) + 1
      /\ Append(queue, j)[Len(queue) + 1] = j
      /\ \A i \in 1 .. Len(queue) : Append(queue, j)[i] = queue[i]
  OBVIOUS
<1>2. Queued(n, j.act)' /\ n \in DOMAIN queue' /\ n \notin DOMAIN queue
  BY <1>1 DEF Queued
<1>3. ASSUME NEW i \in DOMAIN queue', NEW a \in Actors, Queued(i, a)'
      PROVE  \/ i \in DOMAIN queue /\ Queued(i, a)
             \/ i = n /\ a = j.act
  <2>1. CASE i \in 1 .. Len(queue)
    BY <1>1, <1>3, <2>1 DEF Queued
  <2>2. CASE i = Len(queue) + 1
    BY <1>1, <1>3, <2>2 DEF Queued
  <2> QED
    BY <1>1, <2>1, <2>2
<1>4. ASSUME NEW i \in DOMAIN queue, NEW a \in Actors, Queued(i, a)
      PROVE  i \in DOMAIN queue' /\ Queued(i, a)'
  BY <1>1, <1>4 DEF Queued
<1> QED
  BY <1>1, <1>2, <1>3, <1>4

-----------------------------------------------------------------------------
LEMMA InitPool == Init => PoolTypes /\ TaskInv
<1> SUFFICES ASSUME Init PROVE PoolTypes /\ TaskInv
  OBVIOUS
<1> USE DistinctThreads
<1>1. TypeOK
  <2>1. queue \in Seq(Jobs) /\ job \in [Threads -> Jobs \cup {NoJob}]
    BY DEF Init
  <2>2. acts \in [Actors -> Seq(Tasks) \cup {None}] /\ monitor \in [Actors -> Threads \cup {None}]
    BY DEF Init
  <2> QED
    BY <2>1, <2>2 DEF Init, TypeOK, Steps
<1>2. JobsFit /\ MonitorInv
  BY DEF Init, JobsFit, MonitorInv, Inside
<1>3. /\ \A th \in Threads, a \in Actors : ~ Active(th, a)
      /\ \A i \in DOMAIN queue : FALSE
      /\ \A s \in Submitters : ~ Waiting(s)
      /\ playingNow = {} /\ \A a \in Actors : acts[a] = None
  BY DEF Init, Active, Waiting
<1>4. TaskInv
  BY <1>3 DEF TaskInv, OneTaskPerActor, PlayingInv, NoStrandedTask
<1> QED
  BY <1>1, <1>2, <1>4 DEF PoolTypes

\* Steps that change neither playingNow nor the pool's queue.
LEMMA QuietTasks ==
  ASSUME PoolTypes, TaskInv,
         UNCHANGED <<playingNow, queue, stopped>>,
         \A th \in Threads, a \in Actors : Active(th, a)' <=> Active(th, a),
         \A s \in Submitters : Waiting(s)' => Waiting(s) /\ Act(s)' = Act(s),
         \A a \in Actors :
           acts'[a] \notin {None, << >>} => acts[a] \notin {None, << >>} \/ a \in playingNow
  PROVE  TaskInv'
<1>1. \A i, a : Queued(i, a)' <=> Queued(i, a)
  BY DEF Queued
<1>2. OneTaskPerActor'
  BY <1>1 DEF TaskInv, OneTaskPerActor
<1>3. PlayingInv'
  BY <1>1 DEF TaskInv, PlayingInv
<1>4. NoStrandedTask'
  BY <1>1 DEF TaskInv, NoStrandedTask
<1> QED
  BY <1>2, <1>3, <1>4 DEF TaskInv

-----------------------------------------------------------------------------
(***************************************************************************)
(* Locking the actor and finding its pending queue.                        *)
(***************************************************************************)
LEMMA LockActorStep ==
  ASSUME PoolTypes, TaskInv, NEW th \in Threads, LockActor(th)
  PROVE  PoolTypes' /\ TaskInv'
<1> USE DistinctThreads DEF history, table, Act
<1>1. /\ at[th] = "lock" /\ job[th] \in Jobs
      /\ monitor[job[th].act] = None
      /\ monitor' = [monitor EXCEPT ![job[th].act] = th]
      /\ UNCHANGED <<acts, readers, writer, playingNow, queue, stopped, job, submitted, done>>
  BY DEF LockActor, PoolTypes, JobsFit
<1>2. PICK l \in {"check", "readLock"} :
        at' = [at EXCEPT ![th] = l] /\ (l = "check" <=> th \in Submitters)
  BY DEF LockActor, Goto
<1>3. job[th].act \in Actors
  BY <1>1 DEF Jobs
<1>4. PoolTypes'
  <2>1. TypeOK'
    BY <1>1, <1>2, <1>3 DEF PoolTypes, TypeOK, Steps
  <2>2. JobsFit'
    BY <1>1, <1>2 DEF PoolTypes, TypeOK, Steps, JobsFit
  <2>3. MonitorInv'
    BY <1>1, <1>2, <1>3 DEF PoolTypes, TypeOK, MonitorInv, Inside
  <2> QED
    BY <2>1, <2>2, <2>3 DEF PoolTypes
<1>5. \A k \in Threads, a \in Actors : Active(k, a)' <=> Active(k, a)
  BY <1>1, <1>2 DEF Active, PoolTypes, TypeOK, Steps
<1>6. \A s \in Submitters : Waiting(s)' => Waiting(s) /\ Act(s)' = Act(s)
  BY <1>1, <1>2 DEF Waiting, PoolTypes, TypeOK
<1> QED
  BY <1>1, <1>4, <1>5, <1>6, QuietTasks

LEMMA PendingRunnablesOfStep ==
  ASSUME PoolTypes, TaskInv, NEW th \in Threads, PendingRunnablesOf(th)
  PROVE  PoolTypes' /\ TaskInv'
<1> USE DistinctThreads DEF history, table, Act
<1>1. /\ at[th] \in {"readLock", "get", "writeLock", "put"} /\ job[th] \in Jobs
      /\ UNCHANGED <<playingNow, monitor, queue, stopped, job, submitted, done>>
  BY DEF PendingRunnablesOf, ReadLock, Get, WriteLock, Put, PoolTypes, JobsFit
<1>2. job[th].act \in Actors
  BY <1>1 DEF Jobs
<1>3. PICK l \in {"get", "writeLock", "put", "pending"} : at' = [at EXCEPT ![th] = l]
  BY DEF PendingRunnablesOf, ReadLock, Get, WriteLock, Put, Goto
<1>4. /\ \/ UNCHANGED acts
         \/ acts' = [acts EXCEPT ![job[th].act] = << >>]
      /\ l = "pending" => acts'[job[th].act] \in Seq(Tasks)
      /\ readers' \subseteq Threads /\ writer' \in Threads \cup {None}
  <2>1. /\ acts \in [Actors -> Seq(Tasks) \cup {None}] /\ at \in [Threads -> Steps]
        /\ readers \subseteq Threads /\ writer \in Threads \cup {None}
    BY DEF PoolTypes, TypeOK, Steps
  <2>2. at'[th] = l
    BY <1>3, <2>1
  <2>3. << >> \in Seq(Tasks)
    OBVIOUS
  <2> QED
    BY <1>2, <2>1, <2>2, <2>3 DEF PendingRunnablesOf, ReadLock, Get, WriteLock, Put, Goto
<1>5. PoolTypes'
  <2>0. << >> \in Seq(Tasks)
    OBVIOUS
  <2>1. TypeOK'
    <3>1. acts' \in [Actors -> Seq(Tasks) \cup {None}]
      <4> DEFINE V == Seq(Tasks) \cup {None}
      <4>1. acts \in [Actors -> V] /\ << >> \in V
        BY <2>0 DEF PoolTypes, TypeOK
      <4> HIDE DEF V
      <4>2. acts' \in [Actors -> V]
        BY <1>4, <4>1
      <4> QED
        BY <4>2 DEF V
    <3>2. at' \in [Threads -> Steps]
      BY <1>3 DEF PoolTypes, TypeOK, Steps
    <3> QED
      BY <1>1, <1>4, <3>1, <3>2 DEF PoolTypes, TypeOK
  <2>2. JobsFit'
    <3>1. \A a \in Actors : acts[a] \in Seq(Tasks) => acts'[a] \in Seq(Tasks)
      BY <1>4, <2>0 DEF PoolTypes, TypeOK
    <3>2. \A k \in Threads : at[k] # "idle" => job[k].act \in Actors
      BY DEF PoolTypes, JobsFit, Jobs
    <3>3. at'[th] = l /\ \A k \in Threads \ {th} : at'[k] = at[k]
      BY <1>3 DEF PoolTypes, TypeOK
    <3> QED
      BY <1>1, <1>4, <3>1, <3>2, <3>3 DEF PoolTypes, JobsFit
  <2>3. MonitorInv'
    BY <1>1, <1>3 DEF PoolTypes, TypeOK, MonitorInv, Inside
  <2> QED
    BY <2>1, <2>2, <2>3 DEF PoolTypes
<1>6. \A k \in Threads, a \in Actors : Active(k, a)' <=> Active(k, a)
  BY <1>1, <1>3 DEF Active, PoolTypes, TypeOK, Steps
<1>7. \A s \in Submitters : Waiting(s)' => Waiting(s) /\ Act(s)' = Act(s)
  BY <1>1, <1>3 DEF Waiting, PoolTypes, TypeOK
<1>8. \A a \in Actors : acts'[a] \notin {None, << >>} => acts[a] \notin {None, << >>}
  BY <1>2, <1>4 DEF PoolTypes, TypeOK, Steps
<1> QED
  BY <1>1, <1>5, <1>6, <1>7, <1>8, QuietTasks

-----------------------------------------------------------------------------
(***************************************************************************)
(* submit.                                                                 *)
(***************************************************************************)
LEMMA SubmitStep ==
  ASSUME PoolTypes, TaskInv, NEW s \in Submitters, Submit(s)
  PROVE  PoolTypes' /\ TaskInv'
<1> USE DistinctThreads DEF history, table, Act
<1>1. PICK j \in Jobs : submitted' = submitted \cup {j.task} /\ job' = [job EXCEPT ![s] = j]
  BY DEF Submit
<1>2. /\ at[s] = "idle" /\ at' = [at EXCEPT ![s] = "lock"]
      /\ UNCHANGED <<acts, readers, writer, playingNow, monitor, queue, stopped, done>>
  BY DEF Submit, Goto
<1>3. PoolTypes'
  <2>1. TypeOK'
    BY <1>1, <1>2 DEF PoolTypes, TypeOK, Steps, Jobs
  <2>2. JobsFit'
    BY <1>1, <1>2 DEF PoolTypes, TypeOK, Steps, JobsFit
  <2>3. MonitorInv'
    BY <1>1, <1>2 DEF PoolTypes, TypeOK, MonitorInv, Inside
  <2> QED
    BY <2>1, <2>2, <2>3 DEF PoolTypes
<1>4. \A k \in Threads, a \in Actors : Active(k, a)' <=> Active(k, a)
  BY <1>1, <1>2 DEF Active, PoolTypes, TypeOK, Steps
<1>5. \A k \in Submitters : Waiting(k)' => Waiting(k) /\ Act(k)' = Act(k)
  BY <1>1, <1>2 DEF Waiting, PoolTypes, TypeOK
<1> QED
  BY <1>2, <1>3, <1>4, <1>5, QuietTasks

LEMMA CheckPlayingStep ==
  ASSUME PoolTypes, TaskInv, NEW s \in Submitters, CheckPlaying(s)
  PROVE  PoolTypes' /\ TaskInv'
<1> USE DistinctThreads DEF history, table, Act
<1>1. /\ at[s] = "check" /\ job[s] \in Jobs /\ job[s].act \in Actors
      /\ UNCHANGED <<acts, readers, writer, monitor, queue, stopped, job, submitted, done>>
  BY DEF CheckPlaying, PoolTypes, JobsFit, Jobs
<1>2. PICK l \in {"readLock", "execute"} : at' = [at EXCEPT ![s] = l]
  BY DEF CheckPlaying, Goto
<1>3. PoolTypes'
  <2>1. TypeOK'
    BY <1>1, <1>2 DEF CheckPlaying, PoolTypes, TypeOK, Steps
  <2>2. JobsFit'
    BY <1>1, <1>2 DEF PoolTypes, TypeOK, Steps, JobsFit
  <2>3. MonitorInv'
    BY <1>1, <1>2 DEF PoolTypes, TypeOK, MonitorInv, Inside
  <2> QED
    BY <2>1, <2>2, <2>3 DEF PoolTypes
<1>4. \A i, a : Queued(i, a)' <=> Queued(i, a)
  BY <1>1 DEF Queued
<1>5. at \in [Threads -> Steps]
  BY DEF PoolTypes, TypeOK
<1>6. CASE job[s].act \in playingNow
  <2>1. at' = [at EXCEPT ![s] = "readLock"] /\ playingNow' = playingNow
    BY <1>6 DEF CheckPlaying, Goto
  <2>2. \A k \in Threads, a \in Actors : Active(k, a)' <=> Active(k, a)
    BY <1>1, <1>5, <2>1 DEF Active
  <2>3. PlayingInv'
    BY <1>1, <1>4, <1>5, <1>6, <2>1, <2>2 DEF TaskInv, PlayingInv, Waiting
  <2>4. OneTaskPerActor' /\ NoStrandedTask'
    BY <1>1, <1>4, <2>1, <2>2 DEF TaskInv, OneTaskPerActor, NoStrandedTask
  <2> QED
    BY <1>3, <2>3, <2>4 DEF TaskInv
<1>7. CASE job[s].act \notin playingNow
  <2> DEFINE b == job[s].act
  <2>1. at' = [at EXCEPT ![s] = "execute"] /\ playingNow' = playingNow \cup {b}
    BY <1>7 DEF CheckPlaying, Goto
  <2>2. \A k \in Threads, a \in Actors :
          Active(k, a)' <=> Active(k, a) \/ (k = s /\ a = b)
    BY <1>1, <1>5, <2>1 DEF Active
  <2>3. /\ \A k \in Threads : ~ Active(k, b)
        /\ \A i \in DOMAIN queue : ~ Queued(i, b)
    BY <1>1, <1>7 DEF TaskInv, PlayingInv
  <2>4. OneTaskPerActor'
    BY <1>1, <1>4, <2>2, <2>3 DEF TaskInv, OneTaskPerActor
  <2>5. PlayingInv'
    BY <1>1, <1>4, <1>5, <2>1, <2>2 DEF TaskInv, PlayingInv, Waiting
  <2>6. NoStrandedTask'
    BY <1>1, <1>4, <2>1, <2>2 DEF TaskInv, NoStrandedTask
  <2> QED
    BY <1>3, <2>4, <2>5, <2>6 DEF TaskInv
<1> QED
  BY <1>6, <1>7

\* Leaving the monitor keeps the types, whatever else the step did.
LEMMA LeaveTypes ==
  ASSUME PoolTypes, NEW th \in Threads, at[th] \in Inside, Leave(th),
         acts' \in [Actors -> Seq(Tasks) \cup {None}],
         \A a \in Actors : acts[a] \in Seq(Tasks) => acts'[a] \in Seq(Tasks),
         playingNow' \subseteq Actors, queue' \in Seq(Jobs),
         UNCHANGED <<readers, writer, stopped, submitted, done>>
  PROVE  /\ PoolTypes'
         /\ at'[th] = "idle"
         /\ \A k \in Threads \ {th} : at'[k] = at[k] /\ job'[k] = job[k]
<1> USE DistinctThreads DEF Act
<1>1. /\ job[th] \in Jobs /\ job[th].act \in Actors /\ monitor[job[th].act] = th
      /\ monitor' = [monitor EXCEPT ![job[th].act] = None]
      /\ at' = [at EXCEPT ![th] = "idle"] /\ job' = [job EXCEPT ![th] = NoJob]
  BY DEF Leave, Goto, PoolTypes, JobsFit, MonitorInv, Jobs, Inside
<1>2. /\ at \in [Threads -> Steps] /\ job \in [Threads -> Jobs \cup {NoJob}]
      /\ monitor \in [Actors -> Threads \cup {None}]
  BY DEF PoolTypes, TypeOK
<1>3. at'[th] = "idle" /\ \A k \in Threads \ {th} : at'[k] = at[k] /\ job'[k] = job[k]
  BY <1>1, <1>2
<1>4. TypeOK'
  <2>1. /\ at' \in [Threads -> Steps] /\ job' \in [Threads -> Jobs \cup {NoJob}]
        /\ monitor' \in [Actors -> Threads \cup {None}]
    BY <1>1, <1>2 DEF Steps
  <2> QED
    BY <2>1 DEF PoolTypes, TypeOK
<1>5. JobsFit'
  <2>1. \A k \in Threads : at[k] # "idle" => job[k].act \in Actors
    BY DEF PoolTypes, JobsFit, Jobs
  <2> QED
    BY <1>3, <2>1 DEF PoolTypes, JobsFit
<1>6. MonitorInv'
  <2> SUFFICES ASSUME NEW k \in Threads, at'[k] \in Inside
               PROVE  monitor'[Act(k)'] = k
    BY DEF MonitorInv
  <2>1. k # th /\ at'[k] = at[k] /\ job'[k] = job[k]
    BY <1>3 DEF Inside
  <2>2. monitor[job[k].act] = k
    BY <2>1 DEF PoolTypes, MonitorInv
  <2>3. job[k].act # job[th].act
    BY <1>1, <2>1, <2>2
  <2> QED
    BY <1>1, <1>2, <2>1, <2>2, <2>3
<1> QED
  BY <1>3, <1>4, <1>5, <1>6 DEF PoolTypes

LEMMA ExecuteFirstStep ==
  ASSUME PoolTypes, TaskInv, NEW s \in Submitters, ExecuteFirst(s)
  PROVE  PoolTypes' /\ TaskInv'
<1> USE DistinctThreads DEF history, table, Act
<1>0. PICK b \in Actors : b = job[s].act
  BY DEF ExecuteFirst, PoolTypes, JobsFit, Jobs
<1>1. /\ at[s] = "execute" /\ at[s] \in Inside /\ Leave(s) /\ job[s] \in Jobs
      /\ UNCHANGED <<acts, readers, writer, playingNow, stopped, submitted, done>>
  BY DEF ExecuteFirst, PoolTypes, JobsFit, Jobs, Inside
<1>2. /\ queue \in Seq(Jobs) /\ acts \in [Actors -> Seq(Tasks) \cup {None}]
      /\ playingNow \subseteq Actors /\ stopped \in BOOLEAN
  BY DEF PoolTypes, TypeOK
<1>3. queue' = IF stopped THEN queue ELSE Append(queue, job[s])
  BY DEF ExecuteFirst, Execute
<1>4. queue' \in Seq(Jobs)
  BY <1>1, <1>2, <1>3, AppendProperties
<1>5. /\ PoolTypes' /\ at'[s] = "idle"
      /\ \A k \in Threads \ {s} : at'[k] = at[k] /\ job'[k] = job[k]
  BY <1>1, <1>2, <1>4, LeaveTypes
<1>6. /\ Active(s, b)
      /\ \A k \in Threads, a \in Actors : Active(k, a)' => k # s /\ Active(k, a)
      /\ \A k \in Threads, a \in Actors : Active(k, a) => Active(k, a)' \/ (k = s /\ a = b)
  BY <1>0, <1>1, <1>5 DEF Active
<1>7. \A k \in Submitters : Waiting(k)' => Waiting(k) /\ Act(k)' = Act(k)
  BY <1>5 DEF Waiting
<1>8. CASE stopped
  <2>1. \A i, a : Queued(i, a)' <=> Queued(i, a)
    BY <1>3, <1>8 DEF Queued
  <2>2. OneTaskPerActor'
    BY <1>3, <1>6, <1>8, <2>1 DEF TaskInv, OneTaskPerActor
  <2>3. PlayingInv'
    BY <1>1, <1>3, <1>6, <1>7, <1>8, <2>1 DEF TaskInv, PlayingInv
  <2>4. NoStrandedTask'
    BY <1>1, <1>8 DEF NoStrandedTask
  <2> QED
    BY <1>5, <2>2, <2>3, <2>4 DEF TaskInv
<1>9. CASE ~ stopped
  <2>1. PICK n : n = Len(queue) + 1
    OBVIOUS
  <2>2. /\ n \in DOMAIN queue' /\ Queued(n, b)'
        /\ \A i \in DOMAIN queue', a \in Actors :
             Queued(i, a)' => \/ i \in DOMAIN queue /\ Queued(i, a)
                              \/ i = n /\ a = b
        /\ \A i \in DOMAIN queue, a \in Actors :
             Queued(i, a) => i \in DOMAIN queue' /\ Queued(i, a)'
    BY <1>0, <1>1, <1>2, <1>3, <1>9, <2>1, QueueAdd
  <2>3. \A i \in DOMAIN queue : ~ Queued(i, b)
    BY <1>1, <1>6 DEF TaskInv, OneTaskPerActor
  <2>4. \A k \in Threads : Active(k, b) => k = s
    BY <1>1, <1>6 DEF TaskInv, OneTaskPerActor
  <2>5. OneTaskPerActor'
    BY <1>6, <2>2, <2>3, <2>4 DEF TaskInv, OneTaskPerActor
  <2>6. PlayingInv'
    BY <1>1, <1>6, <1>7, <2>2 DEF TaskInv, PlayingInv
  <2>7. NoStrandedTask'
    <3> SUFFICES ASSUME NEW a \in Actors,
                        acts'[a] \notin {None, << >>} \/ a \in playingNow'
                 PROVE  /\ a \in playingNow'
                        /\ \/ \E k \in Threads : Active(k, a)'
                           \/ \E i \in DOMAIN queue' : Queued(i, a)'
      BY DEF NoStrandedTask
    <3>1. /\ a \in playingNow
          /\ \/ \E k \in Threads : Active(k, a)
             \/ \E i \in DOMAIN queue : Queued(i, a)
      BY <1>1, <1>9 DEF TaskInv, NoStrandedTask
    <3> QED
      BY <1>1, <1>6, <2>2, <3>1
  <2> QED
    BY <1>5, <2>5, <2>6, <2>7 DEF TaskInv
<1> QED
  BY <1>2, <1>8, <1>9

LEMMA AddPendingStep ==
  ASSUME PoolTypes, TaskInv, NEW s \in Submitters, AddPending(s)
  PROVE  PoolTypes' /\ TaskInv'
<1> USE DistinctThreads DEF history, table, Act
<1> DEFINE b == job[s].act
<1>1. /\ at[s] = "pending" /\ at[s] \in Inside /\ Leave(s) /\ job[s] \in Jobs
      /\ b \in Actors /\ job[s].task \in Tasks /\ acts[b] \in Seq(Tasks)
      /\ acts' = [acts EXCEPT ![b] = Append(@, job[s].task)]
      /\ UNCHANGED <<readers, writer, playingNow, queue, stopped, submitted, done>>
  BY DEF AddPending, PoolTypes, JobsFit, Jobs, Inside
<1>2. /\ queue \in Seq(Jobs) /\ acts \in [Actors -> Seq(Tasks) \cup {None}]
      /\ playingNow \subseteq Actors
  BY DEF PoolTypes, TypeOK
<1>3. Append(acts[b], job[s].task) \in Seq(Tasks)
  BY <1>1, AppendProperties
<1>4. /\ acts' \in [Actors -> Seq(Tasks) \cup {None}]
      /\ \A a \in Actors : acts[a] \in Seq(Tasks) => acts'[a] \in Seq(Tasks)
      /\ \A a \in Actors : a # b => acts'[a] = acts[a]
  BY <1>1, <1>2, <1>3
<1>5. /\ PoolTypes' /\ at'[s] = "idle"
      /\ \A k \in Threads \ {s} : at'[k] = at[k] /\ job'[k] = job[k]
  BY <1>1, <1>2, <1>4, LeaveTypes
<1>6. \A k \in Threads, a \in Actors : Active(k, a)' <=> Active(k, a)
  BY <1>1, <1>5 DEF Active
<1>7. \A k \in Submitters : Waiting(k)' => Waiting(k) /\ Act(k)' = Act(k)
  BY <1>5 DEF Waiting
<1>8. b \in playingNow
  BY <1>1 DEF TaskInv, PlayingInv, Waiting
<1> QED
  BY <1>1, <1>4, <1>5, <1>6, <1>7, <1>8, QuietTasks

LEMMA ShutdownStep ==
  ASSUME PoolTypes, TaskInv, NEW s \in Submitters, Shutdown(s)
  PROVE  PoolTypes' /\ TaskInv'
<1> USE DEF history, table, Act
<1>1. /\ stopped' = TRUE /\ queue' = << >>
      /\ UNCHANGED <<acts, readers, writer, playingNow, monitor, at, job, submitted, done>>
  BY DEF Shutdown
<1>2. << >> \in Seq(Jobs) /\ DOMAIN queue' = {}
  BY <1>1
<1>3. PoolTypes'
  BY <1>1, <1>2 DEF PoolTypes, TypeOK, JobsFit, MonitorInv
<1>4. \A k \in Threads, a \in Actors : Active(k, a)' <=> Active(k, a)
  BY <1>1 DEF Active
<1>5. OneTaskPerActor' /\ PlayingInv' /\ NoStrandedTask'
  BY <1>1, <1>2, <1>4 DEF TaskInv, OneTaskPerActor, PlayingInv, NoStrandedTask, Waiting
<1> QED
  BY <1>3, <1>5 DEF TaskInv

-----------------------------------------------------------------------------
(***************************************************************************)
(* The workers.                                                            *)
(***************************************************************************)
LEMMA TakeStep ==
  ASSUME PoolTypes, TaskInv, NEW w \in Workers, Take(w)
  PROVE  PoolTypes' /\ TaskInv'
<1> USE DistinctThreads DEF history, table, Act
<1>1. /\ at[w] = "idle" /\ queue # << >> /\ queue' = Tail(queue)
      /\ job' = [job EXCEPT ![w] = Head(queue)] /\ at' = [at EXCEPT ![w] = "run"]
      /\ UNCHANGED <<acts, readers, writer, playingNow, monitor, stopped, submitted, done>>
  BY DEF Take, Goto
<1>2. /\ at \in [Threads -> Steps] /\ job \in [Threads -> Jobs \cup {NoJob}]
      /\ queue \in Seq(Jobs)
  BY DEF PoolTypes, TypeOK
<1>3. PICK j \in Jobs : j = Head(queue)
  BY <1>1, <1>2, QueuePop
<1>4. /\ queue' \in Seq(Jobs) /\ Queued(1, j.act)
      /\ \A i \in DOMAIN queue', a \in Actors :
           Queued(i, a)' => i + 1 \in DOMAIN queue /\ Queued(i + 1, a) /\ i \in Nat \ {0}
      /\ \A i \in DOMAIN queue, a \in Actors :
           Queued(i, a) /\ i # 1 => i - 1 \in DOMAIN queue' /\ Queued(i - 1, a)'
  BY <1>1, <1>2, <1>3, QueuePop
<1>5. j.act \in Actors /\ 1 \in DOMAIN queue
  BY <1>4 DEF Jobs, Queued
<1>6. /\ at'[w] = "run" /\ job'[w] = j
      /\ \A k \in Threads \ {w} : at'[k] = at[k] /\ job'[k] = job[k]
  BY <1>1, <1>2, <1>3
<1>7. PoolTypes'
  <2>1. TypeOK'
    BY <1>1, <1>2, <1>3, <1>4 DEF PoolTypes, TypeOK, Steps
  <2>2. JobsFit'
    BY <1>1, <1>6 DEF PoolTypes, JobsFit
  <2>3. MonitorInv'
    BY <1>1, <1>6 DEF PoolTypes, MonitorInv, Inside
  <2> QED
    BY <2>1, <2>2, <2>3 DEF PoolTypes
<1>8. \A k \in Threads, a \in Actors :
        Active(k, a)' <=> (IF k = w THEN a = j.act ELSE Active(k, a))
  BY <1>6 DEF Active
<1>9. /\ \A k \in Threads : ~ Active(k, j.act)
      /\ \A i \in DOMAIN queue : Queued(i, j.act) => i = 1
  BY <1>4, <1>5 DEF TaskInv, OneTaskPerActor
<1>10. \A i \in DOMAIN queue', a \in Actors : Queued(i, a)' => a # j.act
  BY <1>4, <1>9
<1>11. OneTaskPerActor'
  <2>1. \A a \in Actors, i, k \in DOMAIN queue' : Queued(i, a)' /\ Queued(k, a)' => i = k
    <3> SUFFICES ASSUME NEW a \in Actors, NEW i \in DOMAIN queue', NEW k \in DOMAIN queue',
                        Queued(i, a)', Queued(k, a)'
                 PROVE  i = k
      OBVIOUS
    <3>1. i + 1 = k + 1 /\ i \in Nat /\ k \in Nat
      BY <1>4 DEF TaskInv, OneTaskPerActor
    <3> QED
      BY <3>1
  <2>2. \A a \in Actors, k, l \in Threads : Active(k, a)' /\ Active(l, a)' => k = l
    BY <1>8, <1>9 DEF TaskInv, OneTaskPerActor
  <2>3. \A a \in Actors, k \in Threads, i \in DOMAIN queue' : ~ (Active(k, a)' /\ Queued(i, a)')
    BY <1>4, <1>8, <1>10 DEF TaskInv, OneTaskPerActor
  <2> QED
    BY <2>1, <2>2, <2>3 DEF OneTaskPerActor
<1>12. PlayingInv'
  BY <1>1, <1>4, <1>5, <1>6, <1>8 DEF TaskInv, PlayingInv, Waiting
<1>13. NoStrandedTask'
  <2> SUFFICES ASSUME NEW a \in Actors, ~ stopped,
                      acts[a] \notin {None, << >>} \/ a \in playingNow
               PROVE  /\ a \in playingNow
                      /\ \/ \E k \in Threads : Active(k, a)'
                         \/ \E i \in DOMAIN queue' : Queued(i, a)'
    BY <1>1 DEF NoStrandedTask
  <2>1. /\ a \in playingNow
        /\ \/ \E k \in Threads : Active(k, a)
           \/ \E i \in DOMAIN queue : Queued(i, a)
    BY DEF TaskInv, NoStrandedTask
  <2>2. CASE a = j.act
    BY <1>8, <2>1, <2>2
  <2>3. CASE a # j.act
    <3>1. \A k \in Threads : Active(k, a) => Active(k, a)'
      BY <1>1, <1>8 DEF Active
    <3>2. \A i \in DOMAIN queue : Queued(i, a) => i # 1
      BY <1>4, <2>3 DEF Queued
    <3> QED
      BY <1>4, <2>1, <3>1, <3>2
  <2> QED
    BY <2>2, <2>3
<1> QED
  BY <1>7, <1>11, <1>12, <1>13 DEF TaskInv

LEMMA RunStep ==
  ASSUME PoolTypes, TaskInv, NEW w \in Workers, Run(w)
  PROVE  PoolTypes' /\ TaskInv'
<1> USE DistinctThreads DEF history, table, Act
<1>1. /\ at[w] = "run" /\ job[w] \in Jobs /\ at' = [at EXCEPT ![w] = "lock"]
      /\ done' = done \cup {job[w].task}
      /\ UNCHANGED <<acts, readers, writer, playingNow, monitor, queue, stopped, job, submitted>>
  BY DEF Run, Goto, PoolTypes, JobsFit
<1>2. PoolTypes'
  <2>1. TypeOK'
    BY <1>1 DEF PoolTypes, TypeOK, Steps, Jobs
  <2>2. JobsFit'
    BY <1>1 DEF PoolTypes, TypeOK, JobsFit
  <2>3. MonitorInv'
    BY <1>1 DEF PoolTypes, TypeOK, MonitorInv, Inside
  <2> QED
    BY <2>1, <2>2, <2>3 DEF PoolTypes
<1>3. \A k \in Threads, a \in Actors : Active(k, a)' <=> Active(k, a)
  BY <1>1 DEF Active, PoolTypes, TypeOK
<1>4. \A s \in Submitters : Waiting(s)' => Waiting(s) /\ Act(s)' = Act(s)
  BY <1>1 DEF Waiting, PoolTypes, TypeOK
<1> QED
  BY <1>1, <1>2, <1>3, <1>4, QuietTasks

LEMMA CompleteStep ==
  ASSUME PoolTypes, TaskInv, NEW w \in Workers, Complete(w)
  PROVE  PoolTypes' /\ TaskInv'
<1> USE DistinctThreads DEF history, table, Act
<1>0. PICK b \in Actors : b = job[w].act
  BY DEF Complete, PoolTypes, JobsFit, Jobs
<1>1. /\ at[w] = "pending" /\ at[w] \in Inside /\ Leave(w) /\ acts[b] \in Seq(Tasks)
      /\ UNCHANGED <<readers, writer, stopped, submitted, done>>
  BY <1>0 DEF Complete, PoolTypes, JobsFit, Inside
<1>2. /\ queue \in Seq(Jobs) /\ acts \in [Actors -> Seq(Tasks) \cup {None}]
      /\ playingNow \subseteq Actors /\ stopped \in BOOLEAN
  BY DEF PoolTypes, TypeOK
<1>3. /\ Active(w, b)
      /\ \A k \in Threads : Active(k, b) => k = w
      /\ \A i \in DOMAIN queue : ~ Queued(i, b)
      /\ b \in playingNow
  <2>1. Active(w, b)
    BY <1>0, <1>1 DEF Active
  <2> QED
    BY <2>1 DEF TaskInv, OneTaskPerActor, PlayingInv
\* The monitor keeps every other thread of this actor out.
<1>4. \A s \in Submitters : Waiting(s) => Act(s) # b
  BY <1>0, <1>1 DEF PoolTypes, MonitorInv, Waiting, Inside
<1>5. CASE acts[b] = << >>
  <2>1. playingNow' = playingNow \ {b} /\ UNCHANGED <<acts, queue>>
    BY <1>0, <1>5 DEF Complete
  <2>2. /\ PoolTypes' /\ at'[w] = "idle"
        /\ \A k \in Threads \ {w} : at'[k] = at[k] /\ job'[k] = job[k]
    BY <1>1, <1>2, <2>1, LeaveTypes
  <2>3. \A k \in Threads, a \in Actors : Active(k, a)' <=> k # w /\ Active(k, a)
    BY <2>2 DEF Active
  <2>4. \A s \in Submitters : Waiting(s)' => Waiting(s) /\ Act(s)' = Act(s)
    BY <2>2 DEF Waiting
  <2>5. \A i, a : Queued(i, a)' <=> Queued(i, a)
    BY <2>1 DEF Queued
  <2>6. OneTaskPerActor'
    BY <2>1, <2>3, <2>5 DEF TaskInv, OneTaskPerActor
  <2>7. PlayingInv'
    BY <1>3, <1>4, <2>1, <2>3, <2>4, <2>5 DEF TaskInv, PlayingInv
  <2>8. \A k \in Threads, a \in Actors : Active(k, a) /\ a # b => Active(k, a)'
    BY <1>0, <2>2 DEF Active
  <2>9. NoStrandedTask'
    <3> SUFFICES ASSUME NEW a \in Actors, ~ stopped,
                        acts[a] \notin {None, << >>} \/ a \in playingNow'
                 PROVE  /\ a \in playingNow'
                        /\ \/ \E k \in Threads : Active(k, a)'
                           \/ \E i \in DOMAIN queue : Queued(i, a)
      BY <1>1, <2>1, <2>5 DEF NoStrandedTask
    <3>1. a # b
      BY <1>5, <2>1
    <3> QED
      BY <2>1, <2>8, <3>1 DEF TaskInv, NoStrandedTask
  <2> QED
    BY <2>2, <2>6, <2>7, <2>9 DEF TaskInv
<1>6. CASE acts[b] # << >>
  <2>0. /\ Head(acts[b]) \in Tasks /\ Tail(acts[b]) \in Seq(Tasks)
    BY <1>1, <1>6
  <2>1. PICK j \in Jobs : j = [task |-> Head(acts[b]), act |-> b]
    BY <2>0 DEF Jobs
  <2>2. /\ playingNow' = playingNow /\ acts' = [acts EXCEPT ![b] = Tail(@)]
        /\ queue' = IF stopped THEN queue ELSE Append(queue, j)
    BY <1>0, <1>6, <2>1 DEF Complete, Execute
  <2>3. queue' \in Seq(Jobs)
    BY <1>2, <2>2, AppendProperties
  <2>4. /\ acts' \in [Actors -> Seq(Tasks) \cup {None}]
        /\ \A a \in Actors : acts[a] \in Seq(Tasks) => acts'[a] \in Seq(Tasks)
        /\ \A a \in Actors : a # b => acts'[a] = acts[a]
    BY <1>2, <2>0, <2>2
  <2>5. /\ PoolTypes' /\ at'[w] = "idle"
        /\ \A k \in Threads \ {w} : at'[k] = at[k] /\ job'[k] = job[k]
    BY <1>1, <1>2, <2>2, <2>3, <2>4, LeaveTypes
  <2>6. /\ \A k \in Threads, a \in Actors : Active(k, a)' => k # w /\ Active(k, a)
        /\ \A k \in Threads, a \in Actors : Active(k, a) /\ a # b => Active(k, a)'
    BY <1>0, <2>5 DEF Active
  <2>7. \A s \in Submitters : Waiting(s)' => Waiting(s) /\ Act(s)' = Act(s)
    BY <2>5 DEF Waiting
  <2>8. CASE stopped
    <3>1. \A i, a : Queued(i, a)' <=> Queued(i, a)
      BY <2>2, <2>8 DEF Queued
    <3>2. OneTaskPerActor'
      BY <2>2, <2>6, <2>8, <3>1 DEF TaskInv, OneTaskPerActor
    <3>3. PlayingInv'
      BY <2>2, <2>6, <2>7, <2>8, <3>1 DEF TaskInv, PlayingInv
    <3>4. NoStrandedTask'
      BY <1>1, <2>8 DEF NoStrandedTask
    <3> QED
      BY <2>5, <3>2, <3>3, <3>4 DEF TaskInv
  <2>9. CASE ~ stopped
    <3>1. PICK n : n = Len(queue) + 1
      OBVIOUS
    <3>2. /\ n \in DOMAIN queue' /\ Queued(n, b)'
          /\ \A i \in DOMAIN queue', a \in Actors :
               Queued(i, a)' => \/ i \in DOMAIN queue /\ Queued(i, a)
                                \/ i = n /\ a = b
          /\ \A i \in DOMAIN queue, a \in Actors :
               Queued(i, a) => i \in DOMAIN queue' /\ Queued(i, a)'
      BY <1>2, <2>1, <2>2, <2>9, <3>1, QueueAdd
    <3>3. OneTaskPerActor'
      BY <1>3, <2>6, <3>2 DEF TaskInv, OneTaskPerActor
    <3>4. PlayingInv'
      BY <1>3, <2>2, <2>6, <2>7, <3>2 DEF TaskInv, PlayingInv
    <3>5. NoStrandedTask'
      <4> SUFFICES ASSUME NEW a \in Actors,
                          acts'[a] \notin {None, << >>} \/ a \in playingNow
                   PROVE  /\ a \in playingNow
                          /\ \/ \E k \in Threads : Active(k, a)'
                             \/ \E i \in DOMAIN queue' : Queued(i, a)'
        BY <2>2 DEF NoStrandedTask
      <4>1. CASE a = b
        BY <1>3, <3>2, <4>1
      <4>2. CASE a # b
        <5>1. /\ a \in playingNow
              /\ \/ \E k \in Threads : Active(k, a)
                 \/ \E i \in DOMAIN queue : Queued(i, a)
          BY <2>4, <2>9, <4>2 DEF TaskInv, NoStrandedTask
        <5> QED
          BY <2>6, <3>2, <4>2, <5>1
      <4> QED
        BY <4>1, <4>2
    <3> QED
      BY <2>5, <3>3, <3>4, <3>5 DEF TaskInv
  <2> QED
    BY <1>2, <2>8, <2>9
<1> QED
  BY <1>5, <1>6

-----------------------------------------------------------------------------
LEMMA StutterPool ==
  ASSUME PoolTypes, TaskInv, UNCHANGED vars
  PROVE  PoolTypes' /\ TaskInv'
  BY DEF vars, PoolTypes, TypeOK, JobsFit, MonitorInv, TaskInv, OneTaskPerActor, PlayingInv,
         NoStrandedTask, Active, Queued, Waiting, Act

LEMMA NextPool == PoolTypes /\ TaskInv /\ [Next]_vars => PoolTypes' /\ TaskInv'
<1> SUFFICES ASSUME PoolTypes, TaskInv, [Next]_vars PROVE PoolTypes' /\ TaskInv'
  OBVIOUS
<1>1. CASE \E s \in Submitters : Submit(s) \/ Shutdown(s) \/ SubmitterStep(s)
  BY <1>1, DistinctThreads, SubmitStep, ShutdownStep, CheckPlayingStep, ExecuteFirstStep,
     AddPendingStep, LockActorStep, PendingRunnablesOfStep
  DEF SubmitterStep
<1>2. CASE \E w \in Workers : WorkerStep(w)
  BY <1>2, DistinctThreads, TakeStep, RunStep, CompleteStep, LockActorStep,
     PendingRunnablesOfStep
  DEF WorkerStep
<1>3. CASE UNCHANGED vars
  BY <1>3, StutterPool
<1> QED
  BY <1>1, <1>2, <1>3 DEF Next, Quiescent

\* Every variable of the pool keeps its type, and a thread inside submit or
\* complete has the job, and at pendingRunnablesOf(act).add the queue, it works on.
THEOREM PoolTypeCorrect == Spec => [](TypeOK /\ JobsFit)
<1>1. PoolTypes => TypeOK /\ JobsFit
  BY DEF PoolTypes
<1> QED
  BY <1>1, InitPool, NextPool, PTL DEF Spec

\* submit and complete never let two tasks of one actor into the pool, for any
\* number of threads that submit and work.
THEOREM ActorsExclude == Spec => []OneTaskPerActor
<1>1. TaskInv => OneTaskPerActor
  BY DEF TaskInv
<1> QED
  BY <1>1, InitPool, NextPool, PTL DEF Spec

\* Until a shutdown, no actor that is marked as playing or has pending tasks is
\* without a task whose completion looks at them.
THEOREM NothingStranded == Spec => []NoStrandedTask
<1>1. TaskInv => NoStrandedTask
  BY DEF TaskInv
<1> QED
  BY <1>1, InitPool, NextPool, PTL DEF Spec

-----------------------------------------------------------------------------
(***************************************************************************)
(* The pool implements a queue for each actor (ActorQueues).               *)
(***************************************************************************)
\* Between the look into the table and its update nobody else makes the queue
\* of the actor, and a task that is executed at once overtakes none.
QueueInv ==
  /\ \A th \in Threads : at[th] \in {"writeLock", "put"} => acts[Act(th)] = None
  /\ \A s \in Submitters : at[s] = "execute" /\ ~ stopped => acts[Act(s)] \in {None, << >>}

\* The monitor of an actor keeps others from its queue.
LEMMA KeepQueue ==
  ASSUME PoolTypes, QueueInv, NEW th \in Threads,
         \A k \in Threads \ {th} : at'[k] = at[k] /\ job'[k] = job[k],
         at[th] \in Inside \/ UNCHANGED acts,
         \A a \in Actors : a # Act(th) => acts'[a] = acts[a],
         stopped => stopped',
         at'[th] \in {"writeLock", "put"} => acts'[Act(th)'] = None,
         at'[th] = "execute" /\ ~ stopped' => acts'[Act(th)'] \in {None, << >>}
  PROVE  QueueInv'
<1>1. ASSUME NEW k \in Threads, k # th, at[k] \in Inside
      PROVE  acts'[Act(k)'] = acts[Act(k)] /\ at'[k] = at[k]
  <2>1. Act(k)' = Act(k) /\ Act(k) \in Actors /\ monitor[Act(k)] = k
    BY <1>1 DEF Act, PoolTypes, JobsFit, MonitorInv, Inside, Jobs
  <2>2. at[th] \in Inside => Act(k) # Act(th)
    BY <1>1, <2>1 DEF PoolTypes, MonitorInv
  <2> QED
    BY <1>1, <2>1, <2>2
<1>2. ASSUME NEW k \in Threads, at'[k] \in {"writeLock", "put"}
      PROVE  acts'[Act(k)'] = None
  BY <1>1, <1>2 DEF QueueInv, Inside
<1>3. ASSUME NEW s \in Submitters, at'[s] = "execute", ~ stopped'
      PROVE  acts'[Act(s)'] \in {None, << >>}
  BY <1>1, <1>3, DistinctThreads DEF QueueInv, Inside
<1> QED
  BY <1>2, <1>3 DEF QueueInv

LEMMA NextQueue == PoolTypes /\ TaskInv /\ QueueInv /\ [Next]_vars => QueueInv'
<1> SUFFICES ASSUME PoolTypes, TaskInv, QueueInv, [Next]_vars PROVE QueueInv'
  OBVIOUS
<1> USE DistinctThreads DEF table, history, Act
<1>0. /\ at \in [Threads -> Steps] /\ job \in [Threads -> Jobs \cup {NoJob}]
      /\ acts \in [Actors -> Seq(Tasks) \cup {None}]
  BY DEF PoolTypes, TypeOK
<1>1. ASSUME NEW th \in Threads, LockActor(th) \/ PendingRunnablesOf(th)
      PROVE  QueueInv'
  <2>1. UNCHANGED <<job, stopped>> /\ \E l \in Steps : at' = [at EXCEPT ![th] = l]
    BY <1>1 DEF LockActor, PendingRunnablesOf, ReadLock, Get, WriteLock, Put, Goto, Steps
  <2>2. \A k \in Threads \ {th} : at'[k] = at[k] /\ job'[k] = job[k]
    BY <1>0, <2>1
  <2>3. /\ at[th] \in Inside \/ UNCHANGED acts
        /\ \A a \in Actors : a # job[th].act => acts'[a] = acts[a]
    BY <1>0, <1>1 DEF LockActor, PendingRunnablesOf, ReadLock, Get, WriteLock, Put, Inside
  <2>4. at'[th] \in {"writeLock", "put"} => acts'[job'[th].act] = None
    BY <1>0, <1>1, <2>1
    DEF LockActor, PendingRunnablesOf, ReadLock, Get, WriteLock, Put, Goto, QueueInv
  <2>5. at'[th] # "execute"
    BY <1>0, <1>1 DEF LockActor, PendingRunnablesOf, ReadLock, Get, WriteLock, Put, Goto
  <2> QED
    BY <2>1, <2>2, <2>3, <2>4, <2>5, KeepQueue
<1>2. ASSUME NEW s \in Submitters, Submit(s) \/ CheckPlaying(s)
      PROVE  QueueInv'
  <2>1. /\ \A k \in Threads \ {s} : at'[k] = at[k] /\ job'[k] = job[k]
        /\ UNCHANGED <<acts, stopped>>
    BY <1>0, <1>2 DEF Submit, CheckPlaying, Goto
  <2>2. at'[s] \in {"lock", "readLock", "execute"}
    BY <1>0, <1>2 DEF Submit, CheckPlaying, Goto
  <2>3. at'[s] = "execute" /\ ~ stopped => acts'[job'[s].act] \in {None, << >>}
    <3>1. job[s] \in Jobs \/ at[s] = "idle"
      BY DEF PoolTypes, JobsFit
    <3> QED
      BY <1>0, <1>2, <3>1 DEF Submit, CheckPlaying, Goto, TaskInv, NoStrandedTask, Jobs
  <2> QED
    BY <2>1, <2>2, <2>3, KeepQueue
<1>3. ASSUME NEW th \in Threads, ExecuteFirst(th) \/ AddPending(th) \/ Complete(th),
             at[th] \in Inside
      PROVE  QueueInv'
  <2>1. Leave(th) /\ UNCHANGED stopped
    BY <1>3 DEF ExecuteFirst, AddPending, Complete
  <2>2. /\ \A k \in Threads \ {th} : at'[k] = at[k] /\ job'[k] = job[k]
        /\ at'[th] = "idle"
    BY <1>0, <2>1 DEF Leave, Goto
  <2>3. \A a \in Actors : a # job[th].act => acts'[a] = acts[a]
    BY <1>0, <1>3 DEF ExecuteFirst, AddPending, Complete
  <2> QED
    BY <1>3, <2>1, <2>2, <2>3, KeepQueue
<1>4. ASSUME NEW w \in Workers, Take(w) \/ Run(w)
      PROVE  QueueInv'
  <2>1. /\ \A k \in Threads \ {w} : at'[k] = at[k] /\ job'[k] = job[k]
        /\ at'[w] \in {"run", "lock"} /\ UNCHANGED <<acts, stopped>>
    BY <1>0, <1>4 DEF Take, Run, Goto
  <2> QED
    BY <2>1, KeepQueue
<1>5. ASSUME NEW s \in Submitters, Shutdown(s)
      PROVE  QueueInv'
  BY <1>5 DEF Shutdown, QueueInv
<1>6. CASE UNCHANGED vars
  BY <1>6 DEF vars, QueueInv
<1>7. /\ \A s \in Submitters : (ExecuteFirst(s) => at[s] \in Inside)
                               /\ (AddPending(s) => at[s] \in Inside)
      /\ \A w \in Workers : Complete(w) => at[w] \in Inside
  BY DEF ExecuteFirst, AddPending, Complete, Inside
<1> QED
  BY <1>1, <1>2, <1>3, <1>4, <1>5, <1>6, <1>7
  DEF Next, SubmitterStep, WorkerStep, Quiescent

-----------------------------------------------------------------------------
\* The task of an actor in a queue of jobs with at most one for each.
TaskIn(q, a) ==
  LET mine == {i \in DOMAIN q : q[i].act = a}
  IN  IF mine = {} THEN << >> ELSE <<q[CHOOSE i \in mine : TRUE].task>>

Sole(q) == \A i, j \in DOMAIN q : q[i].act = q[j].act => i = j

LEMMA TaskInIs ==
  ASSUME NEW q, NEW a
  PROVE  /\ (\A i \in DOMAIN q : q[i].act # a) => TaskIn(q, a) = << >>
         /\ \A i \in DOMAIN q : q[i].act = a /\ Sole(q) => TaskIn(q, a) = <<q[i].task>>
<1> DEFINE mine == {i \in DOMAIN q : q[i].act = a}
<1>1. (\A i \in DOMAIN q : q[i].act # a) => TaskIn(q, a) = << >>
  <2>1. (\A i \in DOMAIN q : q[i].act # a) => mine = {}
    OBVIOUS
  <2> QED
    BY <2>1 DEF TaskIn
<1>2. ASSUME NEW i \in DOMAIN q, q[i].act = a, Sole(q)
      PROVE  TaskIn(q, a) = <<q[i].task>>
  <2>1. mine = {i}
    BY <1>2 DEF Sole
  <2>2. (CHOOSE k \in mine : TRUE) = i /\ mine # {}
    BY <2>1
  <2> QED
    BY <2>2 DEF TaskIn
<1> QED
  BY <1>1, <1>2

LEMMA TaskInAppend ==
  ASSUME NEW q \in Seq(Jobs), NEW j \in Jobs, Sole(q), \A i \in DOMAIN q : q[i].act # j.act,
         NEW a
  PROVE  TaskIn(Append(q, j), a) = IF a = j.act THEN <<j.task>> ELSE TaskIn(q, a)
<1> DEFINE p == Append(q, j)
           n == Len(q) + 1
<1>1. /\ DOMAIN p = DOMAIN q \cup {n} /\ n \notin DOMAIN q
      /\ p[n] = j /\ \A i \in DOMAIN q : p[i] = q[i]
  <2>1. Len(q) \in Nat /\ DOMAIN q = 1 .. Len(q)
    BY LenProperties
  <2>2. DOMAIN p = 1 .. n /\ p[n] = j /\ \A i \in 1 .. Len(q) : p[i] = q[i]
    BY AppendProperties, LenProperties
  <2> QED
    BY <2>1, <2>2
<1> HIDE DEF p, n
<1>2. Sole(p)
  BY <1>1 DEF Sole
<1>3. a = j.act => TaskIn(p, a) = <<j.task>>
  BY <1>1, <1>2, TaskInIs
<1>4. ASSUME a # j.act, \A i \in DOMAIN q : q[i].act # a
      PROVE  TaskIn(p, a) = TaskIn(q, a)
  BY <1>1, <1>4, TaskInIs
<1>5. ASSUME NEW i \in DOMAIN q, q[i].act = a
      PROVE  TaskIn(p, a) = TaskIn(q, a)
  <2>1. i \in DOMAIN p /\ p[i] = q[i]
    BY <1>1, <1>5
  <2> QED
    BY <1>2, <1>5, <2>1, TaskInIs
<1> QED
  BY <1>3, <1>4, <1>5 DEF p

LEMMA TaskInTail ==
  ASSUME NEW q \in Seq(Jobs), q # << >>, Sole(q), NEW a
  PROVE  /\ TaskIn(Tail(q), a) = IF a = Head(q).act THEN << >> ELSE TaskIn(q, a)
         /\ TaskIn(q, Head(q).act) = <<Head(q).task>>
<1> DEFINE t == Tail(q)
<1>1. /\ Len(q) \in Nat \ {0} /\ Len(t) = Len(q) - 1
      /\ DOMAIN q = 1 .. Len(q) /\ DOMAIN t = 1 .. Len(q) - 1
      /\ \A i \in 1 .. Len(q) - 1 : t[i] = q[i + 1]
      /\ Head(q) = q[1]
  OBVIOUS
<1>2. /\ 1 \in DOMAIN q
      /\ \A i \in DOMAIN t : i \in Nat \ {0} /\ i + 1 \in DOMAIN q /\ t[i] = q[i + 1]
      /\ \A i \in DOMAIN q : i # 1 => i - 1 \in DOMAIN t /\ t[i - 1] = q[i]
  <2>1. \A i \in DOMAIN t : i \in Nat \ {0} /\ i + 1 \in DOMAIN q /\ t[i] = q[i + 1]
    BY <1>1
  <2>2. ASSUME NEW i \in DOMAIN q, i # 1
        PROVE  i - 1 \in DOMAIN t /\ t[i - 1] = q[i]
    <3>1. i - 1 \in 1 .. Len(q) - 1 /\ (i - 1) + 1 = i
      BY <1>1, <2>2
    <3> QED
      BY <1>1, <3>1
  <2> QED
    BY <1>1, <2>1, <2>2
<1> HIDE DEF t
<1>3. Sole(t)
  <2> SUFFICES ASSUME NEW i \in DOMAIN t, NEW k \in DOMAIN t, t[i].act = t[k].act
               PROVE  i = k
    BY DEF Sole
  <2>1. i + 1 = k + 1 /\ i \in Nat /\ k \in Nat
    BY <1>2 DEF Sole
  <2> QED
    BY <2>1
<1>4. TaskIn(q, Head(q).act) = <<Head(q).task>>
  BY <1>1, <1>2, TaskInIs
<1>5. CASE a = Head(q).act
  <2>1. \A i \in DOMAIN t : t[i].act # a
    <3> SUFFICES ASSUME NEW i \in DOMAIN t, t[i].act = a PROVE FALSE
      OBVIOUS
    <3>1. /\ i \in Nat \ {0} /\ i + 1 \in DOMAIN q /\ 1 \in DOMAIN q
          /\ q[i + 1].act = q[1].act
      BY <1>1, <1>2, <1>5
    <3>2. i + 1 = 1
      BY <3>1 DEF Sole
    <3> QED
      BY <3>1, <3>2
  <2> QED
    BY <1>4, <1>5, <2>1, TaskInIs DEF t
<1>6. CASE a # Head(q).act
  <2>1. CASE \A i \in DOMAIN q : q[i].act # a
    <3>1. \A i \in DOMAIN t : t[i].act # a
      BY <1>2, <2>1
    <3> QED
      BY <1>4, <1>6, <2>1, <3>1, TaskInIs DEF t
  <2>2. CASE \E i \in DOMAIN q : q[i].act = a
    <3>1. PICK i \in DOMAIN q : q[i].act = a
      BY <2>2
    <3>2. i - 1 \in DOMAIN t /\ t[i - 1] = q[i]
      BY <1>1, <1>2, <1>6, <3>1
    <3>3. TaskIn(t, a) = <<q[i].task>> /\ TaskIn(q, a) = <<q[i].task>>
      BY <1>3, <3>1, <3>2, TaskInIs
    <3> QED
      BY <1>4, <1>6, <3>3 DEF t
  <2> QED
    BY <2>1, <2>2
<1> QED
  BY <1>5, <1>6

\* A queue holds nothing or one task for an actor.
LEMMA TaskInType ==
  ASSUME NEW q \in Seq(Jobs), NEW a
  PROVE  TaskIn(q, a) = << >> \/ \E t \in Tasks : TaskIn(q, a) = <<t>>
<1>1. ASSUME NEW i \in DOMAIN q
      PROVE  q[i].task \in Tasks
  <2>1. q[i] \in Jobs
    <3>1. DOMAIN q = 1 .. Len(q)
      OBVIOUS
    <3> QED
      BY <3>1
  <2> QED
    BY <2>1 DEF Jobs
<1> QED
  BY <1>1 DEF TaskIn

\* What a pending queue adds: nothing as long as there is none.
Later(p) == IF p = None THEN << >> ELSE p

LEMMA Joined ==
  ASSUME NEW u \in Tasks, NEW t \in Tasks, NEW p \in Seq(Tasks)
  PROVE  /\ << >> \o p = p
         /\ Append(p, t) \in Seq(Tasks)
         /\ <<u>> \o Append(p, t) = Append(<<u>> \o p, t)
         /\ <<u>> \o p # << >> /\ Head(<<u>> \o p) = u /\ Tail(<<u>> \o p) = p
         /\ p # << >> => <<Head(p)>> \o Tail(p) = p
<1>1. <<u>> \in Seq(Tasks) /\ Append(p, t) \in Seq(Tasks)
  OBVIOUS
<1>2. << >> \o p = p
  OBVIOUS
<1>3. <<u>> \o Append(p, t) = Append(<<u>> \o p, t)
  OBVIOUS
<1>4. <<u>> \o p # << >> /\ Head(<<u>> \o p) = u
  OBVIOUS
<1>5. Tail(<<u>> \o p) = p
  OBVIOUS
<1>6. p # << >> => <<Head(p)>> \o Tail(p) = p
  OBVIOUS
<1> QED
  BY <1>1, <1>2, <1>3, <1>4, <1>5, <1>6

\* The task that runs for an actor.
TaskRun(label, work, a) ==
  LET mine == {w \in Workers : label[w] = "run" /\ work[w].act = a}
  IN  IF mine = {} THEN None ELSE work[CHOOSE w \in mine : TRUE].task

LEMMA TaskRunIs ==
  ASSUME NEW label, NEW work, NEW a
  PROVE  /\ (\A w \in Workers : ~ (label[w] = "run" /\ work[w].act = a))
              => TaskRun(label, work, a) = None
         /\ \A w \in Workers :
              /\ label[w] = "run" /\ work[w].act = a
              /\ \A k \in Workers : label[k] = "run" /\ work[k].act = a => k = w
              => TaskRun(label, work, a) = work[w].task
<1> DEFINE mine == {w \in Workers : label[w] = "run" /\ work[w].act = a}
<1>1. (\A w \in Workers : ~ (label[w] = "run" /\ work[w].act = a))
        => TaskRun(label, work, a) = None
  <2>1. (\A w \in Workers : ~ (label[w] = "run" /\ work[w].act = a)) => mine = {}
    OBVIOUS
  <2> QED
    BY <2>1 DEF TaskRun
<1>2. ASSUME NEW w \in Workers, label[w] = "run", work[w].act = a,
             \A k \in Workers : label[k] = "run" /\ work[k].act = a => k = w
      PROVE  TaskRun(label, work, a) = work[w].task
  <2>1. mine = {w}
    BY <1>2
  <2>2. (CHOOSE k \in mine : TRUE) = w /\ mine # {}
    BY <2>1
  <2> QED
    BY <2>2 DEF TaskRun
<1> QED
  BY <1>1, <1>2

\* A step of a thread that runs no task before or after it.
LEMMA CurrentKept ==
  ASSUME NEW th \in Threads,
         \A k \in Threads \ {th} : at'[k] = at[k] /\ job'[k] = job[k],
         th \in Workers => at[th] # "run" /\ at'[th] # "run",
         NEW a
  PROVE  TaskRun(at', job', a) = TaskRun(at, job, a)
<1> DEFINE mine == {w \in Workers : at[w] = "run" /\ job[w].act = a}
           new == {w \in Workers : at'[w] = "run" /\ job'[w].act = a}
<1>1. mine = new
  BY DistinctThreads
<1>2. mine # {} => job'[CHOOSE w \in mine : TRUE] = job[CHOOSE w \in mine : TRUE]
  BY DistinctThreads
<1>3. TaskRun(at, job, a) = IF mine = {} THEN None ELSE job[CHOOSE w \in mine : TRUE].task
  BY DEF TaskRun
<1>4. TaskRun(at', job', a) = IF new = {} THEN None ELSE job'[CHOOSE w \in new : TRUE].task
  BY DEF TaskRun
<1> HIDE DEF mine, new
<1> QED
  BY <1>1, <1>2, <1>3, <1>4

-----------------------------------------------------------------------------
\* The abstract queues in terms of these operators, before and after a step.
LEMMA Abstraction ==
  ASSUME NEW a
  PROVE  /\ PendingOf(a) = TaskIn(queue, a) \o Later(acts[a])
         /\ PendingOf(a)' = TaskIn(queue', a) \o Later(acts'[a])
         /\ CurrentOf(a) = TaskRun(at, job, a)
         /\ CurrentOf(a)' = TaskRun(at', job', a)
<1>1. InPool(a) = TaskIn(queue, a)
  <2> DEFINE mine == {i \in DOMAIN queue : Queued(i, a)}
             his == {i \in DOMAIN queue : queue[i].act = a}
  <2>1. mine = his
    BY DEF Queued
  <2>2. InPool(a) = IF mine = {} THEN << >> ELSE <<queue[CHOOSE i \in mine : TRUE].task>>
    BY DEF InPool
  <2>3. TaskIn(queue, a) = IF his = {} THEN << >> ELSE <<queue[CHOOSE i \in his : TRUE].task>>
    BY DEF TaskIn
  <2> HIDE DEF mine, his
  <2> QED
    BY <2>1, <2>2, <2>3
<1>2. InPool(a)' = TaskIn(queue', a)
  <2> DEFINE mine == {i \in DOMAIN queue' : Queued(i, a)'}
             his == {i \in DOMAIN queue' : queue'[i].act = a}
  <2>1. mine = his
    BY DEF Queued
  <2>2. InPool(a)' = IF mine = {} THEN << >> ELSE <<queue'[CHOOSE i \in mine : TRUE].task>>
    BY DEF InPool
  <2>3. TaskIn(queue', a) = IF his = {} THEN << >> ELSE <<queue'[CHOOSE i \in his : TRUE].task>>
    BY DEF TaskIn
  <2> HIDE DEF mine, his
  <2> QED
    BY <2>1, <2>2, <2>3
<1>3. CurrentOf(a) = TaskRun(at, job, a) /\ CurrentOf(a)' = TaskRun(at', job', a)
  BY DEF CurrentOf, Running, TaskRun, Act
<1> QED
  BY <1>1, <1>2, <1>3 DEF PendingOf, Later

LEMMA SoleQueue == PoolTypes /\ OneTaskPerActor => Sole(queue)
<1> SUFFICES ASSUME PoolTypes, OneTaskPerActor,
                    NEW i \in DOMAIN queue, NEW k \in DOMAIN queue,
                    queue[i].act = queue[k].act
             PROVE  i = k
  BY DEF Sole
<1>1. queue[i] \in Jobs
  <2>1. queue \in Seq(Jobs) /\ DOMAIN queue = 1 .. Len(queue)
    BY DEF PoolTypes, TypeOK
  <2> QED
    BY <2>1
<1>2. queue[i].act \in Actors
  BY <1>1 DEF Jobs
<1> QED
  BY <1>2 DEF OneTaskPerActor, Queued

-----------------------------------------------------------------------------
(***************************************************************************)
(* Each step of the abstract queues, actor by actor.                       *)
(***************************************************************************)
LEMMA StayAbstract ==
  ASSUME \A a \in Actors : PendingOf(a)' = PendingOf(a) /\ CurrentOf(a)' = CurrentOf(a),
         stopped' = stopped
  PROVE  [Q!Next]_(Q!queues)
  BY DEF Q!queues

LEMMA SubmitAbstract ==
  ASSUME NEW b \in Actors, NEW t \in Tasks,
         PendingOf(b)' = Append(PendingOf(b), t),
         \A a \in Actors : a # b => PendingOf(a)' = PendingOf(a),
         \A a \in Actors : CurrentOf(a)' = CurrentOf(a),
         stopped' = stopped
  PROVE  [Q!Next]_(Q!queues)
<1>1. Q!Submit(b, t)
  BY DEF Q!Submit
<1> QED
  BY <1>1 DEF Q!Next

LEMMA StartAbstract ==
  ASSUME NEW b \in Actors,
         CurrentOf(b) = None, PendingOf(b) # << >>,
         CurrentOf(b)' = Head(PendingOf(b)), PendingOf(b)' = Tail(PendingOf(b)),
         \A a \in Actors :
           a # b => PendingOf(a)' = PendingOf(a) /\ CurrentOf(a)' = CurrentOf(a),
         stopped' = stopped
  PROVE  [Q!Next]_(Q!queues)
<1>1. Q!Start(b)
  BY DEF Q!Start
<1> QED
  BY <1>1 DEF Q!Next

LEMMA EndAbstract ==
  ASSUME NEW b \in Actors, CurrentOf(b) # None, CurrentOf(b)' = None,
         \A a \in Actors : PendingOf(a)' = PendingOf(a),
         \A a \in Actors : a # b => CurrentOf(a)' = CurrentOf(a),
         stopped' = stopped
  PROVE  [Q!Next]_(Q!queues)
<1>1. Q!End(b)
  BY DEF Q!End
<1> QED
  BY <1>1 DEF Q!Next

LEMMA StopAbstract ==
  ASSUME NEW S \in SUBSET Actors,
         \A a \in S : PendingOf(a) # << >>,
         \A a \in Actors :
           PendingOf(a)' = IF a \in S THEN Tail(PendingOf(a)) ELSE PendingOf(a),
         \A a \in Actors : CurrentOf(a)' = CurrentOf(a),
         stopped' = TRUE
  PROVE  [Q!Next]_(Q!queues)
<1>1. Q!Drop(S)
  BY DEF Q!Drop
<1>2. S \in SUBSET {a \in Actors : [x \in Actors |-> PendingOf(x)][a] # << >>}
  OBVIOUS
<1>3. Q!Stop
  BY <1>1, <1>2 DEF Q!Stop
<1> QED
  BY <1>3 DEF Q!Next

-----------------------------------------------------------------------------
(***************************************************************************)
(* The steps of the pool.                                                  *)
(***************************************************************************)
PoolInv == PoolTypes /\ TaskInv /\ QueueInv

\* Threads that enter, look for a queue or are not let in.
LEMMA WaitingImplements ==
  ASSUME PoolInv, NEW th \in Threads, LockActor(th) \/ PendingRunnablesOf(th)
  PROVE  [Q!Next]_(Q!queues)
<1> USE DistinctThreads DEF table, history, Act
<1>0. /\ at \in [Threads -> Steps] /\ acts \in [Actors -> Seq(Tasks) \cup {None}]
      /\ None \notin Seq(Tasks) /\ << >> \in Seq(Tasks)
  BY PoolAssumption DEF PoolInv, PoolTypes, TypeOK
<1>1. UNCHANGED <<queue, stopped, job>>
  BY DEF LockActor, PendingRunnablesOf, ReadLock, Get, WriteLock, Put
<1>2. at[th] # "run" /\ at'[th] # "run" /\ \A k \in Threads \ {th} : at'[k] = at[k]
  BY <1>0 DEF LockActor, PendingRunnablesOf, ReadLock, Get, WriteLock, Put, Goto
<1>3. \A a \in Actors : Later(acts'[a]) = Later(acts[a])
  BY <1>0 DEF LockActor, PendingRunnablesOf, ReadLock, Get, WriteLock, Put, PoolInv, QueueInv,
              Later
<1>4. \A a \in Actors : PendingOf(a)' = PendingOf(a)
  BY <1>1, <1>3, Abstraction
<1>5. \A a \in Actors : CurrentOf(a)' = CurrentOf(a)
  BY <1>1, <1>2, CurrentKept, Abstraction
<1> QED
  BY <1>1, <1>4, <1>5, StayAbstract

LEMMA ArrivalImplements ==
  ASSUME PoolInv, NEW s \in Submitters, Submit(s) \/ CheckPlaying(s)
  PROVE  [Q!Next]_(Q!queues)
<1> USE DistinctThreads DEF table, history
<1>1. UNCHANGED <<acts, queue, stopped>>
  BY DEF Submit, CheckPlaying
<1>2. \A k \in Threads \ {s} : at'[k] = at[k] /\ job'[k] = job[k]
  BY DEF Submit, CheckPlaying, Goto, PoolInv, PoolTypes, TypeOK
<1>3. \A a \in Actors : PendingOf(a)' = PendingOf(a)
  BY <1>1, Abstraction
<1>4. \A a \in Actors : CurrentOf(a)' = CurrentOf(a)
  BY <1>2, CurrentKept, Abstraction
<1> QED
  BY <1>1, <1>3, <1>4, StayAbstract

\* What leaving the braces of synchronized (act) means for the tasks that run.
LEMMA LeaveKeeps ==
  ASSUME PoolInv, NEW th \in Threads, at[th] # "run", Leave(th)
  PROVE  \A a \in Actors : CurrentOf(a)' = CurrentOf(a)
<1>1. /\ at'[th] = "idle"
      /\ \A k \in Threads \ {th} : at'[k] = at[k] /\ job'[k] = job[k]
  BY DEF Leave, Goto, PoolInv, PoolTypes, TypeOK
<1> QED
  BY <1>1, CurrentKept, Abstraction

LEMMA ExecuteFirstImplements ==
  ASSUME PoolInv, NEW s \in Submitters, ExecuteFirst(s)
  PROVE  [Q!Next]_(Q!queues)
<1> USE DistinctThreads DEF table, history
<1>1. /\ at[s] = "execute" /\ Leave(s) /\ UNCHANGED <<acts, stopped>>
      /\ queue' = IF stopped THEN queue ELSE Append(queue, job[s])
      /\ queue \in Seq(Jobs)
  BY DEF ExecuteFirst, Execute, PoolInv, PoolTypes, TypeOK
<1>2. PICK j \in Jobs : j = job[s]
  BY <1>1 DEF PoolInv, PoolTypes, JobsFit
<1>3. j.act \in Actors /\ j.task \in Tasks
  BY DEF Jobs
<1>4. \A a \in Actors : CurrentOf(a)' = CurrentOf(a)
  BY <1>1, LeaveKeeps
<1>5. CASE stopped
  <2>1. \A a \in Actors : PendingOf(a)' = PendingOf(a)
    BY <1>1, <1>5, Abstraction
  <2> QED
    BY <1>1, <1>4, <2>1, StayAbstract
<1>6. CASE ~ stopped
  <2>1. Later(acts[j.act]) = << >>
    BY <1>1, <1>2, <1>6 DEF PoolInv, QueueInv, Act, Later
  <2>2. Active(s, j.act)
    BY <1>1, <1>2 DEF Active, Act
  <2>3. \A i \in DOMAIN queue : queue[i].act # j.act
    BY <1>3, <2>2 DEF PoolInv, TaskInv, OneTaskPerActor, Queued
  <2>4. Sole(queue) /\ queue' = Append(queue, j)
    BY <1>1, <1>2, <1>6, SoleQueue DEF PoolInv, TaskInv
  <2>5. \A a : TaskIn(queue', a) = IF a = j.act THEN <<j.task>> ELSE TaskIn(queue, a)
    BY <1>1, <2>3, <2>4, TaskInAppend
  <2>6. TaskIn(queue, j.act) = << >>
    BY <2>3, TaskInIs
  <2>7. \A a \in Actors : a # j.act => PendingOf(a)' = PendingOf(a)
    BY <1>1, <2>5, Abstraction
  <2>8. PendingOf(j.act) = << >> \o << >> /\ PendingOf(j.act)' = <<j.task>> \o << >>
    BY <1>1, <2>1, <2>5, <2>6, Abstraction
  <2>9. <<j.task>> \o << >> = Append(<< >> \o << >>, j.task)
    OBVIOUS
  <2>10. PendingOf(j.act)' = Append(PendingOf(j.act), j.task)
    BY <2>8, <2>9
  <2> QED
    BY <1>1, <1>3, <1>4, <2>7, <2>10, SubmitAbstract
<1> QED
  BY <1>5, <1>6

LEMMA AddPendingImplements ==
  ASSUME PoolInv, NEW s \in Submitters, AddPending(s)
  PROVE  [Q!Next]_(Q!queues)
<1> USE DistinctThreads DEF table, history
<1>1. /\ at[s] = "pending" /\ Leave(s) /\ UNCHANGED <<queue, stopped>>
      /\ acts' = [acts EXCEPT ![Act(s)] = Append(@, job[s].task)]
      /\ queue \in Seq(Jobs) /\ acts \in [Actors -> Seq(Tasks) \cup {None}]
  BY DEF AddPending, PoolInv, PoolTypes, TypeOK
<1>2. PICK j \in Jobs : j = job[s] /\ acts[j.act] \in Seq(Tasks)
  BY <1>1 DEF PoolInv, PoolTypes, JobsFit, Act
<1>3. j.act \in Actors /\ j.task \in Tasks
  BY DEF Jobs
<1>4. \A a \in Actors : CurrentOf(a)' = CurrentOf(a)
  BY <1>1, LeaveKeeps
<1>5. /\ acts'[j.act] = Append(acts[j.act], j.task)
      /\ \A a \in Actors : a # j.act => acts'[a] = acts[a]
  BY <1>1, <1>2, <1>3 DEF Act
<1>6. Append(acts[j.act], j.task) \in Seq(Tasks)
  BY <1>2, <1>3, Joined
<1>7. /\ Later(acts[j.act]) = acts[j.act]
      /\ Later(acts'[j.act]) = Append(acts[j.act], j.task)
  BY <1>2, <1>5, <1>6, PoolAssumption DEF Later
<1>8. \A a \in Actors : a # j.act => PendingOf(a)' = PendingOf(a)
  BY <1>1, <1>5, Abstraction
<1>9. TaskIn(queue, j.act) \o Append(acts[j.act], j.task)
        = Append(TaskIn(queue, j.act) \o acts[j.act], j.task)
  <2>1. CASE TaskIn(queue, j.act) = << >>
    BY <1>2, <1>3, <1>6, <2>1, Joined
  <2>2. CASE \E t \in Tasks : TaskIn(queue, j.act) = <<t>>
    <3>1. PICK t \in Tasks : TaskIn(queue, j.act) = <<t>>
      BY <2>2
    <3>2. <<t>> \o Append(acts[j.act], j.task) = Append(<<t>> \o acts[j.act], j.task)
      BY <1>2, <1>3, Joined
    <3> QED
      BY <3>1, <3>2
  <2> QED
    BY <1>1, <2>1, <2>2, TaskInType
<1>10. PendingOf(j.act)' = Append(PendingOf(j.act), j.task)
  BY <1>1, <1>7, <1>9, Abstraction
<1> QED
  BY <1>1, <1>3, <1>4, <1>8, <1>10, SubmitAbstract

\* What an actor has pending, as a sequence of tasks.
LEMMA LaterType == ASSUME PoolInv, NEW a \in Actors PROVE Later(acts[a]) \in Seq(Tasks)
<1>1. acts[a] \in Seq(Tasks) \cup {None} /\ << >> \in Seq(Tasks)
  BY DEF PoolInv, PoolTypes, TypeOK
<1> QED
  BY <1>1 DEF Later

LEMMA ShutdownImplements ==
  ASSUME PoolInv, NEW s \in Submitters, Shutdown(s)
  PROVE  [Q!Next]_(Q!queues)
<1>1. /\ stopped' = TRUE /\ queue' = << >> /\ UNCHANGED <<acts, at, job>>
      /\ queue \in Seq(Jobs)
  BY DEF Shutdown, table, PoolInv, PoolTypes, TypeOK
<1> DEFINE S == {a \in Actors : TaskIn(queue, a) # << >>}
<1>2. \A a \in Actors : CurrentOf(a)' = CurrentOf(a)
  BY <1>1, Abstraction
<1>3. \A a \in Actors : TaskIn(queue', a) = << >>
  BY <1>1, TaskInIs
<1>4. ASSUME NEW a \in Actors
      PROVE  /\ PendingOf(a)' = Later(acts[a])
             /\ TaskIn(queue, a) = << >> => PendingOf(a) = Later(acts[a])
             /\ TaskIn(queue, a) # << >> => /\ PendingOf(a) # << >>
                                            /\ Tail(PendingOf(a)) = Later(acts[a])
  <2>1. Later(acts[a]) \in Seq(Tasks)
    BY LaterType
  <2>2. << >> \o Later(acts[a]) = Later(acts[a])
    BY <2>1
  <2>3. ASSUME NEW t \in Tasks, TaskIn(queue, a) = <<t>>
        PROVE  PendingOf(a) # << >> /\ Tail(PendingOf(a)) = Later(acts[a])
    <3>1. PendingOf(a) = <<t>> \o Later(acts[a])
      BY <2>3, Abstraction
    <3> QED
      BY <2>1, <3>1, Joined
  <2> QED
    BY <1>1, <1>3, <2>2, <2>3, TaskInType, Abstraction
<1>5. S \in SUBSET Actors
  OBVIOUS
<1>6. /\ \A a \in S : PendingOf(a) # << >>
      /\ \A a \in Actors :
           PendingOf(a)' = IF a \in S THEN Tail(PendingOf(a)) ELSE PendingOf(a)
  BY <1>4
<1> HIDE DEF S
<1> QED
  BY <1>1, <1>2, <1>5, <1>6, StopAbstract

LEMMA TakeImplements ==
  ASSUME PoolInv, NEW w \in Workers, Take(w)
  PROVE  [Q!Next]_(Q!queues)
<1> USE DistinctThreads
<1>1. /\ at[w] = "idle" /\ queue # << >> /\ queue' = Tail(queue)
      /\ job' = [job EXCEPT ![w] = Head(queue)] /\ at' = [at EXCEPT ![w] = "run"]
      /\ UNCHANGED <<acts, stopped>>
      /\ at \in [Threads -> Steps] /\ job \in [Threads -> Jobs \cup {NoJob}]
      /\ queue \in Seq(Jobs)
  BY DEF Take, Goto, table, PoolInv, PoolTypes, TypeOK
<1>2. PICK j \in Jobs : j = Head(queue)
  BY <1>1, QueuePop
<1>3. j.act \in Actors /\ j.task \in Tasks
  BY DEF Jobs
<1>4. Queued(1, j.act) /\ 1 \in DOMAIN queue
  BY <1>1, <1>2, QueuePop DEF Queued
<1>5. \A k \in Threads : ~ Active(k, j.act)
  BY <1>3, <1>4 DEF PoolInv, TaskInv, OneTaskPerActor
<1>6. /\ at'[w] = "run" /\ job'[w] = j
      /\ \A k \in Workers : k # w => at'[k] = at[k] /\ job'[k] = job[k]
  BY <1>1, <1>2
<1>7. \A k \in Workers : ~ (at[k] = "run" /\ job[k].act = j.act)
  BY <1>5 DEF Active, Act
<1>8. CurrentOf(j.act) = None
  BY <1>7, TaskRunIs, Abstraction
<1>9. CurrentOf(j.act)' = j.task
  <2>1. \A k \in Workers : at'[k] = "run" /\ job'[k].act = j.act => k = w
    BY <1>6, <1>7
  <2>2. TaskRun(at', job', j.act) = job'[w].task
    BY <1>6, <2>1, TaskRunIs
  <2> QED
    BY <1>6, <2>2, Abstraction
<1>10. ASSUME NEW a \in Actors, a # j.act
       PROVE  CurrentOf(a)' = CurrentOf(a)
  <2>1. CASE \A k \in Workers : ~ (at[k] = "run" /\ job[k].act = a)
    <3>1. \A k \in Workers : ~ (at'[k] = "run" /\ job'[k].act = a)
      BY <1>6, <1>10, <2>1
    <3>2. TaskRun(at, job, a) = None
      BY <2>1, TaskRunIs
    <3>3. TaskRun(at', job', a) = None
      BY <3>1, TaskRunIs
    <3> QED
      BY <3>2, <3>3, Abstraction
  <2>2. CASE \E k \in Workers : at[k] = "run" /\ job[k].act = a
    <3>1. PICK k \in Workers : at[k] = "run" /\ job[k].act = a
      BY <2>2
    <3>2. \A l \in Workers : at[l] = "run" /\ job[l].act = a => l = k
      BY <3>1 DEF PoolInv, TaskInv, OneTaskPerActor, Active, Act
    <3>3. k # w
      BY <1>1, <3>1
    <3>4. /\ at'[k] = "run" /\ job'[k] = job[k] /\ job'[k].act = a
          /\ \A l \in Workers : at'[l] = "run" /\ job'[l].act = a => l = k
      BY <1>6, <1>10, <3>1, <3>2, <3>3
    <3>5. TaskRun(at, job, a) = job[k].task
      BY <3>1, <3>2, TaskRunIs
    <3>6. TaskRun(at', job', a) = job'[k].task
      BY <3>4, TaskRunIs
    <3> QED
      BY <3>4, <3>5, <3>6, Abstraction
  <2> QED
    BY <2>1, <2>2
<1>11. Sole(queue)
  BY SoleQueue DEF PoolInv, TaskInv
<1>12. /\ \A a : TaskIn(queue', a) = IF a = j.act THEN << >> ELSE TaskIn(queue, a)
       /\ TaskIn(queue, j.act) = <<j.task>>
  BY <1>1, <1>2, <1>11, TaskInTail
<1>13. \A a \in Actors : a # j.act => PendingOf(a)' = PendingOf(a)
  BY <1>1, <1>12, Abstraction
<1>14. Later(acts[j.act]) \in Seq(Tasks)
  BY <1>3, LaterType
<1>15. /\ PendingOf(j.act) = <<j.task>> \o Later(acts[j.act])
       /\ PendingOf(j.act)' = << >> \o Later(acts[j.act])
  BY <1>1, <1>12, Abstraction
<1>16. /\ PendingOf(j.act) # << >> /\ Head(PendingOf(j.act)) = j.task
       /\ Tail(PendingOf(j.act)) = PendingOf(j.act)'
  BY <1>3, <1>14, <1>15, Joined
<1> QED
  BY <1>1, <1>3, <1>8, <1>9, <1>10, <1>13, <1>16, StartAbstract

LEMMA RunImplements ==
  ASSUME PoolInv, NEW w \in Workers, Run(w)
  PROVE  [Q!Next]_(Q!queues)
<1> USE DistinctThreads
<1>1. /\ at[w] = "run" /\ at' = [at EXCEPT ![w] = "lock"]
      /\ UNCHANGED <<acts, queue, stopped, job>>
      /\ at \in [Threads -> Steps]
  BY DEF Run, Goto, table, PoolInv, PoolTypes, TypeOK
<1>2. PICK j \in Jobs : j = job[w]
  BY <1>1 DEF PoolInv, PoolTypes, JobsFit
<1>3. j.act \in Actors /\ j.task \in Tasks
  BY DEF Jobs
<1>4. \A k \in Workers : at[k] = "run" /\ job[k].act = j.act => k = w
  BY <1>1, <1>2, <1>3 DEF PoolInv, TaskInv, OneTaskPerActor, Active, Act
<1>5. at'[w] = "lock" /\ \A k \in Workers : k # w => at'[k] = at[k]
  BY <1>1
<1>6. CurrentOf(j.act) # None
  <2>1. TaskRun(at, job, j.act) = j.task
    BY <1>1, <1>2, <1>4, TaskRunIs
  <2> QED
    BY <1>3, <2>1, Abstraction
<1>7. CurrentOf(j.act)' = None
  <2>1. \A k \in Workers : ~ (at'[k] = "run" /\ job'[k].act = j.act)
    BY <1>1, <1>4, <1>5
  <2>2. TaskRun(at', job', j.act) = None
    BY <2>1, TaskRunIs
  <2> QED
    BY <2>2, Abstraction
<1>8. ASSUME NEW a \in Actors, a # j.act
      PROVE  CurrentOf(a)' = CurrentOf(a)
  <2> DEFINE mine == {k \in Workers : at[k] = "run" /\ job[k].act = a}
             new == {k \in Workers : at'[k] = "run" /\ job[k].act = a}
  <2>1. mine = new
    BY <1>2, <1>5, <1>8
  <2>2. TaskRun(at, job, a) = IF mine = {} THEN None ELSE job[CHOOSE k \in mine : TRUE].task
    BY DEF TaskRun
  <2>3. TaskRun(at', job, a) = IF new = {} THEN None ELSE job[CHOOSE k \in new : TRUE].task
    BY DEF TaskRun
  <2> HIDE DEF mine, new
  <2>4. TaskRun(at', job, a) = TaskRun(at, job, a)
    BY <2>1, <2>2, <2>3
  <2> QED
    BY <1>1, <2>4, Abstraction
<1>9. \A a \in Actors : PendingOf(a)' = PendingOf(a)
  BY <1>1, Abstraction
<1> QED
  BY <1>1, <1>3, <1>6, <1>7, <1>8, <1>9, EndAbstract

LEMMA CompleteImplements ==
  ASSUME PoolInv, NEW w \in Workers, Complete(w)
  PROVE  [Q!Next]_(Q!queues)
<1> USE DistinctThreads
<1>1. PICK b \in Actors : b = job[w].act
  BY DEF Complete, PoolInv, PoolTypes, JobsFit, Jobs
<1>2. /\ at[w] = "pending" /\ Leave(w) /\ acts[b] \in Seq(Tasks) /\ UNCHANGED stopped
      /\ queue \in Seq(Jobs) /\ acts \in [Actors -> Seq(Tasks) \cup {None}]
      /\ stopped \in BOOLEAN
  BY <1>1 DEF Complete, PoolInv, PoolTypes, TypeOK, JobsFit, Act
<1>3. \A a \in Actors : CurrentOf(a)' = CurrentOf(a)
  BY <1>2, LeaveKeeps
<1>4. Active(w, b)
  BY <1>1, <1>2 DEF Active, Act
<1>5. \A i \in DOMAIN queue : queue[i].act # b
  BY <1>4 DEF PoolInv, TaskInv, OneTaskPerActor, Queued
<1>6. TaskIn(queue, b) = << >>
  BY <1>5, TaskInIs
<1>7. CASE acts[b] = << >>
  <2>1. UNCHANGED <<acts, queue>>
    BY <1>1, <1>7 DEF Complete, Act
  <2>2. \A a \in Actors : PendingOf(a)' = PendingOf(a)
    BY <2>1, Abstraction
  <2> QED
    BY <1>2, <1>3, <2>2, StayAbstract
<1>8. CASE acts[b] # << >>
  <2>1. Head(acts[b]) \in Tasks /\ Tail(acts[b]) \in Seq(Tasks)
    BY <1>2, <1>8
  <2>2. PICK j \in Jobs : j = [task |-> Head(acts[b]), act |-> b]
    BY <2>1 DEF Jobs
  <2>3. /\ acts' = [acts EXCEPT ![b] = Tail(@)]
        /\ queue' = IF stopped THEN queue ELSE Append(queue, j)
    BY <1>1, <1>8, <2>2 DEF Complete, Execute, Act
  <2>4. /\ acts'[b] = Tail(acts[b])
        /\ \A a \in Actors : a # b => acts'[a] = acts[a]
    BY <1>2, <2>3
  <2>5. Later(acts[b]) = acts[b] /\ Later(acts'[b]) = Tail(acts[b])
    BY <1>2, <2>1, <2>4, PoolAssumption DEF Later
  <2>6. PendingOf(b) = acts[b]
    <3>1. << >> \o acts[b] = acts[b]
      BY <1>2
    <3> QED
      BY <1>6, <2>5, <3>1, Abstraction
  <2>7. CASE stopped
    <3>1. \A a \in Actors : a # b => PendingOf(a)' = PendingOf(a)
      BY <2>3, <2>4, <2>7, Abstraction
    <3>2. << >> \o Tail(acts[b]) = Tail(acts[b])
      BY <2>1
    <3>3. PendingOf(b)' = Tail(PendingOf(b))
      BY <1>6, <2>3, <2>5, <2>6, <2>7, <3>2, Abstraction
    <3>4. /\ {b} \in SUBSET Actors /\ \A a \in {b} : PendingOf(a) # << >>
          /\ \A a \in Actors :
               PendingOf(a)' = IF a \in {b} THEN Tail(PendingOf(a)) ELSE PendingOf(a)
      BY <1>8, <2>6, <3>1, <3>3
    <3>5. stopped' = TRUE
      BY <1>2, <2>7
    <3> QED
      BY <1>3, <3>4, <3>5, StopAbstract
  <2>8. CASE ~ stopped
    <3>1. Sole(queue)
      BY SoleQueue DEF PoolInv, TaskInv
    <3>2. \A i \in DOMAIN queue : queue[i].act # j.act
      BY <1>5, <2>2
    <3>3. \A a : TaskIn(queue', a) = IF a = b THEN <<j.task>> ELSE TaskIn(queue, a)
      BY <1>2, <2>2, <2>3, <2>8, <3>1, <3>2, TaskInAppend
    <3>4. \A a \in Actors : a # b => PendingOf(a)' = PendingOf(a)
      BY <2>4, <3>3, Abstraction
    <3>5. <<Head(acts[b])>> \o Tail(acts[b]) = acts[b]
      BY <1>2, <1>8, <2>1, Joined
    <3>6. PendingOf(b)' = PendingOf(b)
      BY <2>2, <2>5, <2>6, <3>3, <3>5, Abstraction
    <3> QED
      BY <1>2, <1>3, <3>4, <3>6, StayAbstract
  <2> QED
    BY <1>2, <2>7, <2>8
<1> QED
  BY <1>7, <1>8

-----------------------------------------------------------------------------
LEMMA InitAbstract == Init => Q!Init
<1> SUFFICES ASSUME Init PROVE Q!Init
  OBVIOUS
<1>1. ASSUME NEW a \in Actors
      PROVE  PendingOf(a) = << >> /\ CurrentOf(a) = None
  <2>1. TaskIn(queue, a) = << >>
    BY TaskInIs DEF Init
  <2>2. Later(acts[a]) = << >>
    BY DEF Init, Later
  <2>3. TaskRun(at, job, a) = None
    BY TaskRunIs, DistinctThreads DEF Init
  <2>4. << >> \o << >> = << >>
    OBVIOUS
  <2> QED
    BY <2>1, <2>2, <2>3, <2>4, Abstraction
<1> QED
  BY <1>1 DEF Init, Q!Init

LEMMA InitQueue == Init => QueueInv
  BY DistinctThreads DEF Init, QueueInv

LEMMA NextAbstract == PoolInv /\ [Next]_vars => [Q!Next]_(Q!queues)
<1> SUFFICES ASSUME PoolInv, [Next]_vars PROVE [Q!Next]_(Q!queues)
  OBVIOUS
<1>1. CASE \E s \in Submitters : Submit(s) \/ Shutdown(s) \/ SubmitterStep(s)
  BY <1>1, DistinctThreads, ArrivalImplements, ShutdownImplements, ExecuteFirstImplements,
     AddPendingImplements, WaitingImplements
  DEF SubmitterStep
<1>2. CASE \E w \in Workers : WorkerStep(w)
  BY <1>2, DistinctThreads, TakeImplements, RunImplements, CompleteImplements,
     WaitingImplements
  DEF WorkerStep
<1>3. CASE UNCHANGED vars
  <2>1. UNCHANGED <<queue, acts, at, job, stopped>>
    BY <1>3 DEF vars
  <2>2. \A a \in Actors : PendingOf(a)' = PendingOf(a) /\ CurrentOf(a)' = CurrentOf(a)
    BY <2>1, Abstraction
  <2> QED
    BY <2>1, <2>2, StayAbstract
<1> QED
  BY <1>1, <1>2, <1>3 DEF Next, Quiescent

\* The pool implements a queue for each actor: whatever threads submit and
\* work, the tasks of one actor run one at a time and in the order submit
\* accepted them, and only a shutdown loses any (submit, complete).
THEOREM PoolImplementsQueues == Spec => ActorQueuesImplemented
<1>1. Init => PoolInv
  BY InitPool, InitQueue DEF PoolInv
<1>2. PoolInv /\ [Next]_vars => PoolInv'
  BY NextPool, NextQueue DEF PoolInv
<1> QED
  BY <1>1, <1>2, InitAbstract, NextAbstract, PTL DEF Spec, ActorQueuesImplemented, Q!Spec
=============================================================================
