SPECIFICATION FairSpec
CONSTANTS
  Actors = {a1, a2}
  Tasks = {t1, t2, t3}
  Submitters = {s1, s2}
  Workers = {w1, w2}
  None = None
PROPERTY TasksRun
INVARIANT OneTaskPerActor
INVARIANT NoStrandedTask
PROPERTY ActorQueuesImplemented
