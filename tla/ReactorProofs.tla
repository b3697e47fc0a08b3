---------------------------- MODULE ReactorProofs ----------------------------
(***************************************************************************)
(* Theorems about the reactor, for every number of connections and frames. *)
(***************************************************************************)
EXTENDS Reactor, SequenceTheorems, TLAPS

-----------------------------------------------------------------------------
ReactorTypes ==
  SharedTypes /\ SelectorTypes /\ StreamTypes /\ SelectorFits /\ WorkersFit

-----------------------------------------------------------------------------
(***************************************************************************)
(* Sequences without duplicates.                                           *)
(***************************************************************************)
LEMMA AppendElements ==
  ASSUME NEW S, NEW s \in Seq(S), NEW e \in S
  PROVE  /\ Elements(Append(s, e)) = Elements(s) \cup {e}
         /\ NoDuplicates(s) /\ e \notin Elements(s) => NoDuplicates(Append(s, e))
<1>1. /\ Len(s) \in Nat /\ DOMAIN s = 1 .. Len(s)
      /\ DOMAIN Append(s, e) = 1 .. (Len(s) + 1)
      /\ Append(s, e)[Len(s) + 1] = e
      /\ \A i \in 1 .. Len(s) : Append(s, e)[i] = s[i]
  OBVIOUS
<1>2. 1 .. (Len(s) + 1) = (1 .. Len(s)) \cup {Len(s) + 1} /\ Len(s) + 1 \notin 1 .. Len(s)
  BY <1>1
<1>3. Elements(Append(s, e)) = Elements(s) \cup {e}
  BY <1>1, <1>2, Zenon DEF Elements
<1>4. ASSUME NoDuplicates(s), e \notin Elements(s) PROVE NoDuplicates(Append(s, e))
  BY <1>1, <1>2, <1>4 DEF Elements, NoDuplicates
<1> QED
  BY <1>3, <1>4

LEMMA TailElements ==
  ASSUME NEW S, NEW s \in Seq(S), s # << >>
  PROVE  /\ Head(s) \in S /\ Tail(s) \in Seq(S)
         /\ Elements(s) = {Head(s)} \cup Elements(Tail(s))
         /\ NoDuplicates(s) =>
              NoDuplicates(Tail(s)) /\ Head(s) \notin Elements(Tail(s))
<1>1. /\ Len(s) \in Nat \ {0} /\ DOMAIN s = 1 .. Len(s)
      /\ Tail(s) \in Seq(S)
      /\ DOMAIN Tail(s) = 1 .. (Len(s) - 1)
      /\ Head(s) = s[1] /\ Head(s) \in S
      /\ \A i \in 1 .. (Len(s) - 1) : Tail(s)[i] = s[i + 1]
  OBVIOUS
<1>2. \A i \in 1 .. Len(s) : i = 1 \/ (i - 1 \in 1 .. (Len(s) - 1) /\ (i - 1) + 1 = i)
  BY <1>1
<1>3. \A i \in 1 .. (Len(s) - 1) : i + 1 \in 1 .. Len(s) /\ i + 1 # 1
  BY <1>1
<1>4. Elements(s) = {Head(s)} \cup Elements(Tail(s))
  <2>1. ASSUME NEW x \in Elements(s) PROVE x \in {Head(s)} \cup Elements(Tail(s))
    <3>1. PICK i \in 1 .. Len(s) : x = s[i]
      BY <1>1, <2>1 DEF Elements
    <3>2. CASE i = 1
      BY <1>1, <3>1, <3>2
    <3>3. CASE i - 1 \in 1 .. (Len(s) - 1) /\ (i - 1) + 1 = i
      BY <1>1, <3>1, <3>3 DEF Elements
    <3> QED
      BY <1>2, <3>2, <3>3
  <2>2. Head(s) \in Elements(s)
    BY <1>1 DEF Elements
  <2>3. ASSUME NEW x \in Elements(Tail(s)) PROVE x \in Elements(s)
    BY <1>1, <1>3, <2>3 DEF Elements
  <2> QED
    BY <2>1, <2>2, <2>3
<1>5. ASSUME NoDuplicates(s)
      PROVE  NoDuplicates(Tail(s)) /\ Head(s) \notin Elements(Tail(s))
  BY <1>1, <1>3, <1>5 DEF Elements, NoDuplicates
<1> QED
  BY <1>1, <1>4, <1>5

LEMMA TailFacts ==
  ASSUME NEW S, NEW s \in Seq(S), s # << >>
  PROVE  /\ Len(s) \in Nat \ {0} /\ DOMAIN s = 1 .. Len(s)
         /\ Head(s) = s[1] /\ s[1] \in S
         /\ Len(Tail(s)) = Len(s) - 1 /\ DOMAIN Tail(s) = 1 .. (Len(s) - 1)
         /\ \A i \in 1 .. (Len(s) - 1) : Tail(s)[i] = s[i + 1]
         /\ Tail(s) = << >> <=> Len(s) = 1
<1>1. Len(s) \in Nat \ {0} /\ DOMAIN s = 1 .. Len(s)
  OBVIOUS
<1>2. Head(s) = s[1] /\ s[1] \in S /\ Tail(s) \in Seq(S) /\ Len(Tail(s)) = Len(s) - 1
  BY <1>1
<1>3. DOMAIN Tail(s) = 1 .. (Len(s) - 1)
  BY <1>2
<1>4. \A i \in 1 .. (Len(s) - 1) : Tail(s)[i] = s[i + 1]
  BY <1>1, <1>2
<1>5. Tail(s) = << >> <=> Len(s) = 1
  BY <1>1, <1>2
<1> QED
  BY <1>1, <1>2, <1>3, <1>4, <1>5

LEMMA EmptyElements == Elements(<< >>) = {} /\ NoDuplicates(<< >>)
BY DEF Elements, NoDuplicates

-----------------------------------------------------------------------------
(***************************************************************************)
(* Types.                                                                  *)
(***************************************************************************)
LEMMA ConnsNaturals ==
  /\ Conns \subseteq Nat /\ None \notin Nat /\ None \notin Conns
  /\ MaxConnections \in Nat
  /\ \A n \in 0 .. MaxConnections : 0 .. (n - 1) \subseteq Conns
  BY ReactorAssumption DEF Conns

LEMMA InitTypes == Init => ReactorTypes
<1> SUFFICES ASSUME Init PROVE ReactorTypes
  OBVIOUS
<1> USE ConnsNaturals
<1>1. /\ bufferPool \in Seq(DOMAIN content) /\ selectorTasks \in Seq(Conns)
      /\ content \in Seq(Seq(Byte))
  BY DEF Init
<1>2. /\ pending \in [Conns -> Seq(DOMAIN content)]
      /\ writeQueue \in [Conns -> Seq({"RECEIPT", "ERROR", "MESSAGE"})]
      /\ sent \in [Conns -> Seq(Kinds)] /\ partial \in [Conns -> Seq(Byte)]
      /\ processed \in [Conns -> Seq(Nat)]
  BY DEF Init
<1>3. SharedTypes
  <2>1. connectionID \in 0 .. MaxConnections /\ lease \in (DOMAIN content) \cup {None}
    BY DEF Init
  <2>3. open \in [Conns -> BOOLEAN] /\ woken \in BOOLEAN
    BY DEF Init
  <2>0. interest \in [Conns -> SUBSET {"R", "W"}]
    BY Zenon DEF Init
  <2>2. /\ current \in [Conns -> (DOMAIN content) \cup {None}]
        /\ at \in [Conns -> Labels] /\ shouldTerminate \in [Conns -> BOOLEAN]
    BY DEF Init, Labels
  <2> QED
    BY <1>1, <1>2, <2>0, <2>1, <2>2, <2>3 DEF SharedTypes
<1>4. SelectorTypes /\ StreamTypes
  BY <1>1, <1>2 DEF Init, SelectorTypes, StreamTypes
<1>5. SelectorFits /\ WorkersFit
  BY DEF Init, SelectorFits, WorkersFit, AtKey
<1> QED
  BY <1>3, <1>4, <1>5 DEF ReactorTypes

LEMMA ClientTypes ==
  ASSUME ReactorTypes, NEW h \in Conns, ClientSends(h) \/ ClientLeaves(h)
  PROVE  ReactorTypes'
<1> USE DEF selector, tasks, buffers, outgoing, queues, worker
<1>1. sent' \in [Conns -> Seq(Kinds)]
  <2>1. CASE ClientSends(h)
    BY <2>1 DEF ClientSends, ReactorTypes, StreamTypes
  <2>2. CASE ClientLeaves(h)
    BY <2>2 DEF ClientLeaves, ReactorTypes, StreamTypes
  <2> QED
    BY <2>1, <2>2
<1>2. UNCHANGED <<taken, connectionID, open, interest, selector, lease, tasks, buffers,
                  outgoing, queues, worker, shouldTerminate, registered>>
  BY DEF ClientSends, ClientLeaves
<1>3. SharedTypes' /\ SelectorTypes'
  BY <1>2 DEF ReactorTypes, SharedTypes, SelectorTypes
<1>4. StreamTypes'
  BY <1>1, <1>2 DEF ReactorTypes, StreamTypes
<1>5. SelectorFits' /\ WorkersFit'
  BY <1>2 DEF ReactorTypes, SelectorFits, WorkersFit
<1> QED
  BY <1>3, <1>4, <1>5 DEF ReactorTypes

\* The steps of serve, the one that a waiting client wakes among them.
LEMMA ServeTypes ==
  ASSUME ReactorTypes, NEW accept \in BOOLEAN,
         \/ Select(accept) \/ RunSelectionThreadTasks \/ NextKey \/ KeysDone
         \/ IsReadable \/ IsWritable,
         UNCHANGED <<client, taken, connectionID, open, lease, buffers, outgoing, queues,
                     worker, shouldTerminate, registered>>
  PROVE  ReactorTypes'
<1> USE ConnsNaturals DEF client, buffers, outgoing, queues, worker, tasks
<1>1. StreamTypes' /\ WorkersFit'
  BY DEF ReactorTypes, StreamTypes, WorkersFit
<1>2. CASE Select(accept)
  <2>1. SharedTypes'
    BY <1>2 DEF Select, ReactorTypes, SharedTypes
  <2>2. SelectorTypes'
    BY <1>2 DEF Select, ReactorTypes, SharedTypes, SelectorTypes, Ready
  <2>3. SelectorFits'
    BY <1>2 DEF Select, ReactorTypes, SharedTypes, SelectorFits, AtKey
  <2> QED
    BY <1>1, <2>1, <2>2, <2>3 DEF ReactorTypes
<1>3. CASE RunSelectionThreadTasks
  <2>0. /\ selectorTasks \in Seq(Conns)
        /\ selectorTasks # << >> =>
             Head(selectorTasks) \in Conns /\ Tail(selectorTasks) \in Seq(Conns)
    BY DEF ReactorTypes, SharedTypes
  <2>1. selectorTasks' \in Seq(Conns)
    BY <1>3, <2>0 DEF RunSelectionThreadTasks
  <2>2. interest' \in [Conns -> SUBSET {"R", "W"}]
    BY <1>3, <2>0 DEF RunSelectionThreadTasks, ReactorTypes, SharedTypes
  <2>3. SharedTypes'
    BY <1>3, <2>1, <2>2 DEF RunSelectionThreadTasks, ReactorTypes, SharedTypes
  <2>4. SelectorTypes' /\ SelectorFits'
    BY <1>3 DEF RunSelectionThreadTasks, ReactorTypes, SelectorTypes, SelectorFits, AtKey
  <2> QED
    BY <1>1, <2>3, <2>4 DEF ReactorTypes
<1>4. CASE NextKey
  <2>1. SharedTypes'
    BY <1>4 DEF NextKey, ReactorTypes, SharedTypes
  <2>2. SelectorTypes' /\ SelectorFits'
    BY <1>4 DEF NextKey, ReactorTypes, SelectorTypes, SelectorFits, AtKey
  <2> QED
    BY <1>1, <2>1, <2>2 DEF ReactorTypes
<1>5. CASE KeysDone \/ IsReadable \/ IsWritable
  <2>1. SharedTypes'
    BY <1>5 DEF KeysDone, IsReadable, IsWritable, ReactorTypes, SharedTypes
  <2>2. SelectorTypes' /\ SelectorFits'
    BY <1>5 DEF KeysDone, IsReadable, IsWritable, Dies, NextIteration,
                ReactorTypes, SelectorTypes, SelectorFits, AtKey
  <2> QED
    BY <1>1, <2>1, <2>2 DEF ReactorTypes
<1> QED
  BY <1>2, <1>3, <1>4, <1>5

LEMMA HandleAcceptTypes ==
  ASSUME ReactorTypes, HandleAccept, UNCHANGED <<client, worker, shouldTerminate>>
  PROVE  ReactorTypes'
<1> USE ConnsNaturals DEF client, buffers, outgoing, queues, worker, tasks, HandleAccept
<1>1. connectionID' = connectionID + 1 /\ connectionID \in Conns
  BY DEF ReactorTypes, SharedTypes, SelectorFits, Conns
<1>2. SharedTypes'
  <2>1. connectionID' \in 0 .. MaxConnections
    BY <1>1 DEF Conns
  <2> QED
    BY <1>1, <2>1 DEF ReactorTypes, SharedTypes
<1>3. SelectorTypes' /\ StreamTypes' /\ SelectorFits'
  BY DEF ReactorTypes, SelectorTypes, StreamTypes, SelectorFits, AtKey
<1>4. WorkersFit'
  <2>1. 0 .. (connectionID - 1) \subseteq 0 .. (connectionID' - 1)
    BY <1>1
  <2>2. targets' \in [Conns -> SUBSET (0 .. (connectionID' - 1))]
    BY <2>1 DEF ReactorTypes, WorkersFit
  <2> QED
    BY <2>2 DEF ReactorTypes, WorkersFit
<1> QED
  BY <1>2, <1>3, <1>4 DEF ReactorTypes

\* The selector's end of a connection: reading and writing.
LEMMA ReadTypes ==
  ASSUME ReactorTypes, Read, UNCHANGED <<client, worker, shouldTerminate>>
  PROVE  ReactorTypes'
<1> USE ConnsNaturals DEF client, buffers, outgoing, queues, worker, tasks
<1>1. /\ bufferPool \in Seq(DOMAIN content) /\ content \in Seq(Seq(Byte))
      /\ Len(content) \in Nat /\ DOMAIN content = 1 .. Len(content)
      /\ pending \in [Conns -> Seq(DOMAIN content)]
      /\ current \in [Conns -> (DOMAIN content) \cup {None}]
  BY DEF ReactorTypes, SharedTypes, StreamTypes
<1>2. CASE LeaseBuffer
  <2>1. /\ content' \in Seq(Seq(Byte)) /\ bufferPool' \in Seq(DOMAIN content')
        /\ lease' \in DOMAIN content' /\ DOMAIN content \subseteq DOMAIN content'
    <3>1. CASE bufferPool = << >>
      <4>1. /\ content' = Append(content, << >>) /\ lease' = Len(content) + 1
            /\ bufferPool' = << >>
        BY <1>2, <3>1 DEF LeaseBuffer
      <4>2. << >> \in Seq(Byte)
        OBVIOUS
      <4>3. /\ content' \in Seq(Seq(Byte)) /\ DOMAIN content' = 1 .. (Len(content) + 1)
        BY <1>1, <4>1, <4>2
      <4> QED
        BY <1>1, <4>1, <4>3
    <3>2. CASE bufferPool # << >>
      <4>1. /\ content' = content /\ lease' = Head(bufferPool)
            /\ bufferPool' = Tail(bufferPool)
        BY <1>2, <3>2 DEF LeaseBuffer
      <4> QED
        BY <1>1, <3>2, <4>1
    <3> QED
      BY <3>1, <3>2
  <2>2. /\ pending' \in [Conns -> Seq(DOMAIN content')]
        /\ current' \in [Conns -> (DOMAIN content') \cup {None}]
    <3>1. \A h \in Conns : pending[h] \in Seq(DOMAIN content')
      BY <1>1, <2>1, SeqMonotonic, Zenon
    <3> QED
      BY <1>1, <1>2, <2>1, <3>1 DEF LeaseBuffer
  <2>3. SharedTypes'
    BY <1>2, <2>1, <2>2 DEF Read, LeaseBuffer, ReactorTypes, SharedTypes
  <2>4. StreamTypes' /\ WorkersFit'
    BY <1>2, <2>1 DEF Read, LeaseBuffer, ReactorTypes, StreamTypes, WorkersFit
  <2>5. lease' # None
    BY <2>1
  <2>6. SelectorTypes' /\ SelectorFits'
    BY <1>2, <2>5 DEF Read, LeaseBuffer, ReactorTypes, SelectorTypes, SelectorFits, AtKey
  <2> QED
    BY <2>3, <2>4, <2>6 DEF ReactorTypes
<1>3. CASE ContinueRead
  <2>1. key \in Conns /\ lease \in DOMAIN content /\ lease' = None /\ sel' = "isWritable"
    BY <1>3 DEF ContinueRead, ReactorTypes, SharedTypes, SelectorFits, AtKey
  <2>2. PICK n \in (taken[key] + 1) .. (2 * Len(sent[key])) :
          /\ content' = [content EXCEPT ![lease] = Bytes(key, taken[key] + 1, n)]
          /\ taken' = [taken EXCEPT ![key] = n]
    BY <1>3 DEF ContinueRead
  <2>3. taken[key] \in Nat /\ Len(sent[key]) \in Nat /\ n \in Nat
    BY <2>1, <2>2 DEF ReactorTypes, StreamTypes
  <2>4. Bytes(key, taken[key] + 1, n) \in Seq(Byte)
    <3>1. n - (taken[key] + 1) + 1 \in Nat
      BY <2>2, <2>3
    <3>2. \A i \in 1 .. (n - (taken[key] + 1) + 1) : <<key, (taken[key] + 1) + i - 1>> \in Byte
      BY <2>1, <2>3 DEF Byte
    <3> QED
      BY <3>1, <3>2 DEF Bytes
  <2>5. content' \in Seq(Seq(Byte)) /\ DOMAIN content' = DOMAIN content
    BY <1>1, <2>1, <2>2, <2>4
  <2>6. pending' \in [Conns -> Seq(DOMAIN content)] /\ UNCHANGED <<current, stopped>>
    BY <1>1, <1>3, <2>1 DEF ContinueRead, Pool!Submit
  <2>7. SharedTypes'
    BY <1>3, <2>1, <2>5, <2>6 DEF Read, ContinueRead, ReactorTypes, SharedTypes
  <2>8. SelectorTypes' /\ SelectorFits' /\ WorkersFit'
    BY <1>3, <2>1, <2>6 DEF Read, ContinueRead, ReactorTypes, SelectorTypes,
                      SelectorFits, WorkersFit, AtKey
  <2>9. StreamTypes'
    BY <1>3, <2>2, <2>3, <2>5 DEF Read, ContinueRead, ReactorTypes, StreamTypes
  <2> QED
    BY <2>7, <2>8, <2>9 DEF ReactorTypes
<1>4. CASE ReadFails
  <2>1. key \in Conns /\ lease \in DOMAIN content /\ lease' = None /\ sel' = "keys"
    BY <1>4 DEF ReadFails, NextIteration, ReactorTypes, SharedTypes, SelectorFits, AtKey
  <2>2. bufferPool' \in Seq(DOMAIN content)
    BY <1>1, <1>4, <2>1 DEF ReadFails
  <2>3. SharedTypes'
    BY <1>4, <2>1, <2>2 DEF Read, ReadFails, ReactorTypes, SharedTypes
  <2>4. SelectorTypes' /\ StreamTypes' /\ SelectorFits' /\ WorkersFit'
    BY <1>4, <2>1 DEF Read, ReadFails, NextIteration, ReactorTypes, SelectorTypes, StreamTypes,
                      SelectorFits, WorkersFit, AtKey
  <2> QED
    BY <2>3, <2>4 DEF ReactorTypes
<1> QED
  BY <1>2, <1>3, <1>4 DEF Read

LEMMA WriteTypes ==
  ASSUME ReactorTypes, Write, UNCHANGED <<client, worker, shouldTerminate>>
  PROVE  ReactorTypes'
<1> USE ConnsNaturals DEF client, buffers, outgoing, queues, worker, tasks
<1>1. sel \in AtKey /\ key \in Conns /\ lease = None
  BY DEF Write, ContinueWrite, WriteFails, WriteDone, Drained, Terminate,
         UpdateInterestedOps, ReactorTypes, SelectorFits, AtKey
<1>2. /\ sel' \in {"write", "drained", "terminate", "update", "keys", "dead"}
      /\ sel' \in AtKey => key' = key
      /\ key' \in {key, None}
      /\ ready' \in [Conns -> SUBSET {"R", "W"}]
  BY <1>1 DEF Write, ContinueWrite, WriteFails, WriteDone, Drained, Terminate, AtKey,
         UpdateInterestedOps, NextIteration, Dies, ReactorTypes, SelectorTypes
<1>3. /\ open' \in [Conns -> BOOLEAN] /\ interest' \in [Conns -> SUBSET {"R", "W"}]
  <2>1. open \in [Conns -> BOOLEAN] /\ interest \in [Conns -> SUBSET {"R", "W"}]
    BY DEF ReactorTypes, SharedTypes
  <2>2. \/ UNCHANGED open
        \/ open' = [open EXCEPT ![key] = FALSE]
    BY DEF Write, ContinueWrite, WriteFails, WriteDone, Drained, Terminate, UpdateInterestedOps
  <2>3. \/ UNCHANGED interest
        \/ interest' = [interest EXCEPT ![key] = {"R"}]
    BY DEF Write, ContinueWrite, WriteFails, WriteDone, Drained, Terminate, UpdateInterestedOps
  <2> QED
    BY <1>1, <2>1, <2>2, <2>3
<1>4. writeQueue' \in [Conns -> Seq({"RECEIPT", "ERROR", "MESSAGE"})]
  <2>1. writeQueue \in [Conns -> Seq({"RECEIPT", "ERROR", "MESSAGE"})]
    BY DEF ReactorTypes, SharedTypes
  <2>2. CASE ContinueWrite
    <3>1. /\ writeQueue[key] \in Seq({"RECEIPT", "ERROR", "MESSAGE"})
          /\ writeQueue[key] # << >>
      BY <1>1, <2>1, <2>2 DEF ContinueWrite
    <3>2. Tail(writeQueue[key]) \in Seq({"RECEIPT", "ERROR", "MESSAGE"})
      BY <3>1
    <3> QED
      BY <1>1, <2>1, <2>2, <3>2 DEF ContinueWrite
  <2>3. CASE ~ ContinueWrite
    BY <2>3 DEF Write, WriteFails, WriteDone, Drained, Terminate, UpdateInterestedOps,
                ReactorTypes, SharedTypes
  <2> QED
    BY <2>2, <2>3
<1>5. SharedTypes'
  BY <1>3, <1>4 DEF Write, ReactorTypes, SharedTypes
<1>6. SelectorTypes' /\ SelectorFits'
  BY <1>1, <1>2 DEF Write, ReactorTypes, SelectorTypes, SelectorFits, AtKey
<1>7. StreamTypes' /\ WorkersFit'
  BY DEF Write, ReactorTypes, StreamTypes, WorkersFit
<1> QED
  BY <1>5, <1>6, <1>7 DEF ReactorTypes

\* The pool threads.
LEMMA DecodeTypes ==
  ASSUME ReactorTypes, NEW h \in Conns, Decode(h),
         UNCHANGED <<client, taken, connectionID, interest, selector, lease>>
  PROVE  ReactorTypes'
<1> USE ConnsNaturals DEF client, selector, buffers, outgoing, queues, tasks
<1>1. /\ bufferPool \in Seq(DOMAIN content) /\ content \in Seq(Seq(Byte))
      /\ Len(content) \in Nat /\ DOMAIN content = 1 .. Len(content)
      /\ pending \in [Conns -> Seq(DOMAIN content)]
      /\ current \in [Conns -> (DOMAIN content) \cup {None}]
      /\ at \in [Conns -> Labels] /\ shouldTerminate \in [Conns -> BOOLEAN]
      /\ pos \in [Conns -> Nat] /\ partial \in [Conns -> Seq(Byte)]
      /\ processed \in [Conns -> Seq(Nat)] /\ threw \in [Conns -> BOOLEAN]
  <2>1. content \in Seq(Seq(Byte))
    BY DEF ReactorTypes, StreamTypes
  <2>2. Len(content) \in Nat /\ DOMAIN content = 1 .. Len(content)
    BY <2>1
  <2> QED
    BY <2>1, <2>2, Zenon DEF ReactorTypes, SharedTypes, StreamTypes
<1>2. SelectorTypes' /\ SelectorFits'
  BY DEF ReactorTypes, SelectorTypes, SelectorFits
<1>3. CASE StartTask(h)
  <2>1. /\ current[h] = None /\ pending[h] # << >>
        /\ current' = [current EXCEPT ![h] = Head(pending[h])]
        /\ pending' = [pending EXCEPT ![h] = Tail(pending[h])]
        /\ at' = [at EXCEPT ![h] = "decode"]
    BY <1>1, <1>3 DEF StartTask, Goto, Pool!Start
  <2>2. pending[h] \in Seq(DOMAIN content)
    BY <1>1
  <2>3. Head(pending[h]) \in DOMAIN content /\ Tail(pending[h]) \in Seq(DOMAIN content)
    BY <2>1, <2>2, HeadTailProperties
  <2>4. SharedTypes'
    BY <1>1, <1>3, <2>1, <2>3 DEF Decode, StartTask, ReactorTypes, SharedTypes, Labels
  <2>5. StreamTypes'
    BY <1>3 DEF Decode, StartTask, ReactorTypes, StreamTypes
  <2>6. current'[h] # None
    BY <1>1, <2>1, <2>3
  <2>7. WorkersFit'
    BY <1>1, <1>3, <2>1, <2>6 DEF Decode, StartTask, ReactorTypes, WorkersFit
  <2> QED
    BY <1>2, <2>4, <2>5, <2>7 DEF ReactorTypes
<1>4. ASSUME at[h] = "decode", HasRemaining(h)
      PROVE  /\ current[h] \in DOMAIN content /\ Buffer(h) \in Seq(Byte)
             /\ NextByte(h) \in Byte
  <2>1. current[h] \in DOMAIN content /\ Buffer(h) \in Seq(Byte)
    BY <1>1, <1>4 DEF ReactorTypes, WorkersFit, Buffer
  <2>2. pos[h] + 1 \in 1 .. Len(Buffer(h))
    BY <1>1, <1>4, <2>1 DEF HasRemaining
  <2> QED
    BY <2>1, <2>2, ElementOfSeq DEF NextByte
<1>5. CASE PushByte(h)
  <2>1. NextByte(h) \in Byte
    BY <1>4, <1>5 DEF PushByte
  <2>2. SharedTypes'
    BY <1>1, <1>5 DEF Decode, PushByte, ReactorTypes, SharedTypes
  <2>3. partial' \in [Conns -> Seq(Byte)] /\ pos' \in [Conns -> Nat]
    BY <1>1, <1>5, <2>1 DEF PushByte
  <2>4. StreamTypes' /\ WorkersFit'
    BY <1>5, <2>3 DEF Decode, PushByte, ReactorTypes, StreamTypes, WorkersFit
  <2> QED
    BY <1>2, <2>2, <2>4 DEF ReactorTypes
<1>6. CASE PopString(h)
  <2> DEFINE f == FrameOf(h, partial[h])
  <2>1. f \in Nat
    <3>1. CASE Len(partial[h]) = 1
      <4>0. partial[h] \in Seq(Byte)
        BY <1>1
      <4>1. partial[h][1] \in Byte
        BY <4>0, <3>1
      <4>2. partial[h][1][2] \in Nat
        BY <4>1 DEF Byte
      <4>3. (partial[h][1][2] + 1) \div 2 \in Nat
        BY <4>2
      <4> QED
        BY <4>3 DEF FrameOf
    <3>2. CASE Len(partial[h]) # 1
      BY <3>2 DEF FrameOf
    <3> QED
      BY <3>1, <3>2
  <2>2. Process(h, f)
    BY <1>6 DEF PopString
  <2>3. /\ at[h] = "decode" /\ at' \in {[at EXCEPT ![h] = l] : l \in {"decode", "send", "release"}}
        /\ shouldTerminate' \in [Conns -> BOOLEAN]
        /\ threw' \in [Conns -> BOOLEAN]
        /\ \/ UNCHANGED targets
           \/ \E S \in SUBSET (0 .. (connectionID - 1)) : targets' = [targets EXCEPT ![h] = S]
    <3> HIDE DEF f
    <3>1. at[h] = "decode"
      BY <1>6 DEF PopString
    <3>2. CASE \E k : Throws(h, k)
      <4>1. PICK k : Throws(h, k)
        BY <3>2
      <4>2. PICK flag \in BOOLEAN : shouldTerminate' = [shouldTerminate EXCEPT ![h] = flag]
        BY <1>1, <4>1, Zenon DEF Throws
      <4> QED
        BY <1>1, <3>1, <4>1, <4>2 DEF Throws, Goto
    <3>3. CASE Ignored(h)
      BY <1>1, <3>1, <3>3 DEF Ignored
    <3>4. CASE \E k : Dispatch(h, k)
      BY <1>1, <3>1, <3>4 DEF Dispatch, Goto
    <3> QED
      BY <2>2, <3>2, <3>3, <3>4 DEF Process
  <2>4. /\ processed' \in [Conns -> Seq(Nat)]
        /\ partial' \in [Conns -> Seq(Byte)] /\ pos' \in [Conns -> Nat]
    <3>1. << >> \in Seq(Byte)
      OBVIOUS
    <3> HIDE DEF f
    <3>2. /\ processed' = [processed EXCEPT ![h] = Append(@, f)]
          /\ partial' = [partial EXCEPT ![h] = << >>]
          /\ pos' = [pos EXCEPT ![h] = @ + 1]
      BY <1>6 DEF PopString, f
    <3> QED
      BY <1>1, <2>1, <3>1, <3>2
  <2>5. UNCHANGED <<buffers, queues, open, tasks, outgoing, to, registered>>
    BY <1>6 DEF Decode, PopString
  <2>6. at' \in [Conns -> Labels] /\ current[h] # None /\ at'[h] # "idle" /\ at'[h] # "notify"
        /\ \A k \in Conns \ {h} : at'[k] = at[k]
    <3>1. PICK l \in {"decode", "send", "release"} : at' = [at EXCEPT ![h] = l]
      BY <2>3
    <3>2. current[h] # None
      BY <2>3 DEF ReactorTypes, WorkersFit
    <3> QED
      BY <1>1, <3>1, <3>2 DEF Labels
  <2>7. SharedTypes'
    BY <2>3, <2>5, <2>6 DEF ReactorTypes, SharedTypes
  <2>8. StreamTypes'
    BY <2>3, <2>4, <2>5 DEF ReactorTypes, StreamTypes
  <2>9. WorkersFit'
    BY <2>3, <2>5, <2>6 DEF ReactorTypes, WorkersFit
  <2> QED
    BY <1>2, <2>7, <2>8, <2>9 DEF ReactorTypes
<1>7. CASE ReleaseBuffer(h)
  <2>1. /\ current[h] \in DOMAIN content
        /\ bufferPool' = Append(bufferPool, current[h])
        /\ content' = [content EXCEPT ![current[h]] = << >>]
        /\ current' = [current EXCEPT ![h] = None]
        /\ at' = [at EXCEPT ![h] = "idle"]
        /\ UNCHANGED pending
    BY <1>1, <1>7 DEF ReleaseBuffer, Goto, Pool!End, ReactorTypes, WorkersFit
  <2>2. << >> \in Seq(Byte)
    OBVIOUS
  <2>3. /\ content' \in Seq(Seq(Byte)) /\ DOMAIN content' = DOMAIN content
        /\ bufferPool' \in Seq(DOMAIN content)
    BY <1>1, <2>1, <2>2
  <2>4. SharedTypes'
    BY <1>1, <1>7, <2>1, <2>3 DEF Decode, ReleaseBuffer, ReactorTypes, SharedTypes, Labels
  <2>5. StreamTypes'
    BY <1>1, <1>7, <2>3 DEF Decode, ReleaseBuffer, ReactorTypes, StreamTypes
  <2>6. WorkersFit'
    BY <1>1, <1>7, <2>1 DEF Decode, ReleaseBuffer, ReactorTypes, WorkersFit
  <2> QED
    BY <1>2, <2>4, <2>5, <2>6 DEF ReactorTypes
<1> QED
  BY <1>3, <1>5, <1>6, <1>7 DEF Decode

LEMMA SendingTypes ==
  ASSUME ReactorTypes, NEW h \in Conns, Sending(h) \/ Ending(h),
         UNCHANGED <<client, taken, connectionID, interest, selector, lease>>
  PROVE  ReactorTypes'
<1> USE ConnsNaturals DEF client, selector, buffers, outgoing, queues
<1>1. /\ at \in [Conns -> Labels] /\ open \in [Conns -> BOOLEAN]
      /\ shouldTerminate \in [Conns -> BOOLEAN] /\ connectionID \in 0 .. MaxConnections
      /\ threw \in [Conns -> BOOLEAN] /\ woken \in BOOLEAN
      /\ targets \in [Conns -> SUBSET (0 .. (connectionID - 1))]
      /\ to \in [Conns -> Conns \cup {None}]
      /\ selectorTasks \in Seq(Conns)
      /\ writeQueue \in [Conns -> Seq({"RECEIPT", "ERROR", "MESSAGE"})]
  BY DEF ReactorTypes, SharedTypes, StreamTypes, WorkersFit
<1>2. SelectorTypes' /\ SelectorFits'
  BY DEF ReactorTypes, SelectorTypes, SelectorFits
<1>3. UNCHANGED <<buffers, offset, queues, pos, partial, processed>>
  BY DEF Sending, Ending
<1>4. /\ at[h] # "idle"
      /\ \/ /\ \E l \in Labels \ {"idle", "notify"} : at' = [at EXCEPT ![h] = l]
         \/ Send(h)
  <2>1. CASE Notify(h) \/ Wakeup(h) \/ RegistryThrows(h)
    BY <2>1 DEF Notify, Wakeup, RegistryThrows, Goto, Labels
  <2>2. CASE Sent(h)
    BY <2>2 DEF Sent, Goto, Labels
  <2>3. CASE Ending(h)
    BY <2>3 DEF Ending, Close, Disconnect, Goto, Labels
  <2>4. CASE Send(h)
    BY <2>4 DEF Send
  <2> QED
    BY <2>1, <2>2, <2>3, <2>4 DEF Sending
<1>5. /\ at' \in [Conns -> Labels] /\ at'[h] # "idle"
      /\ \A k \in Conns \ {h} : at'[k] = at[k]
  BY <1>1, <1>4 DEF Send, Goto, Labels
<1>6. /\ targets' \in [Conns -> SUBSET (0 .. (connectionID - 1))]
      /\ to' \in [Conns -> Conns \cup {None}]
      /\ \A k \in Conns : at'[k] = "notify" => to'[k] \in Conns
      /\ writeQueue' \in [Conns -> Seq({"RECEIPT", "ERROR", "MESSAGE"})]
  <2>1. CASE Send(h)
    <3>1. PICK k \in targets[h] :
            /\ writeQueue' = [writeQueue EXCEPT ![k] = Append(@, Reply(kind[h]))]
            /\ to' = [to EXCEPT ![h] = k]
            /\ targets' \in {targets, [targets EXCEPT ![h] = @ \ {k}]}
      BY <2>1 DEF Send
    <3>2. k \in Conns
      BY <1>1, <3>1
    <3>3. Reply(kind[h]) \in {"RECEIPT", "ERROR", "MESSAGE"}
      BY DEF Reply
    <3>4. writeQueue[k] \in Seq({"RECEIPT", "ERROR", "MESSAGE"})
      BY <1>1, <3>2
    <3>5. Append(writeQueue[k], Reply(kind[h])) \in Seq({"RECEIPT", "ERROR", "MESSAGE"})
      BY <3>3, <3>4
    <3>6. writeQueue' \in [Conns -> Seq({"RECEIPT", "ERROR", "MESSAGE"})]
      BY <1>1, <3>1, <3>5
    <3>7. targets' \in [Conns -> SUBSET (0 .. (connectionID - 1))]
      BY <1>1, <3>1
    <3>8. /\ to' \in [Conns -> Conns \cup {None}] /\ to'[h] = k
          /\ \A j \in Conns \ {h} : to'[j] = to[j]
      BY <1>1, <3>1, <3>2
    <3>9. \A j \in Conns : at'[j] = "notify" => to'[j] \in Conns
      BY <1>5, <3>2, <3>8 DEF ReactorTypes, WorkersFit
    <3> QED
      BY <3>6, <3>7, <3>8, <3>9
  <2>2. CASE \E l \in Labels \ {"idle", "notify"} : at' = [at EXCEPT ![h] = l]
    <3>1. /\ at'[h] # "notify"
      BY <1>1, <2>2
    <3>2. CASE Send(h)
      BY <2>1, <3>2
    <3>3. CASE ~ Send(h)
      <4>1. /\ targets' \in {targets, [targets EXCEPT ![h] = {}]}
            /\ to' \in {to, [to EXCEPT ![h] = None]}
            /\ writeQueue' = writeQueue
        BY <3>3 DEF Sending, Ending, Notify, Wakeup, RegistryThrows, Sent
      <4> QED
        BY <1>1, <1>5, <3>1, <4>1 DEF ReactorTypes, WorkersFit
    <3> QED
      BY <3>2, <3>3
  <2> QED
    BY <1>4, <2>1, <2>2
<1>7. selectorTasks' \in Seq(Conns) /\ woken' \in BOOLEAN
  <2>1. CASE Notify(h)
    <3>1. to[h] \in Conns
      BY <2>1 DEF Notify, ReactorTypes, WorkersFit
    <3>2. Append(selectorTasks, to[h]) \in Seq(Conns)
      BY <1>1, <3>1
    <3>3. selectorTasks' \in {selectorTasks, Append(selectorTasks, to[h])} /\ UNCHANGED woken
      BY <2>1 DEF Notify
    <3> QED
      BY <1>1, <3>2, <3>3
  <2>2. CASE ~ Notify(h)
    BY <1>1, <2>2 DEF Sending, Ending, Send, Wakeup, RegistryThrows, Sent, tasks
  <2> QED
    BY <2>1, <2>2
<1>8. /\ open' \in [Conns -> BOOLEAN] /\ shouldTerminate' \in [Conns -> BOOLEAN]
  BY <1>1 DEF Sending, Ending, Close, Disconnect
<1>9. threw' \in [Conns -> BOOLEAN]
  BY <1>1 DEF Sending, Ending, Send, Notify, Wakeup, RegistryThrows, Sent
<1>10. SharedTypes'
  BY <1>3, <1>5, <1>6, <1>7, <1>8 DEF ReactorTypes, SharedTypes
<1>11. StreamTypes'
  BY <1>3, <1>9 DEF ReactorTypes, StreamTypes
<1>12. WorkersFit'
  BY <1>3, <1>4, <1>5, <1>6 DEF ReactorTypes, WorkersFit
<1> QED
  BY <1>2, <1>10, <1>11, <1>12 DEF ReactorTypes

LEMMA NextTypes == ReactorTypes /\ [Next]_vars => ReactorTypes'
<1> SUFFICES ASSUME ReactorTypes, [Next]_vars PROVE ReactorTypes'
  OBVIOUS
<1>1. CASE SelectorStep
  <2>1. CASE Serve
    BY <1>1, <2>1, ServeTypes DEF SelectorStep, Serve
  <2>2. CASE HandleAccept
    BY <1>1, <2>2, HandleAcceptTypes DEF SelectorStep
  <2>3. CASE Read
    BY <1>1, <2>3, ReadTypes DEF SelectorStep
  <2>4. CASE Write
    BY <1>1, <2>4, WriteTypes DEF SelectorStep
  <2> QED
    BY <1>1, <2>1, <2>2, <2>3, <2>4 DEF SelectorStep
<1>2. CASE Connected
  BY <1>2, ServeTypes DEF Connected
<1>3. ASSUME NEW h \in Conns, ClientSends(h) \/ ClientLeaves(h)
      PROVE  ReactorTypes'
  BY <1>3, ClientTypes
<1>4. ASSUME NEW h \in Conns, TaskStep(h)
      PROVE  ReactorTypes'
  BY <1>4, DecodeTypes, SendingTypes DEF TaskStep
<1>5. CASE UNCHANGED vars
  BY <1>5 DEF vars, client, selector, tasks, buffers, outgoing, queues, worker,
              ReactorTypes, SharedTypes, SelectorTypes, StreamTypes, SelectorFits, WorkersFit
<1> QED
  BY <1>1, <1>2, <1>3, <1>4, <1>5 DEF Next, Quiescent

\* What a buffer or a decoder holds was sent by its client.
IsSent(byte) == byte[2] \in 1 .. (2 * Len(sent[byte[1]]))

BytesSent ==
  /\ \A b \in DOMAIN content : \A i \in DOMAIN content[b] : IsSent(content[b][i])
  /\ \A h \in Conns : \A i \in DOMAIN partial[h] : IsSent(partial[h][i])

LEMMA InitHandlers == Init => HandlerTypes /\ BytesSent
<1> SUFFICES ASSUME Init PROVE HandlerTypes /\ BytesSent
  OBVIOUS
<1>1. HandlerTypes
  BY DEF Init, HandlerTypes
<1>2. BytesSent
  BY DEF Init, BytesSent
<1> QED
  BY <1>1, <1>2

\* A step that reads and decodes nothing, while clients may send more.
LEMMA BytesKept ==
  ASSUME ReactorTypes, BytesSent, UNCHANGED <<content, partial>>,
         \A k \in Conns : Len(sent'[k]) \in Nat /\ Len(sent'[k]) >= Len(sent[k])
  PROVE  BytesSent'
<1>1. \A k \in Conns : Len(sent[k]) \in Nat
  BY DEF ReactorTypes, StreamTypes
<1>2. \A byte \in Byte : IsSent(byte) => IsSent(byte)'
  <2> SUFFICES ASSUME NEW byte \in Byte, IsSent(byte) PROVE byte[2] \in 1 .. (2 * Len(sent'[byte[1]]))
    BY DEF IsSent
  <2>1. byte[1] \in Conns /\ byte[2] \in Nat
    BY DEF Byte
  <2>2. Len(sent'[byte[1]]) \in Nat /\ Len(sent'[byte[1]]) >= Len(sent[byte[1]])
    BY <2>1
  <2> QED
    BY <1>1, <2>1, <2>2 DEF IsSent
<1>3. /\ \A b \in DOMAIN content : \A i \in DOMAIN content[b] : content[b][i] \in Byte
      /\ \A h \in Conns : \A i \in DOMAIN partial[h] : partial[h][i] \in Byte
  BY DEF ReactorTypes, StreamTypes
<1>4. \A b \in DOMAIN content : \A i \in DOMAIN content[b] : IsSent(content[b][i])'
  BY <1>2, <1>3 DEF BytesSent
<1>5. \A h \in Conns : \A i \in DOMAIN partial[h] : IsSent(partial[h][i])'
  BY <1>2, <1>3 DEF BytesSent
<1> QED
  BY <1>4, <1>5 DEF BytesSent, IsSent

LEMMA ClientHandlers ==
  ASSUME ReactorTypes, HandlerTypes, BytesSent,
         NEW h \in Conns, ClientSends(h) \/ ClientLeaves(h)
  PROVE  HandlerTypes' /\ BytesSent'
<1> USE DEF buffers, outgoing, queues, worker
<1>1. UNCHANGED <<content, partial, registered, offset, stopped, kind>>
  BY DEF ClientSends, ClientLeaves
<1>2. gone' \in [Conns -> BOOLEAN]
  BY DEF ClientSends, ClientLeaves, HandlerTypes
<1>3. \A k \in Conns : Len(sent'[k]) \in Nat /\ Len(sent'[k]) >= Len(sent[k])
  <2>1. sent \in [Conns -> Seq(Kinds)]
    BY DEF ReactorTypes, StreamTypes
  <2>2. CASE ClientSends(h)
    <3>1. PICK k \in Kinds : sent' = [sent EXCEPT ![h] = Append(@, k)]
      BY <2>2 DEF ClientSends
    <3> QED
      BY <2>1, <3>1
  <2>3. CASE ClientLeaves(h)
    BY <2>1, <2>3 DEF ClientLeaves
  <2> QED
    BY <2>2, <2>3
<1> QED
  BY <1>1, <1>2, <1>3, BytesKept DEF HandlerTypes

LEMMA SelectorHandlers ==
  ASSUME ReactorTypes, HandlerTypes, BytesSent, SelectorStep
  PROVE  HandlerTypes' /\ BytesSent'
<1> USE ConnsNaturals
<1>1. UNCHANGED <<sent, gone, partial, kind>>
  BY DEF SelectorStep, client, worker
<1>2. registered' \in [Conns -> BOOLEAN] /\ UNCHANGED stopped
  BY DEF SelectorStep, Serve, HandleAccept, Read, Write, queues, HandlerTypes
<1>3. offset' \in [Conns -> {0, 1}]
  BY DEF SelectorStep, Serve, HandleAccept, Read, Write, ContinueWrite, WriteFails, WriteDone,
         Drained, Terminate, UpdateInterestedOps, outgoing, HandlerTypes
<1>4. HandlerTypes'
  BY <1>1, <1>2, <1>3 DEF HandlerTypes
<1>5. \A k \in Conns : Len(sent'[k]) \in Nat /\ Len(sent'[k]) >= Len(sent[k])
  BY <1>1 DEF ReactorTypes, StreamTypes
<1>6. CASE Read /\ LeaseBuffer /\ bufferPool = << >>
  <2>1. content' = Append(content, << >>) /\ content \in Seq(Seq(Byte))
    BY <1>6 DEF LeaseBuffer, ReactorTypes, StreamTypes
  <2>2. \A b \in DOMAIN content' : content'[b] = << >> \/ (b \in DOMAIN content /\ content'[b] = content[b])
    BY <2>1
  <2>3. \A b \in DOMAIN content' : \A i \in DOMAIN content'[b] : IsSent(content'[b][i])
    BY <2>2 DEF BytesSent
  <2>4. BytesSent'
    BY <1>1, <2>3 DEF BytesSent, IsSent
  <2> QED
    BY <1>4, <2>4
<1>7. CASE Read /\ ContinueRead
  <2>1. key \in Conns /\ lease \in DOMAIN content
    BY <1>7 DEF ContinueRead, ReactorTypes, SharedTypes, SelectorFits, AtKey
  <2>2. PICK n \in (taken[key] + 1) .. (2 * Len(sent[key])) :
          content' = [content EXCEPT ![lease] = Bytes(key, taken[key] + 1, n)]
    BY <1>7 DEF ContinueRead
  <2>3. taken[key] \in Nat /\ Len(sent[key]) \in Nat /\ n \in Nat
    BY <2>1, <2>2 DEF ReactorTypes, StreamTypes
  <2>4. \A i \in DOMAIN Bytes(key, taken[key] + 1, n) : IsSent(Bytes(key, taken[key] + 1, n)[i])
    <3> SUFFICES ASSUME NEW i \in 1 .. (n - (taken[key] + 1) + 1)
                 PROVE  IsSent(<<key, (taken[key] + 1) + i - 1>>)
      BY DEF Bytes
    <3>1. (taken[key] + 1) + i - 1 \in 1 .. (2 * Len(sent[key]))
      BY <2>2, <2>3
    <3> QED
      BY <3>1 DEF IsSent
  <2>5. \A b \in DOMAIN content' : \A i \in DOMAIN content'[b] : IsSent(content'[b][i])
    <3> DEFINE new == Bytes(key, taken[key] + 1, n)
    <3>1. content' = [content EXCEPT ![lease] = new] /\ \A i \in DOMAIN new : IsSent(new[i])
      BY <2>2, <2>4
    <3> HIDE DEF new
    <3>2. \A b \in DOMAIN content : b # lease => content'[b] = content[b]
      BY <3>1
    <3>3. content'[lease] = new /\ DOMAIN content' = DOMAIN content
      BY <2>1, <3>1
    <3> QED
      BY <3>1, <3>2, <3>3 DEF BytesSent
  <2>6. BytesSent'
    BY <1>1, <2>5 DEF BytesSent, IsSent
  <2> QED
    BY <1>4, <2>6
<1>8. CASE ~ (Read /\ LeaseBuffer /\ bufferPool = << >>) /\ ~ (Read /\ ContinueRead)
  <2>1. UNCHANGED content
    BY <1>8 DEF SelectorStep, Serve, HandleAccept, Read, LeaseBuffer, ReadFails, Write, buffers
  <2> QED
    BY <1>1, <1>4, <1>5, <2>1, BytesKept
<1> QED
  BY <1>6, <1>7, <1>8

LEMMA PopStringHandlers ==
  ASSUME ReactorTypes, HandlerTypes, BytesSent, NEW h \in Conns, PopString(h)
  PROVE  kind' \in [Conns -> AllKinds \cup {"twice", None}]
<1>1. partial[h] \in Seq(Byte) /\ sent[h] \in Seq(Kinds)
  BY DEF ReactorTypes, StreamTypes
<1> DEFINE f == FrameOf(h, partial[h])
<1>2. f = 0 \/ f \in DOMAIN sent[h]
  <2>1. CASE Len(partial[h]) = 1 /\ partial[h][1][1] = h
    <3>1. partial[h][1] \in Byte /\ IsSent(partial[h][1])
      BY <1>1, <2>1 DEF BytesSent
    <3>2. partial[h][1][2] \in 1 .. (2 * Len(sent[h])) /\ Len(sent[h]) \in Nat
      BY <1>1, <2>1, <3>1 DEF IsSent
    <3>3. (partial[h][1][2] + 1) \div 2 \in 1 .. Len(sent[h])
      BY <3>2
    <3> QED
      BY <1>1, <2>1, <3>3 DEF FrameOf
  <2>2. CASE ~ (Len(partial[h]) = 1 /\ partial[h][1][1] = h)
    BY <2>2 DEF FrameOf
  <2> QED
    BY <2>1, <2>2
<1>3. Process(h, f)
  BY DEF PopString
<1> HIDE DEF f
<1> DEFINE k == IF f = 0 THEN None ELSE sent[h][f]
<1>4. k \in Kinds \cup {None}
  BY <1>1, <1>2
<1>5. UNCHANGED kind \/ (k # None /\ Dispatch(h, k))
  BY <1>3 DEF Process, Throws, Ignored
<1> HIDE DEF k
<1>6. UNCHANGED kind \/ \E a \in AllKinds \cup {"twice"} : kind' = [kind EXCEPT ![h] = a]
  BY <1>4, <1>5, ReactorAssumption DEF Dispatch
<1> QED
  BY <1>6 DEF HandlerTypes

LEMMA TaskHandlers ==
  ASSUME ReactorTypes, HandlerTypes, BytesSent, NEW h \in Conns, TaskStep(h)
  PROVE  HandlerTypes' /\ BytesSent'
<1>1. UNCHANGED <<sent, gone, stopped, offset>>
  BY DEF TaskStep, client, Decode, Sending, Ending, StartTask, PushByte, PopString,
         ReleaseBuffer, Pool!Start, Pool!End, queues, outgoing
<1>2. registered' \in [Conns -> BOOLEAN]
  BY DEF TaskStep, Decode, Sending, Ending, Close, Disconnect, HandlerTypes
<1>3. kind' \in [Conns -> AllKinds \cup {"twice", None}]
  <2>1. CASE PopString(h)
    BY <2>1, PopStringHandlers
  <2>2. CASE Send(h)
    <3>1. kind' = kind \/ (kind[h] = "twice" /\ kind' = [kind EXCEPT ![h] = "refused"])
      BY <2>2 DEF Send
    <3> QED
      BY <3>1 DEF HandlerTypes, AllKinds
  <2>3. CASE RegistryThrows(h) \/ Sent(h)
    BY <2>3 DEF RegistryThrows, Sent, HandlerTypes
  <2>4. CASE StartTask(h) \/ PushByte(h) \/ ReleaseBuffer(h) \/ Notify(h) \/ Wakeup(h) \/ Ending(h)
    BY <2>4 DEF StartTask, PushByte, ReleaseBuffer, Notify, Wakeup, Ending, HandlerTypes
  <2> QED
    BY <2>1, <2>2, <2>3, <2>4 DEF TaskStep, Decode, Sending
<1>4. HandlerTypes'
  BY <1>1, <1>2, <1>3 DEF HandlerTypes
<1>5. \A k \in Conns : Len(sent'[k]) \in Nat /\ Len(sent'[k]) >= Len(sent[k])
  BY <1>1 DEF ReactorTypes, StreamTypes
<1>6. /\ content \in Seq(Seq(Byte)) /\ partial \in [Conns -> Seq(Byte)]
      /\ current \in [Conns -> (DOMAIN content) \cup {None}]
  BY DEF ReactorTypes, StreamTypes, SharedTypes
<1>7. CASE PushByte(h)
  <2>1. current[h] \in DOMAIN content /\ pos[h] + 1 \in DOMAIN content[current[h]]
    <3>1. current[h] \in DOMAIN content
      BY <1>6, <1>7 DEF PushByte, ReactorTypes, WorkersFit
    <3>2. content[current[h]] \in Seq(Byte) /\ pos[h] \in Nat
      BY <1>6, <3>1 DEF ReactorTypes, StreamTypes
    <3> QED
      BY <1>7, <3>1, <3>2 DEF PushByte, HasRemaining, Buffer
  <2>2. IsSent(NextByte(h)) /\ NextByte(h) \in Byte
    BY <1>6, <2>1 DEF BytesSent, NextByte, Buffer
  <2> DEFINE b == NextByte(h)
  <2>3. partial' = [partial EXCEPT ![h] = Append(partial[h], b)] /\ UNCHANGED content
    BY <1>7 DEF PushByte, buffers
  <2> HIDE DEF b
  <2>4. \A k \in Conns : \A i \in DOMAIN partial'[k] :
          partial'[k][i] = b \/ (i \in DOMAIN partial[k] /\ partial'[k][i] = partial[k][i])
    BY <1>6, <2>3
  <2>5. \A k \in Conns : \A i \in DOMAIN partial'[k] : IsSent(partial'[k][i])
    BY <2>2, <2>4 DEF BytesSent, b
  <2>6. BytesSent'
    BY <1>1, <2>3, <2>5 DEF BytesSent, IsSent
  <2> QED
    BY <1>4, <2>6
<1>8. CASE ~ PushByte(h)
  <2>1. /\ content' = content \/ (current[h] # None /\ content' = [content EXCEPT ![current[h]] = << >>])
        /\ partial' = partial \/ partial' = [partial EXCEPT ![h] = << >>]
    BY <1>8 DEF TaskStep, Decode, Sending, Ending, StartTask, PopString, ReleaseBuffer,
                Pool!End, buffers
  <2>2. \A b \in DOMAIN content' : \A i \in DOMAIN content'[b] : IsSent(content'[b][i])
    <3>1. \A b \in DOMAIN content' :
            b \in DOMAIN content /\ (content'[b] = content[b] \/ content'[b] = << >>)
      BY <2>1
    <3> QED
      BY <3>1 DEF BytesSent
  <2>3. \A k \in Conns : \A i \in DOMAIN partial'[k] : IsSent(partial'[k][i])
    <3>1. \A k \in Conns : partial'[k] = partial[k] \/ partial'[k] = << >>
      BY <1>6, <2>1
    <3> QED
      BY <3>1 DEF BytesSent
  <2>4. BytesSent'
    BY <1>1, <2>2, <2>3 DEF BytesSent, IsSent
  <2> QED
    BY <1>4, <2>4
<1> QED
  BY <1>7, <1>8

LEMMA NextHandlers ==
  ReactorTypes /\ HandlerTypes /\ BytesSent /\ [Next]_vars => HandlerTypes' /\ BytesSent'
<1> SUFFICES ASSUME ReactorTypes, HandlerTypes, BytesSent, [Next]_vars
             PROVE  HandlerTypes' /\ BytesSent'
  OBVIOUS
<1>1. CASE SelectorStep
  BY <1>1, SelectorHandlers
<1>2. CASE Connected \/ UNCHANGED vars
  <2>1. UNCHANGED <<sent, gone, registered, offset, stopped, kind, content, partial>>
    BY <1>2 DEF Connected, vars, client, buffers, outgoing, queues, worker
  <2>2. HandlerTypes'
    BY <2>1 DEF HandlerTypes
  <2>3. BytesSent'
    BY <2>1 DEF BytesSent, IsSent
  <2> QED
    BY <2>2, <2>3
<1>3. ASSUME NEW h \in Conns, ClientSends(h) \/ ClientLeaves(h)
      PROVE  HandlerTypes' /\ BytesSent'
  BY <1>3, ClientHandlers
<1>4. ASSUME NEW h \in Conns, TaskStep(h)
      PROVE  HandlerTypes' /\ BytesSent'
  BY <1>4, TaskHandlers
<1> QED
  BY <1>1, <1>2, <1>3, <1>4 DEF Next, Quiescent

\* Every variable keeps its type, and what a thread holds fits the step it is
\* at: the selector thread handles keys of connections only, a free, leased or
\* held buffer is one that was allocated, and no string that process is given
\* stands for a frame the client has not sent.
THEOREM ReactorTypeCorrect == Spec => []TypeOK
<1>1. ReactorTypes /\ HandlerTypes => TypeOK
  BY DEF ReactorTypes, TypeOK
<1> QED
  BY <1>1, InitTypes, InitHandlers, NextTypes, NextHandlers, PTL DEF Spec

-----------------------------------------------------------------------------
(***************************************************************************)
(* The buffers.  BuffersExclusive is inductive, given the types: every     *)
(* step moves one buffer from one place to another.                        *)
(***************************************************************************)
LEMMA BufferFacts ==
  ASSUME ReactorTypes
  PROVE  /\ bufferPool \in Seq(DOMAIN content) /\ content \in Seq(Seq(Byte))
         /\ lease \in (DOMAIN content) \cup {None}
         /\ \A h \in Conns : pending[h] \in Seq(DOMAIN content)
         /\ \A h \in Conns : current[h] \in (DOMAIN content) \cup {None}
         /\ None \notin DOMAIN content
         /\ Elements(bufferPool) \subseteq DOMAIN content
         /\ \A h \in Conns : Elements(pending[h]) \subseteq DOMAIN content
         /\ \A h \in Conns : Held(h) \subseteq DOMAIN content
<1>1. /\ bufferPool \in Seq(DOMAIN content) /\ content \in Seq(Seq(Byte))
      /\ lease \in (DOMAIN content) \cup {None}
      /\ \A h \in Conns : pending[h] \in Seq(DOMAIN content)
      /\ \A h \in Conns : current[h] \in (DOMAIN content) \cup {None}
  BY DEF ReactorTypes, SharedTypes, StreamTypes
<1>2. None \notin DOMAIN content
  BY <1>1, ConnsNaturals
<1>3. \A s \in Seq(DOMAIN content) : Elements(s) \subseteq DOMAIN content
  BY DEF Elements
<1> QED
  BY <1>1, <1>2, <1>3 DEF Held

LEMMA LeaseExclusive ==
  ASSUME ReactorTypes, BuffersExclusive, Read, LeaseBuffer
  PROVE  BuffersExclusive'
<1> USE BufferFacts, ConnsNaturals
<1>1. \A h \in Conns : Held(h)' = Held(h) /\ Elements(pending[h])' = Elements(pending[h])
  BY DEF LeaseBuffer, Held, Elements
<1>2. lease = None
  BY DEF LeaseBuffer, ReactorTypes, SelectorFits
<1>3. /\ NoDuplicates(bufferPool')
      /\ lease' \notin Elements(bufferPool')
      /\ Elements(bufferPool') \subseteq Elements(bufferPool)
      /\ \A h \in Conns : lease' \notin Held(h)
  <2>1. CASE bufferPool = << >>
    <3>1. lease' \notin DOMAIN content /\ bufferPool' = bufferPool
      BY <2>1 DEF LeaseBuffer
    <3> QED
      BY <3>1 DEF BuffersExclusive
  <2>2. CASE bufferPool # << >>
    <3>1. lease' = Head(bufferPool) /\ bufferPool' = Tail(bufferPool)
      BY <2>2 DEF LeaseBuffer
    <3>2. /\ Elements(bufferPool) = {Head(bufferPool)} \cup Elements(Tail(bufferPool))
          /\ NoDuplicates(Tail(bufferPool)) /\ Head(bufferPool) \notin Elements(Tail(bufferPool))
      BY <2>2, TailElements DEF BuffersExclusive
    <3> QED
      BY <3>1, <3>2 DEF BuffersExclusive
  <2> QED
    BY <2>1, <2>2
<1>4. UNCHANGED <<pending, current>> /\ Elements(bufferPool') \subseteq Elements(bufferPool)
  BY <1>3 DEF LeaseBuffer
<1>5. \A h \in Conns : Held(h)' \cap (Elements(bufferPool') \cup {lease'}) = {}
  <2> TAKE h \in Conns
  <2>1. Held(h) \cap Elements(bufferPool) = {}
    BY DEF BuffersExclusive
  <2> QED
    BY <1>1, <1>3, <2>1
<1> QED
  BY <1>1, <1>3, <1>4, <1>5 DEF BuffersExclusive

LEMMA ContinueReadExclusive ==
  ASSUME ReactorTypes, BuffersExclusive, Read, ContinueRead
  PROVE  BuffersExclusive'
<1> USE BufferFacts, ConnsNaturals
<1>0. PICK c \in Conns : c = key
  BY DEF ContinueRead, ReactorTypes, SelectorFits, AtKey
<1>1. /\ lease \in DOMAIN content /\ lease' = None
      /\ pending' = [pending EXCEPT ![c] = Append(pending[c], lease)]
      /\ UNCHANGED <<bufferPool, current>>
  BY <1>0 DEF ContinueRead, ReactorTypes, SelectorFits, AtKey, Pool!Submit
<1>2. pending \in [Conns -> Seq(DOMAIN content)]
  BY DEF ReactorTypes, SharedTypes
<1>3. lease \notin Held(c) /\ lease \notin Elements(pending[c]) /\ lease # current[c]
  BY <1>1 DEF BuffersExclusive, Held
<1>4. /\ Elements(pending'[c]) = Elements(pending[c]) \cup {lease}
      /\ NoDuplicates(pending'[c])
  BY <1>1, <1>2, <1>3, AppendElements DEF BuffersExclusive
<1>5. \A h \in Conns \ {c} : pending'[h] = pending[h]
  BY <1>1, <1>2
<1>6. /\ Held(c)' = Held(c) \cup {lease}
      /\ \A h \in Conns \ {c} : Held(h)' = Held(h)
  <2>1. Held(c)' = Held(c) \cup {lease}
    BY <1>1, <1>4 DEF Held
  <2>2. \A h \in Conns \ {c} : Held(h)' = Held(h)
    BY <1>1, <1>5 DEF Held
  <2> QED
    BY <2>1, <2>2
<1>7. \A h \in Conns : NoDuplicates(pending'[h]) /\ current'[h] \notin Elements(pending'[h])
  BY <1>1, <1>3, <1>4, <1>5 DEF BuffersExclusive
<1>8. \A h \in Conns : Held(h)' \cap (Elements(bufferPool') \cup {lease'}) = {}
  <2> TAKE h \in Conns
  <2>1. /\ Held(h) \cap Elements(bufferPool) = {} /\ None \notin Held(h)
        /\ lease \notin Elements(bufferPool) /\ Held(h)' \subseteq Held(h) \cup {lease}
    BY <1>6 DEF BuffersExclusive
  <2> QED
    BY <1>1, <2>1
<1>9. \A h \in Conns : \A k \in Conns \ {h} : Held(h)' \cap Held(k)' = {}
  <2> TAKE h \in Conns
  <2> TAKE k \in Conns \ {h}
  <2>1. Held(h) \cap Held(k) = {} /\ lease \notin Held(h) /\ lease \notin Held(k)
    BY DEF BuffersExclusive
  <2>2. \/ h # c /\ k # c
        \/ h = c /\ k # c
        \/ h # c /\ k = c
    OBVIOUS
  <2>3. /\ h # c => Held(h)' = Held(h)
        /\ k # c => Held(k)' = Held(k)
        /\ h = c => Held(h)' = Held(h) \cup {lease}
        /\ k = c => Held(k)' = Held(k) \cup {lease}
    BY <1>6
  <2> QED
    BY <2>1, <2>2, <2>3
<1> QED
  BY <1>1, <1>7, <1>8, <1>9 DEF BuffersExclusive

LEMMA ReadFailsExclusive ==
  ASSUME ReactorTypes, BuffersExclusive, Read, ReadFails
  PROVE  BuffersExclusive'
<1> USE BufferFacts, ConnsNaturals
<1>1. /\ lease \in DOMAIN content /\ lease' = None
      /\ bufferPool' = Append(bufferPool, lease)
      /\ UNCHANGED <<pending, current>>
  BY DEF ReadFails, ReactorTypes, SelectorFits
<1>2. /\ Elements(bufferPool') = Elements(bufferPool) \cup {lease}
      /\ NoDuplicates(bufferPool')
  BY <1>1, AppendElements DEF BuffersExclusive
<1>3. \A h \in Conns : Held(h)' = Held(h)
  BY <1>1 DEF Held
<1> QED
  BY <1>1, <1>2, <1>3 DEF BuffersExclusive

LEMMA StartTaskExclusive ==
  ASSUME ReactorTypes, BuffersExclusive, NEW h \in Conns, StartTask(h), UNCHANGED lease
  PROVE  BuffersExclusive'
<1> USE BufferFacts, ConnsNaturals
<1>1. /\ current[h] = None /\ pending[h] # << >>
      /\ current' = [current EXCEPT ![h] = Head(pending[h])]
      /\ pending' = [pending EXCEPT ![h] = Tail(pending[h])]
      /\ UNCHANGED bufferPool
  BY DEF StartTask, Pool!Start, buffers
<1>2. /\ pending \in [Conns -> Seq(DOMAIN content)]
      /\ current \in [Conns -> (DOMAIN content) \cup {None}]
  BY DEF ReactorTypes, SharedTypes
<1>3. /\ Elements(pending[h]) = {Head(pending[h])} \cup Elements(Tail(pending[h]))
      /\ NoDuplicates(Tail(pending[h])) /\ Head(pending[h]) \notin Elements(Tail(pending[h]))
  BY <1>1, <1>2, TailElements DEF BuffersExclusive
<1>4. /\ pending'[h] = Tail(pending[h]) /\ current'[h] = Head(pending[h])
      /\ \A k \in Conns \ {h} : pending'[k] = pending[k] /\ current'[k] = current[k]
  BY <1>1, <1>2
<1>5. \A k \in Conns : Held(k)' = Held(k)
  BY <1>1, <1>3, <1>4 DEF Held
<1>6. \A k \in Conns : NoDuplicates(pending'[k]) /\ current'[k] \notin Elements(pending'[k])
  BY <1>3, <1>4 DEF BuffersExclusive
<1> QED
  BY <1>1, <1>5, <1>6 DEF BuffersExclusive

LEMMA ReleaseExclusive ==
  ASSUME ReactorTypes, BuffersExclusive, NEW h \in Conns, ReleaseBuffer(h), UNCHANGED lease
  PROVE  BuffersExclusive'
<1> USE BufferFacts, ConnsNaturals
<1>1. /\ current[h] \in DOMAIN content
      /\ current' = [current EXCEPT ![h] = None]
      /\ bufferPool' = Append(bufferPool, current[h])
      /\ UNCHANGED pending
  BY DEF ReleaseBuffer, Pool!End, ReactorTypes, WorkersFit
<1>2. current \in [Conns -> (DOMAIN content) \cup {None}]
  BY DEF ReactorTypes, SharedTypes
<1>3. current[h] \notin Elements(bufferPool) /\ current[h] # lease /\ current[h] \in Held(h)
  BY <1>1 DEF BuffersExclusive, Held
<1>4. /\ Elements(bufferPool') = Elements(bufferPool) \cup {current[h]}
      /\ NoDuplicates(bufferPool')
  BY <1>1, <1>3, AppendElements DEF BuffersExclusive
<1>5. /\ Held(h)' = Held(h) \ {current[h]}
      /\ \A k \in Conns \ {h} : Held(k)' = Held(k)
  BY <1>1, <1>2 DEF BuffersExclusive, Held
<1>6. \A k \in Conns : NoDuplicates(pending'[k]) /\ current'[k] \notin Elements(pending'[k])
  BY <1>1, <1>2 DEF BuffersExclusive
<1>7. \A k \in Conns : Held(k)' \subseteq Held(k) /\ current[h] \notin Held(k)'
  <2> TAKE k \in Conns
  <2>1. k # h => Held(h) \cap Held(k) = {} /\ Held(k)' = Held(k)
    BY <1>5 DEF BuffersExclusive
  <2> QED
    BY <1>3, <1>5, <2>1
<1>8. \A k \in Conns : Held(k)' \cap (Elements(bufferPool') \cup {lease'}) = {}
  <2> TAKE k \in Conns
  <2>1. Held(k) \cap (Elements(bufferPool) \cup {lease}) = {}
    BY DEF BuffersExclusive
  <2> QED
    BY <1>4, <1>7, <2>1
<1>9. \A k \in Conns : \A j \in Conns \ {k} : Held(k)' \cap Held(j)' = {}
  <2> TAKE k \in Conns
  <2> TAKE j \in Conns \ {k}
  <2>1. Held(k) \cap Held(j) = {}
    BY DEF BuffersExclusive
  <2> QED
    BY <1>7, <2>1
<1> QED
  BY <1>3, <1>4, <1>6, <1>8, <1>9 DEF BuffersExclusive

LEMMA NextExclusive == ReactorTypes /\ BuffersExclusive /\ [Next]_vars => BuffersExclusive'
<1> SUFFICES ASSUME ReactorTypes, BuffersExclusive, [Next]_vars PROVE BuffersExclusive'
  OBVIOUS
<1>1. CASE UNCHANGED <<bufferPool, lease, pending, current>>
  BY <1>1 DEF BuffersExclusive, Held
<1>2. CASE SelectorStep
  <2>1. CASE Read
    BY <2>1, LeaseExclusive, ContinueReadExclusive, ReadFailsExclusive DEF Read
  <2>2. CASE ~ Read
    BY <1>1, <1>2, <2>2 DEF SelectorStep, Serve, HandleAccept, Write, buffers, queues
  <2> QED
    BY <2>1, <2>2
<1>3. ASSUME NEW h \in Conns, TaskStep(h) PROVE BuffersExclusive'
  <2>1. CASE StartTask(h)
    BY <1>3, <2>1, StartTaskExclusive DEF TaskStep
  <2>2. CASE ReleaseBuffer(h)
    BY <1>3, <2>2, ReleaseExclusive DEF TaskStep
  <2>3. CASE ~ StartTask(h) /\ ~ ReleaseBuffer(h)
    BY <1>1, <1>3, <2>3 DEF TaskStep, Decode, PushByte, PopString, Sending, Ending, buffers, queues
  <2> QED
    BY <2>1, <2>2, <2>3
<1>4. ASSUME NEW h \in Conns, ClientSends(h) \/ ClientLeaves(h) PROVE BuffersExclusive'
  BY <1>1, <1>4 DEF ClientSends, ClientLeaves, buffers, queues
<1>5. CASE Connected \/ UNCHANGED vars
  BY <1>1, <1>5 DEF Connected, vars, buffers, queues
<1> QED
  BY <1>2, <1>3, <1>4, <1>5 DEF Next, Quiescent

LEMMA InitExclusive == Init => BuffersExclusive
<1> SUFFICES ASSUME Init PROVE BuffersExclusive
  OBVIOUS
<1>1. /\ bufferPool = << >> /\ lease = None
      /\ \A h \in Conns : pending[h] = << >> /\ current[h] = None
  BY DEF Init
<1>2. \A h \in Conns : Held(h) = {}
  BY <1>1, EmptyElements DEF Held
<1> QED
  BY <1>1, <1>2, EmptyElements DEF BuffersExclusive

\* A buffer is free, leased by the selector thread, or held by one task, whatever
\* the pool threads release while the selector thread leases (leaseBuffer,
\* releaseBuffer): nobody reads into a buffer that a task still decodes.
THEOREM BuffersNeverShared == Spec => []BuffersExclusive
  BY InitTypes, InitExclusive, NextTypes, NextExclusive, PTL DEF Spec

-----------------------------------------------------------------------------
(***************************************************************************)
(* Replies.  NoForgottenReply says nothing about the window in which       *)
(* continueWrite has found the queue empty and has not taken OP_WRITE away *)
(* yet, nor about a selector thread that is on its way to select.          *)
(***************************************************************************)
\* The selector thread has, or is about to be given, the task to watch h.
Told(h) ==
  \/ h \in Elements(selectorTasks)
  \/ \E k \in Conns : at[k] = "notify" /\ to[k] = h

RepliesWatched ==
  sel # "dead" =>
    \A h \in Conns : open[h] /\ writeQueue[h] # << >> => "W" \in interest[h] \/ Told(h)

DrainedTold ==
  sel \in {"terminate", "update"} /\ open[key] /\ writeQueue[key] # << >> => Told(key)

TasksNoticed ==
  sel \notin {"tasks", "dead"} /\ selectorTasks # << >> =>
    woken \/ \E k \in Conns : at[k] = "wakeup"

NewQueuesEmpty == \A h \in Conns : h >= connectionID => writeQueue[h] = << >>

RepliesInv == RepliesWatched /\ DrainedTold /\ TasksNoticed /\ NewQueuesEmpty

LEMMA InitReplies == Init => RepliesInv
  BY DEF Init, RepliesInv, RepliesWatched, DrainedTold, TasksNoticed, NewQueuesEmpty

\* What is left to show of a step that leaves the tasks, the write queues and the
\* pool threads' labels alone.
LEMMA QuietReplies ==
  ASSUME RepliesInv, ReactorTypes,
         UNCHANGED <<connectionID, writeQueue, selectorTasks, at, to>>,
         sel = "dead" => sel' = "dead",
         \A h \in Conns : open'[h] => open[h],
         \A h \in Conns : open'[h] /\ writeQueue[h] # << >> /\ "W" \in interest[h] =>
           "W" \in interest'[h] \/ Told(h),
         sel' \in {"terminate", "update"} /\ open'[key'] /\ writeQueue[key'] # << >> =>
           \E h \in Conns : h = key' /\ Told(h),
         sel' \notin {"tasks", "dead"} => sel \notin {"tasks", "dead"} \/ selectorTasks = << >>,
         woken' # woken => sel' = "tasks"
  PROVE  RepliesInv'
<1>1. \A h : Told(h)' <=> Told(h)
  BY DEF Told, Elements
<1>2. RepliesWatched'
  BY <1>1 DEF RepliesInv, RepliesWatched
<1>3. DrainedTold'
  <2> SUFFICES ASSUME sel' \in {"terminate", "update"}, open'[key'], writeQueue'[key'] # << >>
               PROVE  Told(key)'
    BY DEF DrainedTold
  <2>1. PICK h \in Conns : h = key' /\ Told(h)
    OBVIOUS
  <2> QED
    BY <2>1 DEF Told, Elements
<1>4. TasksNoticed'
  BY DEF RepliesInv, TasksNoticed
<1>5. NewQueuesEmpty'
  BY DEF RepliesInv, NewQueuesEmpty
<1> QED
  BY <1>2, <1>3, <1>4, <1>5 DEF RepliesInv

LEMMA ServeReplies ==
  ASSUME RepliesInv, ReactorTypes, NEW accept \in BOOLEAN,
         Select(accept) \/ NextKey \/ KeysDone \/ IsReadable \/ IsWritable,
         UNCHANGED <<connectionID, open, outgoing, worker>>
  PROVE  RepliesInv'
<1> USE DEF outgoing, worker, tasks
<1>1. /\ UNCHANGED <<connectionID, writeQueue, selectorTasks, at, to, open, interest>>
      /\ sel # "dead" /\ sel' \notin {"terminate", "update"}
      /\ sel' = "tasks" \/ (sel \notin {"tasks", "dead"} /\ UNCHANGED woken)
  BY DEF Select, NextKey, KeysDone, IsReadable, IsWritable, Dies, NextIteration
<1> QED
  BY <1>1, QuietReplies

LEMMA RunTasksReplies ==
  ASSUME RepliesInv, ReactorTypes, RunSelectionThreadTasks,
         UNCHANGED <<connectionID, open, outgoing, worker>>
  PROVE  RepliesInv'
<1> USE DEF outgoing, worker
<1>1. CASE selectorTasks = << >>
  <2>1. sel = "tasks" /\ sel' = "keys" /\ UNCHANGED <<interest, selectorTasks, woken>>
    BY <1>1 DEF RunSelectionThreadTasks
  <2> QED
    BY <1>1, <2>1, QuietReplies
<1>2. CASE selectorTasks # << >>
  <2>1. /\ sel = "tasks" /\ sel' = "tasks" /\ selectorTasks' = Tail(selectorTasks)
        /\ interest' = IF open[Head(selectorTasks)]
                       THEN [interest EXCEPT ![Head(selectorTasks)] = {"R", "W"}] ELSE interest
    BY <1>2 DEF RunSelectionThreadTasks
  <2>2. selectorTasks \in Seq(Conns) /\ interest \in [Conns -> SUBSET {"R", "W"}]
    BY DEF ReactorTypes, SharedTypes
  <2>3. /\ Head(selectorTasks) \in Conns
        /\ Elements(selectorTasks) = {Head(selectorTasks)} \cup Elements(Tail(selectorTasks))
    BY <1>2, <2>2, TailElements
  <2>4. RepliesWatched'
    <3> SUFFICES ASSUME NEW h \in Conns, open[h], writeQueue[h] # << >>
                 PROVE  ("W" \in interest[h])' \/ Told(h)'
      BY <2>1 DEF RepliesWatched
    <3>1. "W" \in interest[h] \/ Told(h)
      BY <2>1 DEF RepliesInv, RepliesWatched
    <3>2. CASE h = Head(selectorTasks)
      BY <2>1, <2>2, <3>2
    <3>3. CASE h # Head(selectorTasks)
      BY <2>1, <2>2, <2>3, <3>1, <3>3 DEF Told
    <3> QED
      BY <3>2, <3>3
  <2> QED
    BY <2>1, <2>4 DEF RepliesInv, DrainedTold, TasksNoticed, NewQueuesEmpty
<1> QED
  BY <1>1, <1>2

LEMMA HandleAcceptReplies ==
  ASSUME RepliesInv, ReactorTypes, HandleAccept, UNCHANGED worker
  PROVE  RepliesInv'
<1> USE DEF HandleAccept, worker, outgoing, tasks
<1>1. /\ connectionID' = connectionID + 1 /\ connectionID \in Conns
      /\ open' = [open EXCEPT ![connectionID] = TRUE]
      /\ interest' = [interest EXCEPT ![connectionID] = {"R"}]
      /\ UNCHANGED <<writeQueue, selectorTasks, woken, at, to, sel>> /\ sel = "keys"
      /\ open \in [Conns -> BOOLEAN] /\ interest \in [Conns -> SUBSET {"R", "W"}]
  <2>1. connectionID \in Conns
    BY ReactorAssumption DEF ReactorTypes, SharedTypes, SelectorFits, Conns
  <2> QED
    BY <2>1 DEF ReactorTypes, SharedTypes
<1>2. writeQueue[connectionID] = << >>
  BY <1>1, ConnsNaturals DEF RepliesInv, NewQueuesEmpty
<1>3. \A h : Told(h)' <=> Told(h)
  BY <1>1 DEF Told, Elements
<1>4. RepliesWatched'
  BY <1>1, <1>2, <1>3 DEF RepliesInv, RepliesWatched
<1>5. NewQueuesEmpty'
  BY <1>1, ConnsNaturals DEF RepliesInv, NewQueuesEmpty
<1> QED
  BY <1>1, <1>4, <1>5 DEF RepliesInv, DrainedTold, TasksNoticed

LEMMA ReadReplies ==
  ASSUME RepliesInv, ReactorTypes, Read, UNCHANGED worker
  PROVE  RepliesInv'
<1> USE DEF Read, worker, outgoing, tasks
<1>1. /\ UNCHANGED <<connectionID, writeQueue, selectorTasks, at, to, woken, interest>>
      /\ sel \in {"lease", "read"} /\ sel' \in {"read", "isWritable", "keys"}
      /\ key \in Conns
  BY DEF LeaseBuffer, ContinueRead, ReadFails, NextIteration, ReactorTypes, SelectorFits, AtKey
<1>2. \A h \in Conns : open'[h] => open[h]
  BY <1>1 DEF LeaseBuffer, ContinueRead, ReadFails, ReactorTypes, SharedTypes
<1> QED
  BY <1>1, <1>2, QuietReplies

LEMMA WriteReplies ==
  ASSUME RepliesInv, ReactorTypes, Write, UNCHANGED worker
  PROVE  RepliesInv'
<1> USE DEF Write, worker, tasks
<1>1. /\ open \in [Conns -> BOOLEAN] /\ interest \in [Conns -> SUBSET {"R", "W"}]
      /\ writeQueue \in [Conns -> Seq({"RECEIPT", "ERROR", "MESSAGE"})]
  BY DEF ReactorTypes, SharedTypes
<1>2. /\ UNCHANGED <<connectionID, selectorTasks, at, to, woken>>
      /\ key \in Conns /\ sel \notin {"dead", "tasks"}
  BY DEF ContinueWrite, WriteFails, WriteDone, Drained, Terminate, UpdateInterestedOps,
         ReactorTypes, SelectorFits, AtKey
<1>3. CASE ContinueWrite
  <2>1. /\ sel' \in {"write", "keys"} /\ UNCHANGED <<open, interest>>
        /\ \/ UNCHANGED writeQueue
           \/ writeQueue' = [writeQueue EXCEPT ![key] = Tail(@)] /\ writeQueue[key] # << >>
    BY <1>3 DEF ContinueWrite, NextIteration
  <2>2. \A h \in Conns : writeQueue'[h] # << >> => writeQueue[h] # << >>
    BY <1>1, <1>2, <2>1
  <2>3. \A h : Told(h)' <=> Told(h)
    BY <1>2 DEF Told, Elements
  <2>4. RepliesWatched' /\ NewQueuesEmpty'
    BY <1>2, <2>1, <2>2, <2>3 DEF RepliesInv, RepliesWatched, NewQueuesEmpty
  <2> QED
    BY <1>2, <2>1, <2>4 DEF RepliesInv, DrainedTold, TasksNoticed
<1>4. CASE WriteFails \/ WriteDone
  <2>1. /\ sel' \in {"keys", "drained"} /\ UNCHANGED <<writeQueue, interest>>
        /\ \A h \in Conns : open'[h] => open[h]
    BY <1>1, <1>2, <1>4 DEF WriteFails, WriteDone, NextIteration, outgoing
  <2> QED
    BY <1>2, <2>1, QuietReplies
<1>5. CASE Drained
  <2>1. /\ UNCHANGED <<writeQueue, interest, open>>
        /\ \/ sel' = "keys"
           \/ sel' = "terminate" /\ UNCHANGED key /\ writeQueue[key] = << >>
    BY <1>5 DEF Drained, NextIteration, outgoing
  <2> QED
    BY <1>2, <2>1, QuietReplies
<1>6. CASE Terminate
  <2>1. /\ UNCHANGED <<writeQueue, interest>> /\ sel = "terminate"
        /\ \A h \in Conns : open'[h] => open[h]
        /\ \/ sel' = "keys"
           \/ sel' = "update" /\ UNCHANGED <<key, open>>
    BY <1>1, <1>2, <1>6 DEF Terminate, NextIteration, outgoing
  <2>2. open[key] /\ writeQueue[key] # << >> => \E h \in Conns : h = key /\ Told(h)
    BY <1>2, <2>1 DEF RepliesInv, DrainedTold
  <2> QED
    BY <1>2, <2>1, <2>2, QuietReplies
<1>7. CASE UpdateInterestedOps
  <2>1. /\ UNCHANGED <<writeQueue, open>> /\ sel = "update" /\ sel' \in {"keys", "dead"}
        /\ \/ UNCHANGED interest
           \/ interest' = [interest EXCEPT ![key] = {"R"}]
    BY <1>7 DEF UpdateInterestedOps, NextIteration, Dies, outgoing
  <2>2. open[key] /\ writeQueue[key] # << >> => \E h \in Conns : h = key /\ Told(h)
    BY <1>2, <2>1 DEF RepliesInv, DrainedTold
  <2>3. \A h \in Conns : open[h] /\ writeQueue[h] # << >> /\ "W" \in interest[h] =>
           "W" \in interest'[h] \/ Told(h)
    BY <1>1, <1>2, <2>1, <2>2
  <2> QED
    BY <1>2, <2>1, <2>3, QuietReplies
<1> QED
  BY <1>3, <1>4, <1>5, <1>6, <1>7

\* A step of a pool thread between sends, in which it decodes, ends or closes.
LEMMA QuietTaskReplies ==
  ASSUME RepliesInv, ReactorTypes, NEW h \in Conns, Decode(h) \/ Ending(h),
         UNCHANGED <<connectionID, interest, selector>>
  PROVE  RepliesInv'
<1> USE DEF outgoing, tasks, selector
<1>1. /\ at \in [Conns -> Labels] /\ to \in [Conns -> Conns \cup {None}]
      /\ open \in [Conns -> BOOLEAN]
  BY DEF ReactorTypes, SharedTypes, WorkersFit
<1>2. /\ UNCHANGED <<writeQueue, selectorTasks, woken, to>>
      /\ \A k \in Conns : open'[k] => open[k]
  BY <1>1 DEF Decode, Ending, Close, Disconnect
<1>3. \E l \in Labels \ {"notify", "wakeup"} :
        at[h] \notin {"notify", "wakeup"} /\ at' = [at EXCEPT ![h] = l]
  <2>1. CASE StartTask(h) \/ ReleaseBuffer(h)
    BY <2>1 DEF StartTask, ReleaseBuffer, Goto, Labels, ReactorTypes, WorkersFit, Pool!Start
  <2>2. CASE PushByte(h)
    <3>1. at' = [at EXCEPT ![h] = "decode"]
      BY <1>1, <2>2 DEF PushByte
    <3> QED
      BY <2>2, <3>1 DEF PushByte, Labels
  <2>3. CASE PopString(h)
    <3>1. at[h] = "decode" /\ at' \in {[at EXCEPT ![h] = l] : l \in {"decode", "send", "release"}}
      BY <1>1, <2>3 DEF PopString, Process, Throws, Ignored, Dispatch, Goto
    <3> QED
      BY <3>1 DEF Labels
  <2>4. CASE Ending(h)
    BY <2>4 DEF Ending, Close, Disconnect, Goto, Labels
  <2> QED
    BY <2>1, <2>2, <2>3, <2>4 DEF Decode
<1>4. \A k \in Conns : /\ at'[k] = "notify" <=> at[k] = "notify"
                       /\ at'[k] = "wakeup" <=> at[k] = "wakeup"
  BY <1>1, <1>3
<1>5. \A k : Told(k)' <=> Told(k)
  BY <1>2, <1>4 DEF Told, Elements
<1>6. DrainedTold'
  <2> SUFFICES ASSUME sel \in {"terminate", "update"}, open'[key], writeQueue[key] # << >>
               PROVE  Told(key)'
    BY <1>2 DEF DrainedTold
  <2>1. key \in Conns
    BY DEF ReactorTypes, SelectorFits, AtKey
  <2>2. Told(key)
    BY <1>2, <2>1 DEF RepliesInv, DrainedTold
  <2> QED
    BY <1>2, <1>4, <2>2 DEF Told, Elements
<1> QED
  BY <1>2, <1>4, <1>5, <1>6 DEF RepliesInv, RepliesWatched, TasksNoticed, NewQueuesEmpty

LEMMA SendingReplies ==
  ASSUME RepliesInv, ReactorTypes, NEW h \in Conns, Sending(h),
         UNCHANGED <<connectionID, interest, selector>>
  PROVE  RepliesInv'
<1> USE DEF tasks, selector
<1>1. /\ at \in [Conns -> Labels] /\ to \in [Conns -> Conns \cup {None}]
      /\ targets \in [Conns -> SUBSET (0 .. (connectionID - 1))]
      /\ connectionID \in 0 .. MaxConnections
      /\ writeQueue \in [Conns -> Seq({"RECEIPT", "ERROR", "MESSAGE"})]
      /\ selectorTasks \in Seq(Conns)
      /\ sel \in {"terminate", "update"} => key \in Conns
      /\ UNCHANGED open
  BY DEF ReactorTypes, SharedTypes, WorkersFit, SelectorFits, AtKey, Sending
<1>2. CASE Send(h)
  <2>1. PICK k \in targets[h] :
          /\ writeQueue' = [writeQueue EXCEPT ![k] = Append(@, Reply(kind[h]))]
          /\ to' = [to EXCEPT ![h] = k] /\ at[h] = "send"
          /\ at' = [at EXCEPT ![h] = "notify"]
          /\ UNCHANGED <<selectorTasks, woken>>
    BY <1>2 DEF Send, Goto
  <2>2. k \in Conns /\ k < connectionID
    <3>1. k \in 0 .. (connectionID - 1)
      BY <1>1, <2>1
    <3>2. k \in Conns
      BY <1>1, <3>1, ConnsNaturals
    <3>3. connectionID \in Nat
      BY <1>1
    <3> QED
      BY <3>1, <3>2, <3>3
  <2>3. Told(k)' /\ \A j \in Conns : Told(j) => Told(j)'
    BY <1>1, <2>1, <2>2 DEF Told, Elements
  <2>4. \A j \in Conns : j # k => writeQueue'[j] = writeQueue[j]
    BY <1>1, <2>1
  <2>5. \A j \in Conns : j # h => at'[j] = at[j]
    BY <1>1, <2>1
  <2>6. RepliesWatched'
    BY <1>1, <2>3, <2>4 DEF RepliesInv, RepliesWatched
  <2>7. DrainedTold'
    <3> SUFFICES ASSUME sel \in {"terminate", "update"}, open[key], writeQueue'[key] # << >>
                 PROVE  Told(key)'
      BY <1>1 DEF DrainedTold
    <3>1. PICK c \in Conns : c = key
      BY <1>1
    <3>2. Told(c)'
      BY <2>3, <2>4, <3>1 DEF RepliesInv, DrainedTold
    <3> QED
      BY <3>1, <3>2 DEF Told, Elements
  <2>8. TasksNoticed' /\ NewQueuesEmpty'
    BY <1>1, <2>1, <2>2, <2>4, <2>5, ConnsNaturals DEF RepliesInv, TasksNoticed, NewQueuesEmpty
  <2> QED
    BY <2>6, <2>7, <2>8 DEF RepliesInv
<1>3. CASE Notify(h)
  <2>1. /\ at[h] = "notify" /\ to[h] \in Conns
        /\ UNCHANGED <<writeQueue, woken>>
        /\ to' = [to EXCEPT ![h] = None]
    BY <1>3 DEF Notify, ReactorTypes, WorkersFit
  <2>2. \A j \in Conns \ {h} : to'[j] = to[j]
    BY <1>1, <2>1
  <2>3. CASE at' = [at EXCEPT ![h] = "wakeup"] /\ selectorTasks' = Append(selectorTasks, to[h])
    <3>1. Elements(selectorTasks') = Elements(selectorTasks) \cup {to[h]}
      BY <1>1, <2>1, <2>3, AppendElements
    <3>2. at'[h] = "wakeup" /\ \A j \in Conns \ {h} : at'[j] = at[j]
      BY <1>1, <2>3
    <3>3. \A j \in Conns : Told(j) => Told(j)'
      BY <2>2, <3>1, <3>2 DEF Told
    <3>4. DrainedTold'
      <4>1. sel \in {"terminate", "update"} => \E c \in Conns : c = key
        BY <1>1
      <4>2. \A c \in Conns : Told(c)' /\ c = key => Told(key)'
        BY <1>1 DEF Told, Elements
      <4> QED
        BY <1>1, <2>1, <3>3, <4>1, <4>2 DEF RepliesInv, DrainedTold
    <3> QED
      BY <1>1, <2>1, <3>2, <3>3, <3>4 DEF RepliesInv, RepliesWatched, TasksNoticed, NewQueuesEmpty
  <2>4. CASE /\ at' = [at EXCEPT ![h] = "send"] /\ UNCHANGED selectorTasks
             /\ sel = "dead" \/ ~ open[to[h]]
    <3>1. at'[h] = "send" /\ \A j \in Conns \ {h} : at'[j] = at[j]
      BY <1>1, <2>4
    <3>2. sel # "dead" => \A j \in Conns : open[j] /\ Told(j) => Told(j)'
      BY <2>2, <2>4, <3>1 DEF Told, Elements
    <3>3. DrainedTold'
      <4>1. sel \in {"terminate", "update"} => sel # "dead" /\ \E c \in Conns : c = key
        BY <1>1
      <4>2. \A c \in Conns : Told(c)' /\ c = key => Told(key)'
        BY <1>1 DEF Told, Elements
      <4> QED
        BY <1>1, <2>1, <3>2, <4>1, <4>2 DEF RepliesInv, DrainedTold
    <3>4. TasksNoticed'
      BY <2>1, <2>4, <3>1 DEF RepliesInv, TasksNoticed
    <3> QED
      BY <1>1, <2>1, <3>2, <3>3, <3>4 DEF RepliesInv, RepliesWatched, NewQueuesEmpty
  <2> QED
    BY <1>3, <2>3, <2>4 DEF Notify, Goto
<1>4. CASE Wakeup(h) \/ RegistryThrows(h) \/ Sent(h)
  <2>1. /\ UNCHANGED <<writeQueue, selectorTasks, to>>
        /\ at[h] # "notify" /\ \E l \in Labels \ {"notify", "wakeup"} : at' = [at EXCEPT ![h] = l]
        /\ at[h] = "wakeup" => woken'
        /\ woken => woken'
    BY <1>4 DEF Wakeup, RegistryThrows, Sent, Goto, Labels
  <2>2. at'[h] # "notify" /\ \A j \in Conns \ {h} : at'[j] = at[j]
    BY <1>1, <2>1
  <2>3. \A j \in Conns : Told(j) <=> Told(j)'
    BY <2>1, <2>2 DEF Told, Elements
  <2>4. DrainedTold'
    <3>1. sel \in {"terminate", "update"} => \E c \in Conns : c = key
      BY <1>1
    <3>2. \A c \in Conns : Told(c)' /\ c = key => Told(key)'
      BY <1>1 DEF Told, Elements
    <3> QED
      BY <1>1, <2>1, <2>3, <3>1, <3>2 DEF RepliesInv, DrainedTold
  <2> QED
    BY <1>1, <2>1, <2>2, <2>3, <2>4 DEF RepliesInv, RepliesWatched, TasksNoticed, NewQueuesEmpty
<1> QED
  BY <1>2, <1>3, <1>4 DEF Sending

LEMMA NextReplies == ReactorTypes /\ RepliesInv /\ [Next]_vars => RepliesInv'
<1> SUFFICES ASSUME ReactorTypes, RepliesInv, [Next]_vars PROVE RepliesInv'
  OBVIOUS
<1>1. CASE SelectorStep
  <2>1. CASE Serve
    BY <1>1, <2>1, ServeReplies, RunTasksReplies DEF SelectorStep, Serve
  <2>2. CASE HandleAccept \/ Read \/ Write
    BY <1>1, <2>2, HandleAcceptReplies, ReadReplies, WriteReplies DEF SelectorStep
  <2> QED
    BY <1>1, <2>1, <2>2 DEF SelectorStep
<1>2. CASE Connected
  BY <1>2, ServeReplies DEF Connected
<1>3. ASSUME NEW h \in Conns, ClientSends(h) \/ ClientLeaves(h) PROVE RepliesInv'
  <2>1. UNCHANGED <<connectionID, open, interest, selector, tasks, outgoing, worker>>
    BY <1>3 DEF ClientSends, ClientLeaves
  <2> QED
    BY <2>1 DEF selector, tasks, outgoing, worker, Told, Elements, RepliesInv, RepliesWatched,
                DrainedTold, TasksNoticed, NewQueuesEmpty
<1>4. ASSUME NEW h \in Conns, TaskStep(h) PROVE RepliesInv'
  BY <1>4, QuietTaskReplies, SendingReplies DEF TaskStep
<1>5. CASE UNCHANGED vars
  BY <1>5 DEF vars, selector, tasks, outgoing, worker, Told, Elements, RepliesInv,
              RepliesWatched, DrainedTold, TasksNoticed, NewQueuesEmpty
<1> QED
  BY <1>1, <1>2, <1>3, <1>4, <1>5 DEF Next, Quiescent

\* A frame that some thread has queued for an open channel is watched for, or the
\* selector thread has the task, or will be told, and it does not sleep over a task:
\* however send and updateInterestedOps on the pool threads meet continueWrite,
\* which looks at the queue and takes OP_WRITE away in separate steps.
THEOREM RepliesNotForgotten == Spec => []NoForgottenReply
<1>1. RepliesInv => NoForgottenReply
  BY DEF RepliesInv, RepliesWatched, TasksNoticed, Told, NoForgottenReply
<1> QED
  BY <1>1, InitTypes, InitReplies, NextTypes, NextReplies, PTL DEF Spec

-----------------------------------------------------------------------------
(***************************************************************************)
(* Frames.  Where a client's stream is cut, and how much of it each task   *)
(* has decoded, is in the contents of the buffers its tasks hold: each is  *)
(* a run of consecutive bytes, the next one begins where the one before it *)
(* ends, and what is decoded ends where the first of them begins.          *)
(***************************************************************************)
First(b) == content[b][1][2]
Last(b) == First(b) + Len(content[b]) - 1

\* The bytes of the stream that were decoded, and those of the running task too.
Consumed(h) == 2 * Len(processed[h]) + Len(partial[h])
ToDecode(h) == IF current[h] = None THEN Consumed(h) ELSE Last(current[h])

\* Consecutive bytes of the stream of h.
Run(h, b) ==
  /\ content[b] # << >>
  /\ \A i \in DOMAIN content[b] : content[b][i] = <<h, First(b) + i - 1>>

FramesDone(h) ==
  /\ \A i \in DOMAIN processed[h] : processed[h][i] = i
  /\ partial[h] \in {<< >>, << <<h, 2 * Len(processed[h]) + 1>> >>}

CurrentFits(h) ==
  current[h] # None =>
    /\ Run(h, current[h]) /\ pos[h] <= Len(content[current[h]])
    /\ First(current[h]) + pos[h] = Consumed(h) + 1

PendingFits(h) ==
  /\ \A i \in DOMAIN pending[h] : Run(h, pending[h][i])
  /\ pending[h] = << >> => taken[h] = ToDecode(h)
  /\ pending[h] # << >> => /\ First(pending[h][1]) = ToDecode(h) + 1
                           /\ Last(pending[h][Len(pending[h])]) = taken[h]
  /\ \A i \in 1 .. (Len(pending[h]) - 1) : First(pending[h][i + 1]) = Last(pending[h][i]) + 1

StreamOf(h) == ~ threw[h] => FramesDone(h) /\ CurrentFits(h) /\ PendingFits(h)

\* A task starts at the first byte; it skips the rest only if process threw.
TaskEnds ==
  \A h \in Conns : (at[h] = "idle" => pos[h] = 0) /\ (at[h] = "release" => threw[h])

StreamInv == TaskEnds /\ \A h \in Conns : StreamOf(h)

LEMMA StreamFacts ==
  ASSUME ReactorTypes, NEW h \in Conns
  PROVE  /\ taken[h] \in Nat /\ pos[h] \in Nat /\ threw[h] \in BOOLEAN
         /\ processed[h] \in Seq(Nat) /\ Len(processed[h]) \in Nat
         /\ partial[h] \in Seq(Byte) /\ Len(partial[h]) \in Nat
         /\ Consumed(h) \in Nat
         /\ pending[h] \in Seq(DOMAIN content) /\ Len(pending[h]) \in Nat
         /\ DOMAIN pending[h] = 1 .. Len(pending[h])
         /\ \A i \in DOMAIN pending[h] : pending[h][i] \in Held(h)
         /\ current[h] # None => current[h] \in Held(h)
<1>1. /\ taken[h] \in Nat /\ pos[h] \in Nat /\ threw[h] \in BOOLEAN
      /\ processed[h] \in Seq(Nat) /\ partial[h] \in Seq(Byte)
      /\ pending[h] \in Seq(DOMAIN content)
  BY DEF ReactorTypes, StreamTypes, SharedTypes
<1>2. /\ Len(processed[h]) \in Nat /\ Len(partial[h]) \in Nat /\ Len(pending[h]) \in Nat
      /\ DOMAIN pending[h] = 1 .. Len(pending[h])
  BY <1>1
<1>3. Consumed(h) \in Nat
  <2>1. \A m, n \in Nat : 2 * m + n \in Nat
    OBVIOUS
  <2> QED
    BY <1>2, <2>1, Zenon DEF Consumed
<1> QED
  BY <1>1, <1>2, <1>3 DEF Held, Elements

LEMMA RunFacts ==
  ASSUME ReactorTypes, NEW h \in Conns, NEW b \in DOMAIN content, Run(h, b)
  PROVE  /\ content[b] \in Seq(Byte) /\ Len(content[b]) \in Nat \ {0}
         /\ DOMAIN content[b] = 1 .. Len(content[b])
         /\ First(b) \in Nat /\ Last(b) \in Nat
         /\ \A i \in 1 .. Len(content[b]) : content[b][i] = <<h, First(b) + i - 1>>
<1>1. content[b] \in Seq(Byte) /\ content[b] # << >>
  BY BufferFacts DEF Run
<1>2. Len(content[b]) \in Nat \ {0} /\ DOMAIN content[b] = 1 .. Len(content[b])
  BY <1>1
<1>3. content[b][1] \in Byte
  BY <1>1, <1>2, ElementOfSeq
<1>4. First(b) \in Nat
  BY <1>3 DEF First, Byte
<1> QED
  BY <1>1, <1>2, <1>4 DEF Last, Run

\* Nothing happens to the stream of h.
LEMMA StreamKept ==
  ASSUME ReactorTypes, NEW h \in Conns, StreamOf(h),
         processed'[h] = processed[h], partial'[h] = partial[h], taken'[h] = taken[h],
         pos'[h] = pos[h], current'[h] = current[h], pending'[h] = pending[h],
         \A b \in Held(h) : content'[b] = content[b],
         threw[h] => threw'[h]
  PROVE  StreamOf(h)'
<1> SUFFICES ASSUME ~ threw[h]
             PROVE  FramesDone(h)' /\ CurrentFits(h)' /\ PendingFits(h)'
  BY DEF StreamOf
<1>1. FramesDone(h) /\ CurrentFits(h) /\ PendingFits(h)
  BY DEF StreamOf
<1>2. \A b \in Held(h) : First(b)' = First(b) /\ Last(b)' = Last(b) /\ Run(h, b)' = Run(h, b)
  BY DEF First, Last, Run
<1>3. FramesDone(h)' /\ Consumed(h)' = Consumed(h)
  BY <1>1 DEF FramesDone, Consumed
<1>4. CurrentFits(h)'
  <2> SUFFICES ASSUME current[h] # None PROVE CurrentFits(h)'
    BY DEF CurrentFits
  <2>1. current[h] \in Held(h)
    BY StreamFacts
  <2>2. /\ First(current[h])' = First(current[h]) /\ Run(h, current[h])' = Run(h, current[h])
        /\ content'[current'[h]] = content[current[h]]
    BY <1>2, <2>1 DEF First, Run
  <2> QED
    BY <1>1, <1>3, <2>2 DEF CurrentFits
<1>5. ToDecode(h)' = ToDecode(h)
  BY <1>2, <1>3, StreamFacts DEF ToDecode, Last, First
<1>6. PendingFits(h)'
  <2>1. \A i \in DOMAIN pending[h] : /\ pending[h][i] \in Held(h) /\ pending'[h][i] = pending[h][i]
    BY StreamFacts
  <2>2. \A i \in DOMAIN pending[h] : /\ First(pending[h][i])' = First(pending[h][i])
                                     /\ Last(pending[h][i])' = Last(pending[h][i])
                                     /\ Run(h, pending[h][i])' = Run(h, pending[h][i])
    BY <2>1 DEF First, Last, Run
  <2>3. pending[h] # << >> => 1 \in DOMAIN pending[h] /\ Len(pending[h]) \in DOMAIN pending[h]
    BY StreamFacts
  <2>4. \A i \in 1 .. (Len(pending[h]) - 1) : i \in DOMAIN pending[h] /\ i + 1 \in DOMAIN pending[h]
    BY StreamFacts
  <2> QED
    BY <1>1, <1>5, <2>2, <2>3, <2>4 DEF PendingFits
<1> QED
  BY <1>3, <1>4, <1>6

LEMMA LeaseStream ==
  ASSUME ReactorTypes, StreamInv, LeaseBuffer, UNCHANGED <<pos, partial, processed, threw>>
  PROVE  \A h \in Conns : StreamOf(h)'
<1> TAKE h \in Conns
<1>1. \A b \in DOMAIN content : content'[b] = content[b]
  <2>1. content \in Seq(Seq(Byte)) /\ << >> \in Seq(Byte)
    BY BufferFacts
  <2>2. content' = content \/ content' = Append(content, << >>)
    BY DEF LeaseBuffer
  <2> QED
    BY <2>1, <2>2
<1>2. \A b \in Held(h) : content'[b] = content[b]
  BY <1>1, BufferFacts
<1> QED
  BY <1>2, StreamKept DEF LeaseBuffer, StreamInv

LEMMA ContinueReadStream ==
  ASSUME ReactorTypes, BuffersExclusive, StreamInv, ContinueRead,
         UNCHANGED <<pos, partial, processed, threw>>
  PROVE  \A h \in Conns : StreamOf(h)'
<1> USE ConnsNaturals
<1>0. PICK c \in Conns : c = key
  BY DEF ContinueRead, ReactorTypes, SelectorFits, AtKey
<1>1. PICK b \in DOMAIN content : b = lease
  BY DEF ContinueRead, ReactorTypes, SharedTypes, SelectorFits
<1>2. PICK n \in (taken[c] + 1) .. (2 * Len(sent[c])) :
        /\ content' = [content EXCEPT ![b] = Bytes(c, taken[c] + 1, n)]
        /\ taken' = [taken EXCEPT ![c] = n]
  BY <1>0, <1>1 DEF ContinueRead
<1>3. /\ pending' = [pending EXCEPT ![c] = Append(pending[c], b)] /\ UNCHANGED current
      /\ pending \in [Conns -> Seq(DOMAIN content)] /\ taken \in [Conns -> Nat]
      /\ content \in Seq(Seq(Byte)) /\ sent \in [Conns -> Seq(Kinds)]
  BY <1>0, <1>1 DEF ContinueRead, Pool!Submit, ReactorTypes, SharedTypes, StreamTypes
<1>4. \A h \in Conns : b \notin Held(h)
  BY <1>1 DEF BuffersExclusive
<1>5. \A a \in DOMAIN content \ {b} : content'[a] = content[a]
  BY <1>2, <1>3
<1>6. \A h \in Conns : \A a \in Held(h) : content'[a] = content[a]
  BY <1>4, <1>5, BufferFacts
<1>7. ASSUME NEW h \in Conns \ {c} PROVE StreamOf(h)'
  <2>1. taken'[h] = taken[h] /\ pending'[h] = pending[h]
    BY <1>2, <1>3
  <2> QED
    BY <1>3, <1>6, <2>1, StreamKept DEF StreamInv
<1>8. StreamOf(c)'
  <2> SUFFICES ASSUME ~ threw[c] PROVE FramesDone(c)' /\ CurrentFits(c)' /\ PendingFits(c)'
    BY DEF StreamOf
  <2>1. FramesDone(c) /\ CurrentFits(c) /\ PendingFits(c)
    BY DEF StreamInv, StreamOf
  <2>2. \A a \in Held(c) : First(a)' = First(a) /\ Last(a)' = Last(a) /\ Run(c, a)' = Run(c, a)
    BY <1>6 DEF First, Last, Run
  <2>3. FramesDone(c)' /\ Consumed(c)' = Consumed(c)
    BY <2>1 DEF FramesDone, Consumed
  <2>4. CurrentFits(c)' /\ ToDecode(c)' = ToDecode(c)
    <3>1. CASE current[c] = None
      BY <1>3, <2>3, <3>1 DEF CurrentFits, ToDecode
    <3>2. CASE current[c] # None
      <4>1. current[c] \in Held(c)
        BY <3>2, StreamFacts
      <4>2. /\ First(current[c])' = First(current[c]) /\ Run(c, current[c])' = Run(c, current[c])
            /\ Last(current[c])' = Last(current[c])
            /\ content'[current'[c]] = content[current[c]]
        BY <1>3, <1>6, <2>2, <4>1 DEF First, Last, Run
      <4> QED
        BY <1>3, <2>1, <2>3, <3>2, <4>2 DEF CurrentFits, ToDecode
    <3> QED
      BY <3>1, <3>2
  <2>5. /\ taken[c] \in Nat /\ n \in Nat /\ n > taken[c] /\ taken'[c] = n
    BY <1>2, <1>3
  <2>6. Run(c, b)' /\ First(b)' = taken[c] + 1 /\ Last(b)' = n
    <3>1. content'[b] = Bytes(c, taken[c] + 1, n)
      BY <1>2, <1>3
    <3>2. DOMAIN content'[b] = 1 .. (n - taken[c]) /\ Len(content'[b]) = n - taken[c]
      <4>1. n - (taken[c] + 1) + 1 = n - taken[c] /\ n - taken[c] \in Nat \ {0}
        BY <2>5
      <4> QED
        BY <3>1, <4>1 DEF Bytes
    <3>3. \A i \in 1 .. (n - taken[c]) : content'[b][i] = <<c, (taken[c] + 1) + i - 1>>
      <4>1. n - (taken[c] + 1) + 1 = n - taken[c]
        BY <2>5
      <4> QED
        BY <3>1, <4>1 DEF Bytes
    <3>4. First(b)' = taken[c] + 1
      BY <2>5, <3>3 DEF First
    <3>5. Last(b)' = n
      BY <2>5, <3>2, <3>4 DEF Last
    <3>6. content'[b] # << >>
      BY <2>5, <3>2
    <3> QED
      BY <3>2, <3>3, <3>4, <3>5, <3>6 DEF Run
  <2>7. /\ pending'[c] = Append(pending[c], b) /\ pending[c] \in Seq(DOMAIN content)
        /\ Len(pending[c]) \in Nat
        /\ Len(pending'[c]) = Len(pending[c]) + 1
        /\ DOMAIN pending'[c] = 1 .. (Len(pending[c]) + 1)
        /\ pending'[c][Len(pending[c]) + 1] = b
        /\ \A i \in 1 .. Len(pending[c]) : /\ pending'[c][i] = pending[c][i]
                                           /\ pending[c][i] \in Held(c)
    <3>1. pending'[c] = Append(pending[c], b)
      BY <1>3
    <3> QED
      BY <3>1, StreamFacts
  <2>8. \A i \in 1 .. Len(pending[c]) :
          /\ Run(c, pending[c][i])' /\ First(pending[c][i])' = First(pending[c][i])
          /\ Last(pending[c][i])' = Last(pending[c][i])
    <3> TAKE i \in 1 .. Len(pending[c])
    <3>1. Run(c, pending[c][i])
      BY <2>1, StreamFacts DEF PendingFits
    <3>2. /\ pending'[c][i] = pending[c][i] /\ content'[pending[c][i]] = content[pending[c][i]]
      BY <1>6, <2>7
    <3> QED
      BY <3>1, <3>2 DEF First, Last, Run
  <2>9. /\ Run(c, pending[c][Len(pending[c])])'
        /\ First(pending[c][Len(pending[c])])' = taken[c] + 1
        /\ Last(pending[c][Len(pending[c])])' = n
    BY <2>6, <2>7 DEF First, Last, Run
  <2>10. pending'[c] # << >>
    BY <2>7
  <2>11. \A i \in DOMAIN pending'[c] : Run(c, pending[c][i])'
    BY <2>7, <2>8, <2>9
  <2>12. First(pending[c][1])' = ToDecode(c)' + 1
    BY <2>1, <2>4, <2>7, <2>8, <2>9 DEF PendingFits
  <2>13. Last(pending[c][Len(pending[c])])' = taken'[c]
    BY <2>5, <2>7, <2>9
  <2>14. ASSUME NEW i \in 1 .. (Len(pending'[c]) - 1)
         PROVE  First(pending[c][i + 1])' = Last(pending[c][i])' + 1
    <3>1. i \in 1 .. Len(pending[c])
      BY <2>7
    <3>2. CASE i = Len(pending[c])
      <4>1. Last(pending[c][i]) = taken[c]
        BY <2>1, <3>1, <3>2 DEF PendingFits
      <4>2. i + 1 = Len(pending'[c])
        BY <2>7, <3>2
      <4>3. First(pending[c][i + 1])' = taken[c] + 1
        BY <2>9, <4>2
      <4>4. Last(pending[c][i])' = Last(pending[c][i])
        BY <2>8, <3>1
      <4> QED
        BY <4>1, <4>3, <4>4
    <3>3. CASE i # Len(pending[c])
      <4>1. i \in 1 .. (Len(pending[c]) - 1) /\ i + 1 \in 1 .. Len(pending[c])
        BY <2>7, <3>1, <3>3
      <4> QED
        BY <2>1, <2>8, <3>1, <4>1 DEF PendingFits
    <3> QED
      BY <3>2, <3>3
  <2>15. PendingFits(c)'
    BY <2>10, <2>11, <2>12, <2>13, <2>14 DEF PendingFits
  <2> QED
    BY <2>3, <2>4, <2>15
<1> QED
  BY <1>7, <1>8

LEMMA StartTaskStream ==
  ASSUME ReactorTypes, StreamInv, NEW h \in Conns, StartTask(h), UNCHANGED taken
  PROVE  \A k \in Conns : StreamOf(k)'
<1>1. /\ current[h] = None /\ pending[h] # << >>
      /\ current' = [current EXCEPT ![h] = Head(pending[h])]
      /\ pending' = [pending EXCEPT ![h] = Tail(pending[h])]
      /\ UNCHANGED <<content, pos, partial, processed, threw>>
      /\ pending \in [Conns -> Seq(DOMAIN content)]
      /\ current \in [Conns -> (DOMAIN content) \cup {None}]
  BY DEF StartTask, Pool!Start, buffers, ReactorTypes, SharedTypes
<1>2. ASSUME NEW k \in Conns \ {h} PROVE StreamOf(k)'
  <2>1. current'[k] = current[k] /\ pending'[k] = pending[k]
    BY <1>1
  <2> QED
    BY <1>1, <2>1, StreamKept DEF StreamInv
<1>3. StreamOf(h)'
  <2> SUFFICES ASSUME ~ threw[h] PROVE FramesDone(h)' /\ CurrentFits(h)' /\ PendingFits(h)'
    BY <1>1 DEF StreamOf
  <2>1. FramesDone(h) /\ CurrentFits(h) /\ PendingFits(h)
    BY DEF StreamInv, StreamOf
  <2>2. /\ pending[h] \in Seq(DOMAIN content) /\ Len(pending[h]) \in Nat \ {0}
        /\ current'[h] = pending[h][1] /\ pending[h][1] \in DOMAIN content
        /\ pending'[h] = Tail(pending[h])
        /\ Len(pending'[h]) = Len(pending[h]) - 1
        /\ DOMAIN pending[h] = 1 .. Len(pending[h])
        /\ DOMAIN pending'[h] = 1 .. (Len(pending[h]) - 1)
        /\ \A i \in 1 .. (Len(pending[h]) - 1) : pending'[h][i] = pending[h][i + 1]
        /\ pending'[h] = << >> <=> Len(pending[h]) = 1
    <3>1. pending[h] \in Seq(DOMAIN content) /\ current'[h] = Head(pending[h])
          /\ pending'[h] = Tail(pending[h])
      BY <1>1
    <3> QED
      BY <1>1, <3>1, TailFacts
  <2>3. Run(h, pending[h][1]) /\ First(pending[h][1]) = Consumed(h) + 1 /\ pos[h] = 0
    <3>1. at[h] = "idle"
      BY <1>1 DEF ReactorTypes, WorkersFit
    <3>2. Run(h, pending[h][1])
      BY <2>1, <2>2 DEF PendingFits
    <3>3. First(pending[h][1]) = Consumed(h) + 1
      BY <1>1, <2>1 DEF PendingFits, ToDecode
    <3> QED
      BY <3>1, <3>2, <3>3 DEF StreamInv, TaskEnds
  <2>4. \A b : First(b)' = First(b) /\ Last(b)' = Last(b) /\ Run(h, b)' = Run(h, b)
    BY <1>1 DEF First, Last, Run
  <2>5. FramesDone(h)' /\ Consumed(h)' = Consumed(h)
    BY <1>1, <2>1 DEF FramesDone, Consumed
  <2>6. CurrentFits(h)'
    <3>1. /\ First(current[h])' = First(pending[h][1])
          /\ Run(h, current[h])' = Run(h, pending[h][1])
          /\ content'[current'[h]] = content[pending[h][1]]
      BY <1>1, <2>2 DEF First, Run
    <3>2. Len(content[pending[h][1]]) \in Nat \ {0}
      BY <2>2, <2>3, RunFacts
    <3>3. pos'[h] = 0 /\ pos'[h] <= Len(content'[current'[h]])
      BY <1>1, <2>3, <3>1, <3>2
    <3>4. First(current[h])' + pos'[h] = Consumed(h)' + 1
      BY <2>3, <2>5, <3>1, <3>3, StreamFacts
    <3> QED
      BY <2>3, <3>1, <3>3, <3>4 DEF CurrentFits
  <2>7. ToDecode(h)' = Last(pending[h][1])
    BY <1>1, <2>2, ConnsNaturals, BufferFacts DEF ToDecode, Last, First
  <2>8. \A i \in 1 .. (Len(pending[h]) - 1) :
          /\ Run(h, pending[h][i])' = Run(h, pending[h][i + 1])
          /\ First(pending[h][i])' = First(pending[h][i + 1])
          /\ Last(pending[h][i])' = Last(pending[h][i + 1])
    BY <1>1, <2>2 DEF First, Last, Run
  <2>9. \A i \in DOMAIN pending'[h] : Run(h, pending[h][i])'
    <3>1. \A i \in 1 .. (Len(pending[h]) - 1) : i + 1 \in DOMAIN pending[h]
      BY <2>2
    <3> QED
      BY <2>1, <2>2, <2>8, <3>1 DEF PendingFits
  <2>10. pending'[h] = << >> => taken'[h] = ToDecode(h)'
    BY <1>1, <2>1, <2>2, <2>7 DEF PendingFits
  <2>11. ASSUME pending'[h] # << >>
         PROVE  First(pending[h][1])' = ToDecode(h)' + 1 /\ Last(pending[h][Len(pending[h])])' = taken'[h]
    <3>1. 1 \in 1 .. (Len(pending[h]) - 1) /\ Len(pending[h]) - 1 \in 1 .. (Len(pending[h]) - 1)
      BY <2>2, <2>11
    <3>2. First(pending[h][1])' = First(pending[h][1 + 1])
      BY <2>8, <3>1
    <3>3. First(pending[h][1 + 1]) = Last(pending[h][1]) + 1
      BY <2>1, <3>1 DEF PendingFits
    <3>4. Last(pending[h][Len(pending[h])])' = Last(pending[h][Len(pending[h])])
      <4> DEFINE i == Len(pending[h]) - 1
      <4>1. i \in 1 .. (Len(pending[h]) - 1) /\ i + 1 = Len(pending[h]) /\ i = Len(pending'[h])
        BY <2>2, <3>1
      <4>2. pending'[h][Len(pending'[h])] = pending[h][Len(pending[h])]
        BY <2>2, <4>1
      <4> QED
        BY <1>1, <4>2 DEF Last, First
    <3> QED
      BY <1>1, <2>1, <2>7, <3>2, <3>3, <3>4 DEF PendingFits
  <2>12. ASSUME NEW i \in 1 .. (Len(pending'[h]) - 1)
         PROVE  First(pending[h][i + 1])' = Last(pending[h][i])' + 1
    <3>1. /\ i \in 1 .. (Len(pending[h]) - 1) /\ i + 1 \in 1 .. (Len(pending[h]) - 1)
      BY <2>2
    <3>2. First(pending[h][i + 1])' = First(pending[h][(i + 1) + 1])
      BY <2>8, <3>1
    <3>3. Last(pending[h][i])' = Last(pending[h][i + 1])
      BY <2>8, <3>1
    <3> QED
      BY <2>1, <3>1, <3>2, <3>3 DEF PendingFits
  <2>13. PendingFits(h)'
    BY <2>9, <2>10, <2>11, <2>12 DEF PendingFits
  <2> QED
    BY <2>5, <2>6, <2>13
<1> QED
  BY <1>2, <1>3

LEMMA Parity ==
  \A n \in Nat : /\ (2 * n + 1) % 2 = 1 /\ (2 * n + 1 + 1) % 2 = 0
                 /\ (2 * n + 1 + 1) \div 2 = n + 1
  OBVIOUS

\* The byte a task decodes next is the next byte of the stream.
LEMMA NextByteOfStream ==
  ASSUME ReactorTypes, NEW h \in Conns, at[h] = "decode", HasRemaining(h),
         FramesDone(h), CurrentFits(h)
  PROVE  /\ current[h] # None /\ NextByte(h) = <<h, Consumed(h) + 1>>
         /\ pos[h] + 1 <= Len(content[current[h]])
         /\ IF IsNul(NextByte(h))
            THEN /\ partial[h] = << <<h, 2 * Len(processed[h]) + 1>> >>
                 /\ FrameOf(h, partial[h]) = Len(processed[h]) + 1
            ELSE partial[h] = << >>
<1> DEFINE n == Len(processed[h])
<1>1. current[h] # None /\ current[h] \in DOMAIN content
  BY BufferFacts DEF ReactorTypes, WorkersFit
<1>2. /\ Run(h, current[h]) /\ First(current[h]) + pos[h] = Consumed(h) + 1
      /\ Len(content[current[h]]) \in Nat /\ First(current[h]) \in Nat /\ pos[h] \in Nat
      /\ n \in Nat
      /\ \A i \in 1 .. Len(content[current[h]]) :
           content[current[h]][i] = <<h, First(current[h]) + i - 1>>
  BY <1>1, RunFacts, StreamFacts DEF CurrentFits
<1>3. pos[h] + 1 \in 1 .. Len(content[current[h]])
  BY <1>2 DEF HasRemaining, Buffer
<1>4. NextByte(h) = <<h, First(current[h]) + (pos[h] + 1) - 1>>
  BY <1>2, <1>3 DEF NextByte, Buffer
<1>5. NextByte(h) = <<h, Consumed(h) + 1>>
  BY <1>2, <1>4
<1>6. CASE partial[h] = << >>
  <2>1. Consumed(h) + 1 = 2 * n + 1
    BY <1>2, <1>6 DEF Consumed
  <2>2. ~ IsNul(NextByte(h))
    BY <1>2, <1>5, <2>1, Parity DEF IsNul
  <2> QED
    BY <1>1, <1>3, <1>5, <1>6, <2>2
<1>7. CASE partial[h] = << <<h, 2 * n + 1>> >>
  <2>1. Consumed(h) + 1 = 2 * n + 1 + 1
    BY <1>2, <1>7 DEF Consumed
  <2>2. IsNul(NextByte(h))
    BY <1>2, <1>5, <2>1, Parity DEF IsNul
  <2>3. FrameOf(h, partial[h]) = n + 1
    <3>1. Len(partial[h]) = 1 /\ partial[h][1] = <<h, 2 * n + 1>>
      BY <1>7
    <3>2. partial[h][1][1] = h /\ partial[h][1][2] = 2 * n + 1
      BY <3>1
    <3>3. FrameOf(h, partial[h]) = (2 * n + 1 + 1) \div 2
      BY <3>1, <3>2 DEF FrameOf
    <3> QED
      BY <1>2, <3>3, Parity
  <2> QED
    BY <1>1, <1>3, <1>5, <1>7, <2>2, <2>3
<1> QED
  BY <1>6, <1>7 DEF FramesDone

LEMMA PushByteStream ==
  ASSUME ReactorTypes, StreamInv, NEW h \in Conns, PushByte(h), UNCHANGED taken
  PROVE  \A k \in Conns : StreamOf(k)'
<1>1. /\ at[h] = "decode" /\ HasRemaining(h) /\ ~ IsNul(NextByte(h))
      /\ pos' = [pos EXCEPT ![h] = @ + 1]
      /\ partial' = [partial EXCEPT ![h] = Append(partial[h], NextByte(h))]
      /\ UNCHANGED <<content, current, pending, processed, threw>>
      /\ pos \in [Conns -> Nat] /\ partial \in [Conns -> Seq(Byte)]
  BY DEF PushByte, buffers, queues, ReactorTypes, StreamTypes
<1>2. ASSUME NEW k \in Conns \ {h} PROVE StreamOf(k)'
  <2>1. pos'[k] = pos[k] /\ partial'[k] = partial[k]
    BY <1>1
  <2> QED
    BY <1>1, <2>1, StreamKept DEF StreamInv
<1>3. StreamOf(h)'
  <2> SUFFICES ASSUME ~ threw[h] PROVE FramesDone(h)' /\ CurrentFits(h)' /\ PendingFits(h)'
    BY <1>1 DEF StreamOf
  <2>1. FramesDone(h) /\ CurrentFits(h) /\ PendingFits(h)
    BY DEF StreamInv, StreamOf
  <2>2. /\ current[h] # None /\ NextByte(h) = <<h, Consumed(h) + 1>> /\ partial[h] = << >>
        /\ pos[h] + 1 <= Len(content[current[h]])
    BY <1>1, <2>1, NextByteOfStream
  <2>3. Consumed(h) = 2 * Len(processed[h])
    BY <2>2, StreamFacts DEF Consumed
  <2>4. /\ partial'[h] = << <<h, 2 * Len(processed[h]) + 1>> >> /\ pos'[h] = pos[h] + 1
    BY <1>1, <2>2, <2>3
  <2>5. FramesDone(h)' /\ Consumed(h)' = Consumed(h) + 1
    BY <1>1, <2>1, <2>3, <2>4, StreamFacts DEF FramesDone, Consumed
  <2>6. CurrentFits(h)'
    <3>1. First(current[h])' = First(current[h]) /\ Run(h, current[h])' = Run(h, current[h])
      BY <1>1 DEF First, Run
    <3>2. First(current[h]) \in Nat
      BY <2>1, <2>2, RunFacts, BufferFacts DEF CurrentFits
    <3> QED
      BY <1>1, <2>1, <2>2, <2>4, <2>5, <3>1, <3>2, StreamFacts DEF CurrentFits
  <2>7. PendingFits(h)'
    BY <1>1, <2>1, <2>2 DEF PendingFits, ToDecode, First, Last, Run
  <2> QED
    BY <2>5, <2>6, <2>7
<1> QED
  BY <1>2, <1>3

LEMMA PopStringStream ==
  ASSUME ReactorTypes, StreamInv, NEW h \in Conns, PopString(h), UNCHANGED taken
  PROVE  \A k \in Conns : StreamOf(k)'
<1>1. /\ at[h] = "decode" /\ HasRemaining(h) /\ IsNul(NextByte(h))
      /\ pos' = [pos EXCEPT ![h] = @ + 1]
      /\ partial' = [partial EXCEPT ![h] = << >>]
      /\ processed' = [processed EXCEPT ![h] = Append(processed[h], FrameOf(h, partial[h]))]
      /\ UNCHANGED <<content, current, pending>>
      /\ pos \in [Conns -> Nat] /\ partial \in [Conns -> Seq(Byte)]
      /\ processed \in [Conns -> Seq(Nat)] /\ threw \in [Conns -> BOOLEAN]
  BY DEF PopString, buffers, queues, ReactorTypes, StreamTypes
<1>2. threw' = threw \/ threw' = [threw EXCEPT ![h] = TRUE]
  BY DEF PopString, Process, Throws, Ignored, Dispatch
<1>3. ASSUME NEW k \in Conns \ {h} PROVE StreamOf(k)'
  <2>1. /\ pos'[k] = pos[k] /\ partial'[k] = partial[k] /\ processed'[k] = processed[k]
        /\ threw'[k] = threw[k]
    BY <1>1, <1>2
  <2> QED
    BY <1>1, <2>1, StreamKept DEF StreamInv
<1>4. StreamOf(h)'
  <2> SUFFICES ASSUME ~ threw[h] PROVE FramesDone(h)' /\ CurrentFits(h)' /\ PendingFits(h)'
    BY <1>1, <1>2 DEF StreamOf
  <2> DEFINE n == Len(processed[h])
  <2>1. FramesDone(h) /\ CurrentFits(h) /\ PendingFits(h)
    BY DEF StreamInv, StreamOf
  <2>2. /\ current[h] # None /\ NextByte(h) = <<h, Consumed(h) + 1>>
        /\ pos[h] + 1 <= Len(content[current[h]])
        /\ partial[h] = << <<h, 2 * n + 1>> >> /\ FrameOf(h, partial[h]) = n + 1
    BY <1>1, <2>1, NextByteOfStream
  <2>3. n \in Nat /\ processed[h] \in Seq(Nat) /\ Consumed(h) = 2 * n + 1
    BY <2>2, StreamFacts DEF Consumed
  <2>4. /\ partial'[h] = << >> /\ pos'[h] = pos[h] + 1
        /\ processed'[h] = Append(processed[h], n + 1)
    BY <1>1, <2>2
  <2>5. /\ Len(processed'[h]) = n + 1 /\ DOMAIN processed'[h] = 1 .. (n + 1)
        /\ DOMAIN processed[h] = 1 .. n
        /\ processed'[h][n + 1] = n + 1 /\ \A i \in 1 .. n : processed'[h][i] = processed[h][i]
    BY <2>3, <2>4
  <2>6. FramesDone(h)'
    BY <2>1, <2>3, <2>4, <2>5 DEF FramesDone
  <2>7. Consumed(h)' = Consumed(h) + 1
    <3>1. Consumed(h)' = 2 * (n + 1) + 0
      BY <2>4, <2>5 DEF Consumed
    <3> QED
      BY <2>3, <3>1
  <2>8. CurrentFits(h)'
    <3>1. First(current[h])' = First(current[h]) /\ Run(h, current[h])' = Run(h, current[h])
      BY <1>1 DEF First, Run
    <3>2. First(current[h]) \in Nat
      BY <2>1, <2>2, RunFacts, BufferFacts DEF CurrentFits
    <3> QED
      BY <1>1, <2>1, <2>2, <2>4, <2>7, <3>1, <3>2, StreamFacts DEF CurrentFits
  <2>9. PendingFits(h)'
    BY <1>1, <2>1, <2>2 DEF PendingFits, ToDecode, First, Last, Run
  <2> QED
    BY <2>6, <2>8, <2>9
<1> QED
  BY <1>3, <1>4

LEMMA ReleaseStream ==
  ASSUME ReactorTypes, BuffersExclusive, StreamInv, NEW h \in Conns, ReleaseBuffer(h),
         UNCHANGED taken
  PROVE  \A k \in Conns : StreamOf(k)'
<1>0. PICK b \in DOMAIN content : b = current[h]
  BY BufferFacts DEF ReleaseBuffer, Pool!End
<1>1. /\ content' = [content EXCEPT ![b] = << >>]
      /\ current' = [current EXCEPT ![h] = None]
      /\ pos' = [pos EXCEPT ![h] = 0]
      /\ UNCHANGED <<pending, partial, processed, threw>>
      /\ pos \in [Conns -> Nat] /\ content \in Seq(Seq(Byte))
      /\ current \in [Conns -> (DOMAIN content) \cup {None}]
  BY <1>0 DEF ReleaseBuffer, Pool!End, ReactorTypes, SharedTypes, StreamTypes
<1>2. \A a \in DOMAIN content \ {b} : content'[a] = content[a]
  BY <1>1
<1>3. ASSUME NEW k \in Conns \ {h} PROVE StreamOf(k)'
  <2>1. b \in Held(h) /\ Held(h) \cap Held(k) = {}
    BY <1>0, BufferFacts DEF Held, BuffersExclusive
  <2>2. \A a \in Held(k) : content'[a] = content[a]
    BY <1>2, <2>1, BufferFacts
  <2>3. pos'[k] = pos[k] /\ current'[k] = current[k]
    BY <1>1
  <2> QED
    BY <1>1, <2>2, <2>3, StreamKept DEF StreamInv
<1>4. StreamOf(h)'
  <2> SUFFICES ASSUME ~ threw[h] PROVE FramesDone(h)' /\ CurrentFits(h)' /\ PendingFits(h)'
    BY <1>1 DEF StreamOf
  <2>1. FramesDone(h) /\ CurrentFits(h) /\ PendingFits(h)
    BY DEF StreamInv, StreamOf
  <2>2. ~ HasRemaining(h)
    BY DEF ReleaseBuffer, StreamInv, TaskEnds
  <2>3. /\ Run(h, b) /\ First(b) + pos[h] = Consumed(h) + 1 /\ pos[h] = Len(content[b])
        /\ First(b) \in Nat
    <3>1. /\ Run(h, b) /\ First(b) + pos[h] = Consumed(h) + 1 /\ pos[h] <= Len(content[b])
      BY <1>0, <2>1, BufferFacts DEF CurrentFits
    <3>2. Len(content[b]) \in Nat /\ First(b) \in Nat
      BY <3>1, RunFacts
    <3>3. ~ (pos[h] < Len(content[b]))
      BY <1>0, <2>2 DEF HasRemaining, Buffer
    <3> QED
      BY <3>1, <3>2, <3>3, StreamFacts
  <2>4. Last(b) = Consumed(h)
    BY <2>3, StreamFacts DEF Last
  <2>5. FramesDone(h)' /\ Consumed(h)' = Consumed(h)
    BY <1>1, <2>1 DEF FramesDone, Consumed
  <2>6. current'[h] = None /\ CurrentFits(h)'
    BY <1>1 DEF CurrentFits
  <2>7. ToDecode(h)' = ToDecode(h)
    BY <1>0, <2>4, <2>5, <2>6, BufferFacts DEF ToDecode
  <2>8. \A i \in DOMAIN pending[h] : pending[h][i] \in DOMAIN content \ {b}
    BY <1>0, BufferFacts DEF BuffersExclusive, Elements
  <2>9. \A i \in DOMAIN pending[h] : /\ First(pending[h][i])' = First(pending[h][i])
                                     /\ Last(pending[h][i])' = Last(pending[h][i])
                                     /\ Run(h, pending[h][i])' = Run(h, pending[h][i])
    BY <1>1, <1>2, <2>8 DEF First, Last, Run
  <2>10. pending[h] # << >> => 1 \in DOMAIN pending[h] /\ Len(pending[h]) \in DOMAIN pending[h]
    BY StreamFacts
  <2>11. \A i \in 1 .. (Len(pending[h]) - 1) : i \in DOMAIN pending[h] /\ i + 1 \in DOMAIN pending[h]
    BY StreamFacts
  <2>12. PendingFits(h)'
    BY <1>1, <2>1, <2>7, <2>9, <2>10, <2>11 DEF PendingFits
  <2> QED
    BY <2>5, <2>6, <2>12
<1> QED
  BY <1>3, <1>4

\* The steps that move bytes are those above.
LEMMA OtherStream ==
  ASSUME ReactorTypes, StreamInv,
         UNCHANGED <<taken, content, pending, current, pos, partial, processed>>,
         \A h \in Conns : threw[h] => threw'[h]
  PROVE  \A h \in Conns : StreamOf(h)'
  BY StreamKept DEF StreamInv

LEMMA NextTaskEnds == ReactorTypes /\ StreamInv /\ [Next]_vars => TaskEnds'
<1> SUFFICES ASSUME ReactorTypes, StreamInv, [Next]_vars PROVE TaskEnds'
  OBVIOUS
<1>1. CASE UNCHANGED <<at, pos, threw>>
  BY <1>1 DEF StreamInv, TaskEnds
<1>2. ASSUME NEW h \in Conns, TaskStep(h) PROVE TaskEnds'
  <2>1. /\ at \in [Conns -> Labels] /\ pos \in [Conns -> Nat] /\ threw \in [Conns -> BOOLEAN]
        /\ TaskEnds
    BY DEF ReactorTypes, SharedTypes, StreamTypes, StreamInv
  <2>2. CASE StartTask(h)
    BY <1>2, <2>1, <2>2 DEF TaskStep, StartTask, Goto, TaskEnds
  <2>3. CASE PushByte(h)
    BY <1>2, <2>1, <2>3 DEF TaskStep, PushByte, TaskEnds
  <2>4. CASE PopString(h)
    <3>1. /\ at[h] = "decode" /\ pos' = [pos EXCEPT ![h] = @ + 1]
      BY <2>4 DEF PopString
    <3>2. \/ at' = [at EXCEPT ![h] = "release"] /\ threw' = [threw EXCEPT ![h] = TRUE]
          \/ at' \in {at, [at EXCEPT ![h] = "send"]} /\ UNCHANGED threw
      BY <2>4 DEF PopString, Process, Throws, Ignored, Dispatch, Goto
    <3> QED
      BY <2>1, <3>1, <3>2 DEF TaskEnds
  <2>5. CASE ReleaseBuffer(h)
    BY <1>2, <2>1, <2>5 DEF TaskStep, ReleaseBuffer, Goto, TaskEnds
  <2>6. CASE Sending(h)
    <3>1. CASE Send(h) \/ Notify(h) \/ Wakeup(h)
      BY <2>1, <2>6, <3>1 DEF Sending, Send, Notify, Wakeup, Goto, TaskEnds
    <3>2. CASE RegistryThrows(h)
      BY <2>1, <2>6, <3>2 DEF Sending, RegistryThrows, Goto, TaskEnds
    <3>3. CASE Sent(h)
      BY <2>1, <2>6, <3>3 DEF Sending, Sent, Goto, TaskEnds
    <3> QED
      BY <2>6, <3>1, <3>2, <3>3 DEF Sending
  <2>7. CASE Ending(h)
    BY <2>1, <2>7 DEF Ending, Close, Disconnect, Goto, TaskEnds
  <2> QED
    BY <1>2, <2>2, <2>3, <2>4, <2>5, <2>6, <2>7 DEF TaskStep, Decode
<1>3. CASE ~ \E h \in Conns : TaskStep(h)
  BY <1>1, <1>3 DEF Next, SelectorStep, Connected, ClientSends, ClientLeaves, Quiescent, vars,
                    worker
<1> QED
  BY <1>2, <1>3

LEMMA NextStream ==
  ReactorTypes /\ BuffersExclusive /\ StreamInv /\ [Next]_vars => StreamInv'
<1> SUFFICES ASSUME ReactorTypes, BuffersExclusive, StreamInv, [Next]_vars
             PROVE  \A h \in Conns : StreamOf(h)'
  BY NextTaskEnds DEF StreamInv
<1> DEFINE stream == <<taken, content, pending, current, pos, partial, processed>>
<1>1. CASE SelectorStep
  <2>1. UNCHANGED <<pos, partial, processed, threw>>
    BY <1>1 DEF SelectorStep, worker
  <2>2. CASE LeaseBuffer
    BY <2>1, <2>2, LeaseStream
  <2>3. CASE ContinueRead
    BY <2>1, <2>3, ContinueReadStream
  <2>4. CASE ReadFails
    BY <2>1, <2>4, OtherStream DEF ReadFails
  <2>5. CASE Serve \/ HandleAccept \/ Write
    BY <2>1, <2>5, OtherStream DEF Serve, HandleAccept, Write, buffers, queues
  <2> QED
    BY <1>1, <2>2, <2>3, <2>4, <2>5 DEF SelectorStep, Read
<1>2. ASSUME NEW h \in Conns, TaskStep(h) PROVE \A k \in Conns : StreamOf(k)'
  <2>1. UNCHANGED taken
    BY <1>2 DEF TaskStep
  <2>2. CASE Decode(h)
    BY <2>1, <2>2, StartTaskStream, PushByteStream, PopStringStream, ReleaseStream DEF Decode
  <2>3. CASE Sending(h) \/ Ending(h)
    <3>1. UNCHANGED stream
      BY <2>1, <2>3 DEF Sending, Ending, buffers, queues
    <3>2. threw' = threw \/ threw' = [threw EXCEPT ![h] = TRUE]
      BY <2>3 DEF Sending, Ending, Send, Notify, Wakeup, RegistryThrows, Sent
    <3>3. \A k \in Conns : threw[k] => threw'[k]
      BY <3>2 DEF ReactorTypes, StreamTypes
    <3> QED
      BY <3>1, <3>3, OtherStream
  <2> QED
    BY <1>2, <2>2, <2>3 DEF TaskStep
<1>3. ASSUME NEW h \in Conns, ClientSends(h) \/ ClientLeaves(h)
      PROVE  \A k \in Conns : StreamOf(k)'
  <2>1. UNCHANGED stream /\ UNCHANGED threw
    BY <1>3 DEF ClientSends, ClientLeaves, buffers, queues, worker
  <2> QED
    BY <2>1, OtherStream
<1>4. CASE Connected \/ UNCHANGED vars
  <2>1. UNCHANGED stream /\ UNCHANGED threw
    BY <1>4 DEF Connected, vars, buffers, queues, worker
  <2> QED
    BY <2>1, OtherStream
<1> QED
  BY <1>1, <1>2, <1>3, <1>4 DEF Next, Quiescent

LEMMA InitStream == Init => StreamInv
<1> SUFFICES ASSUME Init PROVE StreamInv
  OBVIOUS
<1>0. TaskEnds
  BY DEF Init, TaskEnds
<1> SUFFICES ASSUME NEW h \in Conns PROVE StreamOf(h)
  BY <1>0 DEF StreamInv
<1>1. /\ processed[h] = << >> /\ partial[h] = << >> /\ current[h] = None /\ pending[h] = << >>
      /\ taken[h] = 0
  BY DEF Init
<1>2. Consumed(h) = 0 /\ ToDecode(h) = 0
  BY <1>1 DEF Consumed, ToDecode
<1> QED
  BY <1>1, <1>2 DEF StreamOf, FramesDone, CurrentFits, PendingFits

\* However a client's stream is cut into reads, and whichever pool threads decode the
\* buffers, process is given the frames the client sent, each once and in order,
\* until it throws for the first time (continueRead, decodeNextByte, popString).
THEOREM FramesInOrder == Spec => []FramesIntact
<1>1. StreamInv => FramesIntact
  BY DEF StreamInv, StreamOf, FramesDone, FramesIntact
<1> QED
  BY <1>1, InitTypes, InitExclusive, InitStream, NextTypes, NextExclusive, NextStream, PTL DEF Spec

=============================================================================
