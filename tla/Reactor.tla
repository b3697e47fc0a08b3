------------------------------ MODULE Reactor ------------------------------
(***************************************************************************)
(* The reactor server: one selector thread (Reactor.serve) that accepts,   *)
(* reads and writes, and the pool threads that decode what was read and    *)
(* process it (NonBlockingConnectionHandler).  They share the write queue  *)
(* of each handler, the tasks for the selector thread and the pool of      *)
(* buffers.  The actor thread pool is taken through what it promises       *)
(* (ActorQueues, which ActorThreadPool implements); a task is named by the *)
(* buffer it holds.                                                        *)
(*                                                                         *)
(* The registry is left out: what the protocol does with a frame is one of *)
(* a few kinds, and a report goes to any set of connections.  A frame is   *)
(* two bytes, one of content and the NUL: byte 2i is the NUL of frame i.   *)
(***************************************************************************)
EXTENDS Integers, Sequences, FiniteSets, Functions

CONSTANTS
  MaxConnections, \* bound: how many connections the server ever accepts
  MaxFrames,      \* bound: how many frames the clients send together
  Kinds,          \* what process does with the frames clients send
  None            \* Java's null

Conns == 0 .. (MaxConnections - 1)

\* "request": one reply; "SEND": a message to every subscriber; "refused": an
\* ERROR, and the end of the connection; "malformed": process throws before it
\* sends anything (no command, a header missing, a concurrent write of a table).
AllKinds == {"request", "SEND", "DISCONNECT", "refused", "malformed"}

ASSUME ReactorAssumption ==
  /\ MaxConnections \in Nat /\ MaxFrames \in Nat
  /\ Kinds \subseteq AllKinds
  /\ None \notin Nat

VARIABLES
  sent,            \* connection -> the frames its client has sent
  gone,            \* connection -> its client has closed or reset it
  taken,           \* connection -> how many bytes were read from its channel
  connectionID,    \* the id of the next connection
  open,            \* connection -> its channel is open, and its key valid
  interest,        \* connection -> the interest set of its key
  sel,             \* the step the selector thread makes next, or "dead"
  ready,           \* connection -> the ready set of its key, if selected
  accepting,       \* the key of the server's channel is selected
  key,             \* the connection whose key is handled
  lease,           \* the buffer continueRead has leased
  woken,           \* wakeup was called since the last select
  selectorTasks,   \* the connections whose interest is to be set to R and W
  bufferPool,      \* BUFFER_POOL
  content,         \* buffer -> what was read into it; its length: all buffers
  writeQueue,      \* connection -> frames to be written
  offset,          \* connection -> bytes of the first of them already written
  pending,         \* connection -> its tasks in the actor thread pool
  current,         \* connection -> its task that runs, or None
  stopped,         \* the pool was shut down: never, as serve ends by exceptions
  at,              \* connection -> the step its running task makes next
  pos,             \* connection -> bytes its running task has decoded
  partial,         \* connection -> bytes its decoder holds
  kind,            \* connection -> what process does with the current frame
  targets,         \* connection -> the handlers process has still to send to
  to,              \* connection -> the handler process is sending to
  shouldTerminate, \* connection -> flag of its protocol object
  registered,      \* connection -> its handler is among the active clients
  processed,       \* connection -> the strings passed to process (history)
  threw            \* connection -> process has thrown (history)

client   == <<sent, gone>>
selector == <<sel, ready, accepting, key>>
tasks    == <<woken, selectorTasks>>
buffers  == <<bufferPool, content>>
outgoing == <<writeQueue, offset>>
queues   == <<pending, current, stopped>>
worker   == <<at, pos, partial, kind, targets, to, processed, threw>>
vars == <<client, taken, connectionID, open, interest, selector, lease, tasks,
          buffers, outgoing, queues, worker, shouldTerminate, registered>>

Pool == INSTANCE ActorQueues WITH Actors <- Conns, Tasks <- Nat

Init ==
  /\ sent = [h \in Conns |-> << >>]
  /\ gone = [h \in Conns |-> FALSE]
  /\ taken = [h \in Conns |-> 0]
  /\ connectionID = 0
  /\ open = [h \in Conns |-> FALSE]
  /\ interest = [h \in Conns |-> {}]
  /\ sel = "select"
  /\ ready = [h \in Conns |-> {}]
  /\ accepting = FALSE
  /\ key = None
  /\ lease = None
  /\ woken = FALSE
  /\ selectorTasks = << >>
  /\ bufferPool = << >>
  /\ content = << >>
  /\ writeQueue = [h \in Conns |-> << >>]
  /\ offset = [h \in Conns |-> 0]
  /\ pending = [h \in Conns |-> << >>]
  /\ current = [h \in Conns |-> None]
  /\ stopped = FALSE
  /\ at = [h \in Conns |-> "idle"]
  /\ pos = [h \in Conns |-> 0]
  /\ partial = [h \in Conns |-> << >>]
  /\ kind = [h \in Conns |-> None]
  /\ targets = [h \in Conns |-> {}]
  /\ to = [h \in Conns |-> None]
  /\ shouldTerminate = [h \in Conns |-> FALSE]
  /\ registered = [h \in Conns |-> FALSE]
  /\ processed = [h \in Conns |-> << >>]
  /\ threw = [h \in Conns |-> FALSE]

-----------------------------------------------------------------------------
(***************************************************************************)
(* The clients.                                                            *)
(***************************************************************************)
FrameCounts == [h \in Conns |-> Len(sent[h])]

ClientSends(h) ==
  /\ open[h] /\ ~ gone[h]
  /\ SumFunction(FrameCounts) < MaxFrames
  /\ \E k \in Kinds : sent' = [sent EXCEPT ![h] = Append(@, k)]
  /\ UNCHANGED <<gone, taken, connectionID, open, interest, selector, lease, tasks,
                 buffers, outgoing, queues, worker, shouldTerminate, registered>>

ClientLeaves(h) ==
  /\ open[h] /\ ~ gone[h]
  /\ gone' = [gone EXCEPT ![h] = TRUE]
  /\ UNCHANGED <<sent, taken, connectionID, open, interest, selector, lease, tasks,
                 buffers, outgoing, queues, worker, shouldTerminate, registered>>

-----------------------------------------------------------------------------
(***************************************************************************)
(* The selector thread: serve.                                             *)
(***************************************************************************)
Available(h) == taken[h] < 2 * Len(sent[h]) \/ gone[h]

Ready(h) == {op \in interest[h] : open[h] /\ (op = "R" => Available(h))}

\* select returns when a key is ready, wakeup was called or, at any time, a client
\* waits to be accepted.
Select(accept) ==
  /\ sel = "select"
  /\ accept => connectionID < MaxConnections
  /\ accept \/ woken \/ \E h \in Conns : Ready(h) # {}
  /\ accepting' = accept
  /\ ready' = [h \in Conns |-> Ready(h)]
  /\ woken' = FALSE
  /\ sel' = "tasks"
  /\ UNCHANGED <<interest, key, selectorTasks>>

\* Mutant: OP_WRITE is forgotten.
RunSelectionThreadTasksMutant ==
  /\ sel = "tasks"
  /\ IF selectorTasks = << >>
     THEN sel' = "keys" /\ UNCHANGED <<interest, selectorTasks>>
     ELSE /\ selectorTasks' = Tail(selectorTasks)
          /\ interest' = [interest EXCEPT ![Head(selectorTasks)] = {"R"}]
          /\ UNCHANGED sel
  /\ UNCHANGED <<ready, accepting, key, woken>>

\* interestOps on a key that was cancelled throws; runSelectionThreadTasks
\* catches it.
RunSelectionThreadTasks ==
  /\ sel = "tasks"
  /\ IF selectorTasks = << >>
     THEN sel' = "keys" /\ UNCHANGED <<interest, selectorTasks>>
     ELSE LET h == Head(selectorTasks) IN
          /\ selectorTasks' = Tail(selectorTasks)
          /\ interest' = IF open[h] THEN [interest EXCEPT ![h] = {"R", "W"}] ELSE interest
          /\ UNCHANGED sel
  /\ UNCHANGED <<ready, accepting, key, woken>>

\* The iteration over the selected keys goes on with the next one.
NextIteration ==
  /\ sel' = "keys"
  /\ ready' = [ready EXCEPT ![key] = {}]
  /\ key' = None

\* A CancelledKeyException that serve does not catch: the try-with-resources
\* closes the selector and the server's channel, and the thread ends.
Dies == sel' = "dead" /\ UNCHANGED <<ready, key>>

HandleAccept ==
  /\ sel = "keys" /\ accepting
  /\ open' = [open EXCEPT ![connectionID] = TRUE]
  /\ registered' = [registered EXCEPT ![connectionID] = TRUE]
  /\ interest' = [interest EXCEPT ![connectionID] = {"R"}]
  /\ connectionID' = connectionID + 1
  /\ accepting' = FALSE
  /\ UNCHANGED <<taken, sel, ready, key, lease, tasks, buffers, outgoing, queues>>

\* key.isValid(): a key that was cancelled since select is skipped.
NextKey ==
  /\ sel = "keys"
  /\ \E h \in Conns :
       /\ ready[h] # {}
       /\ IF open[h]
          THEN key' = h /\ sel' = "isReadable" /\ UNCHANGED ready
          ELSE ready' = [ready EXCEPT ![h] = {}] /\ UNCHANGED <<key, sel>>
  /\ UNCHANGED <<interest, accepting, tasks>>

KeysDone ==
  /\ sel = "keys"
  /\ ~ accepting /\ \A h \in Conns : ready[h] = {}
  /\ sel' = "select"
  /\ UNCHANGED <<interest, ready, accepting, key, tasks>>

\* isAcceptable, isReadable and isWritable throw if the key was cancelled.
IsReadable ==
  /\ sel = "isReadable"
  /\ IF open[key]
     THEN /\ sel' = IF "R" \in ready[key] THEN "lease" ELSE "isWritable"
          /\ UNCHANGED <<ready, key>>
     ELSE Dies
  /\ UNCHANGED <<interest, accepting, tasks>>

IsWritable ==
  /\ sel = "isWritable"
  /\ IF open[key]
     THEN IF "W" \in ready[key] THEN sel' = "write" /\ UNCHANGED <<ready, key>>
                                ELSE NextIteration
     ELSE Dies
  /\ UNCHANGED <<interest, accepting, tasks>>

-----------------------------------------------------------------------------
(***************************************************************************)
(* continueRead, and pool.submit of the task it returns.                   *)
(***************************************************************************)
\* Mutant: peek instead of poll.
LeaseBufferMutant ==
  /\ sel = "lease"
  /\ IF bufferPool = << >>
     THEN content' = Append(content, << >>) /\ lease' = Len(content) + 1
     ELSE lease' = Head(bufferPool) /\ UNCHANGED content
  /\ sel' = "read"
  /\ UNCHANGED <<taken, open, ready, key, bufferPool, pending, current>>

LeaseBuffer ==
  /\ sel = "lease"
  /\ IF bufferPool = << >>
     THEN /\ content' = Append(content, << >>)
          /\ lease' = Len(content) + 1
          /\ UNCHANGED bufferPool
     ELSE /\ lease' = Head(bufferPool)
          /\ bufferPool' = Tail(bufferPool)
          /\ UNCHANGED content
  /\ sel' = "read"
  /\ UNCHANGED <<taken, open, ready, key, pending, current>>

Bytes(h, first, last) == [i \in 1 .. (last - first + 1) |-> <<h, first + i - 1>>]

ContinueRead ==
  /\ sel = "read"
  /\ open[key]
  /\ \E n \in (taken[key] + 1) .. (2 * Len(sent[key])) :
       /\ content' = [content EXCEPT ![lease] = Bytes(key, taken[key] + 1, n)]
       /\ taken' = [taken EXCEPT ![key] = n]
  /\ Pool!Submit(key, lease)
  /\ lease' = None
  /\ sel' = "isWritable"
  /\ UNCHANGED <<open, ready, key, bufferPool>>

\* End of stream, an IOException, or a channel a pool thread has closed.
ReadFails ==
  /\ sel = "read"
  /\ gone[key] \/ ~ open[key]
  /\ bufferPool' = Append(bufferPool, lease)
  /\ lease' = None
  /\ open' = [open EXCEPT ![key] = FALSE]
  /\ NextIteration
  /\ UNCHANGED <<taken, content, pending, current>>

-----------------------------------------------------------------------------
(***************************************************************************)
(* continueWrite.                                                          *)
(***************************************************************************)
\* One turn of the loop writes the first frame of the queue, or a part of it.
ContinueWrite ==
  /\ sel = "write"
  /\ open[key] /\ writeQueue[key] # << >>
  /\ \/ /\ offset[key] = 0
        /\ offset' = [offset EXCEPT ![key] = 1]
        /\ NextIteration
        /\ UNCHANGED writeQueue
     \/ /\ writeQueue' = [writeQueue EXCEPT ![key] = Tail(@)]
        /\ offset' = [offset EXCEPT ![key] = 0]
        /\ UNCHANGED <<sel, ready, key>>
  /\ UNCHANGED <<open, interest>>

\* An IOException, or a channel that is closed, ends the loop and the call.
WriteFails ==
  /\ sel = "write"
  /\ writeQueue[key] # << >>
  /\ gone[key] \/ ~ open[key]
  /\ open' = [open EXCEPT ![key] = FALSE]
  /\ NextIteration
  /\ UNCHANGED <<interest, outgoing>>

WriteDone ==
  /\ sel = "write"
  /\ writeQueue[key] = << >>
  /\ sel' = "drained"
  /\ UNCHANGED <<open, interest, ready, key, outgoing>>

\* The queue is looked at a second time, then the protocol's flag.
Drained ==
  /\ sel = "drained"
  /\ IF writeQueue[key] # << >>
     THEN NextIteration
     ELSE sel' = "terminate" /\ UNCHANGED <<ready, key>>
  /\ UNCHANGED <<open, interest, outgoing>>

\* Mutant: the flag is not looked at.
TerminateMutant ==
  /\ sel = "terminate"
  /\ sel' = "update"
  /\ UNCHANGED <<open, interest, ready, key, outgoing>>

Terminate ==
  /\ sel = "terminate"
  /\ IF shouldTerminate[key]
     THEN open' = [open EXCEPT ![key] = FALSE] /\ NextIteration
     ELSE sel' = "update" /\ UNCHANGED <<open, ready, key>>
  /\ UNCHANGED <<interest, outgoing>>

\* updateInterestedOps on the selector's own thread.
UpdateInterestedOps ==
  /\ sel = "update"
  /\ IF open[key]
     THEN interest' = [interest EXCEPT ![key] = {"R"}] /\ NextIteration
     ELSE Dies /\ UNCHANGED interest
  /\ UNCHANGED <<open, outgoing>>

-----------------------------------------------------------------------------
(***************************************************************************)
(* The tasks: decode what is in the buffer and process each frame.         *)
(***************************************************************************)
Goto(h, label) == at' = [at EXCEPT ![h] = label]

Buffer(h) == content[current[h]]

HasRemaining(h) == pos[h] < Len(Buffer(h))

NextByte(h) == Buffer(h)[pos[h] + 1]

IsNul(byte) == byte[2] % 2 = 0

StartTask(h) ==
  /\ Pool!Start(h)
  /\ Goto(h, "decode")
  /\ UNCHANGED <<buffers, pos, partial, kind, targets, processed, threw, shouldTerminate>>

PushByte(h) ==
  /\ at[h] = "decode" /\ HasRemaining(h)
  /\ ~ IsNul(NextByte(h))
  /\ pos' = [pos EXCEPT ![h] = @ + 1]
  /\ partial' = [partial EXCEPT ![h] = Append(@, NextByte(h))]
  /\ UNCHANGED <<buffers, queues, at, kind, targets, processed, threw, shouldTerminate>>

\* The frame a string was, if it is one whole frame of this connection.
FrameOf(h, bytes) ==
  IF Len(bytes) = 1 /\ bytes[1][1] = h THEN (bytes[1][2] + 1) \div 2 ELSE 0

\* process throws; shouldTerminate is assigned before or not.
Throws(h, k) ==
  /\ Goto(h, "release")
  /\ threw' = [threw EXCEPT ![h] = TRUE]
  /\ \E flag \in {shouldTerminate[h], k = "DISCONNECT"} :
       shouldTerminate' = [shouldTerminate EXCEPT ![h] = flag]
  /\ UNCHANGED <<kind, targets>>

\* A string that is no command changes nothing but the flag.
Ignored(h) ==
  /\ shouldTerminate' = [shouldTerminate EXCEPT ![h] = FALSE]
  /\ UNCHANGED <<at, threw, kind, targets>>

\* process up to its first send: a report goes to any connections, the sender
\* among them; an ERROR is sent once or twice.
Dispatch(h, k) ==
  /\ shouldTerminate' = [shouldTerminate EXCEPT ![h] = (k = "DISCONNECT")]
  /\ kind' \in {[kind EXCEPT ![h] = a] : a \in {k} \cup (IF k = "refused" THEN {"twice"} ELSE {})}
  /\ \E S \in SUBSET (0 .. (connectionID - 1)) :
       /\ IF k = "SEND" THEN registered[h] => h \in S ELSE S = {h}
       /\ targets' = [targets EXCEPT ![h] = S]
  /\ Goto(h, "send")
  /\ UNCHANGED threw

\* process of frame i of the client, or of a string (0) that is none of its
\* frames: when process has thrown, the next string may be the tail of a frame.
\* A handler that is no longer registered cannot send to itself.
Process(h, i) ==
  LET k == IF i = 0 THEN None ELSE sent[h][i] IN
  \/ (k \in {None, "malformed"} \/ ~ registered[h]) /\ Throws(h, k)
  \/ k = None /\ Ignored(h)
  \/ k \notin {None, "malformed"} /\ (registered[h] \/ k = "SEND") /\ Dispatch(h, k)

\* Mutant: len is not reset.
PopStringMutant(h) ==
  /\ at[h] = "decode" /\ HasRemaining(h)
  /\ IsNul(NextByte(h))
  /\ pos' = [pos EXCEPT ![h] = @ + 1]
  /\ processed' = [processed EXCEPT ![h] = Append(@, FrameOf(h, partial[h]))]
  /\ Process(h, FrameOf(h, partial[h]))
  /\ UNCHANGED <<buffers, queues, partial>>

PopString(h) ==
  /\ at[h] = "decode" /\ HasRemaining(h)
  /\ IsNul(NextByte(h))
  /\ pos' = [pos EXCEPT ![h] = @ + 1]
  /\ partial' = [partial EXCEPT ![h] = << >>]
  /\ processed' = [processed EXCEPT ![h] = Append(@, FrameOf(h, partial[h]))]
  /\ Process(h, FrameOf(h, partial[h]))
  /\ UNCHANGED <<buffers, queues>>

Reply(k) ==
  CASE k \in {"refused", "twice"} -> "ERROR" [] k = "SEND" -> "MESSAGE" [] OTHER -> "RECEIPT"

\* send: writeQueue.add, ...
Send(h) ==
  /\ at[h] = "send"
  /\ \E k \in targets[h] :
       /\ writeQueue' = [writeQueue EXCEPT ![k] = Append(@, Reply(kind[h]))]
       /\ to' = [to EXCEPT ![h] = k]
       /\ IF kind[h] = "twice"
          THEN kind' = [kind EXCEPT ![h] = "refused"] /\ UNCHANGED targets
          ELSE targets' = [targets EXCEPT ![h] = @ \ {k}] /\ UNCHANGED kind
  /\ Goto(h, "notify")
  /\ UNCHANGED <<tasks, threw>>

\* ... then updateInterestedOps on a pool thread: keyFor, which is null once
\* the key of a closed channel is gone, and selectorTasks.add, ...
Notify(h) ==
  /\ at[h] = "notify"
  /\ \/ /\ sel # "dead"
        /\ selectorTasks' = Append(selectorTasks, to[h])
        /\ Goto(h, "wakeup")
     \/ /\ sel = "dead" \/ ~ open[to[h]]
        /\ Goto(h, "send")
        /\ UNCHANGED selectorTasks
  /\ to' = [to EXCEPT ![h] = None]
  /\ UNCHANGED <<woken, writeQueue, kind, targets, threw>>

\* Mutant: wakeup is forgotten.
WakeupMutant(h) ==
  /\ at[h] = "wakeup"
  /\ Goto(h, "send")
  /\ UNCHANGED <<tasks, writeQueue, kind, targets, to, threw>>

\* ... then selector.wakeup.
Wakeup(h) ==
  /\ at[h] = "wakeup"
  /\ woken' = TRUE
  /\ Goto(h, "send")
  /\ UNCHANGED <<selectorTasks, writeQueue, kind, targets, to, threw>>

\* An exception in the midst of a broadcast (ConcurrentModificationException, a
\* null subscriber), or in the disconnect after the receipt of a DISCONNECT.
RegistryThrows(h) ==
  /\ at[h] = "send"
  /\ IF targets[h] = {} THEN kind[h] = "DISCONNECT" ELSE kind[h] = "SEND"
  /\ targets' = [targets EXCEPT ![h] = {}]
  /\ kind' = [kind EXCEPT ![h] = None]
  /\ threw' = [threw EXCEPT ![h] = TRUE]
  /\ Goto(h, "release")
  /\ UNCHANGED <<tasks, writeQueue, to>>

\* Everything is sent: an error branch goes on to close the channel.
Sent(h) ==
  /\ at[h] = "send" /\ targets[h] = {}
  /\ Goto(h, IF kind[h] = "refused" THEN "close" ELSE "decode")
  /\ kind' = [kind EXCEPT ![h] = None]
  /\ UNCHANGED <<tasks, writeQueue, targets, to, threw>>

Close(h) ==
  /\ at[h] = "close"
  /\ open' = [open EXCEPT ![h] = FALSE]
  /\ Goto(h, "disconnect")
  /\ UNCHANGED <<shouldTerminate, registered>>

\* disconnect, removeConnection and the flag; an exception of disconnect is
\* caught and skips the other two.
Disconnect(h) ==
  /\ at[h] = "disconnect"
  /\ \/ /\ registered' = [registered EXCEPT ![h] = FALSE]
        /\ shouldTerminate' = [shouldTerminate EXCEPT ![h] = TRUE]
     \/ UNCHANGED <<registered, shouldTerminate>>
  /\ Goto(h, "decode")
  /\ UNCHANGED open

\* Mutant: what is released is the buffer of the selector thread.
ReleaseBufferMutant(h) ==
  /\ at[h] = "release" \/ (at[h] = "decode" /\ ~ HasRemaining(h))
  /\ bufferPool' = Append(bufferPool, lease)
  /\ content' = [content EXCEPT ![current[h]] = << >>]
  /\ Pool!End(h)
  /\ Goto(h, "idle")
  /\ pos' = [pos EXCEPT ![h] = 0]
  /\ UNCHANGED <<partial, kind, targets, processed, threw, shouldTerminate>>

\* The buffer is empty, or process threw, which drops what is left in it.  What
\* a free buffer holds is never read: the model forgets it.
ReleaseBuffer(h) ==
  /\ at[h] = "release" \/ (at[h] = "decode" /\ ~ HasRemaining(h))
  /\ bufferPool' = Append(bufferPool, current[h])
  /\ content' = [content EXCEPT ![current[h]] = << >>]
  /\ Pool!End(h)
  /\ Goto(h, "idle")
  /\ pos' = [pos EXCEPT ![h] = 0]
  /\ UNCHANGED <<partial, kind, targets, processed, threw, shouldTerminate>>

-----------------------------------------------------------------------------
Serve ==
  /\ \/ Select(FALSE) \/ RunSelectionThreadTasks \/ NextKey \/ KeysDone
     \/ IsReadable \/ IsWritable
  /\ UNCHANGED <<taken, connectionID, open, lease, buffers, outgoing, queues, registered>>

Read ==
  /\ LeaseBuffer \/ ContinueRead \/ ReadFails
  /\ UNCHANGED <<connectionID, interest, accepting, tasks, outgoing, stopped, registered>>

Write ==
  /\ ContinueWrite \/ WriteFails \/ WriteDone \/ Drained \/ Terminate \/ UpdateInterestedOps
  /\ UNCHANGED <<taken, connectionID, accepting, lease, tasks, buffers, queues, registered>>

SelectorStep ==
  /\ Serve \/ HandleAccept \/ Read \/ Write
  /\ UNCHANGED <<client, worker, shouldTerminate>>

\* A client connects.
Connected ==
  /\ Select(TRUE)
  /\ UNCHANGED <<client, taken, connectionID, open, lease, buffers, outgoing, queues,
                 worker, shouldTerminate, registered>>

Decode(h) ==
  /\ StartTask(h) \/ PushByte(h) \/ PopString(h) \/ ReleaseBuffer(h)
  /\ UNCHANGED <<open, tasks, outgoing, to, registered>>

Sending(h) ==
  /\ Send(h) \/ Notify(h) \/ Wakeup(h) \/ RegistryThrows(h) \/ Sent(h)
  /\ UNCHANGED <<open, buffers, offset, queues, pos, partial, processed, shouldTerminate,
                 registered>>

Ending(h) ==
  /\ Close(h) \/ Disconnect(h)
  /\ UNCHANGED <<tasks, buffers, outgoing, queues, pos, partial, kind, targets, to,
                 processed, threw>>

TaskStep(h) ==
  /\ Decode(h) \/ Sending(h) \/ Ending(h)
  /\ UNCHANGED <<client, taken, connectionID, interest, selector, lease>>

\* The bounds are reached and nothing is left to do.
Quiescent ==
  /\ sel = "dead" \/ sel = "select"
  /\ \A h \in Conns : at[h] = "idle" /\ pending[h] = << >>
  /\ UNCHANGED vars

Next ==
  \/ SelectorStep
  \/ Connected
  \/ \E h \in Conns : ClientSends(h) \/ ClientLeaves(h) \/ TaskStep(h)
  \/ Quiescent

Spec == Init /\ [][Next]_vars

\* The selector thread and the pool's threads run when they can.  Clients
\* need not send or leave; a channel is taken to be writable again in the end,
\* that is, clients go on reading.
FairSpec == Spec /\ WF_vars(SelectorStep) /\ \A h \in Conns : WF_vars(TaskStep(h))

-----------------------------------------------------------------------------
Labels == {"idle", "decode", "send", "notify", "wakeup", "close", "disconnect", "release"}

Elements(seq) == {seq[i] : i \in DOMAIN seq}

\* The steps of the selector thread in which it handles a key.
AtKey == {"isReadable", "lease", "read", "isWritable", "write", "drained",
          "terminate", "update"}

Byte == Conns \X Nat

\* What the selector thread and the pool threads share.
SharedTypes ==
  /\ connectionID \in 0 .. MaxConnections
  /\ open \in [Conns -> BOOLEAN] /\ interest \in [Conns -> SUBSET {"R", "W"}]
  /\ selectorTasks \in Seq(Conns) /\ woken \in BOOLEAN
  /\ bufferPool \in Seq(DOMAIN content) /\ lease \in (DOMAIN content) \cup {None}
  /\ pending \in [Conns -> Seq(DOMAIN content)]
  /\ current \in [Conns -> (DOMAIN content) \cup {None}]
  /\ writeQueue \in [Conns -> Seq({"RECEIPT", "ERROR", "MESSAGE"})]
  /\ at \in [Conns -> Labels] /\ shouldTerminate \in [Conns -> BOOLEAN]

SelectorTypes ==
  /\ sel \in AtKey \cup {"select", "tasks", "keys", "dead"}
  /\ ready \in [Conns -> SUBSET {"R", "W"}] /\ accepting \in BOOLEAN
  /\ key \in Conns \cup {None}

StreamTypes ==
  /\ sent \in [Conns -> Seq(Kinds)] /\ taken \in [Conns -> Nat]
  /\ content \in Seq(Seq(Byte))
  /\ pos \in [Conns -> Nat] /\ partial \in [Conns -> Seq(Byte)]
  /\ processed \in [Conns -> Seq(Nat)] /\ threw \in [Conns -> BOOLEAN]

HandlerTypes ==
  /\ gone \in [Conns -> BOOLEAN] /\ registered \in [Conns -> BOOLEAN]
  /\ offset \in [Conns -> {0, 1}] /\ stopped \in BOOLEAN
  /\ kind \in [Conns -> AllKinds \cup {"twice", None}]

\* A thread that handles a key has one, and a buffer only to read into it; there
\* is an id left for a client that waits.
SelectorFits ==
  /\ sel \in AtKey => key \in Conns
  /\ lease # None <=> sel = "read"
  /\ accepting => connectionID < MaxConnections

\* A pool thread between two steps has a buffer; it sends to connections that
\* were accepted.
WorkersFit ==
  /\ targets \in [Conns -> SUBSET (0 .. (connectionID - 1))]
  /\ to \in [Conns -> Conns \cup {None}]
  /\ \A h \in Conns : at[h] # "idle" <=> current[h] # None
  /\ \A h \in Conns : at[h] = "notify" => to[h] \in Conns

\* Every variable has its type, and what a thread holds (a key, a buffer, a
\* connection to send to) is there at the steps of serve, of continueRead and of
\* the task that use it.
TypeOK ==
  SharedTypes /\ SelectorTypes /\ StreamTypes /\ HandlerTypes /\ SelectorFits /\ WorkersFit

\* The buffers the tasks of a connection hold.
Held(h) == Elements(pending[h]) \cup ({current[h]} \ {None})

NoDuplicates(seq) == \A i, j \in DOMAIN seq : seq[i] = seq[j] => i = j

\* A buffer is in one place: free, leased by the selector thread, or held by
\* one task, while several pool threads release and the selector thread leases
\* (leaseBuffer, releaseBuffer, and the finally of continueRead's task).
BuffersExclusive ==
  /\ NoDuplicates(bufferPool)
  /\ lease \notin Elements(bufferPool)
  /\ \A h \in Conns :
       /\ NoDuplicates(pending[h]) /\ current[h] \notin Elements(pending[h])
       /\ Held(h) \cap (Elements(bufferPool) \cup {lease}) = {}
       /\ \A k \in Conns \ {h} : Held(h) \cap Held(k) = {}

\* However reads cut the stream of a client into buffers, and whichever threads
\* decode them, the strings given to process are the frames it sent, in order
\* and none twice, until process throws and drops what is left in a buffer.
FramesIntact ==
  \A h \in Conns : ~ threw[h] =>
    \A i \in DOMAIN processed[h] : processed[h][i] = i

\* A frame in the write queue of an open channel is not forgotten: the selector
\* thread watches for OP_WRITE, or has the task to do so, or will be told; and
\* it does not sleep over a task (send, updateInterestedOps against
\* continueWrite, which takes OP_WRITE away).
NoForgottenReply ==
  sel # "dead" =>
    /\ \A h \in Conns : open[h] /\ writeQueue[h] # << >> =>
         \/ "W" \in interest[h]
         \/ h \in Elements(selectorTasks)
         \/ \E k \in Conns : at[k] = "notify" /\ to[k] = h
    /\ sel = "select" /\ selectorTasks # << >> =>
         woken \/ \E k \in Conns : at[k] = "wakeup"

\* Under FairSpec: the write queue of a channel is emptied, or the channel is
\* closed (or the selector thread has died).
RepliesWritten ==
  \A h \in Conns :
    writeQueue[h] # << >> ~> writeQueue[h] = << >> \/ ~ open[h] \/ sel = "dead"

\* The client has sent a frame behind a DISCONNECT, against the protocol.
SentBehindLogout(h) == \E i \in 1 .. (Len(sent[h]) - 1) : sent[h][i] = "DISCONNECT"

\* Under FairSpec: after a DISCONNECT the channel is closed.  The flag that a
\* pool thread sets stays until the selector thread has looked at it, unless the
\* client has sent more behind its DISCONNECT, which resets it.
LogoutCloses ==
  \A h \in Conns :
    shouldTerminate[h] ~> ~ open[h] \/ SentBehindLogout(h) \/ sel = "dead"

\* "In case the channel got canceled": a channel that a pool thread closes does
\* not end the selector thread.
SelectorSurvives == sel # "dead"
=============================================================================
