# Emergency service platform: a TLA+ verification

This directory holds TLA+ models of the platform under `src/Skeleton/Skeleton`: a STOMP server
in Java and a C++ client with which users join emergency channels, report
events and receive the reports of others. Paths below are relative to that directory; the Java files are under
`server/src/main/java/bgu/spl/net`.

1. [The system](#1-the-system) - components, state, operations, interaction, what is hard
2. [The modules](#2-the-modules) - how state and actions correspond to the code
3. [The runs](#3-the-runs) - what TLC checks, bounds, fairness
4. [The proofs](#4-the-proofs)
5. [What the code does that its comments deny](#5-what-the-code-does-that-its-comments-deny)
6. [Abstractions and what is not modelled](#6-abstractions-and-what-is-not-modelled)
7. [Plan](#7-plan)

## 1. The system

`impl/stomp/StompServer.java` starts one server. Its `main` always builds the
thread-per-client server; the reactor is there in a comment, although the
repository's README says an argument chooses between the two.

| Component | Code | State | Operations | Interacts with |
|---|---|---|---|---|
| Connections registry | `srv/ConnectionsImpl.java` | `activeClients`, `channelsSubscriptions` (channel -> `HashMap` of handlers), `users`, `loggedInUsers`, static `connectionID` | `send` (one client, one channel), `disconnect`, `addConnection`, `removeConnection`, `addChannelSubscription`, `removeChannelSubscription`, `userConnectedAlready`, `connectUser`, `getUserSubID`, `toStringChannels` | called by every connection's thread without a lock of its own; calls the handlers' `send` |
| STOMP protocol of a connection | `impl/stomp/StompProtocolImpl.java` | `shouldTerminate`, `messageID` | `start`, `process` (CONNECT, SUBSCRIBE, UNSUBSCRIBE, SEND, DISCONNECT), `shouldTerminate` | one object per connection; calls the registry |
| Thread-per-client server | `srv/BaseServer.java`, `srv/BlockingConnectionHandler.java`, `srv/Server.java` | the accept loop, one thread per connection, `connected`, the socket | `serve`, `run`, `send`, `close` | creates handlers, numbers them with `connectionID`, runs the protocol |
| Actor thread pool | `srv/ActorThreadPool.java` | `acts`, `playingNow`, `actsRWLock`, the monitor of each actor, the queue of a fixed pool | `submit`, `execute`, `complete`, `shutdown` | the reactor submits; the workers run the tasks |
| Reactor and non-blocking handler | `srv/Reactor.java`, `srv/NonBlockingConnectionHandler.java` | selector, `selectorTasks`, interest ops of each key, `writeQueue`, `BUFFER_POOL` | `serve`, `handleAccept`, `handleReadWrite`, `continueRead`, `continueWrite`, `send`, `close` | selector thread and pool threads share a handler |
| Server frame codec | `impl/stomp/FrameEncoderDecoder.java`, `impl/stomp/StompFrame.java` | the byte buffer of a partial frame | `decodeNextByte`, `encode`, parse, `createFrame` | between socket and protocol |
| Client session | `client/src/StompClient.cpp`, `StompProtocol.cpp`, `ConnectionHandler.cpp` | `terminateKeyboard`, `terminateServerResponses`, `subscriptions`, `subscriptionId`, `receipts`, `channels`, the socket | `login`, `join`, `exit`, `report`, `summary`, `logout`; one reaction per server frame | a main thread starts a keyboard thread and a socket thread that share the objects without a lock |
| Client codec and reports | `client/src/StompFrame.cpp`, `event.cpp`, `Channel.cpp`, and in `StompProtocol.cpp` `report`, `parseEventReport`, `getEventbyUser`, `writeToFile` | the stored events of each channel | parse, `createFrame`, event to text and back, summary | between socket, session and report files |
| Unused client code | `client/src/EncoderDecoder.cpp`, `keyboardInput.cpp`, the constructor of `Event` from a frame body, `insertSub`/`getSubID`, `logined`, `resetConnection` | - | never called, or never read, by the program | - |
| Vendored | `client/include/json.hpp` | - | parses the report files | third-party code |

What makes each of them hard, and what would make it correct:

* **Registry.** The outer tables are `ConcurrentHashMap`s, but a protocol step is
  several calls (check, then act), and each channel's `HashMap` is shared with no lock at all: an update may be
  lost, a map may be replaced after a client was told it is in it, an iteration may throw half-way.
  Correct means: a login is freed when its
  connection logs out; a broadcast reaches exactly the subscribers; a
  subscription that was receipted stands; nobody else's subscription is touched.
* **Protocol.** Every command has error branches that close the socket
  and clean up in three more steps, inside a `try` that swallows every exception. Correct means: one reply
  per request and in order, nothing but reports after a final reply, reports of one
  sender in order, every request and every session comes to its end.
* **Thread-per-client server.** The thread of a connection is started before the
  static counter moves on (`BaseServer.java:48-49`), and a connection that
  drops is never cleaned up (`BlockingConnectionHandler.java:46`).
* **Pool.** `submit` runs on the selector's thread while `complete` runs on a
  worker. Correct means: one task of an actor at a time, in the order submitted, and none left behind.
* **Reactor.** Reply and close race (`shouldTerminate` is set before the reply
  is queued), interest ops are changed from other threads, buffers are pooled.
* **Client.** Two threads, plain `bool`s and maps. `join`, `exit` and `report` do not wait for an answer and never look at a
  receipt, so several commands are under way at once; the keyboard thread may still be in `getline` when the session is over, and
  takes the next line. Correct means: the client's table of subscriptions and the server's agree when the server
  has caught up; the receipt of a logout is recognised; nothing is sent behind a DISCONNECT; a session
  that is over leads back to the login prompt.
* **Reports.** One event is written as text three times and read three times, by different code that shares no
  description of the format; a description may contain anything. Correct means: what
  arrives is what was reported, in order; a summary counts each report once; and it is known which reports no reader survives.

The full list, each hazard at its line with the properties that cover it, is `hazards` in `PROJECT.json`.

## 2. The modules

| Module | Models |
|---|---|
| `Connections` | the registry: tables, the `HashMap` of each channel with its identity, fail-fast iterators, lost updates |
| `StompProtocol` | `process`, one action per access to the registry or to a socket |
| `TpcServer` | accept loop and connection threads, composed with the two above; the specification and its properties |
| `Sessions` | abstract: what one connection promises its client; refined by `TpcServer` |
| `MCTpcServer` | the sets of frames that the runs use |
| `ActorThreadPool` | the pool, its locks and its workers; the specification and its properties |
| `ActorQueues` | abstract: one FIFO queue per actor; refined by `ActorThreadPool` |
| `Reactor` | selector thread, pool threads and the connections they share; the specification and its properties |
| `Client` | the client program: its three threads, over what they share; the network is left open |
| `Platform` | `Client` composed with `TpcServer` over TCP; the specification and its properties |
| `MCPlatform` | the lines and report files that the runs use |
| `FrameCodec` | frames as text: `split`, parse and `createFrame` of both programs |
| `EventReports` | an event from a report file through both programs to every reader's summary, and the frames without a body; uses `FrameCodec` |
| `MCEventReports` | the events that the run uses |
| `Selections` | the elements of a sequence at a set of positions; used for replies, reports and lines |
| `SelectionProofs` | lemmas on `Selected` and `FlattenSeq`, for sequences of any length |
| `EventProofs` | theorems about the reports: frames, what readers store, which reports end them, the summary |
| `TpcServerProofs`, `DeliveryProofs` | theorems about the thread-per-client server: types and logins; reports and its refinement of `Sessions` |
| `ActorThreadPoolProofs` | theorems about the pool, and its refinement of `ActorQueues` |
| `ReactorProofs` | theorems about the reactor |
| `PlatformProofs`, `SessionProofs` | theorems about client and server together: its refinement of `TpcServer` and its types; what the two ends know of each other |

`Platform` and `TpcServerProofs` EXTEND `TpcServer`, which extends `StompProtocol` and `Connections`; `Platform` takes
`Client` by INSTANCE, under the client's own variables. `Reactor` takes `ActorQueues` by INSTANCE as its pool.

**Registry.** A handler is its connection id. `channelsSubscriptions[ch]` is the
*reference* of the channel's `HashMap` and `subscribers[ch][m]` the contents of the map `m`, so the model can tell a
map that is in the table from one that was replaced while a broadcast still iterates over it. `iter[c]`
is the iterator the thread of `c` has open: the keys it has still to return and whether it went
stale. A stale iterator with keys left *may* throw (`BroadcastFails`, `WalkFails`, `SweepFails`),
and may also not notice. `LoseEntry` is a `put` or `remove` that is lost to another thread;
it can happen only while another thread is at a change of the same map
(`ConcurrentWriter`).

**Protocol.** `pc[c]` is the label of the step the thread of `c` makes next. Each label is one call into the registry
or one `send`; the code between two of them touches nothing shared and belongs to the step before.

| `process` | Labels in order |
|---|---|
| CONNECT | `userConnectedAlready`, `hasRegistered`, `checkPasscode` or `addUser`, `logIn`, `sendConnected` |
| SUBSCRIBE | `walkChannels`, `walked` (`toStringChannels`), `findChannel`, `findSubscriber`, `putSubscription` or `createChannel`, `sendReceipt` |
| UNSUBSCRIBE | `removeSubscription`, `walkChannels`, `walked`, `sendReceipt` |
| SEND | `findSubscription`, `getSubscription`, `openBroadcast`, `broadcast` (one step per subscriber) |
| DISCONNECT | `sendReceipt`, then `disconnect`: `findLogin`, `dropLogin`, `sweep` |
| any error | `sendErrorTwice` (wrong passcode, SEND without a subscription), `sendError`, `close`, `disconnect`, `removeConnection` |

The error branches' `catch` is in `SweepThrows`: it goes back to the reading loop with
`removeConnection` and `shouldTerminate = true` skipped. The same exception in the DISCONNECT branch ends the thread.
`removeChannelSubscription`'s lookups and its `remove` are one step: only the connection's own thread
adds and removes entries under its key, but for a sweep.

**Server.** `Accept` and `Increment` are two steps, since the new thread runs in between. `Abort` is
everything that ends the reading loop from outside: end of stream, an `IOException`, a frame whose
parsing throws. `received` and `count` are history: the frames a connection has sent.
The `n` of a reply is the position of the request it answers; it stands for the receipt id.

**Pool.** `at[th]` is the step of a thread, `job[th]` what it works on; `monitor` is
`synchronized (act)`, `readers` and `writer` are `actsRWLock`. Submitters and workers share
`LockActor` and `PendingRunnablesOf`, as `submit` and `complete` do.

**Reactor.** `sel` is the step of the selector thread, `at[h]` that of the pool thread that runs the task of
connection `h`: the pool is `INSTANCE ActorQueues`, which `ActorThreadPool` implements (run `pool`, theorem `PoolImplementsQueues`), so a
connection has one running task at most. A task is named by the buffer it holds.

| Code | Actions |
|---|---|
| `serve` | `Select`, `RunSelectionThreadTasks` (one task a step), `HandleAccept`, `NextKey` (`key.isValid`), `IsReadable`, `IsWritable`, `KeysDone` |
| `continueRead`, `pool.submit` | `LeaseBuffer`, `ContinueRead` or `ReadFails` |
| `continueWrite` | `ContinueWrite` (one turn of the loop, a whole frame or a part), `WriteFails`, `WriteDone`, `Drained` (the second `isEmpty`), `Terminate`, `UpdateInterestedOps` |
| the task of `continueRead` | `StartTask`, `PushByte`, `PopString` (with `process` up to its first `send`), `ReleaseBuffer` |
| `send` on a pool thread | `Send` (`writeQueue.add`), `Notify` (`keyFor`, `selectorTasks.add`), `Wakeup` |
| error branches | `Close`, `Disconnect` (with `removeConnection` and the flag, or neither of them) |

`open[h]` is both "the channel is open" and "its key is valid": `close` does both. A key whose channel a pool thread
closed stays in the selected set, and each later call on it throws: in `RunSelectionThreadTasks` the code catches that, elsewhere it
does not (`Dies`).

**Client.** `main`, `keyboard` and `socket` are the labels of the three threads.

| Code | Actions |
|---|---|
| `main` of `StompClient.cpp` | `Login`, `StartSession` or `LoginFails`, `JoinThreads`, `LoginLineEmpty` (an index into an empty vector) |
| the loop of `run_keyboard` | `KeyboardLoop`, `GetLine` or `GetLineFails`, `Command` or `CommandFails` |
| `join`, `exit`, `logout` | `ProduceReceipt` (and `ProduceReceiptAgain` for an exit that sends), then `Sent` or `SendFails` |
| `report` | `NextEvent` for each event of the file, then `Sent` or `SendFails` |
| `summary` | `SummaryDone`; what it writes is in `EventReports` |
| `server_response_process` | `ReadFrame` or `ReadFails`, then `FindReceipt`, `HandleError`, `AddReport` or `ReportUnreadable` |
| two unsynchronised accesses that overlap, a `close` and a write among them | `RaceCrashes`; a lookup that misses is a disjunct of `FindReceipt` |

`receipts` is a sequence: the numbers count up from 0, so the command of number `n` is at `n + 1`.
A number taken by a join or exit that is refused locally is never sent, and stays in the sequence. An exception no thread catches ends the process (`ProcessEnds`).

**Platform.** Each session is a connection of its own. `sent[c]` is what the client has written, `count[c]` how much of it the server has
taken; `out[c]` is what the server has written, `delivered` how much of it the client has read. So both directions are FIFO streams, as TCP is.
A read or write may fail only for a cause: the client's own closed socket, the server's, or a lost link, decided at the login
(`lost`) because nobody notices it before. After the server has closed, its last frames may still be read, or be lost to the reset that unread
requests provoke (`ReadMayFail`). The server's thread of an old connection may still be at work when the next session logs in.
`ServerReceive` is `Receive` with the next frame of the stream; every other step of the server is that of `TpcServer`.

**Frames and reports.** A text is a sequence of lines, line ends and NULs; a line `k:v` is a record of its key and value, and `"blank"` is a value of
spaces. `Split` keeps what the code's `split` keeps (a line end after a line, a second one if another follows, none of the further
ones), so that the empty line before the body is found, or not, where the code finds it. `Process` of `EventReports` is the server's SEND branch;
`ParseEventReport` with `Trim`, `ValueOf`, `Describes` and `Parses` is `parseEventReport`: of each field the last line that has its key counts (`LastValue`), without the
spaces around it. `Destination` is the lookup of a MESSAGE's channel, which goes
through the lines of the body too, and keeps the spaces. `Fatal` and `Projection` say of the *event* what its readers will make of it. `Sorted` gives every order `std::sort` may leave.

## 3. The runs

| Run | Checks | Bounds |
|---|---|---|
| `sessions` | `TypeOK`; `CleanLogout`: `disconnect` frees the login, whoever races for it; `SessionsImplemented`: refinement of `Sessions`; `RequestsComplete`, `SessionEnds`: liveness | 2 connections, 2 frames each, all commands, 1 user with 2 passcodes, 1 channel; 0.26 M states |
| `reports` | `SenderOrder`, `BroadcastReachesSubscribers`, `DeliveredOnlyToSubscribers` | 2 connections, 3 frames each (SUBSCRIBE, UNSUBSCRIBE and SEND), 1 channel; 0.7 M states |
| `pool` | `OneTaskPerActor`, `NoStrandedTask`, `ActorQueuesImplemented`, `TasksRun` | 2 submitters, 2 workers, 2 actors, 3 tasks |
| `reactor` | `NoForgottenReply`, `RepliesWritten`, `BuffersExclusive` | 2 connections, 1 frame of any kind, cut anywhere, broadcasts to any subset; 0.4 M states |
| `reactor_stream` | `TypeOK`; `FramesIntact`; `LogoutCloses`: liveness, unless the client sent more behind its DISCONNECT | 1 connection, 2 frames (DISCONNECT and refused; an exception may also follow the receipt of a DISCONNECT); 1.1 M states |
| `client_commands` | `PlatformTypeOK`; `ReceiptsMatch`; `SubscriptionsAgree`; `OnlyLoginsRefused`; `LogoutIsLast`; `OwnReportsStored` | any 4 lines, 2 sessions, 1 user, 1 channel, 3 report files, ids 0 and 1 in the Integer cache; 1.8 M states |
| `client_sessions` | `LogoutReturns`, `LostSessionReturns`: liveness; `ServerImplemented`: refinement of `TpcServer`; `OnlyLoginsRefused` | any 3 lines, 2 sessions, no id in the Integer cache, so that exits are refused; 0.2 M states |
| `events` | `EventsTypeOK`, `FramesReadable`, `ReportsIntact`, `FatalReportsEnd`, `SummaryExact` | 2 clients, 2 reports out of 45 events: all descriptions of 1 or 2 lines (text, empty, spaces, a second city, another channel), lines that change the user, the date or `description:` or take the channel away, missing cities, names and keys, 2 dates and 2 names; 0.15 M states |
| four runs of section 5 | one property each, expected to be violated | the smallest instance that shows it |

*Why the bounds suffice.* Every race in the registry is between two threads at one table entry or one map; a third
connection adds another pair. Two frames are what a login race needs (log in, log out); three let a client subscribe,
report and unsubscribe, or subscribe again after an unsubscribe, while the other one broadcasts. Two passcodes make the wrong passcode happen.
A connection that logs in under two names is left to the proofs: `TypeCorrect` and `LogoutFreesLogin` hold for every set of users. One channel is enough
for the broadcasts, since the hazard is in the two maps one channel may have had and in the iterators open on them; the code takes a channel
only from the frame it works on. In the pool two submitters are one more than
the reactor has, so `submit` also races with itself; three tasks leave one running, one
pending and one being submitted for the same actor, with the second actor idle or busy.

In the reactor the races are between the selector thread and a pool thread, and between two pool threads at one buffer pool, one queue
of selector tasks or one write queue. One frame makes two pool threads: it may arrive in two reads, it may be broadcast to both connections,
and the other connection may end meanwhile. Two frames on one connection give every cut of a stream: frames
joined in a buffer, split over two, dropped by an exception, and a frame after a DISCONNECT or a refused one.

On the platform four lines are a login and three commands, which may all be under way at once (join, report, exit; join, exit, join;
a logout and a line typed behind it), or two sessions in a row with a command in each. With one user the second session meets a login the first may not have freed yet.
`alone` tells a session whose server thread works beside that of the one before: both may then find the channel
absent, and the subscription lost in `lost_subscription` shows in the client as well; the properties that compare both tables are about the others.
In `events` two reports make every pair of events meet: the order of two dates, the count of an event of another user, an event
behind one that ended the reader. Descriptions of two lines are enough to put any line behind `description:`, and behind another.

*Deadlock* is checked in every run. `Quiescent` stands for the states where the bounds are used up and every
thread has ended (for the pool: nothing is left to do); every other state must have a successor.

*Fairness.* `TpcServer!Fairness` is weak fairness of the accept loop's increment and of the steps of each
connection's thread: the JVM runs a runnable thread. No fairness is put on `Receive`, `Abort` or `Accept`: clients owe the server nothing. One
assumption is hidden in it and should be known: `out.write` returns, that is, clients go on reading; a client that stops
reading blocks the thread of everybody who broadcasts to it (`BlockingConnectionHandler.java:78`). `ActorThreadPool!FairSpec` is weak fairness of every thread,
which includes that a task's `run` ends; nothing has to be submitted and `shutdown` need not come. Monitors and locks
need no strong fairness here: the bounded number of tasks lets nobody be overtaken for ever.

`Reactor!FairSpec` is weak fairness of the selector thread and of each connection's running task: every step of theirs is enabled until it
is taken, so nothing stronger is needed. Clients owe nothing, but for one thing again hidden in it: a channel becomes writable again, that is, clients go on reading.

`Platform!FairPlatform` is weak fairness of the client's main thread, keyboard thread and socket thread, and of each server thread; a read that has something to return, or
a reason to fail, does so. The user need not type, and links need not break: `InputEnds` and the actions of typing have no fairness,
so `LostSessionReturns` is about a user who does type or whose input ends. Weak fairness is enough: no step of one thread is
disabled by another one for ever. `LogoutReturns` needs the server to answer or to close, and thereby what `RequestsComplete` states.

Each property has a mutant of the code in the modules, next to the definition it mutates, that the
run must reject; they are listed in `PROJECT.json`.

## 4. The proofs

Proved by TLAPS for every value of the constants. The only assumptions are
`ConnectionsAssumption` (the bounds are naturals, `None` is none of the values), `FramesAssumption`
(frames have the headers their command reads, `None` is no frame), `PoolAssumption` (submitters and workers are different threads,
`None` is none of the values, nor a queue of tasks), `ReactorAssumption` (the bounds are naturals, frames are of the five kinds, `None` is no number) and for the platform `MaxLinesAssumption`, `InputAssumption` (what lines and files look like) and
`ClientFramesAssumption` (what the client can send is among the frames of the instance), and for the reports `EventsAssumption` (an event has the fields of a report file, a date that is a number, and a
description of one line at least; users and the channel are words, so not empty or blank). TLC evaluates them in the runs.

| Theorem | States |
|---|---|
| `TpcServerProofs!TypeCorrect` | `Spec => []TypeOK` |
| `TpcServerProofs!LogoutFreesLogin` | `Spec => []CleanLogout` |
| `DeliveryProofs!ReportsOnlyToSubscribers` | `Spec => []DeliveredOnlyToSubscribers` |
| `DeliveryProofs!ReportsInOrder` | `Spec => []SenderOrder` |
| `DeliveryProofs!NobodySkipped` | `Spec => []BroadcastReachesSubscribers` |
| `DeliveryProofs!ServerImplementsSessions` | `Spec => SessionsImplemented`, the specification of `Sessions` |
| `PlatformProofs!PlatformImplementsServer` | `PlatformSpec => ServerImplemented`, that is, `PlatformSpec => Spec` |
| `PlatformProofs!PlatformTypeCorrect` | `PlatformSpec => []PlatformTypeOK` |
| `PlatformProofs!LogoutLast` | `PlatformSpec => []LogoutIsLast` |
| `SessionProofs!ReceiptsFound` | `PlatformSpec => []ReceiptsMatch` |
| `SessionProofs!ServerRefusesOnlyLogins` | `PlatformSpec => []OnlyLoginsRefused` |
| `SessionProofs!TablesAgree` | `PlatformSpec => []SubscriptionsAgree` |
| `SessionProofs!OwnReportsReturn` | `PlatformSpec => []OwnReportsStored` |
| `ActorThreadPoolProofs!PoolTypeCorrect` | `Spec => [](TypeOK /\ JobsFit)` of the pool |
| `ActorThreadPoolProofs!ActorsExclude` | `Spec => []OneTaskPerActor` |
| `ActorThreadPoolProofs!NothingStranded` | `Spec => []NoStrandedTask` |
| `ActorThreadPoolProofs!PoolImplementsQueues` | `Spec => ActorQueuesImplemented`, the specification of `ActorQueues` |
| `ReactorProofs!ReactorTypeCorrect` | `Spec => []TypeOK` of the reactor |
| `ReactorProofs!BuffersNeverShared` | `Spec => []BuffersExclusive` |
| `ReactorProofs!RepliesNotForgotten` | `Spec => []NoForgottenReply` |
| `ReactorProofs!FramesInOrder` | `Spec => []FramesIntact` |
| `EventProofs!FramesReadableAlways` | `EventSpec => []FramesReadable` |
| `EventProofs!StoredReadable` | `EventSpec => []EventsTypeOK` |
| `EventProofs!EndedByTheFirstFatal` | `EventSpec => []FatalReportsEnd` |
| `EventProofs!ReportsIntactAlways` | `EventSpec => []ReportsIntact` |
| `EventProofs!SummaryExactAlways` | `EventSpec => SummaryExact` |

**Types.** `TypeOK` is not inductive: `AddUser(frame[c].login, ..)` keeps the type of `users` only if the frame at
that label is a CONNECT. `TypeInv` adds `FrameFits` (the label of a thread and the kind of its frame fit, for
every label) and `CountersFit` (the counters stay within the bounds that guard them, a login found by
`values().remove` is a user).

**Logout.** `CleanLogout` speaks of connections past `disconnect` only. The invariant `LogoutInv` has, for each
connection: every login it holds is one it asked for; the login it is about to drop is one it asked for;
`shouldTerminate` is set only while or after a DISCONNECT, or after the cleanup; and once it is logged out and used one name only, no
login is its own. The last part is kept by the others' steps because `logIn` writes only the id of the
connection that makes the step, and `dropLogin` only removes. The condition on one name is needed: `values().remove`
removes one entry, and a connection may log in under two names.
`FreshInv` says a connection that was not accepted yet is `"new"`.

**Reports.** None of the three is inductive. `ReportInv` adds what an open iterator stands for: the connections it has still to visit asked for the
channel (`Broadcasts`, from `EntriesAsked`: whoever is in a map asked for it) and have not got this report: all
reports of the sender in their streams have lower numbers (`Numbered`). A broadcast over a map nobody changes is complete because the contents of a map change only
with `Stale`, or when the map is created; and a thread creates a map for a channel only if it has not created one
before and no iterator is open on it (`CreatesFresh`, from `IteratorsOpen`: iterators are open on existing channels
only). A connection that is accepted during a broadcast is in no map, as it has sent nothing (`NewSilent`).
Most steps touch none of this; `Quiet` says what they have in common and `QuietReports` does them all at once.

**Platform.** `PlatformImplementsServer` is step simulation: every step of the platform is a step of the server or leaves it alone. The one thing to
show is that what the client sends is in `Frames`, `ClientInv`: the label of the keyboard thread tells the verb of its line (`KeyboardFits`), an exit that is sent has the
id of a subscription, a report a channel, and there are no more ids than joins typed. With it all theorems about the server, `[]TypeOK` first, hold of the
platform; `PlatformTypeCorrect` adds that what the socket thread has read is an answer of the server with the fields its step looks at. For
`LogoutLast`: once a DISCONNECT is sent on the session's connection, the keyboard thread has ended or is at its loop test with
`terminateKeyboard` set, which nothing takes back before the session's objects are destroyed.

**Pool.** `OneTaskPerActor` is not inductive: nothing in it says what the monitor protects. `PoolInv` adds: a thread past
`lock` and before `idle` holds the monitor of its actor, and is the only one; a task
in the pool, queued or with a worker, implies that its actor is in `playingNow`; a submitter about to
execute has just put it there and nothing else of that actor is in the pool.
`NoStrandedTask` is its counterpart: an actor in `playingNow` has a task in the pool until the pool is stopped,
and a queue that is not empty belongs to an actor in `playingNow`.

`PoolImplementsQueues` is step simulation under `PoolInv`, to which `QueueInv` adds what the refinement depends on: between a thread's look into `acts` and its
`put` nobody else makes the queue of that actor, and a task that `submit` executes at once overtakes none. An actor's abstract queue is its task in the executor's queue, if any, followed by its queue in `acts`; so `submit` is `Submit` at the step that puts the task in one of
them, a worker that takes a job is `Start`, and `complete`, which moves a task from one to the other, is a stutter. A shutdown drops what the executor holds, and what `complete` hands to it afterwards is dropped too (`Stop`).

**Sessions.** The abstract phase of a connection is read off its label and its last reply. `AnswerInv` says, label by label, that both fit: a thread between `Dispatch` and
its reply has not answered this request (`Unanswered`), one behind a close has answered it with an ERROR, one in the cleanup has given its last answer, a thread that reads has either no
final answer behind it or will not take another frame (the flag or the socket tells it). Invariants used: `TypeInv`, `LogoutInv` (its `FreshInv`) and `AnswerInv`.

**Selections.** The replies in a stream (`RepliesIn`), the reports a client sent and those it stored are what `Selected(s, I)` leaves of a sequence `s` at the positions in `I`: `FlattenSeq` of a
sequence of one or no element each. What one more element adds (`SelectedFurther`, `SelectedNone`), what is left of two sequences put together (`SelectedPieces`) and when two selections are equal
(`SelectedAgree`) follow from what `FlattenSeq`, which is defined by recursive functions, does with one more piece (`FlattenAppend`). That these functions exist and depend on the
prefix only are inductions, made over a *set* of numbers (`InductiveSet`, from the well-foundedness of `Nat`), because the library's theorem has an operator as its parameter.

**Reactor.** `TypeOK` types every variable and says that the key, the buffer and the frame a thread holds fit its label. That a processed frame has a kind needs that every byte of
a stream is of a frame that was sent, wherever it stands: in the socket, in a buffer, or decoded (`BytesSent`). With the types `BuffersExclusive` is inductive. `NoForgottenReply` is not: it says nothing of the window in
which `continueWrite` has found the queue empty and has yet to take `OP_WRITE` away. `RepliesInv` covers it: a non-empty queue is watched or the selector thread is
told of it, *also* while it stands between the second `isEmpty` and `updateInterestedOps` (`DrainedTold`); and it does not go to sleep over a task (`TasksNoticed`).
For `FramesIntact`, `StreamInv` says where a client's stream is cut: each buffer a connection's tasks hold is a run of consecutive bytes, the first one begins where decoding stands, each next one where the one
before ends, the last one ends where reading stands. It holds until `process` throws and the rest of a buffer is dropped, and `FramesIntact` claims no more.

**Both ends.** `ReceiptInv`: every number sent was entered in `receipts` under its command before (`ReceiptsEntered`), a receipt on its way answers a frame that was sent (`AnswersMatch`).
For the tables, `Holds(s, n, ch, id)` says that after the first `n` frames of the stream `s` channel `ch` is joined under `id`. The client's table agrees with *all* it has sent (`ClientTable`), the server's with
what it has *taken* (`ServerTable`), up to the frame its thread has yet to enter; and each frame fits what the frames before it allow (`SentFits`). So no check of the server fails,
which is `OnlyLoginsRefused`, and when all was taken the tables are equal, which is `SubscriptionsAgree`. `AloneFits` limits the server's part to sessions that found it idle: only then does nobody else
change a map (`lost_subscription` shows what happens otherwise).

**Own reports.** `OwnReportsStored` compares the client's store with what it sent, once all is delivered. `ReportInv` splits the way between them in two. On the server's side (`ReportsFit`), the reports of the session's
connection on each channel in its own stream `out` are those it sent among the frames *taken* so far, but for the one under way: the numbers given to reports count the SENDs taken (`messageID`), one less while the
thread is before `openBroadcast`, and a broadcast that has not come to the sender yet is not in the stream (`BackNumber`). That it will come there needs that the sender is in the map the broadcast iterates over: `TablesAgree`'s
invariant says that a client which may report on a channel is subscribed to it in the server's table (`SenderSubscribed`). On the client's side (`StoredFits`), the stored reports are those among the frames read, but for the one in the
hands of the socket thread. The claim is their sum when nothing is under way.

**Reports as text.** `events` compares short texts; the theorems hold for any number of clients and reports, any values, and descriptions of any number of lines, whatever
stands in them. The lemmas follow one report. What `Split` makes of a text is worked out for a line and for the line ends behind it, and then for texts put together, so
the position of the empty line, of the body and of its first line is known for the SEND (`SendRead`) and for the MESSAGE (`MessageRead`), where the description was split and put together
a second time. For the frames without a body, `AnswersReadable` finds the empty line and the NUL behind it, which the client takes for a body, and `CommandsReadable` a colon in every header line. `ReadLines` says which lines any reader sees in the end: the eight fields in the order they were written, the lines of the
description but for the empty ones, and the NUL. From these come the fields (`ReadValues`: a field is as reported unless a line of the description repeats its key), the description
(`ReadDescription`; `KeptUndescribed` compares it with what `Undescribed` says without the parser), and when parsing fails: exactly if the event is `Fatal` (`ReadOrFatal`). For plain reports what is read is `Projection` (`PlainRead`).

No property of the run is inductive, since none says what the frames under way hold. `EventInv` does: frame `i` of a queue is the text of the report that is `i`-th among those not passed on, or not yet read
(`OnTheWay`; the queues lose frames at the head, so the reports are counted by what is gone, `SentCount` and `ReadCount`); what is stored under the channel is what
reading the texts gives, of the reports read that are filed there and not fatal (`StoredRead`), so the claim about plain reports is not carried along but drawn at the end; and a
program has ended exactly when the last report it read was fatal (`EndedByFatal`). A report whose description names another channel is filed there, and `StoredRead` leaves it out.

`SummaryExact` compares cardinalities of sets of positions: in the sorted list, in the store, and in the reports read. `SelectedRenumbers`, by induction over
the sequence, gives the one-to-one map from the positions in a selection to those chosen; composed with the permutation of `Sorted`, it maps each
set of list positions to the set of reports it stands for, and the two have the same number of elements (`CountedOff`, `Permuted`).

*Only model-checked.* Liveness: `RequestsComplete` and `SessionEnds` of `sessions`, `TasksRun`, `RepliesWritten`, `LogoutCloses`, `LogoutReturns` and `LostSessionReturns`. They rest on weak
fairness, which the installed backends do not support (`ENABLED` is out of their reach). Every invariant, every action property and every refinement of the passing runs is proved.
The properties of the four runs of section 5 are false, so there is nothing to prove.

## 5. What the code does that its comments deny

| Run | Comment | What TLC finds |
|---|---|---|
| `logout_keeps_subscriptions` | "Removing the user from loggedIn & the user's subscription" (`StompProtocolImpl.java:88`) | `disconnect` compares each subscriber with `activeClients.get(connectionID)`: the static counter, not its parameter `connectionId`. No subscription of the client is removed. (In the window between `Accept` and `Increment` the sweep removes those of the new client instead.) |
| `lost_subscription` | "Managed to add the subscription" (`StompProtocolImpl.java:132`) | Two first subscribers of a channel each put a map; the first one's subscription is gone after its receipt. |
| `locked_out` | "User is already connected to a different client" (`StompProtocolImpl.java:33`) | A connection that dropped still holds its user; the next login is refused although no client is connected. |
| `selector_dies` | "In case the channel got canceled" (`Reactor.java:59`), and the comment on `key.isWritable` (`:122`) | `isValid` is tested once. A pool thread that closes a refused client's channel after the test makes `isReadable`, `isWritable` or `interestOps` throw a `CancelledKeyException` that `serve` does not catch: the server ends. |

More weaknesses are not listed because nothing in the repository says otherwise. Three are modelled, and no property forbids them:
check and update of a login are separate calls, so two clients may both be told CONNECTED under one name, and the logout of one may then take the login of the other (`CleanLogout` and `LogoutFreesLogin`
show that each frees what it holds itself); a broadcast, or the listing of the channels that every SUBSCRIBE prints, throws when another thread changes the map, which ends the thread with its user
logged in and a report half delivered (for `Sessions` and `RequestsComplete` a dead thread has ended); and the pool loses tasks at a shutdown, which `ActorQueues` allows.
Properties of passing runs state how far two others go. `removeChannelSubscription` compares boxed `Integer`s with `==`: `OnlyLoginsRefused` shows that the exit of an id outside -128..127 is the only
command of this client the server refuses, logins apart. `FatalReportsEnd` says exactly which reports end every client that reads them.

## 6. Abstractions and what is not modelled

* Frames are records with the headers the code reads. A frame without them, or with an id that is no number, makes
  `process` throw: it is `Abort`. A frame with another command changes nothing and is left out.
* A subscription id of -1, which `getUserSubID` also returns for "not subscribed", is not among `SubIds`; the client numbers its subscriptions from 0.
* The order in which a `HashMap` returns its keys is any order. A key added while an iterator is open is not returned by it;
  a real iterator might return it if it does not notice the change. A resize is not modelled apart from that.
* The `ConcurrentHashMap` key iterator of a sweep may or may not see channels created later (`BeginSweep`).
* `toStringChannels` iterates over one map at a time, in turn; the model keeps one of them, any, per call.
* The plain `static int connectionID` is read by other threads without synchronisation; the model reads the latest value.
* Sockets: a write returns; what was written before a close is delivered. `out` is what was written, not what the client has read.
* `activeClients` grows for ever, since neither `DISCONNECT` nor a drop removes an entry; the model shows it, nothing promises otherwise.
* The `subscription` header of a MESSAGE is the sender's id for every receiver; the model leaves the header out.
* Pool: the weak keys of `acts`. An actor that has a task in the pool is reachable from it, so its queue stays.
* `BaseServer.close` and `Reactor.close` are never called by the program.
* The JSON library is third-party code.
* Reactor: the registry's tables are left out. A frame is of one of five kinds (a request with one reply, a report to any
  set of connections, DISCONNECT, a refused one, one at which `process` throws), and exceptions of the registry are a choice where it can throw.
  A frame is two bytes, one of content and the NUL, the least that a read can cut. A free buffer's content is forgotten, since `clear` and `read` overwrite it.
  The pool is never shut down: `serve` reaches `shutdown` only by an I/O error of the selector.
* Client: a login whose `connect` fails changes nothing and is left out; a login line whose port is no number makes `stoi` throw in `main` and ends the program, as a blank line
  does. A line is known by its verb and arguments; a command with the wrong number of words is refused with a message ("other"). What is printed is left out.
* `RaceCrashes` lets an overlap of an unsynchronised read and a write end the program, and so may a `close` of the socket by one thread while the other writes to it; other outcomes of the race (a lookup that misses) are modelled where they change what
  follows. A stale read of a plain `bool` is a later step of the reading thread.
* The client's end of one session closes its socket; the server notices at any later time.
* Reports: all clients are logged in and have joined one channel; who is subscribed is the business of `Platform`. A client whose program has ended is no subscriber in reality after a while;
  frames on their way to it stay unread here, and reports it had sent are still processed. `Process` relies on `FramesReadable`, a theorem: no frame of the client makes the server's parse throw.
  A description is cut to 27 characters in the summary's file; the model keeps the line. A line end inside any other field of an event is not modelled.
* Dead code (last rows of the table in section 1) is left out, and so is the vendored JSON library: a report file is the list of its events, or
  one that cannot be parsed. That header is 24640 of the 26027 lines of C and C++ in the repository; what is modelled of the rest is nearly all of it, and the Java server.

## 7. Plan

1. *Done:* registry, protocol, thread-per-client server, abstract sessions; pool and abstract queues; reactor.
2. *Done:* client, platform, codec and reports. All components of the program are modelled.
3. *Done:* theorems on types, logins and reports of the server, on the pool, and that the platform implements the server.
4. *Done:* theorems on the reactor (types, buffers, replies, frames), on receipts and tables of both ends, and the refinements of `Sessions` and `ActorQueues`.
5. *Done:* `OwnReportsStored`; all of what `events` checks, for texts of any length.
6. Left: that each of the reactor's connections has its task from the queue of `ActorQueues` only, as a lemma of `ReactorProofs` that names the theorem of the pool.
7. Left: the reports of `EventReports` under `Platform`'s subscriptions, that is, several channels and clients that come and go, in place of its one channel that all have joined.

To run a model: `tlc -workers 4 -config Sessions.cfg MCTpcServer`; to check a proof: `tlapm TpcServerProofs.tla`.
