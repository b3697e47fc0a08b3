---------------------------- MODULE Connections ----------------------------
(***************************************************************************)
(* The registry every connection of the server shares (ConnectionsImpl):   *)
(* the active connections, the subscribers of each channel, the registered *)
(* users and the users that are logged in.                                 *)
(*                                                                         *)
(* A connection handler is identified with its connection id: the accept   *)
(* loop is the only writer of the static counter connectionID, and gives   *)
(* each handler a value of its own.                                        *)
(*                                                                         *)
(* The four tables are ConcurrentHashMaps, so one call on a table is one   *)
(* atomic step.  The value of a channel is a plain HashMap from handlers   *)
(* to subscription ids, shared without any lock; its identity matters,     *)
(* because two threads that find a channel absent create two maps and the  *)
(* second replaces the first.  A connection creates at most one map per    *)
(* channel (channels are never removed), hence a map is named by the       *)
(* connection that created it: channelsSubscriptions[ch] is that reference *)
(* and subscribers[ch][m] the contents of the map m.                       *)
(***************************************************************************)
EXTENDS Integers, Sequences, FiniteSets

CONSTANTS
  MaxConnections, \* bound: how many connections the server ever accepts
  MaxFrames,      \* bound: how many frames a client sends on a connection
  Users,          \* login names
  Passcodes,
  Channels,
  SubIds,         \* subscription ids chosen by clients
  CachedIds,      \* those whose java.lang.Integer box is shared: -128..127
  None            \* Java's null / an absent key

Conns == 0 .. (MaxConnections - 1)

ASSUME ConnectionsAssumption ==
  /\ MaxConnections \in Nat
  /\ MaxFrames \in Nat
  /\ CachedIds \subseteq SubIds
  /\ None \notin Conns \cup Users \cup Passcodes \cup Channels \cup SubIds

VARIABLES
  connectionID,          \* static counter: the id of the next connection
  activeClients,         \* the ids present in the table of connections
  channelsSubscriptions, \* channel -> reference to its HashMap, or None
  subscribers,           \* channel -> map reference -> handler -> id or None
  users,                 \* login -> passcode, or None
  loggedInUsers,         \* login -> connection, or None
  iter,                  \* the HashMap iterator each thread has open
  open,                  \* socket of a connection not closed by the server
  out                    \* frames written to the socket of a connection

accounts == <<users, loggedInUsers>>
topics   == <<channelsSubscriptions, subscribers, iter>>
sockets  == <<open, out>>

-----------------------------------------------------------------------------
HasChannel(ch) == channelsSubscriptions[ch] # None

\* The map a call channelsSubscriptions.get(ch) returns.
MapOf(ch) == subscribers[ch][channelsSubscriptions[ch]]

\* Mutant: the lookup of the connection in the channel's map is forgotten.
IsSubscribedMutant(ch, c) == HasChannel(ch)

IsSubscribed(ch, c) == HasChannel(ch) /\ MapOf(ch)[c] # None

EmptyMap == [c \in Conns |-> None]

\* Writing a frame.  BlockingConnectionHandler.send writes the frame with one
\* call to a BufferedOutputStream, which excludes other writers, and swallows
\* the IOException of a closed socket.
Send(c, frame) ==
  out' = [out EXCEPT ![c] = IF open[c] THEN Append(@, frame) ELSE @]

-----------------------------------------------------------------------------
(***************************************************************************)
(* Iteration over a HashMap (the for loops of send(channel, ..), of        *)
(* disconnect and of toStringChannels).  The iterator is fail-fast: adding *)
(* or removing an entry makes the iterators open on that map stale, and a  *)
(* stale iterator that has elements left throws, if its thread notices     *)
(* (the modification count is read without synchronisation).  left is what *)
(* the iterator has still to return.                                       *)
(***************************************************************************)
NoIterator == [channel |-> None, map |-> None, left |-> {}, stale |-> FALSE]

\* Mutant: a broadcast leaves out the connection that opened it.
OpenIteratorMutant(c, ch) ==
  iter' = [iter EXCEPT ![c] =
            [channel |-> ch, map |-> channelsSubscriptions[ch],
             left |-> {k \in Conns \ {c} : MapOf(ch)[k] # None}, stale |-> FALSE]]

OpenIterator(c, ch) ==
  iter' = [iter EXCEPT ![c] =
            [channel |-> ch, map |-> channelsSubscriptions[ch],
             left |-> {k \in Conns : MapOf(ch)[k] # None}, stale |-> FALSE]]

CloseIterator(c) == iter' = [iter EXCEPT ![c] = NoIterator]

\* The iterators after an entry of map m of channel ch was added or removed.
Stale(ch, m) ==
  [c \in Conns |->
     [iter[c] EXCEPT !.stale = @ \/ (iter[c].channel = ch /\ iter[c].map = m)]]

\* subs.put(c, id) and subs.remove(c) on the current map of channel ch
\* (remove is put of None), and the same call without effect: put and remove
\* on an unsynchronised HashMap may lose their update to another thread that
\* relinks the same bucket.
SetEntry(ch, c, id) ==
  /\ subscribers' = [subscribers EXCEPT ![ch][channelsSubscriptions[ch]][c] = id]
  /\ iter' = Stale(ch, channelsSubscriptions[ch])

LoseEntry(ch) ==
  /\ iter' = Stale(ch, channelsSubscriptions[ch])
  /\ UNCHANGED subscribers

-----------------------------------------------------------------------------
(***************************************************************************)
(* The calls of ConnectionsImpl that change a table.                       *)
(***************************************************************************)
AddConnection(c) == activeClients' = activeClients \cup {c}

RemoveConnection(c) == activeClients' = activeClients \ {c}

AddUser(u, p) == users' = [users EXCEPT ![u] = p]

PutLogin(u, c) == loggedInUsers' = [loggedInUsers EXCEPT ![u] = c]

\* channelsSubscriptions.put(ch, new HashMap with the single entry c -> id).
CreateChannelMap(ch, c, id) ==
  /\ channelsSubscriptions' = [channelsSubscriptions EXCEPT ![ch] = c]
  /\ subscribers' = [subscribers EXCEPT ![ch][c] = [EmptyMap EXCEPT ![c] = id]]

\* activeClients.get(connectionID), the handler disconnect compares with: it
\* reads the static counter, not the parameter connectionId.
SweepTarget == IF connectionID \in activeClients THEN connectionID ELSE None

\* subs.get(c) == subscriptionID compares two boxed Integers by reference.
SameBox(a, b) == a = b /\ a \in CachedIds

ConnectionsInit ==
  /\ connectionID = 0
  /\ activeClients = {}
  /\ channelsSubscriptions = [ch \in Channels |-> None]
  /\ subscribers = [ch \in Channels |-> [m \in Conns |-> EmptyMap]]
  /\ users = [u \in Users |-> None]
  /\ loggedInUsers = [u \in Users |-> None]
  /\ iter = [c \in Conns |-> NoIterator]
  /\ open = [c \in Conns |-> FALSE]
  /\ out = [c \in Conns |-> << >>]
=============================================================================
