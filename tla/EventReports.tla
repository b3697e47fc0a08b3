---------------------------- MODULE EventReports ----------------------------
(***************************************************************************)
(* An emergency report on its way: the report command makes an event a     *)
(* SEND frame, the server turns it into a MESSAGE, every subscribed client *)
(* reads the event back from the text and stores it, and the summary       *)
(* command writes what is stored (StompProtocol.cpp, StompProtocolImpl).   *)
(* The text is written three times and read three times, by different      *)
(* code.  All clients are logged in and have joined the one channel.       *)
(***************************************************************************)
EXTENDS FrameCodec

CONSTANTS
  Clients,     \* the users
  Channel,     \* the channel they joined
  Events,      \* the events of the report files
  Values,      \* what may stand behind the colon of a line
  Time,        \* the number in a string, for the strings in which stoi finds one
  Place,       \* of each value among the others, as strings are compared
  MaxReports   \* bound: how many events are reported

\* The keys parseEventReport looks for at the start of a line.
Keys == {"user", "city", "event name", "date time", "active", "forces_arrival_at_scene"}

\* The values with nothing in them.
Void == {"", "blank"}

\* A line of text.
Lines == [key : STRING \ {"NL", "NUL"}, value : Values]

\* An event of a report file.  description is its lines, a line end in the
\* JSON string between two of them; an empty line is Word("").  active and
\* forces are "absent" when general_information lacks the key.  The date is an
\* int, written by to_string; users and channels are words of what was typed.
ASSUME EventsAssumption ==
  /\ MaxReports \in Nat
  /\ Void \subseteq Values /\ Place \in [Values -> Int]
  /\ Time \in [DOMAIN Time -> Int] /\ DOMAIN Time \cap Void = {}
  /\ (Clients \cup {Channel}) \cap Void = {}
  /\ Events \subseteq [city : Values, name : Values, date : DOMAIN Time,
                       active : Values \cup {"absent"}, forces : Values \cup {"absent"},
                       description : Seq(Lines) \ {<< >>}]

VARIABLES
  reported,  \* client -> the events it has sent (history)
  passedOn,  \* the events the server has passed on, with their senders (history)
  toServer,  \* client -> frames on their way to the server
  toClient,  \* client -> frames on their way to the client
  running,   \* client -> its process is running
  stored,    \* client -> channel -> events, in the order they came
  summary    \* the file written last, and whose reports it is about

eventVars == <<reported, passedOn, toServer, toClient, running, stored, summary>>

\* The channels a report may be filed under: a line of a description may name
\* one, too (Destination).
Channels ==
  ({Channel} \cup {l.value : l \in {k \in UNION {ToSet(e.description) : e \in Events} :
                                      k.key = "destination"}}) \ {""}

NoSummary == [reader |-> "nobody"]

Init ==
  /\ reported = [u \in Clients |-> << >>]
  /\ passedOn = << >>
  /\ toServer = [u \in Clients |-> << >>]
  /\ toClient = [u \in Clients |-> << >>]
  /\ running = [u \in Clients |-> TRUE]
  /\ stored = [u \in Clients |-> [ch \in Channels |-> << >>]]
  /\ summary = NoSummary

-----------------------------------------------------------------------------
\* The description's lines, with a line end after each; an empty one is no
\* token.
DescriptionText(ls) ==
  FlattenSeq([i \in DOMAIN ls |-> IF ls[i] = Word("") THEN <<NL>> ELSE <<ls[i], NL>>])

ReportBody(u, e) ==
  Terminated(<<Field("user", u), Field("city", e.city), Field("event name", e.name),
               Field("date time", e.date), Field("general information", ""),
               Field("active", e.active), Field("forces_arrival_at_scene", e.forces),
               Field("description", "")>>)
    \o DescriptionText(e.description)

Complete(e) == e.active # "absent" /\ e.forces # "absent"

ReportCount == SumFunction([u \in Clients |-> Len(reported[u])])

\* The report command, for one event of the file: without the two keys the
\* event is not sent.
Report(u, e) ==
  /\ running[u] /\ Complete(e)
  /\ ReportCount < MaxReports
  /\ reported' = [reported EXCEPT ![u] = Append(@, e)]
  /\ toServer' = [toServer EXCEPT ![u] = Append(@,
                    ClientFrame("SEND", <<Field("destination", Channel)>>, ReportBody(u, e)))]
  /\ UNCHANGED <<passedOn, toClient, running, stored, summary>>

\* process of a SEND: the body goes, as it was parsed, to every subscriber.
\* The parse does not throw (FramesReadable).
Process(u) ==
  LET parts == Split(Head(toServer[u])) IN
  /\ toServer[u] # << >>
  /\ toServer' = [toServer EXCEPT ![u] = Tail(@)]
  /\ toClient' = [k \in Clients |-> Append(toClient[k],
                    ServerFrame("MESSAGE",
                      <<Field("message-id", "0"), Field("subscription", "0"),
                        Field("destination", HeaderPut(parts, "destination"))>>,
                      Body(parts)))]
  /\ passedOn' = Append(passedOn,
                   [user |-> u,
                    event |-> reported[u][Len(reported[u]) - Len(toServer[u]) + 1]])
  /\ UNCHANGED <<reported, running, stored, summary>>

-----------------------------------------------------------------------------
(***************************************************************************)
(* The frames without a body.  A std::map writes its headers in the order  *)
(* of their keys, a HashMap in any.                                        *)
(***************************************************************************)
ConnectFrame(u) ==
  ClientFrame("CONNECT", <<Field("accept-version", "1.2"), Field("host", "stomp.cs.bgu.ac.il"),
                           Field("login", u), Field("passcode", u)>>, << >>)

SubscribeFrame ==
  ClientFrame("SUBSCRIBE", <<Field("destination", Channel), Field("id", "0"),
                             Field("receipt", "0")>>, << >>)

UnsubscribeFrame ==
  ClientFrame("UNSUBSCRIBE", <<Field("id", "0"), Field("receipt", "0")>>, << >>)

DisconnectFrame == ClientFrame("DISCONNECT", <<Field("receipt", "0")>>, << >>)

CommandFrames(u) == {ConnectFrame(u), SubscribeFrame, UnsubscribeFrame, DisconnectFrame}

ConnectedFrame == ServerFrame("CONNECTED", <<Field("version", "1.2")>>, << >>)

ReceiptFrame == ServerFrame("RECEIPT", <<Field("receipt-id", "0")>>, << >>)

\* Refused for a login or a SEND, and for a SUBSCRIBE or an UNSUBSCRIBE.
ErrorFrames ==
  LET receipt == Field("receipt-id", "0")
      message == Field("message", "refused")
  IN {ServerFrame("ERROR", headers, << >>) :
        headers \in {<<message>>, <<receipt, message>>, <<message, receipt>>}}

AnswerFrames == {ConnectedFrame, ReceiptFrame} \cup ErrorFrames

-----------------------------------------------------------------------------
(***************************************************************************)
(* parseEventReport.                                                       *)
(***************************************************************************)
\* The client's own split drops line ends and empty lines, and keeps the NUL.
LinesOf(text) == Selected(text, {i \in DOMAIN text : ~ IsNL(text[i])})

\* Mutant: white space at the ends of a line stays.
TrimMutant(v) == v

Trim(v) == IF v = "blank" THEN "" ELSE v

TrimmedLine(t) == [t EXCEPT !.value = Trim(@)]

\* What stands in the last line with key k, or the empty string.
LastValue(lines, k) ==
  LET at == {i \in DOMAIN lines : lines[i].key = k}
  IN  IF at = {} THEN "" ELSE lines[Max(at)].value

ValueOf(lines, k) == Trim(LastValue(lines, k))

IsEmpty(t) == t.key = "" /\ t.value = ""

\* Mutant: the line after "description:" counts whatever it looks like.
DescribesMutant(lines, i) == i > 1 /\ lines[i - 1] = Field("description", "")

\* Line i is taken for the description: it follows "description:" and starts
\* with none of the keys.
Describes(lines, i) ==
  /\ i > 1
  /\ TrimmedLine(lines[i - 1]) = Field("description", "")
  /\ lines[i].key \notin Keys

\* Mutant: every line after "description:" replaces the one before.
DescriptionOfMutant(lines) ==
  LET found == {i \in DOMAIN lines : Describes(lines, i)}
  IN  IF found = {} THEN Word("") ELSE TrimmedLine(lines[Len(lines) - 1])

DescriptionOf(lines) ==
  LET found == {i \in DOMAIN lines : Describes(lines, i)}
  IN  IF found = {} THEN Word("") ELSE TrimmedLine(lines[Max(found)])

\* The required fields are there, and stoi finds a number in the date.
Parses(lines) ==
  /\ \A k \in {"user", "city", "event name"} : ValueOf(lines, k) # ""
  /\ ValueOf(lines, "date time") \in DOMAIN Time
  /\ ~ IsEmpty(DescriptionOf(lines))

ParseEventReport(lines) ==
  [user |-> ValueOf(lines, "user"), city |-> ValueOf(lines, "city"),
   name |-> ValueOf(lines, "event name"), date |-> Time[ValueOf(lines, "date time")],
   active |-> ValueOf(lines, "active"), forces |-> ValueOf(lines, "forces_arrival_at_scene"),
   description |-> DescriptionOf(lines)]

\* The channel of a MESSAGE is looked up in the lines of the whole frame,
\* the body's included; the last one counts, with its spaces.
Destination(text) == LastValue(LinesOf(text), "destination")

\* server_response_process, for a MESSAGE: without a channel it is ignored; an
\* exception of parseEventReport ends the process.  The frame's own parse does
\* not throw (FramesReadable).
ServerResponse(u) ==
  LET text  == Head(toClient[u])
      lines == LinesOf(Body(Split(text)))
      ch    == Destination(text)
  IN
  /\ running[u] /\ toClient[u] # << >>
  /\ toClient' = [toClient EXCEPT ![u] = Tail(@)]
  /\ \/ ch = "" /\ UNCHANGED <<running, stored>>
     \/ ch # "" /\ ~ Parses(lines)
        /\ running' = [running EXCEPT ![u] = FALSE] /\ UNCHANGED stored
     \/ ch # "" /\ Parses(lines)
        /\ stored' = [stored EXCEPT ![u][ch] = Append(@, ParseEventReport(lines))]
        /\ UNCHANGED running
  /\ UNCHANGED <<reported, passedOn, toServer, summary>>

-----------------------------------------------------------------------------
(***************************************************************************)
(* The summary command.                                                    *)
(***************************************************************************)
ByUser(u, of) ==
  LET es == stored[u][Channel] IN Selected(es, {i \in DOMAIN es : es[i].user = of})

\* In the order of the dates, at one time in that of the names.
Before(a, b) ==
  \/ a.date < b.date
  \/ a.date = b.date /\ Place[a.name] < Place[b.name]

\* Mutant: the events are written as they came.
SortedMutant(es) == {es}

\* The orders std::sort may leave the events in.
Sorted(es) ==
  {[i \in DOMAIN es |-> es[p[i]]] :
     p \in {q \in [DOMAIN es -> DOMAIN es] :
              /\ IsInjective(q)
              /\ \A i, j \in DOMAIN es : i < j => ~ Before(es[q[j]], es[q[i]])}}

CountTrue(es, key) == Cardinality({i \in DOMAIN es : es[i][key] = "true"})

\* getEventbyUser and writeToFile.
Summary(u, of) ==
  LET es == ByUser(u, of) IN
  /\ running[u] /\ es # << >>
  /\ \E order \in Sorted(es) :
       summary' = [reader |-> u, of |-> of, total |-> Len(es),
                   active |-> CountTrue(es, "active"),
                   forces |-> CountTrue(es, "forces"), reports |-> order]
  /\ UNCHANGED <<reported, passedOn, toServer, toClient, running, stored>>

\* Everything is read, and nobody can report any more.
Rest ==
  /\ ReportCount = MaxReports \/ \A u \in Clients : ~ running[u]
  /\ \A u \in Clients : toServer[u] = << >> /\ (running[u] => toClient[u] = << >>)
  /\ UNCHANGED eventVars

Next ==
  \/ \E u \in Clients :
       \/ \E e \in Events : Report(u, e)
       \/ Process(u)
       \/ ServerResponse(u)
       \/ \E of \in Clients : Summary(u, of)
  \/ Rest

EventSpec == Init /\ [][Next]_eventVars

-----------------------------------------------------------------------------
(***************************************************************************)
(* What is promised of the reports.                                        *)
(***************************************************************************)
\* The type of the tables: a stored report has a user, a city, a name, a date
\* and a description, none of them empty or blank; only then can a summary
\* show it.
EventsTypeOK ==
  /\ running \in [Clients -> BOOLEAN]
  /\ \A u \in Clients : \A ch \in Channels : \A i \in DOMAIN stored[u][ch] :
       LET e == stored[u][ch][i] IN
       /\ {e.user, e.city, e.name} \cap Void = {}
       /\ \E d \in DOMAIN Time : e.date = Time[d]
       /\ {Word("blank"), Word("")} \cap {e.description} = {}

\* No frame either program writes makes the other one's constructor of
\* StompFrame throw, although both read past the end of what they split: not
\* one without a body, which the client can read only because it keeps the NUL,
\* and not a report, whose body arrives with the line it started with.
FramesReadable ==
  /\ \A f \in AnswerFrames : ~ ClientParseThrows(Split(f))
  /\ \A u \in Clients :
       /\ \A f \in CommandFrames(u) : ~ ServerParseThrows(Split(f))
       /\ \A i \in DOMAIN toServer[u] :
            LET parts == Split(toServer[u][i]) IN
            /\ ~ ServerParseThrows(parts)
            /\ Body(parts) # << >> /\ Body(parts)[1] = Field("user", u)
       /\ \A i \in DOMAIN toClient[u] :
            LET parts == Split(toClient[u][i]) IN
            /\ ~ ClientParseThrows(parts)
            /\ Body(parts) # << >> /\ Body(parts)[1].key = "user"

\* The reports a client has read, in order.
ReadBy(u) == SubSeq(passedOn, 1, Len(passedOn) - Len(toClient[u]))

\* No line of the description looks like a field of a report or a header.
Plain(e) == \A i \in DOMAIN e.description : e.description[i].key = ""

\* The lines of the description; empty ones are dropped on the way.
Written(e) ==
  LET d == e.description IN Selected(d, {i \in DOMAIN d : d[i] # Word("")})

\* A field of the report: a line of the description may repeat its key.
Told(r, k, v) == LastValue(<<Field(k, v)>> \o Written(r.event), k)

\* Nothing is kept of a description: no line stands behind an empty
\* "description:" and names no field, or the last such line is blank.  The NUL
\* that ends the frame is the last line.
Undescribed(e) ==
  LET lines == <<Field("description", "")>> \o Written(e) \o <<NUL>>
      kept  == {i \in 2 .. Len(lines) :
                  /\ lines[i - 1].key = "description" /\ lines[i - 1].value \in Void
                  /\ lines[i].key \notin Keys}
  IN  \/ kept = {}
      \/ lines[Max(kept)].key = "" /\ lines[Max(kept)].value \in Void

\* The reports nobody can read.
Fatal(r) ==
  LET e == r.event IN
  /\ Told(r, "destination", Channel) # ""
  /\ \/ {Told(r, "user", r.user), Told(r, "city", e.city), Told(r, "event name", e.name)}
          \cap Void # {}
     \/ Told(r, "date time", e.date) \notin DOMAIN Time
     \/ Undescribed(e)

\* What a reader should store of a report: of a plain description the first
\* line that is not empty, or the NUL.
Projection(r) ==
  [user |-> r.user, city |-> r.event.city, name |-> r.event.name, date |-> Time[r.event.date],
   active |-> Trim(r.event.active), forces |-> Trim(r.event.forces),
   description |-> Head(Written(r.event) \o <<NUL>>)]

\* A report survives being written and read twice: as long as every
\* description was plain, each client has stored, under the channel it was
\* reported to, exactly the reports it has read, in the order the server
\* passed them on, with every field as it was reported.
ReportsIntact ==
  \A u \in Clients :
    LET read == ReadBy(u) IN
    (\A i \in DOMAIN read : Plain(read[i].event)) =>
      stored[u][Channel] = Selected([i \in DOMAIN read |-> Projection(read[i])],
                                    {i \in DOMAIN read : ~ Fatal(read[i])})

\* Which reports end every program that reads them: those without a user, city,
\* name or readable date, and those of whose description no line is kept, as
\* when it starts with spaces or with what looks like a field; any other
\* description is safe, whatever follows, a line in it may even supply what is
\* missing, and one that takes the channel away saves the reader.  The program
\* ends at the first such report, and for no other reason.
FatalReportsEnd ==
  \A u \in Clients :
    LET read == ReadBy(u) IN
    /\ running[u] => \A i \in DOMAIN read : ~ Fatal(read[i])
    /\ ~ running[u] =>
         /\ read # << >> /\ Fatal(Last(read))
         /\ \A i \in 1 .. Len(read) - 1 : ~ Fatal(read[i])

\* A summary accounts for every report of the user the reader has read, once:
\* the counts are those of the reported events, and the list is in the order
\* of the dates.
SummaryExact ==
  [][LET s    == summary'
         read == ReadBy(s.reader)
         mine == {i \in DOMAIN read : read[i].user = s.of}
         CountReported(key) == Cardinality({i \in mine : read[i].event[key] = "true"})
     IN  summary' # summary /\ (\A i \in DOMAIN read : Plain(read[i].event)) =>
           /\ s.total = Cardinality(mine)
           /\ s.active = CountReported("active")
           /\ s.forces = CountReported("forces")
           /\ \A i \in mine :
                Cardinality({j \in DOMAIN s.reports : s.reports[j] = Projection(read[i])})
                  = Cardinality({j \in mine : Projection(read[j]) = Projection(read[i])})
           /\ \A i, j \in DOMAIN s.reports :
                i < j => s.reports[i].date <= s.reports[j].date
    ]_eventVars
=============================================================================
