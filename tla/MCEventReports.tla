--------------------------- MODULE MCEventReports ---------------------------
(***************************************************************************)
(* The values of the constants of EventReports for TLC.                    *)
(***************************************************************************)
EXTENDS EventReports

SomeValues == {"", "blank", "fire", "flood", "Haifa", "Eilat", "true", "false", "noon", "night",
               "soon", "smoke", "steam", "elsewhere", "bob"}

\* Two times, and two names that come in the other order.
Times == ("noon" :> 1) @@ ("night" :> 2)

Places == [v \in SomeValues |-> IF v = "fire" THEN 2 ELSE IF v = "flood" THEN 1 ELSE 0]

Event(city, name, date, active, forces, description) ==
  [city |-> city, name |-> name, date |-> date, active |-> active, forces |-> forces,
   description |-> description]

\* The lines a description is made of: text, nothing, spaces, and lines that
\* look like a field of a report or like a header.
DescriptionLines ==
  {Word("smoke"), Word(""), Word("blank"), Field("city", "Eilat"),
   Field("destination", "elsewhere")}

\* Every description of one or two lines ...
Described ==
  {Event("Haifa", "fire", "noon", "true", "false", d) :
     d \in BoundedSeq(DescriptionLines, 2) \ {<< >>}}

\* ... one line kept, then one that repeats "description:", or that changes the
\* user, the date or the channel, or takes it away ...
Overwritten ==
  {Event("Haifa", "fire", "noon", "true", "false", <<Word("smoke"), l>>) :
     l \in {Field("description", ""), Field("user", "bob"), Field("date time", "soon"),
            Field("destination", "")}}
    \cup {Event("Haifa", "fire", "noon", "true", "false",
                <<Field("description", ""), Word("smoke")>>),
          Event("", "fire", "noon", "true", "false", <<Field("destination", "")>>)}

\* ... events without a city or a name, or without a key the report command
\* looks up, and events that differ in what a summary counts and sorts by.
SomeEvents ==
  Described \cup Overwritten
    \cup {Event(c, n, "noon", "true", "true", <<Word("smoke")>>) :
            c \in {"", "blank"}, n \in {"fire"}}
    \cup {Event("Haifa", "blank", "noon", "true", "true", <<Word("smoke")>>),
          Event("", "fire", "noon", "true", "true", <<Word("smoke"), Field("city", "Eilat")>>),
          Event("Haifa", "fire", "noon", "true", "absent", <<Word("smoke")>>)}
    \cup {Event("Eilat", n, d, "false", "true", <<Word("smoke"), Word("steam")>>) :
            n \in {"fire", "flood"}, d \in {"noon", "night"}}
=============================================================================
