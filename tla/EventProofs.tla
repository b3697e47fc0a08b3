----------------------------- MODULE EventProofs -----------------------------
(***************************************************************************)
(* Theorems about the reports (EventReports).  The lemmas follow a report: *)
(* the lines of a text, what the two programs split and parse, the lines   *)
(* every reader sees, the fields it takes from them; the invariants say    *)
(* what is on its way and what was stored of it.                           *)
(***************************************************************************)
EXTENDS EventReports, SelectionProofs, FiniteSetTheorems

-----------------------------------------------------------------------------
(***************************************************************************)
(* Sequences of sequences.                                                 *)
(***************************************************************************)
LEMMA FlattenOne ==
  ASSUME NEW E, NEW s \in Seq(E)
  PROVE  FlattenSeq(<<s>>) = s
<1>1. << >> \in Seq(Seq(E)) /\ Append(<< >>, s) = <<s>>
  OBVIOUS
<1>2. FlattenSeq(Append(<< >>, s)) = FlattenSeq(<< >>) \o s
  BY <1>1, FlattenAppend
<1> QED
  BY <1>1, <1>2, FlattenEmpty, ConcatEmptySeq

\* The first one stands in front.
LEMMA FlattenFirst ==
  ASSUME NEW E, NEW s \in Seq(E), NEW ss \in Seq(Seq(E))
  PROVE  FlattenSeq(<<s>> \o ss) = s \o FlattenSeq(ss)
<1>1. <<s>> \in Seq(Seq(E))
  OBVIOUS
<1>2. FlattenSeq(<<s>> \o ss) = FlattenSeq(<<s>>) \o FlattenSeq(ss)
  BY <1>1, FlattenConcat
<1>3. FlattenSeq(<<s>>) = s
  BY FlattenOne
<1> QED
  BY <1>2, <1>3

LEMMA ConcatParts ==
  ASSUME NEW E, NEW s \in Seq(E), NEW t \in Seq(E)
  PROVE  /\ s \o t \in Seq(E)
         /\ Len(s) \in Nat /\ Len(t) \in Nat /\ Len(s \o t) = Len(s) + Len(t)
         /\ \A i \in 1 .. Len(s) : (s \o t)[i] = s[i]
         /\ \A i \in 1 .. Len(t) : (s \o t)[Len(s) + i] = t[i]
         /\ DOMAIN (s \o t) = 1 .. Len(s) + Len(t)
         /\ DOMAIN s = 1 .. Len(s) /\ DOMAIN t = 1 .. Len(t)
<1>1. s \o t \in Seq(E) /\ Len(s \o t) = Len(s) + Len(t)
  BY ConcatProperties
<1>2. \A i \in 1 .. Len(s) + Len(t) :
        (s \o t)[i] = IF i <= Len(s) THEN s[i] ELSE t[i - Len(s)]
  BY ConcatProperties
<1>3. Len(s) \in Nat /\ Len(t) \in Nat /\ DOMAIN s = 1 .. Len(s) /\ DOMAIN t = 1 .. Len(t)
  OBVIOUS
<1>4. DOMAIN (s \o t) = 1 .. Len(s) + Len(t)
  BY <1>1, LenProperties
<1>5. \A i \in 1 .. Len(s) : (s \o t)[i] = s[i]
  BY <1>2, <1>3
<1>6. ASSUME NEW i \in 1 .. Len(t) PROVE (s \o t)[Len(s) + i] = t[i]
  <2>1. Len(s) + i \in 1 .. Len(s) + Len(t) /\ ~ (Len(s) + i <= Len(s)) /\ Len(s) + i - Len(s) = i
    BY <1>3
  <2> QED
    BY <1>2, <2>1
<1> QED
  BY <1>1, <1>3, <1>4, <1>5, <1>6

\* A sequence made of two.
LEMMA TwoParts ==
  ASSUME NEW X, NEW f \in Seq(X), NEW g \in Seq(X), NEW h \in Seq(X),
         Len(f) = Len(g) + Len(h),
         \A i \in 1 .. Len(g) : f[i] = g[i],
         \A i \in 1 .. Len(h) : f[Len(g) + i] = h[i]
  PROVE  f = g \o h
<1>1. /\ g \o h \in Seq(X)
      /\ Len(g) \in Nat /\ Len(h) \in Nat /\ Len(g \o h) = Len(g) + Len(h)
      /\ \A i \in 1 .. Len(g) : (g \o h)[i] = g[i]
      /\ \A i \in 1 .. Len(h) : (g \o h)[Len(g) + i] = h[i]
  BY ConcatParts
<1> DEFINE r == g \o h
<1> HIDE DEF r
<1>2. ASSUME NEW i \in 1 .. Len(f) PROVE f[i] = r[i]
  <2>1. CASE i <= Len(g)
    BY <1>1, <2>1 DEF r
  <2>2. CASE ~ (i <= Len(g))
    <3>1. i - Len(g) \in 1 .. Len(h) /\ Len(g) + (i - Len(g)) = i
      BY <1>1, <2>2
    <3> QED
      BY <1>1, <3>1 DEF r
  <2> QED
    BY <2>1, <2>2
<1>3. r \in Seq(X) /\ Len(f) = Len(r)
  BY <1>1 DEF r
<1> QED
  BY <1>2, <1>3, SeqEqual DEF r

-----------------------------------------------------------------------------
(***************************************************************************)
(* The lines of a text: LinesOf drops the line ends, wherever they are.    *)
(***************************************************************************)
Pieces(t) == [i \in DOMAIN t |-> IF IsNL(t[i]) THEN << >> ELSE <<t[i]>>]

LEMMA PiecesType ==
  ASSUME NEW E, NEW t \in Seq(E)
  PROVE  Pieces(t) \in Seq(Seq(E)) /\ DOMAIN Pieces(t) = 1 .. Len(t)
<1>1. << >> \in Seq(E)
  OBVIOUS
<1>2. \A i \in 1 .. Len(t) : <<t[i]>> \in Seq(E)
  OBVIOUS
<1>3. Pieces(t) = [i \in 1 .. Len(t) |-> IF IsNL(t[i]) THEN << >> ELSE <<t[i]>>]
  BY DEF Pieces
<1>4. [i \in 1 .. Len(t) |-> IF IsNL(t[i]) THEN << >> ELSE <<t[i]>>] \in [1 .. Len(t) -> Seq(E)]
  BY <1>1, <1>2
<1> QED
  BY <1>3, <1>4, SeqDef

LEMMA LinesPieces == \A t : LinesOf(t) = FlattenSeq(Pieces(t))
<1> SUFFICES ASSUME NEW t PROVE LinesOf(t) = FlattenSeq(Pieces(t))
  OBVIOUS
<1>1. [i \in DOMAIN t |-> IF i \in {j \in DOMAIN t : ~ IsNL(t[j])} THEN <<t[i]>> ELSE << >>]
        = Pieces(t)
  BY DEF Pieces
<1> QED
  BY <1>1 DEF LinesOf, Selected

LEMMA LinesType ==
  ASSUME NEW E, NEW t \in Seq(E)
  PROVE  LinesOf(t) \in Seq(E)
  BY LinesPieces, PiecesType, FlattenType

LEMMA LinesEmpty == LinesOf(<< >>) = << >>
  BY SelectedEmpty DEF LinesOf

LEMMA LinesConcat ==
  ASSUME NEW E, NEW s \in Seq(E), NEW t \in Seq(E)
  PROVE  LinesOf(s \o t) = LinesOf(s) \o LinesOf(t)
<1> DEFINE st == s \o t
<1>1. /\ st \in Seq(E) /\ Len(s) \in Nat /\ Len(t) \in Nat /\ Len(st) = Len(s) + Len(t)
      /\ DOMAIN st = 1 .. Len(s) + Len(t) /\ DOMAIN s = 1 .. Len(s) /\ DOMAIN t = 1 .. Len(t)
  BY ConcatParts
<1>2. \A i \in 1 .. Len(s) : st[i] = s[i]
  BY ConcatParts
<1>3. \A i \in 1 .. Len(t) : st[Len(s) + i] = t[i]
  BY ConcatParts
<1> HIDE DEF st
<1>4. /\ Pieces(s) \in Seq(Seq(E)) /\ DOMAIN Pieces(s) = 1 .. Len(s)
      /\ Pieces(t) \in Seq(Seq(E)) /\ DOMAIN Pieces(t) = 1 .. Len(t)
      /\ Pieces(st) \in Seq(Seq(E)) /\ DOMAIN Pieces(st) = 1 .. Len(st)
  BY <1>1, PiecesType
<1>5. Len(Pieces(s)) = Len(s) /\ Len(Pieces(t)) = Len(t) /\ Len(Pieces(st)) = Len(s) + Len(t)
  BY <1>1, <1>4
<1>6. \A u : \A i \in DOMAIN u : Pieces(u)[i] = IF IsNL(u[i]) THEN << >> ELSE <<u[i]>>
  BY DEF Pieces
<1>7. ASSUME NEW i \in 1 .. Len(s) PROVE Pieces(st)[i] = Pieces(s)[i]
  <2>1. i \in DOMAIN s /\ i \in DOMAIN st
    BY <1>1
  <2> QED
    BY <1>2, <1>6, <2>1
<1>8. ASSUME NEW i \in 1 .. Len(t) PROVE Pieces(st)[Len(s) + i] = Pieces(t)[i]
  <2>1. i \in DOMAIN t /\ Len(s) + i \in DOMAIN st
    BY <1>1
  <2> QED
    BY <1>3, <1>6, <2>1
<1>9. Pieces(st) = Pieces(s) \o Pieces(t)
  <2> DEFINE Y == Seq(E)
             f == Pieces(st)
             g == Pieces(s)
             h == Pieces(t)
  <2>1. f \in Seq(Y)
    BY <1>4
  <2>2. g \in Seq(Y)
    BY <1>4
  <2>3. h \in Seq(Y)
    BY <1>4
  <2>4. Len(f) = Len(g) + Len(h)
    BY <1>5
  <2>5. \A i \in 1 .. Len(g) : f[i] = g[i]
    BY <1>5, <1>7
  <2>6. \A i \in 1 .. Len(h) : f[Len(g) + i] = h[i]
    BY <1>5, <1>8
  <2> HIDE DEF Y, f, g, h
  <2>7. f = g \o h
    BY <2>1, <2>5, <2>6, <2>2, <2>3, <2>4, TwoParts
  <2> QED
    BY <2>7 DEF f, g, h
<1>10. FlattenSeq(Pieces(s) \o Pieces(t)) = FlattenSeq(Pieces(s)) \o FlattenSeq(Pieces(t))
  BY <1>4, FlattenConcat
<1> QED
  BY <1>9, <1>10, LinesPieces DEF st

LEMMA LinesOne ==
  ASSUME NEW E, NEW a \in E
  PROVE  LinesOf(<<a>>) = IF IsNL(a) THEN << >> ELSE <<a>>
<1>1. Pieces(<<a>>) = <<IF IsNL(a) THEN << >> ELSE <<a>> >>
  BY DEF Pieces
<1>2. (IF IsNL(a) THEN << >> ELSE <<a>>) \in Seq(E)
  OBVIOUS
<1> QED
  BY <1>1, <1>2, LinesPieces, FlattenOne

\* A line end behind a line adds nothing.
LEMMA LinesEnded ==
  ASSUME NEW E, NEW a \in E, ~ IsNL(a), NL \in E
  PROVE  LinesOf(<<a, NL>>) = <<a>>
<1>1. <<a, NL>> = <<a>> \o <<NL>> /\ <<a>> \in Seq(E) /\ <<NL>> \in Seq(E)
  OBVIOUS
<1>2. IsNL(NL)
  BY DEF IsNL, NL, Field
<1>3. LinesOf(<<a>>) = <<a>> /\ LinesOf(<<NL>>) = << >>
  BY <1>2, LinesOne
<1>4. LinesOf(<<a>> \o <<NL>>) = LinesOf(<<a>>) \o LinesOf(<<NL>>)
  BY <1>1, LinesConcat
<1>5. <<a>> \o << >> = <<a>>
  BY <1>1, ConcatEmptySeq
<1> QED
  BY <1>1, <1>3, <1>4, <1>5

\* The lines of texts behind each other.
LinesOfEach(ss) == [i \in DOMAIN ss |-> LinesOf(ss[i])]

LEMMA LinesFlatten ==
  ASSUME NEW E, NEW tt \in Seq(Seq(E))
  PROVE  /\ LinesOfEach(tt) \in Seq(Seq(E))
         /\ LinesOf(FlattenSeq(tt)) = FlattenSeq(LinesOfEach(tt))
<1> DEFINE Good(ss) == /\ LinesOfEach(ss) \in Seq(Seq(E))
                       /\ LinesOf(FlattenSeq(ss)) = FlattenSeq(LinesOfEach(ss))
           T == {ss \in Seq(Seq(E)) : Good(ss)}
<1>1. << >> \in T
  <2>1. << >> \in Seq(Seq(E)) /\ LinesOfEach(<< >>) = << >>
    BY DEF LinesOfEach
  <2> QED
    BY <2>1, FlattenEmpty, LinesEmpty
<1>2. ASSUME NEW ss \in Seq(Seq(E)), NEW s \in Seq(E), ss \in T PROVE Append(ss, s) \in T
  <2> DEFINE p == Append(ss, s)
  <2>1. /\ p \in Seq(Seq(E)) /\ Len(p) = Len(ss) + 1 /\ p[Len(ss) + 1] = s
        /\ \A i \in 1 .. Len(ss) : p[i] = ss[i]
    BY AppendProperties
  <2>2. LinesOf(s) \in Seq(E) /\ LinesOfEach(ss) \in Seq(Seq(E))
    BY <1>2, LinesType
  <2>3. Len(LinesOfEach(ss)) = Len(ss) /\ Len(ss) \in Nat
        /\ \A i \in 1 .. Len(ss) : LinesOfEach(ss)[i] = LinesOf(ss[i])
    BY DEF LinesOfEach
  <2>4. /\ Append(LinesOfEach(ss), LinesOf(s)) \in Seq(Seq(E))
        /\ Len(Append(LinesOfEach(ss), LinesOf(s))) = Len(ss) + 1
        /\ Append(LinesOfEach(ss), LinesOf(s))[Len(ss) + 1] = LinesOf(s)
        /\ \A i \in 1 .. Len(ss) : Append(LinesOfEach(ss), LinesOf(s))[i] = LinesOf(ss[i])
    BY <2>2, <2>3, AppendProperties
  <2> HIDE DEF p
  <2>5. LinesOfEach(p) = [i \in 1 .. Len(ss) + 1 |-> LinesOf(p[i])]
    BY <2>1 DEF LinesOfEach
  <2>6. \A i \in 1 .. Len(ss) + 1 : LinesOfEach(p)[i] = Append(LinesOfEach(ss), LinesOf(s))[i]
    BY <2>1, <2>3, <2>4, <2>5
  <2>7. \A i \in 1 .. Len(ss) + 1 : LinesOf(p[i]) \in Seq(E)
    BY <2>1, LinesType
  <2>8. LinesOfEach(p) \in Seq(Seq(E)) /\ Len(LinesOfEach(p)) = Len(ss) + 1
    BY <2>3, <2>5, <2>7, SeqDef
  <2>9. LinesOfEach(p) = Append(LinesOfEach(ss), LinesOf(s))
    BY <2>4, <2>6, <2>8, SeqEqual
  <2>10. FlattenSeq(p) = FlattenSeq(ss) \o s /\ FlattenSeq(ss) \in Seq(E)
    BY FlattenAppend, FlattenType DEF p
  <2>11. LinesOf(FlattenSeq(p)) = LinesOf(FlattenSeq(ss)) \o LinesOf(s)
    BY <2>10, LinesConcat
  <2>12. FlattenSeq(LinesOfEach(p)) = FlattenSeq(LinesOfEach(ss)) \o LinesOf(s)
    BY <2>2, <2>9, FlattenAppend
  <2> QED
    BY <1>2, <2>1, <2>8, <2>11, <2>12 DEF p
<1>3. Seq(Seq(E)) \subseteq T
  <2> HIDE DEF T
  <2> QED
    BY <1>1, <1>2, InductiveSequences
<1> QED
  BY <1>3

LEMMA LinesTwoEnds ==
  ASSUME NEW E, NL \in E
  PROVE  LinesOf(<<NL>>) = << >> /\ LinesOf(<<NL, NL>>) = << >>
<1>1. <<NL, NL>> = <<NL>> \o <<NL>> /\ <<NL>> \in Seq(E) /\ << >> \in Seq(E)
  OBVIOUS
<1>2. IsNL(NL)
  BY DEF IsNL, NL, Field
<1>3. LinesOf(<<NL>>) = << >>
  BY <1>2, LinesOne
<1>4. LinesOf(<<NL>> \o <<NL>>) = LinesOf(<<NL>>) \o LinesOf(<<NL>>)
  BY <1>1, LinesConcat
<1>5. << >> \o << >> = << >>
  BY <1>1, ConcatEmptySeq
<1> QED
  BY <1>1, <1>3, <1>4, <1>5

-----------------------------------------------------------------------------
(***************************************************************************)
(* What split makes of a text.                                             *)
(***************************************************************************)
PartsOf(t) == [i \in DOMAIN t |-> Parts(t, i)]

LEMMA PartsType ==
  ASSUME NEW E, NL \in E, NEW t \in Seq(E)
  PROVE  /\ PartsOf(t) \in Seq(Seq(E)) /\ DOMAIN PartsOf(t) = 1 .. Len(t)
         /\ Len(PartsOf(t)) = Len(t)
         /\ \A i \in 1 .. Len(t) : PartsOf(t)[i] = Parts(t, i)
         /\ Split(t) = FlattenSeq(PartsOf(t)) /\ Split(t) \in Seq(E)
<1>1. DOMAIN t = 1 .. Len(t) /\ Len(t) \in Nat
  OBVIOUS
<1>2. ASSUME NEW i \in 1 .. Len(t) PROVE Parts(t, i) \in Seq(E)
  <2>1. t[i] \in E
    OBVIOUS
  <2>2. <<t[i]>> \in Seq(E) /\ << >> \in Seq(E) /\ <<NL>> \in Seq(E) /\ <<NL, NL>> \in Seq(E)
    BY <2>1
  <2> QED
    BY <2>2 DEF Parts
<1>3. PartsOf(t) = [i \in 1 .. Len(t) |-> Parts(t, i)]
  BY <1>1 DEF PartsOf
<1>4. PartsOf(t) \in [1 .. Len(t) -> Seq(E)]
  BY <1>2, <1>3
<1>5. PartsOf(t) \in Seq(Seq(E))
  BY <1>1, <1>4, SeqDef
<1>6. Split(t) = FlattenSeq(PartsOf(t))
  BY DEF Split, PartsOf
<1>7. Split(t) \in Seq(E)
  BY <1>5, <1>6, FlattenType
<1>8. DOMAIN PartsOf(t) = 1 .. Len(t) /\ \A i \in 1 .. Len(t) : PartsOf(t)[i] = Parts(t, i)
  BY <1>3
<1>9. Len(PartsOf(t)) = Len(t)
  BY <1>1, <1>5, <1>8
<1> QED
  BY <1>5, <1>6, <1>7, <1>8, <1>9

\* Splitting loses line ends only.
LEMMA LinesSplit ==
  ASSUME NEW E, NL \in E, NEW t \in Seq(E)
  PROVE  LinesOf(Split(t)) = LinesOf(t)
<1>1. /\ PartsOf(t) \in Seq(Seq(E)) /\ DOMAIN PartsOf(t) = 1 .. Len(t)
      /\ \A i \in 1 .. Len(t) : PartsOf(t)[i] = Parts(t, i)
      /\ Split(t) = FlattenSeq(PartsOf(t))
  BY PartsType
<1>2. ASSUME NEW i \in 1 .. Len(t)
      PROVE  LinesOf(Parts(t, i)) = IF IsNL(t[i]) THEN << >> ELSE <<t[i]>>
  <2>1. t[i] \in E
    OBVIOUS
  <2>2. LinesOf(<<t[i]>>) = IF IsNL(t[i]) THEN << >> ELSE <<t[i]>>
    BY <2>1, LinesOne
  <2>3. LinesOf(<<NL>>) = << >> /\ LinesOf(<<NL, NL>>) = << >> /\ LinesOf(<< >>) = << >>
    BY LinesTwoEnds, LinesEmpty
  <2>4. CASE ~ IsNL(t[i])
    <3>1. Parts(t, i) = <<t[i]>>
      BY <2>4 DEF Parts
    <3> QED
      BY <2>2, <2>4, <3>1
  <2>5. CASE IsNL(t[i])
    <3>1. Parts(t, i) = << >> \/ Parts(t, i) = <<NL>> \/ Parts(t, i) = <<NL, NL>>
      BY <2>5 DEF Parts
    <3> QED
      BY <2>3, <2>5, <3>1
  <2> QED
    BY <2>4, <2>5
<1>3. DOMAIN t = 1 .. Len(t)
  OBVIOUS
<1>4. Pieces(t) = [i \in 1 .. Len(t) |-> IF IsNL(t[i]) THEN << >> ELSE <<t[i]>>]
  BY <1>3 DEF Pieces
<1>5. LinesOfEach(PartsOf(t)) = [i \in 1 .. Len(t) |-> LinesOf(Parts(t, i))]
  BY <1>1 DEF LinesOfEach
<1>6. LinesOfEach(PartsOf(t)) = Pieces(t)
  BY <1>2, <1>4, <1>5
<1>7. LinesOf(FlattenSeq(PartsOf(t))) = FlattenSeq(LinesOfEach(PartsOf(t)))
  BY <1>1, LinesFlatten
<1> QED
  BY <1>1, <1>6, <1>7, LinesPieces

\* A text that starts with a line is split as if nothing stood before it.
LEMMA SplitConcat ==
  ASSUME NEW E, NL \in E, NEW a \in Seq(E), NEW b \in Seq(E), Len(b) # 0, ~ IsNL(b[1])
  PROVE  Split(a \o b) = Split(a) \o Split(b)
<1> DEFINE t == a \o b
<1>1. /\ t \in Seq(E) /\ Len(a) \in Nat /\ Len(b) \in Nat /\ Len(t) = Len(a) + Len(b)
  BY ConcatParts
<1>2. \A i \in 1 .. Len(a) : t[i] = a[i]
  BY ConcatParts
<1>3. \A i \in 1 .. Len(b) : t[Len(a) + i] = b[i]
  BY ConcatParts
<1> HIDE DEF t
<1>4. ASSUME NEW i \in 1 .. Len(a) PROVE Parts(t, i) = Parts(a, i)
  <2>1. t[i] = a[i]
    BY <1>2
  <2>2. i # 1 => t[i - 1] = a[i - 1]
    BY <1>1, <1>2
  <2>3. i < Len(t) /\ IsNL(t[i + 1]) <=> i < Len(a) /\ IsNL(a[i + 1])
    <3>1. CASE i < Len(a)
      <4>1. i + 1 \in 1 .. Len(a) /\ i < Len(t)
        BY <1>1, <3>1
      <4>2. t[i + 1] = a[i + 1]
        BY <1>2, <4>1
      <4> QED
        BY <3>1, <4>1, <4>2
    <3>2. CASE i = Len(a)
      <4>1. t[i + 1] = b[1]
        BY <1>1, <1>3, <3>2
      <4> QED
        BY <1>1, <3>2, <4>1
    <3> QED
      BY <1>1, <3>1, <3>2
  <2> QED
    BY <2>1, <2>2, <2>3 DEF Parts
<1>5. ASSUME NEW i \in 1 .. Len(b) PROVE Parts(t, Len(a) + i) = Parts(b, i)
  <2> DEFINE j == Len(a) + i
  <2>1. t[j] = b[i]
    BY <1>3
  <2>2. CASE i = 1
    BY <2>1, <2>2 DEF Parts
  <2>3. CASE i # 1
    <3>1. j # 1 /\ t[j - 1] = b[i - 1]
      <4>1. i - 1 \in 1 .. Len(b) /\ j - 1 = Len(a) + (i - 1) /\ j # 1
        BY <1>1, <2>3
      <4> QED
        BY <1>3, <4>1
    <3>2. j < Len(t) /\ IsNL(t[j + 1]) <=> i < Len(b) /\ IsNL(b[i + 1])
      <4>1. j < Len(t) <=> i < Len(b)
        BY <1>1
      <4>2. i < Len(b) => i + 1 \in 1 .. Len(b) /\ j + 1 = Len(a) + (i + 1)
        BY <1>1
      <4> HIDE DEF j
      <4> QED
        BY <1>3, <4>1, <4>2
    <3>3. Parts(t, j) = Parts(b, i)
      <4> HIDE DEF j
      <4> QED
        BY <2>1, <2>3, <3>1, <3>2 DEF Parts
    <3> QED
      BY <3>3
  <2> QED
    BY <2>2, <2>3
<1>6. PartsOf(t) = PartsOf(a) \o PartsOf(b)
  <2> DEFINE Y == Seq(E)
             f == PartsOf(t)
             g == PartsOf(a)
             h == PartsOf(b)
  <2>1. f \in Seq(Y) /\ Len(f) = Len(t) /\ \A i \in 1 .. Len(t) : f[i] = Parts(t, i)
    BY <1>1, PartsType
  <2>2. g \in Seq(Y) /\ Len(g) = Len(a) /\ \A i \in 1 .. Len(a) : g[i] = Parts(a, i)
    BY PartsType
  <2>3. h \in Seq(Y) /\ Len(h) = Len(b) /\ \A i \in 1 .. Len(b) : h[i] = Parts(b, i)
    BY PartsType
  <2> HIDE DEF Y, f, g, h
  <2>4. \A i \in 1 .. Len(g) : f[i] = g[i]
    BY <1>1, <1>4, <2>1, <2>2
  <2>5. ASSUME NEW i \in 1 .. Len(h) PROVE f[Len(g) + i] = h[i]
    <3>1. Len(a) + i \in 1 .. Len(t) /\ i \in 1 .. Len(b)
      BY <1>1, <2>3
    <3> QED
      BY <1>5, <2>1, <2>2, <2>3, <3>1
  <2>6. Len(f) = Len(g) + Len(h)
    BY <1>1, <2>1, <2>2, <2>3
  <2>7. f = g \o h
    BY <2>1, <2>2, <2>3, <2>4, <2>5, <2>6, TwoParts
  <2> QED
    BY <2>7 DEF f, g, h
<1>7. PartsOf(a) \in Seq(Seq(E)) /\ PartsOf(b) \in Seq(Seq(E))
  BY PartsType
<1>8. FlattenSeq(PartsOf(a) \o PartsOf(b)) = FlattenSeq(PartsOf(a)) \o FlattenSeq(PartsOf(b))
  BY <1>7, FlattenConcat
<1>9. Split(t) = FlattenSeq(PartsOf(t)) /\ Split(a) = FlattenSeq(PartsOf(a))
      /\ Split(b) = FlattenSeq(PartsOf(b))
  BY DEF Split, PartsOf
<1> QED
  BY <1>6, <1>8, <1>9 DEF t

\* What stands in front of a sequence of sequences.
LEMMA FlattenHead ==
  ASSUME NEW E, NEW ss \in Seq(Seq(E)), Len(ss) # 0, Len(ss[1]) # 0
  PROVE  Len(FlattenSeq(ss)) \in Nat \ {0} /\ FlattenSeq(ss)[1] = ss[1][1]
<1> DEFINE Y == Seq(E)
           r == Tail(ss)
<1>1. ss \in Seq(Y) /\ ss # << >> /\ Len(ss) \in Nat /\ ss[1] \in Seq(E)
  OBVIOUS
<1>2. r \in Seq(Seq(E)) /\ ss = <<ss[1]>> \o r
  <2>1. r \in Seq(Y) /\ Len(r) = Len(ss) - 1 /\ \A i \in 1 .. Len(r) : r[i] = ss[i + 1]
    BY <1>1, HeadTailProperties
  <2>2. <<ss[1]>> \in Seq(Y) /\ Len(<<ss[1]>>) = 1 /\ <<ss[1]>>[1] = ss[1]
    BY <1>1
  <2> DEFINE g == <<ss[1]>>
  <2> HIDE DEF Y, r, g
  <2>3. Len(ss) = Len(g) + Len(r)
    BY <1>1, <2>1, <2>2 DEF g
  <2>4. \A i \in 1 .. Len(g) : ss[i] = g[i]
    BY <2>2 DEF g
  <2>5. \A i \in 1 .. Len(r) : ss[Len(g) + i] = r[i]
    BY <2>1, <2>2 DEF g
  <2>6. g \in Seq(Y)
    BY <2>2 DEF g
  <2>7. ss = g \o r
    BY <1>1, <2>1, <2>3, <2>4, <2>5, <2>6, TwoParts
  <2> QED
    BY <2>1, <2>7 DEF g, Y
<1> HIDE DEF r, Y
<1>3. FlattenSeq(<<ss[1]>> \o r) = ss[1] \o FlattenSeq(r)
  BY <1>1, <1>2, FlattenFirst
<1>4. FlattenSeq(r) \in Seq(E)
  BY <1>2, FlattenType
<1>5. /\ Len(ss[1] \o FlattenSeq(r)) = Len(ss[1]) + Len(FlattenSeq(r))
      /\ Len(ss[1]) \in Nat /\ Len(FlattenSeq(r)) \in Nat
      /\ \A i \in 1 .. Len(ss[1]) : (ss[1] \o FlattenSeq(r))[i] = ss[1][i]
  BY <1>1, <1>4, ConcatParts
<1> DEFINE a == ss[1]
           b == FlattenSeq(r)
<1>6. FlattenSeq(ss) = a \o b
  BY <1>2, <1>3
<1>7. Len(a) # 0
  OBVIOUS
<1> HIDE DEF a, b
<1>8. 1 \in 1 .. Len(a) /\ Len(a) \in Nat
  BY <1>5, <1>7 DEF a
<1>9. Len(a \o b) \in Nat /\ Len(a \o b) # 0 /\ (a \o b)[1] = a[1]
  BY <1>5, <1>7, <1>8 DEF a, b
<1> QED
  BY <1>6, <1>9 DEF a

LEMMA PairSplit ==
  ASSUME NEW Y, NEW a \in Y, NEW b \in Y
  PROVE  <<a>> \in Seq(Y) /\ <<a, b>> \in Seq(Y) /\ <<a, b>> = <<a>> \o <<b>>
<1>1. <<a>> \in Seq(Y) /\ <<a, b>> = Append(<<a>>, b)
  OBVIOUS
<1>2. Append(<<a>>, b) = <<a>> \o <<b>>
  BY <1>1, AppendIsConcat
<1> QED
  BY <1>1, <1>2

LEMMA TripleSplit ==
  ASSUME NEW Y, NEW a \in Y, NEW b \in Y, NEW c \in Y
  PROVE  <<a, b, c>> \in Seq(Y) /\ <<a, b, c>> = <<a>> \o <<b, c>>
  OBVIOUS

LEMMA FlattenTwo ==
  ASSUME NEW E, NEW a \in Seq(E), NEW b \in Seq(E)
  PROVE  FlattenSeq(<<a, b>>) = a \o b
<1> DEFINE Y == Seq(E)
<1>1. <<b>> \in Seq(Seq(E)) /\ <<a, b>> = <<a>> \o <<b>>
  <2>1. a \in Y /\ b \in Y
    OBVIOUS
  <2> HIDE DEF Y
  <2>2. <<b>> \in Seq(Y) /\ <<a, b>> = <<a>> \o <<b>>
    BY <2>1, PairSplit
  <2> QED
    BY <2>2 DEF Y
<1> HIDE DEF Y
<1>2. FlattenSeq(<<a>> \o <<b>>) = a \o FlattenSeq(<<b>>)
  BY <1>1, FlattenFirst
<1> QED
  BY <1>1, <1>2, FlattenOne

LEMMA ThirdElement ==
  ASSUME NEW Y, NEW a \in Y, NEW b \in Y, NEW c \in Y
  PROVE  <<a, b, c>> \in Seq(Y) /\ Append(<<a, b>>, c) = <<a, b, c>>
<1> DEFINE p == <<a, b>>
           q == <<a, b, c>>
<1>1. p \in Seq(Y) /\ Len(p) = 2 /\ p[1] = a /\ p[2] = b
  OBVIOUS
<1>2. q \in Seq(Y) /\ Len(q) = 3 /\ q[1] = a /\ q[2] = b /\ q[3] = c
  OBVIOUS
<1> HIDE DEF p, q
<1>3. Len(p) + 1 = 3
  BY <1>1
<1> DEFINE r == Append(p, c)
<1>4. r \in Seq(Y) /\ Len(r) = Len(p) + 1
  BY <1>1, AppendProperties
<1>5. p \in Seq(Y)
  BY <1>1
<1>6. r[Len(p) + 1] = c /\ \A i \in 1 .. Len(p) : r[i] = p[i]
  BY <1>5, AppendProperties
<1> HIDE DEF r
<1>7. Len(r) = 3 /\ r[3] = c
  BY <1>3, <1>4, <1>6
<1>8. \A i \in 1 .. 3 : r[i] = q[i]
  BY <1>1, <1>2, <1>7, <1>6
<1>9. r = q
  BY <1>2, <1>7, <1>8, <1>4, SeqEqual
<1> QED
  BY <1>2, <1>9 DEF p, q, r

LEMMA FourthElement ==
  ASSUME NEW Y, NEW a \in Y, NEW b \in Y, NEW c \in Y, NEW d \in Y
  PROVE  <<a, b, c, d>> \in Seq(Y) /\ Append(<<a, b, c>>, d) = <<a, b, c, d>>
<1> DEFINE p == <<a, b, c>>
           q == <<a, b, c, d>>
<1>1. p \in Seq(Y) /\ Len(p) = 3 /\ p[1] = a /\ p[2] = b /\ p[3] = c
  OBVIOUS
<1>2. q \in Seq(Y) /\ Len(q) = 4 /\ q[1] = a /\ q[2] = b /\ q[3] = c /\ q[4] = d
  OBVIOUS
<1> HIDE DEF p, q
<1>3. Len(p) + 1 = 4
  BY <1>1
<1> DEFINE r == Append(p, d)
<1>4. r \in Seq(Y) /\ Len(r) = Len(p) + 1
  BY <1>1, AppendProperties
<1>5. p \in Seq(Y)
  BY <1>1
<1>6. r[Len(p) + 1] = d /\ \A i \in 1 .. Len(p) : r[i] = p[i]
  BY <1>5, AppendProperties
<1> HIDE DEF r
<1>7. Len(r) = 4 /\ r[4] = d
  BY <1>3, <1>4, <1>6
<1>8. \A i \in 1 .. 4 : r[i] = q[i]
  BY <1>1, <1>2, <1>7, <1>6
<1>9. r = q
  BY <1>2, <1>7, <1>8, <1>4, SeqEqual
<1> QED
  BY <1>2, <1>9 DEF p, q, r

\* A line is kept with the line end behind it, and one of the further ones.
LEMMA SplitEnded ==
  ASSUME NEW E, NL \in E, NEW l \in E, ~ IsNL(l)
  PROVE  /\ Split(<<l, NL>>) = <<l, NL>>
         /\ Split(<<l, NL, NL>>) = <<l, NL, NL>>
         /\ Split(<<l, NL, NL, NL>>) = <<l, NL, NL>>
<1>1. IsNL(NL)
  BY DEF IsNL, NL, Field
<1>2. <<l>> \in Seq(E) /\ <<NL>> \in Seq(E) /\ <<NL, NL>> \in Seq(E) /\ << >> \in Seq(E)
  OBVIOUS
<1>3. <<l, NL>> = <<l>> \o <<NL>> /\ <<l, NL, NL>> = <<l>> \o <<NL, NL>>
  BY PairSplit, TripleSplit
<1> DEFINE one == <<NL>>
           two == <<NL, NL>>
           line == <<l>>
           ss == <<line, two>>
           none == << >>
           s3 == Append(ss, none)
           s4 == Append(s3, none)
<1>4. s3 = <<line, two, none>> /\ s4 = <<line, two, none, none>>
  <2> DEFINE Y == Seq(E)
  <2>1. line \in Y /\ two \in Y /\ none \in Y
    BY <1>2
  <2> HIDE DEF Y, line, two, none
  <2>2. Append(<<line, two>>, none) = <<line, two, none>>
    BY <2>1, ThirdElement
  <2>3. Append(<<line, two, none>>, none) = <<line, two, none, none>>
    BY <2>1, FourthElement
  <2> QED
    BY <2>2, <2>3
<1>5. FlattenSeq(<<line, one>>) = line \o one
  BY <1>2, FlattenTwo
<1>6. FlattenSeq(ss) = line \o two
  BY <1>2, FlattenTwo
<1>7. ss \in Seq(Seq(E)) /\ s3 \in Seq(Seq(E)) /\ s4 \in Seq(Seq(E))
  BY <1>2
<1>8. line \o two \in Seq(E)
  BY <1>2, ConcatParts
<1>9. FlattenSeq(s3) = FlattenSeq(ss) \o << >>
  BY <1>2, <1>7, FlattenAppend
<1>10. FlattenSeq(s4) = FlattenSeq(s3) \o << >>
  BY <1>2, <1>7, FlattenAppend
<1>11. FlattenSeq(s3) = line \o two /\ FlattenSeq(s4) = line \o two
  <2>1. (line \o two) \o << >> = line \o two
    BY <1>8, ConcatEmptySeq
  <2> HIDE DEF s3, s4, ss, line, two
  <2> QED
    BY <1>6, <1>9, <1>10, <2>1
<1>12. Split(<<l, NL>>) = FlattenSeq(<<line, one>>)
  <2>1. Parts(<<l, NL>>, 1) = <<l>> /\ Parts(<<l, NL>>, 2) = <<NL>>
    BY <1>1 DEF Parts
  <2>2. [i \in DOMAIN <<l, NL>> |-> Parts(<<l, NL>>, i)] = << <<l>>, <<NL>> >>
    BY <2>1
  <2> QED
    BY <2>2 DEF Split
<1>13. Split(<<l, NL, NL>>) = FlattenSeq(s3)
  <2> DEFINE t == <<l, NL, NL>>
  <2>1. Parts(t, 1) = <<l>> /\ Parts(t, 2) = <<NL, NL>> /\ Parts(t, 3) = << >>
    BY <1>1 DEF Parts
  <2>2. [i \in DOMAIN t |-> Parts(t, i)] = << <<l>>, <<NL, NL>>, << >> >>
    BY <2>1
  <2> QED
    BY <1>4, <2>2 DEF Split
<1>14. Split(<<l, NL, NL, NL>>) = FlattenSeq(s4)
  <2> DEFINE t == <<l, NL, NL, NL>>
  <2>1. Parts(t, 1) = <<l>> /\ Parts(t, 2) = <<NL, NL>> /\ Parts(t, 3) = << >>
        /\ Parts(t, 4) = << >>
    BY <1>1 DEF Parts
  <2>2. [i \in DOMAIN t |-> Parts(t, i)] = << <<l>>, <<NL, NL>>, << >>, << >> >>
    BY <2>1
  <2> QED
    BY <1>4, <2>2 DEF Split
<1> HIDE DEF s3, s4
<1> QED
  BY <1>3, <1>5, <1>11, <1>12, <1>13, <1>14

LEMMA SplitHead ==
  ASSUME NEW E, NL \in E, NEW t \in Seq(E), Len(t) # 0, ~ IsNL(t[1])
  PROVE  Len(Split(t)) \in Nat \ {0} /\ Split(t)[1] = t[1]
<1>1. /\ PartsOf(t) \in Seq(Seq(E)) /\ Len(PartsOf(t)) = Len(t)
      /\ \A i \in 1 .. Len(t) : PartsOf(t)[i] = Parts(t, i)
      /\ Split(t) = FlattenSeq(PartsOf(t))
  BY PartsType
<1>2. 1 \in 1 .. Len(t)
  OBVIOUS
<1>3. Parts(t, 1) = <<t[1]>>
  BY DEF Parts
<1> DEFINE ps == PartsOf(t)
<1>4. ps[1] = <<t[1]>>
  BY <1>1, <1>2, <1>3
<1>5. Len(<<t[1]>>) = 1 /\ <<t[1]>>[1] = t[1]
  OBVIOUS
<1>6. ps \in Seq(Seq(E)) /\ Len(ps) # 0
  BY <1>1
<1> HIDE DEF ps
<1>7. Len(ps[1]) # 0 /\ ps[1][1] = t[1]
  BY <1>4, <1>5
<1>8. Len(FlattenSeq(ps)) \in Nat \ {0} /\ FlattenSeq(ps)[1] = ps[1][1]
  BY <1>6, <1>7, FlattenHead
<1> QED
  BY <1>1, <1>7, <1>8 DEF ps

-----------------------------------------------------------------------------
(***************************************************************************)
(* The tokens of the frames, and the text of a report.                     *)
(***************************************************************************)
TokenValues ==
  Values \cup Clients \cup DOMAIN Time
    \cup {Channel, "absent", "", "0", "SEND", "MESSAGE"}

\* The provers do not know the strings in quotes to be members of STRING.
TokenKeys ==
  STRING \cup Keys
    \cup {"", "NL", "NUL", "general information", "description", "message-id", "subscription",
          "destination"}

Tokens == [key : TokenKeys, value : TokenValues]

LEMMA TokenType ==
  ASSUME NEW k \in TokenKeys, NEW v \in TokenValues
  PROVE  Field(k, v) \in Tokens /\ Field(k, v).key = k /\ Field(k, v).value = v
  BY DEF Tokens, Field

LEMMA LineEndType ==
  NL \in Tokens /\ NUL \in Tokens /\ IsNL(NL) /\ ~ IsNL(NUL) /\ NL.key = "NL" /\ NUL.key = "NUL"
<1>1. NL.key = "NL" /\ NUL.key = "NUL"
  BY DEF Field, NL, NUL
<1>2. NL \in Tokens /\ NUL \in Tokens
  <2>1. "" \in TokenValues /\ "NL" \in TokenKeys /\ "NUL" \in TokenKeys
    BY DEF TokenValues, TokenKeys
  <2> QED
    BY <2>1 DEF NL, NUL, Field, Tokens
<1>3. IsNL(NL) /\ ~ IsNL(NUL)
  BY <1>1 DEF IsNL
<1> QED
  BY <1>1, <1>2, <1>3

LEMMA LineType ==
  ASSUME NEW l \in Lines
  PROVE  l \in Tokens /\ ~ IsNL(l) /\ l.key \notin {"NL", "NUL"} /\ l.key \in STRING
  BY DEF Lines, Tokens, TokenKeys, TokenValues, IsNL

\* Lines with a line end behind each.
Ended(ls) == [i \in DOMAIN ls |-> <<ls[i], NL>>]

LEMMA TerminatedLines ==
  ASSUME NEW ls \in Seq(Tokens), \A i \in 1 .. Len(ls) : ~ IsNL(ls[i])
  PROVE  /\ Terminated(ls) \in Seq(Tokens)
         /\ LinesOf(Terminated(ls)) = ls
         /\ Len(ls) # 0 => /\ Len(Terminated(ls)) \in Nat \ {0}
                           /\ Terminated(ls)[1] = ls[1]
<1> DEFINE n == Len(ls)
           ee == Ended(ls)
<1>1. DOMAIN ls = 1 .. n /\ n \in Nat /\ \A i \in 1 .. n : ls[i] \in Tokens
  OBVIOUS
<1>2. NL \in Tokens
  BY LineEndType
<1>3. ASSUME NEW i \in 1 .. n
      PROVE  /\ <<ls[i], NL>> \in Seq(Tokens) /\ Len(<<ls[i], NL>>) = 2 /\ <<ls[i], NL>>[1] = ls[i]
             /\ LinesOf(<<ls[i], NL>>) = <<ls[i]>>
  <2>1. ls[i] \in Tokens /\ ~ IsNL(ls[i])
    BY <1>1
  <2> QED
    BY <1>2, <2>1, LinesEnded
<1>4. ee = [i \in 1 .. n |-> <<ls[i], NL>>]
  BY <1>1 DEF Ended
<1>5. ee \in [1 .. n -> Seq(Tokens)]
  BY <1>3, <1>4
<1>6. ee \in Seq(Seq(Tokens)) /\ DOMAIN ee = 1 .. n /\ \A i \in 1 .. n : ee[i] = <<ls[i], NL>>
  BY <1>1, <1>4, <1>5, SeqDef
<1>7. Terminated(ls) = FlattenSeq(ee)
  BY DEF Terminated, Ended
<1>8. FlattenSeq(ee) \in Seq(Tokens)
  BY <1>6, FlattenType
<1>9. LinesOf(FlattenSeq(ee)) = ls
  <2>1. LinesOf(FlattenSeq(ee)) = FlattenSeq(LinesOfEach(ee))
    BY <1>6, LinesFlatten
  <2>2. LinesOfEach(ee) = [i \in 1 .. n |-> LinesOf(ee[i])]
    BY <1>6 DEF LinesOfEach
  <2>3. LinesOfEach(ee) = [i \in 1 .. n |-> <<ls[i]>>]
    BY <1>3, <1>6, <2>2
  <2>4. [i \in DOMAIN ls |-> IF i \in 1 .. n THEN <<ls[i]>> ELSE << >>]
          = [i \in 1 .. n |-> <<ls[i]>>]
    BY <1>1
  <2>5. Selected(ls, 1 .. n) = FlattenSeq([i \in 1 .. n |-> <<ls[i]>>])
    BY <2>4 DEF Selected
  <2>6. Selected(ls, 1 .. n) = ls
    BY <1>1, SelectedAll
  <2> QED
    BY <2>1, <2>3, <2>5, <2>6
<1>10. ASSUME n # 0
       PROVE  Len(FlattenSeq(ee)) \in Nat \ {0} /\ FlattenSeq(ee)[1] = ls[1]
  <2>1. 1 \in 1 .. n
    BY <1>1, <1>10
  <2>2. ee[1] = <<ls[1], NL>>
    BY <1>6, <2>1
  <2>3. Len(<<ls[1], NL>>) = 2 /\ <<ls[1], NL>>[1] = ls[1]
    BY <1>3, <2>1
  <2>4. Len(ee) = n
    BY <1>1, <1>6
  <2> HIDE DEF ee
  <2>5. Len(ee[1]) # 0 /\ ee[1][1] = ls[1]
    BY <2>2, <2>3
  <2>6. Len(ee) # 0
    BY <1>10, <2>4
  <2>7. Len(FlattenSeq(ee)) \in Nat \ {0} /\ FlattenSeq(ee)[1] = ee[1][1]
    BY <1>6, <2>5, <2>6, FlattenHead
  <2> QED
    BY <2>5, <2>7
<1> QED
  BY <1>7, <1>8, <1>9, <1>10

Described(d) ==
  [i \in DOMAIN d |-> IF d[i] = Word("") THEN <<NL>> ELSE <<d[i], NL>>]

WrittenLines(d) == Selected(d, {i \in DOMAIN d : d[i] # Word("")})

LEMMA DescriptionLines ==
  ASSUME NEW d \in Seq(Lines)
  PROVE  /\ DescriptionText(d) \in Seq(Tokens)
         /\ LinesOf(DescriptionText(d)) = WrittenLines(d)
         /\ WrittenLines(d) \in Seq(Lines)
<1> DEFINE n == Len(d)
           dd == Described(d)
<1>1. DOMAIN d = 1 .. n /\ n \in Nat /\ \A i \in 1 .. n : d[i] \in Lines
  OBVIOUS
<1>2. NL \in Tokens
  BY LineEndType
<1>3. ASSUME NEW i \in 1 .. n
      PROVE  /\ <<d[i], NL>> \in Seq(Tokens) /\ <<NL>> \in Seq(Tokens)
             /\ LinesOf(<<d[i], NL>>) = <<d[i]>>
  <2>1. d[i] \in Lines
    BY <1>1
  <2>2. d[i] \in Tokens /\ ~ IsNL(d[i])
    BY <2>1, LineType
  <2> QED
    BY <1>2, <2>2, LinesEnded
<1>4. dd = [i \in 1 .. n |-> IF d[i] = Word("") THEN <<NL>> ELSE <<d[i], NL>>]
  BY <1>1 DEF Described
<1>5. dd \in [1 .. n -> Seq(Tokens)]
  BY <1>3, <1>4
<1>6. \A i \in 1 .. n : dd[i] = IF d[i] = Word("") THEN <<NL>> ELSE <<d[i], NL>>
  BY <1>4
<1>7. DOMAIN dd = 1 .. n
  BY <1>4
<1>8. dd \in Seq(Seq(Tokens)) /\ DOMAIN dd = 1 .. n
  <2> HIDE DEF dd
  <2> QED
    BY <1>1, <1>5, <1>7, SeqDef
<1>9. DescriptionText(d) = FlattenSeq(dd)
  BY DEF DescriptionText, Described
<1>10. FlattenSeq(dd) \in Seq(Tokens)
  BY <1>8, FlattenType
<1>11. LinesOf(FlattenSeq(dd)) = WrittenLines(d)
  <2> DEFINE I == {i \in DOMAIN d : d[i] # Word("")}
  <2>1. LinesOf(FlattenSeq(dd)) = FlattenSeq(LinesOfEach(dd))
    BY <1>8, LinesFlatten
  <2>2. LinesOfEach(dd) = [i \in 1 .. n |-> LinesOf(dd[i])]
    BY <1>8 DEF LinesOfEach
  <2>3. ASSUME NEW i \in 1 .. n PROVE LinesOf(dd[i]) = IF i \in I THEN <<d[i]>> ELSE << >>
    <3>1. LinesOf(<<NL>>) = << >>
      BY <1>2, LinesTwoEnds
    <3>2. i \in I <=> d[i] # Word("")
      BY <1>1
    <3> QED
      BY <1>3, <1>6, <3>1, <3>2
  <2> HIDE DEF I
  <2>4. LinesOfEach(dd) = [i \in 1 .. n |-> IF i \in I THEN <<d[i]>> ELSE << >>]
    BY <2>2, <2>3
  <2>5. [i \in DOMAIN d |-> IF i \in I THEN <<d[i]>> ELSE << >>]
          = [i \in 1 .. n |-> IF i \in I THEN <<d[i]>> ELSE << >>]
    BY <1>1
  <2>6. Selected(d, I) = FlattenSeq([i \in 1 .. n |-> IF i \in I THEN <<d[i]>> ELSE << >>])
    BY <2>5 DEF Selected
  <2> QED
    BY <2>1, <2>4, <2>6 DEF WrittenLines, I
<1>12. WrittenLines(d) \in Seq(Lines)
  BY SelectedType DEF WrittenLines
<1> QED
  BY <1>9, <1>10, <1>11, <1>12

\* A report that may be on its way.
Reports == [user : Clients, event : {e \in Events : Complete(e)}]

LEMMA ReportType ==
  ASSUME NEW r \in Reports
  PROVE  /\ r.user \in Clients /\ r.user \notin Void
         /\ r.event \in Events
         /\ r.event.city \in Values /\ r.event.name \in Values /\ r.event.date \in DOMAIN Time
         /\ r.event.date \notin Void
         /\ r.event.active \in Values /\ r.event.forces \in Values
         /\ r.event.description \in Seq(Lines)
         /\ r = [user |-> r.user, event |-> r.event]
<1>1. r.user \in Clients /\ r.event \in Events /\ Complete(r.event)
      /\ r = [user |-> r.user, event |-> r.event]
  BY DEF Reports
<1>2. Events \subseteq [city : Values, name : Values, date : DOMAIN Time,
                       active : Values \cup {"absent"}, forces : Values \cup {"absent"},
                       description : Seq(Lines) \ {<< >>}]
  BY EventsAssumption
<1>3. /\ r.event.city \in Values /\ r.event.name \in Values /\ r.event.date \in DOMAIN Time
      /\ r.event.active \in Values \cup {"absent"} /\ r.event.forces \in Values \cup {"absent"}
      /\ r.event.description \in Seq(Lines)
  BY <1>1, <1>2
<1>4. r.event.active # "absent" /\ r.event.forces # "absent"
  BY <1>1 DEF Complete
<1>5. r.user \notin Void /\ r.event.date \notin Void
  BY <1>1, <1>3, EventsAssumption
<1> QED
  BY <1>1, <1>3, <1>4, <1>5

\* The lines of the report above its description.
Fields(r) ==
  <<Field("user", r.user), Field("city", r.event.city), Field("event name", r.event.name),
    Field("date time", r.event.date), Field("general information", ""),
    Field("active", r.event.active), Field("forces_arrival_at_scene", r.event.forces),
    Field("description", "")>>

LEMMA FieldsType ==
  ASSUME NEW r \in Reports
  PROVE  /\ Fields(r) \in Seq(Tokens) /\ Len(Fields(r)) = 8
         /\ \A i \in 1 .. 8 : ~ IsNL(Fields(r)[i])
         /\ Fields(r)[1] = Field("user", r.user)
<1>1. /\ r.user \in TokenValues /\ r.event.city \in TokenValues /\ r.event.name \in TokenValues
      /\ r.event.date \in TokenValues /\ r.event.active \in TokenValues
      /\ r.event.forces \in TokenValues /\ "" \in TokenValues
  BY ReportType DEF TokenValues
<1> DEFINE f1 == Field("user", r.user)
           f2 == Field("city", r.event.city)
           f3 == Field("event name", r.event.name)
           f4 == Field("date time", r.event.date)
           f5 == Field("general information", "")
           f6 == Field("active", r.event.active)
           f7 == Field("forces_arrival_at_scene", r.event.forces)
           f8 == Field("description", "")
<1>2. /\ f1 \in Tokens /\ f2 \in Tokens /\ f3 \in Tokens /\ f4 \in Tokens
      /\ f5 \in Tokens /\ f6 \in Tokens /\ f7 \in Tokens /\ f8 \in Tokens
  <2>1. f1 \in Tokens /\ f2 \in Tokens
    BY <1>1 DEF Field, Tokens, TokenKeys, Keys
  <2>2. f3 \in Tokens /\ f4 \in Tokens
    BY <1>1 DEF Field, Tokens, TokenKeys, Keys
  <2>3. f5 \in Tokens /\ f6 \in Tokens
    BY <1>1 DEF Field, Tokens, TokenKeys, Keys
  <2>4. f7 \in Tokens /\ f8 \in Tokens
    BY <1>1 DEF Field, Tokens, TokenKeys, Keys
  <2> QED
    BY <2>1, <2>2, <2>3, <2>4
<1>3. /\ ~ IsNL(f1) /\ ~ IsNL(f2) /\ ~ IsNL(f3) /\ ~ IsNL(f4)
      /\ ~ IsNL(f5) /\ ~ IsNL(f6) /\ ~ IsNL(f7) /\ ~ IsNL(f8)
  BY DEF Field, IsNL
<1>4. Fields(r) = <<f1, f2, f3, f4, f5, f6, f7, f8>>
  BY DEF Fields
<1> HIDE DEF f1, f2, f3, f4, f5, f6, f7, f8
<1>5. Fields(r) \in Seq(Tokens) /\ Len(Fields(r)) = 8 /\ Fields(r)[1] = f1
  BY <1>2, <1>4
<1>6. \A i \in 1 .. 8 : ~ IsNL(Fields(r)[i])
  BY <1>3, <1>4
<1> QED
  BY <1>5, <1>6 DEF f1

\* What every reader is sent: the body ends with a line end.
SentBody(r) == Append(ReportBody(r.user, r.event), NL)

LEMMA SentBodyLines ==
  ASSUME NEW r \in Reports
  PROVE  /\ ReportBody(r.user, r.event) \in Seq(Tokens) /\ ReportBody(r.user, r.event) # << >>
         /\ SentBody(r) \in Seq(Tokens)
         /\ Len(SentBody(r)) \in Nat \ {0} /\ SentBody(r)[1] = Field("user", r.user)
         /\ Written(r.event) \in Seq(Lines)
         /\ LinesOf(SentBody(r)) = Fields(r) \o Written(r.event)
<1> DEFINE d == r.event.description
           a == Terminated(Fields(r))
           b == DescriptionText(d)
           body == ReportBody(r.user, r.event)
<1>1. /\ Fields(r) \in Seq(Tokens) /\ Len(Fields(r)) = 8 /\ Fields(r)[1] = Field("user", r.user)
      /\ \A i \in 1 .. Len(Fields(r)) : ~ IsNL(Fields(r)[i])
  BY FieldsType
<1>2. a \in Seq(Tokens) /\ LinesOf(a) = Fields(r) /\ Len(a) \in Nat \ {0}
      /\ a[1] = Field("user", r.user)
  BY <1>1, TerminatedLines
<1>3. d \in Seq(Lines)
  BY ReportType
<1>4. WrittenLines(d) = Written(r.event)
  BY DEF WrittenLines, Written
<1>5. b \in Seq(Tokens) /\ LinesOf(b) = Written(r.event) /\ Written(r.event) \in Seq(Lines)
  BY <1>3, <1>4, DescriptionLines
<1>6. body = a \o b
  BY DEF ReportBody, Fields
<1>7. NL \in Tokens /\ <<NL>> \in Seq(Tokens)
  BY LineEndType
<1> HIDE DEF a, b, body
<1>8. /\ body \in Seq(Tokens) /\ Len(body) = Len(a) + Len(b) /\ Len(b) \in Nat
      /\ \A i \in 1 .. Len(a) : body[i] = a[i]
  BY <1>2, <1>5, <1>6, ConcatParts
<1>9. body[1] = Field("user", r.user) /\ Len(body) \in Nat \ {0}
  <2>1. 1 \in 1 .. Len(a)
    BY <1>2
  <2> QED
    BY <1>2, <1>8, <2>1
<1>10. LinesOf(body) = Fields(r) \o Written(r.event)
  BY <1>2, <1>5, <1>6, LinesConcat
<1>11. SentBody(r) = Append(body, NL)
  BY DEF SentBody, body
<1> DEFINE p == Append(body, NL)
<1>12. p \in Seq(Tokens) /\ Len(p) = Len(body) + 1
  BY <1>7, <1>8, AppendProperties
<1>13. p[1] = body[1]
  <2>1. \A i \in 1 .. Len(body) : p[i] = body[i]
    BY <1>7, <1>8, AppendProperties
  <2>2. 1 \in 1 .. Len(body)
    BY <1>9
  <2> QED
    BY <2>1, <2>2
<1>14. p = body \o <<NL>>
  BY <1>7, <1>8, AppendIsConcat
<1>15. LinesOf(p) = LinesOf(body)
  <2>1. LinesOf(body \o <<NL>>) = LinesOf(body) \o LinesOf(<<NL>>)
    BY <1>7, <1>8, LinesConcat
  <2>2. LinesOf(<<NL>>) = << >>
    BY <1>7, LinesTwoEnds
  <2>3. LinesOf(body) \in Seq(Tokens)
    BY <1>8, LinesType
  <2>4. LinesOf(body) \o << >> = LinesOf(body)
    BY <2>3, ConcatEmptySeq
  <2> HIDE DEF p
  <2> QED
    BY <1>14, <2>1, <2>2, <2>4
<1> HIDE DEF p
<1>16. body # << >>
  BY <1>9
<1> QED
  BY <1>5, <1>8, <1>9, <1>10, <1>11, <1>12, <1>13, <1>15, <1>16 DEF body, p

-----------------------------------------------------------------------------
(***************************************************************************)
(* What stands where in a frame.                                           *)
(***************************************************************************)
LEMMA PairFront ==
  ASSUME NEW E, NEW a \in E, NEW b \in E, NEW t \in Seq(E)
  PROVE  /\ <<a, b>> \o t \in Seq(E) /\ Len(<<a, b>> \o t) = 2 + Len(t)
         /\ (<<a, b>> \o t)[1] = a /\ (<<a, b>> \o t)[2] = b
         /\ \A i \in 1 .. Len(t) : (<<a, b>> \o t)[2 + i] = t[i]
<1> DEFINE p == <<a, b>>
<1>1. p \in Seq(E) /\ Len(p) = 2 /\ p[1] = a /\ p[2] = b
  OBVIOUS
<1> HIDE DEF p
<1>2. p \in Seq(E)
  BY <1>1
<1>3. p \o t \in Seq(E) /\ Len(p \o t) = 2 + Len(t)
  <2>1. p \o t \in Seq(E) /\ Len(p \o t) = Len(p) + Len(t)
    BY <1>2, ConcatParts
  <2> QED
    BY <1>1, <2>1
<1>4. \A i \in 1 .. Len(p) : (p \o t)[i] = p[i]
  BY <1>2, ConcatParts
<1>5. \A i \in 1 .. Len(t) : (p \o t)[Len(p) + i] = t[i]
  BY <1>2, ConcatParts
<1>6. (p \o t)[1] = a /\ (p \o t)[2] = b
  <2>1. 1 \in 1 .. Len(p) /\ 2 \in 1 .. Len(p)
    BY <1>1
  <2> QED
    BY <1>1, <1>4, <2>1
<1>7. \A i \in 1 .. Len(t) : (p \o t)[2 + i] = t[i]
  BY <1>1, <1>5
<1> QED
  BY <1>3, <1>6, <1>7 DEF p

LEMMA TripleFront ==
  ASSUME NEW E, NEW a \in E, NEW b \in E, NEW c \in E, NEW t \in Seq(E)
  PROVE  /\ <<a, b, c>> \o t \in Seq(E) /\ Len(<<a, b, c>> \o t) = 3 + Len(t)
         /\ (<<a, b, c>> \o t)[1] = a /\ (<<a, b, c>> \o t)[2] = b
         /\ (<<a, b, c>> \o t)[3] = c
         /\ \A i \in 1 .. Len(t) : (<<a, b, c>> \o t)[3 + i] = t[i]
<1> DEFINE p == <<a, b, c>>
<1>1. p \in Seq(E) /\ Len(p) = 3 /\ p[1] = a /\ p[2] = b /\ p[3] = c
  OBVIOUS
<1> HIDE DEF p
<1>2. p \in Seq(E)
  BY <1>1
<1>3. p \o t \in Seq(E) /\ Len(p \o t) = 3 + Len(t)
  <2>1. p \o t \in Seq(E) /\ Len(p \o t) = Len(p) + Len(t)
    BY <1>2, ConcatParts
  <2> QED
    BY <1>1, <2>1
<1>4. \A i \in 1 .. Len(p) : (p \o t)[i] = p[i]
  BY <1>2, ConcatParts
<1>5. \A i \in 1 .. Len(t) : (p \o t)[Len(p) + i] = t[i]
  BY <1>2, ConcatParts
<1>6. (p \o t)[1] = a /\ (p \o t)[2] = b /\ (p \o t)[3] = c
  <2>1. 1 \in 1 .. Len(p) /\ 2 \in 1 .. Len(p) /\ 3 \in 1 .. Len(p)
    BY <1>1
  <2> QED
    BY <1>1, <1>4, <2>1
<1>7. \A i \in 1 .. Len(t) : (p \o t)[3 + i] = t[i]
  BY <1>1, <1>5
<1> QED
  BY <1>3, <1>6, <1>7 DEF p

LEMMA MinIs ==
  ASSUME NEW I \in SUBSET Int, NEW m \in I, \A i \in I : m <= i
  PROVE  Min(I) = m
<1>1. Min(I) \in I /\ \A y \in I : Min(I) <= y
  BY DEF Min
<1>2. m \in Int /\ Min(I) \in Int
  BY <1>1
<1> QED
  BY <1>1, <1>2

LEMMA MaxIs ==
  ASSUME NEW I \in SUBSET Int, NEW m \in I, \A i \in I : i <= m
  PROVE  Max(I) = m
<1>1. Max(I) \in I /\ \A y \in I : y <= Max(I)
  BY DEF Max
<1>2. m \in Int /\ Max(I) \in Int
  BY <1>1
<1> QED
  BY <1>1, <1>2

\* The body starts behind the first empty line.
LEMMA BodyIs ==
  ASSUME NEW E, NEW p \in Seq(E), NEW n \in Nat, NEW t \in Seq(E),
         n >= 4, Len(t) # 0, Len(p) = (n - 1) + Len(t),
         \A i \in 1 .. Len(t) : p[(n - 1) + i] = t[i],
         IsNL(p[n - 2]), IsNL(p[n - 1]),
         \A i \in 2 .. n - 3 : IsNL(p[i]) => ~ IsNL(p[i + 1])
  PROVE  BodyIndex(p) = n /\ Body(p) = t
<1> DEFINE ends == {i \in 2 .. Len(p) - 2 : EmptyLineAt(p, i)}
<1>1. Len(p) \in Nat /\ Len(t) \in Nat \ {0} /\ DOMAIN p = 1 .. Len(p)
  OBVIOUS
<1>2. ASSUME NEW i \in 1 .. Len(p) - 1
      PROVE  EmptyLineAt(p, i) <=> IsNL(p[i]) /\ IsNL(p[i + 1])
  <2>1. i + 1 \in DOMAIN p
    BY <1>1
  <2> QED
    BY <2>1 DEF EmptyLineAt
<1>3. n - 2 \in ends
  <2>1. n - 2 \in 2 .. Len(p) - 2 /\ n - 2 \in 1 .. Len(p) - 1 /\ (n - 2) + 1 = n - 1
    BY <1>1
  <2> QED
    BY <1>2, <2>1
<1>4. ASSUME NEW i \in ends PROVE n - 2 <= i
  <2>1. i \in 2 .. Len(p) - 2 /\ EmptyLineAt(p, i)
    OBVIOUS
  <2>2. i \in 1 .. Len(p) - 1
    BY <1>1, <2>1
  <2>3. IsNL(p[i]) /\ IsNL(p[i + 1])
    BY <1>2, <2>1, <2>2
  <2>4. i \notin 2 .. n - 3
    BY <2>3
  <2> QED
    BY <1>1, <2>1, <2>4
<1>5. ends \in SUBSET Int
  BY <1>1
<1> DEFINE sub == SubSeq(p, n, Len(p))
<1>6. BodyIndex(p) = IF ends = {} THEN 0 ELSE Min(ends) + 2
  BY DEF BodyIndex
<1> HIDE DEF ends
<1>7. Min(ends) = n - 2
  BY <1>1, <1>3, <1>4, <1>5, MinIs
<1>8. BodyIndex(p) = n
  BY <1>3, <1>6, <1>7
<1>9. Body(p) = sub
  BY <1>8 DEF Body
<1>10. sub = t
  <2>1. sub = [i \in 1 .. Len(t) |-> p[n + i - 1]]
    BY <1>1
  <2>2. ASSUME NEW i \in 1 .. Len(t) PROVE p[n + i - 1] = t[i]
    <3>1. n + i - 1 = (n - 1) + i
      BY <1>1
    <3> QED
      BY <3>1
  <2>3. [i \in 1 .. Len(t) |-> p[n + i - 1]] = [i \in 1 .. Len(t) |-> t[i]]
    BY <2>2
  <2>4. t = [i \in 1 .. Len(t) |-> t[i]]
    OBVIOUS
  <2> HIDE DEF sub
  <2> QED
    BY <2>1, <2>3, <2>4
<1> QED
  BY <1>8, <1>9, <1>10

LEMMA TerminatedOne ==
  ASSUME NEW E, NL \in E, NEW a \in E
  PROVE  Terminated(<<a>>) = <<a, NL>>
<1>1. [i \in DOMAIN <<a>> |-> << <<a>>[i], NL>>] = << <<a, NL>> >>
  OBVIOUS
<1>2. <<a, NL>> \in Seq(E)
  OBVIOUS
<1> QED
  BY <1>1, <1>2, FlattenOne DEF Terminated

LEMMA TerminatedConcat ==
  ASSUME NEW E, NL \in E, NEW ls \in Seq(E), NEW ms \in Seq(E)
  PROVE  Terminated(ls \o ms) = Terminated(ls) \o Terminated(ms)
<1> DEFINE t == ls \o ms
           Y == Seq(E)
           f == Ended(t)
           g == Ended(ls)
           h == Ended(ms)
<1>1. /\ t \in Seq(E) /\ Len(ls) \in Nat /\ Len(ms) \in Nat /\ Len(t) = Len(ls) + Len(ms)
      /\ DOMAIN t = 1 .. Len(ls) + Len(ms) /\ DOMAIN ls = 1 .. Len(ls) /\ DOMAIN ms = 1 .. Len(ms)
  BY ConcatParts
<1>2. \A i \in 1 .. Len(ls) : t[i] = ls[i]
  BY ConcatParts
<1>3. \A i \in 1 .. Len(ms) : t[Len(ls) + i] = ms[i]
  BY ConcatParts
<1> HIDE DEF t
<1>4. \A s \in Seq(E) :
        /\ Ended(s) \in Seq(Y) /\ Len(Ended(s)) = Len(s)
        /\ \A i \in 1 .. Len(s) : Ended(s)[i] = <<s[i], NL>>
  <2> SUFFICES ASSUME NEW s \in Seq(E)
               PROVE  /\ Ended(s) \in Seq(Y) /\ Len(Ended(s)) = Len(s)
                      /\ \A i \in 1 .. Len(s) : Ended(s)[i] = <<s[i], NL>>
    OBVIOUS
  <2>1. Ended(s) = [i \in 1 .. Len(s) |-> <<s[i], NL>>] /\ Len(s) \in Nat
    BY DEF Ended
  <2>2. \A i \in 1 .. Len(s) : <<s[i], NL>> \in Y
    OBVIOUS
  <2> HIDE DEF Y
  <2>3. [i \in 1 .. Len(s) |-> <<s[i], NL>>] \in [1 .. Len(s) -> Y]
    BY <2>2
  <2>4. Ended(s) \in [1 .. Len(s) -> Y] /\ Len(s) \in Nat
    BY <2>1, <2>3
  <2>5. Ended(s) \in Seq(Y)
    BY <2>4, SeqDef
  <2>6. DOMAIN Ended(s) = 1 .. Len(s)
    BY <2>1
  <2>7. Len(Ended(s)) = Len(s)
    BY <2>1, <2>5, <2>6
  <2> QED
    BY <2>1, <2>5, <2>7
<1>5. f \in Seq(Y) /\ Len(f) = Len(t) /\ \A i \in 1 .. Len(t) : f[i] = <<t[i], NL>>
  BY <1>1, <1>4
<1>6. g \in Seq(Y) /\ Len(g) = Len(ls) /\ \A i \in 1 .. Len(ls) : g[i] = <<ls[i], NL>>
  BY <1>4
<1>7. h \in Seq(Y) /\ Len(h) = Len(ms) /\ \A i \in 1 .. Len(ms) : h[i] = <<ms[i], NL>>
  BY <1>4
<1> HIDE DEF f, g, h, Y
<1>8. ASSUME NEW i \in 1 .. Len(g) PROVE f[i] = g[i]
  <2>1. i \in 1 .. Len(ls) /\ i \in 1 .. Len(t)
    BY <1>1, <1>6
  <2> QED
    BY <1>2, <1>5, <1>6, <2>1
<1>9. ASSUME NEW i \in 1 .. Len(h) PROVE f[Len(g) + i] = h[i]
  <2>1. i \in 1 .. Len(ms) /\ Len(ls) + i \in 1 .. Len(t)
    BY <1>1, <1>7
  <2> QED
    BY <1>3, <1>5, <1>6, <1>7, <2>1
<1>10. Len(f) = Len(g) + Len(h)
  BY <1>1, <1>5, <1>6, <1>7
<1>11. f = g \o h
  BY <1>5, <1>6, <1>7, <1>8, <1>9, <1>10, TwoParts
<1>12. FlattenSeq(g \o h) = FlattenSeq(g) \o FlattenSeq(h)
  BY <1>6, <1>7, FlattenConcat DEF Y
<1>13. Terminated(t) = FlattenSeq(f) /\ Terminated(ls) = FlattenSeq(g)
       /\ Terminated(ms) = FlattenSeq(h)
  BY DEF Terminated, Ended, f, g, h
<1> QED
  BY <1>11, <1>12, <1>13 DEF t

\* The text the client writes for its one header line.
LEMMA TerminatedTwo ==
  ASSUME NEW E, NL \in E, NEW a \in E, NEW b \in E
  PROVE  Terminated(<<a>> \o <<b>>) = <<a, NL>> \o <<b, NL>>
<1>1. <<a>> \in Seq(E) /\ <<b>> \in Seq(E)
  OBVIOUS
<1>2. Terminated(<<a>> \o <<b>>) = Terminated(<<a>>) \o Terminated(<<b>>)
  BY <1>1, TerminatedConcat
<1> QED
  BY <1>2, TerminatedOne

\* The line ends behind the last header line.
LEMMA MoreEnds ==
  ASSUME NEW E, NL \in E, NEW a \in E
  PROVE  /\ <<a, NL>> \o <<NL>> = <<a, NL, NL>>
         /\ <<a, NL>> \o <<NL, NL>> = <<a, NL, NL, NL>>
<1> DEFINE p == <<a, NL>>
           q == <<a, NL, NL>>
           e == <<NL>>
<1>1. p \in Seq(E) /\ q \in Seq(E) /\ e \in Seq(E)
  OBVIOUS
<1>2. <<NL, NL>> = e \o e
  BY PairSplit
<1>3. Append(p, NL) = q /\ Append(q, NL) = <<a, NL, NL, NL>>
  BY ThirdElement, FourthElement
<1> HIDE DEF p, q
<1>4. Append(p, NL) = p \o <<NL>> /\ Append(q, NL) = q \o <<NL>>
  BY <1>1, AppendIsConcat
<1>5. (p \o e) \o e = p \o (e \o e)
  <2> HIDE DEF e
  <2> QED
    BY <1>1, ConcatAssociative
<1> QED
  BY <1>2, <1>3, <1>4, <1>5 DEF p, q

\* The frame of the report command.
SendText(r) ==
  ClientFrame("SEND", <<Field("destination", Channel)>>, ReportBody(r.user, r.event))

DestinationLine == Field("destination", Channel)

LEMMA DestinationType ==
  /\ DestinationLine \in Tokens /\ ~ IsNL(DestinationLine)
  /\ DestinationLine.key = "destination" /\ DestinationLine.value = Channel
  /\ Word("SEND") \in Tokens /\ ~ IsNL(Word("SEND"))
<1>1. Channel \in TokenValues /\ "SEND" \in TokenValues
  BY DEF TokenValues
<1>2. DestinationLine.key = "destination" /\ DestinationLine.value = Channel
      /\ Word("SEND").key = ""
  BY DEF DestinationLine, Field, Word
<1>3. DestinationLine \in Tokens /\ Word("SEND") \in Tokens
  BY <1>1 DEF DestinationLine, Field, Word, Tokens, TokenKeys
<1> QED
  BY <1>2, <1>3 DEF IsNL

LEMMA SendLayout ==
  ASSUME NEW r \in Reports
  PROVE  SendText(r) = <<Word("SEND"), NL>> \o (<<DestinationLine, NL, NL, NL>> \o SentBody(r))
<1> DEFINE s == Word("SEND")
           d == DestinationLine
           b == SentBody(r)
           w == <<s, NL>>
           x == <<d, NL>>
           y == <<NL, NL>>
<1>1. s \in Tokens /\ d \in Tokens /\ NL \in Tokens /\ b \in Seq(Tokens)
  BY DestinationType, LineEndType, SentBodyLines
<1>2. ReportBody(r.user, r.event) # << >>
  BY SentBodyLines
<1>3. SendText(r) = Terminated(<<s>> \o <<d>>) \o y \o b
  BY <1>2 DEF SendText, ClientFrame, SentBody, DestinationLine
<1> HIDE DEF s, d, b
<1>4. Terminated(<<s>> \o <<d>>) = w \o x
  BY <1>1, TerminatedTwo
<1>5. w \in Seq(Tokens) /\ x \in Seq(Tokens) /\ y \in Seq(Tokens)
  BY <1>1
<1>6. x \o y = <<d, NL, NL, NL>>
  BY <1>1, MoreEnds
<1>7. SendText(r) = (w \o x) \o y \o b
  BY <1>3, <1>4
<1> HIDE DEF w, x, y
<1>8. x \o y \in Seq(Tokens) /\ w \o x \in Seq(Tokens)
  BY <1>5, ConcatProperties
<1>9. (w \o x) \o y = w \o (x \o y)
  BY <1>5, ConcatAssociative
<1>10. (w \o (x \o y)) \o b = w \o ((x \o y) \o b)
  <2> DEFINE z == x \o y
  <2>1. z \in Seq(Tokens)
    BY <1>8
  <2> HIDE DEF z
  <2>2. (w \o z) \o b = w \o (z \o b)
    BY <1>1, <1>5, <2>1, ConcatAssociative
  <2> QED
    BY <2>2 DEF z
<1> QED
  BY <1>6, <1>9, <1>10, <1>7 DEF w, s, d, b

\* What the server reads of it.
ReadBody(r) == Split(SentBody(r))

LEMMA ReadBodyLines ==
  ASSUME NEW r \in Reports
  PROVE  /\ ReadBody(r) \in Seq(Tokens) /\ Len(ReadBody(r)) \in Nat \ {0}
         /\ ReadBody(r)[1] = Field("user", r.user)
         /\ LinesOf(ReadBody(r)) = Fields(r) \o Written(r.event)
<1> DEFINE b == SentBody(r)
<1>1. b \in Seq(Tokens) /\ Len(b) \in Nat \ {0} /\ b[1] = Field("user", r.user)
      /\ LinesOf(b) = Fields(r) \o Written(r.event)
  BY SentBodyLines
<1>2. ~ IsNL(b[1]) /\ NL \in Tokens
  <2>1. Field("user", r.user).key = "user"
    BY DEF Field
  <2> QED
    BY <1>1, <2>1, LineEndType DEF IsNL
<1> HIDE DEF b
<1>3. Split(b) \in Seq(Tokens)
  BY <1>1, <1>2, PartsType
<1>4. Len(Split(b)) \in Nat \ {0} /\ Split(b)[1] = b[1]
  BY <1>1, <1>2, SplitHead
<1>5. LinesOf(Split(b)) = LinesOf(b)
  BY <1>1, <1>2, LinesSplit
<1> QED
  BY <1>1, <1>3, <1>4, <1>5 DEF ReadBody, b

LEMMA SendSplit ==
  ASSUME NEW r \in Reports
  PROVE  /\ Split(SendText(r))
              = <<Word("SEND"), NL>> \o (<<DestinationLine, NL, NL>> \o ReadBody(r))
         /\ SendText(r) \in Seq(Tokens)
<1> DEFINE s == Word("SEND")
           d == DestinationLine
           b == SentBody(r)
           w == <<s, NL>>
           x == <<d, NL, NL, NL>>
           t == x \o b
<1>1. s \in Tokens /\ d \in Tokens /\ NL \in Tokens /\ b \in Seq(Tokens) /\ Len(b) \in Nat \ {0}
      /\ ~ IsNL(s) /\ ~ IsNL(d)
  BY DestinationType, LineEndType, SentBodyLines
<1>2. ~ IsNL(b[1])
  <2>1. Field("user", r.user).key = "user"
    BY DEF Field
  <2> QED
    BY <2>1, SentBodyLines DEF IsNL
<1>3. SendText(r) = w \o t
  BY SendLayout
<1>4. Split(w) = w /\ Split(x) = <<d, NL, NL>>
  BY <1>1, SplitEnded
<1>5. Split(b) = ReadBody(r)
  BY DEF ReadBody
<1> HIDE DEF s, d, b
<1>6. w \in Seq(Tokens) /\ x \in Seq(Tokens) /\ Len(x) = 4 /\ x[1] = d
  BY <1>1
<1> HIDE DEF w, x
<1>7. Split(x \o b) = Split(x) \o Split(b)
  BY <1>1, <1>2, <1>6, SplitConcat
<1>8. x \in Seq(Tokens) /\ b \in Seq(Tokens)
  BY <1>1, <1>6
<1>9. t \in Seq(Tokens) /\ Len(t) = Len(x) + Len(b) /\ \A i \in 1 .. Len(x) : t[i] = x[i]
  BY <1>8, ConcatParts
<1>10. Len(t) # 0 /\ ~ IsNL(t[1])
  <2>1. 1 \in 1 .. Len(x)
    BY <1>6
  <2>2. t[1] = d
    BY <1>6, <1>9, <2>1
  <2>3. Len(t) = 4 + Len(b)
    BY <1>6, <1>9
  <2> HIDE DEF t
  <2> QED
    BY <1>1, <2>2, <2>3
<1>11. Split(w \o t) = Split(w) \o Split(t)
  <2> HIDE DEF t
  <2> QED
    BY <1>1, <1>6, <1>9, <1>10, SplitConcat
<1>12. w \o t \in Seq(Tokens)
  BY <1>6, <1>9, ConcatProperties
<1> QED
  BY <1>3, <1>4, <1>5, <1>7, <1>11, <1>12 DEF w, s, d

\* The server can read what the client reports.
LEMMA SendRead ==
  ASSUME NEW r \in Reports
  PROVE  /\ ~ ServerParseThrows(Split(SendText(r)))
         /\ Body(Split(SendText(r))) = ReadBody(r)
         /\ HeaderPut(Split(SendText(r)), "destination") = Channel
<1> DEFINE s == Word("SEND")
           d == DestinationLine
           t == ReadBody(r)
           q == <<d, NL, NL>> \o t
           p == <<s, NL>> \o q
<1>1. /\ s \in Tokens /\ d \in Tokens /\ NL \in Tokens /\ t \in Seq(Tokens)
      /\ Len(t) \in Nat \ {0} /\ ~ IsNL(s) /\ ~ IsNL(d) /\ IsNL(NL)
      /\ d.key = "destination" /\ d.value = Channel /\ NL.key = "NL"
  BY DestinationType, LineEndType, ReadBodyLines
<1>2. Split(SendText(r)) = p
  BY SendSplit
<1> HIDE DEF s, d, t
<1>3. /\ q \in Seq(Tokens) /\ Len(q) = 3 + Len(t) /\ q[1] = d /\ q[2] = NL /\ q[3] = NL
      /\ \A i \in 1 .. Len(t) : q[3 + i] = t[i]
  BY <1>1, TripleFront
<1> HIDE DEF q
<1>4. /\ p \in Seq(Tokens) /\ Len(p) = 2 + Len(q) /\ p[1] = s /\ p[2] = NL
      /\ \A i \in 1 .. Len(q) : p[2 + i] = q[i]
  BY <1>1, <1>3, PairFront
<1> HIDE DEF p
<1>5. p[3] = d /\ p[4] = NL /\ p[5] = NL /\ Len(p) = 5 + Len(t)
  <2>1. 1 \in 1 .. Len(q) /\ 2 \in 1 .. Len(q) /\ 3 \in 1 .. Len(q)
    BY <1>1, <1>3
  <2>2. p[2 + 1] = q[1] /\ p[2 + 2] = q[2] /\ p[2 + 3] = q[3]
    BY <1>4, <2>1
  <2> QED
    BY <1>1, <1>3, <1>4, <2>2
<1>6. ASSUME NEW i \in 1 .. Len(t) PROVE p[5 + i] = t[i]
  <2>1. 3 + i \in 1 .. Len(q) /\ 5 + i = 2 + (3 + i)
    BY <1>1, <1>3
  <2> QED
    BY <1>3, <1>4, <2>1
<1>7. BodyIndex(p) = 6 /\ Body(p) = t
  <2> DEFINE n == 6
  <2>1. Len(t) # 0 /\ Len(p) = (n - 1) + Len(t) /\ n \in Nat /\ n >= 4
    BY <1>1, <1>5
  <2>2. \A i \in 1 .. Len(t) : p[(n - 1) + i] = t[i]
    BY <1>6
  <2>3. IsNL(p[n - 2]) /\ IsNL(p[n - 1])
    BY <1>1, <1>5
  <2>4. \A i \in 2 .. n - 3 : IsNL(p[i]) => ~ IsNL(p[i + 1])
    BY <1>1, <1>4, <1>5
  <2>5. p \in Seq(Tokens) /\ t \in Seq(Tokens)
    BY <1>1, <1>4
  <2> HIDE DEF n
  <2>6. BodyIndex(p) = n /\ Body(p) = t
    BY <2>1, <2>2, <2>3, <2>4, <2>5, BodyIs
  <2> QED
    BY <2>6 DEF n
<1>8. HeaderAt(p) = {3}
  <2>1. HeaderAt(p) = {i \in 2 .. 3 : p[i].key \notin {"NL", "NUL"}}
    BY <1>7 DEF HeaderAt
  <2>2. p[2].key = "NL" /\ p[3].key = "destination"
    BY <1>1, <1>4, <1>5
  <2> QED
    BY <2>1, <2>2
<1>9. ~ ServerParseThrows(p)
  BY <1>1, <1>5, <1>8 DEF ServerParseThrows
<1>10. HeaderPut(p, "destination") = Channel
  <2>1. {i \in HeaderAt(p) : p[i].key = "destination"} = {3}
    BY <1>1, <1>5, <1>8
  <2>2. Max({3}) = 3
    BY MaxIs
  <2> QED
    BY <1>1, <1>5, <2>1, <2>2 DEF HeaderPut
<1> QED
  BY <1>2, <1>7, <1>9, <1>10 DEF t

\* The frame the server passes the report on with.
MessageText(r) ==
  ServerFrame("MESSAGE",
              <<Field("message-id", "0"), Field("subscription", "0"), Field("destination", Channel)>>,
              ReadBody(r))

MessageIdLine == Field("message-id", "0")

SubscriptionLine == Field("subscription", "0")

LEMMA HeaderTypes ==
  /\ MessageIdLine \in Tokens /\ ~ IsNL(MessageIdLine) /\ MessageIdLine.key = "message-id"
  /\ SubscriptionLine \in Tokens /\ ~ IsNL(SubscriptionLine)
  /\ SubscriptionLine.key = "subscription"
  /\ Word("MESSAGE") \in Tokens /\ ~ IsNL(Word("MESSAGE")) /\ Word("MESSAGE").key = ""
<1>1. "0" \in TokenValues /\ "MESSAGE" \in TokenValues
  BY DEF TokenValues
<1>2. /\ MessageIdLine.key = "message-id" /\ SubscriptionLine.key = "subscription"
      /\ Word("MESSAGE").key = ""
  BY DEF MessageIdLine, SubscriptionLine, Field, Word
<1>3. MessageIdLine \in Tokens /\ SubscriptionLine \in Tokens /\ Word("MESSAGE") \in Tokens
  BY <1>1 DEF MessageIdLine, SubscriptionLine, Field, Word, Tokens, TokenKeys
<1> QED
  BY <1>2, <1>3 DEF IsNL

\* What follows its headers.
MessageRest(r) == Append(ReadBody(r), NL) \o <<NUL>>

LEMMA RestLines ==
  ASSUME NEW r \in Reports
  PROVE  /\ MessageRest(r) \in Seq(Tokens) /\ Len(MessageRest(r)) \in Nat \ {0}
         /\ MessageRest(r)[1] = Field("user", r.user)
         /\ LinesOf(MessageRest(r)) = Fields(r) \o Written(r.event) \o <<NUL>>
<1> DEFINE t == ReadBody(r)
           p == Append(t, NL)
           z == <<NUL>>
           q == p \o z
<1>1. t \in Seq(Tokens) /\ Len(t) \in Nat \ {0} /\ t[1] = Field("user", r.user)
      /\ LinesOf(t) = Fields(r) \o Written(r.event)
  BY ReadBodyLines
<1>2. NL \in Tokens /\ NUL \in Tokens /\ ~ IsNL(NUL) /\ z \in Seq(Tokens) /\ Len(z) = 1
      /\ <<NL>> \in Seq(Tokens)
  BY LineEndType
<1>3. t \in Seq(Tokens)
  BY <1>1
<1> HIDE DEF t, z
<1>4. p \in Seq(Tokens) /\ Len(p) = Len(t) + 1
  BY <1>2, <1>3, AppendProperties
<1>5. \A i \in 1 .. Len(t) : p[i] = t[i]
  BY <1>2, <1>3, AppendProperties
<1>6. p = t \o <<NL>>
  BY <1>2, <1>3, AppendIsConcat
<1>7. LinesOf(t \o <<NL>>) = LinesOf(t) \o LinesOf(<<NL>>)
  BY <1>2, <1>3, LinesConcat
<1>8. LinesOf(<<NL>>) = << >>
  BY <1>2, LinesTwoEnds
<1>9. LinesOf(t) \in Seq(Tokens)
  BY <1>3, LinesType
<1>10. LinesOf(t) \o << >> = LinesOf(t)
  BY <1>9, ConcatEmptySeq
<1> HIDE DEF p
<1>11. LinesOf(p) = LinesOf(t)
  BY <1>6, <1>7, <1>8, <1>10
<1>12. LinesOf(p \o z) = LinesOf(p) \o LinesOf(z)
  BY <1>2, <1>4, LinesConcat
<1>13. LinesOf(z) = z
  BY <1>2, LinesOne DEF z
<1>14. p \in Seq(Tokens) /\ z \in Seq(Tokens)
  BY <1>2, <1>4
<1>15. q \in Seq(Tokens) /\ Len(q) = Len(p) + Len(z)
  BY <1>14, ConcatParts
<1>16. \A i \in 1 .. Len(p) : q[i] = p[i]
  BY <1>14, ConcatParts
<1>17. q[1] = Field("user", r.user)
  <2>1. 1 \in 1 .. Len(p) /\ 1 \in 1 .. Len(t)
    BY <1>1, <1>4
  <2> HIDE DEF q
  <2> QED
    BY <1>1, <1>5, <1>16, <2>1
<1>18. Len(q) \in Nat \ {0}
  <2> HIDE DEF q
  <2> QED
    BY <1>1, <1>2, <1>4, <1>15
<1>19. MessageRest(r) = q
  BY DEF MessageRest, q, p, t, z
<1>A. LinesOf(q) = Fields(r) \o Written(r.event) \o <<NUL>>
  BY <1>1, <1>11, <1>12, <1>13 DEF z
<1> QED
  BY <1>15, <1>17, <1>18, <1>19, <1>A

\* Few facts are given to each step: with more, the provers lose their way.
LEMMA MessageLayout ==
  ASSUME NEW r \in Reports
  PROVE  MessageText(r)
           = <<Word("MESSAGE"), NL>> \o (<<MessageIdLine, NL>> \o (<<SubscriptionLine, NL>>
               \o (<<DestinationLine, NL, NL>> \o MessageRest(r))))
<1> DEFINE m == Word("MESSAGE")
           i1 == MessageIdLine
           i2 == SubscriptionLine
           d == DestinationLine
           u == <<m, NL>>
           v == <<i1, NL>>
           w == <<i2, NL>>
           x == <<d, NL>>
           y == <<NL>>
           b == Append(ReadBody(r), NL)
           z == <<NUL>>
<1>1. m \in Tokens /\ i1 \in Tokens /\ i2 \in Tokens /\ d \in Tokens /\ NL \in Tokens
      /\ NUL \in Tokens
  BY HeaderTypes, DestinationType, LineEndType
<1>2. ReadBody(r) \in Seq(Tokens) /\ ReadBody(r) # << >>
  <2>1. ReadBody(r) \in Seq(Tokens) /\ Len(ReadBody(r)) # 0
    BY ReadBodyLines
  <2> QED
    BY <2>1
<1>3. MessageText(r) = Terminated(<<m>> \o <<i1, i2, d>>) \o y \o b \o z
  BY <1>2 DEF MessageText, ServerFrame, MessageIdLine, SubscriptionLine, DestinationLine
<1>4. b \in Seq(Tokens)
  BY <1>1, <1>2, AppendProperties
<1>5. MessageRest(r) = b \o z
  BY DEF MessageRest
<1> HIDE DEF m, i1, i2, d, b
<1>6. Terminated(<<m>> \o <<i1, i2, d>>) = u \o (v \o (w \o x))
  <2> DEFINE three == <<i1, i2, d>>
             two == <<i2, d>>
  <2>1. <<m>> \in Seq(Tokens) /\ three \in Seq(Tokens)
    BY <1>1
  <2>2. <<i1>> \in Seq(Tokens) /\ two \in Seq(Tokens)
    BY <1>1
  <2>3. <<i2>> \in Seq(Tokens) /\ <<d>> \in Seq(Tokens)
    BY <1>1
  <2>4. two = <<i2>> \o <<d>> /\ three = <<i1>> \o two
    BY <1>1, PairSplit, TripleSplit
  <2> HIDE DEF two, three
  <2>5. NL \in Tokens
    BY <1>1
  <2>6. Terminated(<<m>> \o three) = Terminated(<<m>>) \o Terminated(three)
    BY <2>1, <2>5, TerminatedConcat
  <2>7. Terminated(<<i1>> \o two) = Terminated(<<i1>>) \o Terminated(two)
    BY <2>2, <2>5, TerminatedConcat
  <2>8. Terminated(<<i2>> \o <<d>>) = Terminated(<<i2>>) \o Terminated(<<d>>)
    BY <2>3, <2>5, TerminatedConcat
  <2>9. Terminated(<<m>>) = u /\ Terminated(<<i1>>) = v
    BY <1>1, TerminatedOne
  <2>10. Terminated(<<i2>>) = w /\ Terminated(<<d>>) = x
    BY <1>1, TerminatedOne
  <2> HIDE DEF u, v, w, x
  <2> QED
    BY <2>4, <2>6, <2>7, <2>8, <2>9, <2>10 DEF three
<1>7. /\ u \in Seq(Tokens) /\ v \in Seq(Tokens) /\ w \in Seq(Tokens) /\ x \in Seq(Tokens)
      /\ y \in Seq(Tokens) /\ z \in Seq(Tokens)
  BY <1>1
<1>8. x \o y = <<d, NL, NL>>
  BY <1>1, MoreEnds
<1>9. MessageText(r) = (u \o (v \o (w \o x))) \o y \o b \o z
  BY <1>3, <1>6
<1> HIDE DEF u, v, w, x, y, z
<1>10. (u \o (v \o (w \o x))) \o y \o b \o z
         = u \o (v \o (w \o ((x \o y) \o (b \o z))))
  <2> DEFINE wx == w \o x
             vwx == v \o wx
             front == u \o vwx
             xy == x \o y
             rest == b \o z
             xyr == xy \o rest
             wxy == w \o xy
             vwxy == v \o wxy
             fronty == u \o vwxy
  <2>1. w \in Seq(Tokens) /\ x \in Seq(Tokens) /\ y \in Seq(Tokens)
    BY <1>4, <1>7
  <2>2. b \in Seq(Tokens) /\ z \in Seq(Tokens)
    BY <1>4, <1>7
  <2>3. u \in Seq(Tokens)
    BY <1>4, <1>7
  <2>4. v \in Seq(Tokens)
    BY <1>4, <1>7
  <2>5. y \in Seq(Tokens) /\ w \in Seq(Tokens)
    BY <2>1
  <2>6. wx \in Seq(Tokens) /\ xy \in Seq(Tokens)
    BY <2>1, ConcatProperties
  <2>7. rest \in Seq(Tokens)
    BY <2>2, ConcatProperties
  <2>8. wx \o y = w \o xy
    BY <2>1, ConcatAssociative
  <2> HIDE DEF wx, xy
  <2>9. wxy \in Seq(Tokens)
    BY <2>5, <2>6, ConcatProperties
  <2>10. vwx \in Seq(Tokens)
    BY <2>4, <2>6, ConcatProperties
  <2>11. vwx \o y = v \o (wx \o y)
    <3>1. y \in Seq(Tokens)
      BY <2>5
    <3>2. wx \in Seq(Tokens)
      BY <2>6
    <3> HIDE DEF vwx
    <3>3. (v \o wx) \o y = v \o (wx \o y)
      BY <2>4, <3>1, <3>2, ConcatAssociative
    <3> QED
      BY <3>3 DEF vwx
  <2>12. (fronty \o b) \o z = fronty \o rest
    <3>1. vwxy \in Seq(Tokens)
      BY <2>4, <2>9, ConcatProperties
    <3> HIDE DEF vwxy
    <3>2. fronty \in Seq(Tokens)
      BY <2>3, <3>1, ConcatProperties
    <3> HIDE DEF fronty
    <3> QED
      BY <2>2, <3>2, ConcatAssociative
  <2> HIDE DEF rest
  <2>13. wxy \o rest = w \o xyr
    BY <2>5, <2>6, <2>7, ConcatAssociative
  <2> HIDE DEF vwx, wxy, xyr
  <2>14. vwx \o y = vwxy
    BY <2>8, <2>11 DEF wxy
  <2>15. vwxy \in Seq(Tokens)
    BY <2>4, <2>9, ConcatProperties
  <2>16. front \o y = u \o (vwx \o y)
    BY <2>3, <2>5, <2>10, ConcatAssociative
  <2>17. vwxy \o rest = v \o (wxy \o rest)
    BY <2>4, <2>7, <2>9, ConcatAssociative
  <2> HIDE DEF vwxy
  <2>18. fronty \o rest = u \o (vwxy \o rest)
    BY <2>3, <2>7, <2>15, ConcatAssociative
  <2>19. front \o y = fronty
    BY <2>14, <2>16
  <2> HIDE DEF front, fronty
  <2>20. front \o y \o b \o z = u \o (v \o (w \o xyr))
    BY <2>12, <2>13, <2>17, <2>18, <2>19
  <2> QED
    BY <2>20 DEF front, vwx, wx, xyr, xy, rest
<1> QED
  BY <1>5, <1>8, <1>9, <1>10 DEF u, v, w, m, i1, i2, d

\* A line in front of a text that starts with one.
LEMMA SplitPair ==
  ASSUME NEW E, NL \in E, NEW a \in E, ~ IsNL(a), NEW t \in Seq(E), Len(t) # 0, ~ IsNL(t[1])
  PROVE  /\ <<a, NL>> \o t \in Seq(E) /\ Len(<<a, NL>> \o t) # 0 /\ ~ IsNL((<<a, NL>> \o t)[1])
         /\ Split(<<a, NL>> \o t) = <<a, NL>> \o Split(t)
         /\ LinesOf(<<a, NL>> \o t) = <<a>> \o LinesOf(t)
<1> DEFINE p == <<a, NL>>
<1>1. p \in Seq(E)
  OBVIOUS
<1>2. p \o t \in Seq(E) /\ Len(p \o t) = 2 + Len(t) /\ (p \o t)[1] = a
  BY PairFront
<1>3. Split(p) = p
  BY SplitEnded
<1>4. LinesOf(p) = <<a>>
  BY LinesEnded
<1> HIDE DEF p
<1>5. Split(p \o t) = Split(p) \o Split(t)
  BY <1>1, SplitConcat
<1>6. LinesOf(p \o t) = LinesOf(p) \o LinesOf(t)
  BY <1>1, LinesConcat
<1>7. Len(t) \in Nat
  OBVIOUS
<1>8. Len(p \o t) # 0
  BY <1>2, <1>7
<1> QED
  BY <1>2, <1>3, <1>4, <1>5, <1>6, <1>8 DEF p

\* What the client reads of it.
MessageParts(r) == Split(MessageRest(r))

LEMMA MessageSplit ==
  ASSUME NEW r \in Reports
  PROVE  /\ Split(MessageText(r))
              = <<Word("MESSAGE"), NL>> \o (<<MessageIdLine, NL>> \o (<<SubscriptionLine, NL>>
                  \o (<<DestinationLine, NL, NL>> \o MessageParts(r))))
         /\ MessageText(r) \in Seq(Tokens)
         /\ LinesOf(MessageText(r))
              = <<Word("MESSAGE")>> \o (<<MessageIdLine>> \o (<<SubscriptionLine>>
                  \o (<<DestinationLine>> \o LinesOf(MessageRest(r)))))
<1> DEFINE m == Word("MESSAGE")
           i1 == MessageIdLine
           i2 == SubscriptionLine
           d == DestinationLine
           h == MessageRest(r)
           x == <<d, NL, NL>>
           t1 == x \o h
           t2 == <<i2, NL>> \o t1
           t3 == <<i1, NL>> \o t2
           t4 == <<m, NL>> \o t3
<1>1. /\ m \in Tokens /\ i1 \in Tokens /\ i2 \in Tokens /\ d \in Tokens /\ NL \in Tokens
      /\ ~ IsNL(m) /\ ~ IsNL(i1) /\ ~ IsNL(i2) /\ ~ IsNL(d)
  BY HeaderTypes, DestinationType, LineEndType
<1>2. h \in Seq(Tokens) /\ Len(h) \in Nat \ {0} /\ ~ IsNL(h[1])
  <2>1. Field("user", r.user).key = "user"
    BY DEF Field
  <2> QED
    BY <2>1, RestLines DEF IsNL
<1>3. MessageText(r) = t4
  BY MessageLayout
<1>4. Split(h) = MessageParts(r)
  BY DEF MessageParts
<1> HIDE DEF m, i1, i2, d, h
<1>5. t1 \in Seq(Tokens) /\ Len(t1) = 3 + Len(h) /\ t1[1] = d
  BY <1>1, <1>2, TripleFront
<1>6. Split(t1) = <<d, NL, NL>> \o Split(h) /\ LinesOf(t1) = <<d>> \o LinesOf(h)
  <2>1. x \in Seq(Tokens)
    BY <1>1
  <2>2. Split(x) = x
    BY <1>1, SplitEnded
  <2>3. LinesOf(x) = <<d>>
    <3>1. <<d, NL>> \in Seq(Tokens) /\ <<NL>> \in Seq(Tokens) /\ <<d>> \in Seq(Tokens)
      BY <1>1
    <3>2. x = <<d, NL>> \o <<NL>>
      BY <1>1, MoreEnds
    <3>3. LinesOf(<<d, NL>>) = <<d>> /\ LinesOf(<<NL>>) = << >>
      BY <1>1, LinesEnded, LinesTwoEnds
    <3> DEFINE e == <<d, NL>>
               f == <<NL>>
    <3> HIDE DEF e, f, x
    <3>4. LinesOf(e \o f) = LinesOf(e) \o LinesOf(f)
      BY <3>1, LinesConcat DEF e, f
    <3>5. <<d>> \o << >> = <<d>>
      BY <3>1, ConcatEmptySeq
    <3> QED
      BY <3>2, <3>3, <3>4, <3>5 DEF e, f
  <2> HIDE DEF x
  <2>4. Split(x \o h) = Split(x) \o Split(h)
    BY <1>1, <1>2, <2>1, SplitConcat
  <2>5. LinesOf(x \o h) = LinesOf(x) \o LinesOf(h)
    BY <1>2, <2>1, LinesConcat
  <2> QED
    BY <2>2, <2>3, <2>4, <2>5 DEF x
<1>7. Len(t1) # 0 /\ ~ IsNL(t1[1])
  <2> HIDE DEF t1
  <2> QED
    BY <1>1, <1>2, <1>5
<1> HIDE DEF t1
<1>8. /\ t2 \in Seq(Tokens) /\ Len(t2) # 0 /\ ~ IsNL(t2[1])
      /\ Split(t2) = <<i2, NL>> \o Split(t1) /\ LinesOf(t2) = <<i2>> \o LinesOf(t1)
  BY <1>1, <1>5, <1>7, SplitPair
<1> HIDE DEF t2
<1>9. /\ t3 \in Seq(Tokens) /\ Len(t3) # 0 /\ ~ IsNL(t3[1])
      /\ Split(t3) = <<i1, NL>> \o Split(t2) /\ LinesOf(t3) = <<i1>> \o LinesOf(t2)
  BY <1>1, <1>8, SplitPair
<1> HIDE DEF t3
<1>10. /\ t4 \in Seq(Tokens)
       /\ Split(t4) = <<m, NL>> \o Split(t3) /\ LinesOf(t4) = <<m>> \o LinesOf(t3)
  BY <1>1, <1>9, SplitPair
<1> HIDE DEF t4
<1> QED
  BY <1>3, <1>4, <1>6, <1>8, <1>9, <1>10 DEF m, i1, i2, d, h

\* The lines a reader sees of a report.
ReadLines(r) == Fields(r) \o Written(r.event) \o <<NUL>>

LEMMA PartsLines ==
  ASSUME NEW r \in Reports
  PROVE  /\ MessageParts(r) \in Seq(Tokens) /\ Len(MessageParts(r)) \in Nat \ {0}
         /\ MessageParts(r)[1] = Field("user", r.user)
         /\ LinesOf(MessageParts(r)) = ReadLines(r)
<1> DEFINE b == MessageRest(r)
<1>1. b \in Seq(Tokens) /\ Len(b) \in Nat \ {0} /\ b[1] = Field("user", r.user)
      /\ LinesOf(b) = ReadLines(r)
  BY RestLines DEF ReadLines
<1>2. ~ IsNL(b[1]) /\ NL \in Tokens
  <2>1. Field("user", r.user).key = "user"
    BY DEF Field
  <2> QED
    BY <1>1, <2>1, LineEndType DEF IsNL
<1> HIDE DEF b
<1>3. Split(b) \in Seq(Tokens)
  BY <1>1, <1>2, PartsType
<1>4. Len(Split(b)) \in Nat \ {0} /\ Split(b)[1] = b[1]
  BY <1>1, <1>2, SplitHead
<1>5. LinesOf(Split(b)) = LinesOf(b)
  BY <1>1, <1>2, LinesSplit
<1> QED
  BY <1>1, <1>3, <1>4, <1>5 DEF MessageParts, b

\* Every subscriber can read what the server passes on.
LEMMA MessageRead ==
  ASSUME NEW r \in Reports
  PROVE  /\ ~ ClientParseThrows(Split(MessageText(r)))
         /\ Body(Split(MessageText(r))) = MessageParts(r)
<1> DEFINE m == Word("MESSAGE")
           i1 == MessageIdLine
           i2 == SubscriptionLine
           d == DestinationLine
           t == MessageParts(r)
           p1 == <<d, NL, NL>> \o t
           p2 == <<i2, NL>> \o p1
           p3 == <<i1, NL>> \o p2
           p == <<m, NL>> \o p3
<1>1. /\ m \in Tokens /\ i1 \in Tokens /\ i2 \in Tokens /\ d \in Tokens /\ NL \in Tokens
      /\ ~ IsNL(m) /\ ~ IsNL(i1) /\ ~ IsNL(i2) /\ ~ IsNL(d) /\ IsNL(NL)
  BY HeaderTypes, DestinationType, LineEndType
<1>2. t \in Seq(Tokens) /\ Len(t) \in Nat \ {0}
  BY PartsLines
<1>3. Split(MessageText(r)) = p
  BY MessageSplit
<1> HIDE DEF m, i1, i2, d, t
<1>4. /\ p1 \in Seq(Tokens) /\ Len(p1) = 3 + Len(t) /\ p1[1] = d /\ p1[2] = NL /\ p1[3] = NL
      /\ \A i \in 1 .. Len(t) : p1[3 + i] = t[i]
  BY <1>1, <1>2, TripleFront
<1> HIDE DEF p1
<1>5. /\ p2 \in Seq(Tokens) /\ Len(p2) = 2 + Len(p1) /\ p2[1] = i2 /\ p2[2] = NL
      /\ \A i \in 1 .. Len(p1) : p2[2 + i] = p1[i]
  BY <1>1, <1>4, PairFront
<1> HIDE DEF p2
<1>6. /\ p3 \in Seq(Tokens) /\ Len(p3) = 2 + Len(p2) /\ p3[1] = i1 /\ p3[2] = NL
      /\ \A i \in 1 .. Len(p2) : p3[2 + i] = p2[i]
  BY <1>1, <1>5, PairFront
<1> HIDE DEF p3
<1>7. /\ p \in Seq(Tokens) /\ Len(p) = 2 + Len(p3) /\ p[1] = m /\ p[2] = NL
      /\ \A i \in 1 .. Len(p3) : p[2 + i] = p3[i]
  BY <1>1, <1>6, PairFront
<1> HIDE DEF p
<1>8. /\ Len(p1) = 3 + Len(t) /\ Len(p2) = 5 + Len(t) /\ Len(p3) = 7 + Len(t)
      /\ Len(p) = 9 + Len(t) /\ Len(t) \in Nat \ {0}
  BY <1>2, <1>4, <1>5, <1>6, <1>7
<1>9. ASSUME NEW i \in 1 .. Len(p1) PROVE p[6 + i] = p1[i]
  <2>1. i \in 1 .. Len(p1) /\ 2 + i \in 1 .. Len(p2) /\ 2 + (2 + i) \in 1 .. Len(p3)
        /\ 2 + (2 + (2 + i)) = 6 + i
    BY <1>8
  <2>2. p2[2 + i] = p1[i]
    BY <1>5
  <2>3. p3[2 + (2 + i)] = p2[2 + i]
    BY <1>6, <2>1
  <2>4. p[2 + (2 + (2 + i))] = p3[2 + (2 + i)]
    BY <1>7, <2>1
  <2> QED
    BY <2>1, <2>2, <2>3, <2>4
<1>10. p[3] = i1 /\ p[4] = NL /\ p[5] = i2 /\ p[6] = NL
  <2>1. 1 \in 1 .. Len(p3) /\ 2 \in 1 .. Len(p3) /\ 3 \in 1 .. Len(p3) /\ 4 \in 1 .. Len(p3)
        /\ 1 \in 1 .. Len(p2) /\ 2 \in 1 .. Len(p2)
    BY <1>8
  <2>2. p[2 + 1] = p3[1] /\ p[2 + 2] = p3[2] /\ p[2 + 3] = p3[3] /\ p[2 + 4] = p3[4]
    BY <1>7, <2>1
  <2>3. p3[2 + 1] = p2[1] /\ p3[2 + 2] = p2[2]
    BY <1>6, <2>1
  <2> QED
    BY <1>5, <1>6, <2>2, <2>3
<1>11. p[7] = d /\ p[8] = NL /\ p[9] = NL
  <2>1. 1 \in 1 .. Len(p1) /\ 2 \in 1 .. Len(p1) /\ 3 \in 1 .. Len(p1)
    BY <1>8
  <2>2. p[6 + 1] = p1[1] /\ p[6 + 2] = p1[2] /\ p[6 + 3] = p1[3]
    BY <1>9, <2>1
  <2> QED
    BY <1>4, <2>2
<1>12. ASSUME NEW i \in 1 .. Len(t) PROVE p[9 + i] = t[i]
  <2>1. 3 + i \in 1 .. Len(p1) /\ 6 + (3 + i) = 9 + i
    BY <1>8
  <2>2. p[6 + (3 + i)] = p1[3 + i]
    BY <1>9, <2>1
  <2> QED
    BY <1>4, <2>1, <2>2
<1>13. BodyIndex(p) = 10 /\ Body(p) = t
  <2> DEFINE n == 10
  <2>1. Len(t) # 0 /\ Len(p) = (n - 1) + Len(t) /\ n \in Nat /\ n >= 4
    BY <1>8
  <2>2. \A i \in 1 .. Len(t) : p[(n - 1) + i] = t[i]
    BY <1>12
  <2>3. IsNL(p[n - 2]) /\ IsNL(p[n - 1])
    BY <1>1, <1>11
  <2>4. ASSUME NEW i \in 2 .. n - 3, IsNL(p[i]) PROVE ~ IsNL(p[i + 1])
    <3>1. i = 2 \/ i = 3 \/ i = 4 \/ i = 5 \/ i = 6 \/ i = 7
      OBVIOUS
    <3>2. i # 3 /\ i # 5 /\ i # 7
      BY <1>1, <1>10, <1>11, <2>4
    <3>3. i + 1 = 3 \/ i + 1 = 5 \/ i + 1 = 7
      BY <3>1, <3>2
    <3> QED
      BY <1>1, <1>10, <1>11, <3>3
  <2>5. p \in Seq(Tokens) /\ t \in Seq(Tokens)
    BY <1>2, <1>7
  <2> HIDE DEF n
  <2>6. BodyIndex(p) = n /\ Body(p) = t
    BY <2>1, <2>2, <2>3, <2>4, <2>5, BodyIs
  <2> QED
    BY <2>6 DEF n
<1>14. ~ ClientParseThrows(p)
  BY <1>13 DEF ClientParseThrows
<1> QED
  BY <1>3, <1>13, <1>14 DEF t

-----------------------------------------------------------------------------
(***************************************************************************)
(* What a reader takes from the lines.                                     *)
(***************************************************************************)
LEMMA Greatest ==
  ASSUME NEW n \in Nat, NEW I, I \subseteq 1 .. n, I # {}
  PROVE  \E m \in I : \A i \in I : i <= m
<1> DEFINE T == {n - i : i \in I}
<1>1. T \subseteq Nat /\ T # {}
  <2>1. ASSUME NEW i \in I PROVE n - i \in Nat
    <3>1. i \in 1 .. n
      OBVIOUS
    <3> QED
      BY <3>1
  <2>2. \E i \in I : n - i \in T
    OBVIOUS
  <2> QED
    BY <2>1, <2>2
<1> HIDE DEF T
<1>2. PICK x \in T : \A y \in T : x <= y
  BY <1>1, LeastNatural
<1>3. PICK m \in I : x = n - m
  BY <1>2 DEF T
<1>4. ASSUME NEW i \in I PROVE i <= m
  <2>1. n - i \in T
    BY DEF T
  <2>2. n - m <= n - i
    BY <1>2, <1>3, <2>1
  <2>3. m \in 1 .. n /\ i \in 1 .. n
    OBVIOUS
  <2> QED
    BY <2>2, <2>3
<1> QED
  BY <1>3, <1>4

\* Some line has the key.
Named(s, k) == \E i \in 1 .. Len(s) : s[i].key = k

LEMMA LastValueIs ==
  ASSUME NEW E, NEW s \in Seq(E), NEW k, NEW m \in 1 .. Len(s), s[m].key = k,
         \A i \in 1 .. Len(s) : i > m => s[i].key # k
  PROVE  LastValue(s, k) = s[m].value
<1> DEFINE at == {i \in DOMAIN s : s[i].key = k}
<1>1. DOMAIN s = 1 .. Len(s) /\ Len(s) \in Nat
  OBVIOUS
<1>2. m \in at /\ at \in SUBSET Int
  BY <1>1
<1>3. \A i \in at : i <= m
  BY <1>1
<1>4. LastValue(s, k) = IF at = {} THEN "" ELSE s[Max(at)].value
  BY DEF LastValue
<1> HIDE DEF at
<1>5. Max(at) = m
  BY <1>2, <1>3, MaxIs
<1> QED
  BY <1>2, <1>4, <1>5

LEMMA LastValueNone ==
  ASSUME NEW E, NEW s \in Seq(E), NEW k, ~ Named(s, k)
  PROVE  LastValue(s, k) = ""
<1>1. {i \in DOMAIN s : s[i].key = k} = {}
  BY DEF Named
<1> QED
  BY <1>1 DEF LastValue

\* Where the last line with the key is.
LEMMA LastNamed ==
  ASSUME NEW E, NEW s \in Seq(E), NEW k, Named(s, k)
  PROVE  \E m \in 1 .. Len(s) : s[m].key = k /\ \A i \in 1 .. Len(s) : i > m => s[i].key # k
<1> DEFINE I == {i \in 1 .. Len(s) : s[i].key = k}
<1>1. I \subseteq 1 .. Len(s) /\ I # {} /\ Len(s) \in Nat
  BY DEF Named
<1>2. PICK m \in I : \A i \in I : i <= m
  <2> HIDE DEF I
  <2> QED
    BY <1>1, Greatest
<1>3. ASSUME NEW i \in 1 .. Len(s), i > m PROVE s[i].key # k
  <2>1. CASE i \in I
    BY <1>1, <1>2, <1>3, <2>1
  <2>2. CASE i \notin I
    BY <2>2
  <2> QED
    BY <2>1, <2>2
<1>4. m \in 1 .. Len(s) /\ s[m].key = k
  OBVIOUS
<1> QED
  BY <1>3, <1>4

LEMMA NamedConcat ==
  ASSUME NEW E, NEW s \in Seq(E), NEW t \in Seq(E), NEW k
  PROVE  Named(s \o t, k) <=> Named(s, k) \/ Named(t, k)
<1> DEFINE st == s \o t
<1>1. st \in Seq(E) /\ Len(s) \in Nat /\ Len(t) \in Nat /\ Len(st) = Len(s) + Len(t)
  BY ConcatParts
<1>2. \A i \in 1 .. Len(s) : st[i] = s[i]
  BY ConcatParts
<1>3. \A i \in 1 .. Len(t) : st[Len(s) + i] = t[i]
  BY ConcatParts
<1> HIDE DEF st
<1>4. ASSUME Named(st, k) PROVE Named(s, k) \/ Named(t, k)
  <2>1. PICK i \in 1 .. Len(st) : st[i].key = k
    BY <1>4 DEF Named
  <2>2. CASE i <= Len(s)
    <3>1. i \in 1 .. Len(s)
      BY <1>1, <2>2
    <3>2. s[i].key = k
      BY <1>2, <2>1, <3>1
    <3> QED
      BY <3>1, <3>2 DEF Named
  <2>3. CASE ~ (i <= Len(s))
    <3> DEFINE j == i - Len(s)
    <3>1. j \in 1 .. Len(t) /\ Len(s) + j = i
      BY <1>1, <2>3
    <3> HIDE DEF j
    <3>2. t[j].key = k
      BY <1>3, <2>1, <3>1
    <3> QED
      BY <3>1, <3>2 DEF Named
  <2> QED
    BY <2>2, <2>3
<1>5. ASSUME Named(s, k) PROVE Named(st, k)
  <2>1. PICK i \in 1 .. Len(s) : s[i].key = k
    BY <1>5 DEF Named
  <2>2. i \in 1 .. Len(st) /\ st[i].key = k
    BY <1>1, <1>2, <2>1
  <2> QED
    BY <2>2 DEF Named
<1>6. ASSUME Named(t, k) PROVE Named(st, k)
  <2>1. PICK i \in 1 .. Len(t) : t[i].key = k
    BY <1>6 DEF Named
  <2>2. Len(s) + i \in 1 .. Len(st) /\ st[Len(s) + i].key = k
    BY <1>1, <1>3, <2>1
  <2> QED
    BY <2>2 DEF Named
<1> QED
  BY <1>4, <1>5, <1>6 DEF st

\* The last line with the key is in the part behind, if one is there.
LEMMA LastValueConcat ==
  ASSUME NEW E, NEW s \in Seq(E), NEW t \in Seq(E), NEW k
  PROVE  LastValue(s \o t, k) = IF Named(t, k) THEN LastValue(t, k) ELSE LastValue(s, k)
<1> DEFINE st == s \o t
<1>1. st \in Seq(E) /\ Len(s) \in Nat /\ Len(t) \in Nat /\ Len(st) = Len(s) + Len(t)
  BY ConcatParts
<1>2. \A i \in 1 .. Len(s) : st[i] = s[i]
  BY ConcatParts
<1>3. \A i \in 1 .. Len(t) : st[Len(s) + i] = t[i]
  BY ConcatParts
<1>4. Named(st, k) <=> Named(s, k) \/ Named(t, k)
  BY NamedConcat
<1> HIDE DEF st
<1>5. ASSUME NEW i \in 1 .. Len(st), ~ (i <= Len(s))
      PROVE  i - Len(s) \in 1 .. Len(t) /\ st[i] = t[i - Len(s)]
  <2> DEFINE j == i - Len(s)
  <2>1. j \in 1 .. Len(t) /\ Len(s) + j = i
    BY <1>1, <1>5
  <2> HIDE DEF j
  <2>2. st[i] = t[j]
    BY <1>3, <2>1
  <2> QED
    BY <2>1, <2>2 DEF j
<1>6. CASE Named(t, k)
  <2>1. PICK m \in 1 .. Len(t) : t[m].key = k /\ \A i \in 1 .. Len(t) : i > m => t[i].key # k
    BY <1>6, LastNamed
  <2>2. LastValue(t, k) = t[m].value
    BY <2>1, LastValueIs
  <2> DEFINE n == Len(s) + m
  <2>3. n \in 1 .. Len(st) /\ st[n] = t[m]
    BY <1>1, <1>3
  <2>4. ASSUME NEW i \in 1 .. Len(st), i > n PROVE st[i].key # k
    <3>1. ~ (i <= Len(s)) /\ i - Len(s) > m
      BY <1>1, <2>4
    <3>2. i - Len(s) \in 1 .. Len(t) /\ st[i] = t[i - Len(s)]
      BY <1>5, <3>1
    <3> QED
      BY <2>1, <3>1, <3>2
  <2> HIDE DEF n
  <2>5. st[n].key = k
    BY <2>1, <2>3
  <2>6. LastValue(st, k) = st[n].value
    BY <1>1, <2>3, <2>4, <2>5, LastValueIs
  <2> QED
    BY <1>6, <2>2, <2>3, <2>6 DEF st
<1>7. CASE ~ Named(t, k) /\ Named(s, k)
  <2>1. PICK m \in 1 .. Len(s) : s[m].key = k /\ \A i \in 1 .. Len(s) : i > m => s[i].key # k
    BY <1>7, LastNamed
  <2>2. LastValue(s, k) = s[m].value
    BY <2>1, LastValueIs
  <2>3. m \in 1 .. Len(st) /\ st[m] = s[m] /\ st[m].key = k
    BY <1>1, <1>2, <2>1
  <2>4. ASSUME NEW i \in 1 .. Len(st), i > m PROVE st[i].key # k
    <3>1. CASE i <= Len(s)
      <4>1. i \in 1 .. Len(s)
        BY <1>1, <3>1
      <4> QED
        BY <1>2, <2>1, <2>4, <4>1
    <3>2. CASE ~ (i <= Len(s))
      BY <1>7, <1>5, <3>2 DEF Named
    <3> QED
      BY <3>1, <3>2
  <2>5. LastValue(st, k) = st[m].value
    BY <1>1, <2>3, <2>4, LastValueIs
  <2> QED
    BY <1>7, <2>2, <2>3, <2>5 DEF st
<1>8. CASE ~ Named(t, k) /\ ~ Named(s, k)
  <2>1. LastValue(st, k) = "" /\ LastValue(s, k) = ""
    BY <1>1, <1>4, <1>8, LastValueNone
  <2> QED
    BY <1>8, <2>1 DEF st
<1> QED
  BY <1>6, <1>7, <1>8

LEMMA NamedOne ==
  ASSUME NEW a, NEW k
  PROVE  Named(<<a>>, k) <=> a.key = k
  BY DEF Named

LEMMA LastValueOne ==
  ASSUME NEW E, NEW a \in E
  PROVE  LastValue(<<a>>, a.key) = a.value
<1>1. <<a>> \in Seq(E) /\ Len(<<a>>) = 1 /\ <<a>>[1] = a
  OBVIOUS
<1> DEFINE s == <<a>>
<1> HIDE DEF s
<1>2. s \in Seq(E) /\ 1 \in 1 .. Len(s) /\ s[1].key = a.key
      /\ \A i \in 1 .. Len(s) : i > 1 => s[i].key # a.key
  BY <1>1 DEF s
<1>3. LastValue(s, a.key) = s[1].value
  BY <1>2, LastValueIs
<1> QED
  BY <1>1, <1>3 DEF s

LEMMA WrittenType ==
  ASSUME NEW r \in Reports
  PROVE  /\ Written(r.event) \in Seq(Lines) /\ Written(r.event) \in Seq(Tokens)
         /\ \A i \in 1 .. Len(Written(r.event)) : Written(r.event)[i] \in Lines
<1> DEFINE w == Written(r.event)
<1>1. w \in Seq(Lines)
  BY SentBodyLines
<1> HIDE DEF w
<1>2. \A i \in 1 .. Len(w) : w[i] \in Lines
  BY <1>1
<1>3. \A i \in 1 .. Len(w) : w[i] \in Tokens
  BY <1>2, LineType
<1>4. Len(w) \in Nat /\ DOMAIN w = 1 .. Len(w) /\ w = [i \in 1 .. Len(w) |-> w[i]]
  BY <1>1
<1>5. w \in [1 .. Len(w) -> Tokens]
  BY <1>3, <1>4
<1>6. w \in Seq(Tokens)
  BY <1>4, <1>5, SeqDef
<1> QED
  BY <1>1, <1>2, <1>6 DEF w

LEMMA ToldIs ==
  ASSUME NEW r \in Reports, NEW k \in TokenKeys, NEW v \in TokenValues
  PROVE  Told(r, k, v) = IF Named(Written(r.event), k) THEN LastValue(Written(r.event), k) ELSE v
<1> DEFINE f == Field(k, v)
           w == Written(r.event)
<1>1. f \in Tokens /\ f.key = k /\ f.value = v
  BY TokenType
<1>2. w \in Seq(Tokens)
  BY WrittenType
<1>3. Told(r, k, v) = LastValue(<<f>> \o w, k)
  BY DEF Told
<1> HIDE DEF f, w
<1>4. <<f>> \in Seq(Tokens)
  BY <1>1
<1>5. LastValue(<<f>>, k) = v
  BY <1>1, LastValueOne
<1> DEFINE e == <<f>>
<1> HIDE DEF e
<1>6. LastValue(e \o w, k) = IF Named(w, k) THEN LastValue(w, k) ELSE LastValue(e, k)
  BY <1>2, <1>4, LastValueConcat DEF e
<1> QED
  BY <1>3, <1>5, <1>6 DEF e, w

\* The fields of a report, by their keys.
LEMMA FieldValues ==
  ASSUME NEW r \in Reports
  PROVE  /\ LastValue(Fields(r), "user") = r.user
         /\ LastValue(Fields(r), "city") = r.event.city
         /\ LastValue(Fields(r), "event name") = r.event.name
         /\ LastValue(Fields(r), "date time") = r.event.date
         /\ LastValue(Fields(r), "active") = r.event.active
         /\ LastValue(Fields(r), "forces_arrival_at_scene") = r.event.forces
         /\ ~ Named(Fields(r), "destination")
<1> DEFINE f == Fields(r)
<1>1. f \in Seq(Tokens) /\ Len(f) = 8
  BY FieldsType
<1>2. /\ f[1].key = "user" /\ f[2].key = "city" /\ f[3].key = "event name"
      /\ f[4].key = "date time" /\ f[5].key = "general information" /\ f[6].key = "active"
      /\ f[7].key = "forces_arrival_at_scene" /\ f[8].key = "description"
  BY DEF Fields, Field
<1>3. /\ f[1].value = r.user /\ f[2].value = r.event.city /\ f[3].value = r.event.name
      /\ f[4].value = r.event.date /\ f[6].value = r.event.active
      /\ f[7].value = r.event.forces
  BY DEF Fields, Field
<1> HIDE DEF f
<1>4. ASSUME NEW m \in 1 .. 8, NEW k, f[m].key = k, \A i \in 1 .. 8 : i > m => f[i].key # k
      PROVE  LastValue(f, k) = f[m].value
  <2>1. f \in Seq(Tokens) /\ m \in 1 .. Len(f)
        /\ \A i \in 1 .. Len(f) : i > m => f[i].key # k
    BY <1>1, <1>4
  <2> QED
    BY <1>4, <2>1, LastValueIs
<1>5. \A i \in 1 .. 8 : i = 1 \/ i = 2 \/ i = 3 \/ i = 4 \/ i = 5 \/ i = 6 \/ i = 7 \/ i = 8
  OBVIOUS
<1>6. LastValue(f, "user") = r.user
  <2>1. ASSUME NEW i \in 1 .. 8, i > 1 PROVE f[i].key # "user"
    <3>1. i = 2 \/ i = 3 \/ i = 4 \/ i = 5 \/ i = 6 \/ i = 7 \/ i = 8
      BY <1>5, <2>1
    <3> QED
      BY <1>2, <3>1
  <2>2. f[1].key = "user"
    BY <1>2
  <2>3. f[1].value = r.user
    BY <1>3
  <2>4. 1 \in 1 .. 8
    OBVIOUS
  <2>5. LastValue(f, "user") = f[1].value
    BY <1>4, <2>1, <2>2, <2>4
  <2> QED
    BY <2>5, <2>3
<1>7. LastValue(f, "city") = r.event.city
  <2>1. ASSUME NEW i \in 1 .. 8, i > 2 PROVE f[i].key # "city"
    <3>1. i = 3 \/ i = 4 \/ i = 5 \/ i = 6 \/ i = 7 \/ i = 8
      BY <1>5, <2>1
    <3> QED
      BY <1>2, <3>1
  <2>2. f[2].key = "city"
    BY <1>2
  <2>3. f[2].value = r.event.city
    BY <1>3
  <2>4. 2 \in 1 .. 8
    OBVIOUS
  <2>5. LastValue(f, "city") = f[2].value
    BY <1>4, <2>1, <2>2, <2>4
  <2> QED
    BY <2>5, <2>3
<1>8. LastValue(f, "event name") = r.event.name
  <2>1. ASSUME NEW i \in 1 .. 8, i > 3 PROVE f[i].key # "event name"
    <3>1. i = 4 \/ i = 5 \/ i = 6 \/ i = 7 \/ i = 8
      BY <1>5, <2>1
    <3> QED
      BY <1>2, <3>1
  <2>2. f[3].key = "event name"
    BY <1>2
  <2>3. f[3].value = r.event.name
    BY <1>3
  <2>4. 3 \in 1 .. 8
    OBVIOUS
  <2>5. LastValue(f, "event name") = f[3].value
    BY <1>4, <2>1, <2>2, <2>4
  <2> QED
    BY <2>5, <2>3
<1>9. LastValue(f, "date time") = r.event.date
  <2>1. ASSUME NEW i \in 1 .. 8, i > 4 PROVE f[i].key # "date time"
    <3>1. i = 5 \/ i = 6 \/ i = 7 \/ i = 8
      BY <1>5, <2>1
    <3> QED
      BY <1>2, <3>1
  <2>2. f[4].key = "date time"
    BY <1>2
  <2>3. f[4].value = r.event.date
    BY <1>3
  <2>4. 4 \in 1 .. 8
    OBVIOUS
  <2>5. LastValue(f, "date time") = f[4].value
    BY <1>4, <2>1, <2>2, <2>4
  <2> QED
    BY <2>5, <2>3
<1>10. LastValue(f, "active") = r.event.active
  <2>1. ASSUME NEW i \in 1 .. 8, i > 6 PROVE f[i].key # "active"
    <3>1. i = 7 \/ i = 8
      BY <1>5, <2>1
    <3> QED
      BY <1>2, <3>1
  <2>2. f[6].key = "active"
    BY <1>2
  <2>3. f[6].value = r.event.active
    BY <1>3
  <2>4. 6 \in 1 .. 8
    OBVIOUS
  <2>5. LastValue(f, "active") = f[6].value
    BY <1>4, <2>1, <2>2, <2>4
  <2> QED
    BY <2>5, <2>3
<1>11. LastValue(f, "forces_arrival_at_scene") = r.event.forces
  <2>1. ASSUME NEW i \in 1 .. 8, i > 7 PROVE f[i].key # "forces_arrival_at_scene"
    <3>1. i = 8
      BY <1>5, <2>1
    <3> QED
      BY <1>2, <3>1
  <2>2. f[7].key = "forces_arrival_at_scene"
    BY <1>2
  <2>3. f[7].value = r.event.forces
    BY <1>3
  <2>4. 7 \in 1 .. 8
    OBVIOUS
  <2>5. LastValue(f, "forces_arrival_at_scene") = f[7].value
    BY <1>4, <2>1, <2>2, <2>4
  <2> QED
    BY <2>5, <2>3
<1>12. ~ Named(f, "destination")
  <2>1. ASSUME NEW i \in 1 .. 8 PROVE f[i].key # "destination"
    BY <1>2, <1>5
  <2> QED
    BY <1>1, <2>1 DEF Named
<1> QED
  BY <1>6, <1>7, <1>8, <1>9, <1>10, <1>11, <1>12 DEF f

LEMMA ReadLinesType ==
  ASSUME NEW r \in Reports
  PROVE  /\ ReadLines(r) \in Seq(Tokens) /\ Fields(r) \o Written(r.event) \in Seq(Tokens)
         /\ \A k \in TokenKeys : k # "NUL" =>
              /\ LastValue(ReadLines(r), k)
                   = IF Named(Written(r.event), k) THEN LastValue(Written(r.event), k)
                     ELSE LastValue(Fields(r), k)
              /\ Named(ReadLines(r), k) <=> Named(Fields(r), k) \/ Named(Written(r.event), k)
<1> DEFINE f == Fields(r)
           w == Written(r.event)
           fw == f \o w
           z == <<NUL>>
<1>1. f \in Seq(Tokens) /\ w \in Seq(Tokens) /\ z \in Seq(Tokens)
  BY FieldsType, WrittenType, LineEndType
<1>2. ReadLines(r) = fw \o z
  BY DEF ReadLines
<1> HIDE DEF f, w
<1>3. fw \in Seq(Tokens)
  BY <1>1, ConcatProperties
<1> HIDE DEF z
<1>4. fw \o z \in Seq(Tokens)
  BY <1>1, <1>3, ConcatProperties
<1>5. ASSUME NEW k \in TokenKeys, k # "NUL"
      PROVE  /\ LastValue(fw \o z, k) = IF Named(w, k) THEN LastValue(w, k) ELSE LastValue(f, k)
             /\ Named(fw \o z, k) <=> Named(f, k) \/ Named(w, k)
  <2>1. ~ Named(z, k)
    BY <1>5, NamedOne, LineEndType DEF z
  <2>2. LastValue(fw, k) = IF Named(w, k) THEN LastValue(w, k) ELSE LastValue(f, k)
    BY <1>1, LastValueConcat
  <2>3. Named(fw, k) <=> Named(f, k) \/ Named(w, k)
    BY <1>1, NamedConcat
  <2> HIDE DEF fw
  <2>4. LastValue(fw \o z, k) = IF Named(z, k) THEN LastValue(z, k) ELSE LastValue(fw, k)
    BY <1>1, <1>3, LastValueConcat
  <2>5. Named(fw \o z, k) <=> Named(fw, k) \/ Named(z, k)
    BY <1>1, <1>3, NamedConcat
  <2> QED
    BY <2>1, <2>2, <2>3, <2>4, <2>5
<1> QED
  BY <1>2, <1>3, <1>4, <1>5 DEF f, w

\* What a reader takes for a field is what the report tells.
LEMMA ReadValues ==
  ASSUME NEW r \in Reports
  PROVE  /\ LastValue(ReadLines(r), "user") = Told(r, "user", r.user)
         /\ LastValue(ReadLines(r), "city") = Told(r, "city", r.event.city)
         /\ LastValue(ReadLines(r), "event name") = Told(r, "event name", r.event.name)
         /\ LastValue(ReadLines(r), "date time") = Told(r, "date time", r.event.date)
         /\ LastValue(ReadLines(r), "active") = Told(r, "active", r.event.active)
         /\ LastValue(ReadLines(r), "forces_arrival_at_scene")
              = Told(r, "forces_arrival_at_scene", r.event.forces)
<1>1. /\ r.user \in TokenValues /\ r.event.city \in TokenValues /\ r.event.name \in TokenValues
      /\ r.event.date \in TokenValues /\ r.event.active \in TokenValues
      /\ r.event.forces \in TokenValues
  BY ReportType DEF TokenValues
<1>2. /\ "user" \in TokenKeys /\ "city" \in TokenKeys /\ "event name" \in TokenKeys
      /\ "date time" \in TokenKeys /\ "active" \in TokenKeys
      /\ "forces_arrival_at_scene" \in TokenKeys
  BY DEF TokenKeys, Keys
<1>3. ASSUME NEW k \in TokenKeys, NEW v \in TokenValues, k # "NUL", LastValue(Fields(r), k) = v
      PROVE  LastValue(ReadLines(r), k) = Told(r, k, v)
  BY <1>3, ToldIs, ReadLinesType
<1>4. /\ LastValue(ReadLines(r), "user") = Told(r, "user", r.user)
      /\ LastValue(ReadLines(r), "city") = Told(r, "city", r.event.city)
  BY <1>1, <1>2, <1>3, FieldValues
<1>5. /\ LastValue(ReadLines(r), "event name") = Told(r, "event name", r.event.name)
      /\ LastValue(ReadLines(r), "date time") = Told(r, "date time", r.event.date)
  BY <1>1, <1>2, <1>3, FieldValues
<1>6. /\ LastValue(ReadLines(r), "active") = Told(r, "active", r.event.active)
      /\ LastValue(ReadLines(r), "forces_arrival_at_scene")
           = Told(r, "forces_arrival_at_scene", r.event.forces)
  BY <1>1, <1>2, <1>3, FieldValues
<1> QED
  BY <1>4, <1>5, <1>6

\* The channel a report is filed under.
LEMMA ReadDestination ==
  ASSUME NEW r \in Reports
  PROVE  Destination(MessageText(r)) = Told(r, "destination", Channel)
<1> DEFINE k == "destination"
           e1 == <<Word("MESSAGE")>>
           e2 == <<MessageIdLine>>
           e3 == <<SubscriptionLine>>
           e4 == <<DestinationLine>>
           x == ReadLines(r)
           x4 == e4 \o x
           x3 == e3 \o x4
           x2 == e2 \o x3
           w == Written(r.event)
<1>1. /\ e1 \in Seq(Tokens) /\ e2 \in Seq(Tokens) /\ e3 \in Seq(Tokens) /\ e4 \in Seq(Tokens)
      /\ x \in Seq(Tokens)
  <2>1. \A a \in Tokens : <<a>> \in Seq(Tokens)
    OBVIOUS
  <2>2. /\ Word("MESSAGE") \in Tokens /\ MessageIdLine \in Tokens /\ SubscriptionLine \in Tokens
        /\ DestinationLine \in Tokens
    BY HeaderTypes, DestinationType
  <2>3. x \in Seq(Tokens)
    BY ReadLinesType
  <2> HIDE DEF x
  <2> QED
    BY <2>1, <2>2, <2>3
<1>2. LastValue(e4, k) = Channel /\ Named(e4, k)
  <2>1. DestinationLine \in Tokens /\ DestinationLine.key = k /\ DestinationLine.value = Channel
    BY DestinationType
  <2>2. LastValue(<<DestinationLine>>, DestinationLine.key) = DestinationLine.value
    BY <2>1, LastValueOne
  <2> QED
    BY <2>1, <2>2, NamedOne
<1>3. Destination(MessageText(r)) = LastValue(e1 \o x2, k)
  <2>1. LinesOf(MessageRest(r)) = x
    BY RestLines DEF ReadLines
  <2>2. LinesOf(MessageText(r)) = e1 \o x2
    BY <2>1, MessageSplit
  <2> QED
    BY <2>2 DEF Destination
<1>4. k \in TokenKeys /\ Channel \in TokenValues /\ k # "NUL"
  BY DEF TokenKeys, TokenValues
<1>5. Told(r, k, Channel) = IF Named(w, k) THEN LastValue(w, k) ELSE Channel
  BY <1>4, ToldIs
<1>6. LastValue(x, k) = (IF Named(w, k) THEN LastValue(w, k) ELSE LastValue(Fields(r), k))
      /\ (Named(x, k) <=> Named(Fields(r), k) \/ Named(w, k))
  BY <1>4, ReadLinesType
<1>7. ~ Named(Fields(r), k)
  BY FieldValues
<1> HIDE DEF e1, e2, e3, e4, x, w, k
<1>8. x4 \in Seq(Tokens)
  BY <1>1, ConcatProperties
<1>9. LastValue(x4, k) = IF Named(x, k) THEN LastValue(x, k) ELSE LastValue(e4, k)
  BY <1>1, LastValueConcat
<1>10. Named(x4, k)
  BY <1>1, <1>2, NamedConcat
<1> HIDE DEF x4
<1>11. x3 \in Seq(Tokens)
  BY <1>1, <1>8, ConcatProperties
<1>12. LastValue(x3, k) = LastValue(x4, k)
  BY <1>1, <1>8, <1>10, LastValueConcat
<1>13. Named(x3, k)
  BY <1>1, <1>8, <1>10, NamedConcat
<1> HIDE DEF x3
<1>14. x2 \in Seq(Tokens)
  BY <1>1, <1>11, ConcatProperties
<1>15. LastValue(x2, k) = LastValue(x3, k)
  BY <1>1, <1>11, <1>13, LastValueConcat
<1>16. Named(x2, k)
  BY <1>1, <1>11, <1>13, NamedConcat
<1> HIDE DEF x2
<1>17. LastValue(e1 \o x2, k) = LastValue(x2, k)
  BY <1>1, <1>14, <1>16, LastValueConcat
<1>18. LastValue(x4, k) = Told(r, k, Channel)
  BY <1>2, <1>5, <1>6, <1>7, <1>9
<1> QED
  BY <1>3, <1>12, <1>15, <1>17, <1>18 DEF k

\* White space and nothing are told apart from everything else.
LEMMA TrimEmpty ==
  ASSUME NEW v
  PROVE  /\ Trim(v) = "" <=> v \in Void
         /\ v \notin Void => Trim(v) = v
         /\ Trim(v) # "blank"
         /\ Trim(v) \in DOMAIN Time <=> v \in DOMAIN Time
<1>1. (Trim(v) = "" <=> v \in Void) /\ (v \notin Void => Trim(v) = v) /\ Trim(v) # "blank"
  BY DEF Trim, Void
<1>2. "" \notin DOMAIN Time /\ "blank" \notin DOMAIN Time
  BY EventsAssumption DEF Void
<1>3. Trim(v) \in DOMAIN Time <=> v \in DOMAIN Time
  BY <1>2 DEF Trim
<1> QED
  BY <1>1, <1>3

LEMMA TrimmedIs ==
  ASSUME NEW t \in Tokens
  PROVE  /\ TrimmedLine(t) = [key |-> t.key, value |-> Trim(t.value)]
         /\ TrimmedLine(t).key = t.key /\ TrimmedLine(t).value = Trim(t.value)
<1>1. TrimmedLine(t) = [t EXCEPT !.value = Trim(t.value)]
  BY DEF TrimmedLine
<1>2. t = [key |-> t.key, value |-> t.value]
  BY DEF Tokens
<1> HIDE DEF Tokens
<1> DEFINE x == Trim(t.value)
<1> HIDE DEF x
<1>3. [t EXCEPT !.value = x] = [key |-> t.key, value |-> x]
  BY <1>2
<1>4. TrimmedLine(t) = [key |-> t.key, value |-> x]
  BY <1>1, <1>3 DEF x
<1> QED
  BY <1>4 DEF x

\* t stands in s behind n lines that are not "description:".
Behind(s, t, n) ==
  /\ Len(s) = n + Len(t)
  /\ \A i \in 1 .. Len(t) : s[n + i] = t[i]
  /\ \A i \in 1 .. n : TrimmedLine(s[i]) # Field("description", "")

\* Where the description is found does not depend on what stands in front.
LEMMA DescriptionShift ==
  ASSUME NEW E, NEW s \in Seq(E), NEW t \in Seq(E), NEW n \in Nat, Behind(s, t, n)
  PROVE  DescriptionOf(s) = DescriptionOf(t)
<1> DEFINE fs == {i \in DOMAIN s : Describes(s, i)}
           ft == {i \in DOMAIN t : Describes(t, i)}
<1>1. /\ DOMAIN s = 1 .. Len(s) /\ DOMAIN t = 1 .. Len(t) /\ Len(t) \in Nat /\ Len(s) \in Nat
  OBVIOUS
<1>2. Len(s) = n + Len(t)
  BY DEF Behind
<1>3. \A i \in 1 .. Len(t) : s[n + i] = t[i]
  BY DEF Behind
<1>4. \A i \in 1 .. n : TrimmedLine(s[i]) # Field("description", "")
  BY DEF Behind
<1>5. ASSUME NEW i \in 1 .. Len(s), i > n + 1
      PROVE  i - n \in 2 .. Len(t) /\ s[i] = t[i - n] /\ s[i - 1] = t[(i - n) - 1]
  <2> DEFINE j == i - n
  <2>1. j \in 1 .. Len(t) /\ j - 1 \in 1 .. Len(t) /\ n + j = i /\ n + (j - 1) = i - 1 /\ j >= 2
    BY <1>1, <1>5, <1>2
  <2> HIDE DEF j
  <2>2. s[i] = t[j] /\ s[i - 1] = t[j - 1]
    BY <1>3, <2>1
  <2>3. j \in 2 .. Len(t)
    BY <1>1, <2>1
  <2> QED
    BY <2>2, <2>3 DEF j
<1>6. ASSUME NEW i, i \in fs PROVE i \in 1 .. Len(s) /\ i > n + 1 /\ Describes(s, i)
  <2>1. i \in 1 .. Len(s) /\ Describes(s, i)
    BY <1>1, <1>6
  <2>2. i > 1 /\ TrimmedLine(s[i - 1]) = Field("description", "")
    BY <2>1 DEF Describes
  <2>3. i - 1 \notin 1 .. n
    BY <1>4, <2>2
  <2>4. i \in Int
    BY <2>1
  <2>5. i > 1
    BY <2>2
  <2>6. i > n + 1
    BY <2>3, <2>4, <2>5
  <2> QED
    BY <2>1, <2>6
<1>7. ASSUME NEW i, i \in fs PROVE i - n \in ft
  <2>1. i \in 1 .. Len(s) /\ Describes(s, i) /\ i > n + 1
    BY <1>6, <1>7
  <2>2. i - n \in 2 .. Len(t) /\ s[i] = t[i - n] /\ s[i - 1] = t[(i - n) - 1]
    BY <1>5, <2>1
  <2> DEFINE j == i - n
  <2>3. s[i] = t[j] /\ s[i - 1] = t[j - 1]
    BY <2>2
  <2>4. j > 1 /\ j \in 1 .. Len(t)
    BY <1>1, <2>2
  <2> HIDE DEF j
  <2>5. Describes(t, j)
    BY <2>1, <2>3, <2>4 DEF Describes
  <2>6. j \in ft
    BY <1>1, <2>4, <2>5
  <2> QED
    BY <2>6 DEF j
<1>8. ASSUME NEW j, j \in ft PROVE n + j \in fs
  <2>1. j \in 1 .. Len(t) /\ Describes(t, j)
    BY <1>1, <1>8
  <2>2. j > 1
    BY <2>1 DEF Describes
  <2> DEFINE i == n + j
  <2>3. i \in 1 .. Len(s) /\ i > n + 1 /\ i - n = j /\ i > 1
    BY <1>1, <1>2, <2>1, <2>2
  <2> HIDE DEF i
  <2>4. s[i] = t[j] /\ s[i - 1] = t[j - 1]
    BY <1>5, <2>3
  <2>5. Describes(s, i)
    BY <2>1, <2>3, <2>4 DEF Describes
  <2>6. i \in fs
    BY <1>1, <2>3, <2>5
  <2> QED
    BY <2>6 DEF i
<1>9. DescriptionOf(s) = IF fs = {} THEN Word("") ELSE TrimmedLine(s[Max(fs)])
  BY DEF DescriptionOf
<1>10. DescriptionOf(t) = IF ft = {} THEN Word("") ELSE TrimmedLine(t[Max(ft)])
  BY DEF DescriptionOf
<1>11. fs \subseteq 1 .. Len(s) /\ ft \subseteq 1 .. Len(t)
  BY <1>1
<1> HIDE DEF fs, ft
<1>12. CASE ft = {}
  <2>1. fs = {}
    BY <1>7, <1>12
  <2> QED
    BY <1>9, <1>10, <1>12, <2>1
<1>13. CASE ft # {}
  <2>1. PICK m \in ft : \A j \in ft : j <= m
    BY <1>1, <1>11, <1>13, Greatest
  <2>2. m \in 1 .. Len(t) /\ ft \in SUBSET Int /\ fs \in SUBSET Int
    BY <1>1, <1>11
  <2>3. Max(ft) = m
    BY <2>1, <2>2, MaxIs
  <2>4. n + m \in fs
    BY <1>8
  <2>5. ASSUME NEW i \in fs PROVE i <= n + m
    <3>1. i - n \in ft
      BY <1>7
    <3>2. i - n <= m
      BY <2>1, <3>1
    <3>3. i \in Int /\ m \in Int
      BY <2>2
    <3> QED
      BY <3>2, <3>3
  <2>6. Max(fs) = n + m
    BY <2>2, <2>4, <2>5, MaxIs
  <2>7. s[n + m] = t[m]
    BY <1>3, <2>2
  <2> QED
    BY <1>9, <1>10, <1>13, <2>3, <2>4, <2>6, <2>7
<1> QED
  BY <1>12, <1>13

\* The lines from "description:" on.
KeptLines(r) == <<Field("description", "")>> \o Written(r.event) \o <<NUL>>

\* The line of a description that a receiver keeps.
Kept(e) == DescriptionOf(<<Field("description", "")>> \o Written(e) \o <<NUL>>)

LEMMA KeptLinesAt ==
  ASSUME NEW r \in Reports
  PROVE  /\ KeptLines(r) \in Seq(Tokens) /\ Len(KeptLines(r)) = 2 + Len(Written(r.event))
         /\ KeptLines(r)[1] = Field("description", "")
         /\ \A i \in 1 .. Len(Written(r.event)) : KeptLines(r)[1 + i] = Written(r.event)[i]
         /\ KeptLines(r)[2 + Len(Written(r.event))] = NUL
<1> DEFINE w == Written(r.event)
           d == Field("description", "")
           e == <<d>>
           z == <<NUL>>
           ew == e \o w
<1>1. d \in Tokens /\ NUL \in Tokens
  <2>1. "description" \in TokenKeys /\ "" \in TokenValues
    BY DEF TokenKeys, TokenValues
  <2> QED
    BY <2>1, TokenType, LineEndType
<1>2. w \in Seq(Tokens) /\ Len(w) \in Nat
  <2>1. w \in Seq(Tokens)
    BY WrittenType
  <2> HIDE DEF w
  <2> QED
    BY <2>1
<1>3. KeptLines(r) = ew \o z
  BY DEF KeptLines
<1> HIDE DEF w, d
<1>4. e \in Seq(Tokens) /\ Len(e) = 1 /\ e[1] = d
  BY <1>1
<1>5. z \in Seq(Tokens) /\ Len(z) = 1 /\ z[1] = NUL
  BY <1>1
<1> HIDE DEF e, z
<1>6. e \in Seq(Tokens) /\ w \in Seq(Tokens)
  BY <1>2, <1>4
<1>7. ew \in Seq(Tokens) /\ Len(ew) = Len(e) + Len(w)
  BY <1>6, ConcatParts
<1>8. \A i \in 1 .. Len(e) : ew[i] = e[i]
  BY <1>6, ConcatParts
<1>9. \A i \in 1 .. Len(w) : ew[Len(e) + i] = w[i]
  BY <1>6, ConcatParts
<1> HIDE DEF ew
<1>10. ew \in Seq(Tokens) /\ z \in Seq(Tokens)
  BY <1>5, <1>7
<1> DEFINE k == ew \o z
<1>11. k \in Seq(Tokens) /\ Len(k) = Len(ew) + Len(z)
  BY <1>10, ConcatParts
<1>12. \A i \in 1 .. Len(ew) : k[i] = ew[i]
  BY <1>10, ConcatParts
<1>13. \A i \in 1 .. Len(z) : k[Len(ew) + i] = z[i]
  BY <1>10, ConcatParts
<1> HIDE DEF k
<1>14. Len(ew) = 1 + Len(w) /\ Len(k) = 2 + Len(w)
  BY <1>2, <1>4, <1>5, <1>7, <1>11
<1>15. k[1] = d
  <2>1. 1 \in 1 .. Len(ew) /\ 1 \in 1 .. Len(e)
    BY <1>2, <1>4, <1>14
  <2> QED
    BY <1>4, <1>8, <1>12, <2>1
<1>16. ASSUME NEW i \in 1 .. Len(w) PROVE k[1 + i] = w[i]
  <2>1. 1 + i \in 1 .. Len(ew)
    BY <1>2, <1>14
  <2>2. ew[1 + i] = w[i]
    BY <1>4, <1>9
  <2> QED
    BY <1>12, <2>1, <2>2
<1>17. k[2 + Len(w)] = NUL
  <2>1. 1 \in 1 .. Len(z) /\ Len(ew) + 1 = 2 + Len(w)
    BY <1>2, <1>5, <1>14
  <2>2. k[Len(ew) + 1] = z[1]
    BY <1>13, <2>1
  <2> QED
    BY <1>5, <2>1, <2>2
<1> QED
  BY <1>3, <1>11, <1>14, <1>15, <1>16, <1>17 DEF k, w, d

LEMMA ReadLinesAt ==
  ASSUME NEW r \in Reports
  PROVE  /\ Len(ReadLines(r)) = 9 + Len(Written(r.event))
         /\ \A i \in 1 .. 8 : ReadLines(r)[i] = Fields(r)[i]
         /\ \A i \in 1 .. Len(Written(r.event)) : ReadLines(r)[8 + i] = Written(r.event)[i]
         /\ ReadLines(r)[9 + Len(Written(r.event))] = NUL
<1> DEFINE w == Written(r.event)
           e == Fields(r)
           z == <<NUL>>
           ew == e \o w
<1>1. w \in Seq(Tokens) /\ Len(w) \in Nat
  <2>1. w \in Seq(Tokens)
    BY WrittenType
  <2> HIDE DEF w
  <2> QED
    BY <2>1
<1>2. ReadLines(r) = ew \o z
  BY DEF ReadLines
<1> HIDE DEF w
<1>3. e \in Seq(Tokens) /\ Len(e) = 8
  BY FieldsType
<1>4. z \in Seq(Tokens) /\ Len(z) = 1 /\ z[1] = NUL
  BY LineEndType
<1> HIDE DEF e, z
<1>5. e \in Seq(Tokens) /\ w \in Seq(Tokens)
  BY <1>1, <1>3
<1>6. ew \in Seq(Tokens) /\ Len(ew) = Len(e) + Len(w)
  BY <1>5, ConcatParts
<1>7. \A i \in 1 .. Len(e) : ew[i] = e[i]
  BY <1>5, ConcatParts
<1>8. \A i \in 1 .. Len(w) : ew[Len(e) + i] = w[i]
  BY <1>5, ConcatParts
<1> HIDE DEF ew
<1>9. ew \in Seq(Tokens) /\ z \in Seq(Tokens)
  BY <1>4, <1>6
<1> DEFINE k == ew \o z
<1>10. k \in Seq(Tokens) /\ Len(k) = Len(ew) + Len(z)
  BY <1>9, ConcatParts
<1>11. \A i \in 1 .. Len(ew) : k[i] = ew[i]
  BY <1>9, ConcatParts
<1>12. \A i \in 1 .. Len(z) : k[Len(ew) + i] = z[i]
  BY <1>9, ConcatParts
<1> HIDE DEF k
<1>13. Len(ew) = 8 + Len(w) /\ Len(k) = 9 + Len(w)
  BY <1>1, <1>3, <1>4, <1>6, <1>10
<1>14. ASSUME NEW i \in 1 .. 8 PROVE k[i] = e[i]
  <2>1. i \in 1 .. Len(ew) /\ i \in 1 .. Len(e)
    BY <1>1, <1>3, <1>13
  <2> QED
    BY <1>7, <1>11, <2>1
<1>15. ASSUME NEW i \in 1 .. Len(w) PROVE k[8 + i] = w[i]
  <2>1. 8 + i \in 1 .. Len(ew)
    BY <1>1, <1>13
  <2>2. ew[8 + i] = w[i]
    BY <1>3, <1>8
  <2> QED
    BY <1>11, <2>1, <2>2
<1>16. k[9 + Len(w)] = NUL
  <2>1. 1 \in 1 .. Len(z) /\ Len(ew) + 1 = 9 + Len(w)
    BY <1>1, <1>4, <1>13
  <2>2. k[Len(ew) + 1] = z[1]
    BY <1>12, <2>1
  <2> QED
    BY <1>4, <2>1, <2>2
<1> QED
  BY <1>2, <1>10, <1>13, <1>14, <1>15, <1>16 DEF k, w, e

\* The fields above the description do not matter for what is kept of it.
LEMMA ReadDescription ==
  ASSUME NEW r \in Reports
  PROVE  DescriptionOf(ReadLines(r)) = Kept(r.event)
<1> DEFINE s == ReadLines(r)
           t == KeptLines(r)
           w == Written(r.event)
           f == Fields(r)
           d == Field("description", "")
<1>1. t \in Seq(Tokens) /\ Len(t) = 2 + Len(w) /\ t[1] = d /\ t[2 + Len(w)] = NUL
  BY KeptLinesAt
<1>2. \A i \in 1 .. Len(w) : t[1 + i] = w[i]
  BY KeptLinesAt
<1>3. s \in Seq(Tokens)
  BY ReadLinesType
<1>4. Len(s) = 9 + Len(w) /\ s[9 + Len(w)] = NUL
  BY ReadLinesAt
<1>5. \A i \in 1 .. 8 : s[i] = f[i]
  BY ReadLinesAt
<1>6. \A i \in 1 .. Len(w) : s[8 + i] = w[i]
  BY ReadLinesAt
<1>7. Len(w) \in Nat
  <2>1. w \in Seq(Tokens)
    BY WrittenType
  <2> HIDE DEF w
  <2> QED
    BY <2>1
<1>8. f \in Seq(Tokens) /\ Len(f) = 8 /\ f[8] = d
  <2>1. f \in Seq(Tokens) /\ Len(f) = 8
    BY FieldsType
  <2>2. f[8] = d
    BY DEF Fields
  <2> QED
    BY <2>1, <2>2
<1>9. ASSUME NEW i \in 1 .. 7 PROVE f[i].key # "description"
  <2>1. /\ f[1].key = "user" /\ f[2].key = "city" /\ f[3].key = "event name"
        /\ f[4].key = "date time" /\ f[5].key = "general information" /\ f[6].key = "active"
        /\ f[7].key = "forces_arrival_at_scene"
    BY DEF Fields, Field
  <2>2. i = 1 \/ i = 2 \/ i = 3 \/ i = 4 \/ i = 5 \/ i = 6 \/ i = 7
    OBVIOUS
  <2> HIDE DEF f
  <2> QED
    BY <2>1, <2>2
<1>10. d.key = "description"
  BY DEF Field
<1>11. Kept(r.event) = DescriptionOf(t)
  BY DEF Kept, KeptLines
<1> HIDE DEF s, t, w, f, d
<1>12. ASSUME NEW i \in 1 .. 7 PROVE TrimmedLine(s[i]) # d
  <2>1. i \in 1 .. 8 /\ i \in 1 .. Len(f)
    BY <1>8
  <2>2. f \in Seq(Tokens)
    BY <1>8
  <2>3. s[i] = f[i] /\ f[i] \in Tokens
    BY <1>5, <2>1, <2>2
  <2>4. TrimmedLine(f[i]).key = f[i].key
    BY <2>3, TrimmedIs
  <2> QED
    BY <1>9, <1>10, <2>3, <2>4
<1>13. ASSUME NEW i \in 1 .. Len(t) PROVE s[7 + i] = t[i]
  <2>1. CASE i = 1
    <3>1. 8 \in 1 .. 8
      OBVIOUS
    <3>2. s[8] = d
      BY <1>5, <1>8, <3>1
    <3>3. 7 + i = 8
      BY <2>1
    <3> QED
      BY <1>1, <2>1, <3>2, <3>3
  <2>2. CASE i = 2 + Len(w)
    <3>1. 7 + i = 9 + Len(w)
      BY <1>7, <2>2
    <3> QED
      BY <1>1, <1>4, <2>2, <3>1
  <2>3. CASE i # 1 /\ i # 2 + Len(w)
    <3> DEFINE j == i - 1
    <3>1. j \in 1 .. Len(w) /\ 1 + j = i /\ 8 + j = 7 + i
      BY <1>1, <1>7, <2>3
    <3> HIDE DEF j
    <3>2. t[1 + j] = w[j] /\ s[8 + j] = w[j]
      BY <1>2, <1>6, <3>1
    <3> QED
      BY <3>1, <3>2
  <2> QED
    BY <2>1, <2>2, <2>3
<1> DEFINE n == 7
<1>14. n \in Nat /\ Len(s) = n + Len(t)
  BY <1>1, <1>4, <1>7
<1>15. \A i \in 1 .. Len(t) : s[n + i] = t[i]
  BY <1>13
<1>16. \A i \in 1 .. n : TrimmedLine(s[i]) # Field("description", "")
  BY <1>12 DEF d
<1> HIDE DEF n
<1>17. DescriptionOf(s) = DescriptionOf(t)
  <2>1. Behind(s, t, n)
    BY <1>14, <1>15, <1>16 DEF Behind
  <2> QED
    BY <1>1, <1>3, <1>14, <2>1, DescriptionShift
<1> QED
  BY <1>11, <1>17 DEF s

\* What parseEventReport finds empty is what Undescribed says of the event.
LEMMA KeptUndescribed ==
  ASSUME NEW r \in Reports
  PROVE  IsEmpty(Kept(r.event)) <=> Undescribed(r.event)
<1> DEFINE t == KeptLines(r)
           d == Field("description", "")
           found == {i \in DOMAIN t : Describes(t, i)}
           kept == {i \in 2 .. Len(t) : /\ t[i - 1].key = "description" /\ t[i - 1].value \in Void
                                        /\ t[i].key \notin Keys}
<1>1. t \in Seq(Tokens)
  BY KeptLinesAt
<1>2. Kept(r.event) = IF found = {} THEN Word("") ELSE TrimmedLine(t[Max(found)])
  BY DEF Kept, KeptLines, DescriptionOf
<1>3. Undescribed(r.event) <=>
        kept = {} \/ (t[Max(kept)].key = "" /\ t[Max(kept)].value \in Void)
  BY DEF Undescribed, KeptLines
<1> HIDE DEF t
<1>4. Len(t) \in Nat /\ DOMAIN t = 1 .. Len(t) /\ \A i \in 1 .. Len(t) : t[i] \in Tokens
  BY <1>1
<1>5. ASSUME NEW i \in 1 .. Len(t)
      PROVE  TrimmedLine(t[i]) = d <=> t[i].key = "description" /\ t[i].value \in Void
  <2> DEFINE x == t[i]
  <2>1. x \in Tokens
    BY <1>4
  <2> HIDE DEF x
  <2>2. TrimmedLine(x) = [key |-> x.key, value |-> Trim(x.value)]
    BY <2>1, TrimmedIs
  <2>3. Trim(x.value) = "" <=> x.value \in Void
    BY TrimEmpty
  <2>4. TrimmedLine(x) = d <=> x.key = "description" /\ Trim(x.value) = ""
    <3> DEFINE k == x.key
               v == Trim(x.value)
    <3> HIDE DEF k, v
    <3>1. d = [key |-> "description", value |-> ""]
      BY DEF Field
    <3>2. TrimmedLine(x) = [key |-> k, value |-> v]
      BY <2>2 DEF k, v
    <3>3. [key |-> k, value |-> v] = [key |-> "description", value |-> ""]
            <=> k = "description" /\ v = ""
      OBVIOUS
    <3> HIDE DEF d
    <3> QED
      BY <3>1, <3>2, <3>3 DEF k, v
  <2> QED
    BY <2>3, <2>4 DEF x
<1>6. ASSUME NEW i \in 1 .. Len(t)
      PROVE  IsEmpty(TrimmedLine(t[i])) <=> t[i].key = "" /\ t[i].value \in Void
  <2>1. t[i] \in Tokens
    BY <1>4
  <2>2. TrimmedLine(t[i]).key = t[i].key /\ TrimmedLine(t[i]).value = Trim(t[i].value)
    BY <2>1, TrimmedIs
  <2>3. Trim(t[i].value) = "" <=> t[i].value \in Void
    BY TrimEmpty
  <2> QED
    BY <2>2, <2>3 DEF IsEmpty
<1>7. ASSUME NEW i \in 1 .. Len(t), i > 1
      PROVE  Describes(t, i) <=> i \in kept
  <2>1. i - 1 \in 1 .. Len(t) /\ i \in 2 .. Len(t)
    BY <1>4, <1>7
  <2>2. Describes(t, i) <=> TrimmedLine(t[i - 1]) = d /\ t[i].key \notin Keys
    BY <1>7 DEF Describes
  <2>3. TrimmedLine(t[i - 1]) = d <=> t[i - 1].key = "description" /\ t[i - 1].value \in Void
    BY <1>5, <2>1
  <2> HIDE DEF d
  <2> QED
    BY <2>1, <2>2, <2>3
<1>8. found = kept
  <2>1. \A i \in found : i \in 1 .. Len(t) /\ i > 1 /\ Describes(t, i)
    BY <1>4 DEF Describes
  <2>2. \A i \in kept : i \in 1 .. Len(t) /\ i > 1
    BY <1>4
  <2>3. \A i \in 1 .. Len(t) : i > 1 /\ Describes(t, i) => i \in found
    BY <1>4
  <2>4. \A i \in 1 .. Len(t) : i > 1 => (Describes(t, i) <=> i \in kept)
    BY <1>7
  <2> HIDE DEF found, kept
  <2> QED
    BY <2>1, <2>2, <2>3, <2>4
<1>9. kept \subseteq 1 .. Len(t)
  BY <1>4
<1> HIDE DEF found, kept, d
<1>10. CASE kept = {}
  <2>1. IsEmpty(Word(""))
    BY DEF IsEmpty, Word, Field
  <2>2. Kept(r.event) = Word("")
    BY <1>2, <1>8, <1>10
  <2>3. IsEmpty(Kept(r.event))
    BY <2>1, <2>2
  <2>4. Undescribed(r.event)
    BY <1>3, <1>10
  <2> QED
    BY <2>3, <2>4
<1>11. CASE kept # {}
  <2>1. PICK m \in kept : \A j \in kept : j <= m
    BY <1>4, <1>9, <1>11, Greatest
  <2>2. m \in 1 .. Len(t) /\ kept \in SUBSET Int
    BY <1>4, <1>9
  <2>3. Max(kept) = m
    BY <2>1, <2>2, MaxIs
  <2> QED
    BY <1>2, <1>3, <1>6, <1>8, <1>11, <2>2, <2>3
<1> QED
  BY <1>10, <1>11

\* A report that is filed can be parsed, or ends the reader.
LEMMA ReadOrFatal ==
  ASSUME NEW r \in Reports, Told(r, "destination", Channel) # ""
  PROVE  Parses(ReadLines(r)) <=> ~ Fatal(r)
<1> DEFINE s == ReadLines(r)
           u == Told(r, "user", r.user)
           c == Told(r, "city", r.event.city)
           e == Told(r, "event name", r.event.name)
           d == Told(r, "date time", r.event.date)
<1>1. /\ LastValue(s, "user") = u /\ LastValue(s, "city") = c /\ LastValue(s, "event name") = e
      /\ LastValue(s, "date time") = d
  BY ReadValues
<1>2. DescriptionOf(s) = Kept(r.event)
  BY ReadDescription
<1>3. Fatal(r) <=> {u, c, e} \cap Void # {} \/ d \notin DOMAIN Time \/ IsEmpty(Kept(r.event))
  BY KeptUndescribed DEF Fatal
<1> HIDE DEF s, u, c, e, d
<1>4. /\ ValueOf(s, "user") = Trim(u) /\ ValueOf(s, "city") = Trim(c)
      /\ ValueOf(s, "event name") = Trim(e) /\ ValueOf(s, "date time") = Trim(d)
  BY <1>1 DEF ValueOf
<1>5. Parses(s) <=> /\ Trim(u) # "" /\ Trim(c) # "" /\ Trim(e) # ""
                    /\ Trim(d) \in DOMAIN Time /\ ~ IsEmpty(Kept(r.event))
  BY <1>2, <1>4 DEF Parses
<1>6. /\ Trim(u) = "" <=> u \in Void
      /\ Trim(c) = "" <=> c \in Void
      /\ Trim(e) = "" <=> e \in Void
      /\ Trim(d) \in DOMAIN Time <=> d \in DOMAIN Time
  BY TrimEmpty
<1>7. {u, c, e} \cap Void # {} <=> u \in Void \/ c \in Void \/ e \in Void
  OBVIOUS
<1> QED
  BY <1>3, <1>5, <1>6, <1>7 DEF s

\* A plain description adds no field, and its first line is kept.
LEMMA PlainLines ==
  ASSUME NEW r \in Reports, Plain(r.event)
  PROVE  \A i \in 1 .. Len(Written(r.event)) : Written(r.event)[i].key = ""
<1> DEFINE E == {l \in Lines : l.key = ""}
           d == r.event.description
           I == {i \in DOMAIN d : d[i] # Word("")}
<1>1. d \in Seq(Lines) /\ \A i \in DOMAIN d : d[i].key = ""
  BY ReportType DEF Plain
<1>2. Written(r.event) = Selected(d, I)
  BY DEF Written
<1> HIDE DEF d, I
<1>3. DOMAIN d = 1 .. Len(d) /\ Len(d) \in Nat /\ d = [i \in 1 .. Len(d) |-> d[i]]
      /\ \A i \in 1 .. Len(d) : d[i] \in Lines
  <2>1. d \in Seq(Lines)
    BY <1>1
  <2> QED
    BY <2>1
<1>4. \A i \in 1 .. Len(d) : d[i] \in E
  BY <1>1, <1>3
<1> HIDE DEF E
<1>5. d \in [1 .. Len(d) -> E]
  BY <1>3, <1>4
<1>6. d \in Seq(E)
  BY <1>3, <1>5, SeqDef
<1> DEFINE w == Selected(d, I)
<1>7. w \in Seq(E)
  BY <1>6, SelectedType
<1> HIDE DEF w
<1>8. \A i \in 1 .. Len(w) : w[i] \in E
  BY <1>7
<1>9. \A i \in 1 .. Len(w) : w[i].key = ""
  BY <1>8 DEF E
<1> QED
  BY <1>2, <1>9 DEF w

LEMMA PlainTold ==
  ASSUME NEW r \in Reports, Plain(r.event), NEW k \in TokenKeys, k # "", NEW v \in TokenValues
  PROVE  Told(r, k, v) = v
<1>1. ~ Named(Written(r.event), k)
  BY PlainLines DEF Named
<1> QED
  BY <1>1, ToldIs

LEMMA PlainKept ==
  ASSUME NEW r \in Reports, Plain(r.event)
  PROVE  Kept(r.event) = TrimmedLine(Head(Written(r.event) \o <<NUL>>))
<1> DEFINE t == KeptLines(r)
           w == Written(r.event)
           d == Field("description", "")
           found == {i \in DOMAIN t : Describes(t, i)}
<1>1. t \in Seq(Tokens) /\ Len(t) = 2 + Len(w) /\ t[1] = d /\ t[2 + Len(w)] = NUL
  BY KeptLinesAt
<1>2. \A i \in 1 .. Len(w) : t[1 + i] = w[i]
  BY KeptLinesAt
<1>3. w \in Seq(Tokens)
  BY WrittenType
<1>4. \A i \in 1 .. Len(w) : w[i].key = ""
  BY PlainLines
<1>5. Kept(r.event) = DescriptionOf(t)
  BY DEF Kept, KeptLines
<1>6. d.key = "description" /\ d = [key |-> "description", value |-> ""]
  BY DEF Field
<1> HIDE DEF t, w, d
<1>7. Len(w) \in Nat /\ DOMAIN t = 1 .. 2 + Len(w)
  BY <1>1, <1>3
<1>8. ASSUME NEW i \in 2 .. 2 + Len(w) PROVE t[i].key = "" \/ t[i].key = "NUL"
  <2>1. CASE i = 2 + Len(w)
    <3>1. t[i] = NUL
      BY <1>1, <2>1
    <3> QED
      BY <3>1, LineEndType
  <2>2. CASE i # 2 + Len(w)
    <3> DEFINE j == i - 1
    <3>1. j \in 1 .. Len(w) /\ 1 + j = i
      BY <1>7, <2>2
    <3> HIDE DEF j
    <3>2. t[i] = w[j]
      BY <1>2, <3>1
    <3> QED
      BY <1>4, <3>1, <3>2
  <2> QED
    BY <2>1, <2>2
<1>9. TrimmedLine(d) = d
  <2>1. d \in Tokens
    BY <1>1
  <2>2. TrimmedLine(d) = [key |-> d.key, value |-> Trim(d.value)]
    BY <2>1, TrimmedIs
  <2>3. Trim("") = ""
    BY DEF Trim
  <2> QED
    BY <1>6, <2>2, <2>3
<1>10. Describes(t, 2)
  <2>1. 2 \in 2 .. 2 + Len(w)
    BY <1>7
  <2>2. t[2].key \notin Keys
    BY <1>8, <2>1 DEF Keys
  <2> DEFINE i == 2
  <2>3. TrimmedLine(t[1]) = Field("description", "")
    BY <1>1, <1>9 DEF d
  <2>4. i - 1 = 1 /\ i > 1 /\ t[i].key \notin Keys
    BY <2>2
  <2> HIDE DEF i
  <2>5. Describes(t, i)
    BY <2>3, <2>4 DEF Describes
  <2> QED
    BY <2>5 DEF i
<1>11. ASSUME NEW i \in DOMAIN t, Describes(t, i) PROVE i <= 2
  <2>1. i \in 1 .. 2 + Len(w) /\ i > 1
    BY <1>7, <1>11 DEF Describes
  <2>2. TrimmedLine(t[i - 1]) = d
    BY <1>11 DEF Describes, d
  <2> SUFFICES ASSUME i > 2 PROVE FALSE
    BY <2>1
  <2> DEFINE j == i - 1
  <2>3. j \in 2 .. 2 + Len(w) /\ j \in 1 .. Len(t)
    BY <1>1, <1>7, <2>1
  <2> HIDE DEF j
  <2>4. t[j].key = "" \/ t[j].key = "NUL"
    BY <1>8, <2>3
  <2>5. t[j] \in Tokens
    BY <1>1, <2>3
  <2>6. TrimmedLine(t[j]).key = t[j].key
    BY <2>5, TrimmedIs
  <2>7. TrimmedLine(t[j]) = d
    BY <2>2 DEF j
  <2> QED
    BY <1>6, <2>4, <2>6, <2>7
<1>12. DescriptionOf(t) = IF found = {} THEN Word("") ELSE TrimmedLine(t[Max(found)])
  BY DEF DescriptionOf
<1>13. 2 \in found /\ found \in SUBSET Int /\ \A i \in found : i <= 2
  BY <1>7, <1>10, <1>11
<1> HIDE DEF found
<1>14. Max(found) = 2
  BY <1>13, MaxIs
<1>15. DescriptionOf(t) = TrimmedLine(t[2])
  BY <1>12, <1>13, <1>14
<1>16. t[2] = Head(w \o <<NUL>>)
  <2> DEFINE z == <<NUL>>
             wz == w \o z
  <2>1. z \in Seq(Tokens) /\ Len(z) = 1 /\ z[1] = NUL
    BY LineEndType
  <2> HIDE DEF z
  <2>2. z \in Seq(Tokens)
    BY <2>1
  <2>3. wz \in Seq(Tokens) /\ Len(wz) = Len(w) + Len(z)
    BY <1>3, <2>2, ConcatParts
  <2>4. \A i \in 1 .. Len(w) : wz[i] = w[i]
    BY <1>3, <2>2, ConcatParts
  <2>5. \A i \in 1 .. Len(z) : wz[Len(w) + i] = z[i]
    BY <1>3, <2>2, ConcatParts
  <2> HIDE DEF wz
  <2>6. Head(wz) = wz[1]
    BY <2>3
  <2>7. CASE Len(w) = 0
    <3>1. 1 \in 1 .. Len(z) /\ Len(w) + 1 = 1 /\ 2 + Len(w) = 2
      BY <2>1, <2>7
    <3>2. wz[1] = NUL
      BY <2>1, <2>5, <3>1
    <3>3. t[2] = NUL
      BY <1>1, <3>1
    <3> QED
      BY <2>6, <3>2, <3>3 DEF wz, z
  <2>8. CASE Len(w) # 0
    <3>1. 1 \in 1 .. Len(w) /\ 1 + 1 = 2
      BY <1>7, <2>8
    <3>2. wz[1] = w[1] /\ t[2] = w[1]
      BY <1>2, <2>4, <3>1
    <3> QED
      BY <2>6, <3>2 DEF wz, z
  <2> QED
    BY <2>7, <2>8
<1> QED
  BY <1>5, <1>15, <1>16 DEF w

LEMMA PlainRead ==
  ASSUME NEW r \in Reports, Plain(r.event), ~ Fatal(r)
  PROVE  /\ ParseEventReport(ReadLines(r)) = Projection(r)
         /\ Told(r, "destination", Channel) = Channel
<1> DEFINE s == ReadLines(r)
           h == Head(Written(r.event) \o <<NUL>>)
<1>1. /\ r.user \in TokenValues /\ r.event.city \in TokenValues /\ r.event.name \in TokenValues
      /\ r.event.date \in TokenValues /\ r.event.active \in TokenValues
      /\ r.event.forces \in TokenValues /\ Channel \in TokenValues
  BY ReportType DEF TokenValues
<1>2. /\ "user" \in TokenKeys /\ "city" \in TokenKeys /\ "event name" \in TokenKeys
      /\ "date time" \in TokenKeys /\ "active" \in TokenKeys
      /\ "forces_arrival_at_scene" \in TokenKeys /\ "destination" \in TokenKeys
  BY DEF TokenKeys, Keys
<1>3. /\ Told(r, "user", r.user) = r.user
      /\ Told(r, "city", r.event.city) = r.event.city
      /\ Told(r, "event name", r.event.name) = r.event.name
      /\ Told(r, "date time", r.event.date) = r.event.date
  BY <1>1, <1>2, PlainTold
<1>4. /\ Told(r, "active", r.event.active) = r.event.active
      /\ Told(r, "forces_arrival_at_scene", r.event.forces) = r.event.forces
      /\ Told(r, "destination", Channel) = Channel
  BY <1>1, <1>2, PlainTold
<1>5. Channel # ""
  BY EventsAssumption DEF Void
<1>6. /\ r.user \notin Void /\ r.event.city \notin Void /\ r.event.name \notin Void
      /\ r.event.date \notin Void
      /\ ~ IsEmpty(Kept(r.event))
  BY <1>3, <1>4, <1>5, ReportType, KeptUndescribed DEF Fatal
<1>7. /\ ValueOf(s, "user") = r.user /\ ValueOf(s, "city") = r.event.city
      /\ ValueOf(s, "event name") = r.event.name /\ ValueOf(s, "date time") = r.event.date
  BY <1>3, <1>6, ReadValues, TrimEmpty DEF ValueOf
<1>8. /\ ValueOf(s, "active") = Trim(r.event.active)
      /\ ValueOf(s, "forces_arrival_at_scene") = Trim(r.event.forces)
  BY <1>4, ReadValues DEF ValueOf
<1>9. DescriptionOf(s) = h
  <2>1. DescriptionOf(s) = TrimmedLine(h) /\ Kept(r.event) = TrimmedLine(h)
    BY ReadDescription, PlainKept
  <2>2. h \in Tokens /\ (h.key = "" \/ h = NUL)
    <3> DEFINE w == Written(r.event)
               z == <<NUL>>
               wz == w \o z
    <3>1. z \in Seq(Tokens) /\ Len(z) = 1 /\ z[1] = NUL
      BY LineEndType
    <3>2. w \in Seq(Tokens) /\ \A i \in 1 .. Len(w) : w[i].key = ""
      BY WrittenType, PlainLines
    <3> HIDE DEF z, w
    <3>3. z \in Seq(Tokens) /\ w \in Seq(Tokens)
      BY <3>1, <3>2
    <3>4. wz \in Seq(Tokens) /\ Len(wz) = Len(w) + Len(z) /\ Len(w) \in Nat
      BY <3>3, ConcatParts
    <3>5. \A i \in 1 .. Len(w) : wz[i] = w[i]
      BY <3>3, ConcatParts
    <3>6. \A i \in 1 .. Len(z) : wz[Len(w) + i] = z[i]
      BY <3>3, ConcatParts
    <3> HIDE DEF wz
    <3>7. Head(wz) = wz[1] /\ 1 \in 1 .. Len(wz)
      BY <3>1, <3>4
    <3>8. wz[1] \in Tokens
      BY <3>4, <3>7
    <3>9. CASE Len(w) = 0
      <4>1. 1 \in 1 .. Len(z) /\ Len(w) + 1 = 1
        BY <3>1, <3>9
      <4>2. wz[1] = NUL
        BY <3>1, <3>6, <4>1
      <4> QED
        BY <3>7, <3>8, <4>2 DEF wz, w, z
    <3>10. CASE Len(w) # 0
      <4>1. 1 \in 1 .. Len(w)
        BY <3>4, <3>10
      <4>2. wz[1].key = ""
        BY <3>2, <3>5, <4>1
      <4> QED
        BY <3>7, <3>8, <4>2 DEF wz, w, z
    <3> QED
      BY <3>9, <3>10
  <2> HIDE DEF h
  <2>3. TrimmedLine(h) = [key |-> h.key, value |-> Trim(h.value)]
        /\ TrimmedLine(h).key = h.key /\ TrimmedLine(h).value = Trim(h.value)
    BY <2>2, TrimmedIs
  <2>4. Trim(h.value) = h.value
    <3>1. CASE h.key = ""
      <4>1. Trim(h.value) # ""
        BY <1>6, <2>1, <2>3, <3>1 DEF IsEmpty
      <4> QED
        BY <4>1, TrimEmpty
    <3>2. CASE h = NUL
      <4>1. h.value = ""
        BY <3>2 DEF NUL, Field
      <4> QED
        BY <4>1 DEF Trim
    <3> QED
      BY <2>2, <3>1, <3>2
  <2>5. h = [key |-> h.key, value |-> h.value]
    BY <2>2 DEF Tokens
  <2> QED
    BY <2>1, <2>3, <2>4, <2>5
<1> HIDE DEF s, h
<1>10. ParseEventReport(s)
         = [user |-> r.user, city |-> r.event.city, name |-> r.event.name,
            date |-> Time[r.event.date], active |-> Trim(r.event.active),
            forces |-> Trim(r.event.forces), description |-> h]
  BY <1>7, <1>8, <1>9 DEF ParseEventReport
<1>11. Projection(r)
         = [user |-> r.user, city |-> r.event.city, name |-> r.event.name,
            date |-> Time[r.event.date], active |-> Trim(r.event.active),
            forces |-> Trim(r.event.forces), description |-> h]
  BY DEF Projection, h
<1> QED
  BY <1>4, <1>10, <1>11 DEF s

-----------------------------------------------------------------------------
(***************************************************************************)
(* The invariants: what is on its way was reported, and what was stored is *)
(* what can be read of it.                                                 *)
(***************************************************************************)
\* The reports a client stores.
Readable == {ParseEventReport(ReadLines(r)) : r \in {q \in Reports : Parses(ReadLines(q))}}

Typed ==
  /\ reported \in [Clients -> Seq({e \in Events : Complete(e)})]
  /\ passedOn \in Seq(Reports)
  /\ toServer \in [Clients -> Seq(Seq(Tokens))]
  /\ toClient \in [Clients -> Seq(Seq(Tokens))]
  /\ running \in [Clients -> BOOLEAN]
  /\ stored \in [Clients -> [Channels -> Seq(Readable)]]

\* How many reports of a client the server has passed on ...
SentCount(u) == Len(reported[u]) - Len(toServer[u])

\* ... and how many reports a client has read.
ReadCount(u) == Len(passedOn) - Len(toClient[u])

\* A frame to the server is the text of a report not passed on yet, a frame to
\* a client that of one it has not read yet.
OnTheWay ==
  /\ \A u \in Clients :
       /\ Len(toServer[u]) <= Len(reported[u])
       /\ \A i \in 1 .. Len(toServer[u]) :
            toServer[u][i] = SendText([user |-> u, event |-> reported[u][SentCount(u) + i]])
  /\ \A u \in Clients :
       /\ Len(toClient[u]) <= Len(passedOn)
       /\ \A i \in 1 .. Len(toClient[u]) :
            toClient[u][i] = MessageText(passedOn[ReadCount(u) + i])

\* The reports stored under the channel, of the first n of s.
Taken(r) == Told(r, "destination", Channel) = Channel /\ ~ Fatal(r)

ReadingsOf(s, n) == [i \in 1 .. n |-> ParseEventReport(ReadLines(s[i]))]

Filed(s, n) == Selected(ReadingsOf(s, n), {i \in 1 .. n : Taken(s[i])})

StoredRead ==
  \A u \in Clients : stored[u][Channel] = Filed(passedOn, ReadCount(u))

EndedByFatal ==
  \A u \in Clients :
    /\ running[u] => \A i \in 1 .. ReadCount(u) : ~ Fatal(passedOn[i])
    /\ ~ running[u] =>
         /\ ReadCount(u) # 0 /\ Fatal(passedOn[ReadCount(u)])
         /\ \A i \in 1 .. ReadCount(u) - 1 : ~ Fatal(passedOn[i])

EventInv == Typed /\ OnTheWay /\ StoredRead /\ EndedByFatal

LEMMA ChannelListed == Channel \in Channels /\ Channel # ""
<1>1. Channel # ""
  BY EventsAssumption DEF Void
<1> QED
  BY <1>1 DEF Channels

LEMMA FiledAgree ==
  ASSUME NEW s, NEW t, NEW n \in Nat, \A i \in 1 .. n : s[i] = t[i]
  PROVE  Filed(s, n) = Filed(t, n)
<1>1. ReadingsOf(s, n) = ReadingsOf(t, n)
  BY DEF ReadingsOf
<1>2. {i \in 1 .. n : Taken(s[i])} = {i \in 1 .. n : Taken(t[i])}
  OBVIOUS
<1> QED
  BY <1>1, <1>2 DEF Filed

LEMMA FiledNone == \A s : Filed(s, 0) = << >>
<1> TAKE s
<1>1. ReadingsOf(s, 0) = << >>
  BY DEF ReadingsOf
<1> QED
  BY <1>1, SelectedEmpty DEF Filed

LEMMA FiledOneMore ==
  ASSUME NEW s, NEW n \in Nat
  PROVE  Filed(s, n + 1) =
           IF Taken(s[n + 1]) THEN Append(Filed(s, n), ParseEventReport(ReadLines(s[n + 1])))
           ELSE Filed(s, n)
<1> DEFINE f == ReadingsOf(s, n)
           g == ReadingsOf(s, n + 1)
           I == {i \in 1 .. n : Taken(s[i])}
           J == {i \in 1 .. n + 1 : Taken(s[i])}
           X == {ParseEventReport(ReadLines(s[i])) : i \in 1 .. n + 1}
<1>1. \A i \in 1 .. n : i \in 1 .. n + 1
  OBVIOUS
<1>2. f \in [1 .. n -> X]
  BY <1>1 DEF ReadingsOf
<1>3. g \in [1 .. n + 1 -> X]
  BY DEF ReadingsOf
<1>4. \A i \in 1 .. n : g[i] = f[i]
  BY DEF ReadingsOf
<1>5. \A i \in 1 .. n : i \in J <=> i \in I
  OBVIOUS
<1>6. n + 1 \in 1 .. n + 1
  OBVIOUS
<1>7. g[n + 1] = ParseEventReport(ReadLines(s[n + 1]))
  BY <1>6 DEF ReadingsOf
<1>8. n + 1 \in J <=> Taken(s[n + 1])
  BY <1>6
<1> HIDE DEF f, g, I, J, X
<1>9. Selected(g, J) = IF n + 1 \in J THEN Append(Selected(f, I), g[n + 1]) ELSE Selected(f, I)
  BY <1>2, <1>3, <1>4, <1>5, SelectedOneMore
<1> QED
  BY <1>7, <1>8, <1>9 DEF Filed, f, g, I, J

LEMMA InitEventInv == Init => EventInv
<1> SUFFICES ASSUME Init PROVE EventInv
  OBVIOUS
<1>1. Typed
  <2>1. \A X : << >> \in Seq(X)
    OBVIOUS
  <2> QED
    BY <2>1 DEF Init, Typed
<1>2. \A u \in Clients :
        reported[u] = << >> /\ toServer[u] = << >> /\ toClient[u] = << >> /\ running[u]
  BY DEF Init
<1>3. passedOn = << >>
  BY DEF Init
<1>4. \A u \in Clients : ReadCount(u) = 0
  BY <1>2, <1>3 DEF ReadCount
<1>5. OnTheWay
  BY <1>2, <1>3 DEF OnTheWay
<1>6. StoredRead
  BY <1>4, FiledNone, ChannelListed DEF Init, StoredRead
<1>7. EndedByFatal
  BY <1>2, <1>4 DEF EndedByFatal
<1> QED
  BY <1>1, <1>5, <1>6, <1>7 DEF EventInv

\* The frame at the front, for the server and for a client.
LEMMA FirstSent ==
  ASSUME EventInv, NEW u \in Clients, toServer[u] # << >>
  PROVE  LET r == [user |-> u, event |-> reported[u][SentCount(u) + 1]]
         IN  r \in Reports /\ Head(toServer[u]) = SendText(r)
<1> DEFINE e == reported[u][SentCount(u) + 1]
           r == [user |-> u, event |-> e]
<1>1. /\ toServer[u] \in Seq(Seq(Tokens))
      /\ reported[u] \in Seq({x \in Events : Complete(x)})
  BY DEF EventInv, Typed
<1>2. Len(toServer[u]) \in Nat \ {0} /\ Head(toServer[u]) = toServer[u][1]
  BY <1>1, EmptySeq
<1>3. /\ Len(toServer[u]) <= Len(reported[u])
      /\ \A i \in 1 .. Len(toServer[u]) :
            toServer[u][i] = SendText([user |-> u, event |-> reported[u][SentCount(u) + i]])
  BY DEF EventInv, OnTheWay
<1>4. 1 \in 1 .. Len(toServer[u])
  BY <1>2
<1>5. SentCount(u) + 1 \in 1 .. Len(reported[u])
  <2>1. Len(reported[u]) \in Nat
    BY <1>1
  <2> DEFINE a == Len(reported[u])
             b == Len(toServer[u])
  <2>2. a \in Nat /\ b \in Nat \ {0} /\ b <= a
    BY <1>2, <1>3, <2>1
  <2>3. SentCount(u) = a - b
    BY DEF SentCount
  <2> HIDE DEF a, b
  <2>4. SentCount(u) + 1 \in 1 .. a
    BY <2>2, <2>3
  <2> QED
    BY <2>4 DEF a
<1>6. e \in {x \in Events : Complete(x)}
  BY <1>1, <1>5
<1> QED
  BY <1>2, <1>3, <1>4, <1>6 DEF Reports

LEMMA FirstPassedOn ==
  ASSUME EventInv, NEW u \in Clients, toClient[u] # << >>
  PROVE  /\ ReadCount(u) \in Nat /\ ReadCount(u) + 1 \in 1 .. Len(passedOn)
         /\ passedOn[ReadCount(u) + 1] \in Reports
         /\ Head(toClient[u]) = MessageText(passedOn[ReadCount(u) + 1])
<1>1. toClient[u] \in Seq(Seq(Tokens)) /\ passedOn \in Seq(Reports)
  BY DEF EventInv, Typed
<1>2. Len(toClient[u]) \in Nat \ {0} /\ Head(toClient[u]) = toClient[u][1]
  BY <1>1, EmptySeq
<1>3. /\ Len(toClient[u]) <= Len(passedOn)
      /\ \A i \in 1 .. Len(toClient[u]) :
            toClient[u][i] = MessageText(passedOn[ReadCount(u) + i])
  BY DEF EventInv, OnTheWay
<1>4. 1 \in 1 .. Len(toClient[u])
  BY <1>2
<1>5. ReadCount(u) \in Nat /\ ReadCount(u) + 1 \in 1 .. Len(passedOn)
  BY <1>1, <1>2, <1>3 DEF ReadCount
<1> QED
  BY <1>1, <1>2, <1>3, <1>4, <1>5

LEMMA ReadCountType ==
  ASSUME EventInv, NEW u \in Clients
  PROVE  /\ ReadCount(u) \in Nat /\ ReadCount(u) <= Len(passedOn)
         /\ \A i \in 1 .. ReadCount(u) : i \in 1 .. Len(passedOn) /\ passedOn[i] \in Reports
<1>1. toClient[u] \in Seq(Seq(Tokens)) /\ passedOn \in Seq(Reports)
  BY DEF EventInv, Typed
<1>2. Len(toClient[u]) <= Len(passedOn) /\ Len(toClient[u]) \in Nat /\ Len(passedOn) \in Nat
  BY <1>1 DEF EventInv, OnTheWay
<1>3. ReadCount(u) \in Nat /\ ReadCount(u) <= Len(passedOn)
  BY <1>2 DEF ReadCount
<1>4. \A i \in 1 .. ReadCount(u) : i \in 1 .. Len(passedOn)
  BY <1>2, <1>3
<1> QED
  BY <1>1, <1>3, <1>4

-----------------------------------------------------------------------------
\* One step of the report command.
LEMMA ReportStep ==
  ASSUME EventInv, NEW u \in Clients, NEW e \in Events, Report(u, e)
  PROVE  EventInv'
<1> DEFINE X == {x \in Events : Complete(x)}
           r == [user |-> u, event |-> e]
<1>1. /\ Complete(e)
      /\ reported' = [reported EXCEPT ![u] = Append(reported[u], e)]
      /\ toServer' = [toServer EXCEPT ![u] = Append(toServer[u], SendText(r))]
      /\ UNCHANGED <<passedOn, toClient, running, stored, summary>>
  BY DEF Report, SendText
<1>2. /\ reported \in [Clients -> Seq(X)] /\ toServer \in [Clients -> Seq(Seq(Tokens))]
      /\ e \in X
  BY <1>1 DEF EventInv, Typed
<1>3. r \in Reports
  BY <1>1 DEF Reports
<1>4. SendText(r) \in Seq(Tokens)
  BY <1>3, SendSplit
<1> DEFINE m == SendText(r)
           Y == Seq(Tokens)
<1> HIDE DEF X, m, Y
<1>5. /\ reported[u] \in Seq(X) /\ Append(reported[u], e) \in Seq(X)
      /\ Len(Append(reported[u], e)) = Len(reported[u]) + 1 /\ Len(reported[u]) \in Nat
      /\ Append(reported[u], e)[Len(reported[u]) + 1] = e
      /\ \A i \in 1 .. Len(reported[u]) : Append(reported[u], e)[i] = reported[u][i]
  BY <1>2, AppendProperties
<1>6. toServer[u] \in Seq(Y) /\ m \in Y
  BY <1>2, <1>4 DEF m, Y
<1>7. /\ Append(toServer[u], m) \in Seq(Y)
      /\ Len(Append(toServer[u], m)) = Len(toServer[u]) + 1 /\ Len(toServer[u]) \in Nat
      /\ Append(toServer[u], m)[Len(toServer[u]) + 1] = m
      /\ \A i \in 1 .. Len(toServer[u]) : Append(toServer[u], m)[i] = toServer[u][i]
  BY <1>6, AppendProperties
<1>8. /\ reported' = [reported EXCEPT ![u] = Append(reported[u], e)]
      /\ toServer' = [toServer EXCEPT ![u] = Append(toServer[u], m)]
  BY <1>1 DEF m
<1>9. Typed'
  <2>1. reported' \in [Clients -> Seq(X)]
    BY <1>2, <1>5, <1>8
  <2>2. toServer' \in [Clients -> Seq(Y)]
    BY <1>2, <1>7, <1>8 DEF Y
  <2> QED
    BY <1>1, <2>1, <2>2 DEF EventInv, Typed, X, Y
<1>10. OnTheWay'
  <2>1. ASSUME NEW v \in Clients
        PROVE  /\ Len(toServer'[v]) <= Len(reported'[v])
               /\ \A i \in 1 .. Len(toServer'[v]) :
                    toServer'[v][i] = SendText([user |-> v, event |-> reported'[v][SentCount(v)' + i]])
    <3>1. /\ Len(toServer[v]) <= Len(reported[v])
          /\ \A i \in 1 .. Len(toServer[v]) :
               toServer[v][i] = SendText([user |-> v, event |-> reported[v][SentCount(v) + i]])
      BY DEF EventInv, OnTheWay
    <3>2. CASE v # u
      <4>1. toServer'[v] = toServer[v] /\ reported'[v] = reported[v]
        BY <1>2, <1>8, <3>2
      <4>2. SentCount(v)' = SentCount(v)
        BY <4>1 DEF SentCount
      <4> QED
        BY <3>1, <4>1, <4>2
    <3>3. CASE v = u
      <4>1. toServer'[u] = Append(toServer[u], m) /\ reported'[u] = Append(reported[u], e)
        BY <1>2, <1>8
      <4>2. SentCount(u)' = SentCount(u) /\ SentCount(u) \in Nat
            /\ SentCount(u) = Len(reported[u]) - Len(toServer[u])
        <5> DEFINE a == Len(reported[u])
                   b == Len(toServer[u])
        <5>1. a \in Nat /\ b \in Nat
          BY <1>5, <1>7
        <5>2. b <= a
          BY <3>1, <3>3
        <5>3. Len(reported'[u]) = a + 1
          BY <1>5, <4>1
        <5>4. Len(toServer'[u]) = b + 1
          BY <1>7, <4>1
        <5>5. SentCount(u) = a - b
          BY DEF SentCount
        <5>6. SentCount(u)' = (a + 1) - (b + 1)
          BY <5>3, <5>4 DEF SentCount
        <5> HIDE DEF a, b
        <5>7. SentCount(u)' = SentCount(u) /\ SentCount(u) \in Nat /\ SentCount(u) = a - b
          BY <5>1, <5>2, <5>5, <5>6
        <5> QED
          BY <5>7 DEF a, b
      <4>3. Len(reported[u]) \in Nat /\ Len(toServer[u]) \in Nat
        BY <1>5, <1>7
      <4>4. ASSUME NEW i \in 1 .. Len(toServer[u])
            PROVE  toServer'[u][i] = SendText([user |-> u, event |-> reported'[u][SentCount(u) + i]])
        <5> DEFINE a == Len(reported[u])
                   b == Len(toServer[u])
                   c == SentCount(u)
        <5>1. a \in Nat /\ b \in Nat /\ c \in Nat /\ c = a - b /\ i \in 1 .. b
          BY <4>2, <4>3
        <5> HIDE DEF a, b, c
        <5>2. c + i \in 1 .. a
          BY <5>1
        <5>3. SentCount(u) + i \in 1 .. Len(reported[u])
          BY <5>2 DEF a, c
        <5>4. reported'[u][SentCount(u) + i] = reported[u][SentCount(u) + i]
          BY <1>5, <4>1, <5>3
        <5>5. toServer'[u][i] = toServer[u][i]
          BY <1>7, <4>1
        <5> QED
          BY <3>1, <3>3, <5>4, <5>5
      <4>5. SentCount(u) + (Len(toServer[u]) + 1) = Len(reported[u]) + 1
        <5> DEFINE a == Len(reported[u])
                   b == Len(toServer[u])
                   c == SentCount(u)
        <5>1. a \in Nat /\ b \in Nat /\ c = a - b
          BY <4>2, <4>3
        <5> HIDE DEF a, b, c
        <5>2. c + (b + 1) = a + 1
          BY <5>1
        <5> QED
          BY <5>2 DEF a, b, c
      <4>6. toServer'[u][Len(toServer[u]) + 1]
              = SendText([user |-> u,
                          event |-> reported'[u][SentCount(u) + (Len(toServer[u]) + 1)]])
        BY <1>5, <1>7, <4>1, <4>5 DEF m
      <4>7. ASSUME NEW i \in 1 .. Len(toServer'[u])
            PROVE  toServer'[u][i] = SendText([user |-> u, event |-> reported'[u][SentCount(u) + i]])
        <5>1. i \in 1 .. Len(toServer[u]) \/ i = Len(toServer[u]) + 1
          BY <1>7, <4>1
        <5> QED
          BY <4>4, <4>6, <5>1
      <4>8. Len(toServer'[u]) <= Len(reported'[u])
        BY <1>5, <1>7, <3>1, <3>3, <4>1
      <4> QED
        BY <3>3, <4>2, <4>7, <4>8
    <3> QED
      BY <3>2, <3>3
  <2>2. \A v \in Clients :
          /\ Len(toClient[v]) <= Len(passedOn)
          /\ \A i \in 1 .. Len(toClient[v]) :
               toClient[v][i] = MessageText(passedOn[ReadCount(v) + i])
    BY DEF EventInv, OnTheWay
  <2>3. passedOn' = passedOn /\ toClient' = toClient
    BY <1>1
  <2>4. \A v \in Clients : ReadCount(v)' = ReadCount(v)
    BY <2>3 DEF ReadCount
  <2> QED
    BY <2>1, <2>2, <2>3, <2>4 DEF OnTheWay
<1>11. \A v \in Clients : ReadCount(v)' = ReadCount(v)
  BY <1>1 DEF ReadCount
<1>12. StoredRead'
  BY <1>1, <1>11 DEF EventInv, StoredRead
<1>13. EndedByFatal'
  BY <1>1, <1>11 DEF EventInv, EndedByFatal
<1> QED
  BY <1>9, <1>10, <1>12, <1>13 DEF EventInv

\* What a queue is without its first frame.
LEMMA TailParts ==
  ASSUME NEW Y, NEW s \in Seq(Y), s # << >>
  PROVE  /\ Tail(s) \in Seq(Y) /\ Len(s) \in Nat \ {0} /\ Len(Tail(s)) = Len(s) - 1
         /\ \A i \in 1 .. Len(Tail(s)) : i + 1 \in 1 .. Len(s) /\ Tail(s)[i] = s[i + 1]
<1>1. Len(s) \in Nat \ {0}
  BY EmptySeq
<1>2. Tail(s) \in Seq(Y) /\ Len(Tail(s)) = Len(s) - 1
  BY HeadTailProperties
<1>3. \A i \in 1 .. Len(Tail(s)) : Tail(s)[i] = s[i + 1]
  BY HeadTailProperties
<1>4. \A i \in 1 .. Len(s) - 1 : i + 1 \in 1 .. Len(s)
  BY <1>1
<1> QED
  BY <1>1, <1>2, <1>3, <1>4

\* A report is passed on.
LEMMA ProcessStep ==
  ASSUME EventInv, NEW u \in Clients, Process(u)
  PROVE  EventInv'
<1> DEFINE r == [user |-> u, event |-> reported[u][SentCount(u) + 1]]
           m == MessageText(r)
           Y == Seq(Tokens)
<1>1. toServer[u] # << >>
  BY DEF Process
<1>2. r \in Reports /\ Head(toServer[u]) = SendText(r)
  BY <1>1, FirstSent
<1>3. /\ toServer' = [toServer EXCEPT ![u] = Tail(toServer[u])]
      /\ passedOn' = Append(passedOn, r)
      /\ UNCHANGED <<reported, running, stored, summary>>
  BY DEF Process, SentCount
<1>4. toClient' = [k \in Clients |-> Append(toClient[k], m)]
  <2> DEFINE parts == Split(Head(toServer[u]))
             text == ServerFrame("MESSAGE",
                       <<Field("message-id", "0"), Field("subscription", "0"),
                         Field("destination", HeaderPut(parts, "destination"))>>,
                       Body(parts))
  <2>1. toClient' = [k \in Clients |-> Append(toClient[k], text)]
    BY DEF Process
  <2>2. Body(parts) = ReadBody(r) /\ HeaderPut(parts, "destination") = Channel
    BY <1>2, SendRead
  <2>3. text = m
    BY <2>2 DEF MessageText
  <2> HIDE DEF text
  <2> QED
    BY <2>1, <2>3
<1>5. m \in Y
  BY <1>2, MessageSplit
<1> HIDE DEF m, Y, r
<1>6. /\ passedOn \in Seq(Reports) /\ toServer \in [Clients -> Seq(Y)]
      /\ toClient \in [Clients -> Seq(Y)]
  BY DEF EventInv, Typed, Y
<1>7. /\ passedOn' \in Seq(Reports) /\ Len(passedOn') = Len(passedOn) + 1 /\ Len(passedOn) \in Nat
      /\ passedOn'[Len(passedOn) + 1] = r
      /\ \A i \in 1 .. Len(passedOn) : passedOn'[i] = passedOn[i]
  <2>1. passedOn \in Seq(Reports)
    BY <1>6
  <2> QED
    BY <1>2, <1>3, <2>1, AppendProperties
<1>8. ASSUME NEW k \in Clients
      PROVE  /\ toClient'[k] \in Seq(Y) /\ Len(toClient'[k]) = Len(toClient[k]) + 1
             /\ Len(toClient[k]) \in Nat
             /\ toClient'[k][Len(toClient[k]) + 1] = m
             /\ \A i \in 1 .. Len(toClient[k]) : toClient'[k][i] = toClient[k][i]
  <2>1. toClient[k] \in Seq(Y)
    BY <1>6
  <2>2. toClient'[k] = Append(toClient[k], m)
    BY <1>4
  <2> QED
    BY <1>5, <2>1, <2>2, AppendProperties
<1>9. /\ Tail(toServer[u]) \in Seq(Y) /\ Len(toServer[u]) \in Nat \ {0}
      /\ Len(Tail(toServer[u])) = Len(toServer[u]) - 1
      /\ \A i \in 1 .. Len(Tail(toServer[u])) :
           i + 1 \in 1 .. Len(toServer[u]) /\ Tail(toServer[u])[i] = toServer[u][i + 1]
  <2>1. toServer[u] \in Seq(Y)
    BY <1>6
  <2> QED
    BY <1>1, <2>1, TailParts
<1>10. Typed'
  <2>1. toServer' \in [Clients -> Seq(Y)]
    BY <1>3, <1>6, <1>9
  <2>2. toClient' \in [Clients -> Seq(Y)]
    BY <1>4, <1>8
  <2> QED
    BY <1>3, <1>7, <2>1, <2>2 DEF EventInv, Typed, Y
<1>11. ASSUME NEW v \in Clients
       PROVE  /\ Len(toServer'[v]) <= Len(reported'[v])
              /\ \A i \in 1 .. Len(toServer'[v]) :
                   toServer'[v][i] = SendText([user |-> v, event |-> reported'[v][SentCount(v)' + i]])
  <2>1. /\ Len(toServer[v]) <= Len(reported[v])
        /\ \A i \in 1 .. Len(toServer[v]) :
             toServer[v][i] = SendText([user |-> v, event |-> reported[v][SentCount(v) + i]])
    BY DEF EventInv, OnTheWay
  <2>2. CASE v # u
    <3>1. toServer'[v] = toServer[v] /\ reported'[v] = reported[v]
      BY <1>3, <1>6, <2>2
    <3>2. SentCount(v)' = SentCount(v)
      BY <3>1 DEF SentCount
    <3> QED
      BY <2>1, <3>1, <3>2
  <2>3. CASE v = u
    <3> DEFINE a == Len(reported[u])
               b == Len(toServer[u])
               c == SentCount(u)
    <3>1. toServer'[u] = Tail(toServer[u]) /\ reported'[u] = reported[u]
      BY <1>3, <1>6
    <3>2. reported[u] \in Seq({x \in Events : Complete(x)})
      BY DEF EventInv, Typed
    <3>3. a \in Nat /\ b \in Nat \ {0} /\ b <= a
      BY <1>9, <2>1, <2>3, <3>2
    <3>4. c = a - b
      BY DEF SentCount
    <3>5. SentCount(u)' = a - Len(toServer'[u])
      BY <3>1 DEF SentCount
    <3>6. Len(toServer'[u]) = b - 1
      BY <1>9, <3>1
    <3> HIDE DEF a, b, c
    <3>7. SentCount(u)' = a - (b - 1)
      BY <3>5, <3>6
    <3>8. b - 1 <= a /\ c \in Nat
      BY <3>3, <3>4
    <3>9. SentCount(u)' = c + 1
      BY <3>3, <3>4, <3>7
    <3>10. ASSUME NEW i \in 1 .. Len(toServer'[u])
           PROVE  toServer'[u][i] = SendText([user |-> u, event |-> reported'[u][SentCount(u)' + i]])
      <4>1. i + 1 \in 1 .. Len(toServer[u]) /\ toServer'[u][i] = toServer[u][i + 1]
        BY <1>9, <3>1
      <4>2. toServer[u][i + 1] = SendText([user |-> u, event |-> reported[u][c + (i + 1)]])
        BY <2>1, <2>3, <4>1 DEF c
      <4>3. SentCount(u)' + i = c + (i + 1)
        BY <3>8, <3>9
      <4> QED
        BY <3>1, <4>1, <4>2, <4>3
    <3>11. Len(toServer'[u]) <= Len(reported'[u])
      BY <3>1, <3>6, <3>8 DEF a
    <3> QED
      BY <2>3, <3>10, <3>11
  <2> QED
    BY <2>2, <2>3
<1>12. ASSUME NEW v \in Clients
       PROVE  /\ ReadCount(v)' = ReadCount(v)
              /\ Len(toClient'[v]) <= Len(passedOn')
              /\ \A i \in 1 .. Len(toClient'[v]) :
                   toClient'[v][i] = MessageText(passedOn'[ReadCount(v)' + i])
  <2> DEFINE a == Len(passedOn)
             b == Len(toClient[v])
             c == ReadCount(v)
  <2>1. /\ b <= a
        /\ \A i \in 1 .. b : toClient[v][i] = MessageText(passedOn[c + i])
    BY DEF EventInv, OnTheWay
  <2>2. a \in Nat /\ b \in Nat /\ Len(passedOn') = a + 1 /\ Len(toClient'[v]) = b + 1
    BY <1>7, <1>8
  <2>3. c = a - b
    BY DEF ReadCount
  <2>4. ReadCount(v)' = (a + 1) - (b + 1)
    BY <2>2 DEF ReadCount
  <2>5. /\ \A i \in 1 .. b : toClient'[v][i] = toClient[v][i]
        /\ toClient'[v][b + 1] = m
    BY <1>8
  <2>6. /\ \A i \in 1 .. a : passedOn'[i] = passedOn[i]
        /\ passedOn'[a + 1] = r
    BY <1>7
  <2> HIDE DEF a, b, c
  <2>7. ReadCount(v)' = c /\ c \in Nat /\ c + (b + 1) = a + 1
    BY <2>1, <2>2, <2>3, <2>4
  <2>8. ASSUME NEW i \in 1 .. b + 1 PROVE toClient'[v][i] = MessageText(passedOn'[c + i])
    <3>1. CASE i \in 1 .. b
      <4>1. c + i \in 1 .. a
        BY <2>1, <2>2, <2>3, <3>1
      <4>2. passedOn'[c + i] = passedOn[c + i]
        BY <2>6, <4>1
      <4> QED
        BY <2>1, <2>5, <3>1, <4>2
    <3>2. CASE i = b + 1
      <4>1. passedOn'[c + i] = r /\ toClient'[v][i] = m
        BY <2>5, <2>6, <2>7, <3>2
      <4> QED
        BY <4>1 DEF m
    <3> QED
      BY <2>2, <3>1, <3>2
  <2>9. b + 1 <= a + 1
    BY <2>1, <2>2
  <2> QED
    BY <2>2, <2>7, <2>8, <2>9 DEF c
<1>13. OnTheWay'
  BY <1>11, <1>12 DEF OnTheWay
<1>14. ASSUME NEW v \in Clients
       PROVE  /\ ReadCount(v)' = ReadCount(v) /\ ReadCount(v) \in Nat
              /\ \A i \in 1 .. ReadCount(v) : passedOn'[i] = passedOn[i]
  BY <1>7, <1>12, ReadCountType
<1>15. StoredRead'
  <2> SUFFICES ASSUME NEW v \in Clients
               PROVE  stored'[v][Channel] = Filed(passedOn', ReadCount(v)')
    BY DEF StoredRead
  <2>1. Filed(passedOn', ReadCount(v)) = Filed(passedOn, ReadCount(v))
    BY <1>14, FiledAgree
  <2>2. stored[v][Channel] = Filed(passedOn, ReadCount(v))
    BY DEF EventInv, StoredRead
  <2> QED
    BY <1>3, <1>14, <2>1, <2>2
<1>16. EndedByFatal'
  <2> SUFFICES ASSUME NEW v \in Clients
               PROVE  /\ running'[v] => \A i \in 1 .. ReadCount(v)' : ~ Fatal(passedOn'[i])
                      /\ ~ running'[v] =>
                           /\ ReadCount(v)' # 0 /\ Fatal(passedOn'[ReadCount(v)'])
                           /\ \A i \in 1 .. ReadCount(v)' - 1 : ~ Fatal(passedOn'[i])
    BY DEF EndedByFatal
  <2> DEFINE n == ReadCount(v)
  <2>1. /\ running[v] => \A i \in 1 .. n : ~ Fatal(passedOn[i])
        /\ ~ running[v] =>
             /\ n # 0 /\ Fatal(passedOn[n])
             /\ \A i \in 1 .. n - 1 : ~ Fatal(passedOn[i])
    BY DEF EventInv, EndedByFatal
  <2>2. ReadCount(v)' = n /\ n \in Nat /\ \A i \in 1 .. n : passedOn'[i] = passedOn[i]
    BY <1>14
  <2>3. running'[v] = running[v]
    BY <1>3
  <2> HIDE DEF n
  <2>4. n # 0 => n \in 1 .. n /\ \A i \in 1 .. n - 1 : i \in 1 .. n
    BY <2>2
  <2> QED
    BY <2>1, <2>2, <2>3, <2>4
<1> QED
  BY <1>10, <1>13, <1>15, <1>16 DEF EventInv

\* A client reads a report: it is ignored, ends the client or is stored.
LEMMA ResponseStep ==
  ASSUME EventInv, NEW u \in Clients, ServerResponse(u)
  PROVE  EventInv'
<1> DEFINE n == ReadCount(u)
           r == passedOn[n + 1]
           e == ParseEventReport(ReadLines(r))
           ch == Told(r, "destination", Channel)
           Y == Seq(Tokens)
<1>1. running[u] /\ toClient[u] # << >>
  BY DEF ServerResponse
<1>2. /\ n \in Nat /\ n + 1 \in 1 .. Len(passedOn) /\ r \in Reports
      /\ Head(toClient[u]) = MessageText(r)
  BY <1>1, FirstPassedOn
<1>3. /\ toClient' = [toClient EXCEPT ![u] = Tail(toClient[u])]
      /\ UNCHANGED <<reported, passedOn, toServer, summary>>
  BY DEF ServerResponse
<1>4. \/ ch = "" /\ UNCHANGED <<running, stored>>
      \/ ch # "" /\ ~ Parses(ReadLines(r))
         /\ running' = [running EXCEPT ![u] = FALSE] /\ UNCHANGED stored
      \/ ch # "" /\ Parses(ReadLines(r))
         /\ stored' = [stored EXCEPT ![u][ch] = Append(@, e)] /\ UNCHANGED running
  <2> DEFINE text == Head(toClient[u])
             lines == LinesOf(Body(Split(text)))
             dest == Destination(text)
  <2>1. dest = ch
    BY <1>2, ReadDestination
  <2>2. lines = ReadLines(r)
    <3>1. Body(Split(text)) = MessageParts(r)
      BY <1>2, MessageRead
    <3> QED
      BY <1>2, <3>1, PartsLines
  <2>3. \/ dest = "" /\ UNCHANGED <<running, stored>>
        \/ dest # "" /\ ~ Parses(lines)
           /\ running' = [running EXCEPT ![u] = FALSE] /\ UNCHANGED stored
        \/ dest # "" /\ Parses(lines)
           /\ stored' = [stored EXCEPT ![u][dest] = Append(@, ParseEventReport(lines))]
           /\ UNCHANGED running
    BY DEF ServerResponse
  <2> HIDE DEF text, lines, dest
  <2> QED
    BY <2>1, <2>2, <2>3
<1>5. ch # "" => (Parses(ReadLines(r)) <=> ~ Fatal(r))
  BY <1>2, ReadOrFatal
<1>6. Fatal(r) => ch # ""
  BY DEF Fatal
<1>7. Taken(r) <=> ch = Channel /\ ~ Fatal(r)
  BY DEF Taken
<1>8. Channel \in Channels /\ Channel # ""
  BY ChannelListed
<1>9. Parses(ReadLines(r)) => e \in Readable
  BY <1>2 DEF Readable
<1>10. /\ passedOn \in Seq(Reports) /\ toClient \in [Clients -> Seq(Y)]
       /\ running \in [Clients -> BOOLEAN] /\ stored \in [Clients -> [Channels -> Seq(Readable)]]
  BY DEF EventInv, Typed
<1> HIDE DEF n, r, e, ch, Y
<1>11. /\ Tail(toClient[u]) \in Seq(Y) /\ Len(toClient[u]) \in Nat \ {0}
       /\ Len(Tail(toClient[u])) = Len(toClient[u]) - 1
       /\ \A i \in 1 .. Len(Tail(toClient[u])) :
            i + 1 \in 1 .. Len(toClient[u]) /\ Tail(toClient[u])[i] = toClient[u][i + 1]
  <2>1. toClient[u] \in Seq(Y)
    BY <1>10
  <2> QED
    BY <1>1, <2>1, TailParts
\* What becomes of the table.
<1>12. /\ stored' \in [Clients -> [Channels -> Seq(Readable)]]
       /\ \A v \in Clients : v # u => stored'[v][Channel] = stored[v][Channel]
       /\ stored'[u][Channel] = IF Taken(r) THEN Append(stored[u][Channel], e)
                                ELSE stored[u][Channel]
  <2>1. CASE ch # "" /\ Parses(ReadLines(r))
    <3> DEFINE row == [stored[u] EXCEPT ![ch] = Append(stored[u][ch], e)]
    <3>1. stored' = [stored EXCEPT ![u] = row]
      BY <1>4, <2>1
    <3>2. stored[u] \in [Channels -> Seq(Readable)] /\ e \in Readable
      BY <1>9, <1>10, <2>1
    <3>3. \A x \in Channels : Append(stored[u][x], e) \in Seq(Readable)
      BY <3>2, AppendProperties
    <3>4. row \in [Channels -> Seq(Readable)]
      BY <3>2, <3>3
    <3>5. row[Channel] = IF ch = Channel THEN Append(stored[u][Channel], e) ELSE stored[u][Channel]
      BY <1>8, <3>2
    <3> HIDE DEF row
    <3>6. stored' \in [Clients -> [Channels -> Seq(Readable)]] /\ stored'[u] = row
      BY <1>10, <3>1, <3>4
    <3>7. \A v \in Clients : v # u => stored'[v] = stored[v]
      BY <1>10, <3>1
    <3> QED
      BY <1>5, <1>7, <2>1, <3>5, <3>6, <3>7
  <2>2. CASE ~ (ch # "" /\ Parses(ReadLines(r)))
    <3>1. stored' = stored
      BY <1>4, <2>2
    <3>2. ~ Taken(r)
      BY <1>5, <1>7, <1>8, <2>2
    <3> QED
      BY <1>10, <3>1, <3>2
  <2> QED
    BY <2>1, <2>2
\* What becomes of the process.
<1>13. /\ running' \in [Clients -> BOOLEAN]
       /\ \A v \in Clients : v # u => running'[v] = running[v]
       /\ running'[u] <=> ~ Fatal(r)
  <2>1. CASE ch # "" /\ ~ Parses(ReadLines(r))
    <3>1. running' = [running EXCEPT ![u] = FALSE]
      BY <1>4, <2>1
    <3>2. Fatal(r)
      BY <1>5, <2>1
    <3> QED
      BY <1>10, <3>1, <3>2
  <2>2. CASE ~ (ch # "" /\ ~ Parses(ReadLines(r)))
    <3>1. running' = running
      BY <1>4, <2>2
    <3>2. ~ Fatal(r)
      BY <1>5, <1>6, <2>2
    <3> QED
      BY <1>1, <1>10, <3>1, <3>2
  <2> QED
    BY <2>1, <2>2
<1>14. Typed'
  <2>1. toClient' \in [Clients -> Seq(Y)]
    BY <1>3, <1>10, <1>11
  <2> QED
    BY <1>3, <1>12, <1>13, <2>1 DEF EventInv, Typed, Y
\* What is left to read.
<1>15. /\ ReadCount(u)' = n + 1
       /\ Len(toClient'[u]) <= Len(passedOn)
       /\ \A i \in 1 .. Len(toClient'[u]) :
            toClient'[u][i] = MessageText(passedOn[(n + 1) + i])
  <2> DEFINE a == Len(passedOn)
             b == Len(toClient[u])
  <2>1. /\ b <= a
        /\ \A i \in 1 .. b : toClient[u][i] = MessageText(passedOn[n + i])
    BY DEF EventInv, OnTheWay, n
  <2>2. a \in Nat
    BY <1>10
  <2>3. b \in Nat \ {0}
    BY <1>11
  <2>4. toClient'[u] = Tail(toClient[u])
    BY <1>3, <1>10
  <2>5. Len(toClient'[u]) = b - 1
    BY <1>11, <2>4
  <2>6. ReadCount(u)' = a - (b - 1)
    BY <1>3, <2>5 DEF ReadCount
  <2>7. n = a - b
    BY DEF ReadCount, n
  <2>8. \A i \in 1 .. Len(toClient'[u]) : i + 1 \in 1 .. b /\ toClient'[u][i] = toClient[u][i + 1]
    BY <1>11, <2>4
  <2> HIDE DEF a, b
  <2>9. ReadCount(u)' = n + 1 /\ b - 1 <= a
    BY <2>1, <2>2, <2>3, <2>6, <2>7
  <2>10. \A i \in Nat : n + (i + 1) = (n + 1) + i
    BY <1>2
  <2>11. ASSUME NEW i \in 1 .. Len(toClient'[u])
         PROVE  toClient'[u][i] = MessageText(passedOn[(n + 1) + i])
    <3>1. i \in Nat
      BY <2>3, <2>5
    <3>2. toClient[u][i + 1] = MessageText(passedOn[n + (i + 1)])
      BY <2>1, <2>8
    <3> QED
      BY <2>8, <2>10, <3>1, <3>2
  <2>12. Len(toClient'[u]) <= Len(passedOn)
    BY <2>5, <2>9 DEF a
  <2> QED
    BY <2>9, <2>11, <2>12
<1>16. ASSUME NEW v \in Clients, v # u
       PROVE  toClient'[v] = toClient[v] /\ ReadCount(v)' = ReadCount(v)
  <2>1. toClient'[v] = toClient[v]
    BY <1>3, <1>10, <1>16
  <2> QED
    BY <1>3, <2>1 DEF ReadCount
<1>17. OnTheWay'
  <2>1. ASSUME NEW v \in Clients
        PROVE  /\ Len(toServer'[v]) <= Len(reported'[v])
               /\ \A i \in 1 .. Len(toServer'[v]) :
                    toServer'[v][i] = SendText([user |-> v, event |-> reported'[v][SentCount(v)' + i]])
    <3>1. /\ Len(toServer[v]) <= Len(reported[v])
          /\ \A i \in 1 .. Len(toServer[v]) :
               toServer[v][i] = SendText([user |-> v, event |-> reported[v][SentCount(v) + i]])
      BY DEF EventInv, OnTheWay
    <3>2. SentCount(v)' = SentCount(v)
      BY <1>3 DEF SentCount
    <3> QED
      BY <1>3, <3>1, <3>2
  <2>2. ASSUME NEW v \in Clients
        PROVE  /\ Len(toClient'[v]) <= Len(passedOn')
               /\ \A i \in 1 .. Len(toClient'[v]) :
                    toClient'[v][i] = MessageText(passedOn'[ReadCount(v)' + i])
    <3>1. CASE v = u
      BY <1>3, <1>15, <3>1
    <3>2. CASE v # u
      <4>1. /\ Len(toClient[v]) <= Len(passedOn)
            /\ \A i \in 1 .. Len(toClient[v]) :
                 toClient[v][i] = MessageText(passedOn[ReadCount(v) + i])
        BY DEF EventInv, OnTheWay
      <4> QED
        BY <1>3, <1>16, <3>2, <4>1
    <3> QED
      BY <3>1, <3>2
  <2> QED
    BY <2>1, <2>2 DEF OnTheWay
<1>18. StoredRead'
  <2> SUFFICES ASSUME NEW v \in Clients
               PROVE  stored'[v][Channel] = Filed(passedOn', ReadCount(v)')
    BY DEF StoredRead
  <2>1. stored[v][Channel] = Filed(passedOn, ReadCount(v))
    BY DEF EventInv, StoredRead
  <2>2. CASE v = u
    <3>1. Filed(passedOn, n + 1) = IF Taken(r) THEN Append(Filed(passedOn, n), e)
                                   ELSE Filed(passedOn, n)
      BY <1>2, FiledOneMore DEF r, e
    <3>2. Filed(passedOn', ReadCount(u)') = Filed(passedOn, n + 1)
      BY <1>3, <1>15
    <3>3. stored[u][Channel] = Filed(passedOn, n)
      BY <2>1, <2>2 DEF n
    <3> QED
      BY <1>12, <2>2, <3>1, <3>2, <3>3
  <2>3. CASE v # u
    BY <1>3, <1>12, <1>16, <2>1, <2>3
  <2> QED
    BY <2>2, <2>3
<1>19. EndedByFatal'
  <2> SUFFICES ASSUME NEW v \in Clients
               PROVE  /\ running'[v] => \A i \in 1 .. ReadCount(v)' : ~ Fatal(passedOn'[i])
                      /\ ~ running'[v] =>
                           /\ ReadCount(v)' # 0 /\ Fatal(passedOn'[ReadCount(v)'])
                           /\ \A i \in 1 .. ReadCount(v)' - 1 : ~ Fatal(passedOn'[i])
    BY DEF EndedByFatal
  <2>1. /\ running[v] => \A i \in 1 .. ReadCount(v) : ~ Fatal(passedOn[i])
        /\ ~ running[v] =>
             /\ ReadCount(v) # 0 /\ Fatal(passedOn[ReadCount(v)])
             /\ \A i \in 1 .. ReadCount(v) - 1 : ~ Fatal(passedOn[i])
    BY DEF EventInv, EndedByFatal
  <2>2. CASE v # u
    BY <1>3, <1>13, <1>16, <2>1, <2>2
  <2>3. CASE v = u
    <3>1. \A i \in 1 .. n : ~ Fatal(passedOn[i])
      BY <1>1, <2>1, <2>3 DEF n
    <3>2. /\ \A i \in 1 .. n + 1 : i \in 1 .. n \/ i = n + 1
          /\ (n + 1) - 1 = n /\ n + 1 # 0
      BY <1>2
    <3>3. passedOn' = passedOn /\ ReadCount(u)' = n + 1 /\ r = passedOn[n + 1]
      BY <1>3, <1>15 DEF r
    <3> QED
      BY <1>13, <2>3, <3>1, <3>2, <3>3
  <2> QED
    BY <2>2, <2>3
<1> QED
  BY <1>14, <1>17, <1>18, <1>19 DEF EventInv

LEMMA StutterStep ==
  ASSUME EventInv, UNCHANGED <<reported, passedOn, toServer, toClient, running, stored>>
  PROVE  EventInv'
<1>1. \A u \in Clients : SentCount(u)' = SentCount(u) /\ ReadCount(u)' = ReadCount(u)
  BY DEF SentCount, ReadCount
<1>2. Typed'
  BY DEF EventInv, Typed
<1>3. OnTheWay'
  BY <1>1 DEF EventInv, OnTheWay
<1>4. StoredRead'
  BY <1>1 DEF EventInv, StoredRead
<1>5. EndedByFatal'
  BY <1>1 DEF EventInv, EndedByFatal
<1> QED
  BY <1>2, <1>3, <1>4, <1>5 DEF EventInv

\* Every step keeps the invariant.
LEMMA EventInvStep == EventInv /\ [Next]_eventVars => EventInv'
<1> SUFFICES ASSUME EventInv, [Next]_eventVars PROVE EventInv'
  OBVIOUS
<1>1. ASSUME NEW u \in Clients, NEW e \in Events, Report(u, e) PROVE EventInv'
  BY <1>1, ReportStep
<1>2. ASSUME NEW u \in Clients, Process(u) PROVE EventInv'
  BY <1>2, ProcessStep
<1>3. ASSUME NEW u \in Clients, ServerResponse(u) PROVE EventInv'
  BY <1>3, ResponseStep
<1>4. ASSUME NEW u \in Clients, NEW of \in Clients, Summary(u, of) PROVE EventInv'
  BY <1>4, StutterStep DEF Summary
<1>5. CASE Rest
  BY <1>5, StutterStep DEF Rest, eventVars
<1>6. CASE UNCHANGED eventVars
  BY <1>6, StutterStep DEF eventVars
<1> QED
  BY <1>1, <1>2, <1>3, <1>4, <1>5, <1>6 DEF Next

LEMMA EventInvariance == EventSpec => []EventInv
<1>1. Init => EventInv
  BY InitEventInv
<1>2. EventInv /\ [Next]_eventVars => EventInv'
  BY EventInvStep
<1> QED
  BY <1>1, <1>2, PTL DEF EventSpec

-----------------------------------------------------------------------------
(***************************************************************************)
(* The theorems.                                                           *)
(***************************************************************************)
\* The description read is a line of the text, without the spaces around it.
LEMMA DescriptionType ==
  ASSUME NEW s \in Seq(Tokens)
  PROVE  DescriptionOf(s) # Word("blank")
<1> DEFINE found == {i \in DOMAIN s : Describes(s, i)}
<1>1. DescriptionOf(s) = IF found = {} THEN Word("") ELSE TrimmedLine(s[Max(found)])
  BY DEF DescriptionOf
<1>2. DOMAIN s = 1 .. Len(s) /\ Len(s) \in Nat /\ found \subseteq 1 .. Len(s)
  OBVIOUS
<1> HIDE DEF found
<1>3. CASE found = {}
  <2>1. Word("") # Word("blank")
    BY DEF Word, Field
  <2> QED
    BY <1>1, <1>3, <2>1
<1>4. CASE found # {}
  <2>1. \E m \in found : \A i \in found : i <= m
    BY <1>2, <1>4, Greatest
  <2>2. PICK m \in found : \A i \in found : i <= m
    BY <2>1
  <2>3. found \in SUBSET Int
    BY <1>2
  <2>4. Max(found) = m
    BY <2>2, <2>3, MaxIs
  <2>5. m \in 1 .. Len(s)
    BY <1>2, <2>2
  <2>6. s[m] \in Tokens
    BY <2>5
  <2>7. TrimmedLine(s[m]).value = Trim(s[m].value)
    BY <2>6, TrimmedIs
  <2>8. Trim(s[m].value) # "blank" /\ Word("blank").value = "blank"
    BY TrimEmpty DEF Word, Field
  <2>9. TrimmedLine(s[m]) # Word("blank")
    BY <2>7, <2>8
  <2> QED
    BY <1>1, <1>4, <2>4, <2>9
<1> QED
  BY <1>3, <1>4

LEMMA ReadableType ==
  ASSUME NEW e \in Readable
  PROVE  /\ {e.user, e.city, e.name} \cap Void = {}
         /\ \E d \in DOMAIN Time : e.date = Time[d]
         /\ {Word("blank"), Word("")} \cap {e.description} = {}
<1>1. PICK r \in Reports : Parses(ReadLines(r)) /\ e = ParseEventReport(ReadLines(r))
  BY DEF Readable
<1> DEFINE s == ReadLines(r)
<1>2. s \in Seq(Tokens)
  BY ReadLinesType
<1>3. Parses(s) /\ e = ParseEventReport(s)
  BY <1>1
<1> HIDE DEF s
<1>4. /\ e.user = ValueOf(s, "user") /\ e.city = ValueOf(s, "city")
      /\ e.name = ValueOf(s, "event name") /\ e.date = Time[ValueOf(s, "date time")]
      /\ e.description = DescriptionOf(s)
  BY <1>3 DEF ParseEventReport
<1>5. /\ e.user # "" /\ e.city # "" /\ e.name # ""
      /\ ValueOf(s, "date time") \in DOMAIN Time
      /\ ~ IsEmpty(e.description)
  BY <1>3, <1>4 DEF Parses
<1>6. e.user # "blank" /\ e.city # "blank" /\ e.name # "blank"
  BY <1>4, TrimEmpty DEF ValueOf
<1>7. e.description # Word("")
  <2>1. IsEmpty(Word(""))
    BY DEF IsEmpty, Word, Field
  <2> QED
    BY <1>5, <2>1
<1>8. e.description # Word("blank")
  BY <1>2, <1>4, DescriptionType
<1> QED
  BY <1>4, <1>5, <1>6, <1>7, <1>8 DEF Void

LEMMA ReadParts ==
  ASSUME EventInv, NEW u \in Clients
  PROVE  /\ ReadBy(u) \in Seq(Reports) /\ Len(ReadBy(u)) = ReadCount(u)
         /\ DOMAIN ReadBy(u) = 1 .. ReadCount(u)
         /\ \A i \in 1 .. ReadCount(u) : ReadBy(u)[i] = passedOn[i] /\ ReadBy(u)[i] \in Reports
<1> DEFINE n == ReadCount(u)
<1>1. n \in Nat /\ n <= Len(passedOn) /\ \A i \in 1 .. n : passedOn[i] \in Reports
  BY ReadCountType
<1>2. passedOn \in Seq(Reports)
  BY DEF EventInv, Typed
<1>3. ReadBy(u) = SubSeq(passedOn, 1, n)
  BY DEF ReadBy, ReadCount
<1> HIDE DEF n
<1>4. SubSeq(passedOn, 1, n) = [i \in 1 .. n |-> passedOn[i]]
  <2>1. SubSeq(passedOn, 1, n) = [i \in 1 .. (1 + n) - 1 |-> passedOn[(i + 1) - 1]]
    BY <1>1, <1>2
  <2> QED
    BY <1>1, <1>2
<1>5. [i \in 1 .. n |-> passedOn[i]] \in Seq(Reports)
  BY <1>1
<1> QED
  BY <1>1, <1>3, <1>4, <1>5 DEF n

-----------------------------------------------------------------------------
(***************************************************************************)
(* Frames without a body.                                                  *)
(***************************************************************************)
LEMMA TerminatedType ==
  ASSUME NEW E, NL \in E, NEW ls \in Seq(E)
  PROVE  Terminated(ls) \in Seq(E)
<1> DEFINE Y == Seq(E)
<1>1. Ended(ls) = [i \in 1 .. Len(ls) |-> <<ls[i], NL>>] /\ Len(ls) \in Nat
  BY DEF Ended
<1>2. \A i \in 1 .. Len(ls) : <<ls[i], NL>> \in Y
  OBVIOUS
<1> HIDE DEF Y
<1>3. [i \in 1 .. Len(ls) |-> <<ls[i], NL>>] \in [1 .. Len(ls) -> Y]
  BY <1>2
<1>4. Ended(ls) \in [1 .. Len(ls) -> Y] /\ Len(ls) \in Nat
  BY <1>1, <1>3
<1>5. Ended(ls) \in Seq(Y)
  BY <1>4, SeqDef
<1>6. FlattenSeq(Ended(ls)) \in Seq(E)
  BY <1>5, FlattenType DEF Y
<1> QED
  BY <1>6 DEF Terminated, Ended

\* An empty line with something behind it starts a body.
LEMMA BodyStarts ==
  ASSUME NEW E, NEW p \in Seq(E), NEW n \in 2 .. Len(p) - 2, EmptyLineAt(p, n)
  PROVE  BodyIndex(p) # 0
<1> DEFINE ends == {i \in 2 .. Len(p) - 2 : EmptyLineAt(p, i)}
<1>1. n \in ends /\ ends \subseteq Nat
  OBVIOUS
<1>2. BodyIndex(p) = IF ends = {} THEN 0 ELSE Min(ends) + 2
  BY DEF BodyIndex
<1> HIDE DEF ends
<1>3. PICK m \in ends : \A i \in ends : m <= i
  BY <1>1, LeastNatural
<1>4. Min(ends) = m
  <2>1. ends \in SUBSET Int
    BY <1>1
  <2> QED
    BY <1>3, <2>1, MinIs
<1> QED
  BY <1>1, <1>2, <1>3, <1>4

\* What the server answers ends in an empty line and the NUL, which the client
\* takes for a body.
LEMMA AnswerReadable ==
  ASSUME NEW E, NL \in E, NUL \in E, NEW ls \in Seq(E), NEW l \in E, ~ IsNL(l)
  PROVE  ~ ClientParseThrows(Split(Terminated(ls \o <<l>>) \o <<NL>> \o << >> \o <<NUL>>))
<1> DEFINE a == Terminated(ls)
           x == <<l, NL>>
           y == <<NL>>
           k == <<l, NL, NL>>
           z == <<NUL>>
           q == Split(a)
           w == Split(z)
           f == a \o k
           g == q \o k
           t == f \o z
           p == g \o w
<1>1. a \in Seq(E)
  BY TerminatedType
<1>2. x \in Seq(E) /\ y \in Seq(E) /\ k \in Seq(E) /\ z \in Seq(E) /\ <<l>> \in Seq(E)
  OBVIOUS
<1>3. Len(k) = 3 /\ k[2] = NL /\ k[3] = NL /\ k[1] = l /\ Len(z) = 1 /\ z[1] = NUL
  OBVIOUS
<1>4. IsNL(NL) /\ ~ IsNL(NUL)
  BY LineEndType
<1>5. Terminated(ls \o <<l>>) = a \o x
  <2>1. Terminated(ls \o <<l>>) = Terminated(ls) \o Terminated(<<l>>)
    BY <1>2, TerminatedConcat
  <2> QED
    BY <2>1, TerminatedOne
<1>6. x \o y = k
  BY MoreEnds
<1>7. Split(k) = k
  BY SplitEnded
<1> HIDE DEF a, x, y, k, z
<1>8. (a \o x) \o y = a \o (x \o y)
  BY <1>1, <1>2, ConcatAssociative
<1>9. f \in Seq(E) /\ f \o << >> = f
  <2>1. f \in Seq(E)
    BY <1>1, <1>2, ConcatProperties
  <2> QED
    BY <2>1, ConcatEmptySeq
<1> HIDE DEF f
<1>10. Terminated(ls \o <<l>>) \o <<NL>> \o << >> \o <<NUL>> = t
  BY <1>5, <1>6, <1>8, <1>9 DEF f, y, z
<1>11. q \in Seq(E)
  BY <1>1, PartsType
<1>12. Split(f) = q \o k
  <2>1. Len(k) # 0 /\ ~ IsNL(k[1])
    BY <1>3
  <2>2. Split(a \o k) = Split(a) \o Split(k)
    BY <1>1, <1>2, <2>1, SplitConcat
  <2> QED
    BY <1>7, <2>2 DEF f
<1>13. w \in Seq(E) /\ Len(w) \in Nat \ {0}
  <2>1. Len(z) # 0 /\ ~ IsNL(z[1])
    BY <1>4, <1>3
  <2> QED
    BY <1>2, <2>1, PartsType, SplitHead
<1>14. Split(t) = p
  <2>1. Len(z) # 0 /\ ~ IsNL(z[1])
    BY <1>4, <1>3
  <2>2. Split(f \o z) = Split(f) \o Split(z)
    BY <1>2, <1>9, <2>1, SplitConcat
  <2> QED
    BY <1>12, <2>2
<1> HIDE DEF t, q, w
<1>15. /\ g \in Seq(E) /\ Len(q) \in Nat /\ Len(g) = Len(q) + 3
       /\ g[Len(q) + 2] = NL /\ g[Len(q) + 3] = NL
  <2>1. k \in Seq(E)
    BY <1>2
  <2>2. /\ g \in Seq(E) /\ Len(q) \in Nat /\ Len(g) = Len(q) + Len(k)
        /\ \A i \in 1 .. Len(k) : g[Len(q) + i] = k[i]
    BY <1>11, <2>1, ConcatParts
  <2> QED
    BY <1>3, <2>2
<1> HIDE DEF g
<1>16. /\ p \in Seq(E) /\ Len(p) = Len(g) + Len(w) /\ \A i \in 1 .. Len(g) : p[i] = g[i]
  <2>1. g \in Seq(E) /\ w \in Seq(E)
    BY <1>13, <1>15
  <2> QED
    BY <2>1, ConcatParts
<1> HIDE DEF p
<1> DEFINE n == Len(q) + 2
<1>17. n \in 2 .. Len(p) - 2 /\ n + 1 \in DOMAIN p
  BY <1>13, <1>15, <1>16
<1>18. p[n] = NL /\ p[n + 1] = NL
  BY <1>15, <1>16
<1>19. EmptyLineAt(p, n)
  BY <1>4, <1>17, <1>18 DEF EmptyLineAt
<1> HIDE DEF n
<1>20. BodyIndex(p) # 0
  BY <1>16, <1>17, <1>19, BodyStarts
<1> QED
  BY <1>10, <1>14, <1>20 DEF ClientParseThrows

LEMMA SeqMore ==
  ASSUME NEW E, NEW F, F \subseteq E, NEW s \in Seq(F)
  PROVE  s \in Seq(E)
<1>1. s \in [1 .. Len(s) -> F] /\ Len(s) \in Nat
  OBVIOUS
<1>2. s \in [1 .. Len(s) -> E]
  BY <1>1
<1> QED
  BY <1>1, <1>2, SeqDef

\* Lines with a colon, and line ends.
Keyed(F) == \A l \in F : l.key # ""

\* What the client commands has a colon in every line but the first.
LEMMA CommandReadable ==
  ASSUME NEW E, NEW F, F \subseteq E, NL \in F, Keyed(F),
         NEW c \in E, ~ IsNL(c), NEW h \in F, ~ IsNL(h), NEW ls \in Seq(F)
  PROVE  ~ ServerParseThrows(Split(Terminated(<<c>> \o (<<h>> \o ls)) \o <<NL, NL>> \o << >>))
<1> DEFINE y == <<NL, NL>>
           b == Terminated(ls)
           u == <<h, NL>>
           v == <<c, NL>>
           r == b \o y
           t == u \o r
           s == Split(t)
           p == v \o s
<1>1. NL \in E /\ h \in E
  OBVIOUS
<1>2. y \in Seq(F) /\ u \in Seq(F)
  OBVIOUS
<1>3. v \in Seq(E) /\ <<c>> \in Seq(E) /\ <<h>> \in Seq(E)
  BY <1>1
<1>4. b \in Seq(F)
  BY TerminatedType
<1>5. ls \in Seq(E) /\ y \in Seq(E) /\ u \in Seq(E) /\ b \in Seq(E)
  <2> HIDE DEF y, u, b
  <2> QED
    BY <1>2, <1>4, SeqMore
<1>6. Terminated(<<c>> \o (<<h>> \o ls)) = v \o (u \o b)
  <2> DEFINE x == <<c>>
             z == <<h>>
  <2>1. x \in Seq(E) /\ z \in Seq(E)
    BY <1>3
  <2>2. Terminated(x) = v /\ Terminated(z) = u
    BY <1>1, TerminatedOne
  <2> HIDE DEF x, z, v, u
  <2>3. z \o ls \in Seq(E)
    BY <1>5, <2>1, ConcatProperties
  <2>4. Terminated(x \o (z \o ls)) = Terminated(x) \o Terminated(z \o ls)
    BY <1>1, <2>1, <2>3, TerminatedConcat
  <2>5. Terminated(z \o ls) = Terminated(z) \o Terminated(ls)
    BY <1>1, <1>5, <2>1, TerminatedConcat
  <2> QED
    BY <2>2, <2>4, <2>5 DEF x, z
<1> HIDE DEF y, b, u, v
<1>7. r \in Seq(F)
  BY <1>2, <1>4, ConcatProperties
<1>8. (v \o (u \o b)) \o y = v \o t
  <2>1. u \o b \in Seq(E)
    BY <1>5, ConcatProperties
  <2>2. (v \o (u \o b)) \o y = v \o ((u \o b) \o y)
    <3> DEFINE d == u \o b
    <3>1. v \in Seq(E) /\ d \in Seq(E) /\ y \in Seq(E)
      BY <1>3, <1>5, <2>1
    <3> HIDE DEF d
    <3>2. (v \o d) \o y = v \o (d \o y)
      BY <3>1, ConcatAssociative
    <3> QED
      BY <3>2 DEF d
  <2>3. (u \o b) \o y = u \o (b \o y)
    BY <1>5, ConcatAssociative
  <2> QED
    BY <2>2, <2>3
<1> HIDE DEF r
<1>9. t \in Seq(F) /\ Len(t) # 0 /\ ~ IsNL(t[1])
  <2>1. /\ <<h, NL>> \o r \in Seq(F) /\ Len(<<h, NL>> \o r) = 2 + Len(r)
        /\ (<<h, NL>> \o r)[1] = h
    BY <1>7, PairFront
  <2>2. Len(r) \in Nat
    BY <1>7
  <2> DEFINE g == <<h, NL>> \o r
  <2>3. t = g
    BY DEF u
  <2> HIDE DEF g, t
  <2> QED
    BY <2>1, <2>2, <2>3 DEF g
<1> HIDE DEF t
<1>10. s \in Seq(F) /\ t \in Seq(E)
  BY <1>9, PartsType, SeqMore
<1>11. v \o t \in Seq(E) /\ Split(v \o t) = p
  <2>1. <<c, NL>> \o t \in Seq(E) /\ Split(<<c, NL>> \o t) = <<c, NL>> \o Split(t)
    BY <1>1, <1>9, <1>10, SplitPair
  <2> QED
    BY <2>1 DEF v
<1>12. Terminated(<<c>> \o (<<h>> \o ls)) \o <<NL, NL>> \o << >> = v \o t
  <2>1. (v \o t) \o << >> = v \o t
    BY <1>11, ConcatEmptySeq
  <2> QED
    BY <1>6, <1>8, <2>1 DEF y
<1> HIDE DEF s
<1>13. s \in Seq(E) /\ Len(s) \in Nat
  BY <1>10, SeqMore
<1>14. /\ p \in Seq(E) /\ Len(p) = 2 + Len(s) /\ p[2] = NL
       /\ \A i \in 1 .. Len(s) : p[2 + i] = s[i]
  BY <1>1, <1>13, PairFront DEF v
<1> HIDE DEF p
<1>15. ASSUME NEW i \in 2 .. Len(p) PROVE p[i] \in F
  <2>1. CASE i = 2
    BY <1>14, <2>1
  <2>2. CASE i # 2
    <3>1. i - 2 \in 1 .. Len(s) /\ i = 2 + (i - 2)
      BY <1>13, <1>14, <2>2
    <3>2. p[i] = s[i - 2]
      BY <1>14, <3>1
    <3> QED
      BY <1>10, <3>1, <3>2
  <2> QED
    BY <2>1, <2>2
<1>16. HeaderAt(p) \subseteq 2 .. Len(p)
  <2> DEFINE ends == {i \in 2 .. Len(p) - 2 : EmptyLineAt(p, i)}
  <2>1. BodyIndex(p) = IF ends = {} THEN 0 ELSE Min(ends) + 2
    BY DEF BodyIndex
  <2>2. Len(p) \in Nat
    BY <1>13, <1>14
  <2>3. ends \subseteq Nat /\ \A i \in ends : i <= Len(p)
    BY <2>2
  <2> HIDE DEF ends
  <2>4. CASE ends = {}
    BY <2>1, <2>4 DEF HeaderAt
  <2>5. CASE ends # {}
    <3>1. PICK m \in ends : \A i \in ends : m <= i
      BY <2>3, <2>5, LeastNatural
    <3>2. Min(ends) = m
      <4>1. ends \in SUBSET Int
        BY <2>3
      <4> QED
        BY <3>1, <4>1, MinIs
    <3>3. m \in Nat /\ m <= Len(p) /\ BodyIndex(p) = m + 2
      BY <2>1, <2>3, <2>5, <3>2
    <3> QED
      BY <2>2, <3>3 DEF HeaderAt
  <2> QED
    BY <2>4, <2>5
<1> QED
  BY <1>11, <1>12, <1>15, <1>16 DEF ServerParseThrows, Keyed

\* Every answer without a body can be read by the client.
LEMMA AnswersReadable == \A f \in AnswerFrames : ~ ClientParseThrows(Split(f))
<1> SUFFICES ASSUME NEW f \in AnswerFrames PROVE ~ ClientParseThrows(Split(f))
  OBVIOUS
<1> DEFINE version == Field("version", "1.2")
           receipt == Field("receipt-id", "0")
           message == Field("message", "refused")
<1>1. ~ IsNL(version) /\ ~ IsNL(receipt) /\ ~ IsNL(message)
  BY DEF Field, IsNL
<1>2. ASSUME NEW c, NEW l, ~ IsNL(l)
      PROVE  ~ ClientParseThrows(Split(ServerFrame(c, <<l>>, << >>)))
  <2> DEFINE w == Word(c)
             E == {w, l, NL, NUL}
  <2>1. NL \in E /\ NUL \in E /\ l \in E /\ <<w>> \in Seq(E)
    OBVIOUS
  <2>2. ServerFrame(c, <<l>>, << >>) = Terminated(<<w>> \o <<l>>) \o <<NL>> \o << >> \o <<NUL>>
    BY DEF ServerFrame
  <2> HIDE DEF E, w
  <2> QED
    BY <1>2, <2>1, <2>2, AnswerReadable
<1>3. ASSUME NEW c, NEW k, NEW l, ~ IsNL(l)
      PROVE  ~ ClientParseThrows(Split(ServerFrame(c, <<k, l>>, << >>)))
  <2> DEFINE w == Word(c)
             E == {w, k, l, NL, NUL}
  <2>1. NL \in E /\ NUL \in E /\ w \in E /\ k \in E /\ l \in E
    OBVIOUS
  <2>2. ServerFrame(c, <<k, l>>, << >>)
          = Terminated(<<w>> \o <<k, l>>) \o <<NL>> \o << >> \o <<NUL>>
    BY DEF ServerFrame
  <2> HIDE DEF E, w
  <2>3. <<k>> \in Seq(E) /\ <<w>> \in Seq(E) /\ <<l>> \in Seq(E) /\ <<k, l>> = <<k>> \o <<l>>
    BY <2>1, PairSplit
  <2>4. <<w>> \o <<k, l>> = (<<w>> \o <<k>>) \o <<l>>
    <3> DEFINE a == <<w>>
               b == <<k>>
               d == <<l>>
    <3>1. a \in Seq(E) /\ b \in Seq(E) /\ d \in Seq(E)
      BY <2>3
    <3> HIDE DEF a, b, d
    <3>2. (a \o b) \o d = a \o (b \o d)
      BY <3>1, ConcatAssociative
    <3> QED
      BY <2>3, <3>2 DEF a, b, d
  <2>5. <<w>> \o <<k>> \in Seq(E)
    BY <2>3, ConcatProperties
  <2> QED
    BY <1>3, <2>1, <2>2, <2>4, <2>5, AnswerReadable
<1> HIDE DEF version, receipt, message
<1>4. CASE f = ConnectedFrame
  BY <1>1, <1>2, <1>4 DEF ConnectedFrame, version
<1>5. CASE f = ReceiptFrame
  BY <1>1, <1>2, <1>5 DEF ReceiptFrame, receipt
<1>6. CASE f \in ErrorFrames
  <2>1. \/ f = ServerFrame("ERROR", <<message>>, << >>)
        \/ f = ServerFrame("ERROR", <<receipt, message>>, << >>)
        \/ f = ServerFrame("ERROR", <<message, receipt>>, << >>)
    BY <1>6 DEF ErrorFrames, receipt, message
  <2> QED
    BY <1>1, <1>2, <1>3, <2>1
<1> QED
  BY <1>4, <1>5, <1>6 DEF AnswerFrames

\* Every command of the client without a body can be read by the server.
LEMMA CommandsReadable ==
  \A u \in Clients : \A f \in CommandFrames(u) : ~ ServerParseThrows(Split(f))
<1> SUFFICES ASSUME NEW u \in Clients, NEW f \in CommandFrames(u)
             PROVE  ~ ServerParseThrows(Split(f))
  OBVIOUS
<1> DEFINE accept == Field("accept-version", "1.2")
           host == Field("host", "stomp.cs.bgu.ac.il")
           login == Field("login", u)
           passcode == Field("passcode", u)
           destination == Field("destination", Channel)
           id == Field("id", "0")
           receipt == Field("receipt", "0")
           F == {NL, accept, host, login, passcode, destination, id, receipt}
<1>1. NL \in F /\ accept \in F /\ host \in F /\ login \in F /\ passcode \in F
      /\ destination \in F /\ id \in F /\ receipt \in F
  OBVIOUS
<1>2. /\ NL.key = "NL" /\ accept.key = "accept-version" /\ host.key = "host"
      /\ login.key = "login" /\ passcode.key = "passcode" /\ destination.key = "destination"
      /\ id.key = "id" /\ receipt.key = "receipt"
  BY DEF Field, NL
<1>3. Keyed(F)
  BY <1>2 DEF Keyed
<1>4. ~ IsNL(accept) /\ ~ IsNL(destination) /\ ~ IsNL(id) /\ ~ IsNL(receipt)
  BY <1>2 DEF IsNL
<1> HIDE DEF accept, host, login, passcode, destination, id, receipt, F
<1>5. ASSUME NEW c, NEW h \in F, ~ IsNL(h), NEW ls \in Seq(F), NEW hs, hs = <<h>> \o ls
      PROVE  ~ ServerParseThrows(Split(ClientFrame(c, hs, << >>)))
  <2>1. ~ IsNL(Word(c))
    BY DEF IsNL, Word, Field
  <2>2. ClientFrame(c, hs, << >>)
          = Terminated(<<Word(c)>> \o (<<h>> \o ls)) \o <<NL, NL>> \o << >>
    BY <1>5 DEF ClientFrame
  <2> DEFINE w == Word(c)
             E == F \cup {w}
  <2>3. F \subseteq E /\ w \in E /\ ~ IsNL(w)
    BY <2>1
  <2> HIDE DEF w, E
  <2>4. ~ ServerParseThrows(Split(Terminated(<<w>> \o (<<h>> \o ls)) \o <<NL, NL>> \o << >>))
    BY <1>1, <1>3, <1>5, <2>3, CommandReadable
  <2> QED
    BY <2>2, <2>4 DEF w
<1>6. /\ <<host, login, passcode>> \in Seq(F)
      /\ <<accept, host, login, passcode>> = <<accept>> \o <<host, login, passcode>>
  BY <1>1
<1>7. /\ <<id, receipt>> \in Seq(F)
      /\ <<destination, id, receipt>> = <<destination>> \o <<id, receipt>>
  BY <1>1, TripleSplit
<1>8. <<receipt>> \in Seq(F) /\ <<id, receipt>> = <<id>> \o <<receipt>>
  BY <1>1, PairSplit
<1>9. << >> \in Seq(F) /\ <<receipt>> = <<receipt>> \o << >>
  BY <1>8, ConcatEmptySeq
<1>10. CASE f = ConnectFrame(u)
  BY <1>1, <1>4, <1>5, <1>6, <1>10 DEF ConnectFrame, accept, host, login, passcode
<1>11. CASE f = SubscribeFrame
  BY <1>1, <1>4, <1>5, <1>7, <1>11 DEF SubscribeFrame, destination, id, receipt
<1>12. CASE f = UnsubscribeFrame
  BY <1>1, <1>4, <1>5, <1>8, <1>12 DEF UnsubscribeFrame, id, receipt
<1>13. CASE f = DisconnectFrame
  BY <1>1, <1>4, <1>5, <1>9, <1>13 DEF DisconnectFrame, receipt
<1> QED
  BY <1>10, <1>11, <1>12, <1>13 DEF CommandFrames

\* Every frame can be parsed by the program that gets it.
THEOREM FramesReadableAlways == EventSpec => []FramesReadable
<1>1. EventInv => FramesReadable
  <2> SUFFICES ASSUME EventInv, NEW u \in Clients
               PROVE  /\ \A i \in DOMAIN toServer[u] :
                           LET parts == Split(toServer[u][i]) IN
                           /\ ~ ServerParseThrows(parts)
                           /\ Body(parts) # << >> /\ Body(parts)[1] = Field("user", u)
                      /\ \A i \in DOMAIN toClient[u] :
                           LET parts == Split(toClient[u][i]) IN
                           /\ ~ ClientParseThrows(parts)
                           /\ Body(parts) # << >> /\ Body(parts)[1].key = "user"
    BY AnswersReadable, CommandsReadable DEF FramesReadable
  <2>1. /\ toServer[u] \in Seq(Seq(Tokens)) /\ toClient[u] \in Seq(Seq(Tokens))
        /\ reported[u] \in Seq({e \in Events : Complete(e)}) /\ passedOn \in Seq(Reports)
    BY DEF EventInv, Typed
  <2>2. ASSUME NEW i \in DOMAIN toServer[u]
        PROVE  \E r \in Reports : toServer[u][i] = SendText(r) /\ r.user = u
    <3> DEFINE a == Len(reported[u])
               b == Len(toServer[u])
               c == SentCount(u)
               r == [user |-> u, event |-> reported[u][c + i]]
    <3>1. a \in Nat /\ b \in Nat /\ i \in 1 .. b
      BY <2>1
    <3>2. b <= a /\ \A j \in 1 .. b :
                      toServer[u][j] = SendText([user |-> u, event |-> reported[u][c + j]])
      BY DEF EventInv, OnTheWay
    <3>3. c = a - b
      BY DEF SentCount
    <3>4. toServer[u][i] = SendText(r)
      BY <3>1, <3>2
    <3> HIDE DEF b, c
    <3>5. c + i \in 1 .. Len(reported[u])
      <4> HIDE DEF a
      <4>1. c + i \in 1 .. a
        BY <3>1, <3>2, <3>3
      <4> QED
        BY <4>1 DEF a
    <3>6. reported[u][c + i] \in {e \in Events : Complete(e)}
      BY <2>1, <3>5
    <3>7. r \in Reports /\ r.user = u
      BY <3>6 DEF Reports
    <3> QED
      BY <3>4, <3>7
  <2>3. ASSUME NEW i \in DOMAIN toClient[u]
        PROVE  \E r \in Reports : toClient[u][i] = MessageText(r)
    <3> DEFINE a == Len(passedOn)
               b == Len(toClient[u])
               c == ReadCount(u)
    <3>1. a \in Nat /\ b \in Nat /\ i \in 1 .. b
      BY <2>1
    <3>2. b <= a /\ \A j \in 1 .. b : toClient[u][j] = MessageText(passedOn[c + j])
      BY DEF EventInv, OnTheWay
    <3>3. c = a - b
      BY DEF ReadCount
    <3>4. toClient[u][i] = MessageText(passedOn[c + i])
      BY <3>1, <3>2
    <3> HIDE DEF b, c
    <3>5. c + i \in 1 .. Len(passedOn)
      <4> HIDE DEF a
      <4>1. c + i \in 1 .. a
        BY <3>1, <3>2, <3>3
      <4> QED
        BY <4>1 DEF a
    <3>6. passedOn[c + i] \in Reports
      BY <2>1, <3>5
    <3> QED
      BY <3>4, <3>6
  <2>4. ASSUME NEW r \in Reports
        PROVE  LET parts == Split(SendText(r)) IN
               /\ ~ ServerParseThrows(parts)
               /\ Body(parts) # << >> /\ Body(parts)[1] = Field("user", r.user)
    <3>1. ReadBody(r) # << >>
      BY ReadBodyLines, EmptySeq
    <3> QED
      BY <3>1, SendRead, ReadBodyLines
  <2>5. ASSUME NEW r \in Reports
        PROVE  LET parts == Split(MessageText(r)) IN
               /\ ~ ClientParseThrows(parts)
               /\ Body(parts) # << >> /\ Body(parts)[1].key = "user"
    <3>1. MessageParts(r) # << >>
      BY PartsLines, EmptySeq
    <3>2. Field("user", r.user).key = "user"
      BY DEF Field
    <3> QED
      BY <3>1, <3>2, MessageRead, PartsLines
  <2> QED
    BY <2>2, <2>3, <2>4, <2>5
<1> QED
  BY <1>1, EventInvariance, PTL

\* What is stored can be shown in a summary.
THEOREM StoredReadable == EventSpec => []EventsTypeOK
<1>1. EventInv => EventsTypeOK
  <2> SUFFICES ASSUME EventInv PROVE EventsTypeOK
    OBVIOUS
  <2>1. running \in [Clients -> BOOLEAN] /\ stored \in [Clients -> [Channels -> Seq(Readable)]]
    BY DEF EventInv, Typed
  <2>2. ASSUME NEW u \in Clients, NEW ch \in Channels, NEW i \in DOMAIN stored[u][ch]
        PROVE  stored[u][ch][i] \in Readable
    <3>1. stored[u][ch] \in Seq(Readable)
      BY <2>1
    <3> QED
      BY <3>1
  <2> QED
    BY <2>1, <2>2, ReadableType DEF EventsTypeOK
<1> QED
  BY <1>1, EventInvariance, PTL

\* A program ends at the first report nobody can read, and for no other reason.
THEOREM EndedByTheFirstFatal == EventSpec => []FatalReportsEnd
<1>1. EventInv => FatalReportsEnd
  <2> SUFFICES ASSUME EventInv, NEW u \in Clients
               PROVE  LET read == ReadBy(u) IN
                      /\ running[u] => \A i \in DOMAIN read : ~ Fatal(read[i])
                      /\ ~ running[u] =>
                           /\ read # << >> /\ Fatal(Last(read))
                           /\ \A i \in 1 .. Len(read) - 1 : ~ Fatal(read[i])
    BY DEF FatalReportsEnd
  <2> DEFINE n == ReadCount(u)
             read == ReadBy(u)
  <2>1. /\ read \in Seq(Reports) /\ Len(read) = n /\ DOMAIN read = 1 .. n
        /\ \A i \in 1 .. n : read[i] = passedOn[i]
    BY ReadParts
  <2>2. /\ running[u] => \A i \in 1 .. n : ~ Fatal(passedOn[i])
        /\ ~ running[u] =>
             /\ n # 0 /\ Fatal(passedOn[n])
             /\ \A i \in 1 .. n - 1 : ~ Fatal(passedOn[i])
    BY DEF EventInv, EndedByFatal
  <2>3. n \in Nat
    BY ReadCountType
  <2>4. n # 0 => n \in 1 .. n /\ \A i \in 1 .. n - 1 : i \in 1 .. n
    BY <2>3
  <2> HIDE DEF n, read
  <2>5. n # 0 => read # << >>
    BY <2>1
  <2>6. Last(read) = read[n]
    BY <2>1 DEF Last
  <2> QED
    BY <2>1, <2>2, <2>4, <2>5, <2>6 DEF read
<1> QED
  BY <1>1, EventInvariance, PTL

\* A report of a plain description is stored as it was reported, and what is
\* stored is in the order in which the server passed the reports on.
LEMMA IntactRead ==
  ASSUME EventInv, NEW u \in Clients, \A i \in DOMAIN ReadBy(u) : Plain(ReadBy(u)[i].event)
  PROVE  stored[u][Channel]
           = Selected([i \in DOMAIN ReadBy(u) |-> Projection(ReadBy(u)[i])],
                      {i \in DOMAIN ReadBy(u) : ~ Fatal(ReadBy(u)[i])})
<1> DEFINE n == ReadCount(u)
           read == ReadBy(u)
           f == ReadingsOf(passedOn, n)
           g == [i \in DOMAIN read |-> Projection(read[i])]
           I == {i \in 1 .. n : Taken(passedOn[i])}
           J == {i \in DOMAIN read : ~ Fatal(read[i])}
<1>1. /\ DOMAIN read = 1 .. n
      /\ \A i \in 1 .. n : read[i] = passedOn[i] /\ read[i] \in Reports
  BY ReadParts
<1>2. stored[u][Channel] = Selected(f, I)
  BY DEF EventInv, StoredRead, Filed
<1>3. ASSUME NEW i \in 1 .. n
      PROVE  i \in I <=> i \in J
  <2>1. read[i] \in Reports /\ Plain(read[i].event) /\ read[i] = passedOn[i]
    BY <1>1
  <2>2. Taken(read[i]) <=> ~ Fatal(read[i])
    BY <2>1, PlainRead DEF Taken
  <2> QED
    BY <1>1, <2>1, <2>2
<1>4. ASSUME NEW i \in 1 .. n, i \in J
      PROVE  f[i] = g[i]
  <2>1. read[i] \in Reports /\ Plain(read[i].event) /\ read[i] = passedOn[i] /\ ~ Fatal(read[i])
    BY <1>1, <1>4
  <2>2. ParseEventReport(ReadLines(read[i])) = Projection(read[i])
    BY <2>1, PlainRead
  <2> QED
    BY <1>1, <2>1, <2>2 DEF ReadingsOf
<1>5. DOMAIN f = 1 .. n /\ DOMAIN g = 1 .. n
  BY <1>1 DEF ReadingsOf
<1> HIDE DEF f, g, I, J, n
<1>6. [i \in 1 .. n |-> IF i \in I THEN <<f[i]>> ELSE << >>]
        = [i \in 1 .. n |-> IF i \in J THEN <<g[i]>> ELSE << >>]
  BY <1>3, <1>4
<1>7. Selected(f, I) = Selected(g, J)
  BY <1>5, <1>6 DEF Selected
<1> QED
  BY <1>2, <1>7 DEF g, J

THEOREM ReportsIntactAlways == EventSpec => []ReportsIntact
<1>1. EventInv => ReportsIntact
  BY IntactRead DEF ReportsIntact
<1> QED
  BY <1>1, EventInvariance, PTL

-----------------------------------------------------------------------------
(***************************************************************************)
(* The summary.                                                            *)
(***************************************************************************)
\* q counts the members of T off, each one once.
CountsOff(q, m, T) ==
  /\ q \in [1 .. m -> T]
  /\ \A a, b \in 1 .. m : q[a] = q[b] => a = b
  /\ \A t \in T : \E a \in 1 .. m : q[a] = t

\* Counted off this way, A becomes B.
Matches(q, m, T, A, B) ==
  /\ CountsOff(q, m, T)
  /\ A \subseteq 1 .. m /\ B \subseteq T
  /\ \A a \in 1 .. m : a \in A <=> q[a] \in B

LEMMA CountedOff ==
  ASSUME NEW m \in Nat, NEW T, NEW q, NEW A, NEW B, Matches(q, m, T, A, B)
  PROVE  Cardinality(A) = Cardinality(B)
<1> DEFINE h == [a \in A |-> q[a]]
<1>1. /\ q \in [1 .. m -> T]
      /\ \A a, b \in 1 .. m : q[a] = q[b] => a = b
      /\ \A t \in T : \E a \in 1 .. m : q[a] = t
  BY DEF CountsOff, Matches
<1>2. A \subseteq 1 .. m /\ B \subseteq T /\ \A a \in 1 .. m : a \in A <=> q[a] \in B
  BY DEF Matches
<1>3. IsFiniteSet(A)
  <2>1. 1 \in Int /\ m \in Int
    OBVIOUS
  <2>2. IsFiniteSet(1 .. m)
    BY <2>1, FS_Interval
  <2> QED
    BY <1>2, <2>2, FS_Subset
<1>4. h \in [A -> B] /\ DOMAIN h = A /\ \A a \in A : h[a] = q[a]
  BY <1>1, <1>2
<1> HIDE DEF h
<1>5. h \in Injection(A, B)
  <2>1. IsInjective(h)
    BY <1>4, <1>1, <1>2 DEF IsInjective
  <2> QED
    BY <1>4, <2>1 DEF Injection
<1>6. h \in Surjection(A, B)
  <2>1. \A t \in B : \E a \in A : h[a] = t
    BY <1>4, <1>1, <1>2
  <2> QED
    BY <1>4, <2>1 DEF Surjection
<1>7. ExistsBijection(A, B)
  BY <1>5, <1>6 DEF ExistsBijection, Bijection
<1> QED
  BY <1>3, <1>7, FS_Bijection

\* An injection of an interval into itself leaves nothing out.
LEMMA Permuted ==
  ASSUME NEW m \in Nat, NEW p \in [1 .. m -> 1 .. m], IsInjective(p)
  PROVE  /\ \A a, b \in 1 .. m : p[a] = p[b] => a = b
         /\ \A i \in 1 .. m : \E a \in 1 .. m : p[a] = i
<1> DEFINE D == 1 .. m
<1>1. IsFiniteSet(D)
  <2>1. 1 \in Int /\ m \in Int
    OBVIOUS
  <2> QED
    BY <2>1, FS_Interval
<1>2. p \in [D -> D]
  OBVIOUS
<1> HIDE DEF D
<1>3. p \in Injection(D, D)
  BY <1>2 DEF Injection
<1>4. p \in Surjection(D, D)
  BY <1>1, <1>3, FS_Injection
<1>5. \A i \in D : \E a \in D : p[a] = i
  BY <1>4 DEF Surjection
<1>6. \A a, b \in D : p[a] = p[b] => a = b
  BY <1>2 DEF IsInjective
<1> QED
  BY <1>5, <1>6 DEF D

\* As long as it runs, a client has stored every report it has read.
LEMMA PlainStored ==
  ASSUME EventInv, NEW u \in Clients, running[u],
         \A i \in DOMAIN ReadBy(u) : Plain(ReadBy(u)[i].event)
  PROVE  stored[u][Channel] = [i \in DOMAIN ReadBy(u) |-> Projection(ReadBy(u)[i])]
<1> DEFINE n == ReadCount(u)
           read == ReadBy(u)
           X == {Projection(r) : r \in Reports}
           p == [i \in 1 .. n |-> Projection(read[i])]
           J == {i \in DOMAIN read : ~ Fatal(read[i])}
<1>1. /\ DOMAIN read = 1 .. n
      /\ \A i \in 1 .. n : read[i] = passedOn[i] /\ read[i] \in Reports
  BY ReadParts
<1>2. stored[u][Channel] = Selected([i \in DOMAIN read |-> Projection(read[i])], J)
  BY IntactRead
<1>3. \A i \in 1 .. n : ~ Fatal(passedOn[i])
  BY DEF EventInv, EndedByFatal
<1>4. \A i \in 1 .. n : i \in J
  BY <1>1, <1>3
<1>5. n \in Nat
  BY ReadCountType
<1>6. \A i \in 1 .. n : Projection(read[i]) \in X
  BY <1>1
<1> HIDE DEF n, X, J
<1>7. p \in Seq(X) /\ DOMAIN p = 1 .. n
  BY <1>5, <1>6
<1>8. p = [i \in DOMAIN read |-> Projection(read[i])]
  BY <1>1
<1> HIDE DEF p
<1>9. Selected(p, J) = p
  BY <1>4, <1>7, SelectedAll
<1> QED
  BY <1>2, <1>8, <1>9

\* The reports of a user that a reader has stored are those it has read.
Mine(u, of) == {i \in DOMAIN ReadBy(u) : ReadBy(u)[i].user = of}

LEMMA MineStored ==
  ASSUME EventInv, NEW u \in Clients, NEW of \in Clients, running[u],
         \A i \in DOMAIN ReadBy(u) : Plain(ReadBy(u)[i].event)
  PROVE  LET es == ByUser(u, of) IN
         /\ Len(es) \in Nat /\ DOMAIN es = 1 .. Len(es)
         /\ \E q \in [1 .. Len(es) -> Mine(u, of)] :
              /\ \A a, b \in 1 .. Len(es) : q[a] = q[b] => a = b
              /\ \A i \in Mine(u, of) : \E a \in 1 .. Len(es) : q[a] = i
              /\ \A a \in 1 .. Len(es) : es[a] = Projection(ReadBy(u)[q[a]])
<1> DEFINE n == ReadCount(u)
           read == ReadBy(u)
           X == {Projection(r) : r \in Reports}
           p == [i \in DOMAIN read |-> Projection(read[i])]
           I == {i \in DOMAIN p : p[i].user = of}
           es == ByUser(u, of)
           M == Mine(u, of)
<1>1. /\ DOMAIN read = 1 .. n
      /\ \A i \in 1 .. n : read[i] \in Reports
  BY ReadParts
<1>2. n \in Nat
  BY ReadCountType
<1>3. stored[u][Channel] = p
  BY PlainStored
<1>4. es = Selected(p, I)
  BY <1>3 DEF ByUser
<1>5. p \in Seq(X) /\ Len(p) = n /\ DOMAIN p = 1 .. n /\ \A i \in 1 .. n : p[i] = Projection(read[i])
  <2>1. p = [i \in 1 .. n |-> Projection(read[i])]
    BY <1>1
  <2>2. \A i \in 1 .. n : Projection(read[i]) \in X
    BY <1>1
  <2> HIDE DEF X
  <2>3. [i \in 1 .. n |-> Projection(read[i])] \in Seq(X)
    BY <1>2, <2>2
  <2> QED
    BY <1>2, <2>1, <2>3
<1>6. \A r : Projection(r).user = r.user
  BY DEF Projection
<1>7. \A i \in 1 .. n : i \in I <=> i \in M
  BY <1>1, <1>5, <1>6 DEF Mine
<1>8. M \subseteq 1 .. n
  BY <1>1 DEF Mine
<1> HIDE DEF n, read, X, p, I, es, M
<1>9. p \in Seq(X)
  BY <1>5
<1>10. PICK q : Renumbers(q, es, p, I)
  BY <1>4, <1>9, SelectedRenumbers
<1>11. es \in Seq(X)
  BY <1>4, <1>9, SelectedType
<1>12. Len(es) \in Nat /\ DOMAIN es = 1 .. Len(es)
  BY <1>11
<1>13. /\ q \in [1 .. Len(es) -> {i \in 1 .. n : i \in I}]
       /\ \A a, b \in 1 .. Len(es) : q[a] = q[b] => a = b
       /\ \A i \in 1 .. n : i \in I => \E a \in 1 .. Len(es) : q[a] = i
       /\ \A a \in 1 .. Len(es) : es[a] = p[q[a]]
  BY <1>5, <1>10 DEF Renumbers
<1>14. {i \in 1 .. n : i \in I} = M
  BY <1>7, <1>8
<1>15. q \in [1 .. Len(es) -> M]
  BY <1>13, <1>14
<1>16. \A i \in M : \E a \in 1 .. Len(es) : q[a] = i
  BY <1>7, <1>8, <1>13
<1>17. \A a \in 1 .. Len(es) : es[a] = Projection(read[q[a]])
  BY <1>5, <1>8, <1>13, <1>15
<1> QED
  BY <1>12, <1>13, <1>15, <1>16, <1>17 DEF es, M, read

\* What SummaryExact says of a summary s of the reports of a reader.
Accounts(s, read) ==
  LET mine == {i \in DOMAIN read : read[i].user = s.of}
      CountReported(key) == Cardinality({i \in mine : read[i].event[key] = "true"})
  IN  /\ s.total = Cardinality(mine)
      /\ s.active = CountReported("active")
      /\ s.forces = CountReported("forces")
      /\ \A i \in mine :
           Cardinality({j \in DOMAIN s.reports : s.reports[j] = Projection(read[i])})
             = Cardinality({j \in mine : Projection(read[j]) = Projection(read[i])})
      /\ \A i, j \in DOMAIN s.reports :
           i < j => s.reports[i].date <= s.reports[j].date

LEMMA SummaryStep ==
  ASSUME EventInv, NEW u \in Clients, NEW of \in Clients, Summary(u, of),
         \A i \in DOMAIN ReadBy(u) : Plain(ReadBy(u)[i].event)
  PROVE  summary'.reader = u /\ Accounts(summary', ReadBy(u))
<1> DEFINE es == ByUser(u, of)
           read == ReadBy(u)
           M == Mine(u, of)
           m == Len(es)
<1>1. /\ running[u]
      /\ \E order \in Sorted(es) :
           summary' = [reader |-> u, of |-> of, total |-> Len(es),
                       active |-> CountTrue(es, "active"),
                       forces |-> CountTrue(es, "forces"), reports |-> order]
  BY DEF Summary
<1>2. PICK order \in Sorted(es) :
        summary' = [reader |-> u, of |-> of, total |-> Len(es),
                    active |-> CountTrue(es, "active"),
                    forces |-> CountTrue(es, "forces"), reports |-> order]
  BY <1>1
<1>3. /\ m \in Nat /\ DOMAIN es = 1 .. m
      /\ \E q \in [1 .. m -> M] :
           /\ \A a, b \in 1 .. m : q[a] = q[b] => a = b
           /\ \A i \in M : \E a \in 1 .. m : q[a] = i
           /\ \A a \in 1 .. m : es[a] = Projection(read[q[a]])
  BY <1>1, MineStored
<1>4. PICK q \in [1 .. m -> M] :
        /\ \A a, b \in 1 .. m : q[a] = q[b] => a = b
        /\ \A i \in M : \E a \in 1 .. m : q[a] = i
        /\ \A a \in 1 .. m : es[a] = Projection(read[q[a]])
  BY <1>3
<1>5. M = {i \in DOMAIN read : read[i].user = of}
  BY DEF Mine
<1>6. ASSUME NEW i \in M PROVE read[i] \in Reports
  BY <1>5, ReadParts
<1> HIDE DEF es, read, M, m
<1>7. PICK p \in [1 .. m -> 1 .. m] :
        /\ IsInjective(p)
        /\ \A i, j \in 1 .. m : i < j => ~ Before(es[p[j]], es[p[i]])
        /\ order = [i \in 1 .. m |-> es[p[i]]]
  <2>1. Sorted(es) =
          {[i \in 1 .. m |-> es[p[i]]] :
             p \in {f \in [1 .. m -> 1 .. m] :
                      /\ IsInjective(f)
                      /\ \A i, j \in 1 .. m : i < j => ~ Before(es[f[j]], es[f[i]])}}
    BY <1>3 DEF Sorted
  <2> QED
    BY <2>1
<1> DEFINE h == [a \in 1 .. m |-> q[p[a]]]
<1>8. /\ \A a, b \in 1 .. m : p[a] = p[b] => a = b
      /\ \A i \in 1 .. m : \E a \in 1 .. m : p[a] = i
  BY <1>3, <1>7, Permuted
<1>9. /\ h \in [1 .. m -> M]
      /\ \A a, b \in 1 .. m : h[a] = h[b] => a = b
      /\ \A i \in M : \E a \in 1 .. m : h[a] = i
      /\ \A a \in 1 .. m : order[a] = Projection(read[h[a]])
  <2>1. \A a \in 1 .. m : p[a] \in 1 .. m /\ h[a] = q[p[a]]
    BY <1>7
  <2>2. h \in [1 .. m -> M]
    BY <2>1
  <2>3. \A a \in 1 .. m : order[a] = es[p[a]]
    BY <1>7
  <2> HIDE DEF h
  <2>4. ASSUME NEW i \in M PROVE \E a \in 1 .. m : h[a] = i
    <3>1. PICK b \in 1 .. m : q[b] = i
      BY <1>4
    <3>2. PICK a \in 1 .. m : p[a] = b
      BY <1>8
    <3> QED
      BY <2>1, <3>1, <3>2
  <2>5. ASSUME NEW a \in 1 .. m, NEW b \in 1 .. m, h[a] = h[b] PROVE a = b
    <3>1. q[p[a]] = q[p[b]] /\ p[a] \in 1 .. m /\ p[b] \in 1 .. m
      BY <2>1, <2>5
    <3>2. p[a] = p[b]
      BY <1>4, <3>1
    <3> QED
      BY <1>8, <3>2
  <2>6. ASSUME NEW a \in 1 .. m PROVE order[a] = Projection(read[h[a]])
    <3>1. p[a] \in 1 .. m /\ h[a] = q[p[a]]
      BY <2>1
    <3>2. es[p[a]] = Projection(read[q[p[a]]])
      BY <1>4, <3>1
    <3> QED
      BY <2>3, <3>1, <3>2
  <2> QED
    BY <2>2, <2>4, <2>5, <2>6
<1> HIDE DEF h
<1>10. m \in Nat
  BY <1>3
<1>11. CountsOff(q, m, M)
  BY <1>4 DEF CountsOff
<1>12. CountsOff(h, m, M)
  BY <1>9 DEF CountsOff
<1>13. Len(es) = Cardinality(M)
  <2> DEFINE D == 1 .. m
  <2>1. D \subseteq 1 .. m /\ M \subseteq M /\ \A a \in 1 .. m : a \in D <=> q[a] \in M
    OBVIOUS
  <2>2. Cardinality(D) = m
    <3>1. 1 \in Int /\ m \in Int /\ (1 > m <=> m = 0) /\ (m - 1) + 1 = m
      BY <1>3
    <3>2. Cardinality(1 .. m) = IF 1 > m THEN 0 ELSE (m - 1) + 1
      BY <3>1, FS_Interval
    <3> QED
      BY <3>1, <3>2
  <2> HIDE DEF D
  <2>3. Cardinality(D) = Cardinality(M)
    <3>1. Matches(q, m, M, D, M)
      BY <1>11, <2>1 DEF Matches
    <3> QED
      BY <1>10, <3>1, CountedOff
  <2> QED
    BY <2>2, <2>3 DEF m
<1>14. \A r : /\ Projection(r).active = "true" <=> r.event.active = "true"
              /\ Projection(r).forces = "true" <=> r.event.forces = "true"
  BY DEF Projection, Trim
<1>15. CountTrue(es, "active") = Cardinality({i \in M : read[i].event.active = "true"})
  <2> DEFINE A == {a \in 1 .. m : es[a].active = "true"}
             B == {i \in M : read[i].event.active = "true"}
  <2>1. A \subseteq 1 .. m
    OBVIOUS
  <2>2. B \subseteq M
    OBVIOUS
  <2>3. \A a \in 1 .. m : a \in A <=> q[a] \in B
    BY <1>4, <1>14
  <2>4. CountTrue(es, "active") = Cardinality(A)
    BY <1>3 DEF CountTrue
  <2> HIDE DEF A, B
  <2>5. Cardinality(A) = Cardinality(B)
    <3>1. Matches(q, m, M, A, B)
      BY <1>11, <2>1, <2>3, <2>2 DEF Matches
    <3> QED
      BY <1>10, <3>1, CountedOff
  <2> QED
    BY <2>4, <2>5 DEF B
<1>16. CountTrue(es, "forces") = Cardinality({i \in M : read[i].event.forces = "true"})
  <2> DEFINE A == {a \in 1 .. m : es[a].forces = "true"}
             B == {i \in M : read[i].event.forces = "true"}
  <2>1. A \subseteq 1 .. m
    OBVIOUS
  <2>2. B \subseteq M
    OBVIOUS
  <2>3. \A a \in 1 .. m : a \in A <=> q[a] \in B
    BY <1>4, <1>14
  <2>4. CountTrue(es, "forces") = Cardinality(A)
    BY <1>3 DEF CountTrue
  <2> HIDE DEF A, B
  <2>5. Cardinality(A) = Cardinality(B)
    <3>1. Matches(q, m, M, A, B)
      BY <1>11, <2>1, <2>3, <2>2 DEF Matches
    <3> QED
      BY <1>10, <3>1, CountedOff
  <2> QED
    BY <2>4, <2>5 DEF B
<1>17. DOMAIN order = 1 .. m
  BY <1>7
<1>18. ASSUME NEW i \in M
       PROVE  Cardinality({j \in DOMAIN order : order[j] = Projection(read[i])})
                = Cardinality({j \in M : Projection(read[j]) = Projection(read[i])})
  <2> DEFINE A == {j \in DOMAIN order : order[j] = Projection(read[i])}
             B == {j \in M : Projection(read[j]) = Projection(read[i])}
  <2>1. A \subseteq 1 .. m
    BY <1>17
  <2>2. B \subseteq M
    OBVIOUS
  <2>3. \A a \in 1 .. m : a \in A <=> h[a] \in B
    BY <1>9, <1>17
  <2> HIDE DEF A, B
  <2>4. Cardinality(A) = Cardinality(B)
    <3>1. Matches(h, m, M, A, B)
      BY <1>12, <2>1, <2>3, <2>2 DEF Matches
    <3> QED
      BY <1>10, <3>1, CountedOff
  <2> QED
    BY <2>4 DEF A, B
<1>19. ASSUME NEW i \in DOMAIN order, NEW j \in DOMAIN order, i < j
       PROVE  order[i].date <= order[j].date
  <2>1. i \in 1 .. m /\ j \in 1 .. m
    BY <1>17
  <2>2. order[i] = es[p[i]] /\ order[j] = es[p[j]]
    BY <1>7, <2>1
  <2>3. ~ (order[j].date < order[i].date)
    BY <1>7, <1>19, <2>1, <2>2 DEF Before
  <2>4. ASSUME NEW a \in 1 .. m PROVE order[a].date \in Int
    <3>1. order[a] = Projection(read[h[a]]) /\ h[a] \in M
      BY <1>9
    <3>2. read[h[a]] \in Reports
      BY <1>6, <3>1
    <3>3. read[h[a]].event.date \in DOMAIN Time
      BY <3>2, ReportType
    <3>4. Time[read[h[a]].event.date] \in Int
      BY <3>3, EventsAssumption
    <3>5. order[a].date = Time[read[h[a]].event.date]
      BY <3>1 DEF Projection
    <3> QED
      BY <3>4, <3>5
  <2>5. order[i].date \in Int /\ order[j].date \in Int
    BY <2>1, <2>4
  <2> QED
    BY <2>3, <2>5
<1>A. /\ summary'.reader = u /\ summary'.of = of /\ summary'.total = Len(es)
       /\ summary'.active = CountTrue(es, "active") /\ summary'.forces = CountTrue(es, "forces")
       /\ summary'.reports = order
  BY <1>2
<1> DEFINE s == summary'
<1>21. /\ s.of = of /\ s.total = Cardinality(M)
       /\ s.active = Cardinality({i \in M : read[i].event.active = "true"})
       /\ s.forces = Cardinality({i \in M : read[i].event.forces = "true"})
       /\ s.reports = order
  BY <1>13, <1>15, <1>16, <1>A
<1>22. s.reader = u
  BY <1>A
<1> HIDE DEF s
<1>23. Accounts(s, read)
  BY <1>5, <1>18, <1>19, <1>21 DEF Accounts
<1> QED
  BY <1>22, <1>23 DEF s, read

\* A summary accounts for every report of the user the reader has read, once.
THEOREM SummaryExactAlways == EventSpec => SummaryExact
<1>1. ASSUME EventInv, [Next]_eventVars, summary' # summary,
             \A i \in DOMAIN ReadBy(summary'.reader) : Plain(ReadBy(summary'.reader)[i].event)
      PROVE  Accounts(summary', ReadBy(summary'.reader))
  <2>1. PICK u \in Clients, of \in Clients : Summary(u, of)
    BY <1>1 DEF Next, eventVars, Report, Process, ServerResponse, Rest
  <2>2. summary'.reader = u
    BY <2>1 DEF Summary
  <2> QED
    BY <1>1, <2>1, <2>2, SummaryStep
<1>2. EventInv /\ [Next]_eventVars =>
        [LET s    == summary'
             read == ReadBy(s.reader)
             mine == {i \in DOMAIN read : read[i].user = s.of}
             CountReported(key) == Cardinality({i \in mine : read[i].event[key] = "true"})
         IN  summary' # summary /\ (\A i \in DOMAIN read : Plain(read[i].event)) =>
               /\ s.total = Cardinality(mine)
               /\ s.active = CountReported("active")
               /\ s.forces = CountReported("forces")
               /\ \A i \in mine :
                    Cardinality({j \in DOMAIN s.reports : s.reports[j] = Projection(read[i])})
                      = Cardinality({j \in mine : Projection(read[j]) = Projection(read[i])})
               /\ \A i, j \in DOMAIN s.reports :
                    i < j => s.reports[i].date <= s.reports[j].date
        ]_eventVars
  BY <1>1 DEF Accounts
<1> QED
  BY <1>2, EventInvariance, PTL DEF EventSpec, SummaryExact
=============================================================================
