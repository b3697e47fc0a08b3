--------------------------- MODULE SelectionProofs ---------------------------
(***************************************************************************)
(* Lemmas about FlattenSeq and Selected.  FlattenSeq is a recursive        *)
(* function of the length, so what it makes of one more sequence is shown  *)
(* first, by induction over the natural numbers; everything else follows   *)
(* by induction over sequences.  Both inductions are about sets instead of *)
(* predicates, which the provers can instantiate.                          *)
(***************************************************************************)
EXTENDS Selections, SequenceTheorems, WellFoundedInduction, TLAPS

LEMMA LeastNatural ==
  ASSUME NEW T, T \subseteq Nat, T # {}
  PROVE  \E x \in T : \A y \in T : x <= y
<1>1. PICK x \in T : \A y \in T : ~ (<<y, x>> \in OpToRel(<, Nat))
  BY WFMin, NatLessThanWellFounded
<1>2. \A y \in T : ~ (y < x)
  BY <1>1 DEF OpToRel
<1> QED
  BY <1>2

\* Induction over the numbers of a set.
LEMMA InductiveSet ==
  ASSUME NEW T, 0 \in T, \A n \in Nat : n \in T => n + 1 \in T
  PROVE  Nat \subseteq T
<1> SUFFICES ASSUME Nat \ T # {} PROVE FALSE
  OBVIOUS
<1>1. PICK x \in Nat \ T : \A y \in Nat \ T : x <= y
  BY LeastNatural
<1>2. x # 0 /\ x - 1 \in Nat /\ x - 1 \in T
  BY <1>1
<1>3. (x - 1) + 1 \in T
  BY <1>2
<1> QED
  BY <1>1, <1>3

\* A sequence that is not empty is another with one element more.
LEMMA LastAppended ==
  ASSUME NEW X, NEW s \in Seq(X), Len(s) # 0
  PROVE  \E r \in Seq(X) : \E x \in X : s = Append(r, x) /\ Len(r) = Len(s) - 1
<1> DEFINE n == Len(s) - 1
           r == [i \in 1 .. n |-> s[i]]
           x == s[n + 1]
<1>1. n \in Nat /\ n + 1 = Len(s)
  OBVIOUS
<1>2. r \in Seq(X) /\ Len(r) = n /\ x \in X
  BY <1>1
<1>3. Append(r, x) \in Seq(X) /\ Len(Append(r, x)) = n + 1
  BY <1>2, AppendProperties
<1>4. \A i \in 1 .. n + 1 : Append(r, x)[i] = s[i]
  BY <1>2, AppendProperties
<1>5. s = Append(r, x)
  BY <1>1, <1>3, <1>4, SeqEqual
<1> HIDE DEF r, x
<1> QED
  BY <1>2, <1>5

\* Induction over the sequences of a set.
LEMMA InductiveSequences ==
  ASSUME NEW X, NEW T, << >> \in T,
         \A s \in Seq(X) : \A x \in X : s \in T => Append(s, x) \in T
  PROVE  Seq(X) \subseteq T
<1> DEFINE L == {n \in Nat : \A s \in Seq(X) : Len(s) = n => s \in T}
<1>1. 0 \in L
  <2> SUFFICES ASSUME NEW s \in Seq(X), Len(s) = 0 PROVE s \in T
    OBVIOUS
  <2>1. s = << >>
    BY EmptySeq
  <2> QED
    BY <2>1
<1>2. ASSUME NEW n \in Nat, n \in L PROVE n + 1 \in L
  <2> SUFFICES ASSUME NEW s \in Seq(X), Len(s) = n + 1 PROVE s \in T
    OBVIOUS
  <2>1. PICK r \in Seq(X), x \in X : s = Append(r, x) /\ Len(r) = Len(s) - 1
    BY LastAppended
  <2>2. Len(r) = n
    BY <2>1
  <2> QED
    BY <1>2, <2>1, <2>2
<1>3. Nat \subseteq L
  <2> HIDE DEF L
  <2> QED
    BY <1>1, <1>2, InductiveSet
<1> SUFFICES ASSUME NEW s \in Seq(X) PROVE s \in T
  OBVIOUS
<1>4. Len(s) \in Nat
  OBVIOUS
<1> QED
  BY <1>3, <1>4

-----------------------------------------------------------------------------
(***************************************************************************)
(* FlattenSeq.                                                             *)
(***************************************************************************)
\* The defining equation of its recursive function.
Flattens(f, ss) ==
  f = [i \in 1 .. Len(ss) |-> IF i = 1 THEN ss[i] ELSE f[i - 1] \o ss[i]]

LEMMA FlattensValues ==
  ASSUME NEW f, NEW ss, Flattens(f, ss)
  PROVE  \A i \in 1 .. Len(ss) : f[i] = IF i = 1 THEN ss[i] ELSE f[i - 1] \o ss[i]
<1> DEFINE g == [i \in 1 .. Len(ss) |-> IF i = 1 THEN ss[i] ELSE f[i - 1] \o ss[i]]
<1>1. f = g
  BY DEF Flattens
<1>2. \A i \in 1 .. Len(ss) : g[i] = IF i = 1 THEN ss[i] ELSE f[i - 1] \o ss[i]
  OBVIOUS
<1> HIDE DEF g
<1> QED
  BY <1>1, <1>2

\* The function of the sequence with one element more.
LEMMA FlattensOneMore ==
  ASSUME NEW X, NEW ss \in Seq(X), NEW s \in X, NEW f, Flattens(f, ss)
  PROVE  \E g : Flattens(g, Append(ss, s))
<1> DEFINE n == Len(ss)
           p == Append(ss, s)
           g == [i \in 1 .. n + 1 |-> IF i <= n THEN f[i] ELSE IF i = 1 THEN s ELSE f[n] \o s]
           h(i) == IF i = 1 THEN p[i] ELSE g[i - 1] \o p[i]
<1>1. n \in Nat /\ Len(p) = n + 1 /\ p[n + 1] = s /\ \A i \in 1 .. n : p[i] = ss[i]
  BY AppendProperties, LenProperties
<1>2. \A i \in 1 .. n : f[i] = IF i = 1 THEN ss[i] ELSE f[i - 1] \o ss[i]
  BY FlattensValues
<1> HIDE DEF p
<1>3. /\ \A i \in 1 .. n : g[i] = f[i]
      /\ g[n + 1] = IF n + 1 = 1 THEN s ELSE f[n] \o s
  BY <1>1
<1>4. ASSUME NEW i \in 1 .. n + 1 PROVE g[i] = h(i)
  <2> HIDE DEF g
  <2>1. CASE i \in 1 .. n
    <3>1. i = 1 \/ i - 1 \in 1 .. n
      BY <1>1, <2>1
    <3> QED
      BY <1>1, <1>2, <1>3, <2>1, <3>1
  <2>2. CASE i = n + 1
    <3>1. i = 1 \/ (i - 1 = n /\ n \in 1 .. n)
      BY <1>1, <2>2
    <3> QED
      BY <1>1, <1>3, <2>2, <3>1
  <2> QED
    BY <1>1, <2>1, <2>2
<1>5. g = [i \in 1 .. n + 1 |-> h(i)]
  <2> HIDE DEF h
  <2> QED
    BY <1>4
<1>6. Flattens(g, p)
  BY <1>1, <1>5 DEF Flattens
<1> QED
  BY <1>6 DEF p

LEMMA FlattensExists ==
  ASSUME NEW X, NEW ss \in Seq(X)
  PROVE  \E f : Flattens(f, ss)
<1> DEFINE T == {r \in Seq(X) : \E f : Flattens(f, r)}
<1>1. << >> \in T
  <2> DEFINE f == [i \in 1 .. 0 |-> << >>]
  <2>1. f = [i \in 1 .. Len(<< >>) |-> IF i = 1 THEN << >>[i] ELSE f[i - 1] \o << >>[i]]
    OBVIOUS
  <2>2. Flattens(f, << >>)
    BY <2>1 DEF Flattens
  <2> QED
    BY <2>2
<1>2. \A r \in Seq(X) : \A x \in X : r \in T => Append(r, x) \in T
  BY FlattensOneMore, AppendProperties
<1>3. Seq(X) \subseteq T
  <2> HIDE DEF T
  <2> QED
    BY <1>1, <1>2, InductiveSequences
<1> QED
  BY <1>3

\* Those of a sequence and of one with an element more agree.
LEMMA FlattensAgree ==
  ASSUME NEW X, NEW s \in Seq(X), NEW x \in X, Len(s) # 0,
         NEW f, Flattens(f, s), NEW g, Flattens(g, Append(s, x))
  PROVE  f[Len(s)] = g[Len(s)]
<1> DEFINE n == Len(s)
           r == Append(s, x)
           T == {i \in Nat : i \in 1 .. n => f[i] = g[i]}
<1>1. n \in Nat /\ n # 0 /\ Len(r) = n + 1 /\ \A i \in 1 .. n : s[i] = r[i]
  BY AppendProperties, LenProperties
<1>2. /\ \A i \in 1 .. n : f[i] = IF i = 1 THEN s[i] ELSE f[i - 1] \o s[i]
      /\ \A i \in 1 .. n : g[i] = IF i = 1 THEN r[i] ELSE g[i - 1] \o r[i]
  <2>1. \A i \in 1 .. n : i \in 1 .. Len(s) /\ i \in 1 .. Len(r)
    BY <1>1
  <2>2. \A i \in 1 .. Len(s) : f[i] = IF i = 1 THEN s[i] ELSE f[i - 1] \o s[i]
    BY FlattensValues
  <2>3. \A i \in 1 .. Len(r) : g[i] = IF i = 1 THEN r[i] ELSE g[i - 1] \o r[i]
    BY FlattensValues
  <2> HIDE DEF n, r
  <2> QED
    BY <2>1, <2>2, <2>3
<1> HIDE DEF n, r
<1>3. 0 \in T
  OBVIOUS
<1>4. ASSUME NEW i \in Nat, i \in T PROVE i + 1 \in T
  <2> SUFFICES ASSUME i + 1 \in 1 .. n PROVE f[i + 1] = g[i + 1]
    OBVIOUS
  <2>1. i = 0 \/ f[i] = g[i]
    BY <1>1, <1>4
  <2>2. (i + 1) - 1 = i /\ (i = 0 <=> i + 1 = 1)
    OBVIOUS
  <2> QED
    BY <1>1, <1>2, <2>1, <2>2
<1>5. Nat \subseteq T
  <2> HIDE DEF T
  <2> QED
    BY <1>3, <1>4, InductiveSet
<1> QED
  BY <1>1, <1>5 DEF n

\* FlattenSeq is the last value of any function with the equation.
LEMMA FlattenFunction ==
  ASSUME NEW X, NEW ss \in Seq(X), Len(ss) # 0
  PROVE  \E f : Flattens(f, ss) /\ FlattenSeq(ss) = f[Len(ss)]
<1> DEFINE f == CHOOSE g : Flattens(g, ss)
<1>1. FlattenSeq(ss) = f[Len(ss)]
  BY DEF FlattenSeq, Flattens
<1>2. Flattens(f, ss)
  BY FlattensExists
<1> QED
  BY <1>1, <1>2

LEMMA FlattenEmpty == FlattenSeq(<< >>) = << >>
  BY DEF FlattenSeq

\* One more sequence is written at the end.
LEMMA FlattenAppend ==
  ASSUME NEW E, NEW ss \in Seq(Seq(E)), NEW s \in Seq(E)
  PROVE  FlattenSeq(Append(ss, s)) = FlattenSeq(ss) \o s
<1> DEFINE p == Append(ss, s)
           n == Len(ss)
<1>1. /\ p \in Seq(Seq(E)) /\ n \in Nat /\ Len(p) = n + 1 /\ p[n + 1] = s
      /\ \A i \in 1 .. n : p[i] = ss[i]
  BY AppendProperties, LenProperties
<1> HIDE DEF p
<1>2. PICK g : Flattens(g, p) /\ FlattenSeq(p) = g[n + 1]
  BY <1>1, FlattenFunction
<1>3. g[n + 1] = IF n + 1 = 1 THEN p[n + 1] ELSE g[(n + 1) - 1] \o p[n + 1]
  <2>1. n + 1 \in 1 .. Len(p)
    BY <1>1
  <2> QED
    BY <1>2, <2>1, FlattensValues
<1>4. CASE n = 0
  <2>1. FlattenSeq(ss) = << >>
    BY <1>4, FlattenEmpty, EmptySeq
  <2>2. g[n + 1] = s
    BY <1>1, <1>3, <1>4
  <2> QED
    BY <1>2, <2>1, <2>2 DEF p
<1>5. CASE n # 0
  <2>1. PICK f : Flattens(f, ss) /\ FlattenSeq(ss) = f[n]
    BY <1>5, FlattenFunction
  <2>2. f[n] = g[n]
    BY <1>2, <1>5, <2>1, FlattensAgree DEF p
  <2>3. (n + 1) - 1 = n /\ n + 1 # 1
    BY <1>1, <1>5
  <2> QED
    BY <1>1, <1>2, <1>3, <2>1, <2>2, <2>3 DEF p
<1> QED
  BY <1>4, <1>5

LEMMA FlattenType ==
  ASSUME NEW E, NEW ss \in Seq(Seq(E))
  PROVE  FlattenSeq(ss) \in Seq(E)
<1> DEFINE T == {r \in Seq(Seq(E)) : FlattenSeq(r) \in Seq(E)}
<1>1. << >> \in T
  <2>1. << >> \in Seq(Seq(E)) /\ << >> \in Seq(E)
    OBVIOUS
  <2> QED
    BY <2>1, FlattenEmpty
<1>2. ASSUME NEW r \in Seq(Seq(E)), NEW s \in Seq(E), r \in T PROVE Append(r, s) \in T
  BY <1>2, FlattenAppend, ConcatProperties, AppendProperties
<1>3. Seq(Seq(E)) \subseteq T
  <2> HIDE DEF T
  <2> QED
    BY <1>1, <1>2, InductiveSequences
<1> QED
  BY <1>3

LEMMA FlattenConcat ==
  ASSUME NEW E, NEW ss \in Seq(Seq(E)), NEW tt \in Seq(Seq(E))
  PROVE  FlattenSeq(ss \o tt) = FlattenSeq(ss) \o FlattenSeq(tt)
<1> DEFINE T == {r \in Seq(Seq(E)) : FlattenSeq(ss \o r) = FlattenSeq(ss) \o FlattenSeq(r)}
<1>1. << >> \in T
  BY FlattenEmpty, FlattenType, ConcatEmptySeq
<1>2. ASSUME NEW r \in Seq(Seq(E)), NEW s \in Seq(E), r \in T PROVE Append(r, s) \in T
  <2>1. ss \o Append(r, s) = Append(ss \o r, s)
    BY AppendIsConcat, ConcatAssociative, ConcatProperties, <<s>> \in Seq(Seq(E))
  <2>2. ss \o r \in Seq(Seq(E))
    BY ConcatProperties
  <2>3. FlattenSeq(Append(ss \o r, s)) = FlattenSeq(ss \o r) \o s
    BY <2>2, FlattenAppend
  <2>4. FlattenSeq(Append(r, s)) = FlattenSeq(r) \o s
    BY FlattenAppend
  <2>5. FlattenSeq(ss) \in Seq(E) /\ FlattenSeq(r) \in Seq(E)
    BY FlattenType
  <2>6. (FlattenSeq(ss) \o FlattenSeq(r)) \o s = FlattenSeq(ss) \o (FlattenSeq(r) \o s)
    BY <2>5, ConcatAssociative
  <2>7. Append(r, s) \in Seq(Seq(E))
    BY AppendProperties
  <2> QED
    BY <1>2, <2>1, <2>3, <2>4, <2>6, <2>7
<1>3. Seq(Seq(E)) \subseteq T
  <2> HIDE DEF T
  <2> QED
    BY <1>1, <1>2, InductiveSequences
<1> QED
  BY <1>3

-----------------------------------------------------------------------------
(***************************************************************************)
(* Selected.                                                               *)
(***************************************************************************)
LEMMA SelectedPieces ==
  ASSUME NEW E, NEW s \in Seq(E), NEW I
  PROVE  [i \in DOMAIN s |-> IF i \in I THEN <<s[i]>> ELSE << >>] \in Seq(Seq(E))
<1> DEFINE g == [i \in 1 .. Len(s) |-> IF i \in I THEN <<s[i]>> ELSE << >>]
<1>1. DOMAIN s = 1 .. Len(s) /\ Len(s) \in Nat
  OBVIOUS
<1>2. \A i \in 1 .. Len(s) : s[i] \in E
  OBVIOUS
<1>3. \A x \in E : <<x>> \in Seq(E) /\ << >> \in Seq(E)
  OBVIOUS
<1>4. g \in Seq(Seq(E))
  BY <1>1, <1>2, <1>3
<1> QED
  BY <1>1, <1>4

LEMMA SelectedEmpty ==
  ASSUME NEW I
  PROVE  Selected(<< >>, I) = << >>
<1>1. [i \in DOMAIN << >> |-> IF i \in I THEN << << >>[i]>> ELSE << >>] = << >>
  OBVIOUS
<1> QED
  BY <1>1, FlattenEmpty DEF Selected

LEMMA SelectedAppend ==
  ASSUME NEW E, NEW s \in Seq(E), NEW x \in E, NEW I
  PROVE  Selected(Append(s, x), I) =
           IF Len(s) + 1 \in I THEN Append(Selected(s, I), x) ELSE Selected(s, I)
<1> DEFINE p == Append(s, x)
           n == Len(s)
           last == IF n + 1 \in I THEN <<x>> ELSE << >>
           f == [i \in DOMAIN s |-> IF i \in I THEN <<s[i]>> ELSE << >>]
           g == [i \in DOMAIN p |-> IF i \in I THEN <<p[i]>> ELSE << >>]
<1>1. /\ p \in Seq(E) /\ n \in Nat /\ Len(p) = n + 1 /\ p[n + 1] = x
      /\ \A i \in 1 .. n : p[i] = s[i]
  BY AppendProperties, LenProperties
<1> HIDE DEF p
<1>2. f \in Seq(Seq(E)) /\ g \in Seq(Seq(E))
  BY <1>1, SelectedPieces
<1>3. DOMAIN s = 1 .. n /\ DOMAIN p = 1 .. n + 1
  BY <1>1
<1>4. Len(f) = n /\ Len(g) = n + 1
  BY <1>1, <1>2, <1>3
<1>5. last \in Seq(E)
  OBVIOUS
<1>6. /\ \A i \in 1 .. n : f[i] = g[i]
      /\ g[n + 1] = last
  BY <1>1, <1>3
<1> HIDE DEF f, g, last
<1>7. g = Append(f, last)
  <2>1. Append(f, last) \in Seq(Seq(E)) /\ Len(Append(f, last)) = n + 1
    BY <1>2, <1>4, <1>5, AppendProperties
  <2>2. \A i \in 1 .. n + 1 : Append(f, last)[i] = g[i]
    BY <1>1, <1>2, <1>4, <1>5, <1>6, AppendProperties
  <2> QED
    BY <1>2, <1>4, <2>1, <2>2, SeqEqual
<1>8. FlattenSeq(g) = FlattenSeq(f) \o last
  BY <1>2, <1>5, <1>7, FlattenAppend
<1>9. FlattenSeq(f) \in Seq(E)
  BY <1>2, FlattenType
<1>10. FlattenSeq(f) \o last = IF n + 1 \in I THEN Append(FlattenSeq(f), x) ELSE FlattenSeq(f)
  BY <1>9, AppendIsConcat, ConcatEmptySeq DEF last
<1> QED
  BY <1>8, <1>10 DEF Selected, p, f, g

LEMMA SelectedType ==
  ASSUME NEW E, NEW s \in Seq(E), NEW I
  PROVE  Selected(s, I) \in Seq(E)
  BY SelectedPieces, FlattenType DEF Selected

\* Only positions of the sequence matter.
LEMMA SelectedAgree ==
  ASSUME NEW s, NEW I, NEW J, \A i \in DOMAIN s : i \in I <=> i \in J
  PROVE  Selected(s, I) = Selected(s, J)
<1>1. [i \in DOMAIN s |-> IF i \in I THEN <<s[i]>> ELSE << >>]
        = [i \in DOMAIN s |-> IF i \in J THEN <<s[i]>> ELSE << >>]
  OBVIOUS
<1> QED
  BY <1>1 DEF Selected

\* One element more, whatever sequence it comes from.
LEMMA SelectedOneMore ==
  ASSUME NEW E, NEW n \in Nat, NEW f \in [1 .. n -> E], NEW g \in [1 .. n + 1 -> E],
         \A i \in 1 .. n : g[i] = f[i],
         NEW I, NEW J, \A i \in 1 .. n : i \in J <=> i \in I
  PROVE  Selected(g, J) =
           IF n + 1 \in J THEN Append(Selected(f, I), g[n + 1]) ELSE Selected(f, I)
<1>1. f \in Seq(E) /\ g \in Seq(E) /\ Len(f) = n /\ Len(g) = n + 1 /\ g[n + 1] \in E
  BY SeqDef
<1>2. g = Append(f, g[n + 1])
  <2>1. Append(f, g[n + 1]) \in Seq(E) /\ Len(Append(f, g[n + 1])) = n + 1
    BY <1>1, AppendProperties
  <2>2. \A i \in 1 .. n + 1 : Append(f, g[n + 1])[i] = g[i]
    BY <1>1, AppendProperties
  <2> QED
    BY <1>1, <2>1, <2>2, SeqEqual
<1>3. Selected(Append(f, g[n + 1]), J) =
        IF n + 1 \in J THEN Append(Selected(f, J), g[n + 1]) ELSE Selected(f, J)
  <2> DEFINE x == g[n + 1]
  <2>1. x \in E
    BY <1>1
  <2> HIDE DEF x
  <2>2. Selected(Append(f, x), J) =
          IF Len(f) + 1 \in J THEN Append(Selected(f, J), x) ELSE Selected(f, J)
    BY <1>1, <2>1, SelectedAppend
  <2> QED
    BY <1>1, <2>2 DEF x
<1>4. Selected(f, J) = Selected(f, I)
  BY <1>1, SelectedAgree
<1> QED
  BY <1>2, <1>3, <1>4

\* Of the first k elements, and of one more.
LEMMA SelectedUpTo ==
  ASSUME NEW E, NEW s \in Seq(E), NEW k \in Nat, k < Len(s), NEW I
  PROVE  Selected(s, {i \in 1 .. k + 1 : i \in I}) =
           IF k + 1 \in I THEN Append(Selected(s, {i \in 1 .. k : i \in I}), s[k + 1])
           ELSE Selected(s, {i \in 1 .. k : i \in I})
<1> DEFINE J(m) == {i \in 1 .. m : i \in I}
           Step(r) == Selected(r, J(k + 1)) =
                        IF k + 1 \in I THEN Append(Selected(r, J(k)), r[k + 1])
                        ELSE Selected(r, J(k))
           T == {r \in Seq(E) : k < Len(r) => Step(r)}
<1>1. << >> \in T
  <2>1. << >> \in Seq(E) /\ Len(<< >>) = 0
    OBVIOUS
  <2> QED
    BY <2>1
<1>2. ASSUME NEW r \in Seq(E), NEW x \in E, r \in T PROVE Append(r, x) \in T
  <2> DEFINE n == Len(r)
  <2>1. n \in Nat /\ Append(r, x) \in Seq(E) /\ Len(Append(r, x)) = n + 1
    BY AppendProperties, LenProperties
  <2> SUFFICES ASSUME k < n + 1 PROVE Step(Append(r, x))
    BY <2>1
  <2>2. ~ (n + 1 \in J(k))
    BY <2>1
  <2>3. Selected(Append(r, x), J(k)) = Selected(r, J(k))
    <3> HIDE DEF J
    <3> QED
      BY <2>2, SelectedAppend
  <2>4. CASE k < n
    <3>1. ~ (n + 1 \in J(k + 1)) /\ k + 1 \in 1 .. n
      BY <2>1, <2>4
    <3>2. Append(r, x)[k + 1] = r[k + 1]
      BY <3>1, AppendProperties
    <3>3. Selected(Append(r, x), J(k + 1)) = Selected(r, J(k + 1))
      <4> HIDE DEF J
      <4> QED
        BY <3>1, SelectedAppend
    <3>4. Step(r)
      BY <1>2, <2>4
    <3> QED
      BY <2>3, <3>2, <3>3, <3>4
  <2>5. CASE k = n
    <3>1. Append(r, x)[k + 1] = x
      BY <2>5, AppendProperties
    <3>2. \A i \in DOMAIN r : i \in J(k + 1) <=> i \in J(k)
      BY <2>1, <2>5
    <3>3. (n + 1 \in J(k + 1)) <=> k + 1 \in I
      BY <2>1, <2>5
    <3>4. Selected(r, J(k + 1)) = Selected(r, J(k))
      <4> HIDE DEF J
      <4> QED
        BY <3>2, SelectedAgree
    <3>5. Selected(Append(r, x), J(k + 1)) =
            IF n + 1 \in J(k + 1) THEN Append(Selected(r, J(k + 1)), x) ELSE Selected(r, J(k + 1))
      <4> DEFINE K == J(k + 1)
      <4> HIDE DEF J, K
      <4>1. Selected(Append(r, x), K) =
              IF Len(r) + 1 \in K THEN Append(Selected(r, K), x) ELSE Selected(r, K)
        BY SelectedAppend
      <4> QED
        BY <4>1 DEF K
    <3> QED
      BY <2>3, <3>1, <3>3, <3>4, <3>5
  <2> QED
    BY <2>1, <2>4, <2>5
<1>3. Seq(E) \subseteq T
  <2> HIDE DEF T
  <2> QED
    BY <1>1, <1>2, InductiveSequences
<1> QED
  BY <1>3

LEMMA SelectedFurther ==
  ASSUME NEW E, NEW s \in Seq(E), NEW k \in Nat, k < Len(s), NEW A, NEW B,
         \A i \in DOMAIN s : i \in B => i <= k + 1,
         \A i \in DOMAIN s : i \in A <=> i \in B /\ i <= k
  PROVE  Selected(s, B) = IF k + 1 \in B THEN Append(Selected(s, A), s[k + 1]) ELSE Selected(s, A)
<1> DEFINE C == {i \in 1 .. k + 1 : i \in B}
           D == {i \in 1 .. k : i \in B}
<1>1. Selected(s, C) = IF k + 1 \in B THEN Append(Selected(s, D), s[k + 1]) ELSE Selected(s, D)
  BY SelectedUpTo
<1>2. DOMAIN s = 1 .. Len(s) /\ Len(s) \in Nat
  OBVIOUS
<1>3. \A i \in DOMAIN s : i \in C <=> i \in B
  BY <1>2
<1>4. \A i \in DOMAIN s : i \in D <=> i \in A
  BY <1>2
<1> HIDE DEF C, D
<1>5. Selected(s, C) = Selected(s, B)
  BY <1>3, SelectedAgree
<1>6. Selected(s, D) = Selected(s, A)
  BY <1>4, SelectedAgree
<1> QED
  BY <1>1, <1>5, <1>6

\* No element is left of none.
LEMMA SelectedNone ==
  ASSUME NEW E, NEW s \in Seq(E)
  PROVE  Selected(s, {}) = << >>
<1> DEFINE T == {r \in Seq(E) : Selected(r, {}) = << >>}
<1>1. << >> \in T
  <2>1. << >> \in Seq(E)
    OBVIOUS
  <2> QED
    BY <2>1, SelectedEmpty
<1>2. ASSUME NEW r \in Seq(E), NEW x \in E, r \in T PROVE Append(r, x) \in T
  BY <1>2, SelectedAppend, AppendProperties
<1>3. Seq(E) \subseteq T
  <2> HIDE DEF T
  <2> QED
    BY <1>1, <1>2, InductiveSequences
<1> QED
  BY <1>3

\* All of them are left of themselves.
LEMMA SelectedAll ==
  ASSUME NEW E, NEW s \in Seq(E), NEW I, \A i \in DOMAIN s : i \in I
  PROVE  Selected(s, I) = s
<1> DEFINE T == {r \in Seq(E) : Selected(r, Nat) = r}
<1>1. << >> \in T
  <2>1. << >> \in Seq(E)
    OBVIOUS
  <2> QED
    BY <2>1, SelectedEmpty
<1>2. ASSUME NEW r \in Seq(E), NEW x \in E, r \in T PROVE Append(r, x) \in T
  <2>1. Len(r) + 1 \in Nat
    OBVIOUS
  <2> QED
    BY <1>2, <2>1, SelectedAppend, AppendProperties
<1>3. Seq(E) \subseteq T
  <2> HIDE DEF T
  <2> QED
    BY <1>1, <1>2, InductiveSequences
<1>4. \A i \in DOMAIN s : i \in I <=> i \in Nat
  OBVIOUS
<1> QED
  BY <1>3, <1>4, SelectedAgree

\* What is left of a sequence counts the chosen positions off, each one once.
Renumbers(q, t, s, I) ==
  /\ q \in [1 .. Len(t) -> {i \in 1 .. Len(s) : i \in I}]
  /\ \A a, b \in 1 .. Len(t) : q[a] = q[b] => a = b
  /\ \A i \in 1 .. Len(s) : i \in I => \E a \in 1 .. Len(t) : q[a] = i
  /\ \A a \in 1 .. Len(t) : t[a] = s[q[a]]

LEMMA RenumbersOneMore ==
  ASSUME NEW E, NEW s \in Seq(E), NEW x \in E, NEW I, NEW q, Renumbers(q, Selected(s, I), s, I)
  PROVE  \E p : Renumbers(p, Selected(Append(s, x), I), Append(s, x), I)
<1> DEFINE n == Len(s)
           r == Append(s, x)
           t == Selected(s, I)
           m == Len(t)
           w == Selected(r, I)
<1>1. /\ n \in Nat /\ Len(r) = n + 1 /\ r[n + 1] = x
      /\ \A i \in 1 .. n : r[i] = s[i]
  BY AppendProperties, LenProperties
<1>2. t \in Seq(E) /\ m \in Nat
  BY SelectedType, LenProperties
<1>3. w = IF n + 1 \in I THEN Append(t, x) ELSE t
  BY SelectedAppend
<1>4. /\ q \in [1 .. m -> {i \in 1 .. n : i \in I}]
      /\ \A a, b \in 1 .. m : q[a] = q[b] => a = b
      /\ \A i \in 1 .. n : i \in I => \E a \in 1 .. m : q[a] = i
      /\ \A a \in 1 .. m : t[a] = s[q[a]]
  BY DEF Renumbers
<1>5. \A a \in 1 .. m : q[a] \in 1 .. n /\ q[a] \in I
  BY <1>4
<1>6. /\ Len(Append(t, x)) = m + 1 /\ Append(t, x)[m + 1] = x
      /\ \A a \in 1 .. m : Append(t, x)[a] = t[a]
  <2>1. t \in Seq(E)
    BY <1>2
  <2> HIDE DEF t
  <2> QED
    BY <2>1, AppendProperties
<1> HIDE DEF n, r, t, m, w
<1>7. CASE n + 1 \in I
  <2> DEFINE p == [a \in 1 .. m + 1 |-> IF a \in 1 .. m THEN q[a] ELSE n + 1]
  <2>1. w = Append(t, x)
    BY <1>3, <1>7
  <2>2. m + 1 \in 1 .. m + 1 /\ ~ (m + 1 \in 1 .. m) /\ n + 1 \in 1 .. n + 1
        /\ \A a \in 1 .. m + 1 : a \in 1 .. m \/ a = m + 1
    BY <1>1, <1>2
  <2>3. \A a \in 1 .. m : a \in 1 .. m + 1
    BY <1>2
  <2>4. (\A a \in 1 .. m : p[a] = q[a]) /\ p[m + 1] = n + 1
    BY <2>2, <2>3
  <2>5. \A i \in 1 .. n : i \in 1 .. n + 1 /\ i # n + 1
    BY <1>1
  <2>6. p \in [1 .. m + 1 -> {i \in 1 .. n + 1 : i \in I}]
    BY <1>5, <1>7, <2>2, <2>5
  <2> HIDE DEF p
  <2>7. ASSUME NEW a \in 1 .. m + 1, NEW b \in 1 .. m + 1, p[a] = p[b] PROVE a = b
    BY <1>4, <1>5, <2>2, <2>4, <2>5, <2>7
  <2>8. ASSUME NEW i \in 1 .. n + 1, i \in I PROVE \E a \in 1 .. m + 1 : p[a] = i
    <3>1. i \in 1 .. n \/ i = n + 1
      BY <1>1
    <3> QED
      BY <1>4, <2>2, <2>3, <2>4, <2>8, <3>1
  <2>9. ASSUME NEW a \in 1 .. m + 1 PROVE w[a] = r[p[a]]
    BY <1>1, <1>4, <1>5, <1>6, <2>1, <2>2, <2>4
  <2>10. Len(w) = m + 1 /\ Len(r) = n + 1
    BY <1>1, <1>6, <2>1
  <2>11. Renumbers(p, w, r, I)
    BY <2>6, <2>7, <2>8, <2>9, <2>10 DEF Renumbers
  <2> QED
    BY <2>11 DEF w, r
<1>8. CASE n + 1 \notin I
  <2>1. w = t
    BY <1>3, <1>8
  <2>2. \A i \in 1 .. n + 1 : i \in I => i \in 1 .. n
    BY <1>1, <1>8
  <2>3. \A i \in 1 .. n : i \in 1 .. n + 1
    BY <1>1
  <2>4. q \in [1 .. m -> {i \in 1 .. n + 1 : i \in I}]
    BY <1>4, <1>5, <2>3
  <2>5. \A i \in 1 .. n + 1 : i \in I => \E a \in 1 .. m : q[a] = i
    BY <1>4, <2>2
  <2>6. \A a \in 1 .. m : w[a] = r[q[a]]
    BY <1>1, <1>4, <1>5, <2>1
  <2>7. Len(w) = m /\ Len(r) = n + 1
    BY <1>1, <2>1 DEF m
  <2>8. Renumbers(q, w, r, I)
    BY <1>4, <2>4, <2>5, <2>6, <2>7 DEF Renumbers
  <2> QED
    BY <2>8 DEF w, r
<1> QED
  BY <1>7, <1>8

LEMMA SelectedRenumbers ==
  ASSUME NEW E, NEW s \in Seq(E), NEW I
  PROVE  \E q : Renumbers(q, Selected(s, I), s, I)
<1> DEFINE T == {r \in Seq(E) : \E q : Renumbers(q, Selected(r, I), r, I)}
<1>1. << >> \in T
  <2> DEFINE q == [a \in 1 .. 0 |-> 0]
  <2>1. Renumbers(q, << >>, << >>, I)
    BY DEF Renumbers
  <2>2. << >> \in Seq(E)
    OBVIOUS
  <2> HIDE DEF q
  <2> QED
    BY <2>1, <2>2, SelectedEmpty
<1>2. \A r \in Seq(E) : \A x \in E : r \in T => Append(r, x) \in T
  BY RenumbersOneMore, AppendProperties
<1>3. Seq(E) \subseteq T
  <2> HIDE DEF T
  <2> QED
    BY <1>1, <1>2, InductiveSequences
<1> QED
  BY <1>3
=============================================================================
