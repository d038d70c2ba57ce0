-------------------------- MODULE ConversationProofs -------------------------
(***************************************************************************)
(* Proofs about Conversation, for all messages the APIs have types for:    *)
(* whatever is said, in sequences of any length, no word, call or result   *)
(* is lost or moved on its way into a request (RequestsAreFaithful), the   *)
(* images that are left out are the oldest (NewestImagesAreKept), the      *)
(* environment gets the calls of an answer (CallsAreSent), and every       *)
(* client can be asked (EveryoneCanAsk).                                   *)
(*                                                                         *)
(* Every conversion is a loop: Hom(g, s) is what a loop over s puts        *)
(* together when its body is g.  Loops over loops are loops (HomHom), so   *)
(* that a conversion followed by the reading of its atoms is compared      *)
(* with the atoms of what was converted element by element.  What holds of *)
(* all sequences is shown by their least counterexample (SeqInduct); the   *)
(* folds of _set_messages and of the Responses API, which carry a state,   *)
(* have an invariant each (Groups, ReadsAs).                               *)
(*                                                                         *)
(* The inductive invariant is IInv: the history is well formed - only its  *)
(* first slice can be a system message, every slice is in the format of a  *)
(* client of the run or in that of chat completions - and it says what has *)
(* been said, in the same order; the last answer is the end of it.         *)
(***************************************************************************)
EXTENDS Conversation, SequenceTheorems, WellFoundedInduction, TLAPS

-----------------------------------------------------------------------------
(* Sequences: induction, and what FlattenSeq sums.                         *)

\* A set of numbers that is not empty has a least element.
LEMMA Least ==
    ASSUME NEW S \in SUBSET Nat, S # {}
    PROVE  \E m \in S : \A k \in S : m <= k
<1>1. PICK m \in S : \A k \in S : ~(<<k, m>> \in OpToRel(<, Nat))
  BY WFMin, NatLessThanWellFounded
<1>2. \A k \in S : ~(k < m)
  BY <1>1 DEF OpToRel
<1> QED  BY <1>2

\* What holds of the empty sequence and is kept by Append holds of all
\* sequences: a least counterexample would extend a shorter one.
LEMMA SeqInduct ==
    ASSUME NEW X, NEW G, <<>> \in G,
           \A s \in Seq(X), x \in X : s \in G => Append(s, x) \in G
    PROVE  Seq(X) \subseteq G
<1> DEFINE Bad == {n \in Nat : \E s \in Seq(X) : s \notin G /\ Len(s) = n}
<1>1. SUFFICES ASSUME Bad # {} PROVE FALSE
  BY LenProperties
<1>2. PICK n \in Bad : \A k \in Bad : n <= k
  <2>1. Bad \in SUBSET Nat
    OBVIOUS
  <2> QED
    BY <1>1, <2>1, Least
<1>3. PICK s \in Seq(X) : s \notin G /\ Len(s) = n
  OBVIOUS
<1>4. s # <<>>
  BY <1>3
<1>5. PICK t \in Seq(X), x \in X : s = Append(t, x)
  BY <1>4, SequenceEmptyOrAppend
<1>6. t \notin G
  BY <1>3, <1>5
<1>7. Len(t) \in Nat /\ Len(s) = Len(t) + 1
  BY <1>5, LenProperties, AppendProperties
<1>8. Len(t) \in Bad
  BY <1>6, <1>7
<1> QED
  BY <1>2, <1>3, <1>7, <1>8

\* g is the function of partial sums that FlattenSeq is defined by, up to n.
FlattenOn(ss, n, g) == g = [i \in 1..n |-> IF i = 1 THEN ss[i] ELSE g[i - 1] \o ss[i]]

\* There is such a function, as far as one likes.
LEMMA FlattenExists ==
    ASSUME NEW ss, NEW n \in Nat
    PROVE  \E g : FlattenOn(ss, n, g)
<1> DEFINE Bad == {m \in Nat : ~ \E g : FlattenOn(ss, m, g)}
<1>1. 0 \notin Bad
  <2> DEFINE g == [i \in 1..0 |-> ss[i]]
  <2>1. FlattenOn(ss, 0, g)
    BY DEF FlattenOn
  <2> QED
    BY <2>1
<1>2. ASSUME NEW m \in Nat, m \notin Bad PROVE m + 1 \notin Bad
  <2>1. PICK g : FlattenOn(ss, m, g)
    BY <1>2
  <2> DEFINE last == IF m = 0 THEN ss[1] ELSE g[m] \o ss[m + 1]
             h == [i \in 1..(m + 1) |-> IF i = m + 1 THEN last ELSE g[i]]
  <2>2. ASSUME NEW i \in 1..(m + 1)
        PROVE  h[i] = IF i = 1 THEN ss[i] ELSE h[i - 1] \o ss[i]
    <3>1. CASE i = m + 1
      <4>1. m # 0 => h[m] = g[m]
        OBVIOUS
      <4> QED
        BY <3>1, <4>1
    <3>2. CASE i # m + 1
      <4>1. i \in 1..m /\ h[i] = g[i] /\ (i # 1 => h[i - 1] = g[i - 1])
        BY <3>2
      <4>2. g[i] = IF i = 1 THEN ss[i] ELSE g[i - 1] \o ss[i]
        BY <2>1, <4>1 DEF FlattenOn
      <4> QED
        BY <4>1, <4>2
    <3> QED
      BY <3>1, <3>2
  <2>3. FlattenOn(ss, m + 1, h)
    <3> HIDE DEF last
    <3>1. h = [i \in 1..(m + 1) |-> h[i]]
      OBVIOUS
    <3> HIDE DEF h
    <3> QED
      BY <2>2, <3>1 DEF FlattenOn
  <2> QED
    BY <2>3
<1>3. Bad = {}
  <2> SUFFICES ASSUME Bad # {} PROVE FALSE
    OBVIOUS
  <2>1. PICK m \in Bad : \A k \in Bad : m <= k
    BY Least
  <2>2. m \in Nat /\ m # 0
    BY <1>1
  <2>3. m - 1 \in Nat /\ m - 1 \notin Bad /\ (m - 1) + 1 = m
    BY <2>1, <2>2
  <2> QED
    BY <1>2, <2>3
<1> QED
  BY <1>3

\* FlattenSeq is its last value.
LEMMA FlattenIs ==
    ASSUME NEW ss, Len(ss) \in Nat, Len(ss) # 0
    PROVE  \E g : FlattenOn(ss, Len(ss), g) /\ FlattenSeq(ss) = g[Len(ss)]
<1>1. PICK g : FlattenOn(ss, Len(ss), g)
  BY FlattenExists
<1> QED
  BY <1>1 DEF FlattenSeq, FlattenOn

\* The partial sums agree as far as the sequences do.
LEMMA FlattenAgree ==
    ASSUME NEW ss, NEW tt, NEW n \in Nat, NEW m \in Nat, n <= m, NEW g, NEW h,
           FlattenOn(ss, n, g), FlattenOn(tt, m, h), \A i \in 1..n : ss[i] = tt[i]
    PROVE  n # 0 => g[n] = h[n]
<1> DEFINE Bad == {i \in 1..n : g[i] # h[i]}
<1>1. SUFFICES ASSUME Bad # {} PROVE FALSE
  OBVIOUS
<1>2. PICK i \in Bad : \A k \in Bad : i <= k
  <2>1. Bad \in SUBSET Nat
    OBVIOUS
  <2> QED
    BY <1>1, <2>1, Least
<1>3. i \in 1..n /\ i \in 1..m
  OBVIOUS
<1>4. g[i] = IF i = 1 THEN ss[i] ELSE g[i - 1] \o ss[i]
  BY <1>3 DEF FlattenOn
<1>5. h[i] = IF i = 1 THEN tt[i] ELSE h[i - 1] \o tt[i]
  BY <1>3 DEF FlattenOn
<1>6. i # 1 => i - 1 \in 1..n /\ i - 1 \notin Bad
  BY <1>2, <1>3
<1> QED
  BY <1>3, <1>4, <1>5, <1>6

\* Nothing is summed to the empty sequence.
LEMMA FlattenEmpty == FlattenSeq(<<>>) = <<>>
  BY DEF FlattenSeq

\* One sequence more is put at the end of the sum.
LEMMA FlattenAppend ==
    ASSUME NEW A, NEW ss \in Seq(Seq(A)), NEW t \in Seq(A), FlattenSeq(ss) \in Seq(A)
    PROVE  /\ FlattenSeq(Append(ss, t)) = FlattenSeq(ss) \o t
           /\ FlattenSeq(Append(ss, t)) \in Seq(A)
<1> DEFINE n == Len(ss)
           tt == Append(ss, t)
<1>1. n \in Nat /\ Len(tt) = n + 1 /\ tt[n + 1] = t /\ \A i \in 1..n : tt[i] = ss[i]
  BY LenProperties, AppendProperties
<1>2. PICK h : FlattenOn(tt, n + 1, h) /\ FlattenSeq(tt) = h[n + 1]
  <2>1. Len(tt) \in Nat /\ Len(tt) # 0
    BY <1>1
  <2> HIDE DEF n, tt
  <2>2. \E g : FlattenOn(tt, Len(tt), g) /\ FlattenSeq(tt) = g[Len(tt)]
    BY <2>1, FlattenIs
  <2> QED
    BY <1>1, <2>2
<1>3. h[n + 1] = IF n + 1 = 1 THEN tt[n + 1] ELSE h[(n + 1) - 1] \o tt[n + 1]
  <2>1. n + 1 \in 1..(n + 1)
    BY <1>1
  <2> QED
    BY <1>2, <2>1 DEF FlattenOn
<1>4. CASE n = 0
  <2>1. ss = <<>>
    BY <1>4
  <2>2. FlattenSeq(tt) = t
    BY <1>1, <1>2, <1>3, <1>4
  <2> QED
    BY <2>1, <2>2, FlattenEmpty, ConcatEmptySeq
<1>5. CASE n # 0
  <2>1. PICK g : FlattenOn(ss, n, g) /\ FlattenSeq(ss) = g[n]
    BY <1>1, <1>5, FlattenIs
  <2> HIDE DEF n, tt
  <2>2. g[n] = h[n]
    <3> DEFINE k == n + 1
    <3>1. n \in Nat /\ k \in Nat /\ n <= k /\ \A i \in 1..n : ss[i] = tt[i]
      BY <1>1
    <3>2. FlattenOn(ss, n, g) /\ FlattenOn(tt, k, h)
      BY <1>2, <2>1
    <3> HIDE DEF k
    <3> QED
      BY <3>1, <3>2, <1>5, FlattenAgree
  <2>3. g[n] = h[n] /\ (n + 1) - 1 = n /\ n + 1 # 1
    BY <1>1, <1>5, <2>2
  <2>4. FlattenSeq(tt) = FlattenSeq(ss) \o t
    BY <1>1, <1>2, <1>3, <2>1, <2>3
  <2> QED
    BY <2>4, ConcatProperties DEF tt
<1> QED
  BY <1>4, <1>5

\* The sum of sequences over A is one.
LEMMA FlattenType ==
    ASSUME NEW A PROVE \A ss \in Seq(Seq(A)) : FlattenSeq(ss) \in Seq(A)
<1> DEFINE G == {ss \in Seq(Seq(A)) : FlattenSeq(ss) \in Seq(A)}
<1>1. <<>> \in G
  <2>1. <<>> \in Seq(A) /\ <<>> \in Seq(Seq(A))
    BY EmptySeq
  <2> QED
    BY <2>1, FlattenEmpty
<1>2. ASSUME NEW ss \in Seq(Seq(A)), NEW t \in Seq(A), ss \in G PROVE Append(ss, t) \in G
  BY <1>2, FlattenAppend, AppendProperties
<1>3. Seq(Seq(A)) \subseteq G
  <2> HIDE DEF G
  <2> QED
    BY <1>1, <1>2, SeqInduct
<1> QED
  BY <1>3

\* FlattenAppend, for all sequences.
LEMMA FlattenIsSum ==
    ASSUME NEW A, NEW ss \in Seq(Seq(A)), NEW t \in Seq(A)
    PROVE  FlattenSeq(Append(ss, t)) = FlattenSeq(ss) \o t
  BY FlattenAppend, FlattenType

-----------------------------------------------------------------------------
(* Loops over sequences.                                                   *)

\* What a loop does: Map gives one value for each element, Hom puts the
\* sequences it gives together.
Map(g, s) == [i \in DOMAIN s |-> g[s[i]]]
Hom(g, s) == FlattenSeq(Map(g, s))

\* g gives a sequence over B for every element of X.
Loop(g, X, B) == g \in [X -> Seq(B)]

\* The type, the length and the elements of Map.
LEMMA MapIs ==
    ASSUME NEW X, NEW Y, NEW g \in [X -> Y], NEW s \in Seq(X)
    PROVE  /\ Map(g, s) \in Seq(Y) /\ Len(Map(g, s)) = Len(s)
           /\ \A i \in 1..Len(s) : Map(g, s)[i] = g[s[i]]
<1>1. Len(s) \in Nat /\ DOMAIN s = 1..Len(s) /\ \A i \in 1..Len(s) : s[i] \in X
  BY LenProperties, ElementOfSeq
<1> DEFINE m == Map(g, s)
<1>2. m = [i \in 1..Len(s) |-> m[i]] /\ \A i \in 1..Len(s) : m[i] = g[s[i]]
  BY <1>1 DEF Map
<1>3. m \in [1..Len(s) -> Y]
  BY <1>1, <1>2
<1>4. m \in Seq(Y)
  BY <1>1, <1>3, SeqDef
<1>5. Len(m) = Len(s)
  <2>1. Len(m) \in Nat /\ 1..Len(m) = 1..Len(s)
    BY <1>3, <1>4, LenProperties
  <2> HIDE DEF m
  <2> QED
    BY <1>1, <2>1
<1> QED
  BY <1>2, <1>4, <1>5

\* Map of one element more.
LEMMA MapAppend ==
    ASSUME NEW X, NEW Y, NEW g \in [X -> Y], NEW s \in Seq(X), NEW x \in X
    PROVE  Map(g, Append(s, x)) = Append(Map(g, s), g[x])
<1> DEFINE n == Len(s)
           l == Map(g, Append(s, x))
           r == Append(Map(g, s), g[x])
<1>1. /\ n \in Nat /\ Append(s, x) \in Seq(X) /\ Len(Append(s, x)) = n + 1
      /\ \A i \in 1..n : Append(s, x)[i] = s[i]
      /\ Append(s, x)[n + 1] = x
  BY LenProperties, AppendProperties
<1>2. \A t \in Seq(X) : /\ Map(g, t) \in Seq(Y) /\ Len(Map(g, t)) = Len(t)
                        /\ \A i \in 1..Len(t) : Map(g, t)[i] = g[t[i]]
  BY MapIs
<1>3. l \in Seq(Y) /\ Len(l) = n + 1 /\ \A i \in 1..(n + 1) : l[i] = g[Append(s, x)[i]]
  BY <1>1, <1>2
<1>4. Map(g, s) \in Seq(Y) /\ Len(Map(g, s)) = n /\ \A i \in 1..n : Map(g, s)[i] = g[s[i]]
  BY <1>2
<1>5. /\ r \in Seq(Y) /\ Len(r) = n + 1 /\ r[n + 1] = g[x]
      /\ \A i \in 1..n : r[i] = Map(g, s)[i]
  BY <1>4, AppendProperties
<1>6. \A i \in 1..(n + 1) : l[i] = r[i]
  BY <1>1, <1>3, <1>4, <1>5
<1> HIDE DEF l, r, n
<1>7. l = r
  BY <1>1, <1>3, <1>5, <1>6, SeqEqual
<1> QED
  BY <1>7 DEF l, r

\* A loop over nothing gives nothing.
LEMMA HomEmpty == \A g : Hom(g, <<>>) = <<>>
<1> SUFFICES ASSUME NEW g PROVE Hom(g, <<>>) = <<>>
  OBVIOUS
<1>1. Map(g, <<>>) = <<>>
  BY DEF Map
<1> QED
  BY <1>1, FlattenEmpty DEF Hom

\* The type of what a loop gives.
LEMMA HomType ==
    ASSUME NEW X, NEW B, NEW g, Loop(g, X, B), NEW s \in Seq(X)
    PROVE  Hom(g, s) \in Seq(B)
<1>1. Map(g, s) \in Seq(Seq(B))
  BY MapIs DEF Loop
<1> QED
  BY <1>1, FlattenType DEF Hom

\* A loop over one element more.
LEMMA HomAppend ==
    ASSUME NEW X, NEW B, NEW g, Loop(g, X, B), NEW s \in Seq(X), NEW x \in X
    PROVE  Hom(g, Append(s, x)) = Hom(g, s) \o g[x]
<1>1. Map(g, s) \in Seq(Seq(B)) /\ g[x] \in Seq(B)
  BY MapIs DEF Loop
<1>2. Map(g, Append(s, x)) = Append(Map(g, s), g[x])
  BY MapAppend DEF Loop
<1> QED
  BY <1>1, <1>2, FlattenIsSum DEF Hom

\* A loop over one element.
LEMMA HomOne ==
    ASSUME NEW X, NEW B, NEW g, Loop(g, X, B), NEW x \in X
    PROVE  Hom(g, <<x>>) = g[x]
<1>1. <<x>> = Append(<<>>, x) /\ <<>> \in Seq(X)
  OBVIOUS
<1>2. Hom(g, <<x>>) = <<>> \o g[x]
  <2>1. \A s \in Seq(X), y \in X : Hom(g, Append(s, y)) = Hom(g, s) \o g[y]
    BY HomAppend
  <2>2. Hom(g, Append(<<>>, x)) = Hom(g, <<>>) \o g[x]
    BY <1>1, <2>1
  <2> QED
    BY <1>1, <2>2, HomEmpty
<1> QED
  BY <1>2, ConcatEmptySeq

\* Append and concatenation associate.
LEMMA ConcatAppend ==
    ASSUME NEW X, NEW s \in Seq(X), NEW t \in Seq(X), NEW x \in X
    PROVE  s \o Append(t, x) = Append(s \o t, x)
<1>1. /\ Append(t, x) = t \o <<x>> /\ <<x>> \in Seq(X) /\ s \o t \in Seq(X)
      /\ Append(s \o t, x) = (s \o t) \o <<x>>
  BY AppendIsConcat, ConcatProperties
<1> QED
  BY <1>1, ConcatAssociative, SMTT(30)

\* A loop over two sequences, one after the other, is two loops.
LEMMA HomConcat ==
    ASSUME NEW X, NEW B, NEW g, Loop(g, X, B), NEW s \in Seq(X)
    PROVE  \A t \in Seq(X) : Hom(g, s \o t) = Hom(g, s) \o Hom(g, t)
<1> DEFINE G == {t \in Seq(X) : Hom(g, s \o t) = Hom(g, s) \o Hom(g, t)}
<1>1. <<>> \in G
  <2>1. s \o <<>> = s /\ Hom(g, s) \in Seq(B) /\ <<>> \in Seq(X)
    BY ConcatEmptySeq, HomType, EmptySeq
  <2> QED
    BY <2>1, ConcatEmptySeq, HomEmpty
<1>2. ASSUME NEW t \in Seq(X), NEW x \in X, t \in G PROVE Append(t, x) \in G
  <2>1. s \o t \in Seq(X) /\ s \o Append(t, x) = Append(s \o t, x) /\ Append(t, x) \in Seq(X)
    BY ConcatProperties, ConcatAppend, AppendProperties
  <2>2. Hom(g, s \o Append(t, x)) = Hom(g, s \o t) \o g[x]
    <3>1. Hom(g, Append(s \o t, x)) = Hom(g, s \o t) \o g[x]
      <4>1. \A u \in Seq(X), y \in X : Hom(g, Append(u, y)) = Hom(g, u) \o g[y]
        BY HomAppend
      <4> QED
        BY <2>1, <4>1
    <3> QED
      BY <2>1, <3>1
  <2>3. Hom(g, Append(t, x)) = Hom(g, t) \o g[x]
    BY HomAppend
  <2>4. Hom(g, s) \in Seq(B) /\ Hom(g, t) \in Seq(B) /\ g[x] \in Seq(B)
    <3>1. g[x] \in Seq(B)
      BY DEF Loop
    <3>2. Hom(g, s) \in Seq(B)
      BY HomType
    <3>3. Hom(g, t) \in Seq(B)
      BY HomType
    <3> QED
      BY <3>1, <3>2, <3>3
  <2>5. (Hom(g, s) \o Hom(g, t)) \o g[x] = Hom(g, s) \o (Hom(g, t) \o g[x])
    <3> DEFINE a == Hom(g, s)
               b == Hom(g, t)
               c == g[x]
    <3>1. a \in Seq(B) /\ b \in Seq(B) /\ c \in Seq(B)
      BY <2>4
    <3> HIDE DEF a, b, c
    <3>2. (a \o b) \o c = a \o (b \o c)
      BY <3>1, ConcatAssociative
    <3> QED
      BY <3>2 DEF a, b, c
  <2> QED
    BY <1>2, <2>1, <2>2, <2>3, <2>5
<1>3. Seq(X) \subseteq G
  <2> HIDE DEF G
  <2> QED
    BY <1>1, <1>2, SeqInduct
<1> QED
  BY <1>3

\* A loop over what a loop gives is one loop.
LEMMA HomHom ==
    ASSUME NEW X, NEW B, NEW C, NEW g, Loop(g, X, B), NEW h, Loop(h, B, C)
    PROVE  \A s \in Seq(X) : Hom(h, Hom(g, s)) = Hom([x \in X |-> Hom(h, g[x])], s)
<1> DEFINE k == [x \in X |-> Hom(h, g[x])]
           G == {s \in Seq(X) : Hom(h, Hom(g, s)) = Hom(k, s)}
<1>1. Loop(k, X, C) /\ \A x \in X : k[x] = Hom(h, g[x])
  <2>1. \A x \in X : g[x] \in Seq(B)
    BY DEF Loop
  <2>2. \A x \in X : Hom(h, g[x]) \in Seq(C)
    BY <2>1, HomType
  <2> QED
    BY <2>2 DEF Loop
<1> HIDE DEF k
<1>2. <<>> \in G
  BY HomEmpty
<1>3. ASSUME NEW s \in Seq(X), NEW x \in X, s \in G PROVE Append(s, x) \in G
  <2>1. Hom(g, s) \in Seq(B) /\ g[x] \in Seq(B)
    <3>1. g[x] \in Seq(B)
      BY DEF Loop
    <3>2. Hom(g, s) \in Seq(B)
      BY HomType
    <3> QED
      BY <3>1, <3>2
  <2>2. Hom(h, Hom(g, Append(s, x))) = Hom(h, Hom(g, s)) \o Hom(h, g[x])
    <3>1. Hom(g, Append(s, x)) = Hom(g, s) \o g[x]
      BY HomAppend
    <3>2. \A t \in Seq(B) : Hom(h, Hom(g, s) \o t) = Hom(h, Hom(g, s)) \o Hom(h, t)
      BY <2>1, HomConcat
    <3> QED
      BY <2>1, <3>1, <3>2
  <2>3. Hom(k, Append(s, x)) = Hom(k, s) \o k[x]
    BY <1>1, HomAppend
  <2> QED
    BY <1>1, <1>3, <2>2, <2>3, AppendProperties
<1>4. Seq(X) \subseteq G
  <2> HIDE DEF G
  <2> QED
    BY <1>2, <1>3, SeqInduct
<1> QED
  BY <1>4 DEF k

\* Only is a loop: it keeps an element or does not.
Kept(A, S) == [x \in A |-> IF x \in S THEN <<x>> ELSE <<>>]

\* The type of that loop.
LEMMA KeptType == \A A, S : Loop(Kept(A, S), A, A)
  BY DEF Kept, Loop

\* Only is that loop.
LEMMA OnlyIs ==
    ASSUME NEW A, NEW S, NEW s \in Seq(A)
    PROVE  Only(S, s) = Hom(Kept(A, S), s)
<1>1. DOMAIN s = 1..Len(s) /\ \A i \in 1..Len(s) : s[i] \in A
  BY LenProperties, ElementOfSeq
<1>2. [i \in DOMAIN s |-> IF s[i] \in S THEN <<s[i]>> ELSE <<>>] = Map(Kept(A, S), s)
  BY <1>1 DEF Map, Kept
<1> QED
  BY <1>2 DEF Only, Concat, Hom

\* What Only gives for the empty sequence, for one element more and for two
\* sequences.
LEMMA OnlyFacts ==
    ASSUME NEW A, NEW S
    PROVE  /\ Only(S, <<>>) = <<>>
           /\ \A s \in Seq(A) : Only(S, s) \in Seq(A)
           /\ \A s \in Seq(A), x \in A :
                Only(S, Append(s, x)) = IF x \in S THEN Append(Only(S, s), x) ELSE Only(S, s)
           /\ \A s, t \in Seq(A) : Only(S, s \o t) = Only(S, s) \o Only(S, t)
<1> DEFINE k == Kept(A, S)
<1>1. Loop(k, A, A) /\ \A x \in A : k[x] = IF x \in S THEN <<x>> ELSE <<>>
  BY KeptType DEF Kept
<1>2. \A s \in Seq(A) : Only(S, s) = Hom(k, s)
  BY OnlyIs
<1> HIDE DEF k
<1>3. Only(S, <<>>) = <<>>
  <2>1. <<>> \in Seq(A)
    BY EmptySeq
  <2> QED
    BY <1>2, <2>1, HomEmpty
<1>4. \A s \in Seq(A) : Only(S, s) \in Seq(A)
  BY <1>1, <1>2, HomType
<1>5. ASSUME NEW s \in Seq(A), NEW x \in A
      PROVE  Only(S, Append(s, x)) = IF x \in S THEN Append(Only(S, s), x) ELSE Only(S, s)
  <2>1. Append(s, x) \in Seq(A) /\ Only(S, s) \in Seq(A)
    BY <1>4, AppendProperties
  <2>2. Hom(k, Append(s, x)) = Hom(k, s) \o k[x]
    BY <1>1, HomAppend
  <2>3. Only(S, Append(s, x)) = Only(S, s) \o k[x]
    BY <1>2, <2>1, <2>2
  <2>4. CASE x \in S
    <3>1. k[x] = <<x>> /\ Append(Only(S, s), x) = Only(S, s) \o <<x>>
      BY <1>1, <2>1, <2>4, AppendIsConcat
    <3> QED
      BY <2>3, <2>4, <3>1
  <2>5. CASE x \notin S
    <3>1. k[x] = <<>> /\ Only(S, s) \o <<>> = Only(S, s)
      BY <1>1, <2>1, <2>5, ConcatEmptySeq
    <3> QED
      BY <2>3, <2>5, <3>1
  <2> QED
    BY <2>4, <2>5
<1>6. ASSUME NEW s \in Seq(A), NEW t \in Seq(A) PROVE Only(S, s \o t) = Only(S, s) \o Only(S, t)
  <2>1. s \o t \in Seq(A)
    BY ConcatProperties
  <2>2. Hom(k, s \o t) = Hom(k, s) \o Hom(k, t)
    BY <1>1, HomConcat
  <2> QED
    BY <1>2, <2>1, <2>2
<1> QED
  BY <1>3, <1>4, <1>5, <1>6

\* A loop that gives one element for each is a map.
Single(f, X) == [x \in X |-> <<f[x]>>]

\* The type of such a loop.
LEMMA SingleType ==
    ASSUME NEW X, NEW Y, NEW f \in [X -> Y]
    PROVE  Loop(Single(f, X), X, Y)
  BY DEF Loop, Single

\* Map is such a loop.
LEMMA SingleIs ==
    ASSUME NEW X, NEW Y, NEW f \in [X -> Y]
    PROVE  \A s \in Seq(X) : Map(f, s) = Hom(Single(f, X), s)
<1> DEFINE k == Single(f, X)
           G == {s \in Seq(X) : Map(f, s) = Hom(k, s)}
<1>1. Loop(k, X, Y) /\ \A x \in X : k[x] = <<f[x]>>
  BY SingleType DEF Single
<1> HIDE DEF k
<1>2. <<>> \in G
  <2>1. Map(f, <<>>) = <<>> /\ <<>> \in Seq(X)
    BY DEF Map
  <2> QED
    BY <2>1, HomEmpty
<1>3. ASSUME NEW s \in Seq(X), NEW x \in X, s \in G PROVE Append(s, x) \in G
  <2>1. Map(f, Append(s, x)) = Append(Map(f, s), f[x])
    BY MapAppend
  <2>2. Hom(k, Append(s, x)) = Hom(k, s) \o k[x]
    BY <1>1, HomAppend
  <2>3. Map(f, s) \in Seq(Y) /\ f[x] \in Y
    BY MapIs
  <2>4. Append(Map(f, s), f[x]) = Map(f, s) \o <<f[x]>>
    BY <2>3, AppendIsConcat
  <2> QED
    BY <1>1, <1>3, <2>1, <2>2, <2>4, AppendProperties
<1>4. Seq(X) \subseteq G
  <2> HIDE DEF G
  <2> QED
    BY <1>2, <1>3, SeqInduct
<1> QED
  BY <1>4 DEF k

-----------------------------------------------------------------------------
(* Atoms of messages, items and blocks.                                    *)

\* The roles of messages, and what an atom can be about.
Roles == {"system", "user", "assistant", "tool"}
Names == Parts \cup CallIds

\* The atom that a role makes of a part or call.
AtomBy(role) == [x \in Names |-> Atom(role, x)]

\* The type of atoms.
LEMMA AtomType == \A role : AtomBy(role) \in [Names -> Atoms]
  BY DEF AtomBy, Atom, Atoms, Names

\* AtomsOf is a map.
LEMMA AtomsOfIs ==
    ASSUME NEW role, NEW s \in Seq(Names)
    PROVE  /\ AtomsOf(role, s) = Map(AtomBy(role), s)
           /\ AtomsOf(role, s) \in Seq(Atoms)
<1>1. DOMAIN s = 1..Len(s) /\ \A i \in 1..Len(s) : s[i] \in Names
  BY LenProperties, ElementOfSeq
<1>2. AtomsOf(role, s) = Map(AtomBy(role), s)
  BY <1>1 DEF AtomsOf, Map, AtomBy
<1>3. \A t \in Seq(Names) : Map(AtomBy(role), t) \in Seq(Atoms)
  BY AtomType, MapIs
<1> QED
  BY <1>2, <1>3

\* Sequences of texts, parts and calls are sequences of names.
LEMMA NamesSeq ==
    /\ Seq({"text"}) \subseteq Seq(Names)
    /\ Seq({"text"}) \subseteq Seq(Parts)
    /\ Seq(Parts) \subseteq Seq(Names)
    /\ Seq(CallIds) \subseteq Seq(Names)
<1>1. {"text"} \subseteq Parts /\ Parts \subseteq Names /\ CallIds \subseteq Names /\ {"text"} \subseteq Names
  BY DEF Parts, Names
<1> QED
  BY <1>1, SeqMonotonic

\* A chat message, as a set to reason with.
AnyMessage == [role : Roles, parts : Seq(Parts), calls : Seq(CallIds), call : CallIds \cup {"none"}]

\* The fields of a chat message.
LEMMA MessagesAre ==
    ASSUME NEW m \in Messages
    PROVE  /\ m \in AnyMessage /\ m.role \in Roles
           /\ m.parts \in Seq(Parts) /\ m.parts \in Seq(Names)
           /\ m.calls \in Seq(CallIds) /\ m.calls \in Seq(Names)
           /\ m.call \in CallIds \cup {"none"}
           /\ m.role \in {"system", "assistant"} => m.parts \in Seq({"text"})
           /\ m.role # "assistant" => m.calls = <<>>
           /\ m.role = "tool" => m.call \in CallIds
  BY NamesSeq DEF Messages, AnyMessage, Roles

\* The atoms of one chat message, and the loop over messages.
MessageAtoms(m) == (IF m.role = "tool" THEN <<Atom("tool", m.call)>> ELSE <<>>)
                   \o AtomsOf(m.role, m.parts) \o AtomsOf(m.role, m.calls)
ChatLoop == [m \in Messages |-> MessageAtoms(m)]

\* They are atoms.
LEMMA MessageAtomsType == \A m \in Messages : MessageAtoms(m) \in Seq(Atoms)
<1> TAKE m \in Messages
<1>1. AtomsOf(m.role, m.parts) \in Seq(Atoms) /\ AtomsOf(m.role, m.calls) \in Seq(Atoms)
  BY MessagesAre, AtomsOfIs
<1>2. (IF m.role = "tool" THEN <<Atom("tool", m.call)>> ELSE <<>>) \in Seq(Atoms)
  <2>1. m.role = "tool" => Atom("tool", m.call) \in Atoms
    BY MessagesAre DEF Atom, Atoms
  <2> QED
    BY <2>1
<1> QED
  BY <1>1, <1>2, ConcatProperties DEF MessageAtoms

\* The type of the loop.
LEMMA ChatLoopType == Loop(ChatLoop, Messages, Atoms) /\ \A m \in Messages : ChatLoop[m] = MessageAtoms(m)
  BY MessageAtomsType DEF Loop, ChatLoop

\* ChatAtoms is that loop.
LEMMA ChatAtomsIs == \A s \in Seq(Messages) : ChatAtoms(s) = Hom(ChatLoop, s)
<1> TAKE s \in Seq(Messages)
<1>1. DOMAIN s = 1..Len(s) /\ \A i \in 1..Len(s) : s[i] \in Messages
  BY LenProperties, ElementOfSeq
<1>2. [i \in DOMAIN s |-> MessageAtoms(s[i])] = Map(ChatLoop, s)
  BY <1>1, ChatLoopType DEF Map
<1> QED
  BY <1>2 DEF ChatAtoms, Concat, Hom, MessageAtoms

\* Items of the Responses API: those of a request and of an answer.
Items == {i \in [type : {"reasoning", "message", "function_call", "function_call_output"},
                 role : Roles, parts : Seq(Parts), call : CallIds \cup {"none"}] :
            i.type \in {"function_call", "function_call_output"} => i.call \in CallIds}

\* The atoms of one item, and the loop over items.
ItemAtoms(i) == CASE i.type = "function_call" -> <<Atom("assistant", i.call)>>
                  [] i.type = "function_call_output" -> <<Atom("tool", i.call)>> \o AtomsOf("tool", i.parts)
                  [] i.type = "message" -> AtomsOf(i.role, i.parts)
                  [] OTHER -> <<>>
ItemLoop == [i \in Items |-> ItemAtoms(i)]

\* They are atoms.
LEMMA ItemAtomsType == \A i \in Items : ItemAtoms(i) \in Seq(Atoms)
<1> TAKE i \in Items
<1>1. i.parts \in Seq(Names)
  BY NamesSeq DEF Items
<1>2. AtomsOf(i.role, i.parts) \in Seq(Atoms) /\ AtomsOf("tool", i.parts) \in Seq(Atoms)
  BY <1>1, AtomsOfIs
<1>3. ASSUME i.call \in CallIds
      PROVE  <<Atom("assistant", i.call)>> \in Seq(Atoms) /\ <<Atom("tool", i.call)>> \in Seq(Atoms)
  <2>1. Atom("assistant", i.call) \in Atoms /\ Atom("tool", i.call) \in Atoms
    BY <1>3 DEF Atom, Atoms
  <2> QED
    BY <2>1
<1>4. CASE i.type = "function_call"
  BY <1>3, <1>4 DEF ItemAtoms, Items
<1>5. CASE i.type = "function_call_output"
  <2>1. i.call \in CallIds
    BY <1>5 DEF Items
  <2>2. <<Atom("tool", i.call)>> \o AtomsOf("tool", i.parts) \in Seq(Atoms)
    BY <1>2, <1>3, <2>1, ConcatProperties
  <2> QED
    BY <1>5, <2>2 DEF ItemAtoms
<1>6. CASE i.type = "message"
  BY <1>2, <1>6 DEF ItemAtoms
<1>7. CASE i.type = "reasoning"
  BY <1>7, EmptySeq DEF ItemAtoms
<1> QED
  BY <1>4, <1>5, <1>6, <1>7 DEF Items

\* The type of the loop.
LEMMA ItemLoopType == Loop(ItemLoop, Items, Atoms) /\ \A i \in Items : ItemLoop[i] = ItemAtoms(i)
  BY ItemAtomsType DEF Loop, ItemLoop

\* ResponsesAtoms is that loop.
LEMMA ResponsesAtomsIs == \A s \in Seq(Items) : ResponsesAtoms(s) = Hom(ItemLoop, s)
<1> TAKE s \in Seq(Items)
<1>1. DOMAIN s = 1..Len(s) /\ \A i \in 1..Len(s) : s[i] \in Items
  BY LenProperties, ElementOfSeq
<1>2. [i \in DOMAIN s |-> ItemAtoms(s[i])] = Map(ItemLoop, s)
  BY <1>1, ItemLoopType DEF Map
<1> QED
  BY <1>2 DEF ResponsesAtoms, Concat, Hom, ItemAtoms

-----------------------------------------------------------------------------
(* Loops that do the same or nothing.                                      *)

\* Two loops that do the same on every element do the same.
LEMMA HomSame ==
    ASSUME NEW X, NEW g, NEW h, \A x \in X : g[x] = h[x]
    PROVE  \A s \in Seq(X) : Hom(g, s) = Hom(h, s)
<1> TAKE s \in Seq(X)
<1>1. DOMAIN s = 1..Len(s) /\ \A i \in 1..Len(s) : s[i] \in X
  BY LenProperties, ElementOfSeq
<1>2. Map(g, s) = Map(h, s)
  BY <1>1 DEF Map
<1> QED
  BY <1>2 DEF Hom

\* A loop that gives nothing for every element gives nothing.
LEMMA HomNothing ==
    ASSUME NEW X, NEW B, NEW g, Loop(g, X, B), \A x \in X : g[x] = <<>>
    PROVE  \A s \in Seq(X) : Hom(g, s) = <<>>
<1> DEFINE G == {s \in Seq(X) : Hom(g, s) = <<>>}
<1>1. <<>> \in G
  BY HomEmpty
<1>2. ASSUME NEW s \in Seq(X), NEW x \in X, s \in G PROVE Append(s, x) \in G
  <2>1. Hom(g, Append(s, x)) = Hom(g, s) \o g[x]
    BY HomAppend
  <2>2. <<>> \o <<>> = <<>>
    BY EmptySeq, ConcatEmptySeq
  <2> QED
    BY <1>2, <2>1, <2>2, AppendProperties
<1>3. Seq(X) \subseteq G
  <2> HIDE DEF G
  <2> QED
    BY <1>1, <1>2, SeqInduct
<1> QED
  BY <1>3

\* AtomsOf as a loop over X.
AtomsLoop(role, X) == [x \in X |-> <<Atom(role, x)>>]

\* AtomsOf is that loop.
LEMMA AtomsOfLoop ==
    ASSUME NEW role, NEW X, X \subseteq Names
    PROVE  /\ \A s \in Seq(X) : AtomsOf(role, s) = Hom(AtomsLoop(role, X), s)
           /\ Loop(AtomsLoop(role, X), X, Atoms)
<1> DEFINE f == [x \in X |-> Atom(role, x)]
<1>1. f \in [X -> Atoms] /\ Single(f, X) = AtomsLoop(role, X)
  BY AtomType DEF AtomBy, Single, AtomsLoop
<1>2. ASSUME NEW s \in Seq(X) PROVE AtomsOf(role, s) = Map(f, s)
  <2>1. DOMAIN s = 1..Len(s) /\ \A i \in 1..Len(s) : s[i] \in X
    BY LenProperties, ElementOfSeq
  <2> QED
    BY <2>1 DEF AtomsOf, Map
<1> HIDE DEF f
<1>3. \A s \in Seq(X) : Map(f, s) = Hom(Single(f, X), s)
  BY <1>1, SingleIs
<1>4. Loop(Single(f, X), X, Atoms)
  BY <1>1, SingleType
<1> QED
  BY <1>1, <1>2, <1>3, <1>4

-----------------------------------------------------------------------------
(* Chat messages in the Responses API: every atom, in its place.           *)

\* The items that one chat message becomes (convert/messages.py:63-135).
ItemsOf(m) == IF m.role = "tool" THEN <<OutputItem(m.call, m.parts)>>
              ELSE <<MessageItem(m.role, m.parts)>>
                   \o [i \in DOMAIN m.calls |-> CallItem(m.calls[i])]
ItemsLoop == [m \in Messages |-> ItemsOf(m)]

\* The items of calls.
CallFn == [c \in CallIds |-> CallItem(c)]

\* Calls become items that say the same.
LEMMA CallItems ==
    ASSUME NEW s \in Seq(CallIds)
    PROVE  /\ [i \in DOMAIN s |-> CallItem(s[i])] = Map(CallFn, s)
           /\ Map(CallFn, s) \in Seq(Items)
           /\ Hom(ItemLoop, Map(CallFn, s)) = AtomsOf("assistant", s)
<1>1. DOMAIN s = 1..Len(s) /\ \A i \in 1..Len(s) : s[i] \in CallIds
  BY LenProperties, ElementOfSeq
<1>2. [i \in DOMAIN s |-> CallItem(s[i])] = Map(CallFn, s)
  BY <1>1 DEF Map, CallFn
<1>3. CallFn \in [CallIds -> Items]
  <2>1. \A c \in CallIds : CallItem(c) \in Items
    BY EmptySeq DEF CallItem, Items, Roles
  <2> QED
    BY <2>1 DEF CallFn
<1>4. Map(CallFn, s) \in Seq(Items)
  BY <1>3, MapIs
<1> DEFINE k == Single(CallFn, CallIds)
           both == [c \in CallIds |-> Hom(ItemLoop, k[c])]
<1>5. Map(CallFn, s) = Hom(k, s) /\ Loop(k, CallIds, Items)
  BY <1>3, SingleIs, SingleType
<1>6. \A c \in CallIds : both[c] = <<Atom("assistant", c)>>
  <2> TAKE c \in CallIds
  <2>1. CallFn[c] \in Items /\ CallFn[c] = CallItem(c) /\ k[c] = <<CallFn[c]>>
    BY <1>3 DEF CallFn, Single
  <2>2. Hom(ItemLoop, <<CallFn[c]>>) = ItemLoop[CallFn[c]]
    BY <2>1, ItemLoopType, HomOne
  <2>3. ItemLoop[CallFn[c]] = ItemAtoms(CallItem(c))
    BY <2>1, ItemLoopType
  <2>4. ItemAtoms(CallItem(c)) = <<Atom("assistant", c)>>
    BY DEF ItemAtoms, CallItem
  <2> QED
    BY <2>1, <2>2, <2>3, <2>4
<1>7. both = AtomsLoop("assistant", CallIds)
  BY <1>6 DEF AtomsLoop
<1> HIDE DEF k
<1>8. Hom(ItemLoop, Hom(k, s)) = Hom(both, s)
  <2>1. \A t \in Seq(CallIds) : Hom(ItemLoop, Hom(k, t)) = Hom([c \in CallIds |-> Hom(ItemLoop, k[c])], t)
    BY <1>5, ItemLoopType, HomHom
  <2> QED
    BY <2>1
<1>9. AtomsOf("assistant", s) = Hom(AtomsLoop("assistant", CallIds), s)
  <2>1. CallIds \subseteq Names
    BY DEF Names
  <2> QED
    BY <2>1, AtomsOfLoop
<1> QED
  BY <1>2, <1>4, <1>5, <1>7, <1>8, <1>9

\* The items of a message say what the message says, in its order.
LEMMA ItemsOfFacts ==
    ASSUME NEW m \in Messages
    PROVE  ItemsOf(m) \in Seq(Items) /\ Hom(ItemLoop, ItemsOf(m)) = MessageAtoms(m)
<1>1. CASE m.role = "tool"
  <2>1. OutputItem(m.call, m.parts) \in Items
    BY <1>1, MessagesAre DEF OutputItem, Items, Roles
  <2>2. ItemsOf(m) = <<OutputItem(m.call, m.parts)>>
    BY <1>1 DEF ItemsOf
  <2>3. Hom(ItemLoop, <<OutputItem(m.call, m.parts)>>) = ItemAtoms(OutputItem(m.call, m.parts))
    BY <2>1, ItemLoopType, HomOne
  <2>4. ItemAtoms(OutputItem(m.call, m.parts)) = <<Atom("tool", m.call)>> \o AtomsOf("tool", m.parts)
    BY DEF ItemAtoms, OutputItem
  <2>5. MessageAtoms(m) = (<<Atom("tool", m.call)>> \o AtomsOf("tool", m.parts)) \o AtomsOf("tool", <<>>)
    BY <1>1, MessagesAre DEF MessageAtoms
  <2>6. AtomsOf("tool", <<>>) = <<>>
    BY DEF AtomsOf
  <2>7. <<Atom("tool", m.call)>> \o AtomsOf("tool", m.parts) \in Seq(Atoms)
    <3>1. Atom("tool", m.call) \in Atoms
      BY <1>1, MessagesAre DEF Atom, Atoms
    <3>2. AtomsOf("tool", m.parts) \in Seq(Atoms)
      BY MessagesAre, AtomsOfIs
    <3>3. <<Atom("tool", m.call)>> \in Seq(Atoms)
      BY <3>1
    <3> QED
      BY <3>2, <3>3, ConcatProperties
  <2>8. MessageAtoms(m) = <<Atom("tool", m.call)>> \o AtomsOf("tool", m.parts)
    BY <2>5, <2>6, <2>7, ConcatEmptySeq
  <2>9. ItemsOf(m) \in Seq(Items)
    BY <2>1, <2>2
  <2>10. Hom(ItemLoop, ItemsOf(m)) = MessageAtoms(m)
    BY <2>2, <2>3, <2>4, <2>8, Zenon
  <2> QED
    BY <2>9, <2>10
<1>2. CASE m.role # "tool"
  <2> DEFINE i == MessageItem(m.role, m.parts)
             cs == Map(CallFn, m.calls)
  <2>1. i \in Items /\ <<i>> \in Seq(Items)
    BY EmptySeq, MessagesAre DEF MessageItem, Items, Roles
  <2>2. /\ cs \in Seq(Items) /\ Hom(ItemLoop, cs) = AtomsOf("assistant", m.calls)
        /\ [j \in DOMAIN m.calls |-> CallItem(m.calls[j])] = cs
    BY CallItems, MessagesAre
  <2>3. ItemsOf(m) = <<i>> \o cs
    BY <1>2, <2>2 DEF ItemsOf
  <2>4. ItemAtoms(i) = AtomsOf(m.role, m.parts)
    BY DEF ItemAtoms, MessageItem
  <2>5. AtomsOf("assistant", m.calls) = AtomsOf(m.role, m.calls)
    <3>1. AtomsOf("assistant", <<>>) = <<>> /\ AtomsOf(m.role, <<>>) = <<>>
      BY DEF AtomsOf
    <3> QED
      BY <3>1, MessagesAre
  <2> HIDE DEF i, cs
  <2>6. Hom(ItemLoop, <<i>> \o cs) = Hom(ItemLoop, <<i>>) \o Hom(ItemLoop, cs)
    <3>1. \A u, t \in Seq(Items) : Hom(ItemLoop, u \o t) = Hom(ItemLoop, u) \o Hom(ItemLoop, t)
      BY ItemLoopType, HomConcat
    <3> QED
      BY <2>1, <2>2, <3>1
  <2>7. Hom(ItemLoop, <<i>>) = ItemAtoms(i)
    BY <2>1, ItemLoopType, HomOne
  <2>8. MessageAtoms(m) = (<<>> \o AtomsOf(m.role, m.parts)) \o AtomsOf(m.role, m.calls)
    BY <1>2 DEF MessageAtoms
  <2>9. <<>> \o AtomsOf(m.role, m.parts) = AtomsOf(m.role, m.parts)
    BY MessagesAre, AtomsOfIs, ConcatEmptySeq
  <2>10. ItemsOf(m) \in Seq(Items)
    BY <2>1, <2>2, <2>3, ConcatProperties
  <2> QED
    BY <2>2, <2>3, <2>4, <2>5, <2>6, <2>7, <2>8, <2>9, <2>10
<1> QED
  BY <1>1, <1>2

\* Chat messages converted for the Responses API say the same, in the same
\* order (to_openai_response_input, convert/messages.py:63-135).
LEMMA ChatToResponsesKeeps ==
    ASSUME NEW s \in Seq(Messages)
    PROVE  /\ ChatToResponses(s) \in Seq(Items)
           /\ ResponsesAtoms(ChatToResponses(s)) = ChatAtoms(s)
<1>1. Loop(ItemsLoop, Messages, Items) /\ \A m \in Messages : ItemsLoop[m] = ItemsOf(m)
  BY ItemsOfFacts DEF Loop, ItemsLoop
<1>2. ChatToResponses(s) = Hom(ItemsLoop, s)
  <2>1. DOMAIN s = 1..Len(s) /\ \A i \in 1..Len(s) : s[i] \in Messages
    BY LenProperties, ElementOfSeq
  <2>2. [i \in DOMAIN s |-> ItemsOf(s[i])] = Map(ItemsLoop, s)
    BY <1>1, <2>1 DEF Map
  <2> QED
    BY <2>2 DEF ChatToResponses, Concat, Hom, ItemsOf
<1>3. ChatToResponses(s) \in Seq(Items)
  BY <1>1, <1>2, HomType
<1>4. Hom(ItemLoop, Hom(ItemsLoop, s)) = Hom([m \in Messages |-> Hom(ItemLoop, ItemsLoop[m])], s)
  <2>1. \A t \in Seq(Messages) :
           Hom(ItemLoop, Hom(ItemsLoop, t)) = Hom([m \in Messages |-> Hom(ItemLoop, ItemsLoop[m])], t)
    BY <1>1, ItemLoopType, HomHom
  <2> QED
    BY <2>1
<1>5. [m \in Messages |-> Hom(ItemLoop, ItemsLoop[m])] = ChatLoop
  BY <1>1, ItemsOfFacts DEF ChatLoop
<1> QED
  BY <1>2, <1>3, <1>4, <1>5, ResponsesAtomsIs, ChatAtomsIs

-----------------------------------------------------------------------------
(* Chat messages in the anthropic API.                                     *)

\* Blocks and messages of the anthropic API, in a request or an answer.
AnyBlocks == [type : {"thinking", "part", "tool_use", "tool_result"}, parts : Seq(Parts),
              call : CallIds \cup {"none"}]
\* The atoms of one block, and the loops over blocks and messages.
BlockAtoms(role, b) == (IF b.call = "none" THEN <<>> ELSE <<Atom(role, b.call)>>)
                       \o AtomsOf(role, b.parts)
BlockLoop(role) == [b \in AnyBlocks |-> BlockAtoms(role, b)]
BlockMessages == [role : {"user", "assistant"}, blocks : Seq(AnyBlocks)]
BlocksAtoms(m) == Hom(BlockLoop(m.role), m.blocks)
AnthropicLoop == [m \in BlockMessages |-> BlocksAtoms(m)]

\* The type of the loop over blocks.
LEMMA BlockLoopType ==
    ASSUME NEW role
    PROVE  /\ Loop(BlockLoop(role), AnyBlocks, Atoms)
           /\ \A b \in AnyBlocks : BlockLoop(role)[b] = BlockAtoms(role, b)
<1>1. ASSUME NEW b \in AnyBlocks PROVE BlockAtoms(role, b) \in Seq(Atoms)
  <2>1. b.parts \in Seq(Names) /\ b.call \in CallIds \cup {"none"}
    BY NamesSeq DEF AnyBlocks
  <2>2. AtomsOf(role, b.parts) \in Seq(Atoms)
    BY <2>1, AtomsOfIs
  <2>3. (IF b.call = "none" THEN <<>> ELSE <<Atom(role, b.call)>>) \in Seq(Atoms)
    <3>1. b.call # "none" => Atom(role, b.call) \in Atoms
      BY <2>1 DEF Atom, Atoms
    <3> QED
      BY <3>1
  <2> QED
    BY <2>2, <2>3, ConcatProperties DEF BlockAtoms
<1> QED
  BY <1>1 DEF Loop, BlockLoop

\* The type of the loop over messages.
LEMMA AnthropicLoopType ==
    /\ Loop(AnthropicLoop, BlockMessages, Atoms)
    /\ \A m \in BlockMessages : AnthropicLoop[m] = BlocksAtoms(m)
<1>1. ASSUME NEW m \in BlockMessages PROVE BlocksAtoms(m) \in Seq(Atoms)
  <2>1. m.blocks \in Seq(AnyBlocks) /\ Loop(BlockLoop(m.role), AnyBlocks, Atoms)
    BY BlockLoopType DEF BlockMessages
  <2> QED
    BY <2>1, HomType DEF BlocksAtoms
<1> QED
  BY <1>1 DEF Loop, AnthropicLoop

\* AnthropicAtoms is that loop.
LEMMA AnthropicAtomsIs == \A s \in Seq(BlockMessages) : AnthropicAtoms(s) = Hom(AnthropicLoop, s)
<1>1. ASSUME NEW m \in BlockMessages
      PROVE  FlattenSeq([i \in DOMAIN m.blocks |-> BlockAtoms(m.role, m.blocks[i])]) = BlocksAtoms(m)
  <2>1. m.blocks \in Seq(AnyBlocks)
    BY DEF BlockMessages
  <2>2. DOMAIN m.blocks = 1..Len(m.blocks) /\ \A i \in 1..Len(m.blocks) : m.blocks[i] \in AnyBlocks
    BY <2>1, LenProperties, ElementOfSeq
  <2>3. [i \in DOMAIN m.blocks |-> BlockAtoms(m.role, m.blocks[i])] = Map(BlockLoop(m.role), m.blocks)
    BY <2>2, BlockLoopType DEF Map
  <2> QED
    BY <2>3 DEF BlocksAtoms, Hom
<1> TAKE s \in Seq(BlockMessages)
<1>2. DOMAIN s = 1..Len(s) /\ \A i \in 1..Len(s) : s[i] \in BlockMessages
  BY LenProperties, ElementOfSeq
<1>3. [i \in DOMAIN s |-> FlattenSeq([j \in DOMAIN s[i].blocks |-> BlockAtoms(s[i].role, s[i].blocks[j])])]
        = Map(AnthropicLoop, s)
  BY <1>1, <1>2, AnthropicLoopType DEF Map
<1> QED
  BY <1>3 DEF AnthropicAtoms, Concat, Hom, BlockAtoms

\* The blocks of parts and of calls.
PartFn == [p \in Parts |-> Block("part", <<p>>, "none")]
UseFn == [c \in CallIds |-> Block("tool_use", <<>>, c)]

\* Blocks of which each says one name say what the names say.
LEMMA BlocksOfMap ==
    ASSUME NEW X, X \subseteq Names, NEW f \in [X -> AnyBlocks], NEW role,
           \A x \in X : BlockAtoms(role, f[x]) = <<Atom(role, x)>>
    PROVE  \A s \in Seq(X) : /\ Map(f, s) \in Seq(AnyBlocks)
                             /\ Hom(BlockLoop(role), Map(f, s)) = AtomsOf(role, s)
<1> DEFINE k == Single(f, X)
           l == BlockLoop(role)
           both == [x \in X |-> Hom(l, k[x])]
<1>1. \A s \in Seq(X) : Map(f, s) = Hom(k, s) /\ Map(f, s) \in Seq(AnyBlocks)
  <2>1. \A s \in Seq(X) : Map(f, s) = Hom(k, s)
    BY SingleIs
  <2>2. \A s \in Seq(X) : Map(f, s) \in Seq(AnyBlocks)
    BY MapIs
  <2> QED
    BY <2>1, <2>2
<1>2. Loop(k, X, AnyBlocks)
  BY SingleType
<1>3. Loop(l, AnyBlocks, Atoms) /\ \A b \in AnyBlocks : l[b] = BlockAtoms(role, b)
  BY BlockLoopType
<1>4. \A x \in X : k[x] = <<f[x]>> /\ f[x] \in AnyBlocks
  BY DEF Single
<1> HIDE DEF k, l
<1>5. \A x \in X : both[x] = <<Atom(role, x)>>
  <2> TAKE x \in X
  <2>1. Hom(l, <<f[x]>>) = l[f[x]]
    BY <1>3, <1>4, HomOne
  <2> QED
    BY <1>3, <1>4, <2>1
<1>6. both = AtomsLoop(role, X)
  BY <1>5 DEF AtomsLoop
<1>7. \A s \in Seq(X) : Hom(l, Hom(k, s)) = Hom(both, s)
  BY <1>2, <1>3, HomHom
<1>8. \A s \in Seq(X) : AtomsOf(role, s) = Hom(AtomsLoop(role, X), s)
  BY AtomsOfLoop
<1> QED
  BY <1>1, <1>6, <1>7, <1>8 DEF l

\* Parts become blocks that say the same.
LEMMA PartBlocks ==
    ASSUME NEW role, NEW s \in Seq(Parts)
    PROVE  /\ [i \in DOMAIN s |-> Block("part", <<s[i]>>, "none")] = Map(PartFn, s)
           /\ Map(PartFn, s) \in Seq(AnyBlocks)
           /\ Hom(BlockLoop(role), Map(PartFn, s)) = AtomsOf(role, s)
<1>1. DOMAIN s = 1..Len(s) /\ \A i \in 1..Len(s) : s[i] \in Parts
  BY LenProperties, ElementOfSeq
<1>2. [i \in DOMAIN s |-> Block("part", <<s[i]>>, "none")] = Map(PartFn, s)
  BY <1>1 DEF Map, PartFn
<1>3. PartFn \in [Parts -> AnyBlocks]
  <2>1. \A p \in Parts : Block("part", <<p>>, "none") \in AnyBlocks
    BY DEF Block, AnyBlocks
  <2> QED
    BY <2>1 DEF PartFn
<1>4. \A p \in Parts : BlockAtoms(role, PartFn[p]) = <<Atom(role, p)>>
  <2> TAKE p \in Parts
  <2>1. PartFn[p].call = "none" /\ PartFn[p].parts = <<p>>
    BY DEF PartFn, Block
  <2>2. AtomsOf(role, <<p>>) = <<Atom(role, p)>>
    BY DEF AtomsOf
  <2>3. <<>> \o <<Atom(role, p)>> = <<Atom(role, p)>>
    OBVIOUS
  <2> QED
    BY <2>1, <2>2, <2>3 DEF BlockAtoms
<1>5. Parts \subseteq Names
  BY DEF Names
<1>6. \A t \in Seq(Parts) : /\ Map(PartFn, t) \in Seq(AnyBlocks)
                            /\ Hom(BlockLoop(role), Map(PartFn, t)) = AtomsOf(role, t)
  BY <1>3, <1>4, <1>5, BlocksOfMap
<1> QED
  BY <1>2, <1>6

\* Calls become blocks that say the same.
LEMMA UseBlocks ==
    ASSUME NEW role, NEW s \in Seq(CallIds)
    PROVE  /\ [i \in DOMAIN s |-> Block("tool_use", <<>>, s[i])] = Map(UseFn, s)
           /\ Map(UseFn, s) \in Seq(AnyBlocks)
           /\ Hom(BlockLoop(role), Map(UseFn, s)) = AtomsOf(role, s)
<1>1. DOMAIN s = 1..Len(s) /\ \A i \in 1..Len(s) : s[i] \in CallIds
  BY LenProperties, ElementOfSeq
<1>2. [i \in DOMAIN s |-> Block("tool_use", <<>>, s[i])] = Map(UseFn, s)
  BY <1>1 DEF Map, UseFn
<1>3. UseFn \in [CallIds -> AnyBlocks]
  <2>1. \A c \in CallIds : Block("tool_use", <<>>, c) \in AnyBlocks
    BY EmptySeq DEF Block, AnyBlocks
  <2> QED
    BY <2>1 DEF UseFn
<1>4. \A c \in CallIds : BlockAtoms(role, UseFn[c]) = <<Atom(role, c)>>
  <2> TAKE c \in CallIds
  <2>1. UseFn[c].call = c /\ UseFn[c].parts = <<>> /\ c # "none"
    BY ConversationAssumption DEF UseFn, Block
  <2>2. AtomsOf(role, <<>>) = <<>>
    BY DEF AtomsOf
  <2>3. <<Atom(role, c)>> \o <<>> = <<Atom(role, c)>>
    OBVIOUS
  <2> QED
    BY <2>1, <2>2, <2>3 DEF BlockAtoms
<1>5. CallIds \subseteq Names
  BY DEF Names
<1>6. \A t \in Seq(CallIds) : /\ Map(UseFn, t) \in Seq(AnyBlocks)
                              /\ Hom(BlockLoop(role), Map(UseFn, t)) = AtomsOf(role, t)
  BY <1>3, <1>4, <1>5, BlocksOfMap
<1> QED
  BY <1>2, <1>6

\* The role and the blocks of one chat message
\* (convert/messages.py:137-241).
AnthropicRole(m) == IF m.role = "assistant" THEN "assistant" ELSE "user"
BlocksOf(m) == IF m.role = "tool" THEN <<Block("tool_result", m.parts, m.call)>>
               ELSE [i \in DOMAIN m.parts |-> Block("part", <<m.parts[i]>>, "none")]
                    \o [i \in DOMAIN m.calls |-> Block("tool_use", <<>>, m.calls[i])]

\* The blocks of a message say what the message says, in its order.
LEMMA BlocksOfFacts ==
    ASSUME NEW m \in Messages
    PROVE  /\ BlocksOf(m) \in Seq(AnyBlocks)
           /\ Hom(BlockLoop(AnthropicRole(m)), BlocksOf(m)) = MessageAtoms(m)
<1> DEFINE role == AnthropicRole(m)
           l == BlockLoop(role)
<1>1. \A w : Atom(role, w) = Atom(m.role, w)
  BY DEF AnthropicRole, Atom
<1>2. \A s : AtomsOf(role, s) = AtomsOf(m.role, s)
  BY <1>1 DEF AtomsOf
<1>3. Loop(l, AnyBlocks, Atoms) /\ \A b \in AnyBlocks : l[b] = BlockAtoms(role, b)
  BY BlockLoopType
<1> HIDE DEF role, l
<1>4. CASE m.role = "tool"
  <2> DEFINE b == Block("tool_result", m.parts, m.call)
  <2>1. b \in AnyBlocks /\ b.call = m.call /\ b.parts = m.parts /\ m.call # "none"
    BY <1>4, MessagesAre, ConversationAssumption DEF Block, AnyBlocks
  <2>2. BlocksOf(m) = <<b>>
    BY <1>4 DEF BlocksOf
  <2> HIDE DEF b
  <2>3. Hom(l, <<b>>) = l[b]
    BY <1>3, <2>1, HomOne
  <2>4. l[b] = <<Atom("tool", m.call)>> \o AtomsOf("tool", m.parts)
    BY <1>1, <1>2, <1>3, <1>4, <2>1 DEF BlockAtoms
  <2>5. MessageAtoms(m) = (<<Atom("tool", m.call)>> \o AtomsOf("tool", m.parts)) \o AtomsOf("tool", <<>>)
    BY <1>4, MessagesAre DEF MessageAtoms
  <2>6. AtomsOf("tool", <<>>) = <<>>
    BY DEF AtomsOf
  <2>7. <<Atom("tool", m.call)>> \o AtomsOf("tool", m.parts) \in Seq(Atoms)
    BY <1>3, <2>1, <2>4 DEF Loop
  <2>8. MessageAtoms(m) = <<Atom("tool", m.call)>> \o AtomsOf("tool", m.parts)
    BY <2>5, <2>6, <2>7, ConcatEmptySeq
  <2> QED
    BY <2>1, <2>2, <2>3, <2>4, <2>8 DEF l, role
<1>5. CASE m.role # "tool"
  <2> DEFINE ps == Map(PartFn, m.parts)
             us == Map(UseFn, m.calls)
  <2>1. /\ ps \in Seq(AnyBlocks) /\ Hom(l, ps) = AtomsOf(role, m.parts)
        /\ [i \in DOMAIN m.parts |-> Block("part", <<m.parts[i]>>, "none")] = ps
    BY PartBlocks, MessagesAre DEF l
  <2>2. /\ us \in Seq(AnyBlocks) /\ Hom(l, us) = AtomsOf(role, m.calls)
        /\ [i \in DOMAIN m.calls |-> Block("tool_use", <<>>, m.calls[i])] = us
    BY UseBlocks, MessagesAre DEF l
  <2>3. BlocksOf(m) = ps \o us
    BY <1>5, <2>1, <2>2 DEF BlocksOf
  <2> HIDE DEF ps, us
  <2>4. Hom(l, ps \o us) = Hom(l, ps) \o Hom(l, us)
    <3>1. \A t \in Seq(AnyBlocks) : Hom(l, ps \o t) = Hom(l, ps) \o Hom(l, t)
      BY <1>3, <2>1, HomConcat
    <3> QED
      BY <2>2, <3>1
  <2>5. MessageAtoms(m) = (<<>> \o AtomsOf(m.role, m.parts)) \o AtomsOf(m.role, m.calls)
    BY <1>5 DEF MessageAtoms
  <2>6. <<>> \o AtomsOf(m.role, m.parts) = AtomsOf(m.role, m.parts)
    BY MessagesAre, AtomsOfIs, ConcatEmptySeq
  <2>7. BlocksOf(m) \in Seq(AnyBlocks)
    BY <2>1, <2>2, <2>3, ConcatProperties
  <2> QED
    BY <1>2, <2>1, <2>2, <2>3, <2>4, <2>5, <2>6, <2>7 DEF l, role
<1> QED
  BY <1>4, <1>5

\* Messages of one role.
OfRole(r) == {m \in Messages : m.role = r}

\* The members of a sequence.
LEMMA ToSetIs == \A X : \A s \in Seq(X) : ToSet(s) = {s[i] : i \in 1..Len(s)} /\ ToSet(s) \subseteq X
<1> TAKE X
<1> TAKE s \in Seq(X)
<1>1. DOMAIN s = 1..Len(s) /\ \A i \in 1..Len(s) : s[i] \in X
  BY LenProperties, ElementOfSeq
<1> QED
  BY <1>1 DEF ToSet

\* Only takes nothing from a sequence over the set.
LEMMA OnlyAll ==
    ASSUME NEW S, NEW T, T \subseteq S
    PROVE  \A s \in Seq(T) : Only(S, s) = s
<1> DEFINE G == {s \in Seq(T) : Only(S, s) = s}
<1>1. <<>> \in G
  <2>1. <<>> \in Seq(T)
    BY EmptySeq
  <2> QED
    BY <2>1, OnlyFacts
<1>2. ASSUME NEW s \in Seq(T), NEW x \in T, s \in G PROVE Append(s, x) \in G
  <2>1. \A u \in Seq(T), y \in T :
          Only(S, Append(u, y)) = IF y \in S THEN Append(Only(S, u), y) ELSE Only(S, u)
    BY OnlyFacts
  <2>2. Only(S, Append(s, x)) = Append(Only(S, s), x)
    BY <2>1
  <2> QED
    BY <1>2, <2>2, AppendProperties
<1>3. Seq(T) \subseteq G
  <2> HIDE DEF G
  <2> QED
    BY <1>1, <1>2, SeqInduct
<1> QED
  BY <1>3

\* Chat messages of one role, not system and without an image of a type that
\* is not supported, say the same when converted for the anthropic API; that
\* there is nothing to convert is an error whose result is empty
\* (to_anthropic_message_input, convert/messages.py:137-241).
LEMMA ChatToAnthropicKeeps ==
    ASSUME NEW r \in {"user", "assistant", "tool"}, NEW s \in Seq(OfRole(r)),
           \A m \in ToSet(s) : "svg" \notin ToSet(m.parts)
    PROVE  /\ ChatToAnthropic(s).out \in Seq(BlockMessages)
           /\ AnthropicAtoms(ChatToAnthropic(s).out) = ChatAtoms(s)
<1> DEFINE X == OfRole(r)
           a == IF r = "assistant" THEN "assistant" ELSE "user"
           g == [m \in X |-> BlocksOf(m)]
           l == BlockLoop(a)
           blocks == Hom(g, s)
<1>1. X \subseteq Messages /\ s \in Seq(Messages) /\ \A m \in X : AnthropicRole(m) = a /\ m.role = r
  <2>1. X \subseteq Messages
    BY DEF OfRole
  <2>2. \A u \in Seq(X) : u \in Seq(Messages)
    BY <2>1, SeqMonotonic
  <2> QED
    BY <2>1, <2>2 DEF OfRole, AnthropicRole
<1>2. Loop(g, X, AnyBlocks) /\ \A m \in X : g[m] = BlocksOf(m) /\ Hom(l, g[m]) = MessageAtoms(m)
  BY <1>1, BlocksOfFacts DEF Loop
<1>3. FlattenSeq([i \in DOMAIN s |-> BlocksOf(s[i])]) = blocks
  <2>1. DOMAIN s = 1..Len(s) /\ \A i \in 1..Len(s) : s[i] \in X
    BY LenProperties, ElementOfSeq
  <2>2. [i \in DOMAIN s |-> BlocksOf(s[i])] = Map(g, s)
    BY <1>2, <2>1 DEF Map
  <2> QED
    BY <2>2 DEF Hom
<1>4. Loop(l, AnyBlocks, Atoms) /\ a \in {"user", "assistant"}
  BY BlockLoopType
<1>5. ToSet(s) \subseteq X
  BY ToSetIs
<1>6. blocks # <<>> => Head(s) \in X /\ AnthropicRole(Head(s)) = a
  <2>1. s # <<>> => Head(s) \in X
    OBVIOUS
  <2> HIDE DEF X, a
  <2>2. s = <<>> => blocks = <<>>
    BY HomEmpty
  <2> HIDE DEF blocks
  <2> QED
    BY <1>1, <2>1, <2>2
<1>7. ChatToAnthropic(s) = IF blocks = <<>> THEN ConversionError
                           ELSE Converted(<<[role |-> a, blocks |-> blocks]>>)
  <2> HIDE DEF X, a, g, l, blocks
  <2>1. blocks # <<>> => ~(\E m \in ToSet(s) : \/ m.role = "system" \/ "svg" \in ToSet(m.parts)
                                              \/ AnthropicRole(m) # AnthropicRole(Head(s)))
    BY <1>1, <1>5, <1>6
  <2>2. FlattenSeq([i \in DOMAIN s |->
          IF s[i].role = "tool" THEN <<Block("tool_result", s[i].parts, s[i].call)>>
          ELSE [j \in DOMAIN s[i].parts |-> Block("part", <<s[i].parts[j]>>, "none")]
               \o [j \in DOMAIN s[i].calls |-> Block("tool_use", <<>>, s[i].calls[j])]]) = blocks
    BY <1>3 DEF BlocksOf
  <2> QED
    BY <1>6, <2>1, <2>2 DEF ChatToAnthropic, Concat, AnthropicRole
<1> HIDE DEF X, a, g, l
<1>8. Hom(l, blocks) = ChatAtoms(s) /\ blocks \in Seq(AnyBlocks)
  <2>1. \A u \in Seq(X) : Hom(l, Hom(g, u)) = Hom([m \in X |-> Hom(l, g[m])], u)
    BY <1>2, <1>4, HomHom
  <2>2. \A m \in X : [n \in X |-> Hom(l, g[n])][m] = ChatLoop[m]
    BY <1>1, <1>2, ChatLoopType
  <2>3. \A u \in Seq(X) : Hom([m \in X |-> Hom(l, g[m])], u) = Hom(ChatLoop, u)
    BY <2>2, HomSame
  <2>4. s \in Seq(X)
    BY DEF X
  <2>5. Hom(ChatLoop, s) = ChatAtoms(s)
    BY <1>1, ChatAtomsIs
  <2>6. blocks \in Seq(AnyBlocks)
    BY <1>2, <2>4, HomType
  <2> QED
    BY <2>1, <2>3, <2>4, <2>5, <2>6
<1> HIDE DEF blocks
<1>9. CASE blocks = <<>>
  <2>1. ChatToAnthropic(s).out = <<>> /\ <<>> \in Seq(BlockMessages)
    BY <1>7, <1>9, EmptySeq DEF ConversionError
  <2>2. AnthropicAtoms(<<>>) = <<>>
    BY <2>1, AnthropicAtomsIs, HomEmpty
  <2>3. Hom(l, blocks) = <<>>
    BY <1>9, HomEmpty
  <2> QED
    BY <1>8, <2>1, <2>2, <2>3
<1>10. CASE blocks # <<>>
  <2> DEFINE m == [role |-> a, blocks |-> blocks]
  <2>1. m \in BlockMessages
    BY <1>4, <1>8 DEF BlockMessages
  <2>2. ChatToAnthropic(s).out = <<m>>
    BY <1>7, <1>10 DEF Converted
  <2>3. BlocksAtoms(m) = Hom(l, blocks)
    BY DEF BlocksAtoms, l
  <2> HIDE DEF m
  <2>4. <<m>> \in Seq(BlockMessages)
    BY <2>1
  <2>5. Hom(AnthropicLoop, <<m>>) = BlocksAtoms(m)
    BY <2>1, AnthropicLoopType, HomOne
  <2>6. AnthropicAtoms(<<m>>) = BlocksAtoms(m)
    BY <2>4, <2>5, AnthropicAtomsIs
  <2> QED
    BY <1>8, <2>2, <2>3, <2>4, <2>6
<1> QED
  BY <1>9, <1>10

\* The texts of system messages.
TextsLoop == [m \in Messages |-> IF m.role = "system" THEN Only({"text"}, m.parts) ELSE <<>>]

\* The type of that loop; a system message has nothing but texts.
LEMMA TextsLoopType ==
    /\ Loop(TextsLoop, Messages, Parts)
    /\ \A m \in Messages : TextsLoop[m] = IF m.role = "system" THEN m.parts ELSE <<>>
<1>1. ASSUME NEW m \in Messages
      PROVE  /\ TextsLoop[m] = IF m.role = "system" THEN m.parts ELSE <<>>
             /\ TextsLoop[m] \in Seq(Parts)
  <2>1. m.role = "system" => Only({"text"}, m.parts) = m.parts
    BY MessagesAre, OnlyAll
  <2> QED
    BY <2>1, MessagesAre, EmptySeq DEF TextsLoop
<1>2. TextsLoop = [m \in Messages |-> TextsLoop[m]]
  BY DEF TextsLoop
<1> HIDE DEF TextsLoop
<1> QED
  BY <1>1, <1>2 DEF Loop

\* ChatToSystem, by that loop.
LEMMA ChatToSystemIs ==
    ASSUME NEW s \in Seq(Messages)
    PROVE  LET texts == Hom(TextsLoop, s)
           IN /\ texts \in Seq(Parts)
              /\ ChatToSystem(s) = IF texts = <<>> THEN ConversionError
                                   ELSE Converted(<<[role |-> "user", blocks |-> Map(PartFn, texts)]>>)
<1> DEFINE texts == Hom(TextsLoop, s)
<1>1. FlattenSeq([i \in DOMAIN s |-> IF s[i].role = "system" THEN Only({"text"}, s[i].parts) ELSE <<>>]) = texts
  <2>1. DOMAIN s = 1..Len(s) /\ \A i \in 1..Len(s) : s[i] \in Messages
    BY LenProperties, ElementOfSeq
  <2>2. [i \in DOMAIN s |-> IF s[i].role = "system" THEN Only({"text"}, s[i].parts) ELSE <<>>] = Map(TextsLoop, s)
    BY <2>1 DEF Map, TextsLoop
  <2> QED
    BY <2>2 DEF Hom
<1>2. texts \in Seq(Parts)
  BY TextsLoopType, HomType
<1>3. [i \in DOMAIN texts |-> Block("part", <<texts[i]>>, "none")] = Map(PartFn, texts)
  <2>1. \A u \in Seq(Parts) : [i \in DOMAIN u |-> Block("part", <<u[i]>>, "none")] = Map(PartFn, u)
    BY PartBlocks
  <2> QED
    BY <1>2, <2>1
<1>4. ChatToSystem(s) = IF texts = <<>> THEN ConversionError
                        ELSE Converted(<<[role |-> "user", blocks |-> [i \in DOMAIN texts |-> Block("part", <<texts[i]>>, "none")]]>>)
  BY <1>1 DEF ChatToSystem, Concat
<1> QED
  BY <1>2, <1>3, <1>4

\* A system message says the same as a system prompt
\* (to_anthropic_message_system, convert/messages.py:243-264).
LEMMA ChatToSystemKeeps ==
    ASSUME NEW m \in OfRole("system")
    PROVE  /\ ChatToSystem(<<m>>).out \in Seq(BlockMessages)
           /\ AnthropicAtoms(ChatToSystem(<<m>>).out) = ChatAtoms(<<m>>)
<1>1. m \in Messages /\ m.role = "system"
  BY DEF OfRole
<1>2. <<m>> \in Seq(Messages)
  BY <1>1
<1> DEFINE texts == Hom(TextsLoop, <<m>>)
<1>3. texts = TextsLoop[m]
  BY <1>1, TextsLoopType, HomOne
<1>4. texts = m.parts
  BY <1>1, <1>3, TextsLoopType
<1>5. ChatToSystem(<<m>>) = IF texts = <<>> THEN ConversionError
                            ELSE Converted(<<[role |-> "user", blocks |-> Map(PartFn, texts)]>>)
  BY <1>2, ChatToSystemIs
<1>6. ChatAtoms(<<m>>) = AtomsOf("user", m.parts)
  <2>1. ChatAtoms(<<m>>) = Hom(ChatLoop, <<m>>)
    BY <1>2, ChatAtomsIs
  <2>2. Hom(ChatLoop, <<m>>) = MessageAtoms(m)
    <3>1. Hom(ChatLoop, <<m>>) = ChatLoop[m]
      BY <1>1, ChatLoopType, HomOne
    <3> QED
      BY <1>1, <3>1, ChatLoopType
  <2>3. m.calls = <<>> /\ AtomsOf("system", m.parts) \in Seq(Atoms)
    BY <1>1, MessagesAre, AtomsOfIs
  <2>4. MessageAtoms(m) = (<<>> \o AtomsOf("system", m.parts)) \o AtomsOf("system", <<>>)
    BY <1>1, <2>3 DEF MessageAtoms
  <2>5. AtomsOf("system", <<>>) = <<>>
    BY DEF AtomsOf
  <2>6. MessageAtoms(m) = AtomsOf("system", m.parts)
    BY <2>3, <2>4, <2>5, ConcatEmptySeq
  <2>7. AtomsOf("system", m.parts) = AtomsOf("user", m.parts)
    BY DEF AtomsOf, Atom
  <2> QED
    BY <2>1, <2>2, <2>6, <2>7
<1> HIDE DEF texts
<1>7. CASE texts = <<>>
  <2>1. ChatToSystem(<<m>>).out = <<>> /\ <<>> \in Seq(BlockMessages)
    BY <1>5, <1>7, EmptySeq DEF ConversionError
  <2>2. AnthropicAtoms(<<>>) = <<>>
    BY <2>1, AnthropicAtomsIs, HomEmpty
  <2>3. AtomsOf("user", <<>>) = <<>>
    BY DEF AtomsOf
  <2> QED
    BY <1>4, <1>6, <1>7, <2>1, <2>2, <2>3
<1>8. CASE texts # <<>>
  <2> DEFINE b == [role |-> "user", blocks |-> Map(PartFn, texts)]
  <2>1. \A u \in Seq(Parts) : /\ Map(PartFn, u) \in Seq(AnyBlocks)
                              /\ Hom(BlockLoop("user"), Map(PartFn, u)) = AtomsOf("user", u)
    BY PartBlocks
  <2>2. Map(PartFn, texts) \in Seq(AnyBlocks) /\ Hom(BlockLoop("user"), Map(PartFn, texts)) = AtomsOf("user", texts)
    BY <1>1, <1>4, <2>1, MessagesAre
  <2>3. b \in BlockMessages /\ BlocksAtoms(b) = AtomsOf("user", texts)
    BY <2>2 DEF BlockMessages, BlocksAtoms
  <2>4. ChatToSystem(<<m>>).out = <<b>>
    BY <1>5, <1>8 DEF Converted
  <2> HIDE DEF b
  <2>5. <<b>> \in Seq(BlockMessages)
    BY <2>3
  <2>6. Hom(AnthropicLoop, <<b>>) = AnthropicLoop[b]
    BY <2>3, AnthropicLoopType, HomOne
  <2>7. AnthropicAtoms(<<b>>) = BlocksAtoms(b)
    BY <2>3, <2>5, <2>6, AnthropicAtomsIs, AnthropicLoopType
  <2> QED
    BY <1>4, <1>6, <2>3, <2>4, <2>5, <2>7
<1> QED
  BY <1>7, <1>8

\* Other messages are not part of the system prompt.
LEMMA ChatToSystemOther ==
    ASSUME NEW r \in {"user", "assistant", "tool"}, NEW s \in Seq(OfRole(r))
    PROVE  ChatToSystem(s).out = <<>>
<1>1. OfRole(r) \subseteq Messages /\ \A m \in OfRole(r) : m.role # "system"
  BY DEF OfRole
<1>2. s \in Seq(Messages)
  BY <1>1, SeqMonotonic
<1>3. Hom(TextsLoop, s) = <<>>
  <2> DEFINE g == [m \in OfRole(r) |-> <<>>]
  <2>1. Loop(g, OfRole(r), Parts) /\ \A m \in OfRole(r) : g[m] = <<>> /\ TextsLoop[m] = g[m]
    BY <1>1, TextsLoopType, EmptySeq DEF Loop
  <2> HIDE DEF g
  <2>2. \A u \in Seq(OfRole(r)) : Hom(TextsLoop, u) = Hom(g, u)
    BY <2>1, HomSame
  <2>3. \A u \in Seq(OfRole(r)) : Hom(g, u) = <<>>
    BY <2>1, HomNothing
  <2> QED
    BY <2>2, <2>3
<1>4. Hom(TextsLoop, s) = <<>> => ChatToSystem(s) = ConversionError
  BY <1>2, ChatToSystemIs
<1> QED
  BY <1>3, <1>4 DEF ConversionError

\* A system message is not part of the messages.
LEMMA ChatToAnthropicSystem ==
    ASSUME NEW m \in OfRole("system")
    PROVE  ChatToAnthropic(<<m>>).out = <<>>
<1>1. m \in ToSet(<<m>>) /\ m.role = "system"
  BY DEF ToSet, OfRole
<1> QED
  BY <1>1 DEF ChatToAnthropic, ConversionError

-----------------------------------------------------------------------------
(* The two folds: what one element more makes of them.                     *)

\* The last number of 1..n is its maximum.
LEMMA MaxIs == ASSUME NEW n \in Nat, NEW s \in SUBSET (1..n), n \in s
               PROVE  Max(s) = n
<1>1. \A y \in s : y \in Nat /\ n >= y
  OBVIOUS
<1>2. \A x \in s : (\A y \in s : x >= y) => x = n
  BY <1>1
<1> QED
  BY <1>1, <1>2 DEF Max

\* The function that FoldLeft with Place is defined by, over all sets of
\* indices.
PlaceOn(base, seq, n, g) ==
    g = [s \in SUBSET (1..n) |->
           IF s = {} THEN base ELSE Place(g[s \ {Max(s)}], seq[Max(s)])]

\* There is such a function: sets of indices have a finite height.
LEMMA PlaceExists ==
    ASSUME NEW base, NEW seq, NEW n \in Nat
    PROVE  \E g : PlaceOn(base, seq, n, g)
<1> DEFINE Bad == {m \in Nat : ~ \E g : PlaceOn(base, seq, m, g)}
<1>1. 0 \notin Bad
  <2>1. SUBSET (1..0) = {{}}
    OBVIOUS
  <2> DEFINE g == [s \in SUBSET (1..0) |-> base]
  <2>2. PlaceOn(base, seq, 0, g)
    BY <2>1 DEF PlaceOn
  <2> QED
    BY <2>2
<1>2. ASSUME NEW m \in Nat, m \notin Bad PROVE m + 1 \notin Bad
  <2>1. PICK g : PlaceOn(base, seq, m, g)
    BY <1>2
  <2> DEFINE h == [s \in SUBSET (1..(m + 1)) |->
                     IF m + 1 \in s THEN Place(g[s \ {m + 1}], seq[m + 1]) ELSE g[s]]
  <2>2. ASSUME NEW s \in SUBSET (1..(m + 1))
        PROVE  h[s] = IF s = {} THEN base ELSE Place(h[s \ {Max(s)}], seq[Max(s)])
    <3>1. CASE m + 1 \in s
      <4>1. Max(s) = m + 1 /\ s # {}
        BY <3>1, MaxIs
      <4>2. s \ {m + 1} \in SUBSET (1..(m + 1)) /\ m + 1 \notin s \ {m + 1}
        OBVIOUS
      <4>3. h[s \ {m + 1}] = g[s \ {m + 1}]
        BY <4>2
      <4>4. h[s] = Place(g[s \ {m + 1}], seq[m + 1])
        BY <3>1
      <4> QED
        BY <4>1, <4>3, <4>4
    <3>2. CASE m + 1 \notin s
      <4>1. s \in SUBSET (1..m)
        BY <3>2
      <4>2. h[s] = g[s]
        BY <3>2
      <4>3. s \ {Max(s)} \in SUBSET (1..(m + 1)) /\ m + 1 \notin s \ {Max(s)}
        BY <3>2
      <4>4. h[s \ {Max(s)}] = g[s \ {Max(s)}]
        BY <4>3
      <4>5. g[s] = IF s = {} THEN base ELSE Place(g[s \ {Max(s)}], seq[Max(s)])
        BY <2>1, <4>1 DEF PlaceOn
      <4> QED
        BY <4>2, <4>4, <4>5
    <3> QED
      BY <3>1, <3>2
  <2>3. PlaceOn(base, seq, m + 1, h)
    <3> HIDE DEF h
    <3>1. h = [s \in SUBSET (1..(m + 1)) |-> h[s]]
      BY DEF h
    <3> QED
      BY <2>2, <3>1 DEF PlaceOn
  <2> QED
    BY <2>3
<1>3. Bad = {}
  <2> SUFFICES ASSUME Bad # {} PROVE FALSE
    OBVIOUS
  <2>1. PICK m \in Bad : \A k \in Bad : m <= k
    BY Least
  <2>2. m \in Nat /\ m # 0
    BY <1>1
  <2>3. m - 1 \in Nat /\ m - 1 \notin Bad /\ (m - 1) + 1 = m
    BY <2>1, <2>2
  <2> QED
    BY <1>2, <2>3
<1> QED
  BY <1>3

\* The fold by steps.
LEMMA PlaceSteps ==
    ASSUME NEW base, NEW seq, NEW n \in Nat, DOMAIN seq = 1..n
    PROVE  \E f : /\ f[0] = base
                  /\ \A k \in 1..n : f[k] = Place(f[k - 1], seq[k])
                  /\ f[n] = FoldLeft(Place, base, seq)
<1>1. PICK g : PlaceOn(base, seq, n, g) /\ FoldLeft(Place, base, seq) = g[1..n]
  <2>1. PICK g : PlaceOn(base, seq, n, g)
    BY PlaceExists
  <2> QED
    BY <2>1 DEF FoldLeft, MapThenFoldSet, PlaceOn
<1> DEFINE f == [k \in 0..n |-> g[1..k]]
<1>2. f[0] = base
  <2>1. 1..0 = {} /\ {} \in SUBSET (1..n)
    OBVIOUS
  <2> QED
    BY <1>1, <2>1 DEF PlaceOn
<1>3. ASSUME NEW k \in 1..n PROVE f[k] = Place(f[k - 1], seq[k])
  <2>1. k - 1 \in Nat /\ k \in Nat /\ 1..k \in SUBSET (1..k) /\ k \in 1..k
    OBVIOUS
  <2>2. Max(1..k) = k
    BY <2>1, MaxIs
  <2>3. (1..k) \ {k} = 1..(k - 1) /\ 1..k # {} /\ 1..k \in SUBSET (1..n)
    OBVIOUS
  <2>4. g[1..k] = Place(g[1..(k - 1)], seq[k])
    BY <1>1, <2>2, <2>3 DEF PlaceOn
  <2> QED
    BY <2>4
<1>4. f[n] = g[1..n]
  OBVIOUS
<1> QED
  BY <1>1, <1>2, <1>3, <1>4

\* The fold over one message more is one step more of the loop in
\* _set_messages (workflow.py:196-213).
LEMMA PlaceFold ==
    ASSUME NEW base
    PROVE  /\ FoldLeft(Place, base, <<>>) = base
           /\ \A X : \A s \in Seq(X), x \in X :
                FoldLeft(Place, base, Append(s, x)) = Place(FoldLeft(Place, base, s), x)
<1>1. FoldLeft(Place, base, <<>>) = base
  <2>1. DOMAIN <<>> = 1..0 /\ 0 \in Nat
    OBVIOUS
  <2>2. \E f : /\ f[0] = base
               /\ \A k \in 1..0 : f[k] = Place(f[k - 1], <<>>[k])
               /\ f[0] = FoldLeft(Place, base, <<>>)
    BY <2>1, PlaceSteps
  <2> QED
    BY <2>2
<1>2. ASSUME NEW X, NEW s \in Seq(X), NEW x \in X
      PROVE  FoldLeft(Place, base, Append(s, x)) = Place(FoldLeft(Place, base, s), x)
  <2> DEFINE n == Len(s)
             t == Append(s, x)
  <2>1. /\ n \in Nat /\ n + 1 \in Nat /\ DOMAIN s = 1..n /\ DOMAIN t = 1..(n + 1)
        /\ t[n + 1] = x /\ \A i \in 1..n : t[i] = s[i]
    BY LenProperties, AppendProperties
  <2> HIDE DEF n, t
  <2>2. PICK f : /\ f[0] = base
                 /\ \A k \in 1..n : f[k] = Place(f[k - 1], s[k])
                 /\ f[n] = FoldLeft(Place, base, s)
    BY <2>1, PlaceSteps
  <2>3. PICK h : /\ h[0] = base
                 /\ \A k \in 1..(n + 1) : h[k] = Place(h[k - 1], t[k])
                 /\ h[n + 1] = FoldLeft(Place, base, t)
    BY <2>1, PlaceSteps
  <2> DEFINE Bad == {k \in 0..n : f[k] # h[k]}
  <2>4. ASSUME Bad # {} PROVE FALSE
    <3>1. PICK k \in Bad : \A j \in Bad : k <= j
      <4>1. Bad \in SUBSET Nat
        BY <2>1
      <4> QED
        BY <2>4, <4>1, Least
    <3>2. k \in 1..n /\ k \in 1..(n + 1) /\ k - 1 \in 0..n /\ k - 1 \notin Bad
      BY <2>1, <2>2, <2>3, <3>1
    <3>3. f[k] = Place(f[k - 1], s[k]) /\ h[k] = Place(h[k - 1], t[k]) /\ f[k - 1] = h[k - 1] /\ t[k] = s[k]
      BY <2>1, <2>2, <2>3, <3>2
    <3> QED
      BY <3>1, <3>3
  <2>5. f[n] = h[n]
    BY <2>1, <2>4
  <2>6. n + 1 \in 1..(n + 1) /\ (n + 1) - 1 = n
    BY <2>1
  <2>7. h[n + 1] = Place(h[n], x)
    BY <2>1, <2>3, <2>6
  <2> QED
    BY <2>2, <2>3, <2>5, <2>7 DEF t
<1> QED
  BY <1>1, <1>2

\* The same of Take.
TakeOn(base, seq, n, g) ==
    g = [s \in SUBSET (1..n) |->
           IF s = {} THEN base ELSE Take(g[s \ {Max(s)}], seq[Max(s)])]

\* There is such a function.
LEMMA TakeExists ==
    ASSUME NEW base, NEW seq, NEW n \in Nat
    PROVE  \E g : TakeOn(base, seq, n, g)
<1> DEFINE Bad == {m \in Nat : ~ \E g : TakeOn(base, seq, m, g)}
<1>1. 0 \notin Bad
  <2>1. SUBSET (1..0) = {{}}
    OBVIOUS
  <2> DEFINE g == [s \in SUBSET (1..0) |-> base]
  <2>2. TakeOn(base, seq, 0, g)
    BY <2>1 DEF TakeOn
  <2> QED
    BY <2>2
<1>2. ASSUME NEW m \in Nat, m \notin Bad PROVE m + 1 \notin Bad
  <2>1. PICK g : TakeOn(base, seq, m, g)
    BY <1>2
  <2> DEFINE h == [s \in SUBSET (1..(m + 1)) |->
                     IF m + 1 \in s THEN Take(g[s \ {m + 1}], seq[m + 1]) ELSE g[s]]
  <2>2. ASSUME NEW s \in SUBSET (1..(m + 1))
        PROVE  h[s] = IF s = {} THEN base ELSE Take(h[s \ {Max(s)}], seq[Max(s)])
    <3>1. CASE m + 1 \in s
      <4>1. Max(s) = m + 1 /\ s # {}
        BY <3>1, MaxIs
      <4>2. s \ {m + 1} \in SUBSET (1..(m + 1)) /\ m + 1 \notin s \ {m + 1}
        OBVIOUS
      <4>3. h[s \ {m + 1}] = g[s \ {m + 1}]
        BY <4>2
      <4>4. h[s] = Take(g[s \ {m + 1}], seq[m + 1])
        BY <3>1
      <4> QED
        BY <4>1, <4>3, <4>4
    <3>2. CASE m + 1 \notin s
      <4>1. s \in SUBSET (1..m)
        BY <3>2
      <4>2. h[s] = g[s]
        BY <3>2
      <4>3. s \ {Max(s)} \in SUBSET (1..(m + 1)) /\ m + 1 \notin s \ {Max(s)}
        BY <3>2
      <4>4. h[s \ {Max(s)}] = g[s \ {Max(s)}]
        BY <4>3
      <4>5. g[s] = IF s = {} THEN base ELSE Take(g[s \ {Max(s)}], seq[Max(s)])
        BY <2>1, <4>1 DEF TakeOn
      <4> QED
        BY <4>2, <4>4, <4>5
    <3> QED
      BY <3>1, <3>2
  <2>3. TakeOn(base, seq, m + 1, h)
    <3> HIDE DEF h
    <3>1. h = [s \in SUBSET (1..(m + 1)) |-> h[s]]
      BY DEF h
    <3> QED
      BY <2>2, <3>1 DEF TakeOn
  <2> QED
    BY <2>3
<1>3. Bad = {}
  <2> SUFFICES ASSUME Bad # {} PROVE FALSE
    OBVIOUS
  <2>1. PICK m \in Bad : \A k \in Bad : m <= k
    BY Least
  <2>2. m \in Nat /\ m # 0
    BY <1>1
  <2>3. m - 1 \in Nat /\ m - 1 \notin Bad /\ (m - 1) + 1 = m
    BY <2>1, <2>2
  <2> QED
    BY <1>2, <2>3
<1> QED
  BY <1>3

\* The fold by steps.
LEMMA TakeSteps ==
    ASSUME NEW base, NEW seq, NEW n \in Nat, DOMAIN seq = 1..n
    PROVE  \E f : /\ f[0] = base
                  /\ \A k \in 1..n : f[k] = Take(f[k - 1], seq[k])
                  /\ f[n] = FoldLeft(Take, base, seq)
<1>1. PICK g : TakeOn(base, seq, n, g) /\ FoldLeft(Take, base, seq) = g[1..n]
  <2>1. PICK g : TakeOn(base, seq, n, g)
    BY TakeExists
  <2> QED
    BY <2>1 DEF FoldLeft, MapThenFoldSet, TakeOn
<1> DEFINE f == [k \in 0..n |-> g[1..k]]
<1>2. f[0] = base
  <2>1. 1..0 = {} /\ {} \in SUBSET (1..n)
    OBVIOUS
  <2> QED
    BY <1>1, <2>1 DEF TakeOn
<1>3. ASSUME NEW k \in 1..n PROVE f[k] = Take(f[k - 1], seq[k])
  <2>1. k - 1 \in Nat /\ k \in Nat /\ 1..k \in SUBSET (1..k) /\ k \in 1..k
    OBVIOUS
  <2>2. Max(1..k) = k
    BY <2>1, MaxIs
  <2>3. (1..k) \ {k} = 1..(k - 1) /\ 1..k # {} /\ 1..k \in SUBSET (1..n)
    OBVIOUS
  <2>4. g[1..k] = Take(g[1..(k - 1)], seq[k])
    BY <1>1, <2>2, <2>3 DEF TakeOn
  <2> QED
    BY <2>4
<1>4. f[n] = g[1..n]
  OBVIOUS
<1> QED
  BY <1>1, <1>2, <1>3, <1>4

\* The fold over one item more is one step more of the loop in
\* to_openai_chat_completion_input (convert/messages.py:289-338).
LEMMA TakeFold ==
    ASSUME NEW base
    PROVE  /\ FoldLeft(Take, base, <<>>) = base
           /\ \A X : \A s \in Seq(X), x \in X :
                FoldLeft(Take, base, Append(s, x)) = Take(FoldLeft(Take, base, s), x)
<1>1. FoldLeft(Take, base, <<>>) = base
  <2>1. DOMAIN <<>> = 1..0 /\ 0 \in Nat
    OBVIOUS
  <2>2. \E f : /\ f[0] = base
               /\ \A k \in 1..0 : f[k] = Take(f[k - 1], <<>>[k])
               /\ f[0] = FoldLeft(Take, base, <<>>)
    BY <2>1, TakeSteps
  <2> QED
    BY <2>2
<1>2. ASSUME NEW X, NEW s \in Seq(X), NEW x \in X
      PROVE  FoldLeft(Take, base, Append(s, x)) = Take(FoldLeft(Take, base, s), x)
  <2> DEFINE n == Len(s)
             t == Append(s, x)
  <2>1. /\ n \in Nat /\ n + 1 \in Nat /\ DOMAIN s = 1..n /\ DOMAIN t = 1..(n + 1)
        /\ t[n + 1] = x /\ \A i \in 1..n : t[i] = s[i]
    BY LenProperties, AppendProperties
  <2> HIDE DEF n, t
  <2>2. PICK f : /\ f[0] = base
                 /\ \A k \in 1..n : f[k] = Take(f[k - 1], s[k])
                 /\ f[n] = FoldLeft(Take, base, s)
    BY <2>1, TakeSteps
  <2>3. PICK h : /\ h[0] = base
                 /\ \A k \in 1..(n + 1) : h[k] = Take(h[k - 1], t[k])
                 /\ h[n + 1] = FoldLeft(Take, base, t)
    BY <2>1, TakeSteps
  <2> DEFINE Bad == {k \in 0..n : f[k] # h[k]}
  <2>4. ASSUME Bad # {} PROVE FALSE
    <3>1. PICK k \in Bad : \A j \in Bad : k <= j
      <4>1. Bad \in SUBSET Nat
        BY <2>1
      <4> QED
        BY <2>4, <4>1, Least
    <3>2. k \in 1..n /\ k \in 1..(n + 1) /\ k - 1 \in 0..n /\ k - 1 \notin Bad
      BY <2>1, <2>2, <2>3, <3>1
    <3>3. f[k] = Take(f[k - 1], s[k]) /\ h[k] = Take(h[k - 1], t[k]) /\ f[k - 1] = h[k - 1] /\ t[k] = s[k]
      BY <2>1, <2>2, <2>3, <3>2
    <3> QED
      BY <3>1, <3>3
  <2>5. f[n] = h[n]
    BY <2>1, <2>4
  <2>6. n + 1 \in 1..(n + 1) /\ (n + 1) - 1 = n
    BY <2>1
  <2>7. h[n + 1] = Take(h[n], x)
    BY <2>1, <2>3, <2>6
  <2> QED
    BY <2>2, <2>3, <2>5, <2>7 DEF t
<1> QED
  BY <1>1, <1>2

-----------------------------------------------------------------------------
(* What is compared, and the atoms of chat messages.                       *)

\* The atoms of no message, of one, of one more and of two sequences.
LEMMA ChatFacts ==
    /\ ChatAtoms(<<>>) = <<>>
    /\ \A s \in Seq(Messages) : ChatAtoms(s) \in Seq(Atoms)
    /\ \A s \in Seq(Messages), m \in Messages : ChatAtoms(Append(s, m)) = ChatAtoms(s) \o MessageAtoms(m)
    /\ \A s, t \in Seq(Messages) : ChatAtoms(s \o t) = ChatAtoms(s) \o ChatAtoms(t)
    /\ \A m \in Messages : ChatAtoms(<<m>>) = MessageAtoms(m)
<1>1. Loop(ChatLoop, Messages, Atoms) /\ \A m \in Messages : ChatLoop[m] = MessageAtoms(m)
  BY ChatLoopType
<1>2. \A s \in Seq(Messages) : ChatAtoms(s) = Hom(ChatLoop, s)
  BY ChatAtomsIs
<1>3. ChatAtoms(<<>>) = <<>>
  BY <1>2, HomEmpty, EmptySeq
<1>4. \A s \in Seq(Messages) : ChatAtoms(s) \in Seq(Atoms)
  BY <1>1, <1>2, HomType
<1>5. ASSUME NEW s \in Seq(Messages), NEW m \in Messages
      PROVE  ChatAtoms(Append(s, m)) = ChatAtoms(s) \o MessageAtoms(m)
  <2>1. Hom(ChatLoop, Append(s, m)) = Hom(ChatLoop, s) \o ChatLoop[m]
    BY <1>1, HomAppend
  <2> QED
    BY <1>1, <1>2, <2>1, AppendProperties
<1>6. ASSUME NEW s \in Seq(Messages), NEW t \in Seq(Messages)
      PROVE  ChatAtoms(s \o t) = ChatAtoms(s) \o ChatAtoms(t)
  <2>1. Hom(ChatLoop, s \o t) = Hom(ChatLoop, s) \o Hom(ChatLoop, t)
    BY <1>1, HomConcat
  <2> QED
    BY <1>2, <2>1, ConcatProperties
<1>7. ASSUME NEW m \in Messages PROVE ChatAtoms(<<m>>) = MessageAtoms(m)
  <2>1. Hom(ChatLoop, <<m>>) = ChatLoop[m]
    BY <1>1, HomOne
  <2>2. <<m>> \in Seq(Messages)
    OBVIOUS
  <2> QED
    BY <1>1, <1>2, <2>1, <2>2
<1> QED
  BY <1>3, <1>4, <1>5, <1>6, <1>7

\* Only takes everything from a sequence over another set.
LEMMA OnlyNothing ==
    ASSUME NEW S, NEW T, T \cap S = {}
    PROVE  \A s \in Seq(T) : Only(S, s) = <<>>
<1> DEFINE G == {s \in Seq(T) : Only(S, s) = <<>>}
<1>1. <<>> \in G
  <2>1. <<>> \in Seq(T)
    BY EmptySeq
  <2> QED
    BY <2>1, OnlyFacts
<1>2. ASSUME NEW s \in Seq(T), NEW x \in T, s \in G PROVE Append(s, x) \in G
  <2>1. \A u \in Seq(T), y \in T :
          Only(S, Append(u, y)) = IF y \in S THEN Append(Only(S, u), y) ELSE Only(S, u)
    BY OnlyFacts
  <2>2. Only(S, Append(s, x)) = Only(S, s)
    BY <2>1
  <2> QED
    BY <1>2, <2>2, AppendProperties
<1>3. Seq(T) \subseteq G
  <2> HIDE DEF G
  <2> QED
    BY <1>1, <1>2, SeqInduct
<1> QED
  BY <1>3

\* The order of a model's text and its calls is not the same in all formats:
\* what is compared (S) is not about both.  All four sets the properties
\* compare are of this kind.
Sorted(S) == <<"model", "text">> \notin S \/ CallAtoms \cap S = {}

\* The sets of the properties are such sets.
LEMMA SortedSets ==
    Sorted(WordAtoms) /\ Sorted(ImageAtoms) /\ Sorted(ActionAtoms) /\ Sorted(CallAtoms)
<1>1. CallAtoms \cap WordAtoms = {}
  BY DEF WordAtoms
<1>2. <<"model", "text">> \notin ImageAtoms
  BY DEF ImageAtoms, Images
<1>3. "text" \notin CallIds
  BY ConversationAssumption DEF Parts
<1>4. <<"model", "text">> \notin CallAtoms
  BY <1>3 DEF CallAtoms
<1>5. <<"model", "text">> \notin ActionAtoms
  BY <1>4 DEF ActionAtoms
<1> QED
  BY <1>1, <1>2, <1>4, <1>5 DEF Sorted

\* The texts of a model, when texts are not compared.
LEMMA TextsGone ==
    ASSUME NEW S, <<"model", "text">> \notin S
    PROVE  \A p \in Seq({"text"}) : Only(S, AtomsOf("assistant", p)) = <<>>
<1> DEFINE T == {<<"model", "text">>}
<1>1. ASSUME NEW p \in Seq({"text"}) PROVE AtomsOf("assistant", p) \in Seq(T)
  <2>1. Len(p) \in Nat /\ DOMAIN p = 1..Len(p) /\ \A i \in 1..Len(p) : p[i] \in {"text"}
    BY LenProperties, ElementOfSeq
  <2>2. AtomsOf("assistant", p) \in [1..Len(p) -> T]
    BY <2>1 DEF AtomsOf, Atom
  <2> QED
    BY <2>1, <2>2, SeqDef
<1>2. T \cap S = {}
  OBVIOUS
<1> HIDE DEF T
<1>3. \A u \in Seq(T) : Only(S, u) = <<>>
  BY <1>2, OnlyNothing
<1> QED
  BY <1>1, <1>3

\* The calls of a model, when calls are not compared.
LEMMA CallsGone ==
    ASSUME NEW S, CallAtoms \cap S = {}
    PROVE  \A c \in Seq(CallIds) : Only(S, AtomsOf("assistant", c)) = <<>>
<1>1. ASSUME NEW p \in Seq(CallIds) PROVE AtomsOf("assistant", p) \in Seq(CallAtoms)
  <2>1. Len(p) \in Nat /\ DOMAIN p = 1..Len(p) /\ \A i \in 1..Len(p) : p[i] \in CallIds
    BY LenProperties, ElementOfSeq
  <2>2. \A x \in CallIds : Atom("assistant", x) \in CallAtoms
    BY DEF Atom, CallAtoms, Atoms
  <2>3. AtomsOf("assistant", p) \in [1..Len(p) -> CallAtoms]
    BY <2>1, <2>2 DEF AtomsOf
  <2> QED
    BY <2>1, <2>3, SeqDef
<1>2. \A u \in Seq(CallAtoms) : Only(S, u) = <<>>
  BY OnlyNothing
<1> QED
  BY <1>1, <1>2

\* Of a model's texts and calls, one kind is not compared.
LEMMA TextsOrCalls ==
    ASSUME NEW S, Sorted(S)
    PROVE  \/ \A p \in Seq({"text"}) : Only(S, AtomsOf("assistant", p)) = <<>>
           \/ \A c \in Seq(CallIds) : Only(S, AtomsOf("assistant", c)) = <<>>
  BY TextsGone, CallsGone DEF Sorted

\* An answer of the model as a chat message.
LEMMA AnswerMessage ==
    ASSUME NEW p \in Seq({"text"}), NEW c \in Seq(CallIds)
    PROVE  /\ ChatMessage("assistant", p, c) \in OfRole("assistant")
           /\ ChatMessage("assistant", p, c).calls = c
           /\ MessageAtoms(ChatMessage("assistant", p, c)) = AtomsOf("assistant", p) \o AtomsOf("assistant", c)
<1> DEFINE m == ChatMessage("assistant", p, c)
<1>1. /\ m.role = "assistant" /\ m.parts = p /\ m.calls = c
      /\ m \in [role : {"system", "user", "assistant", "tool"}, parts : Seq(Parts),
                    calls : Seq(CallIds), call : CallIds \cup {"none"}]
  BY NamesSeq DEF ChatMessage
<1>2. m \in OfRole("assistant")
  BY <1>1 DEF OfRole, Messages
<1>3. AtomsOf("assistant", p) \in Seq(Atoms) /\ AtomsOf("assistant", c) \in Seq(Atoms)
  BY NamesSeq, AtomsOfIs
<1>4. MessageAtoms(m) = <<>> \o AtomsOf("assistant", p) \o AtomsOf("assistant", c)
  BY <1>1 DEF MessageAtoms
<1>5. <<>> \o AtomsOf("assistant", p) = AtomsOf("assistant", p)
  BY <1>3, ConcatEmptySeq
<1> QED
  BY <1>1, <1>2, <1>4, <1>5

-----------------------------------------------------------------------------
(* Answers of the Responses API as chat messages                           *)
(* (convert/messages.py:289-356).                                          *)

\* OnlyFacts of atoms, as one formula.
OnlyOn(S) ==
    /\ Only(S, <<>>) = <<>>
    /\ \A s \in Seq(Atoms) : Only(S, s) \in Seq(Atoms)
    /\ \A s \in Seq(Atoms), x \in Atoms :
         Only(S, Append(s, x)) = IF x \in S THEN Append(Only(S, s), x) ELSE Only(S, s)
    /\ \A s, t \in Seq(Atoms) : Only(S, s \o t) = Only(S, s) \o Only(S, t)

\* It holds.
LEMMA OnlyAtoms == \A S : OnlyOn(S)
<1> TAKE S
<1> DEFINE A == Atoms
<1> HIDE DEF A
<1>1. Only(S, <<>>) = <<>>
  BY OnlyFacts
<1>2. \A s \in Seq(Atoms) : Only(S, s) \in Seq(Atoms)
  BY OnlyFacts
<1>3. \A s \in Seq(Atoms), x \in Atoms :
         Only(S, Append(s, x)) = IF x \in S THEN Append(Only(S, s), x) ELSE Only(S, s)
  BY OnlyFacts, ZenonT(60)
<1>4. \A s, t \in Seq(Atoms) : Only(S, s \o t) = Only(S, s) \o Only(S, t)
  BY OnlyFacts
<1> QED
  BY <1>1, <1>2, <1>3, <1>4 DEF OnlyOn

\* The atoms of sequences of names, as one formula.
AtomsFacts(role) ==
    /\ AtomsOf(role, <<>>) = <<>>
    /\ \A s \in Seq(Names) : AtomsOf(role, s) \in Seq(Atoms)
    /\ \A s, t \in Seq(Names) : AtomsOf(role, s \o t) = AtomsOf(role, s) \o AtomsOf(role, t)
    /\ \A s \in Seq(Names), x \in Names : AtomsOf(role, Append(s, x)) = Append(AtomsOf(role, s), Atom(role, x))
    /\ \A x \in Names : AtomsOf(role, <<x>>) = <<Atom(role, x)>> /\ Atom(role, x) \in Atoms

\* It holds.
LEMMA AtomsOfAre == \A role : AtomsFacts(role)
<1> TAKE role
<1> DEFINE l == AtomsLoop(role, Names)
<1>1. Loop(l, Names, Atoms) /\ \A s \in Seq(Names) : AtomsOf(role, s) = Hom(l, s)
  BY AtomsOfLoop
<1>2. \A x \in Names : l[x] = <<Atom(role, x)>>
  BY DEF AtomsLoop
<1> HIDE DEF l
<1>3. AtomsOf(role, <<>>) = <<>>
  BY <1>1, HomEmpty, EmptySeq
<1>4. \A s \in Seq(Names) : AtomsOf(role, s) \in Seq(Atoms)
  BY AtomsOfIs
<1>5. ASSUME NEW s \in Seq(Names), NEW t \in Seq(Names)
      PROVE AtomsOf(role, s \o t) = AtomsOf(role, s) \o AtomsOf(role, t)
  <2>1. Hom(l, s \o t) = Hom(l, s) \o Hom(l, t)
    BY <1>1, HomConcat
  <2> QED
    BY <1>1, <2>1, ConcatProperties
<1>6. \A x \in Names : Atom(role, x) \in Atoms
  BY DEF Names, Atoms, Atom
<1>7. ASSUME NEW s \in Seq(Names), NEW x \in Names
      PROVE AtomsOf(role, Append(s, x)) = Append(AtomsOf(role, s), Atom(role, x))
  <2>1. Hom(l, Append(s, x)) = Hom(l, s) \o l[x]
    BY <1>1, HomAppend
  <2>2. AtomsOf(role, s) \o <<Atom(role, x)>> = Append(AtomsOf(role, s), Atom(role, x))
    BY <1>4, <1>6, AppendIsConcat
  <2> QED
    BY <1>1, <1>2, <2>1, <2>2, AppendProperties
<1>8. ASSUME NEW x \in Names PROVE AtomsOf(role, <<x>>) = <<Atom(role, x)>>
  <2>1. Hom(l, <<x>>) = l[x]
    BY <1>1, HomOne
  <2>2. <<x>> \in Seq(Names)
    OBVIOUS
  <2> QED
    BY <1>1, <1>2, <2>1, <2>2
<1> QED
  BY <1>3, <1>4, <1>5, <1>6, <1>7, <1>8 DEF AtomsFacts

\* Items before and after one another: a call before a message before a call
\* (CallsAround), a call before a message, a call.
Kind(s, i, t) == i \in 1..Len(s) /\ s[i].type = t
Around(s) == \E i, j, k \in 1..Len(s) : /\ i < j /\ j < k
                /\ Kind(s, i, "function_call") /\ Kind(s, j, "message") /\ Kind(s, k, "function_call")
Before(s) == \E i, j \in 1..Len(s) : i < j /\ Kind(s, i, "function_call") /\ Kind(s, j, "message")
Called(s) == \E i \in 1..Len(s) : Kind(s, i, "function_call")

\* How one item more changes that.
LEMMA AroundSteps ==
    ASSUME NEW s \in Seq(AnswerItems), NEW x \in AnswerItems
    PROVE  LET t == Append(s, x)
           IN /\ Around(s) => Around(t)
              /\ Before(s) => Before(t)
              /\ Called(s) => Called(t)
              /\ x.type = "function_call" => Called(t)
              /\ Called(s) /\ x.type = "message" => Before(t)
              /\ Before(s) /\ x.type = "function_call" => Around(t)
<1> DEFINE t == Append(s, x)
           n == Len(s)
<1>1. /\ n \in Nat /\ Len(t) = n + 1 /\ t[n + 1] = x /\ \A i \in 1..n : t[i] = s[i]
  BY LenProperties, AppendProperties
<1> HIDE DEF t
<1>2. /\ \A i, k : Kind(s, i, k) => Kind(t, i, k) /\ i \in 1..n
      /\ Kind(t, n + 1, x.type)
      /\ \A i \in 1..n : i \in 1..Len(t) /\ i < n + 1
      /\ n + 1 \in 1..Len(t)
  BY <1>1 DEF Kind
<1>3. Around(s) => Around(t)
  BY <1>1, <1>2 DEF Around
<1>4. Before(s) => Before(t)
  BY <1>1, <1>2 DEF Before
<1>5. (Called(s) => Called(t)) /\ (x.type = "function_call" => Called(t))
  BY <1>1, <1>2 DEF Called
<1>6. Called(s) /\ x.type = "message" => Before(t)
  BY <1>1, <1>2 DEF Called, Before
<1>7. Before(s) /\ x.type = "function_call" => Around(t)
  BY <1>1, <1>2 DEF Before, Around
<1> QED
  BY <1>3, <1>4, <1>5, <1>6, <1>7 DEF t

\* The loop over items after s: the messages so far, and the waiting calls.
Start == [out |-> <<>>, pending |-> <<>>]
Taken(s) == FoldLeft(Take, Start, s)

\* One item more.
LEMMA TakenIs ==
    /\ Taken(<<>>) = Start
    /\ \A X : \A s \in Seq(X), x \in X : Taken(Append(s, x)) = Take(Taken(s), x)
<1>1. /\ FoldLeft(Take, Start, <<>>) = Start
      /\ \A X : \A s \in Seq(X), x \in X :
                FoldLeft(Take, Start, Append(s, x)) = Take(FoldLeft(Take, Start, s), x)
  BY ONLY TakeFold, Zenon
<1> QED
  BY ONLY <1>1, Zenon DEF Taken

\* The invariant of the loop: messages and waiting calls say what the items
\* say.  The last message has calls only if a call came before a message, so
\* that if calls are waiting then, too, there are calls around a message.
ReadsAs(S, s, acc) ==
    /\ acc.out \in Seq(OfRole("assistant")) /\ acc.pending \in Seq(CallIds)
    /\ acc = [out |-> acc.out, pending |-> acc.pending]
    /\ acc.pending # <<>> => Called(s)
    /\ acc.out # <<>> /\ Last(acc.out).calls # <<>> => Before(s)
    /\ acc.out # <<>> /\ Last(acc.out).calls # <<>> /\ acc.pending # <<>> => Around(s)
    /\ Only(S, ChatAtoms(acc.out)) \o Only(S, AtomsOf("assistant", acc.pending)) = Only(S, Hom(ItemLoop, s))

\* The items of an answer are those of the model, with texts only.
LEMMA AnswerItemsAre ==
    /\ AnswerItems \subseteq Items
    /\ Seq(AnswerItems) \subseteq Seq(Items)
    /\ \A i \in AnswerItems : i.role = "assistant" /\ i.parts \in Seq({"text"})
<1>1. AnswerItems \subseteq Items
  BY NamesSeq DEF AnswerItems, Items, Roles
<1>2. Seq(AnswerItems) \subseteq Seq(Items)
  BY <1>1, SeqMonotonic
<1> QED
  BY <1>1, <1>2 DEF AnswerItems

\* A sequence is its front and its last element.
LEMMA FrontLast ==
    ASSUME NEW X, NEW s \in Seq(X), s # <<>>
    PROVE  /\ Last(s) \in X /\ Front(s) \in Seq(X)
           /\ s = Append(Front(s), Last(s))
<1>1. PICK f \in Seq(X), x \in X : s = Append(f, x)
  BY SequenceEmptyOrAppend
<1>2. /\ Len(f) \in Nat /\ Len(s) = Len(f) + 1 /\ s[Len(f) + 1] = x
      /\ \A i \in 1..Len(f) : s[i] = f[i] /\ f[i] \in X
  BY <1>1, LenProperties, AppendProperties, ElementOfSeq
<1>3. Last(s) = x
  BY <1>2 DEF Last
<1>4. Front(s) = SubSeq(s, 1, Len(f))
  BY <1>2 DEF Front
<1> DEFINE u == SubSeq(s, 1, Len(f))
<1>5. u \in Seq(X) /\ Len(u) = Len(f) /\ \A i \in 1..Len(f) : u[i] = s[i]
  <2>1. \A i \in 1..Len(f) : s[i] \in X
    BY <1>2
  <2>2. /\ u \in Seq(X) /\ Len(u) = IF 1 <= Len(f) THEN Len(f) - 1 + 1 ELSE 0
        /\ \A i \in 1..(Len(f) - 1 + 1) : u[i] = s[1 + i - 1]
    BY <1>2, <2>1, SubSeqProperties
  <2> HIDE DEF u
  <2> QED
    BY <1>2, <2>2
<1> HIDE DEF u
<1>6. u = f
  BY <1>2, <1>5, SeqEqual
<1> QED
  BY <1>1, <1>3, <1>4, <1>6 DEF u

\* The same of messages of the model.
LEMMA AssistantsAre ==
    /\ \A r : OfRole(r) \subseteq Messages /\ Seq(OfRole(r)) \subseteq Seq(Messages)
    /\ \A s \in Seq(OfRole("assistant")) : s # <<>> =>
          /\ Last(s) \in OfRole("assistant") /\ Front(s) \in Seq(OfRole("assistant"))
          /\ s = Append(Front(s), Last(s))
<1>1. \A r : OfRole(r) \subseteq Messages
  BY DEF OfRole
<1>2. \A r : Seq(OfRole(r)) \subseteq Seq(Messages)
  BY <1>1, SeqMonotonic
<1> QED
  BY <1>1, <1>2, FrontLast

\* One item more keeps the invariant: a message takes the waiting calls, a
\* call waits, reasoning is skipped.
LEMMA ReadsStep ==
    ASSUME NEW S, Sorted(S), NEW s \in Seq(AnswerItems), NEW x \in AnswerItems, ReadsAs(S, s, Taken(s))
    PROVE  ReadsAs(S, Append(s, x), Taken(Append(s, x)))
<1> DEFINE acc == Taken(s)
           out == acc.out
           pending == acc.pending
           t == Append(s, x)
           C(u) == Only(S, ChatAtoms(u))
           P(u) == Only(S, AtomsOf("assistant", u))
           R(u) == Only(S, Hom(ItemLoop, u))
<1>1. /\ acc.out \in Seq(OfRole("assistant")) /\ acc.pending \in Seq(CallIds)
      /\ acc = [out |-> acc.out, pending |-> acc.pending]
      /\ acc.pending # <<>> => Called(s)
      /\ acc.out # <<>> /\ Last(acc.out).calls # <<>> => Before(s)
      /\ acc.out # <<>> /\ Last(acc.out).calls # <<>> /\ acc.pending # <<>> => Around(s)
      /\ C(out) \o P(pending) = R(s)
  BY DEF ReadsAs
<1>2. Taken(t) = Take(acc, x)
  BY TakenIs
<1>3. /\ out \in Seq(OfRole("assistant")) /\ out \in Seq(Messages)
      /\ pending \in Seq(CallIds) /\ pending \in Seq(Names)
      /\ acc = [out |-> out, pending |-> pending]
  BY <1>1, AssistantsAre, NamesSeq
<1>4. /\ x \in Items /\ x.role = "assistant" /\ x.parts \in Seq({"text"}) /\ x.parts \in Seq(Names)
      /\ s \in Seq(Items) /\ t \in Seq(AnswerItems)
  BY AnswerItemsAre, AppendProperties, NamesSeq
<1>5. AtomsFacts("assistant")
  BY AtomsOfAre
<1>6. C(out) \in Seq(Atoms) /\ P(pending) \in Seq(Atoms) /\ R(s) \in Seq(Atoms) /\ P(x.parts) \in Seq(Atoms)
  <2>1. ChatAtoms(out) \in Seq(Atoms)
    BY <1>3, ChatFacts
  <2>2. AtomsOf("assistant", pending) \in Seq(Atoms) /\ AtomsOf("assistant", x.parts) \in Seq(Atoms)
    BY <1>3, <1>4, <1>5 DEF AtomsFacts
  <2>3. Hom(ItemLoop, s) \in Seq(Atoms)
    BY <1>4, ItemLoopType, HomType
  <2>4. \A u \in Seq(Atoms) : Only(S, u) \in Seq(Atoms)
    BY OnlyFacts
  <2> QED
    BY <2>1, <2>2, <2>3, <2>4
<1>7. R(t) = R(s) \o Only(S, ItemAtoms(x))
  <2>1. Hom(ItemLoop, t) = Hom(ItemLoop, s) \o ItemLoop[x]
    BY <1>4, ItemLoopType, HomAppend
  <2>2. ItemLoop[x] = ItemAtoms(x) /\ ItemAtoms(x) \in Seq(Atoms)
    BY <1>4, ItemLoopType, ItemAtomsType
  <2>3. Hom(ItemLoop, s) \in Seq(Atoms)
    BY <1>4, ItemLoopType, HomType
  <2>4. \A u, v \in Seq(Atoms) : Only(S, u \o v) = Only(S, u) \o Only(S, v)
    BY OnlyAtoms DEF OnlyOn
  <2> QED
    BY <2>1, <2>2, <2>3, <2>4
<1>8. \A u, v, w \in Seq(Atoms) : (u \o v) \o w = u \o (v \o w)
  BY ConcatAssociative
<1>9. OnlyOn(S)
  BY OnlyAtoms
<1>10. /\ Around(s) => Around(t)
       /\ Before(s) => Before(t)
       /\ Called(s) => Called(t)
       /\ x.type = "function_call" => Called(t)
       /\ Called(s) /\ x.type = "message" => Before(t)
       /\ Before(s) /\ x.type = "function_call" => Around(t)
  BY AroundSteps
<1>11. P(<<>>) = <<>>
  BY <1>5, OnlyFacts DEF AtomsFacts
<1> HIDE DEF acc, t
<1>12. CASE x.type = "message"
  <2> DEFINE m == ChatMessage("assistant", x.parts, pending)
             new == Append(out, m)
  <2>1. m \in OfRole("assistant") /\ m.calls = pending
        /\ MessageAtoms(m) = AtomsOf("assistant", x.parts) \o AtomsOf("assistant", pending)
    BY <1>3, <1>4, AnswerMessage
  <2>2. Taken(t) = [out |-> new, pending |-> <<>>]
    BY <1>2, <1>4, <1>12 DEF Take
  <2> HIDE DEF m
  <2>3. new \in Seq(OfRole("assistant")) /\ Last(new) = m /\ <<>> \in Seq(CallIds)
    BY <1>3, <2>1, AppendProperties DEF Last
  <2>4. ChatAtoms(new) = ChatAtoms(out) \o MessageAtoms(m)
    BY <1>3, <2>1, ChatFacts, AssistantsAre
  <2>5. C(new) = C(out) \o (P(x.parts) \o P(pending))
    <3>1. ChatAtoms(out) \in Seq(Atoms)
      BY <1>3, ChatFacts
    <3>2. AtomsOf("assistant", pending) \in Seq(Atoms) /\ AtomsOf("assistant", x.parts) \in Seq(Atoms)
      BY <1>3, <1>4, <1>5 DEF AtomsFacts
    <3>3. MessageAtoms(m) \in Seq(Atoms)
      BY <2>1, <3>2, ConcatProperties
    <3>4. \A u, v \in Seq(Atoms) : Only(S, u \o v) = Only(S, u) \o Only(S, v)
      BY <1>9 DEF OnlyOn
    <3> QED
      BY <2>1, <2>4, <3>1, <3>2, <3>3, <3>4, ZenonT(60)
  <2>6. P(x.parts) \o P(pending) = P(pending) \o P(x.parts)
    <3>1. P(x.parts) = <<>> \/ P(pending) = <<>>
      BY <1>3, <1>4, TextsOrCalls
    <3> HIDE DEF P
    <3> QED
      BY <1>6, <3>1, ConcatEmptySeq
  <2>7. Only(S, ItemAtoms(x)) = P(x.parts)
    BY <1>4, <1>12 DEF ItemAtoms
  <2> HIDE DEF new, C, P, R, out, pending
  <2>8. C(new) \o P(<<>>) = R(t)
    <3>1. C(out) \o (P(pending) \o P(x.parts)) = (C(out) \o P(pending)) \o P(x.parts)
      BY <1>6, <1>8
    <3>2. C(new) = R(t)
      BY <1>1, <1>7, <2>5, <2>6, <2>7, <3>1 DEF out, pending
    <3>3. C(new) \in Seq(Atoms)
      BY <1>6, <2>5, ConcatProperties
    <3> QED
      BY <1>11, <3>2, <3>3, ConcatEmptySeq
  <2> QED
    <3> DEFINE next == [out |-> new, pending |-> <<>>]
    <3>1. next.out = new /\ next.pending = <<>>
      OBVIOUS
    <3>2. pending # <<>> => Before(t)
      BY <1>1, <1>10, <1>12 DEF pending
    <3> HIDE DEF next
    <3>3. ReadsAs(S, t, next)
      BY <2>1, <2>3, <2>8, <3>1, <3>2 DEF ReadsAs, C, P, R, next
    <3> QED
      BY <2>2, <3>3 DEF next, t
<1>13. CASE x.type = "function_call"
  <2> DEFINE new == Append(pending, x.call)
  <2>1. Taken(t) = [out |-> out, pending |-> new]
    BY <1>2, <1>3, <1>13 DEF Take
  <2>2. x.call \in CallIds /\ x.call \in Names
    BY <1>13 DEF AnswerItems, Names
  <2>3. new \in Seq(CallIds)
    BY <1>3, <2>2, AppendProperties
  <2>4. AtomsOf("assistant", new) = AtomsOf("assistant", pending) \o <<Atom("assistant", x.call)>>
    <3>1. AtomsOf("assistant", new) = Append(AtomsOf("assistant", pending), Atom("assistant", x.call))
      BY <1>3, <1>5, <2>2 DEF AtomsFacts
    <3>2. AtomsOf("assistant", pending) \in Seq(Atoms) /\ Atom("assistant", x.call) \in Atoms
      BY <1>3, <1>5, <2>2 DEF AtomsFacts
    <3> QED
      BY <3>1, <3>2, AppendIsConcat
  <2>5. ItemAtoms(x) = <<Atom("assistant", x.call)>>
    BY <1>13 DEF ItemAtoms
  <2>6. P(new) = P(pending) \o Only(S, ItemAtoms(x)) /\ Only(S, ItemAtoms(x)) \in Seq(Atoms)
    <3>1. AtomsOf("assistant", pending) \in Seq(Atoms) /\ ItemAtoms(x) \in Seq(Atoms)
      BY <1>3, <1>4, <1>5, ItemAtomsType DEF AtomsFacts
    <3>2. \A u, v \in Seq(Atoms) : Only(S, u \o v) = Only(S, u) \o Only(S, v)
      BY <1>9 DEF OnlyOn
    <3>3. \A v \in Seq(Atoms) : Only(S, v) \in Seq(Atoms)
      BY <1>9 DEF OnlyOn
    <3> QED
      <4> DEFINE p == AtomsOf("assistant", pending)
                 q == ItemAtoms(x)
                 r == AtomsOf("assistant", new)
      <4> HIDE DEF p, q, r
      <4>1. r = p \o q /\ p \in Seq(Atoms) /\ q \in Seq(Atoms)
        BY <2>4, <2>5, <3>1 DEF p, q, r
      <4>2. Only(S, r) = Only(S, p) \o Only(S, q) /\ Only(S, q) \in Seq(Atoms)
        BY <4>1, <3>2, <3>3
      <4> QED
        BY <4>2 DEF p, q, r
  <2> HIDE DEF new, C, P, R, out, pending
  <2>7. C(out) \o P(new) = R(t)
    <3>1. C(out) \o (P(pending) \o Only(S, ItemAtoms(x))) = (C(out) \o P(pending)) \o Only(S, ItemAtoms(x))
      BY <1>6, <2>6, <1>8, ZenonT(60)
    <3> QED
      BY <1>1, <1>7, <2>6, <3>1 DEF out, pending
  <2> QED
    <3> DEFINE next == [out |-> out, pending |-> new]
    <3>1. next.out = out /\ next.pending = new
      OBVIOUS
    <3>2. Called(t) /\ (out # <<>> /\ Last(out).calls # <<>> => Before(t) /\ Around(t))
      BY <1>1, <1>10, <1>13 DEF out
    <3> HIDE DEF next
    <3>3. ReadsAs(S, t, next)
      BY <1>3, <2>3, <2>7, <3>1, <3>2 DEF ReadsAs, C, P, R, next
    <3> QED
      BY <2>1, <3>3 DEF next, t
<1>14. CASE x.type = "reasoning"
  <2>1. Taken(t) = acc
    BY <1>2, <1>14 DEF Take
  <2>2. ItemAtoms(x) = <<>>
    BY <1>14 DEF ItemAtoms
  <2>3. Only(S, <<>>) = <<>>
    BY OnlyFacts
  <2> HIDE DEF C, P, R, out, pending
  <2>4. R(t) = R(s)
    BY <1>6, <1>7, <2>2, <2>3, ConcatEmptySeq
  <2> QED
    <3>1. ReadsAs(S, t, acc)
      BY <1>1, <1>10, <2>4 DEF ReadsAs, C, P, R, out, pending
    <3> QED
      BY <2>1, <3>1 DEF t
<1> QED
  BY <1>12, <1>13, <1>14 DEF AnswerItems, t

\* The invariant, for all items.
LEMMA ReadsAll ==
    ASSUME NEW S, Sorted(S)
    PROVE  \A s \in Seq(AnswerItems) : ReadsAs(S, s, Taken(s))
<1> DEFINE G == {s \in Seq(AnswerItems) : ReadsAs(S, s, Taken(s))}
<1>1. <<>> \in G
  <2>1. Start.out = <<>> /\ Start.pending = <<>> /\ Start = [out |-> <<>>, pending |-> <<>>]
    BY DEF Start
  <2>2. <<>> \in Seq(OfRole("assistant")) /\ <<>> \in Seq(CallIds) /\ <<>> \in Seq(AnswerItems)
    BY EmptySeq
  <2>3. Only(S, <<>>) = <<>> /\ ChatAtoms(<<>>) = <<>> /\ AtomsOf("assistant", <<>>) = <<>>
        /\ Hom(ItemLoop, <<>>) = <<>> /\ <<>> \o <<>> = <<>>
    BY OnlyFacts, ChatFacts, AtomsOfAre, HomEmpty, <2>2, ConcatEmptySeq DEF AtomsFacts
  <2>4. ReadsAs(S, <<>>, Start)
    BY <2>1, <2>2, <2>3 DEF ReadsAs
  <2> QED
    BY <2>2, <2>4, TakenIs
<1>2. ASSUME NEW s \in Seq(AnswerItems), NEW x \in AnswerItems, s \in G PROVE Append(s, x) \in G
  BY <1>2, ReadsStep, AppendProperties
<1>3. Seq(AnswerItems) \subseteq G
  <2> HIDE DEF G
  <2> QED
    BY <1>1, <1>2, SeqInduct
<1> QED
  BY <1>3

\* A message of the model, and one whose calls are replaced.
LEMMA AssistantAtoms ==
    ASSUME NEW m \in OfRole("assistant")
    PROVE  /\ m.parts \in Seq({"text"}) /\ m.calls \in Seq(CallIds)
           /\ AtomsOf("assistant", m.parts) \in Seq(Atoms) /\ AtomsOf("assistant", m.calls) \in Seq(Atoms)
           /\ MessageAtoms(m) = AtomsOf("assistant", m.parts) \o AtomsOf("assistant", m.calls)
           /\ \A c \in Seq(CallIds) :
                /\ [m EXCEPT !.calls = c] \in OfRole("assistant")
                /\ [m EXCEPT !.calls = c].parts = m.parts /\ [m EXCEPT !.calls = c].calls = c
<1>1. m.role = "assistant" /\ m \in Messages
  BY DEF OfRole
<1>2. m.parts \in Seq({"text"}) /\ m.calls \in Seq(CallIds)
  BY <1>1, MessagesAre
<1>3. AtomsOf("assistant", m.parts) \in Seq(Atoms) /\ AtomsOf("assistant", m.calls) \in Seq(Atoms)
  BY <1>2, NamesSeq, AtomsOfIs
<1>4. MessageAtoms(m) = <<>> \o AtomsOf("assistant", m.parts) \o AtomsOf("assistant", m.calls)
  BY <1>1 DEF MessageAtoms
<1>5. <<>> \o AtomsOf("assistant", m.parts) = AtomsOf("assistant", m.parts)
  BY <1>3, ConcatEmptySeq
<1>6. ASSUME NEW c \in Seq(CallIds)
      PROVE  /\ [m EXCEPT !.calls = c] \in OfRole("assistant")
             /\ [m EXCEPT !.calls = c].parts = m.parts /\ [m EXCEPT !.calls = c].calls = c
  BY <1>1, <1>2 DEF OfRole, Messages
<1> QED
  BY <1>2, <1>3, <1>4, <1>5, <1>6

\* An answer of the Responses API says the same as chat messages, unless a
\* message has calls around it: the calls that are left over take the place
\* of those the last message has (convert/messages.py:340-356).
LEMMA ResponsesToChatKeeps ==
    ASSUME NEW s \in Seq(AnswerItems)
    PROVE  /\ ResponsesToChat(s) \in Seq(OfRole("assistant"))
           /\ \A S : Sorted(S) /\ (CallAtoms \cap S = {} \/ ~Around(s)) =>
                Only(S, ChatAtoms(ResponsesToChat(s))) = Only(S, ResponsesAtoms(s))
<1> DEFINE acc == Taken(s)
           out == acc.out
           pending == acc.pending
           result == ResponsesToChat(s)
<1>1. result = Leftover(out, pending)
  BY DEF ResponsesToChat, Taken, Start
<1>2. out \in Seq(OfRole("assistant")) /\ pending \in Seq(CallIds)
  <2>1. \A t \in Seq(AnswerItems) : ReadsAs(CallAtoms, t, Taken(t))
    BY ReadsAll, SortedSets
  <2> QED
    BY <2>1 DEF ReadsAs
<1>3. \A m \in OfRole("assistant") :
           /\ m.parts \in Seq({"text"}) /\ m.calls \in Seq(CallIds)
           /\ AtomsOf("assistant", m.parts) \in Seq(Atoms) /\ AtomsOf("assistant", m.calls) \in Seq(Atoms)
           /\ MessageAtoms(m) = AtomsOf("assistant", m.parts) \o AtomsOf("assistant", m.calls)
           /\ m \in Messages
  BY AssistantAtoms DEF OfRole
<1> DEFINE F == Front(out)
           m == Last(out)
           n == [m EXCEPT !.calls = pending]
           e == ChatMessage("assistant", <<>>, pending)
<1>4. pending = <<>> => result = out
  BY <1>1 DEF Leftover
<1>5. out # <<>> => F \in Seq(OfRole("assistant")) /\ m \in OfRole("assistant") /\ out = Append(F, m)
  BY <1>2, AssistantsAre
<1>6. out # <<>> => n \in OfRole("assistant") /\ n.parts = m.parts /\ n.calls = pending
  BY <1>2, <1>5, AssistantAtoms
<1>7. pending # <<>> /\ out # <<>> => result = Append(F, n)
  <2>1. out # <<>> => m.role = "assistant"
    BY <1>5 DEF OfRole
  <2> QED
    BY <1>1, <2>1 DEF Leftover
<1>8. pending # <<>> /\ out = <<>> => result = <<e>>
  <2>1. Append(<<>>, e) = <<e>>
    OBVIOUS
  <2> QED
    BY <1>1, <2>1 DEF Leftover
<1>9. e \in OfRole("assistant") /\ MessageAtoms(e) = AtomsOf("assistant", <<>>) \o AtomsOf("assistant", pending)
  <2>1. <<>> \in Seq({"text"})
    BY EmptySeq
  <2> QED
    BY <1>2, <2>1, AnswerMessage
<1> HIDE DEF acc, F, m, n, e, result
<1>10. result \in Seq(OfRole("assistant"))
  <2>1. <<e>> \in Seq(OfRole("assistant"))
    BY <1>9
  <2>2. out # <<>> => Append(F, n) \in Seq(OfRole("assistant"))
    BY <1>5, <1>6, AppendProperties
  <2> QED
    BY <1>2, <1>4, <1>7, <1>8, <2>1, <2>2
<1>11. ASSUME NEW S, Sorted(S), CallAtoms \cap S = {} \/ ~Around(s)
       PROVE  Only(S, ChatAtoms(result)) = Only(S, ResponsesAtoms(s))
  <2> DEFINE C(u) == Only(S, ChatAtoms(u))
             P(u) == Only(S, AtomsOf("assistant", u))
             R == Only(S, ResponsesAtoms(s))
  <2>1. /\ C(out) \o P(pending) = R
        /\ out # <<>> /\ Last(out).calls # <<>> /\ pending # <<>> => Around(s)
    <3>1. ReadsAs(S, s, acc)
      BY <1>11, ReadsAll DEF acc
    <3>2. ResponsesAtoms(s) = Hom(ItemLoop, s)
      BY AnswerItemsAre, ResponsesAtomsIs
    <3> QED
      BY <3>1, <3>2 DEF ReadsAs
  <2>2. OnlyOn(S) /\ AtomsFacts("assistant")
    BY OnlyAtoms, AtomsOfAre
  <2>3. \A u \in Seq(Messages) : C(u) \in Seq(Atoms)
    BY <2>2, ChatFacts DEF OnlyOn
  <2>4. \A u \in Seq(Names) : P(u) \in Seq(Atoms)
    BY <2>2 DEF OnlyOn, AtomsFacts
  <2>5. P(<<>>) = <<>> /\ C(<<>>) = <<>>
    BY <2>2, ChatFacts DEF OnlyOn, AtomsFacts
  <2>6. \A f \in Seq(OfRole("assistant")), w \in OfRole("assistant") :
           C(Append(f, w)) = C(f) \o (P(w.parts) \o P(w.calls))
    <3> TAKE f \in Seq(OfRole("assistant")), w \in OfRole("assistant")
    <3>1. f \in Seq(Messages) /\ w \in Messages
      BY AssistantsAre
    <3> DEFINE p == AtomsOf("assistant", w.parts)
               q == AtomsOf("assistant", w.calls)
    <3>2. p \in Seq(Atoms) /\ q \in Seq(Atoms) /\ MessageAtoms(w) = p \o q
      BY <1>3
    <3>3. ChatAtoms(Append(f, w)) = ChatAtoms(f) \o MessageAtoms(w) /\ ChatAtoms(f) \in Seq(Atoms)
      BY <3>1, ChatFacts
    <3> HIDE DEF p, q
    <3>4. p \o q \in Seq(Atoms)
      BY <3>2, ConcatProperties
    <3>5. \A u, v \in Seq(Atoms) : Only(S, u \o v) = Only(S, u) \o Only(S, v)
      BY <2>2 DEF OnlyOn
    <3>6. Only(S, ChatAtoms(f) \o (p \o q)) = Only(S, ChatAtoms(f)) \o (Only(S, p) \o Only(S, q))
      BY <3>2, <3>3, <3>4, <3>5
    <3> QED
      BY <3>2, <3>3, <3>6 DEF p, q
  <2>7. pending \in Seq(Names) /\ \A f \in Seq(OfRole("assistant")) : f \in Seq(Messages)
    BY <1>2, NamesSeq, AssistantsAre
  <2>8. \A u, v, w \in Seq(Atoms) : (u \o v) \o w = u \o (v \o w)
    BY ConcatAssociative
  <2>9. \A u \in Seq(Atoms) : u \o <<>> = u /\ <<>> \o u = u
    BY ConcatEmptySeq
  <2>10. out # <<>> /\ pending # <<>> => P(m.calls) = <<>>
    <3>1. CASE CallAtoms \cap S = {}
      BY <1>3, <1>5, <3>1, CallsGone
    <3>2. CASE ~Around(s)
      BY <2>1, <2>5, <3>2 DEF m
    <3> QED
      BY <1>11, <3>1, <3>2
  <2>11. out # <<>> => m.parts \in Seq(Names)
    BY <1>3, <1>5, NamesSeq
  <2>12. pending # <<>> /\ out = <<>> => C(result) = C(out) \o P(pending)
    <3>1. ChatAtoms(<<e>>) = MessageAtoms(e)
      BY <1>3, <1>9, ChatFacts
    <3>2. MessageAtoms(e) = AtomsOf("assistant", pending)
      BY <1>9, <2>2, <2>7, <2>9 DEF AtomsFacts
    <3> QED
      BY <1>8, <2>4, <2>5, <2>7, <2>9, <3>1, <3>2
  <2> HIDE DEF C, P, R, out, pending
  <2>13. pending = <<>> => C(result) = C(out) \o P(pending)
    BY <1>2, <1>4, <2>3, <2>5, <2>7, <2>9
  <2>14. pending # <<>> /\ out # <<>> => C(result) = C(out) \o P(pending)
    <3>1. SUFFICES ASSUME pending # <<>>, out # <<>> PROVE C(result) = C(out) \o P(pending)
      OBVIOUS
    <3>2. C(result) = C(F) \o (P(m.parts) \o P(pending))
      BY <1>5, <1>6, <1>7, <2>6, <3>1
    <3>3. C(out) = C(F) \o (P(m.parts) \o <<>>)
      BY <1>5, <2>6, <2>10, <3>1
    <3>4. C(F) \in Seq(Atoms) /\ P(m.parts) \in Seq(Atoms) /\ P(pending) \in Seq(Atoms)
      BY <1>5, <2>3, <2>4, <2>7, <2>11, <3>1
    <3> QED
      BY <2>8, <2>9, <3>2, <3>3, <3>4, SMTT(30)
  <2> QED
    BY <2>1, <2>12, <2>13, <2>14 DEF C, R
<1> QED
  BY <1>10, <1>11 DEF result

-----------------------------------------------------------------------------
(* Answers of the anthropic API as chat messages                           *)
(* (convert/messages.py, AnthropicOutputRecord).                           *)

AnswerMessages == [role : {"assistant"}, blocks : Seq(AnswerBlocks)]
\* The texts and the calls of an answer of the anthropic API, and the results
\* it has not.
PartsLoop == [b \in AnswerBlocks |-> IF b.type = "part" THEN b.parts ELSE <<>>]
CallsLoop == [b \in AnswerBlocks |-> IF b.type = "tool_use" THEN <<b.call>> ELSE <<>>]
ResultsLoop == [b \in AnswerBlocks |-> <<>>]

\* The types of these loops.
LEMMA AnswerBlocksAre ==
    /\ AnswerBlocks \subseteq AnyBlocks /\ AnswerMessages \subseteq BlockMessages
    /\ \A s \in Seq(AnswerBlocks) : s \in Seq(AnyBlocks)
    /\ Loop(PartsLoop, AnswerBlocks, {"text"})
    /\ Loop(CallsLoop, AnswerBlocks, CallIds)
    /\ Loop(ResultsLoop, AnswerBlocks, Messages)
<1>1. AnswerBlocks \subseteq AnyBlocks
  BY NamesSeq DEF AnswerBlocks, AnyBlocks
<1>2. \A s \in Seq(AnswerBlocks) : s \in Seq(AnyBlocks)
  BY <1>1, SeqMonotonic
<1>3. AnswerMessages \subseteq BlockMessages
  BY <1>2 DEF AnswerMessages, BlockMessages
<1>4. Loop(PartsLoop, AnswerBlocks, {"text"})
  <2>1. \A b \in AnswerBlocks : b.parts \in Seq({"text"}) /\ <<>> \in Seq({"text"})
    BY EmptySeq DEF AnswerBlocks
  <2> QED
    BY <2>1 DEF Loop, PartsLoop
<1>5. Loop(CallsLoop, AnswerBlocks, CallIds)
  <2>1. \A b \in AnswerBlocks : b.type = "tool_use" => b.call \in CallIds
    BY DEF AnswerBlocks
  <2>2. \A c \in CallIds : <<c>> \in Seq(CallIds)
    OBVIOUS
  <2>3. <<>> \in Seq(CallIds)
    BY EmptySeq
  <2> QED
    BY <2>1, <2>2, <2>3 DEF Loop, CallsLoop
<1>6. Loop(ResultsLoop, AnswerBlocks, Messages)
  <2>1. <<>> \in Seq(Messages)
    BY EmptySeq
  <2> QED
    BY <2>1 DEF Loop, ResultsLoop
<1> QED
  BY <1>1, <1>2, <1>3, <1>4, <1>5, <1>6

\* The answer as one chat message: its texts, then its calls
\* (convert/messages.py:387-482).
LEMMA AnthropicToChatIs ==
    ASSUME NEW m \in AnswerMessages
    PROVE  AnthropicToChat(m)
             = <<ChatMessage("assistant", Hom(PartsLoop, m.blocks), Hom(CallsLoop, m.blocks))>>
<1> DEFINE s == m.blocks
           Result(b) == IF b.type = "tool_result"
                        THEN <<[ChatMessage("tool", b.parts, <<>>) EXCEPT !.call = b.call]>>
                        ELSE <<>>
<1>1. s \in Seq(AnswerBlocks) /\ m.role = "assistant"
  BY DEF AnswerMessages
<1>2. DOMAIN s = 1..Len(s) /\ \A i \in 1..Len(s) : s[i] \in AnswerBlocks
  BY <1>1, LenProperties, ElementOfSeq
<1>3. [i \in DOMAIN s |-> Result(s[i])] = Map(ResultsLoop, s)
  <2>1. \A b \in AnswerBlocks : Result(b) = <<>>
    BY DEF AnswerBlocks
  <2> HIDE DEF Result
  <2> QED
    BY <1>2, <2>1 DEF Map, ResultsLoop
<1>4. [i \in DOMAIN s |-> IF s[i].type = "part" THEN s[i].parts ELSE <<>>] = Map(PartsLoop, s)
  BY <1>2 DEF Map, PartsLoop
<1>5. [i \in DOMAIN s |-> IF s[i].type = "tool_use" /\ m.role = "assistant" THEN <<s[i].call>> ELSE <<>>]
        = Map(CallsLoop, s)
  BY <1>1, <1>2 DEF Map, CallsLoop
<1>6. Hom(ResultsLoop, s) = <<>>
  <2>1. \A b \in AnswerBlocks : ResultsLoop[b] = <<>>
    BY DEF ResultsLoop
  <2>2. \A t \in Seq(AnswerBlocks) : Hom(ResultsLoop, t) = <<>>
    BY <2>1, AnswerBlocksAre, HomNothing
  <2> QED
    BY <1>1, <2>2
<1> DEFINE new == ChatMessage("assistant", Hom(PartsLoop, s), Hom(CallsLoop, s))
<1>7. AnthropicToChat(m) = <<>> \o <<new>>
  <2>1. FlattenSeq([i \in DOMAIN s |-> Result(s[i])]) = <<>>
    BY <1>3, <1>6 DEF Hom
  <2>2. FlattenSeq([i \in DOMAIN s |-> IF s[i].type = "part" THEN s[i].parts ELSE <<>>]) = Hom(PartsLoop, s)
    BY <1>4 DEF Hom
  <2>3. FlattenSeq([i \in DOMAIN s |-> IF s[i].type = "tool_use" /\ m.role = "assistant"
                                       THEN <<s[i].call>> ELSE <<>>]) = Hom(CallsLoop, s)
    BY <1>5 DEF Hom
  <2> QED
    BY <1>1, <2>1, <2>2, <2>3 DEF AnthropicToChat, Concat
<1> HIDE DEF new
<1>8. <<>> \o <<new>> = <<new>>
  <2>1. <<new>> \in Seq({new})
    OBVIOUS
  <2> QED
    BY <2>1, ConcatEmptySeq
<1> QED
  BY <1>7, <1>8 DEF new

\* Texts and calls apart are the texts and calls of the blocks, as only one
\* of the two is compared.
LEMMA BlocksRead ==
    ASSUME NEW S, Sorted(S)
    PROVE  \A s \in Seq(AnswerBlocks) :
             Only(S, Hom(BlockLoop("assistant"), s))
               = Only(S, AtomsOf("assistant", Hom(PartsLoop, s))) \o Only(S, AtomsOf("assistant", Hom(CallsLoop, s)))
<1> DEFINE B(u) == Only(S, Hom(BlockLoop("assistant"), u))
           P(u) == Only(S, AtomsOf("assistant", u))
           L(u) == Hom(PartsLoop, u)
           K(u) == Hom(CallsLoop, u)
           G == {s \in Seq(AnswerBlocks) : B(s) = P(L(s)) \o P(K(s))}
<1>1. OnlyOn(S) /\ AtomsFacts("assistant")
  BY OnlyAtoms, AtomsOfAre
<1>2. Loop(BlockLoop("assistant"), AnyBlocks, Atoms) /\ Loop(PartsLoop, AnswerBlocks, {"text"})
      /\ Loop(CallsLoop, AnswerBlocks, CallIds)
  BY BlockLoopType, AnswerBlocksAre
<1>3. <<>> \in G
  <2>1. <<>> \in Seq(AnswerBlocks) /\ <<>> \o <<>> = <<>>
    BY EmptySeq, ConcatEmptySeq
  <2>2. B(<<>>) = <<>> /\ L(<<>>) = <<>> /\ K(<<>>) = <<>> /\ P(<<>>) = <<>>
    BY <1>1, HomEmpty DEF OnlyOn, AtomsFacts
  <2> QED
    BY <2>1, <2>2
<1>4. \A s \in Seq(AnswerBlocks) : L(s) \in Seq({"text"}) /\ L(s) \in Seq(Names)
  BY <1>2, HomType, NamesSeq
<1>5. \A s \in Seq(AnswerBlocks) : K(s) \in Seq(CallIds) /\ K(s) \in Seq(Names)
  BY <1>2, HomType, NamesSeq
<1>6. \A s \in Seq(AnswerBlocks) : Hom(BlockLoop("assistant"), s) \in Seq(Atoms)
  BY <1>2, HomType, AnswerBlocksAre
<1>7. \A u, v \in Seq(Names) : P(u) \in Seq(Atoms) /\ P(u \o v) = P(u) \o P(v)
  <2> TAKE u, v \in Seq(Names)
  <2>1. AtomsOf("assistant", u) \in Seq(Atoms) /\ AtomsOf("assistant", v) \in Seq(Atoms)
        /\ AtomsOf("assistant", u \o v) = AtomsOf("assistant", u) \o AtomsOf("assistant", v)
    BY <1>1 DEF AtomsFacts
  <2>2. \A x, y \in Seq(Atoms) : Only(S, x \o y) = Only(S, x) \o Only(S, y)
    BY <1>1 DEF OnlyOn
  <2>3. \A x \in Seq(Atoms) : Only(S, x) \in Seq(Atoms)
    BY <1>1 DEF OnlyOn
  <2> QED
    BY <2>1, <2>2, <2>3
<1>8. \A u, v, w \in Seq(Atoms) : (u \o v) \o w = u \o (v \o w)
  BY ConcatAssociative
<1>9. \A u \in Seq(Atoms) : u \o <<>> = u /\ <<>> \o u = u
  BY ConcatEmptySeq
<1>10. \A p \in Seq({"text"}), c \in Seq(CallIds) : P(p) = <<>> \/ P(c) = <<>>
  BY TextsOrCalls
<1>11. ASSUME NEW s \in Seq(AnswerBlocks), NEW b \in AnswerBlocks, s \in G PROVE Append(s, b) \in G
  <2> DEFINE p == PartsLoop[b]
             c == CallsLoop[b]
  <2>1. L(Append(s, b)) = L(s) \o p /\ p \in Seq({"text"}) /\ p \in Seq(Names)
    <3>1. L(Append(s, b)) = L(s) \o p
      BY <1>2, HomAppend
    <3>2. p \in Seq({"text"})
      BY <1>2 DEF Loop
    <3> QED
      BY <3>1, <3>2, NamesSeq
  <2>2. K(Append(s, b)) = K(s) \o c /\ c \in Seq(CallIds) /\ c \in Seq(Names)
    <3>1. K(Append(s, b)) = K(s) \o c
      BY <1>2, HomAppend
    <3>2. c \in Seq(CallIds)
      BY <1>2 DEF Loop
    <3> QED
      BY <3>1, <3>2, NamesSeq
  <2>3. Hom(BlockLoop("assistant"), Append(s, b)) = Hom(BlockLoop("assistant"), s) \o BlockLoop("assistant")[b]
    BY <1>2, AnswerBlocksAre, HomAppend
  <2>4. BlockLoop("assistant")[b] = BlockAtoms("assistant", b) /\ BlockLoop("assistant")[b] \in Seq(Atoms)
    BY <1>2, AnswerBlocksAre, BlockLoopType DEF Loop
  <2>5. BlockAtoms("assistant", b) = AtomsOf("assistant", p) \o AtomsOf("assistant", c)
    <3>1. CASE b.type = "tool_use"
      <4>1. b.call \in CallIds /\ b.call # "none" /\ b.parts = <<>> /\ p = <<>> /\ c = <<b.call>>
        BY <3>1 DEF AnswerBlocks, PartsLoop, CallsLoop
      <4>2. b.call \in Names
        BY <4>1 DEF Names
      <4>3. AtomsOf("assistant", c) = <<Atom("assistant", b.call)>> /\ <<Atom("assistant", b.call)>> \in Seq(Atoms)
        BY <1>1, <4>1, <4>2 DEF AtomsFacts
      <4>4. AtomsOf("assistant", <<>>) = <<>>
        BY <1>1 DEF AtomsFacts
      <4> QED
        BY <1>9, <4>1, <4>3, <4>4 DEF BlockAtoms
    <3>2. CASE b.type # "tool_use"
      <4>1. b.call = "none" /\ c = <<>> /\ p = b.parts
        BY <3>2 DEF AnswerBlocks, PartsLoop, CallsLoop
      <4>2. AtomsOf("assistant", <<>>) = <<>> /\ AtomsOf("assistant", p) \in Seq(Atoms)
        BY <1>1, <2>1 DEF AtomsFacts
      <4> QED
        BY <1>9, <4>1, <4>2 DEF BlockAtoms
    <3> QED
      BY <3>1, <3>2
  <2>6. B(Append(s, b)) = B(s) \o (P(p) \o P(c))
    <3>1. \A u, v \in Seq(Atoms) : Only(S, u \o v) = Only(S, u) \o Only(S, v)
      BY <1>1 DEF OnlyOn
    <3>2. AtomsOf("assistant", p) \in Seq(Atoms) /\ AtomsOf("assistant", c) \in Seq(Atoms)
      BY <1>1, <2>1, <2>2 DEF AtomsFacts
    <3>3. Only(S, BlockAtoms("assistant", b)) = P(p) \o P(c)
      BY <2>5, <3>1, <3>2
    <3>4. B(Append(s, b)) = B(s) \o Only(S, BlockLoop("assistant")[b])
      BY <1>6, <2>3, <2>4, <3>1
    <3> QED
      BY <2>4, <3>3, <3>4
  <2>7. P(L(Append(s, b))) = P(L(s)) \o P(p) /\ P(K(Append(s, b))) = P(K(s)) \o P(c)
    <3>1. P(L(s) \o p) = P(L(s)) \o P(p)
      BY <1>4, <1>7, <2>1
    <3>2. P(K(s) \o c) = P(K(s)) \o P(c)
      BY <1>5, <1>7, <2>2
    <3> QED
      BY <2>1, <2>2, <3>1, <3>2
  <2>8. P(K(s)) = <<>> \/ P(p) = <<>>
    BY <1>5, <1>10, <2>1
  <2>9. B(s) = P(L(s)) \o P(K(s)) /\ P(L(s)) \in Seq(Atoms) /\ P(K(s)) \in Seq(Atoms)
        /\ P(p) \in Seq(Atoms) /\ P(c) \in Seq(Atoms)
    BY <1>4, <1>5, <1>7, <1>11, <2>1, <2>2
  <2>10. Append(s, b) \in Seq(AnswerBlocks)
    BY AppendProperties
  <2> DEFINE t == Append(s, b)
             x1 == P(L(s))
             x2 == P(K(s))
             x3 == P(p)
             x4 == P(c)
  <2>11. B(t) = (x1 \o x2) \o (x3 \o x4) /\ P(L(t)) = x1 \o x3 /\ P(K(t)) = x2 \o x4
         /\ x1 \in Seq(Atoms) /\ x2 \in Seq(Atoms) /\ x3 \in Seq(Atoms) /\ x4 \in Seq(Atoms)
         /\ (x2 = <<>> \/ x3 = <<>>)
    BY <2>6, <2>7, <2>8, <2>9
  <2>12. B(t) = P(L(t)) \o P(K(t))
    <3> HIDE DEF B, P, L, K, t, x1, x2, x3, x4
    <3>1. \A u, v \in Seq(Atoms) : u \o v \in Seq(Atoms)
      BY ConcatProperties
    <3>2. CASE x2 = <<>>
      BY <1>8, <1>9, <2>11, <3>1, <3>2, SMTT(30)
    <3>3. CASE x3 = <<>>
      BY <1>8, <1>9, <2>11, <3>1, <3>3
    <3> QED
      BY <2>11, <3>2, <3>3
  <2> QED
    BY <2>10, <2>12
<1>12. Seq(AnswerBlocks) \subseteq G
  <2> HIDE DEF G
  <2> QED
    BY <1>3, <1>11, SeqInduct
<1> QED
  BY <1>12

\* An answer of the anthropic API says the same as a chat message.
LEMMA AnthropicToChatKeeps ==
    ASSUME NEW m \in AnswerMessages
    PROVE  /\ AnthropicToChat(m) \in Seq(OfRole("assistant"))
           /\ \A S : Sorted(S) =>
                Only(S, ChatAtoms(AnthropicToChat(m))) = Only(S, AnthropicAtoms(<<m>>))
<1> DEFINE s == m.blocks
           p == Hom(PartsLoop, s)
           c == Hom(CallsLoop, s)
           new == ChatMessage("assistant", p, c)
<1>1. s \in Seq(AnswerBlocks) /\ m \in BlockMessages /\ m.role = "assistant"
  BY AnswerBlocksAre DEF AnswerMessages
<1>2. p \in Seq({"text"}) /\ c \in Seq(CallIds)
  BY <1>1, AnswerBlocksAre, HomType
<1>3. AnthropicToChat(m) = <<new>>
  BY AnthropicToChatIs
<1> HIDE DEF p, c
<1>4. new \in OfRole("assistant") /\ MessageAtoms(new) = AtomsOf("assistant", p) \o AtomsOf("assistant", c)
  BY <1>2, AnswerMessage
<1> HIDE DEF new
<1>5. ChatAtoms(<<new>>) = MessageAtoms(new)
  BY <1>4, ChatFacts DEF OfRole
<1>6. AnthropicAtoms(<<m>>) = Hom(BlockLoop("assistant"), s)
  <2>1. <<m>> \in Seq(BlockMessages)
    BY <1>1
  <2>2. Hom(AnthropicLoop, <<m>>) = BlocksAtoms(m)
    BY <1>1, AnthropicLoopType, HomOne
  <2> QED
    BY <1>1, <2>1, <2>2, AnthropicAtomsIs DEF BlocksAtoms
<1>7. ASSUME NEW S, Sorted(S) PROVE Only(S, ChatAtoms(<<new>>)) = Only(S, Hom(BlockLoop("assistant"), s))
  <2>1. Only(S, Hom(BlockLoop("assistant"), s)) = Only(S, AtomsOf("assistant", p)) \o Only(S, AtomsOf("assistant", c))
    BY <1>1, <1>7, BlocksRead DEF p, c
  <2>2. AtomsOf("assistant", p) \in Seq(Atoms) /\ AtomsOf("assistant", c) \in Seq(Atoms)
    BY <1>2, NamesSeq, AtomsOfIs
  <2>3. \A u, v \in Seq(Atoms) : Only(S, u \o v) = Only(S, u) \o Only(S, v)
    BY OnlyAtoms DEF OnlyOn
  <2> QED
    BY <1>4, <1>5, <2>1, <2>2, <2>3, ZenonT(60)
<1>8. <<new>> \in Seq(OfRole("assistant"))
  BY <1>4
<1> QED
  BY <1>3, <1>6, <1>7, <1>8

-----------------------------------------------------------------------------
(* Trimming of images (utils/messages.py:23-64).                           *)

\* What TrimImages keeps of the atom at i: an image is kept if fewer than max
\* come after it.
After(a, i) == Len(Only(ImageAtoms, SubSeq(a, i + 1, Len(a))))
KeptAt(a, max, i) == IF a[i] \in ImageAtoms /\ After(a, i) >= max THEN <<>> ELSE <<a[i]>>
KeptAll(a, max) == [i \in DOMAIN a |-> KeptAt(a, max, i)]

\* TrimImages, by these.
LEMMA TrimIs == \A a, max : TrimImages(a, max) = FlattenSeq(KeptAll(a, max))
  BY DEF TrimImages, KeptAll, KeptAt, After

\* Their types.
LEMMA KeptAllIs ==
    \A a \in Seq(Atoms), max \in Nat : KeptAll(a, max) \in Seq(Seq(Atoms)) /\ Len(KeptAll(a, max)) = Len(a)
       /\ \A i \in 1..Len(a) : KeptAll(a, max)[i] = KeptAt(a, max, i)
<1> TAKE a \in Seq(Atoms), max \in Nat
<1>1. Len(a) \in Nat /\ DOMAIN a = 1..Len(a) /\ \A i \in 1..Len(a) : a[i] \in Atoms
  BY LenProperties, ElementOfSeq
<1>2. \A x \in Atoms : <<x>> \in Seq(Atoms)
  OBVIOUS
<1>3. <<>> \in Seq(Atoms)
  BY EmptySeq
<1>4. \A i \in 1..Len(a) : KeptAt(a, max, i) \in Seq(Atoms)
  BY <1>1, <1>2, <1>3 DEF KeptAt
<1>5. KeptAll(a, max) = [i \in 1..Len(a) |-> KeptAt(a, max, i)]
  BY <1>1 DEF KeptAll
<1>6. KeptAll(a, max) \in [1..Len(a) -> Seq(Atoms)]
  BY <1>4, <1>5
<1>7. KeptAll(a, max) \in Seq(Seq(Atoms))
  BY <1>1, <1>6, SeqDef
<1>8. Len(KeptAll(a, max)) = Len(a)
  BY <1>1, <1>6, <1>7, LenProperties
<1> QED
  BY <1>5, <1>7, <1>8

\* The rest of a sequence that has one element more.
LEMMA SubSeqAppend ==
    ASSUME NEW X, NEW a \in Seq(X), NEW x \in X, NEW i \in 0..Len(a)
    PROVE  /\ SubSeq(Append(a, x), i + 1, Len(a) + 1) = Append(SubSeq(a, i + 1, Len(a)), x)
           /\ SubSeq(a, i + 1, Len(a)) \in Seq(X)
<1> DEFINE n == Len(a)
           t == Append(a, x)
           u == SubSeq(t, i + 1, n + 1)
           b == SubSeq(a, i + 1, n)
           v == Append(b, x)
<1>1. n \in Nat /\ Len(t) = n + 1 /\ t \in Seq(X) /\ t[n + 1] = x /\ \A j \in 1..n : t[j] = a[j] /\ a[j] \in X
  BY LenProperties, AppendProperties, ElementOfSeq
<1> HIDE DEF t, n
<1>2. \A j \in (i + 1)..(n + 1) : t[j] \in X
  BY <1>1 DEF n
<1>3. u \in Seq(X) /\ Len(u) = n + 1 - i /\ \A j \in 1..(n + 1 - i) : u[j] = t[i + j]
  <2>1. /\ u \in Seq(X)
        /\ Len(u) = IF i + 1 <= n + 1 THEN (n + 1) - (i + 1) + 1 ELSE 0
        /\ \A j \in 1..((n + 1) - (i + 1) + 1) : u[j] = t[i + 1 + j - 1]
    BY <1>1, <1>2, SubSeqProperties DEF n
  <2> HIDE DEF u
  <2> QED
    BY <1>1, <2>1 DEF n
<1>4. \A j \in (i + 1)..n : a[j] \in X
  BY <1>1 DEF n
<1>5. b \in Seq(X) /\ Len(b) = n - i /\ \A j \in 1..(n - i) : b[j] = a[i + j]
  <2>1. /\ b \in Seq(X)
        /\ Len(b) = IF i + 1 <= n THEN n - (i + 1) + 1 ELSE 0
        /\ \A j \in 1..(n - (i + 1) + 1) : b[j] = a[i + 1 + j - 1]
    BY <1>1, <1>4, SubSeqProperties DEF n
  <2> HIDE DEF b
  <2> QED
    BY <1>1, <2>1 DEF n
<1> HIDE DEF u, b
<1>6. v \in Seq(X) /\ Len(v) = n - i + 1 /\ v[n - i + 1] = x /\ \A j \in 1..(n - i) : v[j] = b[j]
  BY <1>5, AppendProperties
<1> HIDE DEF v
<1>7. n \in Nat /\ i \in 0..n
  BY <1>1 DEF n
<1>8. Len(u) = Len(v) /\ \A j \in 1..Len(u) : u[j] = v[j]
  <2>1. Len(u) = n - i + 1 /\ Len(v) = n - i + 1
    BY <1>3, <1>6, <1>7
  <2>2. u[n - i + 1] = v[n - i + 1]
    <3>1. n - i + 1 \in 1..(n + 1 - i) /\ i + (n - i + 1) = n + 1
      BY <1>7
    <3> QED
      BY <1>1, <1>3, <1>6, <3>1
  <2>3. ASSUME NEW j \in 1..(n - i) PROVE u[j] = v[j]
    <3>1. j \in 1..(n + 1 - i) /\ i + j \in 1..n
      BY <1>7
    <3> QED
      BY <1>1, <1>3, <1>5, <1>6, <3>1
  <2>4. \A j \in 1..(n - i + 1) : j = n - i + 1 \/ j \in 1..(n - i)
    BY <1>7
  <2> QED
    BY <2>1, <2>2, <2>3, <2>4
<1>9. u = v
  BY <1>3, <1>6, <1>8, SeqEqual
<1> QED
  BY <1>5, <1>9 DEF u, v, b, t, n

\* The trim of one atom more: an image takes one of the places.
LEMMA TrimAppend ==
    ASSUME NEW a \in Seq(Atoms), NEW x \in Atoms, NEW max \in Nat
    PROVE  /\ TrimImages(a, max) \in Seq(Atoms)
           /\ TrimImages(Append(a, x), max)
                = IF x \notin ImageAtoms THEN Append(TrimImages(a, max), x)
                  ELSE IF max = 0 THEN TrimImages(a, 0) ELSE Append(TrimImages(a, max - 1), x)
<1> DEFINE n == Len(a)
           t == Append(a, x)
           less == IF x \notin ImageAtoms THEN max ELSE IF max = 0 THEN 0 ELSE max - 1
           last == IF x \in ImageAtoms /\ max = 0 THEN <<>> ELSE <<x>>
           l == KeptAll(t, max)
           r == KeptAll(a, less)
<1>1. n \in Nat /\ Len(t) = n + 1 /\ t \in Seq(Atoms) /\ t[n + 1] = x /\ \A i \in 1..n : t[i] = a[i]
  BY LenProperties, AppendProperties
<1>2. less \in Nat
  OBVIOUS
<1>3. \A i \in 1..n : After(a, i) \in Nat /\ After(t, i) = IF x \in ImageAtoms THEN After(a, i) + 1 ELSE After(a, i)
  <2> TAKE i \in 1..n
  <2> DEFINE b == SubSeq(a, i + 1, n)
  <2>1. SubSeq(t, i + 1, n + 1) = Append(b, x) /\ b \in Seq(Atoms)
    <3>1. \A j \in 0..Len(a) : /\ SubSeq(Append(a, x), j + 1, Len(a) + 1) = Append(SubSeq(a, j + 1, Len(a)), x)
                                /\ SubSeq(a, j + 1, Len(a)) \in Seq(Atoms)
      BY SubSeqAppend
    <3>2. i \in 0..Len(a)
      BY <1>1
    <3> QED
      BY <3>1, <3>2
  <2> HIDE DEF b
  <2>2. Only(ImageAtoms, Append(b, x)) = IF x \in ImageAtoms THEN Append(Only(ImageAtoms, b), x) ELSE Only(ImageAtoms, b)
    <3>1. \A u \in Seq(Atoms), y \in Atoms :
            Only(ImageAtoms, Append(u, y)) = IF y \in ImageAtoms THEN Append(Only(ImageAtoms, u), y) ELSE Only(ImageAtoms, u)
      BY OnlyAtoms DEF OnlyOn
    <3> QED
      BY <2>1, <3>1
  <2>3. Only(ImageAtoms, b) \in Seq(Atoms)
    BY <2>1, OnlyAtoms DEF OnlyOn
  <2>4. Len(Append(Only(ImageAtoms, b), x)) = Len(Only(ImageAtoms, b)) + 1 /\ Len(Only(ImageAtoms, b)) \in Nat
    BY <2>3, AppendProperties, LenProperties
  <2>5. After(a, i) = Len(Only(ImageAtoms, b)) /\ After(t, i) = Len(Only(ImageAtoms, Append(b, x)))
    BY <1>1, <2>1 DEF After, b
  <2> QED
    BY <2>2, <2>4, <2>5
<1>4. After(t, n + 1) = 0
  <2>1. SubSeq(t, n + 2, n + 1) = <<>>
    BY <1>1, SubSeqEmpty
  <2>2. Only(ImageAtoms, <<>>) = <<>> /\ Len(<<>>) = 0
    BY OnlyAtoms, EmptySeq DEF OnlyOn
  <2>3. (n + 1) + 1 = n + 2
    BY <1>1
  <2> QED
    BY <1>1, <2>1, <2>2, <2>3 DEF After
<1> HIDE DEF t, n
<1>5. /\ l \in Seq(Seq(Atoms)) /\ Len(l) = n + 1 /\ \A i \in 1..(n + 1) : l[i] = KeptAt(t, max, i)
  BY <1>1, KeptAllIs
<1>6. /\ r \in Seq(Seq(Atoms)) /\ Len(r) = n /\ \A i \in 1..n : r[i] = KeptAt(a, less, i)
  BY <1>1, <1>2, KeptAllIs DEF n
<1>7. \A i \in 1..n : l[i] = r[i]
  <2> TAKE i \in 1..n
  <2>1. l[i] = KeptAt(t, max, i) /\ r[i] = KeptAt(a, less, i)
    BY <1>1, <1>5, <1>6
  <2>2. t[i] = a[i] /\ After(a, i) \in Nat /\ After(t, i) = IF x \in ImageAtoms THEN After(a, i) + 1 ELSE After(a, i)
    BY <1>1, <1>3
  <2>3. After(t, i) >= max <=> After(a, i) >= less
    BY <2>2
  <2> HIDE DEF l, r, less
  <2> QED
    BY <2>1, <2>2, <2>3 DEF KeptAt
<1>8. l[n + 1] = last
  <2>1. l[n + 1] = KeptAt(t, max, n + 1)
    BY <1>1, <1>5
  <2>2. 0 >= max <=> max = 0
    OBVIOUS
  <2> HIDE DEF l
  <2> QED
    BY <1>1, <1>4, <2>1, <2>2 DEF KeptAt
<1>9. last \in Seq(Atoms)
  <2>1. <<x>> \in Seq(Atoms) /\ <<>> \in Seq(Atoms)
    BY EmptySeq
  <2> QED
    BY <2>1
<1> HIDE DEF l, r, less, last
<1>10. l = Append(r, last)
  <2> DEFINE v == Append(r, last)
  <2>1. v \in Seq(Seq(Atoms)) /\ Len(v) = n + 1 /\ v[n + 1] = last /\ \A i \in 1..n : v[i] = r[i]
    BY <1>6, <1>9, AppendProperties
  <2> HIDE DEF v
  <2>2. \A i \in 1..(n + 1) : l[i] = v[i]
    BY <1>1, <1>7, <1>8, <2>1
  <2>3. l = v
    BY <1>5, <2>1, <2>2, SeqEqual
  <2> QED
    BY <2>3 DEF v
<1>11. FlattenSeq(l) = FlattenSeq(r) \o last /\ FlattenSeq(r) \in Seq(Atoms)
  BY <1>6, <1>9, <1>10, FlattenIsSum, FlattenType
<1>12. TrimImages(t, max) = TrimImages(a, less) \o last /\ TrimImages(a, less) \in Seq(Atoms)
  BY <1>11, TrimIs DEF l, r
<1>13. \A u \in Seq(Atoms) : u \o <<>> = u /\ u \o <<x>> = Append(u, x)
  BY AppendIsConcat, ConcatEmptySeq
<1>14. TrimImages(a, max) \in Seq(Atoms)
  BY TrimIs, KeptAllIs, FlattenType
<1>15. TrimImages(t, max) = IF x \in ImageAtoms /\ max = 0 THEN TrimImages(a, less) ELSE Append(TrimImages(a, less), x)
  BY <1>12, <1>13 DEF last
<1> QED
  BY <1>14, <1>15 DEF less, t

\* TrimAppend, for all atoms and limits.
LEMMA TrimSteps ==
    /\ \A a \in Seq(Atoms), max \in Nat : TrimImages(a, max) \in Seq(Atoms)
    /\ \A a \in Seq(Atoms), x \in Atoms, max \in Nat : x \notin ImageAtoms =>
          TrimImages(Append(a, x), max) = Append(TrimImages(a, max), x)
    /\ \A a \in Seq(Atoms), x \in Atoms : x \in ImageAtoms =>
          TrimImages(Append(a, x), 0) = TrimImages(a, 0)
    /\ \A a \in Seq(Atoms), x \in Atoms, max \in Nat : x \in ImageAtoms /\ max # 0 =>
          TrimImages(Append(a, x), max) = Append(TrimImages(a, max - 1), x)
    /\ \A max \in Nat : TrimImages(<<>>, max) = <<>>
<1>1. \A a \in Seq(Atoms), max \in Nat : TrimImages(a, max) \in Seq(Atoms)
  BY TrimIs, KeptAllIs, FlattenType
<1>2. \A a \in Seq(Atoms), x \in Atoms, max \in Nat :
           TrimImages(Append(a, x), max)
                = IF x \notin ImageAtoms THEN Append(TrimImages(a, max), x)
                  ELSE IF max = 0 THEN TrimImages(a, 0) ELSE Append(TrimImages(a, max - 1), x)
  BY TrimAppend
<1>3. ASSUME NEW max \in Nat PROVE TrimImages(<<>>, max) = <<>>
  <2>1. KeptAll(<<>>, max) = <<>>
    BY DEF KeptAll
  <2> QED
    BY <2>1, TrimIs, FlattenEmpty
<1> QED
  BY <1>1, <1>2, <1>3

\* Trimming takes nothing but images, and moves nothing
\* (trim_images, utils/messages.py:23-64).
LEMMA TrimTakesImages ==
    ASSUME NEW S, S \cap ImageAtoms = {}
    PROVE  \A a \in Seq(Atoms), max \in Nat : Only(S, TrimImages(a, max)) = Only(S, a)
<1> DEFINE G == {a \in Seq(Atoms) : \A max \in Nat : Only(S, TrimImages(a, max)) = Only(S, a)}
<1>1. <<>> \in G
  BY TrimSteps, EmptySeq
<1>2. ASSUME NEW a \in Seq(Atoms), NEW x \in Atoms, a \in G PROVE Append(a, x) \in G
  <2>1. \A u \in Seq(Atoms), y \in Atoms :
            Only(S, Append(u, y)) = IF y \in S THEN Append(Only(S, u), y) ELSE Only(S, u)
    BY OnlyAtoms DEF OnlyOn
  <2>2. ASSUME NEW max \in Nat PROVE Only(S, TrimImages(Append(a, x), max)) = Only(S, Append(a, x))
    <3>1. TrimImages(a, max) \in Seq(Atoms) /\ Only(S, TrimImages(a, max)) = Only(S, a)
      BY <1>2, TrimSteps
    <3>2. CASE x \notin ImageAtoms
      <4>1. TrimImages(Append(a, x), max) = Append(TrimImages(a, max), x)
        BY <3>2, TrimSteps
      <4> QED
        BY <2>1, <3>1, <4>1, ZenonT(60)
    <3>3. CASE x \in ImageAtoms /\ max = 0
      <4>1. TrimImages(Append(a, x), max) = TrimImages(a, max)
        BY <3>3, TrimSteps
      <4> QED
        BY <2>1, <3>1, <3>3, <4>1
    <3>4. CASE x \in ImageAtoms /\ max # 0
      <4>1. TrimImages(Append(a, x), max) = Append(TrimImages(a, max - 1), x)
        BY <3>4, TrimSteps
      <4>2. max - 1 \in Nat
        BY <3>4
      <4>3. TrimImages(a, max - 1) \in Seq(Atoms) /\ Only(S, TrimImages(a, max - 1)) = Only(S, a)
        BY <1>2, <4>2, TrimSteps
      <4> QED
        BY <2>1, <3>4, <4>1, <4>3
    <3> QED
      BY <3>2, <3>3, <3>4
  <2> QED
    BY <2>2, AppendProperties
<1>3. Seq(Atoms) \subseteq G
  <2> HIDE DEF G
  <2> QED
    BY <1>1, <1>2, SeqInduct
<1> QED
  BY <1>3

\* The last n elements, or all.
Newest(s, n) == SubSeq(s, Len(s) - (IF Len(s) < n THEN Len(s) ELSE n) + 1, Len(s))

\* The last elements of a sequence that has one more.
LEMMA NewestSteps ==
    ASSUME NEW X
    PROVE  /\ \A n \in Nat : Newest(<<>>, n) = <<>>
           /\ \A s \in Seq(X) : Newest(s, 0) = <<>>
           /\ \A s \in Seq(X), x \in X, n \in Nat : n # 0 => Newest(Append(s, x), n) = Append(Newest(s, n - 1), x)
<1>1. ASSUME NEW n \in Nat PROVE Newest(<<>>, n) = <<>>
  <2>1. Len(<<>>) = 0
    BY EmptySeq
  <2>2. Newest(<<>>, n) = SubSeq(<<>>, 1, 0)
    BY <2>1 DEF Newest
  <2>3. SubSeq(<<>>, 1, 0) = <<>>
    BY SubSeqEmpty
  <2> QED
    BY <2>2, <2>3
<1>2. ASSUME NEW s \in Seq(X) PROVE Newest(s, 0) = <<>>
  <2>1. Len(s) \in Nat
    BY LenProperties
  <2>2. Newest(s, 0) = SubSeq(s, Len(s) + 1, Len(s))
    <3>1. \A k \in Nat : k - (IF k < 0 THEN k ELSE 0) + 1 = k + 1
      OBVIOUS
    <3>2. Len(s) - (IF Len(s) < 0 THEN Len(s) ELSE 0) + 1 = Len(s) + 1
      BY <2>1, <3>1
    <3> QED
      BY <3>2 DEF Newest
  <2>3. SubSeq(s, Len(s) + 1, Len(s)) = <<>>
    BY <2>1, SubSeqEmpty
  <2> QED
    BY <2>2, <2>3
<1>3. ASSUME NEW s \in Seq(X), NEW x \in X, NEW n \in Nat, n # 0
      PROVE  Newest(Append(s, x), n) = Append(Newest(s, n - 1), x)
  <2> DEFINE k == Len(s)
             t == Append(s, x)
             d == IF k < n - 1 THEN k ELSE n - 1
  <2>1. k \in Nat /\ Len(t) = k + 1 /\ t \in Seq(X) /\ t[k + 1] = x /\ \A i \in 1..k : t[i] = s[i] /\ s[i] \in X
    BY LenProperties, AppendProperties, ElementOfSeq
  <2>2. d \in 0..k
    BY <1>3, <2>1
  <2>3. Newest(t, n) = SubSeq(t, k - d + 1, k + 1)
    <3>1. (k + 1) - (IF k + 1 < n THEN k + 1 ELSE n) + 1 = k - d + 1
      <4>1. \A l \in Nat : (l + 1) - (IF l + 1 < n THEN l + 1 ELSE n) + 1
                              = l - (IF l < n - 1 THEN l ELSE n - 1) + 1
        BY <1>3
      <4> QED
        BY <2>1, <4>1
    <3> HIDE DEF t, d, k
    <3> QED
      BY <2>1, <3>1 DEF Newest
  <2>4. Newest(s, n - 1) = SubSeq(s, k - d + 1, k)
    BY DEF Newest
  <2> HIDE DEF t, d
  <2>5. CASE d < k
    <3>1. k - d \in 0..k /\ (k - d) + 1 = k - d + 1
      BY <2>1, <2>2, <2>5
    <3>2. \A i \in 0..Len(s) : SubSeq(Append(s, x), i + 1, Len(s) + 1) = Append(SubSeq(s, i + 1, Len(s)), x)
      BY SubSeqAppend
    <3> QED
      BY <2>3, <2>4, <3>1, <3>2 DEF t
  <2>6. CASE d = k
    <3>1. SubSeq(t, 1, k + 1) = t
      BY <2>1, SubSeqFull
    <3>2. SubSeq(s, 1, k) = s
      BY SubSeqFull
    <3>3. k - d + 1 = 1
      BY <2>1, <2>6
    <3> QED
      BY <2>3, <2>4, <3>1, <3>2, <3>3 DEF t
  <2> QED
    BY <2>2, <2>5, <2>6
<1> QED
  BY <1>1, <1>2, <1>3

\* The images that trimming leaves are the newest ones.
LEMMA TrimKeepsNewest ==
    \A a \in Seq(Atoms), max \in Nat :
        Only(ImageAtoms, TrimImages(a, max)) = Newest(Only(ImageAtoms, a), max)
<1> DEFINE I(a) == Only(ImageAtoms, a)
           G == {a \in Seq(Atoms) : \A max \in Nat : I(TrimImages(a, max)) = Newest(I(a), max)}
<1>1. <<>> \in G
  <2>1. I(<<>>) = <<>>
    BY OnlyAtoms DEF OnlyOn
  <2>2. \A n \in Nat : Newest(<<>>, n) = <<>>
    BY NewestSteps
  <2> QED
    BY <2>1, <2>2, TrimSteps, EmptySeq
<1>2. ASSUME NEW a \in Seq(Atoms), NEW x \in Atoms, a \in G PROVE Append(a, x) \in G
  <2>1. \A u \in Seq(Atoms), y \in Atoms :
            I(Append(u, y)) = IF y \in ImageAtoms THEN Append(I(u), y) ELSE I(u)
    BY OnlyAtoms DEF OnlyOn
  <2>2. /\ \A s \in Seq(Atoms) : Newest(s, 0) = <<>>
        /\ \A s \in Seq(Atoms), y \in Atoms, n \in Nat : n # 0 => Newest(Append(s, y), n) = Append(Newest(s, n - 1), y)
    BY NewestSteps
  <2>3. I(a) \in Seq(Atoms)
    BY OnlyAtoms DEF OnlyOn
  <2>4. ASSUME NEW max \in Nat PROVE I(TrimImages(Append(a, x), max)) = Newest(I(Append(a, x)), max)
    <3>1. TrimImages(a, max) \in Seq(Atoms) /\ I(TrimImages(a, max)) = Newest(I(a), max)
      BY <1>2, TrimSteps
    <3>2. CASE x \notin ImageAtoms
      <4>1. TrimImages(Append(a, x), max) = Append(TrimImages(a, max), x)
        BY <3>2, TrimSteps
      <4> HIDE DEF I
      <4> QED
        BY <2>1, <3>1, <3>2, <4>1
    <3>3. CASE x \in ImageAtoms /\ max = 0
      <4>1. TrimImages(Append(a, x), max) = TrimImages(a, max)
        BY <3>3, TrimSteps
      <4>2. I(Append(a, x)) \in Seq(Atoms)
        BY OnlyAtoms, AppendProperties DEF OnlyOn
      <4> HIDE DEF I
      <4> QED
        BY <2>2, <2>3, <3>1, <3>3, <4>1, <4>2
    <3>4. CASE x \in ImageAtoms /\ max # 0
      <4>1. TrimImages(Append(a, x), max) = Append(TrimImages(a, max - 1), x)
        BY <3>4, TrimSteps
      <4>2. max - 1 \in Nat
        BY <3>4
      <4>3. TrimImages(a, max - 1) \in Seq(Atoms) /\ I(TrimImages(a, max - 1)) = Newest(I(a), max - 1)
        BY <1>2, <4>2, TrimSteps
      <4> HIDE DEF I
      <4>4. I(Append(TrimImages(a, max - 1), x)) = Append(I(TrimImages(a, max - 1)), x)
            /\ I(Append(a, x)) = Append(I(a), x)
        BY <2>1, <3>4, <4>3
      <4>5. Newest(Append(I(a), x), max) = Append(Newest(I(a), max - 1), x)
        BY <2>2, <2>3, <3>4
      <4> QED
        BY <4>1, <4>3, <4>4, <4>5
    <3> QED
      BY <3>2, <3>3, <3>4
  <2> HIDE DEF I
  <2> QED
    BY <2>4, AppendProperties
<1>3. Seq(Atoms) \subseteq G
  <2> HIDE DEF G
  <2> QED
    BY <1>1, <1>2, SeqInduct
<1> QED
  BY <1>3

-----------------------------------------------------------------------------
(* What has been said, and the grouping of messages into slices            *)
(* (workflow.py:185-213).                                                  *)

\* A set of indices has a maximum.
LEMMA MaxOf ==
    ASSUME NEW n \in Nat, NEW s \in SUBSET (1..n), s # {}
    PROVE  Max(s) \in s
<1> DEFINE D == {j \in Nat : n - j \in s}
<1>1. D \in SUBSET Nat /\ D # {}
  <2>1. PICK k \in s : TRUE
    OBVIOUS
  <2>2. n - k \in Nat /\ n - (n - k) = k
    BY <2>1
  <2> QED
    BY <2>2
<1>2. PICK m \in D : \A k \in D : m <= k
  BY <1>1, Least
<1>3. ASSUME NEW y \in s PROVE n - m >= y
  <2>1. y \in 1..n /\ n - y \in Nat /\ n - (n - y) = y
    OBVIOUS
  <2>2. m <= n - y
    BY <1>2, <2>1
  <2> QED
    BY <1>2, <2>1, <2>2
<1>4. n - m \in s
  BY <1>2
<1> QED
  BY <1>3, <1>4 DEF Max

\* Where system messages are.
Starts(s) == {i \in DOMAIN s : s[i].role = "system"}

\* Said, by these.
LEMMA SaidIs == \A l, s : Said(l, s) = IF Starts(s) = {} THEN l \o ChatAtoms(s)
                                       ELSE ChatAtoms(SubSeq(s, Max(Starts(s)), Len(s)))
  BY DEF Said, Starts

\* What one message more makes of what has been said: a system message starts
\* it anew, any other is added.
LEMMA SaidSteps ==
    ASSUME NEW l \in Seq(Atoms)
    PROVE  /\ Said(l, <<>>) = l
           /\ \A s \in Seq(Messages) : Said(l, s) \in Seq(Atoms)
           /\ \A s \in Seq(Messages), m \in Messages :
                Said(l, Append(s, m)) = IF m.role = "system" THEN MessageAtoms(m)
                                        ELSE Said(l, s) \o MessageAtoms(m)
<1>1. Said(l, <<>>) = l
  <2>1. Starts(<<>>) = {}
    BY DEF Starts
  <2> QED
    BY <2>1, SaidIs, ChatFacts, ConcatEmptySeq
<1>2. ASSUME NEW s \in Seq(Messages), Starts(s) # {}
      PROVE  /\ Max(Starts(s)) \in Starts(s) /\ Max(Starts(s)) \in 1..Len(s)
             /\ SubSeq(s, Max(Starts(s)), Len(s)) \in Seq(Messages)
  <2>1. Len(s) \in Nat /\ DOMAIN s = 1..Len(s) /\ \A i \in 1..Len(s) : s[i] \in Messages
    BY LenProperties, ElementOfSeq
  <2>2. Starts(s) \in SUBSET (1..Len(s))
    BY <2>1 DEF Starts
  <2>3. Max(Starts(s)) \in Starts(s)
    BY <1>2, <2>1, <2>2, MaxOf
  <2> DEFINE k == Max(Starts(s))
  <2>4. k \in 1..Len(s)
    BY <2>2, <2>3
  <2> HIDE DEF k
  <2>5. \A i \in k..Len(s) : s[i] \in Messages
    BY <2>1, <2>4
  <2>6. SubSeq(s, k, Len(s)) \in Seq(Messages)
    BY <2>1, <2>4, <2>5, SubSeqProperties
  <2> QED
    BY <2>3, <2>4, <2>6 DEF k
<1>3. ASSUME NEW s \in Seq(Messages) PROVE Said(l, s) \in Seq(Atoms)
  <2>1. CASE Starts(s) = {}
    BY <2>1, SaidIs, ChatFacts, ConcatProperties
  <2>2. CASE Starts(s) # {}
    BY <1>2, <2>2, SaidIs, ChatFacts
  <2> QED
    BY <2>1, <2>2
<1>4. ASSUME NEW s \in Seq(Messages), NEW m \in Messages
      PROVE  Said(l, Append(s, m)) = IF m.role = "system" THEN MessageAtoms(m)
                                     ELSE Said(l, s) \o MessageAtoms(m)
  <2> DEFINE n == Len(s)
             t == Append(s, m)
  <2>1. /\ n \in Nat /\ DOMAIN s = 1..n /\ DOMAIN t = 1..(n + 1) /\ t \in Seq(Messages) /\ Len(t) = n + 1
        /\ t[n + 1] = m /\ \A i \in 1..n : t[i] = s[i]
    BY LenProperties, AppendProperties
  <2> HIDE DEF t
  <2>2. CASE m.role = "system"
    <3>1. n + 1 \in Starts(t) /\ Starts(t) \in SUBSET (1..(n + 1)) /\ n + 1 \in Nat
      BY <2>1, <2>2 DEF Starts
    <3>2. Max(Starts(t)) = n + 1
      BY <3>1, MaxIs
    <3>3. SubSeq(t, n + 1, n + 1) = <<m>>
      <4>1. SubSeq(Append(s, m), n + 1, n + 1) = Append(SubSeq(s, n + 1, n), m)
        <5>1. \A i \in 0..Len(s) : SubSeq(Append(s, m), i + 1, Len(s) + 1) = Append(SubSeq(s, i + 1, Len(s)), m)
          BY SubSeqAppend
        <5>2. n \in 0..Len(s)
          BY <2>1
        <5> QED
          BY <5>1, <5>2
      <4>2. SubSeq(s, n + 1, n) = <<>> /\ Append(<<>>, m) = <<m>>
        BY <2>1, SubSeqEmpty
      <4> QED
        BY <4>1, <4>2 DEF t
    <3>4. Said(l, t) = ChatAtoms(<<m>>)
      BY <2>1, <3>1, <3>2, <3>3, SaidIs
    <3> QED
      BY <2>2, <3>4, ChatFacts DEF t
  <2>3. CASE m.role # "system"
    <3>1. Starts(t) = Starts(s)
      <4>1. \A i \in 1..(n + 1) : i = n + 1 \/ i \in 1..n
        BY <2>1
      <4>2. \A i \in 1..n : i \in 1..(n + 1)
        BY <2>1
      <4> QED
        BY <2>1, <2>3, <4>1, <4>2 DEF Starts
    <3>2. ChatAtoms(s) \in Seq(Atoms) /\ ChatAtoms(t) = ChatAtoms(s) \o MessageAtoms(m)
          /\ MessageAtoms(m) \in Seq(Atoms)
      BY ChatFacts, MessageAtomsType DEF t
    <3>3. CASE Starts(s) = {}
      <4>1. Said(l, t) = l \o (ChatAtoms(s) \o MessageAtoms(m)) /\ Said(l, s) = l \o ChatAtoms(s)
        BY <3>1, <3>2, <3>3, SaidIs
      <4>2. l \o (ChatAtoms(s) \o MessageAtoms(m)) = (l \o ChatAtoms(s)) \o MessageAtoms(m)
        <5>1. \A u, v, w \in Seq(Atoms) : (u \o v) \o w = u \o (v \o w)
          BY ConcatAssociative
        <5> QED
          BY <3>2, <5>1
      <4> QED
        BY <2>3, <4>1, <4>2 DEF t
    <3>4. CASE Starts(s) # {}
      <4> DEFINE k == Max(Starts(s))
                 b == SubSeq(s, k, n)
      <4>1. k \in 1..n /\ b \in Seq(Messages)
        BY <1>2, <3>4
      <4>2. SubSeq(t, k, n + 1) = Append(b, m)
        <5>1. \A i \in 0..Len(s) : SubSeq(Append(s, m), i + 1, Len(s) + 1) = Append(SubSeq(s, i + 1, Len(s)), m)
          BY SubSeqAppend
        <5> HIDE DEF k
        <5>2. k - 1 \in 0..Len(s) /\ (k - 1) + 1 = k
          BY <2>1, <4>1
        <5> QED
          BY <5>1, <5>2 DEF t
      <4>3. ChatAtoms(Append(b, m)) = ChatAtoms(b) \o MessageAtoms(m)
        BY <4>1, ChatFacts
      <4>4. Said(l, t) = ChatAtoms(SubSeq(t, k, n + 1)) /\ Said(l, s) = ChatAtoms(b)
        BY <2>1, <3>1, <3>4, SaidIs
      <4> QED
        BY <2>3, <4>2, <4>3, <4>4 DEF t
    <3> QED
      BY <3>3, <3>4
  <2> QED
    BY <2>2, <2>3
<1> QED
  BY <1>1, <1>3, <1>4

\* The slices a history can have: messages of one role, one system message,
\* and answers; all but the system message can come later.
Grouped == UNION {Seq(OfRole(r)) : r \in {"user", "assistant", "tool"}}
PlainSlices == [format : {"chat"}, body : Grouped]
SystemSlices == [format : {"chat"}, body : {<<m>> : m \in OfRole("system")}]
AnswerSlices == [format : {"responses"}, body : Seq(AnswerItems)]
                  \cup [format : {"anthropic"}, body : AnswerMessages]
Later == PlainSlices \cup AnswerSlices
Slices == SystemSlices \cup Later
SliceLoop == [sl \in Slices |-> AtomsIn(sl)]

\* A history: only its first slice may be a system message.
Histories == {h \in Seq(Slices) : \A i \in 2..Len(h) : h[i] \in Later}

\* The bodies of slices.
LEMMA PlainAre ==
    /\ \A sl \in PlainSlices \cup SystemSlices : sl.format = "chat" /\ sl.body \in Seq(Messages)
    /\ \A sl \in AnswerSlices : \/ sl.format = "responses" /\ sl.body \in Seq(AnswerItems)
                                \/ sl.format = "anthropic" /\ sl.body \in AnswerMessages
<1>1. Grouped \subseteq Seq(Messages)
  BY AssistantsAre DEF Grouped
<1>2. \A m \in OfRole("system") : <<m>> \in Seq(Messages)
  BY DEF OfRole
<1> QED
  BY <1>1, <1>2 DEF PlainSlices, SystemSlices, AnswerSlices

\* The type of the loop over slices.
LEMMA SliceLoopType ==
    /\ Loop(SliceLoop, Slices, Atoms)
    /\ \A sl \in Slices : SliceLoop[sl] = AtomsIn(sl)
<1>1. \A sl \in PlainSlices \cup SystemSlices : AtomsIn(sl) \in Seq(Atoms)
  BY PlainAre, ChatFacts DEF AtomsIn
<1>2. ASSUME NEW sl \in AnswerSlices PROVE AtomsIn(sl) \in Seq(Atoms)
  <2>1. CASE sl.format = "responses" /\ sl.body \in Seq(AnswerItems)
    <3>1. sl.body \in Seq(Items)
      BY <2>1, AnswerItemsAre
    <3>2. ResponsesAtoms(sl.body) \in Seq(Atoms)
      BY <3>1, ResponsesAtomsIs, ItemLoopType, HomType
    <3> QED
      BY <2>1, <3>2 DEF AtomsIn
  <2>2. CASE sl.format = "anthropic" /\ sl.body \in AnswerMessages
    <3>1. <<sl.body>> \in Seq(BlockMessages)
      BY <2>2, AnswerBlocksAre
    <3>2. AnthropicAtoms(<<sl.body>>) \in Seq(Atoms)
      BY <3>1, AnthropicAtomsIs, AnthropicLoopType, HomType
    <3> QED
      BY <2>2, <3>2 DEF AtomsIn
  <2> QED
    BY <2>1, <2>2, PlainAre
<1>3. \A sl \in Slices : AtomsIn(sl) \in Seq(Atoms)
  BY <1>1, <1>2 DEF Slices, Later
<1> QED
  BY <1>3 DEF Loop, SliceLoop

\* A history says what its slices say; a slice that comes later, or a system
\* message alone, make a history.
LEMMA HistoryFacts ==
    /\ <<>> \in Histories /\ Hom(SliceLoop, <<>>) = <<>>
    /\ \A h \in Histories : h \in Seq(Slices) /\ Hom(SliceLoop, h) \in Seq(Atoms)
    /\ \A h \in Histories, sl \in Later :
         Append(h, sl) \in Histories /\ Hom(SliceLoop, Append(h, sl)) = Hom(SliceLoop, h) \o AtomsIn(sl)
    /\ \A sl \in SystemSlices : <<sl>> \in Histories /\ Hom(SliceLoop, <<sl>>) = AtomsIn(sl)
<1>1. <<>> \in Histories /\ Hom(SliceLoop, <<>>) = <<>>
  <2>1. <<>> \in Seq(Slices) /\ 2..Len(<<>>) = {}
    BY EmptySeq
  <2> QED
    BY <2>1, HomEmpty DEF Histories
<1>2. \A h \in Histories : h \in Seq(Slices) /\ Hom(SliceLoop, h) \in Seq(Atoms)
  BY SliceLoopType, HomType DEF Histories
<1>3. ASSUME NEW h \in Histories, NEW sl \in Later
      PROVE  Append(h, sl) \in Histories /\ Hom(SliceLoop, Append(h, sl)) = Hom(SliceLoop, h) \o AtomsIn(sl)
  <2>1. h \in Seq(Slices) /\ sl \in Slices /\ \A i \in 2..Len(h) : h[i] \in Later
    BY DEF Histories, Slices
  <2>2. Hom(SliceLoop, Append(h, sl)) = Hom(SliceLoop, h) \o SliceLoop[sl]
    BY <2>1, SliceLoopType, HomAppend
  <2> DEFINE n == Len(h)
             t == Append(h, sl)
  <2>3. n \in Nat /\ t \in Seq(Slices) /\ Len(t) = n + 1 /\ t[n + 1] = sl /\ \A i \in 1..n : t[i] = h[i]
    BY <2>1, LenProperties, AppendProperties
  <2>4. \A i \in 2..n : h[i] \in Later
    BY <2>1
  <2> HIDE DEF t, n
  <2>5. \A i \in 2..(n + 1) : i = n + 1 \/ (i \in 2..n /\ i \in 1..n)
    BY <2>3
  <2>6. \A i \in 2..Len(t) : t[i] \in Later
    BY <2>3, <2>4, <2>5
  <2>7. t \in Histories
    BY <2>3, <2>6 DEF Histories
  <2> QED
    BY <2>1, <2>2, <2>7, SliceLoopType DEF t
<1>4. ASSUME NEW sl \in SystemSlices PROVE <<sl>> \in Histories /\ Hom(SliceLoop, <<sl>>) = AtomsIn(sl)
  <2>1. sl \in Slices
    BY DEF Slices
  <2>2. <<sl>> \in Seq(Slices) /\ Len(<<sl>>) = 1
    BY <2>1
  <2>3. 2..1 = {}
    OBVIOUS
  <2>4. Hom(SliceLoop, <<sl>>) = SliceLoop[sl]
    BY <2>1, SliceLoopType, HomOne
  <2> QED
    BY <2>1, <2>2, <2>3, <2>4, SliceLoopType DEF Histories
<1> QED
  BY <1>1, <1>2, <1>3, <1>4

\* The invariant of the loop in _set_messages: the slices hold what has been
\* said, and the open group is said last.
Groups(acc, said) ==
    /\ acc.history \in Histories /\ acc.current \in Seq(OfRole("user"))
    /\ acc = [history |-> acc.history, current |-> acc.current]
    /\ Hom(SliceLoop, acc.history) \o ChatAtoms(acc.current) = said

\* Messages of one role make a slice.
LEMMA GroupSlice ==
    /\ \A r \in {"user", "assistant", "tool"} : \A s \in Seq(OfRole(r)) :
         Slice("chat", s) \in Later /\ AtomsIn(Slice("chat", s)) = ChatAtoms(s)
    /\ \A m \in OfRole("system") :
         Slice("chat", <<m>>) \in SystemSlices /\ AtomsIn(Slice("chat", <<m>>)) = MessageAtoms(m)
<1>1. ASSUME NEW r \in {"user", "assistant", "tool"}, NEW s \in Seq(OfRole(r))
      PROVE  Slice("chat", s) \in Later /\ AtomsIn(Slice("chat", s)) = ChatAtoms(s)
  <2>1. s \in Grouped
    BY DEF Grouped
  <2> QED
    BY <2>1 DEF Slice, Later, PlainSlices, AtomsIn
<1>2. ASSUME NEW m \in OfRole("system")
      PROVE  Slice("chat", <<m>>) \in SystemSlices /\ AtomsIn(Slice("chat", <<m>>)) = MessageAtoms(m)
  <2>1. ChatAtoms(<<m>>) = MessageAtoms(m)
    BY ChatFacts DEF OfRole
  <2> QED
    BY <2>1 DEF Slice, SystemSlices, AtomsIn
<1> QED
  BY <1>1, <1>2

\* The open group becomes a slice.
LEMMA FlushKeeps ==
    ASSUME NEW acc, NEW said, Groups(acc, said)
    PROVE  Flush(acc) \in Histories /\ Hom(SliceLoop, Flush(acc)) = said
<1>1. acc.history \in Histories /\ acc.current \in Seq(OfRole("user"))
      /\ Hom(SliceLoop, acc.history) \o ChatAtoms(acc.current) = said
  BY DEF Groups
<1>2. CASE acc.current = <<>>
  <2>1. ChatAtoms(<<>>) = <<>> /\ Hom(SliceLoop, acc.history) \in Seq(Atoms)
    BY <1>1, ChatFacts, HistoryFacts
  <2>2. Hom(SliceLoop, acc.history) \o <<>> = Hom(SliceLoop, acc.history)
    BY <2>1, ConcatEmptySeq
  <2> QED
    BY <1>1, <1>2, <2>1, <2>2 DEF Flush
<1>3. CASE acc.current # <<>>
  <2>1. Slice("chat", acc.current) \in Later /\ AtomsIn(Slice("chat", acc.current)) = ChatAtoms(acc.current)
    BY <1>1, GroupSlice
  <2>2. Flush(acc) = Append(acc.history, Slice("chat", acc.current))
    BY <1>3 DEF Flush
  <2> QED
    BY <1>1, <2>1, <2>2, HistoryFacts
<1> QED
  BY <1>2, <1>3

\* One message more keeps the invariant.
LEMMA PlaceKeeps ==
    ASSUME NEW acc, NEW said \in Seq(Atoms), Groups(acc, said), NEW m \in Messages
    PROVE  Groups(Place(acc, m), IF m.role = "system" THEN MessageAtoms(m) ELSE said \o MessageAtoms(m))
<1>1. acc.history \in Histories /\ acc.current \in Seq(OfRole("user"))
      /\ acc = [history |-> acc.history, current |-> acc.current]
      /\ Hom(SliceLoop, acc.history) \o ChatAtoms(acc.current) = said
  BY DEF Groups
<1>2. <<>> \in Seq(OfRole("user")) /\ ChatAtoms(<<>>) = <<>> /\ MessageAtoms(m) \in Seq(Atoms)
  BY EmptySeq, ChatFacts, MessageAtomsType
<1>3. \A u \in Seq(Atoms) : u \o <<>> = u
  BY ConcatEmptySeq
<1>4. CASE m.role = "system"
  <2> DEFINE h == <<Slice("chat", <<m>>)>>
  <2>1. m \in OfRole("system")
    BY <1>4 DEF OfRole
  <2>2. h \in Histories /\ Hom(SliceLoop, h) = MessageAtoms(m)
    BY <2>1, GroupSlice, HistoryFacts
  <2>3. Place(acc, m) = [history |-> h, current |-> <<>>]
    BY <1>4 DEF Place
  <2> HIDE DEF h
  <2>4. Groups([history |-> h, current |-> <<>>], MessageAtoms(m))
    BY <1>2, <1>3, <2>2 DEF Groups
  <2> QED
    BY <1>4, <2>3, <2>4
<1>5. CASE m.role \in {"assistant", "tool"}
  <2> DEFINE f == Flush(acc)
             sl == Slice("chat", <<m>>)
             h == Append(f, sl)
  <2>1. f \in Histories /\ Hom(SliceLoop, f) = said
    BY FlushKeeps
  <2>2. m \in OfRole(m.role) /\ <<m>> \in Seq(OfRole(m.role))
    BY DEF OfRole
  <2>3. sl \in Later /\ AtomsIn(sl) = ChatAtoms(<<m>>)
    BY <1>5, <2>2, GroupSlice
  <2>4. ChatAtoms(<<m>>) = MessageAtoms(m)
    BY ChatFacts
  <2>5. Place(acc, m) = [history |-> h, current |-> <<>>]
    BY <1>5 DEF Place
  <2> HIDE DEF f, sl
  <2>6. h \in Histories /\ Hom(SliceLoop, h) = said \o MessageAtoms(m)
    BY <2>1, <2>3, <2>4, HistoryFacts
  <2>7. said \o MessageAtoms(m) \in Seq(Atoms)
    BY <1>2, ConcatProperties
  <2> HIDE DEF h
  <2>8. Groups([history |-> h, current |-> <<>>], said \o MessageAtoms(m))
    BY <1>2, <1>3, <2>6, <2>7 DEF Groups
  <2> QED
    BY <1>5, <2>5, <2>8
<1>6. CASE m.role = "user"
  <2> DEFINE c == Append(acc.current, m)
  <2>1. m \in OfRole("user")
    BY <1>6 DEF OfRole
  <2>2. c \in Seq(OfRole("user"))
    BY <1>1, <2>1, AppendProperties
  <2>3. Place(acc, m) = [history |-> acc.history, current |-> c]
    BY <1>1, <1>6 DEF Place
  <2>4. acc.current \in Seq(Messages) /\ Hom(SliceLoop, acc.history) \in Seq(Atoms)
    BY <1>1, AssistantsAre, HistoryFacts
  <2>5. ChatAtoms(c) = ChatAtoms(acc.current) \o MessageAtoms(m) /\ ChatAtoms(acc.current) \in Seq(Atoms)
    BY <2>4, ChatFacts
  <2>6. Hom(SliceLoop, acc.history) \o (ChatAtoms(acc.current) \o MessageAtoms(m)) = said \o MessageAtoms(m)
    <3>1. \A u, v, w \in Seq(Atoms) : (u \o v) \o w = u \o (v \o w)
      BY ConcatAssociative
    <3> QED
      BY <1>1, <1>2, <2>4, <2>5, <3>1, ZenonT(60)
  <2> HIDE DEF c
  <2>7. Groups([history |-> acc.history, current |-> c], said \o MessageAtoms(m))
    BY <1>1, <2>2, <2>5, <2>6 DEF Groups
  <2> QED
    BY <1>6, <2>3, <2>7
<1>7. m.role \in Roles
  BY MessagesAre
<1> QED
  BY <1>4, <1>5, <1>6, <1>7 DEF Roles

\* Grouping loses and moves nothing: the history says what had been said and
\* the messages say, from the last system message on (_set_messages,
\* workflow.py:185-220).
LEMMA SetMessagesKeeps ==
    ASSUME NEW before \in Histories, NEW messages \in Seq(Messages)
    PROVE  /\ SetMessages(before, messages) \in Histories
           /\ Hom(SliceLoop, SetMessages(before, messages)) = Said(Hom(SliceLoop, before), messages)
<1> DEFINE base == [history |-> before, current |-> <<>>]
           l == Hom(SliceLoop, before)
           F(s) == FoldLeft(Place, base, s)
           G == {s \in Seq(Messages) : Groups(F(s), Said(l, s))}
<1>1. l \in Seq(Atoms)
  BY HistoryFacts
<1>2. Groups(base, l)
  <2>1. base.history = before /\ base.current = <<>>
    OBVIOUS
  <2>2. <<>> \in Seq(OfRole("user")) /\ ChatAtoms(<<>>) = <<>> /\ l \o <<>> = l
    BY <1>1, EmptySeq, ChatFacts, ConcatEmptySeq
  <2> QED
    BY <2>1, <2>2 DEF Groups
<1>3. F(<<>>) = base /\ \A s \in Seq(Messages), m \in Messages : F(Append(s, m)) = Place(F(s), m)
  <2>1. /\ FoldLeft(Place, base, <<>>) = base
        /\ \A X : \A s \in Seq(X), x \in X :
             FoldLeft(Place, base, Append(s, x)) = Place(FoldLeft(Place, base, s), x)
    BY ONLY PlaceFold, Zenon
  <2> QED
    BY ONLY <2>1, Zenon
<1>4. /\ Said(l, <<>>) = l
      /\ \A s \in Seq(Messages) : Said(l, s) \in Seq(Atoms)
      /\ \A s \in Seq(Messages), m \in Messages :
           Said(l, Append(s, m)) = IF m.role = "system" THEN MessageAtoms(m) ELSE Said(l, s) \o MessageAtoms(m)
  BY <1>1, SaidSteps
<1>5. SetMessages(before, messages) = Flush(F(messages))
  BY DEF SetMessages
<1> HIDE DEF F, base, l
<1>6. <<>> \in G
  BY <1>2, <1>3, <1>4, EmptySeq
<1>7. ASSUME NEW s \in Seq(Messages), NEW m \in Messages, s \in G PROVE Append(s, m) \in G
  <2>1. Groups(Place(F(s), m), IF m.role = "system" THEN MessageAtoms(m) ELSE Said(l, s) \o MessageAtoms(m))
    BY <1>4, <1>7, PlaceKeeps
  <2> QED
    BY <1>3, <1>4, <2>1, AppendProperties
<1>8. Seq(Messages) \subseteq G
  <2> HIDE DEF G
  <2> QED
    BY <1>6, <1>7, SeqInduct
<1>9. Groups(F(messages), Said(l, messages))
  BY <1>8
<1> QED
  BY <1>5, <1>9, FlushKeeps DEF l

-----------------------------------------------------------------------------
(* Requests: the conversion of a history, slice by slice.                  *)

\* The members of longer sequences.
LEMMA ToSetSteps ==
    ASSUME NEW X
    PROVE  /\ ToSet(<<>>) = {}
           /\ \A s, t \in Seq(X) : ToSet(s \o t) = ToSet(s) \cup ToSet(t)
           /\ \A s \in Seq(X), x \in X : ToSet(Append(s, x)) = ToSet(s) \cup {x}
<1>1. ToSet(<<>>) = {}
  BY DEF ToSet
<1>2. ASSUME NEW s \in Seq(X), NEW t \in Seq(X) PROVE ToSet(s \o t) = ToSet(s) \cup ToSet(t)
  <2> DEFINE u == s \o t
             m == Len(s)
             n == Len(t)
  <2>1. /\ m \in Nat /\ n \in Nat /\ u \in Seq(X) /\ Len(u) = m + n
        /\ \A i \in 1..(m + n) : u[i] = IF i <= m THEN s[i] ELSE t[i - m]
    BY LenProperties, ConcatProperties
  <2>2. /\ ToSet(s) = {s[i] : i \in 1..m} /\ ToSet(t) = {t[i] : i \in 1..n}
        /\ ToSet(u) = {u[i] : i \in 1..(m + n)}
    <3>1. \A v \in Seq(X) : ToSet(v) = {v[i] : i \in 1..Len(v)}
      BY ToSetIs
    <3> QED
      BY <2>1, <3>1
  <2> HIDE DEF u, m, n
  <2>3. \A i \in 1..(m + n) : u[i] \in ToSet(s) \cup ToSet(t)
    <3> TAKE i \in 1..(m + n)
    <3>1. i <= m => i \in 1..m
      BY <2>1
    <3>2. ~(i <= m) => i - m \in 1..n
      BY <2>1
    <3> QED
      BY <2>1, <2>2, <3>1, <3>2
  <2>4. \A i \in 1..m : s[i] \in ToSet(u)
    <3> TAKE i \in 1..m
    <3>1. i \in 1..(m + n) /\ i <= m
      BY <2>1
    <3> QED
      BY <2>1, <2>2, <3>1
  <2>5. \A i \in 1..n : t[i] \in ToSet(u)
    <3> TAKE i \in 1..n
    <3>1. m + i \in 1..(m + n) /\ ~(m + i <= m) /\ (m + i) - m = i
      BY <2>1
    <3>2. u[m + i] = t[i]
      BY <2>1, <3>1
    <3> QED
      BY <2>2, <3>1, <3>2
  <2> QED
    BY <2>2, <2>3, <2>4, <2>5 DEF u
<1>3. ASSUME NEW s \in Seq(X), NEW x \in X PROVE ToSet(Append(s, x)) = ToSet(s) \cup {x}
  <2>1. Append(s, x) = s \o <<x>>
    BY AppendIsConcat
  <2>2. <<x>> \in Seq(X) /\ ToSet(<<x>>) = {x}
    BY DEF ToSet
  <2> QED
    BY <1>2, <2>1, <2>2
<1> QED
  BY <1>1, <1>2, <1>3

\* What a loop gives for an element is in what it gives for the sequence.
LEMMA HomMembers ==
    ASSUME NEW X, NEW B, NEW g, Loop(g, X, B)
    PROVE  \A s \in Seq(X) : \A x \in ToSet(s) : ToSet(g[x]) \subseteq ToSet(Hom(g, s))
<1> DEFINE G == {s \in Seq(X) : \A x \in ToSet(s) : ToSet(g[x]) \subseteq ToSet(Hom(g, s))}
<1>1. <<>> \in G
  <2>1. ToSet(<<>>) = {} /\ <<>> \in Seq(X)
    BY EmptySeq DEF ToSet
  <2> QED
    BY <2>1
<1>2. ASSUME NEW s \in Seq(X), NEW y \in X, s \in G PROVE Append(s, y) \in G
  <2>1. Hom(g, Append(s, y)) = Hom(g, s) \o g[y] /\ Hom(g, s) \in Seq(B) /\ g[y] \in Seq(B)
    <3>1. g[y] \in Seq(B)
      BY DEF Loop
    <3> QED
      BY <3>1, HomAppend, HomType
  <2>2. ToSet(Hom(g, Append(s, y))) = ToSet(Hom(g, s)) \cup ToSet(g[y])
    <3>1. \A u, v \in Seq(B) : ToSet(u \o v) = ToSet(u) \cup ToSet(v)
      BY ToSetSteps
    <3> QED
      BY <2>1, <3>1
  <2>3. ToSet(Append(s, y)) = ToSet(s) \cup {y}
    BY ToSetSteps
  <2>4. \A x \in ToSet(s) : ToSet(g[x]) \subseteq ToSet(Hom(g, s))
    BY <1>2
  <2>5. \A x \in ToSet(Append(s, y)) : ToSet(g[x]) \subseteq ToSet(Hom(g, Append(s, y)))
    BY <2>2, <2>3, <2>4
  <2> QED
    BY <2>5, AppendProperties
<1>3. Seq(X) \subseteq G
  <2> HIDE DEF G
  <2> QED
    BY <1>1, <1>2, SeqInduct
<1> QED
  BY <1>3

\* A sequence over X whose members are in Y is one over Y.
LEMMA SeqOfMembers ==
    ASSUME NEW X, NEW Y, NEW s \in Seq(X), ToSet(s) \subseteq Y
    PROVE  s \in Seq(Y)
<1>1. Len(s) \in Nat /\ s \in [1..Len(s) -> X] /\ DOMAIN s = 1..Len(s) /\ ToSet(s) = {s[i] : i \in 1..Len(s)}
  BY LenProperties, ToSetIs
<1>2. \A i \in 1..Len(s) : s[i] \in Y
  BY <1>1
<1>3. s \in [1..Len(s) -> Y]
  BY <1>1, <1>2
<1> QED
  BY <1>1, <1>3, SeqDef

\* Slice by slice: a conversion that keeps what each slice says keeps what
\* the history says.
LEMMA SliceWise ==
    ASSUME NEW S, NEW X, X \subseteq Slices, NEW B, NEW g, Loop(g, X, B), NEW f, Loop(f, B, Atoms),
           \A sl \in X : Only(S, Hom(f, g[sl])) = Only(S, AtomsIn(sl))
    PROVE  \A h \in Seq(X) : Only(S, Hom(f, Hom(g, h))) = Only(S, Hom(SliceLoop, h))
<1> DEFINE G == {h \in Seq(X) : Only(S, Hom(f, Hom(g, h))) = Only(S, Hom(SliceLoop, h))}
<1>1. <<>> \in G
  <2>1. Hom(g, <<>>) = <<>> /\ Hom(f, <<>>) = <<>> /\ Hom(SliceLoop, <<>>) = <<>> /\ <<>> \in Seq(X)
    BY HomEmpty, EmptySeq
  <2> QED
    BY <2>1
<1>2. ASSUME NEW h \in Seq(X), NEW sl \in X, h \in G PROVE Append(h, sl) \in G
  <2>1. h \in Seq(Slices) /\ sl \in Slices
    BY SeqMonotonic
  <2>2. Hom(SliceLoop, Append(h, sl)) = Hom(SliceLoop, h) \o AtomsIn(sl)
        /\ Hom(SliceLoop, h) \in Seq(Atoms) /\ AtomsIn(sl) \in Seq(Atoms)
    <3>1. Hom(SliceLoop, Append(h, sl)) = Hom(SliceLoop, h) \o SliceLoop[sl] /\ Hom(SliceLoop, h) \in Seq(Atoms)
      BY <2>1, SliceLoopType, HomAppend, HomType
    <3>2. SliceLoop[sl] \in Seq(Atoms)
      BY <2>1, SliceLoopType DEF Loop
    <3> QED
      BY <2>1, <3>1, <3>2, SliceLoopType
  <2>3. Hom(g, Append(h, sl)) = Hom(g, h) \o g[sl] /\ Hom(g, h) \in Seq(B)
    BY HomAppend, HomType
  <2>4. g[sl] \in Seq(B)
    BY DEF Loop
  <2>5. Hom(f, Hom(g, h) \o g[sl]) = Hom(f, Hom(g, h)) \o Hom(f, g[sl])
    <3>1. \A u \in Seq(B) : \A v \in Seq(B) : Hom(f, u \o v) = Hom(f, u) \o Hom(f, v)
      BY HomConcat
    <3> QED
      BY <2>3, <2>4, <3>1
  <2>6. Hom(f, Hom(g, h)) \in Seq(Atoms) /\ Hom(f, g[sl]) \in Seq(Atoms)
    BY <2>3, <2>4, HomType
  <2>7. \A u, v \in Seq(Atoms) : Only(S, u \o v) = Only(S, u) \o Only(S, v)
    BY OnlyAtoms DEF OnlyOn
  <2>8. Only(S, Hom(f, g[sl])) = Only(S, AtomsIn(sl)) /\ Only(S, Hom(f, Hom(g, h))) = Only(S, Hom(SliceLoop, h))
    BY <1>2
  <2>9. Only(S, Hom(f, Hom(g, Append(h, sl)))) = Only(S, Hom(f, Hom(g, h))) \o Only(S, Hom(f, g[sl]))
    BY <2>3, <2>5, <2>6, <2>7
  <2>10. Only(S, Hom(SliceLoop, Append(h, sl))) = Only(S, Hom(SliceLoop, h)) \o Only(S, AtomsIn(sl))
    BY <2>2, <2>7
  <2> QED
    BY <2>8, <2>9, <2>10, AppendProperties
<1>3. Seq(X) \subseteq G
  <2> HIDE DEF G
  <2> QED
    BY <1>1, <1>2, SeqInduct
<1> QED
  BY <1>3

\* CallsAround of a slice is Around of its items.
LEMMA AroundIs ==
    ASSUME NEW sl, sl.format = "responses", sl.body \in Seq(AnswerItems)
    PROVE  CallsAround(sl) <=> Around(sl.body)
<1> DEFINE s == sl.body
<1>1. DOMAIN s = 1..Len(s)
  BY LenProperties
<1>2. \A i, j, k : <<s[i].type, s[j].type, s[k].type>> = <<"function_call", "message", "function_call">>
        <=> s[i].type = "function_call" /\ s[j].type = "message" /\ s[k].type = "function_call"
  OBVIOUS
<1> HIDE DEF s
<1> QED
  BY <1>1, <1>2, SMTT(30) DEF CallsAround, Around, Kind, s

\* A slice of any format can be converted to chat messages, which say the
\* same but for calls around a message.
LEMMA SliceToChat ==
    ASSUME NEW sl \in Slices
    PROVE  /\ ToChat(sl).error = "none" /\ ToChat(sl).out \in Seq(Messages)
           /\ \A S : Sorted(S) /\ (CallAtoms \cap S = {} \/ ~CallsAround(sl)) =>
                Only(S, ChatAtoms(ToChat(sl).out)) = Only(S, AtomsIn(sl))
<1>1. ToChat(sl).error = "none"
  BY DEF ToChat, Converted
<1>2. CASE sl \in PlainSlices \cup SystemSlices
  <2>1. sl.format = "chat" /\ sl.body \in Seq(Messages)
    BY <1>2, PlainAre
  <2>2. ToChat(sl).out = sl.body /\ AtomsIn(sl) = ChatAtoms(sl.body)
    BY <2>1 DEF ToChat, Converted, AtomsIn
  <2> QED
    BY <1>1, <2>1, <2>2
<1>3. CASE sl.format = "responses" /\ sl.body \in Seq(AnswerItems)
  <2>1. ToChat(sl).out = ResponsesToChat(sl.body) /\ AtomsIn(sl) = ResponsesAtoms(sl.body)
    BY <1>3 DEF ToChat, Converted, AtomsIn
  <2>2. ResponsesToChat(sl.body) \in Seq(Messages)
    BY <1>3, ResponsesToChatKeeps, AssistantsAre
  <2>3. \A S : Sorted(S) /\ (CallAtoms \cap S = {} \/ ~Around(sl.body)) =>
                Only(S, ChatAtoms(ResponsesToChat(sl.body))) = Only(S, ResponsesAtoms(sl.body))
    BY <1>3, ResponsesToChatKeeps
  <2>4. CallsAround(sl) <=> Around(sl.body)
    BY <1>3, AroundIs
  <2> QED
    BY <1>1, <2>1, <2>2, <2>3, <2>4
<1>4. CASE sl.format = "anthropic" /\ sl.body \in AnswerMessages
  <2>1. ToChat(sl).out = AnthropicToChat(sl.body) /\ AtomsIn(sl) = AnthropicAtoms(<<sl.body>>)
    BY <1>4 DEF ToChat, Converted, AtomsIn
  <2>2. AnthropicToChat(sl.body) \in Seq(Messages)
    BY <1>4, AnthropicToChatKeeps, AssistantsAre
  <2>3. \A S : Sorted(S) => Only(S, ChatAtoms(AnthropicToChat(sl.body))) = Only(S, AnthropicAtoms(<<sl.body>>))
    BY <1>4, AnthropicToChatKeeps
  <2> QED
    BY <1>1, <2>1, <2>2, <2>3
<1> QED
  BY <1>2, <1>3, <1>4, PlainAre DEF Slices, Later

\* The conversion of a history, as a loop.
ToChatLoop == [sl \in Slices |-> ToChat(sl).out]

\* The request of chat completions is never an error.
LEMMA ChatRequestIs ==
    ASSUME NEW h \in Seq(Slices)
    PROVE  ChatRequest(h).error = "none" /\ ChatRequest(h).out = ChatAtoms(Hom(ToChatLoop, h))
<1>1. DOMAIN h = 1..Len(h) /\ \A i \in 1..Len(h) : h[i] \in Slices
  BY LenProperties, ElementOfSeq
<1> DEFINE each == [i \in DOMAIN h |-> ToChat(h[i])]
           errors == {each[i].error : i \in DOMAIN each}
           outs == [i \in DOMAIN each |-> each[i].out]
<1>2. "unimplemented" \notin errors /\ "conversion" \notin errors
  BY <1>1, SliceToChat
<1>3. outs = Map(ToChatLoop, h)
  BY <1>1 DEF Map, ToChatLoop
<1>4. ConvertAll(h, ToChat, FALSE) = CASE "unimplemented" \in errors -> NotImplemented
                                        [] "conversion" \in errors /\ ~FALSE -> ConversionError
                                        [] OTHER -> Converted(FlattenSeq(outs))
  BY DEF ConvertAll
<1>5. ConvertAll(h, ToChat, FALSE) = Converted(FlattenSeq(outs))
  <2> HIDE DEF errors, outs
  <2> QED
    BY <1>2, <1>4
<1> DEFINE c == ConvertAll(h, ToChat, FALSE)
<1>6. c = [error |-> "none", out |-> Hom(ToChatLoop, h)]
  BY <1>3, <1>5 DEF Hom, Converted
<1>7. ChatRequest(h) = [c EXCEPT !.out = ChatAtoms(@)]
  BY DEF ChatRequest
<1> HIDE DEF c
<1> QED
  BY <1>6, <1>7

\* It says what the history says, but for calls around a message
\* (_query_chat_completions, client/openai.py:176-218).
LEMMA ChatRequestKeeps ==
    ASSUME NEW h \in Seq(Slices)
    PROVE  /\ ChatRequest(h).out \in Seq(Atoms)
           /\ \A S : Sorted(S) /\ (CallAtoms \cap S = {} \/ \A sl \in ToSet(h) : ~CallsAround(sl)) =>
                Only(S, ChatRequest(h).out) = Only(S, Hom(SliceLoop, h))
<1>1. Loop(ToChatLoop, Slices, Messages)
  BY SliceToChat DEF Loop, ToChatLoop
<1>2. Hom(ToChatLoop, h) \in Seq(Messages)
  BY <1>1, HomType
<1>3. ChatRequest(h).out = ChatAtoms(Hom(ToChatLoop, h)) /\ ChatAtoms(Hom(ToChatLoop, h)) \in Seq(Atoms)
  BY <1>2, ChatRequestIs, ChatFacts
<1>4. ChatAtoms(Hom(ToChatLoop, h)) = Hom(ChatLoop, Hom(ToChatLoop, h))
  BY <1>2, ChatAtomsIs
<1>5. ASSUME NEW S, Sorted(S), CallAtoms \cap S = {} \/ \A sl \in ToSet(h) : ~CallsAround(sl)
      PROVE  Only(S, Hom(ChatLoop, Hom(ToChatLoop, h))) = Only(S, Hom(SliceLoop, h))
  <2> DEFINE X == ToSet(h)
             g == [sl \in X |-> ToChatLoop[sl]]
  <2>1. X \subseteq Slices
    BY ToSetIs
  <2>2. h \in Seq(X)
    BY <2>1, SeqOfMembers
  <2>3. \A sl \in X : g[sl] = ToChat(sl).out /\ g[sl] \in Seq(Messages) /\ g[sl] = ToChatLoop[sl]
    BY <2>1, SliceToChat DEF ToChatLoop
  <2>4. Loop(g, X, Messages)
    BY <2>3 DEF Loop
  <2>5. \A sl \in X : Only(S, Hom(ChatLoop, g[sl])) = Only(S, AtomsIn(sl))
    <3> TAKE sl \in X
    <3>1. Only(S, ChatAtoms(ToChat(sl).out)) = Only(S, AtomsIn(sl))
      BY <1>5, <2>1, SliceToChat
    <3>2. ChatAtoms(ToChat(sl).out) = Hom(ChatLoop, g[sl])
      BY <2>3, ChatAtomsIs
    <3> QED
      BY <3>1, <3>2
  <2> HIDE DEF X, g
  <2>6. \A u \in Seq(X) : Only(S, Hom(ChatLoop, Hom(g, u))) = Only(S, Hom(SliceLoop, u))
    BY <2>1, <2>4, <2>5, ChatLoopType, SliceWise
  <2>7. \A u \in Seq(X) : Hom(g, u) = Hom(ToChatLoop, u)
    BY <2>3, HomSame
  <2> QED
    BY <2>2, <2>6, <2>7
<1> QED
  BY <1>3, <1>4, <1>5

\* A slice in the format of chat completions or of the Responses API says the
\* same as items; for an answer of the anthropic API there is no conversion.
LEMMA SliceToResponses ==
    ASSUME NEW sl \in Slices
    PROVE  /\ sl.format = "anthropic" => ToResponses(sl).error = "unimplemented"
           /\ sl.format # "anthropic" =>
                /\ ToResponses(sl).error = "none" /\ ToResponses(sl).out \in Seq(Items)
                /\ ResponsesAtoms(ToResponses(sl).out) = AtomsIn(sl)
<1>1. CASE sl \in PlainSlices \cup SystemSlices
  <2>1. sl.format = "chat" /\ sl.body \in Seq(Messages)
    BY <1>1, PlainAre
  <2>2. ToResponses(sl) = Converted(ChatToResponses(sl.body)) /\ AtomsIn(sl) = ChatAtoms(sl.body)
    BY <2>1 DEF ToResponses, AtomsIn
  <2> QED
    BY <2>1, <2>2, ChatToResponsesKeeps DEF Converted
<1>2. CASE sl.format = "responses" /\ sl.body \in Seq(AnswerItems)
  <2>1. ToResponses(sl) = Converted(sl.body) /\ AtomsIn(sl) = ResponsesAtoms(sl.body)
    BY <1>2 DEF ToResponses, AtomsIn
  <2> QED
    BY <1>2, <2>1, AnswerItemsAre DEF Converted
<1>3. CASE sl.format = "anthropic" /\ sl.body \in AnswerMessages
  BY <1>3 DEF ToResponses, NotImplemented
<1> QED
  BY <1>1, <1>2, <1>3, PlainAre DEF Slices, Later

\* The request of the Responses API says what the history says: if a slice of
\* the anthropic API is part of it, it is an error (_query_responses,
\* client/openai.py:125-174).
LEMMA ResponsesRequestKeeps ==
    ASSUME NEW h \in Seq(Slices), ResponsesRequest(h).error = "none"
    PROVE  ResponsesRequest(h).out \in Seq(Atoms) /\ ResponsesRequest(h).out = Hom(SliceLoop, h)
<1>1. DOMAIN h = 1..Len(h) /\ (\A i \in 1..Len(h) : h[i] \in Slices) /\ ToSet(h) = {h[i] : i \in 1..Len(h)}
  BY LenProperties, ElementOfSeq, ToSetIs
<1> DEFINE each == [i \in DOMAIN h |-> ToResponses(h[i])]
           errors == {each[i].error : i \in DOMAIN each}
           outs == [i \in DOMAIN each |-> each[i].out]
           c == ConvertAll(h, ToResponses, FALSE)
<1>2. c = CASE "unimplemented" \in errors -> NotImplemented
            [] "conversion" \in errors /\ ~FALSE -> ConversionError
            [] OTHER -> Converted(FlattenSeq(outs))
  BY DEF ConvertAll
<1>3. c.error = "none"
  <2>1. ResponsesRequest(h) = [c EXCEPT !.out = ResponsesAtoms(@)]
    BY DEF ResponsesRequest
  <2>2. c = Converted(FlattenSeq(outs)) \/ c = NotImplemented \/ c = ConversionError
    <3> HIDE DEF c, errors, outs
    <3> QED
      BY <1>2
  <2>3. [c EXCEPT !.out = ResponsesAtoms(@)].error = c.error
    <3> HIDE DEF c, outs
    <3> QED
      BY <2>2 DEF Converted, NotImplemented, ConversionError
  <2> QED
    BY <2>1, <2>3
<1>4. "unimplemented" \notin errors /\ c = Converted(FlattenSeq(outs))
  <2> HIDE DEF c, errors, outs
  <2> QED
    BY <1>2, <1>3 DEF NotImplemented, ConversionError
<1>5. \A sl \in ToSet(h) : sl.format # "anthropic" /\ sl \in Slices
  BY <1>1, <1>4, SliceToResponses
<1> DEFINE X == ToSet(h)
           g == [sl \in X |-> ToResponses(sl).out]
<1>6. Loop(g, X, Items) /\ h \in Seq(X) /\ X \subseteq Slices
  <2>1. X \subseteq Slices
    BY <1>5
  <2>2. h \in Seq(X)
    BY <2>1, SeqOfMembers
  <2> QED
    BY <1>5, <2>1, <2>2, SliceToResponses DEF Loop
<1>7. outs = Map(g, h)
  BY <1>1 DEF Map
<1>8. \A sl \in X : g[sl] \in Seq(Items) /\ Hom(ItemLoop, g[sl]) = AtomsIn(sl)
  BY <1>5, SliceToResponses, ResponsesAtomsIs
<1>9. ResponsesRequest(h).out = ResponsesAtoms(Hom(g, h))
  <2>1. ResponsesRequest(h) = [c EXCEPT !.out = ResponsesAtoms(@)]
    BY DEF ResponsesRequest
  <2>2. c = [error |-> "none", out |-> Hom(g, h)]
    BY <1>4, <1>7 DEF Converted, Hom
  <2> HIDE DEF c, g
  <2> QED
    BY <2>1, <2>2
<1> HIDE DEF g, X
<1>10. Hom(g, h) \in Seq(Items) /\ ResponsesAtoms(Hom(g, h)) = Hom(ItemLoop, Hom(g, h))
  BY <1>6, HomType, ResponsesAtomsIs
<1>11. Hom(ItemLoop, Hom(g, h)) \in Seq(Atoms)
  BY <1>10, ItemLoopType, HomType
<1>12. Only(Atoms, Hom(ItemLoop, Hom(g, h))) = Only(Atoms, Hom(SliceLoop, h))
  <2>1. \A sl \in X : Only(Atoms, Hom(ItemLoop, g[sl])) = Only(Atoms, AtomsIn(sl))
    BY <1>8
  <2>2. \A u \in Seq(X) : Only(Atoms, Hom(ItemLoop, Hom(g, u))) = Only(Atoms, Hom(SliceLoop, u))
    BY <1>6, <2>1, ItemLoopType, SliceWise
  <2> QED
    BY <1>6, <2>2
<1>13. \A u \in Seq(Atoms) : Only(Atoms, u) = u
  BY OnlyAll
<1>14. Hom(SliceLoop, h) \in Seq(Atoms)
  BY SliceLoopType, HomType
<1> QED
  BY <1>9, <1>10, <1>11, <1>12, <1>13, <1>14

\* An image of a type that the anthropic API does not take.
Svg == <<"env", "svg">>

\* If no atom is such an image, no message has one.
LEMMA NoSvg ==
    ASSUME NEW s \in Seq(Messages), Svg \notin ToSet(ChatAtoms(s))
    PROVE  \A m \in ToSet(s) : "svg" \notin ToSet(m.parts)
<1> SUFFICES ASSUME NEW m \in ToSet(s), "svg" \in ToSet(m.parts) PROVE FALSE
  OBVIOUS
<1>1. m \in Messages
  BY ToSetIs
<1>2. ToSet(MessageAtoms(m)) \subseteq ToSet(ChatAtoms(s))
  <2>1. \A u \in Seq(Messages) : \A x \in ToSet(u) : ToSet(ChatLoop[x]) \subseteq ToSet(Hom(ChatLoop, u))
    BY ChatLoopType, HomMembers
  <2>2. ChatLoop[m] = MessageAtoms(m) /\ ChatAtoms(s) = Hom(ChatLoop, s)
    BY <1>1, ChatLoopType, ChatAtomsIs
  <2> QED
    BY <2>1, <2>2
<1>3. m.parts \in Seq(Parts) /\ m.parts \in Seq(Names) /\ m.calls \in Seq(Names)
  BY <1>1, MessagesAre
<1>4. m.role # "assistant"
  <2>1. m.role = "assistant" => m.parts \in Seq({"text"})
    BY <1>1, MessagesAre
  <2>2. \A u \in Seq({"text"}) : ToSet(u) \subseteq {"text"}
    BY ToSetIs
  <2> QED
    BY <2>1, <2>2
<1> DEFINE head == IF m.role = "tool" THEN <<Atom("tool", m.call)>> ELSE <<>>
           p == AtomsOf(m.role, m.parts)
           c == AtomsOf(m.role, m.calls)
<1>5. MessageAtoms(m) = (head \o p) \o c
  BY DEF MessageAtoms
<1>6. head \in Seq(Atoms)
  <2>1. m.role = "tool" => Atom("tool", m.call) \in Atoms
    BY <1>1, MessagesAre DEF Atom, Atoms
  <2> QED
    BY <2>1
<1>7. p \in Seq(Atoms) /\ c \in Seq(Atoms)
  BY <1>3, AtomsOfIs
<1>8. Svg \in ToSet(p)
  <2>1. ToSet(m.parts) = {m.parts[i] : i \in 1..Len(m.parts)} /\ DOMAIN m.parts = 1..Len(m.parts)
    BY <1>3, ToSetIs, LenProperties
  <2>2. PICK i \in DOMAIN m.parts : m.parts[i] = "svg"
    BY <2>1
  <2>3. i \in DOMAIN p /\ p[i] = Svg
    BY <1>4, <2>2 DEF AtomsOf, Atom, Svg
  <2> HIDE DEF p
  <2> QED
    BY <2>3 DEF ToSet
<1> HIDE DEF head, p, c
<1>9. \A u, v \in Seq(Atoms) : ToSet(u \o v) = ToSet(u) \cup ToSet(v)
  BY ToSetSteps
<1>10. head \o p \in Seq(Atoms)
  BY <1>6, <1>7, ConcatProperties
<1>11. Svg \in ToSet(MessageAtoms(m))
  <2>1. ToSet(head \o p) = ToSet(head) \cup ToSet(p)
    BY <1>6, <1>7, <1>9
  <2>2. ToSet((head \o p) \o c) = ToSet(head \o p) \cup ToSet(c)
    BY <1>7, <1>9, <1>10
  <2> QED
    BY <1>5, <1>8, <2>1, <2>2
<1> QED
  BY <1>2, <1>11

\* The slices that the anthropic API takes.
Taking == {sl \in Slices : sl.format # "responses" /\ Svg \notin ToSet(AtomsIn(sl))}

\* Of the two conversions one keeps what the slice says and the other gives
\* nothing: a system message goes apart.
LEMMA SliceToAnthropic ==
    ASSUME NEW sl \in Taking
    PROVE  /\ ToSystem(sl).out \in Seq(BlockMessages) /\ ToAnthropic(sl).out \in Seq(BlockMessages)
           /\ sl \in SystemSlices =>
                AnthropicAtoms(ToSystem(sl).out) = AtomsIn(sl) /\ ToAnthropic(sl).out = <<>>
           /\ sl \in Later =>
                ToSystem(sl).out = <<>> /\ AnthropicAtoms(ToAnthropic(sl).out) = AtomsIn(sl)
<1>1. <<>> \in Seq(BlockMessages)
  BY EmptySeq
<1>2. CASE sl \in SystemSlices
  <2>1. PICK m \in OfRole("system") : sl.body = <<m>> /\ sl.format = "chat"
    BY <1>2 DEF SystemSlices
  <2>2. ToSystem(sl) = ChatToSystem(<<m>>) /\ ToAnthropic(sl) = ChatToAnthropic(<<m>>)
        /\ AtomsIn(sl) = ChatAtoms(<<m>>)
    BY <2>1 DEF ToSystem, ToAnthropic, AtomsIn
  <2>3. ChatToSystem(<<m>>).out \in Seq(BlockMessages)
        /\ AnthropicAtoms(ChatToSystem(<<m>>).out) = ChatAtoms(<<m>>)
    BY ChatToSystemKeeps
  <2>4. ChatToAnthropic(<<m>>).out = <<>>
    BY ChatToAnthropicSystem
  <2>5. sl \notin Later
    <3>1. ASSUME sl \in PlainSlices PROVE FALSE
      <4>1. PICK r \in {"user", "assistant", "tool"} : <<m>> \in Seq(OfRole(r))
        BY <2>1, <3>1 DEF PlainSlices, Grouped
      <4>2. m \in OfRole(r)
        BY <4>1
      <4> QED
        BY <4>2 DEF OfRole
    <3>2. sl \notin AnswerSlices
      BY <2>1 DEF AnswerSlices
    <3> QED
      BY <3>1, <3>2 DEF Later
  <2> QED
    BY <1>1, <1>2, <2>2, <2>3, <2>4, <2>5
<1>3. CASE sl \in PlainSlices
  <2>1. sl.format = "chat" /\ sl.body \in Grouped
    BY <1>3 DEF PlainSlices
  <2>2. PICK r \in {"user", "assistant", "tool"} : sl.body \in Seq(OfRole(r))
    BY <2>1 DEF Grouped
  <2>3. ToSystem(sl) = ChatToSystem(sl.body) /\ ToAnthropic(sl) = ChatToAnthropic(sl.body)
        /\ AtomsIn(sl) = ChatAtoms(sl.body)
    BY <2>1 DEF ToSystem, ToAnthropic, AtomsIn
  <2>4. ChatToSystem(sl.body).out = <<>>
    BY <2>2, ChatToSystemOther
  <2>5. \A m \in ToSet(sl.body) : "svg" \notin ToSet(m.parts)
    <3>1. sl.body \in Seq(Messages)
      BY <2>2, AssistantsAre
    <3>2. Svg \notin ToSet(ChatAtoms(sl.body))
      BY <2>3 DEF Taking
    <3> QED
      BY <3>1, <3>2, NoSvg
  <2>6. ChatToAnthropic(sl.body).out \in Seq(BlockMessages)
        /\ AnthropicAtoms(ChatToAnthropic(sl.body).out) = ChatAtoms(sl.body)
    BY <2>2, <2>5, ChatToAnthropicKeeps
  <2>7. sl \notin SystemSlices
    <3>1. ASSUME sl \in SystemSlices PROVE FALSE
      <4>1. PICK m \in OfRole("system") : sl.body = <<m>>
        BY <3>1 DEF SystemSlices
      <4>2. <<m>> \in Seq(OfRole(r))
        BY <2>2, <4>1
      <4>3. m \in OfRole(r)
        BY <4>2
      <4> QED
        BY <4>3 DEF OfRole
    <3> QED
      BY <3>1
  <2> QED
    BY <1>1, <2>3, <2>4, <2>6, <2>7
<1>4. CASE sl \in AnswerSlices
  <2>1. sl.format = "anthropic" /\ sl.body \in AnswerMessages
    BY <1>4, PlainAre DEF Taking
  <2>2. ToSystem(sl) = ConversionError /\ ToAnthropic(sl) = Converted(<<sl.body>>)
        /\ AtomsIn(sl) = AnthropicAtoms(<<sl.body>>)
    BY <2>1 DEF ToSystem, ToAnthropic, AtomsIn
  <2>3. <<sl.body>> \in Seq(BlockMessages)
    BY <2>1, AnswerBlocksAre
  <2>4. sl \notin SystemSlices
    BY <2>1 DEF SystemSlices
  <2> QED
    BY <1>1, <2>2, <2>3, <2>4 DEF Converted, ConversionError
<1> QED
  BY <1>2, <1>3, <1>4 DEF Taking, Slices, Later

\* The two conversions, and what their results say one after the other.
SystemLoop == [sl \in Taking |-> ToSystem(sl).out]
MessagesLoop == [sl \in Taking |-> ToAnthropic(sl).out]
Both(h) == AnthropicAtoms(Hom(SystemLoop, h)) \o AnthropicAtoms(Hom(MessagesLoop, h))

\* The atoms of no message and of two sequences.
LEMMA AnthropicFacts ==
    /\ AnthropicAtoms(<<>>) = <<>>
    /\ \A s \in Seq(BlockMessages) : AnthropicAtoms(s) \in Seq(Atoms)
    /\ \A s, t \in Seq(BlockMessages) : AnthropicAtoms(s \o t) = AnthropicAtoms(s) \o AnthropicAtoms(t)
<1>1. Loop(AnthropicLoop, BlockMessages, Atoms)
  BY AnthropicLoopType
<1>2. \A s \in Seq(BlockMessages) : AnthropicAtoms(s) = Hom(AnthropicLoop, s)
  BY AnthropicAtomsIs
<1>3. AnthropicAtoms(<<>>) = <<>>
  BY <1>2, HomEmpty, EmptySeq
<1>4. \A s \in Seq(BlockMessages) : AnthropicAtoms(s) \in Seq(Atoms)
  BY <1>1, <1>2, HomType
<1>5. ASSUME NEW s \in Seq(BlockMessages), NEW t \in Seq(BlockMessages)
      PROVE  AnthropicAtoms(s \o t) = AnthropicAtoms(s) \o AnthropicAtoms(t)
  <2>1. Hom(AnthropicLoop, s \o t) = Hom(AnthropicLoop, s) \o Hom(AnthropicLoop, t)
    BY <1>1, HomConcat
  <2> QED
    BY <1>2, <2>1, ConcatProperties
<1> QED
  BY <1>3, <1>4, <1>5

\* A history without its last slice is one; if there is one before it, the
\* last slice is no system message.
LEMMA HistoryFront ==
    ASSUME NEW X, X \subseteq Slices, NEW h \in Seq(X), NEW sl \in X, Append(h, sl) \in Histories
    PROVE  h \in Histories /\ (h = <<>> \/ sl \in Later)
<1> DEFINE n == Len(h)
           t == Append(h, sl)
<1>1. n \in Nat /\ Len(t) = n + 1 /\ t[n + 1] = sl /\ \A i \in 1..n : t[i] = h[i]
  BY LenProperties, AppendProperties
<1>2. h \in Seq(Slices)
  BY SeqMonotonic
<1>3. h # <<>> => n # 0
  BY EmptySeq
<1>4. \A i \in 2..Len(t) : t[i] \in Later
  BY DEF Histories
<1> HIDE DEF n, t
<1>5. \A i \in 2..n : i \in 1..n /\ i \in 2..(n + 1)
  BY <1>1
<1>6. \A i \in 2..n : h[i] \in Later
  BY <1>1, <1>4, <1>5
<1>7. h \in Histories
  BY <1>2, <1>6 DEF Histories, n
<1>8. n # 0 => n + 1 \in 2..(n + 1)
  BY <1>1
<1> QED
  BY <1>1, <1>3, <1>4, <1>7, <1>8

\* The system prompt and the messages are all of the history, in its order:
\* what is put first has been said first.
LEMMA BothKeep == \A h \in Seq(Taking) : h \in Histories => Both(h) = Hom(SliceLoop, h)
<1> DEFINE G == {h \in Seq(Taking) : h \in Histories => Both(h) = Hom(SliceLoop, h)}
           Sys(h) == AnthropicAtoms(Hom(SystemLoop, h))
           Msg(h) == AnthropicAtoms(Hom(MessagesLoop, h))
<1>1. Loop(SystemLoop, Taking, BlockMessages) /\ Loop(MessagesLoop, Taking, BlockMessages)
  BY SliceToAnthropic DEF Loop, SystemLoop, MessagesLoop
<1>2. \A u \in Seq(Atoms) : u \o <<>> = u /\ <<>> \o u = u
  BY ConcatEmptySeq
<1>3. <<>> \in G
  <2>1. Sys(<<>>) = <<>> /\ Msg(<<>>) = <<>> /\ Hom(SliceLoop, <<>>) = <<>> /\ <<>> \in Seq(Taking)
    BY HomEmpty, AnthropicFacts, EmptySeq
  <2>2. <<>> \o <<>> = <<>>
    BY <1>2, EmptySeq
  <2> QED
    BY <2>1, <2>2 DEF Both
<1>4. ASSUME NEW h \in Seq(Taking), NEW sl \in Taking, h \in G PROVE Append(h, sl) \in G
  <2>1. Append(h, sl) \in Seq(Taking)
    BY AppendProperties
  <2> SUFFICES ASSUME Append(h, sl) \in Histories PROVE Both(Append(h, sl)) = Hom(SliceLoop, Append(h, sl))
    BY <2>1
  <2>2. Taking \subseteq Slices /\ sl \in Slices
    BY DEF Taking
  <2>3. h \in Histories /\ (h = <<>> \/ sl \in Later)
    BY <2>2, HistoryFront
  <2>4. Sys(h) \o Msg(h) = Hom(SliceLoop, h)
    BY <1>4, <2>3 DEF Both
  <2> DEFINE y == AnthropicAtoms(ToSystem(sl).out)
             m == AnthropicAtoms(ToAnthropic(sl).out)
  <2>5. Sys(Append(h, sl)) = Sys(h) \o y /\ Sys(h) \in Seq(Atoms) /\ y \in Seq(Atoms)
    <3>1. Hom(SystemLoop, Append(h, sl)) = Hom(SystemLoop, h) \o SystemLoop[sl]
          /\ Hom(SystemLoop, h) \in Seq(BlockMessages)
      BY <1>1, HomAppend, HomType
    <3>2. SystemLoop[sl] = ToSystem(sl).out /\ ToSystem(sl).out \in Seq(BlockMessages)
      BY SliceToAnthropic DEF SystemLoop
    <3> QED
      BY <3>1, <3>2, AnthropicFacts
  <2>6. Msg(Append(h, sl)) = Msg(h) \o m /\ Msg(h) \in Seq(Atoms) /\ m \in Seq(Atoms)
    <3>1. Hom(MessagesLoop, Append(h, sl)) = Hom(MessagesLoop, h) \o MessagesLoop[sl]
          /\ Hom(MessagesLoop, h) \in Seq(BlockMessages)
      BY <1>1, HomAppend, HomType
    <3>2. MessagesLoop[sl] = ToAnthropic(sl).out /\ ToAnthropic(sl).out \in Seq(BlockMessages)
      BY SliceToAnthropic DEF MessagesLoop
    <3> QED
      BY <3>1, <3>2, AnthropicFacts
  <2>7. Hom(SliceLoop, Append(h, sl)) = Hom(SliceLoop, h) \o AtomsIn(sl)
    <3>1. h \in Seq(Slices)
      BY <2>2, SeqMonotonic
    <3>2. Hom(SliceLoop, Append(h, sl)) = Hom(SliceLoop, h) \o SliceLoop[sl]
      BY <2>2, <3>1, SliceLoopType, HomAppend
    <3> QED
      BY <2>2, <3>2, SliceLoopType
  <2>8. \A u, v, w \in Seq(Atoms) : (u \o v) \o w = u \o (v \o w)
    BY ConcatAssociative
  <2>9. sl \in Later => y = <<>> /\ m = AtomsIn(sl)
    BY SliceToAnthropic, AnthropicFacts
  <2>10. sl \in SystemSlices => y = AtomsIn(sl) /\ m = <<>>
    BY SliceToAnthropic, AnthropicFacts
  <2>11. h = <<>> => Sys(h) = <<>> /\ Msg(h) = <<>> /\ Hom(SliceLoop, h) = <<>>
    BY HomEmpty, AnthropicFacts
  <2> HIDE DEF Sys, Msg, y, m
  <2>12. CASE sl \in Later
    <3>1. Sys(Append(h, sl)) = Sys(h) /\ Msg(Append(h, sl)) = Msg(h) \o AtomsIn(sl) /\ AtomsIn(sl) \in Seq(Atoms)
      BY <1>2, <2>5, <2>6, <2>9, <2>12
    <3>2. Sys(h) \o (Msg(h) \o AtomsIn(sl)) = Hom(SliceLoop, h) \o AtomsIn(sl)
      <4>1. Sys(h) \in Seq(Atoms) /\ Msg(h) \in Seq(Atoms) /\ AtomsIn(sl) \in Seq(Atoms)
        BY <2>5, <2>6, <3>1
      <4>2. (Sys(h) \o Msg(h)) \o AtomsIn(sl) = Sys(h) \o (Msg(h) \o AtomsIn(sl))
        BY <2>8, <4>1, Zenon
      <4> QED
        BY <2>4, <4>2, Zenon
    <3>3. Both(Append(h, sl)) = Sys(Append(h, sl)) \o Msg(Append(h, sl))
      BY DEF Both, Sys, Msg
    <3> QED
      BY <2>7, <3>1, <3>2, <3>3
  <2>13. CASE sl \in SystemSlices /\ h = <<>>
    <3>1. Sys(Append(h, sl)) = AtomsIn(sl) /\ Msg(Append(h, sl)) = <<>> /\ AtomsIn(sl) \in Seq(Atoms)
      BY <1>2, <2>5, <2>6, <2>10, <2>11, <2>13
    <3>2. Hom(SliceLoop, Append(h, sl)) = AtomsIn(sl)
      BY <1>2, <2>7, <2>11, <2>13, <3>1
    <3> QED
      BY <1>2, <3>1, <3>2 DEF Both, Sys, Msg
  <2> QED
    BY <2>2, <2>3, <2>12, <2>13 DEF Slices
<1>5. Seq(Taking) \subseteq G
  <2> HIDE DEF G
  <2> QED
    BY <1>3, <1>4, SeqInduct
<1> QED
  BY <1>5

\* The request of the anthropic API says what the history says, unless it has
\* an image of a type that is not supported: then errors are ignored, and the
\* slice is left out (query, client/anthropic.py:169-227).
LEMMA AnthropicRequestKeeps ==
    ASSUME NEW h \in Histories, Svg \notin ToSet(Hom(SliceLoop, h)), AnthropicRequest(h).error = "none"
    PROVE  AnthropicRequest(h).out = Hom(SliceLoop, h) /\ Hom(SliceLoop, h) \in Seq(Atoms)
<1>1. h \in Seq(Slices) /\ Hom(SliceLoop, h) \in Seq(Atoms)
  BY HistoryFacts
<1>2. DOMAIN h = 1..Len(h) /\ (\A i \in 1..Len(h) : h[i] \in Slices) /\ ToSet(h) = {h[i] : i \in 1..Len(h)}
  BY <1>1, LenProperties, ElementOfSeq, ToSetIs
<1> DEFINE eachS == [i \in DOMAIN h |-> ToSystem(h[i])]
           errorsS == {eachS[i].error : i \in DOMAIN eachS}
           outsS == [i \in DOMAIN eachS |-> eachS[i].out]
           system == ConvertAll(h, ToSystem, TRUE)
           eachM == [i \in DOMAIN h |-> ToAnthropic(h[i])]
           errorsM == {eachM[i].error : i \in DOMAIN eachM}
           outsM == [i \in DOMAIN eachM |-> eachM[i].out]
           messages == ConvertAll(h, ToAnthropic, TRUE)
<1>3. system = CASE "unimplemented" \in errorsS -> NotImplemented
                 [] "conversion" \in errorsS /\ ~TRUE -> ConversionError
                 [] OTHER -> Converted(FlattenSeq(outsS))
  BY DEF ConvertAll
<1>4. messages = CASE "unimplemented" \in errorsM -> NotImplemented
                   [] "conversion" \in errorsM /\ ~TRUE -> ConversionError
                   [] OTHER -> Converted(FlattenSeq(outsM))
  BY DEF ConvertAll
<1>5. AnthropicRequest(h) = CASE system.error # "none" -> system
                              [] messages.error # "none" -> messages
                              [] OTHER -> Converted(AnthropicAtoms(system.out \o messages.out))
  BY DEF AnthropicRequest
<1> HIDE DEF system, messages
<1>6. system.error = "none" /\ messages.error = "none"
      /\ AnthropicRequest(h) = Converted(AnthropicAtoms(system.out \o messages.out))
  <2> DEFINE r == AnthropicRequest(h)
             last == Converted(AnthropicAtoms(system.out \o messages.out))
  <2>1. r = CASE system.error # "none" -> system [] messages.error # "none" -> messages [] OTHER -> last
    BY <1>5
  <2>2. r.error = "none"
    OBVIOUS
  <2> HIDE DEF r, last
  <2>3. system.error = "none"
    BY <2>1, <2>2
  <2>4. messages.error = "none"
    BY <2>1, <2>2, <2>3
  <2> QED
    BY <2>1, <2>3, <2>4 DEF r, last
<1>7. "unimplemented" \notin errorsS /\ system.out = FlattenSeq(outsS)
  <2> HIDE DEF errorsS, outsS
  <2>1. "unimplemented" \notin errorsS
    BY <1>3, <1>6 DEF NotImplemented
  <2> QED
    BY <1>3, <2>1 DEF Converted
<1>8. messages.out = FlattenSeq(outsM)
  <2> HIDE DEF errorsM, outsM
  <2>1. "unimplemented" \notin errorsM
    BY <1>4, <1>6 DEF NotImplemented
  <2> QED
    BY <1>4, <2>1 DEF Converted
<1>9. \A sl \in ToSet(h) : sl.format # "responses"
  <2>1. \A sl \in ToSet(h) : ToSystem(sl).error # "unimplemented"
    BY <1>2, <1>7
  <2> QED
    BY <2>1 DEF ToSystem, NotImplemented
<1>10. \A sl \in ToSet(h) : Svg \notin ToSet(AtomsIn(sl))
  <2>1. \A u \in Seq(Slices) : \A x \in ToSet(u) : ToSet(SliceLoop[x]) \subseteq ToSet(Hom(SliceLoop, u))
    BY SliceLoopType, HomMembers
  <2>2. \A sl \in ToSet(h) : sl \in Slices /\ SliceLoop[sl] = AtomsIn(sl)
    BY <1>2, SliceLoopType
  <2> QED
    BY <1>1, <2>1, <2>2
<1>11. h \in Seq(Taking)
  <2>1. ToSet(h) \subseteq Taking
    BY <1>2, <1>9, <1>10 DEF Taking
  <2> QED
    BY <1>1, <2>1, SeqOfMembers
<1>12. \A i \in 1..Len(h) : h[i] \in Taking
  BY <1>11, ElementOfSeq
<1>13. outsS = Map(SystemLoop, h) /\ outsM = Map(MessagesLoop, h)
  BY <1>2, <1>12 DEF Map, SystemLoop, MessagesLoop
<1>14. system.out = Hom(SystemLoop, h) /\ messages.out = Hom(MessagesLoop, h)
  BY <1>7, <1>8, <1>13 DEF Hom
<1>15. Loop(SystemLoop, Taking, BlockMessages) /\ Loop(MessagesLoop, Taking, BlockMessages)
  BY SliceToAnthropic DEF Loop, SystemLoop, MessagesLoop
<1>16. Hom(SystemLoop, h) \in Seq(BlockMessages) /\ Hom(MessagesLoop, h) \in Seq(BlockMessages)
  BY <1>11, <1>15, HomType
<1>17. AnthropicAtoms(Hom(SystemLoop, h) \o Hom(MessagesLoop, h)) = Both(h)
  BY <1>16, AnthropicFacts DEF Both
<1>18. AnthropicRequest(h).out = AnthropicAtoms(system.out \o messages.out)
  BY <1>6 DEF Converted
<1> QED
  BY <1>1, <1>11, <1>14, <1>17, <1>18, BothKeep

\* What Request asks of a history.
RequestOn(api, h) ==
    CASE api = "chat" -> ChatRequest(h)
      [] api = "responses" -> ResponsesRequest(h)
      [] api = "anthropic" -> AnthropicRequest(h)

\* The request of each API says all that the history says.
LEMMA RequestKeeps ==
    ASSUME NEW h \in Histories, NEW api \in Apis, RequestOn(api, h).error = "none",
           ~(api = "anthropic" /\ Svg \in ToSet(Hom(SliceLoop, h)))
    PROVE  /\ RequestOn(api, h).out \in Seq(Atoms)
           /\ \A S : Sorted(S) /\ (CallAtoms \cap S = {} \/ api # "chat" \/ \A sl \in ToSet(h) : ~CallsAround(sl)) =>
                Only(S, RequestOn(api, h).out) = Only(S, Hom(SliceLoop, h))
<1>1. h \in Seq(Slices)
  BY HistoryFacts
<1>2. CASE api = "chat"
  <2>1. RequestOn(api, h) = ChatRequest(h)
    BY <1>2 DEF RequestOn
  <2> QED
    BY <1>1, <1>2, <2>1, ChatRequestKeeps
<1>3. CASE api = "responses"
  <2>1. RequestOn(api, h) = ResponsesRequest(h)
    BY <1>3 DEF RequestOn
  <2> QED
    BY <1>1, <2>1, ResponsesRequestKeeps
<1>4. CASE api = "anthropic"
  <2>1. RequestOn(api, h) = AnthropicRequest(h)
    BY <1>4 DEF RequestOn
  <2> QED
    BY <1>4, <2>1, AnthropicRequestKeeps
<1> QED
  BY <1>2, <1>3, <1>4 DEF Apis

-----------------------------------------------------------------------------
(* The formats of the slices, and that each client can convert them.       *)

\* The slices in formats F, and the state of the loop in _set_messages in
\* these formats.
InFormats(F) == {sl \in Slices : sl.format \in F}
FormedGroups(acc, F) ==
    /\ acc.history \in Seq(InFormats(F)) /\ acc.current \in Seq(OfRole("user"))
    /\ acc = [history |-> acc.history, current |-> acc.current]

\* Messages are put in slices of the format of chat completions.
LEMMA ChatSlice ==
    ASSUME NEW F, "chat" \in F
    PROVE  /\ \A r \in {"user", "assistant", "tool"} : \A s \in Seq(OfRole(r)) : Slice("chat", s) \in InFormats(F)
           /\ \A m \in OfRole("system") : Slice("chat", <<m>>) \in InFormats(F)
<1>1. \A b : Slice("chat", b).format = "chat"
  BY DEF Slice
<1> QED
  BY <1>1, GroupSlice DEF InFormats, Slices

\* One message more.
LEMMA PlaceFormed ==
    ASSUME NEW F, "chat" \in F, NEW acc, FormedGroups(acc, F), NEW m \in Messages
    PROVE  FormedGroups(Place(acc, m), F) /\ Flush(acc) \in Seq(InFormats(F))
<1>1. acc.history \in Seq(InFormats(F)) /\ acc.current \in Seq(OfRole("user"))
      /\ acc = [history |-> acc.history, current |-> acc.current]
  BY DEF FormedGroups
<1>2. Flush(acc) \in Seq(InFormats(F))
  BY <1>1, ChatSlice, AppendProperties DEF Flush
<1>3. <<>> \in Seq(OfRole("user"))
  BY EmptySeq
<1>4. m \in OfRole(m.role) /\ <<m>> \in Seq(OfRole(m.role)) /\ m.role \in Roles
  BY MessagesAre DEF OfRole
<1>5. CASE m.role = "system"
  <2>1. Slice("chat", <<m>>) \in InFormats(F)
    BY <1>4, <1>5, ChatSlice
  <2>2. <<Slice("chat", <<m>>)>> \in Seq(InFormats(F))
    BY <2>1
  <2>3. Place(acc, m) = [history |-> <<Slice("chat", <<m>>)>>, current |-> <<>>]
    BY <1>5 DEF Place
  <2> QED
    BY <1>2, <1>3, <2>2, <2>3 DEF FormedGroups
<1>6. CASE m.role \in {"assistant", "tool"}
  <2>1. Slice("chat", <<m>>) \in InFormats(F)
    BY <1>4, <1>6, ChatSlice
  <2>2. Append(Flush(acc), Slice("chat", <<m>>)) \in Seq(InFormats(F))
    BY <1>2, <2>1, AppendProperties
  <2>3. Place(acc, m) = [history |-> Append(Flush(acc), Slice("chat", <<m>>)), current |-> <<>>]
    BY <1>6 DEF Place
  <2> QED
    BY <1>2, <1>3, <2>2, <2>3 DEF FormedGroups
<1>7. CASE m.role = "user"
  <2>1. Append(acc.current, m) \in Seq(OfRole("user"))
    BY <1>1, <1>4, <1>7, AppendProperties
  <2>2. Place(acc, m) = [history |-> acc.history, current |-> Append(acc.current, m)]
    BY <1>1, <1>7 DEF Place
  <2> QED
    BY <1>1, <1>2, <2>1, <2>2 DEF FormedGroups
<1> QED
  BY <1>4, <1>5, <1>6, <1>7 DEF Roles

\* _set_messages adds no slice in another format.
LEMMA SetMessagesFormats ==
    ASSUME NEW F, "chat" \in F, NEW before \in Seq(InFormats(F)), NEW messages \in Seq(Messages)
    PROVE  SetMessages(before, messages) \in Seq(InFormats(F))
<1> DEFINE base == [history |-> before, current |-> <<>>]
           L(s) == FoldLeft(Place, base, s)
           G == {s \in Seq(Messages) : FormedGroups(L(s), F) /\ Flush(L(s)) \in Seq(InFormats(F))}
<1>1. FormedGroups(base, F) /\ Flush(base) \in Seq(InFormats(F))
  <2>1. <<>> \in Seq(OfRole("user"))
    BY EmptySeq
  <2> QED
    BY <2>1 DEF FormedGroups, Flush
<1>2. L(<<>>) = base /\ \A s \in Seq(Messages), m \in Messages : L(Append(s, m)) = Place(L(s), m)
  <2>1. /\ FoldLeft(Place, base, <<>>) = base
        /\ \A X : \A s \in Seq(X), x \in X :
             FoldLeft(Place, base, Append(s, x)) = Place(FoldLeft(Place, base, s), x)
    BY ONLY PlaceFold, Zenon
  <2> QED
    BY ONLY <2>1, Zenon
<1>3. SetMessages(before, messages) = Flush(L(messages))
  BY DEF SetMessages
<1> HIDE DEF L, base
<1>4. <<>> \in G
  BY <1>1, <1>2, EmptySeq
<1>5. ASSUME NEW s \in Seq(Messages), NEW m \in Messages, s \in G PROVE Append(s, m) \in G
  <2>1. FormedGroups(Place(L(s), m), F)
    BY <1>5, PlaceFormed
  <2>2. Flush(Place(L(s), m)) \in Seq(InFormats(F))
    BY <2>1, PlaceFormed
  <2> QED
    BY <1>2, <2>1, <2>2, AppendProperties
<1>6. Seq(Messages) \subseteq G
  <2> HIDE DEF G
  <2> QED
    BY <1>4, <1>5, SeqInduct
<1> QED
  BY <1>3, <1>6

\* Without an answer of the anthropic API, the request of the Responses API
\* is no error.
LEMMA ResponsesCanAsk ==
    ASSUME NEW h \in Seq(Slices), \A sl \in ToSet(h) : sl.format # "anthropic"
    PROVE  ResponsesRequest(h).error = "none"
<1>1. DOMAIN h = 1..Len(h) /\ (\A i \in 1..Len(h) : h[i] \in Slices) /\ ToSet(h) = {h[i] : i \in 1..Len(h)}
  BY LenProperties, ElementOfSeq, ToSetIs
<1> DEFINE each == [i \in DOMAIN h |-> ToResponses(h[i])]
           errors == {each[i].error : i \in DOMAIN each}
           outs == [i \in DOMAIN each |-> each[i].out]
           c == ConvertAll(h, ToResponses, FALSE)
<1>2. c = CASE "unimplemented" \in errors -> NotImplemented
            [] "conversion" \in errors /\ ~FALSE -> ConversionError
            [] OTHER -> Converted(FlattenSeq(outs))
  BY DEF ConvertAll
<1>3. "unimplemented" \notin errors /\ "conversion" \notin errors
  BY <1>1, SliceToResponses
<1>4. c = Converted(FlattenSeq(outs))
  <2> HIDE DEF c, errors, outs
  <2> QED
    BY <1>2, <1>3
<1>5. ResponsesRequest(h) = [c EXCEPT !.out = ResponsesAtoms(@)]
  BY DEF ResponsesRequest
<1> HIDE DEF c, outs
<1> QED
  BY <1>4, <1>5 DEF Converted

\* Without an answer of the Responses API, the request of the anthropic API
\* is no error: what cannot be converted is left out.
LEMMA AnthropicCanAsk ==
    ASSUME NEW h \in Seq(Slices), \A sl \in ToSet(h) : sl.format # "responses"
    PROVE  AnthropicRequest(h).error = "none"
<1>1. DOMAIN h = 1..Len(h) /\ (\A i \in 1..Len(h) : h[i] \in Slices) /\ ToSet(h) = {h[i] : i \in 1..Len(h)}
  BY LenProperties, ElementOfSeq, ToSetIs
<1>2. \A sl \in ToSet(h) : ToSystem(sl).error # "unimplemented" /\ ToAnthropic(sl).error # "unimplemented"
  <2>1. \A b : ChatToSystem(b).error # "unimplemented" /\ ChatToAnthropic(b).error # "unimplemented"
    BY DEF ChatToSystem, ChatToAnthropic, Converted, ConversionError
  <2>2. \A sl \in ToSet(h) : sl.format \in {"chat", "anthropic"}
    BY <1>1, PlainAre DEF Slices, Later
  <2> QED
    BY <2>1, <2>2 DEF ToSystem, ToAnthropic, Converted, ConversionError
<1> DEFINE eachS == [i \in DOMAIN h |-> ToSystem(h[i])]
           errorsS == {eachS[i].error : i \in DOMAIN eachS}
           outsS == [i \in DOMAIN eachS |-> eachS[i].out]
           system == ConvertAll(h, ToSystem, TRUE)
           eachM == [i \in DOMAIN h |-> ToAnthropic(h[i])]
           errorsM == {eachM[i].error : i \in DOMAIN eachM}
           outsM == [i \in DOMAIN eachM |-> eachM[i].out]
           messages == ConvertAll(h, ToAnthropic, TRUE)
<1>3. system = CASE "unimplemented" \in errorsS -> NotImplemented
                 [] "conversion" \in errorsS /\ ~TRUE -> ConversionError
                 [] OTHER -> Converted(FlattenSeq(outsS))
  BY DEF ConvertAll
<1>4. messages = CASE "unimplemented" \in errorsM -> NotImplemented
                   [] "conversion" \in errorsM /\ ~TRUE -> ConversionError
                   [] OTHER -> Converted(FlattenSeq(outsM))
  BY DEF ConvertAll
<1>5. "unimplemented" \notin errorsS /\ "unimplemented" \notin errorsM
  BY <1>1, <1>2
<1>6. AnthropicRequest(h) = CASE system.error # "none" -> system
                              [] messages.error # "none" -> messages
                              [] OTHER -> Converted(AnthropicAtoms(system.out \o messages.out))
  BY DEF AnthropicRequest
<1> HIDE DEF system, messages, errorsS, errorsM, outsS, outsM
<1>7. system.error = "none" /\ messages.error = "none"
  BY <1>3, <1>4, <1>5 DEF Converted
<1> QED
  BY <1>6, <1>7 DEF Converted

-----------------------------------------------------------------------------
(* The inductive invariant.                                                *)

\* The history is one, in formats of this run's clients (or of chat
\* completions: the environment speaks it, and a client may fall back to it).
HistoryWellFormed == history \in Histories /\ history \in Seq(InFormats({"chat"} \cup clients))
\* The history says what has been said.
HistoryIsLog == log = Hom(SliceLoop, history)
\* After a query, what has been said is what the model was asked, and its
\* answer.
AnswerIsLast ==
    pc = "send" => /\ answer \in Later /\ request.asked \in Seq(Atoms)
                   /\ log = request.asked \o AtomsIn(answer)

\* The inductive invariant, with the three properties of steps.
IInv ==
    /\ clients \subseteq Apis
    /\ HistoryWellFormed /\ HistoryIsLog /\ AnswerIsLast
    /\ RequestFaithful /\ NewestImagesKept /\ CallsReachEnvironment

\* An answer makes a slice that can come later.
LEMMA AnswerSlice ==
    ASSUME NEW api \in Apis, NEW body \in Outputs[api]
    PROVE  Slice(api, body) \in Later
<1>1. CASE api = "chat"
  <2>1. Outputs["chat"] \subseteq Seq(OfRole("assistant"))
    BY ConversationAssumption DEF OfRole
  <2> QED
    BY <1>1, <2>1, GroupSlice
<1>2. CASE api = "responses"
  <2>1. body \in Seq(AnswerItems)
    BY <1>2, ConversationAssumption
  <2> QED
    BY <1>2, <2>1 DEF Slice, Later, AnswerSlices
<1>3. CASE api = "anthropic"
  <2>1. body \in AnswerMessages
    BY <1>3, ConversationAssumption DEF AnswerMessages
  <2> QED
    BY <1>3, <2>1 DEF Slice, Later, AnswerSlices
<1> QED
  BY <1>1, <1>2, <1>3 DEF Apis

\* The API that a client uses is its own or chat completions.
LEMMA ApiIs ==
    ASSUME clients \subseteq Apis, NEW client \in clients
    PROVE  Api(client) \in Apis /\ Api(client) \in {"chat"} \cup clients
  BY DEF Api, Apis

\* The first sample begins with nothing said.
LEMMA InitInv == Init => IInv
<1> SUFFICES ASSUME Init PROVE IInv
  OBVIOUS
<1>1. clients \subseteq Apis
  BY ConversationAssumption DEF Init
<1>2. HistoryWellFormed /\ HistoryIsLog
  BY HistoryFacts, EmptySeq DEF Init, HistoryWellFormed, HistoryIsLog
<1>3. AnswerIsLast /\ RequestFaithful /\ NewestImagesKept /\ CallsReachEnvironment
  BY DEF Init, AnswerIsLast, RequestFaithful, NewestImagesKept, CallsReachEnvironment
<1> QED
  BY <1>1, <1>2, <1>3 DEF IInv

\* The images of what TrimImages leaves, in the form of the property.
LEMMA NewestIs ==
    ASSUME NEW all, NEW max
    PROVE  Newest(all, max) = SubSeq(all, Len(all) - (IF Len(all) < max THEN Len(all) ELSE max) + 1, Len(all))
  BY DEF Newest

\* The environment responds: its messages are grouped.
LEMMA RespondsKeeps ==
    ASSUME IInv, NEW messages \in Seq(Messages), NEW finish \in BOOLEAN, EnvironmentResponds(messages, finish)
    PROVE  IInv'
<1>1. /\ history' = SetMessages(history, messages) /\ log' = Said(log, messages)
      /\ pc' \in {"done", "model"} /\ clients' = clients
  BY DEF EnvironmentResponds
<1>2. history \in Histories /\ history \in Seq(InFormats({"chat"} \cup clients)) /\ log = Hom(SliceLoop, history)
      /\ clients \subseteq Apis
  BY DEF IInv, HistoryWellFormed, HistoryIsLog
<1>3. history' \in Histories /\ Hom(SliceLoop, history') = log'
  BY <1>1, <1>2, SetMessagesKeeps
<1>4. history' \in Seq(InFormats({"chat"} \cup clients'))
  <2> DEFINE F == {"chat"} \cup clients
  <2>1. "chat" \in F /\ history \in Seq(InFormats(F))
    BY <1>2
  <2> HIDE DEF F
  <2>2. SetMessages(history, messages) \in Seq(InFormats(F))
    BY <2>1, SetMessagesFormats
  <2> QED
    BY <1>1, <2>2 DEF F
<1>5. AnswerIsLast' /\ RequestFaithful' /\ NewestImagesKept' /\ CallsReachEnvironment'
  BY <1>1 DEF AnswerIsLast, RequestFaithful, NewestImagesKept, CallsReachEnvironment
<1> QED
  BY <1>1, <1>2, <1>3, <1>4, <1>5 DEF IInv, HistoryWellFormed, HistoryIsLog

\* The model is asked, and answers: the request says what has been said.
LEMMA AnsweredKeeps ==
    ASSUME IInv, NEW client \in Apis, NEW body \in Outputs[Api(client)], QueryAnswered(client, body)
    PROVE  IInv'
<1> DEFINE api == Api(client)
           r == Request(api)
<1>1. /\ client \in clients /\ r.error = "none" /\ body \in Outputs[api]
      /\ request' = [api |-> api, asked |-> log, atoms |-> TrimImages(r.out, MaxImages)]
      /\ answer' = Slice(api, body) /\ history' = Append(history, answer')
      /\ log' = log \o AtomsIn(answer') /\ pc' = "send" /\ clients' = clients
  BY DEF QueryAnswered
<1>2. history \in Histories /\ history \in Seq(InFormats({"chat"} \cup clients)) /\ log = Hom(SliceLoop, history)
      /\ clients \subseteq Apis
  BY DEF IInv, HistoryWellFormed, HistoryIsLog
<1>3. api \in Apis /\ api \in {"chat"} \cup clients
  BY <1>1, <1>2, ApiIs
<1>4. answer' \in Later /\ answer'.format = api
  BY <1>1, <1>3, AnswerSlice DEF Slice
<1>5. history' \in Histories /\ log' = Hom(SliceLoop, history') /\ log \in Seq(Atoms)
  BY <1>1, <1>2, <1>4, HistoryFacts
<1>6. history' \in Seq(InFormats({"chat"} \cup clients'))
  <2>1. answer' \in InFormats({"chat"} \cup clients)
    BY <1>3, <1>4 DEF InFormats, Slices
  <2> QED
    BY <1>1, <1>2, <2>1, AppendProperties
<1>7. AnswerIsLast'
  <2>1. request'.asked = log
    BY <1>1
  <2> QED
    BY <1>1, <1>4, <1>5, <2>1 DEF AnswerIsLast
<1>8. CallsReachEnvironment'
  BY <1>1 DEF CallsReachEnvironment
<1>9. request'.asked = log /\ request'.api = api /\ request'.atoms = TrimImages(r.out, MaxImages)
  BY <1>1
<1>10. Unsupported' <=> api = "anthropic" /\ Svg \in ToSet(log)
  BY <1>9 DEF Unsupported, Svg
<1>11. ToSet(history) \subseteq ToSet(history')
  <2>1. history \in Seq(Slices) /\ answer' \in Slices
    BY <1>2, <1>4 DEF Histories, Slices
  <2>2. \A s \in Seq(Slices), x \in Slices : ToSet(Append(s, x)) = ToSet(s) \cup {x}
    BY ToSetSteps
  <2> QED
    BY <1>1, <2>1, <2>2
<1>12. ASSUME ~Unsupported'
       PROVE  /\ r.out \in Seq(Atoms)
              /\ \A S : Sorted(S) /\ (CallAtoms \cap S = {} \/ api # "chat"
                                \/ \A sl \in ToSet(history) : ~CallsAround(sl)) =>
                   Only(S, r.out) = Only(S, log)
  <2>1. r = RequestOn(api, history)
    BY DEF Request, RequestOn
  <2>2. ~(api = "anthropic" /\ Svg \in ToSet(Hom(SliceLoop, history)))
    BY <1>2, <1>10, <1>12
  <2>3. history \in Histories /\ api \in Apis
    BY <1>2, <1>3
  <2>4. log = Hom(SliceLoop, history)
    BY <1>2
  <2>5. r.error = "none"
    BY <1>1
  <2> HIDE DEF r, api
  <2>6. RequestOn(api, history).error = "none"
    BY <2>1, <2>5
  <2>7. /\ RequestOn(api, history).out \in Seq(Atoms)
        /\ \A S : Sorted(S) /\ (CallAtoms \cap S = {} \/ api # "chat"
                                \/ \A sl \in ToSet(history) : ~CallsAround(sl)) =>
             Only(S, RequestOn(api, history).out) = Only(S, Hom(SliceLoop, history))
    BY <2>2, <2>3, <2>6, RequestKeeps
  <2> QED
    BY <2>1, <2>4, <2>7
<1>13. MaxImages \in Nat
  BY ConversationAssumption
<1> HIDE DEF r, api
<1>14. RequestFaithful'
  <2> SUFFICES ASSUME ~Unsupported'
               PROVE  /\ Words(request'.atoms) = Words(request'.asked)
                      /\ \/ Actions(request'.atoms) = Actions(request'.asked)
                         \/ request'.api = "chat" /\ \E s \in ToSet(history') : CallsAround(s)
    BY DEF RequestFaithful
  <2>1. r.out \in Seq(Atoms)
    BY <1>12
  <2>2. CallAtoms \cap WordAtoms = {} /\ WordAtoms \cap ImageAtoms = {} /\ Sorted(WordAtoms)
    BY SortedSets DEF WordAtoms
  <2>3. Only(WordAtoms, TrimImages(r.out, MaxImages)) = Only(WordAtoms, r.out)
    BY <1>13, <2>1, <2>2, TrimTakesImages
  <2>4. Only(WordAtoms, r.out) = Only(WordAtoms, log)
    BY <1>12, <2>2
  <2>5. Words(request'.atoms) = Words(request'.asked)
    BY <1>9, <2>3, <2>4 DEF Words
  <2>6. ActionAtoms \cap ImageAtoms = {} /\ Sorted(ActionAtoms)
    <3>1. CallIds \cap Images = {}
      BY ConversationAssumption DEF Parts
    <3>2. ActionAtoms \cap ImageAtoms = {}
      BY <3>1 DEF ActionAtoms, ImageAtoms, CallAtoms
    <3> QED
      BY <3>2, SortedSets
  <2>7. Only(ActionAtoms, TrimImages(r.out, MaxImages)) = Only(ActionAtoms, r.out)
    BY <1>13, <2>1, <2>6, TrimTakesImages
  <2>8. CASE api # "chat" \/ \A sl \in ToSet(history) : ~CallsAround(sl)
    <3>1. Only(ActionAtoms, r.out) = Only(ActionAtoms, log)
      BY <1>12, <2>6, <2>8
    <3> QED
      BY <1>9, <2>5, <2>7, <3>1 DEF Actions
  <2>9. CASE api = "chat" /\ \E sl \in ToSet(history) : CallsAround(sl)
    BY <1>9, <1>11, <2>5, <2>9
  <2> QED
    BY <2>8, <2>9
<1>15. NewestImagesKept'
  <2> DEFINE all == Shown(log)
  <2>1. ASSUME ~Unsupported' PROVE Shown(request'.atoms) = Newest(all, MaxImages)
    <3>1. r.out \in Seq(Atoms)
      BY <1>12, <2>1
    <3>2. CallAtoms \cap ImageAtoms = {} /\ Sorted(ImageAtoms)
      <4>1. CallIds \cap Images = {}
        BY ConversationAssumption DEF Parts
      <4> QED
        BY <4>1, SortedSets DEF CallAtoms, ImageAtoms
    <3>3. Only(ImageAtoms, TrimImages(r.out, MaxImages)) = Newest(Only(ImageAtoms, r.out), MaxImages)
      BY <1>13, <3>1, TrimKeepsNewest
    <3>4. Only(ImageAtoms, r.out) = Only(ImageAtoms, log)
      BY <1>12, <2>1, <3>2
    <3> QED
      BY <1>9, <3>3, <3>4 DEF Shown
  <2>2. Shown(request'.asked) = all
    BY <1>9
  <2> HIDE DEF all
  <2>3. Newest(all, MaxImages)
          = SubSeq(all, Len(all) - (IF Len(all) < MaxImages THEN Len(all) ELSE MaxImages) + 1, Len(all))
    BY NewestIs
  <2> QED
    BY <2>1, <2>2, <2>3 DEF NewestImagesKept
<1> QED
  BY <1>1, <1>2, <1>5, <1>6, <1>7, <1>8, <1>14, <1>15 DEF IInv, HistoryWellFormed, HistoryIsLog

\* A query fails.
LEMMA FailKeeps ==
    ASSUME IInv, Fail
    PROVE  IInv'
<1>1. pc' = "error" /\ UNCHANGED <<clients, history, answer, sent, log, sample>>
  BY DEF Fail
<1>2. HistoryWellFormed' /\ HistoryIsLog' /\ clients' \subseteq Apis
  BY <1>1 DEF IInv, HistoryWellFormed, HistoryIsLog
<1>3. AnswerIsLast' /\ RequestFaithful' /\ NewestImagesKept' /\ CallsReachEnvironment'
  BY <1>1 DEF AnswerIsLast, RequestFaithful, NewestImagesKept, CallsReachEnvironment
<1> QED
  BY <1>2, <1>3 DEF IInv

\* The answer is sent to the environment: it is what has been said since the
\* query.
LEMMA InteractKeeps ==
    ASSUME IInv, Interact
    PROVE  IInv'
<1>1. /\ pc = "send" /\ sent' = ToChat(answer).out /\ pc' = "env"
      /\ UNCHANGED <<clients, fellBack, history, request, answer, log, turn, sample>>
  BY DEF Interact
<1>2. HistoryWellFormed' /\ HistoryIsLog' /\ clients' \subseteq Apis
  BY <1>1 DEF IInv, HistoryWellFormed, HistoryIsLog
<1>3. AnswerIsLast' /\ RequestFaithful' /\ NewestImagesKept'
  BY <1>1 DEF AnswerIsLast, RequestFaithful, NewestImagesKept
<1>4. answer \in Slices /\ request.asked \in Seq(Atoms) /\ log = request.asked \o AtomsIn(answer)
  BY <1>1 DEF IInv, AnswerIsLast, Slices
<1>5. AtomsIn(answer) \in Seq(Atoms)
  BY <1>4, SliceLoopType DEF Loop
<1>6. SubSeq(log, Len(request.asked) + 1, Len(log)) = AtomsIn(answer)
  <2> DEFINE u == request.asked
             v == AtomsIn(answer)
             w == SubSeq(log, Len(u) + 1, Len(log))
  <2>1. /\ Len(u) \in Nat /\ Len(v) \in Nat /\ log \in Seq(Atoms) /\ Len(log) = Len(u) + Len(v)
        /\ \A i \in 1..(Len(u) + Len(v)) : log[i] = IF i <= Len(u) THEN u[i] ELSE v[i - Len(u)]
    BY <1>4, <1>5, LenProperties, ConcatProperties
  <2>2. \A i \in (Len(u) + 1)..Len(log) : log[i] \in Atoms
    <3>1. \A i \in 1..Len(log) : log[i] \in Atoms
      BY <2>1, ElementOfSeq
    <3>2. \A i \in (Len(u) + 1)..Len(log) : i \in 1..Len(log)
      BY <2>1
    <3> QED
      BY <3>1, <3>2
  <2> HIDE DEF u, v
  <2>3. /\ w \in Seq(Atoms)
        /\ Len(w) = IF Len(u) + 1 <= Len(log) THEN Len(log) - (Len(u) + 1) + 1 ELSE 0
        /\ \A i \in 1..(Len(log) - (Len(u) + 1) + 1) : w[i] = log[(Len(u) + 1) + i - 1]
    BY <2>1, <2>2, SubSeqProperties
  <2> HIDE DEF w
  <2>4. Len(w) = Len(v)
    BY <2>1, <2>3
  <2>5. ASSUME NEW i \in 1..Len(v) PROVE w[i] = v[i]
    <3>1. /\ i \in 1..(Len(log) - (Len(u) + 1) + 1) /\ (Len(u) + 1) + i - 1 = Len(u) + i
          /\ Len(u) + i \in 1..(Len(u) + Len(v)) /\ ~(Len(u) + i <= Len(u)) /\ (Len(u) + i) - Len(u) = i
      BY <2>1
    <3>2. w[i] = log[Len(u) + i] /\ log[Len(u) + i] = v[(Len(u) + i) - Len(u)]
      BY <2>1, <2>3, <3>1
    <3> QED
      BY <3>1, <3>2
  <2>6. w = v
    BY <1>5, <2>3, <2>4, <2>5, SeqEqual DEF v
  <2> QED
    BY <2>6 DEF u, v, w
<1>7. ~CallsAround(answer) => Calls(ChatAtoms(ToChat(answer).out)) = Calls(AtomsIn(answer))
  BY <1>4, SliceToChat, SortedSets DEF Calls
<1>8. CallsReachEnvironment'
  <2>1. CallsAround(answer)' <=> CallsAround(answer)
    BY <1>1
  <2>2. SubSeq(log, Len(request.asked) + 1, Len(log))' = AtomsIn(answer) /\ sent' = ToChat(answer).out
    BY <1>1, <1>6
  <2> QED
    BY <1>7, <2>1, <2>2 DEF CallsReachEnvironment
<1> QED
  BY <1>2, <1>3, <1>8 DEF IInv

\* The next sample begins with nothing said.
LEMMA NextSampleKeeps ==
    ASSUME IInv, NextSample
    PROVE  IInv'
<1>1. pc' = "env" /\ history' = <<>> /\ log' = <<>> /\ sent' = <<>> /\ clients' = clients
  BY DEF NextSample
<1>2. clients' \subseteq Apis
  BY <1>1 DEF IInv
<1>3. HistoryWellFormed' /\ HistoryIsLog'
  BY <1>1, HistoryFacts, EmptySeq DEF HistoryWellFormed, HistoryIsLog
<1>4. AnswerIsLast' /\ RequestFaithful' /\ NewestImagesKept' /\ CallsReachEnvironment'
  BY <1>1 DEF AnswerIsLast, RequestFaithful, NewestImagesKept, CallsReachEnvironment
<1> QED
  BY <1>2, <1>3, <1>4 DEF IInv

\* Every step keeps the invariant.
LEMMA NextInv == IInv /\ [Next]_vars => IInv'
<1> SUFFICES ASSUME IInv, [Next]_vars PROVE IInv'
  OBVIOUS
<1>1. CASE \E messages \in Responses : EnvironmentResponds(messages, FALSE)
  <2>1. PICK messages \in Responses : EnvironmentResponds(messages, FALSE)
    BY <1>1
  <2>2. messages \in Seq(Messages)
    BY ConversationAssumption
  <2> QED
    BY <2>1, <2>2, RespondsKeeps
<1>2. CASE EnvironmentResponds(<<>>, TRUE)
  <2>1. <<>> \in Seq(Messages)
    BY EmptySeq
  <2> QED
    BY <1>2, <2>1, RespondsKeeps
<1>3. ASSUME NEW client \in Apis, NEW body \in Outputs[Api(client)], QueryAnswered(client, body) PROVE IInv'
  BY <1>3, AnsweredKeeps
<1>4. ASSUME NEW client \in Apis, QueryNotConverted(client) \/ QueryRejected(client) PROVE IInv'
  <2>1. Fail
    BY <1>4 DEF QueryNotConverted, QueryRejected
  <2> QED
    BY <2>1, FailKeeps
<1>5. CASE Interact
  BY <1>5, InteractKeeps
<1>6. CASE NextSample
  BY <1>6, NextSampleKeeps
<1>7. CASE UNCHANGED vars
  BY <1>7 DEF vars, IInv, HistoryWellFormed, HistoryIsLog, AnswerIsLast, RequestFaithful, NewestImagesKept,
              CallsReachEnvironment, Unsupported, CallsAround
<1> QED
  BY <1>1, <1>2, <1>3, <1>4, <1>5, <1>6, <1>7 DEF Next

\* The invariant holds.
LEMMA InvAlways == Spec => []IInv
<1>1. Init => IInv
  BY InitInv
<1>2. IInv /\ [Next]_vars => IInv'
  BY NextInv
<1> QED
  BY <1>1, <1>2, PTL DEF Spec

\* The model is asked about all that has been said since the last system
\* message: every text, call and result, in its order, but for the two losses
\* that RequestFaithful names (workflow.py:185-220,
\* convert/messages.py:63-515).
THEOREM RequestsAreFaithful == Spec => []RequestFaithful
<1>1. IInv => RequestFaithful
  BY DEF IInv
<1> QED
  BY <1>1, InvAlways, PTL

\* Of the images, a request holds the newest, as many as the limit allows
\* (trim_images, utils/messages.py:23-64).
THEOREM NewestImagesAreKept == Spec => []NewestImagesKept
<1>1. IInv => NewestImagesKept
  BY DEF IInv
<1> QED
  BY <1>1, InvAlways, PTL

\* The environment gets the calls of the answer, all and in their order, but
\* for calls around a message (workflow.py:156-164,
\* convert/messages.py:289-356).
THEOREM CallsAreSent == Spec => []CallsReachEnvironment
<1>1. IInv => CallsReachEnvironment
  BY DEF IInv
<1> QED
  BY <1>1, InvAlways, PTL

\* In formats of clients that do not mix, every slice can be converted.
LEMMA AllCanAsk == IInv => EveryClientCanAsk
<1> SUFFICES ASSUME IInv, ~({"responses", "anthropic"} \subseteq clients), NEW client \in clients
             PROVE  Request(Api(client)).error = "none"
  BY DEF EveryClientCanAsk
<1>1. history \in Seq(Slices) /\ clients \subseteq Apis
      /\ \A sl \in ToSet(history) : sl.format \in {"chat"} \cup clients
  <2>1. \A X : \A s \in Seq(X) : ToSet(s) \subseteq X
    BY ToSetIs
  <2>2. ToSet(history) \subseteq InFormats({"chat"} \cup clients)
    BY <2>1 DEF IInv, HistoryWellFormed
  <2> QED
    BY <2>2, HistoryFacts DEF IInv, HistoryWellFormed, InFormats
<1>2. CASE Api(client) = "chat"
  BY <1>1, <1>2, ChatRequestIs DEF Request
<1>3. CASE Api(client) = "responses"
  <2>1. client = "responses"
    BY <1>3 DEF Api
  <2>2. \A sl \in ToSet(history) : sl.format # "anthropic"
    BY <1>1, <2>1
  <2>3. ResponsesRequest(history).error = "none"
    BY <1>1, <2>2, ResponsesCanAsk
  <2> QED
    BY <1>3, <2>3 DEF Request
<1>4. CASE Api(client) = "anthropic"
  <2>1. client = "anthropic"
    BY <1>4 DEF Api
  <2>2. \A sl \in ToSet(history) : sl.format # "responses"
    BY <1>1, <2>1
  <2>3. AnthropicRequest(history).error = "none"
    BY <1>1, <2>2, AnthropicCanAsk
  <2> QED
    BY <1>4, <2>3 DEF Request
<1>5. Api(client) \in Apis
  BY <1>1, ApiIs
<1> QED
  BY <1>2, <1>3, <1>4, <1>5 DEF Apis

\* Whatever has been said, every client can be asked about it, unless clients
\* of the Responses and of the anthropic API take turns
\* (client/openai.py:125-174, client/anthropic.py:169-227,
\* convert/_base.py:39-60).
THEOREM EveryoneCanAsk == Spec => []EveryClientCanAsk
  BY AllCanAsk, InvAlways, PTL
=============================================================================
