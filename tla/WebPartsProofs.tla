--------------------------- MODULE WebPartsProofs ---------------------------
(***************************************************************************)
(* Parts of the web application and of the open package that share no      *)
(* state with the others: the rate limit of the waitlist, for any number   *)
(* of visitors, addresses, requests and restarts, any limit and any        *)
(* window, the tokenizer that runs in the browser, for any words and texts *)
(* of any length, the registry of detectors, for any detectors and         *)
(* payloads, and the dataset of a chat, for any tables.  What they need of *)
(* sequences comes first.                                                  *)
(***************************************************************************)
EXTENDS Waitlist, BrowserTokenizer, DetectorRegistry, CsvTable, SequenceTheorems,
        FiniteSetTheorems, WellFoundedInduction, TLAPS

(* Sequences.  What is made by recursion is shown to exist, and to have a  *)
(* property at every place, by the least place at which it would not: no   *)
(* induction theorem is instantiated.                                      *)

\* The well-ordering of the naturals, from the library's theorem on sets.
LEMMA LeastNumber ==
    ASSUME NEW T, T \subseteq Nat, T # {}
    PROVE  \E x \in T : \A y \in T : x <= y
<1> DEFINE R == OpToRel(<, Nat)
<1>1. IsWellFoundedOn(R, Nat)
    BY NatLessThanWellFounded
<1>2. \A x, y \in Nat : y < x => <<y, x>> \in R
    BY DEF OpToRel
<1> HIDE DEF R
<1>3. PICK x \in T : \A y \in T : ~ (<<y, x>> \in R)
    BY <1>1, WFMin
<1>4. ASSUME NEW y \in T PROVE x <= y
  <2>1. ~(y < x)
      BY <1>2, <1>3
  <2> QED
      BY <2>1
<1> QED
    BY <1>4

\* The first i pieces in one, given f before.
FlatAt(s, f, i) == IF i = 1 THEN s[i] ELSE f[i - 1] \o s[i]

Flattens(s, f, last) == f = [i \in 1..last |-> FlatAt(s, f, i)]

\* There is such a function for every sequence: built one piece at a time.
LEMMA FlattenExists ==
    ASSUME NEW s, NEW n \in Nat
    PROVE  \E f : Flattens(s, f, n)
<1> DEFINE Bad == {k \in 0..n : \A f : ~Flattens(s, f, k)}
<1>1. ASSUME NEW k \in 0..n, \A j \in 0..n : j < k => j \notin Bad
      PROVE  \E f : Flattens(s, f, k)
  <2>1. CASE k = 0
    <3> DEFINE f == [i \in 1..k |-> s]
    <3>1. \A i \in 1..k : s = FlatAt(s, f, i)
        BY <2>1
    <3>2. Flattens(s, f, k)
        BY <3>1 DEF Flattens
    <3> QED
        BY <3>2
  <2>2. CASE k # 0
    <3>1. PICK f : Flattens(s, f, k - 1)
        BY <1>1, <2>2
    <3> DEFINE g == [i \in 1..k |-> IF i = k THEN FlatAt(s, f, i) ELSE f[i]]
    <3>2. \A i \in 1..(k - 1) : g[i] = f[i] /\ f[i] = FlatAt(s, f, i)
        BY <3>1 DEF Flattens
    <3>3. \A i \in 1..k : i = 1 \/ g[i - 1] = f[i - 1]
        BY <3>2
    <3>4. ASSUME NEW i \in 1..k PROVE g[i] = FlatAt(s, f, i)
      <4>1. CASE i = k
          BY <4>1
      <4>2. CASE i # k
        <5>1. i \in 1..(k - 1)
            BY <4>2
        <5> HIDE DEF g
        <5> QED
            BY <3>2, <5>1
      <4> QED
          BY <4>1, <4>2
    <3>5. g = [i \in 1..k |-> g[i]]
        OBVIOUS
    <3> HIDE DEF g
    <3>6. \A i \in 1..k : FlatAt(s, f, i) = FlatAt(s, g, i)
        BY <3>3 DEF FlatAt
    <3>7. g = [i \in 1..k |-> FlatAt(s, g, i)]
        BY <3>4, <3>5, <3>6
    <3> QED
        BY <3>7 DEF Flattens
  <2> QED
      BY <2>1, <2>2
<1>2. Bad = {}
  <2> SUFFICES ASSUME Bad # {} PROVE FALSE
      OBVIOUS
  <2>1. Bad \subseteq Nat
      OBVIOUS
  <2> HIDE DEF Bad
  <2>2. PICK k \in Bad : \A j \in Bad : k <= j
      BY <2>1, LeastNumber
  <2>3. k \in 0..n /\ \A j \in 0..n : j < k => j \notin Bad
      BY <2>1, <2>2 DEF Bad
  <2>4. \E f : Flattens(s, f, k)
      BY <1>1, <2>3
  <2> QED
      BY <2>2, <2>4 DEF Bad
<1>3. n \in 0..n
    OBVIOUS
<1> QED
    BY <1>2, <1>3

\* FlattenSeq is the last value of that function.
LEMMA FlattenedBy ==
    ASSUME NEW s, Len(s) \in Nat, Len(s) # 0
    PROVE  \E f : /\ FlattenSeq(s) = f[Len(s)]
                  /\ \A i \in 1..Len(s) : f[i] = FlatAt(s, f, i)
<1> DEFINE g == CHOOSE f : Flattens(s, f, Len(s))
<1>1. Flattens(s, g, Len(s))
    BY FlattenExists
<1>2. FlattenSeq(s) = g[Len(s)]
    BY DEF FlattenSeq, Flattens, FlatAt
<1> HIDE DEF g
<1>3. \A i \in 1..Len(s) : g[i] = FlatAt(s, g, i)
    BY <1>1 DEF Flattens
<1> QED
    BY <1>2, <1>3

\* The first piece comes first, and the others after it.
LEMMA FlattenStep ==
    ASSUME NEW S, NEW a \in Seq(S), NEW s \in Seq(Seq(S))
    PROVE  /\ FlattenSeq(s) \in Seq(S)
           /\ FlattenSeq(<<a>> \o s) = a \o FlattenSeq(s)
<1> DEFINE n == Len(s)
           t == <<a>> \o s
<1>1. n \in Nat /\ \A i \in 1..n : s[i] \in Seq(S)
    OBVIOUS
<1>2. Len(t) = n + 1 /\ t[1] = a /\ \A i \in 1..n : t[i + 1] = s[i]
    OBVIOUS
<1> HIDE DEF t
<1>3. PICK g : FlattenSeq(t) = g[n + 1] /\ \A i \in 1..(n + 1) : g[i] = FlatAt(t, g, i)
  <2>1. Len(t) \in Nat /\ Len(t) # 0
      BY <1>1, <1>2
  <2> QED
      BY <1>2, <2>1, FlattenedBy
<1>4. g[1] = a
    BY <1>1, <1>2, <1>3 DEF FlatAt
<1>5. CASE n = 0
  <2>1. s = <<>> /\ FlattenSeq(s) = s
      BY <1>5 DEF FlattenSeq
  <2>2. FlattenSeq(t) = a
      BY <1>3, <1>4, <1>5
  <2>3. a \o <<>> = a
      BY ConcatEmptySeq
  <2>4. <<>> \in Seq(S) /\ FlattenSeq(s) = <<>>
      BY <2>1
  <2>5. FlattenSeq(t) = a \o FlattenSeq(s)
      BY <2>2, <2>3, <2>4
  <2> QED
      BY <2>4, <2>5 DEF t
<1>6. CASE n # 0
  <2>1. PICK f : FlattenSeq(s) = f[n] /\ \A i \in 1..n : f[i] = FlatAt(s, f, i)
      BY <1>1, <1>6, FlattenedBy
  <2> DEFINE Good(i) == f[i] \in Seq(S) /\ g[i + 1] = a \o f[i]
             Bad == {i \in 1..n : ~Good(i)}
  <2>2. Bad = {}
    <3> SUFFICES ASSUME Bad # {} PROVE FALSE
        OBVIOUS
    <3>1. Bad \subseteq Nat
        BY <1>1
    <3> HIDE DEF Bad
    <3>2. PICK i \in Bad : \A j \in Bad : i <= j
        BY <3>1, LeastNumber
    <3>3. i \in 1..n /\ ~Good(i)
        BY DEF Bad
    <3>4. g[i + 1] = g[i] \o s[i]
      <4> DEFINE j == i + 1
      <4>1. j \in 1..(n + 1) /\ j # 1 /\ j - 1 = i
          BY <1>1, <3>3
      <4> HIDE DEF j
      <4>2. g[j] = FlatAt(t, g, j)
          BY <1>3, <4>1
      <4>3. FlatAt(t, g, j) = g[j - 1] \o t[j]
          BY <4>1 DEF FlatAt
      <4>4. g[i + 1] = g[i] \o t[i + 1]
          BY <4>1, <4>2, <4>3 DEF j
      <4>5. t[i + 1] = s[i]
          BY <1>2, <3>3
      <4> QED
          BY <4>4, <4>5
    <3>5. CASE i = 1
      <4>1. f[i] = s[i]
          BY <2>1, <3>3, <3>5 DEF FlatAt
      <4> QED
          BY <1>1, <1>4, <3>3, <3>4, <3>5, <4>1
    <3>6. CASE i # 1
      <4>1. i - 1 \in 1..n /\ i - 1 \notin Bad /\ i - 1 + 1 = i
          BY <1>1, <3>1, <3>2, <3>3, <3>6
      <4>2. Good(i - 1)
          BY <4>1 DEF Bad
      <4>3. f[i] = f[i - 1] \o s[i]
          BY <2>1, <3>3, <3>6 DEF FlatAt
      <4> DEFINE u == f[i - 1]
                 w == s[i]
      <4>4. u \in Seq(S) /\ w \in Seq(S)
          BY <1>1, <3>3, <4>1, <4>2
      <4>5. f[i] = u \o w /\ g[i + 1] = (a \o u) \o w
          BY <3>4, <4>1, <4>2, <4>3
      <4> HIDE DEF u, w
      <4>6. (a \o u) \o w = a \o (u \o w)
          BY <4>4, ConcatAssociative, SMTT(20)
      <4>7. u \o w \in Seq(S)
          BY <4>4, ConcatProperties
      <4> QED
          BY <3>3, <4>5, <4>6, <4>7
    <3> QED
        BY <3>5, <3>6
  <2>3. n \in 1..n
      BY <1>1, <1>6
  <2> QED
      BY <1>3, <2>1, <2>2, <2>3 DEF t
<1> QED
    BY <1>5, <1>6


\* Pieces put together are of what each of them is of.
LEMMA FlattenType ==
    ASSUME NEW S, NEW s \in Seq(Seq(S))
    PROVE  FlattenSeq(s) \in Seq(S)
<1>1. <<>> \in Seq(S)
    OBVIOUS
<1> QED
    BY <1>1, FlattenStep

\* One piece is the whole.
LEMMA FlattenOne ==
    ASSUME NEW S, NEW a \in Seq(S)
    PROVE  FlattenSeq(<<a>>) = a
<1>1. /\ Len(<<a>>) \in Nat /\ Len(<<a>>) # 0 /\ Len(<<a>>) = 1
      /\ <<a>>[1] = a
    OBVIOUS
<1> DEFINE s == <<a>>
<1>2. Len(s) \in Nat /\ Len(s) # 0 /\ Len(s) = 1 /\ s[1] = a
    BY <1>1
<1> HIDE DEF s
<1>3. PICK f : /\ FlattenSeq(s) = f[Len(s)]
               /\ \A i \in 1..Len(s) : f[i] = FlatAt(s, f, i)
    BY <1>2, FlattenedBy
<1>4. 1 \in 1..Len(s)
    BY <1>2
<1>5. FlattenSeq(s) = a
    BY <1>2, <1>3, <1>4 DEF FlatAt
<1> QED
    BY <1>5 DEF s

\* Putting together goes piece by piece.
LEMMA FlattenConcat ==
    ASSUME NEW S, NEW s \in Seq(Seq(S)), NEW t \in Seq(Seq(S))
    PROVE  FlattenSeq(s \o t) = FlattenSeq(s) \o FlattenSeq(t)
<1> DEFINE Good(x) == FlattenSeq(x \o t) = FlattenSeq(x) \o FlattenSeq(t)
           Bad == {k \in Nat : \E x \in Seq(Seq(S)) : Len(x) = k /\ ~Good(x)}
<1>1. Bad = {}
  <2> SUFFICES ASSUME Bad # {} PROVE FALSE
      OBVIOUS
  <2>1. Bad \subseteq Nat
      OBVIOUS
  <2> HIDE DEF Bad
  <2>2. PICK k \in Bad : \A j \in Bad : k <= j
      BY <2>1, LeastNumber
  <2> HIDE DEF Good
  <2>3. PICK x \in Seq(Seq(S)) : Len(x) = k /\ ~Good(x)
      BY DEF Bad
  <2>4. FlattenSeq(t) \in Seq(S)
      BY FlattenType
  <2>5. CASE x = <<>>
    <3>1. FlattenSeq(<<>>) = <<>>
        BY DEF FlattenSeq
    <3>2. <<>> \o t = t /\ <<>> \o FlattenSeq(t) = FlattenSeq(t)
        BY <2>4
    <3> QED
        BY <2>3, <2>5, <3>1, <3>2 DEF Good
  <2>6. CASE x # <<>>
    <3> DEFINE h == Head(x)
               y == Tail(x)
    <3>1. h \in Seq(S) /\ y \in Seq(Seq(S)) /\ Len(y) = k - 1 /\ k - 1 \in Nat
          /\ x = <<h>> \o y
      <4>1. /\ x[1] \in Seq(S) /\ Head(x) = x[1]
            /\ y \in Seq(Seq(S)) /\ Len(y) = Len(x) - 1
            /\ \A i \in 1..Len(y) : y[i] = x[i + 1]
            /\ Len(x) \in Nat /\ Len(x) # 0
          BY <2>6
      <4> DEFINE z == <<h>> \o y
      <4>2. /\ z \in Seq(Seq(S)) /\ Len(z) = Len(y) + 1
            /\ z[1] = h /\ \A i \in 1..Len(y) : z[i + 1] = y[i]
          BY <4>1
      <4> HIDE DEF z, h, y
      <4>3. Len(z) = Len(x)
          BY <4>1, <4>2
      <4>4. ASSUME NEW i \in 1..Len(x) PROVE z[i] = x[i]
        <5>1. CASE i = 1
            BY <4>1, <4>2, <5>1 DEF h
        <5>2. CASE i # 1
          <6> DEFINE j == i - 1
          <6>1. j \in 1..Len(y) /\ j + 1 = i
              BY <4>1, <5>2
          <6> HIDE DEF j
          <6> QED
              BY <4>1, <4>2, <6>1
        <5> QED
            BY <5>1, <5>2
      <4>5. z = x
          BY <2>3, <4>2, <4>3, <4>4, SeqEqual
      <4> QED
          BY <2>3, <4>1, <4>5 DEF z, h
    <3>2. Good(y)
      <4>1. ~(k <= k - 1)
          BY <2>1, <2>2, <3>1
      <4> QED
          BY <2>2, <3>1, <4>1 DEF Bad
    <3> HIDE DEF h, y
    <3>3. FlattenSeq(y) \in Seq(S) /\ y \o t \in Seq(Seq(S))
        BY <3>1, FlattenType
    <3>4. x \o t = <<h>> \o (y \o t)
      <4>1. <<h>> \in Seq(Seq(S))
          BY <3>1
      <4> QED
          BY <3>1, <4>1, ConcatAssociative
    <3>5. FlattenSeq(x \o t) = h \o FlattenSeq(y \o t)
        BY <3>1, <3>3, <3>4, FlattenStep
    <3>6. FlattenSeq(x) = h \o FlattenSeq(y)
        BY <3>1, FlattenStep
    <3>7. h \o (FlattenSeq(y) \o FlattenSeq(t)) = (h \o FlattenSeq(y)) \o FlattenSeq(t)
      <4> DEFINE u == FlattenSeq(y)
                 w == FlattenSeq(t)
      <4>1. h \in Seq(S) /\ u \in Seq(S) /\ w \in Seq(S)
          BY <2>4, <3>1, <3>3
      <4> HIDE DEF u, w
      <4>2. h \o (u \o w) = (h \o u) \o w
          BY <4>1, ConcatAssociative, SMTT(20)
      <4> QED
          BY <4>2 DEF u, w
    <3> QED
        BY <2>3, <3>2, <3>5, <3>6, <3>7 DEF Good
  <2> QED
      BY <2>5, <2>6
<1>2. Len(s) \in Nat
    OBVIOUS
<1> HIDE DEF Good
<1>3. Good(s)
    BY <1>1, <1>2
<1> QED
    BY <1>3 DEF Good

\* A sequence is what is before one of its places, what is there and the rest.
LEMMA SplitAt ==
    ASSUME NEW S, NEW s \in Seq(S), NEW i \in 1..Len(s)
    PROVE  /\ SubSeq(s, 1, i - 1) \in Seq(S) /\ SubSeq(s, i + 1, Len(s)) \in Seq(S)
           /\ Len(SubSeq(s, 1, i - 1)) = i - 1
           /\ s = SubSeq(s, 1, i - 1) \o (<<s[i]>> \o SubSeq(s, i + 1, Len(s)))
<1> DEFINE n == Len(s)
           a == SubSeq(s, 1, i - 1)
           c == SubSeq(s, i + 1, n)
           t == a \o (<<s[i]>> \o c)
<1>1. n \in Nat /\ i \in Nat /\ i <= n /\ 1 <= i /\ \A j \in 1..n : s[j] \in S
    OBVIOUS
<1>2. a \in Seq(S) /\ Len(a) = i - 1 /\ \A j \in 1..(i - 1) : a[j] = s[j]
    BY <1>1
<1>3. c \in Seq(S) /\ Len(c) = n - i /\ \A j \in 1..(n - i) : c[j] = s[i + j]
    BY <1>1
<1> HIDE DEF a, c, n
<1> DEFINE d == <<s[i]>> \o c
<1>4. d \in Seq(S) /\ Len(d) = n - i + 1 /\ d[1] = s[i]
      /\ \A j \in 1..(n - i) : d[j + 1] = s[i + j]
  <2> DEFINE x == s[i]
  <2>1. x \in S
      BY <1>1
  <2> HIDE DEF x
  <2>2. /\ <<x>> \o c \in Seq(S) /\ Len(<<x>> \o c) = Len(c) + 1
        /\ (<<x>> \o c)[1] = x
        /\ \A j \in 1..Len(c) : (<<x>> \o c)[j + 1] = c[j]
      BY <1>3, <2>1
  <2>3. d = <<x>> \o c /\ x = s[i]
      BY DEF x
  <2> HIDE DEF d
  <2>4. d \in Seq(S) /\ d[1] = s[i]
      BY <2>2, <2>3
  <2>5. Len(d) = n - i + 1
      BY <1>1, <1>3, <2>2, <2>3
  <2>6. \A j \in 1..(n - i) : d[j + 1] = s[i + j]
      BY <1>1, <1>3, <2>2, <2>3
  <2> QED
      BY <2>4, <2>5, <2>6
<1> HIDE DEF d
<1>5. t \in Seq(S) /\ Len(t) = n
      /\ \A j \in 1..n : t[j] = IF j <= i - 1 THEN a[j] ELSE d[j - (i - 1)]
  <2>1. Len(a) + Len(d) = n
      BY <1>1, <1>2, <1>4
  <2>2. /\ a \o d \in Seq(S) /\ Len(a \o d) = Len(a) + Len(d)
        /\ \A j \in 1..(Len(a) + Len(d)) :
              (a \o d)[j] = IF j <= Len(a) THEN a[j] ELSE d[j - Len(a)]
      BY <1>2, <1>4, ConcatProperties
  <2>3. t = a \o d
      BY DEF d
  <2> HIDE DEF t
  <2>4. t \in Seq(S) /\ Len(t) = n
      BY <2>1, <2>2, <2>3
  <2>5. \A j \in 1..n : t[j] = IF j <= i - 1 THEN a[j] ELSE d[j - (i - 1)]
      BY <1>2, <2>1, <2>2, <2>3
  <2> QED
      BY <2>4, <2>5
<1> HIDE DEF t
<1>6. ASSUME NEW j \in 1..n PROVE t[j] = s[j]
  <2>1. CASE j <= i - 1
      BY <1>1, <1>2, <1>5, <2>1
  <2>2. CASE j = i
      BY <1>1, <1>4, <1>5, <2>2
  <2>3. CASE j > i
    <3> DEFINE k == j - i
    <3>1. k \in 1..(n - i) /\ k + 1 = j - (i - 1) /\ i + k = j /\ ~(j <= i - 1)
        BY <1>1, <2>3
    <3> HIDE DEF k
    <3> QED
        BY <1>4, <1>5, <3>1
  <2> QED
      BY <1>1, <2>1, <2>2, <2>3
<1>7. t = s
    BY <1>5, <1>6, SeqEqual DEF n
<1> QED
    BY <1>2, <1>3, <1>7 DEF t, a, c, d, n

\* What is in a piece is in what the pieces make.
LEMMA FlattenHas ==
    ASSUME NEW S, NEW s \in Seq(Seq(S)), NEW i \in 1..Len(s), NEW k \in 1..Len(s[i])
    PROVE  \E p \in 1..Len(FlattenSeq(s)) : FlattenSeq(s)[p] = s[i][k]
<1> DEFINE a == SubSeq(s, 1, i - 1)
           c == SubSeq(s, i + 1, Len(s))
           x == s[i]
<1>1. a \in Seq(Seq(S)) /\ c \in Seq(Seq(S)) /\ s = a \o (<<x>> \o c)
    BY SplitAt
<1>2. x \in Seq(S) /\ Len(x) \in Nat
    OBVIOUS
<1> HIDE DEF a, c, x
<1>3. <<x>> \o c \in Seq(Seq(S))
    BY <1>1, <1>2
<1>4. FlattenSeq(s) = FlattenSeq(a) \o (x \o FlattenSeq(c))
  <2> DEFINE u == <<x>> \o c
  <2>1. u \in Seq(Seq(S)) /\ s = a \o u
      BY <1>1, <1>3
  <2> HIDE DEF u
  <2>2. FlattenSeq(s) = FlattenSeq(a) \o FlattenSeq(u)
      BY <1>1, <2>1, FlattenConcat
  <2>3. FlattenSeq(u) = x \o FlattenSeq(c)
      BY <1>1, <1>2, FlattenStep DEF u
  <2> QED
      BY <2>2, <2>3
<1> DEFINE f == FlattenSeq(a)
           g == FlattenSeq(c)
<1>5. f \in Seq(S) /\ g \in Seq(S)
    BY <1>1, FlattenType
<1> HIDE DEF f, g
<1>6. /\ x \o g \in Seq(S) /\ Len(x \o g) = Len(x) + Len(g) /\ (x \o g)[k] = x[k]
    BY <1>2, <1>5, ConcatProperties DEF x
<1> DEFINE y == x \o g
<1>7. Len(f \o y) = Len(f) + Len(y) /\ (f \o y)[Len(f) + k] = y[k]
      /\ Len(f) + k \in 1..(Len(f) + Len(y))
  <2>1. k \in Nat /\ 1 <= k /\ k <= Len(y) /\ Len(f) \in Nat /\ Len(y) \in Nat
      BY <1>2, <1>5, <1>6 DEF x
  <2> HIDE DEF y
  <2>2. y \in Seq(S)
      BY <1>6 DEF y
  <2>3. Len(f) + k \in 1..(Len(f) + Len(y)) /\ ~(Len(f) + k <= Len(f))
        /\ Len(f) + k - Len(f) = k
      BY <2>1
  <2> QED
      BY <1>5, <2>2, <2>3, ConcatProperties
<1> QED
    BY <1>4, <1>6, <1>7 DEF f, g, x

\* What is computed place by place from a step and a beginning.
Step(G, n, S) == G \in [(1..n) \X S -> S]

Computes(f, G, n, S, x) ==
    /\ f \in [0..n -> S]
    /\ f[0] = x
    /\ \A i \in 1..n : f[i] = G[<<i, f[i - 1]>>]

\* There is a function that does.
LEMMA RecursionExists ==
    ASSUME NEW S, NEW x \in S, NEW n \in Nat, NEW G, Step(G, n, S)
    PROVE  \E f : Computes(f, G, n, S, x)
<1> DEFINE Good(f, k) == Computes(f, G, k, S, x)
           Bad == {k \in 0..n : \A f : ~Good(f, k)}
<1>1. Bad = {}
  <2> SUFFICES ASSUME Bad # {} PROVE FALSE
      OBVIOUS
  <2>1. Bad \subseteq Nat
      OBVIOUS
  <2> HIDE DEF Bad
  <2>2. PICK k \in Bad : \A j \in Bad : k <= j
      BY <2>1, LeastNumber
  <2> HIDE DEF Good, Computes
  <2>3. k \in 0..n /\ \A f : ~Good(f, k)
      BY DEF Bad
  <2>4. CASE k = 0
    <3> DEFINE f == [i \in 0..k |-> x]
    <3>1. Good(f, k)
        BY <2>4 DEF Good, Computes
    <3> QED
        BY <2>3, <3>1
  <2>5. CASE k # 0
    <3> DEFINE j == k - 1
    <3>1. j \in 0..n /\ ~(k <= j) /\ k \in 1..n /\ \A i \in 0..k : i = k \/ i \in 0..j
        BY <2>3, <2>5
    <3>2. \A i \in 0..j : i \in 0..k /\ i # k
        BY <2>3, <2>5
    <3>3. \A i \in 1..k : i = k \/ (i \in 1..j /\ i - 1 \in 0..j /\ i \in 0..j)
        BY <2>3, <2>5
    <3> HIDE DEF j
    <3>4. PICK f : Good(f, j)
        BY <2>2, <3>1 DEF Bad
    <3> DEFINE v == G[<<k, f[j]>>]
               g == [i \in 0..k |-> IF i = k THEN v ELSE f[i]]
    <3>5. f[j] \in S /\ f[0] = x /\ \A i \in 0..j : f[i] \in S
        BY <3>1, <3>4 DEF Good, Computes
    <3>6. v \in S
        BY <3>1, <3>5 DEF Step
    <3> HIDE DEF v
    <3>7. g \in [0..k -> S]
        BY <3>1, <3>5, <3>6
    <3>8. \A i \in 0..j : g[i] = f[i]
        BY <3>2
    <3>9. g[k] = v
        BY <3>1
    <3> HIDE DEF g
    <3>10. g[0] = x
        BY <3>1, <3>5, <3>8
    <3>11. ASSUME NEW i \in 1..k PROVE g[i] = G[<<i, g[i - 1]>>]
      <4>1. CASE i = k
        <5>1. g[i - 1] = f[j]
            BY <3>1, <3>8, <4>1 DEF j
        <5> QED
            BY <3>9, <4>1, <5>1 DEF v
      <4>2. CASE i # k
        <5>1. i \in 1..j /\ i - 1 \in 0..j /\ i \in 0..j
            BY <3>3, <4>2
        <5>2. f[i] = G[<<i, f[i - 1]>>]
            BY <3>4, <5>1 DEF Good, Computes
        <5> QED
            BY <3>8, <5>1, <5>2
      <4> QED
          BY <4>1, <4>2
    <3>12. Good(g, k)
        BY <3>7, <3>10, <3>11 DEF Good, Computes
    <3> QED
        BY <2>3, <3>12
  <2> QED
      BY <2>4, <2>5
<1>2. n \in 0..n
    OBVIOUS
<1> HIDE DEF Good, Computes
<1>3. PICK f : Good(f, n)
    BY <1>1, <1>2
<1> QED
    BY <1>3 DEF Good

\* A sequence is one of whatever its entries are of.
LEMMA SeqWithin ==
    ASSUME NEW S, NEW V, NEW w \in Seq(S), \A k \in 1..Len(w) : w[k] \in V
    PROVE  w \in Seq(V)
<1> DEFINE n == Len(w)
<1>1. n \in Nat /\ w = [k \in 1..n |-> w[k]]
    OBVIOUS
<1>2. w \in [1..n -> V]
    BY <1>1
<1> HIDE DEF n
<1> QED
    BY <1>1, <1>2, SeqDef

\* Pieces of one entry each make a sequence of as many entries, theirs.
LEMMA FlattenSingles ==
    ASSUME NEW S, NEW s \in Seq(Seq(S)), \A i \in 1..Len(s) : Len(s[i]) = 1
    PROVE  /\ Len(FlattenSeq(s)) = Len(s)
           /\ \A i \in 1..Len(s) : FlattenSeq(s)[i] = s[i][1]
<1> DEFINE n == Len(s)
           F == FlattenSeq(s)
<1>1. n \in Nat /\ \A i \in 1..n : s[i] \in Seq(S) /\ Len(s[i]) = 1
    OBVIOUS
<1>2. CASE n = 0
  <2>1. F = s
      BY <1>2 DEF FlattenSeq
  <2> QED
      BY <1>2, <2>1
<1>3. CASE n # 0
  <2>1. PICK f : F = f[n] /\ \A i \in 1..n : f[i] = FlatAt(s, f, i)
      BY <1>1, <1>3, FlattenedBy
  <2> DEFINE Good(i) == /\ f[i] \in Seq(S) /\ Len(f[i]) = i
                        /\ \A k \in 1..i : f[i][k] = s[k][1]
             Bad == {i \in 1..n : ~Good(i)}
  <2>2. Bad = {}
    <3> SUFFICES ASSUME Bad # {} PROVE FALSE
        OBVIOUS
    <3>1. Bad \subseteq Nat
        BY <1>1
    <3> HIDE DEF Bad
    <3>2. PICK i \in Bad : \A j \in Bad : i <= j
        BY <3>1, LeastNumber
    <3> HIDE DEF Good
    <3>3. i \in 1..n /\ ~Good(i)
        BY DEF Bad
    <3> DEFINE w == s[i]
    <3>4. w \in Seq(S) /\ Len(w) = 1 /\ i \in Nat
        BY <1>1, <3>3
    <3>5. CASE i = 1
      <4>1. f[i] = w
          BY <2>1, <3>3, <3>5 DEF FlatAt
      <4>2. \A k \in 1..i : f[i][k] = s[k][1]
          BY <3>5, <4>1
      <4> QED
          BY <3>3, <3>4, <3>5, <4>1, <4>2 DEF Good
    <3>6. CASE i # 1
      <4> DEFINE j == i - 1
                 u == f[j]
                 g == u \o w
      <4>1. j \in 1..n /\ ~(i <= j) /\ j \in Nat /\ i = j + 1
          BY <1>1, <3>3, <3>6
      <4>2. f[i] = g
          BY <2>1, <3>3, <3>6 DEF FlatAt
      <4>3. Good(j)
          BY <3>2, <4>1 DEF Bad
      <4> HIDE DEF j
      <4>4. u \in Seq(S) /\ Len(u) = j /\ \A k \in 1..j : u[k] = s[k][1]
          BY <4>3 DEF Good
      <4> HIDE DEF u, w
      <4>5. /\ g \in Seq(S) /\ Len(g) = Len(u) + Len(w)
            /\ \A p \in 1..(Len(u) + Len(w)) :
                  g[p] = IF p <= Len(u) THEN u[p] ELSE w[p - Len(u)]
          BY <3>4, <4>4, ConcatProperties
      <4> HIDE DEF g
      <4>6. Len(g) = i
          BY <3>4, <4>1, <4>4, <4>5
      <4>7. ASSUME NEW k \in 1..i PROVE g[k] = s[k][1]
        <5>1. CASE k = i
          <6>1. k \in 1..(Len(u) + Len(w)) /\ ~(k <= Len(u)) /\ k - Len(u) = 1
              BY <3>4, <4>1, <4>4, <5>1
          <6>2. g[k] = w[1]
              BY <4>5, <6>1
          <6> QED
              BY <5>1, <6>2 DEF w
        <5>2. CASE k # i
          <6>1. k \in 1..(Len(u) + Len(w)) /\ k <= Len(u) /\ k \in 1..j
              BY <3>4, <4>1, <4>4, <5>2
          <6> QED
              BY <4>4, <4>5, <6>1
        <5> QED
            BY <5>1, <5>2
      <4> QED
          BY <3>3, <4>2, <4>5, <4>6, <4>7 DEF Good
    <3> QED
        BY <3>5, <3>6
  <2>3. n \in 1..n
      BY <1>1, <1>3
  <2> HIDE DEF Good
  <2>4. Good(n)
      BY <2>2, <2>3
  <2> QED
      BY <2>1, <2>4 DEF Good
<1> QED
    BY <1>2, <1>3

\* What holds at zero, and at a number if it does at the one before, holds up
\* to any number.
LEMMA Upwards ==
    ASSUME NEW n \in Nat, NEW G, 0 \in G, \A i \in 1..n : i - 1 \in G => i \in G
    PROVE  \A i \in 0..n : i \in G
<1> DEFINE Bad == {i \in 0..n : i \notin G}
<1>1. SUFFICES ASSUME Bad # {} PROVE FALSE
    OBVIOUS
<1>2. PICK i \in Bad : \A j \in Bad : i <= j
  <2>1. Bad \subseteq Nat
      OBVIOUS
  <2> HIDE DEF Bad
  <2> QED
      BY <1>1, <2>1, LeastNumber
<1>3. i \in 1..n /\ i \notin G
    BY <1>2
<1>4. i - 1 \in 0..n /\ ~(i <= i - 1)
    BY <1>3
<1>5. i - 1 \in G
    BY <1>2, <1>4
<1> QED
    BY <1>3, <1>5

\* Where the pieces of a sequence end in the whole, and what stands there.
Places(s, t, ends) ==
    /\ ends \in [0..Len(s) -> Nat] /\ ends[0] = 0 /\ ends[Len(s)] = Len(t)
    /\ \A i \in 1..Len(s) : ends[i] = ends[i - 1] + Len(s[i])
    /\ \A i \in 1..Len(s) : \A k \in 1..Len(s[i]) :
          ends[i - 1] + k \in 1..Len(t) /\ t[ends[i - 1] + k] = s[i][k]

\* The pieces are found in the whole one after the other.
LEMMA FlattenPlaces ==
    ASSUME NEW S, NEW s \in Seq(Seq(S))
    PROVE  \E ends : Places(s, FlattenSeq(s), ends)
<1> DEFINE t == FlattenSeq(s)
           n == Len(s)
<1>1. n \in Nat /\ (\A i \in 1..n : s[i] \in Seq(S)) /\ t \in Seq(S)
    BY FlattenType
<1>2. CASE n = 0
  <2> DEFINE e == [i \in 0..0 |-> 0]
  <2>1. t = s
      BY <1>2 DEF FlattenSeq
  <2>2. e \in [0..0 -> Nat] /\ e[0] = 0
      OBVIOUS
  <2> HIDE DEF e
  <2>3. Places(s, t, e)
      BY <1>2, <2>1, <2>2 DEF Places
  <2> QED
      BY <2>3
<1>3. CASE n # 0
  <2>1. PICK f : t = f[n] /\ \A i \in 1..n : f[i] = FlatAt(s, f, i)
      BY <1>1, <1>3, FlattenedBy
  <2> DEFINE e == [i \in 0..n |-> IF i = 0 THEN 0 ELSE Len(f[i])]
             Good(i) ==
                 i = 0 \/ /\ f[i] \in Seq(S)
                          /\ e[i] = e[i - 1] + Len(s[i])
                          /\ e[i] \in Nat /\ e[i - 1] \in Nat
                          /\ \A k \in 1..Len(s[i]) : f[i][e[i - 1] + k] = s[i][k]
                          /\ i > 1 => /\ e[i - 1] = Len(f[i - 1])
                                      /\ \A p \in 1..e[i - 1] : f[i][p] = f[i - 1][p]
             G == {i \in 0..n : Good(i)}
  <2>2. e = [i \in 0..n |-> e[i]] /\ e[0] = 0 /\ \A i \in 1..n : e[i] = Len(f[i])
    <3>1. e[0] = 0 /\ e = [i \in 0..n |-> e[i]]
        BY <1>1
    <3>2. ASSUME NEW i \in 1..n PROVE e[i] = Len(f[i])
      <4>1. i \in 0..n /\ i # 0
          BY <1>1
      <4> QED
          BY <4>1
    <3> QED
        BY <3>1, <3>2
  <2> HIDE DEF e, t, n
  <2>3. ASSUME NEW i \in 1..n, i - 1 \in G PROVE i \in G
    <3> DEFINE w == s[i]
    <3>1. w \in Seq(S) /\ Len(w) \in Nat
        BY <1>1
    <3>2. CASE i = 1
      <4>1. f[i] = w
          BY <2>1, <3>2 DEF FlatAt
      <4>2. e[i] = Len(w) /\ e[i - 1] = 0
        <5>1. e[i] = Len(w)
            BY <2>2, <4>1
        <5>2. i - 1 = 0
            BY <3>2
        <5>3. e[i - 1] = 0
            BY <2>2, <5>2
        <5> QED
            BY <5>1, <5>3
      <4>3. \A k \in 1..Len(w) : f[i][e[i - 1] + k] = w[k]
          BY <4>1, <4>2
      <4> QED
          BY <3>1, <3>2, <4>1, <4>2, <4>3
    <3>3. CASE i # 1
      <4> DEFINE j == i - 1
                 u == f[j]
                 g == u \o w
      <4>1. j \in 1..n /\ i > 1 /\ j # 0
          BY <1>1, <3>3
      <4>2. f[i] = g
          BY <2>1, <3>3 DEF FlatAt
      <4>3. Good(j)
          BY <2>3
      <4> HIDE DEF j
      <4>4. u \in Seq(S) /\ Len(u) \in Nat
          BY <4>1, <4>3
      <4>5. e[j] = Len(u) /\ e[i] = Len(g)
          BY <2>2, <4>1, <4>2
      <4> HIDE DEF u, w
      <4>6. /\ g \in Seq(S) /\ Len(g) = Len(u) + Len(w)
            /\ \A p \in 1..(Len(u) + Len(w)) :
                  g[p] = IF p <= Len(u) THEN u[p] ELSE w[p - Len(u)]
          BY <3>1, <4>4, ConcatProperties
      <4> HIDE DEF g
      <4>7. ASSUME NEW k \in 1..Len(w) PROVE g[e[j] + k] = w[k]
        <5> DEFINE p == e[j] + k
        <5>1. p \in 1..(Len(u) + Len(w)) /\ ~(p <= Len(u)) /\ p - Len(u) = k
            BY <3>1, <4>4, <4>5
        <5> HIDE DEF p
        <5>2. g[p] = w[k]
            BY <4>6, <5>1
        <5> QED
            BY <5>2 DEF p
      <4>8. ASSUME NEW p \in 1..e[j] PROVE g[p] = u[p]
        <5>1. p \in 1..(Len(u) + Len(w)) /\ p <= Len(u)
            BY <3>1, <4>4, <4>5
        <5> QED
            BY <4>6, <5>1
      <4>9. e[i] = e[j] + Len(w) /\ e[i] \in Nat /\ e[j] \in Nat
          BY <3>1, <4>4, <4>5, <4>6
      <4>10. Good(i)
          BY <4>2, <4>5, <4>6, <4>7, <4>8, <4>9 DEF j, u, w
      <4> QED
          BY <4>10
    <3> QED
        BY <3>2, <3>3
  <2>4. \A i \in 0..n : i \in G
    <3>1. 0 \in G
        BY <1>1
    <3> HIDE DEF G
    <3> QED
        BY <1>1, <2>3, <3>1, Upwards
  <2>5. \A i \in 1..n : /\ f[i] \in Seq(S)
                        /\ e[i] = e[i - 1] + Len(s[i])
                        /\ e[i] \in Nat /\ e[i - 1] \in Nat
                        /\ \A k \in 1..Len(s[i]) : f[i][e[i - 1] + k] = s[i][k]
                        /\ i > 1 => /\ e[i - 1] = Len(f[i - 1])
                                    /\ \A p \in 1..e[i - 1] : f[i][p] = f[i - 1][p]
    <3> SUFFICES ASSUME NEW i \in 1..n
                 PROVE  /\ f[i] \in Seq(S)
                        /\ e[i] = e[i - 1] + Len(s[i])
                        /\ e[i] \in Nat /\ e[i - 1] \in Nat
                        /\ \A k \in 1..Len(s[i]) : f[i][e[i - 1] + k] = s[i][k]
                        /\ i > 1 => /\ e[i - 1] = Len(f[i - 1])
                                    /\ \A p \in 1..e[i - 1] : f[i][p] = f[i - 1][p]
        OBVIOUS
    <3>1. i \in 0..n /\ i # 0
        BY <1>1
    <3>2. Good(i)
        BY <2>4, <3>1
    <3> QED
        BY <3>1, <3>2
  <2> HIDE DEF G
  \* A piece stays where it was put.
  <2> DEFINE Stays(j) == \A i \in 1..n : i <= j =>
                 \A k \in 1..Len(s[i]) : /\ e[i - 1] + k \in 1..e[j]
                                         /\ f[j][e[i - 1] + k] = s[i][k]
             H == {j \in 0..n : Stays(j)}
  <2>6. ASSUME NEW j \in 1..n, j - 1 \in H PROVE j \in H
    <3>1. SUFFICES ASSUME NEW i \in 1..n, i <= j, NEW k \in 1..Len(s[i])
                   PROVE  e[i - 1] + k \in 1..e[j] /\ f[j][e[i - 1] + k] = s[i][k]
        BY <2>6
    <3>2. Len(s[i]) \in Nat /\ Len(s[j]) \in Nat
        BY <1>1
    <3>3. CASE i = j
      <4> DEFINE m == e[j - 1]
                 l == Len(s[j])
      <4>1. m \in Nat /\ l \in Nat /\ e[j] = m + l /\ f[j][m + k] = s[j][k] /\ k \in 1..l
          BY <2>5, <3>2, <3>3
      <4> HIDE DEF m, l
      <4>2. m + k \in 1..e[j]
          BY <4>1
      <4> QED
          BY <3>3, <4>1, <4>2 DEF m
    <3>4. CASE i # j
      <4> DEFINE m == j - 1
                 p == e[i - 1] + k
      <4>1. m \in 1..n /\ i <= m /\ j > 1 /\ m \in H
          BY <1>1, <2>6, <3>1, <3>4
      <4> HIDE DEF m
      <4>2. p \in 1..e[m] /\ f[m][p] = s[i][k]
          BY <4>1
      <4>3. e[j] = e[m] + Len(s[j]) /\ e[m] \in Nat /\ \A q \in 1..e[m] : f[j][q] = f[m][q]
          BY <2>5, <4>1 DEF m
      <4> HIDE DEF p
      <4>4. p \in 1..e[j] /\ f[j][p] = s[i][k]
          BY <3>2, <4>2, <4>3
      <4> QED
          BY <4>4 DEF p
    <3> QED
        BY <3>3, <3>4
  <2>7. n \in H
    <3>1. 0 \in H
        BY <1>1
    <3>2. n \in 0..n
        BY <1>1
    <3> HIDE DEF H
    <3> QED
        BY <1>1, <2>6, <3>1, <3>2, Upwards
  <2>8. e \in [0..n -> Nat]
    <3>1. \A i \in 0..n : e[i] \in Nat
      <4> SUFFICES ASSUME NEW i \in 0..n PROVE e[i] \in Nat
          OBVIOUS
      <4>1. CASE i = 0
          BY <2>2, <4>1
      <4>2. CASE i # 0
        <5>1. i \in 1..n
            BY <1>1, <4>2
        <5> QED
            BY <2>5, <5>1
      <4> QED
          BY <4>1, <4>2
    <3> QED
        BY <2>2, <3>1
  <2>9. e[n] = Len(t)
    <3>1. n \in 1..n
        BY <1>1, <1>3
    <3>2. e[n] = Len(f[n])
        BY <2>2, <3>1
    <3> QED
        BY <2>1, <3>2
  <2>10. \A i \in 1..n : \A k \in 1..Len(s[i]) :
             e[i - 1] + k \in 1..Len(t) /\ t[e[i - 1] + k] = s[i][k]
    <3>1. Stays(n)
      <4> HIDE DEF Stays
      <4> QED
          BY <2>7
    <3>2. \A i \in 1..n : i <= n
        BY <1>1
    <3> QED
        BY <2>1, <2>9, <3>1, <3>2
  <2>11. Places(s, t, e)
      BY <2>2, <2>5, <2>8, <2>9, <2>10 DEF Places, n
  <2> QED
      BY <2>11 DEF t
<1> QED
    BY <1>2, <1>3

-----------------------------------------------------------------------------
(* The waitlist.                                                           *)

Hit == [count : Nat, resetAt : Nat]

Admitted == [ip : Addresses, instance : Nat, at : Nat, n : Nat]

WaitlistTypeOK ==
    /\ now \in Nat
    /\ instance \in Nat
    /\ hits \in [Addresses -> Hit \cup {None}]
    /\ accepted \subseteq Admitted

(* A window is opened by its first request, and the windows of an address  *)
(* on an instance lie apart.  Every request is in one of them, no two with *)
(* one number; the one that hits speaks of is the last, its numbers go up  *)
(* to the count, and it is the only one that still takes requests.         *)
SameCount(a, b) == a.ip = b.ip /\ a.instance = b.instance

InWindowOf(a, o) == SameCount(a, o) /\ o.n = 1 /\ o.at <= a.at /\ a.at <= o.at + Window

WindowInv ==
    /\ \A a \in accepted :
          /\ a.n >= 1 /\ a.n <= RateLimit
          /\ a.instance <= instance
          /\ \E o \in accepted : InWindowOf(a, o)
    /\ \A o, q \in accepted : SameCount(o, q) /\ o.n = 1 /\ q.n = 1 /\ o.at < q.at =>
          o.at + Window < q.at
    /\ \A a, b, o \in accepted : InWindowOf(a, o) /\ InWindowOf(b, o) /\ a.n = b.n =>
          a = b

Current(ip) == {a \in accepted : a.ip = ip /\ a.instance = instance}

HitsInv ==
    \A ip \in Addresses :
        /\ hits[ip] = None => Current(ip) = {}
        /\ hits[ip] # None =>
              /\ hits[ip].count >= 1
              /\ \E o \in Current(ip) : o.n = 1 /\ o.at + Window = hits[ip].resetAt
              /\ \A a \in Current(ip) :
                    /\ a.at <= hits[ip].resetAt
                    /\ a.at <= now
                    /\ a.at + Window >= hits[ip].resetAt => a.n <= hits[ip].count
                    /\ a.n = 1 => a.at + Window <= hits[ip].resetAt

\* The state of the form, of the map of hits and of what was let through.
LEMMA WaitlistTypes == WaitlistSpec => []WaitlistTypeOK
<1>1. WaitlistInit => WaitlistTypeOK
    BY DEF WaitlistInit, WaitlistTypeOK
<1>2. WaitlistTypeOK /\ [WaitlistNext]_waitlistVars => WaitlistTypeOK'
  <2> SUFFICES ASSUME WaitlistTypeOK, [WaitlistNext]_waitlistVars PROVE WaitlistTypeOK'
      OBVIOUS
  <2>1. ASSUME NEW v \in Visitors, Admit(v) PROVE WaitlistTypeOK'
    <3> DEFINE ip == Behind[v]
               count == IF Fresh(ip) THEN 1 ELSE hits[ip].count + 1
               resetAt == IF Fresh(ip) THEN now + Window ELSE hits[ip].resetAt
               x == [ip |-> ip, instance |-> instance, at |-> now, n |-> count]
    <3>1. /\ hits' = [hits EXCEPT ![ip] = [count |-> count, resetAt |-> resetAt]]
          /\ accepted' = accepted \/ accepted' = accepted \cup {x}
          /\ now' = now /\ instance' = instance
        BY <2>1 DEF Admit
    <3>2. ip \in Addresses
        BY DEF Addresses
    <3>3. count \in Nat /\ resetAt \in Nat
      <4>1. ~Fresh(ip) => hits[ip] \in Hit
          BY <3>2 DEF Fresh, WaitlistTypeOK
      <4> QED
          BY <4>1, WaitlistAssumption DEF Hit, WaitlistTypeOK
    <3> HIDE DEF count, resetAt
    <3>4. [count |-> count, resetAt |-> resetAt] \in Hit
        BY <3>3 DEF Hit
    <3>5. x \in Admitted
        BY <3>2, <3>3 DEF Admitted, WaitlistTypeOK
    <3> QED
        BY <3>1, <3>2, <3>4, <3>5 DEF WaitlistTypeOK
  <2>2. CASE Redeploy
      BY <2>2 DEF Redeploy, WaitlistTypeOK
  <2>3. CASE Tick
      BY <2>3 DEF Tick, WaitlistTypeOK
  <2>4. ASSUME NEW v \in Visitors, Submit(v) \/ Notify(v) \/ Answered(v) \/ Lost(v)
        PROVE  WaitlistTypeOK'
      BY <2>4 DEF Submit, Notify, Answered, Lost, WaitlistTypeOK
  <2>5. CASE UNCHANGED waitlistVars
      BY <2>5 DEF waitlistVars, WaitlistTypeOK
  <2> QED
      BY <2>1, <2>2, <2>3, <2>4, <2>5 DEF WaitlistNext
<1> QED
    BY <1>1, <1>2, PTL DEF WaitlistSpec

-----------------------------------------------------------------------------
(* The windows.                                                            *)

\* A request opens a window or is counted in the one that is open, and is let
\* through if its number is within the limit.
LEMMA AdmitEffect ==
    ASSUME WaitlistTypeOK, NEW v \in Visitors, Admit(v)
    PROVE  \E ip \in Addresses, count \in Nat, resetAt \in Nat :
              /\ now' = now /\ instance' = instance
              /\ hits'[ip] # None
              /\ hits'[ip].count = count /\ hits'[ip].resetAt = resetAt
              /\ \A q \in Addresses \ {ip} : hits'[q] = hits[q]
              /\ \/ /\ hits[ip] = None \/ now > hits[ip].resetAt
                    /\ count = 1 /\ resetAt = now + Window
                 \/ /\ hits[ip] # None /\ now <= hits[ip].resetAt
                    /\ count = hits[ip].count + 1 /\ resetAt = hits[ip].resetAt
              /\ \/ accepted' = accepted /\ count > RateLimit
                 \/ /\ count <= RateLimit
                    /\ \E x \in Admitted :
                          /\ accepted' = accepted \cup {x}
                          /\ x.ip = ip /\ x.instance = instance /\ x.at = now /\ x.n = count
<1> DEFINE count == IF Fresh(Behind[v]) THEN 1 ELSE hits[Behind[v]].count + 1
           resetAt == IF Fresh(Behind[v]) THEN now + Window ELSE hits[Behind[v]].resetAt
<1>1. PICK ip \in Addresses : ip = Behind[v]
    BY DEF Addresses
<1>2. hits[ip] # None => hits[ip].count \in Nat /\ hits[ip].resetAt \in Nat
  <2>1. hits[ip] \in Hit \cup {None}
      BY DEF WaitlistTypeOK
  <2> QED
      BY <2>1 DEF Hit
<1>3. /\ now \in Nat /\ Window \in Nat /\ RateLimit \in Nat /\ RateLimit >= 1
      /\ instance \in Nat
    BY WaitlistAssumption DEF WaitlistTypeOK
<1>4. /\ count \in Nat /\ resetAt \in Nat
      /\ \/ /\ hits[ip] = None \/ now > hits[ip].resetAt
            /\ count = 1 /\ resetAt = now + Window
         \/ /\ hits[ip] # None /\ now <= hits[ip].resetAt
            /\ count = hits[ip].count + 1 /\ resetAt = hits[ip].resetAt
    BY <1>1, <1>2, <1>3 DEF Fresh
<1> DEFINE x == [ip |-> ip, instance |-> instance, at |-> now, n |-> count]
           h == [count |-> count, resetAt |-> resetAt]
<1>5. /\ hits' = [hits EXCEPT ![ip] = h]
      /\ \/ count > RateLimit /\ accepted' = accepted
         \/ count <= RateLimit /\ accepted' = accepted \cup {x}
      /\ now' = now /\ instance' = instance
    BY <1>1 DEF Admit
<1> HIDE DEF count, resetAt
<1>6. /\ x \in Admitted
      /\ x.ip = ip /\ x.instance = instance /\ x.at = now /\ x.n = count
    BY <1>3, <1>4 DEF Admitted
<1>7. h # None /\ h.count = count /\ h.resetAt = resetAt
    BY <1>4, WaitlistAssumption
<1> HIDE DEF x, h
<1>8. hits'[ip] = h /\ \A q \in Addresses \ {ip} : hits'[q] = hits[q]
    BY <1>5 DEF WaitlistTypeOK
<1> QED
    BY <1>4, <1>5, <1>6, <1>7, <1>8

\* A step that writes neither the counts nor what was let through.
LEMMA WindowFrame ==
    ASSUME WaitlistTypeOK, WindowInv, HitsInv, hits' = hits, accepted' = accepted,
           instance' = instance, now' \in Nat, now <= now'
    PROVE  WindowInv' /\ HitsInv'
<1>1. now \in Nat /\ \A a \in accepted : a.at \in Nat
    BY DEF WaitlistTypeOK, Admitted
<1>2. \A ip : Current(ip)' = Current(ip)
    BY DEF Current
<1>3. WindowInv'
    BY DEF WindowInv, InWindowOf, SameCount
<1>4. ASSUME NEW ip \in Addresses, NEW a \in Current(ip), a.at <= now
      PROVE  a.at <= now'
    BY <1>1, <1>4 DEF Current
<1>5. HitsInv'
    BY <1>2, <1>4 DEF HitsInv
<1> QED
    BY <1>3, <1>5

\* A request that is counted keeps the windows of every address apart and the
\* numbers within each of them different.
LEMMA WindowAdmit ==
    ASSUME WaitlistTypeOK, WindowInv, HitsInv, NEW v \in Visitors, Admit(v)
    PROVE  WindowInv' /\ HitsInv'
<1>1. PICK ip \in Addresses, count \in Nat, resetAt \in Nat :
              /\ now' = now /\ instance' = instance
              /\ hits'[ip] # None
              /\ hits'[ip].count = count /\ hits'[ip].resetAt = resetAt
              /\ \A q \in Addresses \ {ip} : hits'[q] = hits[q]
              /\ \/ /\ hits[ip] = None \/ now > hits[ip].resetAt
                    /\ count = 1 /\ resetAt = now + Window
                 \/ /\ hits[ip] # None /\ now <= hits[ip].resetAt
                    /\ count = hits[ip].count + 1 /\ resetAt = hits[ip].resetAt
              /\ \/ accepted' = accepted /\ count > RateLimit
                 \/ /\ count <= RateLimit
                    /\ \E x \in Admitted :
                          /\ accepted' = accepted \cup {x}
                          /\ x.ip = ip /\ x.instance = instance /\ x.at = now /\ x.n = count
    BY AdmitEffect
<1>2. /\ now \in Nat /\ instance \in Nat /\ Window \in Nat /\ Window >= 1
      /\ RateLimit \in Nat /\ RateLimit >= 1
      /\ \A q \in Addresses : hits[q] # None => hits[q].count \in Nat /\ hits[q].resetAt \in Nat
      /\ \A a \in accepted : a.at \in Nat /\ a.n \in Nat /\ a.instance \in Nat
  <2>1. \A q \in Addresses : hits[q] # None => hits[q].count \in Nat /\ hits[q].resetAt \in Nat
    <3>1. \A q \in Addresses : hits[q] \in Hit \cup {None}
        BY DEF WaitlistTypeOK
    <3> QED
        BY <3>1 DEF Hit
  <2> QED
      BY <2>1, WaitlistAssumption DEF WaitlistTypeOK, Admitted
<1>3. \A q \in Addresses \ {ip} : Current(q)' = Current(q)
    BY <1>1 DEF Current
<1>4. CASE accepted' = accepted /\ count > RateLimit
  <2>1. Current(ip)' = Current(ip)
      BY <1>1, <1>4 DEF Current
  <2>2. hits[ip] # None /\ count = hits[ip].count + 1 /\ resetAt = hits[ip].resetAt
      BY <1>1, <1>2, <1>4
  <2>3. \A a \in Current(ip) : a.n \in Nat
      BY <1>2 DEF Current
  <2>4. HitsInv'
    <3> SUFFICES ASSUME NEW q \in Addresses
                 PROVE  /\ hits'[q] = None => Current(q)' = {}
                        /\ hits'[q] # None =>
                              /\ hits'[q].count >= 1
                              /\ \E o \in Current(q)' :
                                      o.n = 1 /\ o.at + Window = hits'[q].resetAt
                              /\ \A a \in Current(q)' :
                                    /\ a.at <= hits'[q].resetAt
                                    /\ a.at <= now'
                                    /\ a.at + Window >= hits'[q].resetAt => a.n <= hits'[q].count
                                    /\ a.n = 1 => a.at + Window <= hits'[q].resetAt
        BY DEF HitsInv
    <3>1. CASE q # ip
        BY <1>1, <1>3, <3>1 DEF HitsInv
    <3>2. CASE q = ip
        BY <1>1, <1>2, <2>1, <2>2, <2>3, <3>2 DEF HitsInv
    <3> QED
        BY <3>1, <3>2
  <2> QED
      BY <1>1, <1>4, <2>4 DEF WindowInv, InWindowOf, SameCount
<1>5. ASSUME count <= RateLimit, NEW x \in Admitted,
             accepted' = accepted \cup {x},
             x.ip = ip, x.instance = instance, x.at = now, x.n = count
      PROVE  WindowInv' /\ HitsInv'
  <2>1. Current(ip)' = Current(ip) \cup {x}
      BY <1>1, <1>5 DEF Current
  <2>2. \A a \in accepted : SameCount(a, x) <=> a \in Current(ip)
      BY <1>5 DEF SameCount, Current
  <2>3. \A a \in Current(ip) : a \in accepted /\ a.at <= now /\ a.n >= 1 /\ a.n <= RateLimit
    <3>1. \A a \in Current(ip) : hits[ip] # None /\ a.at <= now
        BY DEF HitsInv
    <3> QED
        BY <3>1 DEF WindowInv, Current
  <2>4. CASE /\ hits[ip] = None \/ now > hits[ip].resetAt
             /\ count = 1 /\ resetAt = now + Window
    <3>1. \A a \in Current(ip) : a.at < now /\ (a.n = 1 => a.at + Window < now)
        BY <1>2, <2>3, <2>4 DEF HitsInv
    <3>2. InWindowOf(x, x)
        BY <1>2, <1>5, <2>4 DEF InWindowOf, SameCount
    <3>3. \A a \in accepted : ~InWindowOf(a, x)
        BY <1>2, <1>5, <2>2, <3>1 DEF InWindowOf
    <3>4. \A o \in accepted : ~InWindowOf(x, o)
        BY <1>2, <1>5, <2>2, <3>1 DEF InWindowOf, SameCount
    <3>5. WindowInv'
      <4>1. \A a \in accepted' :
                /\ a.n >= 1 /\ a.n <= RateLimit
                /\ a.instance <= instance'
                /\ \E o \in accepted' : InWindowOf(a, o)
          BY <1>1, <1>2, <1>5, <2>4, <3>2 DEF WindowInv
      <4>2. \A o, q \in accepted' : SameCount(o, q) /\ o.n = 1 /\ q.n = 1 /\ o.at < q.at =>
                o.at + Window < q.at
          BY <1>2, <1>5, <2>2, <3>1 DEF WindowInv, SameCount
      <4>3. \A a, b, o \in accepted' : InWindowOf(a, o) /\ InWindowOf(b, o) /\ a.n = b.n =>
                a = b
          BY <1>5, <3>3, <3>4 DEF WindowInv
      <4> QED
          BY <4>1, <4>2, <4>3 DEF WindowInv, InWindowOf, SameCount
    <3>6. \A a \in Current(ip) \cup {x} :
              /\ a.at <= resetAt /\ a.at <= now
              /\ a.at + Window >= resetAt => a.n <= count
              /\ a.n = 1 => a.at + Window <= resetAt
      <4>1. \A a \in Current(ip) : a.at \in Nat
          BY <1>2 DEF Current
      <4> QED
          BY <1>2, <1>5, <2>4, <3>1, <4>1
    <3>7. x.n = 1 /\ x.at + Window = resetAt /\ count >= 1
        BY <1>5, <2>4
    <3>8. HitsInv'
      <4> SUFFICES ASSUME NEW q \in Addresses
                   PROVE  /\ hits'[q] = None => Current(q)' = {}
                          /\ hits'[q] # None =>
                                /\ hits'[q].count >= 1
                                /\ \E o \in Current(q)' :
                                      o.n = 1 /\ o.at + Window = hits'[q].resetAt
                                /\ \A a \in Current(q)' :
                                      /\ a.at <= hits'[q].resetAt
                                      /\ a.at <= now'
                                      /\ a.at + Window >= hits'[q].resetAt => a.n <= hits'[q].count
                                      /\ a.n = 1 => a.at + Window <= hits'[q].resetAt
          BY DEF HitsInv
      <4>1. CASE q # ip
          BY <1>1, <1>3, <4>1 DEF HitsInv
      <4>2. CASE q = ip
          BY <1>1, <2>1, <3>6, <3>7, <4>2
      <4> QED
          BY <4>1, <4>2
    <3> QED
        BY <3>5, <3>8
  <2>5. CASE /\ hits[ip] # None /\ now <= hits[ip].resetAt
             /\ count = hits[ip].count + 1 /\ resetAt = hits[ip].resetAt
    <3>1. hits[ip].count \in Nat /\ hits[ip].count >= 1 /\ count # 1 /\ resetAt \in Nat
        BY <1>2, <2>5 DEF HitsInv
    <3>2. PICK w \in Current(ip) : w.n = 1 /\ w.at + Window = resetAt
        BY <2>5 DEF HitsInv
    <3>3. w \in accepted /\ w.at \in Nat /\ w.at <= now /\ SameCount(w, x) /\ SameCount(x, w)
        BY <1>2, <2>2, <2>3, <3>2 DEF SameCount
    <3>4. InWindowOf(x, w)
        BY <1>2, <1>5, <2>5, <3>2, <3>3 DEF InWindowOf
    <3>5. \A o \in accepted : InWindowOf(x, o) => o = w
      <4> SUFFICES ASSUME NEW o \in accepted, InWindowOf(x, o) PROVE o = w
          OBVIOUS
      <4>1. o \in Current(ip) /\ o.n = 1 /\ o.at \in Nat /\ o.at + Window >= now /\ SameCount(w, o)
          BY <1>2, <1>5, <2>2, <3>3 DEF InWindowOf, SameCount
      <4>2. o.at <= w.at
          BY <1>2, <2>5, <3>2, <3>3, <4>1 DEF HitsInv
      <4>3. SameCount(o, w)
          BY <4>1 DEF SameCount
      <4>4. ~(o.at < w.at)
          BY <1>2, <3>2, <3>3, <4>1, <4>3 DEF WindowInv
      <4>5. o.at = w.at
          BY <3>3, <4>1, <4>2, <4>4
      <4>6. InWindowOf(o, w) /\ InWindowOf(w, w)
          BY <1>2, <3>2, <3>3, <4>1, <4>3, <4>5 DEF InWindowOf, SameCount
      <4> QED
          BY <3>2, <3>3, <4>1, <4>6 DEF WindowInv
    <3>6. \A a \in accepted : InWindowOf(a, w) => a.n # x.n
      <4> SUFFICES ASSUME NEW a \in accepted, InWindowOf(a, w), a.n = x.n PROVE FALSE
          OBVIOUS
      <4>1. a \in Current(ip) /\ a.at \in Nat /\ a.n \in Nat /\ a.at + Window >= resetAt
          BY <1>2, <2>2, <3>2, <3>3 DEF InWindowOf, SameCount
      <4>2. a.n <= hits[ip].count
          BY <2>5, <4>1 DEF HitsInv
      <4> QED
          BY <1>5, <2>5, <3>1, <4>1, <4>2
    <3>7. WindowInv'
      <4>1. \A a \in accepted' :
                /\ a.n >= 1 /\ a.n <= RateLimit
                /\ a.instance <= instance'
                /\ \E o \in accepted' : InWindowOf(a, o)
        <5>1. x.n >= 1 /\ x.n <= RateLimit /\ x.instance <= instance'
            BY <1>1, <1>2, <1>5, <2>5, <3>1
        <5> QED
            BY <1>1, <1>5, <3>3, <3>4, <5>1 DEF WindowInv
      <4>2. \A o, q \in accepted' : SameCount(o, q) /\ o.n = 1 /\ q.n = 1 /\ o.at < q.at =>
                o.at + Window < q.at
        <5>1. x.n # 1
            BY <1>5, <3>1
        <5> QED
            BY <1>5, <5>1 DEF WindowInv
      <4>3. \A a, b, o \in accepted' : InWindowOf(a, o) /\ InWindowOf(b, o) /\ a.n = b.n =>
                a = b
        <5>1. x.n # 1
            BY <1>5, <3>1
        <5>2. \A a : ~InWindowOf(a, x)
            BY <5>1 DEF InWindowOf
        <5> QED
            BY <1>5, <3>5, <3>6, <5>2 DEF WindowInv
      <4> QED
          BY <4>1, <4>2, <4>3 DEF WindowInv, InWindowOf, SameCount
    <3>8. \A a \in Current(ip) \cup {x} :
              /\ a.at <= resetAt /\ a.at <= now
              /\ a.at + Window >= resetAt => a.n <= count
              /\ a.n = 1 => a.at + Window <= resetAt
      <4>1. \A a \in Current(ip) : a.at \in Nat /\ a.n \in Nat
          BY <1>2 DEF Current
      <4>2. \A a \in Current(ip) :
              /\ a.at <= resetAt /\ a.at <= now
              /\ a.at + Window >= resetAt => a.n <= count
              /\ a.n = 1 => a.at + Window <= resetAt
          BY <1>2, <2>5, <3>1, <4>1 DEF HitsInv
      <4> QED
          BY <1>2, <1>5, <2>5, <3>1, <4>2
    <3>9. count >= 1 /\ w \in Current(ip) \cup {x}
        BY <2>5, <3>1, <3>2
    <3>10. HitsInv'
      <4> SUFFICES ASSUME NEW q \in Addresses
                   PROVE  /\ hits'[q] = None => Current(q)' = {}
                          /\ hits'[q] # None =>
                                /\ hits'[q].count >= 1
                                /\ \E o \in Current(q)' :
                                      o.n = 1 /\ o.at + Window = hits'[q].resetAt
                                /\ \A a \in Current(q)' :
                                      /\ a.at <= hits'[q].resetAt
                                      /\ a.at <= now'
                                      /\ a.at + Window >= hits'[q].resetAt => a.n <= hits'[q].count
                                      /\ a.n = 1 => a.at + Window <= hits'[q].resetAt
          BY DEF HitsInv
      <4>1. CASE q # ip
          BY <1>1, <1>3, <4>1 DEF HitsInv
      <4>2. CASE q = ip
          BY <1>1, <2>1, <3>2, <3>8, <3>9, <4>2
      <4> QED
          BY <4>1, <4>2
    <3> QED
        BY <3>7, <3>10
  <2> QED
      BY <1>1, <2>4, <2>5
<1> QED
    BY <1>1, <1>4, <1>5

\* No step of a visitor, the clock or a redeployment mixes two windows.
LEMMA WindowInductive ==
    WaitlistTypeOK /\ WindowInv /\ HitsInv /\ [WaitlistNext]_waitlistVars
    => WindowInv' /\ HitsInv'
<1> SUFFICES ASSUME WaitlistTypeOK, WindowInv, HitsInv, [WaitlistNext]_waitlistVars
             PROVE  WindowInv' /\ HitsInv'
    OBVIOUS
<1>1. now \in Nat
    BY DEF WaitlistTypeOK
<1>2. CASE Redeploy
  <2>1. /\ instance' = instance + 1 /\ accepted' = accepted
        /\ \A ip \in Addresses : hits'[ip] = None
      BY <1>2 DEF Redeploy
  <2>2. instance \in Nat /\ \A a \in accepted : a.instance \in Nat
      BY DEF WaitlistTypeOK, Admitted
  <2>3. \A a \in accepted : a.instance <= instance
      BY DEF WindowInv
  <2>4. \A ip \in Addresses : Current(ip)' = {}
      BY <2>1, <2>2, <2>3 DEF Current
  <2>5. \A a \in accepted : a.instance <= instance'
      BY <2>1, <2>2, <2>3
  <2> QED
      BY <2>1, <2>4, <2>5 DEF HitsInv, WindowInv, InWindowOf, SameCount
<1>3. CASE Tick
    BY <1>1, <1>3, WindowFrame DEF Tick
<1>4. ASSUME NEW v \in Visitors, Submit(v) \/ Notify(v) \/ Answered(v) \/ Lost(v)
      PROVE  WindowInv' /\ HitsInv'
    BY <1>1, <1>4, WindowFrame DEF Submit, Notify, Answered, Lost
<1>5. CASE UNCHANGED waitlistVars
    BY <1>1, <1>5, WindowFrame DEF waitlistVars
<1> QED
    BY <1>2, <1>3, <1>4, <1>5, WindowAdmit DEF WaitlistNext

-----------------------------------------------------------------------------
(* The count.                                                              *)

\* In a stretch as long as a window one window may begin.  The requests from
\* there on have numbers up to the limit, and those before it are of one
\* window that began before the stretch, so they are not its first.
LEMMA FewWithin ==
    ASSUME WaitlistTypeOK, WindowInv, NEW ip, NEW i, NEW t \in Nat
    PROVE  Cardinality(Within(ip, i, t)) < 2 * RateLimit
<1>1. RateLimit \in Nat /\ RateLimit >= 1 /\ Window \in Nat
    BY WaitlistAssumption
<1>2. \A a \in accepted : a.at \in Nat /\ a.n \in Nat /\ a.n >= 1 /\ a.n <= RateLimit
    BY DEF WaitlistTypeOK, Admitted, WindowInv
<1> DEFINE S == Within(ip, i, t)
           Starts(o) == o \in accepted /\ o.ip = ip /\ o.instance = i /\ o.n = 1
           late(a) == \E p \in S : p.n = 1 /\ p.at <= a.at
           f == [a \in S |-> IF late(a) THEN a.n ELSE RateLimit + a.n - 1]
<1>3. \A a \in S : a \in accepted /\ a.ip = ip /\ a.instance = i /\ t <= a.at /\ a.at <= t + Window
    BY <1>1, <1>2 DEF Within
<1>4. \A a \in accepted : a.ip = ip /\ a.instance = i /\ t <= a.at /\ a.at <= t + Window => a \in S
    BY <1>1, <1>2 DEF Within
<1> HIDE DEF S
<1>5. \A o, q : Starts(o) /\ Starts(q) /\ o.at < q.at => o.at + Window < q.at
    BY DEF WindowInv, SameCount
<1>6. \A o, q : Starts(o) /\ Starts(q) /\ o.at = q.at => o = q
  <2> SUFFICES ASSUME NEW o, NEW q, Starts(o), Starts(q), o.at = q.at PROVE o = q
      OBVIOUS
  <2>1. InWindowOf(q, o) /\ InWindowOf(o, o)
      BY <1>1, <1>2 DEF InWindowOf, SameCount
  <2> QED
      BY <2>1 DEF WindowInv
<1>7. \A a \in S : \E o : Starts(o) /\ o.at <= a.at /\ a.at <= o.at + Window
    BY <1>3 DEF WindowInv, InWindowOf, SameCount
<1>8. \A a, b \in S : \A o : Starts(o) /\ o.at <= a.at /\ a.at <= o.at + Window
                            /\ o.at <= b.at /\ b.at <= o.at + Window /\ a.n = b.n => a = b
    BY <1>3 DEF WindowInv, InWindowOf, SameCount
<1>9. \A a \in S, p \in S : p.n = 1 /\ p.at <= a.at => Starts(p) /\ a.at <= p.at + Window
    BY <1>1, <1>2, <1>3
<1>10. \A p, q \in S : p.n = 1 /\ q.n = 1 => p = q
  <2> SUFFICES ASSUME NEW p \in S, NEW q \in S, p.n = 1, q.n = 1 PROVE p = q
      OBVIOUS
  <2>1. Starts(p) /\ Starts(q) /\ p.at \in Nat /\ q.at \in Nat
      BY <1>2, <1>3
  <2>2. ~(p.at < q.at) /\ ~(q.at < p.at)
      BY <1>1, <1>3, <1>5, <2>1
  <2> QED
      BY <1>6, <2>1, <2>2
<1>11. \A a, b \in S : late(a) /\ late(b) /\ a.n = b.n => a = b
    BY <1>8, <1>9, <1>10
<1>12. \A a \in S : ~late(a) =>
           \E o : Starts(o) /\ o.at <= a.at /\ a.at <= o.at + Window /\ o.at < t
  <2> SUFFICES ASSUME NEW a \in S, ~late(a)
               PROVE  \E o : Starts(o) /\ o.at <= a.at /\ a.at <= o.at + Window /\ o.at < t
      OBVIOUS
  <2>1. PICK o : Starts(o) /\ o.at <= a.at /\ a.at <= o.at + Window
      BY <1>7
  <2>2. o \notin S
      BY <2>1
  <2>3. o.at \in Nat /\ a.at \in Nat
      BY <1>2, <1>3, <2>1
  <2>4. o.at < t
      BY <1>1, <1>3, <1>4, <2>1, <2>2, <2>3
  <2> QED
      BY <2>1, <2>4
<1>13. \A a \in S : ~late(a) => a.n # 1
  <2> SUFFICES ASSUME NEW a \in S, a.n = 1 PROVE late(a)
      OBVIOUS
  <2>1. a.at <= a.at
      BY <1>2, <1>3
  <2> QED
      BY <2>1
<1>14. \A a, b \in S : ~late(a) /\ ~late(b) /\ a.n = b.n => a = b
  <2> SUFFICES ASSUME NEW a \in S, NEW b \in S, ~late(a), ~late(b), a.n = b.n PROVE a = b
      OBVIOUS
  <2>1. PICK o : Starts(o) /\ o.at <= a.at /\ a.at <= o.at + Window /\ o.at < t
      BY <1>12
  <2>2. PICK q : Starts(q) /\ q.at <= b.at /\ b.at <= q.at + Window /\ q.at < t
      BY <1>12
  <2>3. /\ o.at \in Nat /\ q.at \in Nat /\ a.at \in Nat /\ b.at \in Nat
        /\ t <= a.at /\ t <= b.at
      BY <1>2, <1>3, <2>1, <2>2
  <2>4. ~(o.at < q.at) /\ ~(q.at < o.at)
      BY <1>1, <1>5, <2>1, <2>2, <2>3
  <2>5. o = q
      BY <1>6, <2>1, <2>2, <2>3, <2>4
  <2> QED
      BY <1>8, <2>1, <2>2, <2>5
<1> DEFINE T == 1..(2 * RateLimit - 1)
<1>15. \A a \in S : /\ late(a) => f[a] = a.n
                    /\ ~late(a) => f[a] = RateLimit + a.n - 1
    OBVIOUS
<1>16. f \in [S -> T]
  <2>1. \A a \in S : f[a] \in T
    <3> HIDE DEF late, f
    <3> QED
        BY <1>1, <1>2, <1>3, <1>13, <1>15
  <2> QED
      BY <2>1
<1>17. \A a, b \in S : f[a] = f[b] => a = b
  <2> SUFFICES ASSUME NEW a \in S, NEW b \in S, f[a] = f[b] PROVE a = b
      OBVIOUS
  <2>1. /\ a.n \in Nat /\ b.n \in Nat
        /\ a.n >= 1 /\ a.n <= RateLimit /\ b.n >= 1 /\ b.n <= RateLimit
      BY <1>2, <1>3
  <2> HIDE DEF late, f
  <2>2. CASE late(a) <=> late(b)
    <3>1. a.n = b.n
        BY <1>1, <1>15, <2>1, <2>2
    <3> QED
        BY <1>11, <1>14, <2>2, <3>1
  <2>3. CASE ~(late(a) <=> late(b))
      BY <1>1, <1>13, <1>15, <2>1, <2>3
  <2> QED
      BY <2>2, <2>3
<1> HIDE DEF f
<1>18. f \in Injection(S, T)
    BY <1>16, <1>17 DEF Injection, IsInjective
<1>19. IsFiniteSet(T) /\ Cardinality(T) = 2 * RateLimit - 1
    BY <1>1, FS_Interval
<1> HIDE DEF T
<1>20. IsFiniteSet(S) /\ Cardinality(S) <= Cardinality(T)
    BY <1>18, <1>19, FS_Injection
<1>21. Cardinality(S) \in Nat
    BY <1>20, FS_CardinalityType
<1>22. Cardinality(S) < 2 * RateLimit
    BY <1>1, <1>19, <1>20, <1>21
<1> QED
    BY <1>22 DEF S

\* An instance lets fewer than twice the limit through from an address in any
\* stretch as long as a window, wherever the stretch lies.
THEOREM LimitHolds == WaitlistSpec => []AtMostTwice
<1>1. WaitlistInit => WindowInv /\ HitsInv
    BY DEF WaitlistInit, WindowInv, HitsInv, Current
<1>2. WaitlistTypeOK /\ WindowInv => AtMostTwice
  <2> SUFFICES ASSUME WaitlistTypeOK, WindowInv, NEW ip \in Addresses,
                      NEW i \in 0..instance, NEW t \in 0..now
               PROVE  Cardinality(Within(ip, i, t)) < 2 * RateLimit
      BY DEF AtMostTwice
  <2>1. t \in Nat
      BY DEF WaitlistTypeOK
  <2> QED
      BY <2>1, FewWithin
<1> QED
    BY <1>1, <1>2, WindowInductive, WaitlistTypes, PTL DEF WaitlistSpec

-----------------------------------------------------------------------------
(* The tokenizer.  It is made of recursive functions.                      *)

\* The texts that may be typed, of any length.
WordTexts == UNION {[1..n -> Words] : n \in Nat}

\* A text is a sequence of words.
LEMMA TextLength ==
    ASSUME NEW text \in WordTexts
    PROVE  /\ Len(text) \in Nat
           /\ text \in [1..Len(text) -> Words]
           /\ text \in Seq(Words)
BY DEF WordTexts

-----------------------------------------------------------------------------
\* A run of names starts with at least two of them and at most four, the
\* longest there is.
LEMMA NameAtLongest ==
    ASSUME NEW text, NEW i \in Int
    PROVE  /\ NameAt(text, i) \in 0..4
           /\ NameAt(text, i) = 0 => ~NameGoesOn(text, i)
           /\ NameAt(text, i) # 0 =>
                 /\ NameAt(text, i) >= 2
                 /\ \A k \in 0..(NameAt(text, i) - 2) : NameGoesOn(text, i + k)
           /\ NameAt(text, i) \in {2, 3} => ~NameGoesOn(text, i + (NameAt(text, i) - 1))
<1> DEFINE G(k) == NameGoesOn(text, i + k)
           runs == {n \in 2..4 : \A k \in 0..(n-2) : G(k)}
           longest == CHOOSE n \in runs : \A m \in runs : m <= n
<1>1. NameAt(text, i) = IF runs = {} THEN 0 ELSE longest
    BY DEF NameAt
<1> HIDE DEF G
<1>2. /\ 2 \in runs <=> G(0)
      /\ 3 \in runs <=> G(0) /\ G(1)
      /\ 4 \in runs <=> G(0) /\ G(1) /\ G(2)
    <2>1. /\ 0..(2-2) = {0} /\ 0..(3-2) = {0, 1} /\ 0..(4-2) = {0, 1, 2}
        OBVIOUS
    <2> QED
        BY <2>1
<1>3. runs \subseteq {2, 3, 4}
    OBVIOUS
<1> HIDE DEF runs
<1>4. CASE runs = {}
    BY <1>1, <1>2, <1>4 DEF G
<1>5. CASE runs # {}
  <2>1. \E n \in runs : \A m \in runs : m <= n
    <3>1. CASE 4 \in runs
      <4>1. \A m \in runs : m <= 4
          BY <1>3
      <4> QED
          BY <3>1, <4>1
    <3>2. CASE 4 \notin runs /\ 3 \in runs
      <4>1. \A m \in runs : m <= 3
          BY <1>3, <3>2
      <4> QED
          BY <3>2, <4>1
    <3>3. CASE 4 \notin runs /\ 3 \notin runs
      <4>1. PICK x : x \in runs
          BY <1>5
      <4>2. \A y \in runs : y = 2
          BY <1>3, <3>3
      <4>3. \A m \in runs : m <= x
          BY <4>1, <4>2
      <4> QED
          BY <4>1, <4>3
    <3> QED
        BY <3>1, <3>2, <3>3
  <2>2. longest \in runs /\ \A m \in runs : m <= longest
      BY <2>1
  <2> HIDE DEF longest
  <2>3. longest \in {2, 3, 4}
      BY <1>3, <2>2
  <2>4. \A k \in 0..(longest - 2) : G(k)
      BY <2>2, <2>3 DEF runs
  <2>5. longest \in {2, 3} => ~G(longest - 1)
      BY <1>2, <2>2, <2>3
  <2> QED
      BY <1>1, <1>5, <2>3, <2>4, <2>5 DEF G
<1> QED
    BY <1>4, <1>5

\* A match of the PERSON pattern ends within the text.
LEMMA NameFits ==
    ASSUME NEW text \in WordTexts, NEW i \in 1..(Len(text) + 1), NameAt(text, i) # 0
    PROVE  i \in 1..Len(text) /\ i + NameAt(text, i) \in (i + 2)..(Len(text) + 1)
<1> DEFINE n == NameAt(text, i)
<1>1. n \in 0..4 /\ n >= 2 /\ \A k \in 0..(n - 2) : NameGoesOn(text, i + k)
    BY NameAtLongest
<1> HIDE DEF n
<1>2. NameGoesOn(text, i + (n - 2))
    BY <1>1
<1>3. Titled(text, i + (n - 2) + 1)
    BY <1>2 DEF NameGoesOn
<1>4. i + (n - 2) + 1 \in 1..Len(text)
    BY <1>3 DEF Titled
<1> QED
    BY <1>1, <1>4, TextLength DEF n

-----------------------------------------------------------------------------
(* The scan for names: its recursive function exists.                      *)

\* What the scan f finds from word i on.
Scan(text, f, i) ==
    IF i > Len(text) THEN {}
    ELSE IF NameAt(text, i) = 0 THEN f[i + 1]
    ELSE {[type |-> "PERSON", start |-> i, len |-> NameAt(text, i)]}
         \cup f[i + NameAt(text, i)]

ScansFrom(text, f, first) ==
    f = [i \in first..(Len(text) + 1) |-> Scan(text, f, i)]

Scans(text, f) == f = [i \in 1..(Len(text) + 1) |-> Scan(text, f, i)]

\* What the scan finds from a word on depends on the words after it only.
LEMMA ScanLocal ==
    ASSUME NEW text \in WordTexts, NEW i \in 1..(Len(text) + 1), NEW f, NEW g,
           \A j \in (i + 1)..(Len(text) + 1) : f[j] = g[j]
    PROVE  Scan(text, f, i) = Scan(text, g, i)
<1>1. Len(text) \in Nat
    BY TextLength
<1>2. CASE i > Len(text)
    BY <1>2 DEF Scan
<1>3. CASE ~(i > Len(text)) /\ NameAt(text, i) = 0
    BY <1>1, <1>3 DEF Scan
<1>4. CASE ~(i > Len(text)) /\ NameAt(text, i) # 0
  <2>1. i + NameAt(text, i) \in (i + 1)..(Len(text) + 1)
      BY <1>1, <1>4, NameFits
  <2> QED
      BY <1>4, <2>1 DEF Scan
<1> QED
    BY <1>2, <1>3, <1>4

\* There is such a scan of every text: built from its end, one word at a time.
LEMMA ScanExists ==
    ASSUME NEW text \in WordTexts
    PROVE  \E f : Scans(text, f)
<1> DEFINE n == Len(text)
           Bad == {k \in 0..n : \A f : ~ScansFrom(text, f, n + 1 - k)}
<1>1. n \in Nat
    BY TextLength
<1> HIDE DEF n
<1>2. ASSUME NEW k \in 0..n, \A j \in 0..n : j < k => j \notin Bad
      PROVE  \E f : ScansFrom(text, f, n + 1 - k)
  <2>1. CASE k = 0
    <3> DEFINE f == [i \in (n + 1 - k)..(n + 1) |-> {}]
    <3>1. \A i \in (n + 1 - k)..(n + 1) : Scan(text, f, i) = {}
        BY <1>1, <2>1 DEF Scan, n
    <3>2. ScansFrom(text, f, n + 1 - k)
        BY <3>1 DEF ScansFrom, n
    <3> QED
        BY <3>2
  <2>2. CASE k # 0
    <3>1. PICK f : ScansFrom(text, f, n + 1 - (k - 1))
        BY <1>1, <1>2, <2>2
    <3> DEFINE first == n + 1 - k
               g == [i \in first..(n + 1) |-> IF i = first THEN Scan(text, f, i) ELSE f[i]]
    <3>2. first \in 1..n /\ n + 1 - (k - 1) = first + 1
        BY <1>1, <2>2
    <3>3. ScansFrom(text, f, first + 1)
        BY <3>1, <3>2
    <3>4. \A i \in (first + 1)..(n + 1) : f[i] = Scan(text, f, i)
        BY <3>3 DEF ScansFrom, n
    <3> HIDE DEF first
    <3>5. \A i \in (first + 1)..(n + 1) : g[i] = f[i]
        BY <1>1, <3>2
    <3>6. \A i \in first..(n + 1) : Scan(text, f, i) = Scan(text, g, i)
      <4> SUFFICES ASSUME NEW i \in first..(n + 1) PROVE Scan(text, f, i) = Scan(text, g, i)
          OBVIOUS
      <4>1. i \in 1..(Len(text) + 1)
          BY <1>1, <3>2 DEF n
      <4>2. \A j \in (i + 1)..(Len(text) + 1) : f[j] = g[j]
          BY <1>1, <3>2, <3>5 DEF n
      <4> HIDE DEF g
      <4> QED
          BY <4>1, <4>2, ScanLocal
    <3>7. \A i \in first..(n + 1) : g[i] = Scan(text, f, i)
        BY <1>1, <3>2, <3>4
    <3>8. g = [i \in first..(n + 1) |-> Scan(text, g, i)]
        BY <3>6, <3>7
    <3> HIDE DEF g
    <3>9. ScansFrom(text, g, first)
        BY <3>8 DEF ScansFrom, n
    <3> QED
        BY <3>9 DEF first
  <2> QED
      BY <2>1, <2>2
<1>3. Bad = {}
  <2> SUFFICES ASSUME Bad # {} PROVE FALSE
      OBVIOUS
  <2>1. Bad \subseteq Nat
      BY <1>1
  <2> HIDE DEF Bad
  <2>2. PICK k \in Bad : \A j \in Bad : k <= j
      BY <2>1, LeastNumber
  <2>3. k \in 0..n /\ \A j \in 0..n : j < k => j \notin Bad
      BY <1>1, <2>1, <2>2 DEF Bad
  <2>4. \E f : ScansFrom(text, f, n + 1 - k)
      BY <1>2, <2>3
  <2> QED
      BY <2>2, <2>4 DEF Bad
<1>4. \E f : ScansFrom(text, f, n + 1 - n)
  <2>1. n \in 0..n
      BY <1>1
  <2> QED
      BY <1>3, <2>1
<1> QED
    BY <1>1, <1>4 DEF ScansFrom, Scans, n

\* The model's function of the matches is that scan.
LEMMA CandidatesScanned ==
    ASSUME NEW text \in WordTexts
    PROVE  \E f : Scans(text, f) /\ Candidates(text) = f[1]
<1> DEFINE g == CHOOSE f : Scans(text, f)
<1>1. Scans(text, g)
    BY ScanExists
<1>2. Candidates(text) = g[1]
    BY DEF Candidates, Scans, Scan
<1> QED
    BY <1>1, <1>2

-----------------------------------------------------------------------------
(* What the scan finds.                                                    *)

\* The scan comes by the first word of every run.
LEMMA ScanComesBy ==
    ASSUME NEW text \in WordTexts, NEW f, Scans(text, f),
           NEW i \in 1..Len(text), ~NameGoesOn(text, i - 1)
    PROVE  f[i] \subseteq f[1]
<1> DEFINE n == Len(text)
           Ahead == {k \in 0..(i - 1) : f[i - k] \subseteq f[1]}
<1>1. n \in Nat
    BY TextLength
<1>2. \A j \in 1..(n + 1) : f[j] = Scan(text, f, j)
    BY DEF Scans
<1>3. i - 1 \in Ahead
    BY <1>1
<1>4. Ahead \subseteq Nat
    BY <1>1
<1> HIDE DEF Ahead
<1>5. PICK k \in Ahead : \A l \in Ahead : k <= l
    BY <1>3, <1>4, LeastNumber
<1>6. k \in 0..(i - 1) /\ f[i - k] \subseteq f[1]
    BY DEF Ahead
<1>7. CASE k = 0
    BY <1>6, <1>7
<1>8. CASE k # 0
  <2> DEFINE p == i - k
             len == NameAt(text, p)
  <2>1. p \in 1..n /\ p < i /\ p \in 1..(n + 1)
      BY <1>1, <1>6, <1>8
  <2>2. f[p] = IF len = 0 THEN f[p + 1]
               ELSE {[type |-> "PERSON", start |-> p, len |-> len]} \cup f[p + len]
    <3>1. f[p] = Scan(text, f, p)
        BY <1>2, <2>1
    <3>2. ~(p > Len(text))
        BY <1>1, <2>1
    <3> HIDE DEF p
    <3> QED
        BY <3>1, <3>2 DEF Scan
  <2>3. /\ len \in 0..4
        /\ len # 0 => len >= 2 /\ \A l \in 0..(len - 2) : NameGoesOn(text, p + l)
      BY <2>1, NameAtLongest
  <2> DEFINE step == IF len = 0 THEN 1 ELSE len
  <2>4. f[p + step] \subseteq f[1]
      BY <1>6, <2>2
  <2> HIDE DEF p, len
  <2>5. p + step <= i
    <3> SUFFICES ASSUME len # 0, p + len > i PROVE FALSE
        BY <2>1, <2>3
    <3>1. i - 1 - p \in 0..(len - 2)
        BY <2>1, <2>3
    <3>2. NameGoesOn(text, p + (i - 1 - p))
        BY <2>3, <3>1
    <3>3. p + (i - 1 - p) = i - 1
        BY <2>1
    <3> QED
        BY <3>2, <3>3
  <2>6. /\ i - (p + step) \in 0..(i - 1) /\ i - (p + step) < k
        /\ i - (i - (p + step)) = p + step
    <3>1. step \in 1..4 /\ p \in Nat /\ i \in Nat
        BY <1>1, <2>1, <2>3
    <3>2. p = i - k /\ k \in Nat
        BY <1>6 DEF p
    <3> HIDE DEF step
    <3> QED
        BY <2>5, <3>1, <3>2
  <2>7. i - (p + step) \in Ahead
      BY <2>4, <2>6 DEF Ahead
  <2> QED
      BY <1>4, <1>5, <2>6, <2>7
<1> QED
    BY <1>7, <1>8

\* What the pattern matches at the first word of a run is a candidate.
LEMMA FirstIsCandidate ==
    ASSUME NEW text \in WordTexts, NEW i \in 1..Len(text),
           ~NameGoesOn(text, i - 1), NameAt(text, i) # 0
    PROVE  [type |-> "PERSON", start |-> i, len |-> NameAt(text, i)] \in Candidates(text)
<1>1. PICK f : Scans(text, f) /\ Candidates(text) = f[1]
    BY CandidatesScanned
<1>2. Len(text) \in Nat /\ i \in 1..(Len(text) + 1)
    BY TextLength
<1>3. f[i] = Scan(text, f, i)
    BY <1>1, <1>2 DEF Scans
<1>4. [type |-> "PERSON", start |-> i, len |-> NameAt(text, i)] \in f[i]
    BY <1>2, <1>3 DEF Scan
<1>5. f[i] \subseteq f[1]
    BY <1>1, ScanComesBy
<1> QED
    BY <1>1, <1>4, <1>5

\* A capitalised word beside another is in a match that stays, but for the
\* exceptions.
LEMMA NameIsFound ==
    ASSUME NEW text \in WordTexts, NEW i \in 1..Len(text),
           NameGoesOn(text, i) \/ NameGoesOn(text, i - 1),
           LET run == RunOf(text, i)
               first == CHOOSE j \in run : \A k \in run : j <= k
           IN  /\ ~(Cardinality(run) > 4)
               /\ \A j \in run : ~Claimed(text, j)
               /\ <<text[first].value, text[first + 1].value>> \notin NonNames
    PROVE  \E m \in Persons(text) : i \in m.start .. (m.start + m.len - 1)
<1> DEFINE run == RunOf(text, i)
           first == CHOOSE j \in run : \A k \in run : j <= k
           GoesOn(j) == NameGoesOn(text, j)
<1>1. Len(text) \in Nat /\ i \in Nat
    BY TextLength
<1>2. \A j : j \in run <=> /\ j \in 1..Len(text)
                           /\ i < j => \A k \in i..(j-1) : GoesOn(k)
                           /\ ~(i < j) => \A k \in j..(i-1) : GoesOn(k)
    BY DEF RunOf
<1> HIDE DEF run
<1>3. i \in run /\ run \subseteq Nat
    BY <1>1, <1>2
<1>4. first \in run /\ \A k \in run : first <= k
    BY <1>3, LeastNumber
<1> HIDE DEF first
<1>5. first \in 1..i /\ \A k \in first..(i-1) : GoesOn(k)
    BY <1>1, <1>2, <1>3, <1>4
<1>6. ~GoesOn(first - 1)
  <2> SUFFICES ASSUME GoesOn(first - 1) PROVE FALSE
      OBVIOUS
  <2>1. first - 1 \in 1..Len(text)
      BY DEF NameGoesOn
  <2>2. first - 1 \in run
      BY <1>1, <1>2, <1>5, <2>1
  <2> QED
      BY <1>4, <1>5, <2>2
<1>7. GoesOn(first)
  <2>1. CASE first < i
      BY <1>1, <1>5, <2>1
  <2>2. CASE first = i
      BY <1>6, <2>2
  <2> QED
      BY <1>1, <1>5, <2>1, <2>2
<1> DEFINE n == NameAt(text, first)
<1>8. /\ first \in 1..Len(text)
      /\ n \in {2, 3, 4}
      /\ \A k \in 0..(n - 2) : GoesOn(first + k)
      /\ n \in {2, 3} => ~GoesOn(first + (n - 1))
    BY <1>1, <1>5, <1>7, NameAtLongest
<1>9. first + n <= Len(text) + 1
  <2>1. first \in 1..(Len(text) + 1) /\ n # 0
      BY <1>1, <1>8
  <2>2. first + n \in (first + 2)..(Len(text) + 1)
      BY <2>1, NameFits
  <2> QED
      BY <1>1, <2>2
<1>10. [type |-> "PERSON", start |-> first, len |-> n] \in Candidates(text)
    BY <1>6, <1>8, FirstIsCandidate
<1> HIDE DEF n, GoesOn
<1>11. i < first + n
  <2> SUFFICES ASSUME i >= first + n PROVE FALSE
      BY <1>1, <1>5, <1>8
  <2>1. CASE n # 4
    <3>1. first + (n - 1) \in first..(i - 1)
        BY <1>1, <1>5, <1>8, <2>1
    <3> QED
        BY <1>5, <1>8, <2>1, <3>1
  <2>2. CASE n = 4
    <3>1. ASSUME NEW j \in first..i PROVE j \in run
      <4>1. j \in 1..Len(text) /\ ~(i < j) /\ \A k \in j..(i-1) : k \in first..(i-1)
          BY <1>1, <1>5
      <4> QED
          BY <1>2, <1>5, <4>1
    <3>2. Cardinality(first..i) >= 5 /\ IsFiniteSet(first..i)
      <4>1. first \in Int /\ i \in Int /\ ~(first > i) /\ i - first + 1 >= 5
          BY <1>1, <1>5, <2>2
      <4> QED
          BY <4>1, FS_Interval
    <3>3. run \in SUBSET (1..Len(text)) /\ IsFiniteSet(1..Len(text))
        BY <1>1, <1>2, FS_Interval
    <3>4. IsFiniteSet(run) /\ Cardinality(run) \in Nat
        BY <3>3, FS_Subset, FS_CardinalityType
    <3>5. Cardinality(first..i) <= Cardinality(run)
        BY <3>1, <3>4, FS_Subset
    <3>6. Cardinality(first..i) \in Nat
        BY <3>2, FS_CardinalityType
    <3>7. ~(Cardinality(run) > 4)
        BY DEF run
    <3> QED
        BY <3>2, <3>4, <3>5, <3>6, <3>7
  <2> QED
      BY <2>1, <2>2
<1>12. ASSUME NEW j \in first..(first + n - 1) PROVE j \in run
  <2>1. j \in 1..Len(text)
      BY <1>1, <1>5, <1>8, <1>9
  <2>2. \A k \in first..(first + n - 2) : GoesOn(k)
    <3> SUFFICES ASSUME NEW k \in first..(first + n - 2) PROVE GoesOn(k)
        OBVIOUS
    <3>1. k - first \in 0..(n - 2) /\ first + (k - first) = k
        BY <1>1, <1>5, <1>8
    <3> QED
        BY <1>8, <3>1
  <2>3. CASE i < j
    <3>1. \A k \in i..(j-1) : k \in first..(first + n - 2)
        BY <1>1, <1>5, <1>8, <2>1, <2>3
    <3> QED
        BY <1>2, <2>1, <2>2, <2>3, <3>1
  <2>4. CASE ~(i < j)
    <3>1. \A k \in j..(i-1) : k \in first..(i-1)
        BY <1>1, <1>5, <2>1, <2>4
    <3> QED
        BY <1>2, <1>5, <2>1, <2>4, <3>1
  <2> QED
      BY <2>3, <2>4
<1> DEFINE m == [type |-> "PERSON", start |-> first, len |-> n]
<1>13. m.start = first /\ m.len = n
    OBVIOUS
<1>14. m \in Candidates(text)
    BY <1>10
<1> HIDE DEF m
<1>15. ~Overlaps(text, m)
    BY <1>12, <1>13 DEF Overlaps, run
<1>16. ~StartsNonName(text, m)
    BY <1>13 DEF StartsNonName, run, first
<1>17. m \in Persons(text)
    BY <1>14, <1>15, <1>16 DEF Persons
<1>18. i \in m.start .. (m.start + m.len - 1)
    BY <1>1, <1>5, <1>8, <1>11, <1>13
<1> QED
    BY <1>17, <1>18

-----------------------------------------------------------------------------
(* The matches.                                                            *)

\* A candidate is what the pattern matches at its first word.
LEMMA CandidateShape ==
    ASSUME NEW text \in WordTexts, NEW m \in Candidates(text)
    PROVE  /\ m.start \in 1..Len(text) /\ NameAt(text, m.start) # 0
           /\ m = [type |-> "PERSON", start |-> m.start, len |-> NameAt(text, m.start)]
<1> DEFINE n == Len(text)
           Shaped(x) == /\ x.start \in 1..n /\ NameAt(text, x.start) # 0
                        /\ x = [type |-> "PERSON", start |-> x.start,
                                len |-> NameAt(text, x.start)]
<1>1. PICK f : Scans(text, f) /\ Candidates(text) = f[1]
    BY CandidatesScanned
<1>2. n \in Nat
    BY TextLength
<1> DEFINE Bad == {k \in 0..n : \E x \in f[n + 1 - k] : ~Shaped(x)}
<1>3. Bad = {}
  <2> SUFFICES ASSUME Bad # {} PROVE FALSE
      OBVIOUS
  <2>1. Bad \subseteq Nat
      BY <1>2
  <2> HIDE DEF Bad
  <2>2. PICK k \in Bad : \A j \in Bad : k <= j
      BY <2>1, LeastNumber
  <2>3. k \in 0..n /\ \E x \in f[n + 1 - k] : ~Shaped(x)
      BY DEF Bad
  <2> DEFINE i == n + 1 - k
  <2>4. i \in 1..(n + 1) /\ (i > n <=> k = 0)
      BY <1>2, <2>3
  <2>5. f[i] = Scan(text, f, i)
      BY <1>1, <2>4 DEF Scans
  <2>6. ASSUME NEW j \in (i + 1)..(n + 1) PROVE \A x \in f[j] : Shaped(x)
    <3>1. n + 1 - j \in 0..n /\ n + 1 - j < k /\ n + 1 - (n + 1 - j) = j
        BY <1>2, <2>3, <2>4
    <3>2. n + 1 - j \notin Bad
        BY <1>2, <2>2, <2>3, <3>1
    <3> QED
        BY <3>1, <3>2 DEF Bad
  <2> HIDE DEF i
  <2>7. PICK x \in f[i] : ~Shaped(x)
      BY <2>3 DEF i
  <2> DEFINE len == NameAt(text, i)
  <2>8. CASE i > n
      BY <2>5, <2>7, <2>8 DEF Scan
  <2>9. CASE i <= n /\ len = 0
    <3>1. x \in f[i + 1] /\ i + 1 \in (i + 1)..(n + 1)
        BY <1>2, <2>4, <2>5, <2>7, <2>9 DEF Scan
    <3> QED
        BY <2>6, <2>7, <3>1
  <2>10. CASE i <= n /\ len # 0
    <3>1. \/ x = [type |-> "PERSON", start |-> i, len |-> len]
          \/ x \in f[i + len]
        BY <1>2, <2>4, <2>5, <2>7, <2>10 DEF Scan
    <3>2. i + len \in (i + 1)..(n + 1)
        BY <1>2, <2>4, <2>10, NameFits
    <3>3. CASE x = [type |-> "PERSON", start |-> i, len |-> len]
      <4>1. x.start = i
          BY <3>3
      <4> QED
          BY <2>4, <2>7, <2>10, <3>3, <4>1
    <3> QED
        BY <2>6, <2>7, <3>1, <3>2, <3>3
  <2> QED
      BY <1>2, <2>4, <2>8, <2>9, <2>10
<1>4. n \in 0..n /\ n \notin Bad /\ n + 1 - n = 1
    BY <1>2, <1>3
<1> QED
    BY <1>1, <1>4

EntityTypes == {"PERSON", "FORMAT"}

\* A match is of words of the text, and no two start at one word.
LEMMA MatchShape ==
    ASSUME NEW text \in WordTexts, NEW m \in Matches(text)
    PROVE  /\ m.type \in EntityTypes
           /\ m.start \in 1..Len(text) /\ m.len \in 1..4
           /\ m.start + m.len - 1 \in m.start..Len(text)
           /\ \A x \in Matches(text) : x.start = m.start => x = m
<1>1. Len(text) \in Nat
    BY TextLength
<1>2. ASSUME NEW x \in Persons(text)
      PROVE  /\ x.start \in 1..Len(text) /\ x.type = "PERSON"
             /\ x = [type |-> "PERSON", start |-> x.start, len |-> NameAt(text, x.start)]
             /\ x.len \in 2..4 /\ x.start + x.len - 1 \in x.start..Len(text)
             /\ ~Claimed(text, x.start)
  <2>1. x \in Candidates(text) /\ ~Overlaps(text, x)
      BY DEF Persons
  <2> DEFINE s == x.start
             l == NameAt(text, s)
  <2>2. s \in 1..Len(text) /\ l # 0 /\ x = [type |-> "PERSON", start |-> s, len |-> l]
      BY <2>1, CandidateShape
  <2>3. x.type = "PERSON" /\ x.len = l
      BY <2>2
  <2>4. s + l \in (s + 2)..(Len(text) + 1)
    <3>1. s \in 1..(Len(text) + 1)
        BY <1>1, <2>2
    <3> QED
        BY <2>2, <3>1, NameFits
  <2>5. l \in 0..4
      BY <2>2, NameAtLongest
  <2>6. s \in s..(s + l - 1) /\ l \in 2..4 /\ s + l - 1 \in s..Len(text)
      BY <1>1, <2>2, <2>4, <2>5
  <2>7. ~Claimed(text, s)
      BY <2>1, <2>3, <2>6 DEF Overlaps
  <2> QED
      BY <2>2, <2>3, <2>6, <2>7
<1>3. ASSUME NEW x \in Formats(text)
      PROVE  /\ x.start \in 1..Len(text) /\ x.type = "FORMAT" /\ x.len = 1
             /\ x = [type |-> "FORMAT", start |-> x.start, len |-> 1]
             /\ Claimed(text, x.start)
  <2>1. PICK i \in 1..Len(text) :
            /\ Claimed(text, i) /\ x = [type |-> "FORMAT", start |-> i, len |-> 1]
      BY DEF Formats
  <2>2. x.start = i /\ x.type = "FORMAT" /\ x.len = 1
      BY <2>1
  <2> QED
      BY <2>1, <2>2
<1>4. \A x \in Matches(text) : x \in Persons(text) \/ x \in Formats(text)
    BY DEF Matches
<1>5. CASE m \in Persons(text)
    BY <1>1, <1>2, <1>3, <1>4, <1>5 DEF EntityTypes
<1>6. CASE m \in Formats(text)
    BY <1>1, <1>2, <1>3, <1>4, <1>6 DEF EntityTypes
<1> QED
    BY <1>4, <1>5, <1>6

-----------------------------------------------------------------------------
(* The vault.                                                              *)

\* A key has one token, a token one key, and both are of the value the token
\* restores.
VaultOK(v) ==
    /\ v.count \in [EntityTypes -> Nat]
    /\ \A k \in DOMAIN v.token :
          /\ k = <<k[1], k[2]>> /\ k[1] \in EntityTypes
          /\ \E n \in 1..v.count[k[1]] : v.token[k] = <<k[1], n>>
          /\ v.token[k] \in DOMAIN v.orig
          /\ v.orig[v.token[k]] \in Seq(Words)
          /\ Lower(v.orig[v.token[k]]) = k[2]
    /\ \A k, l \in DOMAIN v.token : v.token[k] = v.token[l] => k = l
    /\ \A t \in DOMAIN v.orig :
          \E y \in EntityTypes : \E n \in 1..v.count[y] : t = <<y, n>>

\* What the one knows the other knows too.
Grows(v, w) ==
    \A k \in DOMAIN v.token : k \in DOMAIN w.token /\ w.token[k] = v.token[k]

\* Lower keeps the length of a text, and of every word its value.
LEMMA LowerLowers ==
    ASSUME NEW s \in Seq(Words)
    PROVE  /\ Len(Lower(s)) = Len(s)
           /\ \A i \in 1..Len(s) : Lower(s)[i] = s[i].value
BY DEF Lower

\* A token for a value: the one it has, or the next of its type.
LEMMA AssignKeeps ==
    ASSUME NEW v, VaultOK(v), NEW type \in EntityTypes, NEW words \in Seq(Words)
    PROVE  LET w == AssignToken(v, type, words)
           IN  VaultOK(w) /\ Grows(v, w) /\ Key(type, words) \in DOMAIN w.token
<1> DEFINE key == Key(type, words)
           n == v.count[type] + 1
           token == <<type, n>>
           w == AssignToken(v, type, words)
<1>1. CASE key \in DOMAIN v.token
    BY <1>1 DEF AssignToken, Grows
<1>2. CASE key \notin DOMAIN v.token
  <2>1. /\ w.orig = Having(v.orig, token, words)
        /\ w.token = Having(v.token, key, token)
        /\ w.count = [v.count EXCEPT ![type] = @ + 1]
      BY <1>2 DEF AssignToken
  <2>4. /\ w.count \in [EntityTypes -> Nat] /\ w.count[type] = n /\ n \in Nat
        /\ \A y \in EntityTypes : v.count[y] \in Nat /\ w.count[y] >= v.count[y]
        /\ \A y \in EntityTypes : 1..v.count[y] \subseteq 1..w.count[y]
        /\ n \in 1..w.count[type] /\ n \notin 1..v.count[type]
      BY <2>1 DEF VaultOK
  <2> HIDE DEF w, n
  <2>5. token \notin DOMAIN v.orig
    <3> SUFFICES ASSUME token \in DOMAIN v.orig PROVE FALSE
        OBVIOUS
    <3>1. PICK y \in EntityTypes : \E k \in 1..v.count[y] : token = <<y, k>>
        BY DEF VaultOK
    <3> QED
        BY <2>4, <3>1
  <2> HIDE DEF key
  <2>2. /\ DOMAIN w.orig = DOMAIN v.orig \cup {token}
        /\ \A t \in DOMAIN v.orig : w.orig[t] = v.orig[t]
        /\ w.orig[token] = words
      BY <2>1, <2>5 DEF Having
  <2>3. /\ DOMAIN w.token = DOMAIN v.token \cup {key}
        /\ \A k \in DOMAIN v.token : w.token[k] = v.token[k]
        /\ w.token[key] = token
      BY <1>2, <2>1 DEF Having
  <2>6. key = <<key[1], key[2]>> /\ key[1] = type /\ key[2] = Lower(words)
      BY DEF key, Key
  <2>7. ASSUME NEW k \in DOMAIN w.token
        PROVE  /\ k = <<k[1], k[2]>> /\ k[1] \in EntityTypes
               /\ \E i \in 1..w.count[k[1]] : w.token[k] = <<k[1], i>>
               /\ w.token[k] \in DOMAIN w.orig
               /\ w.orig[w.token[k]] \in Seq(Words)
               /\ Lower(w.orig[w.token[k]]) = k[2]
    <3>1. CASE k = key
        BY <2>2, <2>3, <2>4, <2>5, <2>6, <3>1
    <3>2. CASE k \in DOMAIN v.token
      <4>1. /\ k = <<k[1], k[2]>> /\ k[1] \in EntityTypes
            /\ v.token[k] \in DOMAIN v.orig
            /\ v.orig[v.token[k]] \in Seq(Words)
            /\ Lower(v.orig[v.token[k]]) = k[2]
          BY <3>2 DEF VaultOK
      <4>2. PICK i \in 1..v.count[k[1]] : v.token[k] = <<k[1], i>>
          BY <3>2 DEF VaultOK
      <4>3. w.token[k] = v.token[k] /\ i \in 1..w.count[k[1]]
          BY <2>3, <2>4, <3>2, <4>1, <4>2
      <4>4. w.orig[v.token[k]] = v.orig[v.token[k]]
          BY <2>2, <4>1
      <4> QED
          BY <2>2, <4>1, <4>2, <4>3, <4>4
    <3> QED
        BY <2>3, <3>1, <3>2
  <2>8. ASSUME NEW k \in DOMAIN v.token PROVE v.token[k] # token
    <3>1. v.token[k] \in DOMAIN v.orig
        BY DEF VaultOK
    <3> QED
        BY <2>5, <3>1
  <2>9. \A k, l \in DOMAIN w.token : w.token[k] = w.token[l] => k = l
      BY <2>3, <2>8 DEF VaultOK
  <2>10. ASSUME NEW t \in DOMAIN w.orig
         PROVE  \E y \in EntityTypes : \E i \in 1..w.count[y] : t = <<y, i>>
    <3>1. CASE t = token
        BY <2>4, <3>1
    <3>2. CASE t \in DOMAIN v.orig
      <4>1. PICK y \in EntityTypes : \E i \in 1..v.count[y] : t = <<y, i>>
          BY <3>2 DEF VaultOK
      <4> QED
          BY <2>4, <4>1
    <3> QED
        BY <2>2, <3>1, <3>2
  <2>11. VaultOK(w)
      BY <2>4, <2>7, <2>9, <2>10 DEF VaultOK
  <2>12. Grows(v, w) /\ key \in DOMAIN w.token
      BY <2>3 DEF Grows
  <2> QED
      BY <2>11, <2>12 DEF w, key
<1> QED
    BY <1>1, <1>2

-----------------------------------------------------------------------------
(* Assigning the tokens of a text: the recursive function exists.          *)

\* The vault after the words up to i, given f before.
AssignedAt(v, text, f, i) ==
    IF i = 0 THEN v
    ELSE IF \A m \in Matches(text) : m.start # i THEN f[i - 1]
    ELSE LET m == CHOOSE x \in Matches(text) : x.start = i IN
         AssignToken(f[i - 1], m.type, Original(text, m))

Assigns(v, text, f, last) == f = [i \in 0..last |-> AssignedAt(v, text, f, i)]

\* There is such an assignment for every text: built one word at a time.
LEMMA AssignsExist ==
    ASSUME NEW text, NEW v, NEW n \in Nat
    PROVE  \E f : Assigns(v, text, f, n)
<1> DEFINE Bad == {k \in 0..n : \A f : ~Assigns(v, text, f, k)}
<1>1. ASSUME NEW k \in 0..n, \A j \in 0..n : j < k => j \notin Bad
      PROVE  \E f : Assigns(v, text, f, k)
  <2>1. CASE k = 0
    <3> DEFINE f == [i \in 0..k |-> v]
    <3>1. \A i \in 0..k : AssignedAt(v, text, f, i) = v
        BY <2>1 DEF AssignedAt
    <3>2. Assigns(v, text, f, k)
        BY <3>1 DEF Assigns
    <3> QED
        BY <3>2
  <2>2. CASE k # 0
    <3>1. PICK f : Assigns(v, text, f, k - 1)
        BY <1>1, <2>2
    <3> DEFINE g == [i \in 0..k |-> IF i = k THEN AssignedAt(v, text, f, i) ELSE f[i]]
    <3>2. \A i \in 0..(k - 1) : g[i] = f[i] /\ f[i] = AssignedAt(v, text, f, i)
        BY <3>1 DEF Assigns
    <3>3. \A i \in 0..k : i = 0 \/ g[i - 1] = f[i - 1]
        BY <3>2
    <3>4. ASSUME NEW i \in 0..k PROVE g[i] = AssignedAt(v, text, f, i)
      <4>1. CASE i = k
          BY <4>1
      <4>2. CASE i # k
        <5>1. i \in 0..(k - 1)
            BY <4>2
        <5> HIDE DEF g
        <5> QED
            BY <3>2, <5>1
      <4> QED
          BY <4>1, <4>2
    <3>5. g = [i \in 0..k |-> g[i]]
        OBVIOUS
    <3> HIDE DEF g
    <3>6. \A i \in 0..k : AssignedAt(v, text, f, i) = AssignedAt(v, text, g, i)
        BY <3>3 DEF AssignedAt
    <3>7. g = [i \in 0..k |-> AssignedAt(v, text, g, i)]
        BY <3>4, <3>5, <3>6
    <3> QED
        BY <3>7 DEF Assigns
  <2> QED
      BY <2>1, <2>2
<1>2. Bad = {}
  <2> SUFFICES ASSUME Bad # {} PROVE FALSE
      OBVIOUS
  <2>1. Bad \subseteq Nat
      OBVIOUS
  <2> HIDE DEF Bad
  <2>2. PICK k \in Bad : \A j \in Bad : k <= j
      BY <2>1, LeastNumber
  <2>3. k \in 0..n /\ \A j \in 0..n : j < k => j \notin Bad
      BY <2>1, <2>2 DEF Bad
  <2>4. \E f : Assigns(v, text, f, k)
      BY <1>1, <2>3
  <2> QED
      BY <2>2, <2>4 DEF Bad
<1>3. n \in 0..n
    OBVIOUS
<1> QED
    BY <1>2, <1>3

\* To grow twice is to grow.
LEMMA GrowsOn ==
    ASSUME NEW u, NEW v, NEW w, Grows(u, v), Grows(v, w)
    PROVE  Grows(u, w)
BY DEF Grows

\* The words a match stands for are the words of the text at its place.
LEMMA OriginalWords ==
    ASSUME NEW text \in WordTexts, NEW m \in Matches(text)
    PROVE  /\ Original(text, m) \in Seq(Words)
           /\ Len(Original(text, m)) = m.len
           /\ \A k \in 1..m.len : Original(text, m)[k] = text[m.start + k - 1]
<1>1. text \in Seq(Words) /\ Len(text) \in Nat
    BY TextLength
<1>2. m.start \in 1..Len(text) /\ m.len \in 1..4 /\ m.start + m.len - 1 \in m.start..Len(text)
    BY MatchShape
<1> DEFINE i == m.start
           j == m.start + m.len - 1
<1>3. i \in 1..(Len(text) + 1) /\ j \in (i - 1)..Len(text) /\ j - i + 1 = m.len
      /\ i <= j /\ i = m.start /\ i \in Int
    BY <1>1, <1>2
<1>4. Original(text, m) = SubSeq(text, i, j)
    BY DEF Original
<1> HIDE DEF i, j
<1>5. /\ SubSeq(text, i, j) \in Seq(Words)
      /\ Len(SubSeq(text, i, j)) = IF i <= j THEN j - i + 1 ELSE 0
      /\ \A k \in 1..(j - i + 1) : SubSeq(text, i, j)[k] = text[i + k - 1]
  <2>1. i \in Int /\ j \in Int /\ \A k \in i..j : text[k] \in Words
      BY <1>1, <1>3
  <2> QED
      BY <2>1, SubSeqProperties
<1> QED
    BY <1>3, <1>4, <1>5

\* tokenize gives every match a token and takes none back.
LEMMA AssignFacts ==
    ASSUME NEW text \in WordTexts, NEW v, VaultOK(v)
    PROVE  LET w == Assign(v, text)
           IN  /\ VaultOK(w) /\ Grows(v, w)
               /\ \A m \in Matches(text) : Key(m.type, Original(text, m)) \in DOMAIN w.token
<1> DEFINE n == Len(text)
           f == CHOOSE g : Assigns(v, text, g, n)
           Done(i) == /\ VaultOK(f[i]) /\ Grows(v, f[i])
                      /\ \A m \in Matches(text) :
                            m.start <= i => Key(m.type, Original(text, m)) \in DOMAIN f[i].token
           Bad == {i \in 0..n : ~Done(i)}
<1>1. n \in Nat
    BY TextLength
<1>2. Assigns(v, text, f, n)
    BY <1>1, AssignsExist
<1>3. Assign(v, text) = f[n]
    BY DEF Assign, Assigns, AssignedAt
<1> HIDE DEF f
<1>4. \A i \in 0..n : f[i] = AssignedAt(v, text, f, i)
    BY <1>2 DEF Assigns
<1>5. Bad = {}
  <2> SUFFICES ASSUME Bad # {} PROVE FALSE
      OBVIOUS
  <2>1. Bad \subseteq Nat
      BY <1>1
  <2> HIDE DEF Bad
  <2>2. PICK k \in Bad : \A j \in Bad : k <= j
      BY <2>1, LeastNumber
  <2>3. k \in 0..n /\ ~Done(k)
      BY <2>2 DEF Bad
  <2>4. CASE k = 0
    <3>1. f[k] = v
        BY <1>4, <2>3, <2>4 DEF AssignedAt
    <3>2. \A m \in Matches(text) : ~(m.start <= k)
        BY <2>4, MatchShape
    <3>3. Grows(v, v)
        BY DEF Grows
    <3> QED
        BY <2>3, <3>1, <3>2, <3>3
  <2>5. CASE k # 0
    <3>1. k - 1 \in 0..n /\ k - 1 \notin Bad
        BY <1>1, <2>1, <2>2, <2>3, <2>5
    <3>2. Done(k - 1)
        BY <3>1 DEF Bad
    <3> DEFINE u == f[k - 1]
    <3>3. \A m \in Matches(text) :
              m.start \in Nat /\ (m.start <= k <=> m.start <= k - 1 \/ m.start = k)
      <4>1. \A m \in Matches(text) : m.start \in 1..n
          BY MatchShape
      <4> QED
          BY <1>1, <2>3, <4>1
    <3>4. CASE \A m \in Matches(text) : m.start # k
      <4>1. f[k] = u
          BY <1>4, <2>3, <2>5, <3>4 DEF AssignedAt
      <4> QED
          BY <2>3, <3>2, <3>3, <3>4, <4>1
    <3>5. CASE ~\A m \in Matches(text) : m.start # k
      <4> DEFINE x == CHOOSE y \in Matches(text) : y.start = k
      <4>1. x \in Matches(text) /\ x.start = k
          BY <3>5
      <4>2. f[k] = AssignToken(u, x.type, Original(text, x))
          BY <1>4, <2>3, <2>5, <3>5 DEF AssignedAt
      <4> HIDE DEF x
      <4>3. x.type \in EntityTypes /\ \A m \in Matches(text) : m.start = k => m = x
          BY <4>1, MatchShape
      <4>4. Original(text, x) \in Seq(Words)
          BY <4>1, OriginalWords
      <4>5. VaultOK(u) /\ Grows(v, u)
          BY <3>2
      <4> HIDE DEF u
      <4>6. /\ VaultOK(f[k]) /\ Grows(u, f[k])
            /\ Key(x.type, Original(text, x)) \in DOMAIN f[k].token
          BY <4>2, <4>3, <4>4, <4>5, AssignKeeps
      <4>7. Grows(v, f[k])
          BY <4>5, <4>6, GrowsOn
      <4>8. ASSUME NEW m \in Matches(text), m.start <= k
            PROVE  Key(m.type, Original(text, m)) \in DOMAIN f[k].token
        <5>1. CASE m.start = k
            BY <4>3, <4>6, <5>1
        <5>2. CASE m.start <= k - 1
          <6>1. Key(m.type, Original(text, m)) \in DOMAIN u.token
              BY <3>2, <5>2 DEF u
          <6> QED
              BY <4>6, <6>1 DEF Grows
        <5> QED
            BY <3>3, <4>8, <5>1, <5>2
      <4> QED
          BY <2>3, <4>6, <4>7, <4>8
    <3> QED
        BY <3>4, <3>5
  <2> QED
      BY <2>4, <2>5
<1>6. Done(n)
    BY <1>1, <1>5
<1>7. \A m \in Matches(text) : m.start <= n
    BY <1>1, MatchShape
<1> QED
    BY <1>3, <1>6, <1>7

-----------------------------------------------------------------------------
(* The pieces of a tokenized text: the recursive function exists.          *)

\* The pieces from word i on, given f after it.
PiecesAt(v, text, f, i) ==
    IF i > Len(text) THEN <<>>
    ELSE IF \A m \in Matches(text) : m.start # i THEN <<[word |-> text[i]]>> \o f[i + 1]
    ELSE LET m == CHOOSE x \in Matches(text) : x.start = i IN
         <<[token |-> TokenIn(v, text, m)]>> \o f[i + m.len]

PiecesFrom(v, text, f, first) ==
    f = [i \in first..(Len(text) + 1) |-> PiecesAt(v, text, f, i)]

\* The pieces from a word on depend on those after it only.
LEMMA PiecesLocal ==
    ASSUME NEW text \in WordTexts, NEW v, NEW i \in 1..(Len(text) + 1), NEW f, NEW g,
           \A j \in (i + 1)..(Len(text) + 1) : f[j] = g[j]
    PROVE  PiecesAt(v, text, f, i) = PiecesAt(v, text, g, i)
<1>1. Len(text) \in Nat
    BY TextLength
<1>2. CASE i > Len(text)
    BY <1>2 DEF PiecesAt
<1>3. CASE ~(i > Len(text)) /\ \A m \in Matches(text) : m.start # i
  <2>1. f[i + 1] = g[i + 1]
      BY <1>1, <1>3
  <2> QED
      BY <1>3, <2>1 DEF PiecesAt
<1>4. CASE ~(i > Len(text)) /\ ~\A m \in Matches(text) : m.start # i
  <2> DEFINE x == CHOOSE y \in Matches(text) : y.start = i
  <2>1. x \in Matches(text) /\ x.start = i
      BY <1>4
  <2>2. /\ PiecesAt(v, text, f, i) = <<[token |-> TokenIn(v, text, x)]>> \o f[i + x.len]
        /\ PiecesAt(v, text, g, i) = <<[token |-> TokenIn(v, text, x)]>> \o g[i + x.len]
      BY <1>4 DEF PiecesAt
  <2> HIDE DEF x
  <2>3. i + x.len \in (i + 1)..(Len(text) + 1)
    <3>1. x.len \in 1..4 /\ i + x.len - 1 \in i..Len(text)
        BY <2>1, MatchShape
    <3> QED
        BY <1>1, <3>1
  <2> QED
      BY <2>2, <2>3
<1> QED
    BY <1>2, <1>3, <1>4

\* There are such pieces of every text: built from its end.
LEMMA PiecesExist ==
    ASSUME NEW text \in WordTexts, NEW v
    PROVE  \E f : PiecesFrom(v, text, f, 1)
<1> DEFINE n == Len(text)
           Bad == {k \in 0..n : \A f : ~PiecesFrom(v, text, f, n + 1 - k)}
<1>1. n \in Nat
    BY TextLength
<1> HIDE DEF n
<1>2. ASSUME NEW k \in 0..n, \A j \in 0..n : j < k => j \notin Bad
      PROVE  \E f : PiecesFrom(v, text, f, n + 1 - k)
  <2>1. CASE k = 0
    <3> DEFINE f == [i \in (n + 1 - k)..(n + 1) |-> <<>>]
    <3>1. \A i \in (n + 1 - k)..(n + 1) : PiecesAt(v, text, f, i) = <<>>
        BY <1>1, <2>1 DEF PiecesAt, n
    <3>2. PiecesFrom(v, text, f, n + 1 - k)
        BY <3>1 DEF PiecesFrom, n
    <3> QED
        BY <3>2
  <2>2. CASE k # 0
    <3>1. PICK f : PiecesFrom(v, text, f, n + 1 - (k - 1))
        BY <1>1, <1>2, <2>2
    <3> DEFINE first == n + 1 - k
               g == [i \in first..(n + 1) |->
                        IF i = first THEN PiecesAt(v, text, f, i) ELSE f[i]]
    <3>2. first \in 1..n /\ n + 1 - (k - 1) = first + 1
        BY <1>1, <2>2
    <3>3. PiecesFrom(v, text, f, first + 1)
        BY <3>1, <3>2
    <3>4. \A i \in (first + 1)..(n + 1) : f[i] = PiecesAt(v, text, f, i)
        BY <3>3 DEF PiecesFrom, n
    <3> HIDE DEF first
    <3>5. \A i \in (first + 1)..(n + 1) : g[i] = f[i]
        BY <1>1, <3>2
    <3>6. ASSUME NEW i \in first..(n + 1)
          PROVE  PiecesAt(v, text, f, i) = PiecesAt(v, text, g, i)
      <4>1. i \in 1..(Len(text) + 1)
          BY <1>1, <3>2 DEF n
      <4>2. \A j \in (i + 1)..(Len(text) + 1) : f[j] = g[j]
          BY <1>1, <3>2, <3>5 DEF n
      <4> HIDE DEF g
      <4> QED
          BY <4>1, <4>2, PiecesLocal
    <3>7. \A i \in first..(n + 1) : g[i] = PiecesAt(v, text, f, i)
        BY <1>1, <3>2, <3>4
    <3>8. g = [i \in first..(n + 1) |-> PiecesAt(v, text, g, i)]
        BY <3>6, <3>7
    <3> HIDE DEF g
    <3>9. PiecesFrom(v, text, g, first)
        BY <3>8 DEF PiecesFrom, n
    <3> QED
        BY <3>9 DEF first
  <2> QED
      BY <2>1, <2>2
<1>3. Bad = {}
  <2> SUFFICES ASSUME Bad # {} PROVE FALSE
      OBVIOUS
  <2>1. Bad \subseteq Nat
      BY <1>1
  <2> HIDE DEF Bad
  <2>2. PICK k \in Bad : \A j \in Bad : k <= j
      BY <2>1, LeastNumber
  <2>3. k \in 0..n /\ \A j \in 0..n : j < k => j \notin Bad
      BY <1>1, <2>1, <2>2 DEF Bad
  <2>4. \E f : PiecesFrom(v, text, f, n + 1 - k)
      BY <1>2, <2>3
  <2> QED
      BY <2>2, <2>4 DEF Bad
<1>4. n \in 0..n /\ n + 1 - n = 1
    BY <1>1
<1> QED
    BY <1>3, <1>4

\* What tokenize returns are these pieces, from the first word on.
LEMMA PiecesPlaced ==
    ASSUME NEW text \in WordTexts, NEW v
    PROVE  \E f : PiecesFrom(v, text, f, 1) /\ Pieces(v, text) = f[1]
<1> DEFINE g == CHOOSE f : PiecesFrom(v, text, f, 1)
<1>1. PiecesFrom(v, text, g, 1)
    BY PiecesExist
<1>2. Pieces(v, text) = g[1]
    BY DEF Pieces, PiecesFrom, PiecesAt
<1> QED
    BY <1>1, <1>2

-----------------------------------------------------------------------------
(* The invariant of the page.                                              *)

\* A result, as the vault still knows it.
ResultOK(v, r) ==
    /\ r.original \in WordTexts
    /\ \A m \in Matches(r.original) : Key(m.type, Original(r.original, m)) \in DOMAIN v.token
    /\ r.entities = {[type |-> m.type, start |-> m.start, len |-> m.len,
                      token |-> TokenIn(v, r.original, m)] : m \in Matches(r.original)}
    /\ \E f : PiecesFrom(v, r.original, f, 1) /\ r.tokenized = f[1]

TokenizerInv ==
    /\ typed \in Nat
    /\ VaultOK(vault)
    /\ \A r \in outputs : ResultOK(vault, r)

\* A vault that has grown knows every earlier result as it was.
LEMMA ResultStays ==
    ASSUME NEW v, NEW w, Grows(v, w), NEW r, ResultOK(v, r)
    PROVE  ResultOK(w, r)
<1> DEFINE text == r.original
<1>1. /\ text \in WordTexts
      /\ \A m \in Matches(text) : Key(m.type, Original(text, m)) \in DOMAIN v.token
    BY DEF ResultOK
<1>2. \A m \in Matches(text) : TokenIn(w, text, m) = TokenIn(v, text, m)
    BY <1>1 DEF Grows, TokenIn
<1>3. \A m \in Matches(text) : Key(m.type, Original(text, m)) \in DOMAIN w.token
    BY <1>1 DEF Grows
<1>4. r.entities = {[type |-> m.type, start |-> m.start, len |-> m.len,
                     token |-> TokenIn(w, text, m)] : m \in Matches(text)}
  <2>1. r.entities = {[type |-> m.type, start |-> m.start, len |-> m.len,
                       token |-> TokenIn(v, text, m)] : m \in Matches(text)}
      BY DEF ResultOK
  <2> QED
      BY <1>2, <2>1
<1>5. PICK f : PiecesFrom(v, text, f, 1) /\ r.tokenized = f[1]
    BY DEF ResultOK
<1>6. \A i : PiecesAt(w, text, f, i) = PiecesAt(v, text, f, i)
  <2> SUFFICES ASSUME NEW i PROVE PiecesAt(w, text, f, i) = PiecesAt(v, text, f, i)
      OBVIOUS
  <2>1. CASE \A m \in Matches(text) : m.start # i
      BY <2>1 DEF PiecesAt
  <2>2. CASE ~\A m \in Matches(text) : m.start # i
    <3> DEFINE x == CHOOSE y \in Matches(text) : y.start = i
    <3>1. x \in Matches(text)
        BY <2>2
    <3>2. TokenIn(w, text, x) = TokenIn(v, text, x)
        BY <1>2, <3>1
    <3> QED
        BY <3>2 DEF PiecesAt
  <2> QED
      BY <2>1, <2>2
<1>7. PiecesFrom(w, text, f, 1)
    BY <1>5, <1>6 DEF PiecesFrom
<1> QED
    BY <1>1, <1>3, <1>4, <1>5, <1>7 DEF ResultOK

\* A vault that has a token for every match of a text knows its result.
LEMMA ResultFresh ==
    ASSUME NEW text \in WordTexts, NEW v,
           \A m \in Matches(text) : Key(m.type, Original(text, m)) \in DOMAIN v.token
    PROVE  ResultOK(v, Tokenized(v, text))
<1> DEFINE r == Tokenized(v, text)
<1>1. /\ r.original = text /\ r.tokenized = Pieces(v, text)
      /\ r.entities = {[type |-> m.type, start |-> m.start, len |-> m.len,
                        token |-> TokenIn(v, text, m)] : m \in Matches(text)}
    BY DEF Tokenized
<1> HIDE DEF r
<1>2. \E f : PiecesFrom(v, text, f, 1) /\ Pieces(v, text) = f[1]
    BY PiecesPlaced
<1>3. \E f : PiecesFrom(v, r.original, f, 1) /\ r.tokenized = f[1]
    BY <1>1, <1>2
<1>4. ResultOK(v, r)
    BY <1>1, <1>3 DEF ResultOK
<1> QED
    BY <1>4 DEF r

\* The vault keeps its tokens apart and knows every result since the reset.
LEMMA TokenizerHolds == TokenizerSpec => []TokenizerInv
<1>1. TokenizerInit => TokenizerInv
    BY DEF TokenizerInit, TokenizerInv, EmptyVault, VaultOK, EntityTypes
<1>2. TokenizerInv /\ [TokenizerNext]_tokenizerVars => TokenizerInv'
  <2> SUFFICES ASSUME TokenizerInv, [TokenizerNext]_tokenizerVars PROVE TokenizerInv'
      OBVIOUS
  <2>1. ASSUME NEW n \in 1..(MaxWords - typed), NEW text \in [1..n -> Words], Tokenize(text)
        PROVE  TokenizerInv'
    <3> DEFINE w == Assign(vault, text)
    <3>1. n \in Nat /\ text \in WordTexts /\ typed + Len(text) \in Nat
      <4>1. n \in Nat /\ Len(text) = n
          BY WordsAssumption DEF TokenizerInv
      <4> QED
          BY <4>1 DEF WordTexts, TokenizerInv
    <3>2. /\ VaultOK(w) /\ Grows(vault, w)
          /\ \A m \in Matches(text) : Key(m.type, Original(text, m)) \in DOMAIN w.token
        BY <3>1, AssignFacts DEF TokenizerInv
    <3>3. /\ vault' = w /\ outputs' = outputs \cup {Tokenized(w, text)}
          /\ typed' = typed + Len(text)
        BY <2>1 DEF Tokenize
    <3> HIDE DEF w
    <3>4. ResultOK(w, Tokenized(w, text))
        BY <3>1, <3>2, ResultFresh
    <3>5. \A r \in outputs : ResultOK(w, r)
        BY <3>2, ResultStays DEF TokenizerInv
    <3> QED
        BY <3>1, <3>2, <3>3, <3>4, <3>5 DEF TokenizerInv
  <2>2. CASE Reset
      BY <2>2 DEF Reset, TokenizerInv, EmptyVault, VaultOK, EntityTypes
  <2>3. CASE UNCHANGED tokenizerVars
      BY <2>3 DEF tokenizerVars, TokenizerInv
  <2> QED
      BY <2>1, <2>2, <2>3 DEF TokenizerNext
<1> QED
    BY <1>1, <1>2, PTL DEF TokenizerSpec

-----------------------------------------------------------------------------
(* What the page may show.                                                 *)

\* handleTokenize leaves no capitalised word beside another in clear, unless their
\* run is longer than four words, holds a mail address or starts with a phrase
\* that is not a name: the first word of a run is one the scan comes by.
THEOREM NamesReplaced == TokenizerSpec => []NamesAreTokens
<1>1. TokenizerInv => NamesAreTokens
  <2> SUFFICES ASSUME TokenizerInv, NEW r \in outputs, NEW i \in LeftInClear(r),
                      LET run == RunOf(r.original, i)
                          first == CHOOSE j \in run : \A k \in run : j <= k
                      IN  /\ ~(Cardinality(run) > 4)
                          /\ \A j \in run : ~Claimed(r.original, j)
                          /\ <<r.original[first].value, r.original[first + 1].value>>
                                \notin NonNames
               PROVE  FALSE
      BY DEF NamesAreTokens
  <2> DEFINE text == r.original
  <2>1. ResultOK(vault, r)
      BY DEF TokenizerInv
  <2>2. text \in WordTexts
      BY <2>1 DEF ResultOK
  <2>3. /\ i \in 1..Len(text)
        /\ NameGoesOn(text, i) \/ NameGoesOn(text, i - 1)
        /\ \A m \in r.entities : i \notin m.start .. (m.start + m.len - 1)
      BY DEF LeftInClear
  <2>4. PICK m \in Persons(text) : i \in m.start .. (m.start + m.len - 1)
      BY <2>2, <2>3, NameIsFound
  <2> DEFINE e == [type |-> m.type, start |-> m.start, len |-> m.len,
                   token |-> TokenIn(vault, text, m)]
  <2>5. e \in r.entities
    <3>1. m \in Matches(text)
        BY <2>4 DEF Matches
    <3> QED
        BY <2>1, <3>1 DEF ResultOK
  <2>6. e.start = m.start /\ e.len = m.len
      OBVIOUS
  <2> QED
      BY <2>3, <2>4, <2>5, <2>6
<1> QED
    BY <1>1, TokenizerHolds, PTL

\* A row of a table is what the vault holds for its value.
LEMMA RowKnown ==
    ASSUME NEW v, NEW r, ResultOK(v, r), NEW e \in EntityRows(r)
    PROVE  /\ <<e.type, e.value>> \in DOMAIN v.token
           /\ e.token = v.token[<<e.type, e.value>>]
<1> DEFINE text == r.original
<1>1. PICK x \in r.entities :
          e = [type |-> x.type, value |-> Lower(Original(text, x)), token |-> x.token]
    BY DEF EntityRows
<1>2. PICK m \in Matches(text) :
          x = [type |-> m.type, start |-> m.start, len |-> m.len, token |-> TokenIn(v, text, m)]
    BY <1>1 DEF ResultOK
<1>3. /\ x.type = m.type /\ x.start = m.start /\ x.len = m.len
      /\ x.token = TokenIn(v, text, m)
    BY <1>2
<1>4. Original(text, x) = Original(text, m)
    BY <1>3 DEF Original
<1>5. e.type = m.type /\ e.value = Lower(Original(text, m)) /\ e.token = TokenIn(v, text, m)
    BY <1>1, <1>3, <1>4
<1>6. Key(m.type, Original(text, m)) = <<e.type, e.value>>
    BY <1>5 DEF Key
<1>7. Key(m.type, Original(text, m)) \in DOMAIN v.token
    BY DEF ResultOK
<1> QED
    BY <1>5, <1>6, <1>7 DEF TokenIn

\* assignToken gives two values of the tables one token exactly when they have
\* one type and one spelling in lower case, over all texts of a session.
THEOREM ValuesHaveTokens == TokenizerSpec => []SameValueSameToken
<1>1. TokenizerInv => SameValueSameToken
  <2> SUFFICES ASSUME TokenizerInv, NEW r1 \in outputs, NEW r2 \in outputs,
                      NEW e1 \in EntityRows(r1), NEW e2 \in EntityRows(r2)
               PROVE  e1.token = e2.token <=> e1.type = e2.type /\ e1.value = e2.value
      BY DEF SameValueSameToken
  <2> DEFINE k1 == <<e1.type, e1.value>>
             k2 == <<e2.type, e2.value>>
  <2>1. ResultOK(vault, r1) /\ ResultOK(vault, r2) /\ VaultOK(vault)
      BY DEF TokenizerInv
  <2>2. /\ k1 \in DOMAIN vault.token /\ e1.token = vault.token[k1]
        /\ k2 \in DOMAIN vault.token /\ e2.token = vault.token[k2]
      BY <2>1, RowKnown
  <2>3. k1 = k2 <=> e1.type = e2.type /\ e1.value = e2.value
      OBVIOUS
  <2> HIDE DEF k1, k2
  <2>4. vault.token[k1] = vault.token[k2] => k1 = k2
      BY <2>1, <2>2 DEF VaultOK
  <2> QED
      BY <2>2, <2>3, <2>4
<1> QED
    BY <1>1, TokenizerHolds, PTL

-----------------------------------------------------------------------------
(* Restoring a text: pieces are put one after the other.                   *)

\* detokenize restores the first piece, and then the others.
LEMMA DetokenizeStep ==
    ASSUME NEW v, NEW P, \A p \in P : Restored(v, p) \in Seq(Words),
           NEW p \in P, NEW s \in Seq(P)
    PROVE  /\ Detokenized(v, s) \in Seq(Words)
           /\ Detokenized(v, <<p>> \o s) = Restored(v, p) \o Detokenized(v, s)
<1> DEFINE R(x) == [i \in 1..Len(x) |-> Restored(v, x[i])]
           t == <<p>> \o s
<1>1. Len(s) \in Nat /\ \A i \in 1..Len(s) : s[i] \in P
    OBVIOUS
<1>2. \A i \in 1..Len(s) : Restored(v, s[i]) \in Seq(Words)
    BY <1>1
<1>3. R(s) \in Seq(Seq(Words))
    BY <1>1, <1>2
<1>4. Len(t) = Len(s) + 1 /\ t[1] = p /\ \A i \in 1..Len(s) : t[i + 1] = s[i]
    OBVIOUS
<1> HIDE DEF t
<1> DEFINE q == <<Restored(v, p)>> \o R(s)
<1>5. /\ Len(R(s)) = Len(s)
      /\ Len(q) = Len(s) + 1 /\ q[1] = Restored(v, p)
      /\ \A i \in 1..Len(s) : q[i + 1] = Restored(v, s[i])
      /\ q = [i \in 1..(Len(s) + 1) |-> q[i]]
    BY <1>1, <1>3
<1> HIDE DEF q
<1>6. ASSUME NEW i \in 1..(Len(s) + 1) PROVE Restored(v, t[i]) = q[i]
  <2>1. CASE i = 1
      BY <1>4, <1>5, <2>1
  <2>2. CASE i # 1
    <3> DEFINE j == i - 1
    <3>1. j \in 1..Len(s) /\ j + 1 = i
        BY <1>1, <2>2
    <3> HIDE DEF j, R
    <3>2. t[j + 1] = s[j] /\ q[j + 1] = Restored(v, s[j])
        BY <1>4, <1>5, <3>1
    <3> QED
        BY <3>1, <3>2
  <2> QED
      BY <2>1, <2>2
<1>7. R(t) = q
    BY <1>4, <1>5, <1>6
<1>8. Restored(v, p) \in Seq(Words)
    OBVIOUS
<1>9. /\ Detokenized(v, s) = FlattenSeq(R(s))
      /\ Detokenized(v, t) = FlattenSeq(R(t))
    BY DEF Detokenized
<1> HIDE DEF R
<1>10. /\ FlattenSeq(R(s)) \in Seq(Words)
       /\ FlattenSeq(q) = Restored(v, p) \o FlattenSeq(R(s))
    BY <1>3, <1>8, FlattenStep DEF q
<1> QED
    BY <1>7, <1>9, <1>10 DEF t

\* A word that does not read like a token stays what it is.
LEMMA WordRestored ==
    ASSUME NEW v, VaultOK(v), NEW w \in Words, w.kind # "token"
    PROVE  Restored(v, [word |-> w]) = <<w>>
<1>1. w.token \notin {"PERSON", "FORMAT"} \X Nat
    BY WordsAssumption
<1>2. w.token \notin DOMAIN v.orig
  <2> SUFFICES ASSUME w.token \in DOMAIN v.orig PROVE FALSE
      OBVIOUS
  <2>1. PICK y \in EntityTypes : \E n \in 1..v.count[y] : w.token = <<y, n>>
      BY DEF VaultOK
  <2>2. PICK n \in 1..v.count[y] : w.token = <<y, n>>
      BY <2>1
  <2>3. v.count[y] \in Nat
      BY <2>1 DEF VaultOK
  <2> QED
      BY <1>1, <2>1, <2>2, <2>3 DEF EntityTypes
<1> QED
    BY <1>2 DEF Restored

\* A token is replaced by words that have the values it stands for.
LEMMA TokenRestored ==
    ASSUME NEW v, VaultOK(v), NEW text \in WordTexts, NEW m \in Matches(text),
           Key(m.type, Original(text, m)) \in DOMAIN v.token
    PROVE  LET words == Restored(v, [token |-> TokenIn(v, text, m)])
           IN  /\ words \in Seq(Words) /\ Len(words) = m.len
               /\ \A k \in 1..m.len : words[k].value = text[m.start + k - 1].value
<1> DEFINE key == Key(m.type, Original(text, m))
           token == v.token[key]
           words == v.orig[token]
           piece == [token |-> token]
<1>1. token \in DOMAIN v.orig /\ words \in Seq(Words) /\ Lower(words) = key[2]
    BY DEF VaultOK
<1>2. key[2] = Lower(Original(text, m))
    BY DEF Key
<1>3. Restored(v, piece) = words
  <2>1. "word" \notin DOMAIN piece /\ piece.token = token
      OBVIOUS
  <2> HIDE DEF piece, token
  <2> QED
      BY <1>1, <2>1 DEF Restored
<1>4. /\ Original(text, m) \in Seq(Words) /\ Len(Original(text, m)) = m.len
      /\ \A k \in 1..m.len : Original(text, m)[k] = text[m.start + k - 1]
    BY OriginalWords
<1> HIDE DEF key, words
<1>5. /\ Len(words) = Len(Lower(words))
      /\ \A k \in 1..Len(words) : Lower(words)[k] = words[k].value
    BY <1>1, LowerLowers
<1>6. /\ Len(Lower(Original(text, m))) = m.len
      /\ \A k \in 1..m.len : Lower(Original(text, m))[k] = text[m.start + k - 1].value
    BY <1>4, LowerLowers
<1>7. Len(words) = m.len /\ \A k \in 1..m.len : words[k].value = text[m.start + k - 1].value
    BY <1>1, <1>2, <1>5, <1>6
<1>8. TokenIn(v, text, m) = token
    BY DEF TokenIn, key
<1> HIDE DEF token
<1> QED
    BY <1>1, <1>3, <1>7, <1>8

\* From every word on, the pieces are restored to words of the same values.
LEMMA TextRestored ==
    ASSUME NEW v, VaultOK(v), NEW r, ResultOK(v, r),
           \A i \in 1..Len(r.original) : r.original[i].kind # "token"
    PROVE  Lower(Detokenized(v, r.tokenized)) = Lower(r.original)
<1> DEFINE text == r.original
           n == Len(text)
           P == {[word |-> text[i]] : i \in 1..n}
                \cup {[token |-> TokenIn(v, text, m)] : m \in Matches(text)}
<1>1. text \in WordTexts /\ n \in Nat /\ text \in Seq(Words)
  <2>1. text \in WordTexts
      BY DEF ResultOK
  <2> QED
      BY <2>1, TextLength
<1>2. PICK f : PiecesFrom(v, text, f, 1) /\ r.tokenized = f[1]
    BY DEF ResultOK
<1>3. \A i \in 1..(n + 1) : f[i] = PiecesAt(v, text, f, i)
    BY <1>2 DEF PiecesFrom
<1>4. ASSUME NEW i \in 1..n
      PROVE  /\ [word |-> text[i]] \in P
             /\ Restored(v, [word |-> text[i]]) = <<text[i]>>
             /\ text[i] \in Words
  <2>1. text[i] \in Words /\ text[i].kind # "token"
      BY <1>1
  <2> QED
      BY <2>1, WordRestored
<1>5. ASSUME NEW m \in Matches(text)
      PROVE  LET words == Restored(v, [token |-> TokenIn(v, text, m)])
             IN  /\ [token |-> TokenIn(v, text, m)] \in P
                 /\ words \in Seq(Words) /\ Len(words) = m.len
                 /\ \A k \in 1..m.len : words[k].value = text[m.start + k - 1].value
  <2>1. Key(m.type, Original(text, m)) \in DOMAIN v.token
      BY DEF ResultOK
  <2> QED
      BY <1>1, <2>1, TokenRestored
<1>6. ASSUME NEW p \in P PROVE Restored(v, p) \in Seq(Words)
  <2>1. CASE \E i \in 1..n : p = [word |-> text[i]]
    <3>1. PICK i \in 1..n : p = [word |-> text[i]]
        BY <2>1
    <3>2. Restored(v, p) = <<text[i]>> /\ text[i] \in Words
        BY <1>4, <3>1
    <3> QED
        BY <3>2
  <2>2. CASE \E m \in Matches(text) : p = [token |-> TokenIn(v, text, m)]
      BY <1>5, <2>2
  <2> QED
      BY <2>1, <2>2
<1> HIDE DEF P, n, text
<1> DEFINE Out(i) == Detokenized(v, f[i])
           Good(i) == /\ f[i] \in Seq(P)
                      /\ Out(i) \in Seq(Words) /\ Len(Out(i)) = n + 1 - i
                      /\ \A k \in 1..(n + 1 - i) : Out(i)[k].value = text[i + k - 1].value
           Bad == {k \in 0..n : ~Good(n + 1 - k)}
<1>7. ASSUME NEW i \in 1..n, NEW p \in P, NEW len \in 1..4, i + len \in (i + 1)..(n + 1),
             f[i] = <<p>> \o f[i + len], Good(i + len),
             Len(Restored(v, p)) = len,
             \A k \in 1..len : Restored(v, p)[k].value = text[i + k - 1].value
      PROVE  Good(i)
  <2> DEFINE a == Restored(v, p)
             b == Out(i + len)
  <2>1. a \in Seq(Words) /\ b \in Seq(Words) /\ Len(a) = len /\ Len(b) = n + 1 - (i + len)
      BY <1>6, <1>7
  <2>2. f[i + len] \in Seq(P) /\ f[i] \in Seq(P)
      BY <1>7
  <2>3. Out(i) = a \o b
    <3> DEFINE s == f[i + len]
    <3>1. s \in Seq(P) /\ f[i] = <<p>> \o s
        BY <1>7
    <3> HIDE DEF s
    <3>2. Detokenized(v, <<p>> \o s) = Restored(v, p) \o Detokenized(v, s)
        BY <1>6, <3>1, DetokenizeStep
    <3> QED
        BY <3>1, <3>2 DEF s
  <2> HIDE DEF a, b, Out
  <2>4. /\ Out(i) \in Seq(Words) /\ Len(Out(i)) = n + 1 - i
        /\ \A k \in 1..(n + 1 - i) : Out(i)[k] = IF k <= len THEN a[k] ELSE b[k - len]
    <3>1. /\ a \o b \in Seq(Words) /\ Len(a \o b) = Len(a) + Len(b)
          /\ \A k \in 1..(Len(a) + Len(b)) :
                (a \o b)[k] = IF k <= Len(a) THEN a[k] ELSE b[k - Len(a)]
        BY <2>1, ConcatProperties
    <3>2. Len(a) + Len(b) = n + 1 - i
        BY <1>1, <1>7, <2>1
    <3> QED
        BY <2>1, <2>3, <3>1, <3>2
  <2>5. ASSUME NEW k \in 1..(n + 1 - i) PROVE Out(i)[k].value = text[i + k - 1].value
    <3>1. CASE k <= len
      <4>1. k \in 1..len
          BY <3>1
      <4> QED
          BY <1>7, <2>4, <3>1, <4>1 DEF a
    <3>2. CASE ~(k <= len)
      <4>1. /\ k - len \in 1..(n + 1 - (i + len))
            /\ (i + len) + (k - len) - 1 = i + k - 1
          BY <1>1, <1>7, <3>2
      <4>2. b[k - len].value = text[(i + len) + (k - len) - 1].value
          BY <1>7, <4>1 DEF b
      <4> QED
          BY <2>4, <3>2, <4>1, <4>2
    <3> QED
        BY <3>1, <3>2
  <2> QED
      BY <2>2, <2>4, <2>5
<1>8. Bad = {}
  <2> SUFFICES ASSUME Bad # {} PROVE FALSE
      OBVIOUS
  <2>1. Bad \subseteq Nat
      BY <1>1
  <2> HIDE DEF Bad
  <2>2. PICK k \in Bad : \A j \in Bad : k <= j
      BY <2>1, LeastNumber
  <2> DEFINE i == n + 1 - k
  <2>3. k \in 0..n /\ ~Good(i)
      BY DEF Bad
  <2>4. k \in 0..n /\ i \in Int
      BY <1>1, <2>3
  <2>5. i \in 1..(n + 1) /\ (i > n <=> k = 0)
      BY <1>1, <2>4
  <2>6. f[i] = PiecesAt(v, text, f, i)
      BY <1>3, <2>5
  <2>7. ASSUME NEW j \in (i + 1)..(n + 1) PROVE Good(j)
    <3>1. n + 1 - j \in 0..n /\ n + 1 - j < k /\ n + 1 - (n + 1 - j) = j
        BY <1>1, <2>5, <2>4
    <3>2. n + 1 - j \notin Bad
        BY <1>1, <2>1, <2>2, <2>4, <3>1
    <3> QED
        BY <3>1, <3>2 DEF Bad
  <2> HIDE DEF i, Good
  <2>8. CASE i > n
    <3>1. f[i] = <<>>
        BY <2>6, <2>8 DEF PiecesAt, n
    <3>2. Detokenized(v, <<>>) = <<>>
        BY DEF Detokenized, FlattenSeq
    <3>3. n + 1 - i = 0 /\ 1..0 = {}
        BY <1>1, <2>5, <2>8
    <3>4. Out(i) = <<>>
        BY <3>1, <3>2
    <3> HIDE DEF Out
    <3>5. f[i] \in Seq(P) /\ Out(i) \in Seq(Words) /\ Len(Out(i)) = 0
        BY <3>1, <3>4
    <3> QED
        BY <2>3, <3>3, <3>5 DEF Good
  <2>9. CASE ~(i > n) /\ \A m \in Matches(text) : m.start # i
    <3> DEFINE p == [word |-> text[i]]
    <3>1. i \in 1..n
        BY <1>1, <2>5, <2>9
    <3>2. f[i] = <<p>> \o f[i + 1]
        BY <2>6, <2>9 DEF PiecesAt, n
    <3>3. p \in P /\ Restored(v, p) = <<text[i]>>
        BY <1>4, <3>1
    <3> HIDE DEF p
    <3>4. /\ Len(Restored(v, p)) = 1
          /\ \A k1 \in 1..1 : Restored(v, p)[k1].value = text[i + k1 - 1].value
        BY <1>1, <3>1, <3>3
    <3>5. i + 1 \in (i + 1)..(n + 1) /\ Good(i + 1) /\ 1 \in 1..4
        BY <1>1, <2>7, <3>1
    <3> QED
        BY <1>7, <2>3, <3>1, <3>2, <3>3, <3>4, <3>5
  <2>10. CASE ~(i > n) /\ ~\A m \in Matches(text) : m.start # i
    <3> DEFINE m == CHOOSE x \in Matches(text) : x.start = i
               p == [token |-> TokenIn(v, text, m)]
    <3>1. i \in 1..n
        BY <1>1, <2>5, <2>10
    <3>2. m \in Matches(text) /\ m.start = i
        BY <2>10
    <3>3. f[i] = <<p>> \o f[i + m.len]
        BY <2>6, <2>10 DEF PiecesAt, n
    <3> HIDE DEF m
    <3>4. m.len \in 1..4 /\ i + m.len \in (i + 1)..(n + 1)
      <4>1. m.len \in 1..4 /\ i + m.len - 1 \in i..n
          BY <1>1, <3>2, MatchShape DEF n
      <4> QED
          BY <1>1, <3>1, <4>1
    <3>5. /\ p \in P /\ Len(Restored(v, p)) = m.len
          /\ \A j \in 1..m.len : Restored(v, p)[j].value = text[i + j - 1].value
        BY <1>5, <3>2
    <3> HIDE DEF p
    <3>6. Good(i + m.len)
        BY <2>7, <3>4
    <3> QED
        BY <1>7, <2>3, <3>1, <3>3, <3>4, <3>5, <3>6
  <2> QED
      BY <2>8, <2>9, <2>10
<1>9. Good(1)
  <2> HIDE DEF Bad, Good
  <2>1. n \in 0..n /\ n \notin Bad /\ n + 1 - n = 1
      BY <1>1, <1>8
  <2> QED
      BY <2>1 DEF Bad
<1> DEFINE out == Detokenized(v, r.tokenized)
<1>10. /\ out \in Seq(Words) /\ Len(out) = n
       /\ \A k \in 1..n : out[k].value = text[k].value
  <2>1. n + 1 - 1 = n /\ \A k \in 1..n : 1 + k - 1 = k
      BY <1>1
  <2> QED
      BY <1>2, <1>9, <2>1
<1> HIDE DEF out
<1>11. Lower(out) = Lower(text)
    BY <1>10 DEF Lower, n
<1> QED
    BY <1>11 DEF out, text

\* detokenize restores every text of a session from the vault, up to the case of
\* its letters, whatever was tokenized after it, unless a token was typed in it.
THEOREM TextsRestored == TokenizerSpec => []RoundTrip
<1>1. TokenizerInv => RoundTrip
  <2> SUFFICES ASSUME TokenizerInv, NEW r \in outputs,
                      \A i \in 1..Len(r.original) : r.original[i].kind # "token"
               PROVE  Lower(Detokenized(vault, r.tokenized)) = Lower(r.original)
      BY DEF RoundTrip
  <2>1. VaultOK(vault) /\ ResultOK(vault, r)
      BY DEF TokenizerInv
  <2> QED
      BY <2>1, TextRestored
<1> QED
    BY <1>1, TokenizerHolds, PTL

-----------------------------------------------------------------------------
(* The registry of detectors.                                              *)

\* What a finding is made of.
FindingType == [category : DOMAIN Severity \cup {"detector_error"},
                severity : DOMAIN Rank, score : 0..100]

\* The worst finding, taken place by place.
WorstAt(findings, f, i) ==
    IF i = 1 THEN findings[1]
    ELSE IF Rank[findings[i].severity] > Rank[f[i - 1].severity]
         THEN findings[i] ELSE f[i - 1]

Worsts(findings, f, last) == f = [i \in 1..last |-> WorstAt(findings, f, i)]

\* A rank is a number, and the highest is that of what is critical.
LEMMA RankOf ==
    /\ \A s \in DOMAIN Rank : Rank[s] \in Nat /\ (Rank[s] >= 4 => s = "critical")
    /\ "critical" \in DOMAIN Rank /\ Rank["critical"] = 4
    /\ DOMAIN Score = DOMAIN Rank /\ \A s \in DOMAIN Rank : Score[s] \in 0..100
BY DEF Rank, Score

\* The detectors of the registry, each with what it looks for.
LEMMA DetectorType ==
    /\ Len(Detectors) \in Nat
    /\ \A i \in 1..Len(Detectors) : Detectors[i].finds \in Seq(DOMAIN Severity)
<1> DEFINE M == Seq(DOMAIN Severity)
           D == [finds : M, phases : SUBSET {"input", "output"}]
<1>1. Detectors \in Seq(D)
    BY DetectorAssumption
<1>2. \A d \in D : d.finds \in M
  <2> HIDE DEF M
  <2> QED
      OBVIOUS
<1> HIDE DEF D
<1>3. Len(Detectors) \in Nat /\ \A i \in 1..Len(Detectors) : Detectors[i] \in D
    BY <1>1
<1> QED
    BY <1>2, <1>3

\* The findings of a detector, and the one of its failure, are findings.
LEMMA FindingsTyped ==
    /\ \A m \in DOMAIN Severity : Finding(m) \in FindingType
    /\ Failure \in FindingType
    /\ \A i \in 1..Len(Detectors) :
          /\ Outcome(i) \in Seq(FindingType)
          /\ [k \in 1..Len(Detectors[i].finds) |->
                 IF Has(Scanned, Detectors[i].finds[k])
                 THEN <<Finding(Detectors[i].finds[k])>> ELSE <<>>] \in Seq(Seq(FindingType))
    /\ [i \in 1..Len(Detectors) |-> Outcome(i)] \in Seq(Seq(FindingType))
    /\ AllFindings \in Seq(FindingType)
<1>1. ASSUME NEW m \in DOMAIN Severity PROVE Finding(m) \in FindingType
  <2>1. Severity[m] \in DOMAIN Rank
      BY DetectorAssumption
  <2>2. Score[Severity[m]] \in 0..100
      BY <2>1, RankOf
  <2> QED
      BY <2>1, <2>2 DEF Finding, FindingType
<1>2. Failure \in FindingType
    BY RankOf DEF Failure, FindingType
<1>3. Len(Detectors) \in Nat
    BY DetectorAssumption
<1>4. ASSUME NEW i \in 1..Len(Detectors)
      PROVE  /\ Outcome(i) \in Seq(FindingType)
             /\ [k \in 1..Len(Detectors[i].finds) |->
                    IF Has(Scanned, Detectors[i].finds[k])
                    THEN <<Finding(Detectors[i].finds[k])>> ELSE <<>>]
                  \in Seq(Seq(FindingType))
  <2> DEFINE d == Detectors[i].finds
             P(k) == IF Has(Scanned, d[k]) THEN <<Finding(d[k])>> ELSE <<>>
             s == [k \in 1..Len(d) |-> P(k)]
  <2>1. d \in Seq(DOMAIN Severity)
      BY DetectorType
  <2>2. Len(d) \in Nat /\ \A k \in 1..Len(d) : d[k] \in DOMAIN Severity
    <3> HIDE DEF d
    <3> QED
        BY <2>1
  <2>3. ASSUME NEW k \in 1..Len(d) PROVE P(k) \in Seq(FindingType)
    <3> DEFINE g == Finding(d[k])
    <3>1. g \in FindingType
        BY <1>1, <2>2
    <3> HIDE DEF g
    <3>2. <<g>> \in Seq(FindingType) /\ <<>> \in Seq(FindingType)
        BY <3>1
    <3> QED
        BY <3>2 DEF g
  <2> HIDE DEF P
  <2>4. s \in Seq(Seq(FindingType))
    <3> HIDE DEF d
    <3> QED
        BY <2>2, <2>3
  <2>5. FlattenSeq(s) \in Seq(FindingType)
    <3> HIDE DEF s
    <3> QED
        BY <2>4, FlattenType
  <2>6. Findings(Detectors[i]) = FlattenSeq(s)
      BY DEF Findings, P
  <2>7. <<Failure>> \in Seq(FindingType) /\ <<>> \in Seq(FindingType)
    <3> DEFINE g == Failure
    <3>1. g \in FindingType
        BY <1>2
    <3> HIDE DEF g
    <3>2. <<g>> \in Seq(FindingType) /\ <<>> \in Seq(FindingType)
        BY <3>1
    <3> QED
        BY <3>2 DEF g
  <2> HIDE DEF s
  <2>8. Outcome(i) \in Seq(FindingType)
      BY <2>5, <2>6, <2>7 DEF Outcome
  <2> QED
      BY <2>4, <2>8 DEF s, P
<1>5. [i \in 1..Len(Detectors) |-> Outcome(i)] \in Seq(Seq(FindingType))
  <2>1. \A i \in 1..Len(Detectors) : Outcome(i) \in Seq(FindingType)
      BY <1>4
  <2> QED
      BY <1>3, <2>1
<1>6. AllFindings \in Seq(FindingType)
  <2> DEFINE t == [i \in 1..Len(Detectors) |-> Outcome(i)]
  <2>1. AllFindings = FlattenSeq(t) /\ t \in Seq(Seq(FindingType))
      BY <1>5 DEF AllFindings
  <2> HIDE DEF t
  <2> QED
      BY <2>1, FlattenType
<1> QED
    BY <1>1, <1>2, <1>4, <1>5, <1>6

\* What a detector came to is among the findings.
LEMMA OutcomeIn ==
    ASSUME NEW i \in 1..Len(Detectors), NEW k \in 1..Len(Outcome(i))
    PROVE  \E p \in 1..Len(AllFindings) : AllFindings[p] = Outcome(i)[k]
<1> DEFINE t == [j \in 1..Len(Detectors) |-> Outcome(j)]
<1>1. t \in Seq(Seq(FindingType)) /\ AllFindings = FlattenSeq(t)
    BY FindingsTyped DEF AllFindings
<1>2. Len(t) = Len(Detectors) /\ t[i] = Outcome(i)
    BY DetectorAssumption
<1> HIDE DEF t
<1> DEFINE v == Outcome(i)[k]
<1>3. i \in 1..Len(t) /\ k \in 1..Len(t[i]) /\ v = t[i][k]
    BY <1>2
<1> HIDE DEF v
<1>4. \E p \in 1..Len(FlattenSeq(t)) : FlattenSeq(t)[p] = v
    BY <1>1, <1>3, FlattenHas
<1> QED
    BY <1>1, <1>4 DEF v

\* What a detector looks for and the text has is among its findings.
LEMMA FoundIn ==
    ASSUME NEW i \in 1..Len(Detectors), NEW k \in 1..Len(Detectors[i].finds),
           Has(Scanned, Detectors[i].finds[k])
    PROVE  \E p \in 1..Len(Findings(Detectors[i])) :
              Findings(Detectors[i])[p] = Finding(Detectors[i].finds[k])
<1> DEFINE d == Detectors[i].finds
           s == [j \in 1..Len(d) |-> IF Has(Scanned, d[j]) THEN <<Finding(d[j])>> ELSE <<>>]
<1>1. s \in Seq(Seq(FindingType)) /\ Findings(Detectors[i]) = FlattenSeq(s)
    BY FindingsTyped DEF Findings
<1>2. d \in Seq(DOMAIN Severity)
    BY DetectorType
<1>3. Len(d) \in Nat
  <2> HIDE DEF d
  <2> QED
      BY <1>2
<1>4. Len(s) = Len(d) /\ s[k] = <<Finding(d[k])>>
    BY <1>3
<1> DEFINE g == Finding(d[k])
<1> HIDE DEF s, g
<1>5. Len(<<g>>) = 1 /\ <<g>>[1] = g /\ 1 \in 1..1
    OBVIOUS
<1>6. s[k] = <<g>> /\ k \in 1..Len(s)
    BY <1>4 DEF g
<1>7. 1 \in 1..Len(s[k]) /\ s[k][1] = g
    BY <1>5, <1>6
<1>8. \E p \in 1..Len(FlattenSeq(s)) : FlattenSeq(s)[p] = g
    BY <1>1, <1>6, <1>7, FlattenHas, SMTT(20)
<1> QED
    BY <1>1, <1>8 DEF g

\* There is the function that takes the worst place by place.
LEMMA WorstExists ==
    ASSUME NEW s, NEW n \in Nat
    PROVE  \E f : Worsts(s, f, n)
<1> DEFINE Bad == {k \in 0..n : \A f : ~Worsts(s, f, k)}
<1>1. ASSUME NEW k \in 0..n, \A j \in 0..n : j < k => j \notin Bad
      PROVE  \E f : Worsts(s, f, k)
  <2>1. CASE k = 0
    <3> DEFINE f == [i \in 1..k |-> s]
    <3>1. \A i \in 1..k : s = WorstAt(s, f, i)
        BY <2>1
    <3>2. Worsts(s, f, k)
        BY <3>1 DEF Worsts
    <3> QED
        BY <3>2
  <2>2. CASE k # 0
    <3>1. PICK f : Worsts(s, f, k - 1)
        BY <1>1, <2>2
    <3> DEFINE g == [i \in 1..k |-> IF i = k THEN WorstAt(s, f, i) ELSE f[i]]
    <3>2. \A i \in 1..(k - 1) : g[i] = f[i] /\ f[i] = WorstAt(s, f, i)
        BY <3>1 DEF Worsts
    <3>3. \A i \in 1..k : i = 1 \/ g[i - 1] = f[i - 1]
        BY <3>2
    <3>4. ASSUME NEW i \in 1..k PROVE g[i] = WorstAt(s, f, i)
      <4>1. CASE i = k
          BY <4>1
      <4>2. CASE i # k
        <5>1. i \in 1..(k - 1)
            BY <4>2
        <5> HIDE DEF g
        <5> QED
            BY <3>2, <5>1
      <4> QED
          BY <4>1, <4>2
    <3>5. g = [i \in 1..k |-> g[i]]
        OBVIOUS
    <3> HIDE DEF g
    <3>6. \A i \in 1..k : WorstAt(s, f, i) = WorstAt(s, g, i)
        BY <3>3 DEF WorstAt
    <3>7. g = [i \in 1..k |-> WorstAt(s, g, i)]
        BY <3>4, <3>5, <3>6
    <3> QED
        BY <3>7 DEF Worsts
  <2> QED
      BY <2>1, <2>2
<1>2. Bad = {}
  <2> SUFFICES ASSUME Bad # {} PROVE FALSE
      OBVIOUS
  <2>1. Bad \subseteq Nat
      OBVIOUS
  <2> HIDE DEF Bad
  <2>2. PICK k \in Bad : \A j \in Bad : k <= j
      BY <2>1, LeastNumber
  <2>3. k \in 0..n /\ \A j \in 0..n : j < k => j \notin Bad
      BY <2>1, <2>2 DEF Bad
  <2>4. \E f : Worsts(s, f, k)
      BY <1>1, <2>3
  <2> QED
      BY <2>2, <2>4 DEF Bad
<1>3. n \in 0..n
    OBVIOUS
<1> QED
    BY <1>2, <1>3

\* No finding is worse than the level of the assessment, or scores higher.
LEMMA RiskIsWorst ==
    ASSUME NEW s \in Seq(FindingType), Len(s) # 0
    PROVE  LET r == AssessRisk(s)
           IN  /\ r.level \in DOMAIN Rank /\ r.score \in 0..100
               /\ \A i \in 1..Len(s) : /\ Rank[s[i].severity] <= Rank[r.level]
                                       /\ s[i].score <= r.score
<1> DEFINE n == Len(s)
           f == CHOOSE g : Worsts(s, g, n)
           scores == {s[i].score : i \in 1..n}
           top == CHOOSE v \in scores : \A t \in scores : t <= v
<1>1. n \in Nat /\ n # 0 /\ \A i \in 1..n : s[i] \in FindingType
    OBVIOUS
<1>2. \A i \in 1..n : s[i].severity \in DOMAIN Rank /\ s[i].score \in 0..100
    BY <1>1 DEF FindingType
<1>3. Worsts(s, f, n)
    BY <1>1, WorstExists
<1>4. AssessRisk(s) = [level |-> f[n].severity, top |-> f[n].category, score |-> top]
    BY <1>1 DEF AssessRisk, Worsts, WorstAt
<1> HIDE DEF f
<1>5. \A i \in 1..n : f[i] = WorstAt(s, f, i)
    BY <1>3 DEF Worsts
<1> DEFINE Good(i) == /\ f[i].severity \in DOMAIN Rank
                      /\ \A k \in 1..i : Rank[s[k].severity] <= Rank[f[i].severity]
           Bad == {i \in 1..n : ~Good(i)}
<1>6. Bad = {}
  <2> SUFFICES ASSUME Bad # {} PROVE FALSE
      OBVIOUS
  <2>1. Bad \subseteq Nat
      OBVIOUS
  <2> HIDE DEF Bad
  <2>2. PICK i \in Bad : \A j \in Bad : i <= j
      BY <2>1, LeastNumber
  <2>3. i \in 1..n /\ ~Good(i)
      BY DEF Bad
  <2>4. CASE i = 1
    <3>1. f[1] = s[1] /\ 1 \in 1..n
        BY <1>5, <2>3, <2>4 DEF WorstAt
    <3>2. s[1].severity \in DOMAIN Rank /\ Rank[s[1].severity] \in Nat
        BY <1>2, <3>1, RankOf
    <3> QED
        BY <2>3, <2>4, <3>1, <3>2
  <2>5. CASE i # 1
    <3> DEFINE j == i - 1
    <3>1. j \in 1..n /\ ~(i <= j) /\ i \in Nat /\ \A k \in 1..i : k = i \/ k \in 1..j
        BY <1>1, <2>3, <2>5
    <3>2. f[i] = IF Rank[s[i].severity] > Rank[f[j].severity] THEN s[i] ELSE f[j]
        BY <1>5, <2>3, <2>5 DEF WorstAt
    <3> HIDE DEF j, Good
    <3>3. Good(j)
        BY <2>2, <3>1 DEF Bad
    <3>4. /\ f[j].severity \in DOMAIN Rank /\ Rank[f[j].severity] \in Nat
          /\ s[i].severity \in DOMAIN Rank /\ Rank[s[i].severity] \in Nat
        BY <1>2, <2>3, <3>3, RankOf DEF Good
    <3>5. \A k \in 1..j : /\ Rank[s[k].severity] <= Rank[f[j].severity]
                          /\ Rank[s[k].severity] \in Nat
        BY <1>1, <1>2, <3>1, <3>3, RankOf DEF Good
    <3>6. f[i].severity \in DOMAIN Rank /\ Rank[s[i].severity] <= Rank[f[i].severity]
          /\ Rank[f[j].severity] <= Rank[f[i].severity] /\ Rank[f[i].severity] \in Nat
        BY <3>2, <3>4
    <3>7. ASSUME NEW k \in 1..i PROVE Rank[s[k].severity] <= Rank[f[i].severity]
      <4>1. CASE k = i
          BY <3>6, <4>1
      <4>2. CASE k \in 1..j
          BY <3>4, <3>5, <3>6, <4>2
      <4> QED
          BY <3>1, <4>1, <4>2
    <3>8. Good(i)
        BY <3>6, <3>7 DEF Good
    <3> QED
        BY <2>3, <3>8
  <2> QED
      BY <2>4, <2>5
<1>7. Good(n)
  <2>1. n \in 1..n
      BY <1>1
  <2> HIDE DEF Good, n
  <2> QED
      BY <1>6, <2>1
<1>8. \E v \in scores : \A t \in scores : t <= v
  <2> DEFINE T == {100 - v : v \in scores}
  <2>1. \A v \in scores : v \in 0..100
      BY <1>2
  <2>2. s[1].score \in scores
      BY <1>1
  <2> HIDE DEF scores
  <2>3. T \subseteq Nat /\ T # {}
    <3>1. ASSUME NEW v \in scores PROVE 100 - v \in Nat
      <4>1. v \in 0..100
          BY <2>1
      <4> QED
          BY <4>1
    <3> QED
        BY <2>2, <3>1
  <2>4. PICK x \in T : \A y \in T : x <= y
      BY <2>3, LeastNumber
  <2>5. PICK v \in scores : x = 100 - v
      OBVIOUS
  <2>6. ASSUME NEW t \in scores PROVE t <= v
    <3>1. 100 - t \in T
        OBVIOUS
    <3>2. 100 - v <= 100 - t
        BY <2>4, <2>5, <3>1
    <3>3. v \in 0..100 /\ t \in 0..100
      <4> HIDE DEF T
      <4> QED
          BY <2>1, <2>5
    <3> QED
        BY <3>2, <3>3
  <2> QED
      BY <2>6
<1>9. top \in scores /\ \A t \in scores : t <= top
  <2> HIDE DEF scores
  <2> QED
      BY <1>8
<1> HIDE DEF top
<1>10. top \in 0..100 /\ \A i \in 1..n : s[i].score <= top
  <2>1. top \in 0..100
      BY <1>2, <1>9
  <2>2. \A i \in 1..n : s[i].score \in scores
      OBVIOUS
  <2> HIDE DEF scores
  <2> QED
      BY <1>9, <2>1, <2>2
<1>11. AssessRisk(s).level = f[n].severity /\ AssessRisk(s).score = top
    BY <1>4
<1> QED
    BY <1>7, <1>10, <1>11

\* The inductive invariant: an assessment is that of all the findings, and
\* no detector is under way any more.
AssessmentInv ==
    /\ settled \in [Applicable -> {"pending", "fulfilled", "rejected"}]
    /\ assessment # Unassessed =>
          /\ \A i \in Applicable : settled[i] # "pending"
          /\ assessment = AssessRisk(AllFindings)

\* Such an assessment is not milder than what was found.
LEMMA AssessedInFull ==
    ASSUME AssessmentInv PROVE NothingMilder
<1> SUFFICES ASSUME assessment # Unassessed
             PROVE  /\ \A m \in Present :
                          /\ assessment.level # "none"
                          /\ Rank[Severity[m]] <= Rank[assessment.level]
                          /\ Score[Severity[m]] <= assessment.score
                    /\ (\E i \in DOMAIN settled : settled[i] = "rejected")
                          => assessment.level = "critical" /\ assessment.score = 100
    BY DEF NothingMilder
<1> DEFINE A == AllFindings
<1>1. A \in Seq(FindingType) /\ assessment = AssessRisk(A)
    BY FindingsTyped DEF AssessmentInv
<1>2. ASSUME NEW g, \E p \in 1..Len(A) : A[p] = g
      PROVE  /\ assessment.level \in DOMAIN Rank /\ assessment.score \in 0..100
             /\ Rank[g.severity] <= Rank[assessment.level] /\ g.score <= assessment.score
  <2> HIDE DEF A
  <2>1. Len(A) # 0
      BY <1>1, <1>2
  <2> QED
      BY <1>1, <1>2, <2>1, RiskIsWorst
<1>3. DOMAIN settled = Applicable
    BY DEF AssessmentInv
<1>4. ASSUME NEW i \in Applicable, settled[i] = "rejected"
      PROVE  assessment.level = "critical" /\ assessment.score = 100
  <2>1. i \in 1..Len(Detectors) /\ Outcome(i) = <<Failure>>
      BY <1>4 DEF Outcome, Applicable
  <2>2. 1 \in 1..Len(Outcome(i)) /\ Outcome(i)[1] = Failure
    <3> DEFINE g == Failure
    <3>1. Outcome(i) = <<g>>
        BY <2>1
    <3> HIDE DEF g
    <3> QED
        BY <3>1 DEF g
  <2>3. \E p \in 1..Len(A) : A[p] = Failure
      BY <2>1, <2>2, OutcomeIn
  <2> HIDE DEF A
  <2>4. /\ assessment.level \in DOMAIN Rank /\ assessment.score \in 0..100
        /\ Rank[Failure.severity] <= Rank[assessment.level] /\ Failure.score <= assessment.score
      BY <1>2, <2>3
  <2>5. Failure.severity = "critical" /\ Failure.score = 100
      BY DEF Failure
  <2>6. 4 <= Rank[assessment.level] /\ Rank[assessment.level] \in Nat
      BY <2>4, <2>5, RankOf
  <2> QED
      BY <2>4, <2>5, <2>6, RankOf
<1>5. ASSUME NEW m \in Present
      PROVE  /\ assessment.level # "none"
             /\ Rank[Severity[m]] <= Rank[assessment.level]
             /\ Score[Severity[m]] <= assessment.score
  <2>1. m \in DOMAIN Severity /\ Has(Scanned, m)
      BY DEF Present
  <2>2. PICK i \in Applicable : Contains(Detectors[i].finds, m)
      BY DEF Present
  <2>3. i \in 1..Len(Detectors) /\ Detectors[i].finds \in Seq(DOMAIN Severity)
      BY DetectorType DEF Applicable
  <2>4. PICK k \in 1..Len(Detectors[i].finds) : Detectors[i].finds[k] = m
      BY <2>2, <2>3 DEF Contains
  <2>5. Finding(m).severity = Severity[m] /\ Finding(m).score = Score[Severity[m]]
      BY DEF Finding
  <2>6. Severity[m] \in DOMAIN Rank /\ Rank[Severity[m]] \in Nat /\ Score[Severity[m]] \in 0..100
      BY <2>1, DetectorAssumption, RankOf
  <2>7. CASE settled[i] = "rejected"
    <3>1. assessment.level = "critical" /\ assessment.score = 100
        BY <1>4, <2>7
    <3>2. \A s \in DOMAIN Rank : Rank[s] <= 4
        BY DEF Rank
    <3>3. Rank[Severity[m]] <= Rank[assessment.level]
        BY <2>6, <3>1, <3>2, RankOf
    <3> DEFINE x == Score[Severity[m]]
    <3>4. x <= assessment.score
      <4>1. x \in 0..100 /\ assessment.score = 100
          BY <2>6, <3>1
      <4> HIDE DEF x
      <4> QED
          BY <4>1
    <3> QED
        BY <3>1, <3>3, <3>4
  <2>8. CASE settled[i] # "rejected"
    <3>1. Outcome(i) = Findings(Detectors[i])
        BY <2>8 DEF Outcome
    <3>2. PICK q \in 1..Len(Outcome(i)) : Outcome(i)[q] = Finding(m)
        BY <2>1, <2>3, <2>4, <3>1, FoundIn
    <3>3. \E p \in 1..Len(A) : A[p] = Finding(m)
        BY <2>3, <3>2, OutcomeIn
    <3> HIDE DEF A
    <3>4. /\ assessment.level \in DOMAIN Rank
          /\ Rank[Finding(m).severity] <= Rank[assessment.level]
          /\ Finding(m).score <= assessment.score
        BY <1>2, <3>3
    <3>5. assessment.level # "none"
        BY <3>4 DEF Rank
    <3> QED
        BY <2>5, <3>4, <3>5
  <2> QED
      BY <2>7, <2>8
<1> QED
    BY <1>3, <1>4, <1>5

\* A detector that ends changes no assessment: there is none yet.
LEMMA AssessmentStep ==
    ASSUME AssessmentInv, [DetectorNext]_detectorVars
    PROVE  AssessmentInv'
<1>1. ASSUME UNCHANGED <<phase, ctxText, settled>>
      PROVE  Applicable' = Applicable /\ AllFindings' = AllFindings
  <2>1. Applicable' = Applicable
      BY <1>1 DEF Applicable
  <2>2. Scanned' = Scanned
      BY <1>1 DEF Scanned
  <2>3. \A d : Findings(d)' = Findings(d)
      BY <2>2 DEF Findings
  <2>4. \A i : Outcome(i)' = Outcome(i)
      BY <1>1, <2>1, <2>3 DEF Outcome
  <2>5. AllFindings' = AllFindings
      BY <2>4 DEF AllFindings
  <2> QED
      BY <2>1, <2>5
<1>2. CASE UNCHANGED detectorVars
    BY <1>1, <1>2 DEF AssessmentInv, detectorVars, Unassessed
<1>3. CASE Assess
    BY <1>1, <1>3 DEF AssessmentInv, Assess, Unassessed
<1>4. ASSUME NEW i \in DOMAIN settled, Settle(i) PROVE AssessmentInv'
  <2>1. i \in Applicable /\ settled[i] = "pending" /\ assessment = Unassessed
      BY <1>4 DEF Settle, AssessmentInv
  <2>2. assessment' = assessment /\ Applicable' = Applicable /\ Unassessed' = Unassessed
      BY <1>4 DEF Settle, Applicable, Unassessed
  <2>3. settled' \in [Applicable -> {"pending", "fulfilled", "rejected"}]
      BY <1>4 DEF Settle, AssessmentInv
  <2> QED
      BY <2>1, <2>2, <2>3 DEF AssessmentInv
<1> QED
    BY <1>2, <1>3, <1>4 DEF DetectorNext

\* Whatever the detectors found and in whatever order they ended, the
\* assessment of a text is never milder than the worst of it (finsafe-core's
\* registry.ts and risk.ts).
THEOREM AssessmentHolds == DetectorSpec => []NothingMilder
<1>1. DetectorInit => AssessmentInv
    BY DEF DetectorInit, AssessmentInv
<1>2. AssessmentInv /\ [DetectorNext]_detectorVars => AssessmentInv'
    BY AssessmentStep
<1>3. AssessmentInv => NothingMilder
    BY AssessedInFull
<1> QED
    BY <1>1, <1>2, <1>3, PTL DEF DetectorSpec

-----------------------------------------------------------------------------
(* The dataset of a chat.                                                  *)

\* A set of places has a first one and a last one.
LEMMA FirstAndLast ==
    ASSUME NEW n \in Nat, NEW T, T \subseteq 1..n, T # {}
    PROVE  (\E i \in T : \A j \in T : i <= j) /\ (\E i \in T : \A j \in T : j <= i)
<1>1. \E i \in T : \A j \in T : i <= j
  <2>1. T \subseteq Nat
      OBVIOUS
  <2> QED
      BY <2>1, LeastNumber
<1>2. \E i \in T : \A j \in T : j <= i
  <2> DEFINE U == {n - i : i \in T}
  <2>1. U \subseteq Nat /\ U # {}
    <3>1. \A i \in T : n - i \in Nat
        OBVIOUS
    <3> QED
        BY <3>1
  <2>2. PICK x \in U : \A y \in U : x <= y
      BY <2>1, LeastNumber
  <2>3. PICK i \in T : x = n - i
      OBVIOUS
  <2>4. ASSUME NEW j \in T PROVE j <= i
    <3>1. n - j \in U
        OBVIOUS
    <3>2. n - i <= n - j /\ i \in 1..n /\ j \in 1..n
        BY <2>2, <2>3, <3>1
    <3> QED
        BY <3>2
  <2> QED
      BY <2>4
<1> QED
    BY <1>1, <1>2

\* What is left of a text has an ink at both ends, or is empty.
LEMMA TrimIs ==
    ASSUME NEW S, NEW t \in Seq(S)
    PROVE  \/ Trim(t) = <<>>
           \/ \E a, b \in 1..Len(t) :
                 /\ a <= b /\ Trim(t) = SubSeq(t, a, b) /\ ~Blank(t[a]) /\ ~Blank(t[b])
                 /\ \A i \in 1..Len(t) : ~Blank(t[i]) => a <= i /\ i <= b
<1> DEFINE inked == {i \in 1..Len(t) : ~Blank(t[i])}
           a == CHOOSE i \in inked : \A j \in inked : i <= j
           b == CHOOSE i \in inked : \A j \in inked : j <= i
<1>1. Trim(t) = IF inked = {} THEN <<>> ELSE SubSeq(t, a, b)
    BY DEF Trim
<1>2. CASE inked = {}
    BY <1>1, <1>2
<1>3. CASE inked # {}
  <2>1. Len(t) \in Nat /\ inked \subseteq 1..Len(t)
      OBVIOUS
  <2>2. \A i \in inked : i \in 1..Len(t) /\ ~Blank(t[i])
      OBVIOUS
  <2>3. \A i \in 1..Len(t) : ~Blank(t[i]) => i \in inked
      OBVIOUS
  <2> HIDE DEF inked
  <2>4. (\E i \in inked : \A j \in inked : i <= j) /\ (\E i \in inked : \A j \in inked : j <= i)
      BY <1>3, <2>1, FirstAndLast
  <2>5. a \in inked /\ \A j \in inked : a <= j
      BY <2>4
  <2>6. b \in inked /\ \A j \in inked : j <= b
      BY <2>4
  <2> HIDE DEF a, b
  <2>7. a \in 1..Len(t) /\ b \in 1..Len(t) /\ a <= b
      BY <2>2, <2>5, <2>6
  <2> QED
      BY <1>1, <1>3, <2>2, <2>3, <2>5, <2>6, <2>7
<1> QED
    BY <1>2, <1>3

\* Trimming gives a text of the same characters.
LEMMA TrimType ==
    ASSUME NEW S, NEW t \in Seq(S)
    PROVE  Trim(t) \in Seq(S)
<1>1. CASE Trim(t) = <<>>
    BY <1>1
<1>2. CASE \E a, b \in 1..Len(t) : Trim(t) = SubSeq(t, a, b)
  <2>1. PICK a \in 1..Len(t), b \in 1..Len(t) : Trim(t) = SubSeq(t, a, b)
      BY <1>2
  <2>2. SubSeq(t, a, b) \in Seq(S)
      OBVIOUS
  <2> QED
      BY <2>1, <2>2
<1> QED
    BY <1>1, <1>2, TrimIs

\* A text that trimming leaves alone begins and ends with ink.
LEMMA TrimmedEdges ==
    ASSUME NEW S, NEW t \in Seq(S), Trim(t) = t, t # <<>>
    PROVE  Len(t) \in Nat \ {0} /\ ~Blank(t[1]) /\ ~Blank(t[Len(t)])
<1>1. PICK a \in 1..Len(t), b \in 1..Len(t) :
          a <= b /\ t = SubSeq(t, a, b) /\ ~Blank(t[a]) /\ ~Blank(t[b])
    BY TrimIs
<1>2. Len(t) \in Nat /\ a \in Nat /\ b \in Nat /\ 1 <= a /\ b <= Len(t)
    OBVIOUS
<1>3. Len(SubSeq(t, a, b)) = b - a + 1
    BY <1>1, <1>2
<1>4. Len(t) = b - a + 1
    BY <1>1, <1>3
<1>5. a = 1 /\ b = Len(t)
    BY <1>1, <1>2, <1>4
<1> QED
    BY <1>1, <1>2, <1>5

\* And one that does is left alone.
LEMMA TrimSelf ==
    ASSUME NEW S, NEW t \in Seq(S), Len(t) # 0, ~Blank(t[1]), ~Blank(t[Len(t)])
    PROVE  Trim(t) = t
<1> DEFINE n == Len(t)
<1>1. n \in Nat /\ 1 \in 1..n /\ n \in 1..n
    OBVIOUS
<1>2. Trim(t) # <<>>
  <2> DEFINE inked == {i \in 1..n : ~Blank(t[i])}
             a == CHOOSE i \in inked : \A j \in inked : i <= j
             b == CHOOSE i \in inked : \A j \in inked : j <= i
  <2>1. Trim(t) = IF inked = {} THEN <<>> ELSE SubSeq(t, a, b)
      BY DEF Trim
  <2>2. 1 \in inked /\ n \in inked /\ \A i \in inked : i \in 1..n
      BY <1>1
  <2> HIDE DEF inked
  <2>3. a = 1
    <3>1. \A i \in inked : (\A j \in inked : i <= j) <=> i = 1
        BY <1>1, <2>2
    <3> QED
        BY <2>2, <3>1
  <2>4. b = n
    <3>1. \A i \in inked : (\A j \in inked : j <= i) <=> i = n
        BY <1>1, <2>2
    <3> QED
        BY <2>2, <3>1
  <2> HIDE DEF a, b, n
  <2>5. Trim(t) = SubSeq(t, 1, n)
      BY <2>1, <2>2, <2>3, <2>4
  <2>6. SubSeq(t, 1, n) = t /\ t # <<>>
      BY <1>1 DEF n
  <2> QED
      BY <2>5, <2>6
<1>3. PICK a \in 1..n, b \in 1..n :
          /\ a <= b /\ Trim(t) = SubSeq(t, a, b)
          /\ \A i \in 1..n : ~Blank(t[i]) => a <= i /\ i <= b
    BY <1>2, TrimIs
<1>4. a = 1 /\ b = n
    BY <1>1, <1>3
<1>5. SubSeq(t, 1, n) = t
    BY <1>1
<1> QED
    BY <1>3, <1>4, <1>5
-----------------------------------------------------------------------------
\* A cell with its quotes doubled, and whether it is written in quotes.
Doubled(cell) ==
    [i \in 1..Len(cell) |-> IF cell[i] = "q" THEN <<"q", "q">> ELSE <<cell[i]>>]

Quoting(cell) == \E ch \in {",", "q", "nl"} : Contains(cell, ch)

\* What is written of a cell in quotes: a quote, the cell with its quotes
\* doubled, a quote.
LEMMA WrittenQuoted ==
    ASSUME NEW S, "q" \in S, NEW cell \in Seq(S), Quoting(cell)
    PROVE  /\ Written(cell) \in Seq(S)
           /\ Written(cell)[1] = "q" /\ Written(cell)[Len(Written(cell))] = "q"
           /\ \E t, ends : /\ Len(t) \in Nat /\ Places(Doubled(cell), t, ends)
                           /\ Len(Written(cell)) = Len(t) + 2
                           /\ \A p \in 1..Len(t) : Written(cell)[p + 1] = t[p]
<1> DEFINE s == Doubled(cell)
           t == FlattenSeq(s)
           T == Seq(S)
           quote == <<"q">>
           u == quote \o t
           w == u \o quote
<1>1. Written(cell) = w
    BY DEF Written, Doubled, Quoting
<1>2. s \in Seq(T)
  <2>1. \A i \in 1..Len(cell) : (IF cell[i] = "q" THEN <<"q", "q">> ELSE <<cell[i]>>) \in T
      OBVIOUS
  <2> HIDE DEF T
  <2> QED
      BY <2>1 DEF Doubled
<1>3. t \in T /\ \E ends : Places(s, t, ends)
    BY <1>2, FlattenType, FlattenPlaces
<1>4. quote \in T /\ Len(quote) = 1 /\ quote[1] = "q"
    OBVIOUS
<1> HIDE DEF t, s, quote
<1>5. Len(t) \in Nat /\ u \in T /\ Len(u) = 1 + Len(t) /\ u[1] = "q"
      /\ \A p \in 1..Len(t) : u[p + 1] = t[p]
  <2>1. /\ Len(t) \in Nat /\ u \in T /\ Len(u) = Len(quote) + Len(t)
        /\ \A p \in 1..(Len(quote) + Len(t)) :
              u[p] = IF p <= Len(quote) THEN quote[p] ELSE t[p - Len(quote)]
    <3>1. quote \in Seq(S) /\ t \in Seq(S) /\ Len(t) \in Nat
        BY <1>3, <1>4
    <3> QED
        BY <3>1, ConcatProperties
  <2>2. u[1] = "q"
      BY <1>4, <2>1
  <2>3. ASSUME NEW p \in 1..Len(t) PROVE u[p + 1] = t[p]
    <3>1. p + 1 \in 1..(1 + Len(t)) /\ ~(p + 1 <= 1) /\ p + 1 - 1 = p
        BY <2>1
    <3> QED
        BY <1>4, <2>1, <3>1
  <2> QED
      BY <1>4, <2>1, <2>2, <2>3
<1> HIDE DEF u
<1>6. /\ w \in T /\ Len(w) = Len(u) + Len(quote)
      /\ \A p \in 1..(Len(u) + Len(quote)) :
            w[p] = IF p <= Len(u) THEN u[p] ELSE quote[p - Len(u)]
    BY <1>4, <1>5, ConcatProperties
<1> HIDE DEF w
<1>7. Len(w) = Len(t) + 2 /\ w[1] = "q" /\ w[Len(w)] = "q"
      /\ \A p \in 1..Len(t) : w[p + 1] = t[p]
  <2>1. Len(w) = Len(t) + 2
      BY <1>4, <1>5, <1>6
  <2>2. w[1] = u[1]
      BY <1>4, <1>5, <1>6
  <2>3. w[Len(t) + 2] = quote[1]
    <3>1. Len(t) + 2 \in 1..(Len(u) + Len(quote)) /\ ~(Len(t) + 2 <= Len(u))
          /\ Len(t) + 2 - Len(u) = 1
        BY <1>4, <1>5
    <3> QED
        BY <1>6, <3>1
  <2>4. ASSUME NEW p \in 1..Len(t) PROVE w[p + 1] = t[p]
    <3>1. p + 1 \in 1..(Len(u) + Len(quote)) /\ p + 1 <= Len(u)
        BY <1>4, <1>5
    <3> QED
        BY <1>5, <1>6, <3>1
  <2> QED
      BY <1>4, <1>5, <2>1, <2>2, <2>3, <2>4
<1>8. PICK ends : Places(s, t, ends)
    BY <1>3
<1> QED
    BY <1>1, <1>5, <1>6, <1>7, <1>8 DEF s

\* What is written of a cell is of its characters and quotes; an empty cell is
\* not written, and any other that has no space at its edges begins and ends
\* with ink.
LEMMA WrittenCell ==
    ASSUME NEW S, "q" \in S, NEW cell \in Seq(S), Trim(cell) = cell
    PROVE  /\ Written(cell) \in Seq(S)
           /\ cell = <<>> => Written(cell) = <<>>
           /\ cell # <<>> => /\ Len(Written(cell)) \in Nat \ {0}
                             /\ ~Blank(Written(cell)[1])
                             /\ ~Blank(Written(cell)[Len(Written(cell))])
<1>1. CASE Quoting(cell)
  <2>1. cell # <<>>
    <3>1. ~Quoting(<<>>)
        BY DEF Quoting, Contains
    <3> QED
        BY <1>1, <3>1
  <2> DEFINE w == Written(cell)
  <2>2. /\ w \in Seq(S) /\ w[1] = "q" /\ w[Len(w)] = "q"
        /\ \E t : Len(t) \in Nat /\ Len(w) = Len(t) + 2
      BY <1>1, WrittenQuoted
  <2>3. ~Blank("q")
      BY DEF Blank
  <2> HIDE DEF w
  <2>4. Len(w) \in Nat \ {0}
      BY <2>2
  <2> QED
      BY <2>1, <2>2, <2>3, <2>4 DEF w
<1>2. CASE ~Quoting(cell)
  <2>1. Written(cell) = cell
      BY <1>2 DEF Written, Quoting
  <2> QED
      BY <2>1, TrimmedEdges
<1> QED
    BY <1>1, <1>2

\* The parts of a text with a separator between them: where they are.
Parted(parts, ch, t, from, to) ==
    /\ from[1] = 0 /\ to[Len(parts)] = Len(t)
    /\ \A i \in 1..Len(parts) :
          /\ from[i] \in Nat /\ to[i] = from[i] + Len(parts[i]) /\ to[i] <= Len(t)
          /\ \A k \in 1..Len(parts[i]) : t[from[i] + k] = parts[i][k]
    /\ \A i \in 2..Len(parts) : from[i] = to[i - 1] + 1 /\ t[from[i]] = ch

\* Every text of separated parts has them there (File).
LEMMA SeparatedParts ==
    ASSUME NEW S, NEW ch \in S, NEW parts \in Seq(Seq(S)), Len(parts) # 0
    PROVE  /\ Separated(parts, ch) \in Seq(S)
           /\ \E from, to : Parted(parts, ch, Separated(parts, ch), from, to)
<1> DEFINE n == Len(parts)
           s == [i \in 1..n |-> IF i = 1 THEN parts[i] ELSE <<ch>> \o parts[i]]
           t == FlattenSeq(s)
           T == Seq(S)
<1>1. Separated(parts, ch) = t
    BY DEF Separated
<1>2. /\ n \in Nat /\ 1 \in 1..n /\ n \in 1..n
      /\ \A i \in 1..n : parts[i] \in T /\ Len(parts[i]) \in Nat
    OBVIOUS
<1>3. ASSUME NEW i \in 1..n
      PROVE  LET w == <<ch>> \o parts[i]
             IN  /\ w \in T /\ Len(w) = 1 + Len(parts[i]) /\ w[1] = ch
                 /\ \A k \in 1..Len(parts[i]) : w[1 + k] = parts[i][k]
  <2> DEFINE u == <<ch>>
             v == parts[i]
             w == u \o v
  <2>1. u \in Seq(S) /\ v \in Seq(S) /\ Len(u) = 1 /\ u[1] = ch /\ Len(v) \in Nat
      BY <1>2
  <2> HIDE DEF u, v
  <2>2. /\ w \in Seq(S) /\ Len(w) = Len(u) + Len(v)
        /\ \A p \in 1..(Len(u) + Len(v)) : w[p] = IF p <= Len(u) THEN u[p] ELSE v[p - Len(u)]
      BY <2>1, ConcatProperties
  <2> HIDE DEF w
  <2>3. w[1] = ch
      BY <2>1, <2>2
  <2>4. ASSUME NEW k \in 1..Len(v) PROVE w[1 + k] = v[k]
    <3> DEFINE p == 1 + k
    <3>1. p \in 1..(Len(u) + Len(v)) /\ ~(p <= Len(u)) /\ p - Len(u) = k
        BY <2>1
    <3> HIDE DEF p
    <3>2. w[p] = v[k]
        BY <2>2, <3>1
    <3> QED
        BY <3>2 DEF p
  <2>5. /\ w \in T /\ Len(w) = 1 + Len(v) /\ w[1] = ch
        /\ \A k \in 1..Len(v) : w[1 + k] = v[k]
      BY <2>1, <2>2, <2>3, <2>4
  <2> QED
      BY <2>5 DEF w, u, v
<1>4. s \in Seq(T) /\ Len(s) = n
  <2> DEFINE piece(i) == IF i = 1 THEN parts[i] ELSE <<ch>> \o parts[i]
  <2>1. \A i \in 1..n : piece(i) \in T
      BY <1>2, <1>3
  <2>2. s = [i \in 1..n |-> piece(i)]
      OBVIOUS
  <2> HIDE DEF T, s, piece
  <2> QED
      BY <1>2, <2>1, <2>2
<1>5. s[1] = parts[1] /\ \A i \in 2..n : s[i] = <<ch>> \o parts[i]
    BY <1>2
<1> HIDE DEF s
<1>6. t \in T /\ Len(t) \in Nat /\ \E ends : Places(s, t, ends)
  <2>1. t \in Seq(S)
      BY <1>4, FlattenType
  <2> QED
      BY <1>4, <2>1, FlattenPlaces
<1> HIDE DEF t
<1>7. PICK ends : Places(s, t, ends)
    BY <1>6
<1>8. /\ \A i \in 0..n : ends[i] \in Nat
      /\ ends[0] = 0 /\ ends[n] = Len(t)
      /\ \A i \in 1..n : ends[i] = ends[i - 1] + Len(s[i])
      /\ \A i \in 1..n : \A k \in 1..Len(s[i]) :
            ends[i - 1] + k \in 1..Len(t) /\ t[ends[i - 1] + k] = s[i][k]
    BY <1>4, <1>7 DEF Places
<1> DEFINE from == [i \in 1..n |-> IF i = 1 THEN 0 ELSE ends[i - 1] + 1]
           to == [i \in 1..n |-> ends[i]]
<1>9. /\ from[1] = 0 /\ to[n] = Len(t)
      /\ \A i \in 1..n : to[i] = ends[i]
      /\ \A i \in 2..n : from[i] = ends[i - 1] + 1
    BY <1>2, <1>8
<1> HIDE DEF from, to
<1>10. ASSUME NEW i \in 1..n
       PROVE  /\ from[i] \in Nat /\ to[i] = from[i] + Len(parts[i]) /\ to[i] <= Len(t)
              /\ \A k \in 1..Len(parts[i]) : t[from[i] + k] = parts[i][k]
  <2>1. i \in Nat /\ i - 1 \in 0..n /\ i \in 0..n
      BY <1>2
  <2> DEFINE e == ends[i - 1]
             l == Len(parts[i])
             m == Len(s[i])
  <2>2. e \in Nat /\ ends[i] \in Nat /\ ends[i] = e + m /\ l \in Nat
      BY <1>2, <1>8, <2>1
  <2>3. \A k \in 1..m : e + k \in 1..Len(t) /\ t[e + k] = s[i][k]
      BY <1>8
  <2>4. CASE i = 1
    <3>1. m = l /\ e = 0 /\ from[i] = 0 /\ s[i] = parts[i]
        BY <1>5, <1>8, <1>9, <2>1, <2>4
    <3> HIDE DEF e, l, m
    <3>2. to[i] = from[i] + l
        BY <1>9, <2>2, <3>1
    <3>3. to[i] <= Len(t)
        BY <1>6, <2>2, <2>3, <3>1, <3>2
    <3>4. \A k \in 1..l : t[from[i] + k] = parts[i][k]
        BY <2>3, <3>1
    <3> QED
        BY <3>1, <3>2, <3>3, <3>4 DEF l
  <2>5. CASE i # 1
    <3>1. i \in 2..n
        BY <1>2, <2>5
    <3>2. m = 1 + l /\ from[i] = e + 1
        BY <1>3, <1>5, <1>9, <3>1
    <3>3. \A k \in 1..l : s[i][1 + k] = parts[i][k]
        BY <1>3, <1>5, <3>1
    <3> HIDE DEF e, l, m
    <3>4. to[i] = from[i] + l
        BY <1>9, <2>2, <3>2
    <3>5. to[i] <= Len(t)
      <4>1. m \in 1..m
          BY <2>2, <3>2
      <4>2. e + m \in 1..Len(t)
          BY <2>3, <4>1
      <4> QED
          BY <1>6, <2>2, <3>2, <3>4, <4>2
    <3>6. ASSUME NEW k \in 1..l PROVE t[from[i] + k] = parts[i][k]
      <4> DEFINE j == 1 + k
      <4>1. j \in 1..m /\ e + j = from[i] + k
          BY <2>2, <3>2
      <4>2. t[e + j] = s[i][j]
          BY <2>3, <4>1
      <4> QED
          BY <3>3, <4>1, <4>2
    <3> QED
      <4>1. from[i] \in Nat
          BY <2>2, <3>2
      <4> QED
          BY <3>4, <3>5, <3>6, <4>1 DEF l
  <2> QED
      BY <2>4, <2>5
<1>11. ASSUME NEW i \in 2..n PROVE from[i] = to[i - 1] + 1 /\ t[from[i]] = ch
  <2>1. i \in 1..n /\ i - 1 \in 1..n
      BY <1>2
  <2>2. Len(s[i]) = 1 + Len(parts[i]) /\ s[i][1] = ch
      BY <1>3, <1>5, <2>1
  <2>3. 1 \in 1..Len(s[i])
      BY <1>2, <2>1, <2>2
  <2>4. t[ends[i - 1] + 1] = ch
      BY <1>8, <2>1, <2>2, <2>3
  <2> QED
      BY <1>9, <2>1, <2>4
<1>12. Parted(parts, ch, t, from, to)
    BY <1>9, <1>10, <1>11 DEF Parted
<1> QED
    BY <1>1, <1>6, <1>12
-----------------------------------------------------------------------------
\* The parser between two characters: cells so far, the cell that is read,
\* inside quotes or not, and with a quote that has been read already.
At(cells, cell, quoted) == [cells |-> cells, cell |-> cell, quoted |-> quoted, skip |-> FALSE]

Skipping(cells, cell) == [cells |-> cells, cell |-> cell, quoted |-> TRUE, skip |-> TRUE]

\* Outside of quotes all but a quote and a comma is read (parseRow).
LEMMA LetterParsed ==
    ASSUME NEW line, NEW i, NEW C, NEW c, line[i] # "q", line[i] # ","
    PROVE  ParseChar(line, At(C, c, FALSE), i) = At(C, Append(c, line[i]), FALSE)
BY DEF ParseChar, At

\* A quote opens the quotes.
LEMMA QuoteOpens ==
    ASSUME NEW line, NEW i, NEW C, NEW c, line[i] = "q"
    PROVE  ParseChar(line, At(C, c, FALSE), i) = At(C, c, TRUE)
BY DEF ParseChar, At

\* In quotes all but a quote is read.
LEMMA QuotedLetter ==
    ASSUME NEW line, NEW i, NEW C, NEW c, line[i] # "q"
    PROVE  ParseChar(line, At(C, c, TRUE), i) = At(C, Append(c, line[i]), TRUE)
BY DEF ParseChar, At

\* Any other ends the quotes.
LEMMA QuoteCloses ==
    ASSUME NEW line, NEW i, NEW C, NEW c, line[i] = "q", ~(i < Len(line) /\ line[i + 1] = "q")
    PROVE  ParseChar(line, At(C, c, TRUE), i) = At(C, c, FALSE)
BY DEF ParseChar, At

\* The second of two quotes has been read with the first.
LEMMA QuoteSkipped ==
    ASSUME NEW line, NEW i, NEW C, NEW c
    PROVE  ParseChar(line, Skipping(C, c), i) = At(C, c, TRUE)
BY DEF ParseChar, At, Skipping

\* The parser's run over a line.
ParsedAt(line, f, i) ==
    IF i = 0 THEN [cells |-> <<>>, cell |-> <<>>, quoted |-> FALSE, skip |-> FALSE]
    ELSE ParseChar(line, f[i - 1], i)

Parses(line, f) ==
    /\ f[0] = At(<<>>, <<>>, FALSE)
    /\ \A i \in 1..Len(line) : f[i] = ParseChar(line, f[i - 1], i)

\* There is one, and a row is what it ends with (parseRow).
LEMMA ParsedBy ==
    ASSUME NEW line \in Seq(Letters)
    PROVE  \E f : /\ Parses(line, f)
                  /\ ParseRow(line) = Append(f[Len(line)].cells, Trim(f[Len(line)].cell))
<1> DEFINE n == Len(line)
           T == Seq(Letters)
           U == Seq(T)
           A == [cells : U, cell : T, quoted : BOOLEAN, skip : BOOLEAN]
           x == [cells |-> <<>>, cell |-> <<>>, quoted |-> FALSE, skip |-> FALSE]
           G == [z \in (1..n) \X A |-> ParseChar(line, z[2], z[1])]
           Is(f) == f = [i \in 0..n |-> ParsedAt(line, f, i)]
           h == CHOOSE f : Is(f)
<1>1. ParseRow(line) = Append(h[n].cells, Trim(h[n].cell))
    BY DEF ParseRow, ParsedAt
<1>2. n \in Nat /\ \A i \in 1..n : line[i] \in Letters
    OBVIOUS
<1>3. x \in A /\ x = At(<<>>, <<>>, FALSE)
    BY DEF At
<1>4. \A i \in 1..n : \A a \in A : ParseChar(line, a, i) \in A
  <2> SUFFICES ASSUME NEW i \in 1..n, NEW a \in A PROVE ParseChar(line, a, i) \in A
      OBVIOUS
  <2> DEFINE ch == line[i]
             grown == Append(a.cell, ch)
             quote == Append(a.cell, "q")
             done == Append(a.cells, Trim(a.cell))
  <2>1. a.cells \in U /\ a.cell \in T
    <3> HIDE DEF T, U
    <3> QED
        OBVIOUS
  <2>2. ch \in Letters /\ grown \in T /\ quote \in T
    <3>1. ch \in Letters /\ "q" \in Letters
        BY <1>2, CsvAssumption
    <3> QED
        BY <2>1, <3>1
  <2>3. done \in U /\ <<>> \in T
    <3>1. Trim(a.cell) \in T
        BY <2>1, TrimType
    <3> QED
        BY <2>1, <3>1
  <2> HIDE DEF grown, quote, done, T, U
  <2>4. /\ [a EXCEPT !.skip = FALSE] \in A /\ [a EXCEPT !.quoted = TRUE] \in A
        /\ [a EXCEPT !.quoted = FALSE] \in A
        /\ [a EXCEPT !.cell = quote, !.skip = TRUE] \in A
        /\ [a EXCEPT !.cells = done, !.cell = <<>>] \in A
        /\ [a EXCEPT !.cell = grown] \in A
      BY <2>2, <2>3
  <2>5. \/ ParseChar(line, a, i) = [a EXCEPT !.skip = FALSE]
        \/ ParseChar(line, a, i) = [a EXCEPT !.quoted = TRUE]
        \/ ParseChar(line, a, i) = [a EXCEPT !.quoted = FALSE]
        \/ ParseChar(line, a, i) = [a EXCEPT !.cell = quote, !.skip = TRUE]
        \/ ParseChar(line, a, i) = [a EXCEPT !.cells = done, !.cell = <<>>]
        \/ ParseChar(line, a, i) = [a EXCEPT !.cell = grown]
      BY DEF ParseChar, grown, quote, done
  <2> HIDE DEF A
  <2> QED
      BY <2>4, <2>5
<1> HIDE DEF n, A, x
<1>5. G \in [(1..n) \X A -> A] /\ \A i \in 1..n : \A a \in A : G[<<i, a>>] = ParseChar(line, a, i)
    BY <1>4
<1> HIDE DEF G
<1>6. PICK f : f \in [0..n -> A] /\ f[0] = x /\ \A i \in 1..n : f[i] = G[<<i, f[i - 1]>>]
  <2>1. Step(G, n, A)
      BY <1>5 DEF Step
  <2>2. \E f : Computes(f, G, n, A, x)
      BY <1>2, <1>3, <2>1, RecursionExists
  <2> QED
      BY <2>2 DEF Computes
<1>7. ASSUME NEW i \in 0..n PROVE f[i] = ParsedAt(line, f, i)
  <2>1. CASE i = 0
      BY <1>6, <2>1 DEF ParsedAt, x
  <2>2. CASE i # 0
    <3>1. i \in 1..n /\ i - 1 \in 0..n
        BY <1>2, <2>2
    <3>2. f[i] = ParseChar(line, f[i - 1], i)
        BY <1>5, <1>6, <3>1
    <3> QED
        BY <2>2, <3>2 DEF ParsedAt
  <2> QED
      BY <2>1, <2>2
<1>8. Is(f)
    BY <1>6, <1>7
<1>9. Is(h)
    BY <1>8
<1> HIDE DEF h
<1>10. h[0] = At(<<>>, <<>>, FALSE)
  <2>1. 0 \in 0..n
      BY <1>2
  <2> QED
      BY <1>9, <2>1 DEF ParsedAt, At
<1>11. ASSUME NEW i \in 1..n PROVE h[i] = ParseChar(line, h[i - 1], i)
  <2>1. i \in 0..n /\ i # 0
      BY <1>2
  <2>2. h[i] = ParsedAt(line, h, i)
      BY <1>9, <2>1
  <2> QED
      BY <2>1, <2>2 DEF ParsedAt
<1>12. Parses(line, h)
    BY <1>10, <1>11 DEF Parses, n
<1> QED
    BY <1>1, <1>12 DEF n
-----------------------------------------------------------------------------
\* A text stands in a line behind its k-th character, up to a comma or the end.
Standing(line, k, w) ==
    /\ Len(line) \in Nat /\ k \in Nat /\ k + Len(w) <= Len(line)
    /\ \A j \in 1..Len(w) : line[k + j] = w[j]
    /\ \/ k + Len(w) = Len(line)
       \/ line[k + Len(w) + 1] = ","

\* A cell without quotes is read as it stands.
LEMMA PlainParsed ==
    ASSUME NEW S, NEW cell \in Seq(S), ~Quoting(cell), NEW line, NEW f, Parses(line, f),
           NEW k, NEW C, Standing(line, k, cell), f[k] = At(C, <<>>, FALSE)
    PROVE  f[k + Len(cell)] = At(C, cell, FALSE)
<1> DEFINE n == Len(cell)
           Good(j) == f[k + j] = At(C, SubSeq(cell, 1, j), FALSE)
           G == {j \in 0..n : Good(j)}
<1>1. \A j \in 1..n : cell[j] # "q" /\ cell[j] # ","
    BY DEF Quoting, Contains
<1>2. n \in Nat /\ Len(line) \in Nat /\ k \in Nat /\ k + n <= Len(line)
  <2>1. n \in Nat
      OBVIOUS
  <2>2. Len(line) \in Nat /\ k \in Nat /\ k + Len(cell) <= Len(line)
      BY DEF Standing
  <2> QED
      BY <2>1, <2>2
<1>3. \A j \in 1..n : line[k + j] = cell[j]
    BY DEF Standing
<1>4. 0 \in G
  <2>1. k + 0 = k /\ SubSeq(cell, 1, 0) = <<>> /\ 0 \in 0..n
      BY <1>2
  <2>2. Good(0)
      BY <2>1
  <2> QED
      BY <2>1, <2>2
<1>5. ASSUME NEW j \in 1..n, j - 1 \in G PROVE j \in G
  <2> DEFINE m == j - 1
             i == k + j
             c == SubSeq(cell, 1, m)
             x == cell[j]
  <2>1. f[k + m] = At(C, c, FALSE)
      BY <1>5
  <2>2. i \in 1..Len(line) /\ i - 1 = k + m /\ j \in 0..n
      BY <1>2
  <2>3. line[i] = x /\ x # "q" /\ x # ","
      BY <1>1, <1>3
  <2>4. SubSeq(cell, 1, j) = Append(c, x)
      BY <1>2
  <2> HIDE DEF m, i, c, x
  <2>5. f[i] = ParseChar(line, f[k + m], i)
      BY <2>2 DEF Parses
  <2>6. ParseChar(line, At(C, c, FALSE), i) = At(C, Append(c, line[i]), FALSE)
      BY <2>3, LetterParsed
  <2>7. f[i] = At(C, Append(c, x), FALSE)
      BY <2>1, <2>3, <2>5, <2>6
  <2>8. Good(j)
      BY <2>4, <2>7 DEF i
  <2> HIDE DEF Good
  <2> QED
      BY <2>2, <2>8
<1> HIDE DEF G
<1>6. n \in G
  <2>1. n \in 0..n
      BY <1>2
  <2> QED
      BY <1>2, <1>4, <1>5, <2>1, Upwards
<1>7. SubSeq(cell, 1, n) = cell
    BY <1>2
<1>8. Good(n)
  <2> HIDE DEF Good
  <2> QED
      BY <1>6 DEF G
<1> QED
    BY <1>7, <1>8

\* From the k-th character on the parser reads a text as a cell.
Reads(f, k, w, C, cell) == f[k + Len(w)] = At(C, cell, FALSE)

\* A cell in quotes is read without them, and of its doubled quotes one.
LEMMA QuotedParsed ==
    ASSUME NEW S, "q" \in S, NEW cell \in Seq(S), Quoting(cell),
           NEW line, NEW f, Parses(line, f), NEW k, NEW C, NEW w, w = Written(cell),
           Standing(line, k, w), f[k] = At(C, <<>>, FALSE)
    PROVE  Reads(f, k, w, C, cell)
<1> DEFINE n == Len(cell)
           s == Doubled(cell)
<1>1. w[1] = "q" /\ w[Len(w)] = "q"
    BY WrittenQuoted
<1>2. PICK t, ends : /\ Len(t) \in Nat /\ Places(s, t, ends)
                     /\ Len(w) = Len(t) + 2
                     /\ \A p \in 1..Len(t) : w[p + 1] = t[p]
    BY WrittenQuoted
<1> DEFINE l == Len(t)
<1>3. /\ n \in Nat /\ Len(s) = n
      /\ \A i \in 1..n : s[i] = IF cell[i] = "q" THEN <<"q", "q">> ELSE <<cell[i]>>
    BY DEF Doubled
<1>4. l \in Nat /\ Len(w) = l + 2 /\ Len(line) \in Nat /\ k \in Nat /\ k + (l + 2) <= Len(line)
    BY <1>2 DEF Standing
<1>5. \A j \in 1..(l + 2) : line[k + j] = w[j]
    BY <1>4 DEF Standing
<1>6. k + (l + 2) = Len(line) \/ line[(k + (l + 2)) + 1] = ","
    BY <1>4 DEF Standing
<1>7. \A p \in 1..l : w[p + 1] = t[p]
    BY <1>2
<1> HIDE DEF s
<1>8. /\ \A i \in 0..n : ends[i] \in Nat
      /\ ends[0] = 0 /\ ends[n] = l
      /\ \A i \in 1..n : ends[i] = ends[i - 1] + Len(s[i])
      /\ \A i \in 1..n : \A j \in 1..Len(s[i]) :
            ends[i - 1] + j \in 1..l /\ t[ends[i - 1] + j] = s[i][j]
    BY <1>2, <1>3 DEF Places
<1> HIDE DEF l
<1> DEFINE b == k + 1
           Good(i) == f[b + ends[i]] = At(C, SubSeq(cell, 1, i), TRUE)
           G == {i \in 0..n : Good(i)}
<1>9. ASSUME NEW p \in 1..l PROVE line[b + p] = t[p] /\ b + p \in 1..Len(line)
  <2> DEFINE j == p + 1
  <2>1. j \in 1..(l + 2) /\ k + j = b + p /\ b + p \in 1..Len(line)
      BY <1>4
  <2>2. w[j] = t[p]
      BY <1>7
  <2> HIDE DEF j, b
  <2> QED
      BY <1>5, <2>1, <2>2
<1>10. b \in 1..Len(line) /\ b \in Nat /\ f[b] = At(C, <<>>, TRUE)
  <2>1. 1 \in 1..(l + 2) /\ b \in 1..Len(line) /\ b \in Nat /\ b - 1 = k
      BY <1>4
  <2>2. line[b] = "q"
      BY <1>1, <1>5, <2>1
  <2>3. f[b] = ParseChar(line, f[k], b)
      BY <2>1 DEF Parses
  <2> HIDE DEF b
  <2>4. ParseChar(line, At(C, <<>>, FALSE), b) = At(C, <<>>, TRUE)
      BY <2>2, QuoteOpens
  <2> QED
      BY <2>1, <2>3, <2>4
<1> HIDE DEF b
<1>11. 0 \in G
  <2>1. b + ends[0] = b /\ SubSeq(cell, 1, 0) = <<>> /\ 0 \in 0..n
      BY <1>3, <1>8, <1>10
  <2>2. Good(0)
      BY <1>10, <2>1
  <2> QED
      BY <2>1, <2>2
<1>12. ASSUME NEW i \in 1..n, i - 1 \in G PROVE i \in G
  <2> DEFINE m == i - 1
             c == SubSeq(cell, 1, m)
             e == b + ends[m]
             x == cell[i]
             z == Len(s[i])
  <2>1. f[e] = At(C, c, TRUE)
      BY <1>12
  <2>2. SubSeq(cell, 1, i) = Append(c, x)
      BY <1>3
  <2>3. m \in 0..n /\ i \in 0..n
      BY <1>3
  <2>4. ends[m] \in Nat /\ ends[i] = ends[m] + z /\ ends[i] \in Nat
      BY <1>8, <2>3
  <2>5. ASSUME NEW j \in 1..z PROVE line[e + j] = s[i][j] /\ e + j \in 1..Len(line)
    <3> DEFINE p == ends[m] + j
    <3>1. p \in 1..l /\ t[p] = s[i][j]
        BY <1>8
    <3>2. j \in Int
        OBVIOUS
    <3> HIDE DEF z
    <3>3. b + p = e + j
        BY <1>10, <2>4, <3>2
    <3> HIDE DEF p, e
    <3> QED
        BY <1>9, <3>1, <3>3
  <2>6. x = "q" => z = 2 /\ s[i][1] = "q" /\ s[i][2] = "q"
    <3>1. SUFFICES ASSUME x = "q" PROVE Len(s[i]) = 2 /\ s[i][1] = "q" /\ s[i][2] = "q"
        OBVIOUS
    <3>2. s[i] = <<"q", "q">>
        BY <1>3, <3>1
    <3> QED
        BY <3>2
  <2>7. x # "q" => z = 1 /\ s[i][1] = x
    <3>1. SUFFICES ASSUME x # "q" PROVE Len(s[i]) = 1 /\ s[i][1] = x
        OBVIOUS
    <3>2. s[i] = <<x>>
        BY <1>3, <3>1
    <3> QED
        BY <3>2
  <2> HIDE DEF m, c, x, z
  <2>8. e \in Nat
      BY <1>10, <2>4
  <2> HIDE DEF e
  <2>9. b + ends[i] = e + z /\ z \in Nat
    <3>1. z \in Nat
        BY <2>6, <2>7
    <3> QED
        BY <1>10, <2>4, <3>1 DEF e
  <2>10. CASE x = "q"
    <3> DEFINE y == e + 1
               v == y + 1
    <3>1. /\ line[y] = "q" /\ y \in 1..Len(line)
      <4>1. 1 \in 1..z /\ s[i][1] = "q"
          BY <2>6, <2>10
      <4> QED
          BY <2>5, <4>1
    <3>2. /\ line[v] = "q" /\ v \in 1..Len(line)
      <4>1. 2 \in 1..z /\ s[i][2] = "q" /\ v = e + 2
          BY <2>6, <2>8, <2>10
      <4> HIDE DEF v
      <4> QED
          BY <2>5, <4>1
    <3>3. y - 1 = e /\ v - 1 = y /\ y < Len(line) /\ v = b + ends[i]
        BY <1>4, <2>6, <2>8, <2>9, <2>10, <3>1, <3>2
    <3>4. line[y + 1] = "q"
        BY <3>2
    <3> HIDE DEF y
    <3>5. f[y] = ParseChar(line, f[e], y)
        BY <3>1, <3>3 DEF Parses
    <3>6. ParseChar(line, At(C, c, TRUE), y) = Skipping(C, Append(c, "q"))
      <4>1. line[y] = "q" /\ y < Len(line) /\ line[y + 1] = "q"
          BY <3>1, <3>3, <3>4
      <4> QED
          BY <4>1 DEF ParseChar, At, Skipping
    <3> HIDE DEF v
    <3>7. f[v] = ParseChar(line, f[y], v)
        BY <3>2, <3>3 DEF Parses
    <3>8. ParseChar(line, Skipping(C, Append(c, "q")), v) = At(C, Append(c, "q"), TRUE)
        BY QuoteSkipped
    <3>9. f[v] = At(C, Append(c, x), TRUE)
        BY <2>1, <2>10, <3>5, <3>6, <3>7, <3>8
    <3>10. Good(i)
        BY <2>2, <3>3, <3>9
    <3> HIDE DEF Good
    <3> QED
        BY <2>3, <3>10
  <2>11. CASE x # "q"
    <3> DEFINE y == e + 1
    <3>1. line[y] = x /\ y \in 1..Len(line)
      <4>1. 1 \in 1..z /\ s[i][1] = x
          BY <2>7, <2>11
      <4> QED
          BY <2>5, <4>1
    <3>2. y - 1 = e /\ y = b + ends[i]
        BY <2>7, <2>8, <2>9, <2>11
    <3> HIDE DEF y
    <3>3. f[y] = ParseChar(line, f[e], y)
        BY <3>1, <3>2 DEF Parses
    <3>4. ParseChar(line, At(C, c, TRUE), y) = At(C, Append(c, line[y]), TRUE)
        BY <2>11, <3>1, QuotedLetter
    <3>5. f[y] = At(C, Append(c, x), TRUE)
        BY <2>1, <3>1, <3>3, <3>4
    <3>6. Good(i)
        BY <2>2, <3>2, <3>5
    <3> HIDE DEF Good
    <3> QED
        BY <2>3, <3>6
  <2> QED
      BY <2>10, <2>11
<1>13. n \in G
  <2>1. n \in 0..n
      BY <1>3
  <2> HIDE DEF G
  <2> QED
      BY <1>3, <1>11, <1>12, <2>1, Upwards
<1>14. f[b + l] = At(C, cell, TRUE)
  <2>1. SubSeq(cell, 1, n) = cell
      BY <1>3
  <2> QED
      BY <1>8, <1>13, <2>1
<1> DEFINE z == k + (l + 2)
<1>15. z \in 1..Len(line) /\ z - 1 = b + l /\ l + 2 \in 1..(l + 2)
    BY <1>4 DEF b
<1>16. line[z] = "q"
    BY <1>1, <1>4, <1>5, <1>15
<1>17. ~(z < Len(line) /\ line[z + 1] = "q")
  <2>1. CASE z = Len(line)
      BY <1>4, <2>1
  <2>2. CASE line[z + 1] = ","
      BY <2>2
  <2> QED
      BY <1>6, <2>1, <2>2
<1> HIDE DEF z
<1>18. f[z] = ParseChar(line, f[b + l], z)
    BY <1>15 DEF Parses
<1>19. ParseChar(line, At(C, cell, TRUE), z) = At(C, cell, FALSE)
    BY <1>16, <1>17, QuoteCloses
<1>20. f[z] = At(C, cell, FALSE)
    BY <1>14, <1>18, <1>19
<1> QED
    BY <1>4, <1>20 DEF z, Reads

\* A cell is read, however it is written.
LEMMA CellParsed ==
    ASSUME NEW S, "q" \in S, NEW cell \in Seq(S), NEW line, NEW f, Parses(line, f),
           NEW k, NEW C, Standing(line, k, Written(cell)), f[k] = At(C, <<>>, FALSE)
    PROVE  Reads(f, k, Written(cell), C, cell)
<1>1. CASE Quoting(cell)
  <2> DEFINE w == Written(cell)
  <2>1. w = Written(cell) /\ Standing(line, k, w)
      OBVIOUS
  <2> HIDE DEF w
  <2>2. Reads(f, k, w, C, cell)
      BY <1>1, <2>1, QuotedParsed
  <2> QED
      BY <2>2 DEF w
<1>2. CASE ~Quoting(cell)
  <2>1. Written(cell) = cell
      BY <1>2 DEF Written, Quoting
  <2> DEFINE w == Written(cell)
  <2> HIDE DEF w
  <2>2. w = cell /\ Standing(line, k, w)
      BY <2>1 DEF w
  <2>3. Standing(line, k, cell)
      BY <2>2
  <2>4. f[k + Len(cell)] = At(C, cell, FALSE)
      BY <1>2, <2>3, PlainParsed
  <2>5. f[k + Len(w)] = At(C, cell, FALSE)
      BY <2>2, <2>4
  <2> QED
      BY <2>5 DEF Reads, w
<1> QED
    BY <1>1, <1>2

\* What is written of a row's cells (File).
Cells(row) == [c \in 1..Len(row) |-> Written(row[c])]

\* They are texts again.
LEMMA CellsType ==
    ASSUME NEW S, "q" \in S, NEW row \in Seq(Seq(S)), \A c \in 1..Len(row) : Trim(row[c]) = row[c]
    PROVE  /\ Cells(row) \in Seq(Seq(S)) /\ Len(Cells(row)) = Len(row)
           /\ \A c \in 1..Len(row) : Cells(row)[c] = Written(row[c])
<1> DEFINE T == Seq(S)
<1>1. ASSUME NEW c \in 1..Len(row) PROVE Written(row[c]) \in T
  <2>1. row[c] \in Seq(S)
      OBVIOUS
  <2> QED
      BY <2>1, WrittenCell
<1> HIDE DEF T
<1>2. Cells(row) \in Seq(T) /\ Len(Cells(row)) = Len(row)
  <2>1. Len(row) \in Nat
      OBVIOUS
  <2> QED
      BY <1>1, <2>1 DEF Cells
<1> QED
    BY <1>2 DEF Cells, T

\* A row is read as it was written, cell by cell.
LEMMA RowParsed ==
    ASSUME NEW row \in Seq(Seq(Letters)), Len(row) # 0,
           \A c \in 1..Len(row) : Trim(row[c]) = row[c]
    PROVE  ParseRow(Separated(Cells(row), ",")) = row
<1> DEFINE n == Len(row)
           T == Seq(Letters)
           parts == Cells(row)
           line == Separated(parts, ",")
           upto(i) == SubSeq(row, 1, i)
<1>1. n \in Nat /\ 1 \in 1..n /\ n \in 1..n /\ \A i \in 1..n : row[i] \in T
    OBVIOUS
<1>2. parts \in Seq(Seq(Letters)) /\ Len(parts) = n /\ \A i \in 1..n : parts[i] = Written(row[i])
    BY CellsType, CsvAssumption
<1>3. line \in Seq(Letters) /\ \E from, to : Parted(parts, ",", line, from, to)
  <2>1. "," \in Letters /\ Len(parts) # 0
      BY <1>1, <1>2, CsvAssumption
  <2> HIDE DEF parts
  <2> QED
      BY <1>2, <2>1, SeparatedParts
<1> HIDE DEF parts, line, n
<1>0. line \in Seq(Letters) /\ Len(line) \in Nat
  <2>1. line \in Seq(Letters)
      BY <1>3
  <2> QED
      BY <2>1
<1>4. PICK from, to : Parted(parts, ",", line, from, to)
    BY <1>3
<1>5. PICK f : /\ Parses(line, f)
               /\ ParseRow(line) = Append(f[Len(line)].cells, Trim(f[Len(line)].cell))
    BY <1>3, ParsedBy
<1>6. /\ Len(line) \in Nat /\ from[1] = 0 /\ to[n] = Len(line)
      /\ \A i \in 1..n : /\ from[i] \in Nat /\ to[i] = from[i] + Len(parts[i])
                         /\ to[i] <= Len(line)
                         /\ \A k \in 1..Len(parts[i]) : line[from[i] + k] = parts[i][k]
      /\ \A i \in 2..n : from[i] = to[i - 1] + 1 /\ line[from[i]] = ","
  <2>1. Len(line) \in Nat
      BY <1>0
  <2> DEFINE m == Len(parts)
  <2>2. /\ from[1] = 0 /\ to[m] = Len(line)
        /\ \A i \in 1..m : /\ from[i] \in Nat /\ to[i] = from[i] + Len(parts[i])
                           /\ to[i] <= Len(line)
                           /\ \A k \in 1..Len(parts[i]) : line[from[i] + k] = parts[i][k]
        /\ \A i \in 2..m : from[i] = to[i - 1] + 1 /\ line[from[i]] = ","
      BY <1>4 DEF Parted
  <2>3. m = n
      BY <1>2
  <2> HIDE DEF m
  <2> QED
      BY <2>1, <2>2, <2>3
<1>7. ASSUME NEW i \in 1..n PROVE Len(parts[i]) \in Nat
  <2>1. parts[i] \in Seq(Letters)
      BY <1>2
  <2> QED
      BY <2>1
<1> HIDE DEF upto
<1>8. ASSUME NEW i \in 1..n PROVE Standing(line, from[i], Written(row[i]))
  <2> DEFINE w == parts[i]
             k == from[i]
             e == k + Len(w)
  <2>1. /\ k \in Nat /\ to[i] = e /\ e <= Len(line) /\ Len(w) \in Nat
        /\ \A j \in 1..Len(w) : line[k + j] = w[j]
      BY <1>6, <1>7
  <2>2. e = Len(line) \/ line[e + 1] = ","
    <3>1. CASE i = n
        BY <1>6, <2>1, <3>1
    <3>2. CASE i # n
      <4> DEFINE j == i + 1
      <4>1. j \in 2..n /\ j - 1 = i
          BY <1>1, <3>2
      <4> HIDE DEF j
      <4>2. from[j] = to[i] + 1 /\ line[from[j]] = ","
          BY <1>6, <4>1
      <4> QED
          BY <2>1, <4>2
    <3> QED
        BY <3>1, <3>2
  <2> HIDE DEF k, w
  <2>3. Standing(line, k, w)
      BY <1>6, <2>1, <2>2 DEF Standing
  <2> QED
      BY <1>2, <2>3 DEF k, w
<1> DEFINE Good(i) == f[to[i]] = At(upto(i - 1), row[i], FALSE)
           G == {i \in 0..n : i = 0 \/ Good(i)}
<1>9. ASSUME NEW i \in 1..n, f[from[i]] = At(upto(i - 1), <<>>, FALSE) PROVE Good(i)
  <2> DEFINE k == from[i]
             C == upto(i - 1)
             cell == row[i]
  <2>1. cell \in Seq(Letters) /\ Standing(line, k, Written(cell)) /\ f[k] = At(C, <<>>, FALSE)
      BY <1>1, <1>8, <1>9
  <2>2. to[i] = k + Len(Written(cell)) /\ "q" \in Letters
      BY <1>2, <1>6, CsvAssumption
  <2> HIDE DEF k, C, cell
  <2>3. Reads(f, k, Written(cell), C, cell)
      BY <1>5, <2>1, <2>2, CellParsed
  <2>4. f[to[i]] = At(C, cell, FALSE)
      BY <2>2, <2>3 DEF Reads
  <2> QED
      BY <2>4 DEF C, cell
<1>10. ASSUME NEW i \in 1..n, i - 1 \in G PROVE i \in G
  <2> HIDE DEF Good
  <2>0. i \in 0..n
      BY <1>1
  <2>1. CASE i = 1
    <3>1. f[from[i]] = At(<<>>, <<>>, FALSE)
        BY <1>5, <1>6, <2>1 DEF Parses
    <3>2. upto(i - 1) = <<>>
        BY <2>1 DEF upto
    <3>3. Good(i)
        BY <1>9, <3>1, <3>2
    <3> QED
        BY <2>0, <3>3
  <2>2. CASE i # 1
    <3> DEFINE j == i - 1
               z == from[i]
               C == upto(j - 1)
               cell == row[j]
    <3>1. j \in 1..n /\ i \in 2..n /\ j # 0
        BY <1>1, <2>2
    <3>2. Good(j)
        BY <1>10, <3>1
    <3>3. Append(C, cell) = upto(j)
        BY <1>1, <3>1 DEF upto, n
    <3>4. z = to[j] + 1 /\ line[z] = "," /\ to[j] \in Nat /\ z \in 1..Len(line) /\ z - 1 = to[j]
      <4>1. z \in Nat /\ z + Len(parts[i]) <= Len(line) /\ Len(parts[i]) \in Nat
          BY <1>6, <1>7
      <4>2. z = to[j] + 1 /\ line[z] = ","
          BY <1>6, <3>1
      <4>3. to[j] = from[j] + Len(parts[j]) /\ from[j] \in Nat /\ Len(parts[j]) \in Nat
          BY <1>6, <1>7, <3>1
      <4> HIDE DEF z, j
      <4>4. to[j] \in Nat
          BY <4>3
      <4>5. z <= Len(line)
          BY <1>0, <4>1
      <4>6. z \in 1..Len(line) /\ z - 1 = to[j]
        <5> DEFINE x == to[j]
                   l == Len(line)
        <5>1. x \in Nat /\ z = x + 1 /\ l \in Nat /\ z <= l
            BY <1>0, <4>2, <4>4, <4>5
        <5> HIDE DEF x, l
        <5>2. z \in 1..l /\ z - 1 = x
            BY <5>1
        <5> QED
            BY <5>2 DEF x, l
      <4> QED
          BY <4>2, <4>4, <4>6
    <3>5. Trim(cell) = cell
        BY <3>1 DEF n
    <3> HIDE DEF z, C, cell
    <3>6. f[z] = ParseChar(line, f[to[j]], z)
        BY <1>5, <3>4 DEF Parses
    <3>7. f[to[j]] = At(C, cell, FALSE)
        BY <3>2 DEF Good, C, cell
    <3>8. ParseChar(line, At(C, cell, FALSE), z) = At(Append(C, Trim(cell)), <<>>, FALSE)
        BY <3>4 DEF ParseChar, At
    <3>9. f[z] = At(upto(j), <<>>, FALSE)
        BY <3>3, <3>5, <3>6, <3>7, <3>8
    <3>10. Good(i)
        BY <1>9, <3>9 DEF z
    <3> QED
        BY <2>0, <3>10
  <2> QED
      BY <2>1, <2>2
<1>11. n \in G
  <2>1. 0 \in G /\ n \in 0..n
      BY <1>1
  <2> HIDE DEF G
  <2> QED
      BY <1>1, <1>10, <2>1, Upwards
<1>12. f[Len(line)] = At(upto(n - 1), row[n], FALSE)
  <2> HIDE DEF Good
  <2>1. n # 0
      BY <1>1
  <2>2. Good(n)
      BY <1>11, <2>1
  <2> QED
      BY <1>6, <2>2 DEF Good
<1>13. ParseRow(line) = Append(upto(n - 1), Trim(row[n]))
    BY <1>5, <1>12 DEF At
<1>14. Trim(row[n]) = row[n]
    BY <1>1 DEF n
<1>15. Append(upto(n - 1), row[n]) = row
    BY <1>1 DEF upto, n
<1> QED
    BY <1>13, <1>14, <1>15 DEF line, parts

\* The lines so far and the one that is read.
LinesAt(lines, line) == [lines |-> lines, line |-> line]

CutOn(text, a, i) ==
    IF text[i] = "nl" THEN [lines |-> Append(a.lines, a.line), line |-> <<>>]
    ELSE [a EXCEPT !.line = Append(@, text[i])]

CutAt(text, f, i) ==
    IF i = 0 THEN [lines |-> <<>>, line |-> <<>>] ELSE CutOn(text, f[i - 1], i)

Cuts(text, f) ==
    f[0] = LinesAt(<<>>, <<>>) /\ \A i \in 1..Len(text) : f[i] = CutOn(text, f[i - 1], i)

\* A text is split from its first character to its last (text.split).
LEMMA CutBy ==
    ASSUME NEW text \in Seq(Letters)
    PROVE  \E f : Cuts(text, f) /\ Lines(text) = Append(f[Len(text)].lines, f[Len(text)].line)
<1> DEFINE n == Len(text)
           T == Seq(Letters)
           U == Seq(T)
           A == [lines : U, line : T]
           x == [lines |-> <<>>, line |-> <<>>]
           G == [z \in (1..n) \X A |-> CutOn(text, z[2], z[1])]
           Is(f) == f = [i \in 0..n |->
                            IF i = 0 THEN [lines |-> <<>>, line |-> <<>>]
                            ELSE IF text[i] = "nl"
                                 THEN [lines |-> Append(f[i - 1].lines, f[i - 1].line),
                                       line |-> <<>>]
                            ELSE [f[i - 1] EXCEPT !.line = Append(@, text[i])]]
           h == CHOOSE f : Is(f)
<1>1. Lines(text) = Append(h[n].lines, h[n].line)
    BY DEF Lines
<1>2. n \in Nat /\ \A i \in 1..n : text[i] \in Letters
    OBVIOUS
<1>3. x \in A /\ x = LinesAt(<<>>, <<>>)
    BY DEF LinesAt
<1>4. \A i \in 1..n : \A a \in A : CutOn(text, a, i) \in A
  <2> SUFFICES ASSUME NEW i \in 1..n, NEW a \in A PROVE CutOn(text, a, i) \in A
      OBVIOUS
  <2> DEFINE grown == Append(a.line, text[i])
             done == Append(a.lines, a.line)
  <2>1. a.lines \in U /\ a.line \in T
    <3> HIDE DEF T, U
    <3> QED
        OBVIOUS
  <2>2. grown \in T
      BY <1>2, <2>1
  <2>3. done \in U /\ <<>> \in T
      BY <2>1
  <2> HIDE DEF grown, done, T, U
  <2>4. [lines |-> done, line |-> <<>>] \in A /\ [a EXCEPT !.line = grown] \in A
      BY <2>2, <2>3
  <2>5. CutOn(text, a, i) \in {[lines |-> done, line |-> <<>>], [a EXCEPT !.line = grown]}
      BY DEF CutOn, grown, done
  <2> HIDE DEF A
  <2> QED
      BY <2>4, <2>5
<1> HIDE DEF n, A, x
<1>5. G \in [(1..n) \X A -> A] /\ \A i \in 1..n : \A a \in A : G[<<i, a>>] = CutOn(text, a, i)
    BY <1>4
<1> HIDE DEF G
<1>6. PICK f : f \in [0..n -> A] /\ f[0] = x /\ \A i \in 1..n : f[i] = G[<<i, f[i - 1]>>]
  <2>1. Step(G, n, A)
      BY <1>5 DEF Step
  <2>2. \E f : Computes(f, G, n, A, x)
      BY <1>2, <1>3, <2>1, RecursionExists
  <2> QED
      BY <2>2 DEF Computes
<1>7. ASSUME NEW i \in 0..n PROVE f[i] = CutAt(text, f, i)
  <2>1. CASE i = 0
      BY <1>6, <2>1 DEF CutAt, x
  <2>2. CASE i # 0
    <3>1. i \in 1..n /\ i - 1 \in 0..n
        BY <1>2, <2>2
    <3>2. f[i] = CutOn(text, f[i - 1], i)
        BY <1>5, <1>6, <3>1
    <3> QED
        BY <2>2, <3>2 DEF CutAt
  <2> QED
      BY <2>1, <2>2
<1>8. Is(f)
  <2>1. f = [i \in 0..n |-> CutAt(text, f, i)]
      BY <1>6, <1>7
  <2> QED
      BY <2>1 DEF CutAt, CutOn
<1>9. Is(h)
    BY <1>8
<1> HIDE DEF h
<1>10. h[0] = LinesAt(<<>>, <<>>)
  <2>1. 0 \in 0..n
      BY <1>2
  <2> QED
      BY <1>9, <2>1 DEF LinesAt
<1>11. ASSUME NEW i \in 1..n PROVE h[i] = CutOn(text, h[i - 1], i)
  <2>1. i \in 0..n /\ i # 0
      BY <1>2
  <2>2. h = [j \in 0..n |-> CutAt(text, h, j)]
      BY <1>9 DEF CutAt, CutOn
  <2> HIDE DEF Is
  <2>3. h[i] = CutAt(text, h, i)
      BY <2>1, <2>2
  <2> QED
      BY <2>1, <2>3 DEF CutAt
<1>12. Cuts(text, h)
    BY <1>10, <1>11 DEF Cuts, n
<1> QED
    BY <1>1, <1>12 DEF n

\* A piece without a newline stands in a text behind its k-th character.
Lies(text, k, piece) ==
    /\ Len(text) \in Nat /\ k \in Nat /\ k + Len(piece) <= Len(text)
    /\ \A j \in 1..Len(piece) : text[k + j] = piece[j] /\ piece[j] # "nl"

Gathers(f, k, piece, L) == f[k + Len(piece)] = LinesAt(L, piece)

\* It is read into the line.
LEMMA PieceCut ==
    ASSUME NEW S, NEW piece \in Seq(S), NEW text, NEW f, Cuts(text, f), NEW k,
           Lies(text, k, piece), NEW L, f[k] = LinesAt(L, <<>>)
    PROVE  Gathers(f, k, piece, L)
<1> DEFINE n == Len(piece)
           Good(j) == f[k + j] = LinesAt(L, SubSeq(piece, 1, j))
           G == {j \in 0..n : Good(j)}
<1>1. n \in Nat /\ Len(text) \in Nat /\ k \in Nat /\ k + n <= Len(text)
  <2>1. n \in Nat
      OBVIOUS
  <2>2. Len(text) \in Nat /\ k \in Nat /\ k + Len(piece) <= Len(text)
      BY DEF Lies
  <2> QED
      BY <2>1, <2>2
<1>2. 0 \in G
  <2>1. k + 0 = k /\ SubSeq(piece, 1, 0) = <<>> /\ 0 \in 0..n
      BY <1>1
  <2>2. Good(0)
      BY <2>1
  <2> QED
      BY <2>1, <2>2
<1>3. ASSUME NEW j \in 1..n, j - 1 \in G PROVE j \in G
  <2> DEFINE m == j - 1
             i == k + j
             c == SubSeq(piece, 1, m)
             x == piece[j]
  <2>1. f[k + m] = LinesAt(L, c)
      BY <1>3
  <2>2. i \in 1..Len(text) /\ i - 1 = k + m /\ j \in 0..n
      BY <1>1
  <2>3. text[i] = x /\ x # "nl"
      BY DEF Lies
  <2>4. SubSeq(piece, 1, j) = Append(c, x)
      BY <1>1
  <2> HIDE DEF m, i, c, x
  <2>5. f[i] = CutOn(text, f[k + m], i)
      BY <2>2 DEF Cuts
  <2>6. CutOn(text, LinesAt(L, c), i) = LinesAt(L, Append(c, x))
      BY <2>3 DEF CutOn, LinesAt
  <2>7. Good(j)
      BY <2>1, <2>4, <2>5, <2>6 DEF i
  <2> HIDE DEF Good
  <2> QED
      BY <2>2, <2>7
<1> HIDE DEF G
<1>4. n \in G
  <2>1. n \in 0..n
      BY <1>1
  <2> QED
      BY <1>1, <1>2, <1>3, <2>1, Upwards
<1>5. SubSeq(piece, 1, n) = piece
    BY <1>1
<1> QED
    BY <1>4, <1>5 DEF G, Gathers

\* Lines without a newline are found as they were written.
LEMMA LinesFound ==
    ASSUME NEW rows \in Seq(Seq(Letters)), Len(rows) # 0,
           \A i \in 1..Len(rows) : \A j \in 1..Len(rows[i]) : rows[i][j] # "nl"
    PROVE  Lines(Separated(rows, "nl")) = rows
<1> DEFINE n == Len(rows)
           T == Seq(Letters)
           text == Separated(rows, "nl")
           upto(i) == SubSeq(rows, 1, i)
<1>1. n \in Nat /\ 1 \in 1..n /\ n \in 1..n /\ \A i \in 1..n : rows[i] \in T /\ Len(rows[i]) \in Nat
    OBVIOUS
<1>2. text \in Seq(Letters) /\ \E from, to : Parted(rows, "nl", text, from, to)
  <2>1. "nl" \in Letters /\ Len(rows) # 0
      BY CsvAssumption
  <2> QED
      BY <2>1, SeparatedParts
<1> HIDE DEF text
<1>3. text \in Seq(Letters) /\ Len(text) \in Nat
  <2>1. text \in Seq(Letters)
      BY <1>2
  <2> QED
      BY <2>1
<1>4. PICK from, to : Parted(rows, "nl", text, from, to)
    BY <1>2
<1>5. PICK f : Cuts(text, f) /\ Lines(text) = Append(f[Len(text)].lines, f[Len(text)].line)
    BY <1>3, CutBy
<1>6. /\ from[1] = 0 /\ to[n] = Len(text)
      /\ \A i \in 1..n : /\ from[i] \in Nat /\ to[i] = from[i] + Len(rows[i])
                         /\ to[i] <= Len(text)
                         /\ \A k \in 1..Len(rows[i]) : text[from[i] + k] = rows[i][k]
      /\ \A i \in 2..n : from[i] = to[i - 1] + 1 /\ text[from[i]] = "nl"
    BY <1>4 DEF Parted
<1> DEFINE Good(i) == f[to[i]] = LinesAt(upto(i - 1), rows[i])
           G == {i \in 0..n : i = 0 \/ Good(i)}
<1>7. \A i \in 1..n : \A j \in 1..Len(rows[i]) : rows[i][j] # "nl"
    OBVIOUS
<1> HIDE DEF upto, n
<1>8. ASSUME NEW i \in 1..n, f[from[i]] = LinesAt(upto(i - 1), <<>>) PROVE Good(i)
  <2> DEFINE k == from[i]
             L == upto(i - 1)
             piece == rows[i]
  <2>1. piece \in Seq(Letters) /\ f[k] = LinesAt(L, <<>>)
      BY <1>1, <1>8
  <2>2. to[i] = k + Len(piece) /\ Lies(text, k, piece)
    <3>1. /\ k \in Nat /\ to[i] = k + Len(piece) /\ to[i] <= Len(text)
          /\ \A j \in 1..Len(piece) : text[k + j] = piece[j]
        BY <1>6
    <3>2. \A j \in 1..Len(piece) : piece[j] # "nl"
        BY <1>7
    <3>3. Len(text) \in Nat
        BY <1>3
    <3> HIDE DEF k, piece
    <3> QED
        BY <3>1, <3>2, <3>3 DEF Lies
  <2> HIDE DEF k, L, piece
  <2>3. Gathers(f, k, piece, L)
      BY <1>5, <2>1, <2>2, PieceCut
  <2> QED
      BY <2>2, <2>3 DEF L, piece, Gathers
<1>9. ASSUME NEW i \in 1..n, i - 1 \in G PROVE i \in G
  <2> HIDE DEF Good
  <2>0. i \in 0..n
      BY <1>1
  <2>1. CASE i = 1
    <3>1. f[from[i]] = LinesAt(<<>>, <<>>)
        BY <1>5, <1>6, <2>1 DEF Cuts
    <3>2. upto(i - 1) = <<>>
        BY <2>1 DEF upto
    <3>3. Good(i)
        BY <1>8, <3>1, <3>2
    <3> QED
        BY <2>0, <3>3
  <2>2. CASE i # 1
    <3> DEFINE j == i - 1
               x == to[j]
               z == from[i]
               l == Len(text)
               L == upto(j - 1)
               piece == rows[j]
    <3>1. j \in 1..n /\ i \in 2..n /\ j # 0
        BY <1>1, <2>2
    <3>2. Good(j)
        BY <1>9, <3>1
    <3>3. Append(L, piece) = upto(j)
        BY <1>1, <3>1 DEF upto, n
    <3>4. x = from[j] + Len(piece) /\ from[j] \in Nat /\ Len(piece) \in Nat
        BY <1>1, <1>6, <3>1
    <3>5. z = x + 1 /\ text[z] = "nl"
        BY <1>6, <3>1
    <3>6. z + Len(rows[i]) <= l /\ Len(rows[i]) \in Nat /\ l \in Nat
        BY <1>1, <1>3, <1>6
    <3>7. f[x] = LinesAt(L, piece)
        BY <3>2 DEF Good
    <3> HIDE DEF x, z, l, L, piece, j
    <3>8. x \in Nat /\ z \in 1..l /\ z - 1 = x
      <4>1. x \in Nat
          BY <3>4
      <4>2. z = x + 1 /\ z <= l /\ l \in Nat
        <5>1. z = x + 1
            BY <3>5
        <5> DEFINE u == Len(rows[i])
        <5>2. z + u <= l /\ u \in Nat /\ l \in Nat
            BY <3>6
        <5> HIDE DEF u
        <5> QED
            BY <4>1, <5>1, <5>2
      <4> QED
          BY <4>1, <4>2
    <3>9. f[z] = CutOn(text, f[x], z)
        BY <1>5, <3>8 DEF Cuts, l
    <3>10. CutOn(text, LinesAt(L, piece), z) = LinesAt(Append(L, piece), <<>>)
        BY <3>5 DEF CutOn, LinesAt
    <3>11. f[z] = LinesAt(upto(j), <<>>)
        BY <3>3, <3>7, <3>9, <3>10
    <3>12. Good(i)
        BY <1>8, <3>11 DEF z, j
    <3> QED
        BY <2>0, <3>12
  <2> QED
      BY <2>1, <2>2
<1>10. n \in G
  <2>1. 0 \in G /\ n \in 0..n
      BY <1>1
  <2> HIDE DEF G
  <2> QED
      BY <1>1, <1>9, <2>1, Upwards
<1>11. f[Len(text)] = LinesAt(upto(n - 1), rows[n])
  <2> HIDE DEF Good
  <2>1. n # 0
      BY <1>1
  <2>2. Good(n)
      BY <1>10, <2>1
  <2> QED
      BY <1>6, <2>2 DEF Good
<1>12. Lines(text) = Append(upto(n - 1), rows[n])
    BY <1>5, <1>11 DEF LinesAt
<1>13. Append(upto(n - 1), rows[n]) = rows
    BY <1>1 DEF upto, n
<1> QED
    BY <1>12, <1>13 DEF text

\* A text with ink at both ends.
Inked(t) == Len(t) # 0 /\ ~Blank(t[1]) /\ ~Blank(t[Len(t)])

\* Parts make such a text if the first and the last do, or are empty between
\* separators of ink.
LEMMA PartsInked ==
    ASSUME NEW S, NEW ch \in S, NEW parts \in Seq(Seq(S)), Len(parts) # 0,
           \A i \in {1, Len(parts)} :
               \/ Inked(parts[i])
               \/ Len(parts) > 1 /\ Len(parts[i]) = 0 /\ ~Blank(ch)
    PROVE  Inked(Separated(parts, ch))
<1> DEFINE n == Len(parts)
           t == Separated(parts, ch)
           l == Len(t)
           m(i) == Len(parts[i])
<1>1. n \in Nat /\ 1 \in 1..n /\ n \in 1..n
    OBVIOUS
<1>2. \A i \in 1..n : m(i) \in Nat
  <2> SUFFICES ASSUME NEW i \in 1..n PROVE Len(parts[i]) \in Nat
      OBVIOUS
  <2>1. parts[i] \in Seq(S)
      OBVIOUS
  <2> QED
      BY <2>1
<1>3. t \in Seq(S) /\ \E from, to : Parted(parts, ch, t, from, to)
    BY SeparatedParts
<1> HIDE DEF t
<1>4. l \in Nat
  <2>1. t \in Seq(S)
      BY <1>3
  <2> QED
      BY <2>1
<1>5. PICK from, to : Parted(parts, ch, t, from, to)
    BY <1>3
<1>6. /\ from[1] = 0 /\ to[n] = l
      /\ \A i \in 1..n : /\ from[i] \in Nat /\ to[i] = from[i] + m(i) /\ to[i] <= l
                         /\ \A k \in 1..m(i) : t[from[i] + k] = parts[i][k]
      /\ \A i \in 2..n : from[i] = to[i - 1] + 1 /\ t[from[i]] = ch
    BY <1>5 DEF Parted
<1>7. \A i \in {1, n} : \/ m(i) # 0 /\ ~Blank(parts[i][1]) /\ ~Blank(parts[i][m(i)])
                        \/ n > 1 /\ m(i) = 0 /\ ~Blank(ch)
    BY DEF Inked
<1> HIDE DEF n, l, m
<1>8. l # 0 /\ ~Blank(t[1])
  <2>1. CASE m(1) # 0 /\ ~Blank(parts[1][1])
    <3>1. 1 \in 1..m(1) /\ from[1] = 0 /\ m(1) \in Nat
        BY <1>1, <1>2, <1>6, <2>1
    <3>2. t[from[1] + 1] = parts[1][1]
        BY <1>1, <1>6, <3>1
    <3>3. to[1] = m(1) /\ to[1] <= l
        BY <1>1, <1>6, <3>1
    <3> QED
        BY <1>4, <2>1, <3>1, <3>2, <3>3
  <2>2. CASE n > 1 /\ m(1) = 0 /\ ~Blank(ch)
    <3>1. 2 \in 1..n /\ 2 \in 2..n /\ 2 - 1 = 1
        BY <1>1, <2>2
    <3>2. to[1] = 0
      <4>1. to[1] = 0 + m(1)
          BY <1>1, <1>6
      <4> QED
          BY <2>2, <4>1
    <3>3. from[2] = 1 /\ t[1] = ch
        BY <1>6, <3>1, <3>2
    <3>4. 1 + m(2) <= l /\ m(2) \in Nat
        BY <1>2, <1>6, <3>1, <3>3
    <3> QED
        BY <1>4, <2>2, <3>3, <3>4
  <2> QED
      BY <1>7, <2>1, <2>2
<1>9. ~Blank(t[l])
  <2>1. CASE m(n) # 0 /\ ~Blank(parts[n][m(n)])
    <3>1. m(n) \in 1..m(n)
        BY <1>1, <1>2, <2>1
    <3>2. t[from[n] + m(n)] = parts[n][m(n)] /\ l = from[n] + m(n)
        BY <1>1, <1>6, <3>1
    <3> QED
        BY <2>1, <3>2
  <2>2. CASE n > 1 /\ m(n) = 0 /\ ~Blank(ch)
    <3>1. n \in 2..n
        BY <1>1, <2>2
    <3>2. from[n] = l /\ t[from[n]] = ch
      <4>1. l = from[n] + 0 /\ from[n] \in Nat
          BY <1>1, <1>6, <2>2
      <4> QED
          BY <1>6, <3>1, <4>1
    <3> QED
        BY <2>2, <3>2
  <2> QED
      BY <1>7, <2>1, <2>2
<1> QED
    BY <1>8, <1>9 DEF Inked, t, l

\* Such a text is not trimmed.
LEMMA InkedKept ==
    ASSUME NEW S, NEW t \in Seq(S), Inked(t)
    PROVE  Trim(t) = t /\ t # <<>>
<1>1. Len(t) # 0 /\ ~Blank(t[1]) /\ ~Blank(t[Len(t)])
    BY DEF Inked
<1>2. Trim(t) = t
    BY <1>1, TrimSelf
<1> QED
    BY <1>1, <1>2

\* The line of a row (File).
LineOf(row) == Separated(Cells(row), ",")

\* A row that the file can hold.
Fits(row) ==
    /\ row \in Seq(Seq(Letters)) /\ row \notin {<<>>, <<<<>>>>}
    /\ \A c \in 1..Len(row) : Trim(row[c]) = row[c] /\ ~Contains(row[c], "nl")

\* Its line begins and ends with ink.
LEMMA LineInked ==
    ASSUME NEW row, Fits(row)
    PROVE  LineOf(row) \in Seq(Letters) /\ Inked(LineOf(row))
<1> DEFINE n == Len(row)
           parts == Cells(row)
<1>1. /\ row \in Seq(Seq(Letters)) /\ n \in Nat /\ n # 0
      /\ \A c \in 1..n : row[c] \in Seq(Letters) /\ Trim(row[c]) = row[c]
  <2>1. row \in Seq(Seq(Letters)) /\ row # <<>> /\ \A c \in 1..n : Trim(row[c]) = row[c]
      BY DEF Fits
  <2> QED
      BY <2>1
<1>2. parts \in Seq(Seq(Letters)) /\ Len(parts) = n /\ \A i \in 1..n : parts[i] = Written(row[i])
    BY <1>1, CellsType, CsvAssumption
<1>3. row # <<<<>>>>
    BY DEF Fits
<1> HIDE DEF parts
<1>4. ASSUME NEW i \in 1..n
      PROVE  Inked(parts[i]) \/ (n > 1 /\ Len(parts[i]) = 0 /\ ~Blank(","))
  <2> DEFINE cell == row[i]
             w == parts[i]
  <2>1. cell \in Seq(Letters) /\ Trim(cell) = cell /\ w = Written(cell) /\ "q" \in Letters
      BY <1>1, <1>2, CsvAssumption
  <2> HIDE DEF w
  <2>2. CASE cell = <<>>
    <3>1. w = <<>>
        BY <2>1, <2>2, WrittenCell
    <3>2. n # 1
      <4>1. ASSUME n = 1 PROVE FALSE
        <5>1. i = 1
            BY <4>1
        <5>2. row = <<row[1]>>
            BY <1>1, <4>1
        <5> QED
            BY <1>3, <2>2, <5>1, <5>2
      <4> QED
          BY <4>1
    <3>3. n > 1 /\ ~Blank(",")
      <4>1. n > 1
        <5> HIDE DEF n
        <5> QED
            BY <1>1, <3>2
      <4>2. ~Blank(",")
          BY DEF Blank
      <4> QED
          BY <4>1, <4>2
    <3> QED
        BY <3>1, <3>3 DEF w
  <2>3. CASE cell # <<>>
    <3>1. Len(w) \in Nat \ {0} /\ ~Blank(w[1]) /\ ~Blank(w[Len(w)])
        BY <2>1, <2>3, WrittenCell
    <3> QED
        BY <3>1 DEF Inked, w
  <2> QED
      BY <2>2, <2>3
<1>5. /\ "," \in Letters /\ Len(parts) # 0
      /\ \A i \in {1, Len(parts)} :
             Inked(parts[i]) \/ (Len(parts) > 1 /\ Len(parts[i]) = 0 /\ ~Blank(","))
  <2>1. 1 \in 1..n /\ n \in 1..n
      BY <1>1
  <2> HIDE DEF n
  <2> QED
      BY <1>1, <1>2, <1>4, <2>1, CsvAssumption
<1>6. Separated(parts, ",") \in Seq(Letters)
    BY <1>2, <1>5, SeparatedParts
<1>7. Inked(Separated(parts, ","))
    BY <1>2, <1>5, PartsInked
<1> QED
    BY <1>6, <1>7 DEF LineOf, parts

\* It has no newline.
LEMMA LineWithin ==
    ASSUME NEW row, Fits(row)
    PROVE  \A j \in 1..Len(LineOf(row)) : LineOf(row)[j] # "nl"
<1> DEFINE S == Letters \ {"nl"}
           T == Seq(S)
           n == Len(row)
           parts == Cells(row)
           line == Separated(parts, ",")
<1>1. /\ row \in Seq(Seq(Letters)) /\ row # <<>>
      /\ \A c \in 1..n : Trim(row[c]) = row[c] /\ ~Contains(row[c], "nl")
    BY DEF Fits
<1>2. n \in Nat /\ n # 0
    BY <1>1
<1>3. "q" \in S /\ "," \in S
    BY CsvAssumption
<1>4. ASSUME NEW c \in 1..n PROVE row[c] \in T
  <2> DEFINE cell == row[c]
  <2>1. cell \in Seq(Letters)
      BY <1>1
  <2>2. \A k \in 1..Len(cell) : cell[k] \in Letters
      BY <2>1
  <2>3. \A k \in 1..Len(cell) : cell[k] # "nl"
      BY <1>1 DEF Contains
  <2> HIDE DEF cell
  <2>4. \A k \in 1..Len(cell) : cell[k] \in S
      BY <2>2, <2>3
  <2> HIDE DEF S
  <2>5. cell \in Seq(S)
      BY <2>1, <2>4, SeqWithin
  <2> QED
      BY <2>5 DEF cell
<1>5. row \in Seq(T)
  <2> DEFINE U == Seq(Letters)
  <2>1. row \in Seq(U) /\ \A k \in 1..Len(row) : row[k] \in T
      BY <1>1, <1>4
  <2> HIDE DEF T, U
  <2> QED
      BY <2>1, SeqWithin
<1> HIDE DEF S
<1>6. parts \in Seq(Seq(S)) /\ Len(parts) = n
    BY <1>1, <1>3, <1>5, CellsType
<1> HIDE DEF parts
<1>7. line \in Seq(S)
  <2>1. Len(parts) # 0
      BY <1>2, <1>6
  <2> QED
      BY <1>3, <1>6, <2>1, SeparatedParts
<1> HIDE DEF line
<1>8. \A j \in 1..Len(line) : line[j] \in S
    BY <1>7
<1> QED
    BY <1>8 DEF S, line, parts, LineOf

\* And it is read as the row.
LEMMA LineParsed ==
    ASSUME NEW row, Fits(row)
    PROVE  ParseRow(LineOf(row)) = row
<1>1. /\ row \in Seq(Seq(Letters)) /\ row # <<>>
      /\ \A c \in 1..Len(row) : Trim(row[c]) = row[c]
    BY DEF Fits
<1>2. Len(row) # 0
    BY <1>1
<1> QED
    BY <1>1, <1>2, RowParsed DEF LineOf

\* The lines of a table (File).
LinesOf(table) == [r \in 1..Len(table) |-> LineOf(table[r])]

\* A file is read as the table it was written from.
LEMMA FileRead ==
    ASSUME NEW table \in Tables, Plain(table)
    PROVE  ParseCSV(File(table)) = table
<1> DEFINE n == Len(table)
           T == Seq(Letters)
           U == Seq(T)
           L == LinesOf(table)
           text == Separated(L, "nl")
           pieces == [i \in 1..(n - 1) |-> IF Trim(L[i + 1]) # <<>> THEN <<L[i + 1]>> ELSE <<>>]
           rows == FlattenSeq(pieces)
<1>1. table \in Seq(U) /\ n \in Nat /\ n # 0
  <2>1. table \in Seq(U)
      BY CsvAssumption
  <2>2. table # <<>>
      BY DEF Plain
  <2> HIDE DEF U
  <2> QED
      BY <2>1, <2>2
<1>2. ASSUME NEW r \in 1..n PROVE Fits(table[r])
  <2>1. table[r] \in U
    <3> HIDE DEF U
    <3> QED
        BY <1>1
  <2> QED
      BY <2>1 DEF Plain, Fits
<1>3. /\ Len(L) = n
      /\ \A r \in 1..n : L[r] = LineOf(table[r])
    BY <1>1 DEF LinesOf
<1>4. ASSUME NEW r \in 1..n
      PROVE  /\ L[r] \in T /\ Inked(L[r]) /\ Trim(L[r]) = L[r] /\ L[r] # <<>>
             /\ \A j \in 1..Len(L[r]) : L[r][j] # "nl"
             /\ ParseRow(L[r]) = table[r]
  <2> DEFINE row == table[r]
             line == LineOf(row)
  <2>1. Fits(row)
      BY <1>2
  <2> HIDE DEF row
  <2>2. line \in Seq(Letters) /\ Inked(line)
      BY <2>1, LineInked
  <2>3. \A j \in 1..Len(line) : line[j] # "nl"
      BY <2>1, LineWithin
  <2>4. ParseRow(line) = row
      BY <2>1, LineParsed
  <2> HIDE DEF line
  <2>5. Trim(line) = line /\ line # <<>>
      BY <2>2, InkedKept
  <2>6. L[r] = line
      BY <1>3 DEF line, row
  <2> HIDE DEF L
  <2> QED
      BY <2>2, <2>3, <2>4, <2>5, <2>6 DEF row
<1>5. L \in Seq(T)
  <2> HIDE DEF T
  <2>1. L = [r \in 1..n |-> LineOf(table[r])] /\ \A r \in 1..n : LineOf(table[r]) \in T
      BY <1>3, <1>4 DEF LinesOf
  <2> HIDE DEF L
  <2> QED
      BY <1>1, <2>1
<1>6. File(table) = text
    BY DEF File, LinesOf, LineOf, Cells
<1> HIDE DEF L, n
<1>7. Lines(text) = L
  <2>1. Len(L) # 0 /\ \A i \in 1..Len(L) : \A j \in 1..Len(L[i]) : L[i][j] # "nl"
      BY <1>1, <1>3, <1>4
  <2> QED
      BY <1>5, <2>1, LinesFound
<1>8. Trim(text) = text
  <2>1. /\ "nl" \in Letters /\ Len(L) # 0
        /\ \A i \in {1, Len(L)} : Inked(L[i])
    <3>1. 1 \in 1..n /\ n \in 1..n
        BY <1>1
    <3> QED
        BY <1>1, <1>3, <1>4, <3>1, CsvAssumption
  <2>2. text \in Seq(Letters)
      BY <1>5, <2>1, SeparatedParts
  <2>3. Inked(text)
      BY <1>5, <2>1, PartsInked
  <2> HIDE DEF text
  <2> QED
      BY <2>2, <2>3, InkedKept
<1>9. Len(rows) = n - 1 /\ \A i \in 1..(n - 1) : rows[i] = L[i + 1]
  <2>1. n - 1 \in Nat
      BY <1>1
  <2>2. ASSUME NEW i \in 1..(n - 1)
        PROVE  pieces[i] = <<L[i + 1]>> /\ L[i + 1] \in T
    <3>1. i + 1 \in 1..n
        BY <1>1
    <3>2. Trim(L[i + 1]) # <<>> /\ L[i + 1] \in T
        BY <1>4, <3>1
    <3> QED
        BY <3>2
  <2>3. Len(pieces) = n - 1 /\ pieces = [i \in 1..(n - 1) |-> pieces[i]]
      BY <2>1
  <2> HIDE DEF pieces, T
  <2>4. ASSUME NEW i \in 1..(n - 1)
        PROVE  pieces[i] \in Seq(T) /\ Len(pieces[i]) = 1 /\ pieces[i][1] = L[i + 1]
    <3> DEFINE x == L[i + 1]
    <3>1. pieces[i] = <<x>> /\ x \in T
        BY <2>2
    <3> HIDE DEF x
    <3>2. <<x>> \in Seq(T) /\ Len(<<x>>) = 1 /\ <<x>>[1] = x
        BY <3>1
    <3> QED
        BY <3>1, <3>2 DEF x
  <2>5. pieces \in Seq(Seq(T))
    <3> DEFINE W == Seq(T)
    <3>1. \A i \in 1..(n - 1) : pieces[i] \in W
        BY <2>4
    <3> HIDE DEF W
    <3>2. pieces \in Seq(W)
        BY <2>1, <2>3, <3>1
    <3> QED
        BY <3>2 DEF W
  <2>6. \A i \in 1..Len(pieces) : Len(pieces[i]) = 1
      BY <2>3, <2>4
  <2>7. Len(rows) = Len(pieces) /\ \A i \in 1..Len(pieces) : rows[i] = pieces[i][1]
      BY <2>5, <2>6, FlattenSingles
  <2> HIDE DEF rows
  <2> QED
      BY <2>3, <2>4, <2>7
<1>10. ParseCSV(File(table)) =
          [i \in 1..(1 + Len(rows)) |-> ParseRow(IF i = 1 THEN L[1] ELSE rows[i - 1])]
  <2>1. Lines(Trim(File(table))) = L
      BY <1>6, <1>7, <1>8
  <2> HIDE DEF text
  <2> QED
      BY <1>3, <2>1 DEF ParseCSV
<1> HIDE DEF rows
<1>11. 1 + Len(rows) = n
    BY <1>1, <1>9
<1>12. ASSUME NEW i \in 1..n PROVE ParseRow(IF i = 1 THEN L[1] ELSE rows[i - 1]) = table[i]
  <2>1. CASE i = 1
      BY <1>4, <2>1
  <2>2. CASE i # 1
    <3> DEFINE j == i - 1
    <3>1. j \in 1..(n - 1) /\ j + 1 = i
        BY <1>1, <2>2
    <3> HIDE DEF j
    <3>2. rows[j] = L[i]
        BY <1>9, <3>1
    <3>3. ParseRow(L[i]) = table[i]
        BY <1>4
    <3> QED
        BY <2>2, <3>2, <3>3 DEF j
  <2> QED
      BY <2>1, <2>2
<1>13. table = [i \in 1..n |-> table[i]]
  <2> HIDE DEF U
  <2> QED
      BY <1>1 DEF n
<1> QED
    BY <1>10, <1>11, <1>12, <1>13
-----------------------------------------------------------------------------
\* A dataset is what its file is read as.
DataInv == data # <<>> => source \in Tables /\ data = ParseCSV(File(source))

\* The rows that are shown.
LEMMA RowsShown ==
    ASSUME NEW n \in Nat, Len(data) \in Nat, NEW r \in 2..Len(data), r <= n + 1
    PROVE  r - 1 \in 1..Len(Rows(n))
<1> DEFINE m == IF Len(data) > n + 1 THEN n + 1 ELSE Len(data)
<1>1. m \in Nat /\ r <= m /\ 2 <= r /\ r \in Nat
    OBVIOUS
<1>2. Rows(n) = SubSeq(data, 2, m)
    BY DEF Rows
<1> HIDE DEF m
<1>3. Len(SubSeq(data, 2, m)) = m - 1
    BY <1>1
<1>4. Len(Rows(n)) = m - 1
    BY <1>2, <1>3
<1> QED
    BY <1>1, <1>4

\* The page and the prompt show a dataset's cells under their headers.
LEMMA ShownAsIs ==
    ASSUME Len(data) \in Nat, \A r \in 1..Len(data) : Len(data[r]) \in Nat,
           NEW r \in 2..Len(data), NEW c \in 1..Len(data[r])
    PROVE  /\ (c <= Len(data[1]) /\ r <= MaxPreview + 1) => Preview[r - 1][c] = data[r][c]
           /\ \/ Prompt.truncated /\ r > MaxRows + 1
              \/ /\ Prompt.rows[r - 1][c].cell = data[r][c]
                 /\ c <= Len(data[1]) => Prompt.rows[r - 1][c].of = data[1][c]
<1> DEFINE i == r - 1
           Of(k) == IF k <= Len(data[1]) THEN data[1][k] ELSE <<"number">>
<1>1. i + 1 = r /\ r \in Nat /\ r <= Len(data) /\ 1 \in 1..Len(data) /\ r \in 1..Len(data)
    OBVIOUS
<1>2. MaxRows \in Nat /\ MaxPreview \in Nat
    BY CsvAssumption
<1>3. c \in Nat /\ 1 <= c /\ c <= Len(data[r]) /\ Len(data[1]) \in Nat /\ Len(data[r]) \in Nat
    BY <1>1
<1>4. ASSUME c <= Len(data[1]), r <= MaxPreview + 1
      PROVE  Preview[i][c] = data[r][c]
  <2>1. i \in 1..Len(Rows(MaxPreview))
      BY <1>2, <1>4, RowsShown
  <2>2. c \in 1..Len(data[1])
      BY <1>3, <1>4
  <2> HIDE DEF i
  <2>3. Preview[i] = [k \in 1..Len(data[1]) |->
                         IF k <= Len(data[i + 1]) THEN data[i + 1][k] ELSE <<>>]
      BY <2>1 DEF Preview
  <2>4. Preview[i][c] = IF c <= Len(data[i + 1]) THEN data[i + 1][c] ELSE <<>>
      BY <2>2, <2>3
  <2> QED
      BY <1>1, <1>3, <2>4
<1>5. CASE r > MaxRows + 1
  <2>1. Len(data) - 1 > MaxRows
      BY <1>1, <1>2, <1>5
  <2>2. Prompt.truncated = (Len(data) - 1 > MaxRows)
      BY DEF Prompt
  <2> QED
      BY <1>4, <1>5, <2>1, <2>2
<1>6. CASE ~(r > MaxRows + 1)
  <2>1. i \in 1..Len(Rows(MaxRows))
    <3>1. r <= MaxRows + 1
        BY <1>1, <1>2, <1>6
    <3> QED
        BY <1>2, <3>1, RowsShown
  <2> HIDE DEF i
  <2>2. Prompt.rows = [q \in 1..Len(Rows(MaxRows)) |->
                          [k \in 1..Len(data[q + 1]) |->
                              [of |-> Of(k), cell |-> data[q + 1][k]]]]
      BY DEF Prompt
  <2> HIDE DEF Of
  <2>3. Prompt.rows[i] = [k \in 1..Len(data[i + 1]) |->
                             [of |-> Of(k), cell |-> data[i + 1][k]]]
      BY <2>1, <2>2
  <2>4. Prompt.rows[i][c] = [of |-> Of(c), cell |-> data[r][c]]
      BY <1>1, <2>3
  <2>5. Prompt.rows[i][c].cell = data[r][c] /\ Prompt.rows[i][c].of = Of(c)
      BY <2>4
  <2>6. c <= Len(data[1]) => Of(c) = data[1][c]
      BY DEF Of
  <2> QED
      BY <1>4, <2>5, <2>6 DEF i
<1> QED
    BY <1>5, <1>6

\* It is so at first, and stays so: what is parsed is the file that was read.
LEMMA DataStep ==
    ASSUME DataInv, [CsvNext]_csvVars
    PROVE  DataInv'
<1>1. CASE \E t \in Tables : Loaded(t)
  <2>1. PICK t \in Tables : data' = ParseCSV(File(t)) /\ source' = t
      BY <1>1 DEF Loaded
  <2> QED
      BY <2>1 DEF DataInv
<1>2. CASE RemoveData
    BY <1>2 DEF RemoveData, DataInv
<1>3. CASE UNCHANGED <<data, source>>
    BY <1>3 DEF DataInv
<1> QED
    BY <1>1, <1>2, <1>3 DEF CsvNext, csvVars, HandleFile

\* A dataset that is what its file is read as is the table the file was
\* written from.
LEMMA DataShown ==
    ASSUME DataInv
    PROVE  DatasetAsWritten
<1> SUFFICES ASSUME data # <<>>, Plain(source)
             PROVE  /\ data = source
                    /\ \A r \in 2..Len(source) : \A c \in 1..Len(source[r]) :
                          LET headed == c <= Len(source[1]) IN
                          /\ (headed /\ r <= MaxPreview + 1) =>
                                 Preview[r - 1][c] = source[r][c]
                          /\ \/ Prompt.truncated /\ r > MaxRows + 1
                             \/ /\ Prompt.rows[r - 1][c].cell = source[r][c]
                                /\ headed => Prompt.rows[r - 1][c].of = source[1][c]
    BY DEF DatasetAsWritten
<1>1. source \in Tables /\ data = ParseCSV(File(source))
    BY DEF DataInv
<1>2. data = source
    BY <1>1, FileRead
<1>3. Len(data) \in Nat /\ \A r \in 1..Len(data) : Len(data[r]) \in Nat
  <2> DEFINE U == Seq(Seq(Letters))
  <2>1. data \in Seq(U)
      BY <1>1, <1>2, CsvAssumption
  <2>2. \A r \in 1..Len(data) : data[r] \in U
    <3> HIDE DEF U
    <3> QED
        BY <2>1
  <2>3. \A r \in 1..Len(data) : Len(data[r]) \in Nat
      BY <2>2
  <2>4. Len(data) \in Nat
    <3> HIDE DEF U
    <3> QED
        BY <2>1
  <2> QED
      BY <2>3, <2>4
<1> HIDE DEF Preview, Prompt
<1> QED
    BY <1>2, <1>3, ShownAsIs

\* DatasetAsWritten (components/CsvUpload.tsx): a file of any rows and cells
\* is read as it was written, if every cell is without newlines and spaces at
\* its edges, and no line is empty.
THEOREM DatasetHolds == CsvSpec => []DatasetAsWritten
<1>1. CsvInit => DataInv
    BY DEF CsvInit, DataInv
<1>2. DataInv /\ [CsvNext]_csvVars => DataInv'
    BY DataStep
<1>3. DataInv => DatasetAsWritten
    BY DataShown
<1> QED
    BY <1>1, <1>2, <1>3, PTL DEF CsvSpec
=============================================================================
