------------------------ MODULE GatewayPartsProofs ------------------------
(***************************************************************************)
(* Two parts of the gateway that share no state with the others: the       *)
(* redaction of a message, for messages, spans, token maps and roles of    *)
(* any kind, and the rotation of its secrets, for any number of instances, *)
(* tokens and rotations, any lifetimes, and any order of restarts and      *)
(* drops.                                                                  *)
(***************************************************************************)
EXTENDS Redaction, KeyRotation, WebPartsProofs

(* The redaction of a message.                                             *)

\* Every entry of what the pieces make is in one of them.
LEMMA FlattenFrom ==
    ASSUME NEW S, NEW s \in Seq(Seq(S)), NEW p \in 1..Len(FlattenSeq(s))
    PROVE  \E i \in 1..Len(s) : \E k \in 1..Len(s[i]) : FlattenSeq(s)[p] = s[i][k]
<1> DEFINE n == Len(s)
           V == {v \in S : \E i \in 1..n : \E k \in 1..Len(s[i]) : v = s[i][k]}
<1>1. n \in Nat /\ \A i \in 1..n : s[i] \in Seq(S)
    OBVIOUS
<1>2. ASSUME NEW i \in 1..n PROVE s[i] \in Seq(V)
  <2> DEFINE w == s[i]
  <2>1. w \in Seq(S)
      BY <1>1
  <2>2. \A k \in 1..Len(w) : w[k] \in V
      BY <2>1
  <2> HIDE DEF w, V
  <2>4. w \in Seq(V)
      BY <2>1, <2>2, SeqWithin
  <2> QED
      BY <2>4 DEF w
<1> HIDE DEF V
<1>4. s \in Seq(Seq(V))
  <2> DEFINE T == Seq(S)
             W == Seq(V)
  <2>1. s \in Seq(T) /\ \A i \in 1..n : s[i] \in W
      BY <1>2
  <2> HIDE DEF T, W
  <2>2. s \in Seq(W)
      BY <2>1, SeqWithin
  <2> QED
      BY <2>2 DEF W
<1> DEFINE f == FlattenSeq(s)
<1>5. f \in Seq(V)
    BY <1>4, FlattenType
<1> HIDE DEF f
<1>6. \A k \in 1..Len(f) : f[k] \in V
    BY <1>5
<1>7. FlattenSeq(s)[p] \in V
    BY <1>6 DEF f
<1> QED
    BY <1>7 DEF V

\* Pieces of falling scores make a sequence of falling scores.
LEMMA FlattenFalls ==
    ASSUME NEW S, \A x \in S : x.score \in Nat, NEW top \in Nat,
           NEW s \in Seq(Seq(S)),
           \A i \in 1..Len(s) : \A k \in 1..Len(s[i]) : s[i][k].score + i = top
    PROVE  \A p, q \in 1..Len(FlattenSeq(s)) :
              p <= q => FlattenSeq(s)[p].score >= FlattenSeq(s)[q].score
<1> DEFINE n == Len(s)
           F == FlattenSeq(s)
<1>1. n \in Nat /\ \A i \in 1..n : s[i] \in Seq(S)
    OBVIOUS
<1>2. CASE n = 0
  <2>1. F = s
      BY <1>2 DEF FlattenSeq
  <2> QED
      BY <1>2, <2>1
<1>3. CASE n # 0
  <2>1. PICK f : F = f[n] /\ \A i \in 1..n : f[i] = FlatAt(s, f, i)
      BY <1>1, <1>3, FlattenedBy
  <2> DEFINE Good(i) == /\ f[i] \in Seq(S)
                        /\ \A p \in 1..Len(f[i]) : f[i][p].score + i >= top
                        /\ \A p, q \in 1..Len(f[i]) :
                              p <= q => f[i][p].score >= f[i][q].score
             Bad == {i \in 1..n : ~Good(i)}
  <2>2. Bad = {}
    <3> SUFFICES ASSUME Bad # {} PROVE FALSE
        OBVIOUS
    <3>1. Bad \subseteq Nat
        BY <1>1
    <3> HIDE DEF Bad
    <3>2. PICK i \in Bad : \A j \in Bad : i <= j
        BY <3>1, LeastNumber
    <3> HIDE DEF Good
    <3>3. i \in 1..n /\ ~Good(i)
        BY DEF Bad
    <3> DEFINE w == s[i]
    <3>4. w \in Seq(S) /\ Len(w) \in Nat
        BY <1>1, <3>3
    <3>5. \A k \in 1..Len(w) : w[k] \in S /\ w[k].score \in Nat /\ w[k].score + i = top
        BY <3>3, <3>4
    <3>6. i \in Nat
        BY <3>3
    <3>7. CASE i = 1
      <4>1. f[i] = w
          BY <2>1, <3>3, <3>7 DEF FlatAt
      <4> HIDE DEF w
      <4>2. \A k \in 1..Len(w) : w[k].score + i >= top
          BY <3>5, <3>6
      <4>3. \A p, q \in 1..Len(w) : w[p].score >= w[q].score
          BY <3>5, <3>6
      <4> QED
          BY <3>3, <3>4, <4>1, <4>2, <4>3 DEF Good
    <3>8. CASE i # 1
      <4> DEFINE j == i - 1
                 u == f[j]
                 g == u \o w
      <4>1. j \in 1..n /\ ~(i <= j) /\ j \in Nat /\ i = j + 1
          BY <1>1, <3>3, <3>8
      <4>2. f[i] = g
          BY <2>1, <3>3, <3>8 DEF FlatAt
      <4>3. Good(j)
          BY <3>2, <4>1 DEF Bad
      <4> HIDE DEF j
      <4>4. u \in Seq(S) /\ Len(u) \in Nat /\ \A p \in 1..Len(u) : u[p] \in S
          BY <4>3 DEF Good
      <4>5. /\ \A p \in 1..Len(u) : u[p].score \in Nat /\ u[p].score + j >= top
            /\ \A p, q \in 1..Len(u) : p <= q => u[p].score >= u[q].score
          BY <4>3, <4>4 DEF Good
      <4> HIDE DEF u, w
      <4>6. /\ g \in Seq(S) /\ Len(g) = Len(u) + Len(w)
            /\ \A p \in 1..(Len(u) + Len(w)) :
                  g[p] = IF p <= Len(u) THEN u[p] ELSE w[p - Len(u)]
          BY <3>4, <4>4, ConcatProperties
      <4> HIDE DEF g
      <4>7. ASSUME NEW p \in 1..Len(g)
            PROVE  \/ p \in 1..Len(u) /\ g[p] = u[p]
                   \/ /\ p \notin 1..Len(u) /\ p > Len(u)
                      /\ g[p].score \in Nat /\ g[p].score + i = top
        <5>1. p \in 1..(Len(u) + Len(w)) /\ p \in Nat /\ 1 <= p
            BY <3>4, <4>4, <4>6
        <5>2. CASE p <= Len(u)
          <6>1. g[p] = u[p]
              BY <4>6, <5>1, <5>2
          <6>2. p \in 1..Len(u)
              BY <4>4, <5>1, <5>2
          <6> QED
              BY <6>1, <6>2
        <5>3. CASE ~(p <= Len(u))
          <6> DEFINE k == p - Len(u)
          <6>1. g[p] = w[k]
              BY <4>6, <5>1, <5>3
          <6>2. k \in 1..Len(w) /\ p > Len(u) /\ p \notin 1..Len(u)
              BY <3>4, <4>4, <5>1, <5>3
          <6> HIDE DEF k
          <6> QED
              BY <3>5, <6>1, <6>2
        <5> QED
            BY <5>2, <5>3
      <4>8. ASSUME NEW p \in 1..Len(g) PROVE g[p].score \in Nat /\ g[p].score + i >= top
          BY <3>6, <4>1, <4>5, <4>7, SMTT(20)
      <4>9. ASSUME NEW p \in 1..Len(g), NEW q \in 1..Len(g), p <= q
            PROVE  g[p].score >= g[q].score
        <5>1. CASE q \in 1..Len(u)
          <6>1. p \in 1..Len(u)
              BY <4>4, <4>9, <5>1
          <6>2. g[p] = u[p] /\ g[q] = u[q]
              BY <4>7, <5>1, <6>1
          <6> QED
              BY <4>5, <4>9, <5>1, <6>1, <6>2
        <5>2. CASE q \notin 1..Len(u)
          <6>1. g[q].score \in Nat /\ g[q].score + i = top
              BY <4>7, <5>2
          <6> QED
              BY <3>6, <4>8, <6>1, SMTT(20)
        <5> QED
            BY <5>1, <5>2
      <4>10. Good(i)
          BY <4>2, <4>6, <4>8, <4>9 DEF Good
      <4> QED
          BY <3>3, <4>10
    <3> QED
        BY <3>7, <3>8
  <2>3. n \in 1..n
      BY <1>1, <1>3
  <2> HIDE DEF Good
  <2>4. Good(n)
      BY <2>2, <2>3
  <2> QED
      BY <2>1, <2>4 DEF Good
<1> QED
    BY <1>2, <1>3

\* The results with the score MaxScore + 1 - k.
OfScore(rs, k) ==
    [i \in 1..Len(rs) |-> IF rs[i].score = MaxScore + 1 - k THEN <<rs[i]>> ELSE <<>>]

\* What the analyser reports in order of score: the same spans, the scores
\* falling.
LEMMA SortedByScore ==
    ASSUME NEW t, NEW rs \in Seq(Spans(t))
    PROVE  /\ ByScore(rs) \in Seq(Spans(t))
           /\ ToSet(ByScore(rs)) = ToSet(rs)
           /\ \A p, q \in 1..Len(ByScore(rs)) :
                 p <= q => ByScore(rs)[p].score >= ByScore(rs)[q].score
<1> DEFINE S == Spans(t)
           n == Len(rs)
           P(k) == FlattenSeq(OfScore(rs, k))
           s == [k \in 1..MaxScore |-> P(k)]
           b == ByScore(rs)
<1>1. MaxScore \in Nat /\ \A x \in S : x.score \in 1..MaxScore
    BY RedactionAssumption DEF Spans
<1> HIDE DEF S
<1>2. n \in Nat /\ rs \in Seq(S) /\ \A i \in 1..n : rs[i] \in S
    BY DEF S
<1>3. ASSUME NEW k \in 1..MaxScore
      PROVE  /\ OfScore(rs, k) \in Seq(Seq(S)) /\ Len(OfScore(rs, k)) = n
             /\ \A i \in 1..n : OfScore(rs, k)[i] =
                   IF rs[i].score = MaxScore + 1 - k THEN <<rs[i]>> ELSE <<>>
  <2> DEFINE Q(i) == IF rs[i].score = MaxScore + 1 - k THEN <<rs[i]>> ELSE <<>>
  <2>1. ASSUME NEW i \in 1..n PROVE Q(i) \in Seq(S)
    <3> DEFINE x == rs[i]
    <3>1. x \in S
        BY <1>2
    <3> HIDE DEF x
    <3>2. <<x>> \in Seq(S) /\ <<>> \in Seq(S)
        BY <3>1
    <3> QED
        BY <3>2 DEF x
  <2> HIDE DEF Q
  <2> DEFINE o == [i \in 1..n |-> Q(i)]
  <2>2. o \in Seq(Seq(S)) /\ Len(o) = n /\ \A i \in 1..n : o[i] = Q(i)
      BY <1>2, <2>1
  <2>3. o = OfScore(rs, k)
      BY DEF OfScore, Q
  <2> QED
      BY <2>2, <2>3 DEF Q
<1>4. ASSUME NEW k \in 1..MaxScore, NEW p \in 1..Len(P(k))
      PROVE  \E i \in 1..n : P(k)[p] = rs[i] /\ rs[i].score = MaxScore + 1 - k
  <2> DEFINE o == OfScore(rs, k)
  <2>1. o \in Seq(Seq(S)) /\ Len(o) = n
      BY <1>3
  <2>2. \A i \in 1..n : o[i] = IF rs[i].score = MaxScore + 1 - k THEN <<rs[i]>> ELSE <<>>
      BY <1>3
  <2> HIDE DEF o
  <2>a. PICK i \in 1..n : \E j \in 1..Len(o[i]) : FlattenSeq(o)[p] = o[i][j]
      BY <1>4, <2>1, FlattenFrom DEF o, P
  <2>3. PICK j \in 1..Len(o[i]) : FlattenSeq(o)[p] = o[i][j]
      BY <2>a
  <2> DEFINE x == rs[i]
  <2> HIDE DEF x
  <2>4. x.score = MaxScore + 1 - k /\ o[i] = <<x>>
    <3>1. CASE x.score = MaxScore + 1 - k
        BY <2>2, <3>1 DEF x
    <3>2. CASE x.score # MaxScore + 1 - k
      <4>1. o[i] = <<>>
          BY <2>2, <3>2 DEF x
      <4> QED
          BY <2>3, <4>1
    <3> QED
        BY <3>1, <3>2
  <2>5. j = 1 /\ <<x>>[1] = x
      BY <2>3, <2>4
  <2> QED
      BY <2>3, <2>4, <2>5 DEF o, x
<1>5. \A k \in 1..MaxScore : P(k) \in Seq(S)
    BY <1>3, FlattenType
<1>6. b = FlattenSeq(s)
    BY DEF ByScore, OfScore
<1> HIDE DEF P, b
<1>7. s \in Seq(Seq(S)) /\ Len(s) = MaxScore /\ \A k \in 1..MaxScore : s[k] = P(k)
    BY <1>1, <1>5
<1> HIDE DEF s
<1>8. b \in Seq(S)
    BY <1>6, <1>7, FlattenType
<1>9. \A p, q \in 1..Len(b) : p <= q => b[p].score >= b[q].score
  <2> DEFINE top == MaxScore + 1
  <2>1. top \in Nat
      BY <1>1
  <2>2. ASSUME NEW k \in 1..MaxScore, NEW j \in 1..Len(s[k]) PROVE s[k][j].score + k = top
    <3>1. s[k] = P(k)
        BY <1>7
    <3>2. PICK i \in 1..n : P(k)[j] = rs[i] /\ rs[i].score = MaxScore + 1 - k
        BY <1>4, <2>2, <3>1
    <3>3. k \in Nat /\ (MaxScore + 1 - k) + k = top
        BY <1>1
    <3> QED
        BY <3>1, <3>2, <3>3
  <2>3. \A x \in S : x.score \in Nat
      BY <1>1
  <2> HIDE DEF top
  <2> QED
      BY <1>6, <1>7, <2>1, <2>2, <2>3, FlattenFalls
<1>10. ASSUME NEW x \in ToSet(b) PROVE x \in ToSet(rs)
  <2>1. PICK p \in 1..Len(b) : b[p] = x
      BY <1>8 DEF ToSet
  <2>a. PICK k \in 1..Len(s) : \E j \in 1..Len(s[k]) : FlattenSeq(s)[p] = s[k][j]
      BY <1>6, <1>7, FlattenFrom
  <2>2. PICK j \in 1..Len(s[k]) : FlattenSeq(s)[p] = s[k][j]
      BY <2>a
  <2>3. s[k] = P(k) /\ k \in 1..MaxScore
      BY <1>7
  <2>4. PICK i \in 1..n : P(k)[j] = rs[i]
      BY <1>4, <2>2, <2>3
  <2> QED
      BY <1>2, <1>6, <2>1, <2>2, <2>3, <2>4 DEF ToSet
<1>11. ASSUME NEW x \in ToSet(rs) PROVE x \in ToSet(b)
  <2>1. PICK i \in 1..n : rs[i] = x
      BY <1>2 DEF ToSet
  <2> DEFINE k == MaxScore + 1 - x.score
             o == OfScore(rs, k)
  <2>2. k \in 1..MaxScore /\ x.score = MaxScore + 1 - k
    <3>1. x.score \in 1..MaxScore
        BY <1>1, <1>2, <2>1
    <3> QED
        BY <1>1, <3>1
  <2> HIDE DEF k
  <2>3. o \in Seq(Seq(S)) /\ Len(o) = n /\ o[i] = <<x>>
      BY <1>3, <2>1, <2>2
  <2>4. P(k) = FlattenSeq(o)
      BY DEF P
  <2> HIDE DEF o
  <2>5. \E j \in 1..Len(o[i]) : o[i][j] = x
      BY <2>3
  <2>6. PICK j \in 1..Len(P(k)) : P(k)[j] = x
    <3>1. i \in 1..Len(o)
        BY <2>3
    <3>2. PICK first \in 1..Len(o[i]) : o[i][first] = x
        BY <2>5
    <3>3. o \in Seq(Seq(S))
        BY <2>3
    <3>4. \E j \in 1..Len(FlattenSeq(o)) : FlattenSeq(o)[j] = o[i][first]
        BY <3>1, <3>3, FlattenHas
    <3> QED
        BY <2>4, <3>2, <3>4
  <2>7. k \in 1..Len(s) /\ s[k] = P(k)
      BY <1>7, <2>2
  <2>8. PICK p \in 1..Len(b) : b[p] = s[k][j]
    <3>1. j \in 1..Len(s[k])
        BY <2>7
    <3>2. \E p \in 1..Len(FlattenSeq(s)) : FlattenSeq(s)[p] = s[k][j]
        BY <1>7, <2>7, <3>1, FlattenHas
    <3> QED
        BY <1>6, <3>2
  <2> QED
      BY <1>8, <2>6, <2>7, <2>8 DEF ToSet
<1> QED
    BY <1>8, <1>9, <1>10, <1>11 DEF b, S

\* The spans kept of the first ones.
KeptAt(sorted, f, i) ==
    IF i = 0 THEN {}
    ELSE IF \E q \in f[i - 1] : Overlap(sorted[i], q) THEN f[i - 1]
    ELSE f[i - 1] \cup {sorted[i]}

\* They are there: taken span by span.
LEMMA KeptBy ==
    ASSUME NEW S, NEW rs, ByScore(rs) \in Seq(S)
    PROVE  \E f : /\ Deduped(rs) = f[Len(ByScore(rs))]
                  /\ \A i \in 0..Len(ByScore(rs)) : /\ f[i] = KeptAt(ByScore(rs), f, i)
                                                    /\ f[i] \subseteq S
<1> DEFINE b == ByScore(rs)
           n == Len(b)
           T == SUBSET S
           Keep(i, kept) == IF \E q \in kept : Overlap(b[i], q) THEN kept
                            ELSE kept \cup {b[i]}
           G == [z \in (1..n) \X T |-> Keep(z[1], z[2])]
           Is(f) == f = [i \in 0..n |-> KeptAt(b, f, i)]
           h == CHOOSE f : Is(f)
<1>1. Deduped(rs) = h[n]
    BY DEF Deduped, KeptAt
<1> HIDE DEF b
<1>2. n \in Nat /\ \A i \in 1..n : b[i] \in S
    BY DEF b
<1>3. \A i \in 1..n : \A kept \in T : Keep(i, kept) \in T
    BY <1>2
<1> HIDE DEF Keep, n
<1>4. G \in [(1..n) \X T -> T] /\ \A i \in 1..n : \A kept \in T : G[<<i, kept>>] = Keep(i, kept)
    BY <1>3
<1> HIDE DEF G
<1>5. {} \in T
    OBVIOUS
<1> HIDE DEF T
<1>6. PICK f : f \in [0..n -> T] /\ f[0] = {} /\ \A i \in 1..n : f[i] = G[<<i, f[i - 1]>>]
  <2>1. Step(G, n, T)
      BY <1>4 DEF Step
  <2>2. \E f : Computes(f, G, n, T, {})
      BY <1>2, <1>5, <2>1, RecursionExists
  <2> QED
      BY <2>2 DEF Computes
<1>7. ASSUME NEW i \in 0..n PROVE f[i] = KeptAt(b, f, i)
  <2>1. CASE i = 0
      BY <1>6, <2>1 DEF KeptAt
  <2>2. CASE i # 0
    <3>1. i \in 1..n /\ i - 1 \in 0..n
        BY <1>2, <2>2
    <3>2. f[i] = Keep(i, f[i - 1])
        BY <1>4, <1>6, <3>1
    <3> QED
        BY <2>2, <3>2 DEF Keep, KeptAt
  <2> QED
      BY <2>1, <2>2
<1>8. f = [i \in 0..n |-> KeptAt(b, f, i)]
  <2>1. f = [i \in 0..n |-> f[i]]
      BY <1>6
  <2> QED
      BY <1>7, <2>1
<1>9. Is(h)
    BY <1>8
<1> HIDE DEF h
<1>10. \A i \in 0..n : h[i] = KeptAt(b, h, i)
    BY <1>9
<1> DEFINE Bad == {i \in 0..n : ~(h[i] \subseteq S)}
<1>11. Bad = {}
  <2> SUFFICES ASSUME Bad # {} PROVE FALSE
      OBVIOUS
  <2>1. Bad \subseteq Nat
      BY <1>2
  <2> HIDE DEF Bad
  <2>2. PICK i \in Bad : \A j \in Bad : i <= j
      BY <2>1, LeastNumber
  <2>3. i \in 0..n /\ ~(h[i] \subseteq S)
      BY DEF Bad
  <2>4. i # 0
      BY <1>10, <2>3 DEF KeptAt
  <2> DEFINE j == i - 1
  <2>5. j \in 0..n /\ ~(i <= j) /\ i \in 1..n
      BY <1>2, <2>3, <2>4
  <2>6. h[i] = h[j] \/ h[i] = h[j] \cup {b[i]}
      BY <1>10, <2>3, <2>4 DEF KeptAt
  <2> HIDE DEF j
  <2>7. h[j] \subseteq S
      BY <2>2, <2>5 DEF Bad
  <2> QED
      BY <1>2, <2>3, <2>5, <2>6, <2>7
<1> QED
    BY <1>1, <1>10, <1>11 DEF b, n

\* What is kept: spans that were reported and do not overlap, and for every
\* other span one that it overlaps and that scores no less.
LEMMA KeptOnes ==
    ASSUME NEW t, NEW rs \in Seq(Spans(t))
    PROVE  /\ Deduped(rs) \subseteq ToSet(rs)
           /\ \A q, r \in Deduped(rs) : q # r => ~Overlap(q, r)
           /\ \A r \in ToSet(rs) : r \notin Deduped(rs) =>
                 \E q \in Deduped(rs) : Overlap(q, r) /\ q.score >= r.score
<1> DEFINE b == ByScore(rs)
           n == Len(b)
           S == Spans(t)
<1>1. /\ b \in Seq(S) /\ ToSet(b) = ToSet(rs)
      /\ \A p, q \in 1..n : p <= q => b[p].score >= b[q].score
    BY SortedByScore
<1>2. PICK f : /\ Deduped(rs) = f[n]
               /\ \A i \in 0..n : f[i] = KeptAt(b, f, i)
  <2>1. b \in Seq(S)
      BY <1>1
  <2> HIDE DEF S
  <2> QED
      BY <2>1, KeptBy
<1>3. \A q, r \in S : Overlap(q, r) <=> Overlap(r, q)
    BY DEF Overlap
<1>4. \A r \in S : r.score \in Nat /\ r.first \in Nat /\ r.last \in Nat /\ r.first <= r.last
    BY RedactionAssumption DEF Spans
<1> HIDE DEF b, S
<1>5. n \in Nat /\ \A i \in 1..n : b[i] \in S
    BY <1>1
<1> DEFINE Good(i) == /\ f[i] \subseteq {b[j] : j \in 1..i}
                      /\ \A q, r \in f[i] : q # r => ~Overlap(q, r)
                      /\ \A j \in 1..i : b[j] \notin f[i] =>
                            \E q \in f[i] : Overlap(q, b[j]) /\ q.score >= b[j].score
           Bad == {i \in 0..n : ~Good(i)}
<1>6. Bad = {}
  <2> SUFFICES ASSUME Bad # {} PROVE FALSE
      OBVIOUS
  <2>1. Bad \subseteq Nat
      BY <1>5
  <2> HIDE DEF Bad
  <2>2. PICK i \in Bad : \A j \in Bad : i <= j
      BY <2>1, LeastNumber
  <2> HIDE DEF Good
  <2>3. i \in 0..n /\ ~Good(i)
      BY DEF Bad
  <2>4. CASE i = 0
    <3>1. f[i] = {}
        BY <1>2, <2>3, <2>4 DEF KeptAt
    <3> QED
        BY <2>3, <2>4, <3>1 DEF Good
  <2>5. CASE i # 0
    <3> DEFINE j == i - 1
               K == f[j]
               x == b[i]
    <3>1. j \in 0..n /\ ~(i <= j) /\ i \in 1..n
        BY <1>5, <2>3, <2>5
    <3>2. \A k \in 1..i : k = i \/ k \in 1..j
        BY <2>3
    <3>3. \A k \in 1..j : k \in 1..i /\ k \in 1..n /\ k <= i
        BY <1>5, <2>3
    <3>4. f[i] = IF \E q \in K : Overlap(x, q) THEN K ELSE K \cup {x}
        BY <1>2, <2>3, <2>5 DEF KeptAt
    <3>5. Good(j)
        BY <2>2, <3>1 DEF Bad
    <3> HIDE DEF j
    <3>6. /\ K \subseteq {b[k] : k \in 1..j}
          /\ \A q, r \in K : q # r => ~Overlap(q, r)
          /\ \A k \in 1..j : b[k] \notin K =>
                \E q \in K : Overlap(q, b[k]) /\ q.score >= b[k].score
        BY <3>5 DEF Good
    <3> HIDE DEF K
    <3>7. \A q \in K : q \in S /\ q.score >= x.score /\ q \in {b[k] : k \in 1..i}
      <4> SUFFICES ASSUME NEW q \in K
                   PROVE  q \in S /\ q.score >= x.score /\ q \in {b[k] : k \in 1..i}
          OBVIOUS
      <4>1. PICK k \in 1..j : q = b[k]
          BY <3>6
      <4>2. k \in 1..i /\ k \in 1..n /\ k <= i
          BY <3>3
      <4> QED
          BY <1>1, <1>5, <3>1, <4>1, <4>2
    <3>8. x \in S /\ x \in {b[k] : k \in 1..i}
        BY <1>5, <3>1
    <3> HIDE DEF x
    <3>9. CASE \E q \in K : Overlap(x, q)
      <4>1. f[i] = K
          BY <3>4, <3>9
      <4>2. PICK q \in K : Overlap(q, x) /\ q.score >= x.score
          BY <1>3, <3>7, <3>8, <3>9
      <4>3. ASSUME NEW k \in 1..i, b[k] \notin K
            PROVE  \E r \in K : Overlap(r, b[k]) /\ r.score >= b[k].score
        <5>1. CASE k = i
            BY <4>2, <5>1 DEF x
        <5>2. CASE k \in 1..j
            BY <3>6, <4>3, <5>2
        <5> QED
            BY <3>2, <5>1, <5>2
      <4>4. K \subseteq {b[k] : k \in 1..i}
          BY <3>7
      <4> QED
          BY <2>3, <3>6, <4>1, <4>3, <4>4 DEF Good
    <3>10. CASE ~\E q \in K : Overlap(x, q)
      <4> DEFINE L == K \cup {x}
      <4>1. f[i] = L
          BY <3>4, <3>10
      <4>2. L \subseteq {b[k] : k \in 1..i}
          BY <3>7, <3>8
      <4>3. ASSUME NEW q \in L, NEW r \in L, q # r PROVE ~Overlap(q, r)
        <5>1. CASE q \in K /\ r \in K
            BY <3>6, <4>3, <5>1
        <5>2. CASE q = x /\ r \in K
            BY <3>10, <5>2
        <5>3. CASE q \in K /\ r = x
            BY <1>3, <3>7, <3>8, <3>10, <5>3
        <5> QED
            BY <4>3, <5>1, <5>2, <5>3
      <4>4. ASSUME NEW k \in 1..i, b[k] \notin L
            PROVE  \E r \in L : Overlap(r, b[k]) /\ r.score >= b[k].score
        <5>1. k \in 1..j /\ b[k] \notin K
            BY <3>2, <4>4 DEF x
        <5> QED
            BY <3>6, <5>1
      <4> HIDE DEF L
      <4> QED
          BY <2>3, <4>1, <4>2, <4>3, <4>4 DEF Good
    <3> QED
        BY <3>9, <3>10
  <2> QED
      BY <2>4, <2>5
<1>7. n \in 0..n
    BY <1>5
<1> HIDE DEF Good
<1>8. Good(n)
    BY <1>6, <1>7
<1>9. ToSet(rs) = {b[j] : j \in 1..n}
  <2>1. ToSet(b) = {b[j] : j \in 1..n}
      BY <1>1 DEF ToSet
  <2> QED
      BY <1>1, <2>1
<1> QED
    BY <1>2, <1>8, <1>9 DEF Good

\* What has been reported is spans of the message.
ReportedInv == results \in Seq(Spans(message))

\* They stay spans of it: the analyser reports no others (analyze_spans).
LEMMA ReportedStep ==
    ASSUME ReportedInv, [RedactionNext]_redactionVars PROVE ReportedInv'
<1>1. CASE Analyze
  <2>1. PICK rs \in Reported(message) : results' = rs /\ message' = message
      BY <1>1 DEF Analyze
  <2>2. PICK n \in 0..MaxSpans : rs \in [1..n -> Spans(message)]
      BY DEF Reported
  <2> DEFINE S == Spans(message)
  <2>2a. rs \in [1..n -> S]
      BY <2>2
  <2>3. rs \in Seq(S)
    <3>1. n \in Nat
        BY RedactionAssumption
    <3> HIDE DEF S
    <3> QED
        BY <2>2a, <3>1, SeqDef
  <2>4. Spans(message)' = S
      BY <2>1 DEF Spans
  <2> QED
      BY <2>1, <2>3, <2>4 DEF ReportedInv
<1>2. CASE UNCHANGED <<message, results>>
  <2>1. Spans(message)' = Spans(message)
      BY <1>2 DEF Spans
  <2> QED
      BY <1>2, <2>1 DEF ReportedInv
<1> QED
    BY <1>1, <1>2 DEF RedactionNext, Replace, Answer, Detokenize, redactionVars

\* Of whatever the analyser finds, only a span that a better one overlaps is
\* sent in clear (analyze_spans of tokenizer.py).
THEOREM ClearHolds == RedactionSpec => []ClearOnlyIfOutbid
<1>1. RedactionInit => ReportedInv
  <2>1. <<>> \in Seq(Spans(message))
      OBVIOUS
  <2> QED
      BY <2>1 DEF RedactionInit, ReportedInv
<1>2. ReportedInv /\ [RedactionNext]_redactionVars => ReportedInv'
    BY ReportedStep
<1>3. ReportedInv => ClearOnlyIfOutbid
  <2> SUFFICES ASSUME ReportedInv, NEW r \in ToSet(results), NEW p \in 1..Len(message),
                      Covers(r, p), \A q \in KeptSpans : ~Covers(q, p)
               PROVE  \E q \in KeptSpans : Overlap(q, r) /\ q.score >= r.score
      BY DEF ClearOnlyIfOutbid
  <2>1. r \notin Deduped(results)
      BY DEF KeptSpans
  <2> QED
      BY <2>1, KeptOnes DEF ReportedInv, KeptSpans
<1> QED
    BY <1>1, <1>2, <1>3, PTL DEF RedactionSpec

\* What substitution makes of one symbol, and of a message symbol by symbol.
SubstitutedAt(x, code, value) == IF x = code THEN value ELSE <<x>>

Parts(s, code, value) == [i \in 1..Len(s) |-> SubstitutedAt(s[i], code, value)]

\* A substitution puts together what stands for each symbol.
LEMMA SubstitutedPieces ==
    ASSUME NEW S, NEW s \in Seq(S), NEW code, NEW value \in Seq(S)
    PROVE  /\ Substituted(s, code, value) = FlattenSeq(Parts(s, code, value))
           /\ Parts(s, code, value) \in Seq(Seq(S))
           /\ Len(Parts(s, code, value)) = Len(s)
           /\ \A i \in 1..Len(s) : Parts(s, code, value)[i] = SubstitutedAt(s[i], code, value)
           /\ Substituted(s, code, value) \in Seq(S)
<1> DEFINE t == Parts(s, code, value)
<1>1. Substituted(s, code, value) = FlattenSeq(t)
    BY DEF Substituted, SubstitutedAt, Parts
<1>2. Len(s) \in Nat /\ \A i \in 1..Len(s) : s[i] \in S
    OBVIOUS
<1>3. ASSUME NEW x \in S PROVE SubstitutedAt(x, code, value) \in Seq(S)
  <2>1. <<x>> \in Seq(S)
      OBVIOUS
  <2> QED
      BY <2>1 DEF SubstitutedAt
<1>4. /\ t \in Seq(Seq(S)) /\ Len(t) = Len(s)
      /\ \A i \in 1..Len(s) : t[i] = SubstitutedAt(s[i], code, value)
    BY <1>2, <1>3 DEF Parts
<1> HIDE DEF t
<1>5. FlattenSeq(t) \in Seq(S)
    BY <1>4, FlattenType
<1> QED
    BY <1>1, <1>4, <1>5 DEF t

Splits(x, y, code, value) ==
    Substituted(x \o y, code, value)
       = Substituted(x, code, value) \o Substituted(y, code, value)

\* Two texts are substituted in one after the other.
LEMMA SubstitutedConcat ==
    ASSUME NEW S, NEW x \in Seq(S), NEW y \in Seq(S), NEW code, NEW value \in Seq(S)
    PROVE  Splits(x, y, code, value)
<1> DEFINE z == x \o y
           a == Parts(x, code, value)
           b == Parts(y, code, value)
           c == Parts(z, code, value)
           T == Seq(S)
<1>1. /\ z \in Seq(S) /\ Len(z) = Len(x) + Len(y)
      /\ \A p \in 1..(Len(x) + Len(y)) :
            z[p] = IF p <= Len(x) THEN x[p] ELSE y[p - Len(x)]
    BY ConcatProperties
<1> HIDE DEF z
<1>2. /\ Substituted(x, code, value) = FlattenSeq(a) /\ a \in Seq(T)
      /\ Substituted(y, code, value) = FlattenSeq(b) /\ b \in Seq(T)
      /\ Substituted(z, code, value) = FlattenSeq(c) /\ c \in Seq(T)
    BY <1>1, SubstitutedPieces
<1>3. Len(x) \in Nat /\ Len(y) \in Nat /\ Len(z) \in Nat
    BY <1>1
<1>4. /\ Len(a) = Len(x) /\ \A i \in 1..Len(x) : a[i] = SubstitutedAt(x[i], code, value)
      /\ Len(b) = Len(y) /\ \A i \in 1..Len(y) : b[i] = SubstitutedAt(y[i], code, value)
      /\ Len(c) = Len(z) /\ \A i \in 1..Len(z) : c[i] = SubstitutedAt(z[i], code, value)
    BY <1>1, SubstitutedPieces
<1> HIDE DEF a, b, c, T
<1> DEFINE d == a \o b
<1>5. /\ d \in Seq(T) /\ Len(d) = Len(a) + Len(b)
      /\ \A p \in 1..(Len(a) + Len(b)) :
            d[p] = IF p <= Len(a) THEN a[p] ELSE b[p - Len(a)]
    BY <1>2, ConcatProperties
<1> HIDE DEF d
<1>6. Len(c) = Len(d)
    BY <1>1, <1>4, <1>5
<1>7. ASSUME NEW i \in 1..Len(c) PROVE c[i] = d[i]
  <2>1. i \in 1..(Len(x) + Len(y)) /\ i \in Nat /\ 1 <= i
      BY <1>1, <1>4
  <2>2. CASE i <= Len(x)
    <3>1. i \in 1..Len(x) /\ i \in 1..Len(z) /\ i \in 1..(Len(a) + Len(b)) /\ i <= Len(a)
        BY <1>1, <1>3, <1>4, <2>1, <2>2
    <3>2. c[i] = SubstitutedAt(x[i], code, value)
        BY <1>1, <1>4, <2>1, <2>2, <3>1
    <3>3. d[i] = SubstitutedAt(x[i], code, value)
        BY <1>4, <1>5, <3>1
    <3> QED
        BY <3>2, <3>3
  <2>3. CASE ~(i <= Len(x))
    <3> DEFINE j == i - Len(x)
    <3>1. j \in 1..Len(y) /\ i \in 1..Len(z) /\ i \in 1..(Len(a) + Len(b)) /\ ~(i <= Len(a))
          /\ i - Len(a) = j
        BY <1>1, <1>3, <1>4, <2>1, <2>3
    <3>2. z[i] = y[j]
        BY <1>1, <2>1, <2>3
    <3>3. d[i] = b[j]
        BY <1>5, <3>1
    <3> HIDE DEF j
    <3> QED
        BY <1>4, <3>1, <3>2, <3>3
  <2> QED
      BY <2>2, <2>3
<1>8. c = d
    BY <1>2, <1>5, <1>6, <1>7, SeqEqual
<1>9. FlattenSeq(d) = FlattenSeq(a) \o FlattenSeq(b)
    BY <1>2, FlattenConcat DEF d, T
<1> QED
    BY <1>2, <1>8, <1>9 DEF z, Splits

\* The same, of symbols.
LEMMA SubstitutedSplits ==
    ASSUME NEW x \in Seq(Symbols), NEW y \in Seq(Symbols), NEW code, NEW value \in Seq(Symbols)
    PROVE  Splits(x, y, code, value)
BY SubstitutedConcat

\* Where the token does not occur nothing is substituted.
LEMMA SubstitutedSelf ==
    ASSUME NEW S, NEW s \in Seq(S), NEW code, NEW value \in Seq(S),
           \A i \in 1..Len(s) : s[i] # code
    PROVE  Substituted(s, code, value) = s
<1> DEFINE t == Parts(s, code, value)
           u == FlattenSeq(t)
<1>1. u = Substituted(s, code, value) /\ t \in Seq(Seq(S)) /\ u \in Seq(S)
    BY SubstitutedPieces
<1>2. Len(t) = Len(s) /\ \A i \in 1..Len(s) : t[i] = SubstitutedAt(s[i], code, value)
    BY SubstitutedPieces
<1> HIDE DEF t
<1>3. ASSUME NEW i \in 1..Len(s) PROVE Len(t[i]) = 1 /\ t[i][1] = s[i]
  <2> DEFINE x == s[i]
  <2>1. t[i] = <<x>>
      BY <1>2 DEF SubstitutedAt
  <2> HIDE DEF x
  <2> QED
      BY <2>1 DEF x
<1>4. Len(u) = Len(s) /\ \A i \in 1..Len(s) : u[i] = s[i]
    BY <1>1, <1>2, <1>3, FlattenSingles
<1> HIDE DEF u
<1>5. u = s
    BY <1>1, <1>4, SeqEqual
<1> QED
    BY <1>1, <1>5

\* The token itself becomes the value.
LEMMA SubstitutedOne ==
    ASSUME NEW S, NEW code \in S, NEW value \in Seq(S)
    PROVE  Substituted(<<code>>, code, value) = value
<1> DEFINE s == <<code>>
           t == Parts(s, code, value)
           T == Seq(S)
<1>1. s \in Seq(S) /\ Len(s) = 1 /\ s[1] = code
    OBVIOUS
<1> HIDE DEF s
<1>2. /\ Substituted(s, code, value) = FlattenSeq(t) /\ t \in Seq(T) /\ Len(t) = Len(s)
      /\ \A i \in 1..Len(s) : t[i] = SubstitutedAt(s[i], code, value)
    BY <1>1, SubstitutedPieces, SMTT(20)
<1>3. Len(t) = 1 /\ t[1] = value
    BY <1>1, <1>2 DEF SubstitutedAt
<1> HIDE DEF t
<1> DEFINE w == <<value>>
<1>4. w \in Seq(T) /\ Len(w) = 1 /\ w[1] = value
    OBVIOUS
<1> HIDE DEF w, T
<1>5. \A i \in 1..1 : i = 1
    OBVIOUS
<1>6. t = w
    BY <1>2, <1>3, <1>4, <1>5, SeqEqual
<1> QED
    BY <1>2, <1>6, FlattenOne DEF w, s
-----------------------------------------------------------------------------
\* What is restored with the first i tokens of the map.
RestoredAt(f, s, i) ==
    IF i = 0 THEN s
    ELSE IF tokenMap[i].token[1] \in role
         THEN Substituted(f[i - 1], tokenMap[i].token, tokenMap[i].value)
    ELSE f[i - 1]

\* An entry of the map: a token and what it stands for.
LEMMA EntryType ==
    ASSUME tokenMap \in Seq(Entries)
    PROVE  /\ Len(tokenMap) \in Nat
           /\ \A i \in 1..Len(tokenMap) :
                 /\ tokenMap[i].value \in Seq(Symbols)
                 /\ tokenMap[i].token \in Types \X Nat /\ tokenMap[i].token \in Symbols
<1> DEFINE T == Seq(Symbols)
           U == Types \X Nat
<1>1. \A e \in Entries : e.value \in T /\ e.token \in U
  <2>1. Entries = [token : U, value : T]
      BY DEF Entries
  <2> HIDE DEF T, U
  <2> QED
      BY <2>1
<1>2. Len(tokenMap) \in Nat /\ \A i \in 1..Len(tokenMap) : tokenMap[i] \in Entries
    OBVIOUS
<1>3. U \subseteq Symbols
    BY DEF Symbols
<1> QED
    BY <1>1, <1>2, <1>3

\* They are there: restored token by token (run_detokenize).
LEMMA RestoredBy ==
    ASSUME tokenMap \in Seq(Entries), NEW s \in Seq(Symbols)
    PROVE  \E f : /\ ForRole(s) = f[Len(tokenMap)]
                  /\ \A i \in 0..Len(tokenMap) : /\ f[i] = RestoredAt(f, s, i)
                                                 /\ f[i] \in Seq(Symbols)
<1> DEFINE n == Len(tokenMap)
           T == Seq(Symbols)
           Restore(i, t) == IF tokenMap[i].token[1] \in role
                            THEN Substituted(t, tokenMap[i].token, tokenMap[i].value) ELSE t
           G == [z \in (1..n) \X T |-> Restore(z[1], z[2])]
           Is(f) == f = [i \in 0..n |-> RestoredAt(f, s, i)]
           h == CHOOSE f : Is(f)
<1>1. ForRole(s) = h[n]
    BY DEF ForRole, RestoredAt
<1>2. n \in Nat
    BY EntryType
<1>3. \A i \in 1..n : \A t \in T : Restore(i, t) \in T
  <2> SUFFICES ASSUME NEW i \in 1..n, NEW t \in T PROVE Restore(i, t) \in T
      OBVIOUS
  <2> DEFINE v == tokenMap[i].value
             k == tokenMap[i].token
  <2>1. v \in Seq(Symbols)
      BY EntryType
  <2>2. Restore(i, t) = Substituted(t, k, v) \/ Restore(i, t) = t
      OBVIOUS
  <2> HIDE DEF v, k
  <2>3. Substituted(t, k, v) \in Seq(Symbols)
      BY <2>1, SubstitutedPieces
  <2> QED
      BY <2>2, <2>3
<1> HIDE DEF Restore, n
<1>4. G \in [(1..n) \X T -> T] /\ \A i \in 1..n : \A t \in T : G[<<i, t>>] = Restore(i, t)
    BY <1>3
<1> HIDE DEF G
<1>5. s \in T
    OBVIOUS
<1> HIDE DEF T
<1>6. PICK f : f \in [0..n -> T] /\ f[0] = s /\ \A i \in 1..n : f[i] = G[<<i, f[i - 1]>>]
  <2>1. Step(G, n, T)
      BY <1>4 DEF Step
  <2>2. \E f : Computes(f, G, n, T, s)
      BY <1>2, <1>5, <2>1, RecursionExists
  <2> QED
      BY <2>2 DEF Computes
<1>7. ASSUME NEW i \in 0..n PROVE f[i] = RestoredAt(f, s, i)
  <2>1. CASE i = 0
      BY <1>6, <2>1 DEF RestoredAt
  <2>2. CASE i # 0
    <3>1. i \in 1..n /\ i - 1 \in 0..n
        BY <1>2, <2>2
    <3>2. f[i] = Restore(i, f[i - 1])
        BY <1>4, <1>6, <3>1
    <3> QED
        BY <2>2, <3>2 DEF Restore, RestoredAt
  <2> QED
      BY <2>1, <2>2
<1>8. f = [i \in 0..n |-> RestoredAt(f, s, i)]
  <2>1. f = [i \in 0..n |-> f[i]]
      BY <1>6
  <2> QED
      BY <1>7, <2>1
<1>9. Is(h)
    BY <1>8
<1> HIDE DEF h
<1>10. \A i \in 0..n : h[i] = RestoredAt(h, s, i)
    BY <1>9
<1> DEFINE Bad == {i \in 0..n : h[i] \notin T}
<1>11. Bad = {}
  <2> SUFFICES ASSUME Bad # {} PROVE FALSE
      OBVIOUS
  <2>1. Bad \subseteq Nat
      BY <1>2
  <2> HIDE DEF Bad
  <2>2. PICK i \in Bad : \A j \in Bad : i <= j
      BY <2>1, LeastNumber
  <2>3. i \in 0..n /\ h[i] \notin T
      BY DEF Bad
  <2>4. i # 0
      BY <1>5, <1>10, <2>3 DEF RestoredAt
  <2> DEFINE j == i - 1
  <2>5. j \in 0..n /\ ~(i <= j) /\ i \in 1..n
      BY <1>2, <2>3, <2>4
  <2>6. h[i] = Restore(i, h[j])
      BY <1>10, <2>3, <2>4 DEF RestoredAt, Restore
  <2> HIDE DEF j
  <2>7. h[j] \in T
      BY <2>2, <2>5 DEF Bad
  <2> QED
      BY <1>3, <2>3, <2>5, <2>6, <2>7
<1> QED
    BY <1>1, <1>10, <1>11 DEF n, T

\* What is restored of a message is what is restored of its parts.
LEMMA ForRoleConcat ==
    ASSUME tokenMap \in Seq(Entries), NEW x \in Seq(Symbols), NEW y \in Seq(Symbols)
    PROVE  /\ ForRole(x) \in Seq(Symbols)
           /\ ForRole(x \o y) = ForRole(x) \o ForRole(y)
<1> DEFINE n == Len(tokenMap)
           z == x \o y
<1>1. n \in Nat /\ z \in Seq(Symbols)
    BY EntryType
<1>z. z = x \o y
    OBVIOUS
<1> HIDE DEF z
<1>2. PICK f : ForRole(x) = f[n] /\ \A i \in 0..n : f[i] = RestoredAt(f, x, i)
                                                    /\ f[i] \in Seq(Symbols)
    BY RestoredBy
<1>3. PICK g : ForRole(y) = g[n] /\ \A i \in 0..n : g[i] = RestoredAt(g, y, i)
                                                    /\ g[i] \in Seq(Symbols)
    BY RestoredBy
<1>4. PICK h : ForRole(z) = h[n] /\ \A i \in 0..n : h[i] = RestoredAt(h, z, i)
                                                    /\ h[i] \in Seq(Symbols)
    BY <1>1, RestoredBy
<1> HIDE DEF n
<1> DEFINE Same(i) == h[i] = f[i] \o g[i]
           Bad == {i \in 0..n : ~Same(i)}
<1> HIDE DEF Same
<1>5. Bad = {}
  <2> SUFFICES ASSUME Bad # {} PROVE FALSE
      OBVIOUS
  <2>1. Bad \subseteq Nat
      BY <1>1
  <2> HIDE DEF Bad
  <2>2. PICK i \in Bad : \A j \in Bad : i <= j
      BY <2>1, LeastNumber
  <2>3. i \in 0..n /\ h[i] # f[i] \o g[i]
      BY DEF Bad, Same
  <2>4. i # 0
    <3> SUFFICES ASSUME i = 0 PROVE FALSE
        OBVIOUS
    <3>1. h[i] = z /\ f[i] = x /\ g[i] = y
        BY <1>2, <1>3, <1>4, <2>3 DEF RestoredAt
    <3> QED
        BY <1>z, <2>3, <3>1
  <2> DEFINE j == i - 1
             u == f[j]
             w == g[j]
             v == tokenMap[i].value
             k == tokenMap[i].token
  <2>5. j \in 0..n /\ ~(i <= j) /\ i \in 1..n
      BY <1>1, <2>3, <2>4
  <2>6. CASE k[1] \in role
    <3>1. /\ h[i] = Substituted(h[j], k, v) /\ f[i] = Substituted(u, k, v)
          /\ g[i] = Substituted(w, k, v)
        BY <1>2, <1>3, <1>4, <2>3, <2>4, <2>6 DEF RestoredAt
    <3>2. h[j] = u \o w /\ u \in Seq(Symbols) /\ w \in Seq(Symbols)
        BY <1>2, <1>3, <2>2, <2>5 DEF Bad, Same
    <3>3. v \in Seq(Symbols)
        BY <2>5, EntryType DEF n
    <3> HIDE DEF j, u, w, v, k
    <3>4. Substituted(u \o w, k, v) = Substituted(u, k, v) \o Substituted(w, k, v)
      <4>1. Splits(u, w, k, v)
          BY <3>2, <3>3, SubstitutedSplits
      <4> QED
          BY <4>1 DEF Splits
    <3> QED
        BY <2>3, <3>1, <3>2, <3>4
  <2>7. CASE k[1] \notin role
    <3>1. h[i] = h[j] /\ f[i] = u /\ g[i] = w
        BY <1>2, <1>3, <1>4, <2>3, <2>4, <2>7 DEF RestoredAt
    <3>2. h[j] = u \o w
        BY <2>2, <2>5 DEF Bad, Same
    <3> QED
        BY <2>3, <3>1, <3>2
  <2> QED
      BY <2>6, <2>7
<1>6. n \in 0..n
    BY <1>1
<1>7. h[n] = f[n] \o g[n] /\ f[n] \in Seq(Symbols)
    BY <1>2, <1>5, <1>6 DEF Same
<1> QED
    BY <1>2, <1>3, <1>4, <1>z, <1>7

\* A message that holds no token is shown as it is.
LEMMA ForRoleSelf ==
    ASSUME tokenMap \in Seq(Entries), NEW s \in Seq(Symbols),
           \A i \in 1..Len(s) : s[i] \notin Types \X Nat
    PROVE  ForRole(s) = s
<1> DEFINE n == Len(tokenMap)
<1>1. n \in Nat
    BY EntryType
<1>2. PICK f : ForRole(s) = f[n] /\ \A i \in 0..n : f[i] = RestoredAt(f, s, i)
    BY RestoredBy
<1> HIDE DEF n
<1> DEFINE Bad == {i \in 0..n : f[i] # s}
<1>3. Bad = {}
  <2> SUFFICES ASSUME Bad # {} PROVE FALSE
      OBVIOUS
  <2>1. Bad \subseteq Nat
      BY <1>1
  <2> HIDE DEF Bad
  <2>2. PICK i \in Bad : \A j \in Bad : i <= j
      BY <2>1, LeastNumber
  <2>3. i \in 0..n /\ f[i] # s
      BY DEF Bad
  <2>4. i # 0
      BY <1>2, <2>3 DEF RestoredAt
  <2> DEFINE j == i - 1
             v == tokenMap[i].value
             k == tokenMap[i].token
  <2>5. j \in 0..n /\ ~(i <= j) /\ i \in 1..n
      BY <1>1, <2>3, <2>4
  <2>6. f[i] = Substituted(f[j], k, v) \/ f[i] = f[j]
      BY <1>2, <2>3, <2>4 DEF RestoredAt
  <2>7. v \in Seq(Symbols) /\ k \in Types \X Nat
      BY <2>5, EntryType DEF n
  <2> HIDE DEF j, v, k
  <2>8. f[j] = s
      BY <2>2, <2>5 DEF Bad
  <2>9. \A p \in 1..Len(s) : s[p] # k
      BY <2>7
  <2>10. Substituted(s, k, v) = s
      BY <2>7, <2>9, SubstitutedSelf
  <2> QED
      BY <2>3, <2>6, <2>8, <2>10
<1>4. n \in 0..n
    BY <1>1
<1> QED
    BY <1>2, <1>3, <1>4

\* What a role is shown of one symbol.
LEMMA ForRoleOne ==
    ASSUME tokenMap \in Seq(Entries), Minted(tokenMap), ~Nested, NEW x \in Symbols
    PROVE  ForRole(<<x>>) =
              IF \E v \in ToSet(tokenMap) : v.token = x /\ v.token[1] \in role
              THEN (CHOOSE v \in ToSet(tokenMap) : v.token = x).value
              ELSE <<x>>
<1> DEFINE n == Len(tokenMap)
           known == \E v \in ToSet(tokenMap) : v.token = x /\ v.token[1] \in role
           value == (CHOOSE v \in ToSet(tokenMap) : v.token = x).value
           s == <<x>>
<1>1. n \in Nat
    BY EntryType
<1>2. s \in Seq(Symbols) /\ Len(s) = 1 /\ s[1] = x
    OBVIOUS
<1> HIDE DEF s
<1>3. PICK f : ForRole(s) = f[n] /\ \A i \in 0..n : f[i] = RestoredAt(f, s, i)
    BY <1>2, RestoredBy
<1>4. \A i \in 1..n : tokenMap[i] \in ToSet(tokenMap)
    BY DEF ToSet
<1>5. \A v \in ToSet(tokenMap) : v.token = x => v.value = value
  <2>1. \A v, w \in ToSet(tokenMap) : v.token = w.token => v.value = w.value
      BY DEF Minted
  <2> QED
      BY <2>1
<1> HIDE DEF value
<1>6. \A i \in 1..n : /\ tokenMap[i].value \in Seq(Symbols)
                      /\ \A p \in 1..Len(tokenMap[i].value) :
                            tokenMap[i].value[p] \notin Types \X Nat
                      /\ tokenMap[i].token \in Types \X Nat
    BY <1>4, EntryType DEF Nested
<1>7. \A v \in ToSet(tokenMap) : \E i \in 1..n : v = tokenMap[i]
    BY DEF ToSet
<1>8. \A t \in Seq(Symbols) : \A i \in 1..n :
          (\A p \in 1..Len(t) : t[p] # tokenMap[i].token)
             => Substituted(t, tokenMap[i].token, tokenMap[i].value) = t
    BY <1>6, SubstitutedSelf
<1> HIDE DEF n
<1>9. CASE known
  <2>1. \A i \in 1..n : tokenMap[i].token = x => tokenMap[i].token[1] \in role
      BY <1>9
  <2>2. PICK m \in 1..n : tokenMap[m].token = x
      BY <1>7, <1>9
  <2>3. /\ value = tokenMap[m].value /\ value \in Seq(Symbols)
        /\ \A p \in 1..Len(value) : value[p] \notin Types \X Nat
      BY <1>4, <1>5, <1>6, <2>2
  <2> DEFINE Seen(i) == \E k \in 1..i : tokenMap[k].token = x
             Bad == {i \in 0..n : f[i] # IF Seen(i) THEN value ELSE s}
  <2>4. Bad = {}
    <3> SUFFICES ASSUME Bad # {} PROVE FALSE
        OBVIOUS
    <3>1. Bad \subseteq Nat
        BY <1>1
    <3> HIDE DEF Bad
    <3>2. PICK i \in Bad : \A j \in Bad : i <= j
        BY <3>1, LeastNumber
    <3>3. i \in 0..n /\ f[i] # IF Seen(i) THEN value ELSE s
        BY DEF Bad
    <3>4. i # 0
        BY <1>3, <3>3 DEF RestoredAt
    <3> DEFINE j == i - 1
               v == tokenMap[i].value
               k == tokenMap[i].token
    <3>5. j \in 0..n /\ ~(i <= j) /\ i \in 1..n
        BY <1>1, <3>3, <3>4
    <3>6. Seen(i) <=> (Seen(j) \/ k = x)
      <4>1. \A p : p \in 1..i <=> p \in 1..j \/ p = i
          BY <3>3, <3>4
      <4> QED
          BY <4>1
    <3>7. f[i] = IF k[1] \in role THEN Substituted(f[j], k, v) ELSE f[j]
        BY <1>3, <3>3, <3>4 DEF RestoredAt
    <3> HIDE DEF j, Seen
    <3>8. f[j] = IF Seen(j) THEN value ELSE s
        BY <3>2, <3>5 DEF Bad
    <3>9. k \in Types \X Nat /\ v \in Seq(Symbols)
        BY <1>6, <3>5
    <3>10. Substituted(value, k, v) = value
        BY <1>8, <2>3, <3>5, <3>9
    <3>11. k # x => Substituted(s, k, v) = s
        BY <1>2, <1>8, <3>5
    <3>12. k = x => k[1] \in role /\ v = value
        BY <1>4, <1>5, <2>1, <3>5
    <3>13. k = x => Substituted(s, k, v) = value
        BY <3>9, <3>12, SubstitutedOne DEF s
    <3> HIDE DEF k, v
    <3> QED
        BY <3>3, <3>6, <3>7, <3>8, <3>10, <3>11, <3>12, <3>13
  <2>5. n \in 0..n /\ Seen(n)
      BY <1>1, <2>2
  <2> HIDE DEF Seen
  <2>6. f[n] = value
      BY <2>4, <2>5
  <2> QED
      BY <1>3, <1>9, <2>6 DEF s, value
<1>10. CASE ~known
  <2> DEFINE Bad == {i \in 0..n : f[i] # s}
  <2>1. Bad = {}
    <3> SUFFICES ASSUME Bad # {} PROVE FALSE
        OBVIOUS
    <3>1. Bad \subseteq Nat
        BY <1>1
    <3> HIDE DEF Bad
    <3>2. PICK i \in Bad : \A j \in Bad : i <= j
        BY <3>1, LeastNumber
    <3>3. i \in 0..n /\ f[i] # s
        BY DEF Bad
    <3>4. i # 0
        BY <1>3, <3>3 DEF RestoredAt
    <3> DEFINE j == i - 1
               v == tokenMap[i].value
               k == tokenMap[i].token
    <3>5. j \in 0..n /\ ~(i <= j) /\ i \in 1..n
        BY <1>1, <3>3, <3>4
    <3>6. f[i] = IF k[1] \in role THEN Substituted(f[j], k, v) ELSE f[j]
        BY <1>3, <3>3, <3>4 DEF RestoredAt
    <3> HIDE DEF j
    <3>7. f[j] = s
        BY <3>2, <3>5 DEF Bad
    <3>8. k[1] \in role => k # x
        BY <1>4, <1>10, <3>5
    <3>9. k # x => Substituted(s, k, v) = s
        BY <1>2, <1>8, <3>5
    <3> HIDE DEF k, v
    <3> QED
        BY <3>3, <3>6, <3>7, <3>8, <3>9
  <2>2. n \in 0..n
      BY <1>1
  <2>3. f[n] = s
      BY <2>1, <2>2
  <2> QED
      BY <1>3, <1>10, <2>3 DEF s
<1> QED
    BY <1>9, <1>10

\* Piece by piece: what is restored of the pieces is restored of the whole.
LEMMA ForRoleFlatten ==
    ASSUME tokenMap \in Seq(Entries), NEW s \in Seq(Seq(Symbols)),
           NEW t \in Seq(Seq(Symbols)), Len(t) = Len(s),
           \A i \in 1..Len(s) : t[i] = ForRole(s[i])
    PROVE  ForRole(FlattenSeq(s)) = FlattenSeq(t)
<1> DEFINE n == Len(s)
<1>1. n \in Nat /\ \A i \in 1..n : s[i] \in Seq(Symbols) /\ t[i] = ForRole(s[i])
    OBVIOUS
<1>2. CASE n = 0
  <2>1. FlattenSeq(s) = <<>> /\ FlattenSeq(t) = <<>>
      BY <1>2 DEF FlattenSeq
  <2>2. <<>> \in Seq(Symbols) /\ \A i \in 1..Len(<<>>) : <<>>[i] \notin Types \X Nat
      OBVIOUS
  <2>3. ForRole(<<>>) = <<>>
      BY <2>2, ForRoleSelf
  <2> QED
      BY <2>1, <2>3
<1>3. CASE n # 0
  <2>1. PICK f : FlattenSeq(s) = f[n] /\ \A i \in 1..n : f[i] = FlatAt(s, f, i)
      BY <1>1, <1>3, FlattenedBy
  <2>2. PICK g : FlattenSeq(t) = g[n] /\ \A i \in 1..n : g[i] = FlatAt(t, g, i)
      BY <1>1, <1>3, FlattenedBy
  <2> DEFINE Good(i) == f[i] \in Seq(Symbols) /\ ForRole(f[i]) = g[i]
             Bad == {i \in 1..n : ~Good(i)}
  <2>3. Bad = {}
    <3> SUFFICES ASSUME Bad # {} PROVE FALSE
        OBVIOUS
    <3>1. Bad \subseteq Nat
        BY <1>1
    <3> HIDE DEF Bad
    <3>2. PICK i \in Bad : \A j \in Bad : i <= j
        BY <3>1, LeastNumber
    <3> HIDE DEF Good
    <3>3. i \in 1..n /\ ~Good(i)
        BY DEF Bad
    <3> DEFINE w == s[i]
    <3>4. w \in Seq(Symbols) /\ t[i] = ForRole(w)
        BY <1>1, <3>3
    <3>5. CASE i = 1
      <4>1. f[i] = w /\ g[i] = t[i]
          BY <2>1, <2>2, <3>3, <3>5 DEF FlatAt
      <4> QED
          BY <3>3, <3>4, <4>1 DEF Good
    <3>6. CASE i # 1
      <4> DEFINE j == i - 1
                 u == f[j]
      <4>1. j \in 1..n /\ ~(i <= j)
          BY <1>1, <3>3, <3>6
      <4>2. f[i] = u \o w /\ g[i] = g[j] \o t[i]
          BY <2>1, <2>2, <3>3, <3>6 DEF FlatAt
      <4>3. Good(j)
          BY <3>2, <4>1 DEF Bad
      <4> HIDE DEF j
      <4>4. u \in Seq(Symbols) /\ ForRole(u) = g[j]
          BY <4>3 DEF Good
      <4> HIDE DEF u, w
      <4>5. u \o w \in Seq(Symbols)
          BY <3>4, <4>4, ConcatProperties
      <4>6. ForRole(u \o w) = ForRole(u) \o ForRole(w)
          BY <3>4, <4>4, ForRoleConcat
      <4> QED
          BY <3>3, <3>4, <4>2, <4>4, <4>5, <4>6 DEF Good
    <3> QED
        BY <3>5, <3>6
  <2>4. n \in 1..n
      BY <1>1, <1>3
  <2> HIDE DEF Good
  <2>5. Good(n)
      BY <2>3, <2>4
  <2> QED
      BY <2>1, <2>2, <2>5 DEF Good
<1> QED
    BY <1>2, <1>3
-----------------------------------------------------------------------------
\* s is a of length k and then c.
Split(S, s, k, a, c) ==
    /\ a \in Seq(S) /\ c \in Seq(S) /\ s = a \o c
    /\ Len(a) = k /\ \A i \in 1..k : a[i] = s[i]
    /\ Len(c) = Len(s) - k /\ \A i \in 1..(Len(s) - k) : c[i] = s[k + i]

\* A sequence is its beginning and its end.
LEMMA SplitAfter ==
    ASSUME NEW S, NEW s \in Seq(S), NEW k \in 0..Len(s)
    PROVE  /\ SubSeq(s, 1, k) \in Seq(S) /\ SubSeq(s, k + 1, Len(s)) \in Seq(S)
           /\ Len(SubSeq(s, 1, k)) = k /\ Len(SubSeq(s, k + 1, Len(s))) = Len(s) - k
           /\ \A i \in 1..k : SubSeq(s, 1, k)[i] = s[i]
           /\ \A i \in 1..(Len(s) - k) : SubSeq(s, k + 1, Len(s))[i] = s[k + i]
           /\ s = SubSeq(s, 1, k) \o SubSeq(s, k + 1, Len(s))
<1> DEFINE n == Len(s)
           a == SubSeq(s, 1, k)
           c == SubSeq(s, k + 1, n)
<1>1. n \in Nat /\ k \in Nat /\ k <= n /\ \A j \in 1..n : s[j] \in S
    OBVIOUS
<1>2. a \in Seq(S) /\ Len(a) = k /\ \A j \in 1..k : a[j] = s[j]
    BY <1>1
<1>3. c \in Seq(S) /\ Len(c) = n - k /\ \A j \in 1..(n - k) : c[j] = s[k + j]
    BY <1>1
<1> HIDE DEF a, c, n
<1> DEFINE t == a \o c
<1>4. /\ t \in Seq(S) /\ Len(t) = Len(a) + Len(c)
      /\ \A j \in 1..(Len(a) + Len(c)) : t[j] = IF j <= Len(a) THEN a[j] ELSE c[j - Len(a)]
    BY <1>2, <1>3, ConcatProperties
<1> HIDE DEF t
<1>5. Len(t) = n
    BY <1>1, <1>2, <1>3, <1>4
<1>6. ASSUME NEW j \in 1..n PROVE t[j] = s[j]
  <2>1. CASE j <= k
      BY <1>1, <1>2, <1>3, <1>4, <2>1
  <2>2. CASE ~(j <= k)
    <3> DEFINE i == j - k
    <3>1. i \in 1..(n - k) /\ j = k + i /\ j \in 1..(Len(a) + Len(c)) /\ ~(j <= Len(a))
          /\ j - Len(a) = i
        BY <1>1, <1>2, <1>3, <2>2
    <3> HIDE DEF i
    <3> QED
        BY <1>3, <1>4, <3>1
  <2> QED
      BY <2>1, <2>2
<1>7. t = s
    BY <1>4, <1>5, <1>6, SeqEqual DEF n
<1> QED
    BY <1>2, <1>3, <1>7 DEF t, a, c, n

\* A sequence can be split at every place.
LEMMA SplitIs ==
    ASSUME NEW S, NEW s \in Seq(S), NEW k \in 0..Len(s)
    PROVE  \E a, c : Split(S, s, k, a, c)
<1>1. Split(S, s, k, SubSeq(s, 1, k), SubSeq(s, k + 1, Len(s)))
    BY SplitAfter, ZenonT(30) DEF Split
<1> QED
    BY <1>1

\* What comes before and what comes after a place where two sequences meet.
LEMMA MeetAt ==
    ASSUME NEW S, NEW a \in Seq(S), NEW c \in Seq(S)
    PROVE  /\ SubSeq(a \o c, 1, Len(a)) = a
           /\ SubSeq(a \o c, Len(a) + 1, Len(a) + Len(c)) = c
<1> DEFINE t == a \o c
           k == Len(a)
           n == Len(a) + Len(c)
           x == SubSeq(t, 1, k)
           y == SubSeq(t, k + 1, n)
<1>1. /\ t \in Seq(S) /\ Len(t) = n
      /\ \A j \in 1..n : t[j] = IF j <= k THEN a[j] ELSE c[j - k]
    BY ConcatProperties
<1>2. n \in Nat /\ k \in 0..n /\ n = Len(t) /\ Len(c) = n - k /\ Len(a) = k
    BY <1>1
<1> HIDE DEF t, k, n
<1>3. /\ x \in Seq(S) /\ Len(x) = k /\ \A i \in 1..k : x[i] = t[i]
      /\ y \in Seq(S) /\ Len(y) = n - k /\ \A i \in 1..(n - k) : y[i] = t[k + i]
    BY <1>1, <1>2, SplitAfter
<1> HIDE DEF x, y
<1>4. \A i \in 1..k : i \in 1..n /\ i <= k
    BY <1>2
<1>5. \A i \in 1..(n - k) : k + i \in 1..n /\ ~(k + i <= k) /\ k + i - k = i
    BY <1>2
<1>6. \A i \in 1..Len(x) : x[i] = a[i]
    BY <1>1, <1>2, <1>3, <1>4
<1>7. \A i \in 1..Len(y) : y[i] = c[i]
    BY <1>1, <1>2, <1>3, <1>5
<1>8. x = a
    BY <1>2, <1>3, <1>6, SeqEqual
<1>9. y = c
    BY <1>2, <1>3, <1>7, SeqEqual
<1> QED
    BY <1>8, <1>9 DEF x, y, t, k, n

\* Empty pieces make nothing.
LEMMA FlattenNothing ==
    ASSUME NEW S, NEW s \in Seq(Seq(S)), \A i \in 1..Len(s) : s[i] = <<>>
    PROVE  FlattenSeq(s) = <<>>
<1> DEFINE F == FlattenSeq(s)
<1>1. F \in Seq(S)
    BY FlattenType
<1>2. \A p \in 1..Len(F) : \E i \in 1..Len(s) : \E k \in 1..Len(s[i]) : F[p] = s[i][k]
    BY FlattenFrom
<1> HIDE DEF F
<1>3. ASSUME NEW p \in 1..Len(F) PROVE FALSE
  <2>1. PICK i \in 1..Len(s) : \E k \in 1..Len(s[i]) : F[p] = s[i][k]
      BY <1>2
  <2>2. s[i] = <<>>
      OBVIOUS
  <2>3. Len(<<>>) = 0
      OBVIOUS
  <2> QED
      BY <2>1, <2>2, <2>3
<1> QED
    BY <1>1, <1>3 DEF F

\* Replacing a span by a symbol, in the pieces and in what they make: before
\* it and in it every piece is one symbol.
LEMMA CutPieces ==
    ASSUME NEW S, NEW s \in Seq(Seq(S)), NEW t \in Seq(Seq(S)), Len(t) = Len(s),
           NEW first \in 1..Len(s), NEW last \in 1..Len(s), first <= last, NEW x \in S,
           \A i \in 1..last : Len(s[i]) = 1,
           \A i \in 1..Len(s) : i < first \/ i > last => t[i] = s[i],
           \A i \in first..last : t[i] = IF i = first THEN <<x>> ELSE <<>>
    PROVE  FlattenSeq(t) = Cut(FlattenSeq(s), first, last, x)
<1> DEFINE n == Len(s)
           T == Seq(S)
           h == first - 1
<1>1. /\ n \in Nat /\ first \in Nat /\ last \in Nat /\ 1 <= first /\ last <= n
      /\ h \in 0..n /\ last \in 0..n /\ h + 1 = first
    OBVIOUS
<1>a. s \in Seq(T) /\ t \in Seq(T)
    OBVIOUS
<1> HIDE DEF h, T
<1>b. PICK ab, c : Split(T, s, last, ab, c)
    BY <1>1, <1>a, SplitIs
<1>c. PICK a, bc : Split(T, s, h, a, bc)
    BY <1>1, <1>a, SplitIs
<1>d. PICK d, e : Split(T, t, last, d, e)
    BY <1>1, <1>a, SplitIs
<1>2. /\ ab \in Seq(T) /\ c \in Seq(T) /\ s = ab \o c
      /\ Len(ab) = last /\ \A i \in 1..last : ab[i] = s[i]
      /\ Len(c) = n - last /\ \A i \in 1..(n - last) : c[i] = s[last + i]
    BY <1>b DEF Split
<1>3. /\ a \in Seq(T) /\ bc \in Seq(T) /\ s = a \o bc
      /\ Len(a) = h /\ \A i \in 1..h : a[i] = s[i]
    BY <1>c DEF Split
<1>4. /\ d \in Seq(T) /\ e \in Seq(T) /\ t = d \o e
      /\ Len(d) = last /\ \A i \in 1..last : d[i] = t[i]
      /\ Len(e) = n - last /\ \A i \in 1..(n - last) : e[i] = t[last + i]
    BY <1>d DEF Split
<1> HIDE DEF n
<1>5. e = c
  <2>1. ASSUME NEW i \in 1..(n - last) PROVE e[i] = c[i]
    <3>1. last + i \in 1..n /\ last + i > last
        BY <1>1
    <3>2. t[last + i] = s[last + i]
        BY <3>1 DEF n
    <3> QED
        BY <1>2, <1>4, <3>2
  <2> QED
      BY <1>2, <1>4, <2>1, SeqEqual
<1> DEFINE fa == FlattenSeq(a)
           fab == FlattenSeq(ab)
           fc == FlattenSeq(c)
           fbc == FlattenSeq(bc)
           fs == FlattenSeq(s)
<1>6. fa \in T /\ fab \in T /\ fc \in T /\ fbc \in T
    BY <1>2, <1>3, FlattenType DEF T
<1>7. Len(fa) = h
  <2>1. \A i \in 1..Len(a) : Len(a[i]) = 1
    <3>1. \A i \in 1..h : i \in 1..last
        BY <1>1
    <3> QED
        BY <1>3, <3>1
  <2> QED
      BY <1>3, <2>1, FlattenSingles DEF T
<1>8. Len(fab) = last
  <2>1. \A i \in 1..Len(ab) : Len(ab[i]) = 1
      BY <1>2
  <2> QED
      BY <1>2, <2>1, FlattenSingles DEF T
<1>9. fs = fab \o fc /\ fs = fa \o fbc
    BY <1>2, <1>3, FlattenConcat DEF T
<1> HIDE DEF fa, fab, fc, fbc, fs
<1>10. SubSeq(fs, 1, first - 1) = fa
  <2>1. SubSeq(fa \o fbc, 1, Len(fa)) = fa
      BY <1>6, MeetAt DEF T
  <2> QED
      BY <1>7, <1>9, <2>1 DEF h
<1>11. SubSeq(fs, last + 1, Len(fs)) = fc
  <2>1. SubSeq(fab \o fc, Len(fab) + 1, Len(fab) + Len(fc)) = fc
      BY <1>6, MeetAt DEF T
  <2>2. Len(fab \o fc) = Len(fab) + Len(fc)
      BY <1>6, ConcatProperties DEF T
  <2> QED
      BY <1>8, <1>9, <2>1, <2>2
<1>12. FlattenSeq(d) = fa \o <<x>>
  <2>1. h \in 0..Len(d)
      BY <1>1, <1>4
  <2>a. PICK d1, d2 : Split(T, d, h, d1, d2)
      BY <1>4, <2>1, SplitIs
  <2>2. /\ d1 \in Seq(T) /\ d2 \in Seq(T) /\ d = d1 \o d2
        /\ Len(d1) = h /\ \A i \in 1..h : d1[i] = d[i]
        /\ Len(d2) = last - h /\ \A i \in 1..(last - h) : d2[i] = d[h + i]
      BY <1>4, <2>a DEF Split
  <2>3. d1 = a
    <3>1. ASSUME NEW i \in 1..h PROVE d1[i] = a[i]
      <4>1. i \in 1..last /\ i \in 1..n /\ i < first
          BY <1>1, SMTT(20)
      <4>2. t[i] = s[i]
          BY <4>1 DEF n
      <4> QED
          BY <1>3, <1>4, <2>2, <4>1, <4>2
    <3> QED
      <4>1. d1 \in Seq(T) /\ a \in Seq(T) /\ Len(d1) = Len(a)
            /\ \A i \in 1..Len(d1) : d1[i] = a[i]
          BY <1>3, <2>2, <3>1
      <4> HIDE DEF T
      <4> QED
          BY <4>1, SeqEqual
  <2> DEFINE m == last - h
             w == <<x>>
  <2>4. 1 \in 0..Len(d2) /\ m \in Nat /\ 1 <= m /\ Len(d2) = m
      BY <1>1, <2>2
  <2> HIDE DEF m
  <2>b. PICK d3, d4 : Split(T, d2, 1, d3, d4)
      BY <2>2, <2>4, SplitIs
  <2>5. /\ d3 \in Seq(T) /\ d4 \in Seq(T) /\ d2 = d3 \o d4
        /\ Len(d3) = 1 /\ \A i \in 1..1 : d3[i] = d2[i]
        /\ Len(d4) = m - 1 /\ \A i \in 1..(m - 1) : d4[i] = d2[1 + i]
      BY <2>2, <2>4, <2>b DEF Split
  <2> HIDE DEF w
  <2>6. ASSUME NEW i \in 1..m PROVE d2[i] = IF i = 1 THEN w ELSE <<>>
    <3>1. h + i \in first..last /\ h + i \in 1..last /\ (h + i = first <=> i = 1)
          /\ i \in 1..(last - h)
        BY <1>1 DEF m
    <3>2. t[h + i] = IF h + i = first THEN w ELSE <<>>
        BY <3>1 DEF w
    <3>3. d2[i] = d[h + i] /\ d[h + i] = t[h + i]
        BY <1>4, <2>2, <3>1
    <3> QED
        BY <3>1, <3>2, <3>3
  <2>7. FlattenSeq(d4) = <<>>
    <3>1. \A i \in 1..(m - 1) : 1 + i \in 1..m /\ 1 + i # 1
        BY <2>4
    <3>2. \A i \in 1..Len(d4) : d4[i] = <<>>
        BY <2>5, <2>6, <3>1, ZenonT(30)
    <3> QED
        BY <2>5, <3>2, FlattenNothing DEF T
  <2>8. d3 = <<w>> /\ w \in T
    <3>1. 1 \in 1..m /\ d3[1] = w
        BY <2>4, <2>5, <2>6
    <3>2. w \in T
        BY DEF w, T
    <3> DEFINE e3 == <<w>>
    <3>3. e3 \in Seq(T) /\ Len(e3) = 1 /\ e3[1] = w
        BY <3>2
    <3> HIDE DEF e3
    <3>4. \A i \in 1..1 : i = 1
        OBVIOUS
    <3>5. d3 = e3
        BY <2>5, <3>1, <3>3, <3>4, SeqEqual
    <3> QED
        BY <3>2, <3>5 DEF e3
  <2>9. FlattenSeq(d2) = w
    <3>1. FlattenSeq(<<w>> \o d4) = w \o FlattenSeq(d4)
        BY <2>5, <2>8, FlattenStep DEF T
    <3>2. w \o <<>> = w
        BY <2>8, ConcatEmptySeq DEF T
    <3> QED
        BY <2>5, <2>7, <2>8, <3>1, <3>2
  <2>10. FlattenSeq(d1 \o d2) = FlattenSeq(d1) \o FlattenSeq(d2)
      BY <2>2, FlattenConcat DEF T
  <2> QED
      BY <2>2, <2>3, <2>9, <2>10 DEF w, fa
<1>13. FlattenSeq(t) = (fa \o <<x>>) \o fc
  <2>1. FlattenSeq(d \o e) = FlattenSeq(d) \o FlattenSeq(e)
      BY <1>4, FlattenConcat DEF T
  <2> QED
      BY <1>4, <1>5, <1>12, <2>1 DEF fc
<1>14. Cut(fs, first, last, x) = fa \o <<x>> \o fc
    BY <1>10, <1>11 DEF Cut
<1> QED
    BY <1>13, <1>14 DEF fs

\* The spans of the message that have been replaced, and what is sent for the
\* symbol at a place then.
Done == KeptSpans \ spans

SentAt(p) ==
    IF \E r \in Done : Covers(r, p)
    THEN IF p # (CHOOSE q \in Done : Covers(q, p)).first THEN <<>>
         ELSE <<TokenOf(CHOOSE q \in Done : Covers(q, p))>>
    ELSE <<message[p]>>

SentPieces == [p \in 1..Len(message) |-> SentAt(p)]

\* A value's entry in the map.
Entered(map, type, value) == \E v \in ToSet(map) : v.token[1] = type /\ v.value = value

RedactionTypes ==
    /\ message \in Seq(Symbols)
    /\ results \in Seq(Spans(message))
    /\ tokenMap \in Seq(Entries)
    /\ Minted(tokenMap)

Replacing ==
    /\ spans \subseteq KeptSpans
    /\ \A r \in Done : Entered(tokenMap, r.type, Covered(r))
    /\ \A r \in Done, q \in spans : q.last < r.first

SentTyped ==
    /\ \A p \in 1..Len(message) : SentAt(p) \in Seq(Symbols)
    /\ SentPieces \in Seq(Seq(Symbols)) /\ Len(SentPieces) = Len(message)
    /\ \A p \in 1..Len(message) : SentPieces[p] = SentAt(p)

Answering ==
    /\ answer # NoMessage => Sent /\ answer \in {tokenized, tokenized \o tokenized}
    /\ shown # NoMessage => answer # NoMessage /\ shown = ForRole(answer)

\* The inductive invariant: what has been replaced is what stands in the
\* message for it, its entries are in the map, and what is left to replace
\* lies before it.
RedactionInv ==
    /\ RedactionTypes
    /\ Replacing
    /\ (tokenized = NoMessage /\ spans = {}) \/ tokenized = FlattenSeq(SentPieces)
    /\ Answering

\* The spans kept are spans of the message and do not overlap.
LEMMA KeptType ==
    ASSUME RedactionTypes
    PROVE  /\ \A r \in KeptSpans :
                 /\ r.type \in Types /\ r.first \in Nat /\ r.last \in Nat
                 /\ 1 <= r.first /\ r.first <= r.last /\ r.last <= Len(message)
           /\ \A q, r \in KeptSpans : \A p \in Nat : Covers(q, p) /\ Covers(r, p) => q = r
           /\ Len(message) \in Nat
<1> DEFINE S == Spans(message)
<1>1. results \in Seq(S)
    BY DEF RedactionTypes
<1>2. KeptSpans \subseteq ToSet(results) /\ \A q, r \in KeptSpans : q # r => ~Overlap(q, r)
    BY <1>1, KeptOnes DEF KeptSpans
<1>3. Len(message) \in Nat
    BY DEF RedactionTypes
<1>4. \A r \in S : /\ r.type \in Types /\ r.first \in Nat /\ r.last \in Nat
                   /\ 1 <= r.first /\ r.first <= r.last /\ r.last <= Len(message)
    BY <1>3 DEF Spans
<1> HIDE DEF S
<1>5. ToSet(results) \subseteq S
    BY <1>1 DEF ToSet
<1>6. \A r \in KeptSpans : /\ r.type \in Types /\ r.first \in Nat /\ r.last \in Nat
                           /\ 1 <= r.first /\ r.first <= r.last /\ r.last <= Len(message)
    BY <1>2, <1>4, <1>5
<1>7. ASSUME NEW q \in KeptSpans, NEW r \in KeptSpans, NEW p \in Nat, Covers(q, p), Covers(r, p)
      PROVE  q = r
  <2>1. Overlap(q, r)
      BY <1>6, <1>7 DEF Overlap, Covers
  <2> QED
      BY <1>2, <2>1
<1> QED
    BY <1>3, <1>6, <1>7

\* What a span covers is a message.
LEMMA CoveredType ==
    ASSUME RedactionTypes, NEW r \in KeptSpans
    PROVE  Covered(r) \in Seq(Symbols)
<1>1. /\ r.first \in Nat /\ r.last \in Nat /\ 1 <= r.first /\ r.first <= r.last
      /\ r.last <= Len(message) /\ Len(message) \in Nat
    BY KeptType
<1>2. message \in Seq(Symbols)
    BY DEF RedactionTypes
<1> DEFINE a == r.first
           b == r.last
<1> HIDE DEF a, b
<1>3. SubSeq(message, a, b) \in Seq(Symbols)
    BY <1>1, <1>2 DEF a, b
<1> QED
    BY <1>3 DEF Covered, a, b

\* The token of a value is that of its entry.
LEMMA TokenIs ==
    ASSUME RedactionTypes, NEW r \in KeptSpans,
           NEW v \in ToSet(tokenMap), v.token[1] = r.type, v.value = Covered(r)
    PROVE  TokenOf(r) = v.token
<1>1. \A w \in ToSet(tokenMap) : w.token[1] = r.type /\ w.value = Covered(r) => w.token = v.token
    BY DEF RedactionTypes, Minted
<1> QED
    BY <1>1 DEF TokenOf

\* The pieces are of symbols.
LEMMA SentType ==
    ASSUME RedactionTypes, \A r \in Done : Entered(tokenMap, r.type, Covered(r))
    PROVE  /\ \A p \in 1..Len(message) : SentAt(p) \in Seq(Symbols)
           /\ SentPieces \in Seq(Seq(Symbols)) /\ Len(SentPieces) = Len(message)
           /\ \A p \in 1..Len(message) : SentPieces[p] = SentAt(p)
<1>1. message \in Seq(Symbols) /\ Len(message) \in Nat
    BY DEF RedactionTypes
<1>2. \A p \in 1..Len(message) : message[p] \in Symbols
    BY <1>1
<1>3. ASSUME NEW r \in Done PROVE TokenOf(r) \in Symbols
  <2>1. PICK v \in ToSet(tokenMap) : v.token[1] = r.type /\ v.value = Covered(r)
      BY DEF Entered
  <2>2. TokenOf(r) = v.token
      BY <2>1, TokenIs DEF Done
  <2>3. tokenMap \in Seq(Entries)
      BY DEF RedactionTypes
  <2>4. PICK i \in 1..Len(tokenMap) : v = tokenMap[i]
      BY <2>1 DEF ToSet
  <2>5. tokenMap[i].token \in Symbols
      BY <2>3, EntryType
  <2> QED
      BY <2>2, <2>4, <2>5
<1>4. ASSUME NEW p \in 1..Len(message) PROVE SentAt(p) \in Seq(Symbols)
  <2>1. \A x \in Symbols : <<x>> \in Seq(Symbols)
      OBVIOUS
  <2>2. <<>> \in Seq(Symbols)
      OBVIOUS
  <2> DEFINE r == CHOOSE q \in Done : Covers(q, p)
  <2>3. CASE \E q \in Done : Covers(q, p)
    <3>1. r \in Done
        BY <2>3
    <3> HIDE DEF r
    <3>2. TokenOf(r) \in Symbols
        BY <1>3, <3>1
    <3>3. SentAt(p) = <<>> \/ SentAt(p) = <<TokenOf(r)>>
        BY <2>3 DEF SentAt, r
    <3> QED
        BY <2>1, <2>2, <3>2, <3>3
  <2>4. CASE ~\E q \in Done : Covers(q, p)
      BY <1>2, <2>1, <2>4 DEF SentAt
  <2> QED
      BY <2>3, <2>4
<1> QED
    BY <1>1, <1>4 DEF SentPieces

\* The same of the pieces after a step.
LEMMA SentTypeNext == RedactionTypes' /\ Replacing' => SentTyped'
<1>1. RedactionTypes /\ Replacing => SentTyped
    BY SentType DEF Replacing, SentTyped
<1> QED
    BY <1>1, PTL

\* There is a next span, and it lies behind all the others.
LEMMA NextIs ==
    ASSUME RedactionTypes, spans \subseteq KeptSpans, spans # {}
    PROVE  NextSpan \in spans /\ \A q \in spans : q # NextSpan => q.last < NextSpan.first
<1> DEFINE n == Len(message)
           T == {n - q.first : q \in spans}
<1>1. n \in Nat /\ \A q \in spans : q.first \in Nat /\ q.first <= n
    BY KeptType
<1> HIDE DEF n
<1>2. \A q \in spans : n - q.first \in Nat
    BY <1>1
<1>3. T \subseteq Nat /\ T # {}
    BY <1>2
<1>4. PICK x \in T : \A y \in T : x <= y
    BY <1>3, LeastNumber
<1>5. PICK r \in spans : x = n - r.first
    OBVIOUS
<1>6. ASSUME NEW q \in spans PROVE q.first <= r.first
  <2>1. n - q.first \in T
      OBVIOUS
  <2>2. n - r.first <= n - q.first
      BY <1>4, <1>5, <2>1
  <2>3. q.first \in Nat /\ r.first \in Nat
      BY <1>1
  <2> QED
      BY <1>1, <2>2, <2>3
<1>7. NextSpan \in spans /\ \A q \in spans : q.first <= NextSpan.first
    BY <1>6 DEF NextSpan
<1>8. ASSUME NEW q \in spans, q # NextSpan PROVE q.last < NextSpan.first
  <2>1. /\ q.first \in Nat /\ q.last \in Nat /\ q.first <= NextSpan.first
        /\ NextSpan.first \in Nat /\ NextSpan.first <= NextSpan.last /\ NextSpan.last \in Nat
      BY <1>7, KeptType
  <2>2. SUFFICES ASSUME NextSpan.first <= q.last PROVE FALSE
      BY <2>1
  <2>3. Covers(q, NextSpan.first) /\ Covers(NextSpan, NextSpan.first)
      BY <2>1, <2>2 DEF Covers
  <2> QED
      BY <1>7, <1>8, <2>1, <2>3, KeptType
<1> QED
    BY <1>7, <1>8

\* The map with the entry of a value, and what it is then.
Noted(code, value) ==
    LET entry == [token |-> code, value |-> value]
    IN  IF Contains(tokenMap, entry) THEN tokenMap ELSE Append(tokenMap, entry)

NotedWell(map, type, value, code) ==
    /\ map \in Seq(Entries) /\ Minted(map)
    /\ code \in Types \X Nat
    /\ ToSet(tokenMap) \subseteq ToSet(map)
    /\ \E v \in ToSet(map) : v.token[1] = type /\ v.value = value /\ v.token = code

\* The next number of a type is above all that were given (INCR).
LEMMA NextIsAbove ==
    ASSUME NEW map \in Seq(Entries), NEW type
    PROVE  /\ NextNumber(map, type) \in Nat
           /\ \A m \in Numbers(map, type) : m < NextNumber(map, type)
<1> DEFINE given == Numbers(map, type)
           l == Len(map)
           n(i) == map[i].token[2]
           Top(m, i) == \A k \in 1..i : map[k].token[1] = type => n(k) <= m
           G == {i \in 0..l : \E m \in given \cup {0} : Top(m, i)}
<1>1. l \in Nat /\ \A i \in 1..l : n(i) \in Nat
  <2> SUFFICES ASSUME NEW i \in 1..l PROVE n(i) \in Nat
      OBVIOUS
  <2>1. map[i] \in Entries
      OBVIOUS
  <2>2. map[i].token \in Types \X Nat
      BY <2>1 DEF Entries
  <2> QED
      BY <2>2
<1>2. \A i \in 1..l : map[i].token[1] = type => n(i) \in given
    BY DEF Numbers, ToSet
<1>3. \A m \in given : \E i \in 1..l : map[i].token[1] = type /\ m = n(i)
    BY DEF Numbers, ToSet
<1> HIDE DEF given, n, l
<1>4. given \subseteq Nat
    BY <1>1, <1>3
<1>5. 0 \in G
  <2>1. Top(0, 0) /\ 0 \in 0..l /\ 0 \in given \cup {0}
      BY <1>1
  <2> QED
      BY <2>1
<1>6. ASSUME NEW i \in 1..l, i - 1 \in G PROVE i \in G
  <2>1. PICK m \in given \cup {0} : Top(m, i - 1)
      BY <1>6
  <2>2. m \in Nat /\ n(i) \in Nat /\ i \in 0..l
      BY <1>1, <1>4
  <2>3. \A k \in 1..i : k \in 1..(i - 1) \/ k = i
      BY <1>1
  <2>4. CASE map[i].token[1] # type \/ n(i) <= m
    <3>1. Top(m, i)
        BY <2>1, <2>3, <2>4
    <3> QED
        BY <2>2, <3>1
  <2>5. CASE map[i].token[1] = type /\ ~(n(i) <= m)
    <3>1. ASSUME NEW k \in 1..i, map[k].token[1] = type PROVE n(k) <= n(i)
      <4>1. CASE k = i
          BY <2>2, <4>1
      <4>2. CASE k \in 1..(i - 1)
        <5>1. n(k) <= m /\ n(k) \in Nat
          <6>1. k \in 1..l
              BY <1>1
          <6> QED
              BY <1>1, <2>1, <3>1, <4>2, <6>1
        <5> QED
            BY <2>2, <2>5, <5>1
      <4> QED
          BY <2>3, <4>1, <4>2
    <3>2. Top(n(i), i) /\ n(i) \in given
        BY <1>2, <2>5, <3>1
    <3> HIDE DEF Top
    <3> QED
        BY <2>2, <3>2
  <2> QED
      BY <2>4, <2>5
<1>7. l \in G
  <2>1. l \in 0..l
      BY <1>1
  <2> HIDE DEF G
  <2> QED
      BY <1>1, <1>5, <1>6, <2>1, Upwards
<1>8. PICK m \in given \cup {0} : \A k \in 1..l : map[k].token[1] = type => n(k) <= m
    BY <1>7
<1>9. m \in Nat /\ \A k \in given : k < m + 1
  <2>1. m \in Nat
      BY <1>4
  <2>2. ASSUME NEW k \in given PROVE k < m + 1
    <3>1. k <= m /\ k \in Nat
        BY <1>3, <1>4, <1>8
    <3> QED
        BY <2>1, <3>1
  <2> QED
      BY <2>1, <2>2
<1> DEFINE above == {k + 1 : k \in given \cup {0}}
           x == CHOOSE z \in above : \A k \in given : k < z
<1>10. x \in above /\ \A k \in given : k < x
  <2>1. m + 1 \in above
      OBVIOUS
  <2> HIDE DEF above
  <2> QED
      BY <1>9, <2>1
<1>11. above \subseteq Nat
    BY <1>4
<1>12. NextNumber(map, type) = x
    BY DEF NextNumber, given
<1> HIDE DEF x, above
<1> QED
    BY <1>10, <1>11, <1>12 DEF given

\* The map with the entry of a value is minted as before (_get_or_create_token).
LEMMA TokenForIs ==
    ASSUME RedactionTypes, NEW type \in Types, NEW value \in Seq(Symbols),
           NEW map, NEW code, code = TokenFor(type, value), map = Noted(code, value)
    PROVE  NotedWell(map, type, value, code)
<1> USE DEF NotedWell
<1> DEFINE known == {v \in ToSet(tokenMap) : v.token[1] = type /\ v.value = value}
           entry == [token |-> code, value |-> value]
<1>1. tokenMap \in Seq(Entries) /\ Minted(tokenMap) /\ Len(tokenMap) \in Nat
    BY DEF RedactionTypes
<1>2. /\ \A v \in ToSet(tokenMap) : \E i \in 1..Len(tokenMap) : v = tokenMap[i]
      /\ \A i \in 1..Len(tokenMap) : tokenMap[i] \in ToSet(tokenMap)
    BY DEF ToSet
<1>3. \A v \in ToSet(tokenMap) :
          /\ v = [token |-> v.token, value |-> v.value]
          /\ v.token \in Types \X Nat /\ v.value \in Seq(Symbols)
  <2> DEFINE U == Types \X Nat
             W == Seq(Symbols)
  <2>1. \A e \in [token : U, value : W] :
            e = [token |-> e.token, value |-> e.value] /\ e.token \in U /\ e.value \in W
    <3> HIDE DEF U, W
    <3> QED
        OBVIOUS
  <2>2. \A v \in ToSet(tokenMap) : v \in Entries
      BY <1>1, <1>2
  <2> QED
      BY <2>1, <2>2 DEF Entries
<1>4. Contains(tokenMap, entry) <=> entry \in ToSet(tokenMap)
    BY <1>2 DEF Contains
<1>5. CASE known # {}
  <2>1. PICK v \in known : code = v.token
      BY <1>5 DEF TokenFor
  <2>2. v \in ToSet(tokenMap) /\ v.token[1] = type /\ v.value = value /\ v = entry
      BY <1>3, <2>1
  <2>3. map = tokenMap
      BY <1>4, <2>2 DEF Noted
  <2> QED
      BY <1>1, <1>3, <2>1, <2>2, <2>3
<1>6. CASE known = {}
  <2> DEFINE numbers == Numbers(tokenMap, type)
             n == NextNumber(tokenMap, type)
  <2>2. n \in Nat /\ \A m \in numbers : m < n
      BY <1>1, NextIsAbove
  <2>3. code = <<type, n>>
      BY <1>6 DEF TokenFor
  <2> HIDE DEF n
  <2>4. code \in Types \X Nat /\ code[1] = type /\ code[2] = n
      BY <2>2, <2>3
  <2>5. entry \in Entries /\ entry.token = code /\ entry.value = value
      BY <2>4 DEF Entries
  <2>6. entry \notin ToSet(tokenMap)
      BY <1>6, <2>4, <2>5
  <2>7. map = Append(tokenMap, entry)
      BY <1>4, <2>6 DEF Noted
  <2> HIDE DEF entry
  <2>8. /\ map \in Seq(Entries) /\ Len(map) = Len(tokenMap) + 1
        /\ ToSet(map) = ToSet(tokenMap) \cup {entry}
    <3>1. /\ map \in Seq(Entries) /\ Len(map) = Len(tokenMap) + 1
          /\ map[Len(tokenMap) + 1] = entry
          /\ \A i \in 1..Len(tokenMap) : map[i] = tokenMap[i]
        BY <1>1, <2>5, <2>7
    <3>2. /\ \A i \in 1..Len(map) : i \in 1..Len(tokenMap) \/ i = Len(tokenMap) + 1
          /\ \A i \in 1..Len(tokenMap) : i \in 1..Len(map)
          /\ Len(tokenMap) + 1 \in 1..Len(map)
        BY <1>1, <3>1
    <3>3. \A x : x \in ToSet(map) <=> \E i \in 1..Len(map) : x = map[i]
        BY DEF ToSet
    <3>4. \A x : x \in ToSet(map) <=> x \in ToSet(tokenMap) \cup {entry}
      <4>1. ASSUME NEW x \in ToSet(map) PROVE x \in ToSet(tokenMap) \cup {entry}
          BY <1>2, <3>1, <3>2, <3>3
      <4>2. ASSUME NEW x \in ToSet(tokenMap) PROVE x \in ToSet(map)
          BY <1>2, <3>1, <3>2, <3>3
      <4>3. entry \in ToSet(map)
          BY <3>1, <3>2, <3>3
      <4> QED
          BY <4>1, <4>2, <4>3
    <3> QED
        BY <3>1, <3>4
  <2>9. \A v \in ToSet(tokenMap) : v.token # code /\ ~(v.token[1] = type /\ v.value = value)
    <3> SUFFICES ASSUME NEW v \in ToSet(tokenMap), v.token = code PROVE FALSE
        BY <1>6
    <3>1. v.token[2] \in numbers
        BY <2>4 DEF Numbers
    <3>2. n < n
        BY <2>2, <2>4, <3>1
    <3> QED
        BY <2>2, <3>2
  <2>10. ASSUME NEW v \in ToSet(map), NEW w \in ToSet(map)
         PROVE  v.token = w.token <=> v.token[1] = w.token[1] /\ v.value = w.value
    <3>1. CASE v \in ToSet(tokenMap) /\ w \in ToSet(tokenMap)
        BY <1>1, <3>1 DEF Minted
    <3>2. CASE v = entry /\ w = entry
        BY <3>2
    <3>3. CASE v = entry /\ w \in ToSet(tokenMap)
        BY <2>4, <2>5, <2>9, <3>3
    <3>4. CASE v \in ToSet(tokenMap) /\ w = entry
        BY <2>4, <2>5, <2>9, <3>4
    <3> QED
        BY <2>8, <3>1, <3>2, <3>3, <3>4
  <2>11. Minted(map)
      BY <2>10 DEF Minted
  <2> QED
      BY <2>4, <2>5, <2>8, <2>11
<1> QED
    BY <1>5, <1>6

\* Nothing is replaced before the first span is.
LEMMA RedactionStart ==
    ASSUME RedactionInit PROVE RedactionInv
<1>1. message \in Seq(Symbols) /\ tokenMap \in Seq(Entries) /\ Minted(tokenMap)
    BY RedactionAssumption DEF RedactionInit
<1>2. results = <<>> /\ spans = {}
    BY DEF RedactionInit
<1> DEFINE S == Spans(message)
<1>3. results \in Seq(S)
  <2> HIDE DEF S
  <2> QED
      BY <1>2
<1>4. RedactionTypes
    BY <1>1, <1>3 DEF RedactionTypes
<1>5. KeptSpans = {}
  <2>1. KeptSpans \subseteq ToSet(results)
      BY <1>3, KeptOnes DEF KeptSpans
  <2>2. ToSet(results) = {}
    <3>1. Len(results) = 0
        BY <1>2
    <3> QED
        BY <3>1 DEF ToSet
  <2> QED
      BY <2>1, <2>2
<1> QED
    BY <1>2, <1>4, <1>5 DEF RedactionInit, RedactionInv, Replacing, Done, Answering

\* The analyser's spans are still to be replaced, all of them.
LEMMA AnalyzeStep ==
    ASSUME RedactionInv, Analyze PROVE RedactionInv'
<1> DEFINE S == Spans(message)
<1>1. /\ tokenized = NoMessage /\ tokenized' = message
      /\ UNCHANGED <<message, tokenMap, role, answer, shown>>
    BY DEF Analyze
<1>2. PICK rs \in Reported(message) : results' = rs /\ spans' = Deduped(rs)
    BY DEF Analyze
<1>3. rs \in Seq(S)
  <2>1. PICK n \in 0..MaxSpans : rs \in [1..n -> S]
      BY DEF Reported
  <2>2. n \in Nat
      BY RedactionAssumption
  <2> HIDE DEF S
  <2> QED
      BY <2>1, <2>2, SeqDef
<1>4. S' = S
    BY <1>1 DEF Spans
<1>5. RedactionTypes'
    BY <1>1, <1>2, <1>3, <1>4 DEF RedactionInv, RedactionTypes
<1>6. KeptSpans' = Deduped(rs)
    BY <1>2 DEF KeptSpans
<1>7. Done' = {} /\ spans' = KeptSpans'
    BY <1>2, <1>6 DEF Done
<1>8. Replacing'
    BY <1>7 DEF Replacing
<1>9. Answering'
  <2>1. NoMessage' = NoMessage
      BY DEF NoMessage
  <2>2. answer = NoMessage /\ shown = NoMessage
      BY <1>1 DEF RedactionInv, Answering, Sent
  <2> QED
      BY <1>1, <2>1, <2>2 DEF Answering
<1>10. tokenized' = FlattenSeq(SentPieces')
  <2> DEFINE s == SentPieces'
             n == Len(message)
  <2>1. message \in Seq(Symbols) /\ n \in Nat
      BY DEF RedactionInv, RedactionTypes
  <2>2. s = [p \in 1..n |-> <<message[p]>>]
    <3>1. \A p : SentAt(p)' = <<message[p]>>
        BY <1>1, <1>7 DEF SentAt
    <3> QED
        BY <1>1, <3>1 DEF SentPieces
  <2>3. \A p \in 1..n : message[p] \in Symbols
      BY <2>1
  <2>4. \A x \in Symbols : <<x>> \in Seq(Symbols) /\ Len(<<x>>) = 1 /\ <<x>>[1] = x
      OBVIOUS
  <2> DEFINE P(p) == <<message[p]>>
  <2>5. \A p \in 1..n : P(p) \in Seq(Symbols) /\ Len(P(p)) = 1 /\ P(p)[1] = message[p]
      BY <2>3, <2>4
  <2>6. s = [p \in 1..n |-> P(p)]
      BY <2>2
  <2> HIDE DEF s, P, n
  <2>7. s \in Seq(Seq(Symbols)) /\ Len(s) = n /\ \A p \in 1..n : s[p] = P(p)
      BY <2>1, <2>5, <2>6
  <2>8. \A p \in 1..Len(s) : Len(s[p]) = 1
      BY <2>5, <2>7
  <2> DEFINE F == FlattenSeq(s)
  <2>9. F \in Seq(Symbols) /\ Len(F) = n /\ \A p \in 1..n : F[p] = message[p]
      BY <2>5, <2>7, <2>8, FlattenType, FlattenSingles
  <2> HIDE DEF F
  <2>10. Len(message) = n
      BY DEF n
  <2>11. F = message
      BY <2>1, <2>9, <2>10, SeqEqual
  <2> QED
      BY <1>1, <2>11 DEF F, s
<1> QED
    BY <1>5, <1>8, <1>9, <1>10 DEF RedactionInv

\* The next span is replaced by its token, in the pieces as in the message.
LEMMA ReplaceStep ==
    ASSUME RedactionInv, Replace PROVE RedactionInv'
<1> DEFINE n == Len(message)
<1>0. PICK r, value, code :
          r = NextSpan /\ value = Covered(r) /\ code = TokenFor(r.type, value)
    OBVIOUS
<1>1. /\ spans # {} /\ spans' = spans \ {r}
      /\ tokenized' = Cut(tokenized, r.first, r.last, code)
      /\ tokenMap' = LET entry == [token |-> code, value |-> value]
                     IN  IF Contains(tokenMap, entry) THEN tokenMap
                         ELSE Append(tokenMap, entry)
      /\ UNCHANGED <<message, results, role, answer, shown>>
    BY <1>0 DEF Replace
<1>2. RedactionTypes /\ Replacing
    BY DEF RedactionInv
<1>3. r \in spans /\ spans \subseteq KeptSpans /\ \A q \in spans : q # r => q.last < r.first
    BY <1>0, <1>1, <1>2, NextIs DEF Replacing
<1>4. /\ r.type \in Types /\ r.first \in Nat /\ r.last \in Nat
      /\ 1 <= r.first /\ r.first <= r.last /\ r.last <= n /\ n \in Nat
    BY <1>2, <1>3, KeptType
<1>5. value \in Seq(Symbols)
    BY <1>0, <1>2, <1>3, CoveredType
<1>6. /\ tokenMap' \in Seq(Entries) /\ Minted(tokenMap')
      /\ code \in Types \X Nat
      /\ ToSet(tokenMap) \subseteq ToSet(tokenMap')
      /\ \E v \in ToSet(tokenMap') : v.token[1] = r.type /\ v.value = value /\ v.token = code
  <2> DEFINE map == tokenMap'
  <2>1. r.type \in Types /\ code = TokenFor(r.type, value)
      BY <1>0, <1>4
  <2>2. map = Noted(code, value)
      BY <1>1 DEF Noted
  <2> HIDE DEF map
  <2>3. NotedWell(map, r.type, value, code)
      BY <1>2, <1>5, <2>1, <2>2, TokenForIs
  <2> QED
      BY <2>3 DEF map, NotedWell
<1>7. KeptSpans' = KeptSpans /\ Done' = Done \cup {r} /\ r \notin Done
    BY <1>1, <1>3 DEF KeptSpans, Done
<1>8. \A q : Covered(q)' = Covered(q)
    BY <1>1 DEF Covered
<1>9. Spans(message)' = Spans(message)
    BY <1>1 DEF Spans
<1>10. RedactionTypes'
    BY <1>1, <1>2, <1>6, <1>9 DEF RedactionTypes
<1>11. \A q \in Done : q \in KeptSpans /\ r.last < q.first
    BY <1>2, <1>3 DEF Replacing, Done
<1>12. Replacing'
  <2>1. spans' \subseteq KeptSpans'
      BY <1>1, <1>3, <1>7
  <2>2. ASSUME NEW q \in Done' PROVE Entered(tokenMap', q.type, Covered(q)')
    <3>1. CASE q = r
        BY <1>0, <1>6, <1>8, <3>1 DEF Entered
    <3>2. CASE q \in Done
        BY <1>2, <1>6, <1>8, <3>2 DEF Replacing, Entered
    <3> QED
        BY <1>7, <3>1, <3>2
  <2>3. ASSUME NEW q \in Done', NEW p \in spans' PROVE p.last < q.first
    <3>1. p \in spans /\ p # r
        BY <1>1
    <3>2. CASE q = r
        BY <1>3, <3>1, <3>2
    <3>3. CASE q \in Done
        BY <1>2, <3>1, <3>3 DEF Replacing
    <3> QED
        BY <1>7, <3>2, <3>3
  <2> QED
      BY <2>1, <2>2, <2>3 DEF Replacing
<1>13. Answering'
  <2>1. NoMessage' = NoMessage
      BY DEF NoMessage
  <2>2. answer = NoMessage /\ shown = NoMessage
      BY <1>1 DEF RedactionInv, Answering, Sent
  <2> QED
      BY <1>1, <2>1, <2>2 DEF Answering
<1>14. TokenOf(r)' = code /\ \A q \in Done : TokenOf(q)' = TokenOf(q)
  <2>1. ASSUME NEW q \in KeptSpans, NEW v \in ToSet(tokenMap'),
               v.token[1] = q.type, v.value = Covered(q)
        PROVE  TokenOf(q)' = v.token
    <3>1. \A w \in ToSet(tokenMap') :
              w.token[1] = q.type /\ w.value = Covered(q) => w.token = v.token
        BY <1>6, <2>1 DEF Minted
    <3>2. TokenOf(q)' = (CHOOSE w \in ToSet(tokenMap') :
                            w.token[1] = q.type /\ w.value = Covered(q)).token
        BY <1>1 DEF TokenOf, Covered
    <3> QED
        BY <2>1, <3>1, <3>2
  <2>2. TokenOf(r)' = code
    <3>1. r \in KeptSpans /\ value = Covered(r)
        BY <1>0, <1>3
    <3>2. PICK v \in ToSet(tokenMap') : v.token[1] = r.type /\ v.value = value /\ v.token = code
        BY <1>6
    <3> QED
        BY <2>1, <3>1, <3>2
  <2>3. ASSUME NEW q \in Done PROVE TokenOf(q)' = TokenOf(q)
    <3>1. PICK v \in ToSet(tokenMap) : v.token[1] = q.type /\ v.value = Covered(q)
        BY <1>2 DEF Replacing, Entered
    <3>2. TokenOf(q) = v.token
        BY <1>2, <1>11, <3>1, TokenIs
    <3>3. TokenOf(q)' = v.token
        BY <1>6, <1>11, <2>1, <3>1
    <3> QED
        BY <3>2, <3>3
  <2> QED
      BY <2>2, <2>3
<1> DEFINE s == SentPieces
           t == SentPieces'
<1>15. /\ s \in Seq(Seq(Symbols)) /\ Len(s) = n
       /\ \A p \in 1..n : s[p] = SentAt(p)
    BY <1>2, SentType DEF Replacing
<1>16. /\ t \in Seq(Seq(Symbols)) /\ Len(t) = n
       /\ \A p \in 1..n : t[p] = SentAt(p)'
  <2>1. /\ t \in Seq(Seq(Symbols)) /\ Len(t) = Len(message')
        /\ \A p \in 1..Len(message') : t[p] = SentAt(p)'
      BY <1>10, <1>12, SentTypeNext DEF SentTyped
  <2> QED
      BY <1>1, <2>1
<1>17. \A p \in 1..r.last : SentAt(p) = <<message[p]>> /\ Len(s[p]) = 1
  <2> SUFFICES ASSUME NEW p \in 1..r.last PROVE SentAt(p) = <<message[p]>> /\ Len(s[p]) = 1
      OBVIOUS
  <2>1. p \in 1..n
      BY <1>4
  <2>2. \A q \in Done : ~Covers(q, p)
      BY <1>2, <1>4, <1>11, KeptType DEF Covers
  <2>3. SentAt(p) = <<message[p]>>
      BY <2>2 DEF SentAt
  <2> DEFINE x == message[p]
  <2>4. s[p] = <<x>>
      BY <1>15, <2>1, <2>3
  <2> HIDE DEF x, s
  <2>5. Len(s[p]) = 1
      BY <2>4
  <2> QED
      BY <2>3, <2>5
<1>18. ASSUME NEW p \in 1..n, p < r.first \/ p > r.last PROVE t[p] = s[p]
  <2>1. ~Covers(r, p) /\ p \in Nat
      BY <1>4, <1>18 DEF Covers
  <2>2. \A q : (q \in Done' /\ Covers(q, p)) <=> (q \in Done /\ Covers(q, p))
      BY <1>7, <2>1
  <2>3. CASE \E q \in Done : Covers(q, p)
    <3>1. PICK q \in Done : Covers(q, p)
        BY <2>3
    <3>2. \A o \in Done : Covers(o, p) => o = q
        BY <1>2, <1>11, <2>1, <3>1, KeptType
    <3>3. (CHOOSE o \in Done : Covers(o, p)) = q
        BY <3>1, <3>2
    <3>4. (CHOOSE o \in Done' : Covers(o, p)) = q
        BY <2>2, <3>1, <3>2
    <3>5. SentAt(p) = IF p # q.first THEN <<>> ELSE <<TokenOf(q)>>
        BY <3>1, <3>3 DEF SentAt
    <3>6. SentAt(p)' = IF p # q.first THEN <<>> ELSE <<TokenOf(q)'>>
      <4>1. \E o \in Done' : Covers(o, p)
          BY <2>2, <3>1
      <4>2. SentAt(p)' = IF p # (CHOOSE o \in Done' : Covers(o, p)).first THEN <<>>
                         ELSE <<TokenOf(CHOOSE o \in Done : Covers(o, p))'>>
          BY <4>1 DEF SentAt
      <4> QED
          BY <3>4, <4>2
    <3> QED
        BY <1>14, <1>15, <1>16, <3>1, <3>5, <3>6
  <2>4. CASE ~\E q \in Done : Covers(q, p)
    <3>1. SentAt(p) = <<message[p]>>
        BY <2>4 DEF SentAt
    <3>2. SentAt(p)' = <<message[p]>>
        BY <1>1, <2>2, <2>4 DEF SentAt
    <3> QED
        BY <1>15, <1>16, <3>1, <3>2
  <2> QED
      BY <2>3, <2>4
<1>19. ASSUME NEW p \in r.first..r.last
       PROVE  t[p] = IF p = r.first THEN <<code>> ELSE <<>>
  <2>1. p \in 1..n /\ Covers(r, p) /\ p \in Nat
      BY <1>4 DEF Covers
  <2>2. \A q \in Done : ~Covers(q, p)
      BY <1>2, <1>4, <1>11, KeptType DEF Covers
  <2>3. (CHOOSE q \in Done' : Covers(q, p)) = r /\ \E q \in Done' : Covers(q, p)
      BY <1>7, <2>1, <2>2
  <2>4. SentAt(p)' = IF p # (CHOOSE q \in Done' : Covers(q, p)).first THEN <<>>
                     ELSE <<TokenOf(CHOOSE q \in Done : Covers(q, p))'>>
      BY <2>3 DEF SentAt
  <2>5. SentAt(p)' = IF p # r.first THEN <<>> ELSE <<TokenOf(r)'>>
      BY <2>3, <2>4
  <2> QED
      BY <1>14, <1>16, <2>1, <2>5
<1>20. FlattenSeq(t) = Cut(FlattenSeq(s), r.first, r.last, code)
  <2> DEFINE a == r.first
             b == r.last
  <2>1. /\ a \in 1..Len(s) /\ b \in 1..Len(s) /\ a <= b
        /\ code \in Symbols /\ Len(t) = Len(s)
      BY <1>4, <1>6, <1>15, <1>16 DEF Symbols
  <2>2. /\ \A p \in 1..b : Len(s[p]) = 1
        /\ \A p \in 1..Len(s) : p < a \/ p > b => t[p] = s[p]
        /\ \A p \in a..b : t[p] = IF p = a THEN <<code>> ELSE <<>>
      BY <1>15, <1>17, <1>18, <1>19
  <2>3. s \in Seq(Seq(Symbols)) /\ t \in Seq(Seq(Symbols))
      BY <1>15, <1>16
  <2> HIDE DEF a, b, s, t
  <2>4. FlattenSeq(t) = Cut(FlattenSeq(s), a, b, code)
      BY <2>1, <2>2, <2>3, CutPieces
  <2> QED
      BY <2>4 DEF a, b
<1>21. tokenized' = FlattenSeq(SentPieces')
    BY <1>1, <1>20 DEF RedactionInv
<1> QED
    BY <1>10, <1>12, <1>13, <1>21 DEF RedactionInv

\* The answer is the message once or twice, and what is shown is made of it.
LEMMA AnswerStep ==
    ASSUME RedactionInv, Answer \/ Detokenize \/ UNCHANGED redactionVars PROVE RedactionInv'
<1>1. UNCHANGED <<message, results, spans, tokenized, tokenMap, role>>
    BY DEF Answer, Detokenize, redactionVars
<1>2. Spans(message)' = Spans(message)
    BY <1>1 DEF Spans
<1>3. RedactionTypes'
    BY <1>1, <1>2 DEF RedactionInv, RedactionTypes
<1>4. KeptSpans' = KeptSpans /\ Done' = Done /\ Sent' = Sent /\ NoMessage' = NoMessage
    BY <1>1 DEF KeptSpans, Done, Sent, NoMessage
<1>5. \A r : Covered(r)' = Covered(r)
    BY <1>1 DEF Covered
<1>6. Replacing'
    BY <1>1, <1>4, <1>5 DEF RedactionInv, Replacing
<1>7. \A r : TokenOf(r)' = TokenOf(r)
    BY <1>1, <1>5 DEF TokenOf
<1>8. SentPieces' = SentPieces
  <2>1. \A p : SentAt(p)' = SentAt(p)
      BY <1>1, <1>4, <1>7 DEF SentAt
  <2> QED
      BY <1>1, <2>1 DEF SentPieces
<1>9. \A s : ForRole(s)' = ForRole(s)
    BY <1>1 DEF ForRole
<1>10. Answering'
  <2>1. CASE Answer
    <3>1. /\ shown' = shown /\ shown = NoMessage /\ Sent
          /\ answer' \in {tokenized, tokenized \o tokenized}
        BY <2>1 DEF Answer, RedactionInv, Answering
    <3> QED
        BY <1>1, <1>4, <3>1 DEF Answering
  <2>2. CASE Detokenize
    <3>1. shown' = ForRole(answer) /\ answer' = answer /\ answer # NoMessage
        BY <2>2 DEF Detokenize
    <3> QED
        BY <1>1, <1>4, <1>9, <3>1 DEF RedactionInv, Answering
  <2>3. CASE UNCHANGED redactionVars
    <3>1. shown' = shown /\ answer' = answer
        BY <2>3 DEF redactionVars
    <3> QED
        BY <1>1, <1>4, <1>9, <3>1 DEF RedactionInv, Answering
  <2> QED
      BY <2>1, <2>2, <2>3
<1> QED
    BY <1>1, <1>3, <1>4, <1>6, <1>8, <1>10 DEF RedactionInv

\* What is shown of a piece is what the role should read there.
LEMMA ReadIsShown ==
    ASSUME RedactionInv, Sent, ~Nested, NEW p \in 1..Len(message)
    PROVE  ReadAt(p) = ForRole(SentAt(p))
<1>1. RedactionTypes /\ Replacing /\ Done = KeptSpans
    BY DEF RedactionInv, Sent, Done
<1>2. tokenMap \in Seq(Entries) /\ Minted(tokenMap) /\ message \in Seq(Symbols)
    BY <1>1 DEF RedactionTypes
<1>3. CASE \E q \in KeptSpans : Covers(q, p)
  <2> DEFINE r == CHOOSE q \in KeptSpans : Covers(q, p)
  <2>1. r \in KeptSpans
      BY <1>3
  <2>2. /\ SentAt(p) = IF p # r.first THEN <<>> ELSE <<TokenOf(r)>>
        /\ ReadAt(p) = IF p # r.first THEN <<>>
                       ELSE IF r.type \in role THEN Covered(r) ELSE <<TokenOf(r)>>
      BY <1>1, <1>3 DEF SentAt, ReadAt
  <2> HIDE DEF r
  <2>3. CASE p # r.first
    <3>1. <<>> \in Seq(Symbols) /\ \A i \in 1..Len(<<>>) : <<>>[i] \notin Types \X Nat
        OBVIOUS
    <3>2. ForRole(<<>>) = <<>>
        BY <1>2, <3>1, ForRoleSelf
    <3> QED
        BY <2>2, <2>3, <3>2
  <2>4. CASE p = r.first
    <3>1. PICK v \in ToSet(tokenMap) : v.token[1] = r.type /\ v.value = Covered(r)
        BY <1>1, <2>1 DEF Replacing, Entered
    <3> DEFINE x == TokenOf(r)
    <3>2. x = v.token
        BY <1>1, <2>1, <3>1, TokenIs
    <3>3. x \in Symbols
      <4>1. PICK i \in 1..Len(tokenMap) : v = tokenMap[i]
          BY <3>1 DEF ToSet
      <4> QED
          BY <1>2, <3>2, <4>1, EntryType
    <3> HIDE DEF x
    <3>4. ForRole(<<x>>) =
             IF \E w \in ToSet(tokenMap) : w.token = x /\ w.token[1] \in role
             THEN (CHOOSE w \in ToSet(tokenMap) : w.token = x).value
             ELSE <<x>>
        BY <1>2, <3>3, ForRoleOne
    <3>5. (CHOOSE w \in ToSet(tokenMap) : w.token = x).value = Covered(r)
      <4>1. \A w \in ToSet(tokenMap) : w.token = x => w.value = Covered(r)
          BY <1>2, <3>1, <3>2 DEF Minted
      <4> QED
          BY <3>1, <3>2, <4>1
    <3>6. (\E w \in ToSet(tokenMap) : w.token = x /\ w.token[1] \in role) <=> r.type \in role
        BY <3>1, <3>2
    <3>7. ForRole(<<x>>) = IF r.type \in role THEN Covered(r) ELSE <<x>>
        BY <3>4, <3>5, <3>6
    <3> QED
        BY <2>2, <2>4, <3>7 DEF x
  <2> QED
      BY <2>3, <2>4
<1>4. CASE ~\E q \in KeptSpans : Covers(q, p)
  <2> DEFINE x == message[p]
  <2>1. x \in Symbols
      BY <1>2
  <2>2. SentAt(p) = <<x>>
      BY <1>1, <1>4 DEF SentAt
  <2>3. ReadAt(p) = IF \E v \in ToSet(tokenMap) : v.token = x /\ v.token[1] \in role
                    THEN (CHOOSE v \in ToSet(tokenMap) : v.token = x).value
                    ELSE <<x>>
      BY <1>4 DEF ReadAt
  <2> HIDE DEF x
  <2>4. ForRole(<<x>>) =
           IF \E w \in ToSet(tokenMap) : w.token = x /\ w.token[1] \in role
           THEN (CHOOSE w \in ToSet(tokenMap) : w.token = x).value
           ELSE <<x>>
      BY <1>2, <2>1, ForRoleOne
  <2> QED
      BY <2>2, <2>3, <2>4
<1> QED
    BY <1>3, <1>4

\* Piece by piece, so is all of the answer.
LEMMA RedactionReads ==
    ASSUME RedactionInv PROVE ReadsAsWritten
<1> SUFFICES ASSUME shown # NoMessage, ~Nested
             PROVE  /\ shown \in {AsRead, AsRead \o AsRead}
                    /\ answer = tokenized => shown = AsRead
    BY DEF ReadsAsWritten
<1>1. /\ RedactionTypes /\ Replacing /\ Sent /\ tokenMap \in Seq(Entries)
      /\ answer \in {tokenized, tokenized \o tokenized} /\ shown = ForRole(answer)
      /\ tokenized = FlattenSeq(SentPieces)
    BY DEF RedactionInv, RedactionTypes, Answering, Sent
<1> DEFINE n == Len(message)
           s == SentPieces
           R(p) == ReadAt(p)
           t == [p \in 1..n |-> R(p)]
<1>2. /\ n \in Nat /\ s \in Seq(Seq(Symbols)) /\ Len(s) = n
      /\ \A p \in 1..n : s[p] = SentAt(p)
      /\ \A p \in 1..n : SentAt(p) \in Seq(Symbols)
    BY <1>1, KeptType, SentType DEF Replacing
<1>3. \A p \in 1..n : R(p) = ForRole(s[p])
    BY <1>1, <1>2, ReadIsShown
<1>4. \A p \in 1..n : R(p) \in Seq(Symbols)
    BY <1>1, <1>2, <1>3, ForRoleConcat
<1> HIDE DEF R
<1>5. t \in Seq(Seq(Symbols)) /\ Len(t) = n /\ \A p \in 1..n : t[p] = R(p)
    BY <1>2, <1>4
<1>6. AsRead = FlattenSeq(t)
    BY DEF AsRead, R
<1> HIDE DEF s, t
<1>7. ForRole(FlattenSeq(s)) = FlattenSeq(t)
    BY <1>1, <1>2, <1>3, <1>5, ForRoleFlatten
<1>8. tokenized \in Seq(Symbols)
    BY <1>1, <1>2, FlattenType DEF s
<1>9. ForRole(tokenized) = AsRead
    BY <1>1, <1>6, <1>7 DEF s
<1>10. ForRole(tokenized \o tokenized) = AsRead \o AsRead
    BY <1>1, <1>8, <1>9, ForRoleConcat
<1> QED
    BY <1>1, <1>9, <1>10

\* An answer that repeats the message reads as the message does, for every
\* message, every span the analyser may find in it and every role (tokenizer.py
\* and detokenizer.py).
THEOREM ReadingHolds == RedactionSpec => []ReadsAsWritten
<1>1. RedactionInit => RedactionInv
    BY RedactionStart
<1>2. RedactionInv /\ [RedactionNext]_redactionVars => RedactionInv'
    BY AnalyzeStep, ReplaceStep, AnswerStep DEF RedactionNext
<1>3. RedactionInv => ReadsAsWritten
    BY RedactionReads
<1> QED
    BY <1>1, <1>2, <1>3, PTL DEF RedactionSpec

-----------------------------------------------------------------------------
(* The rotation of secrets.                                                *)

\* The fields of the environment after a rotation or a drop.
LEMMA SigningRotated ==
    ASSUME NEW e \in Settings, NEW x \in Secrets, NEW P \in SUBSET Secrets
    PROVE  /\ [e EXCEPT !.jwt = x, !.jwtPrevious = P] \in Settings
           /\ [e EXCEPT !.jwt = x, !.jwtPrevious = P].jwt = x
           /\ [e EXCEPT !.jwt = x, !.jwtPrevious = P].jwtPrevious = P
           /\ [e EXCEPT !.jwt = x, !.jwtPrevious = P].encryption = e.encryption
           /\ [e EXCEPT !.jwt = x, !.jwtPrevious = P].encryptionPrevious = e.encryptionPrevious
  BY Zenon DEF Settings

LEMMA VaultRotated ==
    ASSUME NEW e \in Settings, NEW x \in Secrets, NEW P \in SUBSET Secrets
    PROVE  /\ [e EXCEPT !.encryption = x, !.encryptionPrevious = P] \in Settings
           /\ [e EXCEPT !.encryption = x, !.encryptionPrevious = P].jwt = e.jwt
           /\ [e EXCEPT !.encryption = x, !.encryptionPrevious = P].jwtPrevious = e.jwtPrevious
           /\ [e EXCEPT !.encryption = x, !.encryptionPrevious = P].encryption = x
           /\ [e EXCEPT !.encryption = x, !.encryptionPrevious = P].encryptionPrevious = P
  BY Zenon DEF Settings

LEMMA SigningDropped ==
    ASSUME NEW e \in Settings, NEW P \in SUBSET Secrets
    PROVE  /\ [e EXCEPT !.jwtPrevious = P] \in Settings
           /\ [e EXCEPT !.jwtPrevious = P].jwt = e.jwt
           /\ [e EXCEPT !.jwtPrevious = P].jwtPrevious = P
           /\ [e EXCEPT !.jwtPrevious = P].encryption = e.encryption
           /\ [e EXCEPT !.jwtPrevious = P].encryptionPrevious = e.encryptionPrevious
  BY Zenon DEF Settings

LEMMA VaultDropped ==
    ASSUME NEW e \in Settings, NEW P \in SUBSET Secrets
    PROVE  /\ [e EXCEPT !.encryptionPrevious = P] \in Settings
           /\ [e EXCEPT !.encryptionPrevious = P].jwt = e.jwt
           /\ [e EXCEPT !.encryptionPrevious = P].jwtPrevious = e.jwtPrevious
           /\ [e EXCEPT !.encryptionPrevious = P].encryption = e.encryption
           /\ [e EXCEPT !.encryptionPrevious = P].encryptionPrevious = P
  BY Zenon DEF Settings
-----------------------------------------------------------------------------
\* Type correctness.
THEOREM TypeCorrect == RotationSpec => []TypeOK
<1> USE TimesAssumption
<1>1. RotationInit => TypeOK
  <2> SUFFICES ASSUME RotationInit PROVE TypeOK
    OBVIOUS
  <2>1. env \in Settings
    BY DEF RotationInit
  <2>2. Nothing \in Value
    BY DEF Nothing, Value
  <2> QED BY <2>1, <2>2 DEF RotationInit, TypeOK
<1>2. TypeOK /\ [RotationNext]_rotationVars => TypeOK'
  <2> SUFFICES ASSUME TypeOK, [RotationNext]_rotationVars PROVE TypeOK'
    OBVIOUS
  <2> USE DEF TypeOK
  <2>1. CASE Elapse
    <3>1. clock' \in Nat
      BY <2>1 DEF Elapse
    <3>2. stored' \in [Kinds -> Value]
      BY <2>1 DEF Elapse, Nothing, Value
    <3> QED BY <2>1, <3>1, <3>2 DEF Elapse
  <2>2. CASE RotateSigning
    <3>1. generated + 1 \in Secrets
      BY <2>2 DEF RotateSigning, Generate, Secrets
    <3>2. env.jwtPrevious \cup {env.jwt} \in SUBSET Secrets
      BY DEF Settings
    <3>3. env' \in Settings
      BY <2>2, <3>1, <3>2, SigningRotated DEF RotateSigning
    <3> QED BY <2>2, <3>1, <3>3 DEF RotateSigning, Generate, Secrets
  <2>3. CASE RotateVault
    <3>1. generated + 1 \in Secrets
      BY <2>3 DEF RotateVault, Generate, Secrets
    <3>2. VaultKey(env) \in Secrets
      BY DEF Settings, VaultKey, Secrets
    <3>3. env.encryptionPrevious \cup {VaultKey(env)} \in SUBSET Secrets
      BY <3>2 DEF Settings
    <3>4. env' \in Settings
      BY <2>3, <3>1, <3>3, VaultRotated DEF RotateVault
    <3>5. hidden' \subseteq Secrets
      BY <2>3 DEF RotateVault, Settings
    <3> QED BY <2>3, <3>1, <3>4, <3>5 DEF RotateVault, Generate, Secrets
  <2>4. ASSUME NEW s \in Secrets, DropSigning(s) PROVE TypeOK'
    <3>1. env.jwtPrevious \ {s} \in SUBSET Secrets
      BY DEF Settings
    <3>2. env' \in Settings
      BY <2>4, <3>1, SigningDropped DEF DropSigning
    <3> QED BY <2>4, <3>2 DEF DropSigning
  <2>5. ASSUME NEW s \in Secrets, DropVault(s) PROVE TypeOK'
    <3>1. env.encryptionPrevious \ {s} \in SUBSET Secrets
      BY DEF Settings
    <3>2. env' \in Settings
      BY <2>5, <3>1, VaultDropped DEF DropVault
    <3> QED BY <2>5, <3>2 DEF DropVault
  <2>6. ASSUME NEW i \in Instances, Restart(i) PROVE TypeOK'
    BY <2>6 DEF Restart
  <2>7. ASSUME NEW i \in Instances, NEW t \in Tokens, Issue(i, t) PROVE TypeOK'
    <3>1. [secret |-> settings[i].jwt, dies |-> clock + TokenTTL] \in Value
      BY DEF Settings, Value
    <3> QED BY <2>7, <3>1 DEF Issue
  <2>8. ASSUME NEW t \in Tokens, Revoke(t) PROVE TypeOK'
    <3>1. clock + Remaining(t) \in Nat
      BY DEF Remaining, Value
    <3> QED BY <2>8, <3>1 DEF Revoke
  <2>9. ASSUME NEW i \in Instances, NEW k \in Kinds, Encrypt(i, k) PROVE TypeOK'
    <3>1. [secret |-> VaultKey(settings[i]), dies |-> clock + SessionTTL] \in Value
      BY DEF Settings, Value, VaultKey
    <3> QED BY <2>9, <3>1 DEF Encrypt
  <2>10. CASE UNCHANGED rotationVars
    BY <2>10 DEF rotationVars
  <2> QED BY <2>1, <2>2, <2>3, <2>4, <2>5, <2>6, <2>7, <2>8, <2>9, <2>10
          DEF RotationNext, Operator, Gateway, Configure, UpdateMap, Kinds
<1> QED BY <1>1, <1>2, PTL DEF RotationSpec
-----------------------------------------------------------------------------
\* A revoked token's denylist entry outlives the token.
Outlived(t) == Revoked(t) => token[t].dies <= denied[t]

\* A revoked token is accepted by no instance.
THEOREM RevocationHolds == RotationSpec => []RevokedStaysOut
<1>1. RotationInit => \A t \in Tokens : Outlived(t)
  BY DEF RotationInit, Outlived, Revoked
<1>2. TypeOK /\ (\A t \in Tokens : Outlived(t)) /\ [RotationNext]_rotationVars
        => (\A t \in Tokens : Outlived(t))'
  <2> SUFFICES ASSUME TypeOK, \A t \in Tokens : Outlived(t), [RotationNext]_rotationVars,
                      NEW u \in Tokens
               PROVE  Outlived(u)'
    OBVIOUS
  <2>1. ASSUME NEW i \in Instances, NEW t \in Tokens, Issue(i, t) PROVE Outlived(u)'
    BY <2>1 DEF Issue, Outlived, Revoked, TypeOK
  <2>2. ASSUME NEW t \in Tokens, Revoke(t) PROVE Outlived(u)'
    <3>1. token[t].dies <= clock + Remaining(t)
      BY DEF Remaining, TypeOK, Value
    <3> QED BY <2>2, <3>1 DEF Revoke, Outlived, Revoked, TypeOK
  <2>3. CASE UNCHANGED <<token, denied>>
    BY <2>3 DEF Outlived, Revoked
  <2> QED BY <2>1, <2>2, <2>3
          DEF RotationNext, Operator, Gateway, Elapse, RotateSigning, RotateVault, DropSigning,
              DropVault, Restart, Configure, UpdateMap, Encrypt, rotationVars
<1>3. TypeOK /\ (\A t \in Tokens : Outlived(t)) => RevokedStaysOut
  BY DEF TypeOK, Value, Outlived, RevokedStaysOut, Accepted, OnDenylist, Expired
<1> QED BY <1>1, <1>2, <1>3, TypeCorrect, PTL DEF RotationSpec
-----------------------------------------------------------------------------
(***************************************************************************)
(* The signing secrets.  Settings follow one another: what an older        *)
(* instance signs with, every younger one knows, and so does the           *)
(* environment.  A token in flight is signed with a secret that is still   *)
(* used, or that was used until no longer ago than the token may live; so  *)
(* its secret is not dropped, and only an older instance lacks it.         *)
(***************************************************************************)
SigningFleet ==
    /\ env.jwt <= generated
    /\ \A i \in Instances :
          settings[i].jwt <= env.jwt /\ settings[i].jwt \in SigningSecrets(env)
    /\ \A i, j \in Instances :
          settings[j].jwt <= settings[i].jwt
              => settings[j].jwt \in SigningSecrets(settings[i])

InFlight(t) ==
    ~Expired(t) =>
        /\ token[t].secret \in SigningSecrets(env)
        /\ token[t].dies <= clock + TokenTTL
        /\ \/ Used(token[t].secret, settings)
           \/ token[t].dies <= retired[token[t].secret] + TokenTTL
        /\ \A i \in Instances :
              \/ token[t].secret \in SigningSecrets(settings[i])
              \/ token[t].secret > settings[i].jwt

\* The steps that concern neither tokens nor signing secrets.
LEMMA Elsewhere ==
    ASSUME TypeOK, SigningFleet, \A t \in Tokens : InFlight(t),
           UNCHANGED <<clock, settings, retired, token>>,
           generated' >= generated, env'.jwt = env.jwt,
           env'.jwtPrevious = env.jwtPrevious, generated' \in Nat
    PROVE  SigningFleet' /\ \A t \in Tokens : InFlight(t)'
<1>1. env'.jwt <= generated'
  BY DEF SigningFleet, TypeOK, Settings, Secrets
<1>2. SigningSecrets(env') = SigningSecrets(env)
  BY DEF SigningSecrets
<1>3. SigningFleet'
  BY <1>1, <1>2 DEF SigningFleet
<1>4. \A t \in Tokens : InFlight(t)'
  BY <1>2 DEF InFlight, Expired
<1> QED BY <1>3, <1>4

\* The signing secrets of an instance are numbers.
LEMMA KeyNumbers ==
    ASSUME TypeOK
    PROVE  /\ env.jwt \in Nat /\ env.jwt \in Secrets
           /\ \A i \in Instances : settings[i].jwt \in Nat /\ settings[i].jwt \in Secrets
           /\ \A t \in Tokens : token[t].dies \in Nat /\ token[t].secret \in Nat
           /\ \A s \in Secrets : retired[s] \in Nat
  BY TimesAssumption DEF TypeOK, Settings, Secrets, Value

\* RotationInit and every step keep the two.
LEMMA SigningInit == RotationInit => SigningFleet /\ \A t \in Tokens : InFlight(t)
<1> SUFFICES ASSUME RotationInit PROVE SigningFleet /\ \A t \in Tokens : InFlight(t)
  OBVIOUS
<1>1. env.jwt = 1 /\ \A i \in Instances : settings[i] = env
  BY DEF RotationInit
<1>2. SigningFleet
  BY <1>1 DEF SigningFleet, SigningSecrets, RotationInit
<1>3. \A t \in Tokens : InFlight(t)
  BY DEF RotationInit, InFlight, Expired, Nothing
<1> QED BY <1>2, <1>3

LEMMA SigningStep ==
    ASSUME Grace >= TokenTTL, TypeOK, TypeOK', SigningFleet,
           \A t \in Tokens : InFlight(t), [RotationNext]_rotationVars
    PROVE  SigningFleet' /\ \A t \in Tokens : InFlight(t)'
<1> USE TimesAssumption
<1> DEFINE Kept == SigningFleet' /\ \A t \in Tokens : InFlight(t)'
<1>1. ASSUME Elapse PROVE Kept
  <2>1. SigningFleet'
    BY <1>1 DEF Elapse, SigningFleet
  <2>2. ASSUME NEW t \in Tokens PROVE InFlight(t)'
    BY <1>1, KeyNumbers DEF Elapse, InFlight, Expired, TypeOK
  <2> QED BY <2>1, <2>2
<1>2. ASSUME RotateSigning PROVE Kept
  <2>1. env'.jwt = generated + 1 /\ env'.jwtPrevious = env.jwtPrevious \cup {env.jwt}
    <3> DEFINE x == generated + 1
               P == env.jwtPrevious \cup {env.jwt}
    <3>1. x \in Secrets /\ P \in SUBSET Secrets /\ env \in Settings
      BY <1>2 DEF RotateSigning, Generate, TypeOK, Settings, Secrets
    <3>2. env' = [env EXCEPT !.jwt = x, !.jwtPrevious = P]
      BY <1>2 DEF RotateSigning
    <3> HIDE DEF x, P
    <3>3. env'.jwt = x /\ env'.jwtPrevious = P
      BY <3>1, <3>2, Zenon DEF Settings
    <3> QED BY <3>3 DEF x, P
  <2>2. SigningSecrets(env) \subseteq SigningSecrets(env')
    BY <2>1 DEF SigningSecrets
  <2>3. SigningFleet'
    BY <1>2, <2>1, <2>2, KeyNumbers DEF RotateSigning, Generate, SigningFleet, TypeOK
  <2>4. ASSUME NEW t \in Tokens PROVE InFlight(t)'
    BY <1>2, <2>2 DEF RotateSigning, InFlight, Expired
  <2> QED BY <2>3, <2>4
<1>3. ASSUME RotateVault PROVE Kept
  <2>1. env'.jwt = env.jwt /\ env'.jwtPrevious = env.jwtPrevious
    <3> DEFINE x == generated + 1
               P == env.encryptionPrevious \cup {VaultKey(env)}
    <3>1. x \in Secrets /\ P \in SUBSET Secrets /\ env \in Settings
      <4>1. VaultKey(env) \in Secrets
        BY DEF TypeOK, Settings, Secrets, VaultKey
      <4>2. x \in Secrets
        BY <1>3 DEF RotateVault, Generate, TypeOK, Secrets
      <4> QED BY <4>1, <4>2 DEF TypeOK, Settings
    <3>2. env' = [env EXCEPT !.encryption = x, !.encryptionPrevious = P]
      BY <1>3 DEF RotateVault
    <3> HIDE DEF x, P
    <3> QED BY <3>1, <3>2, Zenon DEF Settings
  <2> QED BY <1>3, <2>1, Elsewhere DEF RotateVault, Generate, TypeOK
<1>4. ASSUME NEW s \in Secrets, DropSigning(s) PROVE Kept
  <2>1. env'.jwt = env.jwt /\ env'.jwtPrevious = env.jwtPrevious \ {s}
    <3> DEFINE P == env.jwtPrevious \ {s}
    <3>1. P \in SUBSET Secrets /\ env \in Settings
      BY DEF TypeOK, Settings
    <3>2. env' = [env EXCEPT !.jwtPrevious = P]
      BY <1>4 DEF DropSigning
    <3> HIDE DEF P
    <3>3. env'.jwt = env.jwt /\ env'.jwtPrevious = P
      BY <3>1, <3>2, SigningDropped, Zenon
    <3> QED BY <3>3 DEF P
  <2>2. \A x \in SigningSecrets(env) : x # s => x \in SigningSecrets(env')
    BY <2>1 DEF SigningSecrets
  <2>3. \A i \in Instances : settings[i].jwt # s
    BY <1>4 DEF DropSigning, GraceOver, Used
  <2>4. SigningFleet'
    BY <1>4, <2>1, <2>2, <2>3 DEF DropSigning, SigningFleet
  <2>5. ASSUME NEW t \in Tokens PROVE InFlight(t)'
    <3>1. token[t].secret = s => Expired(t)
      BY <1>4, KeyNumbers DEF DropSigning, GraceOver, InFlight, Expired, TypeOK
    <3> QED BY <1>4, <2>2, <3>1 DEF DropSigning, InFlight, Expired
  <2> QED BY <2>4, <2>5
<1>5. ASSUME NEW s \in Secrets, DropVault(s) PROVE Kept
  <2>1. env'.jwt = env.jwt /\ env'.jwtPrevious = env.jwtPrevious
    <3> DEFINE P == env.encryptionPrevious \ {s}
    <3>1. P \in SUBSET Secrets /\ env \in Settings
      BY DEF TypeOK, Settings
    <3>2. env' = [env EXCEPT !.encryptionPrevious = P]
      BY <1>5 DEF DropVault
    <3> HIDE DEF P
    <3> QED BY <3>1, <3>2, VaultDropped, Zenon
  <2> QED BY <1>5, <2>1, Elsewhere DEF DropVault, TypeOK
<1>6. ASSUME NEW k \in Instances, Restart(k) PROVE Kept
  <2>1. settings'[k] = env /\ \A i \in Instances : i # k => settings'[i] = settings[i]
    BY <1>6 DEF Restart, TypeOK
  <2>2. SigningFleet'
    <3>1. \A i \in Instances :
             settings'[i].jwt <= env.jwt /\ settings'[i].jwt \in SigningSecrets(env)
      BY <2>1, KeyNumbers DEF SigningFleet, SigningSecrets
    <3>2. ASSUME NEW i \in Instances, NEW j \in Instances,
                 settings'[j].jwt <= settings'[i].jwt
          PROVE  settings'[j].jwt \in SigningSecrets(settings'[i])
      <4>1. CASE i = k
        BY <2>1, <3>1, <4>1
      <4>2. CASE i # k /\ j = k
        <5>1. settings'[j].jwt = settings'[i].jwt
          BY <2>1, <4>2, <3>1, <3>2, KeyNumbers
        <5> QED BY <5>1 DEF SigningSecrets
      <4>3. CASE i # k /\ j # k
        BY <2>1, <4>3, <3>2 DEF SigningFleet
      <4> QED BY <4>1, <4>2, <4>3
    <3> QED BY <1>6, <3>1, <3>2 DEF SigningFleet, Restart
  <2>3. ASSUME NEW t \in Tokens PROVE InFlight(t)'
    <3> SUFFICES ASSUME ~Expired(t) PROVE InFlight(t)'
      BY <1>6 DEF Restart, InFlight, Expired
    <3> DEFINE s == token[t].secret
    <3>1. s \in SigningSecrets(env) /\ token[t].dies <= clock + TokenTTL
      BY DEF InFlight
    <3>2. s \in Secrets
      BY <3>1 DEF SigningSecrets, TypeOK, Settings
    <3>3. Used(s, settings') \/ token[t].dies <= retired'[s] + TokenTTL
      <4>1. retired'[s] = IF Used(s, settings) /\ ~Used(s, settings') THEN clock ELSE retired[s]
        BY <1>6, <3>2 DEF Restart
      <4>2. Used(s, settings) \/ token[t].dies <= retired[s] + TokenTTL
        BY DEF InFlight
      <4> HIDE DEF s
      <4> QED BY <3>1, <4>1, <4>2
    <3>4. \A i \in Instances :
             s \in SigningSecrets(settings'[i]) \/ s > settings'[i].jwt
      BY <2>1, <3>1 DEF InFlight
    <3> QED BY <1>6, <3>1, <3>3, <3>4 DEF InFlight, Restart, Expired
  <2> QED BY <2>2, <2>3
<1>7. ASSUME NEW k \in Instances, NEW u \in Tokens, Issue(k, u) PROVE Kept
  <2>1. SigningFleet'
    BY <1>7 DEF Issue, SigningFleet
  <2>2. ASSUME NEW t \in Tokens PROVE InFlight(t)'
    <3>1. CASE t = u
      <4>1. token'[t].secret = settings[k].jwt /\ token'[t].dies = clock + TokenTTL
        BY <1>7, <3>1 DEF Issue, TypeOK
      <4>2. Used(settings[k].jwt, settings)
        BY DEF Used
      <4>3. \A i \in Instances :
               \/ settings[k].jwt \in SigningSecrets(settings[i])
               \/ settings[k].jwt > settings[i].jwt
        BY KeyNumbers DEF SigningFleet
      <4>4. settings[k].jwt \in SigningSecrets(env)
        BY DEF SigningFleet
      <4>5. UNCHANGED <<clock, env, settings, retired>> /\ clock \in Nat
        BY <1>7 DEF Issue, TypeOK
      <4> QED BY <4>1, <4>2, <4>3, <4>4, <4>5 DEF InFlight
    <3>2. CASE t # u
      BY <1>7, <3>2 DEF Issue, InFlight, Expired, TypeOK
    <3> QED BY <3>1, <3>2
  <2> QED BY <2>1, <2>2
<1>8. ASSUME UNCHANGED <<clock, env, settings, generated, retired, token>> PROVE Kept
  BY <1>8, Elsewhere DEF TypeOK
<1> QED BY <1>1, <1>2, <1>3, <1>4, <1>5, <1>6, <1>7, <1>8
        DEF RotationNext, Operator, Gateway, Revoke, Configure, UpdateMap, Encrypt, rotationVars

\* With a grace as long as a token's life, rotations refuse no token in
\* flight but at an instance that is older than its secret.
THEOREM GraceKeepsTokens ==
    ASSUME Grace >= TokenTTL
    PROVE  RotationSpec => []RefusedOnlyByOlder
<1>1. TypeOK /\ SigningFleet /\ (\A t \in Tokens : InFlight(t)) => RefusedOnlyByOlder
  BY DEF RefusedOnlyByOlder, InFlight, Accepted, Signed, Revoked, OnDenylist, TypeOK
<1>2. TypeOK /\ TypeOK' /\ SigningFleet /\ (\A t \in Tokens : InFlight(t)) /\ [RotationNext]_rotationVars
        => SigningFleet' /\ (\A t \in Tokens : InFlight(t))'
  BY SigningStep
<1> QED BY <1>1, <1>2, SigningInit, TypeCorrect, PTL DEF RotationSpec
-----------------------------------------------------------------------------
(***************************************************************************)
(* The vault, along the same line.  OwnKeys are the keys an instance may   *)
(* decrypt with by design: those of the vault, or as long as it has none   *)
(* the signing secrets.                                                    *)
(***************************************************************************)
OwnKeys(s) ==
    IF s.encryption = 0 THEN SigningSecrets(s)
    ELSE {s.encryption} \cup s.encryptionPrevious

Unsplit(s) == s.encryption = 0 => s.encryptionPrevious = {}

VaultFleet ==
    /\ VaultKey(env) <= generated
    /\ Unsplit(env)
    /\ \A i \in Instances :
          /\ Unsplit(settings[i])
          /\ VaultKey(settings[i]) <= VaultKey(env)
          /\ VaultKey(settings[i]) \in OwnKeys(env) \cup hidden
    /\ \A i, j \in Instances :
          VaultKey(settings[j]) <= VaultKey(settings[i])
              => VaultKey(settings[j]) \in OwnKeys(settings[i]) \cup hidden

AtRest(k) ==
    Alive(k) =>
        /\ stored[k].secret \in OwnKeys(env) \cup hidden
        /\ clock < stored[k].dies /\ stored[k].dies <= clock + SessionTTL
        /\ \/ Used(stored[k].secret, settings)
           \/ stored[k].dies <= retired[stored[k].secret] + SessionTTL
        /\ \A i \in Instances :
              \/ stored[k].secret \in OwnKeys(settings[i]) \cup hidden
              \/ stored[k].secret > VaultKey(settings[i])

LEMMA VaultNumbers ==
    ASSUME TypeOK
    PROVE  /\ VaultKey(env) \in Nat /\ VaultKey(env) \in Secrets
           /\ \A i \in Instances :
                 VaultKey(settings[i]) \in Nat /\ VaultKey(settings[i]) \in Secrets
           /\ \A k \in Kinds : stored[k].dies \in Nat /\ stored[k].secret \in Nat
           /\ \A s \in Secrets : retired[s] \in Nat
           /\ OwnKeys(env) \subseteq Secrets
  BY TimesAssumption
     DEF TypeOK, Settings, Secrets, Value, VaultKey, OwnKeys, SigningSecrets

LEMMA VaultInit == RotationInit => VaultFleet /\ \A k \in Kinds : AtRest(k)
<1> SUFFICES ASSUME RotationInit PROVE VaultFleet /\ \A k \in Kinds : AtRest(k)
  OBVIOUS
<1>1. /\ env.jwt = 1 /\ env.encryption \in {0, 2} /\ env.encryptionPrevious = {}
      /\ generated = 2 /\ \A i \in Instances : settings[i] = env
  BY DEF RotationInit
<1>2. VaultFleet
  BY <1>1 DEF VaultFleet, Unsplit, VaultKey, OwnKeys, SigningSecrets
<1>3. \A k \in Kinds : AtRest(k)
  BY DEF RotationInit, AtRest, Alive
<1> QED BY <1>2, <1>3

\* A new environment that may decrypt with all it could, or hides the rest,
\* and encrypts with a key that is not older.
LEMMA MoreKeys ==
    ASSUME TypeOK, TypeOK', VaultFleet, \A k \in Kinds : AtRest(k),
           UNCHANGED <<clock, settings, retired, stored>>,
           hidden \subseteq hidden', Unsplit(env'),
           VaultKey(env) <= VaultKey(env'), VaultKey(env') <= generated',
           OwnKeys(env) \subseteq OwnKeys(env') \cup hidden'
    PROVE  VaultFleet' /\ \A k \in Kinds : AtRest(k)'
<1>1. VaultKey(env') \in Nat /\ VaultKey(env) \in Nat
  BY TimesAssumption DEF TypeOK, Settings, Secrets, VaultKey
<1>2. VaultFleet'
  BY <1>1, VaultNumbers DEF VaultFleet
<1>3. \A k \in Kinds : AtRest(k)'
  BY DEF AtRest, Alive
<1> QED BY <1>2, <1>3

\* An environment without a secret that is out of use and past its grace.
LEMMA FewerKeys ==
    ASSUME Grace >= SessionTTL, TypeOK, VaultFleet, \A k \in Kinds : AtRest(k),
           NEW s \in Secrets, GraceOver(s),
           UNCHANGED <<clock, settings, generated, retired, stored, hidden>>,
           VaultKey(env') = VaultKey(env), Unsplit(env'),
           OwnKeys(env) \ {s} \subseteq OwnKeys(env')
    PROVE  VaultFleet' /\ \A k \in Kinds : AtRest(k)'
<1>1. \A i \in Instances : VaultKey(settings[i]) # s
  BY DEF GraceOver, Used
<1>2. VaultFleet'
  BY <1>1 DEF VaultFleet
<1>3. ASSUME NEW k \in Kinds PROVE AtRest(k)'
  <2>1. Alive(k) => stored[k].secret # s
    BY VaultNumbers, TimesAssumption DEF AtRest, GraceOver, TypeOK
  <2> QED BY <2>1 DEF AtRest, Alive
<1> QED BY <1>2, <1>3

LEMMA VaultStep ==
    ASSUME Grace >= SessionTTL, TypeOK, TypeOK', VaultFleet,
           \A k \in Kinds : AtRest(k), [RotationNext]_rotationVars
    PROVE  VaultFleet' /\ \A k \in Kinds : AtRest(k)'
<1> USE TimesAssumption
<1> DEFINE Kept == VaultFleet' /\ \A k \in Kinds : AtRest(k)'
<1>1. ASSUME Elapse PROVE Kept
  <2>1. VaultFleet'
    BY <1>1 DEF Elapse, VaultFleet
  <2>2. ASSUME NEW k \in Kinds PROVE AtRest(k)'
    <3>1. Alive(k)' => Alive(k) /\ stored'[k] = stored[k] /\ clock' < stored[k].dies
      BY <1>1 DEF Elapse, Alive
    <3> QED BY <1>1, <3>1, VaultNumbers DEF Elapse, AtRest, TypeOK
  <2> QED BY <2>1, <2>2
<1>2. ASSUME RotateSigning PROVE Kept
  <2>1. /\ env'.jwt = generated + 1 /\ env'.jwtPrevious = env.jwtPrevious \cup {env.jwt}
        /\ env'.encryption = env.encryption
        /\ env'.encryptionPrevious = env.encryptionPrevious
    <3> DEFINE x == generated + 1
               P == env.jwtPrevious \cup {env.jwt}
    <3>1. x \in Secrets /\ P \in SUBSET Secrets /\ env \in Settings
      BY <1>2 DEF RotateSigning, Generate, TypeOK, Settings, Secrets
    <3>2. env' = [env EXCEPT !.jwt = x, !.jwtPrevious = P]
      BY <1>2 DEF RotateSigning
    <3> HIDE DEF x, P
    <3>3. /\ env'.jwt = x /\ env'.jwtPrevious = P /\ env'.encryption = env.encryption
          /\ env'.encryptionPrevious = env.encryptionPrevious
      BY <3>1, <3>2, Zenon DEF Settings
    <3> QED BY <3>3 DEF x, P
  <2>2. VaultKey(env) <= VaultKey(env') /\ VaultKey(env') <= generated'
    BY <1>2, <2>1, VaultNumbers DEF RotateSigning, Generate, VaultKey, VaultFleet, TypeOK
  <2>3. OwnKeys(env) \subseteq OwnKeys(env') /\ Unsplit(env')
    BY <2>1 DEF OwnKeys, SigningSecrets, Unsplit, VaultFleet
  <2> QED BY <1>2, <2>2, <2>3, MoreKeys DEF RotateSigning
<1>3. ASSUME RotateVault PROVE Kept
  <2>1. VaultKey(env) \in Secrets
    BY VaultNumbers
  <2>2. /\ env'.encryption = generated + 1
        /\ env'.encryptionPrevious = env.encryptionPrevious \cup {VaultKey(env)}
    <3> DEFINE x == generated + 1
               P == env.encryptionPrevious \cup {VaultKey(env)}
    <3>1. x \in Secrets /\ P \in SUBSET Secrets /\ env \in Settings
      <4>1. x \in Secrets
        BY <1>3 DEF RotateVault, Generate, TypeOK, Secrets
      <4> QED BY <2>1, <4>1 DEF TypeOK, Settings
    <3>2. env' = [env EXCEPT !.encryption = x, !.encryptionPrevious = P]
      BY <1>3 DEF RotateVault
    <3> HIDE DEF x, P
    <3>3. env'.encryption = x /\ env'.encryptionPrevious = P
      BY <3>1, <3>2, Zenon DEF Settings
    <3> QED BY <3>3 DEF x, P
  <2>3. VaultKey(env) <= VaultKey(env') /\ VaultKey(env') <= generated'
    BY <1>3, <2>2, VaultNumbers DEF RotateVault, Generate, VaultKey, VaultFleet, TypeOK
  <2>4. OwnKeys(env) \subseteq OwnKeys(env') \cup hidden' /\ Unsplit(env')
    <3>1. CASE env.encryption = 0
      BY <1>3, <2>2, <3>1
         DEF RotateVault, OwnKeys, SigningSecrets, Unsplit, VaultKey, TypeOK
    <3>2. CASE env.encryption # 0
      BY <1>3, <2>2, <3>2 DEF RotateVault, OwnKeys, Unsplit, VaultKey, TypeOK
    <3> QED BY <3>1, <3>2
  <2>5. hidden \subseteq hidden'
    BY <1>3 DEF RotateVault
  <2> QED BY <1>3, <2>3, <2>4, <2>5, MoreKeys DEF RotateVault
<1>4. ASSUME NEW s \in Secrets, DropSigning(s) PROVE Kept
  <2>1. /\ env'.jwt = env.jwt /\ env'.jwtPrevious = env.jwtPrevious \ {s}
        /\ env'.encryption = env.encryption
        /\ env'.encryptionPrevious = env.encryptionPrevious
    <3> DEFINE P == env.jwtPrevious \ {s}
    <3>1. P \in SUBSET Secrets /\ env \in Settings
      BY DEF TypeOK, Settings
    <3>2. env' = [env EXCEPT !.jwtPrevious = P]
      BY <1>4 DEF DropSigning
    <3> HIDE DEF P
    <3>3. /\ env'.jwt = env.jwt /\ env'.jwtPrevious = P /\ env'.encryption = env.encryption
          /\ env'.encryptionPrevious = env.encryptionPrevious
      BY <3>1, <3>2, SigningDropped, Zenon
    <3> QED BY <3>3 DEF P
  <2>2. VaultKey(env') = VaultKey(env)
    BY <2>1 DEF VaultKey
  <2>3. OwnKeys(env) \ {s} \subseteq OwnKeys(env') /\ Unsplit(env')
    BY <2>1 DEF OwnKeys, SigningSecrets, Unsplit, VaultFleet
  <2> QED BY <1>4, <2>2, <2>3, FewerKeys DEF DropSigning
<1>5. ASSUME NEW s \in Secrets, DropVault(s) PROVE Kept
  <2>1. /\ env'.jwt = env.jwt /\ env'.jwtPrevious = env.jwtPrevious
        /\ env'.encryption = env.encryption
        /\ env'.encryptionPrevious = env.encryptionPrevious \ {s}
    <3> DEFINE P == env.encryptionPrevious \ {s}
    <3>1. P \in SUBSET Secrets /\ env \in Settings
      BY DEF TypeOK, Settings
    <3>2. env' = [env EXCEPT !.encryptionPrevious = P]
      BY <1>5 DEF DropVault
    <3> HIDE DEF P
    <3>3. /\ env'.jwt = env.jwt /\ env'.jwtPrevious = env.jwtPrevious
          /\ env'.encryption = env.encryption /\ env'.encryptionPrevious = P
      BY <3>1, <3>2, VaultDropped, Zenon
    <3> QED BY <3>3 DEF P
  <2>2. VaultKey(env') = VaultKey(env)
    BY <2>1 DEF VaultKey
  <2>3. OwnKeys(env) \ {s} \subseteq OwnKeys(env') /\ Unsplit(env')
    BY <2>1 DEF OwnKeys, SigningSecrets, Unsplit, VaultFleet
  <2> QED BY <1>5, <2>2, <2>3, FewerKeys DEF DropVault
<1>6. ASSUME NEW r \in Instances, Restart(r) PROVE Kept
  <2>1. settings'[r] = env /\ \A i \in Instances : i # r => settings'[i] = settings[i]
    BY <1>6 DEF Restart, TypeOK
  <2>2. UNCHANGED <<clock, env, generated, stored, hidden>>
    BY <1>6 DEF Restart
  <2>3. VaultKey(env) \in OwnKeys(env)
    BY DEF VaultKey, OwnKeys, SigningSecrets
  <2>4. VaultFleet'
    <3>1. \A i \in Instances :
             /\ Unsplit(settings'[i])
             /\ VaultKey(settings'[i]) <= VaultKey(env)
             /\ VaultKey(settings'[i]) \in OwnKeys(env) \cup hidden
      BY <2>1, <2>3, VaultNumbers DEF VaultFleet
    <3>2. ASSUME NEW i \in Instances, NEW j \in Instances,
                 VaultKey(settings'[j]) <= VaultKey(settings'[i])
          PROVE  VaultKey(settings'[j]) \in OwnKeys(settings'[i]) \cup hidden
      <4>1. CASE i = r
        BY <2>1, <3>1, <4>1
      <4>2. CASE i # r /\ j = r
        <5>1. VaultKey(settings'[j]) = VaultKey(settings[i])
          BY <2>1, <4>2, <3>1, <3>2, VaultNumbers
        <5>2. VaultKey(settings[i]) \in OwnKeys(settings[i]) \cup hidden
          BY VaultNumbers DEF VaultFleet
        <5> QED BY <2>1, <4>2, <5>1, <5>2
      <4>3. CASE i # r /\ j # r
        BY <2>1, <4>3, <3>2 DEF VaultFleet
      <4> QED BY <4>1, <4>2, <4>3
    <3> QED BY <2>2, <3>1, <3>2 DEF VaultFleet
  <2>5. ASSUME NEW k \in Kinds PROVE AtRest(k)'
    <3> SUFFICES ASSUME Alive(k) PROVE AtRest(k)'
      BY <2>2 DEF AtRest, Alive
    <3> DEFINE s == stored[k].secret
    <3>1. /\ s \in OwnKeys(env) \cup hidden
          /\ clock < stored[k].dies /\ stored[k].dies <= clock + SessionTTL
      BY DEF AtRest
    <3>2. s \in Secrets
      BY <3>1, VaultNumbers DEF TypeOK
    <3>3. Used(s, settings') \/ stored[k].dies <= retired'[s] + SessionTTL
      <4>1. retired'[s] = IF Used(s, settings) /\ ~Used(s, settings') THEN clock ELSE retired[s]
        BY <1>6, <3>2 DEF Restart
      <4>2. Used(s, settings) \/ stored[k].dies <= retired[s] + SessionTTL
        BY DEF AtRest
      <4> HIDE DEF s
      <4> QED BY <3>1, <4>1, <4>2
    <3>4. \A i \in Instances :
             s \in OwnKeys(settings'[i]) \cup hidden \/ s > VaultKey(settings'[i])
      BY <2>1, <3>1 DEF AtRest
    <3> QED BY <2>2, <3>1, <3>3, <3>4 DEF AtRest, Alive
  <2> QED BY <2>4, <2>5
<1>7. ASSUME NEW r \in Instances, NEW u \in Kinds, Encrypt(r, u) PROVE Kept
  <2>1. VaultFleet'
    BY <1>7 DEF Encrypt, VaultFleet
  <2>2. ASSUME NEW k \in Kinds PROVE AtRest(k)'
    <3>1. CASE k = u
      <4>1. stored'[k].secret = VaultKey(settings[r]) /\ stored'[k].dies = clock + SessionTTL
        BY <1>7, <3>1 DEF Encrypt, TypeOK
      <4>2. Used(VaultKey(settings[r]), settings)
        BY DEF Used
      <4>3. \A i \in Instances :
               \/ VaultKey(settings[r]) \in OwnKeys(settings[i]) \cup hidden
               \/ VaultKey(settings[r]) > VaultKey(settings[i])
        BY VaultNumbers DEF VaultFleet
      <4>4. VaultKey(settings[r]) \in OwnKeys(env) \cup hidden
        BY DEF VaultFleet
      <4>5. UNCHANGED <<clock, env, settings, retired, hidden>> /\ clock \in Nat
        BY <1>7 DEF Encrypt, TypeOK
      <4> QED BY <4>1, <4>2, <4>3, <4>4, <4>5 DEF AtRest
    <3>2. CASE k # u
      BY <1>7, <3>2 DEF Encrypt, AtRest, Alive, TypeOK
    <3> QED BY <3>1, <3>2
  <2> QED BY <2>1, <2>2
<1>8. ASSUME UNCHANGED <<clock, env, settings, generated, retired, stored, hidden>> PROVE Kept
  BY <1>8 DEF VaultFleet, AtRest, Alive
<1> QED BY <1>1, <1>2, <1>3, <1>4, <1>5, <1>6, <1>7, <1>8
        DEF RotationNext, Operator, Gateway, Issue, Revoke, Configure, UpdateMap, rotationVars, Kinds

\* With a grace as long as a session, rotations leave every value in the
\* vault readable, but to instances older than its key and but for the
\* secrets that the vault's first own key hides.
THEOREM GraceKeepsVault ==
    ASSUME Grace >= SessionTTL
    PROVE  RotationSpec => []UnreadableOnlyToOlder
<1>1. TypeOK /\ VaultFleet /\ (\A k \in Kinds : AtRest(k)) => UnreadableOnlyToOlder
  <2> SUFFICES ASSUME TypeOK, VaultFleet, \A k \in Kinds : AtRest(k)
               PROVE  UnreadableOnlyToOlder
    OBVIOUS
  <2>1. \A i \in Instances : OwnKeys(settings[i]) \subseteq VaultKeys(settings[i])
    BY DEF VaultFleet, Unsplit, OwnKeys, VaultKeys, VaultKey, SigningSecrets
  <2> QED BY <2>1 DEF UnreadableOnlyToOlder, AtRest, Readable
<1>2. TypeOK /\ TypeOK' /\ VaultFleet /\ (\A k \in Kinds : AtRest(k)) /\ [RotationNext]_rotationVars
        => VaultFleet' /\ (\A k \in Kinds : AtRest(k))'
  BY VaultStep
<1> QED BY <1>1, <1>2, VaultInit, TypeCorrect, PTL DEF RotationSpec
=============================================================================
