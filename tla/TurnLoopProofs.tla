--------------------------- MODULE TurnLoopProofs ---------------------------
(***************************************************************************)
(* Theorems about TurnLoop for any messages, bounds, group size and limits:  *)
(* what the provider is sent is valid whatever was interrupted, the steering *)
(* queue is a mailbox, and a call said to be interrupted never ran.          *)
(***************************************************************************)
EXTENDS TurnLoop, FiniteSetTheorems, SequenceTheorems, TLAPS

(* Loops over sequences.                                                    *)

\* Induction up to a number, on a set: were one of the numbers not in it, so would be
\* its predecessor, and the intervals up to such numbers are well-founded by inclusion.
LEMMA UpTo ==
  ASSUME NEW n \in Nat, NEW T, 0 \in T, \A k \in 0 .. (n - 1) : k \in T => k + 1 \in T
  PROVE  \A k \in 0 .. n : k \in T
<1>. SUFFICES ASSUME NEW m \in 0 .. n, m \notin T PROVE FALSE
  OBVIOUS
<1>. DEFINE D == {1 .. k : k \in {j \in 0 .. n : j \notin T}}
            R == StrictSubsetOrdering(Nat)
<1>1. D \subseteq FiniteSubsetsOf(Nat) /\ D # {}
  <2>1. \A k \in 0 .. n : IsFiniteSet(1 .. k) /\ 1 .. k \subseteq Nat
    BY FS_Interval
  <2>. QED
    BY <2>1 DEF FiniteSubsetsOf
<1>2. \E x \in D : \A y \in D : ~ (<<y, x>> \in R)
  <2>1. IsWellFoundedOn(R, FiniteSubsetsOf(Nat))
    BY FS_StrictSubsetOrderingWellFounded
  <2>. HIDE DEF D, R
  <2>. QED
    BY <1>1, <2>1, WFMin
<1>3. PICK k \in 0 .. n : k \notin T /\ \A j \in 0 .. n : j \notin T => ~ (<<1 .. j, 1 .. k>> \in R)
  BY <1>2
<1>4. k - 1 \in 0 .. (n - 1) /\ (k - 1) + 1 = k
  BY <1>3
<1>5. k - 1 \in 0 .. n /\ k - 1 \notin T
  BY <1>3, <1>4
<1>6. <<1 .. (k - 1), 1 .. k>> \in R
  <2>1. k \in 1 .. k /\ k \notin 1 .. (k - 1) /\ 1 .. (k - 1) \subseteq 1 .. k /\ 1 .. k \subseteq Nat
    BY <1>4
  <2>. QED
    BY <2>1 DEF StrictSubsetOrdering
<1>. QED
  BY <1>3, <1>5, <1>6

\* A loop that goes from state to state computes a state for every number of passes.
Looped(n, X, x, G, f) ==
  f \in [0 .. n -> X] /\ f[0] = x /\ \A k \in 1 .. n : f[k] = G[k][f[k - 1]]

LEMMA LoopExists ==
  ASSUME NEW n \in Nat, NEW X, NEW x \in X, NEW G \in [1 .. n -> [X -> X]]
  PROVE  \E f : Looped(n, X, x, G, f)
<1>. DEFINE T == {m \in 0 .. n : \E f : Looped(m, X, x, G, f)}
<1>1. 0 \in T
  <2>1. Looped(0, X, x, G, [k \in 0 .. 0 |-> x])
    BY DEF Looped
  <2>2. 0 \in 0 .. n
    OBVIOUS
  <2>. QED
    BY <2>1, <2>2
<1>2. ASSUME NEW m \in 0 .. (n - 1), m \in T PROVE m + 1 \in T
  <2>1. PICK f : Looped(m, X, x, G, f)
    BY <1>2
  <2>. DEFINE y == G[m + 1][f[m]]
              h == [k \in 0 .. (m + 1) |-> IF k = m + 1 THEN y ELSE f[k]]
  <2>2. y \in X
    <3>1. m + 1 \in 1 .. n /\ f[m] \in X
      BY <2>1 DEF Looped
    <3>. QED
      BY <3>1
  <2>3. h \in [0 .. (m + 1) -> X] /\ h[0] = x
    BY <2>1, <2>2 DEF Looped
  <2>4. \A k \in 0 .. m : h[k] = f[k]
    OBVIOUS
  <2>5. h[m + 1] = y
    OBVIOUS
  <2>. HIDE DEF h
  <2>6. ASSUME NEW k \in 1 .. (m + 1) PROVE h[k] = G[k][h[k - 1]]
    <3>1. CASE k = m + 1
      <4>1. k - 1 = m /\ h[m] = f[m]
        BY <2>4, <3>1
      <4>. QED
        BY <2>5, <3>1, <4>1
    <3>2. CASE k # m + 1
      <4>1. k \in 1 .. m /\ k - 1 \in 0 .. m /\ k \in 0 .. m
        BY <3>2
      <4>. QED
        BY <2>1, <2>4, <4>1 DEF Looped
    <3>. QED
      BY <3>1, <3>2
  <2>7. Looped(m + 1, X, x, G, h) /\ m + 1 \in 0 .. n
    BY <2>3, <2>6 DEF Looped
  <2>. QED
    BY <2>7
<1>3. n \in T
  <2>. HIDE DEF T
  <2>1. \A k \in 0 .. n : k \in T
    BY <1>1, <1>2, UpTo
  <2>. QED
    BY <2>1
<1>. QED
  BY <1>3

\* Among as a loop.
Only(s, S, f) ==
  /\ f[0] = <<>> /\ Among(s, S) = f[Len(s)]
  /\ \A k \in 1 .. Len(s) : f[k] = IF s[k] \in S THEN Append(f[k - 1], s[k]) ELSE f[k - 1]

LEMMA AmongLoop ==
  ASSUME NEW T, NEW s \in Seq(T), NEW S
  PROVE  \E f \in [0 .. Len(s) -> Seq(T)] : Only(s, S, f)
<1>. DEFINE n == Len(s)
            Nth(g, k) == IF k = 0 THEN <<>>
                         ELSE IF s[k] \in S THEN Append(g[k - 1], s[k]) ELSE g[k - 1]
            G == [k \in 1 .. n |-> [r \in Seq(T) |-> IF s[k] \in S THEN Append(r, s[k]) ELSE r]]
            Through(g) == g = [k \in 0 .. n |-> Nth(g, k)]
<1>1. n \in Nat /\ \A k \in 1 .. n : s[k] \in T
  OBVIOUS
<1>2. G \in [1 .. n -> [Seq(T) -> Seq(T)]]
  BY <1>1
<1>3. PICK f : Looped(n, Seq(T), <<>>, G, f)
  <2>1. <<>> \in Seq(T)
    OBVIOUS
  <2>. HIDE DEF G, n
  <2>. QED
    BY <1>1, <1>2, <2>1, LoopExists
<1>4. \A k \in 0 .. n : f[k] = Nth(f, k)
  <2>. SUFFICES ASSUME NEW k \in 0 .. n PROVE f[k] = Nth(f, k)
    OBVIOUS
  <2>1. CASE k = 0
    BY <1>3, <2>1 DEF Looped
  <2>2. CASE k # 0
    <3>1. k \in 1 .. n /\ f[k - 1] \in Seq(T)
      <4>1. k \in 1 .. n /\ k - 1 \in 0 .. n
        BY <1>1, <2>2
      <4>2. f \in [0 .. n -> Seq(T)]
        BY <1>3 DEF Looped
      <4>. QED
        BY ONLY <4>1, <4>2
    <3>2. f[k] = G[k][f[k - 1]]
      BY <1>3, <3>1 DEF Looped
    <3>. QED
      BY <2>2, <3>1, <3>2
  <2>. QED
    BY <2>1, <2>2
<1>5. Through(f)
  <2>. DEFINE g == [k \in 0 .. n |-> Nth(f, k)]
  <2>1. f = [k \in 0 .. n |-> f[k]]
    BY <1>3 DEF Looped
  <2>2. \A k \in 0 .. n : g[k] = f[k]
    <3>. HIDE DEF Nth
    <3>. QED
      BY <1>4
  <2>3. g = [k \in 0 .. n |-> g[k]]
    OBVIOUS
  <2>4. f = g
    <3>. HIDE DEF g
    <3>. QED
      BY <2>1, <2>2, <2>3
  <2>. QED
    BY <2>4
<1>. DEFINE only == CHOOSE g : Through(g)
<1>6. Through(only) /\ Among(s, S) = only[n]
  <2>1. Through(only)
    <3>. HIDE DEF Through
    <3>. QED
      BY <1>5
  <2>2. Among(s, S) = only[n]
    BY DEF Among
  <2>. QED
    BY <2>1, <2>2
<1>. HIDE DEF only
<1>7. \A k \in 0 .. n : only[k] = Nth(only, k)
  <2>. HIDE DEF Nth
  <2>. QED
    BY <1>6
<1>8. \A k \in 0 .. n : only[k] = f[k]
  <2>. DEFINE U == {k \in 0 .. n : only[k] = f[k]}
  <2>1. 0 \in U
    BY <1>1, <1>4, <1>7
  <2>2. ASSUME NEW k \in 0 .. (n - 1), k \in U PROVE k + 1 \in U
    <3>1. k + 1 \in 0 .. n /\ k + 1 # 0 /\ (k + 1) - 1 = k
      BY <1>1
    <3>2. only[k + 1] = Nth(only, k + 1) /\ f[k + 1] = Nth(f, k + 1)
      <4>. HIDE DEF Nth
      <4>. QED
        BY <1>4, <1>7, <3>1
    <3>. QED
      BY <2>2, <3>1, <3>2
  <2>. HIDE DEF U
  <2>3. \A k \in 0 .. n : k \in U
    BY <1>1, <2>1, <2>2, UpTo
  <2>. QED
    BY <2>3 DEF U
<1>9. Only(s, S, f)
  <2>1. Among(s, S) = f[n]
    BY <1>1, <1>6, <1>8
  <2>2. \A k \in 1 .. n : f[k] = IF s[k] \in S THEN Append(f[k - 1], s[k]) ELSE f[k - 1]
    <3>1. \A k \in 1 .. n : k \in 0 .. n /\ k # 0
      BY <1>1
    <3>. QED
      BY <1>4, <3>1
  <2>. QED
    BY <1>3, <2>1, <2>2 DEF Only, Looped
<1>. QED
  BY <1>3, <1>9 DEF Looped

LEMMA AmongAppend ==
  ASSUME NEW T, NEW s \in Seq(T), NEW e \in T, NEW S
  PROVE  Among(Append(s, e), S) = IF e \in S THEN Append(Among(s, S), e) ELSE Among(s, S)
<1>. DEFINE n == Len(s)
            t == Append(s, e)
<1>1. n \in Nat /\ t \in Seq(T) /\ Len(t) = n + 1 /\ t[n + 1] = e /\ \A k \in 1 .. n : t[k] = s[k]
  OBVIOUS
<1>2. PICK f \in [0 .. n -> Seq(T)] : Only(s, S, f)
  BY AmongLoop
<1>. HIDE DEF t
<1>3. PICK h \in [0 .. Len(t) -> Seq(T)] : Only(t, S, h)
  BY <1>1, AmongLoop
<1>. DEFINE U == {k \in 0 .. n : h[k] = f[k]}
<1>4. 0 \in U
  BY <1>1, <1>2, <1>3 DEF Only
<1>5. ASSUME NEW k \in 0 .. (n - 1), k \in U PROVE k + 1 \in U
  <2>1. k + 1 \in 1 .. n /\ k + 1 \in 1 .. Len(t) /\ (k + 1) - 1 = k /\ k + 1 \in 0 .. n
    BY <1>1
  <2>2. f[k + 1] = IF s[k + 1] \in S THEN Append(f[k], s[k + 1]) ELSE f[k]
    BY <1>2, <2>1 DEF Only
  <2>3. h[k + 1] = IF t[k + 1] \in S THEN Append(h[k], t[k + 1]) ELSE h[k]
    BY <1>3, <2>1 DEF Only
  <2>. QED
    BY <1>1, <1>5, <2>1, <2>2, <2>3
<1>6. h[n] = f[n]
  <2>. HIDE DEF U
  <2>1. \A k \in 0 .. n : k \in U
    BY <1>1, <1>4, <1>5, UpTo
  <2>2. n \in U
    BY <1>1, <2>1
  <2>. QED
    BY <2>2 DEF U
<1>7. h[n + 1] = IF e \in S THEN Append(h[n], e) ELSE h[n]
  <2>1. n + 1 \in 1 .. Len(t) /\ (n + 1) - 1 = n
    BY <1>1
  <2>. QED
    BY <1>1, <1>3, <2>1 DEF Only
<1>8. Among(t, S) = h[n + 1] /\ Among(s, S) = f[n]
  BY <1>1, <1>2, <1>3 DEF Only
<1>9. Among(t, S) = IF e \in S THEN Append(Among(s, S), e) ELSE Among(s, S)
  BY <1>6, <1>7, <1>8
<1>. QED
  BY <1>9 DEF t

LEMMA AmongType ==
  ASSUME NEW T, NEW s \in Seq(T), NEW S
  PROVE  Among(s, S) \in Seq(T)
<1>1. PICK f \in [0 .. Len(s) -> Seq(T)] : Only(s, S, f)
  BY AmongLoop
<1>2. Len(s) \in 0 .. Len(s)
  OBVIOUS
<1>. QED
  BY <1>1, <1>2 DEF Only

LEMMA AmongEmpty ==
  ASSUME NEW S
  PROVE  Among(<<>>, S) = <<>>
<1>1. <<>> \in Seq({}) /\ Len(<<>>) = 0
  OBVIOUS
<1>2. \E f \in [0 .. Len(<<>>) -> Seq({})] : Only(<<>>, S, f)
  BY <1>1, AmongLoop
<1>. QED
  BY <1>1, <1>2 DEF Only

\* Elements apart from S make no difference.
LEMMA AmongApart ==
  ASSUME NEW T, NEW s \in Seq(T), NEW t \in Seq(T), NEW S, \A k \in 1 .. Len(t) : t[k] \notin S
  PROVE  Among(s \o t, S) = Among(s, S)
<1>. DEFINE n == Len(t)
            Up(k) == s \o SubSeq(t, 1, k)
            U == {k \in 0 .. n : Among(Up(k), S) = Among(s, S)}
<1>1. n \in Nat
  OBVIOUS
<1>2. 0 \in U
  <2>1. SubSeq(t, 1, 0) = <<>>
    BY SubSeqEmpty
  <2>2. Up(0) = s
    BY <2>1, ConcatEmptySeq
  <2>. HIDE DEF Up
  <2>. QED
    BY <1>1, <2>2
<1>3. ASSUME NEW k \in 0 .. (n - 1), k \in U PROVE k + 1 \in U
  <2>1. k + 1 \in 1 .. n /\ k + 1 \in 0 .. n /\ t[k + 1] \in T /\ (k + 1) - 1 = k
    BY <1>1
  <2>2. SubSeq(t, 1, k) \in Seq(T) /\ Up(k) \in Seq(T)
    BY <1>1
  <2>3. Up(k + 1) = Append(Up(k), t[k + 1])
    <3>1. SubSeq(t, 1, k + 1) = SubSeq(t, 1, k) \o <<t[k + 1]>>
      BY <2>1, SubSeqRecursiveSecond
    <3>2. s \o (SubSeq(t, 1, k) \o <<t[k + 1]>>) = (s \o SubSeq(t, 1, k)) \o <<t[k + 1]>>
      BY <2>1, <2>2, ConcatAssociative
    <3>3. Append(Up(k), t[k + 1]) = Up(k) \o <<t[k + 1]>>
      BY <2>1, <2>2, AppendIsConcat
    <3>. QED
      BY <3>1, <3>2, <3>3
  <2>. HIDE DEF Up
  <2>4. Among(Up(k + 1), S) = Among(Up(k), S)
    <3>. DEFINE a == Up(k)
                e == t[k + 1]
    <3>1. a \in Seq(T) /\ e \in T /\ e \notin S
      BY <2>1, <2>2
    <3>. HIDE DEF a, e
    <3>2. Among(Append(a, e), S) = Among(a, S)
      BY <3>1, AmongAppend
    <3>. QED
      BY <2>3, <3>2 DEF a, e
  <2>. QED
    BY <1>3, <2>1, <2>4
<1>4. n \in U
  <2>. HIDE DEF U
  <2>1. \A k \in 0 .. n : k \in U
    BY <1>1, <1>2, <1>3, UpTo
  <2>. QED
    BY <1>1, <2>1
<1>5. Up(n) = s \o t
  OBVIOUS
<1>. HIDE DEF Up
<1>. QED
  BY <1>4, <1>5

\* What is left is of s and of S.
LEMMA AmongWithin ==
  ASSUME NEW T, NEW s \in Seq(T), NEW S
  PROVE  \A j \in 1 .. Len(Among(s, S)) :
           Among(s, S)[j] \in S /\ \E k \in 1 .. Len(s) : Among(s, S)[j] = s[k]
<1>. DEFINE n == Len(s)
            Fine(r) == \A j \in 1 .. Len(r) : r[j] \in S /\ \E k \in 1 .. n : r[j] = s[k]
<1>1. PICK f \in [0 .. n -> Seq(T)] : Only(s, S, f)
  BY AmongLoop
<1>. DEFINE U == {k \in 0 .. n : Fine(f[k])}
<1>2. n \in Nat
  OBVIOUS
<1>3. 0 \in U
  BY <1>1, <1>2 DEF Only
<1>4. ASSUME NEW k \in 0 .. (n - 1), k \in U PROVE k + 1 \in U
  <2>1. k + 1 \in 1 .. n /\ (k + 1) - 1 = k /\ k + 1 \in 0 .. n
    BY <1>2
  <2>2. f[k + 1] = IF s[k + 1] \in S THEN Append(f[k], s[k + 1]) ELSE f[k]
    BY <1>1, <2>1 DEF Only
  <2>3. f[k] \in Seq(T) /\ Fine(f[k]) /\ s[k + 1] \in T
    BY <1>4, <2>1
  <2>4. ASSUME NEW r \in Seq(T), Fine(r), s[k + 1] \in S PROVE Fine(Append(r, s[k + 1]))
    BY <2>1, <2>3, <2>4
  <2>5. Fine(f[k + 1])
    <3>. HIDE DEF Fine
    <3>. QED
      BY <2>2, <2>3, <2>4
  <2>. QED
    BY <2>1, <2>5
<1>5. n \in U
  <2>. HIDE DEF U
  <2>1. \A k \in 0 .. n : k \in U
    BY <1>2, <1>3, <1>4, UpTo
  <2>. QED
    BY <1>2, <2>1
<1>. QED
  BY <1>1, <1>5 DEF Only

\* FlattenSeq as a loop.
Flat(ss, f) ==
  /\ f[0] = <<>> /\ FlattenSeq(ss) = f[Len(ss)]
  /\ \A k \in 1 .. Len(ss) : f[k] = f[k - 1] \o ss[k]

LEMMA FlattenLoop ==
  ASSUME NEW T, NEW ss \in Seq(Seq(T))
  PROVE  \E f \in [0 .. Len(ss) -> Seq(T)] : Flat(ss, f)
<1>. DEFINE n == Len(ss)
            Nth(g, k) == IF k = 1 THEN ss[k] ELSE g[k - 1] \o ss[k]
            G == [k \in 1 .. n |-> [r \in Seq(T) |-> r \o ss[k]]]
            Through(g) == g = [k \in 1 .. n |-> Nth(g, k)]
<1>0. \A r \in Seq(T) : <<>> \o r = r
  BY ConcatEmptySeq
<1>1. n \in Nat /\ \A k \in 1 .. n : ss[k] \in Seq(T)
  OBVIOUS
<1>2. G \in [1 .. n -> [Seq(T) -> Seq(T)]]
  BY <1>1
<1>3. PICK f : Looped(n, Seq(T), <<>>, G, f)
  <2>1. <<>> \in Seq(T)
    OBVIOUS
  <2>. HIDE DEF G, n
  <2>. QED
    BY <1>1, <1>2, <2>1, LoopExists
<1>4. f \in [0 .. n -> Seq(T)] /\ f[0] = <<>>
  BY <1>3 DEF Looped
<1>5. \A k \in 1 .. n : f[k] = f[k - 1] \o ss[k]
  <2>. SUFFICES ASSUME NEW k \in 1 .. n PROVE f[k] = f[k - 1] \o ss[k]
    OBVIOUS
  <2>1. f[k - 1] \in Seq(T)
    <3>1. k - 1 \in 0 .. n
      BY <1>1
    <3>. QED
      BY ONLY <1>4, <3>1
  <2>2. f[k] = G[k][f[k - 1]]
    BY <1>3 DEF Looped
  <2>. QED
    BY <2>1, <2>2
<1>6. CASE n = 0
  <2>1. FlattenSeq(ss) = f[n]
    BY <1>4, <1>6 DEF FlattenSeq
  <2>. QED
    BY <1>4, <1>5, <2>1 DEF Flat
<1>7. CASE n # 0
  <2>. DEFINE h == [k \in 1 .. n |-> f[k]]
              flatten == CHOOSE g : Through(g)
  <2>1. \A k \in 1 .. n : h[k] = Nth(h, k)
    <3>. SUFFICES ASSUME NEW k \in 1 .. n PROVE h[k] = Nth(h, k)
      OBVIOUS
    <3>0. f[k] = f[k - 1] \o ss[k] /\ ss[k] \in Seq(T)
      BY <1>1, <1>5
    <3>1. CASE k = 1
      <4>0. k - 1 = 0
        BY <3>1
      <4>1. f[1] = f[0] \o ss[1] /\ ss[1] \in Seq(T)
        BY ONLY <3>0, <3>1, <4>0
      <4>2. <<>> \o ss[1] = ss[1]
        BY ONLY <1>0, <4>1
      <4>3. f[1] = ss[1]
        BY ONLY <1>4, <4>1, <4>2
      <4>. QED
        BY <3>1, <4>3
    <3>2. CASE k # 1
      <4>1. k - 1 \in 1 .. n
        BY <1>1, <3>2
      <4>. QED
        BY <1>5, <3>2, <4>1
    <3>. QED
      BY <3>1, <3>2
  <2>2. Through(h)
    <3>. DEFINE g == [k \in 1 .. n |-> Nth(h, k)]
    <3>1. h = [k \in 1 .. n |-> h[k]]
      OBVIOUS
    <3>2. \A k \in 1 .. n : g[k] = h[k]
      <4>. HIDE DEF Nth, h
      <4>. QED
        BY <2>1
    <3>3. g = [k \in 1 .. n |-> g[k]]
      OBVIOUS
    <3>4. h = g
      <4>. HIDE DEF g, h
      <4>. QED
        BY <3>1, <3>2, <3>3
    <3>. QED
      BY <3>4
  <2>3. Through(flatten)
    <3>. HIDE DEF Through, h
    <3>. QED
      BY <2>2
  <2>4. FlattenSeq(ss) = flatten[n]
    BY <1>7 DEF FlattenSeq
  <2>. HIDE DEF flatten
  <2>5. \A k \in 1 .. n : flatten[k] = Nth(flatten, k)
    <3>. HIDE DEF Nth
    <3>. QED
      BY <2>3
  <2>. DEFINE U == {k \in 0 .. n : k = 0 \/ flatten[k] = f[k]}
  <2>6. 0 \in U
    BY <1>1
  <2>7. ASSUME NEW k \in 0 .. (n - 1), k \in U PROVE k + 1 \in U
    <3>1. k + 1 \in 1 .. n /\ k + 1 \in 0 .. n /\ (k + 1) - 1 = k
      BY <1>1
    <3>2. flatten[k + 1] = Nth(flatten, k + 1)
      <4>. HIDE DEF Nth
      <4>. QED
        BY <2>5, <3>1
    <3>3. f[k + 1] = f[k] \o ss[k + 1] /\ ss[k + 1] \in Seq(T)
      BY <1>1, <1>5, <3>1
    <3>4. CASE k = 0
      <4>1. flatten[1] = ss[1]
        BY <3>2, <3>4
      <4>2. f[1] = f[0] \o ss[1] /\ ss[1] \in Seq(T)
        <5>1. k + 1 = 1
          BY <3>4
        <5>. QED
          BY ONLY <3>3, <3>4, <5>1
      <4>3. <<>> \o ss[1] = ss[1]
        BY ONLY <1>0, <4>2
      <4>4. f[1] = ss[1]
        BY ONLY <1>4, <4>2, <4>3
      <4>. QED
        BY <3>1, <3>4, <4>1, <4>4
    <3>5. CASE k # 0
      <4>1. flatten[k + 1] = flatten[k] \o ss[k + 1]
        <5>1. k + 1 # 1
          BY <1>1, <3>5
        <5>. QED
          BY <3>1, <3>2, <5>1
      <4>2. flatten[k] = f[k]
        BY <2>7, <3>5
      <4>3. flatten[k + 1] = f[k + 1]
        BY ONLY <3>3, <4>1, <4>2
      <4>. QED
        BY <3>1, <4>3
    <3>. QED
      BY <3>4, <3>5
  <2>8. n \in U
    <3>. HIDE DEF U
    <3>1. \A k \in 0 .. n : k \in U
      BY <1>1, <2>6, <2>7, UpTo
    <3>. QED
      BY <1>1, <3>1
  <2>9. FlattenSeq(ss) = f[n]
    BY <1>7, <2>4, <2>8
  <2>. QED
    BY <1>4, <1>5, <2>9 DEF Flat
<1>. QED
  BY <1>6, <1>7

LEMMA FlattenType ==
  ASSUME NEW T, NEW ss \in Seq(Seq(T))
  PROVE  FlattenSeq(ss) \in Seq(T)
<1>1. PICK f \in [0 .. Len(ss) -> Seq(T)] : Flat(ss, f)
  BY FlattenLoop
<1>2. Len(ss) \in 0 .. Len(ss)
  OBVIOUS
<1>. QED
  BY <1>1, <1>2 DEF Flat

-----------------------------------------------------------------------------
(* The opener of a group.                                                   *)

\* It is the entry that only results follow.
LEMMA OpenerIs ==
  ASSUME NEW s, NEW k \in Nat, NEW o \in 0 .. k, o = 0 \/ s[o].role # "tool",
         \A i \in (o + 1) .. k : s[i].role = "tool"
  PROVE  Opener(s, k) = o
<1>. DEFINE S == {0} \cup {i \in 1 .. k : s[i].role # "tool"}
<1>1. o \in S /\ \A y \in S : o >= y
  OBVIOUS
<1>2. S \subseteq Nat
  OBVIOUS
<1>. HIDE DEF S
<1>3. Max(S) \in S /\ \A y \in S : Max(S) >= y
  BY <1>1 DEF Max
<1>4. Max(S) = o
  <2>1. Max(S) >= o /\ o >= Max(S) /\ Max(S) \in Nat
    BY <1>1, <1>2, <1>3
  <2>. QED
    BY <2>1
<1>. QED
  BY <1>4 DEF Opener, S

\* Every position has one, be it the start.
LEMMA OpenerExists ==
  ASSUME NEW s, NEW k \in Nat
  PROVE  /\ Opener(s, k) \in 0 .. k
         /\ Opener(s, k) = 0 \/ s[Opener(s, k)].role # "tool"
         /\ \A i \in (Opener(s, k) + 1) .. k : s[i].role = "tool"
<1>. DEFINE Good(o, j) == /\ o \in 0 .. j /\ (o = 0 \/ s[o].role # "tool")
                          /\ \A i \in (o + 1) .. j : s[i].role = "tool"
            U == {j \in 0 .. k : \E o : Good(o, j)}
<1>1. 0 \in U
  <2>1. Good(0, 0)
    OBVIOUS
  <2>. HIDE DEF Good
  <2>. QED
    BY <2>1
<1>2. ASSUME NEW j \in 0 .. (k - 1), j \in U PROVE j + 1 \in U
  <2>1. PICK o : Good(o, j)
    BY <1>2
  <2>2. CASE s[j + 1].role = "tool"
    <3>1. Good(o, j + 1)
      BY <2>1, <2>2
    <3>. HIDE DEF Good
    <3>. QED
      BY <3>1
  <2>3. CASE s[j + 1].role # "tool"
    <3>1. Good(j + 1, j + 1)
      BY <2>3
    <3>. HIDE DEF Good
    <3>. QED
      BY <3>1
  <2>. QED
    BY <2>2, <2>3
<1>3. PICK o : Good(o, k)
  <2>. HIDE DEF U
  <2>1. \A j \in 0 .. k : j \in U
    BY <1>1, <1>2, UpTo
  <2>2. k \in U
    BY <2>1
  <2>. QED
    BY <2>2 DEF U
<1>4. Opener(s, k) = o
  BY <1>3, OpenerIs
<1>. QED
  BY <1>3, <1>4

-----------------------------------------------------------------------------
(* Types.                                                                   *)

Groups == 1 .. MaxGroups

\* What an entry has is told by its role.
LEMMA EntryKinds ==
  ASSUME NEW e \in Entry
  PROVE  /\ e.role \in {"user", "assistant", "steer", "calls", "tool"}
         /\ e.role = "calls" => e.group \in Groups
         /\ e.role = "tool" => e.group \in Groups /\ e.call \in Call
BY DEF Entry, User, Answer, Steer, Groups

LEMMA ResultEntry ==
  ASSUME NEW g \in Groups, NEW c \in Call,
         NEW body \in {"output", "repeated", "dropped", "interrupted"}
  PROVE  Result(g, c, body) \in Entry
BY DEF Result, Entry, Groups

\* Results are made up for the calls asked for, and no others.
LEMMA MadeUpType ==
  ASSUME NEW g, NEW C \in SUBSET Call
  PROVE  MadeUp(g, C) \in Seq({Interrupted(g, c) : c \in C})
<1>. DEFINE T == {Interrupted(g, c) : c \in Call}
            S == {Interrupted(g, c) : c \in C}
            s == [c \in Call |-> Interrupted(g, c)]
<1>1. s \in Seq(T)
  BY TurnAssumption DEF Call
<1>. HIDE DEF s, T, S
<1>2. Among(s, S) \in Seq(T) /\ \A j \in 1 .. Len(Among(s, S)) : Among(s, S)[j] \in S
  BY <1>1, AmongType, AmongWithin
<1>3. Among(s, S) \in Seq(S)
  <2>. DEFINE r == Among(s, S)
  <2>1. r \in Seq(T) /\ \A j \in 1 .. Len(r) : r[j] \in S
    BY <1>2
  <2>. HIDE DEF r
  <2>2. r \in Seq(S)
    BY <2>1
  <2>. QED
    BY <2>2 DEF r
<1>. QED
  BY <1>3 DEF MadeUp, s, S

\* A group that lacks results is one of the transcript.
LEMMA UnansweredGroup ==
  ASSUME NEW s \in Seq(Entry), NEW k \in 0 .. Len(s), Unanswered(s, Opener(s, k)) # {}
  PROVE  /\ Opener(s, k) \in 1 .. Len(s) /\ s[Opener(s, k)].role = "calls"
         /\ s[Opener(s, k)].group \in Groups
<1>. DEFINE o == Opener(s, k)
<1>1. o \in 0 .. k
  BY OpenerExists
<1>. HIDE DEF o
<1>2. o \in 1 .. Len(s) /\ s[o].role = "calls"
  BY <1>1 DEF Unanswered, o
<1>3. s[o] \in Entry
  BY <1>2
<1>. QED
  BY <1>2, <1>3, EntryKinds DEF o

LEMMA MadeUpEntries ==
  ASSUME NEW s \in Seq(Entry), NEW k \in 0 .. Len(s), Unanswered(s, Opener(s, k)) # {}
  PROVE  MadeUp(s[Opener(s, k)].group, Unanswered(s, Opener(s, k)))
           \in Seq({e \in Entry : e.role = "tool"})
<1>. DEFINE g == s[Opener(s, k)].group
            C == Unanswered(s, Opener(s, k))
            T == {e \in Entry : e.role = "tool"}
<1>1. g \in Groups
  BY UnansweredGroup
<1>2. C \in SUBSET Call
  BY DEF Unanswered
<1>. HIDE DEF g, C
<1>3. {Interrupted(g, c) : c \in C} \subseteq T
  <2>. SUFFICES ASSUME NEW c \in C PROVE Interrupted(g, c) \in T
    OBVIOUS
  <2>1. Interrupted(g, c) \in Entry
    BY <1>1, <1>2, ResultEntry DEF Interrupted
  <2>2. Interrupted(g, c).role = "tool"
    BY DEF Interrupted, Result
  <2>. QED
    BY <2>1, <2>2
<1>4. MadeUp(g, C) \in Seq({Interrupted(g, c) : c \in C})
  BY <1>2, MadeUpType
<1>. HIDE DEF T
<1>5. MadeUp(g, C) \in Seq(T)
  BY <1>3, <1>4, SeqMonotonic
<1>. QED
  BY <1>5 DEF g, C, T

LEMMA TrailingType ==
  ASSUME NEW s \in Seq(Entry)
  PROVE  TrailingUnanswered(s) \in Seq({e \in Entry : e.role = "tool"})
<1>. DEFINE T == {e \in Entry : e.role = "tool"}
<1>1. Len(s) \in 0 .. Len(s)
  OBVIOUS
<1>2. CASE Unanswered(s, Opener(s, Len(s))) = {}
  BY <1>2 DEF TrailingUnanswered
<1>3. CASE Unanswered(s, Opener(s, Len(s))) # {}
  BY <1>1, <1>3, MadeUpEntries DEF TrailingUnanswered
<1>. QED
  BY <1>2, <1>3

LEMMA RepairedType ==
  ASSUME NEW s \in Seq(Entry), NEW k \in 1 .. Len(s)
  PROVE  Repaired(s, k) \in Seq(Entry)
<1>. DEFINE a == IF Kept(s, k) THEN <<s[k]>> ELSE <<>>
            i == Opener(s, k)
            b == IF EndsGroup(s, k) /\ Unanswered(s, i) # {}
                 THEN MadeUp(s[i].group, Unanswered(s, i)) ELSE <<>>
<1>1. a \in Seq(Entry)
  OBVIOUS
<1>2. b \in Seq(Entry)
  <2>1. CASE Unanswered(s, i) # {}
    <3>1. k \in 0 .. Len(s) /\ {e \in Entry : e.role = "tool"} \subseteq Entry
      OBVIOUS
    <3>2. MadeUp(s[i].group, Unanswered(s, i)) \in Seq({e \in Entry : e.role = "tool"})
      BY <2>1, <3>1, MadeUpEntries
    <3>3. MadeUp(s[i].group, Unanswered(s, i)) \in Seq(Entry)
      BY <3>1, <3>2, SeqMonotonic
    <3>. HIDE DEF i
    <3>. QED
      BY <3>3
  <2>2. CASE Unanswered(s, i) = {}
    BY <2>2
  <2>. QED
    BY <2>1, <2>2
<1>3. Repaired(s, k) = a \o b
  BY DEF Repaired
<1>. HIDE DEF a, b
<1>. QED
  BY <1>1, <1>2, <1>3

LEMMA RepairedAll ==
  ASSUME NEW s \in Seq(Entry)
  PROVE  [k \in DOMAIN s |-> Repaired(s, k)] \in Seq(Seq(Entry))
BY RepairedType

LEMMA SanitizeType ==
  ASSUME NEW s \in Seq(Entry)
  PROVE  Sanitize(s) \in Seq(Entry)
BY RepairedAll, FlattenType DEF Sanitize

\* While a group is at work it is one of the transcript, in a turn begun, and the guard
\* counts no more of them than there were.
Busy == {"tools", "batch", "report", "sealing"}
Place == {"idle", "opening", "building", "model", "tools", "batch", "report", "sealing",
          "steering", "closing", "leftover"}
GroupRec == [id : 0 .. MaxGroups, next : 1 .. GroupSize + 1, todo : SUBSET Call]

LogType ==
  log \in Seq(Entry) /\ view \in Seq(Entry) /\ healing \in Seq({e \in Entry : e.role = "tool"})
TurnType ==
  /\ pc \in Place /\ cancelled \in BOOLEAN /\ parallel \in BOOLEAN /\ rounds \in 0 .. MaxTurns
  /\ pc # "idle" => chats >= 1
GuardType ==
  /\ guard \in [fp : Fingerprint \cup {"none"}, count : 0 .. MaxGroups] /\ guard.count <= groups
  /\ chats \in 0 .. MaxChats /\ groups \in 0 .. MaxGroups
GroupType ==
  /\ group \in GroupRec
  /\ pc \in Busy => group.id >= 1
  /\ pc \in {"batch", "report"} => group.next \in Call
SteerType ==
  /\ queue \in Seq(Message) /\ Len(queue) <= QueueCap
  /\ active \in BOOLEAN /\ (~active => queue = <<>>)
  /\ raw \in Seq(Message) /\ accepted \in Seq(Message) /\ cut \subseteq Message
HistoryType ==
  ran \subseteq Groups \X Call /\ lost \subseteq Groups /\ meddled \subseteq Groups

TypeInv ==
  LogType /\ TurnType /\ GuardType /\ GroupType /\ SteerType /\ HistoryType

LEMMA TypeInit == Init => TypeInv
<1>. SUFFICES ASSUME Init PROVE TypeInv
  OBVIOUS
<1>. USE TurnAssumption DEF Init
<1>1. LogType /\ HistoryType
  BY DEF LogType, HistoryType
<1>2. SteerType
  <2>1. <<>> \in Seq(Message) /\ Len(<<>>) = 0
    OBVIOUS
  <2>2. active \in BOOLEAN /\ ~active
    BY Zenon
  <2>3. queue = <<>> /\ raw = <<>> /\ accepted = <<>>
    OBVIOUS
  <2>4. 0 <= QueueCap
    OBVIOUS
  <2>5. cut \subseteq Message
    BY DEF Init
  <2>. QED
    BY ONLY <2>1, <2>2, <2>3, <2>4, <2>5 DEF SteerType
<1>3. TurnType
  <2>1. cancelled \in BOOLEAN /\ parallel \in BOOLEAN
    BY Zenon
  <2>2. pc = "idle" /\ rounds \in 0 .. MaxTurns
    OBVIOUS
  <2>. QED
    BY ONLY <2>1, <2>2 DEF TurnType, Place
<1>4. GuardType
  BY DEF GuardType
<1>5. GroupType
  BY DEF GroupType, GroupRec, Busy
<1>. QED
  BY <1>1, <1>2, <1>3, <1>4, <1>5 DEF TypeInv

LEMMA LogNext == TypeInv /\ [Next]_vars => LogType'
<1>. SUFFICES ASSUME TypeInv, [Next]_vars PROVE LogType'
  OBVIOUS
<1>. USE DEF TypeInv, LogType
<1>0. <<>> \in Seq(Entry) /\ \A q \in Seq(Entry) : \A e \in Entry : Append(q, e) \in Seq(Entry)
  OBVIOUS
<1>1. ASSUME NEW e \in Entry, log' \in {log, Append(log, e)},
             view' \in {view, Append(view, e), <<>>}, healing' = healing
      PROVE  LogType'
  <2>1. log' \in Seq(Entry)
    BY <1>0, <1>1
  <2>2. view' \in Seq(Entry)
    <3>. DEFINE nil == <<>>
    <3>1. view' = view \/ view' = Append(view, e) \/ view' = nil
      BY <1>1
    <3>2. nil \in Seq(Entry)
      OBVIOUS
    <3>. HIDE DEF nil
    <3>. QED
      BY <1>0, <3>1, <3>2
  <2>. QED
    BY <1>1, <2>1, <2>2
<1>2. CASE PersistUser
  <2>1. User \in Entry
    BY DEF Entry
  <2>. QED
    BY <1>1, <1>2, <2>1 DEF PersistUser
<1>3. CASE BuildMessages
  <2>1. PICK healed : healed = log \o TrailingUnanswered(log) /\ log' = healed /\ view' = Sanitize(healed)
    BY <1>3 DEF BuildMessages
  <2>2. TrailingUnanswered(log) \in Seq(Entry)
    <3>. DEFINE t == TrailingUnanswered(log)
    <3>1. {e \in Entry : e.role = "tool"} \subseteq Entry /\ t \in Seq({e \in Entry : e.role = "tool"})
      BY TrailingType
    <3>. HIDE DEF t
    <3>2. t \in Seq(Entry)
      BY <3>1, SeqMonotonic
    <3>. QED
      BY <3>2 DEF t
  <2>3. healed \in Seq(Entry)
    BY <2>1, <2>2
  <2>4. Sanitize(healed) \in Seq(Entry)
    BY <2>3, SanitizeType
  <2>. QED
    BY <1>3, <2>1, <2>3, <2>4 DEF BuildMessages
<1>4. CASE ModelAnswers
  <2>1. Answer \in Entry
    BY DEF Entry
  <2>. QED
    BY <1>1, <1>4, <2>1 DEF ModelAnswers
<1>5. ASSUME NEW f \in Fingerprint, ModelCalls(f) PROVE LogType'
  <2>1. pc = "model" /\ groups < MaxGroups
    BY <1>5 DEF ModelCalls
  <2>2. groups + 1 \in 1 .. MaxGroups /\ chats \in 1 .. MaxChats
    BY <2>1, TurnAssumption DEF GuardType, TurnType
  <2>3. \A p \in BOOLEAN : Calls(groups + 1, f, p) \in Entry
    BY <2>2 DEF Calls, Entry
  <2>4. \/ log' = log /\ view' = view
        \/ \E p \in BOOLEAN : /\ log' = Append(log, Calls(groups + 1, f, p))
                             /\ view' = Append(view, Calls(groups + 1, f, p))
    BY <1>5 DEF ModelCalls, Show
  <2>5. healing' = healing
    BY <1>5 DEF ModelCalls
  <2>6. ASSUME NEW e \in Entry, log' = Append(log, e), view' = Append(view, e) PROVE LogType'
    BY <1>1, <2>5, <2>6
  <2>7. CASE log' = log /\ view' = view
    BY <1>1, <2>5, <2>7
  <2>. QED
    BY <2>3, <2>4, <2>6, <2>7
<1>6. CASE Report
  <2>1. PICK body \in {"output", "repeated", "dropped"} :
          \/ UNCHANGED <<log, view>>
          \/ /\ log' = Append(log, Result(group.id, group.next, body))
             /\ view' = Append(view, Result(group.id, group.next, body))
    <3>. DEFINE b == IF <<group.id, group.next>> \in ran THEN "output"
                     ELSE IF Skip THEN "repeated" ELSE "dropped"
    <3>1. b \in {"output", "repeated", "dropped"}
      OBVIOUS
    <3>2. \/ UNCHANGED <<log, view>>
          \/ /\ log' = Append(log, Result(group.id, group.next, b))
             /\ view' = Append(view, Result(group.id, group.next, b))
      BY <1>6 DEF Report, Show
    <3>. HIDE DEF b
    <3>. QED
      BY <3>1, <3>2
  <2>2. pc = "report" /\ healing' = healing
    BY <1>6 DEF Report
  <2>3. group.id \in Groups /\ group.next \in Call
    BY <2>2, TurnAssumption DEF GroupType, GroupRec, Busy, Groups
  <2>4. Result(group.id, group.next, body) \in Entry
    BY <2>3, ResultEntry
  <2>. QED
    BY <1>1, <2>1, <2>2, <2>4
<1>7. CASE Seal
  <2>1. CASE log' = log
    BY <1>7, <2>1 DEF Seal
  <2>2. CASE log' # log
    <3>1. /\ group.next \in Call /\ log' = Append(log, Interrupted(group.id, group.next))
          /\ UNCHANGED <<view, healing>> /\ pc = "sealing"
      BY <1>7, <2>2 DEF Seal
    <3>2. group.id \in Groups
      BY <3>1, TurnAssumption DEF GroupType, GroupRec, Busy, Groups
    <3>3. Interrupted(group.id, group.next) \in Entry
      BY <3>1, <3>2, ResultEntry DEF Interrupted
    <3>. QED
      BY <1>1, <3>1, <3>3
  <2>. QED
    BY <2>1, <2>2
<1>8. CASE DrainSteering \/ PersistLeftover
  <2>1. healing' = healing /\ raw \in Seq(Message)
    BY <1>8 DEF DrainSteering, PersistLeftover, SteerType
  <2>2. CASE raw = <<>>
    <3>1. log' = log /\ (view' = view \/ view' = <<>>)
      <4>1. CASE DrainSteering
        BY <2>2, <4>1 DEF DrainSteering
      <4>2. CASE PersistLeftover
        BY <2>2, <4>2 DEF PersistLeftover
      <4>. QED
        BY <1>8, <4>1, <4>2
    <3>. QED
      BY <1>0, <2>1, <3>1
  <2>3. CASE raw # <<>>
    <3>. DEFINE e == Steer(Head(raw))
    <3>1. e \in Entry
      BY <2>1, <2>3, HeadTailProperties DEF Entry
    <3>2. log' \in {log, Append(log, e)} /\ view' \in {view, Append(view, e)}
      <4>1. CASE DrainSteering
        BY <2>3, <4>1 DEF DrainSteering, Show
      <4>2. CASE PersistLeftover
        BY <2>3, <4>2 DEF PersistLeftover
      <4>. QED
        BY <1>8, <4>1, <4>2
    <3>. HIDE DEF e
    <3>. QED
      BY <1>1, <2>1, <3>1, <3>2
  <2>. QED
    BY <2>2, <2>3
<1>10. CASE CompressReads
  <2>. DEFINE t == TrailingUnanswered(log)
  <2>1. t \in Seq({e \in Entry : e.role = "tool"})
    BY TrailingType
  <2>2. UNCHANGED <<log, view>> /\ healing' = t
    BY <1>10 DEF CompressReads
  <2>. HIDE DEF t
  <2>. QED
    BY <2>1, <2>2
<1>11. CASE CompressSeals
  <2>. DEFINE T == {e \in Entry : e.role = "tool"}
              e == Head(healing)
  <2>1. healing \in Seq(T) /\ healing # <<>> /\ T \subseteq Entry
    BY <1>11 DEF CompressSeals
  <2>2. log' = Append(log, e) /\ healing' = Tail(healing) /\ view' = view
    BY <1>11 DEF CompressSeals
  <2>. HIDE DEF T
  <2>3. e \in T /\ healing' \in Seq(T)
    BY <2>1, <2>2, HeadTailProperties
  <2>. HIDE DEF e
  <2>4. log' \in Seq(Entry)
    BY <1>0, <2>1, <2>2, <2>3
  <2>. QED
    BY <2>2, <2>3, <2>4 DEF T
<1>12. CASE Crash
  BY <1>12 DEF Crash
<1>13. CASE UNCHANGED vars
  BY <1>13 DEF vars
<1>14. CASE \/ BeginChat \/ ModelFails \/ BeginBatch \/ RunCall \/ GroupDone \/ EndTurn \/ Cancel
            \/ (\E i \in Call : BatchCall(i)) \/ \E m \in Message : Enqueue(m)
  BY <1>14 DEF BeginChat, ModelFails, BeginBatch, RunCall, GroupDone, EndTurn, Cancel, BatchCall, Enqueue
<1>. QED
  BY <1>2, <1>3, <1>4, <1>5, <1>6, <1>7, <1>8, <1>10, <1>11, <1>12, <1>13, <1>14 DEF Next, Step

\* Which steps touch what.
Touches ==
  /\ UNCHANGED <<guard, chats, groups>> \/ BeginChat \/ \E f \in Fingerprint : ModelCalls(f)
  /\ \/ UNCHANGED <<queue, active, raw, accepted, cut>>
     \/ BeginChat \/ GroupDone \/ DrainSteering \/ EndTurn \/ PersistLeftover \/ Crash
     \/ \E m \in Message : Enqueue(m)
  /\ \/ UNCHANGED <<ran, lost, meddled>>
     \/ (\E i \in Call : BatchCall(i)) \/ RunCall \/ Seal \/ Crash \/ CompressSeals
  /\ \/ UNCHANGED <<cancelled, parallel, rounds>>
     \/ BeginChat \/ Cancel \/ \E f \in Fingerprint : ModelCalls(f)

LEMMA StepsTouch == [Next]_vars => Touches
<1>. SUFFICES ASSUME [Next]_vars PROVE Touches
  OBVIOUS
<1>. USE DEF turnVars, steerVars, historyVars
<1>1. CASE UNCHANGED vars
  BY <1>1 DEF vars, Touches
<1>2. CASE BeginChat
  BY <1>2 DEF BeginChat, Touches
<1>3. CASE PersistUser \/ BuildMessages \/ ModelFails \/ ModelAnswers
  BY <1>3 DEF PersistUser, BuildMessages, ModelFails, ModelAnswers, Touches
<1>4. CASE \E f \in Fingerprint : ModelCalls(f)
  BY <1>4 DEF ModelCalls, Touches
<1>5. CASE BeginBatch \/ RunCall \/ \E i \in Call : BatchCall(i)
  BY <1>5 DEF BeginBatch, RunCall, BatchCall, Touches
<1>6. CASE Report \/ Seal
  BY <1>6 DEF Report, Seal, Touches
<1>7. CASE GroupDone \/ DrainSteering \/ EndTurn \/ PersistLeftover
  BY <1>7 DEF GroupDone, DrainSteering, EndTurn, PersistLeftover, Touches
<1>8. CASE Cancel \/ Crash \/ CompressReads \/ CompressSeals
  BY <1>8 DEF Cancel, Crash, CompressReads, CompressSeals, Touches
<1>9. CASE \E m \in Message : Enqueue(m)
  BY <1>9 DEF Enqueue, Touches
<1>. QED
  BY <1>1, <1>2, <1>3, <1>4, <1>5, <1>6, <1>7, <1>8, <1>9 DEF Next, Step

LEMMA TurnNext == TypeInv /\ [Next]_vars => TurnType'
<1>. SUFFICES ASSUME TypeInv, [Next]_vars PROVE TurnType'
  OBVIOUS
<1>. USE DEF TypeInv, TurnType
<1>1. Touches
  BY StepsTouch
<1>2. cancelled' \in BOOLEAN
  <2>1. cancelled \in BOOLEAN
    OBVIOUS
  <2>2. cancelled' = cancelled \/ cancelled' = TRUE \/ cancelled' = FALSE
    <3>1. CASE BeginChat
      BY <3>1, Zenon DEF BeginChat
    <3>2. CASE Cancel
      BY <3>2, Zenon DEF Cancel
    <3>3. CASE \E f \in Fingerprint : ModelCalls(f)
      BY <3>3 DEF ModelCalls
    <3>. QED
      BY <1>1, <3>1, <3>2, <3>3 DEF Touches
  <2>. QED
    BY ONLY <2>1, <2>2, Zenon
<1>3. parallel' \in BOOLEAN
  <2>1. parallel \in BOOLEAN
    OBVIOUS
  <2>2. parallel' = parallel \/ parallel' \in BOOLEAN
    <3>1. CASE BeginChat \/ Cancel
      BY <3>1 DEF BeginChat, Cancel, turnVars
    <3>3. CASE \E f \in Fingerprint : ModelCalls(f)
      BY <3>3 DEF ModelCalls
    <3>. QED
      BY <1>1, <3>1, <3>3 DEF Touches
  <2>. QED
    BY ONLY <2>1, <2>2, Zenon
<1>4. rounds' \in 0 .. MaxTurns
  <2>1. CASE BeginChat \/ Cancel
    BY <2>1, TurnAssumption DEF BeginChat, Cancel
  <2>2. CASE \E f \in Fingerprint : ModelCalls(f)
    BY <2>2, TurnAssumption DEF ModelCalls, TurnLimitReached
  <2>. QED
    BY <1>1, <2>1, <2>2 DEF Touches
<1>5. pc' \in Place
  <2>. USE DEF Place
  <2>1. CASE PersistUser \/ BuildMessages \/ ModelFails \/ ModelAnswers
    BY <2>1 DEF PersistUser, BuildMessages, ModelFails, ModelAnswers
  <2>2. CASE (\E f \in Fingerprint : ModelCalls(f)) \/ BeginChat
    BY <2>2 DEF ModelCalls, BeginChat
  <2>3. CASE BeginBatch \/ RunCall \/ \E i \in Call : BatchCall(i)
    BY <2>3 DEF BeginBatch, RunCall, BatchCall, ClosePending
  <2>4. CASE Report \/ Seal
    BY <2>4 DEF Report, Seal, ClosePending
  <2>5. CASE GroupDone \/ DrainSteering \/ EndTurn \/ PersistLeftover
    BY <2>5 DEF GroupDone, DrainSteering, EndTurn, PersistLeftover
  <2>6. CASE Cancel \/ Crash \/ CompressReads \/ CompressSeals \/ \E m \in Message : Enqueue(m)
    BY <2>6 DEF Cancel, Crash, CompressReads, CompressSeals, Enqueue, turnVars
  <2>7. CASE UNCHANGED vars
    BY <2>7 DEF vars, turnVars
  <2>. QED
    BY <2>1, <2>2, <2>3, <2>4, <2>5, <2>6, <2>7 DEF Next, Step
<1>6. pc' # "idle" => chats' >= 1
  <2>1. CASE BeginChat
    BY <2>1 DEF BeginChat, GuardType
  <2>2. CASE ~BeginChat
    <3>1. chats' = chats
      BY <1>1, <2>2 DEF Touches, ModelCalls
    <3>2. pc = "idle" => pc' = "idle"
      <4>. SUFFICES ASSUME pc = "idle" PROVE pc' = "idle"
        OBVIOUS
      <4>1. CASE Step
        BY <4>1 DEF Step, PersistUser, BuildMessages, ModelFails, ModelAnswers, ModelCalls, BeginBatch,
                    RunCall, BatchCall, Report, Seal, GroupDone, DrainSteering, EndTurn, PersistLeftover
      <4>2. CASE Cancel \/ Crash
        BY <4>2 DEF Cancel, Crash, Idle
      <4>3. CASE CompressReads \/ CompressSeals \/ UNCHANGED vars \/ \E m \in Message : Enqueue(m)
        BY <4>3 DEF CompressReads, CompressSeals, Enqueue, vars, turnVars
      <4>. QED
        BY <2>2, <4>1, <4>2, <4>3 DEF Next
    <3>. QED
      BY <3>1, <3>2
  <2>. QED
    BY <2>1, <2>2
<1>. QED
  BY <1>2, <1>3, <1>4, <1>5, <1>6

LEMMA GuardNext == TypeInv /\ [Next]_vars => GuardType'
<1>. SUFFICES ASSUME TypeInv, [Next]_vars PROVE GuardType'
  OBVIOUS
<1>. USE TurnAssumption DEF TypeInv, GuardType
<1>1. CASE BeginChat
  BY <1>1 DEF BeginChat
<1>2. ASSUME NEW f \in Fingerprint, ModelCalls(f) PROVE GuardType'
  <2>1. groups' = groups + 1 /\ chats' = chats /\ groups < MaxGroups /\ guard' = Observe(f)
    BY <1>2 DEF ModelCalls
  <2>2. guard' \in [fp : Fingerprint \cup {"none"}, count : 0 .. MaxGroups] /\ guard'.count <= groups + 1
    BY <2>1 DEF Observe
  <2>. QED
    BY <2>1, <2>2
<1>3. CASE UNCHANGED <<guard, chats, groups>>
  BY <1>3
<1>. QED
  BY <1>1, <1>2, <1>3, StepsTouch DEF Touches

LEMMA GroupNext == TypeInv /\ [Next]_vars => GroupType'
<1>. SUFFICES ASSUME TypeInv, [Next]_vars PROVE GroupType'
  OBVIOUS
<1>. USE TurnAssumption DEF TypeInv, GroupType, GroupRec, Busy, Call
<1>1. CASE PersistUser \/ BuildMessages \/ ModelFails \/ ModelAnswers \/ BeginChat
  BY <1>1 DEF PersistUser, BuildMessages, ModelFails, ModelAnswers, BeginChat
<1>2. CASE \E f \in Fingerprint : ModelCalls(f)
  BY <1>2 DEF ModelCalls, GuardType
<1>3. CASE BeginBatch
  BY <1>3 DEF BeginBatch, ClosePending
<1>4. CASE RunCall
  <2>1. group \in GroupRec /\ group.id >= 1 /\ group.next \in Call
    BY <1>4 DEF RunCall
  <2>2. group' \in {group, [group EXCEPT !.next = group.next]} /\ pc' \in {"sealing", "report"}
    BY <1>4 DEF RunCall, ClosePending
  <2>3. group' \in GroupRec /\ group'.id = group.id /\ group'.next = group.next
    BY ONLY <2>1, <2>2, TurnAssumption DEF GroupRec, Call
  <2>. QED
    BY ONLY <2>1, <2>2, <2>3 DEF GroupType
<1>5. ASSUME NEW i \in Call, BatchCall(i) PROVE GroupType'
  <2>1. group \in GroupRec /\ group.id >= 1 /\ group.next \in Call
    BY <1>5 DEF BatchCall
  <2>2. group' = [group EXCEPT !.todo = group.todo \ {i}] /\ pc' \in {"batch", "report"}
    BY <1>5 DEF BatchCall
  <2>3. group' \in GroupRec /\ group'.id = group.id /\ group'.next = group.next
    BY ONLY <2>1, <2>2 DEF GroupRec
  <2>. QED
    BY ONLY <2>1, <2>2, <2>3 DEF GroupType
<1>6. CASE Report
  <2>1. group \in GroupRec /\ group.id >= 1 /\ group.next \in Call /\ GroupSize \in Nat
    BY <1>6 DEF Report
  <2>2. \/ group' = [group EXCEPT !.next = group.next] /\ pc' = "sealing"
        \/ /\ group' = [group EXCEPT !.next = group.next + 1]
           /\ pc' = IF parallel /\ group.next < GroupSize THEN "report" ELSE "tools"
    BY ONLY <1>6 DEF Report, ClosePending
  <2>3. CASE group' = [group EXCEPT !.next = group.next] /\ pc' = "sealing"
    BY ONLY <2>1, <2>3 DEF GroupType, GroupRec, Call
  <2>4. CASE /\ group' = [group EXCEPT !.next = group.next + 1]
             /\ pc' = IF parallel /\ group.next < GroupSize THEN "report" ELSE "tools"
    <3>1. group' \in GroupRec /\ group'.id = group.id /\ group'.next = group.next + 1
      BY ONLY <2>1, <2>4 DEF GroupRec, Call
    <3>2. pc' = "tools" \/ (pc' = "report" /\ group.next < GroupSize)
      BY ONLY <2>4
    <3>3. pc' = "report" => group.next + 1 \in Call
      BY ONLY <2>1, <3>2 DEF Call
    <3>. QED
      BY ONLY <2>1, <3>1, <3>2, <3>3 DEF GroupType
  <2>. QED
    BY ONLY <2>2, <2>3, <2>4
<1>7. CASE Seal
  <2>1. group \in GroupRec /\ group.id >= 1 /\ GroupSize \in Nat
    BY <1>7 DEF Seal
  <2>2. /\ group' = group \/ (group.next \in Call /\ group' = [group EXCEPT !.next = group.next + 1])
        /\ pc' \in {"sealing", "closing"}
    BY ONLY <1>7 DEF Seal
  <2>3. group' \in GroupRec /\ group'.id = group.id
    BY ONLY <2>1, <2>2 DEF GroupRec, Call
  <2>. QED
    BY ONLY <2>1, <2>2, <2>3 DEF GroupType
<1>8. CASE GroupDone \/ DrainSteering \/ EndTurn \/ PersistLeftover
  BY <1>8 DEF GroupDone, DrainSteering, EndTurn, PersistLeftover
<1>9. CASE Cancel \/ Crash \/ CompressReads \/ CompressSeals \/ \E m \in Message : Enqueue(m)
  BY <1>9 DEF Cancel, Crash, CompressReads, CompressSeals, Enqueue, turnVars
<1>10. CASE UNCHANGED vars
  BY <1>10 DEF vars, turnVars
<1>. QED
  BY <1>1, <1>2, <1>3, <1>4, <1>5, <1>6, <1>7, <1>8, <1>9, <1>10 DEF Next, Step

LEMMA SteerNext == TypeInv /\ [Next]_vars => SteerType'
<1>. SUFFICES ASSUME TypeInv, [Next]_vars PROVE SteerType'
  OBVIOUS
<1>. USE TurnAssumption DEF TypeInv, SteerType
<1>0. <<>> \in Seq(Message) /\ Len(<<>>) = 0
  OBVIOUS
<1>1. /\ queue' \in Seq(Message) /\ Len(queue') <= QueueCap
      /\ raw' \in Seq(Message) /\ accepted' \in Seq(Message)
  <2>1. CASE BeginChat
    BY <2>1 DEF BeginChat
  <2>2. CASE GroupDone
    <3>1. accepted' = accepted
      BY <2>2 DEF GroupDone
    <3>2. UNCHANGED <<queue, raw>> \/ (raw' = queue /\ queue' = <<>>)
      BY ONLY <2>2 DEF GroupDone
    <3>3. /\ queue \in Seq(Message) /\ Len(queue) <= QueueCap /\ 0 <= QueueCap
          /\ raw \in Seq(Message) /\ accepted \in Seq(Message)
      OBVIOUS
    <3>4. CASE UNCHANGED <<queue, raw>>
      BY ONLY <3>1, <3>3, <3>4
    <3>5. CASE raw' = queue /\ queue' = <<>>
      BY ONLY <1>0, <3>1, <3>3, <3>5
    <3>. QED
      BY ONLY <3>2, <3>4, <3>5
  <2>3. CASE DrainSteering
    BY <1>0, <2>3, HeadTailProperties DEF DrainSteering
  <2>4. CASE EndTurn
    BY <1>0, <2>4 DEF EndTurn, Undelivered
  <2>5. CASE PersistLeftover
    BY <1>0, <2>5, HeadTailProperties DEF PersistLeftover
  <2>6. CASE Crash
    BY <1>0, <2>6, AmongType DEF Crash
  <2>7. ASSUME NEW m \in Message, Enqueue(m) PROVE <1>1!:
    BY <2>7 DEF Enqueue, QueueHasRoom
  <2>. QED
    BY <2>1, <2>2, <2>3, <2>4, <2>5, <2>6, <2>7, StepsTouch DEF Touches
<1>4. cut' \subseteq Message
  <2>1. CASE DrainSteering
    <3>1. ToSet(raw) \subseteq Message
      BY DEF ToSet
    <3>2. ASSUME raw # <<>> PROVE ToSet(Tail(raw)) \subseteq Message
      <4>1. Tail(raw) \in Seq(Message)
        BY <3>2, HeadTailProperties
      <4>. QED
        BY <4>1 DEF ToSet
    <3>3. \/ cut' = cut
          \/ cut' = cut \cup ToSet(raw)
          \/ raw # <<>> /\ cut' = cut \cup ToSet(Tail(raw))
      BY <2>1 DEF DrainSteering
    <3>. QED
      BY <3>1, <3>2, <3>3
  <2>2. CASE GroupDone \/ EndTurn \/ PersistLeftover \/ Crash \/ BeginChat \/ \E m \in Message : Enqueue(m)
    BY <2>2 DEF GroupDone, EndTurn, PersistLeftover, Crash, BeginChat, Enqueue
  <2>. QED
    BY <2>1, <2>2, StepsTouch DEF Touches
<1>2. active' \in BOOLEAN
  <2>1. active \in BOOLEAN
    OBVIOUS
  <2>2. active' = active \/ active' = TRUE \/ active' = FALSE
    <3>1. CASE BeginChat
      BY <3>1, Zenon DEF BeginChat
    <3>2. CASE EndTurn
      BY <3>2, Zenon DEF EndTurn
    <3>3. CASE Crash
      BY <3>3, Zenon DEF Crash
    <3>4. CASE GroupDone \/ DrainSteering \/ PersistLeftover \/ \E m \in Message : Enqueue(m)
      BY <3>4 DEF GroupDone, DrainSteering, PersistLeftover, Enqueue
    <3>. QED
      BY <3>1, <3>2, <3>3, <3>4, StepsTouch DEF Touches
  <2>. QED
    BY ONLY <2>1, <2>2, Zenon
<1>3. ~active' => queue' = <<>>
  <2>1. CASE BeginChat
    BY <2>1, Zenon DEF BeginChat
  <2>2. CASE GroupDone \/ EndTurn \/ Crash
    BY <2>2 DEF GroupDone, EndTurn, Crash
  <2>3. CASE DrainSteering \/ PersistLeftover
    BY <2>3 DEF DrainSteering, PersistLeftover
  <2>4. CASE \E m \in Message : Enqueue(m)
    <3>1. active /\ active' = active
      BY <2>4, Zenon DEF Enqueue
    <3>. QED
      BY ONLY <3>1, Zenon
  <2>. QED
    BY <2>1, <2>2, <2>3, <2>4, StepsTouch DEF Touches
<1>. QED
  BY <1>1, <1>2, <1>3, <1>4

LEMMA HistoryNext == TypeInv /\ [Next]_vars => HistoryType'
<1>. SUFFICES ASSUME TypeInv, [Next]_vars PROVE HistoryType'
  OBVIOUS
<1>. USE DEF TypeInv, HistoryType
<1>1. pc \in Busy => group.id \in Groups
  BY TurnAssumption DEF GroupType, GroupRec, Groups
<1>2. ASSUME NEW i \in Call, BatchCall(i) PROVE HistoryType'
  BY <1>1, <1>2 DEF BatchCall, Started, Busy
<1>3. CASE RunCall
  BY <1>1, <1>3 DEF RunCall, Started, Busy
<1>4. CASE Seal
  BY <1>1, <1>4 DEF Seal, Busy
<1>5. CASE Crash
  BY <1>1, <1>5 DEF Crash, Busy
<1>6. CASE CompressSeals
  <2>. DEFINE T == {e \in Entry : e.role = "tool"}
  <2>1. healing \in Seq(T) /\ healing # <<>>
    BY <1>6 DEF CompressSeals, LogType
  <2>. HIDE DEF T
  <2>2. Head(healing) \in T
    BY <2>1, HeadTailProperties
  <2>3. Head(healing).group \in Groups
    BY <2>2, EntryKinds DEF T
  <2>4. meddled' = meddled \cup {Head(healing).group} /\ UNCHANGED <<ran, lost>>
    BY <1>6 DEF CompressSeals
  <2>. QED
    BY ONLY <2>3, <2>4, HistoryType DEF HistoryType
<1>. QED
  BY <1>2, <1>3, <1>4, <1>5, <1>6, StepsTouch DEF Touches

THEOREM TypeInvHolds == Spec => []TypeInv
<1>1. TypeInv /\ [Next]_vars => TypeInv'
  BY LogNext, TurnNext, GuardNext, GroupNext, SteerNext, HistoryNext DEF TypeInv
<1>. QED
  BY <1>1, TypeInit, PTL DEF Spec

\* TypeOK, for any messages, calls, limits and faults: the queue of a thread never holds
\* more than steeringQueueCap messages and is empty while no turn is active, and whatever
\* is appended, made up or repaired is an entry of the transcript.
THEOREM TypeOKHolds == Spec => []TypeOK
<1>1. TypeInv => TypeOK
  <2>. SUFFICES ASSUME TypeInv PROVE TypeOK
    OBVIOUS
  <2>1. healing \in Seq(Entry)
    <3>. DEFINE T == {e \in Entry : e.role = "tool"}
    <3>1. T \subseteq Entry /\ healing \in Seq(T)
      BY DEF TypeInv, LogType
    <3>. HIDE DEF T
    <3>. QED
      BY <3>1, SeqMonotonic
  <2>2. log \in Seq(Entry) /\ view \in Seq(Entry)
    BY DEF TypeInv, LogType
  <2>3. /\ pc \in Place /\ rounds \in 0 .. MaxTurns /\ chats \in 0 .. MaxChats /\ groups \in 0 .. MaxGroups
        /\ guard \in [fp : Fingerprint \cup {"none"}, count : 0 .. MaxGroups] /\ group \in GroupRec
    BY DEF TypeInv, TurnType, GuardType, GroupType
  <2>4. cancelled \in BOOLEAN /\ parallel \in BOOLEAN
    BY DEF TypeInv, TurnType
  <2>5. /\ queue \in Seq(Message) /\ Len(queue) <= QueueCap
        /\ active \in BOOLEAN /\ (~active => queue = <<>>)
        /\ raw \in Seq(Message) /\ accepted \in Seq(Message) /\ cut \subseteq Message
    BY DEF TypeInv, SteerType
  <2>6. ran \subseteq (1 .. MaxGroups) \X Call /\ lost \subseteq 1 .. MaxGroups /\ meddled \subseteq 1 .. MaxGroups
    BY DEF TypeInv, HistoryType, Groups
  <2>. QED
    BY ONLY <2>1, <2>2, <2>3, <2>4, <2>5, <2>6, Zenon DEF TypeOK, Place, GroupRec
<1>. QED
  BY <1>1, TypeInvHolds, PTL

-----------------------------------------------------------------------------
(* The steering queue is a mailbox.                                         *)

\* The steps that change the transcript.
LEMMA LogGrows ==
  ASSUME TypeInv, [Next]_vars
  PROVE  \/ log' = log
         \/ \E e \in Entry : e.role # "steer" /\ log' = Append(log, e)
         \/ BuildMessages
         \/ (DrainSteering \/ PersistLeftover) /\ raw # <<>>
<1>1. ASSUME NEW e, e.role # "steer", log' = Append(log, e)
      PROVE  \E x \in Entry : x.role # "steer" /\ log' = Append(log, x)
  <2>1. log \in Seq(Entry)
    BY DEF TypeInv, LogType
  <2>2. log' \in Seq(Entry)
    BY LogNext DEF LogType
  <2>3. Len(log') = Len(log) + 1 /\ log'[Len(log) + 1] = e /\ Len(log) + 1 \in 1 .. Len(log')
    BY <1>1, <2>1
  <2>4. e \in Entry
    BY <2>2, <2>3
  <2>. QED
    BY <1>1, <2>4
<1>2. CASE PersistUser
  BY <1>1, <1>2 DEF PersistUser, User
<1>3. CASE ModelAnswers
  BY <1>1, <1>3 DEF ModelAnswers, Answer
<1>4. CASE \E f \in Fingerprint : ModelCalls(f)
  BY <1>1, <1>4 DEF ModelCalls, Calls
<1>5. CASE Report
  BY <1>1, <1>5 DEF Report, Result
<1>6. CASE Seal
  BY <1>1, <1>6 DEF Seal, Interrupted, Result
<1>7. CASE DrainSteering
  BY <1>7 DEF DrainSteering
<1>8. CASE PersistLeftover
  BY <1>8 DEF PersistLeftover
<1>9. CASE CompressSeals
  <2>. DEFINE T == {e \in Entry : e.role = "tool"}
  <2>1. healing \in Seq(T) /\ healing # <<>> /\ log' = Append(log, Head(healing))
    BY <1>9 DEF CompressSeals, TypeInv, LogType
  <2>. HIDE DEF T
  <2>2. Head(healing) \in T
    BY <2>1, HeadTailProperties
  <2>. QED
    BY <2>1, <2>2 DEF T
<1>10. CASE \/ BeginChat \/ ModelFails \/ BeginBatch \/ RunCall \/ GroupDone \/ EndTurn \/ Cancel
            \/ Crash \/ CompressReads
            \/ (\E i \in Call : BatchCall(i)) \/ \E m \in Message : Enqueue(m)
  BY <1>10 DEF BeginChat, ModelFails, BeginBatch, RunCall, GroupDone, EndTurn, Cancel, Crash, CompressReads,
               BatchCall, Enqueue
<1>11. CASE UNCHANGED vars
  BY <1>11 DEF vars
<1>. QED
  BY <1>2, <1>3, <1>4, <1>5, <1>6, <1>7, <1>8, <1>9, <1>10, <1>11 DEF Next, Step

Steers == {Steer(m) : m \in Message}
Texts(s) == [k \in DOMAIN s |-> s[k].msg]

LEMMA DeliveredIs == Delivered = Texts(Among(log, Steers))
BY DEF Delivered, Steered, Texts, Steers

\* What is delivered grows by the messages that are appended, and by nothing else.
LEMMA DeliveredGrows ==
  ASSUME NEW s \in Seq(Entry), NEW m \in Message
  PROVE  Texts(Among(Append(s, Steer(m)), Steers)) = Append(Texts(Among(s, Steers)), m)
<1>. DEFINE r == Among(s, Steers)
<1>1. r \in Seq(Entry)
  BY AmongType
<1>2. Steer(m) \in Entry /\ Steer(m) \in Steers
  BY DEF Entry, Steers
<1>3. Among(Append(s, Steer(m)), Steers) = Append(r, Steer(m))
  BY <1>2, AmongAppend
<1>. HIDE DEF r
<1>4. Texts(Append(r, Steer(m))) = Append(Texts(r), m)
  <2>. DEFINE n == Len(r)
              a == Append(r, Steer(m))
              t == Texts(a)
              q == Texts(r)
              u == Append(q, m)
  <2>1. n \in Nat /\ Len(a) = n + 1 /\ DOMAIN a = 1 .. (n + 1) /\ DOMAIN r = 1 .. n
    BY <1>1
  <2>2. a[n + 1] = Steer(m) /\ \A k \in 1 .. n : a[k] = r[k]
    BY <1>1
  <2>3. t = [k \in 1 .. (n + 1) |-> t[k]] /\ t[n + 1] = m /\ \A k \in 1 .. n : t[k] = r[k].msg
    BY <2>1, <2>2 DEF Texts, Steer
  <2>4. Len(q) = n /\ \A k \in 1 .. n : q[k] = r[k].msg
    BY <2>1 DEF Texts
  <2>5. u = [k \in 1 .. (n + 1) |-> u[k]] /\ u[n + 1] = m /\ \A k \in 1 .. n : u[k] = q[k]
    <3>. DEFINE V == Message \cup {r[k].msg : k \in 1 .. n}
    <3>1. q \in Seq(V) /\ m \in V
      BY <2>1 DEF Texts
    <3>. HIDE DEF V, q
    <3>2. u \in Seq(V) /\ Len(u) = n + 1 /\ u[n + 1] = m /\ \A k \in 1 .. n : u[k] = q[k]
      BY <2>1, <2>4, <3>1
    <3>. HIDE DEF u
    <3>. QED
      BY <3>2
  <2>. HIDE DEF t, u, q
  <2>6. \A k \in 1 .. (n + 1) : t[k] = u[k]
    <3>. SUFFICES ASSUME NEW k \in 1 .. (n + 1) PROVE t[k] = u[k]
      OBVIOUS
    <3>1. CASE k = n + 1
      BY ONLY <2>3, <2>5, <3>1
    <3>2. CASE k # n + 1
      <4>1. k \in 1 .. n
        BY <2>1, <3>2
      <4>. QED
        BY ONLY <2>3, <2>4, <2>5, <4>1
    <3>. QED
      BY <3>1, <3>2
  <2>7. t = u
    BY ONLY <2>3, <2>5, <2>6
  <2>. QED
    BY <2>7 DEF t, u, q
<1>. QED
  BY <1>3, <1>4 DEF r

LEMMA DeliveredStays ==
  ASSUME NEW s \in Seq(Entry), NEW t \in Seq(Entry), \A k \in 1 .. Len(t) : t[k].role # "steer"
  PROVE  Among(s \o t, Steers) = Among(s, Steers)
<1>1. \A k \in 1 .. Len(t) : t[k] \notin Steers
  BY DEF Steers, Steer
<1>. QED
  BY <1>1, AmongApart

\* Messages are taken out of the queue only to be persisted, before anything else happens.
RawHeld == raw # <<>> => pc \in {"steering", "leftover"}

LEMMA RawHeldNext ==
  ASSUME TypeInv, RawHeld, [Next]_vars
  PROVE  RawHeld'
<1>. USE DEF RawHeld
<1>0. CASE Crash
  BY <1>0 DEF Crash
<1>1. CASE PersistUser \/ BuildMessages \/ ModelFails \/ ModelAnswers \/ BeginChat
  BY <1>1 DEF PersistUser, BuildMessages, ModelFails, ModelAnswers, BeginChat, steerVars, Idle
<1>2. CASE \E f \in Fingerprint : ModelCalls(f)
  BY <1>2 DEF ModelCalls, steerVars
<1>3. CASE BeginBatch \/ RunCall \/ \E i \in Call : BatchCall(i)
  BY <1>3 DEF BeginBatch, RunCall, BatchCall, ClosePending, steerVars
<1>4. CASE Report \/ Seal
  BY <1>4 DEF Report, Seal, ClosePending, steerVars
<1>5. CASE GroupDone
  BY <1>5 DEF GroupDone
<1>6. CASE DrainSteering
  BY <1>6 DEF DrainSteering
<1>7. CASE EndTurn \/ PersistLeftover
  BY <1>7 DEF EndTurn, PersistLeftover
<1>8. CASE Cancel \/ CompressReads \/ CompressSeals \/ \E m \in Message : Enqueue(m)
  BY <1>8 DEF Cancel, CompressReads, CompressSeals, Enqueue, turnVars, steerVars
<1>9. CASE UNCHANGED vars
  BY <1>9 DEF vars, turnVars, steerVars
<1>. QED
  BY <1>0, <1>1, <1>2, <1>3, <1>4, <1>5, <1>6, <1>7, <1>8, <1>9 DEF Next, Step, Crash

\* What is behind a sequence is left when it is lost.
LEMMA Behind ==
  ASSUME NEW s \in Seq(Message), NEW t \in Seq(Message)
  PROVE  /\ Len(s) + 1 \in 1 .. Len(s \o t) + 1
         /\ SubSeq(s \o t, Len(s) + 1, Len(s \o t)) = t
<1>. DEFINE u == s \o t
            v == SubSeq(u, Len(s) + 1, Len(u))
<1>1. u \in Seq(Message) /\ Len(u) = Len(s) + Len(t) /\ Len(s) \in Nat /\ Len(t) \in Nat
  OBVIOUS
<1>2. \A k \in 1 .. Len(t) : u[Len(s) + k] = t[k]
  OBVIOUS
<1>3. v \in Seq(Message) /\ Len(v) = Len(t) /\ \A k \in 1 .. Len(v) : v[k] = u[(Len(s) + 1) + k - 1]
  <2>. HIDE DEF u
  <2>1. \A k \in (Len(s) + 1) .. Len(u) : u[k] \in Message
    BY <1>1
  <2>. QED
    BY <1>1, <2>1
<1>4. \A k \in 1 .. Len(v) : v[k] = t[k]
  <2>. HIDE DEF u, v
  <2>. QED
    BY <1>1, <1>2, <1>3
<1>5. v = t
  <2>. HIDE DEF u, v
  <2>. QED
    BY <1>3, <1>4, SeqEqual
<1>. QED
  BY <1>1, <1>5

LEMMA MailboxStep ==
  ASSUME "crash" \notin Faults, TypeInv, RawHeld, [Next]_vars
  PROVE  [Mailbox!Next]_(Mailbox!vars)
<1>. DEFINE pending == raw \o queue
            interrupted == SinkFails \/ May("store")
<1>0. ~Crash
  BY DEF May, Crash
<1>1. /\ raw \in Seq(Message) /\ queue \in Seq(Message) /\ accepted \in Seq(Message)
      /\ log \in Seq(Entry)
  BY DEF TypeInv, SteerType, LogType
<1>2. ASSUME UNCHANGED <<accepted, pending, Delivered>> PROVE [Mailbox!Next]_(Mailbox!vars)
  <2>1. interrupted' \in BOOLEAN
    OBVIOUS
  <2>2. Mailbox!Interrupt
    BY <1>2, <2>1 DEF Mailbox!Interrupt
  <2>. QED
    BY <2>2 DEF Mailbox!Next
<1>3. CASE (DrainSteering \/ PersistLeftover) /\ raw # <<>>
  <2>. DEFINE m == Head(raw)
  <2>1. /\ UNCHANGED <<queue, accepted, cancelled>>
        /\ \/ log' = Append(log, Steer(m)) /\ raw' = Tail(raw)
           \/ log' = Append(log, Steer(m)) /\ raw' = <<>> /\ interrupted
           \/ log' = log /\ raw' = <<>> /\ interrupted
           \/ log' = log /\ raw' = Tail(raw) /\ interrupted
    <3>1. CASE DrainSteering
      BY <1>3, <3>1 DEF DrainSteering
    <3>2. CASE PersistLeftover
      BY <1>3, <3>2 DEF PersistLeftover
    <3>. QED
      BY <1>3, <3>1, <3>2
  <2>2. m \in Message
    BY <1>1, <1>3, HeadTailProperties
  <2>3. log' = Append(log, Steer(m)) => Delivered' = Append(Delivered, m)
    <3>. HIDE DEF m
    <3>1. Texts(Among(Append(log, Steer(m)), Steers)) = Append(Texts(Among(log, Steers)), m)
      BY <1>1, <2>2, DeliveredGrows
    <3>2. Delivered' = Texts(Among(log', Steers))
      BY DEF Delivered, Steered, Texts, Steers
    <3>. QED
      BY <3>1, <3>2, DeliveredIs
  <2>4. log' = log => Delivered' = Delivered
    BY DEF Delivered, Steered
  <2>5. interrupted' = interrupted
    BY <2>1 DEF SinkFails
  <2>6. /\ pending # <<>> /\ Head(pending) = m /\ Tail(pending) = Tail(raw) \o queue
        /\ Tail(raw) \in Seq(Message) /\ pending \in Seq(Message)
    BY <1>1, <1>3, HeadTailProperties
  <2>7. raw' = Tail(raw) => pending' = Tail(pending)
    BY <2>1, <2>6
  <2>8. raw' = <<>> => pending' = queue
    BY <1>1, <2>1, ConcatEmptySeq
  <2>9. interrupted => queue \in Mailbox!Left(pending) /\ queue \in Mailbox!Left(Tail(pending))
    <3>1. interrupted => Mailbox!Left(pending) = {SubSeq(pending, k, Len(pending)) : k \in 1 .. Len(pending) + 1}
      BY DEF Mailbox!Left
    <3>2. interrupted => Mailbox!Left(Tail(pending))
                           = {SubSeq(Tail(pending), k, Len(Tail(pending))) : k \in 1 .. Len(Tail(pending)) + 1}
      BY DEF Mailbox!Left
    <3>3. /\ Len(raw) + 1 \in 1 .. Len(pending) + 1
          /\ queue = SubSeq(pending, Len(raw) + 1, Len(pending))
      BY <1>1, Behind
    <3>4. /\ Len(Tail(raw)) + 1 \in 1 .. Len(Tail(pending)) + 1
          /\ queue = SubSeq(Tail(pending), Len(Tail(raw)) + 1, Len(Tail(pending)))
      BY <1>1, <2>6, Behind
    <3>. HIDE DEF pending, interrupted
    <3>. QED
      BY <3>1, <3>2, <3>3, <3>4
  <2>10. interrupted => Tail(pending) \in Mailbox!Left(pending)
    <3>1. interrupted => Mailbox!Left(pending) = {SubSeq(pending, k, Len(pending)) : k \in 1 .. Len(pending) + 1}
      BY DEF Mailbox!Left
    <3>. HIDE DEF pending, interrupted
    <3>2. Tail(pending) = SubSeq(pending, 2, Len(pending)) /\ 2 \in 1 .. Len(pending) + 1
      BY <2>6
    <3>. QED
      BY <3>1, <3>2
  <2>11. Tail(pending) \in Mailbox!Left(Tail(pending))
    <3>1. CASE interrupted
      <4>1. Mailbox!Left(Tail(pending))
              = {SubSeq(Tail(pending), k, Len(Tail(pending))) : k \in 1 .. Len(Tail(pending)) + 1}
        BY <3>1 DEF Mailbox!Left
      <4>. HIDE DEF pending, interrupted
      <4>. DEFINE t == Tail(pending)
      <4>2. t \in Seq(Message)
        BY <2>6, HeadTailProperties
      <4>3. <<>> \in Seq(Message) /\ <<>> \o t = t /\ Len(<<>>) = 0
        BY <4>2, ConcatEmptySeq
      <4>4. Len(<<>>) + 1 \in 1 .. Len(<<>> \o t) + 1 /\ SubSeq(<<>> \o t, Len(<<>>) + 1, Len(<<>> \o t)) = t
        BY <4>2, <4>3, Behind
      <4>5. 0 + 1 \in 1 .. Len(t) + 1 /\ SubSeq(t, 0 + 1, Len(t)) = t
        BY <4>3, <4>4
      <4>. QED
        BY <4>1, <4>5
    <3>2. CASE ~interrupted
      BY <3>2 DEF Mailbox!Left
    <3>. QED
      BY <3>1, <3>2
  <2>12. ASSUME log' = Append(log, Steer(m)), pending' \in Mailbox!Left(Tail(pending))
         PROVE  Mailbox!Deliver
    <3>. HIDE DEF pending, interrupted, m
    <3>. QED
      BY <2>1, <2>3, <2>5, <2>6, <2>12 DEF Mailbox!Deliver, pending, interrupted
  <2>13. ASSUME log' = log, pending' \in Mailbox!Left(pending)
         PROVE  Mailbox!Lose
    <3>. HIDE DEF pending, interrupted, m
    <3>. QED
      BY <2>1, <2>4, <2>5, <2>13 DEF Mailbox!Lose, pending, interrupted
  <2>14. Mailbox!Deliver \/ Mailbox!Lose
    <3>. HIDE DEF pending, interrupted, m
    <3>. QED
      BY <2>1, <2>7, <2>8, <2>9, <2>10, <2>11, <2>12, <2>13
  <2>. QED
    BY <2>14 DEF Mailbox!Next
<1>4. ASSUME NEW m \in Message, Enqueue(m) PROVE [Mailbox!Next]_(Mailbox!vars)
  <2>1. queue' = Append(queue, m) /\ accepted' = Append(accepted, m) /\ UNCHANGED <<log, raw, cancelled>>
    BY <1>4 DEF Enqueue, turnVars
  <2>2. pending' = Append(pending, m)
    BY <1>1, <2>1
  <2>3. Delivered' = Delivered
    BY <2>1 DEF Delivered, Steered
  <2>5. interrupted' = interrupted
    BY <2>1 DEF SinkFails
  <2>4. Mailbox!Take(m)
    BY <2>1, <2>2, <2>3, <2>5 DEF Mailbox!Take
  <2>. QED
    BY <2>4 DEF Mailbox!Next
<1>5. CASE /\ ~((DrainSteering \/ PersistLeftover) /\ raw # <<>>)
           /\ ~\E m \in Message : Enqueue(m)
  <2>1. UNCHANGED <<accepted, pending>>
    <3>1. CASE GroupDone
      <4>1. raw = <<>> /\ accepted' = accepted
        BY <3>1 DEF GroupDone, RawHeld
      <4>2. UNCHANGED <<raw, queue>> \/ (raw' = queue /\ queue' = <<>>)
        BY ONLY <3>1 DEF GroupDone
      <4>3. <<>> \o queue = queue /\ queue \o <<>> = queue
        BY <1>1, ConcatEmptySeq
      <4>. QED
        BY ONLY <4>1, <4>2, <4>3
    <3>2. CASE EndTurn
      <4>1. raw = <<>> /\ accepted' = accepted /\ raw' = queue /\ queue' = <<>>
        BY <3>2 DEF EndTurn, RawHeld, Undelivered
      <4>3. <<>> \o queue = queue /\ queue \o <<>> = queue
        BY <1>1, ConcatEmptySeq
      <4>. QED
        BY ONLY <4>1, <4>3
    <3>3. CASE (DrainSteering \/ PersistLeftover) /\ raw = <<>>
      BY <3>3 DEF DrainSteering, PersistLeftover
    <3>4. CASE BeginChat
      BY <3>4 DEF BeginChat
    <3>. QED
      BY <1>0, <1>5, <3>1, <3>2, <3>3, <3>4, StepsTouch DEF Touches
  <2>2. Delivered' = Delivered
    <3>. SUFFICES Among(log', Steers) = Among(log, Steers)
      BY DEF Delivered, Steered, Steers
    <3>1. CASE log' = log
      BY <3>1
    <3>2. ASSUME NEW e \in Entry, e.role # "steer", log' = Append(log, e)
          PROVE  Among(log', Steers) = Among(log, Steers)
      <4>1. e \notin Steers
        BY <3>2 DEF Steers, Steer
      <4>. QED
        BY <1>1, <3>2, <4>1, AmongAppend
    <3>3. CASE BuildMessages
      <4>. DEFINE t == TrailingUnanswered(log)
                  T == {e \in Entry : e.role = "tool"}
      <4>1. log' = log \o t /\ t \in Seq(T)
        BY <1>1, <3>3, TrailingType DEF BuildMessages
      <4>2. T \subseteq Entry /\ \A e \in T : e.role # "steer"
        OBVIOUS
      <4>. HIDE DEF t, T
      <4>3. t \in Seq(Entry) /\ \A k \in 1 .. Len(t) : t[k] \in T
        BY <4>1, <4>2, SeqMonotonic
      <4>. QED
        BY <1>1, <4>1, <4>2, <4>3, DeliveredStays
    <3>. QED
      BY <1>5, <3>1, <3>2, <3>3, LogGrows
  <2>. QED
    BY <1>2, <2>1, <2>2
<1>. QED
  BY <1>3, <1>4, <1>5

\* ImplementsMailbox, for any messages and limits, as long as the process lives: whatever
\* the turn does, whatever fails and however it ends, the messages taken while it runs are
\* persisted in the order they were taken, none twice; some are left out only while the
\* turn is cancelled or something fails, and then the first of those on their way.
THEOREM MailboxImplemented ==
  ASSUME "crash" \notin Faults
  PROVE  Spec => ImplementsMailbox
<1>1. Init => Mailbox!Init /\ RawHeld
  <2>. SUFFICES ASSUME Init PROVE Mailbox!Init /\ RawHeld
    OBVIOUS
  <2>1. log = <<>> /\ raw = <<>> /\ queue = <<>> /\ accepted = <<>>
    BY DEF Init
  <2>2. raw \o queue = <<>>
    BY <2>1
  <2>3. Steered = <<>>
    BY <2>1, AmongEmpty DEF Steered
  <2>4. Delivered = <<>>
    BY <2>3 DEF Delivered
  <2>5. (SinkFails \/ May("store")) \in BOOLEAN
    OBVIOUS
  <2>. QED
    BY <2>1, <2>2, <2>4, <2>5 DEF Mailbox!Init, RawHeld
<1>2. TypeInv /\ RawHeld /\ [Next]_vars => RawHeld' /\ [Mailbox!Next]_(Mailbox!vars)
  BY RawHeldNext, MailboxStep
<1>. QED
  BY <1>1, <1>2, TypeInvHolds, PTL DEF Spec, ImplementsMailbox, Mailbox!Spec

-----------------------------------------------------------------------------
(* A group is cut in one place.                                             *)

LEMMA Grown ==
  ASSUME NEW s \in Seq(Entry), NEW e \in Entry
  PROVE  /\ DOMAIN Append(s, e) = 1 .. (Len(s) + 1) /\ Len(Append(s, e)) = Len(s) + 1
         /\ Append(s, e)[Len(s) + 1] = e
         /\ \A k \in 1 .. Len(s) : Append(s, e)[k] = s[k]
         /\ e.role = "tool" => Opener(Append(s, e), Len(s) + 1) = Opener(s, Len(s))
         /\ e.role # "tool" => Opener(Append(s, e), Len(s) + 1) = Len(s) + 1
<1>. DEFINE n == Len(s)
            t == Append(s, e)
            o == Opener(s, n)
<1>1. n \in Nat /\ DOMAIN t = 1 .. (n + 1) /\ Len(t) = n + 1 /\ t[n + 1] = e /\ \A k \in 1 .. n : t[k] = s[k]
  OBVIOUS
<1>2. o \in 0 .. n /\ (o = 0 \/ s[o].role # "tool") /\ \A i \in (o + 1) .. n : s[i].role = "tool"
  BY <1>1, OpenerExists
<1>. HIDE DEF t, o, n
<1>3. ASSUME e.role = "tool" PROVE Opener(t, n + 1) = o
  <2>1. o \in 0 .. (n + 1) /\ (o = 0 \/ t[o].role # "tool")
    BY <1>1, <1>2
  <2>2. \A i \in (o + 1) .. (n + 1) : t[i].role = "tool"
    BY <1>1, <1>2, <1>3
  <2>. QED
    BY <1>1, <2>1, <2>2, OpenerIs
<1>4. ASSUME e.role # "tool" PROVE Opener(t, n + 1) = n + 1
  <2>1. n + 1 \in 0 .. (n + 1) /\ t[n + 1].role # "tool" /\ (n + 1) + 1 > n + 1
    BY <1>1, <1>4
  <2>2. \A i \in ((n + 1) + 1) .. (n + 1) : t[i].role = "tool"
    BY <1>1
  <2>. QED
    BY <1>1, <2>1, <2>2, OpenerIs
<1>. QED
  BY <1>1, <1>3, <1>4 DEF t, o, n

\* Groups are numbered as they come, and only the last is worked on.
Numbered ==
  /\ \A k \in Results : log[k].group <= groups
  /\ \A g \in Groups : \A c \in Call : <<g, c>> \in ran => g <= groups
  /\ pc \in Busy => group.id = groups

\* A turn reads a thread that ends with the user's message: no group is open there.
NoneOpen ==
  pc = "building" => \A i \in DOMAIN log : i = Opener(log, Len(log)) => log[i].role # "calls"

Cut(k) == k \in Results /\ log[k].group = group.id

\* The results of the group at work are of the calls before the next one, and none is
\* made up before the group is left.
Recorded ==
  pc \in Busy => \A k \in DOMAIN log : Cut(k) =>
    log[k].call < group.next /\ (pc # "sealing" => log[k].body # "interrupted")

\* A sequential group has started the next call at most, and not even that one between two
\* calls and behind the cut.
Begun ==
  pc \in Busy /\ ~parallel =>
    /\ pc # "batch"
    /\ \A c \in Call : <<group.id, c>> \in ran =>
         /\ c <= group.next
         /\ pc = "tools" \/ (\E k \in DOMAIN log : Cut(k) /\ log[k].body = "interrupted")
              => c < group.next

Noted == pc \in Busy /\ parallel => group.id \in Batched

CutInv == Numbered /\ NoneOpen /\ Recorded /\ Begun /\ Noted /\ CutInOnePlace

LEMMA CutInit == Init => CutInv
<1>. SUFFICES ASSUME Init PROVE CutInv
  OBVIOUS
<1>1. log = <<>> /\ pc = "idle" /\ ran = {} /\ pc \notin Busy
  BY DEF Init, Busy
<1>2. Results = {}
  BY <1>1 DEF Results
<1>. QED
  BY <1>1, <1>2 DEF CutInv, Numbered, NoneOpen, Recorded, Begun, Noted, CutInOnePlace

\* A transcript that grew by an entry: its results are those it had, and the entry.
LEMMA ResultsGrow ==
  ASSUME NEW e \in Entry, log \in Seq(Entry), log' = Append(log, e), meddled \subseteq meddled'
  PROVE  /\ \A k \in DOMAIN log : k \in DOMAIN log' /\ log'[k] = log[k]
         /\ Len(log) + 1 \in DOMAIN log' /\ log'[Len(log) + 1] = e
         /\ Results' \subseteq Results \cup {Len(log) + 1}
         /\ \A k \in Results : k \in DOMAIN log /\ k <= Len(log) /\ log'[k] = log[k]
         /\ Len(log) + 1 \in Results' => e.role = "tool" /\ e.group \notin meddled'
         /\ Batched \subseteq Batched'
<1>. DEFINE n == Len(log)
<1>1. n \in Nat /\ DOMAIN log = 1 .. n /\ DOMAIN log' = 1 .. (n + 1)
  OBVIOUS
<1>2. log'[n + 1] = e /\ \A k \in 1 .. n : log'[k] = log[k]
  OBVIOUS
<1>. HIDE DEF n
<1>3. Results' \subseteq Results \cup {n + 1}
  BY <1>1, <1>2 DEF Results
<1>4. Batched \subseteq Batched'
  <2>1. {k \in DOMAIN log : log[k].role = "calls" /\ log[k].batch}
          \subseteq {k \in DOMAIN log' : log'[k].role = "calls" /\ log'[k].batch}
    BY <1>1, <1>2
  <2>. QED
    BY <1>1, <1>2, <2>1 DEF Batched
<1>. QED
  BY <1>1, <1>2, <1>3, <1>4 DEF n, Results

\* Nothing is worked on after the step, and what it may have added is no result that counts.
LEMMA Between ==
  ASSUME TypeInv, CutInv, pc' \notin Busy, NoneOpen', UNCHANGED <<ran, groups>>, meddled \subseteq meddled',
         \/ log' = log
         \/ \E e \in Entry : /\ e.role = "tool" => e.group \in meddled'
                             /\ log' = Append(log, e)
  PROVE  CutInv'
<1>. USE DEF CutInv
<1>0. log \in Seq(Entry)
  BY DEF TypeInv, LogType
<1>1. Results' \subseteq Results /\ (\A k \in Results : log'[k] = log[k]) /\ Batched \subseteq Batched'
  <2>1. CASE log' = log
    BY <2>1 DEF Results, Batched
  <2>2. ASSUME NEW e \in Entry, e.role = "tool" => e.group \in meddled', log' = Append(log, e) PROVE <1>1!:
    BY <1>0, <2>2, ResultsGrow
  <2>. QED
    BY <2>1, <2>2
<1>2. Numbered'
  BY <1>1 DEF Numbered
<1>3. CutInOnePlace'
  BY <1>1 DEF CutInOnePlace
<1>. QED
  BY <1>2, <1>3 DEF Recorded, Begun, Noted

\* A result for the next call of the group at work.
LEMMA Answered ==
  ASSUME TypeInv, CutInv, pc \in {"report", "sealing"}, group.next \in Call,
         NEW body \in {"output", "repeated", "dropped", "interrupted"},
         body = "interrupted" <=> pc = "sealing",
         log' = Append(log, Result(group.id, group.next, body)),
         group' = [group EXCEPT !.next = group.next + 1],
         pc = "sealing" => pc' = "sealing",
         pc = "report" => pc' \in {"report", "tools"} /\ (~parallel => pc' = "tools"),
         UNCHANGED <<ran, groups, meddled, parallel>>
  PROVE  CutInv'
<1>. USE TurnAssumption DEF CutInv
<1>. DEFINE e == Result(group.id, group.next, body)
            n == Len(log)
<1>0. /\ log \in Seq(Entry) /\ n \in Nat /\ pc \in Busy /\ pc' \in Busy
      /\ group.id \in Groups /\ group.next \in Nat /\ groups \in Nat /\ \A c \in Call : c \in Nat
  <2>1. log \in Seq(Entry) /\ n \in Nat
    BY DEF TypeInv, LogType
  <2>2. pc \in Busy /\ pc' \in Busy
    BY DEF Busy
  <2>3. group.next \in Nat /\ \A c \in Call : c \in Nat
    BY DEF Call
  <2>4. group.id \in Groups /\ groups \in Nat
    BY <2>2 DEF TypeInv, GroupType, GuardType, GroupRec, Groups, Busy
  <2>. QED
    BY <2>1, <2>2, <2>3, <2>4
<1>1. e \in Entry /\ e.role = "tool" /\ e.group = group.id /\ e.call = group.next /\ e.body = body
  BY <1>0, ResultEntry DEF Result
<1>2. group'.id = group.id /\ group'.next = group.next + 1
  BY DEF TypeInv, GroupType, GroupRec
<1>. HIDE DEF e, n
<1>3. /\ Results' \subseteq Results \cup {n + 1} /\ log'[n + 1] = e
      /\ \A k \in Results : k \in DOMAIN log /\ k <= n /\ k \in Nat /\ log'[k] = log[k]
      /\ Batched \subseteq Batched'
  <2>1. log' = Append(log, e) /\ DOMAIN log \subseteq Nat
    BY <1>0 DEF e
  <2>. QED
    BY <1>0, <1>1, <2>1, ResultsGrow DEF n
<1>4. \A k \in Results : log[k].call \in Nat
  <2>1. \A k \in Results : log[k] \in Entry /\ log[k].role = "tool"
    BY <1>0, <1>3 DEF Results
  <2>2. \A x \in Entry : x.role = "tool" => x.call \in Call
    BY EntryKinds
  <2>3. \A c \in Call : c \in Nat
    BY DEF Call
  <2>. QED
    BY ONLY <2>1, <2>2, <2>3
<1>5. Numbered'
  <2>1. group.id = groups
    BY <1>0 DEF Numbered
  <2>2. \A k \in Results' : log'[k].group <= groups
    <3>. SUFFICES ASSUME NEW k \in Results' PROVE log'[k].group <= groups
      OBVIOUS
    <3>1. CASE k \in Results
      <4>1. log'[k] = log[k] /\ log[k].group <= groups
        BY <1>3, <3>1 DEF Numbered
      <4>. QED
        BY <4>1
    <3>2. CASE k = n + 1
      <4>1. log'[k].group = groups
        BY <1>1, <1>3, <2>1, <3>2
      <4>. QED
        BY <1>0, <4>1
    <3>. QED
      BY <1>3, <3>1, <3>2
  <2>3. \A g \in Groups : \A c \in Call : <<g, c>> \in ran => g <= groups
    BY DEF Numbered
  <2>. QED
    BY <1>2, <2>1, <2>2, <2>3 DEF Numbered
<1>6. NoneOpen'
  BY <1>0 DEF NoneOpen, Busy
<1>7. Recorded'
  <2>. SUFFICES ASSUME NEW k \in Results', log'[k].group = group.id
                PROVE  log'[k].call < group.next + 1 /\ (pc' # "sealing" => log'[k].body # "interrupted")
    BY <1>0, <1>2 DEF Recorded, Cut
  <2>3. pc' # "sealing" => pc # "sealing" /\ body # "interrupted"
    OBVIOUS
  <2>1. CASE k = n + 1
    <3>1. log'[k] = e
      BY <1>3, <2>1
    <3>2. group.next < group.next + 1
      BY <1>0
    <3>. QED
      BY <1>1, <2>3, <3>1, <3>2
  <2>2. CASE k \in Results
    <3>1. Cut(k) /\ log[k].call \in Nat /\ k \in DOMAIN log
      BY <1>3, <1>4, <2>2 DEF Cut
    <3>2. log[k].call < group.next /\ (pc # "sealing" => log[k].body # "interrupted")
      BY <1>0, <3>1 DEF Recorded
    <3>3. log'[k] = log[k]
      BY <1>3, <2>2
    <3>4. log[k].call < group.next + 1
      BY ONLY <1>0, <3>1, <3>2
    <3>. QED
      BY ONLY <2>3, <3>2, <3>3, <3>4
  <2>. QED
    BY <1>3, <2>1, <2>2
<1>8. Begun'
  <2>. SUFFICES ASSUME ~parallel'
                PROVE  /\ pc' # "batch"
                       /\ \A c \in Call : <<group.id, c>> \in ran => c <= group.next + 1 /\ c < group.next + 1
    BY <1>2 DEF Begun
  <2>1. \A c \in Call : <<group.id, c>> \in ran => c <= group.next
    BY <1>0 DEF Begun
  <2>. QED
    BY <1>0, <2>1
<1>9. Noted'
  BY <1>0, <1>2, <1>3 DEF Noted
<1>10. CutInOnePlace'
  <2>. SUFFICES ASSUME NEW j \in Results', NEW k \in Results', j < k, log'[j].group = log'[k].group
                PROVE  /\ log'[j].call < log'[k].call
                       /\ log'[j].body = "interrupted" =>
                            /\ log'[k].body = "interrupted"
                            /\ <<log'[k].group, log'[k].call>> \in ran => log'[k].group \in Batched'
    BY DEF CutInOnePlace
  <2>1. CASE j \in Results /\ k \in Results
    BY <1>3, <2>1 DEF CutInOnePlace
  <2>2. CASE j \in Results /\ k = n + 1
    <3>1. Cut(j) /\ j \in DOMAIN log /\ log'[j] = log[j] /\ log'[k] = e
      BY <1>1, <1>3, <2>2 DEF Cut
    <3>2. log[j].call < group.next /\ (pc # "sealing" => log[j].body # "interrupted")
      BY <1>0, <3>1 DEF Recorded
    <3>3. ASSUME log[j].body = "interrupted", <<group.id, group.next>> \in ran
          PROVE  group.id \in Batched
      <4>1. CASE parallel
        BY <1>0, <4>1 DEF Noted
      <4>2. CASE ~parallel
        <5>1. group.next < group.next
          BY <1>0, <3>1, <3>3, <4>2 DEF Begun
        <5>. QED
          BY <1>0, <5>1
      <4>. QED
        BY <4>1, <4>2
    <3>. QED
      BY <1>1, <1>3, <3>1, <3>2, <3>3
  <2>3. ~(j = n + 1)
    BY <1>0, <1>3
  <2>. QED
    BY <1>3, <2>1, <2>2, <2>3
<1>. QED
  BY <1>5, <1>6, <1>7, <1>8, <1>9, <1>10

\* A step that starts calls, or none, of the group at work and records nothing.
LEMMA Working ==
  ASSUME TypeInv, CutInv, pc \in Busy, pc' \in Busy, group'.id = group.id, group'.next = group.next,
         pc # "sealing",
         NEW C \in SUBSET Call, ran' \subseteq ran \cup {<<group.id, c>> : c \in C},
         Begun', UNCHANGED <<log, groups, meddled, parallel>>
  PROVE  CutInv'
<1>. USE DEF CutInv
<1>0. group.id \in Groups
  BY DEF TypeInv, GroupType, GroupRec, Groups
<1>1. Results' = Results /\ Batched \subseteq Batched'
  BY DEF Results, Batched
<1>2. Numbered'
  <2>1. \A g \in Groups : \A c \in Call : <<g, c>> \in ran' => g <= groups
    <3>. SUFFICES ASSUME NEW g \in Groups, NEW c \in Call, <<g, c>> \in ran' PROVE g <= groups
      OBVIOUS
    <3>1. <<g, c>> \in ran \/ g = group.id
      OBVIOUS
    <3>2. group.id = groups /\ groups \in Nat
      BY DEF Numbered, TypeInv, GuardType
    <3>. QED
      BY <3>1, <3>2 DEF Numbered
  <2>. QED
    BY <1>1, <2>1 DEF Numbered
<1>3. NoneOpen'
  BY DEF NoneOpen, Busy
<1>4. Recorded' /\ Noted'
  BY <1>1 DEF Recorded, Noted, Cut
<1>5. CutInOnePlace'
  <2>. SUFFICES ASSUME NEW j \in Results, NEW k \in Results, j < k, log[j].group = log[k].group,
                       log[j].body = "interrupted", <<log[k].group, log[k].call>> \in ran'
                PROVE  log[k].group \in Batched
    BY <1>1 DEF CutInOnePlace
  <2>1. CASE log[j].group = group.id
    <3>1. Cut(j) /\ j \in DOMAIN log
      BY <2>1 DEF Cut, Results
    <3>. QED
      BY <3>1 DEF Recorded
  <2>2. CASE log[j].group # group.id
    <3>1. <<log[k].group, log[k].call>> \in ran
      BY <2>2
    <3>. QED
      BY <3>1 DEF CutInOnePlace
  <2>. QED
    BY <2>1, <2>2
<1>. QED
  BY <1>2, <1>3, <1>4, <1>5

LEMMA CutNext ==
  ASSUME TypeInv, CutInv, [Next]_vars
  PROVE  CutInv'
<1>. USE DEF historyVars
<1>g. group \in GroupRec /\ log \in Seq(Entry) /\ raw \in Seq(Message)
  BY DEF TypeInv, GroupType, LogType, SteerType
<1>1. CASE PersistUser
  <2>1. User \in Entry /\ User.role = "user"
    BY DEF Entry, User
  <2>2. pc' \in {"building", "closing"} /\ UNCHANGED <<ran, groups, meddled>>
    BY <1>1 DEF PersistUser
  <2>3. (log' = log /\ pc' = "closing") \/ log' = Append(log, User)
    BY <1>1 DEF PersistUser
  <2>4. NoneOpen'
    <3>1. CASE log' = Append(log, User)
      <4>1. log'[Len(log) + 1] = User /\ Len(log') = Len(log) + 1 /\ Opener(log', Len(log) + 1) = Len(log) + 1
        BY <1>g, <2>1, <3>1, Grown
      <4>. QED
        BY <2>1, <4>1 DEF NoneOpen
    <3>. QED
      BY <2>3, <3>1 DEF NoneOpen
  <2>5. pc' \notin Busy
    BY <2>2 DEF Busy
  <2>. QED
    BY <2>1, <2>2, <2>3, <2>4, <2>5, Between
<1>2. CASE BuildMessages
  <2>1. pc = "building" /\ pc' = "model" /\ UNCHANGED <<ran, groups, meddled>>
    BY <1>2 DEF BuildMessages
  <2>2. TrailingUnanswered(log) = <<>>
    <3>. DEFINE o == Opener(log, Len(log))
    <3>1. o \in 0 .. Len(log)
      BY <1>g, OpenerExists
    <3>2. o > 0 => log[o].role # "calls"
      BY <1>g, <2>1, <3>1 DEF CutInv, NoneOpen
    <3>. HIDE DEF o
    <3>3. Unanswered(log, o) = {}
      BY <3>2 DEF Unanswered
    <3>. QED
      BY <3>3 DEF TrailingUnanswered, o
  <2>3. log' = log
    <3>1. log \o <<>> = log
      BY <1>g, ConcatEmptySeq
    <3>2. log' = log \o TrailingUnanswered(log)
      BY <1>2 DEF BuildMessages
    <3>. QED
      BY ONLY <2>2, <3>1, <3>2
  <2>4. pc' \notin Busy /\ NoneOpen'
    BY <2>1 DEF Busy, NoneOpen
  <2>. QED
    BY <2>1, <2>3, <2>4, Between
<1>3. CASE ModelAnswers \/ ModelFails
  <2>1. Answer \in Entry /\ Answer.role # "tool"
    BY DEF Entry, Answer
  <2>2. pc' = "closing" /\ UNCHANGED <<ran, groups, meddled>>
    BY <1>3 DEF ModelAnswers, ModelFails
  <2>3. log' = log \/ log' = Append(log, Answer)
    BY <1>3 DEF ModelAnswers, ModelFails
  <2>4. pc' \notin Busy /\ NoneOpen'
    BY <2>2 DEF Busy, NoneOpen
  <2>. QED
    BY <2>1, <2>2, <2>3, <2>4, Between
<1>4. ASSUME NEW f \in Fingerprint, ModelCalls(f) PROVE CutInv'
  <2>1. pc = "model" /\ groups' = groups + 1 /\ groups < MaxGroups /\ UNCHANGED <<ran, meddled>>
    BY <1>4 DEF ModelCalls
  <2>2. groups \in Nat /\ chats \in 1 .. MaxChats /\ groups + 1 \in 1 .. MaxGroups
    BY <2>1, TurnAssumption DEF TypeInv, GuardType, TurnType
  <2>3. Results \subseteq DOMAIN log /\ \A k \in Results : log[k].group \in Nat /\ log[k].group <= groups
    BY <1>g, EntryKinds DEF CutInv, Numbered, Results, Groups
  <2>4. \A g \in Groups : \A c \in Call : <<g, c>> \in ran => g <= groups
    BY DEF CutInv, Numbered
  <2>5. CASE log' = log /\ pc' = "closing"
    <3>1. Results' = Results /\ Batched \subseteq Batched'
      BY <2>1, <2>5 DEF Results, Batched
    <3>2. Numbered'
      BY <2>1, <2>2, <2>3, <2>4, <2>5, <3>1 DEF Numbered, Busy, Groups
    <3>3. CutInOnePlace'
      BY <2>1, <2>5, <3>1 DEF CutInOnePlace, CutInv
    <3>. QED
      BY <2>5, <3>2, <3>3 DEF CutInv, NoneOpen, Recorded, Begun, Noted, Busy
  <2>6. ASSUME NEW p \in BOOLEAN, log' = Append(log, Calls(groups + 1, f, p)), parallel' = p,
               group' = [id |-> groups + 1, next |-> 1, todo |-> {}], pc' \in {"tools", "sealing"}
        PROVE  CutInv'
    <3>. DEFINE e == Calls(groups + 1, f, p)
    <3>1. e \in Entry /\ e.role = "calls" /\ e.group = groups + 1 /\ e.batch = p
      BY <2>2 DEF Calls, Entry
    <3>2. log' = Append(log, e)
      BY <2>6
    <3>. HIDE DEF e
    <3>3. /\ Len(log) + 1 \in DOMAIN log' /\ log'[Len(log) + 1] = e
          /\ Results' \subseteq Results \cup {Len(log) + 1} /\ Len(log) + 1 \notin Results'
          /\ \A k \in Results : log'[k] = log[k]
          /\ Batched \subseteq Batched'
      BY <1>g, <2>1, <3>1, <3>2, ResultsGrow
    <3>4. Results' \subseteq Results
      BY <3>3
    <3>5. Numbered'
      <4>1. \A k \in Results' : log'[k].group <= groups + 1
        BY <2>2, <2>3, <3>3, <3>4
      <4>2. \A g \in Groups : \A c \in Call : <<g, c>> \in ran => g <= groups + 1
        BY <2>2, <2>4 DEF Groups
      <4>. QED
        BY <2>1, <2>6, <4>1, <4>2 DEF Numbered
    <3>6. NoneOpen'
      BY <2>6 DEF NoneOpen
    <3>7. \A k \in Results' : log'[k].group # groups + 1
      BY <2>2, <2>3, <3>3, <3>4
    <3>8. Recorded'
      BY <2>6, <3>7 DEF Recorded, Cut
    <3>9. Begun'
      <4>1. \A c \in Call : <<groups + 1, c>> \notin ran
        BY <2>2, <2>4 DEF Groups
      <4>. QED
        BY <2>1, <2>6, <4>1 DEF Begun
    <3>10. Noted'
      <4>1. p => groups + 1 \in Batched'
        BY <3>1, <3>3 DEF Batched
      <4>. QED
        BY <2>6, <4>1 DEF Noted
    <3>11. CutInOnePlace'
      BY <2>1, <3>3, <3>4 DEF CutInOnePlace, CutInv
    <3>. QED
      BY <3>5, <3>6, <3>8, <3>9, <3>10, <3>11 DEF CutInv
  <2>. QED
    BY <1>4, <2>5, <2>6 DEF ModelCalls
<1>5. CASE BeginBatch
  <2>1. /\ pc = "tools" /\ pc' \in {"sealing", "batch"} /\ group'.id = group.id /\ group'.next = group.next
        /\ UNCHANGED <<log, ran, groups, meddled, parallel>>
    BY <1>5, <1>g DEF BeginBatch, ClosePending, GroupRec
  <2>2. parallel /\ parallel'
    <3>1. parallel /\ parallel' = parallel
      BY <1>5, Zenon DEF BeginBatch
    <3>. QED
      BY ONLY <3>1, Zenon
  <2>3. Begun'
    BY <2>2 DEF Begun
  <2>4. ran' \subseteq ran \cup {<<group.id, c>> : c \in {}} /\ {} \in SUBSET Call
    BY <2>1
  <2>5. pc \in Busy /\ pc' \in Busy
    BY <2>1 DEF Busy
  <2>. QED
    BY <2>1, <2>3, <2>4, <2>5, Working
<1>6. ASSUME NEW i \in Call, BatchCall(i) PROVE CutInv'
  <2>1. /\ pc = "batch" /\ pc' \in {"report", "batch"} /\ group'.id = group.id /\ group'.next = group.next
        /\ UNCHANGED <<log, groups, meddled, parallel>>
    BY <1>6, <1>g DEF BatchCall, GroupRec
  <2>5. pc \in Busy /\ pc' \in Busy
    BY <2>1 DEF Busy
  <2>2. parallel /\ parallel'
    <3>1. parallel
      BY <2>1, <2>5 DEF CutInv, Begun
    <3>2. parallel' = parallel
      BY <2>1
    <3>. QED
      BY ONLY <3>1, <3>2, Zenon
  <2>3. ran' \subseteq ran \cup {<<group.id, c>> : c \in {i}} /\ {i} \in SUBSET Call
    BY <1>6 DEF BatchCall, Started
  <2>4. Begun'
    BY <2>2 DEF Begun
  <2>. QED
    BY <2>1, <2>3, <2>4, <2>5, Working
<1>7. CASE RunCall
  <2>1. /\ pc = "tools" /\ ~parallel /\ pc' \in {"report", "sealing"} /\ group'.id = group.id
        /\ group'.next = group.next /\ group.next \in Call /\ UNCHANGED <<log, groups, meddled, parallel>>
    BY <1>7, <1>g DEF RunCall, ClosePending, GroupRec
  <2>2. ran' \subseteq ran \cup {<<group.id, c>> : c \in {group.next}} /\ {group.next} \in SUBSET Call
    BY <1>7 DEF RunCall, Started
  <2>3. pc \in Busy /\ pc' \in Busy
    BY <2>1 DEF Busy
  <2>4. Begun'
    <3>1. \A c \in Call : <<group.id, c>> \in ran => c < group.next /\ c <= group.next
      BY <2>1, <2>3 DEF CutInv, Begun, Call
    <3>2. \A c \in Call : <<group.id, c>> \in ran' => c <= group.next
      BY <2>1, <2>2, <3>1 DEF Call
    <3>3. ~\E k \in DOMAIN log' : Cut(k)' /\ log'[k].body = "interrupted"
      <4>1. Results' = Results
        BY <2>1 DEF Results
      <4>. QED
        BY <2>1, <2>3, <4>1 DEF CutInv, Recorded, Cut
    <3>. QED
      BY <2>1, <3>2, <3>3 DEF Begun
  <2>. QED
    BY <2>1, <2>2, <2>3, <2>4, Working
<1>8. CASE Report
  <2>. DEFINE body == IF <<group.id, group.next>> \in ran THEN "output"
                      ELSE IF Skip THEN "repeated" ELSE "dropped"
  <2>1. body \in {"output", "repeated", "dropped"}
    OBVIOUS
  <2>2. pc = "report" /\ group.next \in Call /\ UNCHANGED <<ran, groups, meddled, parallel>>
    BY <1>8 DEF Report, TypeInv, GroupType
  <2>3. CASE ClosePending(group.next) /\ log' = log
    <3>1. pc' = "sealing" /\ group'.id = group.id /\ group'.next = group.next
      BY <1>g, <2>3 DEF ClosePending, GroupRec
    <3>2. pc \in Busy /\ pc' \in Busy
      BY <2>2, <3>1 DEF Busy
    <3>3. Begun'
      <4>1. Results' = Results
        BY <2>2, <2>3 DEF Results
      <4>2. ~\E k \in DOMAIN log' : Cut(k)' /\ log'[k].body = "interrupted"
        BY <2>2, <2>3, <3>1, <3>2, <4>1 DEF CutInv, Recorded, Cut
      <4>3. ~parallel => \A c \in Call : <<group.id, c>> \in ran => c <= group.next
        BY <3>2 DEF CutInv, Begun
      <4>. QED
        BY <2>2, <3>1, <4>2, <4>3 DEF Begun
    <3>4. ran' \subseteq ran \cup {<<group.id, c>> : c \in {}} /\ {} \in SUBSET Call
      BY <2>2
    <3>. QED
      BY <2>2, <2>3, <3>1, <3>2, <3>3, <3>4, Working
  <2>4. CASE ~(ClosePending(group.next) /\ log' = log)
    <3>1. /\ log' = Append(log, Result(group.id, group.next, body))
          /\ group' = [group EXCEPT !.next = group.next + 1]
          /\ pc' = IF parallel /\ group.next < GroupSize THEN "report" ELSE "tools"
      BY <1>8, <2>4 DEF Report
    <3>. HIDE DEF body
    <3>. QED
      BY <2>1, <2>2, <3>1, Answered
  <2>. QED
    BY <2>3, <2>4
<1>9. CASE Seal
  <2>1. CASE pc' = "closing" /\ log' = log
    <3>1. UNCHANGED <<ran, groups, meddled>> /\ pc' \notin Busy /\ NoneOpen'
      BY <1>9, <2>1 DEF Seal, Busy, NoneOpen
    <3>. QED
      BY <2>1, <3>1, Between
  <2>2. CASE ~(pc' = "closing" /\ log' = log)
    <3>1. /\ pc = "sealing" /\ pc' = "sealing" /\ group.next \in Call
          /\ log' = Append(log, Result(group.id, group.next, "interrupted"))
          /\ group' = [group EXCEPT !.next = group.next + 1]
          /\ UNCHANGED <<ran, groups, meddled, parallel>>
      BY <1>9, <2>2 DEF Seal, Interrupted
    <3>. QED
      BY <3>1, Answered
  <2>. QED
    BY <2>1, <2>2
<1>10. CASE GroupDone \/ BeginChat \/ EndTurn \/ Crash
  <2>1. pc' \in {"closing", "steering", "opening", "leftover", "idle"} /\ UNCHANGED <<log, ran, groups, meddled>>
    BY <1>10 DEF GroupDone, BeginChat, EndTurn, Crash
  <2>2. pc' \notin Busy /\ NoneOpen'
    BY <2>1 DEF Busy, NoneOpen
  <2>. QED
    BY <2>1, <2>2, Between
<1>11. CASE DrainSteering \/ PersistLeftover
  <2>1. pc' \in {"steering", "model", "closing", "leftover", "idle"} /\ UNCHANGED <<ran, groups, meddled>>
    BY <1>11 DEF DrainSteering, PersistLeftover
  <2>2. pc' \notin Busy /\ NoneOpen'
    BY <2>1 DEF Busy, NoneOpen
  <2>3. CASE log' = log
    BY <2>1, <2>2, <2>3, Between
  <2>4. CASE log' # log
    <3>1. raw # <<>> /\ log' = Append(log, Steer(Head(raw)))
      BY <1>11, <2>4 DEF DrainSteering, PersistLeftover
    <3>2. Head(raw) \in Message
      BY <1>g, <3>1, HeadTailProperties
    <3>3. Steer(Head(raw)) \in Entry /\ Steer(Head(raw)).role # "tool"
      BY <3>2 DEF Entry, Steer
    <3>. QED
      BY <2>1, <2>2, <3>1, <3>3, Between
  <2>. QED
    BY <2>3, <2>4
<1>12. CASE UNCHANGED <<log, pc, group, parallel, groups, ran, meddled>>
  <2>1. Results' = Results
    BY <1>12 DEF Results
  <2>2. Numbered' /\ NoneOpen' /\ Recorded'
    BY <1>12, <2>1 DEF CutInv, Numbered, NoneOpen, Recorded, Cut
  <2>3. Begun' /\ Noted' /\ CutInOnePlace'
    BY <1>12, <2>1 DEF CutInv, Begun, Noted, CutInOnePlace, Cut, Batched
  <2>. QED
    BY <2>2, <2>3 DEF CutInv
<1>13. CASE Cancel \/ CompressReads \/ (\E m \in Message : Enqueue(m)) \/ UNCHANGED vars
  BY <1>12, <1>13 DEF Cancel, CompressReads, Enqueue, vars, turnVars
<1>14. CASE CompressSeals
  <2>. DEFINE e == Head(healing)
              T == {x \in Entry : x.role = "tool"}
  <2>1. /\ log' = Append(log, e) /\ meddled' = meddled \cup {e.group}
        /\ UNCHANGED <<pc, group, parallel, groups, ran>> /\ healing # <<>>
    BY <1>14 DEF CompressSeals, turnVars
  <2>2. healing \in Seq(T)
    BY DEF TypeInv, LogType
  <2>. HIDE DEF T
  <2>3. e \in T
    BY <2>1, <2>2, HeadTailProperties
  <2>4. e \in Entry /\ e.role = "tool"
    BY <2>3 DEF T
  <2>. HIDE DEF e
  <2>5. /\ Results' \subseteq Results \cup {Len(log) + 1} /\ Len(log) + 1 \notin Results'
        /\ \A k \in Results : k \in DOMAIN log /\ log'[k] = log[k]
        /\ Batched \subseteq Batched'
    BY <1>g, <2>1, <2>4, ResultsGrow
  <2>6. Results' \subseteq Results
    BY <2>5
  <2>7. Numbered'
    BY <2>1, <2>5, <2>6 DEF CutInv, Numbered
  <2>8. NoneOpen'
    <3>1. CASE pc = "building"
      <4>. DEFINE o == Opener(log, Len(log))
      <4>1. o \in 0 .. Len(log) /\ Len(log) \in Nat
        BY <1>g, OpenerExists
      <4>2. Opener(log', Len(log')) = o /\ \A k \in 1 .. Len(log) : log'[k] = log[k]
        BY <1>g, <2>1, <2>4, Grown
      <4>3. \A i \in DOMAIN log : i = o => log[i].role # "calls"
        BY <3>1 DEF CutInv, NoneOpen
      <4>4. DOMAIN log = 1 .. Len(log) /\ \A i \in DOMAIN log' : i \in Nat /\ i >= 1
        BY <1>g, <2>1
      <4>. HIDE DEF o
      <4>. QED
        BY <4>1, <4>2, <4>3, <4>4 DEF NoneOpen
    <3>. QED
      BY <2>1, <3>1 DEF NoneOpen
  <2>9. \A k : Cut(k)' => Cut(k) /\ k \in DOMAIN log /\ log'[k] = log[k]
    BY <2>1, <2>5, <2>6 DEF Cut
  <2>10. Recorded'
    BY <2>1, <2>9 DEF CutInv, Recorded
  <2>11. Begun'
    BY <2>1, <2>9 DEF CutInv, Begun
  <2>12. Noted' /\ CutInOnePlace'
    BY <2>1, <2>5, <2>6 DEF CutInv, Noted, CutInOnePlace
  <2>. QED
    BY <2>7, <2>8, <2>10, <2>11, <2>12 DEF CutInv
<1>. QED
  BY <1>1, <1>2, <1>3, <1>4, <1>5, <1>6, <1>7, <1>8, <1>9, <1>10, <1>11, <1>13, <1>14 DEF Next, Step

\* CutInOnePlace, for groups of any size, any limits, any mix of sequential and concurrent
\* groups and every mix of faults: a group has one result for each call at most, in call
\* order, its results say "not completed" from one place on, and in a sequential group only
\* the call at that place may have been started.
THEOREM CutInOnePlaceHolds == Spec => []CutInOnePlace
<1>1. TypeInv /\ CutInv /\ [Next]_vars => CutInv'
  BY CutNext
<1>2. CutInv => CutInOnePlace
  BY DEF CutInv
<1>. QED
  BY <1>1, <1>2, CutInit, TypeInvHolds, PTL DEF Spec

-----------------------------------------------------------------------------
(* What is sent to the provider is valid.                                   *)

\* Nothing that is in S is left out, and nothing is doubled.
LEMMA AmongOnce ==
  ASSUME NEW T, NEW s \in Seq(T), NEW S, \A i, j \in 1 .. Len(s) : s[i] = s[j] => i = j
  PROVE  /\ \A i \in 1 .. Len(s) : s[i] \in S => \E j \in 1 .. Len(Among(s, S)) : Among(s, S)[j] = s[i]
         /\ \A i, j \in 1 .. Len(Among(s, S)) : Among(s, S)[i] = Among(s, S)[j] => i = j
<1>. DEFINE n == Len(s)
            From(r, k) == \A j \in 1 .. Len(r) : \E i \in 1 .. k : r[j] = s[i]
            Full(r, k) == \A i \in 1 .. k : s[i] \in S => \E j \in 1 .. Len(r) : r[j] = s[i]
            Once(r) == \A i, j \in 1 .. Len(r) : r[i] = r[j] => i = j
            Fit(r, k) == From(r, k) /\ Full(r, k) /\ Once(r)
<1>1. PICK f \in [0 .. n -> Seq(T)] : Only(s, S, f)
  BY AmongLoop
<1>. DEFINE U == {k \in 0 .. n : Fit(f[k], k)}
<1>2. n \in Nat
  OBVIOUS
<1>3. 0 \in U
  BY <1>1, <1>2 DEF Only
<1>4. ASSUME NEW k \in 0 .. (n - 1), k \in U PROVE k + 1 \in U
  <2>1. k + 1 \in 1 .. n /\ (k + 1) - 1 = k /\ k + 1 \in 0 .. n /\ \A i \in 1 .. (k + 1) : i \in 1 .. k \/ i = k + 1
    BY <1>2
  <2>2. f[k + 1] = IF s[k + 1] \in S THEN Append(f[k], s[k + 1]) ELSE f[k]
    BY <1>1, <2>1 DEF Only
  <2>3. f[k] \in Seq(T) /\ Fit(f[k], k) /\ s[k + 1] \in T
    BY <1>4, <2>1
  <2>4. ASSUME NEW r \in Seq(T), Fit(r, k) PROVE Fit(Append(r, s[k + 1]), k + 1)
    <3>. DEFINE a == Append(r, s[k + 1])
                m == Len(r)
    <3>1. /\ m \in Nat /\ Len(a) = m + 1 /\ a[m + 1] = s[k + 1] /\ \A j \in 1 .. m : a[j] = r[j]
          /\ \A j \in 1 .. (m + 1) : j \in 1 .. m \/ j = m + 1
      BY <2>3
    <3>. HIDE DEF a, m
    <3>2. \A j \in 1 .. m : \E i \in 1 .. k : r[j] = s[i]
      BY <2>4 DEF m
    <3>3. From(a, k + 1)
      BY <2>1, <3>1, <3>2
    <3>4. Full(a, k + 1)
      <4>1. \A i \in 1 .. k : s[i] \in S => \E j \in 1 .. m : r[j] = s[i]
        BY <2>4 DEF m
      <4>. QED
        BY <2>1, <3>1, <4>1
    <3>5. Once(a)
      <4>1. \A i, j \in 1 .. m : r[i] = r[j] => i = j
        BY <2>4 DEF m
      <4>2. \A j \in 1 .. m : a[j] # s[k + 1]
        BY <2>1, <3>1, <3>2
      <4>. QED
        BY <3>1, <4>1, <4>2
    <3>. QED
      BY <3>3, <3>4, <3>5 DEF a
  <2>5. ASSUME s[k + 1] \notin S, NEW r \in Seq(T), Fit(r, k) PROVE Fit(r, k + 1)
    <3>1. From(r, k + 1)
      BY <2>1, <2>5
    <3>2. Full(r, k + 1)
      BY <2>1, <2>5
    <3>. QED
      BY <2>5, <3>1, <3>2
  <2>6. Fit(f[k + 1], k + 1)
    <3>. HIDE DEF Fit
    <3>. QED
      BY <2>2, <2>3, <2>4, <2>5
  <2>. QED
    BY <2>1, <2>6
<1>5. n \in U
  <2>. HIDE DEF U
  <2>1. \A k \in 0 .. n : k \in U
    BY <1>2, <1>3, <1>4, UpTo
  <2>. QED
    BY <1>2, <2>1
<1>. QED
  BY <1>1, <1>5 DEF Only

\* Each of the calls asked for gets one made-up result.
LEMMA MadeUpOnce ==
  ASSUME NEW g, NEW C \in SUBSET Call
  PROVE  /\ \A c \in C : \E j \in 1 .. Len(MadeUp(g, C)) : MadeUp(g, C)[j] = Interrupted(g, c)
         /\ \A i, j \in 1 .. Len(MadeUp(g, C)) : MadeUp(g, C)[i].call = MadeUp(g, C)[j].call => i = j
         /\ \A j \in 1 .. Len(MadeUp(g, C)) : \E c \in C : MadeUp(g, C)[j] = Interrupted(g, c)
<1>. DEFINE T == {Interrupted(g, c) : c \in Call}
            S == {Interrupted(g, c) : c \in C}
            s == [c \in Call |-> Interrupted(g, c)]
            r == MadeUp(g, C)
<1>1. s \in Seq(T) /\ Len(s) = GroupSize /\ \A c \in Call : s[c] = Interrupted(g, c)
  BY TurnAssumption DEF Call
<1>2. \A a, b \in Call : Interrupted(g, a) = Interrupted(g, b) => a = b
  BY DEF Interrupted, Result
<1>3. \A i, j \in 1 .. Len(s) : s[i] = s[j] => i = j
  BY <1>1, <1>2 DEF Call
<1>4. r = Among(s, S)
  BY DEF MadeUp
<1>. HIDE DEF s, T, S, r
<1>5. /\ \A i \in 1 .. Len(s) : s[i] \in S => \E j \in 1 .. Len(r) : r[j] = s[i]
      /\ \A i, j \in 1 .. Len(r) : r[i] = r[j] => i = j
  BY <1>1, <1>3, <1>4, AmongOnce
<1>6. \A j \in 1 .. Len(r) : r[j] \in S
  BY <1>1, <1>4, AmongWithin
<1>7. \A c \in C : \E j \in 1 .. Len(r) : r[j] = Interrupted(g, c)
  <2>. SUFFICES ASSUME NEW c \in C PROVE \E j \in 1 .. Len(r) : r[j] = Interrupted(g, c)
    OBVIOUS
  <2>1. c \in 1 .. Len(s) /\ s[c] = Interrupted(g, c)
    BY <1>1 DEF Call
  <2>2. s[c] \in S
    BY <2>1 DEF S
  <2>. QED
    BY <1>5, <2>1, <2>2
<1>8. \A j \in 1 .. Len(r) : \E c \in C : r[j] = Interrupted(g, c)
  BY <1>6 DEF S
<1>9. \A i, j \in 1 .. Len(r) : r[i].call = r[j].call => i = j
  <2>. SUFFICES ASSUME NEW i \in 1 .. Len(r), NEW j \in 1 .. Len(r), r[i].call = r[j].call PROVE i = j
    OBVIOUS
  <2>1. PICK a \in C, b \in C : r[i] = Interrupted(g, a) /\ r[j] = Interrupted(g, b)
    BY <1>8
  <2>2. a = b
    BY <2>1 DEF Interrupted, Result
  <2>. QED
    BY <1>5, <2>1, <2>2
<1>. QED
  BY <1>7, <1>8, <1>9 DEF r

\* The entries of out up to q are as validateProviderPayload wants them.
Fine(out, q) ==
  \A i \in 1 .. q :
    /\ out[i].role = "calls" =>
         \A c \in Call : \E k \in (i + 1) .. (i + GroupSize) :
           k \in DOMAIN out /\ IsResult(out[k], out[i].group, c)
    /\ out[i].role = "tool" =>
         \E j \in DOMAIN out : /\ out[j].role = "calls" /\ out[j].group = out[i].group
                               /\ j < i /\ i <= j + GroupSize

\* Results of group g for each of the calls A, and each once.
Gathers(t, from, g, A) ==
  /\ \A j \in from .. Len(t) : t[j].role = "tool" /\ t[j].group = g /\ t[j].call \in A
  /\ \A c \in A : \E j \in from .. Len(t) : t[j].call = c
  /\ \A i, j \in from .. Len(t) : t[i].call = t[j].call => i = j

\* The output ends with group g, whose calls are at p, and with results of the calls A.
Gathered(out, p, g, A) ==
  /\ p \in 1 .. Len(out) /\ Fine(out, p - 1)
  /\ out[p].role = "calls" /\ out[p].group = g
  /\ Gathers(out, p + 1, g, A)

\* What was fine stays so when more is appended.
LEMMA FineStays ==
  ASSUME NEW out \in Seq(Entry), NEW t \in Seq(Entry), NEW q \in 0 .. Len(out), Fine(out, q)
  PROVE  Fine(out \o t, q)
<1>. DEFINE a == out \o t
<1>1. DOMAIN out \subseteq DOMAIN a /\ \A k \in DOMAIN out : a[k] = out[k]
  OBVIOUS
<1>2. \A i \in 1 .. q : i \in DOMAIN out
  OBVIOUS
<1>. HIDE DEF a
<1>3. ASSUME NEW i \in 1 .. q, a[i].role = "calls", NEW c \in Call
      PROVE  \E k \in (i + 1) .. (i + GroupSize) : k \in DOMAIN a /\ IsResult(a[k], a[i].group, c)
  <2>1. out[i].role = "calls" /\ a[i] = out[i]
    BY <1>1, <1>2, <1>3
  <2>2. PICK k \in (i + 1) .. (i + GroupSize) : k \in DOMAIN out /\ IsResult(out[k], out[i].group, c)
    BY <2>1 DEF Fine
  <2>3. k \in DOMAIN a /\ a[k] = out[k]
    BY <1>1, <2>2
  <2>. QED
    BY <2>1, <2>2, <2>3
<1>4. ASSUME NEW i \in 1 .. q, a[i].role = "tool"
      PROVE  \E j \in DOMAIN a : a[j].role = "calls" /\ a[j].group = a[i].group /\ j < i /\ i <= j + GroupSize
  <2>1. out[i].role = "tool" /\ a[i] = out[i]
    BY <1>1, <1>2, <1>4
  <2>2. PICK j \in DOMAIN out : /\ out[j].role = "calls" /\ out[j].group = out[i].group
                                /\ j < i /\ i <= j + GroupSize
    BY <2>1 DEF Fine
  <2>3. j \in DOMAIN a /\ a[j] = out[j]
    BY <1>1, <2>2
  <2>. QED
    BY <2>1, <2>2, <2>3
<1>. QED
  BY <1>3, <1>4 DEF Fine, a

\* More results are gathered.
LEMMA GatheredMore ==
  ASSUME NEW out \in Seq(Entry), NEW p, NEW g, NEW A, Gathered(out, p, g, A),
         NEW t \in Seq(Entry), NEW B, Gathers(t, 1, g, B), A \cap B = {}
  PROVE  Gathered(out \o t, p, g, A \cup B)
<1>. DEFINE a == out \o t
            n == Len(out)
            m == Len(t)
<1>1. /\ n \in Nat /\ m \in Nat /\ Len(a) = n + m
      /\ \A k \in 1 .. n : a[k] = out[k]
      /\ \A k \in 1 .. m : a[n + k] = t[k]
  OBVIOUS
<1>2. p \in 1 .. n /\ p - 1 \in 0 .. n /\ Fine(out, p - 1) /\ Gathers(out, p + 1, g, A)
  BY DEF Gathered
<1>3. Fine(a, p - 1)
  BY <1>2, FineStays
<1>4. \A j \in (p + 1) .. n : out[j].role = "tool" /\ out[j].group = g /\ out[j].call \in A
  BY <1>2 DEF Gathers
<1>5. \A j \in 1 .. m : t[j].role = "tool" /\ t[j].group = g /\ t[j].call \in B
  BY DEF Gathers
<1>. HIDE DEF a, n, m
<1>6. \A k \in (p + 1) .. (n + m) :
        \/ k \in (p + 1) .. n /\ a[k] = out[k]
        \/ k - n \in 1 .. m /\ a[k] = t[k - n]
  <2>. SUFFICES ASSUME NEW k \in (p + 1) .. (n + m)
                PROVE  \/ k \in (p + 1) .. n /\ a[k] = out[k]
                       \/ k - n \in 1 .. m /\ a[k] = t[k - n]
    OBVIOUS
  <2>1. CASE k <= n
    BY <1>1, <1>2, <2>1
  <2>2. CASE k > n
    <3>1. k - n \in 1 .. m /\ n + (k - n) = k
      BY <1>1, <1>2, <2>2
    <3>2. a[n + (k - n)] = t[k - n]
      BY <1>1, <3>1
    <3>. QED
      BY <3>1, <3>2
  <2>. QED
    BY <1>1, <1>2, <2>1, <2>2
<1>7. ASSUME NEW k \in (p + 1) .. (n + m)
      PROVE  a[k].role = "tool" /\ a[k].group = g /\ a[k].call \in A \cup B
  BY <1>4, <1>5, <1>6
<1>8. ASSUME NEW c \in A \cup B PROVE \E k \in (p + 1) .. (n + m) : a[k].call = c
  <2>1. CASE c \in A
    <3>1. PICK k \in (p + 1) .. n : out[k].call = c
      BY <1>2, <2>1 DEF Gathers, n
    <3>2. k \in 1 .. n /\ k \in (p + 1) .. (n + m)
      BY <1>1, <1>2
    <3>. QED
      BY <1>1, <3>1, <3>2
  <2>2. CASE c \in B
    <3>1. PICK k \in 1 .. m : t[k].call = c
      BY <2>2 DEF Gathers, m
    <3>2. n + k \in (p + 1) .. (n + m) /\ a[n + k] = t[k]
      BY <1>1, <1>2
    <3>. QED
      BY <3>1, <3>2
  <2>. QED
    BY <2>1, <2>2
<1>9. ASSUME NEW i \in (p + 1) .. (n + m), NEW j \in (p + 1) .. (n + m), a[i].call = a[j].call
      PROVE  i = j
  <2>1. \A k, l \in (p + 1) .. n : out[k].call = out[l].call => k = l
    BY <1>2 DEF Gathers, n
  <2>2. \A k, l \in 1 .. m : t[k].call = t[l].call => k = l
    BY DEF Gathers, m
  <2>3. CASE i \in (p + 1) .. n /\ a[i] = out[i] /\ j \in (p + 1) .. n /\ a[j] = out[j]
    BY <1>9, <2>1, <2>3
  <2>4. CASE i - n \in 1 .. m /\ a[i] = t[i - n] /\ j - n \in 1 .. m /\ a[j] = t[j - n]
    <3>1. i - n = j - n
      BY <1>9, <2>2, <2>4
    <3>. QED
      BY <1>1, <1>2, <3>1
  <2>5. CASE i \in (p + 1) .. n /\ a[i] = out[i] /\ j - n \in 1 .. m /\ a[j] = t[j - n]
    BY <1>4, <1>5, <1>9, <2>5
  <2>6. CASE i - n \in 1 .. m /\ a[i] = t[i - n] /\ j \in (p + 1) .. n /\ a[j] = out[j]
    BY <1>4, <1>5, <1>9, <2>6
  <2>. QED
    BY <1>6, <2>3, <2>4, <2>5, <2>6
<1>10. Gathers(a, p + 1, g, A \cup B)
  BY <1>1, <1>7, <1>8, <1>9 DEF Gathers
<1>11. p \in 1 .. Len(a) /\ a[p].role = "calls" /\ a[p].group = g
  BY <1>1, <1>2 DEF Gathered
<1>. QED
  BY <1>3, <1>10, <1>11 DEF Gathered, a

\* A group that has all its results, each once, is as long as it may be.
LEMMA Completed ==
  ASSUME NEW out \in Seq(Entry), NEW p, NEW g, Gathered(out, p, g, Call)
  PROVE  Fine(out, Len(out))
<1>. DEFINE n == Len(out)
<1>1. n \in Nat /\ p \in 1 .. n /\ Fine(out, p - 1) /\ GroupSize \in Nat /\ DOMAIN out = 1 .. n
  BY TurnAssumption DEF Gathered
<1>2. /\ \A j \in (p + 1) .. n : out[j].role = "tool" /\ out[j].group = g /\ out[j].call \in Call
      /\ \A c \in Call : \E j \in (p + 1) .. n : out[j].call = c
      /\ \A i, j \in (p + 1) .. n : out[i].call = out[j].call => i = j
      /\ out[p].role = "calls" /\ out[p].group = g
  BY DEF Gathered, Gathers
<1>. HIDE DEF n
<1>3. n <= p + GroupSize
  <2>. SUFFICES ASSUME n > p + GroupSize PROVE FALSE
    BY <1>1
  <2>. DEFINE S == (p + 1) .. n
              f == [j \in S |-> out[j].call]
  <2>1. IsFiniteSet(S) /\ Cardinality(S) = n - p
    BY <1>1, FS_Interval
  <2>2. IsFiniteSet(Call) /\ Cardinality(Call) = GroupSize
    BY <1>1, TurnAssumption, FS_Interval DEF Call
  <2>3. f \in [S -> Call]
    BY <1>2
  <2>4. Cardinality(Call) < Cardinality(S)
    BY <1>1, <2>1, <2>2
  <2>5. \A i, j \in S : f[i] = f[j] => i = j
    BY <1>2
  <2>. HIDE DEF S, f
  <2>6. \E x, y \in S : x # y /\ f[x] = f[y]
    BY <2>1, <2>2, <2>3, <2>4, FS_PigeonHole
  <2>. QED
    BY <2>5, <2>6
<1>4. ASSUME NEW i \in 1 .. n, out[i].role = "calls", NEW c \in Call
      PROVE  \E k \in (i + 1) .. (i + GroupSize) : k \in DOMAIN out /\ IsResult(out[k], out[i].group, c)
  <2>1. CASE i < p
    <3>1. i \in 1 .. (p - 1)
      BY <1>1, <2>1
    <3>. QED
      BY <1>1, <1>4, <3>1 DEF Fine
  <2>2. CASE i = p
    <3>1. PICK k \in (p + 1) .. n : out[k].call = c
      BY <1>2
    <3>2. k \in (i + 1) .. (i + GroupSize) /\ k \in DOMAIN out
      BY <1>1, <1>3, <2>2
    <3>3. IsResult(out[k], out[i].group, c)
      BY <1>2, <2>2, <3>1 DEF IsResult
    <3>. QED
      BY <3>2, <3>3
  <2>3. CASE i > p
    <3>1. i \in (p + 1) .. n
      BY <1>1, <2>3
    <3>. QED
      BY <1>2, <1>4, <3>1
  <2>. QED
    BY <1>1, <2>1, <2>2, <2>3
<1>5. ASSUME NEW i \in 1 .. n, out[i].role = "tool"
      PROVE  \E j \in DOMAIN out : /\ out[j].role = "calls" /\ out[j].group = out[i].group
                                   /\ j < i /\ i <= j + GroupSize
  <2>1. CASE i < p
    <3>1. i \in 1 .. (p - 1)
      BY <1>1, <2>1
    <3>. QED
      BY <1>1, <1>5, <3>1 DEF Fine
  <2>2. CASE i = p
    BY <1>2, <1>5, <2>2
  <2>3. CASE i > p
    <3>1. i \in (p + 1) .. n /\ p < i /\ i <= p + GroupSize /\ p \in DOMAIN out
      BY <1>1, <1>3, <2>3
    <3>. QED
      BY <1>2, <3>1
  <2>. QED
    BY <1>1, <2>1, <2>2, <2>3
<1>6. Fine(out, n)
  BY <1>4, <1>5 DEF Fine
<1>. QED
  BY <1>6 DEF n

\* The calls of the last group up to k that have a result by then.
Replied(s, k) ==
  {c \in Call : \E j \in (Opener(s, k) + 1) .. k : s[j].group = s[Opener(s, k)].group /\ s[j].call = c}

\* Between the openers, the opener stays.
LEMMA OpenerStays ==
  ASSUME NEW s \in Seq(Entry), NEW k \in 1 .. Len(s), NEW j \in Opener(s, k) .. k
  PROVE  Opener(s, j) = Opener(s, k)
<1>. DEFINE o == Opener(s, k)
<1>1. o \in 0 .. k /\ (o = 0 \/ s[o].role # "tool") /\ \A i \in (o + 1) .. k : s[i].role = "tool"
  BY OpenerExists
<1>2. j \in o .. k
  OBVIOUS
<1>. HIDE DEF o
<1>3. j \in Nat /\ o \in 0 .. j /\ \A i \in (o + 1) .. j : s[i].role = "tool"
  BY <1>1, <1>2
<1>4. Opener(s, j) = o
  BY <1>1, <1>3, OpenerIs
<1>. QED
  BY <1>4 DEF o

\* A result is kept when it is of its group and the first of its call.
LEMMA KeptIs ==
  ASSUME NEW s \in Seq(Entry), NEW k \in 1 .. Len(s), s[k].role = "tool"
  PROVE  /\ Opener(s, k - 1) = Opener(s, k) /\ Opener(s, k) \in 0 .. (k - 1)
         /\ Kept(s, k) <=> /\ Opener(s, k) > 0 /\ s[Opener(s, k)].role = "calls"
                           /\ s[k].group = s[Opener(s, k)].group
                           /\ s[k].call \notin Replied(s, k - 1)
<1>. DEFINE o == Opener(s, k)
            R == Replied(s, k - 1)
<1>1. o \in 0 .. k /\ (o = 0 \/ s[o].role # "tool")
  BY OpenerExists
<1>2. o \in 0 .. (k - 1) /\ k - 1 \in o .. k
  BY <1>1
<1>3. Opener(s, k - 1) = o
  BY <1>2, OpenerStays
<1>4. s[k].call \in Call
  <2>1. s[k] \in Entry
    OBVIOUS
  <2>. QED
    BY <2>1, EntryKinds
<1>5. \A j \in (o + 1) .. (k - 1) : Opener(s, j) = o
  <2>. SUFFICES ASSUME NEW j \in (o + 1) .. (k - 1) PROVE Opener(s, j) = o
    OBVIOUS
  <2>1. j \in o .. k
    BY <1>1
  <2>. QED
    BY <2>1, OpenerStays
<1>6. \A c : c \in R <=> c \in Call /\ \E j \in (o + 1) .. (k - 1) : s[j].group = s[o].group /\ s[j].call = c
  BY <1>3 DEF Replied
<1>. HIDE DEF o, R
<1>7. ASSUME Kept(s, k)
      PROVE  o > 0 /\ s[o].role = "calls" /\ s[k].group = s[o].group /\ s[k].call \notin R
  <2>1. PICK i \in DOMAIN s : /\ Answers(s, i, k)
                              /\ \A j \in 1 .. (k - 1) : Answers(s, i, j) => s[j].call # s[k].call
    BY <1>7 DEF Kept
  <2>2. i = o /\ i > 0 /\ s[o].role = "calls" /\ s[k].group = s[o].group
    BY <2>1 DEF Answers, o
  <2>3. \A j \in (o + 1) .. (k - 1) : s[j].group = s[o].group => s[j].call # s[k].call
    <3>. SUFFICES ASSUME NEW j \in (o + 1) .. (k - 1), s[j].group = s[o].group PROVE s[j].call # s[k].call
      OBVIOUS
    <3>1. o < j /\ o = Opener(s, j) /\ j \in 1 .. (k - 1)
      BY <1>1, <1>5
    <3>2. Answers(s, o, j)
      BY <2>2, <3>1 DEF Answers
    <3>. QED
      BY <2>1, <2>2, <3>1, <3>2
  <2>. QED
    BY <1>6, <2>2, <2>3
<1>8. ASSUME o > 0, s[o].role = "calls", s[k].group = s[o].group, s[k].call \notin R
      PROVE  Kept(s, k)
  <2>1. o \in DOMAIN s /\ o < k
    BY <1>2, <1>8
  <2>2. Answers(s, o, k)
    BY <1>8, <2>1 DEF Answers, o
  <2>3. ASSUME NEW j \in 1 .. (k - 1), Answers(s, o, j) PROVE s[j].call # s[k].call
    <3>1. j \in (o + 1) .. (k - 1) /\ s[j].group = s[o].group
      BY <1>1, <2>3 DEF Answers
    <3>. QED
      BY <1>4, <1>6, <1>8, <3>1
  <2>. QED
    BY <2>1, <2>2, <2>3 DEF Kept
<1>. QED
  BY <1>2, <1>3, <1>7, <1>8 DEF o, R

\* What a group lacks when it ends is what it was not replied to.
LEMMA UnansweredIs ==
  ASSUME NEW s \in Seq(Entry), NEW k \in 1 .. Len(s), EndsGroup(s, k),
         Opener(s, k) > 0, s[Opener(s, k)].role = "calls"
  PROVE  Unanswered(s, Opener(s, k)) = Call \ Replied(s, k)
<1>. DEFINE o == Opener(s, k)
<1>1. o \in 0 .. k /\ (o = 0 \/ s[o].role # "tool") /\ \A i \in (o + 1) .. k : s[i].role = "tool"
  BY OpenerExists
<1>2. \A j \in (o + 1) .. k : Opener(s, j) = o
  <2>. SUFFICES ASSUME NEW j \in (o + 1) .. k PROVE Opener(s, j) = o
    OBVIOUS
  <2>1. j \in o .. k
    BY <1>1
  <2>. QED
    BY <2>1, OpenerStays
<1>3. o > 0 /\ s[o].role = "calls"
  OBVIOUS
<1>4. Replied(s, k) = {c \in Call : \E j \in (o + 1) .. k : s[j].group = s[o].group /\ s[j].call = c}
  BY DEF Replied
<1>. HIDE DEF o
<1>5. ASSUME NEW j \in DOMAIN s, Answers(s, o, j) PROVE j \in (o + 1) .. k
  <2>. SUFFICES ASSUME j > k PROVE FALSE
    BY <1>1, <1>5 DEF Answers
  <2>1. k + 1 \in 1 .. Len(s) /\ k + 1 \in 1 .. j /\ k + 1 > o
    BY <1>1
  <2>2. s[k + 1].role # "tool"
    BY <2>1 DEF EndsGroup
  <2>3. \A i \in (o + 1) .. j : s[i].role = "tool"
    <3>1. Opener(s, j) = o /\ j \in Nat
      BY <1>5 DEF Answers
    <3>. QED
      BY <3>1, OpenerExists
  <2>. QED
    BY <1>1, <2>1, <2>2, <2>3
<1>6. ASSUME NEW j \in (o + 1) .. k, s[j].group = s[o].group PROVE j \in DOMAIN s /\ Answers(s, o, j)
  BY <1>1, <1>2, <1>3, <1>6 DEF Answers
<1>7. \A c \in Call : (\E j \in DOMAIN s : Answers(s, o, j) /\ s[j].call = c) <=> c \in Replied(s, k)
  <2>. SUFFICES ASSUME NEW c \in Call
                PROVE (\E j \in DOMAIN s : Answers(s, o, j) /\ s[j].call = c) <=> c \in Replied(s, k)
    OBVIOUS
  <2>1. ASSUME NEW j \in DOMAIN s, Answers(s, o, j), s[j].call = c PROVE c \in Replied(s, k)
    <3>1. j \in (o + 1) .. k /\ s[j].group = s[o].group
      BY <1>5, <2>1 DEF Answers
    <3>. QED
      BY <1>4, <2>1, <3>1
  <2>2. ASSUME c \in Replied(s, k) PROVE \E j \in DOMAIN s : Answers(s, o, j) /\ s[j].call = c
    BY <1>4, <1>6, <2>2
  <2>. QED
    BY <2>1, <2>2
<1>8. Unanswered(s, o) = Call \ Replied(s, k)
  BY <1>3, <1>7 DEF Unanswered
<1>. QED
  BY <1>8 DEF o

\* The output when k entries are through: it ends with the last group and its results so
\* far, if there is one, and is fine before it.
Midway(s, k, out) ==
  LET o == Opener(s, k) IN
    IF o > 0 /\ s[o].role = "calls"
    THEN \E p : Gathered(out, p, s[o].group, Replied(s, k))
    ELSE Fine(out, Len(out))

Through(s, k, out) == IF k = 0 \/ EndsGroup(s, k) THEN Fine(out, Len(out)) ELSE Midway(s, k, out)

LEMMA EntriesJoin ==
  ASSUME NEW x \in Seq(Entry), NEW y \in Seq(Entry), NEW z \in Seq(Entry)
  PROVE  (x \o y) \o z = x \o (y \o z)
BY ConcatAssociative

LEMMA KeepsFine ==
  ASSUME NEW s \in Seq(Entry), NEW k \in 1 .. Len(s), NEW out \in Seq(Entry), Through(s, k - 1, out)
  PROVE  Midway(s, k, out \o (IF Kept(s, k) THEN <<s[k]>> ELSE <<>>))
<1>. DEFINE o == Opener(s, k)
            e == s[k]
            a == out \o <<e>>
            n == Len(out)
            g == s[o].group
            R == Replied(s, k - 1)
<1>1. e \in Entry /\ n \in Nat /\ k - 1 \in 0 .. Len(s) /\ (k - 1) + 1 = k /\ k - 1 # Len(s)
  OBVIOUS
<1>2. /\ <<e>> \in Seq(Entry) /\ Len(<<e>>) = 1 /\ <<e>>[1] = e
      /\ a \in Seq(Entry) /\ Len(a) = n + 1 /\ a[n + 1] = e
  BY <1>1
<1>3. out \o <<>> = out
  BY ConcatEmptySeq
<1>4. CASE e.role # "tool"
  <2>1. Fine(out, n)
    <3>1. k - 1 = 0 \/ EndsGroup(s, k - 1)
      BY <1>1, <1>4 DEF EndsGroup
    <3>. QED
      BY <3>1 DEF Through
  <2>2. o = k
    <3>1. k \in 0 .. k /\ k \in Nat /\ \A i \in (k + 1) .. k : s[i].role = "tool"
      OBVIOUS
    <3>. QED
      BY <1>4, <3>1, OpenerIs
  <2>3. Fine(a, n)
    <3>1. n \in 0 .. Len(out)
      BY <1>1
    <3>. HIDE DEF e, n
    <3>. QED
      BY <1>2, <2>1, <3>1, FineStays
  <2>4. Kept(s, k)
    BY <1>4 DEF Kept
  <2>5. CASE e.role = "calls"
    <3>1. Replied(s, k) = {}
      BY <2>2 DEF Replied
    <3>. HIDE DEF a, n
    <3>2. Gathers(a, (n + 1) + 1, e.group, {})
      BY <1>1, <1>2 DEF Gathers
    <3>3. n + 1 \in 1 .. Len(a) /\ (n + 1) - 1 = n
      BY <1>1, <1>2
    <3>. HIDE DEF e
    <3>4. Gathered(a, n + 1, e.group, {})
      BY <1>2, <2>3, <2>5, <3>2, <3>3 DEF Gathered
    <3>5. o > 0 /\ s[o].role = "calls" /\ g = e.group
      BY <1>1, <2>2, <2>5 DEF e
    <3>6. Midway(s, k, a)
      BY <3>1, <3>4, <3>5 DEF Midway
    <3>. QED
      BY <2>4, <3>6 DEF a, e
  <2>6. CASE e.role # "calls"
    <3>. HIDE DEF a, n, e
    <3>1. \A i \in 1 .. (n + 1) : i \in 1 .. n \/ i = n + 1
      BY <1>1
    <3>2. Fine(a, n + 1)
      BY <1>2, <1>4, <2>3, <2>6, <3>1 DEF Fine
    <3>3. Midway(s, k, a)
      BY <1>2, <2>2, <2>6, <3>2 DEF Midway, e
    <3>. QED
      BY <2>4, <3>3 DEF a, e
  <2>. QED
    BY <2>5, <2>6
<1>5. CASE e.role = "tool"
  <2>1. /\ Opener(s, k - 1) = o /\ o \in 0 .. (k - 1)
        /\ Kept(s, k) <=> (o > 0 /\ s[o].role = "calls" /\ e.group = g /\ e.call \notin R)
    BY <1>5, KeptIs
  <2>2. e.call \in Call
    BY <1>1, <1>5, EntryKinds
  <2>3. CASE o > 0 /\ s[o].role = "calls"
    <3>1. k - 1 # 0 /\ ~EndsGroup(s, k - 1)
      BY <1>1, <1>5, <2>1, <2>3 DEF EndsGroup
    <3>2. PICK p : Gathered(out, p, g, R)
      BY <2>1, <2>3, <3>1 DEF Through, Midway
    <3>3. \A c : c \in Replied(s, k) <=> c \in R \/ (c = e.call /\ e.group = g)
      <4>1. R = {c \in Call : \E j \in (o + 1) .. (k - 1) : s[j].group = g /\ s[j].call = c}
        BY <2>1 DEF Replied
      <4>2. Replied(s, k) = {c \in Call : \E j \in (o + 1) .. k : s[j].group = g /\ s[j].call = c}
        BY DEF Replied
      <4>3. k \in (o + 1) .. k /\ \A j \in (o + 1) .. k : j \in (o + 1) .. (k - 1) \/ j = k
        BY <2>1
      <4>4. (o + 1) .. (k - 1) \subseteq (o + 1) .. k
        BY <2>1
      <4>. HIDE DEF o, R, g
      <4>. QED
        BY ONLY <2>2, <4>1, <4>2, <4>3, <4>4 DEF e
    <3>4. CASE Kept(s, k)
      <4>. HIDE DEF e, o, g, R
      <4>1. e.group = g /\ e.call \notin R
        BY <2>1, <3>4
      <4>2. Gathers(<<e>>, 1, g, {e.call})
        BY <1>2, <1>5, <4>1 DEF Gathers
      <4>3. Gathered(out \o <<e>>, p, g, R \cup {e.call})
        <5>1. R \cap {e.call} = {}
          BY <4>1
        <5>. QED
          BY <1>2, <3>2, <4>2, <5>1, GatheredMore
      <4>4. Replied(s, k) = R \cup {e.call}
        BY <3>3, <4>1
      <4>5. Midway(s, k, a)
        BY <2>3, <4>3, <4>4 DEF Midway, o, g
      <4>. QED
        BY <3>4, <4>5 DEF e
    <3>5. CASE ~Kept(s, k)
      <4>1. Replied(s, k) = R
        BY <2>1, <2>3, <3>3, <3>5
      <4>2. Midway(s, k, out)
        BY <2>3, <3>2, <4>1 DEF Midway
      <4>. QED
        BY <1>3, <3>5, <4>2
    <3>. QED
      BY <3>4, <3>5
  <2>4. CASE ~(o > 0 /\ s[o].role = "calls")
    <3>1. ~Kept(s, k)
      BY <2>1, <2>4
    <3>2. Fine(out, Len(out))
      BY <2>1, <2>4 DEF Through, Midway
    <3>3. Midway(s, k, out)
      BY <2>4, <3>2 DEF Midway
    <3>. QED
      BY <1>3, <3>1, <3>3
  <2>. QED
    BY <2>3, <2>4
<1>. QED
  BY <1>4, <1>5

LEMMA EndsFine ==
  ASSUME NEW s \in Seq(Entry), NEW k \in 1 .. Len(s), NEW out \in Seq(Entry), Midway(s, k, out),
         EndsGroup(s, k),
         NEW b, b = IF Unanswered(s, Opener(s, k)) # {}
                    THEN MadeUp(s[Opener(s, k)].group, Unanswered(s, Opener(s, k))) ELSE <<>>
  PROVE  Fine(out \o b, Len(out \o b))
<1>. DEFINE o == Opener(s, k)
            g == s[o].group
            R == Replied(s, k)
            B == Unanswered(s, o)
<1>0. out \o <<>> = out
  BY ConcatEmptySeq
<1>1. CASE ~(o > 0 /\ s[o].role = "calls")
  <2>1. B = {} /\ Fine(out, Len(out))
    BY <1>1 DEF Unanswered, Midway
  <2>. QED
    BY <1>0, <2>1
<1>2. CASE o > 0 /\ s[o].role = "calls"
  <2>1. B = Call \ R /\ R \subseteq Call
    BY <1>2, UnansweredIs DEF Replied
  <2>2. PICK p : Gathered(out, p, g, R)
    BY <1>2 DEF Midway
  <2>3. CASE B = {}
    <3>1. R = Call
      BY <2>1, <2>3
    <3>2. Fine(out, Len(out))
      BY <2>2, <3>1, Completed
    <3>. QED
      BY <1>0, <2>3, <3>2
  <2>4. CASE B # {}
    <3>1. b = MadeUp(g, B) /\ B \in SUBSET Call
      BY <2>1, <2>4
    <3>2. b \in Seq(Entry)
      <4>. DEFINE T == {x \in Entry : x.role = "tool"}
      <4>1. k \in 0 .. Len(s) /\ T \subseteq Entry
        OBVIOUS
      <4>2. b \in Seq(T)
        BY <2>4, <3>1, <4>1, MadeUpEntries
      <4>. HIDE DEF T
      <4>. QED
        BY <4>1, <4>2, SeqMonotonic
    <3>. HIDE DEF o, g, R, B
    <3>3. Gathers(b, 1, g, B)
      <4>1. /\ \A c \in B : \E j \in 1 .. Len(b) : b[j] = Interrupted(g, c)
            /\ \A i, j \in 1 .. Len(b) : b[i].call = b[j].call => i = j
            /\ \A j \in 1 .. Len(b) : \E c \in B : b[j] = Interrupted(g, c)
        <5>. DEFINE m == MadeUp(g, B)
        <5>1. /\ \A c \in B : \E j \in 1 .. Len(m) : m[j] = Interrupted(g, c)
              /\ \A i, j \in 1 .. Len(m) : m[i].call = m[j].call => i = j
              /\ \A j \in 1 .. Len(m) : \E c \in B : m[j] = Interrupted(g, c)
          BY <3>1, MadeUpOnce
        <5>2. b = m
          BY <3>1
        <5>. HIDE DEF m
        <5>. QED
          BY ONLY <5>1, <5>2
      <4>2. \A c : Interrupted(g, c).role = "tool" /\ Interrupted(g, c).group = g /\ Interrupted(g, c).call = c
        BY DEF Interrupted, Result
      <4>3. \A c \in B : \E j \in 1 .. Len(b) : b[j].call = c
        BY <4>1, <4>2
      <4>4. \A j \in 1 .. Len(b) : b[j].role = "tool" /\ b[j].group = g /\ b[j].call \in B
        BY <4>1, <4>2
      <4>. QED
        BY <4>1, <4>3, <4>4 DEF Gathers
    <3>4. Gathered(out \o b, p, g, R \cup B) /\ R \cup B = Call
      <4>1. R \cap B = {} /\ R \cup B = Call
        BY <2>1
      <4>. QED
        BY <2>2, <3>2, <3>3, <4>1, GatheredMore
    <3>5. Gathered(out \o b, p, g, Call)
      BY ONLY <3>4
    <3>. DEFINE w == out \o b
    <3>6. w \in Seq(Entry)
      BY <3>2
    <3>. HIDE DEF w
    <3>7. Gathered(w, p, g, Call)
      BY <3>5 DEF w
    <3>8. Fine(w, Len(w))
      BY ONLY <3>6, <3>7, Completed
    <3>. QED
      BY <3>8 DEF w
  <2>. QED
    BY <2>3, <2>4
<1>. QED
  BY <1>1, <1>2

\* sanitizeIndexedMessages makes a valid payload of any transcript whatever.
THEOREM SanitizeValid ==
  ASSUME NEW s \in Seq(Entry)
  PROVE  Valid(Sanitize(s))
<1>. DEFINE n == Len(s)
            ss == [k \in DOMAIN s |-> Repaired(s, k)]
<1>1. ss \in Seq(Seq(Entry)) /\ Len(ss) = n /\ n \in Nat /\ \A k \in 1 .. n : ss[k] = Repaired(s, k)
  BY RepairedAll
<1>2. PICK f \in [0 .. n -> Seq(Entry)] : Flat(ss, f)
  <2>. HIDE DEF ss, n
  <2>. QED
    BY <1>1, FlattenLoop
<1>3. f[0] = <<>> /\ Sanitize(s) = f[n] /\ \A k \in 1 .. n : f[k] = f[k - 1] \o Repaired(s, k)
  BY <1>1, <1>2 DEF Flat, Sanitize
<1>. HIDE DEF ss
<1>. DEFINE U == {k \in 0 .. n : Through(s, k, f[k])}
<1>4. 0 \in U
  BY <1>1, <1>3 DEF Through, Fine
<1>5. ASSUME NEW k \in 0 .. (n - 1), k \in U PROVE k + 1 \in U
  <2>. DEFINE h == k + 1
              out == f[k]
              a == IF Kept(s, h) THEN <<s[h]>> ELSE <<>>
              b == IF Unanswered(s, Opener(s, h)) # {}
                   THEN MadeUp(s[Opener(s, h)].group, Unanswered(s, Opener(s, h))) ELSE <<>>
              c == IF EndsGroup(s, h) /\ Unanswered(s, Opener(s, h)) # {}
                   THEN MadeUp(s[Opener(s, h)].group, Unanswered(s, Opener(s, h))) ELSE <<>>
  <2>1. h \in 1 .. n /\ h \in 0 .. n /\ h - 1 = k /\ out \in Seq(Entry) /\ Through(s, h - 1, out) /\ h # 0
    <3>1. h \in 1 .. n /\ h \in 0 .. n /\ h - 1 = k /\ h # 0
      BY <1>1
    <3>2. out \in Seq(Entry) /\ Through(s, k, out)
      BY <1>1, <1>5
    <3>. HIDE DEF h, out
    <3>. QED
      BY <3>1, <3>2
  <2>2. f[h] = out \o (a \o c)
    <3>1. f[h] = f[h - 1] \o Repaired(s, h)
      BY <1>3, <2>1
    <3>2. Repaired(s, h) = a \o c
      BY DEF Repaired
    <3>. HIDE DEF a, c, h
    <3>. QED
      BY <2>1, <3>1, <3>2
  <2>3. a \in Seq(Entry)
    BY <2>1
  <2>4. Midway(s, h, out \o a)
    <3>. HIDE DEF h, out
    <3>. QED
      BY <2>1, KeepsFine
  <2>5. CASE EndsGroup(s, h)
    <3>1. c = b
      BY <2>5
    <3>2. Fine((out \o a) \o b, Len((out \o a) \o b))
      <4>1. out \o a \in Seq(Entry)
        <5>. HIDE DEF a, out
        <5>. QED
          BY <2>1, <2>3
      <4>. HIDE DEF a, out, h
      <4>. QED
        BY <2>1, <2>4, <2>5, <4>1, EndsFine
    <3>3. b \in Seq(Entry)
      <4>1. CASE Unanswered(s, Opener(s, h)) = {}
        BY <4>1
      <4>2. CASE Unanswered(s, Opener(s, h)) # {}
        <5>. DEFINE T == {x \in Entry : x.role = "tool"}
        <5>1. T \subseteq Entry
          OBVIOUS
        <5>. HIDE DEF h
        <5>2. b \in Seq(T)
          BY <2>1, <4>2, MadeUpEntries
        <5>. HIDE DEF b, T
        <5>. QED
          BY <5>1, <5>2, SeqMonotonic
      <4>. QED
        BY <4>1, <4>2
    <3>4. f[h] = (out \o a) \o b
      <4>. HIDE DEF a, b, c, out, h
      <4>1. (out \o a) \o b = out \o (a \o b)
        <5>1. out \in Seq(Entry) /\ a \in Seq(Entry) /\ b \in Seq(Entry)
          BY ONLY <2>1, <2>3, <3>3
        <5>. QED
          BY ONLY <5>1, EntriesJoin
      <4>. QED
        BY ONLY <2>2, <3>1, <4>1
    <3>5. Through(s, h, f[h])
      <4>. HIDE DEF a, b, c, out, h
      <4>. QED
        BY <2>5, <3>2, <3>4 DEF Through
    <3>. QED
      BY <2>1, <3>5
  <2>6. CASE ~EndsGroup(s, h)
    <3>1. c = <<>>
      BY <2>6
    <3>2. f[h] = out \o a
      <4>1. a \o <<>> = a
        <5>. HIDE DEF a
        <5>. QED
          BY <2>3, ConcatEmptySeq
      <4>. HIDE DEF a, c, out, h
      <4>. QED
        BY <2>2, <3>1, <4>1
    <3>3. Through(s, h, f[h])
      <4>. HIDE DEF a, out, h
      <4>. QED
        BY <2>1, <2>4, <2>6, <3>2 DEF Through
    <3>. QED
      BY <2>1, <3>3
  <2>. QED
    BY <2>5, <2>6
<1>6. Through(s, n, f[n])
  <2>. HIDE DEF U, n
  <2>1. \A k \in 0 .. n : k \in U
    BY <1>1, <1>4, <1>5, UpTo
  <2>2. n \in U
    BY <1>1, <2>1
  <2>. QED
    BY <2>2 DEF U
<1>7. Fine(f[n], Len(f[n])) /\ f[n] \in Seq(Entry)
  BY <1>1, <1>2, <1>6 DEF Through, EndsGroup
<1>8. Valid(f[n])
  <2>. DEFINE r == f[n]
  <2>1. Fine(r, Len(r)) /\ DOMAIN r = 1 .. Len(r)
    BY <1>7
  <2>. HIDE DEF r
  <2>2. Valid(r)
    BY <2>1 DEF Fine, Valid
  <2>. QED
    BY <2>2 DEF r
<1>. QED
  BY <1>3, <1>8

\* PayloadValid, for groups of any size, any limits and every mix of faults: whatever a
\* crash, a failing store, a lost event or a compression beside the turn left in the
\* transcript, each group of the payload is followed at once by one result for each of
\* its calls, and no other result is sent.
THEOREM PayloadValidHolds == Spec => []PayloadValid
<1>1. TypeInv => PayloadValid
  BY SanitizeValid DEF TypeInv, LogType, PayloadValid
<1>. QED
  BY <1>1, TypeInvHolds, PTL

-----------------------------------------------------------------------------
(* The payload of a running turn is the one the store would give.           *)

\* The beginnings of a sequence grow by its elements.
LEMMA Beginnings ==
  ASSUME NEW E, NEW s \in Seq(E), NEW k \in 0 .. (Len(s) - 1)
  PROVE  SubSeq(s, 1, k) \in Seq(E) /\ SubSeq(s, 1, k + 1) = Append(SubSeq(s, 1, k), s[k + 1])
<1>1. k + 1 \in 1 .. Len(s) /\ (k + 1) - 1 = k /\ 1 \in 1 .. Len(s) /\ k + 1 \in 1 .. Len(s)
  OBVIOUS
<1>2. SubSeq(s, 1, k) \in Seq(E)
  <2>1. \A i \in 1 .. k : s[i] \in E
    OBVIOUS
  <2>2. k \in Int /\ 1 \in Int
    OBVIOUS
  <2>. QED
    BY ONLY <2>1, <2>2, SubSeqProperties
<1>3. SubSeq(s, 1, k + 1) = SubSeq(s, 1, (k + 1) - 1) \o <<s[k + 1]>>
  BY <1>1, SubSeqRecursiveSecond
<1>4. s[k + 1] \in E
  BY <1>1
<1>5. Append(SubSeq(s, 1, k), s[k + 1]) = SubSeq(s, 1, k) \o <<s[k + 1]>>
  BY <1>2, <1>4, AppendIsConcat
<1>. QED
  BY <1>1, <1>2, <1>3, <1>5

\* A sequence is its beginning and its last element.
LEMMA LastApart ==
  ASSUME NEW E, NEW a \in Seq(E), NEW q \in Seq(E), Len(a) = Len(q) + 1,
         \A k \in 1 .. Len(q) : a[k] = q[k]
  PROVE  a = Append(q, a[Len(a)])
<1>. DEFINE n == Len(q)
            b == Append(q, a[n + 1])
<1>1. n \in Nat /\ n + 1 \in 1 .. Len(a) /\ a[n + 1] \in E
  OBVIOUS
<1>2. b \in Seq(E) /\ Len(b) = n + 1 /\ b[n + 1] = a[n + 1] /\ \A k \in 1 .. n : b[k] = q[k]
  BY <1>1
<1>. HIDE DEF b
<1>3. \A k \in 1 .. (n + 1) : a[k] = b[k]
  BY <1>1, <1>2
<1>4. a = b
  BY <1>2, <1>3, SeqEqual
<1>. QED
  BY <1>4 DEF b

\* Induction over sequences, on a set: all are in it if the empty one is and it is closed
\* under appending.
LEMMA EverySeq ==
  ASSUME NEW E, NEW T, <<>> \in T,
         \A s \in Seq(E) : \A e \in E : s \in T => Append(s, e) \in T
  PROVE  \A s \in Seq(E) : s \in T
<1>. SUFFICES ASSUME NEW s \in Seq(E) PROVE s \in T
  OBVIOUS
<1>. DEFINE n == Len(s)
            Begin(k) == SubSeq(s, 1, k)
            U == {k \in 0 .. n : Begin(k) \in T}
<1>1. n \in Nat /\ Begin(n) = s /\ Begin(0) = <<>>
  BY SubSeqFull, SubSeqEmpty
<1>2. \A k \in 0 .. (n - 1) : Begin(k) \in Seq(E) /\ Begin(k + 1) = Append(Begin(k), s[k + 1])
  BY Beginnings
<1>. HIDE DEF Begin
<1>3. 0 \in U
  BY <1>1
<1>4. ASSUME NEW k \in 0 .. (n - 1), k \in U PROVE k + 1 \in U
  <2>1. k + 1 \in 0 .. n /\ s[k + 1] \in E
    BY <1>1
  <2>. QED
    BY <1>2, <1>4, <2>1
<1>. QED
  <2>. HIDE DEF U
  <2>1. \A k \in 0 .. n : k \in U
    BY <1>1, <1>3, <1>4, UpTo
  <2>2. n \in U
    BY <1>1, <2>1
  <2>. QED
    BY <1>1, <2>2 DEF U

LEMMA JoinAppend ==
  ASSUME NEW E, NEW s \in Seq(E), NEW t \in Seq(E), NEW e \in E
  PROVE  s \o Append(t, e) = Append(s \o t, e)
<1>1. <<e>> \in Seq(E) /\ s \o t \in Seq(E)
  OBVIOUS
<1>2. Append(t, e) = t \o <<e>> /\ Append(s \o t, e) = (s \o t) \o <<e>>
  BY <1>1, AppendIsConcat
<1>. QED
  BY <1>1, <1>2, ConcatAssociative

\* What is left of two sequences one after the other is what is left of each.
LEMMA AmongConcat ==
  ASSUME NEW E, NEW s \in Seq(E), NEW t \in Seq(E), NEW S
  PROVE  Among(s \o t, S) = Among(s, S) \o Among(t, S)
<1>. DEFINE T == {r \in Seq(E) : Among(s \o r, S) = Among(s, S) \o Among(r, S)}
<1>1. <<>> \in T
  <2>1. s \o <<>> = s /\ Among(s, S) \o <<>> = Among(s, S) /\ Among(<<>>, S) = <<>>
    BY AmongType, AmongEmpty, ConcatEmptySeq
  <2>2. Among(s \o <<>>, S) = Among(s, S) \o Among(<<>>, S)
    BY <2>1, Zenon
  <2>3. <<>> \in Seq(E)
    OBVIOUS
  <2>. QED
    BY <2>2, <2>3, Zenon
<1>2. ASSUME NEW r \in Seq(E), NEW e \in E, r \in T PROVE Append(r, e) \in T
  <2>0. s \o r \in Seq(E) /\ Append(r, e) \in Seq(E)
    OBVIOUS
  <2>1. s \o Append(r, e) = Append(s \o r, e) /\ s \o r \in Seq(E) /\ Append(r, e) \in Seq(E)
    BY <2>0, JoinAppend
  <2>2. Among(Append(s \o r, e), S) = IF e \in S THEN Append(Among(s \o r, S), e) ELSE Among(s \o r, S)
    BY <2>1, AmongAppend
  <2>3. Among(Append(r, e), S) = IF e \in S THEN Append(Among(r, S), e) ELSE Among(r, S)
    BY AmongAppend
  <2>4. Among(s, S) \in Seq(E) /\ Among(r, S) \in Seq(E)
    BY AmongType
  <2>5. \A a, b \in Seq(E) : a \o Append(b, e) = Append(a \o b, e)
    BY JoinAppend
  <2>6. Among(s \o r, S) = Among(s, S) \o Among(r, S)
    BY <1>2
  <2>7. Among(s \o Append(r, e), S) = Among(s, S) \o Among(Append(r, e), S)
    <3>1. CASE e \in S
      <4>1. Among(Append(s \o r, e), S) = Append(Among(s, S) \o Among(r, S), e)
        BY <2>2, <2>6, <3>1, Zenon
      <4>2. Among(Append(r, e), S) = Append(Among(r, S), e)
        BY <2>3, <3>1, Zenon
      <4>3. Among(s, S) \o Append(Among(r, S), e) = Append(Among(s, S) \o Among(r, S), e)
        BY <2>4, <2>5, Zenon
      <4>. QED
        BY <2>1, <4>1, <4>2, <4>3, Zenon
    <3>2. CASE e \notin S
      BY <2>1, <2>2, <2>3, <2>6, <3>2, Zenon
    <3>. QED
      BY <3>1, <3>2
  <2>. QED
    BY <2>1, <2>7, Zenon
<1>3. t \in T
  <2>. HIDE DEF T
  <2>. QED
    BY <1>1, <1>2, EverySeq
<1>. QED
  BY <1>3

\* To ask for less afterwards is to ask for less.
LEMMA AmongTwice ==
  ASSUME NEW E, NEW s \in Seq(E), NEW S, NEW R, R \subseteq S
  PROVE  Among(Among(s, S), R) = Among(s, R)
<1>. DEFINE T == {r \in Seq(E) : Among(Among(r, S), R) = Among(r, R)}
<1>1. <<>> \in T
  BY AmongEmpty
<1>2. ASSUME NEW r \in Seq(E), NEW e \in E, r \in T PROVE Append(r, e) \in T
  <2>1. Among(Append(r, e), S) = IF e \in S THEN Append(Among(r, S), e) ELSE Among(r, S)
    BY AmongAppend
  <2>2. Among(Append(r, e), R) = IF e \in R THEN Append(Among(r, R), e) ELSE Among(r, R)
    BY AmongAppend
  <2>3. Among(r, S) \in Seq(E)
    BY AmongType
  <2>4. Among(Append(Among(r, S), e), R)
          = IF e \in R THEN Append(Among(Among(r, S), R), e) ELSE Among(Among(r, S), R)
    BY <2>3, AmongAppend
  <2>5. Among(Among(r, S), R) = Among(r, R)
    BY <1>2
  <2>6. Among(Among(Append(r, e), S), R) = Among(Append(r, e), R)
    BY <2>1, <2>2, <2>4, <2>5
  <2>. QED
    BY <2>6
<1>3. s \in T
  <2>. HIDE DEF T
  <2>. QED
    BY <1>1, <1>2, EverySeq
<1>. QED
  BY <1>3

LEMMA FlattenEmpty == FlattenSeq(<<>>) = <<>>
<1>1. <<>> \in Seq(Seq({})) /\ Len(<<>>) = 0
  OBVIOUS
<1>2. PICK f \in [0 .. Len(<<>>) -> Seq({})] : Flat(<<>>, f)
  BY <1>1, FlattenLoop
<1>. QED
  BY <1>1, <1>2 DEF Flat

LEMMA FlattenAppend ==
  ASSUME NEW E, NEW ss \in Seq(Seq(E)), NEW x \in Seq(E)
  PROVE  FlattenSeq(Append(ss, x)) = FlattenSeq(ss) \o x
<1>. DEFINE n == Len(ss)
            tt == Append(ss, x)
<1>1. n \in Nat /\ tt \in Seq(Seq(E)) /\ Len(tt) = n + 1 /\ tt[n + 1] = x /\ \A k \in 1 .. n : tt[k] = ss[k]
  OBVIOUS
<1>2. PICK f \in [0 .. n -> Seq(E)] : Flat(ss, f)
  BY FlattenLoop
<1>. HIDE DEF tt
<1>3. PICK h \in [0 .. Len(tt) -> Seq(E)] : Flat(tt, h)
  BY <1>1, FlattenLoop
<1>. DEFINE U == {k \in 0 .. n : h[k] = f[k]}
<1>4. 0 \in U
  BY <1>1, <1>2, <1>3 DEF Flat
<1>5. ASSUME NEW k \in 0 .. (n - 1), k \in U PROVE k + 1 \in U
  <2>1. k + 1 \in 1 .. n /\ k + 1 \in 1 .. Len(tt) /\ (k + 1) - 1 = k /\ k + 1 \in 0 .. n
    BY <1>1
  <2>2. f[k + 1] = f[k] \o ss[k + 1]
    BY <1>2, <2>1 DEF Flat
  <2>3. h[k + 1] = h[k] \o tt[k + 1]
    BY <1>3, <2>1 DEF Flat
  <2>. QED
    BY <1>1, <1>5, <2>1, <2>2, <2>3
<1>6. h[n] = f[n]
  <2>. HIDE DEF U
  <2>1. \A k \in 0 .. n : k \in U
    BY <1>1, <1>4, <1>5, UpTo
  <2>2. n \in U
    BY <1>1, <2>1
  <2>. QED
    BY <2>2 DEF U
<1>7. h[n + 1] = h[n] \o x
  <2>1. n + 1 \in 1 .. Len(tt) /\ (n + 1) - 1 = n
    BY <1>1
  <2>. QED
    BY <1>1, <1>3, <2>1 DEF Flat
<1>8. FlattenSeq(tt) = h[n + 1] /\ FlattenSeq(ss) = f[n]
  BY <1>1, <1>2, <1>3 DEF Flat
<1>9. FlattenSeq(tt) = FlattenSeq(ss) \o x
  BY <1>6, <1>7, <1>8
<1>. QED
  BY <1>9 DEF tt

-----------------------------------------------------------------------------
\* The last entry that is no result, and the calls it still waits for.
Top(s) == IF Opener(s, Len(s)) = 0 THEN User ELSE s[Opener(s, Len(s))]
Left(s) == Unanswered(s, Opener(s, Len(s)))

\* The repaired transcript but for the results made up at its end.
Part(s, k) == IF k < Len(s) THEN Repaired(s, k) ELSE IF Kept(s, k) THEN <<s[k]>> ELSE <<>>
Stem(s) == FlattenSeq([k \in DOMAIN s |-> Part(s, k)])

\* A result that will be kept.
Fits(s, e) ==
  e.role = "tool" => Top(s).role = "calls" /\ e.group = Top(s).group /\ e.call \in Left(s)

LEMMA PartType ==
  ASSUME NEW s \in Seq(Entry), NEW k \in 1 .. Len(s)
  PROVE  Part(s, k) \in Seq(Entry)
<1>1. s[k] \in Entry
  OBVIOUS
<1>. QED
  BY <1>1, RepairedType DEF Part

LEMMA StemType ==
  ASSUME NEW s \in Seq(Entry)
  PROVE  Stem(s) \in Seq(Entry)
<1>1. [k \in DOMAIN s |-> Part(s, k)] \in Seq(Seq(Entry))
  BY PartType
<1>. QED
  BY <1>1, FlattenType DEF Stem

\* What is to be made up at the end is told by the two.
LEMMA TrailIs ==
  ASSUME NEW s \in Seq(Entry)
  PROVE  /\ Left(s) # {} => Top(s).role = "calls"
         /\ Left(s) \subseteq Call
         /\ TrailingUnanswered(s) = IF Left(s) = {} THEN <<>> ELSE MadeUp(Top(s).group, Left(s))
         /\ TrailingUnanswered(s) \in Seq(Entry)
<1>. DEFINE T == {e \in Entry : e.role = "tool"}
<1>1. TrailingUnanswered(s) \in Seq(T)
  BY TrailingType
<1>2. T \subseteq Entry
  OBVIOUS
<1>. HIDE DEF T
<1>3. TrailingUnanswered(s) \in Seq(Entry)
  BY <1>1, <1>2, SeqMonotonic
<1>4. Opener(s, Len(s)) \in Nat
  BY OpenerExists
<1>5. Left(s) # {} => Opener(s, Len(s)) # 0 /\ s[Opener(s, Len(s))].role = "calls"
  BY <1>4 DEF Left, Unanswered
<1>6. Left(s) \subseteq Call
  BY DEF Left, Unanswered
<1>. QED
  BY <1>3, <1>5, <1>6 DEF Top, Left, TrailingUnanswered

\* Once there is a next entry, the last of the transcript is done with.
LEMMA BeforeLast ==
  ASSUME NEW s \in Seq(Entry), s # <<>>
  PROVE  \E q \in Seq(Seq(Entry)) :
           /\ Len(q) + 1 = Len(s) /\ \A k \in 1 .. Len(q) : q[k] = Repaired(s, k)
           /\ Stem(s) = FlattenSeq(q) \o Part(s, Len(s))
           /\ Sanitize(s) = FlattenSeq(q) \o Repaired(s, Len(s))
<1>. DEFINE n == Len(s)
            q == [k \in 1 .. (n - 1) |-> Repaired(s, k)]
<1>1. n \in Nat \ {0} /\ DOMAIN s = 1 .. n /\ n \in 1 .. n
  OBVIOUS
<1>2. \A k \in 1 .. n : Repaired(s, k) \in Seq(Entry) /\ Part(s, k) \in Seq(Entry)
  BY RepairedType, PartType
<1>3. q \in Seq(Seq(Entry)) /\ Len(q) = n - 1 /\ \A k \in 1 .. (n - 1) : q[k] = Repaired(s, k)
  <2>1. \A k \in 1 .. (n - 1) : Repaired(s, k) \in Seq(Entry)
    BY <1>1, <1>2
  <2>2. n - 1 \in Nat
    BY <1>1
  <2>. HIDE DEF n
  <2>. QED
    BY <2>1, <2>2
<1>4. \A k \in 1 .. (n - 1) : Part(s, k) = Repaired(s, k)
  BY <1>1 DEF Part
<1>. HIDE DEF n
<1>. HIDE DEF q
<1>5. [k \in 1 .. n |-> Part(s, k)] = Append(q, Part(s, n))
  <2>. DEFINE a == [k \in 1 .. n |-> Part(s, k)]
  <2>1. a \in Seq(Seq(Entry)) /\ Len(a) = n /\ \A k \in 1 .. n : a[k] = Part(s, k)
    BY <1>1, <1>2
  <2>. HIDE DEF a
  <2>2. Len(a) = Len(q) + 1 /\ \A k \in 1 .. Len(q) : a[k] = q[k]
    BY <1>1, <1>3, <1>4, <2>1
  <2>3. a = Append(q, a[Len(a)])
    BY <1>3, <2>1, <2>2, LastApart
  <2>4. a[Len(a)] = Part(s, n)
    BY <1>1, <2>1
  <2>. QED
    BY <2>3, <2>4 DEF a
<1>6. [k \in 1 .. n |-> Repaired(s, k)] = Append(q, Repaired(s, n))
  <2>. DEFINE a == [k \in 1 .. n |-> Repaired(s, k)]
  <2>1. a \in Seq(Seq(Entry)) /\ Len(a) = n /\ \A k \in 1 .. n : a[k] = Repaired(s, k)
    BY <1>1, <1>2
  <2>. HIDE DEF a
  <2>2. Len(a) = Len(q) + 1 /\ \A k \in 1 .. Len(q) : a[k] = q[k]
    BY <1>1, <1>3, <2>1
  <2>3. a = Append(q, a[Len(a)])
    BY <1>3, <2>1, <2>2, LastApart
  <2>4. a[Len(a)] = Repaired(s, n)
    BY <1>1, <2>1
  <2>. QED
    BY <2>3, <2>4 DEF a
<1>7. Part(s, n) \in Seq(Entry) /\ Repaired(s, n) \in Seq(Entry)
  BY <1>1, <1>2
<1>8. Stem(s) = FlattenSeq(q) \o Part(s, n)
  BY <1>1, <1>3, <1>5, <1>7, FlattenAppend DEF Stem
<1>9. Sanitize(s) = FlattenSeq(q) \o Repaired(s, n)
  BY <1>1, <1>3, <1>6, <1>7, FlattenAppend DEF Sanitize
<1>10. Len(q) + 1 = n /\ \A k \in 1 .. Len(q) : q[k] = Repaired(s, k)
  BY <1>1, <1>3
<1>. QED
  BY <1>3, <1>8, <1>9, <1>10 DEF n

LEMMA SanitizeIs ==
  ASSUME NEW s \in Seq(Entry)
  PROVE  Sanitize(s) = Stem(s) \o TrailingUnanswered(s)
<1>1. CASE s = <<>>
  <2>1. DOMAIN s = {} /\ Len(s) = 0
    BY <1>1
  <2>2. [k \in DOMAIN s |-> Part(s, k)] = <<>> /\ [k \in DOMAIN s |-> Repaired(s, k)] = <<>>
    BY <2>1
  <2>3. Stem(s) = <<>> /\ Sanitize(s) = <<>>
    BY <2>2, FlattenEmpty DEF Stem, Sanitize
  <2>4. Opener(s, 0) = 0
    BY OpenerExists
  <2>5. TrailingUnanswered(s) = <<>>
    BY <2>1, <2>4 DEF TrailingUnanswered, Unanswered
  <2>. QED
    BY <2>3, <2>5
<1>2. CASE s # <<>>
  <2>1. PICK q \in Seq(Seq(Entry)) : /\ Stem(s) = FlattenSeq(q) \o Part(s, Len(s))
                                     /\ Sanitize(s) = FlattenSeq(q) \o Repaired(s, Len(s))
    BY <1>2, BeforeLast
  <2>2. Len(s) \in 1 .. Len(s)
    BY <1>2
  <2>3. Repaired(s, Len(s)) = Part(s, Len(s)) \o TrailingUnanswered(s)
    <3>1. Part(s, Len(s)) = IF Kept(s, Len(s)) THEN <<s[Len(s)]>> ELSE <<>>
      BY <2>2 DEF Part
    <3>2. EndsGroup(s, Len(s))
      BY DEF EndsGroup
    <3>. QED
      BY ONLY <3>1, <3>2, Zenon DEF Repaired, TrailingUnanswered
  <2>4. /\ FlattenSeq(q) \in Seq(Entry) /\ Part(s, Len(s)) \in Seq(Entry)
        /\ TrailingUnanswered(s) \in Seq(Entry)
    BY <2>2, FlattenType, PartType, TrailIs
  <2>5. (FlattenSeq(q) \o Part(s, Len(s))) \o TrailingUnanswered(s)
          = FlattenSeq(q) \o (Part(s, Len(s)) \o TrailingUnanswered(s))
    BY ONLY <2>4, EntriesJoin
  <2>. QED
    BY ONLY <2>1, <2>3, <2>5, Zenon
<1>. QED
  BY <1>1, <1>2

\* For the entries before it, an entry appended changes nothing: what is kept of them, and
\* what is made up where a group ends.
LEMMA Before ==
  ASSUME NEW s \in Seq(Entry), NEW e \in Entry, NEW k \in 1 .. Len(s)
  PROVE  LET t == Append(s, e) IN
         /\ Opener(t, k) = Opener(s, k) /\ Kept(t, k) = Kept(s, k)
         /\ Opener(s, k) # 0 => t[Opener(s, k)] = s[Opener(s, k)] /\ Replied(t, k) = Replied(s, k)
         /\ EndsGroup(t, k) => Unanswered(t, Opener(s, k)) = Unanswered(s, Opener(s, k))
<1>. DEFINE n == Len(s)
            t == Append(s, e)
            o == Opener(s, k)
<1>1. /\ n \in Nat /\ t \in Seq(Entry) /\ Len(t) = n + 1 /\ \A j \in 1 .. n : t[j] = s[j]
      /\ DOMAIN t = 1 .. (n + 1) /\ DOMAIN s = 1 .. n
  OBVIOUS
<1>. HIDE DEF t
<1>2. \A j \in 1 .. n : Opener(t, j) = Opener(s, j)
  <2>. SUFFICES ASSUME NEW j \in 1 .. n PROVE Opener(t, j) = Opener(s, j)
    OBVIOUS
  <2>. DEFINE p == Opener(s, j)
  <2>1. p \in 0 .. j /\ (p = 0 \/ s[p].role # "tool") /\ \A i \in (p + 1) .. j : s[i].role = "tool"
    BY OpenerExists
  <2>. HIDE DEF p
  <2>2. (p = 0 \/ t[p].role # "tool") /\ \A i \in (p + 1) .. j : t[i].role = "tool"
    BY <1>1, <2>1
  <2>3. Opener(t, j) = p
    BY <1>1, <2>1, <2>2, OpenerIs
  <2>. QED
    BY <2>3 DEF p
<1>3. o \in 0 .. k /\ Opener(t, k) = o
  BY <1>1, <1>2, OpenerExists
<1>. HIDE DEF o
<1>4. \A i \in 1 .. n : \A j \in 1 .. n : Answers(t, i, j) <=> Answers(s, i, j)
  BY <1>1, <1>2 DEF Answers
<1>5. Kept(t, k) = Kept(s, k)
  <2>1. \A i \in 1 .. (n + 1) : Answers(t, i, k) => i \in 1 .. n
    BY <1>1 DEF Answers
  <2>2. \A j \in 1 .. (k - 1) : j \in 1 .. n
    BY <1>1
  <2>3. Kept(s, k) => Kept(t, k)
    BY <1>1, <1>4, <2>2 DEF Kept
  <2>4. Kept(t, k) => Kept(s, k)
    <3>. SUFFICES ASSUME Kept(t, k), s[k].role = "tool" PROVE Kept(s, k)
      BY DEF Kept
    <3>1. PICK i \in DOMAIN t : /\ Answers(t, i, k)
                               /\ \A j \in 1 .. (k - 1) : Answers(t, i, j) => t[j].call # t[k].call
      BY <1>1 DEF Kept
    <3>2. i \in DOMAIN s /\ Answers(s, i, k)
      BY <1>1, <1>4, <2>1, <3>1
    <3>3. \A j \in 1 .. (k - 1) : Answers(s, i, j) => s[j].call # s[k].call
      BY <1>1, <1>4, <2>2, <3>1, <3>2
    <3>. QED
      BY <3>2, <3>3 DEF Kept
  <2>5. Kept(s, k) \in BOOLEAN /\ Kept(t, k) \in BOOLEAN
    BY DEF Kept
  <2>. QED
    BY <2>3, <2>4, <2>5
<1>6. o # 0 => t[o] = s[o]
  BY <1>1, <1>3
<1>7. o # 0 => Replied(t, k) = Replied(s, k)
  <2>1. \A j \in (o + 1) .. k : t[j] = s[j]
    BY <1>1, <1>3
  <2>. QED
    BY <1>1, <1>3, <1>6, <2>1 DEF Replied, o
<1>8. ASSUME EndsGroup(t, k) PROVE Unanswered(t, o) = Unanswered(s, o)
  <2>1. CASE o > 0 /\ s[o].role = "calls"
    <3>1. EndsGroup(s, k)
      <4>1. k = n \/ (k + 1 \in 1 .. n /\ k # Len(t))
        BY <1>1
      <4>. QED
        BY <1>1, <1>8, <4>1 DEF EndsGroup
    <3>2. Unanswered(s, o) = Call \ Replied(s, k)
      BY <2>1, <3>1, UnansweredIs DEF o
    <3>3. Opener(t, k) > 0 /\ t[Opener(t, k)].role = "calls" /\ k \in 1 .. Len(t)
      BY <1>1, <1>3, <1>6, <2>1
    <3>4. Unanswered(t, o) = Call \ Replied(t, k)
      BY <1>1, <1>3, <1>8, <3>3, UnansweredIs
    <3>. QED
      BY <1>3, <1>7, <2>1, <3>2, <3>4
  <2>2. CASE ~(o > 0 /\ s[o].role = "calls")
    BY <1>3, <1>6, <2>2 DEF Unanswered
  <2>. QED
    BY <2>1, <2>2
<1>. QED
  BY <1>3, <1>5, <1>6, <1>7, <1>8 DEF t, o

\* How the three grow with the transcript.
LEMMA Grows ==
  ASSUME NEW s \in Seq(Entry), NEW e \in Entry
  PROVE  /\ Top(Append(s, e)) = IF e.role = "tool" THEN Top(s) ELSE e
         /\ e.role = "calls" => Left(Append(s, e)) = Call
         /\ e.role \notin {"calls", "tool"} => Left(Append(s, e)) = {}
         /\ e.role = "tool" => Left(Append(s, e)) = IF Fits(s, e) THEN Left(s) \ {e.call} ELSE Left(s)
         /\ Kept(Append(s, e), Len(s) + 1) <=> Fits(s, e)
<1>. DEFINE n == Len(s)
            t == Append(s, e)
            o == Opener(s, n)
            R == Replied(s, n)
<1>1. /\ n \in Nat /\ t \in Seq(Entry) /\ DOMAIN t = 1 .. (n + 1) /\ Len(t) = n + 1 /\ t[n + 1] = e
      /\ \A k \in 1 .. n : t[k] = s[k]
      /\ e.role = "tool" => Opener(t, n + 1) = o
      /\ e.role # "tool" => Opener(t, n + 1) = n + 1
  BY Grown
<1>2. o \in 0 .. n
  BY <1>1, OpenerExists
<1>. HIDE DEF t
<1>3. CASE e.role # "tool"
  <2>1. Top(t) = e
    BY <1>1, <1>3 DEF Top
  <2>2. e.role = "calls" => Left(t) = Call
    <3>1. \A k \in 1 .. (n + 1) : ~Answers(t, n + 1, k)
      BY <1>1 DEF Answers
    <3>. QED
      BY <1>1, <1>3, <3>1 DEF Left, Unanswered
  <2>3. e.role # "calls" => Left(t) = {}
    BY <1>1, <1>3 DEF Left, Unanswered
  <2>4. Kept(t, n + 1) /\ Fits(s, e)
    BY <1>1, <1>3 DEF Kept, Fits
  <2>. QED
    BY <1>3, <2>1, <2>2, <2>3, <2>4 DEF t
<1>4. CASE e.role = "tool"
  <2>0. e.call \in Call
    BY <1>4, EntryKinds
  <2>1. Top(t) = Top(s)
    BY <1>1, <1>2, <1>4 DEF Top
  <2>2. CASE o > 0 /\ s[o].role = "calls"
    <3>1. n \in 1 .. Len(s) /\ EndsGroup(s, n) /\ EndsGroup(t, n + 1) /\ n + 1 \in 1 .. Len(t) /\ (n + 1) - 1 = n
      BY <1>1, <1>2, <2>2 DEF EndsGroup
    <3>2. Opener(t, n) = o /\ t[o] = s[o] /\ Replied(t, n) = R
      <4>1. o # 0
        BY <1>2, <2>2
      <4>. QED
        BY <3>1, <4>1, Before, Zenon DEF t
    <3>3. Left(s) = Call \ R /\ Top(s) = s[o]
      BY <2>2, <3>1, UnansweredIs DEF Left, Top
    <3>4. Left(t) = Call \ Replied(t, n + 1)
      <4>1. Opener(t, n + 1) > 0 /\ t[Opener(t, n + 1)].role = "calls"
        BY <1>1, <1>4, <2>2, <3>2
      <4>2. Unanswered(t, Opener(t, n + 1)) = Call \ Replied(t, n + 1)
        BY <1>1, <3>1, <4>1, UnansweredIs
      <4>. QED
        BY <1>1, <4>2 DEF Left
    <3>5. Replied(t, n + 1) = R \cup {c \in {e.call} : e.group = s[o].group}
      <4>1. R = {c \in Call : \E j \in (o + 1) .. n : t[j].group = s[o].group /\ t[j].call = c}
        <5>1. Replied(t, n) = {c \in Call : \E j \in (o + 1) .. n : t[j].group = t[o].group /\ t[j].call = c}
          BY <3>2 DEF Replied
        <5>. QED
          BY <3>2, <5>1
      <4>2. Replied(t, n + 1)
              = {c \in Call : \E j \in (o + 1) .. (n + 1) : t[j].group = s[o].group /\ t[j].call = c}
        BY <1>1, <1>4, <3>2 DEF Replied
      <4>3. n + 1 \in (o + 1) .. (n + 1) /\ \A j \in (o + 1) .. (n + 1) : j \in (o + 1) .. n \/ j = n + 1
        BY <1>1, <1>2
      <4>4. (o + 1) .. n \subseteq (o + 1) .. (n + 1)
        BY <1>1, <1>2
      <4>. HIDE DEF o, R, n
      <4>. QED
        BY ONLY <1>1, <2>0, <4>1, <4>2, <4>3, <4>4
    <3>6. Kept(t, n + 1) <=> e.group = s[o].group /\ e.call \notin R
      <4>1. t[n + 1].role = "tool"
        BY <1>1, <1>4
      <4>2. Kept(t, n + 1) <=> /\ Opener(t, n + 1) > 0 /\ t[Opener(t, n + 1)].role = "calls"
                               /\ t[n + 1].group = t[Opener(t, n + 1)].group
                               /\ t[n + 1].call \notin Replied(t, (n + 1) - 1)
        BY <1>1, <3>1, <4>1, KeptIs
      <4>. HIDE DEF o, R, n
      <4>. QED
        BY ONLY <1>1, <1>4, <2>2, <3>1, <3>2, <4>2
    <3>7. Fits(s, e) <=> e.group = s[o].group /\ e.call \notin R
      <4>. HIDE DEF o, R
      <4>. QED
        BY <1>4, <2>0, <2>2, <3>3 DEF Fits
    <3>8. Left(t) = IF Fits(s, e) THEN Left(s) \ {e.call} ELSE Left(s)
      <4>. HIDE DEF o, R
      <4>. QED
        BY <2>0, <3>3, <3>4, <3>5, <3>7
    <3>. HIDE DEF o, R
    <3>. QED
      BY <1>4, <2>1, <3>6, <3>7, <3>8 DEF t
  <2>3. CASE ~(o > 0 /\ s[o].role = "calls")
    <3>1. Left(s) = {} /\ Left(t) = {}
      BY <1>1, <1>2, <1>4, <2>3 DEF Left, Unanswered
    <3>2. ~Fits(s, e)
      BY <1>4, <3>1 DEF Fits
    <3>3. ~Kept(t, n + 1)
      <4>1. t[n + 1].role = "tool" /\ n + 1 \in 1 .. Len(t)
        BY <1>1, <1>4
      <4>2. Kept(t, n + 1) => Opener(t, n + 1) > 0 /\ t[Opener(t, n + 1)].role = "calls"
        BY <1>1, <4>1, KeptIs
      <4>. QED
        BY <1>1, <1>2, <1>4, <2>3, <4>2
    <3>. QED
      BY <1>4, <2>1, <3>1, <3>2, <3>3 DEF t
  <2>. QED
    BY <2>2, <2>3
<1>. QED
  BY <1>3, <1>4

LEMMA StemGrows ==
  ASSUME NEW s \in Seq(Entry), NEW e \in Entry
  PROVE  Stem(Append(s, e))
           = (IF e.role = "tool" THEN Stem(s) ELSE Stem(s) \o TrailingUnanswered(s))
             \o (IF Fits(s, e) THEN <<e>> ELSE <<>>)
<1>. DEFINE n == Len(s)
            t == Append(s, e)
            x == IF e.role = "tool" THEN <<>> ELSE TrailingUnanswered(s)
            y == IF Fits(s, e) THEN <<e>> ELSE <<>>
<1>1. /\ n \in Nat /\ t \in Seq(Entry) /\ t # <<>> /\ Len(t) = n + 1 /\ t[n + 1] = e
      /\ \A k \in 1 .. n : t[k] = s[k]
  OBVIOUS
<1>2. Part(t, n + 1) = y
  BY <1>1, Grows DEF Part
<1>3. x \in Seq(Entry) /\ y \in Seq(Entry) /\ Stem(s) \in Seq(Entry)
  BY TrailIs, StemType
<1>4. PICK q \in Seq(Seq(Entry)) :
        /\ Len(q) + 1 = Len(t) /\ \A k \in 1 .. Len(q) : q[k] = Repaired(t, k)
        /\ Stem(t) = FlattenSeq(q) \o Part(t, Len(t))
  BY <1>1, BeforeLast
<1>5. Len(q) = n
  BY <1>1, <1>4
<1>6. CASE n = 0
  <2>1. q = <<>> /\ s = <<>>
    BY <1>5, <1>6
  <2>2. Stem(s) = <<>>
    <3>1. [k \in DOMAIN s |-> Part(s, k)] = <<>>
      BY <2>1
    <3>. QED
      BY <3>1, FlattenEmpty DEF Stem
  <2>3. Opener(s, 0) = 0
    BY OpenerExists
  <2>4. TrailingUnanswered(s) = <<>>
    BY <1>6, <2>3 DEF TrailingUnanswered, Unanswered
  <2>5. Stem(t) = <<>> \o y
    BY <1>1, <1>2, <1>4, <2>1, FlattenEmpty
  <2>6. Stem(s) \o TrailingUnanswered(s) = <<>>
    BY <2>2, <2>4
  <2>. QED
    BY <2>2, <2>5, <2>6, Zenon DEF t, y
<1>7. CASE n # 0
  <2>1. n \in 1 .. Len(s) /\ n \in 1 .. Len(q) /\ s # <<>>
    BY <1>1, <1>5, <1>7
  <2>2. PICK p \in Seq(Seq(Entry)) :
          /\ Len(p) + 1 = Len(s) /\ \A k \in 1 .. Len(p) : p[k] = Repaired(s, k)
          /\ Stem(s) = FlattenSeq(p) \o Part(s, Len(s))
    BY <2>1, BeforeLast
  <2>3. ASSUME NEW k \in 1 .. Len(p) PROVE q[k] = p[k]
    <3>1. k \in 1 .. n /\ k + 1 \in 1 .. n /\ k # n /\ k # n + 1
      BY <1>1, <2>2
    <3>2. EndsGroup(t, k) <=> EndsGroup(s, k)
      BY <1>1, <3>1 DEF EndsGroup
    <3>3. /\ Opener(t, k) = Opener(s, k) /\ Kept(t, k) = Kept(s, k) /\ t[k] = s[k]
          /\ Opener(s, k) # 0 => t[Opener(s, k)] = s[Opener(s, k)]
          /\ EndsGroup(t, k) => Unanswered(t, Opener(s, k)) = Unanswered(s, Opener(s, k))
      BY <1>1, <3>1, Before
    <3>4. Unanswered(s, Opener(s, k)) # {} => Opener(s, k) # 0
      BY DEF Unanswered
    <3>. HIDE DEF t
    <3>5. Repaired(t, k) = Repaired(s, k)
      BY <3>2, <3>3, <3>4, Zenon DEF Repaired
    <3>. QED
      BY <1>4, <1>5, <2>2, <3>1, <3>5
  <2>4. Repaired(t, n) = Part(s, n) \o x
    <3>1. EndsGroup(t, n) <=> e.role # "tool"
      BY <1>1, <1>7 DEF EndsGroup
    <3>2. /\ Opener(t, n) = Opener(s, n) /\ Kept(t, n) = Kept(s, n) /\ t[n] = s[n]
          /\ Opener(s, n) # 0 => t[Opener(s, n)] = s[Opener(s, n)]
          /\ EndsGroup(t, n) => Unanswered(t, Opener(s, n)) = Unanswered(s, Opener(s, n))
      BY <1>1, <2>1, Before
    <3>3. Unanswered(s, Opener(s, n)) # {} => Opener(s, n) # 0
      BY DEF Unanswered
    <3>4. Part(s, n) = IF Kept(s, n) THEN <<s[n]>> ELSE <<>>
      BY <1>1 DEF Part
    <3>5. x = IF EndsGroup(t, n) /\ Unanswered(s, Opener(s, n)) # {}
              THEN MadeUp(s[Opener(s, n)].group, Unanswered(s, Opener(s, n))) ELSE <<>>
      BY <3>1, Zenon DEF TrailingUnanswered
    <3>. HIDE DEF t, x
    <3>. QED
      BY <3>2, <3>3, <3>4, <3>5, Zenon DEF Repaired
  <2>5. q = Append(p, q[Len(q)])
    <3>1. Len(q) = Len(p) + 1
      BY <1>5, <2>2
    <3>2. \A k \in 1 .. Len(p) : q[k] = p[k]
      BY <2>3
    <3>. QED
      BY ONLY <1>4, <2>2, <3>1, <3>2, LastApart
  <2>6. q[Len(q)] = Part(s, n) \o x /\ Part(s, n) \in Seq(Entry)
    BY <1>4, <1>5, <2>1, <2>4, PartType
  <2>. HIDE DEF t, x, y, n
  <2>7. Part(s, n) \o x \in Seq(Entry) /\ FlattenSeq(p) \in Seq(Entry)
    BY <1>3, <2>6, FlattenType
  <2>8. FlattenSeq(q) = FlattenSeq(p) \o (Part(s, n) \o x)
    BY <2>2, <2>5, <2>6, <2>7, FlattenAppend
  <2>9. FlattenSeq(q) = Stem(s) \o x
    <3>1. Stem(s) = FlattenSeq(p) \o Part(s, n)
      BY <2>2 DEF n
    <3>2. (FlattenSeq(p) \o Part(s, n)) \o x = FlattenSeq(p) \o (Part(s, n) \o x)
      <4>1. FlattenSeq(p) \in Seq(Entry) /\ Part(s, n) \in Seq(Entry) /\ x \in Seq(Entry)
        BY ONLY <1>3, <2>6, <2>7
      <4>. QED
        BY ONLY <4>1, EntriesJoin, Zenon
    <3>. QED
      BY ONLY <2>8, <3>1, <3>2, Zenon
  <2>10. Stem(t) = (Stem(s) \o x) \o y
    BY <1>1, <1>2, <1>4, <2>9
  <2>11. Stem(s) \o <<>> = Stem(s)
    BY <1>3, ConcatEmptySeq
  <2>12. Stem(s) \o x = IF e.role = "tool" THEN Stem(s) ELSE Stem(s) \o TrailingUnanswered(s)
    BY <2>11, Zenon DEF x
  <2>. QED
    BY <2>10, <2>12, Zenon DEF t, y
<1>. QED
  BY <1>6, <1>7

\* A result that is kept joins the repaired transcript.
LEMMA FitsGrows ==
  ASSUME NEW s \in Seq(Entry), NEW e \in Entry, e.role = "tool", Fits(s, e)
  PROVE  /\ Stem(Append(s, e)) = Append(Stem(s), e) /\ Top(Append(s, e)) = Top(s)
         /\ Left(Append(s, e)) = Left(s) \ {e.call}
<1>1. Stem(s) \in Seq(Entry) /\ Append(Stem(s), e) = Stem(s) \o <<e>>
  BY StemType, AppendIsConcat
<1>2. Stem(Append(s, e)) = Stem(s) \o <<e>>
  BY StemGrows, Zenon
<1>3. Top(Append(s, e)) = Top(s) /\ Left(Append(s, e)) = Left(s) \ {e.call}
  BY Grows, Zenon
<1>. QED
  BY <1>1, <1>2, <1>3, Zenon

\* Any other result is ignored.
LEMMA UnfitGrows ==
  ASSUME NEW s \in Seq(Entry), NEW e \in Entry, e.role = "tool", ~Fits(s, e)
  PROVE  /\ Stem(Append(s, e)) = Stem(s) /\ Top(Append(s, e)) = Top(s)
         /\ Left(Append(s, e)) = Left(s)
<1>1. Stem(s) \in Seq(Entry) /\ Stem(s) \o <<>> = Stem(s)
  BY StemType, ConcatEmptySeq
<1>2. Stem(Append(s, e)) = Stem(s) \o <<>>
  BY StemGrows, Zenon
<1>3. Top(Append(s, e)) = Top(s) /\ Left(Append(s, e)) = Left(s)
  BY Grows, Zenon
<1>. QED
  BY <1>1, <1>2, <1>3, Zenon

\* What is not a result ends the group before it.
LEMMA OtherGrows ==
  ASSUME NEW s \in Seq(Entry), NEW e \in Entry, e.role # "tool"
  PROVE  /\ Stem(Append(s, e)) = Append(Stem(s) \o TrailingUnanswered(s), e)
         /\ Top(Append(s, e)) = e
         /\ Left(Append(s, e)) = IF e.role = "calls" THEN Call ELSE {}
<1>1. Stem(s) \o TrailingUnanswered(s) \in Seq(Entry)
  BY StemType, TrailIs
<1>2. Append(Stem(s) \o TrailingUnanswered(s), e) = (Stem(s) \o TrailingUnanswered(s)) \o <<e>>
  BY <1>1, AppendIsConcat
<1>3. Fits(s, e)
  BY DEF Fits
<1>4. Stem(Append(s, e)) = (Stem(s) \o TrailingUnanswered(s)) \o <<e>>
  BY <1>3, StemGrows, Zenon
<1>5. Top(Append(s, e)) = e /\ Left(Append(s, e)) = IF e.role = "calls" THEN Call ELSE {}
  BY Grows
<1>. QED
  BY <1>2, <1>4, <1>5, Zenon

\* The made-up results, written down, are what the repair would have put there.
LEMMA SealAll ==
  ASSUME NEW s \in Seq(Entry)
  PROVE  /\ Stem(s \o TrailingUnanswered(s)) = Stem(s) \o TrailingUnanswered(s)
         /\ Top(s \o TrailingUnanswered(s)) = Top(s)
         /\ Left(s \o TrailingUnanswered(s)) = {}
<1>. DEFINE x == TrailingUnanswered(s)
            C == Left(s)
            g == Top(s).group
            n == Len(x)
            Begin(k) == SubSeq(x, 1, k)
            Done(k) == {x[j].call : j \in 1 .. k}
            U == {k \in 0 .. n : /\ Stem(s \o Begin(k)) = Stem(s) \o Begin(k)
                                 /\ Top(s \o Begin(k)) = Top(s)
                                 /\ Left(s \o Begin(k)) = C \ Done(k)}
<1>1. CASE C = {}
  <2>1. x = <<>>
    BY <1>1, TrailIs
  <2>2. s \o <<>> = s /\ Stem(s) \o <<>> = Stem(s)
    BY StemType, ConcatEmptySeq
  <2>. QED
    BY <1>1, <2>1, <2>2, Zenon
<1>2. CASE C # {}
  <2>1. x = MadeUp(g, C) /\ Top(s).role = "calls" /\ C \in SUBSET Call /\ x \in Seq(Entry)
    BY <1>2, TrailIs
  <2>2. /\ \A c \in C : \E j \in 1 .. n : x[j] = Interrupted(g, c)
        /\ \A i, j \in 1 .. n : x[i].call = x[j].call => i = j
        /\ \A j \in 1 .. n : \E c \in C : x[j] = Interrupted(g, c)
    <3>. HIDE DEF C, g
    <3>1. /\ \A c \in C : \E j \in 1 .. Len(MadeUp(g, C)) : MadeUp(g, C)[j] = Interrupted(g, c)
          /\ \A i, j \in 1 .. Len(MadeUp(g, C)) : MadeUp(g, C)[i].call = MadeUp(g, C)[j].call => i = j
          /\ \A j \in 1 .. Len(MadeUp(g, C)) : \E c \in C : MadeUp(g, C)[j] = Interrupted(g, c)
      BY <2>1, MadeUpOnce
    <3>. HIDE DEF x
    <3>. QED
      BY <2>1, <3>1, Zenon
  <2>3. n \in Nat /\ Begin(n) = x /\ Begin(0) = <<>>
    BY <2>1, SubSeqFull, SubSeqEmpty
  <2>4. \A k \in 0 .. (n - 1) : Begin(k) \in Seq(Entry) /\ Begin(k + 1) = Append(Begin(k), x[k + 1])
    BY <2>1, Beginnings
  <2>5. Stem(s) \in Seq(Entry)
    BY StemType
  <2>. HIDE DEF Begin, x, n
  <2>6. 0 \in U
    <3>1. s \o <<>> = s /\ Stem(s) \o <<>> = Stem(s)
      BY <2>5, ConcatEmptySeq
    <3>2. Done(0) = {} /\ C \ {} = C
      OBVIOUS
    <3>3. 0 \in 0 .. n
      BY <2>3
    <3>4. Left(s) = C \ Done(0)
      BY <3>2
    <3>. HIDE DEF Done, C
    <3>. QED
      BY <2>3, <3>1, <3>3, <3>4, Zenon
  <2>7. ASSUME NEW k \in 0 .. (n - 1), k \in U PROVE k + 1 \in U
    <3>. DEFINE e == x[k + 1]
                u == s \o Begin(k)
    <3>1. k + 1 \in 1 .. n /\ k + 1 \in 0 .. n /\ \A j \in 1 .. k : j \in 1 .. n /\ j # k + 1
      BY <2>3
    <3>2. PICK c \in C : e = Interrupted(g, c)
      BY <2>2, <3>1
    <3>3. e \in Entry /\ e.role = "tool" /\ e.group = g /\ e.call = c
      <4>1. e \in Entry
        BY <2>1, <3>1 DEF n
      <4>. QED
        BY <3>2, <4>1 DEF Interrupted, Result
    <3>4. c \notin Done(k)
      BY <2>2, <3>1, <3>3
    <3>5. u \in Seq(Entry) /\ s \o Begin(k + 1) = Append(u, e) /\ Stem(s) \o Begin(k + 1) = Append(Stem(s) \o Begin(k), e)
      <4>1. Begin(k) \in Seq(Entry) /\ Begin(k + 1) = Append(Begin(k), e)
        BY <2>4
      <4>. HIDE DEF e
      <4>2. s \o Append(Begin(k), e) = Append(s \o Begin(k), e)
        BY <3>3, <4>1, JoinAppend
      <4>3. Stem(s) \o Append(Begin(k), e) = Append(Stem(s) \o Begin(k), e)
        BY <2>5, <3>3, <4>1, JoinAppend
      <4>4. s \o Begin(k) \in Seq(Entry)
        BY <4>1
      <4>. QED
        BY <4>1, <4>2, <4>3, <4>4, Zenon
    <3>6. Stem(u) = Stem(s) \o Begin(k) /\ Top(u) = Top(s) /\ Left(u) = C \ Done(k)
      BY <2>7
    <3>7. Fits(u, e)
      <4>1. c \in Left(u)
        BY <3>2, <3>4, <3>6
      <4>. HIDE DEF u, e
      <4>. QED
        BY <2>1, <3>3, <3>6, <4>1 DEF Fits
    <3>8. Done(k + 1) = Done(k) \cup {c}
      <4>1. 1 .. (k + 1) = (1 .. k) \cup {k + 1}
        BY <2>3
      <4>2. x[k + 1].call = c
        BY <3>3
      <4>. HIDE DEF e
      <4>. QED
        BY <4>1, <4>2
    <3>. HIDE DEF u, e, Done, C, g
    <3>9. /\ Stem(Append(u, e)) = Append(Stem(u), e) /\ Top(Append(u, e)) = Top(u)
          /\ Left(Append(u, e)) = Left(u) \ {e.call}
      BY <3>3, <3>5, <3>7, FitsGrows
    <3>10. Left(Append(u, e)) = C \ Done(k + 1)
      BY <3>3, <3>6, <3>8, <3>9
    <3>. QED
      BY <3>1, <3>5, <3>6, <3>9, <3>10, Zenon
  <2>8. n \in U
    <3>. HIDE DEF U
    <3>1. \A k \in 0 .. n : k \in U
      BY <2>3, <2>6, <2>7, UpTo
    <3>. QED
      BY <2>3, <3>1
  <2>9. C \ Done(n) = {}
    <3>. HIDE DEF U, C, g
    <3>1. ASSUME NEW c \in C PROVE c \in Done(n)
      <4>1. PICK j \in 1 .. n : x[j] = Interrupted(g, c)
        BY <2>2
      <4>2. x[j].call = c
        BY <4>1 DEF Interrupted, Result
      <4>. QED
        BY <4>2
    <3>. HIDE DEF Done
    <3>. QED
      BY <3>1
  <2>. HIDE DEF Done, C, g
  <2>. QED
    BY <2>3, <2>8, <2>9, Zenon DEF x
<1>. QED
  BY <1>1, <1>2

\* What is repaired stays as it is.
LEMMA StemTwice ==
  ASSUME NEW s \in Seq(Entry)
  PROVE  Stem(Stem(s)) = Stem(s) /\ Top(Stem(s)) = Top(s) /\ Left(Stem(s)) = Left(s)
<1>. DEFINE T == {r \in Seq(Entry) : Stem(Stem(r)) = Stem(r) /\ Top(Stem(r)) = Top(r) /\ Left(Stem(r)) = Left(r)}
<1>1. <<>> \in T
  <2>1. Stem(<<>>) = <<>>
    <3>1. [k \in DOMAIN <<>> |-> Part(<<>>, k)] = <<>>
      OBVIOUS
    <3>. QED
      BY <3>1, FlattenEmpty DEF Stem
  <2>2. <<>> \in Seq(Entry)
    OBVIOUS
  <2>. QED
    BY <2>1, <2>2, Zenon
<1>2. ASSUME NEW r \in Seq(Entry), NEW e \in Entry, r \in T PROVE Append(r, e) \in T
  <2>. DEFINE t == Append(r, e)
              p == Stem(r)
  <2>1. t \in Seq(Entry) /\ p \in Seq(Entry)
    BY StemType
  <2>2. Stem(p) = p /\ Top(p) = Top(r) /\ Left(p) = Left(r)
    BY <1>2
  <2>3. Fits(p, e) <=> Fits(r, e)
    BY <2>2, Zenon DEF Fits
  <2>4. CASE e.role # "tool"
    <3>. DEFINE y == p \o TrailingUnanswered(r)
    <3>1. TrailingUnanswered(p) = TrailingUnanswered(r) /\ TrailingUnanswered(r) \in Seq(Entry)
      BY <2>1, <2>2, TrailIs
    <3>2. y \in Seq(Entry)
      BY <2>1, <3>1
    <3>3. Stem(y) = y /\ Left(y) = {}
      BY <2>1, <2>2, <3>1, SealAll
    <3>. HIDE DEF y
    <3>4. TrailingUnanswered(y) = <<>>
      BY <3>2, <3>3, TrailIs
    <3>5. y \o <<>> = y
      BY <3>2, ConcatEmptySeq
    <3>6. Stem(Append(y, e)) = Append(Stem(y) \o TrailingUnanswered(y), e) /\ Top(Append(y, e)) = e
          /\ Left(Append(y, e)) = IF e.role = "calls" THEN Call ELSE {}
      BY <2>4, <3>2, OtherGrows
    <3>7. Stem(t) = Append(y, e) /\ Top(t) = e /\ Left(t) = IF e.role = "calls" THEN Call ELSE {}
      BY <2>4, OtherGrows DEF y
    <3>. HIDE DEF t
    <3>8. Stem(Stem(t)) = Stem(t) /\ Top(Stem(t)) = Top(t) /\ Left(Stem(t)) = Left(t)
      BY <3>3, <3>4, <3>5, <3>6, <3>7, Zenon
    <3>. QED
      BY <2>1, <3>8 DEF t
  <2>5. CASE e.role = "tool" /\ Fits(r, e)
    <3>1. Stem(t) = Append(p, e) /\ Top(t) = Top(r) /\ Left(t) = Left(r) \ {e.call}
      BY <2>5, FitsGrows
    <3>2. Stem(Append(p, e)) = Append(Stem(p), e) /\ Top(Append(p, e)) = Top(p)
          /\ Left(Append(p, e)) = Left(p) \ {e.call}
      BY <2>1, <2>3, <2>5, FitsGrows
    <3>. HIDE DEF t, p
    <3>3. Stem(Stem(t)) = Stem(t) /\ Top(Stem(t)) = Top(t) /\ Left(Stem(t)) = Left(t)
      BY <2>2, <3>1, <3>2, Zenon
    <3>. QED
      BY <2>1, <3>3 DEF t
  <2>6. CASE e.role = "tool" /\ ~Fits(r, e)
    <3>1. Stem(t) = p /\ Top(t) = Top(r) /\ Left(t) = Left(r)
      BY <2>6, UnfitGrows
    <3>. HIDE DEF t, p
    <3>3. Stem(Stem(t)) = Stem(t) /\ Top(Stem(t)) = Top(t) /\ Left(Stem(t)) = Left(t)
      BY <2>2, <3>1, Zenon
    <3>. QED
      BY <2>1, <3>3 DEF t
  <2>. QED
    BY <2>4, <2>5, <2>6
<1>3. s \in T
  <2>. HIDE DEF T
  <2>. QED
    BY <1>1, <1>2, EverySeq
<1>. QED
  BY <1>3

\* The entries that no CompressNow beside the turn can have added, when M are the groups it
\* added results to.
Mine(M) == {e \in Entry : e.role = "tool" => e.group \notin M}

\* Two transcripts are alike when they would be repaired to the same one, those groups apart,
\* and go on being so whatever is appended to both.
Alike(v, l, M) ==
  /\ Among(Stem(v), Mine(M)) = Among(Stem(l), Mine(M))
  /\ Top(v) = Top(l)
  /\ Top(l).role = "calls" /\ Top(l).group \notin M => Left(v) = Left(l)

LEMMA EntriesAmong ==
  ASSUME NEW a \in Seq(Entry), NEW b \in Seq(Entry), NEW S
  PROVE  Among(a \o b, S) = Among(a, S) \o Among(b, S)
  BY AmongConcat

LEMMA StemAmong ==
  ASSUME NEW s \in Seq(Entry), NEW S
  PROVE  Among(Stem(s) \o TrailingUnanswered(s), S) = Among(Stem(s), S) \o Among(TrailingUnanswered(s), S)
<1>. DEFINE a == Stem(s)
            b == TrailingUnanswered(s)
<1>1. a \in Seq(Entry) /\ b \in Seq(Entry)
  BY StemType, TrailIs
<1>. HIDE DEF a, b
<1>2. Among(a \o b, S) = Among(a, S) \o Among(b, S)
  BY <1>1, EntriesAmong, ZenonT(60)
<1>. QED
  BY <1>2, Zenon DEF a, b

LEMMA TrailOut ==
  ASSUME NEW s \in Seq(Entry), NEW M, Top(s).group \in M
  PROVE  Among(TrailingUnanswered(s), Mine(M)) = <<>>
<1>. DEFINE x == TrailingUnanswered(s)
            g == Top(s).group
            C == Left(s)
<1>1. CASE C = {}
  BY <1>1, TrailIs, AmongEmpty
<1>2. CASE C # {}
  <2>1. x = MadeUp(g, C) /\ C \in SUBSET Call /\ x \in Seq(Entry)
    BY <1>2, TrailIs
  <2>2. x \in Seq({Interrupted(g, c) : c \in C})
    <3>. HIDE DEF x, C, g
    <3>. QED
      BY <2>1, MadeUpType
  <2>3. \A k \in 1 .. Len(x) : x[k] \notin Mine(M)
    <3>. SUFFICES ASSUME NEW k \in 1 .. Len(x) PROVE x[k] \notin Mine(M)
      OBVIOUS
    <3>. HIDE DEF x, C, g
    <3>1. PICK c \in C : x[k] = Interrupted(g, c)
      BY <2>2
    <3>. QED
      BY <3>1 DEF Mine, Interrupted, Result, g
  <2>4. <<>> \in Seq(Entry) /\ <<>> \o x = x
    BY <2>1, ConcatEmptySeq
  <2>. HIDE DEF x
  <2>5. Among(<<>> \o x, Mine(M)) = Among(<<>>, Mine(M))
    BY <2>1, <2>3, <2>4, AmongApart
  <2>. QED
    BY <2>4, <2>5, AmongEmpty, Zenon DEF x
<1>. QED
  BY <1>1, <1>2

LEMMA TrailAlike ==
  ASSUME NEW v \in Seq(Entry), NEW l \in Seq(Entry), NEW M, Alike(v, l, M)
  PROVE  Among(TrailingUnanswered(v), Mine(M)) = Among(TrailingUnanswered(l), Mine(M))
<1>1. Top(v) = Top(l)
  BY DEF Alike
<1>2. CASE Top(l).role # "calls"
  <2>1. Left(v) = {} /\ Left(l) = {}
    BY <1>1, <1>2, TrailIs
  <2>. QED
    BY <2>1, TrailIs
<1>3. CASE Top(l).role = "calls" /\ Top(l).group \notin M
  <2>1. Left(v) = Left(l)
    BY <1>3 DEF Alike
  <2>2. TrailingUnanswered(v) = TrailingUnanswered(l)
    BY <1>1, <2>1, TrailIs
  <2>. QED
    BY <2>2
<1>4. CASE Top(l).group \in M
  BY <1>1, <1>4, TrailOut
<1>. QED
  BY <1>2, <1>3, <1>4

\* Transcripts that are alike are repaired alike.
LEMMA AlikeSame ==
  ASSUME NEW v \in Seq(Entry), NEW l \in Seq(Entry), NEW M, Alike(v, l, M)
  PROVE  Among(Sanitize(v), Mine(M)) = Among(Sanitize(l), Mine(M))
<1>1. \A s \in Seq(Entry) : Among(Sanitize(s), Mine(M))
                              = Among(Stem(s), Mine(M)) \o Among(TrailingUnanswered(s), Mine(M))
  <2>. SUFFICES ASSUME NEW s \in Seq(Entry)
                PROVE  Among(Sanitize(s), Mine(M))
                         = Among(Stem(s), Mine(M)) \o Among(TrailingUnanswered(s), Mine(M))
    OBVIOUS
  <2>1. Stem(s) \in Seq(Entry) /\ TrailingUnanswered(s) \in Seq(Entry)
    BY StemType, TrailIs
  <2>2. Among(Stem(s) \o TrailingUnanswered(s), Mine(M))
          = Among(Stem(s), Mine(M)) \o Among(TrailingUnanswered(s), Mine(M))
    BY StemAmong
  <2>3. Sanitize(s) = Stem(s) \o TrailingUnanswered(s)
    BY SanitizeIs
  <2>. QED
    BY <2>2, <2>3, Zenon
<1>2. Among(TrailingUnanswered(v), Mine(M)) = Among(TrailingUnanswered(l), Mine(M))
  BY TrailAlike
<1>3. Among(Stem(v), Mine(M)) = Among(Stem(l), Mine(M))
  BY DEF Alike
<1>. QED
  BY <1>1, <1>2, <1>3, Zenon

\* A result shows among the entries S of the repaired transcript when it is kept.
LEMMA ToolShows ==
  ASSUME NEW s \in Seq(Entry), NEW e \in Entry, e.role = "tool", NEW S
  PROVE  Among(Stem(Append(s, e)), S)
           = IF Fits(s, e) /\ e \in S THEN Append(Among(Stem(s), S), e) ELSE Among(Stem(s), S)
<1>1. Stem(s) \in Seq(Entry)
  BY StemType
<1>2. Among(Append(Stem(s), e), S) = IF e \in S THEN Append(Among(Stem(s), S), e) ELSE Among(Stem(s), S)
  BY <1>1, AmongAppend
<1>3. CASE Fits(s, e)
  BY <1>2, <1>3, FitsGrows, Zenon
<1>4. CASE ~Fits(s, e)
  BY <1>4, UnfitGrows, Zenon
<1>. QED
  BY <1>3, <1>4

LEMMA AlikeBoth ==
  ASSUME NEW v \in Seq(Entry), NEW l \in Seq(Entry), NEW M, Alike(v, l, M), NEW e \in Entry
  PROVE  Alike(Append(v, e), Append(l, e), M)
<1>1. /\ Among(Stem(v), Mine(M)) = Among(Stem(l), Mine(M)) /\ Top(v) = Top(l)
      /\ Top(l).role = "calls" /\ Top(l).group \notin M => Left(v) = Left(l)
  BY DEF Alike
<1>2. CASE e.role # "tool"
  <2>1. \A s \in Seq(Entry) :
          /\ Top(Append(s, e)) = e /\ Left(Append(s, e)) = IF e.role = "calls" THEN Call ELSE {}
          /\ Among(Stem(Append(s, e)), Mine(M))
               = IF e \in Mine(M)
                 THEN Append(Among(Stem(s), Mine(M)) \o Among(TrailingUnanswered(s), Mine(M)), e)
                 ELSE Among(Stem(s), Mine(M)) \o Among(TrailingUnanswered(s), Mine(M))
    <3>. SUFFICES ASSUME NEW s \in Seq(Entry)
                  PROVE  /\ Top(Append(s, e)) = e
                         /\ Left(Append(s, e)) = IF e.role = "calls" THEN Call ELSE {}
                         /\ Among(Stem(Append(s, e)), Mine(M))
                              = IF e \in Mine(M)
                                THEN Append(Among(Stem(s), Mine(M)) \o Among(TrailingUnanswered(s), Mine(M)), e)
                                ELSE Among(Stem(s), Mine(M)) \o Among(TrailingUnanswered(s), Mine(M))
      OBVIOUS
    <3>1. Stem(s) \in Seq(Entry) /\ TrailingUnanswered(s) \in Seq(Entry)
      BY StemType, TrailIs
    <3>2. Stem(s) \o TrailingUnanswered(s) \in Seq(Entry)
      BY <3>1
    <3>3. Among(Append(Stem(s) \o TrailingUnanswered(s), e), Mine(M))
            = IF e \in Mine(M) THEN Append(Among(Stem(s) \o TrailingUnanswered(s), Mine(M)), e)
              ELSE Among(Stem(s) \o TrailingUnanswered(s), Mine(M))
      BY <3>2, AmongAppend
    <3>4. Among(Stem(s) \o TrailingUnanswered(s), Mine(M))
            = Among(Stem(s), Mine(M)) \o Among(TrailingUnanswered(s), Mine(M))
      BY StemAmong
    <3>5. /\ Stem(Append(s, e)) = Append(Stem(s) \o TrailingUnanswered(s), e) /\ Top(Append(s, e)) = e
          /\ Left(Append(s, e)) = IF e.role = "calls" THEN Call ELSE {}
      BY <1>2, OtherGrows
    <3>6. Among(Stem(Append(s, e)), Mine(M)) = Among(Append(Stem(s) \o TrailingUnanswered(s), e), Mine(M))
      BY <3>5, Zenon
    <3>. QED
      BY <3>3, <3>4, <3>5, <3>6, Zenon
  <2>2. Among(TrailingUnanswered(v), Mine(M)) = Among(TrailingUnanswered(l), Mine(M))
    BY TrailAlike
  <2>. QED
    BY <1>1, <2>1, <2>2, Zenon DEF Alike
<1>3. CASE e.role = "tool"
  <2>1. e.group \notin M => (Fits(v, e) <=> Fits(l, e))
    BY <1>1, Zenon DEF Fits
  <2>2. e \in Mine(M) <=> e.group \notin M
    BY <1>3 DEF Mine
  <2>3. /\ Among(Stem(Append(v, e)), Mine(M))
             = IF Fits(v, e) /\ e \in Mine(M) THEN Append(Among(Stem(v), Mine(M)), e) ELSE Among(Stem(v), Mine(M))
        /\ Among(Stem(Append(l, e)), Mine(M))
             = IF Fits(l, e) /\ e \in Mine(M) THEN Append(Among(Stem(l), Mine(M)), e) ELSE Among(Stem(l), Mine(M))
    BY <1>3, ToolShows
  <2>4. Among(Stem(Append(v, e)), Mine(M)) = Among(Stem(Append(l, e)), Mine(M))
    BY <1>1, <2>1, <2>2, <2>3, Zenon
  <2>5. /\ Top(Append(v, e)) = Top(v) /\ Left(Append(v, e)) = IF Fits(v, e) THEN Left(v) \ {e.call} ELSE Left(v)
        /\ Top(Append(l, e)) = Top(l) /\ Left(Append(l, e)) = IF Fits(l, e) THEN Left(l) \ {e.call} ELSE Left(l)
    BY <1>3, Grows
  <2>6. ASSUME Top(l).role = "calls", Top(l).group \notin M PROVE Left(Append(v, e)) = Left(Append(l, e))
    <3>1. Left(v) = Left(l)
      BY <1>1, <2>6
    <3>2. Fits(v, e) <=> Fits(l, e)
      BY <1>1, <3>1, Zenon DEF Fits
    <3>. QED
      BY <2>5, <3>1, <3>2, Zenon
  <2>. QED
    BY <1>1, <2>4, <2>5, <2>6, Zenon DEF Alike
<1>. QED
  BY <1>2, <1>3

LEMMA AlikeMore ==
  ASSUME NEW v \in Seq(Entry), NEW l \in Seq(Entry), NEW M, NEW N, M \subseteq N, Alike(v, l, M)
  PROVE  Alike(v, l, N)
<1>1. Mine(N) \subseteq Mine(M)
  BY DEF Mine
<1>2. \A s \in Seq(Entry) : Among(Among(Stem(s), Mine(M)), Mine(N)) = Among(Stem(s), Mine(N))
  BY <1>1, StemType, AmongTwice
<1>3. Among(Stem(v), Mine(N)) = Among(Stem(l), Mine(N))
  BY <1>2, Zenon DEF Alike
<1>. QED
  BY <1>3 DEF Alike

LEMMA AlikeBeside ==
  ASSUME NEW v \in Seq(Entry), NEW l \in Seq(Entry), NEW M, Alike(v, l, M), NEW e \in Entry, e.role = "tool"
  PROVE  Alike(v, Append(l, e), M \cup {e.group})
<1>. DEFINE N == M \cup {e.group}
<1>1. Alike(v, l, N)
  BY AlikeMore
<1>2. e \notin Mine(N)
  BY DEF Mine
<1>3. Among(Stem(Append(l, e)), Mine(N)) = Among(Stem(l), Mine(N))
  BY <1>2, ToolShows
<1>4. Top(Append(l, e)) = Top(l) /\ Left(Append(l, e)) = IF Fits(l, e) THEN Left(l) \ {e.call} ELSE Left(l)
  BY Grows
<1>5. Top(l).group \notin N => ~Fits(l, e)
  BY DEF Fits
<1>. HIDE DEF N
<1>6. Alike(v, Append(l, e), N)
  BY <1>1, <1>3, <1>4, <1>5, Zenon DEF Alike
<1>. QED
  BY <1>6 DEF N

\* The view a turn begins with is alike the healed transcript.
LEMMA AlikeBuilt ==
  ASSUME NEW s \in Seq(Entry), NEW M
  PROVE  Alike(Sanitize(s \o TrailingUnanswered(s)), s \o TrailingUnanswered(s), M)
<1>. DEFINE h == s \o TrailingUnanswered(s)
<1>1. h \in Seq(Entry) /\ Left(h) = {}
  BY TrailIs, SealAll
<1>. HIDE DEF h
<1>2. Stem(h) \in Seq(Entry) /\ Stem(h) \o <<>> = Stem(h)
  BY <1>1, StemType, ConcatEmptySeq
<1>3. TrailingUnanswered(h) = <<>>
  BY <1>1, TrailIs
<1>4. Sanitize(h) = Stem(h)
  BY <1>1, <1>2, <1>3, SanitizeIs
<1>5. Stem(Stem(h)) = Stem(h) /\ Top(Stem(h)) = Top(h) /\ Left(Stem(h)) = Left(h)
  BY <1>1, StemTwice
<1>. QED
  BY <1>4, <1>5, Zenon DEF Alike, h

-----------------------------------------------------------------------------
\* While a turn works on a transcript, its view is alike the log.
ViewInv == pc \in {"model", "tools", "batch", "report", "steering"} => Alike(view, log, meddled)

LEMMA ViewNext ==
  ASSUME TypeInv, ViewInv, [Next]_vars
  PROVE  ViewInv'
<1>. DEFINE W == {"model", "tools", "batch", "report", "steering"}
<1>0. log \in Seq(Entry) /\ view \in Seq(Entry)
  BY DEF TypeInv, LogType
<1>1. CASE UNCHANGED <<log, view, meddled>> /\ (pc \in W \/ pc' \notin W)
  BY <1>1 DEF ViewInv
<1>2. CASE BuildMessages
  <2>1. log' = log \o TrailingUnanswered(log) /\ view' = Sanitize(log \o TrailingUnanswered(log))
    BY <1>2 DEF BuildMessages
  <2>. QED
    BY <1>0, <2>1, AlikeBuilt DEF ViewInv
<1>3. ASSUME NEW e \in Entry, pc \in W, log' = Append(log, e), view' = Append(view, e), meddled' = meddled
      PROVE  ViewInv'
  <2>1. Alike(view, log, meddled)
    BY <1>3 DEF ViewInv
  <2>2. Alike(Append(view, e), Append(log, e), meddled)
    BY <1>0, <2>1, AlikeBoth
  <2>. QED
    BY <1>3, <2>2 DEF ViewInv
<1>4. CASE CompressSeals
  <2>. DEFINE e == Head(healing)
  <2>1. /\ log' = Append(log, e) /\ view' = view /\ meddled' = meddled \cup {e.group} /\ pc' = pc
        /\ healing # <<>>
    BY <1>4 DEF CompressSeals, turnVars
  <2>2. e \in Entry /\ e.role = "tool"
    <3>. DEFINE T == {f \in Entry : f.role = "tool"}
    <3>1. healing \in Seq(T)
      BY DEF TypeInv, LogType
    <3>. HIDE DEF T
    <3>2. e \in T
      BY <2>1, <3>1, HeadTailProperties
    <3>. QED
      BY <3>2 DEF T
  <2>. HIDE DEF e
  <2>3. ASSUME pc \in W PROVE Alike(view, Append(log, e), meddled \cup {e.group})
    <3>1. Alike(view, log, meddled)
      BY <2>3 DEF ViewInv
    <3>. QED
      BY <1>0, <2>2, <3>1, AlikeBeside
  <2>4. pc \in W => Alike(view', log', meddled')
    BY <2>1, <2>3, Zenon
  <2>. QED
    BY <2>1, <2>4 DEF ViewInv
<1>5. ASSUME NEW f \in Fingerprint, ModelCalls(f) PROVE ViewInv'
  <2>1. pc = "model" /\ groups < MaxGroups /\ meddled' = meddled
    BY <1>5 DEF ModelCalls
  <2>2. groups + 1 \in 1 .. MaxGroups /\ chats \in 1 .. MaxChats
    BY <2>1, TurnAssumption DEF TypeInv, GuardType, TurnType
  <2>3. \A p \in BOOLEAN : Calls(groups + 1, f, p) \in Entry
    BY <2>2 DEF Calls, Entry
  <2>4. \/ log' = log /\ view' = view
        \/ \E p \in BOOLEAN : /\ log' = Append(log, Calls(groups + 1, f, p))
                             /\ view' = Append(view, Calls(groups + 1, f, p))
    BY <1>5 DEF ModelCalls, Show
  <2>5. ASSUME NEW e \in Entry, log' = Append(log, e), view' = Append(view, e) PROVE ViewInv'
    BY <1>1, <1>3, <2>1, <2>5
  <2>6. CASE log' = log /\ view' = view
    BY <1>1, <1>3, <2>1, <2>6
  <2>. QED
    BY <2>3, <2>4, <2>5, <2>6
<1>6. CASE Report
  <2>. DEFINE b == IF <<group.id, group.next>> \in ran THEN "output"
                   ELSE IF Skip THEN "repeated" ELSE "dropped"
              e == Result(group.id, group.next, b)
  <2>1. b \in {"output", "repeated", "dropped", "interrupted"}
    OBVIOUS
  <2>2. pc = "report" /\ meddled' = meddled
    BY <1>6 DEF Report, historyVars
  <2>3. group.id \in Groups /\ group.next \in Call
    BY <2>2, TurnAssumption DEF TypeInv, GroupType, GroupRec, Busy, Groups
  <2>4. UNCHANGED <<log, view>> \/ (log' = Append(log, e) /\ view' = Append(view, e))
    BY <1>6 DEF Report, Show
  <2>. HIDE DEF b
  <2>5. e \in Entry
    BY <2>1, <2>3, ResultEntry
  <2>. HIDE DEF e
  <2>. QED
    BY <1>1, <1>3, <2>2, <2>4, <2>5
<1>7. CASE DrainSteering
  <2>1. pc = "steering" /\ meddled' = meddled /\ raw \in Seq(Message)
    BY <1>7 DEF DrainSteering, historyVars, TypeInv, SteerType
  <2>2. CASE UNCHANGED <<log, view>>
    BY <1>1, <2>1, <2>2
  <2>3. CASE ~UNCHANGED <<log, view>>
    <3>. DEFINE e == Steer(Head(raw))
    <3>1. raw # <<>> /\ log' = Append(log, e) /\ view' = Append(view, e)
      BY <1>7, <2>3 DEF DrainSteering, Show
    <3>2. e \in Entry
      BY <2>1, <3>1, HeadTailProperties DEF Entry
    <3>. HIDE DEF e
    <3>. QED
      BY <1>3, <2>1, <3>1, <3>2
  <2>. QED
    BY <2>2, <2>3
<1>8. CASE Seal \/ EndTurn \/ PersistLeftover \/ Crash \/ BeginChat \/ PersistUser
  <2>1. pc' \notin W
    BY <1>8 DEF Seal, EndTurn, PersistLeftover, Crash, BeginChat, PersistUser
  <2>. QED
    BY <2>1 DEF ViewInv
<1>9. CASE ModelFails \/ ModelAnswers
  <2>1. pc' \notin W
    BY <1>9 DEF ModelFails, ModelAnswers
  <2>. QED
    BY <2>1 DEF ViewInv
<1>10. CASE \/ BeginBatch \/ RunCall \/ GroupDone \/ Cancel \/ CompressReads
            \/ (\E i \in Call : BatchCall(i)) \/ (\E m \in Message : Enqueue(m))
  <2>1. UNCHANGED <<log, view, meddled>> /\ (pc \in W \/ pc' \notin W)
    BY <1>10 DEF BeginBatch, RunCall, GroupDone, Cancel, CompressReads, BatchCall, Enqueue, ClosePending,
                 turnVars, historyVars
  <2>. QED
    BY <1>1, <2>1
<1>11. CASE UNCHANGED vars
  <2>1. UNCHANGED <<log, view, meddled, pc>>
    BY <1>11 DEF vars, turnVars, historyVars
  <2>. QED
    BY <1>1, <2>1
<1>. QED
  BY <1>2, <1>4, <1>5, <1>6, <1>7, <1>8, <1>9, <1>10, <1>11 DEF Next, Step

\* ViewMatchesLog, for any faults: what is sent to the provider is the transcript a turn
\* resumed from the store would send, with its interrupted groups repaired in the same way,
\* whatever steering, failing stores, cancellations, crashes and concurrent compressions came
\* before.
THEOREM ViewMatchesLogHolds == Spec => []ViewMatchesLog
<1>1. Init => ViewInv
  BY DEF Init, ViewInv
<1>2. TypeInv /\ ViewInv => ViewMatchesLog
  <2>. SUFFICES ASSUME TypeInv, ViewInv, pc = "model" PROVE Own(Sanitize(view)) = Own(Sanitize(log))
    BY DEF ViewMatchesLog
  <2>1. Alike(view, log, meddled) /\ view \in Seq(Entry) /\ log \in Seq(Entry)
    BY DEF ViewInv, TypeInv, LogType
  <2>2. Among(Sanitize(view), Mine(meddled)) = Among(Sanitize(log), Mine(meddled))
    BY <2>1, AlikeSame
  <2>. QED
    BY <2>2 DEF Own, Mine
<1>. QED
  BY <1>1, <1>2, ViewNext, TypeInvHolds, PTL DEF Spec
=============================================================================
