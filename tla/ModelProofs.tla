---------------------------- MODULE ModelProofs ----------------------------
(***************************************************************************)
(* Theorems about what goes to the model and what comes from it.           *)
(*                                                                          *)
(* Completion, for any responses, payloads, numbers of retries, wires and   *)
(* faults: the requests and waits of an attempt are bounded by a ledger of  *)
(* what was sent, and nothing is sent after a rejection; the turns a        *)
(* history is encoded as alternate and say all of it.                       *)
(*                                                                          *)
(* Compaction, for any settings, sizes and numbers of rounds: what a pass   *)
(* lets go out fits and is valid, and it reports what it did.  The lemmas   *)
(* follow the system prompt at the head of the view through every cut.      *)
(***************************************************************************)
EXTENDS Completion, Compaction, FiniteSetTheorems, SequenceTheorems,
        WellFoundedInduction, TLAPS

(***************************************************************************)
(* What both use: numbers, loops, sequences.                               *)
(***************************************************************************)

\* A nonempty set of natural numbers has a least element: of the intervals up to its
\* members, ordered by inclusion, one is minimal.
LEMMA LeastExists ==
  ASSUME NEW S, S \subseteq Nat, S # {}
  PROVE  \E m \in S : \A k \in S : m <= k
<1>. DEFINE D == {1 .. m : m \in S}
            R == StrictSubsetOrdering(Nat)
<1>1. D \subseteq FiniteSubsetsOf(Nat) /\ D # {}
  <2>1. \A m \in S : IsFiniteSet(1 .. m) /\ 1 .. m \subseteq Nat
    BY FS_Interval
  <2>. QED
    BY <2>1 DEF FiniteSubsetsOf
<1>2. \E x \in D : \A y \in D : ~ (<<y, x>> \in R)
  <2>1. IsWellFoundedOn(R, FiniteSubsetsOf(Nat))
    BY FS_StrictSubsetOrderingWellFounded
  <2>. HIDE DEF D, R
  <2>. QED
    BY <1>1, <2>1, WFMin
<1>3. PICK m \in S : \A k \in S : ~ (<<1 .. k, 1 .. m>> \in R)
  BY <1>2
<1>4. \A k \in S : k < m => <<1 .. k, 1 .. m>> \in R
  <2>. SUFFICES ASSUME NEW k \in S, k < m PROVE <<1 .. k, 1 .. m>> \in R
    OBVIOUS
  <2>1. m \in 1 .. m /\ m \notin 1 .. k /\ 1 .. k \subseteq 1 .. m /\ 1 .. m \subseteq Nat
    OBVIOUS
  <2>. QED
    BY <2>1 DEF StrictSubsetOrdering
<1>5. \A k \in S : k \in Int
  OBVIOUS
<1>. HIDE DEF D, R
<1>6. \A k \in S : ~ (k < m)
  BY <1>3, <1>4
<1>7. m \in Int
  BY <1>5
<1>8. \A k \in S : m <= k
  BY <1>5, <1>6, <1>7
<1>. QED
  BY <1>8

\* The greatest member is the least upper bound.
LEMMA MaxProperties ==
  ASSUME NEW n \in Nat, NEW S, S \subseteq 0 .. n, S # {}
  PROVE  Max(S) \in S /\ \A y \in S : Max(S) >= y
<1>. DEFINE U == {m \in Nat : \A y \in S : y <= m}
<1>1. n \in U
  OBVIOUS
<1>2. PICK m \in U : \A k \in U : m <= k
  <2>. HIDE DEF U
  <2>1. U \subseteq Nat
    BY DEF U
  <2>. QED
    BY <1>1, <2>1, LeastExists
<1>3. m \in S
  <2>1. SUFFICES ASSUME m \notin S PROVE FALSE
    OBVIOUS
  <2>2. PICK z \in S : z \in 0 .. n /\ z <= m
    OBVIOUS
  <2>3. \A y \in S : y <= m - 1
    BY <2>1
  <2>4. m - 1 \in U
    <3>1. m - 1 \in Nat
      <4>1. z # m
        BY <2>1
      <4>. QED
        BY <2>2, <4>1
    <3>. QED
      BY <3>1, <2>3
  <2>. QED
    BY <2>4, <1>2
<1>4. m \in S /\ \A y \in S : m >= y
  BY <1>3
<1>. QED
  BY <1>4 DEF Max

\* Induction up to a number, on a set: were one of the numbers not in it, so would be
\* its predecessor, and the intervals up to such numbers are well-founded by inclusion.
LEMMA UpTo ==
  ASSUME NEW n \in Nat, NEW T, 0 \in T, \A k \in 0 .. (n - 1) : k \in T => k + 1 \in T
  PROVE  \A k \in 0 .. n : k \in T
<1>. SUFFICES ASSUME NEW m \in 0 .. n, m \notin T PROVE FALSE
  OBVIOUS
<1>. DEFINE D == {1 .. k : k \in {j \in 0 .. n : j \notin T}}
            R == StrictSubsetOrdering(Nat)
<1>1. D \subseteq FiniteSubsetsOf(Nat) /\ D # {}
  <2>1. \A k \in 0 .. n : IsFiniteSet(1 .. k) /\ 1 .. k \subseteq Nat
    BY FS_Interval
  <2>. QED
    BY <2>1 DEF FiniteSubsetsOf
<1>2. \E x \in D : \A y \in D : ~ (<<y, x>> \in R)
  <2>1. IsWellFoundedOn(R, FiniteSubsetsOf(Nat))
    BY FS_StrictSubsetOrderingWellFounded
  <2>. HIDE DEF D, R
  <2>. QED
    BY <1>1, <2>1, WFMin
<1>3. PICK k \in 0 .. n : k \notin T /\ \A j \in 0 .. n : j \notin T => ~ (<<1 .. j, 1 .. k>> \in R)
  BY <1>2
<1>4. k - 1 \in 0 .. (n - 1) /\ (k - 1) + 1 = k
  BY <1>3
<1>5. k - 1 \in 0 .. n /\ k - 1 \notin T
  BY <1>3, <1>4
<1>6. <<1 .. (k - 1), 1 .. k>> \in R
  <2>1. k \in 1 .. k /\ k \notin 1 .. (k - 1) /\ 1 .. (k - 1) \subseteq 1 .. k /\ 1 .. k \subseteq Nat
    BY <1>4
  <2>. QED
    BY <2>1 DEF StrictSubsetOrdering
<1>. QED
  BY <1>3, <1>5, <1>6

\* A loop that goes from state to state computes a state for every number of passes.
Looped(n, X, x, G, f) ==
  f \in [0 .. n -> X] /\ f[0] = x /\ \A k \in 1 .. n : f[k] = G[k][f[k - 1]]

\* What runs through n rounds, each of which takes the value on.
LEMMA LoopExists ==
  ASSUME NEW n \in Nat, NEW X, NEW x \in X, NEW G \in [1 .. n -> [X -> X]]
  PROVE  \E f : Looped(n, X, x, G, f)
<1>. DEFINE T == {m \in 0 .. n : \E f : Looped(m, X, x, G, f)}
<1>1. 0 \in T
  <2>1. Looped(0, X, x, G, [k \in 0 .. 0 |-> x])
    BY DEF Looped
  <2>2. 0 \in 0 .. n
    OBVIOUS
  <2>. QED
    BY <2>1, <2>2
<1>2. ASSUME NEW m \in 0 .. (n - 1), m \in T PROVE m + 1 \in T
  <2>1. PICK f : Looped(m, X, x, G, f)
    BY <1>2
  <2>. DEFINE y == G[m + 1][f[m]]
              h == [k \in 0 .. (m + 1) |-> IF k = m + 1 THEN y ELSE f[k]]
  <2>2. y \in X
    <3>1. m + 1 \in 1 .. n /\ f[m] \in X
      BY <2>1 DEF Looped
    <3>. QED
      BY <3>1
  <2>3. h \in [0 .. (m + 1) -> X] /\ h[0] = x
    BY <2>1, <2>2 DEF Looped
  <2>4. \A k \in 0 .. m : h[k] = f[k]
    OBVIOUS
  <2>5. h[m + 1] = y
    OBVIOUS
  <2>. HIDE DEF h
  <2>6. ASSUME NEW k \in 1 .. (m + 1) PROVE h[k] = G[k][h[k - 1]]
    <3>1. CASE k = m + 1
      <4>1. k - 1 = m /\ h[m] = f[m]
        BY <2>4, <3>1
      <4>. QED
        BY <2>5, <3>1, <4>1
    <3>2. CASE k # m + 1
      <4>1. k \in 1 .. m /\ k - 1 \in 0 .. m /\ k \in 0 .. m
        BY <3>2
      <4>. QED
        BY <2>1, <2>4, <4>1 DEF Looped
    <3>. QED
      BY <3>1, <3>2
  <2>7. Looped(m + 1, X, x, G, h) /\ m + 1 \in 0 .. n
    BY <2>3, <2>6 DEF Looped
  <2>. QED
    BY <2>7
<1>3. n \in T
  <2>. HIDE DEF T
  <2>1. \A k \in 0 .. n : k \in T
    BY <1>1, <1>2, UpTo
  <2>. QED
    BY <2>1
<1>. QED
  BY <1>3

\* FlattenSeq as a loop.
Flat(ss, f) ==
  /\ f[0] = <<>> /\ FlattenSeq(ss) = f[Len(ss)]
  /\ \A k \in 1 .. Len(ss) : f[k] = f[k - 1] \o ss[k]

LEMMA FlattenLoop ==
  ASSUME NEW T, NEW ss \in Seq(Seq(T))
  PROVE  \E f \in [0 .. Len(ss) -> Seq(T)] : Flat(ss, f)
<1>. DEFINE n == Len(ss)
            Nth(g, k) == IF k = 1 THEN ss[k] ELSE g[k - 1] \o ss[k]
            G == [k \in 1 .. n |-> [r \in Seq(T) |-> r \o ss[k]]]
            Through(g) == g = [k \in 1 .. n |-> Nth(g, k)]
<1>0. \A r \in Seq(T) : <<>> \o r = r
  BY ConcatEmptySeq
<1>1. n \in Nat /\ \A k \in 1 .. n : ss[k] \in Seq(T)
  OBVIOUS
<1>2. G \in [1 .. n -> [Seq(T) -> Seq(T)]]
  BY <1>1
<1>3. PICK f : Looped(n, Seq(T), <<>>, G, f)
  <2>1. <<>> \in Seq(T)
    OBVIOUS
  <2>. HIDE DEF G, n
  <2>. QED
    BY <1>1, <1>2, <2>1, LoopExists
<1>4. f \in [0 .. n -> Seq(T)] /\ f[0] = <<>>
  BY <1>3 DEF Looped
<1>5. \A k \in 1 .. n : f[k] = f[k - 1] \o ss[k]
  <2>. SUFFICES ASSUME NEW k \in 1 .. n PROVE f[k] = f[k - 1] \o ss[k]
    OBVIOUS
  <2>1. f[k - 1] \in Seq(T)
    <3>1. k - 1 \in 0 .. n
      BY <1>1
    <3>. QED
      BY ONLY <1>4, <3>1
  <2>2. f[k] = G[k][f[k - 1]]
    BY <1>3 DEF Looped
  <2>. QED
    BY <2>1, <2>2
<1>6. CASE n = 0
  <2>1. FlattenSeq(ss) = f[n]
    BY <1>4, <1>6 DEF FlattenSeq
  <2>. QED
    BY <1>4, <1>5, <2>1 DEF Flat
<1>7. CASE n # 0
  <2>. DEFINE h == [k \in 1 .. n |-> f[k]]
              flatten == CHOOSE g : Through(g)
  <2>1. \A k \in 1 .. n : h[k] = Nth(h, k)
    <3>. SUFFICES ASSUME NEW k \in 1 .. n PROVE h[k] = Nth(h, k)
      OBVIOUS
    <3>0. f[k] = f[k - 1] \o ss[k] /\ ss[k] \in Seq(T)
      BY <1>1, <1>5
    <3>1. CASE k = 1
      <4>0. k - 1 = 0
        BY <3>1
      <4>1. f[1] = f[0] \o ss[1] /\ ss[1] \in Seq(T)
        BY ONLY <3>0, <3>1, <4>0
      <4>2. <<>> \o ss[1] = ss[1]
        BY ONLY <1>0, <4>1
      <4>3. f[1] = ss[1]
        BY ONLY <1>4, <4>1, <4>2
      <4>. QED
        BY <3>1, <4>3
    <3>2. CASE k # 1
      <4>1. k - 1 \in 1 .. n
        BY <1>1, <3>2
      <4>. QED
        BY <1>5, <3>2, <4>1
    <3>. QED
      BY <3>1, <3>2
  <2>2. Through(h)
    <3>. DEFINE g == [k \in 1 .. n |-> Nth(h, k)]
    <3>1. h = [k \in 1 .. n |-> h[k]]
      OBVIOUS
    <3>2. \A k \in 1 .. n : g[k] = h[k]
      <4>. HIDE DEF Nth, h
      <4>. QED
        BY <2>1
    <3>3. g = [k \in 1 .. n |-> g[k]]
      OBVIOUS
    <3>4. h = g
      <4>. HIDE DEF g, h
      <4>. QED
        BY <3>1, <3>2, <3>3
    <3>. QED
      BY <3>4
  <2>3. Through(flatten)
    <3>. HIDE DEF Through, h
    <3>. QED
      BY <2>2
  <2>4. FlattenSeq(ss) = flatten[n]
    BY <1>7 DEF FlattenSeq
  <2>. HIDE DEF flatten
  <2>5. \A k \in 1 .. n : flatten[k] = Nth(flatten, k)
    <3>. HIDE DEF Nth
    <3>. QED
      BY <2>3
  <2>. DEFINE U == {k \in 0 .. n : k = 0 \/ flatten[k] = f[k]}
  <2>6. 0 \in U
    BY <1>1
  <2>7. ASSUME NEW k \in 0 .. (n - 1), k \in U PROVE k + 1 \in U
    <3>1. k + 1 \in 1 .. n /\ k + 1 \in 0 .. n /\ (k + 1) - 1 = k
      BY <1>1
    <3>2. flatten[k + 1] = Nth(flatten, k + 1)
      <4>. HIDE DEF Nth
      <4>. QED
        BY <2>5, <3>1
    <3>3. f[k + 1] = f[k] \o ss[k + 1] /\ ss[k + 1] \in Seq(T)
      BY <1>1, <1>5, <3>1
    <3>4. CASE k = 0
      <4>1. flatten[1] = ss[1]
        BY <3>2, <3>4
      <4>2. f[1] = f[0] \o ss[1] /\ ss[1] \in Seq(T)
        <5>1. k + 1 = 1
          BY <3>4
        <5>. QED
          BY ONLY <3>3, <3>4, <5>1
      <4>3. <<>> \o ss[1] = ss[1]
        BY ONLY <1>0, <4>2
      <4>4. f[1] = ss[1]
        BY ONLY <1>4, <4>2, <4>3
      <4>. QED
        BY <3>1, <3>4, <4>1, <4>4
    <3>5. CASE k # 0
      <4>1. flatten[k + 1] = flatten[k] \o ss[k + 1]
        <5>1. k + 1 # 1
          BY <1>1, <3>5
        <5>. QED
          BY <3>1, <3>2, <5>1
      <4>2. flatten[k] = f[k]
        BY <2>7, <3>5
      <4>3. flatten[k + 1] = f[k + 1]
        BY ONLY <3>3, <4>1, <4>2
      <4>. QED
        BY <3>1, <4>3
    <3>. QED
      BY <3>4, <3>5
  <2>8. n \in U
    <3>. HIDE DEF U
    <3>1. \A k \in 0 .. n : k \in U
      BY <1>1, <2>6, <2>7, UpTo
    <3>. QED
      BY <1>1, <3>1
  <2>9. FlattenSeq(ss) = f[n]
    BY <1>7, <2>4, <2>8
  <2>. QED
    BY <1>4, <1>5, <2>9 DEF Flat
<1>. QED
  BY <1>6, <1>7

LEMMA FlattenEmpty == FlattenSeq(<<>>) = <<>>
<1>1. <<>> \in Seq(Seq({})) /\ Len(<<>>) = 0
  OBVIOUS
<1>2. PICK f \in [0 .. Len(<<>>) -> Seq({})] : Flat(<<>>, f)
  BY <1>1, FlattenLoop
<1>. QED
  BY <1>1, <1>2 DEF Flat

LEMMA FlattenAppend ==
  ASSUME NEW E, NEW ss \in Seq(Seq(E)), NEW x \in Seq(E)
  PROVE  FlattenSeq(Append(ss, x)) = FlattenSeq(ss) \o x
<1>. DEFINE n == Len(ss)
            tt == Append(ss, x)
<1>1. n \in Nat /\ tt \in Seq(Seq(E)) /\ Len(tt) = n + 1 /\ tt[n + 1] = x /\ \A k \in 1 .. n : tt[k] = ss[k]
  OBVIOUS
<1>2. PICK f \in [0 .. n -> Seq(E)] : Flat(ss, f)
  BY FlattenLoop
<1>. HIDE DEF tt
<1>3. PICK h \in [0 .. Len(tt) -> Seq(E)] : Flat(tt, h)
  BY <1>1, FlattenLoop
<1>. DEFINE U == {k \in 0 .. n : h[k] = f[k]}
<1>4. 0 \in U
  BY <1>1, <1>2, <1>3 DEF Flat
<1>5. ASSUME NEW k \in 0 .. (n - 1), k \in U PROVE k + 1 \in U
  <2>1. k + 1 \in 1 .. n /\ k + 1 \in 1 .. Len(tt) /\ (k + 1) - 1 = k /\ k + 1 \in 0 .. n
    BY <1>1
  <2>2. f[k + 1] = f[k] \o ss[k + 1]
    BY <1>2, <2>1 DEF Flat
  <2>3. h[k + 1] = h[k] \o tt[k + 1]
    BY <1>3, <2>1 DEF Flat
  <2>. QED
    BY <1>1, <1>5, <2>1, <2>2, <2>3
<1>6. h[n] = f[n]
  <2>. HIDE DEF U
  <2>1. \A k \in 0 .. n : k \in U
    BY <1>1, <1>4, <1>5, UpTo
  <2>2. n \in U
    BY <1>1, <2>1
  <2>. QED
    BY <2>2 DEF U
<1>7. h[n + 1] = h[n] \o x
  <2>1. n + 1 \in 1 .. Len(tt) /\ (n + 1) - 1 = n
    BY <1>1
  <2>. QED
    BY <1>1, <1>3, <2>1 DEF Flat
<1>8. FlattenSeq(tt) = h[n + 1] /\ FlattenSeq(ss) = f[n]
  BY <1>1, <1>2, <1>3 DEF Flat
<1>9. FlattenSeq(tt) = FlattenSeq(ss) \o x
  BY <1>6, <1>7, <1>8
<1>. QED
  BY <1>9 DEF tt

LEMMA FlattenType ==
  ASSUME NEW T, NEW ss \in Seq(Seq(T))
  PROVE  FlattenSeq(ss) \in Seq(T)
<1>1. PICK f \in [0 .. Len(ss) -> Seq(T)] : Flat(ss, f)
  BY FlattenLoop
<1>2. Len(ss) \in 0 .. Len(ss)
  OBVIOUS
<1>. QED
  BY <1>1, <1>2 DEF Flat

\* A sequence is its front and its last.
LEMMA FrontLast ==
  ASSUME NEW X, NEW s \in Seq(X), s # <<>>
  PROVE  /\ Front(s) \in Seq(X) /\ Last(s) \in X /\ s = Append(Front(s), Last(s))
         /\ Len(Front(s)) \in Nat /\ Len(s) = Len(Front(s)) + 1
         /\ DOMAIN s = 1 .. Len(s) /\ s[Len(s)] = Last(s)
         /\ \A i \in 1 .. Len(Front(s)) : s[i] = Front(s)[i]
<1>. DEFINE n == Len(s)
            q == SubSeq(s, 1, n - 1)
<1>1. n \in Nat /\ n # 0 /\ DOMAIN s = 1 .. n /\ \A i \in 1 .. n : s[i] \in X
  OBVIOUS
<1>2. q \in Seq(X) /\ Len(q) = n - 1 /\ \A i \in 1 .. (n - 1) : q[i] = s[i]
  BY <1>1
<1>3. Front(s) = q /\ Last(s) = s[n]
  BY DEF Front, Last
<1>. HIDE DEF q, n
<1>4. s = Append(q, s[n])
  <2>1. /\ Append(q, s[n]) \in Seq(X) /\ Len(Append(q, s[n])) = n /\ n \in 1 .. n
        /\ Append(q, s[n])[n] = s[n] /\ \A i \in 1 .. (n - 1) : Append(q, s[n])[i] = q[i]
    BY <1>1, <1>2
  <2>2. \A i \in 1 .. n : s[i] = Append(q, s[n])[i]
    <3>1. \A i \in 1 .. n : i \in 1 .. (n - 1) \/ i = n
      BY <1>1
    <3>. QED
      BY <1>2, <2>1, <3>1
  <2>3. Len(s) = n
    BY DEF n
  <2>. DEFINE a == Append(q, s[n])
  <2>. HIDE DEF a
  <2>4. a \in Seq(X) /\ Len(a) = n /\ \A i \in 1 .. n : s[i] = a[i]
    BY <2>1, <2>2 DEF a
  <2>5. s = a
    BY <2>3, <2>4
  <2>. QED
    BY <2>5 DEF a
<1>5. n - 1 \in Nat /\ n = (n - 1) + 1 /\ n \in 1 .. n /\ Len(s) = n
  BY <1>1 DEF n
<1>6. Len(q) \in Nat /\ n = Len(q) + 1 /\ s[n] \in X /\ \A i \in 1 .. Len(q) : s[i] = q[i]
  BY <1>1, <1>2, <1>5
<1>. QED
  BY ONLY <1>1, <1>2, <1>3, <1>4, <1>5, <1>6, Zenon

(***************************************************************************)
(* Completion.                                                              *)
(***************************************************************************)

Retried == {"429", "5xx", "idle", "net"}
Worthy == {"net", "deadline", "idle", "closed", "empty", "5xx", "streamreq"}
Rejections == {"4xx", "thinkstop", "cancelled"}
Errors == Worthy \cup {"429"} \cup Rejections
Entry == Errors \cup {"request", "wait"}

\* Nothing follows a rejection, and a wait follows a 429.
Heeded(s) == \A i \in DOMAIN s : i < Len(s) => s[i] \notin Rejections /\ (s[i] = "429" => s[i + 1] = "wait")
Requests(s) == {i \in DOMAIN s : s[i] = "request"}
Open(s) == s = <<>> \/ s[Len(s)] \notin Rejections \cup {"429"}

\* The local variables of a request keep their shape.
Field == {"via", "second", "forward", "pos", "content", "parts", "reasoning", "think", "closed", "fired"}
Shaped(q) == DOMAIN q = Field /\ q.second \in BOOLEAN /\ q.pos \in Nat

Busy == {"open", "recv", "body"}

\* Only the first request of an attempt may be followed by a second, and nothing
\* by more; a wait is for an error whose schedule has one left.
LogInv ==
  /\ log \in Seq(Entry) /\ Heeded(log)
  /\ \E a, b : Requests(log) \subseteq {a, b}
  /\ response = <<>> \/ response \in Responses
  /\ pc = "call" => Open(log) /\ Requests(log) = {}
  /\ pc \in Busy => /\ Shaped(req) /\ Open(log)
                    /\ (~req.second => \E a : Requests(log) \subseteq {a})
  /\ pc \in {"failed", "wait"} => err \in Errors
  /\ pc = "wait" => err \in Retried /\ attempt <= Backoffs(err)
  /\ attempt \in Nat /\ attempt <= 1 + Max({LLMRetries, RateRetries})

LEMMA Appended ==
  ASSUME NEW s \in Seq(Entry), NEW e \in Entry
  PROVE  /\ Append(s, e) \in Seq(Entry) /\ Len(Append(s, e)) = Len(s) + 1 /\ Append(s, e)[Len(s) + 1] = e
         /\ DOMAIN Append(s, e) = 1 .. (Len(s) + 1) /\ DOMAIN s = 1 .. Len(s) /\ Len(s) \in Nat
         /\ \A i \in 1 .. Len(s) : Append(s, e)[i] = s[i]
OBVIOUS

LEMMA Extended ==
  ASSUME NEW s \in Seq(Entry), Heeded(s), Open(s), NEW e \in Entry
  PROVE  /\ Append(s, e) \in Seq(Entry) /\ Heeded(Append(s, e))
         /\ Requests(Append(s, e)) \subseteq Requests(s) \cup {Len(s) + 1}
         /\ e # "request" => Requests(Append(s, e)) = Requests(s)
         /\ e \notin Rejections \cup {"429"} => Open(Append(s, e))
<1>. DEFINE u == Append(s, e)
<1>1. /\ u \in Seq(Entry) /\ Len(u) = Len(s) + 1 /\ u[Len(s) + 1] = e
      /\ DOMAIN u = 1 .. (Len(s) + 1) /\ DOMAIN s = 1 .. Len(s) /\ Len(s) \in Nat
      /\ \A i \in 1 .. Len(s) : u[i] = s[i]
  BY Appended
<1>. HIDE DEF u
<1>2. Heeded(u)
  <2>. SUFFICES ASSUME NEW i \in 1 .. Len(s)
                PROVE  u[i] \notin Rejections /\ (u[i] = "429" => u[i + 1] = "wait")
    BY <1>1 DEF Heeded
  <2>1. CASE i < Len(s)
    BY <2>1, <1>1 DEF Heeded
  <2>2. CASE i = Len(s)
    <3>1. s # <<>>
      BY <2>2, <1>1
    <3>2. s[i] \notin Rejections \cup {"429"}
      BY <3>1, <2>2 DEF Open
    <3>. QED
      BY <3>2, <1>1
  <2>3. i < Len(s) \/ i = Len(s)
    <3>1. Len(s) \in Nat
      BY <1>1
    <3>. QED
      BY <3>1
  <2>. QED
    BY <2>1, <2>2, <2>3
<1>3. Requests(u) \subseteq Requests(s) \cup {Len(s) + 1} /\ (e # "request" => Requests(u) = Requests(s))
  BY <1>1 DEF Requests
<1>4. e \notin Rejections \cup {"429"} => Open(u)
  BY <1>1 DEF Open
<1>. QED
  BY <1>1, <1>2, <1>3, <1>4 DEF u

LEMMA LogRespected == LogInv => RejectionRespected
<1>. SUFFICES ASSUME LogInv PROVE RejectionRespected
  OBVIOUS
<1>. DEFINE R == Requests(log)
<1>2. PICK a, b : R \subseteq {a, b}
  BY DEF LogInv
<1>3. IsFiniteSet({a, b}) /\ Cardinality({a, b}) \in Nat /\ Cardinality({a, b}) <= 2
  <2>1. IsFiniteSet({a}) /\ Cardinality({a}) = 1
    BY FS_Singleton
  <2>2. {a, b} = {a} \cup {b}
    OBVIOUS
  <2>3. /\ IsFiniteSet({a} \cup {b})
        /\ Cardinality({a} \cup {b}) = IF b \in {a} THEN Cardinality({a}) ELSE Cardinality({a}) + 1
    BY <2>1, FS_AddElement, Zenon
  <2>4. Cardinality({a} \cup {b}) \in {1, 2}
    BY <2>1, <2>3
  <2>. QED
    BY <2>2, <2>3, <2>4
<1>4. Cardinality(R) \in Nat /\ Cardinality(R) <= Cardinality({a, b})
  BY <1>2, <1>3, FS_Subset, FS_CardinalityType
<1>5. Cardinality(R) <= 2
  BY <1>3, <1>4
<1>. QED
  BY <1>5 DEF LogInv, RejectionRespected, Heeded, Requests, Rejections

\* What the client does with a delta leaves the shape of its variables.
LEMMA DeltaShaped ==
  ASSUME NEW q, Shaped(q), NEW d, d.k \in {"think", "text", "tool", "stop"}
  PROVE  Shaped(AddDelta(q, d)) /\ AddDelta(q, d).second = q.second /\ AddDelta(q, d).pos = q.pos
<1>1. CASE d.k = "think"
  <2>1. AddDelta(q, d) = [q EXCEPT !.reasoning = TRUE]
    BY <1>1, Zenon DEF AddDelta
  <2>. QED
    BY <2>1 DEF Shaped, Field
<1>2. CASE d.k = "text"
  <2>1. AddDelta(q, d) = [q EXCEPT !.content = Append(@, d.atom)]
    BY <1>2, Zenon DEF AddDelta
  <2>. QED
    BY <2>1 DEF Shaped, Field
<1>3. CASE d.k = "tool"
  <2>1. AddDelta(q, d) = [q EXCEPT !.parts = AddPart(@, d.index, d.part)]
    BY <1>3, Zenon DEF AddDelta
  <2>. QED
    BY <2>1 DEF Shaped, Field
<1>4. CASE d.k = "stop"
  <2>1. AddDelta(q, d) = q
    BY <1>4, Zenon DEF AddDelta
  <2>. QED
    BY <2>1
<1>. QED
  BY <1>1, <1>2, <1>3, <1>4

LEMMA StreamedShaped ==
  ASSUME NEW q, Shaped(q), NEW d
  PROVE  Shaped(Streamed(q, d)) /\ Streamed(q, d).second = q.second /\ Streamed(q, d).pos = q.pos
<1>1. CASE wire = "plain" /\ d.k = "text"
  <2>1. Streamed(q, d) = [q EXCEPT !.think = [in |-> Fed(d).in, held |-> Fed(d).held],
                                   !.content = req.content \o Fed(d).tokens]
    BY <1>1, Zenon DEF Streamed
  <2>. QED
    BY <2>1 DEF Shaped, Field
<1>2. CASE wire = "messages" /\ d.k = "stop"
  <2>1. Streamed(q, d) = [q EXCEPT !.parts = [i \in DOMAIN @ \ {d.index} |-> @[i]]]
    BY <1>2, Zenon DEF Streamed
  <2>. QED
    BY <2>1 DEF Shaped, Field
<1>3. CASE ~(wire = "plain" /\ d.k = "text") /\ ~(wire = "messages" /\ d.k = "stop")
  <2>1. Streamed(q, d) = q
    BY <1>3, Zenon DEF Streamed
  <2>. QED
    BY <2>1
<1>. QED
  BY <1>1, <1>2, <1>3

LEMMA OpeningShaped ==
  ASSUME NEW via, NEW second \in BOOLEAN
  PROVE  Shaped(Opening(via, second)) /\ Opening(via, second).second = second
  BY DEF Opening, Shaped, Field

LEMMA VerdictIs ==
  ASSUME NEW q
  PROVE  Verdict(q) \in {"ok", "thinkstop", "empty"}
  BY Zenon DEF Verdict

LEMMA BackoffsIs ==
  ASSUME NEW e
  PROVE  Backoffs(e) \in Nat /\ Backoffs(e) <= Max({LLMRetries, RateRetries}) /\ Max({LLMRetries, RateRetries}) \in Nat
<1>. DEFINE S == {LLMRetries, RateRetries}
<1>1. LLMRetries \in Nat /\ RateRetries \in Nat
  BY CompletionAssumption
<1>2. \E x \in S : \A y \in S : x >= y
  BY <1>1
<1>3. Max(S) \in S /\ \A y \in S : Max(S) >= y
  BY <1>2 DEF Max
<1>. QED
  BY <1>1, <1>3 DEF Backoffs


\* Errors end the attempt, or the second request follows.
LEMMA FailsLog ==
  ASSUME LogInv, pc \in Busy, NEW e \in Errors, Fails(e)
  PROVE  LogInv'
<1>1. log \in Seq(Entry) /\ Heeded(log) /\ Open(log) /\ Shaped(req) /\ e \in Entry /\ e # "request"
  BY DEF LogInv, Entry, Errors, Worthy, Rejections
<1>2. /\ Append(log, e) \in Seq(Entry) /\ Heeded(Append(log, e))
      /\ Requests(Append(log, e)) = Requests(log)
      /\ e \notin Rejections \cup {"429"} => Open(Append(log, e))
  BY <1>1, Extended
<1>3. err' = e /\ attempt' = attempt /\ response' = <<>>
  BY DEF Fails
<1>4. CASE FallsBack(e)
  <2>1. e \notin Rejections \cup {"429"} /\ ~req.second
    BY <1>4 DEF FallsBack, IsFallbackWorthy, Rejections
  <2>2. PICK a : Requests(log) \subseteq {a}
    BY <2>1 DEF LogInv
  <2>. DEFINE u == Append(log, e)
  <2>3. Append(u, "request") = log \o <<e, "request">>
    BY <1>1, <1>2
  <2>4. pc' = "open" /\ log' = Append(u, "request") /\ Shaped(req)' /\ req'.second = TRUE
    <3>1. req' = Opening(IF req.via = "stream" THEN "post" ELSE "stream", TRUE)
      BY <1>4 DEF Fails
    <3>2. Shaped(Opening(IF req.via = "stream" THEN "post" ELSE "stream", TRUE))
          /\ Opening(IF req.via = "stream" THEN "post" ELSE "stream", TRUE).second = TRUE
      BY OpeningShaped
    <3>. QED
      BY <1>4, <2>3, <3>1, <3>2 DEF Fails, Shaped
  <2>5. "request" \in Entry /\ "request" \notin Rejections \cup {"429"}
    BY DEF Entry, Rejections
  <2>. HIDE DEF u
  <2>6. /\ log' \in Seq(Entry) /\ Heeded(log') /\ Open(log')
        /\ Requests(log') \subseteq Requests(u) \cup {Len(u) + 1}
    BY <1>2, <2>1, <2>4, <2>5, Extended DEF u
  <2>7. Requests(log') \subseteq {a, Len(u) + 1}
    BY <1>2, <2>2, <2>6 DEF u
  <2>8. \E c, d : Requests(log') \subseteq {c, d}
    BY <2>7
  <2>. QED
    BY <1>3, <2>4, <2>6, <2>8 DEF LogInv, Busy
<1>5. CASE ~FallsBack(e)
  <2>1. pc' \in {"ended", "failed"} /\ log' = Append(log, e)
    BY <1>5 DEF Fails
  <2>2. \E a, b : Requests(log') \subseteq {a, b}
    BY <2>1, <1>2 DEF LogInv
  <2>. QED
    BY <1>2, <1>3, <2>1, <2>2 DEF LogInv, Busy
<1>. QED
  BY <1>4, <1>5

\* What the errors of the code are.
LEMMA ErrorsAre ==
  /\ Worthy \subseteq Errors /\ Rejections \subseteq Errors /\ "429" \in Errors /\ Errors \subseteq Entry
  /\ \A q : Verdict(q) # "ok" => Verdict(q) \in Errors
  BY VerdictIs DEF Worthy, Rejections, Errors, Entry

\* A step that leaves the log, the attempt and the request alone.
LEMMA SameLog ==
  ASSUME LogInv, log' = log, attempt' = attempt, response' = response, pc' \in {"ended", "result", "idle"}
  PROVE  LogInv'
BY DEF LogInv, Busy

LEMMA StutterLog ==
  ASSUME LogInv, UNCHANGED <<pc, req, response, err, attempt, log>>
  PROVE  LogInv'
BY DEF LogInv, Busy, Shaped

LEMMA AskLog ==
  ASSUME LogInv, Ask
  PROVE  LogInv'
<1>1. \E a, b : Requests(<<>>) \subseteq {a, b}
  BY DEF Requests
<1>2. Requests(<<>>) = {} /\ Heeded(<<>>) /\ <<>> \in Seq(Entry) /\ Open(<<>>)
  BY DEF Requests, Heeded, Open
<1>3. 1 <= 1 + Max({LLMRetries, RateRetries})
  BY BackoffsIs
<1>. QED
  BY <1>1, <1>2, <1>3 DEF LogInv, Ask, Busy

LEMMA CallLog ==
  ASSUME LogInv, Call
  PROVE  LogInv'
<1>1. log \in Seq(Entry) /\ Heeded(log) /\ Open(log) /\ Requests(log) = {}
  BY DEF LogInv, Call, Move
<1>2. "request" \in Entry /\ "request" \notin Rejections \cup {"429"}
  BY DEF Entry, Rejections
<1>3. /\ log' \in Seq(Entry) /\ Heeded(log') /\ Open(log')
      /\ Requests(log') \subseteq {Len(log) + 1}
  BY <1>1, <1>2, Extended DEF Call
<1>4. Shaped(req)' /\ pc' = "open" /\ attempt' = attempt /\ response' = response
  BY OpeningShaped DEF Call, Move, Shaped
<1>5. response' = <<>> \/ response' \in Responses
  BY <1>4 DEF LogInv
<1>6. (\E a : Requests(log') \subseteq {a}) /\ \E a, b : Requests(log') \subseteq {a, b}
  BY <1>3
<1>7. attempt' \in Nat /\ attempt' <= 1 + Max({LLMRetries, RateRetries})
  BY <1>4 DEF LogInv
<1>. QED
  BY <1>3, <1>4, <1>5, <1>6, <1>7 DEF LogInv, Busy

LEMMA RecvLog ==
  ASSUME LogInv, Recv
  PROVE  LogInv'
<1>1. Shaped(req) /\ (response = <<>> \/ response \in Responses) /\ pc = "recv" /\ req.pos < Len(response)
  BY DEF LogInv, Busy, Recv
<1>. DEFINE d == response[req.pos + 1]
            q == Streamed(AddDelta(req, d), d)
<1>2. response \in Responses
  BY <1>1 DEF Shaped
<1>3. d.k \in {"think", "text", "tool", "stop"}
  <2>1. response \in Seq(Range(response)) /\ \A x \in Range(response) : x.k \in {"think", "text", "tool", "stop"}
    BY <1>2, ResponsesAssumption
  <2>2. req.pos + 1 \in DOMAIN response
    BY <1>1, <2>1 DEF Shaped
  <2>3. d \in Range(response)
    BY <2>2 DEF Range
  <2>. QED
    BY <2>1, <2>3
<1>4. Shaped(q) /\ q.second = req.second
  BY <1>1, <1>3, DeltaShaped, StreamedShaped
<1>5. req' = [q EXCEPT !.pos = @ + 1, !.forward = @ /\ ~(Heard(d) /\ deaf)]
  BY DEF Recv
<1>6. Shaped(req') /\ req'.second = req.second
  <2>. HIDE DEF q, d
  <2>. QED
    BY <1>4, <1>5 DEF Shaped, Field
<1>7. pc' \in {"ended", "recv"} /\ UNCHANGED <<log, attempt, response>>
  BY DEF Recv
<1>. QED
  BY <1>1, <1>6, <1>7 DEF LogInv, Busy, Shaped

LEMMA WatchLog ==
  ASSUME LogInv, WatchCloses \/ WatchTells
  PROVE  LogInv'
<1>1. Shaped(req) /\ pc = "recv"
  BY DEF LogInv, Busy, WatchCloses, WatchTells
<1>2. Shaped(req') /\ req'.second = req.second
  BY <1>1 DEF WatchCloses, WatchTells, Shaped, Field
<1>3. UNCHANGED <<pc, response, attempt, log, err>>
  BY DEF WatchCloses, WatchTells
<1>. QED
  BY <1>1, <1>2, <1>3 DEF LogInv, Busy, Shaped

LEMMA RetryLog ==
  ASSUME LogInv, Retry
  PROVE  LogInv'
  BY DEF LogInv, Busy, Retry, IsRetryable, Retried

LEMMA BackoffLog ==
  ASSUME LogInv, Backoff
  PROVE  LogInv'
<1>1. err \in Retried /\ attempt <= Backoffs(err) /\ attempt \in Nat
  BY DEF LogInv, Backoff
<1>2. CASE cancelled
  BY <1>2, SameLog DEF Backoff
<1>3. CASE ~cancelled
  <2>1. pc' = "call" /\ attempt' = attempt + 1 /\ log' = <<err, "wait">>
    BY <1>3 DEF Backoff
  <2>2. err \in Entry /\ "wait" \in Entry /\ err \notin Rejections /\ err # "request"
    BY <1>1 DEF Entry, Errors, Worthy, Rejections, Retried
  <2>3. log' \in Seq(Entry) /\ Len(log') = 2 /\ DOMAIN log' = {1, 2} /\ log'[1] = err /\ log'[2] = "wait"
    BY <2>1, <2>2
  <2>4. Heeded(log') /\ Open(log') /\ Requests(log') = {}
    BY <2>2, <2>3 DEF Heeded, Open, Requests, Rejections
  <2>5. attempt' \in Nat /\ attempt' <= 1 + Max({LLMRetries, RateRetries})
    BY <1>1, <2>1, BackoffsIs
  <2>6. \E a, b : Requests(log') \subseteq {a, b}
    BY <2>4
  <2>7. response' = <<>> \/ response' \in Responses
    BY DEF Backoff, LogInv
  <2>. QED
    BY <2>1, <2>3, <2>4, <2>5, <2>6, <2>7 DEF LogInv, Busy
<1>. QED
  BY <1>2, <1>3

LEMMA LogNext ==
  ASSUME LogInv, [Next]_vars
  PROVE  LogInv'
<1>1. \A e \in Errors : pc \in Busy /\ Fails(e) => LogInv'
  BY FailsLog
<1>2. ASSUME NEW e \in Errors, Refused(e) PROVE LogInv'
  BY <1>1, <1>2 DEF Refused, Busy
<1>3. CASE Accepts
  BY <1>3 DEF Accepts, LogInv, Busy, Shaped
<1>4. CASE Post
  <2>1. pc \in Busy
    BY <1>4 DEF Post, Busy
  <2>2. CASE Verdict(Collected) = "ok"
    <3>1. pc' = "result" /\ UNCHANGED <<log, attempt, response>>
      BY <1>4, <2>2 DEF Post
    <3>. QED
      BY <3>1, SameLog
  <2>3. CASE Verdict(Collected) # "ok"
    BY <1>1, <1>4, <2>1, <2>3, ErrorsAre DEF Post
  <2>. QED
    BY <2>2, <2>3
<1>5. CASE Deadline
  BY <1>1, <1>5 DEF Deadline, Busy, Errors, Worthy
<1>6. CASE End
  <2>1. pc \in Busy
    BY <1>6 DEF End, Busy
  <2>2. CASE Verdict(req) = "ok"
    <3>1. pc' = "result" /\ UNCHANGED <<log, attempt, response>>
      BY <1>6, <2>2 DEF End
    <3>. QED
      BY <3>1, SameLog
  <2>3. CASE Verdict(req) # "ok"
    BY <1>1, <1>6, <2>1, <2>3, ErrorsAre DEF End
  <2>. QED
    BY <2>2, <2>3
<1>7. ASSUME NEW e, Broken(e) PROVE LogInv'
  BY <1>1, <1>7 DEF Broken, Busy, Errors, Worthy, Rejections
<1>8. CASE RecvClosed
  BY <1>1, <1>8 DEF RecvClosed, Busy, Errors, Worthy
<1>9. CASE Result
  BY <1>9, SameLog DEF Result
<1>10. CASE Cancel \/ Deaf \/ Restart \/ UNCHANGED vars
  BY <1>10, StutterLog DEF Cancel, Deaf, Restart, vars
<1>11. CASE Own
  <2>1. "net" \in Errors /\ "cancelled" \in Errors
    BY DEF Errors, Worthy, Rejections
  <2>. QED
    BY <1>2, <1>5, <1>6, <1>7, <1>8, <1>9, <1>11, <2>1, CallLog, WatchLog, RetryLog, BackoffLog, Zenon DEF Own
<1>12. CASE Provider
  <2>1. {"429", "4xx", "streamreq", "5xx"} \subseteq Errors
    BY DEF Errors, Worthy, Rejections
  <2>. QED
    BY <1>2, <1>3, <1>4, <1>6, <1>7, <1>12, <2>1, RecvLog, Zenon DEF Provider
<1>. QED
  BY <1>10, <1>11, <1>12, AskLog, Zenon DEF Next, Finished

LEMMA LogInit == Init => LogInv
<1>. SUFFICES ASSUME Init PROVE LogInv
  OBVIOUS
<1>1. Requests(<<>>) = {} /\ Heeded(<<>>) /\ <<>> \in Seq(Entry) /\ \E a, b : Requests(<<>>) \subseteq {a, b}
  BY DEF Requests, Heeded
<1>2. 0 <= 1 + Max({LLMRetries, RateRetries})
  BY BackoffsIs
<1>. QED
  BY <1>1, <1>2 DEF Init, LogInv, Busy

\* A provider that rejected a request is not asked again, one that said 429 not at
\* once, and no attempt makes more than two requests or goes past its schedule.
THEOREM RejectionRespectedHolds == Spec => []RejectionRespected
<1>1. Init => LogInv
  BY LogInit
<1>2. LogInv /\ [Next]_vars => LogInv'
  BY LogNext
<1>. QED
  BY <1>1, <1>2, LogRespected, PTL DEF Spec

-----------------------------------------------------------------------------
(* Turns of the Messages API.                                               *)

TurnOf(M) == [role : {"user", "assistant"}, blocks : Seq(M)]
Alternating(out) == \A i \in DOMAIN out : i > 1 => out[i].role # out[i - 1].role
Encodes(out, e, M) ==
  out \in Seq(TurnOf(M)) /\ Alternating(out) /\ e \in Seq(M) /\ Spoken(out) = e

LEMMA SpokenAppend ==
  ASSUME NEW M, NEW q \in Seq(TurnOf(M)), NEW t \in TurnOf(M)
  PROVE  /\ Spoken(Append(q, t)) = Spoken(q) \o t.blocks
         /\ Spoken(q) \in Seq(M) /\ t.blocks \in Seq(M) /\ t.role \in {"user", "assistant"}
<1>. DEFINE b == [i \in DOMAIN q |-> q[i].blocks]
            u == Append(q, t)
            c == [i \in DOMAIN u |-> u[i].blocks]
<1>1. t.blocks \in Seq(M) /\ t.role \in {"user", "assistant"}
  BY DEF TurnOf
<1>2. b \in Seq(Seq(M)) /\ Len(b) = Len(q) /\ Len(q) \in Nat
  <2>1. DOMAIN q = 1 .. Len(q) /\ Len(q) \in Nat
    OBVIOUS
  <2>2. \A i \in 1 .. Len(q) : q[i].blocks \in Seq(M)
    <3>1. \A i \in 1 .. Len(q) : q[i] \in TurnOf(M)
      OBVIOUS
    <3>. QED
      BY <3>1 DEF TurnOf
  <2>. QED
    BY <2>1, <2>2
<1>3. c = Append(b, t.blocks)
  <2>1. /\ DOMAIN u = 1 .. (Len(q) + 1) /\ DOMAIN q = 1 .. Len(q) /\ u[Len(q) + 1] = t
        /\ \A i \in 1 .. Len(q) : u[i] = q[i]
    OBVIOUS
  <2>. HIDE DEF u
  <2>2. DOMAIN c = 1 .. (Len(q) + 1) /\ c[Len(q) + 1] = t.blocks /\ \A i \in 1 .. Len(q) : c[i] = q[i].blocks
    BY <1>2, <2>1
  <2>. DEFINE d == Append(b, t.blocks)
  <2>3. /\ DOMAIN d = 1 .. (Len(q) + 1) /\ d[Len(q) + 1] = t.blocks
        /\ \A i \in 1 .. Len(q) : d[i] = b[i]
    <3>. HIDE DEF b
    <3>. QED
      BY <1>1, <1>2
  <2>4. \A i \in 1 .. Len(q) : b[i] = q[i].blocks
    BY <2>1
  <2>5. c = [i \in 1 .. (Len(q) + 1) |-> c[i]]
    BY <2>1
  <2>6. d = [i \in 1 .. (Len(q) + 1) |-> d[i]]
    <3>. HIDE DEF b
    <3>. QED
      BY <1>1, <1>2
  <2>7. \A i \in 1 .. (Len(q) + 1) : c[i] = d[i]
    <3>. HIDE DEF b, c, d
    <3>1. \A i \in 1 .. (Len(q) + 1) : i \in 1 .. Len(q) \/ i = Len(q) + 1
      BY <1>2
    <3>. QED
      BY <2>2, <2>3, <2>4, <3>1
  <2>. HIDE DEF c, d
  <2>8. c = d
    BY <2>5, <2>6, <2>7
  <2>. QED
    BY <2>8 DEF d
<1>4. Spoken(u) = FlattenSeq(c) /\ Spoken(q) = FlattenSeq(b)
  BY DEF Spoken
<1>. HIDE DEF u, b, c
<1>5. FlattenSeq(Append(b, t.blocks)) = FlattenSeq(b) \o t.blocks /\ FlattenSeq(b) \in Seq(M)
  BY <1>1, <1>2, FlattenAppend, FlattenType
<1>. QED
  BY <1>1, <1>3, <1>4, <1>5 DEF u

LEMMA PushEncodes ==
  ASSUME NEW M, NEW out, NEW e, Encodes(out, e, M), NEW m \in M
  PROVE  Encodes(Push(out, m), IF m \in {"system", "nothing"} THEN e ELSE Append(e, m), M)
<1>. DEFINE r == MessagesRole(m)
<1>0. r \in {"user", "assistant"}
  BY DEF MessagesRole
<1>. HIDE DEF r
<1>1. CASE m \in {"system", "nothing"}
  BY <1>1 DEF Push
<1>2. CASE m \notin {"system", "nothing"} /\ out # <<>> /\ Last(out).role = r
  <2>. DEFINE q == Front(out)
              l == Last(out)
              t == [l EXCEPT !.blocks = Append(@, m)]
  <2>1. /\ q \in Seq(TurnOf(M)) /\ l \in TurnOf(M) /\ out = Append(q, l)
        /\ Len(q) \in Nat /\ Len(out) = Len(q) + 1
        /\ DOMAIN out = 1 .. Len(out) /\ out[Len(out)] = l /\ \A i \in 1 .. Len(q) : out[i] = q[i]
    <3>1. out \in Seq(TurnOf(M)) /\ out # <<>>
      BY <1>2 DEF Encodes
    <3>. QED
      BY <3>1, FrontLast
  <2>2. Push(out, m) = Append(q, t)
    <3>1. Push(out, m) = IF m \in {"system", "nothing"} THEN out
                         ELSE IF out # <<>> /\ Last(out).role = r THEN Append(q, t)
                         ELSE Append(out, [role |-> r, blocks |-> <<m>>])
      BY DEF Push, r
    <3>. HIDE DEF q, t
    <3>. QED
      BY ONLY <3>1, <1>2, Zenon
  <2>. HIDE DEF q, l
  <2>3. t \in TurnOf(M) /\ t.role = l.role /\ t.blocks = Append(l.blocks, m)
    <3>1. l.role \in {"user", "assistant"} /\ l.blocks \in Seq(M) /\ DOMAIN l = {"role", "blocks"}
      BY <2>1 DEF TurnOf
    <3>2. Append(l.blocks, m) \in Seq(M)
      BY <3>1
    <3>3. t = [role |-> l.role, blocks |-> Append(l.blocks, m)]
      <4>. DEFINE r1 == l.role
                  b1 == l.blocks
                  b2 == Append(l.blocks, m)
      <4>1. l = [role |-> r1, blocks |-> b1]
        BY <2>1 DEF TurnOf
      <4>2. t = [l EXCEPT !.blocks = b2]
        OBVIOUS
      <4>. HIDE DEF r1, b1, b2, t
      <4>3. t = [role |-> r1, blocks |-> b2]
        BY ONLY <4>1, <4>2
      <4>. QED
        BY <4>3 DEF r1, b2
    <3>. HIDE DEF t
    <3>. QED
      BY <3>1, <3>2, <3>3 DEF TurnOf
  <2>. HIDE DEF t
  <2>4. Append(q, t) \in Seq(TurnOf(M)) /\ Alternating(Append(q, t))
    <3>. DEFINE u == Append(q, t)
    <3>1. /\ u \in Seq(TurnOf(M)) /\ DOMAIN u = 1 .. Len(out) /\ u[Len(out)] = t
          /\ \A i \in 1 .. Len(q) : u[i] = q[i]
      BY <2>1, <2>3
    <3>. HIDE DEF u
    <3>2. \A i \in 1 .. Len(out) : u[i].role = out[i].role
      <4>1. \A i \in 1 .. Len(out) : i \in 1 .. Len(q) \/ i = Len(out)
        BY <2>1
      <4>. QED
        BY <2>1, <2>3, <3>1, <4>1
    <3>3. \A i \in 1 .. Len(out) : i > 1 => i - 1 \in 1 .. Len(out)
      BY <2>1
    <3>4. Alternating(out)
      BY DEF Encodes
    <3>5. Alternating(u)
      BY <2>1, <3>1, <3>2, <3>3, <3>4 DEF Alternating
    <3>. QED
      BY <3>1, <3>5 DEF u
  <2>5. Spoken(Append(q, t)) = Spoken(q) \o t.blocks /\ Spoken(out) = Spoken(q) \o l.blocks
        /\ Spoken(q) \in Seq(M) /\ l.blocks \in Seq(M)
    BY <2>1, <2>3, SpokenAppend
  <2>6. Spoken(Append(q, t)) = Append(e, m)
    <3>1. Spoken(q) \o Append(l.blocks, m) = Append(Spoken(q) \o l.blocks, m)
      <4>. DEFINE x == Spoken(q)
                  y == l.blocks
      <4>1. x \in Seq(M) /\ y \in Seq(M)
        BY <2>5
      <4>. HIDE DEF x, y
      <4>2. x \o Append(y, m) = Append(x \o y, m)
        BY <4>1
      <4>. QED
        BY <4>2 DEF x, y
    <3>. QED
      BY <2>3, <2>5, <3>1 DEF Encodes
  <2>7. Append(e, m) \in Seq(M)
    BY DEF Encodes
  <2>. QED
    BY <1>2, <2>2, <2>4, <2>6, <2>7 DEF Encodes
<1>3. CASE m \notin {"system", "nothing"} /\ ~ (out # <<>> /\ Last(out).role = r)
  <2>. DEFINE t == [role |-> r, blocks |-> <<m>>]
              u == Append(out, t)
  <2>1. Push(out, m) = u
    BY <1>3 DEF Push, r
  <2>2. t \in TurnOf(M) /\ t.role = r /\ t.blocks = <<m>>
    BY <1>0 DEF TurnOf
  <2>. HIDE DEF t
  <2>3. out \in Seq(TurnOf(M)) /\ Alternating(out) /\ e \in Seq(M) /\ Spoken(out) = e
    BY DEF Encodes
  <2>4. /\ u \in Seq(TurnOf(M)) /\ DOMAIN u = 1 .. (Len(out) + 1) /\ Len(out) \in Nat
        /\ DOMAIN out = 1 .. Len(out) /\ u[Len(out) + 1] = t
        /\ \A i \in 1 .. Len(out) : u[i] = out[i]
    BY <2>2, <2>3
  <2>5. Spoken(u) = e \o <<m>>
    BY <2>2, <2>3, SpokenAppend
  <2>6. e \o <<m>> = Append(e, m) /\ Append(e, m) \in Seq(M)
    BY <2>3
  <2>. HIDE DEF u
  <2>7. Alternating(u)
    <3>. SUFFICES ASSUME NEW i \in 1 .. (Len(out) + 1), i > 1 PROVE u[i].role # u[i - 1].role
      BY <2>4 DEF Alternating
    <3>1. CASE i <= Len(out)
      <4>1. i \in 1 .. Len(out) /\ i - 1 \in 1 .. Len(out)
        BY <2>4, <3>1
      <4>. QED
        BY <2>3, <2>4, <4>1 DEF Alternating
    <3>2. CASE i = Len(out) + 1
      <4>1. i - 1 = Len(out) /\ Len(out) \in 1 .. Len(out)
        BY <2>4, <3>2
      <4>2. out # <<>> /\ Last(out) = out[Len(out)]
        BY <2>3, <4>1 DEF Last
      <4>. QED
        BY <1>3, <2>2, <2>4, <3>2, <4>1, <4>2
    <3>. QED
      BY <2>4, <3>1, <3>2
  <2>. QED
    BY <1>3, <2>1, <2>3, <2>4, <2>5, <2>6, <2>7 DEF Encodes
<1>. QED
  BY <1>1, <1>2, <1>3

\* The loop over a history: after k messages, the turns say what they told.
LEMMA TurnsEncode ==
  ASSUME NEW M, NEW ms \in Seq(M)
  PROVE  Encodes(Turns(ms), Told(ms), M)
<1>. DEFINE n == Len(ms)
            X == {x \in Seq(TurnOf(M)) \X Seq(M) : Encodes(x[1], x[2], M)}
            After(x, m) == <<Push(x[1], m), IF m \in {"system", "nothing"} THEN x[2] ELSE Append(x[2], m)>>
            G == [k \in 1 .. n |-> [x \in X |-> After(x, ms[k])]]
            NthTurn(f, k) == IF k = 0 THEN <<>> ELSE Push(f[k - 1], ms[k])
            NthTold(f, k) ==
              IF k = 0 THEN <<>>
              ELSE IF ms[k] \in {"system", "nothing"} THEN f[k - 1] ELSE Append(f[k - 1], ms[k])
            ThroughTurns(f) == f = [k \in 0 .. n |-> NthTurn(f, k)]
            ThroughTold(f) == f = [k \in 0 .. n |-> NthTold(f, k)]
<1>1. n \in Nat /\ \A k \in 1 .. n : ms[k] \in M
  OBVIOUS
<1>. HIDE DEF n
<1>2. <<<<>>, <<>>>> \in X
  <2>1. <<>> \in Seq(TurnOf(M)) /\ <<>> \in Seq(M) /\ Alternating(<<>>)
    BY DEF Alternating
  <2>2. Spoken(<<>>) = <<>>
    <3>1. [i \in DOMAIN <<>> |-> <<>>[i].blocks] = <<>>
      OBVIOUS
    <3>. QED
      BY <3>1, FlattenEmpty DEF Spoken
  <2>. QED
    BY <2>1, <2>2 DEF Encodes
<1>3. \A x \in X, m \in M : After(x, m) \in X
  <2>. SUFFICES ASSUME NEW x \in X, NEW m \in M PROVE After(x, m) \in X
    OBVIOUS
  <2>. DEFINE e == IF m \in {"system", "nothing"} THEN x[2] ELSE Append(x[2], m)
  <2>1. Encodes(Push(x[1], m), e, M)
    BY PushEncodes
  <2>2. Push(x[1], m) \in Seq(TurnOf(M)) /\ e \in Seq(M)
    BY <2>1 DEF Encodes
  <2>. QED
    BY <2>1, <2>2
<1>4. PICK h : Looped(n, X, <<<<>>, <<>>>>, G, h)
  <2>1. G \in [1 .. n -> [X -> X]]
    <3>. HIDE DEF X, After
    <3>. QED
      BY <1>1, <1>3
  <2>. HIDE DEF G, X
  <2>. QED
    BY <1>1, <1>2, <2>1, LoopExists
<1>5. /\ h \in [0 .. n -> X] /\ h[0] = <<<<>>, <<>>>>
      /\ \A k \in 1 .. n : h[k] = After(h[k - 1], ms[k])
  <2>. HIDE DEF X, After
  <2>1. h \in [0 .. n -> X] /\ h[0] = <<<<>>, <<>>>> /\ \A k \in 1 .. n : h[k] = G[k][h[k - 1]]
    BY <1>4 DEF Looped
  <2>2. \A k \in 1 .. n : k - 1 \in 0 .. n
    BY <1>1
  <2>3. \A k \in 1 .. n : h[k - 1] \in X
    BY <2>1, <2>2
  <2>. QED
    BY <2>1, <2>3
<1>. HIDE DEF X, G
<1>. DEFINE t == [k \in 0 .. n |-> h[k][1]]
            e == [k \in 0 .. n |-> h[k][2]]
<1>6. /\ t[0] = <<>> /\ \A k \in 1 .. n : t[k] = Push(t[k - 1], ms[k])
      /\ e[0] = <<>>
      /\ \A k \in 1 .. n : e[k] = IF ms[k] \in {"system", "nothing"} THEN e[k - 1] ELSE Append(e[k - 1], ms[k])
  <2>1. \A k \in 1 .. n : k - 1 \in 0 .. n /\ k \in 0 .. n
    BY <1>1
  <2>2. 0 \in 0 .. n
    BY <1>1
  <2>3. \A k \in 0 .. n : t[k] = h[k][1] /\ e[k] = h[k][2]
    OBVIOUS
  <2>. HIDE DEF t, e
  <2>4. t[0] = <<>> /\ e[0] = <<>>
    BY ONLY <1>5, <2>2, <2>3
  <2>5. ASSUME NEW k \in 1 .. n
        PROVE  /\ t[k] = Push(t[k - 1], ms[k])
               /\ e[k] = IF ms[k] \in {"system", "nothing"} THEN e[k - 1] ELSE Append(e[k - 1], ms[k])
    <3>1. h[k] = After(h[k - 1], ms[k])
      BY ONLY <1>5, <2>5
    <3>2. /\ h[k][1] = Push(h[k - 1][1], ms[k])
          /\ h[k][2] = IF ms[k] \in {"system", "nothing"} THEN h[k - 1][2] ELSE Append(h[k - 1][2], ms[k])
      BY ONLY <3>1
    <3>3. t[k] = h[k][1] /\ e[k] = h[k][2] /\ t[k - 1] = h[k - 1][1] /\ e[k - 1] = h[k - 1][2]
      BY ONLY <2>1, <2>3, <2>5
    <3>. QED
      BY ONLY <3>2, <3>3
  <2>. QED
    BY ONLY <2>4, <2>5
<1>7. ThroughTurns(t)
  <2>. DEFINE g == [k \in 0 .. n |-> NthTurn(t, k)]
  <2>1. t = [k \in 0 .. n |-> t[k]] /\ g = [k \in 0 .. n |-> g[k]]
    OBVIOUS
  <2>2. \A k \in 0 .. n : g[k] = NthTurn(t, k)
    OBVIOUS
  <2>3. \A k \in 0 .. n : t[k] = NthTurn(t, k)
    <3>. HIDE DEF t, g
    <3>1. \A k \in 0 .. n : k = 0 \/ k \in 1 .. n
      BY <1>1
    <3>. QED
      BY <1>1, <1>6, <3>1
  <2>. HIDE DEF NthTurn
  <2>4. t = g
    <3>. HIDE DEF t, g
    <3>. QED
      BY <2>1, <2>2, <2>3
  <2>. QED
    BY <2>4
<1>8. ThroughTold(e)
  <2>. DEFINE g == [k \in 0 .. n |-> NthTold(e, k)]
  <2>1. e = [k \in 0 .. n |-> e[k]] /\ g = [k \in 0 .. n |-> g[k]]
    OBVIOUS
  <2>2. \A k \in 0 .. n : g[k] = NthTold(e, k)
    OBVIOUS
  <2>3. \A k \in 0 .. n : e[k] = NthTold(e, k)
    <3>. HIDE DEF e, g
    <3>1. \A k \in 0 .. n : k = 0 \/ k \in 1 .. n
      BY <1>1
    <3>. QED
      BY <1>1, <1>6, <3>1
  <2>. HIDE DEF NthTold
  <2>4. e = g
    <3>. HIDE DEF e, g
    <3>. QED
      BY <2>1, <2>2, <2>3
  <2>. QED
    BY <2>4
<1>. DEFINE turns_ == CHOOSE f : ThroughTurns(f)
            told_ == CHOOSE f : ThroughTold(f)
<1>9. ThroughTurns(turns_) /\ ThroughTold(told_)
  <2>. HIDE DEF ThroughTurns, ThroughTold, t, e
  <2>. QED
    BY <1>7, <1>8
<1>10. Turns(ms) = turns_[n] /\ Told(ms) = told_[n]
  BY DEF Turns, Told, n
<1>. HIDE DEF turns_, told_
<1>11. \A k \in 0 .. n : turns_[k] = NthTurn(turns_, k) /\ told_[k] = NthTold(told_, k)
  BY <1>9
<1>. HIDE DEF t, e
<1>. DEFINE U == {k \in 0 .. n : turns_[k] = t[k] /\ told_[k] = e[k]}
<1>12. 0 \in U
  <2>1. 0 \in 0 .. n
    BY <1>1
  <2>. QED
    BY <1>6, <1>11, <2>1
<1>13. ASSUME NEW k \in 0 .. (n - 1), k \in U PROVE k + 1 \in U
  <2>1. k + 1 \in 1 .. n /\ k + 1 \in 0 .. n /\ (k + 1) - 1 = k /\ k + 1 # 0
    BY <1>1
  <2>2. turns_[k + 1] = Push(turns_[k], ms[k + 1]) /\ t[k + 1] = Push(t[k], ms[k + 1])
    BY <1>6, <1>11, <2>1
  <2>3. /\ told_[k + 1] = IF ms[k + 1] \in {"system", "nothing"} THEN told_[k] ELSE Append(told_[k], ms[k + 1])
        /\ e[k + 1] = IF ms[k + 1] \in {"system", "nothing"} THEN e[k] ELSE Append(e[k], ms[k + 1])
    BY <1>6, <1>11, <2>1
  <2>4. turns_[k] = t[k] /\ told_[k] = e[k]
    BY <1>13
  <2>. QED
    BY <2>1, <2>2, <2>3, <2>4
<1>14. turns_[n] = t[n] /\ told_[n] = e[n]
  <2>. HIDE DEF U
  <2>1. \A k \in 0 .. n : k \in U
    BY <1>1, <1>12, <1>13, UpTo
  <2>2. n \in U
    BY <1>1, <2>1
  <2>. QED
    BY <2>2 DEF U
<1>15. t[n] = h[n][1] /\ e[n] = h[n][2] /\ h[n] \in X
  BY <1>1, <1>5 DEF t, e
<1>16. Encodes(t[n], e[n], M)
  BY <1>15 DEF X
<1>. QED
  BY <1>10, <1>14, <1>16

\* Where neighbours differ and the first is the user's, the odd ones are the user's.
LEMMA Alternates ==
  ASSUME NEW M, NEW ts \in Seq(TurnOf(M)), Alternating(ts), ts # <<>> => ts[1].role = "user",
         NEW i \in DOMAIN ts
  PROVE  ts[i].role = (IF i % 2 = 1 THEN "user" ELSE "assistant")
<1>. DEFINE n == Len(ts)
            R(k) == IF k % 2 = 1 THEN "user" ELSE "assistant"
            U == {k \in 0 .. n : k = 0 \/ ts[k].role = R(k)}
<1>1. n \in Nat /\ DOMAIN ts = 1 .. n /\ (n >= 1 => ts # <<>>) /\ i \in 1 .. n /\ i \in 0 .. n /\ i # 0
  OBVIOUS
<1>2. \A k \in 1 .. n : ts[k].role \in {"user", "assistant"}
  <2>1. \A k \in 1 .. n : ts[k] \in TurnOf(M)
    OBVIOUS
  <2>. QED
    BY <2>1 DEF TurnOf
<1>3. 0 \in U
  BY <1>1
<1>4. ASSUME NEW k \in 0 .. (n - 1), k \in U PROVE k + 1 \in U
  <2>1. k + 1 \in 1 .. n /\ k + 1 \in 0 .. n /\ (k + 1) - 1 = k /\ k \in Nat
    BY <1>1
  <2>2. CASE k = 0
    <3>1. ts[1].role = "user" /\ R(1) = "user"
      BY <1>1, <2>1, <2>2
    <3>. QED
      BY <2>1, <2>2, <3>1
  <2>3. CASE k # 0
    <3>1. k \in 1 .. n /\ k + 1 > 1
      BY <2>1, <2>3
    <3>2. ts[k].role = R(k)
      BY <1>4, <2>3
    <3>3. ts[k + 1].role # ts[k].role
      BY <1>1, <2>1, <3>1 DEF Alternating
    <3>4. ts[k + 1].role \in {"user", "assistant"}
      BY <1>2, <2>1
    <3>5. k % 2 = 1 <=> ~ ((k + 1) % 2 = 1)
      BY <2>1
    <3>6. ts[k + 1].role = R(k + 1)
      BY <3>2, <3>3, <3>4, <3>5
    <3>. QED
      BY <2>1, <3>6
  <2>. QED
    BY <2>2, <2>3
<1>5. i \in U
  <2>. HIDE DEF U, n
  <2>1. \A k \in 0 .. n : k \in U
    BY <1>1, <1>3, <1>4, UpTo
  <2>. QED
    BY <1>1, <2>1
<1>. QED
  BY <1>1, <1>5

\* What is put before the turns is said before what they say.
LEMMA PreambleEncodes ==
  ASSUME NEW M, NEW ts \in Seq(TurnOf(M)), Alternating(ts), ts # <<>>, ts[1].role # "user"
  PROVE  /\ Preamble \o ts \in Seq(TurnOf(M \cup {"continue"})) /\ Alternating(Preamble \o ts)
         /\ (Preamble \o ts)[1].role = "user"
         /\ Spoken(Preamble \o ts) = <<"continue">> \o Spoken(ts)
<1>. DEFINE N == M \cup {"continue"}
            n == Len(ts)
            p == [role |-> "user", blocks |-> <<"continue">>]
            W(k) == <<p>> \o SubSeq(ts, 1, k)
            U == {k \in 0 .. n : Spoken(W(k)) = <<"continue">> \o Spoken(SubSeq(ts, 1, k))}
<1>1. p \in TurnOf(N) /\ p.role = "user" /\ p.blocks = <<"continue">> /\ Preamble = <<p>>
  BY DEF TurnOf, Preamble
<1>2. n \in Nat /\ DOMAIN ts = 1 .. n /\ \A k \in 1 .. n : ts[k] \in TurnOf(M) /\ ts[k] \in TurnOf(N)
  <2>1. n \in Nat /\ DOMAIN ts = 1 .. n /\ \A k \in 1 .. n : ts[k] \in TurnOf(M)
    OBVIOUS
  <2>2. \A x \in TurnOf(M) : x \in TurnOf(N)
    <3>. SUFFICES ASSUME NEW x \in TurnOf(M) PROVE x \in TurnOf(N)
      OBVIOUS
    <3>1. x.blocks \in Seq(M)
      BY DEF TurnOf
    <3>2. x.blocks \in Seq(N)
      BY <3>1
    <3>. QED
      BY <3>2 DEF TurnOf
  <2>. QED
    BY <2>1, <2>2
<1>3. ts \in Seq(TurnOf(N))
  <2>1. ts = [k \in 1 .. n |-> ts[k]]
    OBVIOUS
  <2>. DEFINE S == TurnOf(N)
  <2>2. n \in Nat /\ \A k \in 1 .. n : ts[k] \in S
    BY <1>2
  <2>. HIDE DEF S, n
  <2>3. [k \in 1 .. n |-> ts[k]] \in Seq(S)
    BY ONLY <2>2
  <2>. QED
    BY ONLY <2>1, <2>3 DEF S
<1>. HIDE DEF p, n, N
<1>4. /\ <<p>> \o ts \in Seq(TurnOf(N)) /\ (<<p>> \o ts)[1] = p /\ DOMAIN (<<p>> \o ts) = 1 .. (n + 1)
      /\ \A k \in 1 .. n : (<<p>> \o ts)[k + 1] = ts[k]
  BY <1>1, <1>2, <1>3 DEF n
<1>5. Alternating(<<p>> \o ts)
  <2>. DEFINE u == <<p>> \o ts
  <2>. HIDE DEF u
  <2>. SUFFICES ASSUME NEW i \in 1 .. (n + 1), i > 1 PROVE u[i].role # u[i - 1].role
    BY <1>4 DEF Alternating, u
  <2>1. i - 1 \in 1 .. n /\ (i - 1) + 1 = i
    BY <1>2
  <2>2. u[i] = ts[i - 1]
    BY <1>4, <2>1 DEF u
  <2>3. CASE i - 1 = 1
    BY <1>1, <1>4, <2>2, <2>3 DEF u
  <2>4. CASE i - 1 # 1
    <3>1. i - 2 \in 1 .. n /\ (i - 2) + 1 = i - 1 /\ i - 1 > 1 /\ (i - 1) - 1 = i - 2
      BY <1>2, <2>1, <2>4
    <3>2. u[i - 1] = ts[i - 2]
      BY <1>4, <3>1 DEF u
    <3>3. ts[i - 1].role # ts[i - 2].role
      BY <1>2, <2>1, <3>1 DEF Alternating
    <3>. QED
      BY <2>2, <3>2, <3>3
  <2>. QED
    BY <2>3, <2>4
<1>6. 0 \in U
  <2>1. SubSeq(ts, 1, 0) = <<>> /\ <<>> \in Seq(TurnOf(N)) /\ <<p>> \o <<>> = Append(<<>>, p) /\ 0 \in 0 .. n
    BY <1>1, <1>2
  <2>2. Spoken(<<>>) = <<>>
    <3>1. [i \in DOMAIN <<>> |-> <<>>[i].blocks] = <<>>
      OBVIOUS
    <3>. QED
      BY <3>1, FlattenEmpty DEF Spoken
  <2>3. Spoken(Append(<<>>, p)) = Spoken(<<>>) \o p.blocks
    BY <1>1, <2>1, SpokenAppend
  <2>4. <<>> \o <<"continue">> = <<"continue">> \o <<>>
    OBVIOUS
  <2>. QED
    BY <1>1, <2>1, <2>2, <2>3, <2>4
<1>7. ASSUME NEW k \in 0 .. (n - 1), k \in U PROVE k + 1 \in U
  <2>. DEFINE a == SubSeq(ts, 1, k)
              x == ts[k + 1]
  <2>1. k + 1 \in 1 .. n /\ k + 1 \in 0 .. n /\ k \in 0 .. n /\ k \in Nat
    BY <1>2
  <2>2. a \in Seq(TurnOf(N)) /\ x \in TurnOf(N) /\ SubSeq(ts, 1, k + 1) = Append(a, x)
    <3>1. a \in Seq(TurnOf(N)) /\ Len(a) = k /\ \A j \in 1 .. k : a[j] = ts[j]
      BY <1>2, <1>3, <2>1 DEF n
    <3>2. x \in TurnOf(N)
      BY <1>2, <2>1
    <3>. DEFINE b == SubSeq(ts, 1, k + 1)
                c == Append(a, x)
    <3>3. b \in Seq(TurnOf(N)) /\ Len(b) = k + 1 /\ \A j \in 1 .. (k + 1) : b[j] = ts[j]
      BY <1>2, <1>3, <2>1 DEF n
    <3>. HIDE DEF a
    <3>4. /\ c \in Seq(TurnOf(N)) /\ Len(c) = k + 1 /\ c[k + 1] = ts[k + 1] /\ \A j \in 1 .. k : c[j] = a[j]
      BY <3>1, <3>2
    <3>. HIDE DEF b, c
    <3>5. \A j \in 1 .. (k + 1) : b[j] = c[j]
      <4>1. \A j \in 1 .. (k + 1) : j \in 1 .. k \/ j = k + 1
        BY <2>1
      <4>. QED
        BY <3>1, <3>3, <3>4, <4>1
    <3>6. b = c
      BY <3>3, <3>4, <3>5
    <3>. QED
      BY <3>1, <3>2, <3>6 DEF b, c
  <2>. HIDE DEF a, x
  <2>3. <<p>> \o a \in Seq(TurnOf(N)) /\ <<p>> \o Append(a, x) = Append(<<p>> \o a, x)
    BY <1>1, <2>2
  <2>4. Spoken(Append(<<p>> \o a, x)) = Spoken(<<p>> \o a) \o x.blocks
        /\ Spoken(Append(a, x)) = Spoken(a) \o x.blocks
        /\ Spoken(a) \in Seq(N) /\ x.blocks \in Seq(N)
    BY <2>2, <2>3, SpokenAppend
  <2>5. Spoken(<<p>> \o a) = <<"continue">> \o Spoken(a)
    <3>1. Spoken(<<p>> \o SubSeq(ts, 1, k)) = <<"continue">> \o Spoken(SubSeq(ts, 1, k))
      BY ONLY <1>7, Zenon
    <3>. QED
      BY ONLY <3>1 DEF a
  <2>6. (<<"continue">> \o Spoken(a)) \o x.blocks = <<"continue">> \o (Spoken(a) \o x.blocks)
    <3>1. <<"continue">> \in Seq(N)
      BY DEF N
    <3>. DEFINE y == Spoken(a)
                z == x.blocks
    <3>2. y \in Seq(N) /\ z \in Seq(N)
      BY <2>4
    <3>. HIDE DEF y, z
    <3>3. (<<"continue">> \o y) \o z = <<"continue">> \o (y \o z)
      BY <3>1, <3>2, ConcatAssociative
    <3>. QED
      BY <3>3 DEF y, z
  <2>7. Spoken(<<p>> \o Append(a, x)) = <<"continue">> \o Spoken(Append(a, x))
    BY ONLY <2>3, <2>4, <2>5, <2>6
  <2>. QED
    BY <2>1, <2>2, <2>7
<1>8. Spoken(<<p>> \o ts) = <<"continue">> \o Spoken(ts)
  <2>1. \A k \in 0 .. n : k \in U
    <3>. HIDE DEF U
    <3>1. \A k \in 0 .. (n - 1) : k \in U => k + 1 \in U
      BY ONLY <1>7
    <3>2. n \in Nat
      BY <1>2
    <3>. DEFINE u == U
                v == n
    <3>3. 0 \in u /\ v \in Nat /\ \A k \in 0 .. (v - 1) : k \in u => k + 1 \in u
      BY ONLY <1>6, <3>1, <3>2
    <3>. HIDE DEF u, v
    <3>4. \A k \in 0 .. v : k \in u
      BY ONLY <3>3, UpTo
    <3>. QED
      BY <3>4 DEF u, v
  <2>2. n \in U
    BY <1>2, <2>1
  <2>3. SubSeq(ts, 1, n) = ts
    BY <1>3 DEF n
  <2>. QED
    BY <2>2, <2>3
<1>. QED
  BY <1>1, <1>4, <1>5, <1>8 DEF N

\* What is sent alternates and says what the history told.
LEMMA SplitAlternates ==
  ASSUME NEW p \in Payloads
  PROVE  LET q == AnthropicSplitMessages(p) IN
         /\ \A i \in DOMAIN q : q[i].role = (IF i % 2 = 1 THEN "user" ELSE "assistant")
         /\ Spoken(q) = Told(p) \/ Spoken(q) = <<"continue">> \o Told(p)
<1>. DEFINE M == Range(p)
            ts == Turns(p)
            q == AnthropicSplitMessages(p)
<1>1. ts \in Seq(TurnOf(M)) /\ Alternating(ts) /\ Spoken(ts) = Told(p)
  BY PayloadsAssumption, TurnsEncode DEF Encodes
<1>2. CASE ts # <<>> /\ ts[1].role # "user"
  <2>1. q = Preamble \o ts
    BY <1>2 DEF AnthropicSplitMessages
  <2>. HIDE DEF ts, q, M
  <2>2. /\ q \in Seq(TurnOf(M \cup {"continue"})) /\ Alternating(q) /\ q[1].role = "user"
        /\ Spoken(q) = <<"continue">> \o Told(p)
    BY <1>1, <1>2, <2>1, PreambleEncodes
  <2>3. \A i \in DOMAIN q : q[i].role = (IF i % 2 = 1 THEN "user" ELSE "assistant")
    BY <2>2, Alternates
  <2>. QED
    BY <2>2, <2>3 DEF q
<1>3. CASE ~ (ts # <<>> /\ ts[1].role # "user")
  <2>1. q = ts
    BY <1>3 DEF AnthropicSplitMessages
  <2>. HIDE DEF ts, q, M
  <2>2. \A i \in DOMAIN q : q[i].role = (IF i % 2 = 1 THEN "user" ELSE "assistant")
    BY <1>1, <1>3, <2>1, Alternates
  <2>. QED
    BY <1>1, <2>1, <2>2 DEF q
<1>. QED
  BY <1>2, <1>3

PayloadInv == payload = <<>> \/ \E p \in Payloads : payload = AnthropicSplitMessages(p)

LEMMA PayloadNext == PayloadInv /\ [Next]_vars => PayloadInv'
<1>. SUFFICES ASSUME PayloadInv, [Next]_vars PROVE PayloadInv'
  OBVIOUS
<1>1. CASE payload' = payload
  BY <1>1 DEF PayloadInv
<1>2. CASE payload' = <<>>
  BY <1>2 DEF PayloadInv
<1>3. CASE Call
  BY <1>1, <1>3 DEF PayloadInv, Call
<1>4. \A e : Fails(e) => payload' = <<>>
  BY DEF Fails
<1>5. CASE Own
  <2>1. CASE Refused("net") \/ Refused("cancelled") \/ Deadline \/ RecvClosed \/ Broken("cancelled")
    BY <1>2, <1>4, <2>1 DEF Refused, Deadline, RecvClosed, Broken
  <2>2. CASE WatchCloses \/ WatchTells \/ Retry \/ Backoff \/ Result
    BY <1>1, <2>2 DEF WatchCloses, WatchTells, Retry, Backoff, Result
  <2>3. CASE End
    BY <1>1, <1>2, <1>4, <2>3 DEF End
  <2>. QED
    BY <1>3, <1>5, <2>1, <2>2, <2>3, Zenon DEF Own
<1>6. CASE Provider
  <2>1. CASE \E e \in {"429", "4xx", "streamreq", "5xx"} : Refused(e)
    BY <1>2, <1>4, <2>1 DEF Refused
  <2>2. CASE Accepts
    BY <1>2, <2>2 DEF Accepts
  <2>3. CASE Post \/ End \/ Broken("net")
    BY <1>1, <1>2, <1>4, <2>3 DEF Post, End, Broken
  <2>4. CASE Recv
    BY <1>1, <2>4 DEF Recv
  <2>. QED
    BY <1>6, <2>1, <2>2, <2>3, <2>4, Zenon DEF Provider
<1>7. CASE Ask \/ Cancel \/ Deaf \/ Restart \/ Finished \/ UNCHANGED vars
  BY <1>1, <1>7 DEF Ask, Cancel, Deaf, Restart, Finished, vars
<1>. QED
  BY <1>5, <1>6, <1>7, Zenon DEF Next

\* Whatever history is encoded for the Messages API, the turns that are sent alternate,
\* begin with the user's, and say everything of the history in its order.
THEOREM TurnsAlternateHolds == Spec => []TurnsAlternate
<1>1. Init => PayloadInv
  BY DEF Init, PayloadInv
<1>2. PayloadInv => TurnsAlternate
  BY SplitAlternates, Zenon DEF PayloadInv, TurnsAlternate
<1>. QED
  BY <1>1, <1>2, PayloadNext, PTL DEF Spec

(***************************************************************************)
(* Compaction.                                                              *)
(***************************************************************************)

-----------------------------------------------------------------------------
(* Sequences of messages.                                                   *)

Message ==
  {m \in [role : {"system", "user", "assistant", "tool"},
          kind : {"system", "compression_summary", "active_turn_summary", "todo_nudge", "thread_message"},
          tokens : Nat, call : Nat, seq : Nat] :
     m.kind = "active_turn_summary" => m.role = "user"}
Headed(v) == v \in Seq(Message) /\ v # <<>> /\ v[1] = System

\* The tokens of some messages are counted.
LEMMA OverNat ==
  ASSUME NEW v \in Seq(Message), NEW S
  PROVE  Over(v, S) \in Nat
<1>. DEFINE n == Len(v)
            Sum(f, k) == IF k = 0 THEN 0 ELSE f[k - 1] + (IF k \in S THEN v[k].tokens ELSE 0)
            Through(f) == f = [k \in 0 .. n |-> Sum(f, k)]
            G == [k \in 1 .. n |-> [x \in Nat |-> x + (IF k \in S THEN v[k].tokens ELSE 0)]]
<1>1. n \in Nat /\ \A k \in 1 .. n : v[k].tokens \in Nat
  <2>1. n \in Nat /\ \A k \in 1 .. n : v[k] \in Message
    OBVIOUS
  <2>2. \A msg \in Message : msg.tokens \in Nat
    BY DEF Message
  <2>. HIDE DEF n
  <2>. QED
    BY <2>1, <2>2
<1>2. PICK h : Looped(n, Nat, 0, G, h)
  <2>1. G \in [1 .. n -> [Nat -> Nat]]
    BY <1>1
  <2>. HIDE DEF G
  <2>. QED
    BY <1>1, <2>1, LoopExists
<1>3. h \in [0 .. n -> Nat]
  BY <1>2 DEF Looped
<1>4. \A k \in 0 .. n : h[k] = Sum(h, k)
  <2>. SUFFICES ASSUME NEW k \in 0 .. n PROVE h[k] = Sum(h, k)
    OBVIOUS
  <2>1. CASE k = 0
    BY <1>2, <2>1 DEF Looped
  <2>2. CASE k # 0
    <3>1. k \in 1 .. n /\ k - 1 \in 0 .. n
      BY <2>2
    <3>2. h[k - 1] \in Nat
      BY ONLY <1>3, <3>1
    <3>3. h[k] = G[k][h[k - 1]]
      BY <1>2, <3>1 DEF Looped
    <3>. QED
      BY <2>2, <3>1, <3>2, <3>3
  <2>. QED
    BY <2>1, <2>2
<1>5. Through(h)
  <2>. DEFINE g == [k \in 0 .. n |-> Sum(h, k)]
  <2>1. h = [k \in 0 .. n |-> h[k]]
    BY <1>3
  <2>2. \A k \in 0 .. n : g[k] = h[k]
    BY <1>4
  <2>3. g = [k \in 0 .. n |-> g[k]]
    OBVIOUS
  <2>4. h = g
    <3>. HIDE DEF g
    <3>. QED
      BY <2>1, <2>2, <2>3
  <2>. QED
    BY <2>4
<1>. DEFINE sum == CHOOSE f : Through(f)
<1>6. Through(sum)
  <2>. HIDE DEF Through
  <2>. QED
    BY <1>5
<1>7. Over(v, S) = sum[n]
  BY DEF Over
<1>. HIDE DEF sum
<1>. DEFINE T == {k \in 0 .. n : sum[k] \in Nat}
<1>8. \A k \in 0 .. n : sum[k] = Sum(sum, k)
  BY <1>6
<1>9. 0 \in T
  BY <1>1, <1>8
<1>10. ASSUME NEW k \in 0 .. (n - 1), k \in T PROVE k + 1 \in T
  <2>1. k + 1 \in 1 .. n /\ k + 1 \in 0 .. n /\ (k + 1) - 1 = k /\ k + 1 # 0
    BY <1>1
  <2>2. sum[k + 1] = sum[k] + (IF k + 1 \in S THEN v[k + 1].tokens ELSE 0)
    BY <1>8, <2>1
  <2>. QED
    BY <1>1, <1>10, <2>1, <2>2
<1>11. n \in T
  <2>. HIDE DEF T
  <2>1. \A k \in 0 .. n : k \in T
    BY <1>1, <1>9, <1>10, UpTo
  <2>. QED
    BY <1>1, <2>1
<1>. QED
  BY <1>7, <1>11

\* The places in a set are listed, and the first is the first.
LEMMA InOrderIs ==
  ASSUME NEW n \in Nat, NEW S, S \subseteq 1 .. n
  PROVE  /\ InOrder(S) \in Seq(S)
         /\ 1 \in S => InOrder(S) # <<>> /\ InOrder(S)[1] = 1
<1>. DEFINE m == Max({0} \cup S)
            Nth(f, k) == IF k = 0 THEN <<>> ELSE IF k \in S THEN Append(f[k - 1], k) ELSE f[k - 1]
            Through(f) == f = [k \in 0 .. m |-> Nth(f, k)]
            G == [k \in 1 .. m |-> [x \in Seq(S) |-> IF k \in S THEN Append(x, k) ELSE x]]
<1>1. m \in 0 .. n /\ \A k \in S : k <= m
  <2>. DEFINE U == {0} \cup S
  <2>1. U \subseteq 0 .. n /\ U # {}
    OBVIOUS
  <2>. HIDE DEF U
  <2>2. Max(U) \in U /\ \A y \in U : Max(U) >= y
    BY <2>1, MaxProperties
  <2>3. Max(U) \in 0 .. n /\ \A k \in U : k \in Int /\ k <= Max(U)
    <3>. DEFINE x == Max(U)
    <3>1. x \in U /\ \A y \in U : x >= y
      BY <2>2
    <3>. HIDE DEF x
    <3>2. x \in 0 .. n /\ \A y \in U : y \in 0 .. n /\ y \in Int
      BY <2>1, <3>1
    <3>3. x \in Int
      BY <3>2
    <3>4. \A y \in U : y <= x
      BY <3>1, <3>2, <3>3
    <3>. QED
      BY <3>2, <3>4 DEF x
  <2>4. m = Max(U) /\ \A k \in S : k \in U
    BY DEF U
  <2>. HIDE DEF m
  <2>. QED
    BY <2>3, <2>4
<1>. HIDE DEF m
<1>2. PICK h : Looped(m, Seq(S), <<>>, G, h)
  <2>1. G \in [1 .. m -> [Seq(S) -> Seq(S)]]
    OBVIOUS
  <2>2. <<>> \in Seq(S) /\ m \in Nat
    BY <1>1
  <2>. HIDE DEF G
  <2>. QED
    BY <2>1, <2>2, LoopExists
<1>3. h \in [0 .. m -> Seq(S)]
  BY <1>2 DEF Looped
<1>4. \A k \in 0 .. m : h[k] = Nth(h, k)
  <2>. SUFFICES ASSUME NEW k \in 0 .. m PROVE h[k] = Nth(h, k)
    OBVIOUS
  <2>1. CASE k = 0
    BY <1>2, <2>1 DEF Looped
  <2>2. CASE k # 0
    <3>1. k \in 1 .. m /\ k - 1 \in 0 .. m
      BY <1>1, <2>2
    <3>2. h[k - 1] \in Seq(S)
      BY ONLY <1>3, <3>1
    <3>3. h[k] = G[k][h[k - 1]]
      BY <1>2, <3>1 DEF Looped
    <3>. QED
      BY <2>2, <3>1, <3>2, <3>3
  <2>. QED
    BY <2>1, <2>2
<1>5. Through(h)
  <2>. DEFINE g == [k \in 0 .. m |-> Nth(h, k)]
  <2>1. h = [k \in 0 .. m |-> h[k]]
    BY <1>3
  <2>2. \A k \in 0 .. m : g[k] = h[k]
    BY <1>4
  <2>3. g = [k \in 0 .. m |-> g[k]]
    OBVIOUS
  <2>4. h = g
    <3>. HIDE DEF g
    <3>. QED
      BY <2>1, <2>2, <2>3
  <2>. QED
    BY <2>4
<1>. DEFINE in == CHOOSE f : Through(f)
<1>6. Through(in)
  <2>. HIDE DEF Through
  <2>. QED
    BY <1>5
<1>7. InOrder(S) = in[m]
  BY DEF InOrder, m
<1>. HIDE DEF in
<1>8. \A k \in 0 .. m : in[k] = Nth(in, k)
  BY <1>6
<1>. DEFINE Good(s, k) == s \in Seq(S) /\ (1 \in S /\ k >= 1 => s # <<>> /\ s[1] = 1)
            T == {k \in 0 .. m : Good(in[k], k)}
<1>9. 0 \in T
  <2>1. in[0] = <<>> /\ 0 \in 0 .. m
    BY <1>1, <1>8
  <2>2. <<>> \in Seq(S) /\ ~ (0 >= 1)
    OBVIOUS
  <2>. QED
    BY <2>1, <2>2
<1>10. ASSUME NEW k \in 0 .. (m - 1), k \in T PROVE k + 1 \in T
  <2>1. k + 1 \in 0 .. m /\ (k + 1) - 1 = k /\ k + 1 # 0 /\ k \in Nat
    BY <1>1
  <2>2. in[k + 1] = IF k + 1 \in S THEN Append(in[k], k + 1) ELSE in[k]
    BY <1>8, <2>1
  <2>. DEFINE s == in[k]
  <2>3. Good(s, k)
    BY <1>10
  <2>. HIDE DEF s
  <2>4. CASE k + 1 \in S
    <3>1. Append(s, k + 1) \in Seq(S) /\ Append(s, k + 1) # <<>>
      BY <2>3, <2>4
    <3>2. 1 \in S => Append(s, k + 1)[1] = 1
      <4>1. CASE k = 0 /\ 1 \in S
        <5>1. s = <<>> \/ s[1] = 1
          BY <1>8, <1>1, <4>1 DEF s
        <5>2. Append(s, 1)[1] = 1
          BY <2>3, <5>1
        <5>. QED
          BY <4>1, <5>2
      <4>2. CASE k # 0 \/ 1 \notin S
        <5>1. 1 \in S => s # <<>> /\ s[1] = 1
          BY <2>1, <2>3, <4>2
        <5>. QED
          BY <5>1, <2>3
      <4>. QED
        BY <4>1, <4>2
    <3>3. in[k + 1] = Append(s, k + 1)
      BY <2>2, <2>4 DEF s
    <3>4. Good(in[k + 1], k + 1)
      BY <3>1, <3>2, <3>3
    <3>. HIDE DEF Good
    <3>. QED
      BY <3>4, <2>1
  <2>5. CASE k + 1 \notin S
    <3>1. in[k + 1] = s
      BY <2>2, <2>5 DEF s
    <3>2. 1 \in S => k >= 1
      BY <2>1, <2>5
    <3>. QED
      BY <2>1, <2>3, <3>1, <3>2
  <2>. QED
    BY <2>4, <2>5
<1>11. m \in T
  <2>. HIDE DEF T
  <2>1. m \in Nat
    BY <1>1
  <2>2. \A k \in 0 .. m : k \in T
    BY <2>1, <1>9, <1>10, UpTo
  <2>. QED
    BY <2>1, <2>2
<1>. QED
  BY <1>1, <1>7, <1>11

\* What is chosen from a sequence that begins with the system prompt, begins with it
\* if its place is chosen.
LEMMA KeptHeaded ==
  ASSUME NEW v, Headed(v), NEW S, S \subseteq DOMAIN v, 1 \in S
  PROVE  Headed(Kept(v, S))
<1>. DEFINE ks == InOrder(S)
<1>1. v \in Seq(Message) /\ Len(v) \in Nat /\ S \subseteq 1 .. Len(v)
  BY DEF Headed
<1>2. ks \in Seq(S) /\ ks # <<>> /\ ks[1] = 1
  BY <1>1, InOrderIs
<1>3. Kept(v, S) = [i \in DOMAIN ks |-> v[ks[i]]]
  BY DEF Kept
<1>. HIDE DEF ks
<1>. DEFINE w == [i \in DOMAIN ks |-> v[ks[i]]]
<1>4. DOMAIN ks = 1 .. Len(ks) /\ Len(ks) \in Nat /\ Len(ks) >= 1 /\ \A i \in DOMAIN ks : ks[i] \in S
  BY <1>2
<1>5. \A i \in DOMAIN ks : v[ks[i]] \in Message
  BY <1>1, <1>4
<1>6. w \in [1 .. Len(ks) -> Message]
  BY <1>4, <1>5
<1>7. w[1] = v[1]
  BY <1>2, <1>4
<1>8. w \in Seq(Message) /\ Len(w) = Len(ks)
  <2>. HIDE DEF w
  <2>. QED
    BY <1>4, <1>6, IsASeq
<1>. HIDE DEF w
<1>9. w # <<>>
  BY <1>4, <1>8
<1>. QED
  BY <1>3, <1>7, <1>8, <1>9 DEF Headed, w

LEMMA JoinedHeaded ==
  ASSUME NEW s, Headed(s), NEW t \in Seq(Message)
  PROVE  Headed(s \o t)
<1>1. s \in Seq(Message) /\ s[1] = System /\ Len(s) \in Nat /\ Len(s) >= 1 /\ Len(t) \in Nat
  BY DEF Headed
<1>2. s \o t \in Seq(Message) /\ Len(s \o t) = Len(s) + Len(t)
      /\ \A i \in 1 .. (Len(s) + Len(t)) : (s \o t)[i] = IF i <= Len(s) THEN s[i] ELSE t[i - Len(s)]
  BY <1>1, ConcatProperties
<1>. DEFINE u == s \o t
<1>. HIDE DEF u
<1>3. u \in Seq(Message) /\ Len(u) >= 1 /\ u[1] = System
  BY <1>1, <1>2 DEF u
<1>. QED
  BY <1>3 DEF Headed, u

\* The last messages of a kind have a place.
LEMMA PlaceIs ==
  ASSUME NEW n \in Nat, NEW S, S \subseteq 1 .. n
  PROVE  Max({0} \cup S) \in 0 .. n /\ (Max({0} \cup S) > 0 => Max({0} \cup S) \in S)
         /\ \A k \in S : k <= Max({0} \cup S)
<1>. DEFINE U == {0} \cup S
            x == Max(U)
<1>1. U \subseteq 0 .. n /\ U # {}
  OBVIOUS
<1>2. x \in U /\ \A y \in U : x >= y
  <2>. HIDE DEF U
  <2>. QED
    BY <1>1, MaxProperties
<1>. HIDE DEF x
<1>3. x \in 0 .. n /\ x \in Int /\ \A y \in S : y \in Int /\ x >= y
  BY <1>1, <1>2
<1>4. x > 0 => x \in S
  BY <1>2
<1>5. x \in 0 .. n /\ (x > 0 => x \in S) /\ \A y \in S : y <= x
  BY <1>3, <1>4
<1>. QED
  BY <1>5 DEF x

LEMMA LastUsersAre ==
  ASSUME NEW v, v \in Seq(Message)
  PROVE  /\ LastUserRole(v) \in 0 .. Len(v) /\ (LastUserRole(v) > 0 => v[LastUserRole(v)].role = "user")
         /\ LastUser(v) \in 0 .. Len(v)
         /\ LastUser(v) > 0 => v[LastUser(v)].role = "user" /\ Persisted(v[LastUser(v)])
<1>. DEFINE S == Users(v)
            T == {k \in Users(v) : Persisted(v[k])}
<1>1. Len(v) \in Nat /\ S \subseteq 1 .. Len(v) /\ T \subseteq 1 .. Len(v)
  BY DEF Users
<1>2. \A k \in S : v[k].role = "user"
  BY DEF Users
<1>3. \A k \in T : v[k].role = "user" /\ Persisted(v[k])
  BY DEF Users
<1>4. LastUserRole(v) = Max({0} \cup S) /\ LastUser(v) = Max({0} \cup T)
  BY DEF LastUserRole, LastUser
<1>. HIDE DEF S, T
<1>. QED
  BY <1>1, <1>2, <1>3, <1>4, PlaceIs

LEMMA CutIs ==
  ASSUME NEW m \in Message
  PROVE  Cut(m) \in Message /\ (m.role # "tool" => Cut(m) = m)
         /\ Cut(m).role = m.role /\ Cut(m).kind = m.kind /\ Cut(m).call = m.call
  BY DEF Cut, Message, Pruned

\* Pruning takes no message away.
LEMMA PruneOldHeaded ==
  ASSUME NEW v, Headed(v)
  PROVE  Headed(PruneOld(v)) /\ Len(PruneOld(v)) = Len(v)
<1>. DEFINE u == LastUserRole(v)
            a == [k \in 1 .. (u - 1) |-> Cut(v[k])]
            m == Max({u, 1})
            b == SubSeq(v, m, Len(v))
<1>1. v \in Seq(Message) /\ Len(v) \in Nat /\ Len(v) >= 1 /\ v[1] = System /\ v[1].role # "user"
  BY DEF Headed, System, Say
<1>2. u \in 0 .. Len(v) /\ (u > 0 => v[u].role = "user")
  BY <1>1, LastUsersAre
<1>3. u # 1
  BY <1>1, <1>2
<1>4. m = IF u >= 1 THEN u ELSE 1
  <2>1. \E x \in {u, 1} : (\A y \in {u, 1} : x >= y) /\ x = (IF u >= 1 THEN u ELSE 1)
    BY <1>2
  <2>2. \A x, z \in {u, 1} : (\A y \in {u, 1} : x >= y) /\ (\A y \in {u, 1} : z >= y) => x = z
    BY <1>2
  <2>. QED
    BY <2>1, <2>2 DEF Max
<1>5. PruneOld(v) = a \o b
  BY DEF PruneOld
<1>. HIDE DEF u, m
<1>6. m \in 1 .. Len(v)
  BY <1>1, <1>2, <1>4
<1>7. b \in Seq(Message) /\ Len(b) = 1 + Len(v) - m /\ b[1] = v[m]
  BY <1>1, <1>6
<1>8. a \in [1 .. (u - 1) -> Message]
  <2>1. \A k \in 1 .. (u - 1) : v[k] \in Message
    BY <1>1, <1>2
  <2>. QED
    BY <2>1, CutIs
<1>9. CASE u = 0
  <2>1. a = <<>> /\ m = 1
    BY <1>4, <1>9
  <2>. HIDE DEF a, b
  <2>2. a \o b = b
    BY <1>7, <2>1
  <2>. QED
    BY <1>1, <1>5, <1>7, <2>1, <2>2 DEF Headed
<1>10. CASE u # 0
  <2>1. u - 1 \in Nat /\ u - 1 >= 1 /\ m = u
    BY <1>2, <1>3, <1>4, <1>10
  <2>2. a[1] = System
    <3>1. 1 \in 1 .. (u - 1)
      BY <2>1
    <3>2. a[1] = Cut(v[1])
      BY <3>1
    <3>3. v[1] \in Message /\ v[1].role # "tool"
      BY <1>1 DEF System, Say
    <3>. QED
      BY <1>1, <3>2, <3>3, CutIs
  <2>3. a \in Seq(Message) /\ Len(a) = u - 1
    <3>. HIDE DEF a
    <3>. QED
      BY <1>8, <2>1, IsASeq
  <2>. HIDE DEF a, b
  <2>4. a \o b \in Seq(Message) /\ Len(a \o b) = Len(a) + Len(b) /\ (a \o b)[1] = a[1]
    <3>1. a \o b \in Seq(Message) /\ Len(a \o b) = Len(a) + Len(b)
          /\ \A i \in 1 .. (Len(a) + Len(b)) : (a \o b)[i] = IF i <= Len(a) THEN a[i] ELSE b[i - Len(a)]
      BY <1>7, <2>3, ConcatProperties
    <3>2. Len(a) \in Nat /\ Len(b) \in Nat /\ Len(a) >= 1
      BY <1>7, <2>1, <2>3
    <3>. QED
      BY <3>1, <3>2
  <2>5. Len(a \o b) = Len(v)
    BY <1>1, <1>7, <2>1, <2>3, <2>4, <1>2
  <2>. QED
    BY <1>1, <1>5, <2>2, <2>4, <2>5 DEF Headed
<1>. QED
  BY <1>9, <1>10

LEMMA MinIs ==
  ASSUME NEW S, S \subseteq Nat, S # {}
  PROVE  Min(S) \in S /\ \A y \in S : Min(S) <= y
  BY LeastExists DEF Min

\* A group ends before the next begins.
LEMMA EndOfIs ==
  ASSUME NEW v \in Seq(Message), NEW k \in Nat
  PROVE  EndOf(v, k) \in Int
<1>. DEFINE S == {s \in Starts(v) : s > k} \cup {Len(v) + 1}
<1>1. S \subseteq Nat /\ S # {}
  BY DEF Starts
<1>2. EndOf(v, k) = Min(S) - 1
  BY DEF EndOf
<1>. HIDE DEF S
<1>. DEFINE x == Min(S)
<1>3. x \in S
  BY <1>1, MinIs
<1>4. EndOf(v, k) = x - 1
  BY <1>2
<1>. HIDE DEF x
<1>. QED
  BY <1>1, <1>3, <1>4

\* Without later groups a sequence begins as it did.
LEMMA WithoutHeaded ==
  ASSUME NEW v, Headed(v), NEW dropped, dropped \subseteq 2 .. Len(v)
  PROVE  Headed(Without(v, dropped))
<1>. DEFINE S == DOMAIN v \ UNION {s .. EndOf(v, s) : s \in dropped}
<1>1. v \in Seq(Message) /\ Len(v) \in Nat /\ Len(v) >= 1
  BY DEF Headed
<1>2. ASSUME NEW s \in dropped, 1 \in s .. EndOf(v, s) PROVE FALSE
  <2>1. s \in Nat /\ s >= 2
    BY <1>1
  <2>2. EndOf(v, s) \in Int
    BY <1>1, <2>1, EndOfIs
  <2>. QED
    BY <1>2, <2>1, <2>2
<1>3. 1 \in DOMAIN v
  BY <1>1
<1>4. 1 \in S /\ S \subseteq DOMAIN v
  BY <1>2, <1>3
<1>5. Without(v, dropped) = Kept(v, S)
  BY DEF Without
<1>. HIDE DEF S
<1>. QED
  BY <1>4, <1>5, KeptHeaded

LEMMA DropOrderIs ==
  ASSUME NEW v, Headed(v)
  PROVE  DropOrder(v) \in Seq(2 .. Len(v))
<1>. DEFINE u == LastUser(v)
            groups == Starts(v) \ {1, u}
            lastResort == {k \in groups : u > 0 /\ k = u + 1 /\ Digest(v, k)}
            before == {k \in groups : k < u \/ u = 0}
            after == (groups \ before) \ lastResort
<1>1. v \in Seq(Message) /\ Len(v) \in Nat
  BY DEF Headed
<1>2. groups \subseteq 2 .. Len(v) /\ groups \subseteq 1 .. Len(v)
  BY <1>1 DEF Starts
<1>3. DropOrder(v) = InOrder(before) \o InOrder(after) \o InOrder(lastResort)
  BY DEF DropOrder
<1>4. before \subseteq groups /\ after \subseteq groups /\ lastResort \subseteq groups
  OBVIOUS
<1>. HIDE DEF before, after, lastResort, groups
<1>5. \A S : S \subseteq groups => InOrder(S) \in Seq(2 .. Len(v))
  <2>. SUFFICES ASSUME NEW S, S \subseteq groups PROVE InOrder(S) \in Seq(2 .. Len(v))
    OBVIOUS
  <2>1. InOrder(S) \in Seq(S)
    BY <1>1, <1>2, InOrderIs
  <2>. QED
    BY <1>2, <2>1, SeqMonotonic
<1>. DEFINE a == InOrder(before)
            b == InOrder(after)
            c == InOrder(lastResort)
<1>6. a \in Seq(2 .. Len(v)) /\ b \in Seq(2 .. Len(v)) /\ c \in Seq(2 .. Len(v))
  BY <1>4, <1>5
<1>7. DropOrder(v) = a \o b \o c
  BY <1>3
<1>. HIDE DEF a, b, c
<1>. QED
  BY <1>6, <1>7, ConcatProperties

LEMMA MinimalHeaded ==
  ASSUME NEW v, Headed(v)
  PROVE  Headed(Minimal(v))
<1>. DEFINE u == LastUser(v)
            S == {1} \cup ({u} \ {0}) \cup {k \in {u + 1} : u > 0 /\ Digest(v, k)}
<1>1. v \in Seq(Message) /\ Len(v) \in Nat /\ Len(v) >= 1
  BY DEF Headed
<1>2. u \in 0 .. Len(v)
  BY <1>1, LastUsersAre
<1>3. Minimal(v) = Kept(v, S)
  BY DEF Minimal
<1>. HIDE DEF u
<1>4. S \subseteq DOMAIN v /\ 1 \in S
  BY <1>1, <1>2 DEF Digest
<1>. HIDE DEF S
<1>. QED
  BY <1>3, <1>4, KeptHeaded

LEMMA TruncatedHeaded ==
  ASSUME NEW v, Headed(v)
  PROVE  Headed(Truncated(v))
<1>. DEFINE order == DropOrder(v)
            Rest(n) == Without(v, {order[i] : i \in 1 .. n})
            enough == {n \in 0 .. Len(order) : Tokens(Rest(n)) <= Budget}
<1>1. order \in Seq(2 .. Len(v)) /\ Len(order) \in Nat
  BY DropOrderIs
<1>2. \A n \in 0 .. Len(order) : Headed(Rest(n))
  <2>. SUFFICES ASSUME NEW n \in 0 .. Len(order) PROVE Headed(Rest(n))
    OBVIOUS
  <2>. DEFINE dropped == {order[i] : i \in 1 .. n}
  <2>1. dropped \subseteq 2 .. Len(v)
    <3>. HIDE DEF order
    <3>. QED
      BY <1>1
  <2>. HIDE DEF dropped, order
  <2>2. Headed(Without(v, dropped))
    BY <2>1, WithoutHeaded
  <2>. QED
    BY <2>2 DEF dropped
<1>3. CASE Tokens(v) <= Budget \/ ~Valid(v)
  BY <1>3, MinimalHeaded DEF Truncated
<1>4. CASE ~(Tokens(v) <= Budget \/ ~Valid(v))
  <2>1. Truncated(v) = Rest(IF enough = {} THEN Len(order) ELSE Min(enough))
    BY <1>4, Zenon DEF Truncated
  <2>2. enough # {} => Min(enough) \in 0 .. Len(order)
    <3>1. enough \subseteq Nat /\ enough \subseteq 0 .. Len(order)
      <4>. HIDE DEF Rest, order
      <4>. QED
        BY <1>1
    <3>. HIDE DEF enough
    <3>. QED
      BY <3>1, MinIs
  <2>3. Len(order) \in 0 .. Len(order)
    <3>. HIDE DEF order
    <3>. QED
      BY <1>1
  <2>. HIDE DEF Rest, enough, order
  <2>. QED
    BY <1>2, <2>1, <2>2, <2>3
<1>. QED
  BY <1>3, <1>4

-----------------------------------------------------------------------------
(* Results.                                                                 *)

\* What is left can be sent, unless the result says that it cannot.
Sound(r) ==
  /\ r.outcome \in {"error", "fallback_truncate", "compressed", "pruned"} /\ Headed(r.view)
  /\ ~r.unsafe => Tokens(r.view) <= Budget /\ (r.outcome # "pruned" => Valid(r.view))

LEMMA FallbackSound ==
  ASSUME NEW v, Headed(v), NEW why \in {"error", "fallback_truncate"}
  PROVE  Sound(Fallback(v, why))
<1>. DEFINE t == Truncated(v)
<1>1. Headed(t)
  BY TruncatedHeaded
<1>2. Fallback(v, why) = [view |-> t, outcome |-> IF Sendable(t) THEN why ELSE "error",
                              unsafe |-> ~Sendable(t)]
  BY DEF Fallback, Finalized
<1>. HIDE DEF t
<1>3. CASE Sendable(t)
  <2>1. Fallback(v, why) = [view |-> t, outcome |-> why, unsafe |-> FALSE]
    BY <1>2, <1>3, Zenon
  <2>. QED
    BY <1>1, <1>3, <2>1 DEF Sound, Sendable
<1>4. CASE ~Sendable(t)
  <2>1. Fallback(v, why) = [view |-> t, outcome |-> "error", unsafe |-> TRUE]
    BY <1>2, <1>4, Zenon
  <2>. QED
    BY <1>1, <2>1 DEF Sound
<1>. QED
  BY <1>3, <1>4

LEMMA ActiveFallbackSound ==
  ASSUME NEW v, Headed(v), NEW why \in {"error", "fallback_truncate"}, NEW floor
  PROVE  Sound(ActiveFallback(v, why, floor))
<1>1. Sound(Fallback(v, why))
  BY FallbackSound
<1>2. Sound([view |-> v, outcome |-> "error", unsafe |-> TRUE])
  BY DEF Sound
<1>. QED
  BY <1>1, <1>2 DEF ActiveFallback, UnlessShort

LEMMA FailsSound ==
  ASSUME NEW r, Sound(r), DOMAIN r = {"view", "outcome", "unsafe"}
  PROVE  Sound(Failed(r))
  BY DEF Sound, Failed

LEMMA ResultDomain ==
  /\ \A v, why : DOMAIN Fallback(v, why) = {"view", "outcome", "unsafe"}
  /\ \A v, why, floor : DOMAIN ActiveFallback(v, why, floor) = {"view", "outcome", "unsafe"}
<1>1. \A v, why : DOMAIN Fallback(v, why) = {"view", "outcome", "unsafe"}
  BY DEF Fallback, Finalized
<1>. QED
  BY <1>1 DEF ActiveFallback, UnlessShort

\* Without a summary a pass falls back.
LEMMA GiveUpSound ==
  ASSUME Headed(view), asked # "command", NEW why \in {"error", "fallback_truncate"}
  PROVE  Sound(GiveUp(why)) /\ DOMAIN GiveUp(why) = {"view", "outcome", "unsafe"}
<1>1. CASE asked = "start"
  <2>1. GiveUp(why) = Fallback(view, why)
    BY <1>1, Zenon DEF GiveUp
  <2>. QED
    BY <2>1, FallbackSound, ResultDomain
<1>2. CASE asked = "escalated"
  <2>1. GiveUp(why) = Spare
    BY <1>2, Zenon DEF GiveUp
  <2>2. Headed(PruneOld(view)) /\ "fallback_truncate" \in {"error", "fallback_truncate"}
    BY PruneOldHeaded
  <2>. QED
    BY <2>1, <2>2, ActiveFallbackSound, ResultDomain DEF Spare
<1>3. CASE asked # "start" /\ asked # "escalated"
  <2>1. GiveUp(why) = ActiveFallback(PruneOld(view), why, RequiredTail(PruneOld(view)))
    BY <1>3, Zenon DEF GiveUp
  <2>2. Headed(PruneOld(view))
    BY PruneOldHeaded
  <2>. QED
    BY <2>1, <2>2, ActiveFallbackSound, ResultDomain
<1>. QED
  BY <1>1, <1>2, <1>3

LEMMA SayIs ==
  /\ System \in Message
  /\ \A n \in Nat : Summary(n) \in Message /\ Checkpoint(n) \in Message
  /\ Nudge \in Message
  /\ \A n, s \in Nat : User(n, s) \in Message /\ Answer(s) \in Message
  /\ \A n, c, s \in Nat : Group(n, c, s) \in Seq(Message)
  BY DEF Message, System, Summary, Checkpoint, Nudge, User, Answer, Group, Say, Small

\* Merging puts no message further back.
LEMMA RawIs ==
  ASSUME NEW v \in Seq(Message), NEW k \in 0 .. Len(v)
  PROVE  Raw(v, k) \in 0 .. k
<1>. DEFINE S == {j \in Merged(v) : j <= k}
<1>1. S \subseteq 1 .. k
  BY DEF Merged
<1>2. IsFiniteSet(1 .. k) /\ Cardinality(1 .. k) = k
  BY FS_Interval
<1>3. Cardinality(S) \in Nat /\ Cardinality(S) <= k
  <2>. HIDE DEF S
  <2>. QED
    BY <1>1, <1>2, FS_Subset, FS_CardinalityType
<1>. HIDE DEF S
<1>4. Raw(v, k) = k - Cardinality(S)
  BY DEF Raw, S
<1>. QED
  BY <1>3, <1>4

\* A summary in the place of the earlier messages.
LEMMA WithPrefixSound ==
  ASSUME Headed(view), asked # "command", NEW n \in Nat
  PROVE  Sound(WithPrefix(n))
<1>. DEFINE raw == DOMAIN view \ Merged(view)
            stops == {s \in (Starts(view) \cap raw) \ {1} :
                        Raw(view, s) > PrefixWanted \/ s = Max({0} \cup (Users(view) \cap raw))}
            from == Raw(view, Prefix)
            tail == SubSeq(view, from + 1, Len(view))
            v == <<view[1], Summary(n)>> \o tail
<1>1. view \in Seq(Message) /\ Len(view) \in Nat /\ view[1] = System /\ Len(view) >= 1
  BY DEF Headed
<1>2. from \in Nat
  <2>. DEFINE S == stops \cup {Len(view) + 1}
  <2>0. DOMAIN view = 1 .. Len(view) /\ Starts(view) \subseteq DOMAIN view
    BY <1>1 DEF Starts
  <2>1. S \subseteq 1 .. (Len(view) + 1) /\ S \subseteq Nat /\ S # {}
    BY <1>1, <2>0
  <2>2. Prefix = Min(S) - 1
    BY DEF Prefix
  <2>. HIDE DEF S
  <2>. DEFINE x == Min(S)
  <2>3. x \in S
    BY <2>1, MinIs
  <2>4. Prefix = x - 1
    BY <2>2
  <2>. HIDE DEF x
  <2>5. Prefix \in 0 .. Len(view)
    BY <1>1, <2>1, <2>3, <2>4
  <2>. QED
    BY <1>1, <2>5, RawIs
<1>. HIDE DEF from
<1>3. tail \in Seq(Message)
  <2>1. \A i \in (from + 1) .. Len(view) : view[i] \in Message
    BY <1>1, <1>2
  <2>. QED
    BY <1>1, <1>2, <2>1, SubSeqProperties
<1>. HIDE DEF tail
<1>4. Headed(v)
  <2>. DEFINE a == <<view[1], Summary(n)>>
  <2>1. a \in Seq(Message) /\ Len(a) = 2 /\ a[1] = System
    BY <1>1, SayIs
  <2>. HIDE DEF a
  <2>2. a \o tail \in Seq(Message) /\ Len(a \o tail) = Len(a) + Len(tail)
        /\ \A i \in 1 .. (Len(a) + Len(tail)) : (a \o tail)[i] = IF i <= Len(a) THEN a[i] ELSE tail[i - Len(a)]
    BY <1>3, <2>1, ConcatProperties
  <2>3. Len(tail) \in Nat
    BY <1>3
  <2>4. a \o tail # <<>> /\ (a \o tail)[1] = System
    BY <2>1, <2>2, <2>3
  <2>. QED
    BY <2>2, <2>4 DEF Headed, a
<1>5. CASE Shrinks(v)
  <2>1. WithPrefix(n) = Done(v, "compressed")
    BY <1>5, Zenon DEF WithPrefix, tail, from
  <2>. HIDE DEF v
  <2>2. WithPrefix(n) = [view |-> v, outcome |-> "compressed", unsafe |-> FALSE]
    BY <2>1 DEF Done
  <2>. QED
    BY <1>4, <1>5, <2>2 DEF Sound, Shrinks
<1>6. CASE ~Shrinks(v)
  <2>1. WithPrefix(n) = GiveUp("fallback_truncate")
    BY <1>6, Zenon DEF WithPrefix, tail, from
  <2>. QED
    BY <2>1, GiveUpSound
<1>. QED
  BY <1>5, <1>6

\* The turn has work behind its user's message.
Workable(v) == Valid(v) /\ LastUser(v) > 0 /\ HasWork(v)

\* A group of it begins behind the message and its checkpoint.
LEMMA WorkBegins ==
  ASSUME NEW v, Headed(v), Workable(v)
  PROVE  WorkStarts(v) # {} /\ WorkStarts(v) \subseteq 1 .. Len(v)
<1>. DEFINE u == LastUser(v)
<1>1. v \in Seq(Message) /\ Len(v) \in Nat
  BY DEF Headed
<1>2. u \in 1 .. Len(v) /\ v[u].role = "user"
  BY <1>1, LastUsersAre DEF Workable
<1>3. WorkStart(v) = (IF Digest(v, u + 1) THEN u + 2 ELSE u + 1)
  BY DEF WorkStart
<1>4. PICK k \in DOMAIN v : k > u /\ Persisted(v[k])
  BY DEF Workable, HasWork
<1>. HIDE DEF u
<1>5. k \in 1 .. Len(v) /\ k >= WorkStart(v) /\ WorkStart(v) \in Nat
  <2>1. ~ (k = u + 1 /\ Digest(v, u + 1))
    BY <1>4 DEF Digest, Persisted
  <2>. QED
    BY <1>1, <1>2, <1>3, <1>4, <2>1
<1>6. CASE v[k].role # "tool"
  <2>1. k \in WorkStarts(v)
    BY <1>4, <1>5, <1>6 DEF WorkStarts, Starts
  <2>. QED
    BY <1>1, <2>1 DEF WorkStarts, Starts
<1>7. CASE v[k].role = "tool"
  <2>1. k - 1 \in DOMAIN v /\ v[k - 1].role = "assistant"
    BY <1>4, <1>7 DEF Workable, Valid
  <2>2. k - 1 # u
    BY <1>2, <2>1
  <2>3. ~ (k - 1 = u + 1 /\ Digest(v, u + 1))
    <3>1. ASSUME k - 1 = u + 1, Digest(v, u + 1) PROVE FALSE
      <4>1. v[k - 1].kind = "active_turn_summary"
        BY <3>1 DEF Digest
      <4>2. v[k - 1].role = "user"
        <5>1. v[k - 1] \in Message
          BY <1>1, <2>1
        <5>. QED
          BY <4>1, <5>1 DEF Message
      <4>. QED
        BY <2>1, <4>2
    <3>. QED
      BY <3>1
  <2>4. k - 1 >= WorkStart(v)
    BY <1>1, <1>2, <1>3, <1>4, <2>1, <2>2, <2>3
  <2>5. k - 1 \in WorkStarts(v)
    BY <2>1, <2>4 DEF WorkStarts, Starts
  <2>. QED
    BY <1>1, <2>5 DEF WorkStarts, Starts
<1>. QED
  BY <1>6, <1>7

LEMMA BatchEndIs ==
  ASSUME NEW v, Headed(v), Workable(v)
  PROVE  BatchEnd(v) \in Nat
<1>. DEFINE W == WorkStarts(v)
            ends == {s - 1 : s \in {t \in W \cup {Len(v) + 1} : t <= Protected(v)}}
            enough == {e \in ends : WorkFrom(v, e + 1) <= RecentLimit(v)}
<1>1. Len(v) \in Nat /\ W # {} /\ W \subseteq 1 .. Len(v)
  BY WorkBegins DEF Headed
<1>. HIDE DEF W
<1>2. Protected(v) \in W \cup {Len(v) + 1}
  <2>1. CASE RequiredTail(v) = 0
    BY <2>1 DEF Protected
  <2>2. CASE RequiredTail(v) # 0
    <3>. DEFINE S == {Min(W)} \cup {s \in W : WorkFrom(v, s) >= RequiredTail(v)}
    <3>1. Protected(v) = Max(S)
      BY <2>2 DEF Protected, W
    <3>2. Min(W) \in W
      <4>1. W \subseteq Nat
        BY <1>1
      <4>. QED
        BY <1>1, <4>1, MinIs
    <3>3. S \subseteq W /\ S # {}
      BY <3>2
    <3>. HIDE DEF S
    <3>4. S \subseteq 0 .. Len(v)
      BY <1>1, <3>3
    <3>5. Max(S) \in S
      BY <1>1, <3>3, <3>4, MaxProperties
    <3>. QED
      BY <3>1, <3>3, <3>5
  <2>. QED
    BY <2>1, <2>2
<1>3. ends \subseteq Nat /\ ends \subseteq 0 .. Len(v) /\ ends # {}
  <2>. DEFINE p == Protected(v)
  <2>1. p \in W \cup {Len(v) + 1}
    BY <1>2
  <2>. HIDE DEF p
  <2>2. p - 1 \in {s - 1 : s \in {t \in W \cup {Len(v) + 1} : t <= p}}
    BY <1>1, <2>1
  <2>3. \A s \in W \cup {Len(v) + 1} : s - 1 \in 0 .. Len(v) /\ s - 1 \in Nat
    BY <1>1
  <2>. QED
    BY <2>2, <2>3 DEF p
<1>4. BatchEnd(v) = IF enough = {} THEN Max(ends) ELSE Min(enough)
  BY DEF BatchEnd, W
<1>5. enough \subseteq ends
  OBVIOUS
<1>. HIDE DEF ends, enough
<1>6. Max(ends) \in ends
  BY <1>1, <1>3, MaxProperties
<1>7. enough # {} => Min(enough) \in enough
  <2>1. enough \subseteq Nat
    BY <1>3, <1>5
  <2>. QED
    BY <2>1, MinIs
<1>8. BatchEnd(v) \in ends
  BY <1>4, <1>5, <1>6, <1>7
<1>. QED
  BY <1>3, <1>8

\* A checkpoint in the place of the earlier work.
LEMMA WithCheckpointSound ==
  ASSUME Headed(view), asked # "command", Workable(PruneOld(view)), NEW n \in Nat
  PROVE  Sound(WithCheckpoint(n))
<1>. DEFINE v == PruneOld(view)
            u == LastUser(v)
            front == SubSeq(v, 1, u)
            tail == SubSeq(v, BatchEnd(v) + 1, Len(v))
            w == front \o <<Checkpoint(n)>> \o tail
<1>1. Headed(v)
  BY PruneOldHeaded
<1>2. v \in Seq(Message) /\ Len(v) \in Nat /\ v[1] = System
  BY <1>1 DEF Headed
<1>3. u \in 1 .. Len(v)
  BY <1>2, LastUsersAre DEF Workable
<1>4. BatchEnd(v) \in Nat
  BY <1>1, BatchEndIs
<1>. HIDE DEF v, u
<1>5. front \in Seq(Message) /\ Len(front) = u /\ front[1] = System
  BY <1>2, <1>3
<1>6. tail \in Seq(Message)
  <2>. DEFINE b == BatchEnd(v)
  <2>. HIDE DEF b
  <2>1. b \in Nat
    BY <1>4 DEF b
  <2>2. \A i \in (b + 1) .. Len(v) : v[i] \in Message
    BY <1>2, <2>1
  <2>3. SubSeq(v, b + 1, Len(v)) \in Seq(Message)
    BY <1>2, <2>1, <2>2, SubSeqProperties
  <2>. QED
    BY <2>3 DEF b
<1>. DEFINE c == <<Checkpoint(n)>>
<1>7. c \in Seq(Message)
  BY SayIs
<1>. HIDE DEF front, tail, c
<1>8. Headed(front \o c \o tail)
  <2>1. Headed(front)
    BY <1>3, <1>5 DEF Headed
  <2>2. Headed(front \o c)
    BY <1>7, <2>1, JoinedHeaded
  <2>. QED
    BY <1>6, <2>2, JoinedHeaded
<1>9. Headed(w)
  BY <1>8 DEF c
<1>10. Sound(GiveUp("error")) /\ Sound(Failed(GiveUp("error"))) /\ Sound(GiveUp("fallback_truncate"))
  BY GiveUpSound, FailsSound
<1>11. CASE Valid(w) /\ Shrinks(w) /\ ~ (RawTail(w) < RequiredTail(v))
  <2>1. WithCheckpoint(n) = Done(w, "compressed")
    BY <1>11, Zenon DEF WithCheckpoint, v, u, front, tail
  <2>. HIDE DEF w
  <2>2. WithCheckpoint(n) = [view |-> w, outcome |-> "compressed", unsafe |-> FALSE]
    BY <2>1 DEF Done
  <2>. QED
    BY <1>9, <1>11, <2>2 DEF Sound, Shrinks
<1>12. CASE ~ (Valid(w) /\ Shrinks(w) /\ ~ (RawTail(w) < RequiredTail(v)))
  <2>1. WithCheckpoint(n) \in {GiveUp("error"), Failed(GiveUp("error")), GiveUp("fallback_truncate")}
    BY <1>12, Zenon DEF WithCheckpoint, v, u, front, tail
  <2>. QED
    BY <1>10, <2>1
<1>. QED
  BY <1>11, <1>12

\* The next number is one behind the greatest.
LEMMA NextSeqIs ==
  ASSUME Headed(view)
  PROVE  NextSeq \in Nat
<1>. DEFINE n == Len(view)
            T == {m \in 0 .. n : \E b \in Nat : \A k \in 1 .. m : view[k].seq <= b}
            S == {view[k].seq : k \in DOMAIN view}
<1>1. n \in Nat /\ DOMAIN view = 1 .. n /\ \A k \in 1 .. n : view[k].seq \in Nat
  <2>1. n \in Nat /\ DOMAIN view = 1 .. n /\ \A k \in 1 .. n : view[k] \in Message
    BY DEF Headed
  <2>2. \A m \in Message : m.seq \in Nat
    BY DEF Message
  <2>. HIDE DEF n
  <2>. QED
    BY <2>1, <2>2
<1>. HIDE DEF n
<1>2. 0 \in T
  <2>1. 0 \in 0 .. n /\ \A k \in 1 .. 0 : view[k].seq <= 0
    BY <1>1
  <2>. QED
    BY <2>1
<1>3. ASSUME NEW m \in 0 .. (n - 1), m \in T PROVE m + 1 \in T
  <2>1. PICK b \in Nat : \A k \in 1 .. m : view[k].seq <= b
    BY <1>3
  <2>. DEFINE x == view[m + 1].seq
  <2>2. x \in Nat /\ m + 1 \in 0 .. n
    BY <1>1
  <2>. HIDE DEF x
  <2>3. \A k \in 1 .. m : view[k].seq <= b + x
    <3>1. \A k \in 1 .. m : view[k].seq \in Nat
      BY <1>1
    <3>. QED
      BY <2>1, <2>2, <3>1
  <2>4. x <= b + x /\ b + x \in Nat
    BY <2>2
  <2>5. \A k \in 1 .. (m + 1) : k \in 1 .. m \/ k = m + 1
    BY <1>1
  <2>6. \A k \in 1 .. (m + 1) : view[k].seq <= b + x
    BY <2>3, <2>4, <2>5 DEF x
  <2>. QED
    BY <2>2, <2>4, <2>6
<1>4. PICK b \in Nat : \A k \in 1 .. n : view[k].seq <= b
  <2>1. n \in T
    <3>. HIDE DEF T
    <3>1. \A k \in 0 .. n : k \in T
      BY <1>1, <1>2, <1>3, UpTo
    <3>. QED
      BY <1>1, <3>1
  <2>. QED
    BY <2>1
<1>5. \A x \in S : x \in 0 .. b
  BY <1>1, <1>4
<1>6. NextSeq = Max({0} \cup S) + 1
  BY DEF NextSeq
<1>. HIDE DEF S
<1>. DEFINE U == {0} \cup S
<1>7. U \subseteq 0 .. b /\ U # {}
  BY <1>5
<1>. HIDE DEF U
<1>. DEFINE x == Max(U)
<1>8. x \in U
  BY <1>7, MaxProperties
<1>9. NextSeq = x + 1
  BY <1>6 DEF U
<1>. HIDE DEF x
<1>. QED
  BY <1>7, <1>8, <1>9

LEMMA ExchangeIs ==
  ASSUME NEW size \in Nat, NEW n \in Nat
  PROVE  Exchange(size, n) \in Seq(Message)
<1>. DEFINE a == <<User(Small, n)>>
            b == Group(size, n + 1, n + 1)
            c == <<Answer(n + 2)>>
<1>1. a \in Seq(Message) /\ c \in Seq(Message)
  BY SayIs DEF Small
<1>2. b \in Seq(Message)
  <2>1. n + 1 \in Nat
    OBVIOUS
  <2>. QED
    BY <2>1, SayIs
<1>3. Exchange(size, n) = a \o b \o c
  BY DEF Exchange
<1>. HIDE DEF a, b, c
<1>. QED
  BY <1>1, <1>2, <1>3, ConcatProperties

\* Earlier turns are messages.
LEMMA HistoryIs ==
  ASSUME NEW n \in Nat, NEW past \in [1 .. n -> ResultSizes]
  PROVE  History(past) \in Seq(Message)
<1>. DEFINE Nth(f, k) == IF k = 0 THEN <<>> ELSE f[k - 1] \o Exchange(past[k], Len(f[k - 1]))
            Through(f) == f = [k \in 0 .. Len(past) |-> Nth(f, k)]
            G == [k \in 1 .. n |-> [x \in Seq(Message) |-> x \o Exchange(past[k], Len(x))]]
<1>1. Len(past) = n /\ \A k \in 1 .. n : past[k] \in Nat
  BY CompactionAssumption, IsASeq
<1>. HIDE DEF Nth
<1>2. PICK h : Looped(n, Seq(Message), <<>>, G, h)
  <2>1. ASSUME NEW k \in 1 .. n, NEW x \in Seq(Message) PROVE x \o Exchange(past[k], Len(x)) \in Seq(Message)
    <3>1. past[k] \in Nat /\ Len(x) \in Nat
      BY <1>1
    <3>2. Exchange(past[k], Len(x)) \in Seq(Message)
      BY <3>1, ExchangeIs
    <3>. QED
      BY <3>2, ConcatProperties
  <2>2. G \in [1 .. n -> [Seq(Message) -> Seq(Message)]]
    BY <2>1
  <2>3. <<>> \in Seq(Message)
    OBVIOUS
  <2>. HIDE DEF G
  <2>. QED
    BY <2>2, <2>3, LoopExists
<1>3. h \in [0 .. n -> Seq(Message)]
  BY <1>2 DEF Looped
<1>4. \A k \in 0 .. n : h[k] = Nth(h, k)
  <2>. SUFFICES ASSUME NEW k \in 0 .. n PROVE h[k] = Nth(h, k)
    OBVIOUS
  <2>1. CASE k = 0
    BY <1>2, <2>1 DEF Looped, Nth
  <2>2. CASE k # 0
    <3>1. k \in 1 .. n /\ k - 1 \in 0 .. n
      BY <2>2
    <3>2. h[k - 1] \in Seq(Message)
      BY ONLY <1>3, <3>1
    <3>3. h[k] = G[k][h[k - 1]]
      BY <1>2, <3>1 DEF Looped
    <3>. QED
      BY <2>2, <3>1, <3>2, <3>3 DEF Nth
  <2>. QED
    BY <2>1, <2>2
<1>5. Through(h)
  <2>. DEFINE g == [k \in 0 .. n |-> Nth(h, k)]
  <2>1. h = [k \in 0 .. n |-> h[k]]
    BY <1>3
  <2>2. \A k \in 0 .. n : g[k] = h[k]
    BY <1>4
  <2>3. g = [k \in 0 .. n |-> g[k]]
    OBVIOUS
  <2>4. h = g
    <3>. HIDE DEF g
    <3>. QED
      BY <2>1, <2>2, <2>3
  <2>. QED
    BY <1>1, <2>4
<1>. DEFINE upTo == CHOOSE f : Through(f)
<1>6. Through(upTo)
  <2>. HIDE DEF Through
  <2>. QED
    BY <1>5
<1>7. History(past) = upTo[n]
  BY <1>1 DEF History, Nth
<1>. HIDE DEF upTo
<1>8. \A k \in 0 .. n : upTo[k] = Nth(upTo, k)
  BY <1>1, <1>6
<1>. DEFINE T == {k \in 0 .. n : upTo[k] \in Seq(Message)}
<1>9. 0 \in T
  <2>1. upTo[0] = <<>> /\ 0 \in 0 .. n
    BY <1>8 DEF Nth
  <2>2. <<>> \in Seq(Message)
    OBVIOUS
  <2>. QED
    BY <2>1, <2>2
<1>10. ASSUME NEW k \in 0 .. (n - 1), k \in T PROVE k + 1 \in T
  <2>1. k + 1 \in 1 .. n /\ k + 1 \in 0 .. n /\ (k + 1) - 1 = k /\ k + 1 # 0
    OBVIOUS
  <2>. DEFINE x == upTo[k]
  <2>2. x \in Seq(Message)
    BY <1>10
  <2>3. upTo[k + 1] = x \o Exchange(past[k + 1], Len(x))
    BY <1>8, <2>1 DEF Nth
  <2>. HIDE DEF x
  <2>4. Exchange(past[k + 1], Len(x)) \in Seq(Message)
    <3>1. past[k + 1] \in Nat /\ Len(x) \in Nat
      BY <1>1, <2>1, <2>2
    <3>. QED
      BY <3>1, ExchangeIs
  <2>5. upTo[k + 1] \in Seq(Message)
    BY <2>2, <2>3, <2>4, ConcatProperties
  <2>. QED
    BY <2>1, <2>5
<1>11. n \in T
  <2>. HIDE DEF T
  <2>1. \A k \in 0 .. n : k \in T
    BY <1>9, <1>10, UpTo
  <2>. QED
    BY <2>1
<1>. QED
  BY <1>7, <1>11

-----------------------------------------------------------------------------
(* The invariant.                                                           *)

Asking == {"asking", "retrying"}

\* While the turn goes on its view begins with the system prompt, and a checkpoint is
\* asked for only where there is work.
PassInv ==
  /\ cfg \in Settings
  /\ phase \notin {"reading", "stopped"} /\ asked # "command" => Headed(view)
  /\ phase = "reading" => last = NoReport /\ tries = 0 /\ usage = 0
  /\ asked = "none" <=> phase \notin Asking
  /\ asked = "active" => Workable(PruneOld(view))
  /\ PassSound

LEMMA BudgetIs == cfg \in Settings => Budget \in Int
<1>. SUFFICES ASSUME cfg \in Settings PROVE Budget \in Int
  OBVIOUS
<1>1. cfg.context \in Nat /\ cfg.threshold \in Nat
  BY CompactionAssumption DEF SettingsAssumption
<1>2. Ratio(cfg.threshold, 80) \in Nat
  BY <1>1 DEF Ratio
<1>. DEFINE r == Ratio(cfg.threshold, 80)
<1>. HIDE DEF r
<1>3. cfg.context * r \in Int
  BY <1>1, <1>2 DEF r
<1>. DEFINE x == cfg.context * r
<1>. HIDE DEF x
<1>4. x \div 100 \in Int
  BY <1>3 DEF x
<1>. QED
  BY <1>4 DEF Budget, Percent, r, x

\* A report of a sound result leaves the turn sound, or ends it.
LEMMA ReportSound ==
  ASSUME PassInv, phase \in Passing, NEW r, Report(r),
         asked = "command" => r.outcome # "none",
         asked # "command" => Sound(r)
  PROVE  PassInv'
<1>1. /\ view' = r.view /\ cfg' = cfg /\ asked' = "none" /\ steered' = FALSE
      /\ last'.outcome = r.outcome
      /\ ~last'.dropped => last'.calls = tries' /\ last'.used = usage'
  BY DEF Report
<1>2. phase' \in {"stopped", "model", "draining"}
      /\ (r.unsafe \/ asked = "command" => phase' = "stopped")
  BY DEF Report
<1>3. r.outcome # "none"
  BY DEF Sound
<1>4. CallsReported'
  BY <1>1, <1>3 DEF CallsReported
<1>5. PayloadFits'
  <2>1. CASE phase' = "stopped"
    BY <2>1 DEF PayloadFits
  <2>2. CASE phase' # "stopped"
    <3>1. ~r.unsafe /\ Sound(r)
      BY <1>2, <2>2
    <3>2. (Tokens(view) <= Budget)'
      BY <1>1, <3>1 DEF Sound, Budget
    <3>3. Valid(view)' \/ last'.outcome = "pruned"
      BY <1>1, <3>1 DEF Sound
    <3>4. (view[1] = System)'
      BY <1>1, <3>1 DEF Sound, Headed
    <3>. QED
      BY <3>2, <3>3, <3>4 DEF PayloadFits
  <2>. QED
    BY <2>1, <2>2
<1>6. phase' # "stopped" => Headed(view')
  BY <1>1, <1>2 DEF Sound
<1>7. cfg' \in Settings
  BY <1>1 DEF PassInv
<1>. QED
  BY <1>1, <1>2, <1>4, <1>5, <1>6, <1>7 DEF PassInv, PassSound, Asking

LEMMA QuietSound ==
  ASSUME PassInv, phase \in {"starting", "between"}, NEW r, Quietly(r), Sound(r)
  PROVE  PassInv'
  BY ReportSound DEF Quietly, Passing, PassInv, Asking

\* A view that fits is sent as it is.
LEMMA FitsSound ==
  ASSUME PassInv, Fits
  PROVE  PassInv'
<1>1. phase \in {"starting", "between"} /\ ~Excess(view) /\ Quietly(Done(view, "none"))
  BY DEF Fits
<1>2. asked = "none" /\ Headed(view) /\ cfg \in Settings
  BY <1>1 DEF PassInv, Asking
<1>3. Tokens(view) <= Budget
  <2>1. Tokens(view) \in Int /\ Budget \in Int
    BY <1>2, OverNat, BudgetIs DEF Tokens, Headed
  <2>. QED
    BY <1>1, <2>1 DEF Excess
<1>4. /\ view' = view /\ cfg' = cfg /\ asked' = "none" /\ last'.outcome = "none"
      /\ last'.started = Announced /\ (~last'.dropped => last'.calls = tries' /\ last'.used = usage')
  BY <1>1 DEF Quietly, Report, Done
<1>5. phase' \in {"model", "draining"}
  <2>1. Done(view, "none").unsafe = FALSE
    BY DEF Done
  <2>. QED
    BY <1>1, <1>2, <2>1 DEF Quietly, Report
<1>6. ~last'.started
  BY <1>1, <1>4 DEF Announced
<1>7. CallsReported'
  BY <1>4, <1>6 DEF CallsReported
<1>8. PayloadFits'
  <2>1. (Tokens(view) <= Budget)' /\ (view[1] = System)'
    BY <1>2, <1>3, <1>4 DEF Budget, Headed
  <2>. QED
    BY <2>1, <1>4 DEF PayloadFits
<1>. QED
  BY <1>2, <1>4, <1>5, <1>7, <1>8 DEF PassInv, PassSound, Asking

\* What Chat does by itself between its passes.
LEMMA TurnSound ==
  ASSUME PassInv, ToolGroup \/ Steer \/ TurnEnds \/ CommandReads
  PROVE  PassInv'
<1>1. CASE ToolGroup
  <2>1. phase \in {"model", "draining"} /\ phase' = "between" /\ UNCHANGED <<cfg, passVars>>
    BY <1>1 DEF ToolGroup
  <2>2. Headed(view) /\ asked = "none"
    BY <2>1 DEF PassInv, Asking
  <2>3. PICK n \in ResultSizes, nudge \in {FALSE, ~nudged} :
          view' = view \o Group(n, NewCall, NextSeq) \o (IF nudge THEN <<Nudge>> ELSE <<>>)
    BY <1>1 DEF ToolGroup
  <2>. DEFINE g == Group(n, NewCall, NextSeq)
              e == IF nudge THEN <<Nudge>> ELSE <<>>
  <2>4. g \in Seq(Message)
    <3>1. n \in Nat /\ NextSeq \in Nat /\ NewCall \in Nat
      BY <2>2, NextSeqIs, CompactionAssumption DEF NewCall
    <3>. QED
      BY <3>1, SayIs
  <2>5. e \in Seq(Message)
    BY SayIs
  <2>6. view' = view \o g \o e
    BY <2>3
  <2>. HIDE DEF g, e
  <2>7. Headed(view')
    <3>1. Headed(view \o g)
      BY <2>2, <2>4, JoinedHeaded
    <3>. QED
      BY <2>5, <2>6, <3>1, JoinedHeaded
  <2>8. CallsReported' /\ PayloadFits'
    BY <2>1 DEF PassInv, PassSound, CallsReported, PayloadFits, passVars
  <2>. QED
    BY <2>1, <2>2, <2>7, <2>8 DEF PassInv, PassSound, Asking, passVars
<1>2. CASE Steer
  <2>1. phase = "draining" /\ steered' = TRUE /\ UNCHANGED <<cfg, phase, passVars>>
        /\ view' = Append(view, User(Small, NextSeq))
    BY <1>2 DEF Steer
  <2>2. Headed(view) /\ asked = "none"
    BY <2>1 DEF PassInv, Asking
  <2>. DEFINE e == <<User(Small, NextSeq)>>
  <2>3. e \in Seq(Message)
    <3>1. NextSeq \in Nat /\ Small \in Nat
      BY <2>2, NextSeqIs DEF Small
    <3>. QED
      BY <3>1, SayIs
  <2>4. view' = view \o e
    BY <2>1, <2>2 DEF Headed
  <2>. HIDE DEF e
  <2>5. Headed(view')
    BY <2>2, <2>3, <2>4, JoinedHeaded
  <2>6. CallsReported' /\ PayloadFits'
    BY <2>1 DEF PassInv, PassSound, CallsReported, PayloadFits, passVars
  <2>. QED
    BY <2>1, <2>2, <2>5, <2>6 DEF PassInv, PassSound, Asking, passVars
<1>3. CASE TurnEnds
  BY <1>3 DEF TurnEnds, PassInv, PassSound, CallsReported, PayloadFits, passVars, Asking
<1>4. CASE CommandReads
  BY <1>4 DEF CommandReads, PassInv, PassSound, CallsReported, PayloadFits, NoReport, Asking
<1>. QED
  BY <1>1, <1>2, <1>3, <1>4

LEMMA PassNext ==
  ASSUME PassInv, [CompactionNext]_compactionVars
  PROVE  PassInv'
<1>1. ASSUME phase \in {"starting", "between"}
      PROVE  Headed(view) /\ Headed(PruneOld(view)) /\ asked = "none"
  BY <1>1, PruneOldHeaded DEF PassInv, Asking
<1>2. CASE Disabled
  BY <1>1, <1>2, FallbackSound, QuietSound DEF Disabled
<1>3. CASE TooShort
  <2>1. Headed(view) /\ phase \in {"starting", "between"}
    BY <1>1, <1>3 DEF TooShort, Attempts
  <2>2. Sound(Failed(Fallback(view, "error")))
    BY <2>1, FallbackSound, FailsSound, ResultDomain
  <2>. QED
    BY <1>3, <2>1, <2>2, QuietSound DEF TooShort
<1>4. ASSUME NEW what \in {"start", "active", "escalated"}, AskModel(what),
             phase \in {"starting", "between"}, what = "active" => Workable(PruneOld(view))
      PROVE  PassInv'
  <2>1. Headed(view)
    BY <1>1, <1>4
  <2>2. /\ asked' = what /\ phase' = "asking" /\ UNCHANGED <<cfg, view, last>>
    BY <1>4 DEF AskModel
  <2>3. PruneOld(view)' = PruneOld(view')
    OBVIOUS
  <2>. QED
    BY <1>4, <2>1, <2>2 DEF PassInv, PassSound, CallsReported, PayloadFits, Asking
<1>5. CASE AskStart
  BY <1>4, <1>5 DEF AskStart, Attempts
<1>6. CASE PruneEnough
  <2>1. phase = "between" /\ Quietly(Done(PruneOld(view), "pruned")) /\ Tokens(PruneOld(view)) <= Budget
    BY <1>6 DEF PruneEnough, Between, PrunedFits
  <2>2. Sound(Done(PruneOld(view), "pruned"))
    BY <1>1, <2>1 DEF Sound, Done
  <2>. QED
    BY <2>1, <2>2, QuietSound
<1>7. CASE Hopeless
  <2>1. phase = "between" /\ \E why \in {"error", "fallback_truncate"} :
                            Quietly(ActiveFallback(PruneOld(view), why, 0))
    BY <1>7 DEF Hopeless, Between
  <2>. QED
    BY <1>1, <2>1, ActiveFallbackSound, QuietSound
<1>8. CASE AskActive
  <2>1. phase = "between" /\ Workable(PruneOld(view)) /\ AskModel("active")
    BY <1>8 DEF AskActive, Condensable, Between, Workable
  <2>. QED
    BY <1>4, <2>1
<1>9. CASE Escalate
  BY <1>4, <1>9 DEF Escalate, Condensable, Between
<1>10. CASE KeepRecent
  <2>1. phase = "between" /\ Quietly(Spare)
    BY <1>10 DEF KeepRecent, Condensable, Between
  <2>2. Sound(Spare)
    BY <1>1, <2>1, ActiveFallbackSound DEF Spare
  <2>. QED
    BY <2>1, <2>2, QuietSound
<1>11. ASSUME NEW why \in {"error", "fallback_truncate"}, phase \in Asking, Report(GiveUp(why))
       PROVE  PassInv'
  <2>1. CASE asked = "command"
    <3>1. GiveUp(why) = Done(view, "error")
      BY <2>1, Zenon DEF GiveUp
    <3>2. GiveUp(why).outcome # "none"
      BY <3>1 DEF Done
    <3>. QED
      BY <1>11, <2>1, <3>2, ReportSound DEF Asking, Passing
  <2>2. CASE asked # "command"
    <3>1. Headed(view)
      BY <1>11, <2>2 DEF PassInv, Asking
    <3>2. Sound(GiveUp(why))
      BY <2>2, <3>1, GiveUpSound
    <3>. QED
      BY <1>11, <2>2, <3>2, ReportSound DEF Asking, Passing
  <2>. QED
    BY <2>1, <2>2
<1>12. CASE Unresolved \/ SummaryFails \/ SummaryEmpty
  BY <1>11, <1>12 DEF Unresolved, SummaryFails, SummaryEmpty, Asking
<1>13. ASSUME NEW n \in SummarySizes, SummaryArrives(n) PROVE PassInv'
  <2>0. n \in Nat /\ phase \in Asking /\ phase \in Passing
    BY <1>13, CompactionAssumption DEF SummaryArrives, Asking, Passing
  <2>1. CASE asked = "command"
    <3>1. Report(Done(view, "compressed"))
      BY <1>13, <2>1, Zenon DEF SummaryArrives
    <3>2. Done(view, "compressed").outcome # "none"
      BY DEF Done
    <3>. QED
      BY <2>0, <2>1, <3>1, <3>2, ReportSound
  <2>2. CASE asked = "active"
    <3>1. Report(WithCheckpoint(n))
      BY <1>13, <2>2, Zenon DEF SummaryArrives
    <3>2. Sound(WithCheckpoint(n))
      BY <2>0, <2>2, WithCheckpointSound DEF PassInv, Asking
    <3>. QED
      BY <2>0, <2>2, <3>1, <3>2, ReportSound
  <2>3. CASE asked \notin {"active", "command"}
    <3>1. Report(WithPrefix(n))
      BY <1>13, <2>3, Zenon DEF SummaryArrives
    <3>2. Sound(WithPrefix(n))
      BY <2>0, <2>3, WithPrefixSound DEF PassInv, Asking
    <3>. QED
      BY <2>0, <2>3, <3>1, <3>2, ReportSound
  <2>. QED
    BY <2>1, <2>2, <2>3
<1>14. ASSUME NEW n \in SummarySizes, SummaryTooShort(n) PROVE PassInv'
  <2>1. CASE phase = "asking" /\ phase' = "retrying" /\ UNCHANGED <<cfg, view, asked, last, turnVars, request>>
    BY <2>1 DEF PassInv, PassSound, CallsReported, PayloadFits, Asking
  <2>2. CASE phase = "retrying" /\ Report(GiveUp("fallback_truncate"))
    BY <1>11, <2>2 DEF Asking
  <2>. QED
    BY <1>14, <2>1, <2>2 DEF SummaryTooShort
<1>15. CASE UNCHANGED compactionVars
  BY <1>15 DEF compactionVars, passVars, turnVars, PassInv, PassSound, CallsReported, PayloadFits, Budget
<1>. QED
  BY <1>2, <1>3, <1>5, <1>6, <1>7, <1>8, <1>9, <1>10, <1>12, <1>13, <1>14, <1>15, FitsSound, TurnSound, Zenon DEF CompactionNext

LEMMA PassInit == CompactionInit => PassInv
<1>. SUFFICES ASSUME CompactionInit PROVE PassInv
  OBVIOUS
<1>1. CASE phase = "reading"
  BY <1>1 DEF CompactionInit, PassInv, PassSound, CallsReported, PayloadFits, NoReport, Asking
<1>2. CASE phase = "starting"
  <2>1. PICK past \in SeqOf(ResultSizes, MaxPast), n \in UserSizes,
             summary \in {<<>>} \cup {<<Summary(s)>> : s \in SummarySizes} :
          view = <<System>> \o summary \o History(past) \o <<User(n, 4 * MaxPast + 1)>>
    BY <1>2 DEF CompactionInit
  <2>2. PICK m \in 0 .. MaxPast : past \in [1 .. m -> ResultSizes]
    BY <2>1 DEF SeqOf
  <2>. DEFINE a == <<System>>
              h == History(past)
              e == <<User(n, 4 * MaxPast + 1)>>
  <2>3. Headed(a)
    BY SayIs DEF Headed
  <2>4. summary \in Seq(Message)
    <3>1. \A s \in SummarySizes : Summary(s) \in Message
      BY SayIs, CompactionAssumption
    <3>2. \A msg \in Message : <<msg>> \in Seq(Message)
      OBVIOUS
    <3>3. \A s \in SummarySizes : <<Summary(s)>> \in Seq(Message)
      BY <3>1, <3>2
    <3>4. <<>> \in Seq(Message)
      OBVIOUS
    <3>. QED
      BY <2>1, <3>3, <3>4, Zenon
  <2>5. h \in Seq(Message)
    <3>1. m \in Nat
      BY CompactionAssumption
    <3>. QED
      BY <2>2, <3>1, HistoryIs
  <2>6. e \in Seq(Message)
    <3>1. n \in Nat /\ 4 * MaxPast + 1 \in Nat
      BY CompactionAssumption
    <3>. QED
      BY <3>1, SayIs
  <2>7. view = a \o summary \o h \o e
    BY <2>1
  <2>. HIDE DEF a, h, e
  <2>8. Headed(a \o summary)
    BY <2>3, <2>4, JoinedHeaded
  <2>9. Headed(a \o summary \o h)
    BY <2>5, <2>8, JoinedHeaded
  <2>10. Headed(view)
    BY <2>6, <2>7, <2>9, JoinedHeaded
  <2>. QED
    BY <1>2, <2>10 DEF CompactionInit, PassInv, PassSound, CallsReported, PayloadFits, NoReport, Asking
<1>. QED
  BY <1>1, <1>2 DEF CompactionInit

\* What goes to the model after a pass fits the budget, begins with the system prompt
\* and answers its calls, and every pass that was announced is reported with its calls.
THEOREM PassSoundHolds == CompactionSpec => []PassSound
<1>1. PassInv => PassSound
  BY DEF PassInv
<1>. QED
  BY <1>1, PassInit, PassNext, PTL DEF CompactionSpec
============================================================================
