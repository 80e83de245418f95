------------------------ MODULE ThreadHistoryProofs ------------------------
(***************************************************************************)
(* Theorems about ThreadHistory for every length of a thread, number of      *)
(* undos and records: the summaries that take the place of messages stand    *)
(* for those before the ones that are kept, the user's latest message stays   *)
(* in what the model is shown, and no undo leaves a row a fork chokes on.     *)
(*                                                                         *)
(* The argument follows what a reader holds.  RowsInv and CutInv say how the  *)
(* messages are numbered, and what an undo took from each reader; ViewsInv,   *)
(* that the rows of a view are stored ones in their order, and that before    *)
(* each stands an account of all that was stored before it.  What a           *)
(* compression does to a view, be it to summarise, to trim or to condense, is *)
(* one relation (Derived), under which both are kept.                         *)
(***************************************************************************)
EXTENDS ThreadHistory, FiniteSetTheorems, SequenceTheorems, TLAPS

-----------------------------------------------------------------------------
(* The invariant.                                                           *)

Role == {"user", "calls", "tool", "answer"}
Row == [seq : 1 .. MaxRows, id : 1 .. MaxRows, role : Role, call : 0 .. MaxRows]
Known == SUBSET (1 .. MaxRows)
Piece == {Reminder, Nudge} \cup {Item(r) : r \in Row}
           \cup {Summary(S) : S \in Known} \cup {Checkpoint(S) : S \in Known}
Record == [id : Nat, first : 0 .. MaxRows, covers : Known, whole : BOOLEAN, late : BOOLEAN,
           again : BOOLEAN]
Place == {"idle", "reading", "fetching", "starting", "summarising", "model", "tools",
          "between", "escalating", "draining", "done"}

\* The messages are numbered without gaps, and neither number nor id is given twice.
RowsInv ==
  /\ rows \subseteq Row /\ nextId \in 1 .. (MaxRows + 1)
  /\ NextSeq \in 1 .. nextId /\ Numbers(rows) = 1 .. (NextSeq - 1)
  /\ \A r \in rows : r.id < nextId
  /\ \A r, q \in rows : r.seq = q.seq \/ r.id = q.id => r = q

\* What an undo took from each reader is never below what is stored after it.
CutInv ==
  /\ undo \in [at : {"idle", "deleting", "invalidating"}, seq : 0 .. MaxRows]
  /\ undo.at = "deleting" => undo.seq \in 1 .. (NextSeq - 1)
  /\ undo.at = "invalidating" =>
       /\ undo.seq \in 1 .. NextSeq
       /\ \A r \in Reader : pc[r] # "idle" => cut[r] <= undo.seq
  /\ cut \in [Reader -> 1 .. NoCut]
  /\ \A r \in Reader : cut[r] = NoCut \/ (cut[r] <= NextSeq /\ pc[r] # "idle")

ReaderTypes ==
  /\ pc \in [Reader -> Place] /\ record \in [Reader -> Record]
  /\ view \in [Reader -> Seq(Piece)] /\ batch \in [Reader -> Nat]
  /\ \A r \in Reader :
       /\ batch[r] <= Len(view[r])
       /\ pc[r] \in {"summarising", "escalating"} <=> batch[r] > 0

RecordTypes ==
  /\ records \subseteq Record /\ nextRecord \in Nat \ {0}
  /\ \A c \in records : c.first > 0 /\ c.id \in 1 .. (nextRecord - 1)

\* What an item of a view tells of, and the items before the k-th.
Tells(i) ==
  IF i.kind = "row" THEN IF i.row.role = "tool" THEN {} ELSE {i.row.id}
  ELSE IF i.kind \in Digests THEN i.covers ELSE {}
Earlier(v, k) == UNION {Tells(v[j]) : j \in {i \in DOMAIN v : i < k}}

\* c tells of nothing but S unless it tells again, and if it is whole of all of it.
Accounts(c, S, T) == (c.again \/ T \subseteq S) /\ (c.whole => S \subseteq T)

Anchored(c) ==
  c.first \in Numbers(rows) /\ Accounts(c, Content(Before(rows, c.first)), c.covers)

RecordsInv ==
  \A c \in records :
    ~c.late /\ ~(undo.at = "invalidating" /\ c.first >= undo.seq) => Anchored(c)

\* What a reader is about to use is anchored unless undone.
FetchInv ==
  \A r \in Reader :
    pc[r] = "fetching" =>
      \/ record[r] = NoRecord
      \/ record[r].first > 0 /\ (~record[r].late /\ record[r].first < cut[r] => Anchored(record[r]))

\* The messages of view v below n are in S, and behind those of smaller numbers only.
RowsFit(v, S, n) ==
  \A k \in DOMAIN v : v[k].kind = "row" /\ v[k].row.seq < n =>
    /\ v[k].row \in S
    /\ \A j \in DOMAIN v : j < k /\ v[j].kind = "row" => v[j].row.seq < v[k].row.seq

\* What stands in v before a message below n tells of what is before it in S.
TellsFit(v, c, S, n) ==
  \A k \in DOMAIN v : v[k].kind = "row" /\ v[k].row.seq < n =>
    Accounts(c, Content(Before(S, v[k].row.seq)), Earlier(v, k))
TellsAll(v, c, S) == Accounts(c, Content(S), Earlier(v, Len(v) + 1))

ViewRows(r) == RowsFit(view[r], rows, cut[r])
ViewTells(r) ==
  ~record[r].late =>
    /\ TellsFit(view[r], record[r], rows, cut[r])
    /\ r = "turn" /\ cut[r] = NoCut => TellsAll(view[r], record[r], rows)

\* The task list and a summary stand before all else, and a checkpoint behind the last
\* stored user message directly behind it.
Leads == {"todo", "summary"}
Leading(v) == \A j, k \in DOMAIN v : j < k /\ v[k].kind \in Leads => v[j].kind \in Leads
Lasts(v, u) == u \in DOMAIN v /\ IsRow(v, u, "user") /\ \A k \in DOMAIN v : IsRow(v, k, "user") => k <= u
Marked(v) ==
  \A j, k \in DOMAIN v : Lasts(v, j) /\ j < k /\ v[k].kind = "checkpoint" => k = j + 1
Ordered(v) == Leading(v) /\ Marked(v)

BatchStops(v, n) == \A k \in GroupStarts(v) : Stops(v, k) => n < k

ViewInv(r) ==
  /\ ViewRows(r) /\ ViewTells(r) /\ Ordered(view[r])
  /\ batch[r] > 0 => BatchStops(view[r], batch[r])
ViewsInv == \A r \in Reader : Working(r) => ViewInv(r)

\* Until a turn reads, the user's message is the last.
TurnBegins ==
  pc["turn"] \in {"reading", "fetching"} /\ cut["turn"] = NoCut =>
    NextSeq > 1 /\ \A q \in rows : q.seq = NextSeq - 1 => q.role = "user"

\* A call is stored, or an undo took it.
CallStored(id) == (\E c \in rows : c.id = id /\ c.role = "calls") \/ (id \in torn /\ id \notin Ids(rows))

ResultsFit ==
  \A r \in rows : r.role = "tool" =>
    /\ r.call < nextId /\ CallStored(r.call)
    /\ \A c \in rows : c.id = r.call => c.seq < r.seq
CallAwaited ==
  pc["turn"] = "tools" =>
    LET v == view["turn"] IN
    /\ Len(v) > 0 /\ v[Len(v)].kind = "row"
    /\ v[Len(v)].row.id < nextId /\ CallStored(v[Len(v)].row.id)
ForkInv == ResultsFit /\ CallAwaited

HistoryInv ==
  /\ RowsInv /\ CutInv /\ ReaderTypes /\ RecordTypes
  /\ RecordsInv /\ FetchInv /\ ViewsInv /\ TurnBegins /\ ForkInv
\* A nonempty set of natural numbers has a least element: of the intervals up to its
\* members, ordered by inclusion, one is minimal.
LEMMA LeastExists ==
  ASSUME NEW S, S \subseteq Nat, S # {}
  PROVE  \E m \in S : \A k \in S : m <= k
<1>. DEFINE D == {1 .. m : m \in S}
            R == StrictSubsetOrdering(Nat)
<1>1. D \subseteq FiniteSubsetsOf(Nat) /\ D # {}
  <2>1. \A m \in S : IsFiniteSet(1 .. m) /\ 1 .. m \subseteq Nat
    BY FS_Interval
  <2>. QED
    BY <2>1 DEF FiniteSubsetsOf
<1>2. \E x \in D : \A y \in D : ~ (<<y, x>> \in R)
  <2>1. IsWellFoundedOn(R, FiniteSubsetsOf(Nat))
    BY FS_StrictSubsetOrderingWellFounded
  <2>. HIDE DEF D, R
  <2>. QED
    BY <1>1, <2>1, WFMin
<1>3. PICK m \in S : \A k \in S : ~ (<<1 .. k, 1 .. m>> \in R)
  BY <1>2
<1>4. \A k \in S : k < m => <<1 .. k, 1 .. m>> \in R
  <2>. SUFFICES ASSUME NEW k \in S, k < m PROVE <<1 .. k, 1 .. m>> \in R
    OBVIOUS
  <2>1. m \in 1 .. m /\ m \notin 1 .. k /\ 1 .. k \subseteq 1 .. m /\ 1 .. m \subseteq Nat
    OBVIOUS
  <2>. QED
    BY <2>1 DEF StrictSubsetOrdering
<1>5. \A k \in S : k \in Int
  OBVIOUS
<1>. HIDE DEF D, R
<1>6. \A k \in S : ~ (k < m)
  BY <1>3, <1>4
<1>7. m \in Int
  BY <1>5
<1>8. \A k \in S : m <= k
  BY <1>5, <1>6, <1>7
<1>. QED
  BY <1>8

\* The greatest member is the least upper bound.
LEMMA MaxProperties ==
  ASSUME NEW n \in Nat, NEW S, S \subseteq 1 .. n, S # {}
  PROVE  Max(S) \in S /\ \A y \in S : Max(S) >= y
<1>. DEFINE U == {m \in Nat : \A y \in S : y <= m}
<1>1. n \in U
  OBVIOUS
<1>2. PICK m \in U : \A k \in U : m <= k
  <2>. HIDE DEF U
  <2>1. U \subseteq Nat
    BY DEF U
  <2>. QED
    BY <1>1, <2>1, LeastExists
<1>3. m \in S
  <2>1. SUFFICES ASSUME m \notin S PROVE FALSE
    OBVIOUS
  <2>2. PICK z \in S : z \in 1 .. n /\ z <= m
    OBVIOUS
  <2>3. \A y \in S : y <= m - 1
    BY <2>1
  <2>4. m - 1 \in U
    <3>1. m - 1 \in Nat
      BY <2>2
    <3>. QED
      BY <3>1, <2>3
  <2>. QED
    BY <2>4, <1>2
<1>4. m \in S /\ \A y \in S : m >= y
  BY <1>3
<1>. QED
  BY <1>4 DEF Max

\* Induction up to a number, on a set: were one of the numbers not in it, so would be
\* its predecessor, and the intervals up to such numbers are well-founded by inclusion.
LEMMA UpTo ==
  ASSUME NEW n \in Nat, NEW T, 0 \in T, \A k \in 0 .. (n - 1) : k \in T => k + 1 \in T
  PROVE  \A k \in 0 .. n : k \in T
<1>. SUFFICES ASSUME NEW m \in 0 .. n, m \notin T PROVE FALSE
  OBVIOUS
<1>. DEFINE D == {1 .. k : k \in {j \in 0 .. n : j \notin T}}
            R == StrictSubsetOrdering(Nat)
<1>1. D \subseteq FiniteSubsetsOf(Nat) /\ D # {}
  <2>1. \A k \in 0 .. n : IsFiniteSet(1 .. k) /\ 1 .. k \subseteq Nat
    BY FS_Interval
  <2>. QED
    BY <2>1 DEF FiniteSubsetsOf
<1>2. \E x \in D : \A y \in D : ~ (<<y, x>> \in R)
  <2>1. IsWellFoundedOn(R, FiniteSubsetsOf(Nat))
    BY FS_StrictSubsetOrderingWellFounded
  <2>. HIDE DEF D, R
  <2>. QED
    BY <1>1, <2>1, WFMin
<1>3. PICK k \in 0 .. n : k \notin T /\ \A j \in 0 .. n : j \notin T => ~ (<<1 .. j, 1 .. k>> \in R)
  BY <1>2
<1>4. k - 1 \in 0 .. (n - 1) /\ (k - 1) + 1 = k
  BY <1>3
<1>5. k - 1 \in 0 .. n /\ k - 1 \notin T
  BY <1>3, <1>4
<1>6. <<1 .. (k - 1), 1 .. k>> \in R
  <2>1. k \in 1 .. k /\ k \notin 1 .. (k - 1) /\ 1 .. (k - 1) \subseteq 1 .. k /\ 1 .. k \subseteq Nat
    BY <1>4
  <2>. QED
    BY <2>1 DEF StrictSubsetOrdering
<1>. QED
  BY <1>3, <1>5, <1>6

\* A loop that goes from state to state computes a state for every number of passes.
Looped(n, X, x, G, f) ==
  f \in [0 .. n -> X] /\ f[0] = x /\ \A k \in 1 .. n : f[k] = G[k][f[k - 1]]

\* What runs through n rounds, each of which takes the value on.
LEMMA LoopExists ==
  ASSUME NEW n \in Nat, NEW X, NEW x \in X, NEW G \in [1 .. n -> [X -> X]]
  PROVE  \E f : Looped(n, X, x, G, f)
<1>. DEFINE T == {m \in 0 .. n : \E f : Looped(m, X, x, G, f)}
<1>1. 0 \in T
  <2>1. Looped(0, X, x, G, [k \in 0 .. 0 |-> x])
    BY DEF Looped
  <2>2. 0 \in 0 .. n
    OBVIOUS
  <2>. QED
    BY <2>1, <2>2
<1>2. ASSUME NEW m \in 0 .. (n - 1), m \in T PROVE m + 1 \in T
  <2>1. PICK f : Looped(m, X, x, G, f)
    BY <1>2
  <2>. DEFINE y == G[m + 1][f[m]]
              h == [k \in 0 .. (m + 1) |-> IF k = m + 1 THEN y ELSE f[k]]
  <2>2. y \in X
    <3>1. m + 1 \in 1 .. n /\ f[m] \in X
      BY <2>1 DEF Looped
    <3>. QED
      BY <3>1
  <2>3. h \in [0 .. (m + 1) -> X] /\ h[0] = x
    BY <2>1, <2>2 DEF Looped
  <2>4. \A k \in 0 .. m : h[k] = f[k]
    OBVIOUS
  <2>5. h[m + 1] = y
    OBVIOUS
  <2>. HIDE DEF h
  <2>6. ASSUME NEW k \in 1 .. (m + 1) PROVE h[k] = G[k][h[k - 1]]
    <3>1. CASE k = m + 1
      <4>1. k - 1 = m /\ h[m] = f[m]
        BY <2>4, <3>1
      <4>. QED
        BY <2>5, <3>1, <4>1
    <3>2. CASE k # m + 1
      <4>1. k \in 1 .. m /\ k - 1 \in 0 .. m /\ k \in 0 .. m
        BY <3>2
      <4>. QED
        BY <2>1, <2>4, <4>1 DEF Looped
    <3>. QED
      BY <3>1, <3>2
  <2>7. Looped(m + 1, X, x, G, h) /\ m + 1 \in 0 .. n
    BY <2>3, <2>6 DEF Looped
  <2>. QED
    BY <2>7
<1>3. n \in T
  <2>. HIDE DEF T
  <2>1. \A k \in 0 .. n : k \in T
    BY <1>1, <1>2, UpTo
  <2>. QED
    BY <2>1
<1>. QED
  BY <1>3

-----------------------------------------------------------------------------
(* The numbers of messages.                                                 *)

\* The numbers of a thread without gaps have its length for their maximum.
LEMMA TopIs ==
  ASSUME NEW S, NEW n \in Nat, Numbers(S) = 1 .. n
  PROVE  Max({0} \cup Numbers(S)) = n
<1>. DEFINE T == {0} \cup Numbers(S)
<1>1. n \in T /\ \A y \in T : n >= y
  OBVIOUS
<1>2. \A x \in T : (\A y \in T : x >= y) => x = n
  OBVIOUS
<1>. QED
  BY <1>1, <1>2 DEF Max

\* A message is stored behind all others.
LEMMA StoreRows ==
  ASSUME RowsInv, Room, NEW role \in Role, NEW call \in 0 .. MaxRows,
         rows' = rows \cup {Message(role, call)}, nextId' = nextId + 1
  PROVE  /\ RowsInv' /\ NextSeq' = NextSeq + 1
         /\ Message(role, call) \in Row /\ Message(role, call).seq = NextSeq
         /\ \A q \in rows : q.seq < NextSeq
<1>. DEFINE m == Message(role, call)
<1>0. MaxRows \in Nat /\ NextSeq \in 1 .. MaxRows /\ nextId \in 1 .. MaxRows
  BY HistoryAssumption DEF RowsInv, Room
<1>1. m \in Row /\ m.seq = NextSeq /\ m.id = nextId
  BY <1>0 DEF Message, Row
<1>. HIDE DEF m
<1>2. \A q \in rows : q.seq \in 1 .. (NextSeq - 1)
  BY DEF RowsInv, Numbers
<1>3. Numbers(rows \cup {m}) = 1 .. NextSeq
  <2>1. Numbers(rows \cup {m}) = Numbers(rows) \cup {m.seq}
    BY DEF Numbers
  <2>2. Numbers(rows) = 1 .. (NextSeq - 1)
    BY DEF RowsInv
  <2>3. (1 .. (NextSeq - 1)) \cup {NextSeq} = 1 .. NextSeq
    BY <1>0
  <2>. QED
    BY <2>1, <2>2, <2>3, <1>1
<1>4. NextSeq' = NextSeq + 1
  <2>1. Max({0} \cup Numbers(rows \cup {m})) = NextSeq
    <3>1. NextSeq \in Nat
      BY <1>0
    <3>. QED
      BY ONLY <1>3, <3>1, TopIs, Zenon
  <2>. QED
    BY <2>1 DEF NextSeq, m
<1>5. RowsInv'
  <2>1. rows' = rows \cup {m}
    BY DEF m
  <2>2. rows' \subseteq Row /\ nextId' \in 1 .. (MaxRows + 1)
    BY <1>0, <1>1, <2>1 DEF RowsInv
  <2>3. NextSeq' \in 1 .. nextId'
    BY <1>0, <1>4 DEF RowsInv
  <2>4. Numbers(rows)' = 1 .. (NextSeq' - 1)
    BY <1>0, <1>3, <1>4, <2>1 DEF Numbers
  <2>5. \A r \in rows' : r.id < nextId'
    BY <1>0, <1>1, <2>1 DEF RowsInv, Row
  <2>6. \A r, q \in rows' : r.seq = q.seq \/ r.id = q.id => r = q
    BY <1>0, <1>1, <1>2, <2>1 DEF RowsInv
  <2>. QED
    BY <2>2, <2>3, <2>4, <2>5, <2>6 DEF RowsInv
<1>6. \A q \in rows : q.seq < NextSeq
  BY <1>0, <1>2
<1>. QED
  BY <1>1, <1>4, <1>5, <1>6 DEF m

\* Rows cut from a number on leave a thread without gaps.
LEMMA CutRows ==
  ASSUME RowsInv, NEW b \in 1 .. (NextSeq - 1), rows' = rows \ From(rows, b), nextId' = nextId
  PROVE  RowsInv' /\ NextSeq' = b
<1>0. MaxRows \in Nat /\ NextSeq \in Nat /\ nextId \in Nat /\ b \in Nat
  BY HistoryAssumption DEF RowsInv
<1>1. \A q \in rows : q.seq \in Nat
  BY DEF RowsInv, Row
<1>2. \A q : q \in rows' <=> q \in rows /\ q.seq < b
  BY <1>0, <1>1 DEF From
<1>3. Numbers(rows') = 1 .. (b - 1)
  <2>1. \A n \in 1 .. (b - 1) : n \in Numbers(rows)
    BY <1>0 DEF RowsInv
  <2>2. \A n \in 1 .. (b - 1) : \E q \in rows : q.seq = n
    BY <2>1 DEF Numbers
  <2>3. \A n \in 1 .. (b - 1) : \E q \in rows' : q.seq = n
    BY <1>0, <1>2, <2>2
  <2>4. \A q \in rows' : q.seq \in 1 .. (b - 1)
    BY <1>0, <1>2 DEF RowsInv, Row
  <2>. QED
    BY <2>3, <2>4 DEF Numbers
<1>4. NextSeq' = b
  <2>1. Max({0} \cup Numbers(rows')) = b - 1
    <3>1. b - 1 \in Nat
      BY <1>0
    <3>. QED
      BY ONLY <1>3, <3>1, TopIs, Zenon
  <2>. QED
    BY <2>1, <1>0 DEF NextSeq, Numbers
<1>5. rows' \subseteq Row /\ (\A r \in rows' : r.id < nextId')
      /\ \A r, q \in rows' : r.seq = q.seq \/ r.id = q.id => r = q
  BY <1>2 DEF RowsInv
<1>6. nextId' \in 1 .. (MaxRows + 1) /\ NextSeq' \in 1 .. nextId'
  BY <1>0, <1>4 DEF RowsInv
<1>7. Numbers(rows)' = 1 .. (NextSeq' - 1)
  BY <1>3, <1>4 DEF Numbers
<1>. QED
  BY <1>4, <1>5, <1>6, <1>7 DEF RowsInv

-----------------------------------------------------------------------------
(* What the items of a view tell of.                                        *)

\* What the items of a view are, and that they tell of known messages.
LEMMA PieceIs ==
  ASSUME NEW i \in Piece
  PROVE  /\ i.kind \in {"todo", "nudge", "row", "summary", "checkpoint"}
         /\ i.kind = "row" => i.row \in Row /\ i = Item(i.row)
         /\ i.kind \in Digests => i.covers \in Known
         /\ Tells(i) \in Known
<1>1. CASE i \in {Reminder, Nudge}
  <2>1. i.kind \in {"todo", "nudge"}
    BY <1>1 DEF Reminder, Nudge
  <2>. QED
    BY <2>1 DEF Digests, Tells, Known
<1>2. CASE \E r \in Row : i = Item(r)
  <2>1. PICK r \in Row : i = Item(r)
    BY <1>2
  <2>2. i.kind = "row" /\ i.row = r
    BY <2>1 DEF Item
  <2>3. r.id \in 1 .. MaxRows
    BY DEF Row
  <2>. QED
    BY <2>1, <2>2, <2>3 DEF Digests, Tells, Known
<1>3. CASE \E S \in Known : i = Summary(S) \/ i = Checkpoint(S)
  <2>1. PICK S \in Known : i = Summary(S) \/ i = Checkpoint(S)
    BY <1>3
  <2>2. i.kind \in {"summary", "checkpoint"} /\ i.covers = S
    BY <2>1 DEF Summary, Checkpoint
  <2>. QED
    BY <2>2 DEF Digests, Tells
<1>. QED
  BY <1>1, <1>2, <1>3 DEF Piece

LEMMA EarlierType ==
  ASSUME NEW v \in Seq(Piece), NEW k
  PROVE  Earlier(v, k) \in Known
<1>1. \A j \in DOMAIN v : v[j] \in Piece
  OBVIOUS
<1>2. \A j \in DOMAIN v : Tells(v[j]) \in Known
  BY <1>1, PieceIs
<1>. QED
  BY <1>2 DEF Earlier, Known

LEMMA EarlierIs ==
  ASSUME NEW v, NEW k, NEW x
  PROVE  x \in Earlier(v, k) <=> \E j \in DOMAIN v : j < k /\ x \in Tells(v[j])
BY DEF Earlier

LEMMA ToldIs ==
  ASSUME NEW v \in Seq(Piece), NEW x
  PROVE  x \in Told(v) <=> \E j \in DOMAIN v : x \in Tells(v[j])
<1>1. \A j \in DOMAIN v : v[j] \in Piece
  OBVIOUS
<1>2. x \in Content(RowsOf(v)) <=> \E j \in DOMAIN v : v[j].kind = "row" /\ v[j].row.role # "tool" /\ x = v[j].row.id
  BY DEF Content, RowsOf, Of, Ids
<1>3. x \in UNION {v[k].covers : k \in Of(v, Digests)} <=> \E j \in DOMAIN v : v[j].kind \in Digests /\ x \in v[j].covers
  BY DEF Of
<1>4. "row" \notin Digests
  BY DEF Digests
<1>5. \A j \in DOMAIN v : x \in Tells(v[j]) <=>
        \/ v[j].kind = "row" /\ v[j].row.role # "tool" /\ x = v[j].row.id
        \/ v[j].kind \in Digests /\ x \in v[j].covers
  BY <1>4 DEF Tells
<1>. QED
  BY <1>2, <1>3, <1>5 DEF Told

LEMMA ToldAll ==
  ASSUME NEW v \in Seq(Piece)
  PROVE  Told(v) = Earlier(v, Len(v) + 1)
<1>1. \A j \in DOMAIN v : j < Len(v) + 1
  OBVIOUS
<1>2. \A x : x \in Told(v) <=> x \in Earlier(v, Len(v) + 1)
  BY <1>1, ToldIs, EarlierIs
<1>. QED
  BY <1>2

LEMMA PartIs ==
  ASSUME NEW v \in Seq(Piece), NEW a \in 0 .. Len(v), NEW b \in a .. Len(v)
  PROVE  /\ SubSeq(v, a + 1, b) \in Seq(Piece) /\ Len(SubSeq(v, a + 1, b)) = b - a
         /\ \A i \in 1 .. (b - a) : SubSeq(v, a + 1, b)[i] = v[a + i]
<1>0. a \in Nat /\ b \in Nat /\ a <= b /\ b <= Len(v) /\ Len(v) \in Nat
  OBVIOUS
<1>1. \A i \in (a + 1) .. b : v[i] \in Piece
  BY <1>0
<1>2. b - (a + 1) + 1 = b - a /\ (\A i \in 1 .. (b - a) : (a + 1) + i - 1 = a + i)
      /\ a + 1 \in Int /\ b \in Int /\ (a + 1 <= b \/ b - a = 0)
  BY <1>0
<1>3. /\ SubSeq(v, a + 1, b) \in Seq(Piece)
      /\ Len(SubSeq(v, a + 1, b)) = IF a + 1 <= b THEN b - (a + 1) + 1 ELSE 0
      /\ \A i \in 1 .. (b - (a + 1) + 1) : SubSeq(v, a + 1, b)[i] = v[(a + 1) + i - 1]
  BY <1>1, <1>2, SubSeqProperties
<1>4. \A i \in 1 .. (b - (a + 1) + 1) : (a + 1) + i - 1 = a + i
  BY <1>2
<1>5. Len(SubSeq(v, a + 1, b)) = b - a
  BY <1>2, <1>3
<1>6. \A i \in 1 .. (b - a) : SubSeq(v, a + 1, b)[i] = v[a + i]
  BY <1>2, <1>3, <1>4
<1>. QED
  BY <1>3, <1>5, <1>6

\* What the items after the a-th up to the b-th tell of.
LEMMA ToldBetween ==
  ASSUME NEW v \in Seq(Piece), NEW a \in 0 .. Len(v), NEW b \in a .. Len(v)
  PROVE  /\ SubSeq(v, a + 1, b) \in Seq(Piece)
         /\ Earlier(v, a + 1) \cup Told(SubSeq(v, a + 1, b)) = Earlier(v, b + 1)
<1>. DEFINE w == SubSeq(v, a + 1, b)
<1>0. a \in Nat /\ b \in Nat /\ a <= b /\ b <= Len(v) /\ Len(v) \in Nat
  OBVIOUS
<1>1. w \in Seq(Piece) /\ Len(w) = b - a /\ \A i \in 1 .. (b - a) : w[i] = v[a + i]
  BY PartIs
<1>. HIDE DEF w
<1>2. \A x : x \in Told(w) <=> \E i \in 1 .. (b - a) : x \in Tells(v[a + i])
  <2>1. \A x : x \in Told(w) <=> \E j \in DOMAIN w : x \in Tells(w[j])
    BY <1>1, ToldIs
  <2>2. DOMAIN w = 1 .. (b - a)
    BY <1>1
  <2>. QED
    BY <1>1, <2>1, <2>2, Zenon
<1>3. \A x : (\E i \in 1 .. (b - a) : x \in Tells(v[a + i])) <=> (\E j \in (a + 1) .. b : x \in Tells(v[j]))
  <2>1. \A i \in 1 .. (b - a) : a + i \in (a + 1) .. b
    BY <1>0
  <2>2. \A j \in (a + 1) .. b : j - a \in 1 .. (b - a) /\ a + (j - a) = j
    BY <1>0
  <2>. QED
    BY <2>1, <2>2
<1>4. \A j : j \in DOMAIN v /\ j < b + 1 <=> (j \in DOMAIN v /\ j < a + 1) \/ j \in (a + 1) .. b
  BY <1>0
<1>5. \A x : x \in Earlier(v, b + 1) <=> x \in Earlier(v, a + 1) \/ x \in Told(w)
  BY <1>2, <1>3, <1>4, EarlierIs
<1>. QED
  BY <1>1, <1>5 DEF w

LEMMA ToldBegin ==
  ASSUME NEW v \in Seq(Piece), NEW b \in 0 .. Len(v)
  PROVE  SubSeq(v, 1, b) \in Seq(Piece) /\ Told(SubSeq(v, 1, b)) = Earlier(v, b + 1)
<1>1. 0 \in 0 .. Len(v) /\ b \in 0 .. Len(v) /\ 0 + 1 = 1
  OBVIOUS
<1>2. Earlier(v, 1) = {}
  <2>1. \A j \in DOMAIN v : ~ (j < 1)
    OBVIOUS
  <2>. QED
    BY <2>1, EarlierIs
<1>3. SubSeq(v, 0 + 1, b) \in Seq(Piece) /\ Earlier(v, 0 + 1) \cup Told(SubSeq(v, 0 + 1, b)) = Earlier(v, b + 1)
  BY <1>1, ToldBetween
<1>. QED
  BY <1>1, <1>2, <1>3

-----------------------------------------------------------------------------
(* Views made of views.                                                     *)

\* The messages of w are messages of v, in their order; if "sole", what stands before
\* one tells of nothing but what stood before it in v, and if "full" of all of that.
Derived(w, v, full, sole) ==
  /\ \E e \in [DOMAIN w -> DOMAIN v] : \A i \in DOMAIN w : w[i].kind = "row" =>
       /\ w[i] = v[e[i]]
       /\ sole => Earlier(w, i) \subseteq Earlier(v, e[i])
       /\ full => Earlier(v, e[i]) \subseteq Earlier(w, i)
       /\ \A j \in DOMAIN w : j < i /\ w[j].kind = "row" => e[j] < e[i]
  /\ Earlier(w, Len(w) + 1) \subseteq Earlier(v, Len(v) + 1)
  /\ full => Earlier(v, Len(v) + 1) \subseteq Earlier(w, Len(w) + 1)

\* A view made from another one by leaving out and digesting: its rows still fit.
LEMMA DerivedRows ==
  ASSUME NEW w, NEW v, NEW full, NEW sole, Derived(w, v, full, sole), NEW S, NEW n,
         RowsFit(v, S, n)
  PROVE  RowsFit(w, S, n)
<1>1. PICK e \in [DOMAIN w -> DOMAIN v] : \A i \in DOMAIN w : w[i].kind = "row" =>
         /\ w[i] = v[e[i]]
         /\ \A j \in DOMAIN w : j < i /\ w[j].kind = "row" => e[j] < e[i]
  BY DEF Derived
<1>2. \A i \in DOMAIN w : e[i] \in DOMAIN v
  BY <1>1
<1>. QED
  BY <1>1, <1>2 DEF RowsFit

\* And what stands before each still tells of all that was before it.
LEMMA DerivedTells ==
  ASSUME NEW w, NEW v, NEW full \in BOOLEAN, NEW sole \in BOOLEAN, Derived(w, v, full, sole),
         NEW S, NEW n, NEW c, NEW d,
         d.whole => c.whole /\ full, c.again \/ ~sole => d.again
  PROVE  /\ TellsFit(v, c, S, n) => TellsFit(w, d, S, n)
         /\ TellsAll(v, c, S) => TellsAll(w, d, S)
<1>1. PICK e \in [DOMAIN w -> DOMAIN v] : \A i \in DOMAIN w : w[i].kind = "row" =>
         /\ w[i] = v[e[i]]
         /\ sole => Earlier(w, i) \subseteq Earlier(v, e[i])
         /\ full => Earlier(v, e[i]) \subseteq Earlier(w, i)
  BY DEF Derived
<1>2. \A i \in DOMAIN w : e[i] \in DOMAIN v
  BY <1>1
<1>3. ASSUME TellsFit(v, c, S, n), NEW k \in DOMAIN w, w[k].kind = "row", w[k].row.seq < n
      PROVE  Accounts(d, Content(Before(S, w[k].row.seq)), Earlier(w, k))
  <2>1. Accounts(c, Content(Before(S, w[k].row.seq)), Earlier(v, e[k]))
    BY <1>1, <1>2, <1>3 DEF TellsFit
  <2>. QED
    BY <1>1, <1>3, <2>1 DEF Accounts
<1>4. TellsAll(v, c, S) => TellsAll(w, d, S)
  BY DEF Derived, TellsAll, Accounts
<1>. QED
  BY <1>3, <1>4 DEF TellsFit

\* Some items of v, in their order.
Picks(w, v, e) ==
  /\ e \in [DOMAIN w -> DOMAIN v]
  /\ \A i \in DOMAIN w : w[i] = v[e[i]] /\ \A j \in DOMAIN w : j < i => e[j] < e[i]

\* Leaving items out is one way.
LEMMA PicksDerived ==
  ASSUME NEW w \in Seq(Piece), NEW v \in Seq(Piece), NEW e, Picks(w, v, e)
  PROVE  Derived(w, v, FALSE, TRUE) /\ (Leading(v) => Leading(w))
<1>1. \A i \in DOMAIN w : e[i] \in DOMAIN v
  BY DEF Picks
<1>2. ASSUME NEW i \in DOMAIN w, NEW x, x \in Earlier(w, i) PROVE x \in Earlier(v, e[i])
  <2>1. PICK j \in DOMAIN w : j < i /\ x \in Tells(w[j])
    BY <1>2, EarlierIs
  <2>2. e[j] \in DOMAIN v /\ e[j] < e[i] /\ x \in Tells(v[e[j]])
    BY <1>1, <2>1 DEF Picks
  <2>. QED
    BY <2>2, EarlierIs
<1>3. ASSUME NEW x, x \in Earlier(w, Len(w) + 1) PROVE x \in Earlier(v, Len(v) + 1)
  <2>1. PICK j \in DOMAIN w : x \in Tells(w[j])
    BY <1>3, EarlierIs
  <2>2. e[j] \in DOMAIN v /\ e[j] < Len(v) + 1 /\ x \in Tells(v[e[j]])
    BY <1>1, <2>1 DEF Picks
  <2>. QED
    BY <2>2, EarlierIs
<1>4. Derived(w, v, FALSE, TRUE)
  BY <1>2, <1>3 DEF Picks, Derived
<1>5. Leading(v) => Leading(w)
  BY <1>1 DEF Picks, Leading
<1>. QED
  BY <1>4, <1>5

LEMMA DerivedSame ==
  ASSUME NEW v \in Seq(Piece)
  PROVE  Derived(v, v, TRUE, TRUE)
<1>1. [i \in DOMAIN v |-> i] \in [DOMAIN v -> DOMAIN v] /\ \A i \in DOMAIN v : [j \in DOMAIN v |-> j][i] = i
  OBVIOUS
<1>. QED
  BY <1>1 DEF Derived

-----------------------------------------------------------------------------
(* Items that a digest takes the place of.                                  *)

\* A digest in the place of the items after the a-th up to the b-th.
Digested(w, v, a, b, d) ==
  /\ w \in Seq(Piece) /\ Len(w) = a + 1 + Len(v) - b
  /\ \A i \in 1 .. a : w[i] = v[i]
  /\ w[a + 1] = d
  /\ \A i \in (a + 2) .. Len(w) : w[i] = v[b + i - (a + 1)]

LEMMA DigestedIs ==
  ASSUME NEW v \in Seq(Piece), NEW a \in 0 .. Len(v), NEW b \in a .. Len(v), NEW d \in Piece
  PROVE  Digested(SubSeq(v, 1, a) \o <<d>> \o SubSeq(v, b + 1, Len(v)), v, a, b, d)
<1>. DEFINE n == Len(v)
            h == SubSeq(v, 1, a)
            t == SubSeq(v, b + 1, n)
            w == h \o <<d>> \o t
<1>0. a \in Nat /\ b \in Nat /\ n \in Nat /\ a <= b /\ b <= n
  OBVIOUS
<1>1. h \in Seq(Piece) /\ Len(h) = a /\ \A i \in 1 .. a : h[i] = v[i]
  <2>1. 0 \in 0 .. n /\ a \in 0 .. n /\ 0 + 1 = 1 /\ a - 0 = a /\ \A i \in 1 .. a : 0 + i = i
    BY <1>0
  <2>2. /\ SubSeq(v, 0 + 1, a) \in Seq(Piece) /\ Len(SubSeq(v, 0 + 1, a)) = a - 0
        /\ \A i \in 1 .. (a - 0) : SubSeq(v, 0 + 1, a)[i] = v[0 + i]
    BY <2>1, PartIs
  <2>. QED
    BY <2>1, <2>2
<1>2. t \in Seq(Piece) /\ Len(t) = n - b /\ \A i \in 1 .. (n - b) : t[i] = v[b + i]
  <2>1. b \in 0 .. n /\ n \in b .. n
    BY <1>0
  <2>. QED
    BY <2>1, PartIs
<1>. HIDE DEF h, t
<1>3. w \in Seq(Piece) /\ Len(w) = a + 1 + n - b
  <2>1. <<d>> \in Seq(Piece) /\ Len(<<d>>) = 1
    OBVIOUS
  <2>2. h \o <<d>> \in Seq(Piece) /\ Len(h \o <<d>>) = a + 1
    BY <1>1, <2>1, ConcatProperties
  <2>3. w \in Seq(Piece) /\ Len(w) = Len(h \o <<d>>) + Len(t)
    BY <1>2, <2>2, ConcatProperties
  <2>. QED
    BY <1>0, <1>2, <2>2, <2>3
<1>4. \A i \in 1 .. a : w[i] = v[i]
  BY <1>0, <1>1, <1>2
<1>5. w[a + 1] = d
  BY <1>0, <1>1, <1>2
<1>6. ASSUME NEW i \in (a + 2) .. Len(w) PROVE w[i] = v[b + i - (a + 1)]
  <2>1. w[i] = t[i - (a + 1)] /\ i - (a + 1) \in 1 .. (n - b)
    BY <1>0, <1>1, <1>2, <1>3
  <2>2. b + (i - (a + 1)) = b + i - (a + 1)
    BY <1>0, <1>3
  <2>. QED
    BY <1>2, <2>1, <2>2
<1>. HIDE DEF w
<1>7. Digested(w, v, a, b, d)
  BY <1>3, <1>4, <1>5, <1>6 DEF Digested
<1>. QED
  BY <1>7 DEF w, h, t

LEMMA DigestedTells ==
  ASSUME NEW v \in Seq(Piece), NEW a \in 0 .. Len(v), NEW b \in a .. Len(v), NEW d \in Piece,
         NEW w, Digested(w, v, a, b, d), d.kind \in Digests, d.covers = Told(SubSeq(v, a + 1, b))
  PROVE  /\ \A i \in 1 .. (a + 1) : Earlier(w, i) = Earlier(v, i)
         /\ \A i \in (a + 2) .. (Len(w) + 1) : Earlier(w, i) = Earlier(v, b + i - (a + 1))
<1>. DEFINE n == Len(v)
<1>0. a \in Nat /\ b \in Nat /\ n \in Nat /\ a <= b /\ b <= n /\ Len(w) = a + 1 + n - b
  BY DEF Digested
<1>1. DOMAIN w = 1 .. (a + 1 + n - b) /\ DOMAIN v = 1 .. n
  BY <1>0 DEF Digested
<1>2. ASSUME NEW i \in 1 .. (a + 1) PROVE Earlier(w, i) = Earlier(v, i)
  <2>1. \A j : j \in DOMAIN w /\ j < i <=> j \in DOMAIN v /\ j < i
    BY <1>0, <1>1
  <2>2. \A j \in DOMAIN v : j < i => w[j] = v[j]
    <3>1. \A j \in DOMAIN v : j < i => j \in 1 .. a
      BY <1>0, <1>1
    <3>. QED
      BY <3>1 DEF Digested
  <2>3. \A x : x \in Earlier(w, i) <=> x \in Earlier(v, i)
    BY <2>1, <2>2, EarlierIs
  <2>. QED
    BY <2>3
<1>3. Tells(d) = Told(SubSeq(v, a + 1, b))
  <2>1. d.kind # "row"
    BY DEF Digests
  <2>. QED
    BY <2>1 DEF Tells
<1>4. Earlier(v, a + 1) \cup Tells(d) = Earlier(v, b + 1)
  BY <1>3, ToldBetween
<1>5. ASSUME NEW i \in (a + 2) .. (Len(w) + 1) PROVE Earlier(w, i) = Earlier(v, b + i - (a + 1))
  <2>. DEFINE k == b + i - (a + 1)
  <2>1. \A x : x \in Earlier(w, i) <=>
          \/ x \in Earlier(w, a + 1)
          \/ x \in Tells(w[a + 1])
          \/ \E j \in (a + 2) .. (i - 1) : x \in Tells(w[j])
    <3>1. \A j : j \in DOMAIN w /\ j < i <=>
            (j \in DOMAIN w /\ j < a + 1) \/ j = a + 1 \/ j \in (a + 2) .. (i - 1)
      BY <1>0, <1>1
    <3>. QED
      BY <3>1, EarlierIs
  <2>2. \A x : x \in Earlier(v, k) <=> x \in Earlier(v, b + 1) \/ \E j \in (b + 1) .. (k - 1) : x \in Tells(v[j])
    <3>1. \A j : j \in DOMAIN v /\ j < k <=> (j \in DOMAIN v /\ j < b + 1) \/ j \in (b + 1) .. (k - 1)
      BY <1>0, <1>1
    <3>. QED
      BY <3>1, EarlierIs
  <2>3. \A x : (\E j \in (a + 2) .. (i - 1) : x \in Tells(w[j])) <=> (\E j \in (b + 1) .. (k - 1) : x \in Tells(v[j]))
    <3>1. \A j \in (a + 2) .. (i - 1) : b + j - (a + 1) \in (b + 1) .. (k - 1) /\ w[j] = v[b + j - (a + 1)]
      <4>1. \A j \in (a + 2) .. (i - 1) : b + j - (a + 1) \in (b + 1) .. (k - 1) /\ j \in (a + 2) .. Len(w)
        BY <1>0
      <4>. QED
        BY <4>1 DEF Digested
    <3>2. \A j \in (b + 1) .. (k - 1) : \E l \in (a + 2) .. (i - 1) : j = b + l - (a + 1)
      <4>1. \A j \in (b + 1) .. (k - 1) : j - b + (a + 1) \in (a + 2) .. (i - 1) /\ j = b + (j - b + (a + 1)) - (a + 1)
        BY <1>0
      <4>. QED
        BY <4>1
    <3>. QED
      BY <3>1, <3>2
  <2>4. Earlier(w, a + 1) = Earlier(v, a + 1) /\ w[a + 1] = d
    BY <1>0, <1>2 DEF Digested
  <2>5. \A x : x \in Earlier(w, i) <=> x \in Earlier(v, k)
    BY <1>4, <2>1, <2>2, <2>3, <2>4
  <2>. QED
    BY <2>5
<1>. QED
  BY <1>2, <1>5

\* To put a digest in the place of a stretch is another.
LEMMA DigestedDerived ==
  ASSUME NEW v \in Seq(Piece), Len(v) > 0, NEW a \in 0 .. Len(v), NEW b \in a .. Len(v), NEW d \in Piece,
         NEW w, Digested(w, v, a, b, d), d.kind \in Digests, d.covers = Told(SubSeq(v, a + 1, b))
  PROVE  Derived(w, v, TRUE, TRUE)
<1>. DEFINE n == Len(v)
            at(i) == IF i <= a THEN i ELSE IF i = a + 1 THEN 1 ELSE b + i - (a + 1)
            e == [i \in DOMAIN w |-> at(i)]
<1>0. a \in Nat /\ b \in Nat /\ n \in Nat /\ a <= b /\ b <= n /\ n > 0 /\ Len(w) = a + 1 + n - b
  BY DEF Digested
<1>1. DOMAIN w = 1 .. (a + 1 + n - b) /\ DOMAIN v = 1 .. n
  BY <1>0 DEF Digested
<1>2. e \in [DOMAIN w -> DOMAIN v]
  <2>1. \A i \in DOMAIN w : at(i) \in DOMAIN v
    BY <1>0, <1>1
  <2>. QED
    BY <2>1
<1>3. \A i \in DOMAIN w : e[i] = at(i)
  OBVIOUS
<1>. HIDE DEF e
<1>4. ASSUME NEW i \in DOMAIN w, w[i].kind = "row"
      PROVE  w[i] = v[e[i]] /\ Earlier(w, i) = Earlier(v, e[i])
  <2>1. i # a + 1
    <3>1. w[a + 1] = d /\ "row" \notin Digests
      BY DEF Digested, Digests
    <3>. QED
      BY <3>1, <1>4
  <2>2. CASE i <= a
    <3>1. i \in 1 .. a /\ i \in 1 .. (a + 1) /\ e[i] = i
      BY <1>0, <1>1, <1>3, <2>2
    <3>2. Earlier(w, i) = Earlier(v, i)
      BY <3>1, DigestedTells
    <3>3. w[i] = v[i]
      BY <3>1 DEF Digested
    <3>. QED
      BY <3>1, <3>2, <3>3
  <2>3. CASE i > a + 1
    <3>1. i \in (a + 2) .. Len(w) /\ i \in (a + 2) .. (Len(w) + 1) /\ e[i] = b + i - (a + 1)
      BY <1>0, <1>1, <1>3, <2>3
    <3>2. w[i] = v[b + i - (a + 1)]
      BY <3>1 DEF Digested
    <3>3. Earlier(w, i) = Earlier(v, b + i - (a + 1))
      BY <3>1, DigestedTells
    <3>. QED
      BY <3>1, <3>2, <3>3
  <2>. QED
    BY <1>0, <1>1, <2>1, <2>2, <2>3
<1>5. ASSUME NEW i \in DOMAIN w, w[i].kind = "row", NEW j \in DOMAIN w, j < i, w[j].kind = "row"
      PROVE  e[j] < e[i]
  <2>1. i # a + 1 /\ j # a + 1
    <3>1. w[a + 1] = d /\ "row" \notin Digests
      BY DEF Digested, Digests
    <3>. QED
      BY <3>1, <1>5
  <2>2. e[j] = at(j) /\ e[i] = at(i)
    BY <1>3
  <2>. QED
    BY <1>0, <1>1, <1>5, <2>1, <2>2
<1>6. Earlier(w, Len(w) + 1) = Earlier(v, n + 1)
  <2>1. Len(w) + 1 \in (a + 2) .. (Len(w) + 1) /\ b + (Len(w) + 1) - (a + 1) = n + 1
    BY <1>0
  <2>2. Earlier(w, Len(w) + 1) = Earlier(v, b + (Len(w) + 1) - (a + 1))
    BY <2>1, DigestedTells
  <2>. QED
    BY <2>1, <2>2
<1>. QED
  BY <1>2, <1>4, <1>5, <1>6 DEF Derived

-----------------------------------------------------------------------------
(* Messages stored and deleted beside a view.                               *)

ViewRowType(v) == \A k \in DOMAIN v : v[k].kind = "row" => v[k].row \in Row

LEMMA RowPieces ==
  ASSUME NEW v \in Seq(Piece)
  PROVE  ViewRowType(v)
<1>1. \A k \in DOMAIN v : v[k] \in Piece
  OBVIOUS
<1>. QED
  BY <1>1, PieceIs DEF ViewRowType

\* A message m behind those of S.
Behind(S, m) == S \subseteq Row /\ m \in Row /\ \A q \in S : q.seq < m.seq

\* A message stored behind all others changes what is before none of them.
LEMMA ContentMore ==
  ASSUME NEW S, NEW m, Behind(S, m)
  PROVE  /\ \A n \in Nat : n <= m.seq => Before(S \cup {m}, n) = Before(S, n)
         /\ Before(S \cup {m}, m.seq) = S
         /\ Content(S \cup {m}) = Content(S) \cup Tells(Item(m))
<1>1. m.seq \in Nat /\ \A q \in S : q.seq \in Nat /\ q.seq < m.seq
  BY DEF Behind, Row
<1>2. ASSUME NEW n \in Nat, n <= m.seq PROVE Before(S \cup {m}, n) = Before(S, n)
  <2>1. ~ (m.seq < n)
    BY <1>1, <1>2
  <2>2. \A q : q \in Before(S \cup {m}, n) <=> q \in Before(S, n)
    BY <2>1 DEF Before
  <2>. QED
    BY <2>2
<1>3. Before(S \cup {m}, m.seq) = S
  <2>1. ~ (m.seq < m.seq)
    BY <1>1
  <2>2. \A q : q \in Before(S \cup {m}, m.seq) <=> q \in S
    BY <1>1, <2>1 DEF Before
  <2>. QED
    BY <2>2
<1>4. \A x : x \in Content(S \cup {m}) <=> x \in Content(S) \/ x \in Tells(Item(m))
  BY DEF Content, Ids, Tells, Item
<1>. QED
  BY <1>2, <1>3, <1>4

\* So a view that fits the rows fits them when one more is stored.
LEMMA StoredFits ==
  ASSUME NEW v \in Seq(Piece), NEW S, NEW m, Behind(S, m), NEW n, NEW c, RowsFit(v, S, n)
  PROVE  /\ RowsFit(v, S \cup {m}, n)
         /\ TellsFit(v, c, S, n) => TellsFit(v, c, S \cup {m}, n)
         /\ m.role = "tool" /\ TellsAll(v, c, S) => TellsAll(v, c, S \cup {m})
<1>0. /\ \A j \in Nat : j <= m.seq => Before(S \cup {m}, j) = Before(S, j)
      /\ Content(S \cup {m}) = Content(S) \cup Tells(Item(m))
  BY ContentMore
<1>1. RowsFit(v, S \cup {m}, n)
  BY DEF RowsFit
<1>2. ASSUME TellsFit(v, c, S, n), NEW k \in DOMAIN v, v[k].kind = "row", v[k].row.seq < n
      PROVE  Accounts(c, Content(Before(S \cup {m}, v[k].row.seq)), Earlier(v, k))
  <2>1. v[k].row.seq \in Nat /\ v[k].row.seq < m.seq /\ m.seq \in Nat
    <3>1. v[k].row \in S
      BY <1>2 DEF RowsFit
    <3>2. \A q \in S : q.seq \in Nat /\ q.seq < m.seq /\ m.seq \in Nat
      BY DEF Behind, Row
    <3>. QED
      BY <3>1, <3>2
  <2>2. v[k].row.seq <= m.seq
    BY <2>1
  <2>3. Before(S \cup {m}, v[k].row.seq) = Before(S, v[k].row.seq)
    BY <1>0, <2>1, <2>2
  <2>. QED
    BY <1>2, <2>3 DEF TellsFit
<1>3. ASSUME m.role = "tool", TellsAll(v, c, S) PROVE TellsAll(v, c, S \cup {m})
  <2>1. Tells(Item(m)) = {}
    <3>1. Item(m).kind = "row" /\ Item(m).row = m
      BY DEF Item
    <3>. QED
      BY <1>3, <3>1 DEF Tells
  <2>2. Content(S \cup {m}) = Content(S)
    BY <1>0, <2>1
  <2>. QED
    BY <1>3, <2>2 DEF TellsAll
<1>. QED
  BY <1>1, <1>2, <1>3 DEF TellsFit

\* And it fits those an undo leaves, as far as the undo took nothing of it.
LEMMA CutFits ==
  ASSUME NEW v, NEW S, S \subseteq Row, NEW b \in Nat, NEW n \in Nat, NEW l \in Nat, l <= n, l <= b,
         NEW c, RowsFit(v, S, n), ViewRowType(v)
  PROVE  /\ RowsFit(v, S \ From(S, b), l)
         /\ TellsFit(v, c, S, n) => TellsFit(v, c, S \ From(S, b), l)
<1>1. \A k \in DOMAIN v : v[k].kind = "row" /\ v[k].row.seq < l =>
        v[k].row.seq \in Nat /\ v[k].row.seq < n /\ v[k].row.seq < b
  BY DEF ViewRowType, Row
<1>2. RowsFit(v, S \ From(S, b), l)
  <2>1. \A q \in S : q.seq < b /\ q.seq \in Nat => q \notin From(S, b)
    BY DEF From
  <2>. QED
    BY <1>1, <2>1 DEF RowsFit
<1>3. ASSUME NEW k \in Nat, k < b PROVE Before(S \ From(S, b), k) = Before(S, k)
  <2>1. \A q \in S : q.seq < k => q \notin From(S, b)
    BY <1>3 DEF From, Row
  <2>2. \A q : q \in Before(S \ From(S, b), k) <=> q \in Before(S, k)
    BY <2>1 DEF Before
  <2>. QED
    BY <2>2
<1>. QED
  BY <1>1, <1>2, <1>3 DEF TellsFit

-----------------------------------------------------------------------------
(* Messages appended to a view.                                             *)

LEMMA AppendedTells ==
  ASSUME NEW v \in Seq(Piece), NEW i \in Piece
  PROVE  LET w == v \o <<i>> IN
         /\ w \in Seq(Piece) /\ Len(w) = Len(v) + 1 /\ w[Len(v) + 1] = i
         /\ \A k \in DOMAIN v : w[k] = v[k]
         /\ \A k \in 1 .. (Len(v) + 1) : Earlier(w, k) = Earlier(v, k)
         /\ Earlier(w, Len(w) + 1) = Earlier(v, Len(v) + 1) \cup Tells(i)
<1>. DEFINE w == v \o <<i>>
            n == Len(v)
<1>1. n \in Nat /\ w \in Seq(Piece) /\ Len(w) = n + 1 /\ w[n + 1] = i /\ \A k \in 1 .. n : w[k] = v[k]
  OBVIOUS
<1>2. DOMAIN v = 1 .. n /\ DOMAIN w = 1 .. (n + 1)
  BY <1>1
<1>. HIDE DEF w
<1>3. ASSUME NEW k \in 1 .. (n + 1) PROVE Earlier(w, k) = Earlier(v, k)
  <2>1. \A j : j \in DOMAIN w /\ j < k <=> j \in DOMAIN v /\ j < k
    BY <1>1, <1>2
  <2>2. \A x : x \in Earlier(w, k) <=> x \in Earlier(v, k)
    BY <1>1, <1>2, <2>1, EarlierIs
  <2>. QED
    BY <2>2
<1>4. Earlier(w, Len(w) + 1) = Earlier(v, n + 1) \cup Tells(i)
  <2>1. \A j : j \in DOMAIN w /\ j < Len(w) + 1 <=> (j \in DOMAIN v /\ j < n + 1) \/ j = n + 1
    BY <1>1, <1>2
  <2>2. \A x : x \in Earlier(w, Len(w) + 1) <=> x \in Earlier(v, n + 1) \/ x \in Tells(i)
    BY <1>1, <1>2, <2>1, EarlierIs
  <2>. QED
    BY <2>2
<1>. QED
  BY <1>1, <1>2, <1>3, <1>4 DEF w

LEMMA NudgedFits ==
  ASSUME NEW v \in Seq(Piece), NEW S, NEW n, NEW c, RowsFit(v, S, n)
  PROVE  LET w == v \o <<Nudge>> IN
         /\ w \in Seq(Piece) /\ RowsFit(w, S, n) /\ (Ordered(v) => Ordered(w))
         /\ TellsFit(v, c, S, n) => TellsFit(w, c, S, n)
         /\ TellsAll(v, c, S) => TellsAll(w, c, S)
<1>. DEFINE w == v \o <<Nudge>>
            n1 == Len(v) + 1
<1>1. Nudge \in Piece /\ Nudge.kind = "nudge" /\ Tells(Nudge) = {}
  BY DEF Piece, Nudge, Tells, Digests
<1>2. /\ w \in Seq(Piece) /\ Len(w) = n1 /\ w[n1] = Nudge
      /\ \A k \in DOMAIN v : w[k] = v[k]
      /\ \A k \in 1 .. n1 : Earlier(w, k) = Earlier(v, k)
      /\ Earlier(w, Len(w) + 1) = Earlier(v, n1) \cup Tells(Nudge)
  BY <1>1, AppendedTells
<1>3. n1 \in Nat /\ DOMAIN v = 1 .. (n1 - 1) /\ DOMAIN w = (DOMAIN v) \cup {n1}
  BY <1>2
<1>. HIDE DEF w, n1
<1>. DEFINE kinds == {"row", "todo", "summary", "checkpoint"}
<1>4. \A k \in DOMAIN w : w[k].kind \in kinds => k \in DOMAIN v /\ w[k] = v[k] /\ k \in 1 .. n1
                          /\ \A j \in DOMAIN w : j < k => j \in DOMAIN v /\ w[j] = v[j]
  <2>1. \A k \in DOMAIN w : w[k].kind \in kinds => k \in DOMAIN v
    BY <1>1, <1>2, <1>3
  <2>. QED
    BY <1>2, <1>3, <2>1
<1>5. RowsFit(w, S, n)
  BY <1>4 DEF RowsFit
<1>6. Ordered(v) => Ordered(w)
  <2>1. Leading(v) => Leading(w)
    BY <1>4 DEF Leading, Leads
  <2>2. ASSUME Marked(v), NEW j \in DOMAIN w, NEW k \in DOMAIN w, Lasts(w, j), j < k,
               w[k].kind = "checkpoint"
        PROVE  k = j + 1
    <3>1. j \in DOMAIN v /\ k \in DOMAIN v /\ w[j] = v[j] /\ v[k].kind = "checkpoint"
      BY <1>4, <2>2 DEF Lasts, IsRow
    <3>2. Lasts(v, j)
      BY <1>2, <1>3, <2>2, <3>1 DEF Lasts, IsRow
    <3>. QED
      BY <2>2, <3>1, <3>2 DEF Marked
  <2>. QED
    BY <2>1, <2>2 DEF Ordered, Marked
<1>7. TellsFit(v, c, S, n) => TellsFit(w, c, S, n)
  BY <1>2, <1>4 DEF TellsFit
<1>8. TellsAll(v, c, S) => TellsAll(w, c, S)
  <2>1. Earlier(w, Len(w) + 1) = Earlier(v, Len(v) + 1)
    BY <1>1, <1>2 DEF n1
  <2>. QED
    BY <2>1 DEF TellsAll
<1>. QED
  BY <1>2, <1>5, <1>6, <1>7, <1>8 DEF w

\* A message that is stored and put at the end of the view fits.
LEMMA SaidFits ==
  ASSUME NEW v \in Seq(Piece), NEW S, NEW m, Behind(S, m), NEW n \in Nat, n = NoCut \/ n <= m.seq,
         NEW c, RowsFit(v, S, n)
  PROVE  LET w == v \o <<Item(m)>> IN
         /\ w \in Seq(Piece) /\ Len(w) = Len(v) + 1 /\ w[Len(w)] = Item(m)
         /\ RowsFit(w, S \cup {m}, n) /\ (Ordered(v) => Ordered(w))
         /\ TellsFit(v, c, S, n) /\ (n = NoCut => TellsAll(v, c, S)) => TellsFit(w, c, S \cup {m}, n)
         /\ TellsAll(v, c, S) => TellsAll(w, c, S \cup {m})
<1>. DEFINE w == v \o <<Item(m)>>
            n1 == Len(v) + 1
            T == S \cup {m}
<1>1. Item(m) \in Piece /\ Item(m).kind = "row" /\ Item(m).row = m /\ m \in Row
  BY DEF Piece, Item, Behind
<1>2. /\ w \in Seq(Piece) /\ Len(w) = n1 /\ w[n1] = Item(m)
      /\ \A k \in DOMAIN v : w[k] = v[k]
      /\ \A k \in 1 .. n1 : Earlier(w, k) = Earlier(v, k)
      /\ Earlier(w, Len(w) + 1) = Earlier(v, n1) \cup Tells(Item(m))
  BY <1>1, AppendedTells
<1>3. n1 \in Nat /\ DOMAIN v = 1 .. (n1 - 1) /\ DOMAIN w = (DOMAIN v) \cup {n1} /\ DOMAIN v \subseteq 1 .. n1
  BY <1>2
<1>4. /\ RowsFit(v, T, n)
      /\ TellsFit(v, c, S, n) => TellsFit(v, c, T, n)
  BY StoredFits
<1>. HIDE DEF w, n1
<1>5. \A k \in DOMAIN v : v[k].kind = "row" => v[k].row.seq \in 1 .. MaxRows
  BY RowPieces DEF ViewRowType, Row
<1>6. ASSUME m.seq < n PROVE n = NoCut /\ \A k \in DOMAIN v : v[k].kind = "row" => v[k].row.seq < m.seq
  <2>1. n = NoCut
    BY <1>1, <1>6 DEF Row
  <2>2. \A k \in DOMAIN v : v[k].kind = "row" => v[k].row.seq < n
    BY <1>5, <2>1, HistoryAssumption DEF NoCut
  <2>. QED
    BY <2>1, <2>2 DEF RowsFit, Behind
<1>7. RowsFit(w, T, n)
  <2>. SUFFICES ASSUME NEW k \in DOMAIN w, w[k].kind = "row", w[k].row.seq < n
                PROVE  /\ w[k].row \in T
                       /\ \A j \in DOMAIN w : j < k /\ w[j].kind = "row" => w[j].row.seq < w[k].row.seq
    BY DEF RowsFit
  <2>1. CASE k \in DOMAIN v
    <3>1. \A j \in DOMAIN w : j < k => j \in DOMAIN v /\ w[j] = v[j]
      BY <1>2, <1>3, <2>1
    <3>. QED
      BY <1>2, <1>4, <2>1, <3>1 DEF RowsFit
  <2>2. CASE k = n1
    <3>1. w[k].row = m /\ m.seq < n
      BY <1>1, <1>2, <2>2
    <3>2. \A j \in DOMAIN w : j < k => j \in DOMAIN v /\ w[j] = v[j]
      BY <1>2, <1>3, <2>2
    <3>. QED
      BY <1>6, <3>1, <3>2
  <2>. QED
    BY <1>3, <2>1, <2>2
<1>8. Ordered(v) => Ordered(w)
  <2>1. w[n1].kind \notin Leads
    BY <1>1, <1>2 DEF Leads
  <2>2. \A k \in DOMAIN w : k # n1 => k \in DOMAIN v /\ w[k] = v[k] /\ \A j \in DOMAIN w : j < k => j \in DOMAIN v /\ w[j] = v[j]
    BY <1>2, <1>3
  <2>3. Leading(v) => Leading(w)
    BY <2>1, <2>2 DEF Leading
  <2>4. ASSUME Marked(v), NEW j \in DOMAIN w, NEW k \in DOMAIN w, Lasts(w, j), j < k,
               w[k].kind = "checkpoint"
        PROVE  k = j + 1
    <3>1. k # n1
      BY <1>1, <1>2, <2>4
    <3>2. j \in DOMAIN v /\ k \in DOMAIN v /\ w[j] = v[j] /\ v[k].kind = "checkpoint"
      BY <2>2, <2>4, <3>1
    <3>3. Lasts(v, j)
      BY <1>2, <1>3, <2>4, <3>2 DEF Lasts, IsRow
    <3>. QED
      BY <2>4, <3>2, <3>3 DEF Marked
  <2>. QED
    BY <2>3, <2>4 DEF Ordered, Marked
<1>9. ASSUME TellsFit(v, c, S, n), n = NoCut => TellsAll(v, c, S) PROVE TellsFit(w, c, T, n)
  <2>. SUFFICES ASSUME NEW k \in DOMAIN w, w[k].kind = "row", w[k].row.seq < n
                PROVE  Accounts(c, Content(Before(T, w[k].row.seq)), Earlier(w, k))
    BY DEF TellsFit
  <2>1. CASE k \in DOMAIN v
    BY <1>2, <1>3, <1>4, <1>9, <2>1 DEF TellsFit
  <2>2. CASE k = n1
    <3>1. w[k].row = m /\ m.seq < n /\ Earlier(w, k) = Earlier(v, n1)
      BY <1>1, <1>2, <1>3, <2>2
    <3>2. TellsAll(v, c, S)
      BY <1>6, <1>9, <3>1
    <3>3. Before(T, m.seq) = S
      BY ContentMore
    <3>. QED
      BY <3>1, <3>2, <3>3 DEF TellsAll, n1
  <2>. QED
    BY <1>3, <2>1, <2>2
<1>10. ASSUME TellsAll(v, c, S) PROVE TellsAll(w, c, T)
  <2>1. Earlier(w, Len(w) + 1) = Earlier(v, Len(v) + 1) \cup Tells(Item(m))
    BY <1>2 DEF n1
  <2>2. Content(T) = Content(S) \cup Tells(Item(m))
    BY ContentMore
  <2>. QED
    BY <1>10, <2>1, <2>2 DEF TellsAll, Accounts
<1>. QED
  BY <1>2, <1>7, <1>8, <1>9, <1>10 DEF w, n1

-----------------------------------------------------------------------------
(* Items chosen by their places.                                            *)

Nth(g, f, K, k) ==
  IF k = 0 THEN <<>> ELSE IF k \in K THEN Append(g[k - 1], f[k]) ELSE g[k - 1]

\* Chosen as the sequence of its partial results.
LEMMA ChosenLoop ==
  ASSUME NEW n \in Nat, NEW K, NEW f, \A k \in 1 .. n : k \in K => f[k] \in Piece
  PROVE  \E g \in [0 .. n -> Seq(Piece)] :
           Chosen(f, K, n) = g[n] /\ \A k \in 0 .. n : g[k] = Nth(g, f, K, k)
<1>. DEFINE G == [k \in 1 .. n |-> [s \in Seq(Piece) |-> IF k \in K THEN Append(s, f[k]) ELSE s]]
            Through(g) == g = [k \in 0 .. n |-> Nth(g, f, K, k)]
<1>1. PICK h : Looped(n, Seq(Piece), <<>>, G, h)
  <2>1. G \in [1 .. n -> [Seq(Piece) -> Seq(Piece)]]
    OBVIOUS
  <2>2. <<>> \in Seq(Piece)
    OBVIOUS
  <2>. HIDE DEF G
  <2>. QED
    BY <2>1, <2>2, LoopExists
<1>2. h \in [0 .. n -> Seq(Piece)]
  BY <1>1 DEF Looped
<1>3. \A k \in 0 .. n : h[k] = Nth(h, f, K, k)
  <2>. SUFFICES ASSUME NEW k \in 0 .. n PROVE h[k] = Nth(h, f, K, k)
    OBVIOUS
  <2>1. CASE k = 0
    BY <1>1, <2>1 DEF Looped, Nth
  <2>2. CASE k # 0
    <3>1. k \in 1 .. n /\ k - 1 \in 0 .. n
      BY <2>2
    <3>2. h[k - 1] \in Seq(Piece)
      BY ONLY <1>2, <3>1
    <3>3. h[k] = G[k][h[k - 1]]
      BY <1>1, <3>1 DEF Looped
    <3>. QED
      BY <2>2, <3>1, <3>2, <3>3 DEF Nth
  <2>. QED
    BY <2>1, <2>2
<1>4. Through(h)
  <2>. DEFINE g == [k \in 0 .. n |-> Nth(h, f, K, k)]
  <2>1. h = [k \in 0 .. n |-> h[k]]
    BY <1>2
  <2>2. \A k \in 0 .. n : g[k] = h[k]
    BY <1>3
  <2>3. g = [k \in 0 .. n |-> g[k]]
    OBVIOUS
  <2>4. h = g
    <3>. HIDE DEF g
    <3>. QED
      BY <2>1, <2>2, <2>3
  <2>. QED
    BY <2>4
<1>. DEFINE upTo == CHOOSE g : Through(g)
<1>5. Through(upTo)
  <2>. HIDE DEF Through
  <2>. QED
    BY <1>4
<1>6. Chosen(f, K, n) = upTo[n]
  BY DEF Chosen, Nth
<1>. HIDE DEF upTo
<1>7. \A k \in 0 .. n : upTo[k] = Nth(upTo, f, K, k)
  BY <1>5
<1>8. \A k \in 0 .. n : upTo[k] = h[k]
  <2>. DEFINE U == {k \in 0 .. n : upTo[k] = h[k]}
  <2>1. 0 \in U
    BY <1>3, <1>7 DEF Nth
  <2>2. ASSUME NEW k \in 0 .. (n - 1), k \in U PROVE k + 1 \in U
    <3>1. k + 1 \in 0 .. n /\ k + 1 # 0 /\ (k + 1) - 1 = k
      OBVIOUS
    <3>2. upTo[k + 1] = Nth(upTo, f, K, k + 1) /\ h[k + 1] = Nth(h, f, K, k + 1)
      BY <1>3, <1>7, <3>1
    <3>. QED
      BY <2>2, <3>1, <3>2 DEF Nth
  <2>. HIDE DEF U
  <2>3. \A k \in 0 .. n : k \in U
    BY <2>1, <2>2, UpTo
  <2>. QED
    BY <2>3 DEF U
<1>9. n \in 0 .. n
  OBVIOUS
<1>. QED
  BY <1>2, <1>3, <1>6, <1>8, <1>9

\* w is what f has at the places e, in order: those of the first n in K.
ChosenTo(w, e, f, K, n) ==
  /\ w \in Seq(Piece) /\ e \in [DOMAIN w -> 1 .. n]
  /\ \A i \in DOMAIN w : e[i] \in K /\ w[i] = f[e[i]] /\ \A j \in DOMAIN w : j < i => e[j] < e[i]
  /\ \A k \in 1 .. n : k \in K => \E i \in DOMAIN w : e[i] = k
  /\ 1 .. n \subseteq K => Len(w) = n /\ \A i \in DOMAIN w : e[i] = i

LEMMA ChosenMore ==
  ASSUME NEW n \in Nat, NEW K, NEW f, NEW w, NEW e, ChosenTo(w, e, f, K, n),
         n + 1 \in K => f[n + 1] \in Piece
  PROVE  \E d : ChosenTo(IF n + 1 \in K THEN Append(w, f[n + 1]) ELSE w, d, f, K, n + 1)
<1>0. \A k \in 1 .. (n + 1) : k \in 1 .. n \/ k = n + 1
  OBVIOUS
<1>1. CASE n + 1 \notin K
  <2>1. ~ (1 .. (n + 1) \subseteq K)
    BY <1>1
  <2>2. e \in [DOMAIN w -> 1 .. (n + 1)]
    BY DEF ChosenTo
  <2>3. ChosenTo(w, e, f, K, n + 1)
    BY <1>0, <1>1, <2>1, <2>2 DEF ChosenTo
  <2>. QED
    BY <1>1, <2>3
<1>2. CASE n + 1 \in K
  <2>. DEFINE v == Append(w, f[n + 1])
              l == Len(w)
              d == [i \in DOMAIN v |-> IF i = l + 1 THEN n + 1 ELSE e[i]]
  <2>1. l \in Nat /\ v \in Seq(Piece) /\ Len(v) = l + 1 /\ v[l + 1] = f[n + 1] /\ \A i \in DOMAIN w : v[i] = w[i]
    BY <1>2 DEF ChosenTo
  <2>2. DOMAIN w = 1 .. l /\ DOMAIN v = 1 .. (l + 1)
    BY <2>1 DEF ChosenTo
  <2>. HIDE DEF v, l
  <2>3. \A i \in DOMAIN v : (i \in DOMAIN w /\ d[i] = e[i] /\ v[i] = w[i] /\ i # l + 1) \/ (i = l + 1 /\ d[i] = n + 1)
    BY <2>1, <2>2
  <2>4. \A i \in DOMAIN w : i \in DOMAIN v /\ d[i] = e[i] /\ e[i] \in 1 .. n /\ i < l + 1
    BY <2>1, <2>2 DEF ChosenTo
  <2>5. d \in [DOMAIN v -> 1 .. (n + 1)]
    <3>1. \A i \in DOMAIN v : i # l + 1 => e[i] \in 1 .. (n + 1)
      <4>1. \A i \in DOMAIN v : i # l + 1 => i \in DOMAIN w
        BY <2>1, <2>2
      <4>2. \A i \in DOMAIN w : e[i] \in 1 .. (n + 1)
        <5>1. e \in [DOMAIN w -> 1 .. n]
          BY DEF ChosenTo
        <5>2. 1 .. n \subseteq 1 .. (n + 1)
          OBVIOUS
        <5>. QED
          BY ONLY <5>1, <5>2
      <4>. QED
        BY <4>1, <4>2
    <3>2. n + 1 \in 1 .. (n + 1)
      OBVIOUS
    <3>. QED
      BY <3>1, <3>2
  <2>. HIDE DEF d
  <2>6. \A i \in DOMAIN v : d[i] \in K /\ v[i] = f[d[i]]
    BY <1>2, <2>1, <2>3, <2>4 DEF ChosenTo
  <2>7. \A i \in DOMAIN v : \A j \in DOMAIN v : j < i => d[j] < d[i]
    <3>. SUFFICES ASSUME NEW i \in DOMAIN v, NEW j \in DOMAIN v, j < i PROVE d[j] < d[i]
      OBVIOUS
    <3>1. j \in DOMAIN w /\ d[j] = e[j] /\ e[j] < n + 1
      <4>1. j \in DOMAIN w
        BY <2>1, <2>2
      <4>. QED
        BY <2>4, <4>1
    <3>2. CASE i = l + 1
      BY <2>3, <2>4, <3>1, <3>2
    <3>3. CASE i # l + 1
      BY <2>3, <3>1, <3>3 DEF ChosenTo
    <3>. QED
      BY <3>2, <3>3
  <2>8. \A k \in 1 .. (n + 1) : k \in K => \E i \in DOMAIN v : d[i] = k
    <3>1. l + 1 \in DOMAIN v /\ d[l + 1] = n + 1
      BY <2>1, <2>2, <2>3
    <3>. QED
      BY <1>0, <2>4, <3>1 DEF ChosenTo
  <2>9. 1 .. (n + 1) \subseteq K => Len(v) = n + 1 /\ \A i \in DOMAIN v : d[i] = i
    <3>1. 1 .. (n + 1) \subseteq K => 1 .. n \subseteq K
      OBVIOUS
    <3>2. 1 .. n \subseteq K => l = n /\ \A i \in DOMAIN w : e[i] = i
      BY DEF ChosenTo, l
    <3>. QED
      BY <2>1, <2>3, <3>1, <3>2
  <2>10. ChosenTo(v, d, f, K, n + 1)
    BY <2>1, <2>5, <2>6, <2>7, <2>8, <2>9 DEF ChosenTo
  <2>. QED
    BY <1>2, <2>10 DEF v
<1>. QED
  BY <1>1, <1>2

\* Chosen picks the places in K, each once and in order.
LEMMA ChosenIs ==
  ASSUME NEW n \in Nat, NEW K, NEW f, \A k \in 1 .. n : k \in K => f[k] \in Piece
  PROVE  \E e : ChosenTo(Chosen(f, K, n), e, f, K, n)
<1>1. PICK g \in [0 .. n -> Seq(Piece)] :
        Chosen(f, K, n) = g[n] /\ \A k \in 0 .. n : g[k] = Nth(g, f, K, k)
  BY ChosenLoop
<1>. DEFINE U == {k \in 0 .. n : \E e : ChosenTo(g[k], e, f, K, k)}
<1>2. 0 \in U
  <2>1. g[0] = <<>> /\ 0 \in 0 .. n
    BY <1>1 DEF Nth
  <2>2. ChosenTo(<<>>, <<>>, f, K, 0)
    BY DEF ChosenTo
  <2>. QED
    BY <2>1, <2>2
<1>3. ASSUME NEW k \in 0 .. (n - 1), k \in U PROVE k + 1 \in U
  <2>1. k \in Nat /\ k + 1 \in 0 .. n /\ k + 1 \in 1 .. n /\ k + 1 # 0 /\ (k + 1) - 1 = k
    OBVIOUS
  <2>2. g[k + 1] = Nth(g, f, K, k + 1)
    BY <1>1, <2>1
  <2>3. g[k + 1] = IF k + 1 \in K THEN Append(g[k], f[k + 1]) ELSE g[k]
    BY <2>1, <2>2 DEF Nth
  <2>4. PICK e : ChosenTo(g[k], e, f, K, k)
    BY <1>3
  <2>5. \E d : ChosenTo(g[k + 1], d, f, K, k + 1)
    BY <2>1, <2>3, <2>4, ChosenMore
  <2>. QED
    BY <2>1, <2>5
<1>. HIDE DEF U
<1>4. \A k \in 0 .. n : k \in U
  BY <1>2, <1>3, UpTo
<1>5. n \in U
  BY <1>4
<1>. QED
  BY <1>1, <1>5 DEF U

-----------------------------------------------------------------------------
(* The rows of a thread as items of a view, and a trimmed view.             *)

\* The items of a set of rows are those rows, in the order of their numbers.
LEMMA ItemsIs ==
  ASSUME NEW S, S \subseteq Row, \A r, q \in S : r.seq = q.seq => r = q
  PROVE  /\ Items(S) \in Seq(Piece)
         /\ \A i \in DOMAIN Items(S) :
              /\ Items(S)[i].kind = "row" /\ Items(S)[i].row \in S
              /\ \A j \in DOMAIN Items(S) : j < i => Items(S)[j].row.seq < Items(S)[i].row.seq
         /\ \A r \in S : \E i \in DOMAIN Items(S) : Items(S)[i] = Item(r)
<1>. DEFINE K == Numbers(S)
            f == [n \in K |-> Item(CHOOSE r \in S : r.seq = n)]
            w == Items(S)
<1>1. ASSUME NEW r \in S PROVE r.seq \in K /\ f[r.seq] = Item(r) /\ r.seq \in 1 .. MaxRows
  <2>1. r.seq \in K
    BY DEF Numbers
  <2>2. r = CHOOSE q \in S : q.seq = r.seq
    OBVIOUS
  <2>3. r.seq \in 1 .. MaxRows
    BY DEF Row
  <2>. QED
    BY <2>1, <2>2, <2>3
<1>2. \A n \in K : \E r \in S : n = r.seq
  BY DEF Numbers
<1>3. \A n \in K : f[n] \in Piece
  <2>1. \A r \in S : Item(r) \in Piece
    BY DEF Piece
  <2>. HIDE DEF f
  <2>. QED
    BY <1>1, <1>2, <2>1
<1>4. w = Chosen(f, K, MaxRows)
  BY DEF Items
<1>. HIDE DEF f, K, w
<1>5. PICK e : ChosenTo(w, e, f, K, MaxRows)
  BY <1>3, <1>4, ChosenIs, HistoryAssumption
<1>6. ASSUME NEW i \in DOMAIN w PROVE w[i].kind = "row" /\ w[i].row \in S /\ w[i].row.seq = e[i]
  <2>1. e[i] \in K /\ w[i] = f[e[i]]
    BY <1>5 DEF ChosenTo
  <2>2. PICK r \in S : e[i] = r.seq
    BY <1>2, <2>1
  <2>3. w[i] = Item(r)
    BY <1>1, <2>1, <2>2
  <2>. QED
    BY <2>2, <2>3 DEF Item
<1>7. \A i, j \in DOMAIN w : j < i => w[j].row.seq < w[i].row.seq
  BY <1>5, <1>6 DEF ChosenTo
<1>8. ASSUME NEW r \in S PROVE \E i \in DOMAIN w : w[i] = Item(r)
  <2>1. PICK i \in DOMAIN w : e[i] = r.seq
    BY <1>1, <1>5 DEF ChosenTo
  <2>2. w[i] = f[r.seq]
    BY <1>5, <2>1 DEF ChosenTo
  <2>. QED
    BY <1>1, <2>2
<1>9. w \in Seq(Piece)
  BY <1>5 DEF ChosenTo
<1>. QED
  BY <1>6, <1>7, <1>8, <1>9 DEF w

\* A view that is read: what leads it tells of what c covers, and the messages T that
\* follow are those of S from the first one kept, but for results without a call.
ReadOf(S, c, lead, T) ==
  /\ S \subseteq Row /\ \A r, q \in S : r.seq = q.seq => r = q
  /\ c \in Record /\ lead \in Seq(Piece)
  /\ \A i \in DOMAIN lead : lead[i].kind \in Leads
  /\ \A x : x \in c.covers <=> \E i \in DOMAIN lead : x \in Tells(lead[i])
  /\ T \subseteq S /\ \A q \in T : q.seq >= c.first
  /\ \A q \in S : q.seq >= c.first /\ q.role # "tool" => q \in T

\* What is read behind a record's rows, led by its summary, fits as the record does.
LEMMA ReadFits ==
  ASSUME NEW S, NEW c, NEW lead, NEW T, ReadOf(S, c, lead, T), NEW n \in Nat
  PROVE  LET w == lead \o Items(T) IN
         /\ w \in Seq(Piece) /\ Ordered(w) /\ RowsFit(w, S, n)
         /\ (c.first < n => Accounts(c, Content(Before(S, c.first)), c.covers)) =>
              TellsFit(w, c, S, n) /\ (c.first < n => TellsAll(w, c, S))
         /\ \A q \in T : \E k \in DOMAIN w : w[k] = Item(q)
<1>0. /\ S \subseteq Row /\ \A r, q \in S : r.seq = q.seq => r = q
      /\ c \in Record /\ lead \in Seq(Piece)
      /\ \A i \in DOMAIN lead : lead[i].kind \in Leads
      /\ \A x : x \in c.covers <=> \E i \in DOMAIN lead : x \in Tells(lead[i])
      /\ T \subseteq S /\ \A q \in T : q.seq >= c.first
      /\ \A q \in S : q.seq >= c.first /\ q.role # "tool" => q \in T
  BY DEF ReadOf
<1>. USE <1>0
<1>. DEFINE t == Items(T)
            w == lead \o t
            a == Len(lead)
            l == Len(t)
<1>1. /\ t \in Seq(Piece)
      /\ \A i \in DOMAIN t : t[i].kind = "row" /\ t[i].row \in T
      /\ \A i, j \in DOMAIN t : j < i => t[j].row.seq < t[i].row.seq
      /\ \A r \in T : \E i \in DOMAIN t : t[i] = Item(r)
  <2>1. T \subseteq Row /\ \A r, q \in T : r.seq = q.seq => r = q
    OBVIOUS
  <2>. QED
    BY <2>1, ItemsIs
<1>. HIDE DEF t
<1>2. /\ a \in Nat /\ l \in Nat /\ w \in Seq(Piece) /\ Len(w) = a + l
      /\ \A i \in 1 .. a : w[i] = lead[i]
      /\ \A i \in 1 .. l : w[a + i] = t[i]
  BY <1>1
<1>3. DOMAIN lead = 1 .. a /\ DOMAIN t = 1 .. l /\ DOMAIN w = 1 .. (a + l)
  BY <1>1, <1>2
<1>. HIDE DEF w, a, l
<1>4. "row" \notin Leads
  BY DEF Leads
<1>5. \A k \in DOMAIN w : w[k].kind = "row" => k - a \in DOMAIN t /\ w[k] = t[k - a]
  <2>. SUFFICES ASSUME NEW k \in DOMAIN w, w[k].kind = "row" PROVE k - a \in DOMAIN t /\ w[k] = t[k - a]
    OBVIOUS
  <2>1. ~ (k \in 1 .. a)
    BY <1>2, <1>3, <1>4
  <2>2. k - a \in 1 .. l /\ a + (k - a) = k
    BY <1>2, <1>3, <2>1
  <2>. QED
    BY <1>2, <1>3, <2>2
<1>6. \A i \in DOMAIN t : a + i \in DOMAIN w /\ w[a + i] = t[i] /\ w[a + i].kind = "row"
  BY <1>1, <1>2, <1>3
<1>7. \A i \in DOMAIN lead : i \in DOMAIN w /\ w[i] = lead[i] /\ w[i].kind \in Leads
  BY <1>2, <1>3
<1>8. \A k \in DOMAIN w : k \in DOMAIN lead \/ (k - a \in DOMAIN t /\ w[k] = t[k - a])
  <2>1. \A k \in DOMAIN w : k \in 1 .. a \/ (k - a \in 1 .. l /\ a + (k - a) = k)
    BY <1>2, <1>3
  <2>. QED
    BY <1>2, <1>3, <2>1
<1>9. \A q \in S : q.seq \in Nat
  BY DEF Row
<1>10. \A k \in DOMAIN w : w[k].kind = "row" =>
         w[k].row \in T /\ w[k].row.seq >= c.first /\ w[k].row.seq \in Nat
  BY <1>1, <1>5, <1>9
<1>11. ASSUME NEW k \in DOMAIN w, w[k].kind = "row", NEW j \in DOMAIN w, j < k, w[j].kind = "row"
       PROVE  w[j].row.seq < w[k].row.seq
  <2>1. k - a \in DOMAIN t /\ w[k] = t[k - a] /\ j - a \in DOMAIN t /\ w[j] = t[j - a]
    BY <1>5, <1>11
  <2>2. j - a < k - a
    BY <1>2, <1>3, <1>11
  <2>. QED
    BY <1>1, <2>1, <2>2
<1>12. RowsFit(w, S, n)
  BY <1>10, <1>11 DEF RowsFit
<1>13. Ordered(w)
  <2>0. \A k \in DOMAIN w : w[k].kind # "checkpoint"
    BY <1>1, <1>7, <1>8 DEF Leads
  <2>. SUFFICES ASSUME NEW j \in DOMAIN w, NEW k \in DOMAIN w, j < k, w[k].kind \in Leads PROVE w[j].kind \in Leads
    BY <2>0 DEF Ordered, Leading, Marked
  <2>1. k \in DOMAIN lead
    BY <1>1, <1>4, <1>8
  <2>2. j \in DOMAIN lead
    BY <1>2, <1>3, <2>1
  <2>. QED
    BY <1>7, <2>2
\* What stands before the place k tells of what is before some number m.
<1>14. ASSUME NEW k \in Int, NEW m \in Nat, k > a, m >= c.first,
              \A i \in DOMAIN w : w[i].kind = "row" => (i < k <=> w[i].row.seq < m),
              Accounts(c, Content(Before(S, c.first)), c.covers)
       PROVE  Accounts(c, Content(Before(S, m)), Earlier(w, k))
  <2>1. \A x : x \in Earlier(w, k) <=> x \in c.covers \/ \E q \in T : q.seq < m /\ q.role # "tool" /\ x = q.id
    <3>. TAKE x
    <3>1. x \in c.covers => x \in Earlier(w, k)
      <4>1. \A i \in DOMAIN lead : i \in DOMAIN w /\ i < k /\ w[i] = lead[i]
        BY <1>2, <1>3, <1>7, <1>14
      <4>. QED
        BY <4>1, EarlierIs
    <3>2. ASSUME NEW q \in T, q.seq < m, q.role # "tool", x = q.id PROVE x \in Earlier(w, k)
      <4>1. PICK i \in DOMAIN t : t[i] = Item(q)
        BY <1>1
      <4>2. a + i \in DOMAIN w /\ w[a + i] = Item(q)
        BY <1>6, <4>1
      <4>3. w[a + i].kind = "row" /\ w[a + i].row = q
        BY <4>2 DEF Item
      <4>4. a + i < k /\ x \in Tells(w[a + i])
        BY <1>14, <3>2, <4>2, <4>3 DEF Tells
      <4>. QED
        BY <4>2, <4>4, EarlierIs
    <3>3. ASSUME x \in Earlier(w, k)
          PROVE  x \in c.covers \/ \E q \in T : q.seq < m /\ q.role # "tool" /\ x = q.id
      <4>1. PICK i \in DOMAIN w : i < k /\ x \in Tells(w[i])
        BY <3>3, EarlierIs
      <4>2. CASE i \in DOMAIN lead
        BY <1>7, <4>1, <4>2
      <4>3. CASE w[i].kind = "row"
        <5>1. w[i].row \in T /\ w[i].row.seq < m
          BY <1>10, <1>14, <4>1, <4>3
        <5>. QED
          BY <4>1, <4>3, <5>1 DEF Tells
      <4>. QED
        BY <1>1, <1>8, <4>2, <4>3
    <3>. QED
      BY <3>1, <3>2, <3>3
  <2>2. \A x : x \in Content(Before(S, m)) <=>
          x \in Content(Before(S, c.first)) \/ \E q \in T : q.seq < m /\ q.role # "tool" /\ x = q.id
    <3>. TAKE x
    <3>1. \A R : x \in Content(R) <=> \E q \in R : q.role # "tool" /\ x = q.id
      BY DEF Content, Ids
    <3>2. c.first \in Nat
      BY DEF Record
    <3>3. \A q \in S : q.role # "tool" =>
            (q \in Before(S, m) <=> q \in Before(S, c.first) \/ (q \in T /\ q.seq < m))
      BY <1>9, <1>14, <3>2 DEF Before
    <3>4. Before(S, m) \subseteq S /\ Before(S, c.first) \subseteq S
      BY DEF Before
    <3>. QED
      BY <3>1, <3>3, <3>4
  <2>3. Accounts(c, Content(Before(S, c.first)), c.covers)
    BY <1>14
  <2>. QED
    BY <2>1, <2>2, <2>3 DEF Accounts
<1>15. ASSUME c.first < n => Accounts(c, Content(Before(S, c.first)), c.covers)
       PROVE  TellsFit(w, c, S, n)
  <2>. SUFFICES ASSUME NEW k \in DOMAIN w, w[k].kind = "row", w[k].row.seq < n
                PROVE  Accounts(c, Content(Before(S, w[k].row.seq)), Earlier(w, k))
    BY DEF TellsFit
  <2>. DEFINE m == w[k].row.seq
  <2>1. m \in Nat /\ m >= c.first /\ c.first < n
    BY <1>10 DEF Record
  <2>2. k \in Int /\ k > a
    BY <1>2, <1>3, <1>5
  <2>3. \A i \in DOMAIN w : i \in Int
    BY <1>3
  <2>4. \A i \in DOMAIN w : w[i].kind = "row" => (i < k <=> w[i].row.seq < m)
    <3>. SUFFICES ASSUME NEW i \in DOMAIN w, w[i].kind = "row" PROVE i < k <=> w[i].row.seq < m
      OBVIOUS
    <3>1. i < k => w[i].row.seq < m
      BY <1>11
    <3>2. k < i => m < w[i].row.seq
      BY <1>11
    <3>3. i \in Int /\ w[i].row.seq \in Nat /\ (i = k => w[i].row.seq = m)
      BY <1>10, <2>3
    <3>. HIDE DEF m
    <3>. QED
      BY <2>1, <2>2, <3>1, <3>2, <3>3
  <2>. HIDE DEF m
  <2>5. Accounts(c, Content(Before(S, m)), Earlier(w, k))
    BY <1>14, <1>15, <2>1, <2>2, <2>4
  <2>. QED
    BY <2>5 DEF m
<1>16. ASSUME c.first < n, Accounts(c, Content(Before(S, c.first)), c.covers) PROVE TellsAll(w, c, S)
  <2>. DEFINE m == MaxRows + 1
              k == Len(w) + 1
  <2>1. m \in Nat /\ m >= c.first /\ \A q \in S : q.seq < m
    BY HistoryAssumption DEF Record, Row
  <2>2. k \in Int /\ k > a /\ \A i \in DOMAIN w : i < k
    BY <1>2, <1>3
  <2>3. \A i \in DOMAIN w : w[i].kind = "row" => (i < k <=> w[i].row.seq < m)
    BY <1>10, <2>1, <2>2
  <2>. HIDE DEF m, k
  <2>4. Accounts(c, Content(Before(S, m)), Earlier(w, k))
    BY <1>14, <1>16, <2>1, <2>2, <2>3
  <2>5. Before(S, m) = S
    BY <2>1 DEF Before
  <2>. QED
    BY <2>4, <2>5 DEF TellsAll, k
<1>17. \A q \in T : \E k \in DOMAIN w : w[k] = Item(q)
  BY <1>1, <1>6
<1>. QED
  BY <1>2, <1>12, <1>13, <1>15, <1>16, <1>17 DEF w, t

\* Trim picks items in order, and of the groups not dropped at least the first item.
LEMMA TrimIs ==
  ASSUME NEW v \in Seq(Piece), NEW D
  PROVE  /\ \E e : /\ Picks(Trim(v, D), v, e)
                   /\ \A k \in GroupStarts(v) : k \notin D => \E i \in DOMAIN Trim(v, D) : e[i] = k
         /\ Trim(v, D) \in Seq(Piece)
         /\ D = {} => Trim(v, D) = v
<1>. DEFINE Group(k) == Max({g \in GroupStarts(v) : g <= k})
            K == {k \in DOMAIN v : Group(k) \notin D}
            w == Trim(v, D)
            n == Len(v)
<1>1. n \in Nat /\ DOMAIN v = 1 .. n /\ \A k \in 1 .. n : v[k] \in Piece
  OBVIOUS
<1>2. w = Chosen(v, K, n)
  BY DEF Trim
<1>3. PICK e : ChosenTo(w, e, v, K, n)
  <2>. HIDE DEF K, w, n
  <2>. QED
    BY <1>1, <1>2, ChosenIs
<1>4. Picks(w, v, e)
  <2>. HIDE DEF K, w, n
  <2>. QED
    BY <1>1, <1>3 DEF ChosenTo, Picks
<1>5. ASSUME NEW k \in GroupStarts(v) PROVE Group(k) = k /\ k \in 1 .. n
  <2>1. \A g \in GroupStarts(v) : g \in Int
    BY <1>1 DEF GroupStarts
  <2>. DEFINE G == {g \in GroupStarts(v) : g <= k}
  <2>2. k \in G /\ \A g \in G : k >= g /\ g \in Int
    BY <2>1
  <2>. HIDE DEF G
  <2>3. \A x \in G : (\A y \in G : x >= y) => x = k
    BY <2>2
  <2>4. Max(G) = k
    BY <2>2, <2>3 DEF Max
  <2>. QED
    BY <1>1, <2>4 DEF G, GroupStarts
<1>6. \A k \in GroupStarts(v) : k \notin D => \E i \in DOMAIN w : e[i] = k
  <2>1. \A k \in GroupStarts(v) : k \notin D => k \in K /\ k \in 1 .. n
    BY <1>1, <1>5
  <2>. HIDE DEF K, w, n
  <2>. QED
    BY <1>3, <2>1 DEF ChosenTo
<1>7. w \in Seq(Piece)
  BY <1>3 DEF ChosenTo
<1>8. ASSUME D = {} PROVE w = v
  <2>1. 1 .. n \subseteq K
    BY <1>1, <1>8
  <2>. HIDE DEF K, w, n
  <2>2. Len(w) = n /\ \A i \in DOMAIN w : e[i] = i /\ w[i] = v[e[i]]
    BY <1>3, <2>1 DEF ChosenTo
  <2>3. \A i \in 1 .. n : w[i] = v[i]
    BY <1>7, <2>2
  <2>. QED
    BY <1>1, <1>7, <2>2, <2>3, SeqEqual DEF n
<1>. QED
  BY <1>4, <1>6, <1>7, <1>8

-----------------------------------------------------------------------------
(* What the steps do with the rows.                                         *)

Keeps == rows' = rows /\ nextId' = nextId /\ NextSeq' = NextSeq
Stores(m) ==
  /\ Behind(rows, m) /\ rows' = rows \cup {m} /\ nextId' = nextId + 1
  /\ m.seq = NextSeq /\ m.id = nextId /\ NextSeq' = NextSeq + 1

\* A step that leaves the store alone keeps the rows.
LEMMA Kept0 == ASSUME UNCHANGED storeVars PROVE Keeps
BY DEF storeVars, Keeps, NextSeq, Numbers

\* Store adds one row behind all others.
LEMMA Stored1 ==
  ASSUME RowsInv, Room, NEW role \in Role, NEW call \in 0 .. MaxRows, Store(Message(role, call))
  PROVE  RowsInv' /\ Stores(Message(role, call))
<1>1. rows' = rows \cup {Message(role, call)} /\ nextId' = nextId + 1
  BY DEF Store
<1>2. /\ RowsInv' /\ NextSeq' = NextSeq + 1
      /\ Message(role, call) \in Row /\ Message(role, call).seq = NextSeq
      /\ \A q \in rows : q.seq < NextSeq
  BY <1>1, StoreRows
<1>3. Message(role, call).id = nextId
  BY DEF Message
<1>4. rows \subseteq Row
  BY DEF RowsInv
<1>. QED
  BY <1>1, <1>2, <1>3, <1>4 DEF Stores, Behind

\* At most one call has a result missing at the end.
LEMMA Healing ==
  ASSUME RowsInv
  PROVE  Trailing = {} \/ \E c \in rows : Trailing = {c} /\ c.role = "calls" /\ c.seq < NextSeq
<1>1. \A c \in Trailing : c \in rows /\ c.role = "calls" /\ c.seq < NextSeq
                          /\ \A q \in rows : c.seq < q.seq /\ q.seq < NextSeq => q.role = "tool"
  BY DEF Trailing, OpenAt
<1>2. ASSUME NEW c \in Trailing, NEW d \in Trailing PROVE c = d
  <2>1. c.seq \in Nat /\ d.seq \in Nat
    BY <1>1 DEF RowsInv, Row
  <2>2. c.seq = d.seq
    BY <1>1, <2>1
  <2>. QED
    BY <1>1, <2>2 DEF RowsInv
<1>. QED
  BY <1>1, <1>2

\* Reading either stores nothing or the result that is missing.
LEMMA Heals ==
  ASSUME RowsInv, NEW r, ReadRows(r)
  PROVE  /\ RowsInv'
         /\ \/ Keeps /\ Trailing = {}
            \/ \E c \in rows : /\ Trailing = {c} /\ c.role = "calls" /\ c.seq < NextSeq
                               /\ Stores(Message("tool", c.id))
<1>. DEFINE healed == {Message("tool", m.id) : m \in Trailing}
<1>1. /\ rows' = rows \cup healed /\ nextId' = nextId + Cardinality(healed)
      /\ Trailing # {} => Room
  BY DEF ReadRows
<1>2. nextId \in Nat
  BY DEF RowsInv
<1>3. CASE Trailing = {}
  <2>1. healed = {}
    BY <1>3
  <2>2. Cardinality(healed) = 0
    BY <2>1, FS_EmptySet
  <2>3. UNCHANGED storeVars
    BY <1>1, <1>2, <2>1, <2>2 DEF storeVars
  <2>4. Keeps
    BY <2>3, Kept0
  <2>5. RowsInv'
    BY <2>4 DEF Keeps, RowsInv, Numbers
  <2>. QED
    BY <1>3, <2>4, <2>5
<1>4. CASE Trailing # {}
  <2>1. PICK c \in rows : Trailing = {c} /\ c.role = "calls" /\ c.seq < NextSeq
    BY <1>4, Healing
  <2>2. healed = {Message("tool", c.id)}
    BY <2>1
  <2>3. Cardinality(healed) = 1
    BY <2>2, FS_Singleton
  <2>4. Store(Message("tool", c.id)) /\ Room
    BY <1>1, <1>4, <2>2, <2>3 DEF Store
  <2>5. c.id \in 0 .. MaxRows /\ "tool" \in Role
    BY DEF RowsInv, Row, Role
  <2>6. RowsInv' /\ Stores(Message("tool", c.id))
    BY <2>4, <2>5, Stored1
  <2>. QED
    BY <2>1, <2>6
<1>. QED
  BY <1>3, <1>4

\* So does what a turn says.
LEMMA SaysOne ==
  ASSUME RowsInv, NEW role \in Role, NEW call \in 0 .. MaxRows, NEW extra, NEW to,
         SayWith(Message(role, call), extra, to)
  PROVE  RowsInv' /\ Stores(Message(role, call))
BY Stored1 DEF SayWith

\* The result of the call a turn waits for.
LEMMA ResultSays ==
  ASSUME HistoryInv, Result
  PROVE  \E extra \in {<<>>, <<Nudge>>} :
           LET id == view["turn"][Len(view["turn"])].row.id IN
           /\ SayWith(Message("tool", id), extra, "between")
           /\ id \in 0 .. MaxRows /\ pc["turn"] = "tools"
<1>. DEFINE v == view["turn"]
<1>1. "turn" \in Reader /\ v \in Seq(Piece)
  BY DEF HistoryInv, ReaderTypes, Reader
<1>2. pc["turn"] = "tools" /\ Len(v) > 0 /\ v[Len(v)].kind = "row"
  BY DEF HistoryInv, ForkInv, CallAwaited, Result
<1>3. v[Len(v)] \in Piece
  BY <1>1, <1>2
<1>4. v[Len(v)].row.id \in 0 .. MaxRows
  BY <1>2, <1>3, PieceIs DEF Row
<1>5. Last(v) = v[Len(v)]
  BY DEF Last
<1>6. PICK extra \in (IF May("nudge") /\ todo /\ Of(view["turn"], {"nudge"}) = {} THEN {<<>>, <<Nudge>>} ELSE {<<>>}) :
        SayWith(Message("tool", Last(view["turn"]).row.id), extra, "between")
  BY DEF Result
<1>. QED
  BY <1>2, <1>4, <1>5, <1>6

\* All that a turn says.
LEMMA Says ==
  ASSUME HistoryInv, Call \/ Steer \/ Result \/ Answer
  PROVE  \E role \in Role, call \in 0 .. MaxRows, extra \in {<<>>, <<Nudge>>},
            to \in {"tools", "draining", "between", "done"} :
           /\ SayWith(Message(role, call), extra, to)
           /\ pc["turn"] \in {"model", "draining", "tools"}
           /\ role = "tool" <=> pc["turn"] = "tools"
           /\ role = "tool" => call = view["turn"][Len(view["turn"])].row.id
           /\ to = "tools" => role = "calls" /\ extra = <<>>
<1>0. 0 \in 0 .. MaxRows /\ Role = {"user", "calls", "tool", "answer"}
  BY HistoryAssumption DEF Role
<1>1. CASE Call
  BY <1>0, <1>1 DEF Call, Say, Ready
<1>2. CASE Steer
  BY <1>0, <1>2 DEF Steer, Say
<1>3. CASE Result
  BY <1>0, <1>3, ResultSays
<1>4. CASE Answer
  BY <1>0, <1>4 DEF Answer, Say, Ready
<1>. QED
  BY <1>1, <1>2, <1>3, <1>4

\* An undo deletes a tail of the thread.
LEMMA UndoCuts ==
  ASSUME RowsInv, CutInv, UndoDeletes
  PROVE  RowsInv' /\ NextSeq' = undo.seq /\ nextId' = nextId /\ rows' = rows \ From(rows, undo.seq)
         /\ undo.seq \in 1 .. (NextSeq - 1)
<1>1. undo.at = "deleting" /\ rows' = rows \ From(rows, undo.seq) /\ nextId' = nextId
  BY DEF UndoDeletes
<1>2. undo.seq \in 1 .. (NextSeq - 1)
  BY <1>1 DEF CutInv
<1>. QED
  BY <1>1, <1>2, CutRows

\* Every step keeps the rows, stores one, or is an undo's deletion.
LEMMA RowsNext ==
  ASSUME HistoryInv, [Next]_vars
  PROVE  /\ RowsInv'
         /\ \/ Keeps
            \/ \E m : Stores(m)
            \/ UndoDeletes /\ NextSeq' = undo.seq
<1>0. RowsInv /\ CutInv
  BY DEF HistoryInv
<1>1. CASE UNCHANGED storeVars
  <2>1. Keeps
    BY <1>1, Kept0
  <2>. QED
    BY <1>0, <2>1 DEF Keeps, RowsInv, Numbers
<1>2. ASSUME NEW role \in Role, Room, Store(Message(role, 0)) PROVE RowsInv' /\ \E m : Stores(m)
  <2>1. 0 \in 0 .. MaxRows
    BY HistoryAssumption
  <2>. QED
    BY <1>0, <1>2, <2>1, Stored1
<1>3. "user" \in Role
  BY DEF Role
<1>4. CASE BeginTurn
  BY <1>2, <1>3, <1>4 DEF BeginTurn
<1>5. CASE LeaveWithMail
  BY <1>2, <1>3, <1>5 DEF LeaveWithMail
<1>6. ASSUME NEW r \in Reader, ReadRows(r) PROVE RowsInv' /\ (Keeps \/ \E m : Stores(m))
  BY <1>0, <1>6, Heals
<1>7. CASE Call \/ Steer \/ Result \/ Answer
  <2>1. \E role \in Role, call \in 0 .. MaxRows : \E extra, to : SayWith(Message(role, call), extra, to)
    BY <1>7, Says
  <2>. QED
    BY <1>0, <2>1, SaysOne
<1>8. CASE UndoDeletes
  BY <1>0, <1>8, UndoCuts
<1>9. CASE UNCHANGED vars
  BY <1>1, <1>9 DEF vars
<1>10. CASE BeginCompress \/ Condense \/ UndoReads \/ UndoInvalidates \/ Rename \/ TitleArrives \/ Crash
  <2>1. UNCHANGED storeVars
    BY <1>10 DEF BeginCompress, Condense, UndoReads, UndoInvalidates, Rename, TitleArrives, Crash
  <2>. QED
    BY <1>1, <2>1
<1>11. ASSUME NEW r \in Reader,
              ReadRecord(r) \/ Fits(r) \/ Summarise(r) \/ SaveRecord(r) \/ Truncate(r) \/ Leave(r)
       PROVE  UNCHANGED storeVars
  BY <1>11 DEF ReadRecord, Fits, Summarise, SaveRecord, Truncate, Leave
<1>. QED
  BY <1>1, <1>4, <1>5, <1>6, <1>7, <1>8, <1>9, <1>10, <1>11 DEF Next

-----------------------------------------------------------------------------
(* What is kept and what is summarised.                                     *)

LEMMA LeastIs ==
  ASSUME NEW S, S \subseteq Nat, S # {}
  PROVE  Min(S) \in S /\ \A y \in S : Min(S) <= y
BY LeastExists DEF Min

\* The number a record keeps from is that of the first row of the view.
LEMMA FirstKeptIs ==
  ASSUME NEW v \in Seq(Piece)
  PROVE  \/ FirstKept(v) = 0 /\ \A k \in DOMAIN v : v[k].kind # "row"
         \/ \E k \in DOMAIN v : /\ v[k].kind = "row" /\ v[k].row \in Row /\ FirstKept(v) = v[k].row.seq
                                /\ \A j \in DOMAIN v : j < k => v[j].kind # "row"
<1>. DEFINE R == Of(v, {"row"})
<1>1. \A k : k \in R <=> k \in DOMAIN v /\ v[k].kind = "row"
  BY DEF Of
<1>2. CASE R = {}
  <2>1. RowsOf(v) = {}
    BY <1>2 DEF RowsOf
  <2>. QED
    BY <1>1, <1>2, <2>1 DEF FirstKept
<1>3. CASE R # {}
  <2>1. RowsOf(v) # {}
    BY <1>3 DEF RowsOf
  <2>2. R \subseteq Nat
    BY <1>1
  <2>3. Min(R) \in R /\ \A y \in R : Min(R) <= y
    BY <1>3, <2>2, LeastIs
  <2>4. FirstKept(v) = v[Min(R)].row.seq
    BY <2>1 DEF FirstKept
  <2>. DEFINE k == Min(R)
  <2>. HIDE DEF R
  <2>5. k \in DOMAIN v /\ v[k].kind = "row" /\ v[k].row \in Row
    BY <1>1, <2>3, RowPieces DEF ViewRowType
  <2>6. \A j \in DOMAIN v : j < k => v[j].kind # "row"
    <3>1. \A j \in DOMAIN v : j \in Nat
      OBVIOUS
    <3>. QED
      BY <1>1, <2>2, <2>3, <3>1
  <2>. QED
    BY <2>4, <2>5, <2>6
<1>. QED
  BY <1>2, <1>3

\* The boundary of a batch lies before the first group it must stop at.
LEMMA BoundaryIs ==
  ASSUME NEW v \in Seq(Piece), NEW t
  PROVE  Boundary(v, t) \in 0 .. Len(v) /\ BatchStops(v, Boundary(v, t))
<1>. DEFINE S == {Len(v) + 1} \cup
                   {k \in GroupStarts(v) \ Merged(v) : Raw(v, k) > t \/ Stops(v, k)}
<1>1. Len(v) \in Nat /\ GroupStarts(v) \subseteq 1 .. Len(v)
  BY DEF GroupStarts
<1>2. S \subseteq 1 .. (Len(v) + 1) /\ S # {} /\ Len(v) + 1 \in S
  BY <1>1
<1>3. S \subseteq Nat
  BY <1>1, <1>2
<1>4. \A k \in GroupStarts(v) : Stops(v, k) => k \in S
  BY DEF Stops
<1>5. Boundary(v, t) = Min(S) - 1
  BY DEF Boundary
<1>. HIDE DEF S
<1>6. Min(S) \in S /\ \A y \in S : Min(S) <= y
  BY <1>2, <1>3, LeastIs
<1>7. Min(S) \in 1 .. (Len(v) + 1)
  BY <1>2, <1>6
<1>8. \A k \in GroupStarts(v) : Stops(v, k) => k \in Nat /\ Min(S) <= k
  BY <1>1, <1>4, <1>6
<1>. QED
  BY <1>1, <1>5, <1>7, <1>8 DEF BatchStops

LEMMA AfterIs ==
  ASSUME NEW r
  PROVE  After(r) \in {"done", "model", "draining"}
<1>1. CASE r = "compress"
  BY <1>1 DEF After
<1>2. CASE r # "compress" /\ pc[r] \in {"starting", "summarising"}
  BY <1>2 DEF After
<1>3. CASE r # "compress" /\ pc[r] \notin {"starting", "summarising"}
  BY <1>3 DEF After
<1>. QED
  BY <1>1, <1>2, <1>3

\* An item stands not further back among the raw messages than in the view.
LEMMA RawIs ==
  ASSUME NEW v \in Seq(Piece), NEW k \in 0 .. Len(v)
  PROVE  Raw(v, k) \in 0 .. k
<1>. DEFINE S == {j \in Merged(v) : j <= k}
<1>1. S \subseteq 1 .. k
  BY DEF Merged, Of
<1>2. IsFiniteSet(1 .. k) /\ Cardinality(1 .. k) = k
  BY FS_Interval
<1>3. Cardinality(S) \in Nat /\ Cardinality(S) <= k
  <2>. HIDE DEF S
  <2>. QED
    BY <1>1, <1>2, FS_Subset, FS_CardinalityType
<1>. HIDE DEF S
<1>4. Raw(v, k) = k - Cardinality(S)
  BY DEF Raw, S
<1>. QED
  BY <1>3, <1>4

\* What a view tells of that begins with a digest of the first b items and goes on
\* behind the f-th.
LEMMA SavedTells ==
  ASSUME NEW v \in Seq(Piece), NEW b \in 1 .. Len(v), NEW f \in 0 .. b, NEW d \in Piece,
         NEW w, Digested(w, v, 0, f, d), d.kind \in Digests, d.covers = Earlier(v, b + 1)
  PROVE  \A i \in 2 .. (Len(w) + 1) :
           /\ Earlier(v, f + i - 1) \subseteq Earlier(w, i)
           /\ f = b => Earlier(w, i) \subseteq Earlier(v, f + i - 1)
           /\ Earlier(w, i) \subseteq Earlier(v, Len(v) + 1)
<1>0. b \in Nat /\ f \in Nat /\ f <= b /\ b <= Len(v) /\ Len(v) \in Nat
  OBVIOUS
<1>1. /\ w \in Seq(Piece) /\ Len(w) = 1 + Len(v) - f /\ w[1] = d
      /\ \A i \in 2 .. Len(w) : w[i] = v[f + i - 1]
  <2>1. 0 + 1 = 1 /\ 0 + 2 = 2
    OBVIOUS
  <2>. QED
    BY <1>0, <2>1 DEF Digested
<1>2. DOMAIN w = 1 .. (1 + Len(v) - f) /\ DOMAIN v = 1 .. Len(v)
  BY <1>0, <1>1
<1>3. Tells(d) = Earlier(v, b + 1)
  BY DEF Tells, Digests
<1>. SUFFICES ASSUME NEW i \in 2 .. (Len(w) + 1)
              PROVE  /\ Earlier(v, f + i - 1) \subseteq Earlier(w, i)
                     /\ f = b => Earlier(w, i) \subseteq Earlier(v, f + i - 1)
                     /\ Earlier(w, i) \subseteq Earlier(v, Len(v) + 1)
  OBVIOUS
<1>4. i \in Nat /\ i >= 2 /\ i <= 2 + Len(v) - f
  BY <1>0, <1>1
<1>5. ASSUME NEW x, x \in Earlier(v, f + i - 1) PROVE x \in Earlier(w, i)
  <2>1. PICK l \in DOMAIN v : l < f + i - 1 /\ x \in Tells(v[l])
    BY <1>5, EarlierIs
  <2>2. CASE l < b + 1
    <3>1. x \in Tells(w[1])
      BY <1>1, <1>3, <2>1, <2>2, EarlierIs
    <3>2. 1 \in DOMAIN w /\ 1 < i
      BY <1>0, <1>2, <1>4
    <3>. QED
      BY <3>1, <3>2, EarlierIs
  <2>3. CASE ~ (l < b + 1)
    <3>0. l \in Nat /\ l <= Len(v) /\ l >= b + 1 /\ l < f + i - 1
      BY <1>0, <1>2, <1>4, <2>1, <2>3
    <3>1. l - f + 1 \in 2 .. Len(w) /\ f + (l - f + 1) - 1 = l /\ l - f + 1 < i
      <4>1. Len(w) = 1 + Len(v) - f
        BY <1>1
      <4>. QED
        BY ONLY <1>0, <1>4, <3>0, <4>1
    <3>2. w[l - f + 1] = v[l]
      <4>1. w[l - f + 1] = v[f + (l - f + 1) - 1]
        BY <1>1, <3>1
      <4>. QED
        BY ONLY <3>1, <4>1
    <3>3. l - f + 1 \in DOMAIN w
      BY <1>1, <3>1
    <3>. QED
      BY <2>1, <3>1, <3>2, <3>3, EarlierIs
  <2>. QED
    BY <2>2, <2>3
<1>6. ASSUME NEW x, x \in Earlier(w, i)
      PROVE  x \in Earlier(v, b + 1) \/ \E l \in DOMAIN v : f < l /\ l < f + i - 1 /\ x \in Tells(v[l])
  <2>1. PICK k \in DOMAIN w : k < i /\ x \in Tells(w[k])
    BY <1>6, EarlierIs
  <2>2. CASE k = 1
    BY <1>1, <1>3, <2>1, <2>2
  <2>3. CASE k # 1
    <3>1. k \in 2 .. Len(w) /\ f + k - 1 \in DOMAIN v /\ f < f + k - 1 /\ f + k - 1 < f + i - 1
      BY <1>0, <1>1, <1>2, <1>4, <2>1, <2>3
    <3>2. w[k] = v[f + k - 1]
      BY <1>1, <3>1
    <3>. QED
      BY <2>1, <3>1, <3>2
  <2>. QED
    BY <2>2, <2>3
<1>7. ASSUME f = b, NEW x, x \in Earlier(w, i) PROVE x \in Earlier(v, f + i - 1)
  <2>1. CASE x \in Earlier(v, b + 1)
    <3>1. PICK l \in DOMAIN v : l < b + 1 /\ x \in Tells(v[l])
      BY <2>1, EarlierIs
    <3>2. l < f + i - 1
      BY <1>0, <1>2, <1>4, <1>7, <3>1
    <3>. QED
      BY <3>1, <3>2, EarlierIs
  <2>2. CASE \E l \in DOMAIN v : f < l /\ l < f + i - 1 /\ x \in Tells(v[l])
    BY <2>2, EarlierIs
  <2>. QED
    BY <1>6, <1>7, <2>1, <2>2
<1>8. ASSUME NEW x, x \in Earlier(w, i) PROVE x \in Earlier(v, Len(v) + 1)
  <2>1. \E l \in DOMAIN v : x \in Tells(v[l])
    BY <1>6, <1>8, EarlierIs
  <2>2. \A l \in DOMAIN v : l < Len(v) + 1
    BY <1>0, <1>2
  <2>. QED
    BY <2>1, <2>2, EarlierIs
<1>. QED
  BY <1>5, <1>7, <1>8

\* The view that a summary makes.
LEMMA SavedView ==
  ASSUME NEW v \in Seq(Piece), NEW b \in 1 .. Len(v), NEW f \in 0 .. b
  PROVE  LET d == Summary(Told(SubSeq(v, 1, b)))
             w == <<d>> \o SubSeq(v, f + 1, Len(v))
         IN /\ d \in Piece /\ Digested(w, v, 0, f, d) /\ w \in Seq(Piece)
            /\ Derived(w, v, TRUE, f = b)
            /\ SubSeq(v, f + 1, Len(v)) \in Seq(Piece) /\ Told(SubSeq(v, 1, b)) \in Known
<1>. DEFINE S == Told(SubSeq(v, 1, b))
            d == Summary(S)
            t == SubSeq(v, f + 1, Len(v))
            w == <<d>> \o t
<1>1. /\ 0 \in 0 .. Len(v) /\ b \in 0 .. Len(v) /\ f \in 0 .. Len(v) /\ Len(v) \in f .. Len(v)
      /\ Len(v) > 0 /\ b \in Nat /\ f \in Nat /\ f <= b /\ Len(v) \in Nat /\ DOMAIN v = 1 .. Len(v)
  OBVIOUS
<1>2. S = Earlier(v, b + 1) /\ S \in Known /\ t \in Seq(Piece)
  <2>1. S = Earlier(v, b + 1)
    BY <1>1, ToldBegin
  <2>2. t \in Seq(Piece)
    BY <1>1, PartIs
  <2>. QED
    BY <2>1, <2>2, EarlierType
<1>3. d \in Piece /\ d.kind \in Digests /\ d.covers = S /\ d.kind # "row"
  BY <1>2 DEF Piece, Summary, Digests
<1>. HIDE DEF S, d, t
<1>4. SubSeq(v, 1, 0) = <<>>
  BY SubSeqEmpty
<1>5. Digested(SubSeq(v, 1, 0) \o <<d>> \o t, v, 0, f, d)
  BY <1>1, <1>3, DigestedIs DEF t
<1>6. <<>> \o <<d>> = <<d>>
  <2>1. <<d>> \in Seq(Piece)
    BY <1>3
  <2>. QED
    BY <2>1, ConcatEmptySeq
<1>7. Digested(w, v, 0, f, d)
  BY <1>4, <1>5, <1>6
<1>. HIDE DEF w
<1>8. /\ w \in Seq(Piece) /\ Len(w) = 1 + Len(v) - f /\ w[1] = d
      /\ \A i \in 2 .. Len(w) : w[i] = v[f + i - 1]
  <2>1. 0 + 1 = 1 /\ 0 + 2 = 2
    OBVIOUS
  <2>. QED
    BY <1>1, <1>7, <2>1 DEF Digested
<1>9. \A i \in 2 .. (Len(w) + 1) :
        /\ Earlier(v, f + i - 1) \subseteq Earlier(w, i)
        /\ f = b => Earlier(w, i) \subseteq Earlier(v, f + i - 1)
        /\ Earlier(w, i) \subseteq Earlier(v, Len(v) + 1)
  BY <1>2, <1>3, <1>7, SavedTells
<1>. DEFINE e == [i \in DOMAIN w |-> IF i = 1 THEN 1 ELSE f + i - 1]
<1>10. DOMAIN w = 1 .. Len(w) /\ Len(w) \in Nat
  BY <1>8
<1>11. e \in [DOMAIN w -> DOMAIN v] /\ \A i \in 2 .. Len(w) : e[i] = f + i - 1
  BY <1>1, <1>8, <1>10
<1>. HIDE DEF e
<1>12. \A i \in DOMAIN w : w[i].kind = "row" => i \in 2 .. Len(w) /\ i \in 2 .. (Len(w) + 1)
  BY <1>3, <1>8, <1>10
<1>13. ASSUME NEW i \in DOMAIN w, w[i].kind = "row"
       PROVE  /\ w[i] = v[e[i]]
              /\ f = b => Earlier(w, i) \subseteq Earlier(v, e[i])
              /\ TRUE => Earlier(v, e[i]) \subseteq Earlier(w, i)
              /\ \A j \in DOMAIN w : j < i /\ w[j].kind = "row" => e[j] < e[i]
  <2>1. i \in 2 .. Len(w) /\ i \in 2 .. (Len(w) + 1) /\ e[i] = f + i - 1
    BY <1>11, <1>12, <1>13
  <2>2. ASSUME NEW j \in DOMAIN w, j < i, w[j].kind = "row" PROVE e[j] < e[i]
    <3>1. j \in 2 .. Len(w) /\ e[j] = f + j - 1
      BY <1>11, <1>12, <2>2
    <3>. QED
      BY <1>1, <1>10, <2>1, <2>2, <3>1
  <2>. QED
    BY <1>8, <1>9, <2>1, <2>2
<1>14. Earlier(w, Len(w) + 1) \subseteq Earlier(v, Len(v) + 1)
       /\ Earlier(v, Len(v) + 1) \subseteq Earlier(w, Len(w) + 1)
  <2>1. Len(w) + 1 \in 2 .. (Len(w) + 1) /\ f + (Len(w) + 1) - 1 = Len(v) + 1
    BY <1>1, <1>8, <1>10
  <2>. QED
    BY <1>9, <2>1
<1>15. Derived(w, v, TRUE, f = b)
  BY <1>11, <1>13, <1>14 DEF Derived
<1>. QED
  BY <1>2, <1>3, <1>7, <1>8, <1>15 DEF S, d, t, w

-----------------------------------------------------------------------------
(* What a reading puts first.                                                *)

LEMMA LesserIs ==
  ASSUME NEW a \in Nat, NEW b \in Nat
  PROVE  LET m == Min({a, b}) IN m \in {a, b} /\ m <= a /\ m <= b
<1>1. {a, b} \subseteq Nat /\ {a, b} # {}
  OBVIOUS
<1>. QED
  BY <1>1, LeastIs

\* What reading puts into a view.
LEMMA LeadIs ==
  ASSUME NEW c \in Record
  PROVE  LET lead == (IF todo THEN <<Reminder>> ELSE <<>>)
                      \o (IF c = NoRecord THEN <<>> ELSE <<Summary(c.covers)>>)
         IN /\ lead \in Seq(Piece)
            /\ \A i \in DOMAIN lead : lead[i].kind \in Leads
            /\ \A x : x \in c.covers <=> \E i \in DOMAIN lead : x \in Tells(lead[i])
<1>. DEFINE s == Summary(c.covers)
<1>1. Reminder \in Piece /\ Reminder.kind \in Leads /\ Tells(Reminder) = {}
  BY DEF Piece, Reminder, Leads, Tells, Digests
<1>2. s \in Piece /\ s.kind \in Leads /\ Tells(s) = c.covers
  BY DEF Piece, Summary, Leads, Tells, Digests, Record
<1>3. c = NoRecord => c.covers = {}
  BY DEF NoRecord
<1>. HIDE DEF s
<1>4. CASE todo /\ c = NoRecord
  <2>. DEFINE lead == <<Reminder>> \o <<>>
  <2>1. lead \in Seq(Piece) /\ DOMAIN lead = 1 .. 1 /\ lead[1] = Reminder
    BY <1>1
  <2>. HIDE DEF lead
  <2>2. \A i \in DOMAIN lead : lead[i] = Reminder
    BY <2>1
  <2>3. /\ lead \in Seq(Piece)
        /\ \A i \in DOMAIN lead : lead[i].kind \in Leads
        /\ \A x : x \in c.covers <=> \E i \in DOMAIN lead : x \in Tells(lead[i])
    BY <1>1, <1>3, <1>4, <2>1, <2>2
  <2>. QED
    BY <1>4, <2>3 DEF lead
<1>5. CASE todo /\ c # NoRecord
  <2>. DEFINE lead == <<Reminder>> \o <<s>>
  <2>1. lead \in Seq(Piece) /\ DOMAIN lead = 1 .. 2 /\ lead[1] = Reminder /\ lead[2] = s
    BY <1>1, <1>2
  <2>. HIDE DEF lead
  <2>2. 2 \in DOMAIN lead /\ \A i \in DOMAIN lead : lead[i] = Reminder \/ lead[i] = s
    BY <2>1
  <2>3. /\ lead \in Seq(Piece)
        /\ \A i \in DOMAIN lead : lead[i].kind \in Leads
        /\ \A x : x \in c.covers <=> \E i \in DOMAIN lead : x \in Tells(lead[i])
    BY <1>1, <1>2, <2>1, <2>2
  <2>. QED
    BY <1>5, <2>3 DEF lead, s
<1>6. CASE ~todo /\ c = NoRecord
  <2>. DEFINE lead == <<>> \o <<>>
  <2>1. lead \in Seq(Piece) /\ DOMAIN lead = {}
    OBVIOUS
  <2>. HIDE DEF lead
  <2>3. /\ lead \in Seq(Piece)
        /\ \A i \in DOMAIN lead : lead[i].kind \in Leads
        /\ \A x : x \in c.covers <=> \E i \in DOMAIN lead : x \in Tells(lead[i])
    BY <1>3, <1>6, <2>1
  <2>. QED
    BY <1>6, <2>3 DEF lead
<1>7. CASE ~todo /\ c # NoRecord
  <2>. DEFINE lead == <<>> \o <<s>>
  <2>1. lead \in Seq(Piece) /\ DOMAIN lead = 1 .. 1 /\ lead[1] = s
    BY <1>2
  <2>. HIDE DEF lead
  <2>2. 1 \in DOMAIN lead /\ \A i \in DOMAIN lead : lead[i] = s
    BY <2>1
  <2>3. /\ lead \in Seq(Piece)
        /\ \A i \in DOMAIN lead : lead[i].kind \in Leads
        /\ \A x : x \in c.covers <=> \E i \in DOMAIN lead : x \in Tells(lead[i])
    BY <1>2, <2>1, <2>2
  <2>. QED
    BY <1>7, <2>3 DEF lead, s
<1>. QED
  BY <1>4, <1>5, <1>6, <1>7

-----------------------------------------------------------------------------
(* What the reading of the rows gives.                                      *)

\* ReadRows gives a view that fits, with every message from the record's on in it.
LEMMA ReadView ==
  ASSUME HistoryInv, NEW r \in Reader, ReadRows(r)
  PROVE  \E c \in Record :
           /\ record' = Set(record, r, c) /\ (c = NoRecord \/ (c = record[r] /\ Usable(c)))
           /\ view'[r] \in Seq(Piece) /\ view' = [view EXCEPT ![r] = view'[r]]
           /\ Ordered(view'[r]) /\ RowsFit(view'[r], rows', cut[r])
           /\ ~c.late => /\ TellsFit(view'[r], c, rows', cut[r])
                         /\ cut[r] = NoCut => TellsAll(view'[r], c, rows')
           /\ \A q \in rows' : q.seq >= c.first /\ q.role # "tool" =>
                \E k \in DOMAIN view'[r] : view'[r][k] = Item(q)
<1>. DEFINE c == IF Usable(record[r]) THEN record[r] ELSE NoRecord
            healed == {Message("tool", m.id) : m \in Trailing}
            T == Shown(From(rows, c.first) \cup healed)
            lead == (IF todo THEN <<Reminder>> ELSE <<>>)
                      \o (IF c = NoRecord THEN <<>> ELSE <<Summary(c.covers)>>)
            v == lead \o Items(T)
            n == cut[r]
<1>1. RowsInv /\ CutInv /\ ReaderTypes /\ FetchInv
  BY DEF HistoryInv
<1>2. record[r] \in Record /\ view \in [Reader -> Seq(Piece)] /\ n \in 1 .. NoCut
  BY <1>1 DEF ReaderTypes, CutInv
<1>3. /\ pc[r] = "fetching" /\ rows' = rows \cup healed
      /\ record' = Set(record, r, c) /\ view' = Set(view, r, v)
  BY DEF ReadRows, Move
<1>4. c \in Record /\ c.first \in Nat /\ (c = NoRecord => c.first = 0 /\ c.covers = {} /\ ~c.late)
  <2>1. NoRecord \in Record
    BY HistoryAssumption DEF NoRecord, Record, Known
  <2>. QED
    BY <1>2, <2>1 DEF Record, NoRecord
<1>5. c = NoRecord \/ (c = record[r] /\ Usable(c) /\ c.first \in Numbers(rows) /\ c.first > 0)
  BY DEF Usable
<1>6. RowsInv' /\ rows' \subseteq Row /\ \A q, p \in rows' : q.seq = p.seq => q = p
  <2>1. RowsInv'
    BY <1>1, Heals
  <2>. QED
    BY <2>1 DEF RowsInv
<1>7. NextSeq \in Nat /\ (\A q \in rows : q.seq < NextSeq /\ q.seq \in Nat) /\ c.first <= NextSeq
  <2>1. NextSeq \in Nat /\ \A q \in rows : q.seq \in 1 .. (NextSeq - 1)
    BY <1>1 DEF RowsInv, Numbers
  <2>2. c.first \in Numbers(rows) => c.first \in 1 .. (NextSeq - 1)
    BY <1>1 DEF RowsInv
  <2>. QED
    BY <1>4, <1>5, <2>1, <2>2
<1>8. \A q \in healed : q.seq = NextSeq /\ q.role = "tool"
  BY DEF Message
<1>. HIDE DEF c, healed
<1>9. /\ T \subseteq rows' /\ \A q \in T : q.seq >= c.first
      /\ \A q \in rows' : q.seq >= c.first /\ q.role # "tool" => q \in T
  <2>1. \A q : q \in From(rows, c.first) \cup healed => q \in rows' /\ q.seq >= c.first
    BY <1>3, <1>4, <1>7, <1>8 DEF From
  <2>2. \A q \in rows' : q.seq >= c.first /\ q.role # "tool" => q \in From(rows, c.first) \cup healed
    BY <1>3, <1>8 DEF From
  <2>3. \A S : Shown(S) \subseteq S /\ \A q \in S : q.role # "tool" => q \in Shown(S)
    BY DEF Shown
  <2>. QED
    BY <2>1, <2>2, <2>3
<1>10. ASSUME ~c.late, c.first < n PROVE Accounts(c, Content(Before(rows', c.first)), c.covers)
  <2>1. Before(rows', c.first) = Before(rows, c.first)
    <3>1. \A q \in healed : ~ (q.seq < c.first)
      BY <1>4, <1>7, <1>8
    <3>. QED
      BY <1>3, <3>1 DEF Before
  <2>2. CASE c = NoRecord
    <3>1. \A q \in rows : ~ (q.seq < c.first)
      BY <1>4, <1>7, <2>2
    <3>2. Content(Before(rows, c.first)) = {}
      BY <3>1 DEF Before, Content, Ids
    <3>. QED
      BY <1>4, <2>1, <2>2, <3>2 DEF Accounts
  <2>3. CASE c # NoRecord
    <3>1. c = record[r] /\ c.first > 0
      BY <1>5, <2>3
    <3>2. Anchored(c)
      BY <1>1, <1>3, <1>10, <2>3, <3>1 DEF FetchInv
    <3>. QED
      BY <2>1, <3>2 DEF Anchored
  <2>. QED
    BY <2>2, <2>3
<1>11. /\ lead \in Seq(Piece) /\ \A i \in DOMAIN lead : lead[i].kind \in Leads
       /\ \A x : x \in c.covers <=> \E i \in DOMAIN lead : x \in Tells(lead[i])
  BY <1>4, LeadIs
<1>. HIDE DEF lead, T
<1>12. /\ v \in Seq(Piece) /\ Ordered(v) /\ RowsFit(v, rows', n)
       /\ (c.first < n => Accounts(c, Content(Before(rows', c.first)), c.covers)) =>
            TellsFit(v, c, rows', n) /\ (c.first < n => TellsAll(v, c, rows'))
       /\ \A q \in T : \E k \in DOMAIN v : v[k] = Item(q)
  <2>1. n \in Nat
    BY <1>2, HistoryAssumption DEF NoCut
  <2>. HIDE DEF n
  <2>. QED
    <3>1. ReadOf(rows', c, lead, T)
      BY <1>4, <1>6, <1>9, <1>11 DEF ReadOf
    <3>. QED
      BY <2>1, <3>1, ReadFits
<1>13. view'[r] = v /\ view' = [view EXCEPT ![r] = view'[r]]
  <2>. HIDE DEF v
  <2>. QED
    BY <1>2, <1>3 DEF Set
<1>14. n = NoCut => c.first < n
  BY <1>4, HistoryAssumption DEF NoCut, Record
<1>15. ~c.late => TellsFit(v, c, rows', n) /\ (n = NoCut => TellsAll(v, c, rows'))
  BY <1>10, <1>12, <1>14
<1>16. \A q \in rows' : q.seq >= c.first /\ q.role # "tool" => \E k \in DOMAIN v : v[k] = Item(q)
  BY <1>9, <1>12
<1>17. record' = Set(record, r, c) /\ (c = NoRecord \/ (c = record[r] /\ Usable(c)))
  BY <1>3, <1>5
<1>. HIDE DEF v
<1>. QED
  BY <1>4, <1>12, <1>13, <1>15, <1>16, <1>17

-----------------------------------------------------------------------------
(* The types of what a step makes.                                          *)

\* The record that is made of a batch has the type of one.
LEMMA MadeIs ==
  ASSUME ReaderTypes, RecordTypes, NEW r \in Reader, batch[r] > 0
  PROVE  Made(r) \in Record /\ batch[r] \in 1 .. Len(view[r]) /\ view[r] \in Seq(Piece)
         /\ Kept(r) \in Seq(Piece) /\ KeptFrom(r) \in 0 .. batch[r]
<1>0. view[r] \in Seq(Piece) /\ batch[r] \in 1 .. Len(view[r]) /\ record[r] \in Record /\ nextRecord \in Nat
  BY DEF ReaderTypes, RecordTypes
<1>1. KeptFrom(r) \in 0 .. batch[r]
  BY <1>0, RawIs DEF KeptFrom
<1>. HIDE DEF KeptFrom
<1>2. Kept(r) \in Seq(Piece) /\ Told(Batch(r)) \in Known
  BY <1>0, <1>1, SavedView DEF Kept, Batch
<1>3. FirstKept(Kept(r)) \in 0 .. MaxRows
  <2>1. 0 \in 0 .. MaxRows /\ \A q \in Row : q.seq \in 0 .. MaxRows
    BY HistoryAssumption DEF Row
  <2>. QED
    BY <1>2, <2>1, FirstKeptIs
<1>4. Made(r) \in Record
  <2>1. record[r].whole \in BOOLEAN /\ record[r].late \in BOOLEAN /\ record[r].again \in BOOLEAN
    BY <1>0 DEF Record
  <2>2. (record[r].whole /\ \A k \in Of(view[r], Digests) : k <= batch[r]) \in BOOLEAN
        /\ (record[r].late \/ FirstKept(Kept(r)) >= cut[r]) \in BOOLEAN
        /\ (record[r].again \/ KeptFrom(r) < batch[r]) \in BOOLEAN
    BY <2>1
  <2>. QED
    BY <1>0, <1>2, <1>3, <2>2 DEF Made, Record
<1>. QED
  BY <1>0, <1>1, <1>2, <1>4

LEMMA SaidView ==
  ASSUME NEW v \in Seq(Piece), NEW m \in Row, NEW extra \in {<<>>, <<Nudge>>}
  PROVE  LET w == v \o <<Item(m)>> IN
         /\ w \in Seq(Piece) /\ w \o extra \in Seq(Piece)
         /\ (extra = <<>> /\ w \o extra = w) \/ (extra = <<Nudge>> /\ w \o extra = w \o <<Nudge>>)
<1>1. Item(m) \in Piece /\ Nudge \in Piece
  BY DEF Piece
<1>2. <<Item(m)>> \in Seq(Piece) /\ <<Nudge>> \in Seq(Piece)
  BY <1>1
<1>. DEFINE w == v \o <<Item(m)>>
<1>3. w \in Seq(Piece)
  BY <1>2
<1>. HIDE DEF w
<1>4. w \o <<>> = w /\ w \o <<Nudge>> \in Seq(Piece)
  BY <1>2, <1>3, ConcatEmptySeq
<1>. QED
  BY <1>3, <1>4 DEF w

-----------------------------------------------------------------------------
(* The steps of a reader.                                                   *)

\* A step of reader r alone.
One(r, p, c, v, b) ==
  /\ pc' = [pc EXCEPT ![r] = p] /\ record' = [record EXCEPT ![r] = c]
  /\ view' = [view EXCEPT ![r] = v] /\ batch' = [batch EXCEPT ![r] = b]

Summing == {"summarising", "escalating"}

\* What One gives a reader must be of its type.
Fitting(p, c, v, b) ==
  /\ p \in Place /\ c \in Record /\ v \in Seq(Piece) /\ b \in Nat /\ b <= Len(v)
  /\ p \in Summing <=> b > 0

\* A step of one reader that is of the right types keeps the types.
LEMMA OneTypes ==
  ASSUME ReaderTypes, NEW r \in Reader, NEW p, NEW c, NEW v, NEW b, One(r, p, c, v, b), Fitting(p, c, v, b)
  PROVE  ReaderTypes'
<1>1. /\ pc' \in [Reader -> Place] /\ record' \in [Reader -> Record]
      /\ view' \in [Reader -> Seq(Piece)] /\ batch' \in [Reader -> Nat]
  BY DEF ReaderTypes, One, Fitting
<1>2. ASSUME NEW q \in Reader
      PROVE  batch'[q] <= Len(view'[q]) /\ (pc'[q] \in {"summarising", "escalating"} <=> batch'[q] > 0)
  <2>1. CASE q = r
    <3>1. pc'[q] = p /\ view'[q] = v /\ batch'[q] = b
      BY <2>1 DEF One, ReaderTypes
    <3>. QED
      BY <3>1 DEF Fitting, Summing
  <2>2. CASE q # r
    <3>1. pc'[q] = pc[q] /\ view'[q] = view[q] /\ batch'[q] = batch[q]
      BY <2>2 DEF One, ReaderTypes
    <3>. QED
      BY <3>1 DEF ReaderTypes
  <2>. QED
    BY <2>1, <2>2
<1>. QED
  BY <1>1, <1>2 DEF ReaderTypes

\* The state a reader has before it begins.
LEMMA ForgetTypes ==
  ASSUME ReaderTypes, NEW R, Forget(R)
  PROVE  /\ ReaderTypes'
         /\ \A q \in Reader :
              \/ /\ q \in R /\ pc'[q] = "idle" /\ record'[q] = NoRecord /\ view'[q] = <<>> /\ batch'[q] = 0
                 /\ cut'[q] = NoCut
              \/ /\ q \notin R /\ pc'[q] = pc[q] /\ record'[q] = record[q] /\ view'[q] = view[q]
                 /\ batch'[q] = batch[q] /\ cut'[q] = cut[q]
<1>1. NoRecord \in Record /\ <<>> \in Seq(Piece) /\ 0 \in Nat /\ Len(<<>>) = 0 /\ "idle" \in Place \ Summing
  BY HistoryAssumption DEF NoRecord, Record, Known, Place, Summing
<1>2. /\ pc' = [q \in Reader |-> IF q \in R THEN "idle" ELSE pc[q]]
      /\ record' = [q \in Reader |-> IF q \in R THEN NoRecord ELSE record[q]]
      /\ view' = [q \in Reader |-> IF q \in R THEN <<>> ELSE view[q]]
      /\ batch' = [q \in Reader |-> IF q \in R THEN 0 ELSE batch[q]]
      /\ cut' = [q \in Reader |-> IF q \in R THEN NoCut ELSE cut[q]]
  BY DEF Forget
<1>3. \A q \in Reader :
        \/ /\ q \in R /\ pc'[q] = "idle" /\ record'[q] = NoRecord /\ view'[q] = <<>> /\ batch'[q] = 0
           /\ cut'[q] = NoCut
        \/ /\ q \notin R /\ pc'[q] = pc[q] /\ record'[q] = record[q] /\ view'[q] = view[q]
           /\ batch'[q] = batch[q] /\ cut'[q] = cut[q]
  BY <1>2
<1>4. /\ pc' \in [Reader -> Place] /\ record' \in [Reader -> Record]
      /\ view' \in [Reader -> Seq(Piece)] /\ batch' \in [Reader -> Nat]
  BY <1>1, <1>2 DEF ReaderTypes
<1>5. ReaderTypes'
  <2>. SUFFICES ASSUME NEW q \in Reader
                PROVE  batch'[q] <= Len(view'[q]) /\ (pc'[q] \in {"summarising", "escalating"} <=> batch'[q] > 0)
    BY <1>4 DEF ReaderTypes
  <2>1. CASE q \in R
    BY <1>1, <1>3, <2>1 DEF Summing
  <2>2. CASE q \notin R
    BY <1>3, <2>2 DEF ReaderTypes
  <2>. QED
    BY <2>1, <2>2
<1>. QED
  BY <1>3, <1>5

\* The step each action makes.
Same(r) == One(r, pc[r], record[r], view[r], batch[r])

LEMMA SameIs ==
  ASSUME ReaderTypes, NEW r \in Reader
  PROVE  /\ record = [record EXCEPT ![r] = record[r]] /\ view = [view EXCEPT ![r] = view[r]]
         /\ batch = [batch EXCEPT ![r] = batch[r]] /\ pc = [pc EXCEPT ![r] = pc[r]]
         /\ Fitting(pc[r], record[r], view[r], batch[r])
<1>1. /\ record = [record EXCEPT ![r] = record[r]] /\ view = [view EXCEPT ![r] = view[r]]
      /\ batch = [batch EXCEPT ![r] = batch[r]] /\ pc = [pc EXCEPT ![r] = pc[r]]
  BY DEF ReaderTypes
<1>2. Fitting(pc[r], record[r], view[r], batch[r])
  BY DEF ReaderTypes, Fitting, Summing
<1>. QED
  BY <1>1, <1>2

LEMMA BeginOne ==
  ASSUME ReaderTypes, NEW r \in Reader, Begin(r)
  PROVE  One(r, "reading", record[r], view[r], batch[r]) /\ Fitting("reading", record[r], view[r], batch[r])
         /\ pc[r] = "idle" /\ cut' = cut
<1>1. pc[r] = "idle" /\ pc' = Set(pc, r, "reading") /\ UNCHANGED <<record, view, batch, cut>>
  BY DEF Begin, Move
<1>. QED
  BY <1>1, SameIs DEF One, Set, Fitting, Place, Summing

LEMMA LatestIs ==
  ASSUME RecordTypes
  PROVE  Latest \in Record /\ (Latest = NoRecord \/ (Latest \in records /\ Latest.first > 0))
<1>1. CASE records = {}
  <2>1. NoRecord \in Record
    BY HistoryAssumption DEF NoRecord, Record, Known
  <2>. QED
    BY <1>1, <2>1 DEF Latest
<1>2. CASE records # {}
  <2>. DEFINE S == {c.id : c \in records}
              n == nextRecord - 1
  <2>1. n \in Nat /\ S \subseteq 1 .. n /\ S # {}
    BY <1>2 DEF RecordTypes
  <2>. HIDE DEF S, n
  <2>2. Max(S) \in S /\ \A y \in S : Max(S) >= y
    BY <2>1, MaxProperties
  <2>3. PICK c \in records : c.id = Max(S)
    BY <2>2 DEF S
  <2>4. \A d \in records : d.id \in S /\ d.id <= c.id
    <3>1. \A d \in records : d.id \in S
      BY DEF S
    <3>2. \A d \in records : d.id \in Nat
      BY DEF RecordTypes
    <3>. QED
      BY <2>2, <2>3, <3>1, <3>2
  <2>5. Latest \in records
    BY <1>2, <2>4 DEF Latest
  <2>. QED
    BY <2>5 DEF RecordTypes
<1>. QED
  BY <1>1, <1>2

LEMMA ReadRecordOne ==
  ASSUME ReaderTypes, RecordTypes, NEW r \in Reader, ReadRecord(r)
  PROVE  /\ One(r, "fetching", Latest, view[r], batch[r]) /\ Fitting("fetching", Latest, view[r], batch[r])
         /\ pc[r] = "reading" /\ cut' = cut
<1>1. /\ pc[r] = "reading" /\ pc' = Set(pc, r, "fetching") /\ record' = Set(record, r, Latest)
      /\ UNCHANGED <<view, batch, cut>>
  BY DEF ReadRecord, Move
<1>2. Latest \in Record
  BY LatestIs
<1>3. Fitting("fetching", Latest, view[r], batch[r])
  BY <1>1, <1>2, SameIs DEF Fitting, Place, Summing
<1>. QED
  BY <1>1, <1>3, SameIs DEF One, Set

LEMMA ReadRowsOne ==
  ASSUME HistoryInv, NEW r \in Reader, ReadRows(r)
  PROVE  \E c \in Record :
           /\ One(r, "starting", c, view'[r], batch[r]) /\ Fitting("starting", c, view'[r], batch[r])
           /\ c = NoRecord \/ (c = record[r] /\ Usable(c))
           /\ Ordered(view'[r]) /\ RowsFit(view'[r], rows', cut[r])
           /\ ~c.late => /\ TellsFit(view'[r], c, rows', cut[r])
                         /\ cut[r] = NoCut => TellsAll(view'[r], c, rows')
           /\ \A q \in rows' : q.seq >= c.first /\ q.role # "tool" =>
                \E k \in DOMAIN view'[r] : view'[r][k] = Item(q)
<1>1. PICK c \in Record :
           /\ record' = Set(record, r, c) /\ (c = NoRecord \/ (c = record[r] /\ Usable(c)))
           /\ view'[r] \in Seq(Piece) /\ view' = [view EXCEPT ![r] = view'[r]]
           /\ Ordered(view'[r]) /\ RowsFit(view'[r], rows', cut[r])
           /\ ~c.late => /\ TellsFit(view'[r], c, rows', cut[r])
                         /\ cut[r] = NoCut => TellsAll(view'[r], c, rows')
           /\ \A q \in rows' : q.seq >= c.first /\ q.role # "tool" =>
                \E k \in DOMAIN view'[r] : view'[r][k] = Item(q)
  BY ReadView
<1>2. ReaderTypes
  BY DEF HistoryInv
<1>3. pc[r] = "fetching" /\ pc' = Set(pc, r, "starting") /\ batch' = batch
  BY DEF ReadRows, Move
<1>4. batch[r] = 0 /\ batch = [batch EXCEPT ![r] = batch[r]]
  <2>1. batch[r] \in Nat /\ ~ (batch[r] > 0)
    BY <1>2, <1>3 DEF ReaderTypes
  <2>. QED
    BY <1>2, <2>1, SameIs
<1>5. One(r, "starting", c, view'[r], batch[r])
  BY <1>1, <1>3, <1>4 DEF One, Set
<1>6. Fitting("starting", c, view'[r], batch[r])
  BY <1>1, <1>4 DEF Fitting, Place, Summing
<1>. QED
  BY <1>1, <1>5, <1>6

LEMMA FitsOne ==
  ASSUME ReaderTypes, NEW r \in Reader, Fits(r)
  PROVE  \E p \in {"done", "model", "draining"} :
           /\ One(r, p, record[r], view[r], batch[r]) /\ Fitting(p, record[r], view[r], batch[r])
           /\ Working(r) /\ cut' = cut
<1>1. pc[r] \in {"starting", "between"} /\ pc' = Set(pc, r, After(r)) /\ UNCHANGED <<record, view, batch, cut>>
  BY DEF Fits
<1>2. After(r) \in {"done", "model", "draining"}
  BY AfterIs
<1>. HIDE DEF After
<1>3. One(r, After(r), record[r], view[r], batch[r])
  BY <1>1, SameIs DEF One, Set
<1>4. Fitting(After(r), record[r], view[r], batch[r])
  BY <1>1, <1>2, SameIs DEF Fitting, Place, Summing
<1>. QED
  BY <1>1, <1>2, <1>3, <1>4 DEF Working

LEMMA SummariseOne ==
  ASSUME ReaderTypes, NEW r \in Reader, Summarise(r)
  PROVE  \E p \in Summing, b \in Nat :
           /\ One(r, p, record[r], view[r], b) /\ Fitting(p, record[r], view[r], b)
           /\ BatchStops(view[r], b) /\ Working(r) /\ cut' = cut
<1>1. PICK p \in Summing : pc[r] \in {"starting", "between"} /\ pc' = Set(pc, r, p)
  BY DEF Summarise, Move, Summing
<1>2. PICK t : Boundary(view[r], t) > 0 /\ batch' = Set(batch, r, Boundary(view[r], t))
  BY DEF Summarise
<1>. DEFINE b == Boundary(view[r], t)
<1>3. UNCHANGED <<record, view, cut>>
  BY DEF Summarise
<1>4. view[r] \in Seq(Piece)
  BY DEF ReaderTypes
<1>5. b \in 0 .. Len(view[r]) /\ BatchStops(view[r], b)
  BY <1>4, BoundaryIs
<1>. HIDE DEF b
<1>6. One(r, p, record[r], view[r], b)
  BY <1>1, <1>2, <1>3, SameIs DEF One, Set, b
<1>7. Fitting(p, record[r], view[r], b)
  BY <1>1, <1>2, <1>4, <1>5, SameIs DEF Fitting, Place, Summing, b
<1>. QED
  BY <1>1, <1>3, <1>5, <1>6, <1>7 DEF Working

LEMMA SaveOne ==
  ASSUME ReaderTypes, RecordTypes, NEW r \in Reader, SaveRecord(r)
  PROVE  \E p \in {"done", "model", "draining"} :
           LET v == <<Summary(Told(Batch(r)))>> \o Kept(r) IN
           /\ One(r, p, Made(r), v, 0) /\ Fitting(p, Made(r), v, 0)
           /\ batch[r] \in 1 .. Len(view[r]) /\ Working(r) /\ cut' = cut
<1>1. /\ pc[r] \in {"summarising", "escalating"} /\ pc' = Set(pc, r, After(r))
      /\ view' = Set(view, r, <<Summary(Told(Batch(r)))>> \o Kept(r))
      /\ record' = Set(record, r, Made(r)) /\ batch' = Set(batch, r, 0) /\ cut' = cut
  BY DEF SaveRecord
<1>2. After(r) \in {"done", "model", "draining"}
  BY AfterIs
<1>3. batch[r] > 0
  BY <1>1 DEF ReaderTypes
<1>4. Made(r) \in Record /\ batch[r] \in 1 .. Len(view[r]) /\ view[r] \in Seq(Piece)
  BY <1>3, MadeIs
<1>5. <<Summary(Told(Batch(r)))>> \o Kept(r) \in Seq(Piece)
  <2>1. KeptFrom(r) \in 0 .. batch[r]
    BY <1>3, MadeIs
  <2>. HIDE DEF KeptFrom
  <2>. QED
    BY <1>4, <2>1, SavedView DEF Batch, Kept
<1>. DEFINE v == <<Summary(Told(Batch(r)))>> \o Kept(r)
<1>. HIDE DEF After, v
<1>6. One(r, After(r), Made(r), v, 0)
  BY <1>1 DEF One, Set, v
<1>7. Fitting(After(r), Made(r), v, 0)
  <2>1. Len(v) \in Nat /\ v \in Seq(Piece)
    BY <1>5 DEF v
  <2>. QED
    BY <1>2, <1>4, <2>1 DEF Fitting, Place, Summing
<1>. QED
  BY <1>1, <1>2, <1>4, <1>6, <1>7 DEF Working, v

LEMMA TruncateOne ==
  ASSUME ReaderTypes, NEW r \in Reader, Truncate(r)
  PROVE  \E p \in {"done", "model", "draining"}, D \in Dropped(view[r]) :
           LET v == Trim(view[r], D)
               c == [record[r] EXCEPT !.whole = @ /\ D = {}]
           IN
           /\ One(r, p, c, v, 0) /\ Fitting(p, c, v, 0)
           /\ Working(r) /\ cut' = cut
<1>1. PICK D \in Dropped(view[r]) :
        /\ view' = Set(view, r, Trim(view[r], D))
        /\ record' = Set(record, r, [record[r] EXCEPT !.whole = @ /\ D = {}])
  BY DEF Truncate
<1>2. /\ pc[r] \in {"starting", "between", "summarising", "escalating"} /\ pc' = Set(pc, r, After(r))
      /\ batch' = Set(batch, r, 0) /\ cut' = cut
  BY DEF Truncate
<1>3. After(r) \in {"done", "model", "draining"}
  BY AfterIs
<1>. DEFINE v == Trim(view[r], D)
            c == [record[r] EXCEPT !.whole = @ /\ D = {}]
<1>4. v \in Seq(Piece)
  <2>1. view[r] \in Seq(Piece)
    BY DEF ReaderTypes
  <2>. QED
    BY <2>1, TrimIs
<1>5. c \in Record
  <2>1. record[r] \in Record
    BY DEF ReaderTypes
  <2>2. (record[r].whole /\ D = {}) \in BOOLEAN
    BY <2>1 DEF Record
  <2>. QED
    BY <2>1, <2>2 DEF Record
<1>. HIDE DEF After, v, c
<1>6. One(r, After(r), c, v, 0)
  BY <1>1, <1>2 DEF One, Set, v, c
<1>7. Fitting(After(r), c, v, 0)
  <2>1. Len(v) \in Nat
    BY <1>4
  <2>. QED
    BY <1>3, <1>4, <1>5, <2>1 DEF Fitting, Place, Summing
<1>. QED
  BY <1>2, <1>3, <1>6, <1>7 DEF Working, v, c

-----------------------------------------------------------------------------
(* The steps of a turn.                                                     *)

\* LastUser is the place of the last stored user message, or 0 if there is none.
LEMMA LastUserIs ==
  ASSUME NEW v \in Seq(Piece)
  PROVE  /\ LastUser(v) = 0 \/ Lasts(v, LastUser(v))
         /\ \A u : Lasts(v, u) => LastUser(v) = u
<1>. DEFINE S == {k \in DOMAIN v : IsRow(v, k, "user")}
            T == {0} \cup S
<1>1. Len(v) \in Nat /\ DOMAIN v = 1 .. Len(v) /\ S \subseteq 1 .. Len(v)
  OBVIOUS
<1>2. LastUser(v) = Max(T)
  BY DEF LastUser
<1>3. \A u \in S : u >= 0
  BY <1>1
<1>4. \A u : u \in T /\ (\A y \in T : u >= y) => Max(T) = u
  <2>. SUFFICES ASSUME NEW u, u \in T, \A y \in T : u >= y PROVE Max(T) = u
    OBVIOUS
  <2>1. T \subseteq Nat
    BY <1>1
  <2>2. \A x \in T : (\A y \in T : x >= y) => x = u
    <3>. HIDE DEF S
    <3>. QED
      BY <2>1
  <2>. HIDE DEF T
  <2>. QED
    BY <2>2 DEF Max
<1>5. \A u : Lasts(v, u) => LastUser(v) = u
  <2>. SUFFICES ASSUME NEW u, Lasts(v, u) PROVE LastUser(v) = u
    OBVIOUS
  <2>1. u \in S /\ \A y \in S : y <= u
    BY DEF Lasts
  <2>2. u \in T /\ \A y \in T : u >= y
    BY <1>1, <1>3, <2>1
  <2>. QED
    BY <1>2, <1>4, <2>2
<1>6. CASE S = {}
  <2>1. 0 \in T /\ \A y \in T : 0 >= y
    BY <1>6
  <2>. QED
    BY <1>2, <1>4, <1>5, <2>1
<1>7. CASE S # {}
  <2>. DEFINE u == Max(S)
  <2>. HIDE DEF S
  <2>1. u \in S /\ \A y \in S : u >= y
    BY <1>1, <1>7, MaxProperties
  <2>. HIDE DEF u
  <2>2. Lasts(v, u)
    <3>1. \A y \in S : y <= u
      BY <1>1, <2>1
    <3>. QED
      BY <2>1, <3>1 DEF Lasts, S
  <2>. QED
    BY <1>5, <2>2
<1>. QED
  BY <1>6, <1>7

\* An escalated summary takes the place of items behind the last user message.
LEMMA CondenseOne ==
  ASSUME ReaderTypes, Condense
  PROVE  \E v \in Seq(Piece), u \in Nat, n \in Nat, d \in Piece :
           /\ One("turn", "draining", record["turn"], v, 0) /\ Fitting("draining", record["turn"], v, 0)
           /\ Working("turn") /\ cut' = cut
           /\ view["turn"] \in Seq(Piece) /\ u = LastUser(view["turn"]) /\ Lasts(view["turn"], u)
           /\ u < n /\ n <= Len(view["turn"])
           /\ d.kind = "checkpoint" /\ d.covers = Told(SubSeq(view["turn"], u + 1, n))
           /\ Digested(v, view["turn"], u, n, d)
<1>. DEFINE w == view["turn"]
            u == LastUser(w)
            d(n) == Checkpoint(Told(SubSeq(w, u + 1, n)))
            v(n) == SubSeq(w, 1, u) \o <<d(n)>> \o SubSeq(w, n + 1, Len(w))
<1>0. "turn" \in Reader
  BY DEF Reader
<1>1. /\ pc["turn"] = "between" /\ pc' = Set(pc, "turn", "draining") /\ u > 0
      /\ UNCHANGED <<record, batch, cut>>
  BY DEF Condense, Move
<1>2. PICK n \in {g - 1 : g \in GroupStarts(w) \cup {Len(w) + 1}} :
        /\ n >= (IF u < Len(w) /\ w[u + 1].kind = "checkpoint" THEN u + 2 ELSE u + 1)
        /\ view' = Set(view, "turn", v(n))
  BY DEF Condense
<1>3. w \in Seq(Piece)
  BY <1>0 DEF ReaderTypes
<1>4. Lasts(w, u) /\ u \in 1 .. Len(w)
  <2>1. LastUser(w) = 0 \/ Lasts(w, LastUser(w))
    BY <1>3, LastUserIs
  <2>. HIDE DEF w
  <2>. QED
    BY <1>1, <1>3, <2>1 DEF Lasts
<1>5. n \in Nat /\ n <= Len(w) /\ u < n
  <2>1. GroupStarts(w) \subseteq 1 .. Len(w)
    BY <1>3 DEF GroupStarts
  <2>2. n + 1 \in 1 .. (Len(w) + 1) /\ n \in Int
    BY <1>3, <1>2, <2>1
  <2>. HIDE DEF u, w
  <2>. QED
    BY <1>2, <1>3, <1>4, <2>2
<1>6. Told(SubSeq(w, u + 1, n)) \in Known
  <2>1. Earlier(w, u + 1) \cup Told(SubSeq(w, u + 1, n)) = Earlier(w, n + 1)
    <3>1. u \in 0 .. Len(w) /\ n \in u .. Len(w)
      BY <1>3, <1>4, <1>5
    <3>. HIDE DEF u, w
    <3>. QED
      BY <1>3, <3>1, ToldBetween
  <2>2. Earlier(w, n + 1) \in Known
    BY <1>3, EarlierType
  <2>. QED
    BY <2>1, <2>2 DEF Known
<1>7. d(n) \in Piece /\ d(n).kind = "checkpoint" /\ d(n).covers = Told(SubSeq(w, u + 1, n))
  BY <1>6 DEF Piece, Checkpoint
<1>8. Digested(v(n), w, u, n, d(n))
  <2>1. u \in 0 .. Len(w) /\ n \in u .. Len(w)
    BY <1>3, <1>4, <1>5
  <2>. HIDE DEF u, w, d
  <2>. QED
    BY <1>3, <1>7, <2>1, DigestedIs
<1>9. v(n) \in Seq(Piece)
  BY <1>8 DEF Digested
<1>10. batch["turn"] = 0
  <2>1. batch["turn"] \in Nat /\ ~ (batch["turn"] > 0)
    BY <1>0, <1>1 DEF ReaderTypes
  <2>. QED
    BY <2>1
<1>11. /\ record = [record EXCEPT !["turn"] = record["turn"]] /\ batch = [batch EXCEPT !["turn"] = 0]
       /\ record["turn"] \in Record
  BY <1>0, <1>10, SameIs DEF ReaderTypes
<1>12. Len(v(n)) \in Nat
  BY <1>9
<1>13. Lasts(view["turn"], u) /\ u = LastUser(view["turn"]) /\ u \in Nat
  BY <1>4
<1>. HIDE DEF v, d, u
<1>14. One("turn", "draining", record["turn"], v(n), 0)
  BY <1>1, <1>2, <1>11 DEF One, Set
<1>15. Fitting("draining", record["turn"], v(n), 0)
  BY <1>9, <1>11, <1>12 DEF Fitting, Place, Summing
<1>16. Working("turn")
  BY <1>1 DEF Working
<1>. QED
  BY <1>1, <1>3, <1>5, <1>7, <1>8, <1>9, <1>13, <1>14, <1>15, <1>16

\* What a turn says goes to the end of its view and of the thread.
LEMMA SayOne ==
  ASSUME HistoryInv, Call \/ Steer \/ Result \/ Answer
  PROVE  \E m \in Row, extra \in {<<>>, <<Nudge>>}, to \in {"tools", "draining", "between", "done"} :
           LET w == view["turn"] \o <<Item(m)>> \o extra IN
           /\ One("turn", to, record["turn"], w, 0) /\ Fitting(to, record["turn"], w, 0)
           /\ Stores(m) /\ Working("turn") /\ cut' = cut
           /\ view["turn"] \in Seq(Piece) /\ batch["turn"] = 0
           /\ m.role = "tool" => pc["turn"] = "tools" /\ m.call = view["turn"][Len(view["turn"])].row.id
           /\ to = "tools" => m.role = "calls" /\ extra = <<>>
<1>1. PICK role \in Role, call \in 0 .. MaxRows, extra \in {<<>>, <<Nudge>>},
           to \in {"tools", "draining", "between", "done"} :
        /\ SayWith(Message(role, call), extra, to)
        /\ pc["turn"] \in {"model", "draining", "tools"}
        /\ role = "tool" <=> pc["turn"] = "tools"
        /\ role = "tool" => call = view["turn"][Len(view["turn"])].row.id
        /\ to = "tools" => role = "calls" /\ extra = <<>>
  BY Says
<1>. DEFINE m == Message(role, call)
            w == view["turn"] \o <<Item(m)>> \o extra
<1>2. ReaderTypes /\ RowsInv /\ "turn" \in Reader
  BY DEF HistoryInv, Reader
<1>3. Stores(m)
  BY <1>1, <1>2, SaysOne
<1>4. m.role = role /\ m.call = call
  BY DEF Message
<1>5. /\ pc' = Set(pc, "turn", to) /\ view' = Set(view, "turn", w)
      /\ UNCHANGED <<record, batch, cut>>
  BY <1>1 DEF SayWith
<1>. HIDE DEF m
<1>6. m \in Row
  BY <1>3 DEF Stores, Behind
<1>7. w \in Seq(Piece) /\ view["turn"] \in Seq(Piece) /\ Len(w) \in Nat
  <2>1. view["turn"] \in Seq(Piece)
    BY <1>2 DEF ReaderTypes
  <2>2. w \in Seq(Piece)
    BY <1>6, <2>1, SaidView
  <2>. HIDE DEF w
  <2>. QED
    BY <2>1, <2>2
<1>. HIDE DEF w
<1>8. batch["turn"] = 0
  <2>1. batch["turn"] \in Nat /\ ~ (batch["turn"] > 0)
    BY <1>1, <1>2 DEF ReaderTypes
  <2>. QED
    BY <2>1
<1>9. /\ record = [record EXCEPT !["turn"] = record["turn"]] /\ batch = [batch EXCEPT !["turn"] = 0]
      /\ record["turn"] \in Record
  BY <1>2, <1>8, SameIs DEF ReaderTypes
<1>10. One("turn", to, record["turn"], w, 0)
  BY <1>5, <1>9 DEF One, Set
<1>11. Fitting(to, record["turn"], w, 0)
  BY <1>7, <1>9 DEF Fitting, Place, Summing
<1>12. Working("turn") /\ cut' = cut
  BY <1>1, <1>5 DEF Working
<1>. QED
  BY <1>1, <1>3, <1>4, <1>6, <1>7, <1>8, <1>10, <1>11, <1>12 DEF w

-----------------------------------------------------------------------------
(* The kinds of steps, and the types.                                       *)

\* One reader goes on.
Goes(r) ==
  /\ \E p, c, v, b : p \in Place \ {"idle"} /\ One(r, p, c, v, b) /\ Fitting(p, c, v, b)
  /\ pc[r] = "idle" => undo.at = "idle"
  /\ cut' = cut /\ undo' = undo

ReaderActs(r) ==
  ReadRecord(r) \/ ReadRows(r) \/ Fits(r) \/ Summarise(r) \/ SaveRecord(r) \/ Truncate(r)

\* Whatever a reader does, it is a step of its own of the right types.
LEMMA ActsGo ==
  ASSUME HistoryInv, NEW r \in Reader, ReaderActs(r)
  PROVE  Goes(r) /\ pc[r] # "idle"
<1>0. ReaderTypes /\ RecordTypes
  BY DEF HistoryInv
<1>1. cut' = cut /\ undo' = undo /\ pc[r] # "idle"
  BY DEF ReaderActs, ReadRecord, ReadRows, Fits, Summarise, SaveRecord, Truncate, Move
<1>2. \A p : p \in {"fetching", "starting", "done", "model", "draining"} \cup Summing => p \in Place \ {"idle"}
  BY DEF Place, Summing
<1>3. CASE ReadRecord(r)
  <2>1. One(r, "fetching", Latest, view[r], batch[r]) /\ Fitting("fetching", Latest, view[r], batch[r])
    BY <1>0, <1>3, ReadRecordOne
  <2>. QED
    BY <1>1, <1>2, <2>1 DEF Goes
<1>4. CASE ReadRows(r)
  <2>1. PICK c : One(r, "starting", c, view'[r], batch[r]) /\ Fitting("starting", c, view'[r], batch[r])
    BY <1>4, ReadRowsOne
  <2>. QED
    BY <1>1, <1>2, <2>1 DEF Goes
<1>5. CASE Fits(r)
  <2>1. PICK p \in {"done", "model", "draining"} :
          One(r, p, record[r], view[r], batch[r]) /\ Fitting(p, record[r], view[r], batch[r])
    BY <1>0, <1>5, FitsOne
  <2>. QED
    BY <1>1, <1>2, <2>1 DEF Goes
<1>6. CASE Summarise(r)
  <2>1. PICK p, b : p \in Summing /\ One(r, p, record[r], view[r], b) /\ Fitting(p, record[r], view[r], b)
    BY <1>0, <1>6, SummariseOne
  <2>. QED
    BY <1>1, <1>2, <2>1 DEF Goes
<1>7. CASE SaveRecord(r)
  <2>1. PICK p \in {"done", "model", "draining"} :
          LET v == <<Summary(Told(Batch(r)))>> \o Kept(r) IN
          One(r, p, Made(r), v, 0) /\ Fitting(p, Made(r), v, 0)
    BY <1>0, <1>7, SaveOne
  <2>. QED
    BY <1>1, <1>2, <2>1 DEF Goes
<1>8. CASE Truncate(r)
  <2>1. PICK p \in {"done", "model", "draining"}, D \in Dropped(view[r]) :
          LET v == Trim(view[r], D)
              c == [record[r] EXCEPT !.whole = @ /\ D = {}]
          IN One(r, p, c, v, 0) /\ Fitting(p, c, v, 0)
    BY <1>0, <1>8, TruncateOne
  <2>. QED
    BY <1>1, <1>2, <2>1 DEF Goes
<1>. QED
  BY <1>3, <1>4, <1>5, <1>6, <1>7, <1>8 DEF ReaderActs

TurnActs == Condense \/ Call \/ Steer \/ Result \/ Answer

LEMMA TurnGoes ==
  ASSUME HistoryInv, TurnActs
  PROVE  Goes("turn") /\ pc["turn"] # "idle"
<1>0. ReaderTypes
  BY DEF HistoryInv
<1>1. cut' = cut /\ undo' = undo
  BY DEF TurnActs, Condense, Call, Steer, Result, Answer, Say, SayWith
<1>2. \A p : p \in {"tools", "draining", "between", "done"} => p \in Place \ {"idle"}
  BY DEF Place
<1>3. CASE Condense
  <2>1. PICK v : One("turn", "draining", record["turn"], v, 0) /\ Fitting("draining", record["turn"], v, 0)
                 /\ Working("turn")
    BY <1>0, <1>3, CondenseOne
  <2>. QED
    BY <1>1, <1>2, <2>1 DEF Goes, Working
<1>4. CASE Call \/ Steer \/ Result \/ Answer
  <2>1. PICK m \in Row, extra \in {<<>>, <<Nudge>>}, to \in {"tools", "draining", "between", "done"} :
           LET w == view["turn"] \o <<Item(m)>> \o extra IN
           One("turn", to, record["turn"], w, 0) /\ Fitting(to, record["turn"], w, 0) /\ Working("turn")
    BY <1>4, SayOne
  <2>. QED
    BY <1>1, <1>2, <2>1 DEF Goes, Working
<1>. QED
  BY <1>3, <1>4 DEF TurnActs

LEMMA BeginGoes ==
  ASSUME HistoryInv, NEW r \in Reader, Begin(r)
  PROVE  Goes(r) /\ pc[r] = "idle" /\ pc'[r] = "reading"
<1>1. One(r, "reading", record[r], view[r], batch[r]) /\ Fitting("reading", record[r], view[r], batch[r])
      /\ pc[r] = "idle" /\ cut' = cut
  BY BeginOne DEF HistoryInv
<1>2. undo.at = "idle" /\ undo' = undo
  BY DEF Begin
<1>3. "reading" \in Place \ {"idle"}
  BY DEF Place
<1>4. pc'[r] = "reading"
  BY <1>1 DEF One, HistoryInv, ReaderTypes
<1>. QED
  BY <1>1, <1>2, <1>3, <1>4 DEF Goes

\* What the readers do leave alone.
Rests == UNCHANGED readerVars

\* All steps are of these kinds.
LEMMA Kinds ==
  ASSUME HistoryInv, [Next]_vars
  PROVE  \/ \E r \in Reader : Goes(r)
         \/ \E R \in SUBSET Reader : Forget(R) /\ (undo' = undo \/ undo' = [at |-> "idle", seq |-> 0])
         \/ Rests /\ (undo' = undo \/ UndoReads \/ UndoInvalidates)
         \/ UndoDeletes
<1>1. CASE BeginTurn \/ BeginCompress
  BY <1>1, BeginGoes DEF BeginTurn, BeginCompress, Reader
<1>2. ASSUME NEW r \in Reader, ReaderActs(r) PROVE Goes(r)
  BY <1>2, ActsGo
<1>3. CASE TurnActs
  BY <1>3, TurnGoes DEF Reader
<1>4. CASE LeaveWithMail \/ Crash \/ \E r \in Reader : Leave(r)
  <2>1. \A r \in Reader : {r} \in SUBSET Reader
    OBVIOUS
  <2>2. "turn" \in Reader /\ Reader \in SUBSET Reader
    BY DEF Reader
  <2>3. CASE LeaveWithMail
    <3>1. Forget({"turn"}) /\ undo' = undo
      BY <2>3 DEF LeaveWithMail
    <3>. QED
      BY <2>1, <2>2, <3>1
  <2>4. CASE Crash
    <3>1. Forget(Reader) /\ undo' = [at |-> "idle", seq |-> 0]
      BY <2>4 DEF Crash
    <3>. QED
      BY <2>2, <3>1
  <2>5. CASE \E r \in Reader : Leave(r)
    <3>1. PICK r \in Reader : Forget({r}) /\ undo' = undo
      BY <2>5 DEF Leave
    <3>. QED
      BY <2>1, <3>1
  <2>. QED
    BY <1>4, <2>3, <2>4, <2>5
<1>5. CASE UndoReads \/ UndoInvalidates \/ Rename \/ TitleArrives \/ UNCHANGED vars
  BY <1>5 DEF UndoReads, UndoInvalidates, Rename, TitleArrives, vars, Rests
<1>. QED
  BY <1>1, <1>2, <1>3, <1>4, <1>5 DEF Next, TurnActs, ReaderActs

LEMMA ReaderTypesNext ==
  ASSUME HistoryInv, [Next]_vars
  PROVE  ReaderTypes'
<1>0. ReaderTypes
  BY DEF HistoryInv
<1>1. CASE \E r \in Reader : Goes(r)
  BY <1>0, <1>1, OneTypes DEF Goes
<1>2. CASE \E R \in SUBSET Reader : Forget(R)
  BY <1>0, <1>2, ForgetTypes
<1>3. CASE UNCHANGED <<pc, record, view, batch>>
  BY <1>0, <1>3 DEF ReaderTypes
<1>. QED
  BY <1>1, <1>2, <1>3, Kinds DEF Rests, readerVars, UndoDeletes

LEMMA RecordTypesNext ==
  ASSUME HistoryInv, [Next]_vars
  PROVE  RecordTypes'
<1>0. ReaderTypes /\ RecordTypes
  BY DEF HistoryInv
<1>1. CASE UNCHANGED recordVars
  BY <1>0, <1>1 DEF RecordTypes, recordVars
<1>2. ASSUME NEW r \in Reader, SaveRecord(r) PROVE RecordTypes'
  <2>1. batch[r] \in 1 .. Len(view[r])
    BY <1>0, <1>2, SaveOne
  <2>2. Made(r) \in Record
    <3>1. view[r] \in Seq(Piece)
      BY <1>0 DEF ReaderTypes
    <3>2. batch[r] > 0
      BY <2>1, <3>1
    <3>. QED
      BY <1>0, <3>2, MadeIs
  <2>3. /\ nextRecord' = nextRecord + 1
        /\ records' = records \/ (Made(r).first > 0 /\ records' = records \cup {Made(r)})
    BY <1>2 DEF SaveRecord
  <2>4. Made(r).id = nextRecord
    BY DEF Made
  <2>5. nextRecord \in Nat \ {0} /\ records \subseteq Record
        /\ \A c \in records : c.first > 0 /\ c.id \in 1 .. (nextRecord - 1)
    BY <1>0 DEF RecordTypes
  <2>. HIDE DEF Made
  <2>6. records' \subseteq Record /\ nextRecord' \in Nat \ {0}
    BY <2>2, <2>3, <2>5
  <2>7. \A c \in records' : c.first > 0 /\ (c.id = nextRecord \/ c.id \in 1 .. (nextRecord - 1))
    BY <2>3, <2>4, <2>5
  <2>8. (1 .. (nextRecord - 1)) \cup {nextRecord} = 1 .. (nextRecord' - 1)
    BY <2>3, <2>5
  <2>. QED
    BY <2>6, <2>7, <2>8 DEF RecordTypes
<1>3. CASE UndoInvalidates
  BY <1>0, <1>3 DEF UndoInvalidates, RecordTypes
<1>4. CASE Crash
  <2>1. /\ records' = {[c EXCEPT !.late = @ \/ (undo.at = "invalidating" /\ Invalid(c))] : c \in records}
        /\ nextRecord' = nextRecord
    BY <1>4 DEF Crash
  <2>. DEFINE F(c) == [c EXCEPT !.late = @ \/ (undo.at = "invalidating" /\ Invalid(c))]
  <2>2. \A c \in records : F(c) \in Record /\ F(c).id = c.id /\ F(c).first = c.first
    <3>1. \A c \in records : c \in Record
      BY <1>0 DEF RecordTypes
    <3>. QED
      BY <3>1 DEF Record
  <2>. HIDE DEF F
  <2>3. records' = {F(c) : c \in records}
    BY <2>1 DEF F
  <2>. QED
    BY <1>0, <2>1, <2>2, <2>3 DEF RecordTypes
<1>5. ASSUME NEW r \in Reader, ReadRecord(r) \/ ReadRows(r) \/ Fits(r) \/ Summarise(r) \/ Truncate(r) \/ Leave(r)
      PROVE  UNCHANGED recordVars
  BY <1>5 DEF ReadRecord, ReadRows, Fits, Summarise, Truncate, Leave
<1>6. CASE \/ BeginTurn \/ BeginCompress \/ TurnActs \/ LeaveWithMail \/ UndoReads \/ UndoDeletes
           \/ Rename \/ TitleArrives \/ UNCHANGED vars
  <2>1. UNCHANGED recordVars
    BY <1>6 DEF BeginTurn, BeginCompress, Begin, TurnActs, Condense, Call, Steer, Result, Answer, Say,
                SayWith, LeaveWithMail, UndoReads, UndoDeletes, Rename, TitleArrives, vars
  <2>. QED
    BY <1>1, <2>1
<1>. QED
  BY <1>1, <1>2, <1>3, <1>4, <1>5, <1>6 DEF Next, TurnActs

-----------------------------------------------------------------------------
(* What an undo took.                                                       *)

\* Unless an undo deletes, the thread grows by at most one.
LEMMA Grows ==
  ASSUME HistoryInv, [Next]_vars, ~ UndoDeletes
  PROVE  /\ NextSeq' \in {NextSeq, NextSeq + 1} /\ NextSeq \in Nat \ {0}
         /\ Keeps \/ \E m : Stores(m)
<1>1. NextSeq \in Nat \ {0}
  <2>1. NextSeq \in 1 .. nextId /\ nextId \in 1 .. (MaxRows + 1)
    BY DEF HistoryInv, RowsInv
  <2>. QED
    BY <2>1, HistoryAssumption
<1>2. Keeps \/ \E m : Stores(m)
  BY RowsNext
<1>. QED
  BY <1>1, <1>2 DEF Keeps, Stores

LEMMA UndoReadsIs ==
  ASSUME HistoryInv, UndoReads
  PROVE  undo'.at = "deleting" /\ undo'.seq \in 1 .. (NextSeq - 1)
         /\ undo' \in [at : {"idle", "deleting", "invalidating"}, seq : 0 .. MaxRows]
<1>. DEFINE users == {r \in rows : r.role = "user"}
            n == NextSeq - 1
<1>1. n \in Nat /\ n <= MaxRows
  <2>1. NextSeq \in 1 .. nextId /\ nextId \in 1 .. (MaxRows + 1)
    BY DEF HistoryInv, RowsInv
  <2>. HIDE DEF n
  <2>. QED
    BY <2>1, HistoryAssumption DEF n
<1>2. Numbers(users) \subseteq 1 .. n /\ Numbers(users) # {}
  <2>1. Numbers(rows) = 1 .. n
    BY DEF HistoryInv, RowsInv
  <2>2. users # {}
    BY DEF UndoReads
  <2>. HIDE DEF n
  <2>. QED
    BY <2>1, <2>2 DEF Numbers
<1>3. undo' = [at |-> "deleting", seq |-> Max(Numbers(users))]
  BY DEF UndoReads
<1>. HIDE DEF n, users
<1>4. Max(Numbers(users)) \in 1 .. n
  BY <1>1, <1>2, MaxProperties
<1>. QED
  BY <1>1, <1>3, <1>4, HistoryAssumption DEF n

\* What an undo deletes, and what it takes from the readers.
LEMMA UndoDeletesIs ==
  ASSUME HistoryInv, UndoDeletes
  PROVE  /\ rows' = rows \ From(rows, undo.seq) /\ NextSeq' = undo.seq /\ nextId' = nextId
         /\ undo.seq \in 1 .. (NextSeq - 1) /\ undo.seq \in 1 .. MaxRows /\ undo'.at = "invalidating"
         /\ undo.at = "deleting" /\ undo'.seq = undo.seq
         /\ UNCHANGED <<records, pc, record, view, batch>>
         /\ torn' = torn \cup Ids({r \in From(rows, undo.seq) : r.role = "calls"})
         /\ \A r \in Reader :
              \/ pc[r] = "idle" /\ cut'[r] = NoCut
              \/ pc[r] # "idle" /\ cut'[r] \in 1 .. MaxRows /\ cut'[r] <= cut[r] /\ cut'[r] <= undo.seq
         /\ cut' \in [Reader -> 1 .. NoCut]
<1>0. RowsInv /\ CutInv /\ ReaderTypes
  BY DEF HistoryInv
<1>1. /\ rows' = rows \ From(rows, undo.seq) /\ NextSeq' = undo.seq /\ nextId' = nextId
      /\ undo.seq \in 1 .. (NextSeq - 1)
  BY <1>0, UndoCuts
<1>2. undo.seq \in 1 .. MaxRows /\ MaxRows \in Nat
  <2>1. NextSeq \in 1 .. nextId /\ nextId \in 1 .. (MaxRows + 1)
    BY <1>0 DEF RowsInv
  <2>. QED
    BY <1>1, <2>1, HistoryAssumption
<1>3. /\ undo.at = "deleting" /\ undo' = [undo EXCEPT !.at = "invalidating"]
      /\ UNCHANGED <<records, pc, record, view, batch>>
      /\ torn' = torn \cup Ids({r \in From(rows, undo.seq) : r.role = "calls"})
      /\ cut' = [r \in Reader |-> IF pc[r] = "idle" THEN NoCut ELSE Min({cut[r], undo.seq})]
  BY DEF UndoDeletes, recordVars
<1>4. undo'.at = "invalidating" /\ undo'.seq = undo.seq
  BY <1>0, <1>3 DEF CutInv
<1>5. \A r \in Reader :
              \/ pc[r] = "idle" /\ cut'[r] = NoCut
              \/ pc[r] # "idle" /\ cut'[r] \in 1 .. MaxRows /\ cut'[r] <= cut[r] /\ cut'[r] <= undo.seq
  <2>. SUFFICES ASSUME NEW r \in Reader, pc[r] # "idle"
                PROVE  cut'[r] \in 1 .. MaxRows /\ cut'[r] <= cut[r] /\ cut'[r] <= undo.seq
    BY <1>3
  <2>1. cut[r] \in 1 .. NoCut /\ cut[r] \in Nat
    BY <1>0, <1>2 DEF CutInv, NoCut
  <2>. DEFINE m == Min({cut[r], undo.seq})
  <2>2. m \in {cut[r], undo.seq} /\ m <= cut[r] /\ m <= undo.seq
    BY <1>2, <2>1, LesserIs
  <2>3. cut'[r] = m
    BY <1>3
  <2>. HIDE DEF m
  <2>. QED
    BY <1>2, <2>1, <2>2, <2>3
<1>6. cut' \in [Reader -> 1 .. NoCut]
  <2>1. \A r \in Reader : cut'[r] \in 1 .. NoCut
    BY <1>2, <1>5 DEF NoCut
  <2>2. cut' = [r \in Reader |-> cut'[r]]
    BY <1>3
  <2>. QED
    BY <2>1, <2>2
<1>. QED
  BY <1>1, <1>2, <1>3, <1>4, <1>5, <1>6

\* CutInv is kept.
LEMMA CutNext ==
  ASSUME HistoryInv, [Next]_vars
  PROVE  CutInv'
<1>0. CutInv /\ ReaderTypes
  BY DEF HistoryInv
<1>1. CASE UndoDeletes
  <2>1. /\ undo' \in [at : {"idle", "deleting", "invalidating"}, seq : 0 .. MaxRows]
    BY <1>0, <1>1, UndoDeletesIs DEF CutInv, UndoDeletes
  <2>2. undo'.at = "invalidating" /\ undo'.seq = NextSeq' /\ NextSeq' \in 1 .. MaxRows /\ pc' = pc
        /\ cut' \in [Reader -> 1 .. NoCut]
    BY <1>1, UndoDeletesIs
  <2>3. \A r \in Reader :
              \/ pc[r] = "idle" /\ cut'[r] = NoCut
              \/ pc[r] # "idle" /\ cut'[r] <= NextSeq'
    BY <1>1, UndoDeletesIs
  <2>. QED
    BY <2>1, <2>2, <2>3 DEF CutInv
<1>2. CASE ~ UndoDeletes
  <2>0. NextSeq' \in {NextSeq, NextSeq + 1} /\ NextSeq \in Nat \ {0}
    BY <1>2, Grows
  <2>00. \A r \in Reader : cut[r] \in 1 .. NoCut /\ NoCut \in Nat /\ cut[r] \in Nat
    BY <1>0, HistoryAssumption DEF CutInv, NoCut
  <2>000. \A s : (s \in 1 .. (NextSeq - 1) => s \in 1 .. (NextSeq' - 1)) /\ (s \in 1 .. NextSeq => s \in 1 .. NextSeq')
    BY <2>0
  <2>01. undo \in [at : {"idle", "deleting", "invalidating"}, seq : 0 .. MaxRows]
    BY <1>0 DEF CutInv
  <2>1. ASSUME NEW r \in Reader, Goes(r) PROVE CutInv'
    <3>1. cut' = cut /\ undo' = undo /\ (pc[r] = "idle" => undo.at = "idle")
      BY <2>1 DEF Goes
    <3>2. /\ pc'[r] # "idle" /\ \A q \in Reader : q # r => pc'[q] = pc[q]
      BY <1>0, <2>1 DEF Goes, One, ReaderTypes
    <3>3. undo'.at = "deleting" => undo'.seq \in 1 .. (NextSeq' - 1)
      BY <1>0, <2>000, <3>1 DEF CutInv
    <3>4. undo'.at = "invalidating" =>
            undo'.seq \in 1 .. NextSeq' /\ \A q \in Reader : pc'[q] # "idle" => cut'[q] <= undo'.seq
      BY <1>0, <2>000, <3>1, <3>2 DEF CutInv
    <3>5. \A q \in Reader : cut'[q] = NoCut \/ (cut'[q] <= NextSeq' /\ pc'[q] # "idle")
      <4>. SUFFICES ASSUME NEW q \in Reader, cut[q] # NoCut PROVE cut[q] <= NextSeq' /\ pc'[q] # "idle"
        BY <3>1
      <4>1. cut[q] <= NextSeq /\ pc[q] # "idle"
        BY <1>0 DEF CutInv
      <4>. QED
        BY <2>0, <2>00, <3>2, <4>1
    <3>6. cut' \in [Reader -> 1 .. NoCut]
      BY <1>0, <3>1 DEF CutInv
    <3>. QED
      BY <2>01, <3>1, <3>3, <3>4, <3>5, <3>6 DEF CutInv
  <2>2. ASSUME NEW R \in SUBSET Reader, Forget(R), undo' = undo \/ undo' = [at |-> "idle", seq |-> 0]
        PROVE  CutInv'
    <3>1. \A q \in Reader :
              \/ pc'[q] = "idle" /\ cut'[q] = NoCut
              \/ pc'[q] = pc[q] /\ cut'[q] = cut[q]
      BY <1>0, <2>2, ForgetTypes
    <3>2. undo' \in [at : {"idle", "deleting", "invalidating"}, seq : 0 .. MaxRows]
      BY <2>2, <2>01, HistoryAssumption
    <3>3. undo'.at = "deleting" => undo'.seq \in 1 .. (NextSeq' - 1)
      BY <1>0, <2>000, <2>2 DEF CutInv
    <3>4. undo'.at = "invalidating" =>
            undo'.seq \in 1 .. NextSeq' /\ \A q \in Reader : pc'[q] # "idle" => cut'[q] <= undo'.seq
      BY <1>0, <2>000, <2>2, <3>1 DEF CutInv
    <3>5. \A q \in Reader : cut'[q] = NoCut \/ (cut'[q] <= NextSeq' /\ pc'[q] # "idle")
      <4>. SUFFICES ASSUME NEW q \in Reader, cut'[q] # NoCut PROVE cut[q] <= NextSeq' /\ pc'[q] # "idle" /\ cut'[q] = cut[q]
        BY <3>1
      <4>1. cut[q] <= NextSeq /\ pc[q] # "idle" /\ cut'[q] = cut[q] /\ pc'[q] = pc[q]
        BY <1>0, <3>1 DEF CutInv
      <4>. QED
        BY <2>0, <2>00, <4>1
    <3>6. cut' \in [Reader -> 1 .. NoCut]
      <4>1. cut' = [q \in Reader |-> IF q \in R THEN NoCut ELSE cut[q]]
        BY <2>2 DEF Forget
      <4>2. NoCut \in 1 .. NoCut
        BY HistoryAssumption DEF NoCut
      <4>. QED
        BY <2>00, <4>1, <4>2
    <3>. QED
      BY <3>2, <3>3, <3>4, <3>5, <3>6 DEF CutInv
  <2>3. CASE Rests /\ (undo' = undo \/ UndoReads \/ UndoInvalidates)
    <3>1. cut' = cut /\ pc' = pc
      BY <2>3 DEF Rests, readerVars
    <3>2. \A q \in Reader : cut[q] = NoCut \/ (cut[q] <= NextSeq' /\ pc[q] # "idle")
      <4>. SUFFICES ASSUME NEW q \in Reader, cut[q] # NoCut PROVE cut[q] <= NextSeq' /\ pc[q] # "idle"
        OBVIOUS
      <4>1. cut[q] <= NextSeq /\ pc[q] # "idle"
        BY <1>0 DEF CutInv
      <4>. QED
        BY <2>0, <2>00, <4>1
    <3>3. CASE undo' = undo
      BY <1>0, <2>000, <3>1, <3>2, <3>3 DEF CutInv
    <3>4. CASE UndoReads
      <4>1. undo'.at = "deleting" /\ undo'.seq \in 1 .. (NextSeq - 1)
            /\ undo' \in [at : {"idle", "deleting", "invalidating"}, seq : 0 .. MaxRows]
        BY <3>4, UndoReadsIs
      <4>2. undo'.seq \in 1 .. (NextSeq' - 1)
        BY <2>000, <4>1
      <4>. QED
        BY <1>0, <3>1, <3>2, <4>1, <4>2 DEF CutInv
    <3>5. CASE UndoInvalidates
      <4>1. undo' = [at |-> "idle", seq |-> 0]
        BY <3>5 DEF UndoInvalidates
      <4>2. undo' \in [at : {"idle", "deleting", "invalidating"}, seq : 0 .. MaxRows] /\ undo'.at = "idle"
        BY <4>1, HistoryAssumption
      <4>. QED
        BY <1>0, <3>1, <3>2, <4>2 DEF CutInv
    <3>. QED
      BY <2>3, <3>3, <3>4, <3>5
  <2>. QED
    BY <1>2, <2>1, <2>2, <2>3, Kinds
<1>. QED
  BY <1>1, <1>2

-----------------------------------------------------------------------------
(* The views, step by step.                                                 *)

\* A reader's view stays right while others act.
Stays(q) ==
  view'[q] = view[q] /\ record'[q] = record[q] /\ cut'[q] = cut[q]

\* Types of what belongs to a reader.
LEMMA RowFacts ==
  ASSUME HistoryInv, NEW q \in Reader
  PROVE  /\ view[q] \in Seq(Piece) /\ record[q] \in Record /\ batch[q] \in Nat /\ cut[q] \in Nat
         /\ cut[q] \in 1 .. NoCut /\ rows \subseteq Row /\ NextSeq \in Nat /\ NextSeq <= NoCut
         /\ cut[q] = NoCut \/ cut[q] <= NextSeq
         /\ \A x \in rows : x.seq < NextSeq
<1>1. NoCut \in Nat /\ NoCut = MaxRows + 1 /\ MaxRows \in Nat
  BY HistoryAssumption DEF NoCut
<1>2. view[q] \in Seq(Piece) /\ record[q] \in Record /\ batch[q] \in Nat
  BY DEF HistoryInv, ReaderTypes
<1>3. cut[q] \in 1 .. NoCut /\ (cut[q] = NoCut \/ cut[q] <= NextSeq)
  BY DEF HistoryInv, CutInv
<1>4. NextSeq \in 1 .. nextId /\ nextId \in 1 .. (MaxRows + 1) /\ rows \subseteq Row
  BY DEF HistoryInv, RowsInv
<1>5. NextSeq \in Nat /\ NextSeq <= NoCut
  BY <1>1, <1>4
<1>6. \A x \in rows : x.seq \in 1 .. (NextSeq - 1)
  BY DEF HistoryInv, RowsInv, Numbers
<1>. QED
  BY <1>1, <1>2, <1>3, <1>4, <1>5, <1>6

\* A view that is left alone fits the rows others store.
LEMMA StaysFits ==
  ASSUME HistoryInv, NEW q \in Reader, ViewInv(q), Stays(q),
         Keeps \/ \E m : Stores(m) /\ (q = "turn" => m.role = "tool")
  PROVE  ViewRows(q)' /\ ViewTells(q)' /\ Ordered(view[q])'
<1>. DEFINE v == view[q]
            c == record[q]
            n == cut[q]
<1>1. v \in Seq(Piece)
  BY RowFacts
<1>2. RowsFit(v, rows, n) /\ Ordered(v)
      /\ (~c.late => TellsFit(v, c, rows, n) /\ (q = "turn" /\ n = NoCut => TellsAll(v, c, rows)))
  BY DEF ViewInv, ViewRows, ViewTells
<1>3. view'[q] = v /\ record'[q] = c /\ cut'[q] = n
  BY DEF Stays
<1>. HIDE DEF v, c, n
<1>4. RowsFit(v, rows', n)
      /\ (~c.late => TellsFit(v, c, rows', n) /\ (q = "turn" /\ n = NoCut => TellsAll(v, c, rows')))
  <2>1. CASE Keeps
    BY <1>2, <2>1 DEF Keeps
  <2>2. ASSUME NEW m, Stores(m), q = "turn" => m.role = "tool"
        PROVE  RowsFit(v, rows', n)
            /\ (~c.late => TellsFit(v, c, rows', n) /\ (q = "turn" /\ n = NoCut => TellsAll(v, c, rows')))
    <3>1. Behind(rows, m) /\ rows' = rows \cup {m}
      BY <2>2 DEF Stores
    <3>2. /\ RowsFit(v, rows \cup {m}, n)
          /\ TellsFit(v, c, rows, n) => TellsFit(v, c, rows \cup {m}, n)
          /\ m.role = "tool" /\ TellsAll(v, c, rows) => TellsAll(v, c, rows \cup {m})
      BY <1>1, <1>2, <3>1, StoredFits
    <3>. QED
      BY <1>2, <2>2, <3>1, <3>2
  <2>. QED
    BY <2>1, <2>2
<1>. QED
  BY <1>2, <1>3, <1>4 DEF ViewRows, ViewTells

\* What an undo takes from the thread it takes from what is asked of the view.
LEMMA CutsFits ==
  ASSUME HistoryInv, NEW q \in Reader, ViewInv(q), pc[q] # "idle", UndoDeletes
  PROVE  ViewInv(q)'
<1>. DEFINE v == view[q]
            c == record[q]
            n == cut[q]
            l == cut'[q]
            b == undo.seq
<1>1. v \in Seq(Piece) /\ ViewRowType(v) /\ rows \subseteq Row /\ n \in Nat
  BY RowFacts, RowPieces
<1>2. RowsFit(v, rows, n) /\ Ordered(v) /\ (batch[q] > 0 => BatchStops(v, batch[q]))
      /\ (~c.late => TellsFit(v, c, rows, n))
  BY DEF ViewInv, ViewRows, ViewTells
<1>3. /\ rows' = rows \ From(rows, b) /\ b \in 1 .. MaxRows
      /\ UNCHANGED <<record, view, batch>>
      /\ l \in 1 .. MaxRows /\ l <= n /\ l <= b
  BY UndoDeletesIs
<1>4. b \in Nat /\ l \in Nat /\ l # NoCut
  BY <1>3, HistoryAssumption DEF NoCut
<1>. HIDE DEF v, c, n, l, b
<1>5. /\ RowsFit(v, rows', l)
      /\ TellsFit(v, c, rows, n) => TellsFit(v, c, rows', l)
  BY <1>1, <1>2, <1>3, <1>4, CutFits
<1>6. view'[q] = v /\ record'[q] = c /\ batch'[q] = batch[q] /\ cut'[q] = l
  BY <1>3 DEF v, c, l
<1>. QED
  BY <1>2, <1>4, <1>5, <1>6 DEF ViewInv, ViewRows, ViewTells

\* What One leaves of the acting reader and of the other.
LEMMA OneIs ==
  ASSUME HistoryInv, NEW r \in Reader, NEW p, NEW c, NEW v, NEW b, One(r, p, c, v, b), cut' = cut
  PROVE  /\ pc'[r] = p /\ record'[r] = c /\ view'[r] = v /\ batch'[r] = b
         /\ \A q \in Reader : q # r => Stays(q) /\ pc'[q] = pc[q] /\ batch'[q] = batch[q]
BY DEF One, Stays, HistoryInv, ReaderTypes

LEMMA ReadRowsView ==
  ASSUME HistoryInv, NEW r \in Reader, ReadRows(r)
  PROVE  ViewInv(r)'
<1>1. PICK c \in Record :
           /\ One(r, "starting", c, view'[r], batch[r]) /\ Fitting("starting", c, view'[r], batch[r])
           /\ Ordered(view'[r]) /\ RowsFit(view'[r], rows', cut[r])
           /\ ~c.late => /\ TellsFit(view'[r], c, rows', cut[r])
                         /\ cut[r] = NoCut => TellsAll(view'[r], c, rows')
  BY ReadRowsOne
<1>2. cut' = cut
  BY DEF ReadRows
<1>3. record'[r] = c /\ batch'[r] = batch[r]
  BY <1>1, <1>2, OneIs
<1>4. ~ (batch[r] > 0)
  BY <1>1 DEF Fitting, Summing
<1>. QED
  BY <1>1, <1>2, <1>3, <1>4 DEF ViewInv, ViewRows, ViewTells

LEMMA FitsView ==
  ASSUME HistoryInv, NEW r \in Reader, ViewInv(r), Fits(r)
  PROVE  ViewInv(r)'
<1>0. ReaderTypes
  BY DEF HistoryInv
<1>1. PICK p \in {"done", "model", "draining"} : One(r, p, record[r], view[r], batch[r]) /\ cut' = cut
  BY <1>0, FitsOne
<1>2. Stays(r) /\ batch'[r] = batch[r] /\ Keeps
  <2>1. Keeps
    BY Kept0 DEF Fits
  <2>. QED
    BY <1>1, <2>1, OneIs DEF Stays
<1>3. ViewRows(r)' /\ ViewTells(r)' /\ Ordered(view[r])'
  BY <1>2, StaysFits
<1>. QED
  BY <1>2, <1>3 DEF ViewInv, Stays

LEMMA SummariseView ==
  ASSUME HistoryInv, NEW r \in Reader, ViewInv(r), Summarise(r)
  PROVE  ViewInv(r)'
<1>0. ReaderTypes
  BY DEF HistoryInv
<1>1. PICK p \in Summing, b \in Nat : One(r, p, record[r], view[r], b) /\ BatchStops(view[r], b) /\ cut' = cut
  BY <1>0, SummariseOne
<1>2. Stays(r) /\ batch'[r] = b /\ Keeps
  <2>1. Keeps
    BY Kept0 DEF Summarise
  <2>. QED
    BY <1>1, <2>1, OneIs DEF Stays
<1>3. ViewRows(r)' /\ ViewTells(r)' /\ Ordered(view[r])'
  BY <1>2, StaysFits
<1>. QED
  BY <1>1, <1>2, <1>3 DEF ViewInv, Stays

\* A view that is derived from one that fits fits.
LEMMA DerivedView ==
  ASSUME HistoryInv, NEW r \in Reader, ViewInv(r), NEW full \in BOOLEAN, NEW sole \in BOOLEAN,
         Derived(view'[r], view[r], full, sole),
         record[r].late => record'[r].late, record'[r].whole => record[r].whole /\ full,
         record[r].again \/ ~sole => record'[r].again,
         cut'[r] = cut[r], Keeps
  PROVE  ViewRows(r)' /\ ViewTells(r)'
<1>. DEFINE v == view[r]
            w == view'[r]
            c == record[r]
            d == record'[r]
            n == cut[r]
<1>1. RowsFit(v, rows, n)
      /\ (~c.late => TellsFit(v, c, rows, n) /\ (r = "turn" /\ n = NoCut => TellsAll(v, c, rows)))
  BY DEF ViewInv, ViewRows, ViewTells
<1>2. Derived(w, v, full, sole) /\ (c.late => d.late) /\ (d.whole => c.whole /\ full)
      /\ (c.again \/ ~sole => d.again)
  OBVIOUS
<1>. HIDE DEF v, c, n, w, d
<1>3. RowsFit(w, rows, n)
  BY <1>1, <1>2, DerivedRows
<1>4. /\ TellsFit(v, c, rows, n) => TellsFit(w, d, rows, n)
      /\ TellsAll(v, c, rows) => TellsAll(w, d, rows)
  BY <1>2, DerivedTells
<1>5. view'[r] = w /\ record'[r] = d /\ cut'[r] = n /\ rows' = rows
  BY DEF w, d, n, Keeps
<1>. QED
  BY <1>1, <1>2, <1>3, <1>4, <1>5 DEF ViewRows, ViewTells

\* A view with a summary in the place of its batch fits, for the batch stops before
\* the rows that are kept.
LEMMA SaveView ==
  ASSUME HistoryInv, NEW r \in Reader, ViewInv(r), SaveRecord(r)
  PROVE  ViewInv(r)'
<1>. DEFINE v == view[r]
            b == batch[r]
            f == KeptFrom(r)
            d == Summary(Told(SubSeq(v, 1, b)))
            w == <<d>> \o SubSeq(v, f + 1, Len(v))
<1>0. ReaderTypes /\ RecordTypes
  BY DEF HistoryInv
<1>1. PICK p : One(r, p, Made(r), w, 0) /\ b \in 1 .. Len(v) /\ cut' = cut
  BY <1>0, SaveOne DEF Batch, Kept
<1>2. v \in Seq(Piece) /\ Ordered(v) /\ f \in 0 .. b
  <2>1. v \in Seq(Piece) /\ Ordered(v)
    BY <1>0 DEF ReaderTypes, ViewInv
  <2>2. batch[r] > 0
    BY <1>1, <2>1
  <2>. QED
    BY <1>0, <2>1, <2>2, MadeIs
<1>. HIDE DEF f
<1>3. d \in Piece /\ Digested(w, v, 0, f, d) /\ Derived(w, v, TRUE, f = b) /\ w \in Seq(Piece)
  <2>. HIDE DEF v, b
  <2>. QED
    BY <1>1, <1>2, SavedView
<1>4. record'[r] = Made(r) /\ view'[r] = w /\ batch'[r] = 0
  <2>. HIDE DEF w
  <2>. QED
    BY <1>1, OneIs
<1>5. (record[r].late => Made(r).late) /\ (Made(r).whole => record[r].whole)
      /\ (record[r].again \/ ~ (f = b) => Made(r).again)
  <2>1. b \in Nat /\ f \in Nat /\ f <= b
    BY <1>1, <1>2
  <2>2. f < b => Made(r).again
    BY DEF Made, f
  <2>3. (record[r].late => Made(r).late) /\ (Made(r).whole => record[r].whole)
        /\ (record[r].again => Made(r).again)
    BY DEF Made
  <2>. HIDE DEF v, b
  <2>. QED
    BY <2>1, <2>2, <2>3
<1>6. Keeps
  BY Kept0 DEF SaveRecord
<1>7. Ordered(w)
  <2>1. w[1] = d /\ Len(w) = 1 + Len(v) - f /\ \A i \in 2 .. Len(w) : w[i] = v[f + i - 1]
    <3>1. Digested(w, v, 0, f, d)
      BY <1>3
    <3>2. f \in Nat /\ Len(v) \in Nat
      BY <1>1, <1>2
    <3>. HIDE DEF w, v, b, d
    <3>3. 0 + 1 = 1 /\ 0 + 2 = 2
      OBVIOUS
    <3>. QED
      BY <3>1, <3>2, <3>3 DEF Digested
  <2>2. d.kind \in Leads /\ d.kind # "row"
    BY DEF Summary, Leads
  <2>3. f \in Nat /\ f <= Len(v) /\ Len(v) \in Nat /\ DOMAIN v = 1 .. Len(v) /\ DOMAIN w = 1 .. Len(w)
    BY <1>1, <1>2, <1>3
  <2>. HIDE DEF w, v, b, d
  <2>4. \A i \in 2 .. Len(w) : f + i - 1 \in DOMAIN v
    BY <2>1, <2>3
  <2>5. ASSUME NEW j \in DOMAIN w, NEW k \in DOMAIN w, j < k, w[k].kind \in Leads
        PROVE  w[j].kind \in Leads
    <3>1. CASE j = 1
      BY <2>1, <2>2, <3>1
    <3>2. CASE j # 1
      <4>1. j \in 2 .. Len(w) /\ k \in 2 .. Len(w)
        BY <2>1, <2>3, <2>5, <3>2
      <4>2. f + j - 1 \in DOMAIN v /\ f + k - 1 \in DOMAIN v /\ f + j - 1 < f + k - 1
        BY <2>3, <2>4, <2>5, <4>1
      <4>3. w[j] = v[f + j - 1] /\ w[k] = v[f + k - 1]
        BY <2>1, <4>1
      <4>. QED
        BY <1>2, <2>5, <4>2, <4>3 DEF Ordered, Leading
    <3>. QED
      BY <3>1, <3>2
  <2>6. ASSUME NEW j \in DOMAIN w, NEW k \in DOMAIN w, Lasts(w, j), j < k, w[k].kind = "checkpoint"
        PROVE  k = j + 1
    <3>1. j \in 2 .. Len(w) /\ k \in 2 .. Len(w)
      BY <2>1, <2>2, <2>3, <2>6 DEF Lasts, IsRow
    <3>2. f + j - 1 \in DOMAIN v /\ f + k - 1 \in DOMAIN v /\ f + j - 1 < f + k - 1
      BY <2>3, <2>4, <2>6, <3>1
    <3>3. w[j] = v[f + j - 1] /\ w[k] = v[f + k - 1]
      BY <2>1, <3>1
    <3>4. Lasts(v, f + j - 1)
      <4>1. IsRow(v, f + j - 1, "user")
        BY <2>6, <3>3 DEF Lasts, IsRow
      <4>2. ASSUME NEW i \in DOMAIN v, IsRow(v, i, "user"), ~ (i <= f + j - 1) PROVE FALSE
        <5>1. i - f + 1 \in 2 .. Len(w) /\ f + (i - f + 1) - 1 = i /\ ~ (i - f + 1 <= j)
          BY <2>1, <2>3, <3>1, <4>2
        <5>2. w[i - f + 1] = v[i] /\ i - f + 1 \in DOMAIN w
          BY <2>1, <2>3, <5>1
        <5>. QED
          BY <2>6, <4>2, <5>1, <5>2 DEF Lasts, IsRow
      <4>. QED
        BY <3>2, <4>1, <4>2 DEF Lasts
    <3>5. f + k - 1 = (f + j - 1) + 1
      BY <1>2, <2>6, <3>2, <3>3, <3>4 DEF Ordered, Marked
    <3>. QED
      BY <2>3, <3>1, <3>5
  <2>. QED
    BY <2>5, <2>6 DEF Ordered, Leading, Marked
<1>. HIDE DEF w, v, b
<1>8. ViewRows(r)' /\ ViewTells(r)'
  <2>. DEFINE sole == f = b
  <2>1. Derived(view'[r], view[r], TRUE, sole) /\ (record[r].late => record'[r].late)
        /\ (record'[r].whole => record[r].whole /\ TRUE) /\ cut'[r] = cut[r]
        /\ (record[r].again \/ ~sole => record'[r].again)
    BY <1>1, <1>3, <1>4, <1>5 DEF v
  <2>2. sole \in BOOLEAN
    OBVIOUS
  <2>. HIDE DEF sole
  <2>. QED
    BY <1>6, <2>1, <2>2, DerivedView
<1>9. Ordered(view[r])' /\ ~ (batch'[r] > 0)
  BY <1>4, <1>7
<1>. QED
  BY <1>8, <1>9 DEF ViewInv

\* What is left out of a view is not its last stored user message, so that a checkpoint
\* behind that one stays where it was.
LEMMA PicksMarked ==
  ASSUME NEW v \in Seq(Piece), NEW w \in Seq(Piece), NEW e, Picks(w, v, e), Marked(v), NEW D,
         LastUser(v) \notin D, \A k \in GroupStarts(v) : k \notin D => \E i \in DOMAIN w : e[i] = k
  PROVE  Marked(w)
<1>1. /\ DOMAIN v = 1 .. Len(v) /\ DOMAIN w = 1 .. Len(w) /\ Len(v) \in Nat /\ Len(w) \in Nat
      /\ \A i \in DOMAIN w : e[i] \in DOMAIN v /\ w[i] = v[e[i]]
      /\ \A i, j \in DOMAIN w : j < i => e[j] < e[i]
  BY DEF Picks
<1>. SUFFICES ASSUME NEW j \in DOMAIN w, NEW k \in DOMAIN w, Lasts(w, j), j < k, w[k].kind = "checkpoint"
              PROVE  k = j + 1
  BY DEF Marked
<1>. DEFINE u == LastUser(v)
<1>2. IsRow(v, e[j], "user") /\ e[j] \in DOMAIN v
  BY <1>1 DEF Lasts, IsRow
<1>3. Lasts(v, u)
  <2>1. u = 0 \/ Lasts(v, u)
    BY LastUserIs
  <2>2. u # 0
    <3>1. \E k0 \in DOMAIN v : IsRow(v, k0, "user")
      BY <1>2
    <3>2. SUFFICES ASSUME u = 0 PROVE FALSE
      OBVIOUS
    <3>. DEFINE S == {i \in DOMAIN v : IsRow(v, i, "user")}
    <3>3. {0} \cup S \subseteq Nat /\ {0} \cup S # {} /\ S \subseteq 1 .. Len(v) /\ S # {}
      BY <1>1, <3>1
    <3>4. Max(S) \in S /\ \A y \in S : Max(S) >= y
      <4>. HIDE DEF S
      <4>. QED
        BY <1>1, <3>3, MaxProperties
    <3>5. Lasts(v, Max(S))
      <4>1. \A y \in S : y <= Max(S)
        BY <1>1, <3>3, <3>4
      <4>. QED
        BY <3>4, <4>1 DEF Lasts
    <3>6. LastUser(v) = Max(S)
      BY <3>5, LastUserIs
    <3>. QED
      BY <1>1, <3>2, <3>4, <3>6
  <2>. QED
    BY <2>1, <2>2
<1>4. u \in GroupStarts(v) /\ u \in DOMAIN v
  BY <1>3 DEF Lasts, GroupStarts, IsRow
<1>5. PICK i \in DOMAIN w : e[i] = u
  BY <1>4
<1>. HIDE DEF u
<1>6. i <= j
  BY <1>1, <1>3, <1>5 DEF Lasts, IsRow
<1>7. ~ (i < j)
  <2>1. i < j => u < e[j]
    BY <1>1, <1>5
  <2>2. e[j] <= u
    BY <1>2, <1>3 DEF Lasts
  <2>3. u \in Int /\ e[j] \in Int
    BY <1>1, <1>2, <1>4
  <2>. HIDE DEF Lasts
  <2>. QED
    BY <2>1, <2>2, <2>3
<1>8. e[j] = u
  BY <1>1, <1>5, <1>6, <1>7
<1>9. u < e[k] /\ v[e[k]].kind = "checkpoint" /\ e[k] \in DOMAIN v
  BY <1>1, <1>8
<1>10. e[k] = u + 1
  BY <1>3, <1>4, <1>9 DEF Marked
<1>11. ASSUME k # j + 1 PROVE FALSE
  <2>1. j + 1 \in DOMAIN w /\ j < j + 1 /\ j + 1 < k
    BY <1>1, <1>11
  <2>2. e[j] < e[j + 1] /\ e[j + 1] < e[k] /\ e[j + 1] \in Int
    BY <1>1, <2>1
  <2>3. u \in Int
    BY <1>1, <1>4
  <2>. QED
    BY <1>8, <1>10, <2>2, <2>3
<1>. QED
  BY <1>11

\* A view cut to fit tells less, which its record says.
LEMMA TruncateView ==
  ASSUME HistoryInv, NEW r \in Reader, ViewInv(r), Truncate(r)
  PROVE  ViewInv(r)'
<1>0. ReaderTypes
  BY DEF HistoryInv
<1>1. PICK p, D : LET v == Trim(view[r], D)
                      c == [record[r] EXCEPT !.whole = @ /\ D = {}]
                  IN One(r, p, c, v, 0) /\ cut' = cut /\ D \in Dropped(view[r])
  BY <1>0, TruncateOne
<1>. DEFINE v == view[r]
            w == Trim(v, D)
            c == [record[r] EXCEPT !.whole = @ /\ D = {}]
<1>2. v \in Seq(Piece) /\ Ordered(v) /\ record[r] \in Record
  BY <1>0 DEF ReaderTypes, ViewInv
<1>3. record'[r] = c /\ view'[r] = w /\ batch'[r] = 0
  <2>1. One(r, p, c, w, 0) /\ cut' = cut
    BY <1>1
  <2>. HIDE DEF w, c
  <2>. QED
    BY <2>1, OneIs
<1>4. c.late = record[r].late /\ (c.whole => record[r].whole /\ D = {}) /\ c.again = record[r].again
  BY <1>2 DEF Record
<1>5. Keeps
  BY Kept0 DEF Truncate
<1>. HIDE DEF v, c
<1>12. LastUser(v) \notin D
  BY <1>1 DEF v, Dropped, Droppable
<1>6. PICK e : /\ Picks(w, v, e)
               /\ \A k \in GroupStarts(v) : k \notin D => \E i \in DOMAIN w : e[i] = k
  BY <1>2, TrimIs
<1>7. w \in Seq(Piece) /\ (D = {} => w = v)
  BY <1>2, TrimIs
<1>. HIDE DEF w
<1>8. Derived(w, v, FALSE, TRUE) /\ Ordered(w)
  <2>1. Derived(w, v, FALSE, TRUE) /\ Leading(w)
    BY <1>2, <1>6, <1>7, PicksDerived DEF Ordered
  <2>2. Marked(w)
    BY <1>2, <1>6, <1>7, <1>12, PicksMarked DEF Ordered
  <2>. QED
    BY <2>1, <2>2 DEF Ordered
<1>9. D = {} => Derived(w, v, TRUE, TRUE)
  BY <1>2, <1>7, DerivedSame
<1>10. ViewRows(r)' /\ ViewTells(r)'
  <2>0. cut'[r] = cut[r] /\ (record[r].late => record'[r].late) /\ view'[r] = w /\ view[r] = v
        /\ (record'[r].whole => record[r].whole /\ D = {}) /\ record'[r].again = record[r].again
    BY <1>1, <1>3, <1>4 DEF v
  <2>1. CASE D = {}
    <3>1. Derived(view'[r], view[r], TRUE, TRUE) /\ (record'[r].whole => record[r].whole /\ TRUE)
      BY <1>9, <2>0, <2>1
    <3>. QED
      BY <1>5, <2>0, <3>1, DerivedView
  <2>2. CASE D # {}
    <3>1. Derived(view'[r], view[r], FALSE, TRUE) /\ (record'[r].whole => record[r].whole /\ FALSE)
      BY <1>8, <2>0, <2>2
    <3>. QED
      BY <1>5, <2>0, <3>1, DerivedView
  <2>. QED
    BY <2>1, <2>2
<1>11. Ordered(view[r])' /\ ~ (batch'[r] > 0)
  BY <1>3, <1>8 DEF w
<1>. QED
  BY <1>10, <1>11 DEF ViewInv

\* A view with a checkpoint in it fits.
LEMMA CondenseView ==
  ASSUME HistoryInv, ViewInv("turn"), Condense
  PROVE  ViewInv("turn")'
<1>0. ReaderTypes /\ "turn" \in Reader
  BY DEF HistoryInv, Reader
<1>. DEFINE v == view["turn"]
<1>1. PICK w \in Seq(Piece), u \in Nat, n \in Nat, d \in Piece :
           /\ One("turn", "draining", record["turn"], w, 0) /\ cut' = cut
           /\ v \in Seq(Piece) /\ Lasts(v, u) /\ u < n /\ n <= Len(v)
           /\ d.kind = "checkpoint" /\ d.covers = Told(SubSeq(v, u + 1, n))
           /\ Digested(w, v, u, n, d)
  BY <1>0, CondenseOne
<1>2. Ordered(v)
  BY DEF ViewInv
<1>3. record'["turn"] = record["turn"] /\ view'["turn"] = w /\ batch'["turn"] = 0
  BY <1>0, <1>1, OneIs
<1>4. Keeps
  BY Kept0 DEF Condense
<1>. HIDE DEF v
<1>5. u \in 1 .. Len(v) /\ Len(v) \in Nat /\ DOMAIN v = 1 .. Len(v) /\ DOMAIN w = 1 .. Len(w) /\ v[u].kind = "row"
  BY <1>1 DEF Lasts, IsRow
<1>6. Derived(w, v, TRUE, TRUE)
  <2>1. Len(v) > 0 /\ u \in 0 .. Len(v) /\ n \in u .. Len(v) /\ d.kind \in Digests
    BY <1>1, <1>5 DEF Digests
  <2>. QED
    BY <1>1, <2>1, DigestedDerived
<1>7. Ordered(w)
  <2>1. /\ Len(w) = u + 1 + Len(v) - n /\ \A i \in 1 .. u : w[i] = v[i]
        /\ w[u + 1] = d /\ \A i \in (u + 2) .. Len(w) : w[i] = v[n + i - (u + 1)]
    BY <1>1 DEF Digested
  <2>2. \A k \in DOMAIN v : k > u => v[k].kind \notin Leads
    BY <1>2, <1>5 DEF Ordered, Leading, Leads
  <2>3. ASSUME NEW k \in DOMAIN w, w[k].kind \in Leads PROVE k \in 1 .. u
    <3>1. CASE k = u + 1
      BY <1>1, <2>1, <2>3, <3>1 DEF Leads
    <3>2. CASE k > u + 1
      <4>1. k \in (u + 2) .. Len(w) /\ n + k - (u + 1) \in DOMAIN v /\ n + k - (u + 1) > u
        BY <1>1, <1>5, <2>1, <3>2
      <4>. QED
        BY <2>1, <2>2, <2>3, <4>1
    <3>. QED
      BY <1>5, <3>1, <3>2
  <2>5. ASSUME NEW j \in DOMAIN w, NEW k \in DOMAIN w, Lasts(w, j), j < k, w[k].kind = "checkpoint"
        PROVE  k = j + 1
    <3>1. u \in DOMAIN w /\ w[u] = v[u] /\ IsRow(w, u, "user")
      BY <1>1, <1>5, <2>1 DEF Lasts, IsRow
    <3>2. u <= j
      BY <2>5, <3>1 DEF Lasts
    <3>3. ASSUME k > u + 1 PROVE FALSE
      <4>1. k \in (u + 2) .. Len(w) /\ n + k - (u + 1) \in DOMAIN v /\ n + k - (u + 1) > u + 1
        BY <1>1, <1>5, <2>1, <3>3
      <4>2. v[n + k - (u + 1)].kind = "checkpoint" /\ n + k - (u + 1) > u
        BY <1>5, <2>1, <2>5, <4>1
      <4>3. n + k - (u + 1) = u + 1
        BY <1>1, <1>2, <1>5, <4>1, <4>2 DEF Ordered, Marked
      <4>. QED
        BY <1>5, <4>1, <4>3
    <3>. QED
      BY <1>5, <2>5, <3>2, <3>3
  <2>. SUFFICES ASSUME NEW j \in DOMAIN w, NEW k \in DOMAIN w, j < k, w[k].kind \in Leads
                PROVE  w[j].kind \in Leads
    BY <2>5 DEF Ordered, Leading, Marked
  <2>4. k \in 1 .. u /\ j \in 1 .. u /\ k \in DOMAIN v /\ j \in DOMAIN v
    <3>1. k \in 1 .. u
      BY <2>3
    <3>. QED
      BY <1>5, <3>1
  <2>. QED
    BY <1>2, <2>1, <2>4 DEF Ordered, Leading
<1>8. ViewRows("turn")' /\ ViewTells("turn")'
  <2>1. Derived(view'["turn"], view["turn"], TRUE, TRUE) /\ (record["turn"].late => record'["turn"].late)
        /\ (record'["turn"].whole => record["turn"].whole /\ TRUE) /\ cut'["turn"] = cut["turn"]
        /\ (record["turn"].again \/ ~ TRUE => record'["turn"].again)
    BY <1>1, <1>3, <1>6 DEF v
  <2>. QED
    BY <1>0, <1>4, <2>1, DerivedView
<1>9. Ordered(view["turn"])' /\ ~ (batch'["turn"] > 0)
  BY <1>3, <1>7
<1>. QED
  BY <1>8, <1>9 DEF ViewInv

\* A view with one more message fits.
LEMMA SayView ==
  ASSUME HistoryInv, ViewInv("turn"), Call \/ Steer \/ Result \/ Answer
  PROVE  ViewInv("turn")'
<1>. DEFINE v == view["turn"]
            c == record["turn"]
            n == cut["turn"]
<1>0. "turn" \in Reader
  BY DEF Reader
<1>1. PICK m \in Row, extra \in {<<>>, <<Nudge>>}, to \in {"tools", "draining", "between", "done"} :
        LET w == v \o <<Item(m)>> \o extra IN
           /\ One("turn", to, c, w, 0) /\ Stores(m) /\ cut' = cut /\ v \in Seq(Piece)
  BY SayOne
<1>. DEFINE x == v \o <<Item(m)>>
            w == x \o extra
<1>2. Behind(rows, m) /\ rows' = rows \cup {m} /\ m.seq = NextSeq /\ v \in Seq(Piece) /\ cut'["turn"] = n
  BY <1>1 DEF Stores
<1>3. RowsFit(v, rows, n) /\ Ordered(v)
      /\ (~c.late => TellsFit(v, c, rows, n) /\ (n = NoCut => TellsAll(v, c, rows)))
  BY DEF ViewInv, ViewRows, ViewTells
<1>4. n \in Nat /\ (n = NoCut \/ n <= m.seq)
  BY <1>0, <1>2, RowFacts
<1>5. record'["turn"] = c /\ view'["turn"] = w /\ batch'["turn"] = 0
  <2>1. One("turn", to, c, w, 0) /\ cut' = cut
    BY <1>1
  <2>. HIDE DEF w, c
  <2>. QED
    BY <1>0, <2>1, OneIs
<1>6. (extra = <<>> /\ w = x) \/ w = x \o <<Nudge>>
  BY <1>2, SaidView
<1>. HIDE DEF v, c, n
<1>7. /\ x \in Seq(Piece) /\ RowsFit(x, rows', n) /\ Ordered(x)
      /\ TellsFit(v, c, rows, n) /\ (n = NoCut => TellsAll(v, c, rows)) => TellsFit(x, c, rows', n)
      /\ TellsAll(v, c, rows) => TellsAll(x, c, rows')
  BY <1>2, <1>3, <1>4, SaidFits
<1>. HIDE DEF x, w
<1>8. RowsFit(w, rows', n) /\ Ordered(w)
      /\ (~c.late => TellsFit(w, c, rows', n) /\ (n = NoCut => TellsAll(w, c, rows')))
  <2>1. CASE w = x
    BY <1>3, <1>7, <2>1
  <2>2. CASE w = x \o <<Nudge>>
    <3>1. LET y == x \o <<Nudge>> IN
         /\ RowsFit(y, rows', n) /\ (Ordered(x) => Ordered(y))
         /\ TellsFit(x, c, rows', n) => TellsFit(y, c, rows', n)
         /\ TellsAll(x, c, rows') => TellsAll(y, c, rows')
      BY <1>7, NudgedFits
    <3>. QED
      BY <1>3, <1>7, <2>2, <3>1
  <2>. QED
    BY <1>6, <2>1, <2>2
<1>9. ~ (batch'["turn"] > 0)
  BY <1>5
<1>. QED
  BY <1>2, <1>5, <1>8, <1>9 DEF ViewInv, ViewRows, ViewTells

LEMMA OtherView ==
  ASSUME HistoryInv, NEW q \in Reader, Stays(q), pc'[q] = pc[q], batch'[q] = batch[q], Working(q)',
         Keeps \/ \E m : Stores(m) /\ (q = "turn" => m.role = "tool")
  PROVE  ViewInv(q)'
<1>1. Working(q)
  BY DEF Working
<1>2. ViewInv(q)
  BY <1>1 DEF HistoryInv, ViewsInv
<1>3. ViewRows(q)' /\ ViewTells(q)' /\ Ordered(view[q])'
  BY <1>2, StaysFits
<1>4. batch'[q] > 0 => BatchStops(view'[q], batch'[q])
  BY <1>2 DEF ViewInv, Stays
<1>. QED
  BY <1>3, <1>4 DEF ViewInv

LEMMA ActsView ==
  ASSUME HistoryInv, NEW r \in Reader, ReaderActs(r), NEW q \in Reader, Working(q)'
  PROVE  ViewInv(q)'
<1>0. ReaderTypes /\ RecordTypes /\ RowsInv
  BY DEF HistoryInv
<1>1. CASE q = r
  <2>1. CASE ReadRecord(r)
    <3>1. pc'[r] = "fetching"
      BY <1>0, <2>1 DEF ReadRecord, Move, Set, ReaderTypes
    <3>. QED
      BY <1>1, <3>1 DEF Working
  <2>2. CASE ReadRows(r)
    BY <1>1, <2>2, ReadRowsView
  <2>3. CASE Fits(r) \/ Summarise(r) \/ SaveRecord(r) \/ Truncate(r)
    <3>1. Working(r)
      BY <2>3 DEF Fits, Summarise, SaveRecord, Truncate, Move, Working
    <3>2. ViewInv(r)
      BY <3>1 DEF HistoryInv, ViewsInv
    <3>. QED
      BY <1>1, <2>3, <3>2, FitsView, SummariseView, SaveView, TruncateView
  <2>. QED
    BY <2>1, <2>2, <2>3 DEF ReaderActs
<1>2. CASE q # r
  <2>1. PICK p, c, v, b : One(r, p, c, v, b) /\ cut' = cut
    BY ActsGo DEF Goes
  <2>2. Stays(q) /\ pc'[q] = pc[q] /\ batch'[q] = batch[q]
    BY <1>2, <2>1, OneIs
  <2>3. Keeps \/ \E m : Stores(m) /\ m.role = "tool"
    <3>1. CASE ReadRows(r)
      <4>1. \A id : Message("tool", id).role = "tool"
        BY DEF Message
      <4>. QED
        BY <1>0, <3>1, <4>1, Heals
    <3>2. CASE ReadRecord(r) \/ Fits(r) \/ Summarise(r) \/ SaveRecord(r) \/ Truncate(r)
      BY <3>2, Kept0 DEF ReadRecord, Fits, Summarise, SaveRecord, Truncate
    <3>. QED
      BY <3>1, <3>2 DEF ReaderActs
  <2>. QED
    BY <2>2, <2>3, OtherView
<1>. QED
  BY <1>1, <1>2

LEMMA TurnView ==
  ASSUME HistoryInv, TurnActs, NEW q \in Reader, Working(q)'
  PROVE  ViewInv(q)'
<1>1. CASE q = "turn"
  <2>1. Working("turn")
    <3>1. CASE Condense
      BY <3>1, CondenseOne DEF HistoryInv
    <3>2. CASE Call \/ Steer \/ Result \/ Answer
      BY <3>2, SayOne
    <3>. QED
      BY <3>1, <3>2 DEF TurnActs
  <2>2. ViewInv("turn")
    BY <2>1 DEF HistoryInv, ViewsInv, Reader
  <2>. QED
    BY <1>1, <2>2, CondenseView, SayView DEF TurnActs
<1>2. CASE q # "turn"
  <2>1. PICK p, c, v, b : One("turn", p, c, v, b) /\ cut' = cut
    BY TurnGoes DEF Goes
  <2>2. Stays(q) /\ pc'[q] = pc[q] /\ batch'[q] = batch[q]
    BY <1>2, <2>1, OneIs DEF Reader
  <2>3. ~ UndoDeletes
    <3>1. undo' = undo
      BY TurnGoes DEF Goes
    <3>. QED
      BY <3>1, UndoDeletesIs
  <2>4. Keeps \/ \E m : Stores(m)
    <3>1. CASE Condense
      BY <3>1, Kept0 DEF Condense
    <3>2. CASE Call \/ Steer \/ Result \/ Answer
      BY <3>2, SayOne
    <3>. QED
      BY <3>1, <3>2 DEF TurnActs
  <2>. QED
    BY <1>2, <2>2, <2>4, OtherView
<1>. QED
  BY <1>1, <1>2

LEMMA BeginView ==
  ASSUME HistoryInv, BeginTurn \/ BeginCompress, NEW q \in Reader, Working(q)'
  PROVE  ViewInv(q)'
<1>1. PICK r \in Reader : Begin(r) /\ ((BeginTurn /\ r = "turn") \/ (BeginCompress /\ r = "compress"))
  <2>1. "turn" \in Reader /\ "compress" \in Reader
    BY DEF Reader
  <2>2. (BeginTurn => Begin("turn")) /\ (BeginCompress => Begin("compress"))
    BY DEF BeginTurn, BeginCompress
  <2>. QED
    BY <2>1, <2>2
<1>2. Goes(r) /\ pc'[r] = "reading"
  BY <1>1, BeginGoes
<1>3. q # r
  BY <1>2 DEF Working
<1>4. PICK p, c, v, b : One(r, p, c, v, b) /\ cut' = cut
  BY <1>2 DEF Goes
<1>5. Stays(q) /\ pc'[q] = pc[q] /\ batch'[q] = batch[q]
  BY <1>3, <1>4, OneIs
<1>6. Keeps \/ \E m : Stores(m) /\ (q = "turn" => m.role = "tool")
  <2>1. CASE BeginCompress
    BY <2>1, Kept0 DEF BeginCompress
  <2>2. CASE BeginTurn /\ r = "turn"
    <3>1. 0 \in 0 .. MaxRows /\ "user" \in Role /\ RowsInv
      BY HistoryAssumption DEF Role, HistoryInv
    <3>2. Stores(Message("user", 0))
      BY <2>2, <3>1, Stored1 DEF BeginTurn
    <3>. QED
      BY <1>3, <2>2, <3>2
  <2>. QED
    BY <1>1, <2>1, <2>2
<1>. QED
  BY <1>5, <1>6, OtherView

\* Ends: the readers in R are forgotten.
LEMMA ForgetView ==
  ASSUME HistoryInv, NEW R, Forget(R), Keeps \/ ("turn" \in R /\ \E m : Stores(m)),
         NEW q \in Reader, Working(q)'
  PROVE  ViewInv(q)'
<1>1. q \notin R /\ pc'[q] = pc[q] /\ batch'[q] = batch[q] /\ Stays(q)
  BY ForgetTypes DEF Working, Stays, HistoryInv
<1>. QED
  BY <1>1, OtherView

\* ViewsInv is kept.
LEMMA ViewsNext ==
  ASSUME HistoryInv, [Next]_vars
  PROVE  ViewsInv'
<1>. SUFFICES ASSUME NEW q \in Reader, Working(q)' PROVE ViewInv(q)'
  BY DEF ViewsInv
<1>1. CASE BeginTurn \/ BeginCompress
  BY <1>1, BeginView
<1>2. ASSUME NEW r \in Reader, ReaderActs(r) PROVE ViewInv(q)'
  BY <1>2, ActsView
<1>3. CASE TurnActs
  BY <1>3, TurnView
<1>4. ASSUME NEW r \in Reader, Leave(r) PROVE ViewInv(q)'
  <2>1. Forget({r}) /\ Keeps
    BY <1>4, Kept0 DEF Leave
  <2>. QED
    BY <2>1, ForgetView
<1>5. CASE Crash
  <2>1. Forget(Reader) /\ Keeps
    BY <1>5, Kept0 DEF Crash
  <2>. QED
    BY <2>1, ForgetView
<1>6. CASE LeaveWithMail
  <2>1. 0 \in 0 .. MaxRows /\ "user" \in Role /\ RowsInv
    BY HistoryAssumption DEF Role, HistoryInv
  <2>2. Forget({"turn"}) /\ Stores(Message("user", 0))
    BY <1>6, <2>1, Stored1 DEF LeaveWithMail
  <2>. QED
    BY <2>2, ForgetView
<1>7. CASE UndoDeletes
  <2>1. pc' = pc
    BY <1>7, UndoDeletesIs
  <2>2. Working(q) /\ pc[q] # "idle"
    BY <2>1 DEF Working
  <2>3. ViewInv(q)
    BY <2>2 DEF HistoryInv, ViewsInv
  <2>. QED
    BY <1>7, <2>2, <2>3, CutsFits
<1>8. CASE UndoReads \/ UndoInvalidates \/ Rename \/ TitleArrives \/ UNCHANGED vars
  <2>1. UNCHANGED readerVars /\ Keeps
    BY <1>8, Kept0 DEF UndoReads, UndoInvalidates, Rename, TitleArrives, vars
  <2>2. Stays(q) /\ pc'[q] = pc[q] /\ batch'[q] = batch[q]
    BY <2>1 DEF readerVars, Stays
  <2>. QED
    BY <2>1, <2>2, OtherView
<1>. QED
  BY <1>1, <1>2, <1>3, <1>4, <1>5, <1>6, <1>7, <1>8 DEF Next, TurnActs, ReaderActs

-----------------------------------------------------------------------------
(* The records.                                                             *)

\* A record's account of what is before its number holds however the thread grows.
LEMMA AnchoredGrows ==
  ASSUME HistoryInv, NEW c \in Record, Anchored(c), Keeps \/ \E m : Stores(m)
  PROVE  Anchored(c)'
<1>1. CASE Keeps
  BY <1>1 DEF Keeps, Anchored
<1>2. ASSUME NEW m, Stores(m) PROVE Anchored(c)'
  <2>1. Behind(rows, m) /\ rows' = rows \cup {m}
    BY <1>2 DEF Stores
  <2>2. c.first \in Numbers(rows)
    BY DEF Anchored
  <2>3. c.first \in Nat /\ c.first <= m.seq
    <3>1. PICK q \in rows : q.seq = c.first
      BY <2>2 DEF Numbers
    <3>2. q.seq < m.seq /\ q.seq \in Nat /\ m.seq \in Nat
      BY <2>1, HistoryAssumption DEF Behind, Row
    <3>. QED
      BY <3>1, <3>2
  <2>4. Before(rows', c.first) = Before(rows, c.first)
    BY <2>1, <2>3, ContentMore
  <2>5. c.first \in Numbers(rows')
    BY <2>1, <2>2 DEF Numbers
  <2>. QED
    BY <2>4, <2>5 DEF Anchored
<1>. QED
  BY <1>1, <1>2

\* And when it is cut behind that number.
LEMMA AnchoredCut ==
  ASSUME HistoryInv, NEW c \in Record, Anchored(c), UndoDeletes, c.first < undo.seq
  PROVE  Anchored(c)'
<1>1. rows' = rows \ From(rows, undo.seq) /\ undo.seq \in Nat /\ c.first \in Nat
  BY UndoDeletesIs, HistoryAssumption DEF Record
<1>2. \A q \in rows : q.seq \in Nat
  BY HistoryAssumption DEF HistoryInv, RowsInv, Row
<1>3. \A q \in rows : q.seq < undo.seq => q \in rows'
  BY <1>1, <1>2 DEF From
<1>4. c.first \in Numbers(rows')
  BY <1>3 DEF Anchored, Numbers
<1>5. Before(rows', c.first) = Before(rows, c.first)
  <2>1. \A q \in rows : q.seq < c.first => q.seq < undo.seq
    BY <1>1, <1>2
  <2>. QED
    BY <1>1, <1>3, <2>1 DEF Before
<1>. QED
  BY <1>4, <1>5 DEF Anchored

\* A summary stored undisturbed tells of what comes before the first message kept.
LEMMA MadeAnchored ==
  ASSUME HistoryInv, NEW r \in Reader, ViewInv(r), batch[r] > 0, Made(r).first > 0, ~ Made(r).late
  PROVE  Anchored(Made(r)) /\ Made(r).first < cut[r]
<1>. DEFINE v == view[r]
            b == batch[r]
            f == KeptFrom(r)
            K == Kept(r)
            c == record[r]
<1>0. v \in Seq(Piece) /\ c \in Record /\ cut[r] \in Nat /\ rows \subseteq Row
  BY RowFacts
<1>1. b \in 1 .. Len(v) /\ K \in Seq(Piece) /\ f \in 0 .. b
  BY MadeIs DEF HistoryInv
<1>2. /\ Made(r).first = FirstKept(K) /\ Made(r).covers = Told(SubSeq(v, 1, b))
      /\ (Made(r).whole => c.whole /\ \A k \in Of(v, Digests) : k <= b)
      /\ (Made(r).late <=> (c.late \/ FirstKept(K) >= cut[r]))
      /\ (Made(r).again <=> (c.again \/ f < b))
  BY DEF Made, Batch
<1>3. Len(K) = Len(v) - f /\ \A i \in 1 .. (Len(v) - f) : K[i] = v[f + i]
  <2>1. f \in 0 .. Len(v) /\ Len(v) \in f .. Len(v)
    BY <1>0, <1>1
  <2>2. K = SubSeq(v, f + 1, Len(v))
    BY DEF Kept
  <2>. HIDE DEF K, v, b, f
  <2>. QED
    BY <1>0, <2>1, <2>2, PartIs
<1>. HIDE DEF f
<1>. HIDE DEF K
<1>4. PICK k \in DOMAIN K : /\ K[k].kind = "row" /\ K[k].row \in Row /\ FirstKept(K) = K[k].row.seq
                            /\ \A j \in DOMAIN K : j < k => K[j].kind # "row"
  BY <1>1, <1>2, FirstKeptIs
<1>. DEFINE n == K[k].row.seq
<1>5. n \in Nat /\ n < cut[r] /\ ~ c.late
  BY <1>0, <1>2, <1>4, HistoryAssumption DEF Row
<1>6. /\ k \in 1 .. (Len(v) - f) /\ f + k \in DOMAIN v /\ v[f + k] = K[k]
      /\ b \in Nat /\ f \in Nat /\ f <= b /\ k \in Nat /\ Len(v) \in Nat
  BY <1>0, <1>1, <1>3
<1>7. /\ v[f + k].row \in rows
      /\ Accounts(c, Content(Before(rows, n)), Earlier(v, f + k))
  <2>1. RowsFit(v, rows, cut[r]) /\ TellsFit(v, c, rows, cut[r])
    BY <1>5 DEF ViewInv, ViewRows, ViewTells
  <2>. HIDE DEF v, b, c
  <2>. QED
    BY <1>4, <1>5, <1>6, <2>1 DEF RowsFit, TellsFit
<1>. HIDE DEF v, b, c
<1>8. Told(SubSeq(v, 1, b)) = Earlier(v, b + 1)
  <2>1. b \in 0 .. Len(v)
    BY <1>1
  <2>. QED
    BY <1>0, <2>1, ToldBegin
<1>9. ASSUME ~ (f < b) PROVE Earlier(v, b + 1) \subseteq Earlier(v, f + k)
  <2>1. \A j \in DOMAIN v : j < b + 1 => j < f + k
    BY <1>0, <1>6, <1>9
  <2>. QED
    BY <2>1, EarlierIs
<1>10. ASSUME \A j \in Of(v, Digests) : j <= b PROVE Earlier(v, f + k) \subseteq Earlier(v, b + 1)
  <2>. SUFFICES ASSUME NEW x, x \in Earlier(v, f + k) PROVE x \in Earlier(v, b + 1)
    OBVIOUS
  <2>1. PICK j \in DOMAIN v : j < f + k /\ x \in Tells(v[j])
    BY EarlierIs
  <2>2. CASE j < b + 1
    BY <2>1, <2>2, EarlierIs
  <2>3. CASE ~ (j < b + 1)
    <3>0. j \in 1 .. Len(v) /\ ~ (j <= b)
      BY <1>0, <1>6, <2>3
    <3>1. j - f \in 1 .. (Len(v) - f) /\ j - f < k /\ j - f \in DOMAIN K /\ f + (j - f) = j
      BY <1>0, <1>1, <1>3, <1>6, <2>1, <3>0
    <3>2. K[j - f] = v[j]
      BY <1>3, <3>1
    <3>3. v[j].kind # "row" /\ v[j].kind \notin Digests
      BY <1>4, <1>10, <3>0, <3>1, <3>2 DEF Of
    <3>. QED
      BY <2>1, <3>3 DEF Tells
  <2>. QED
    BY <2>2, <2>3
<1>11. n \in Numbers(rows)
  BY <1>6, <1>7 DEF Numbers
<1>12. Made(r).first = n
  BY <1>2, <1>4
<1>. HIDE DEF n
<1>13. Accounts(Made(r), Content(Before(rows, n)), Made(r).covers)
  BY <1>2, <1>7, <1>8, <1>9, <1>10 DEF Accounts, c, v, b
<1>. QED
  BY <1>5, <1>11, <1>12, <1>13 DEF Anchored

\* Records stay anchored while the thread grows.
LEMMA RecordsKept ==
  ASSUME HistoryInv, Keeps \/ \E m : Stores(m), NEW c \in records,
         ~c.late, ~(undo.at = "invalidating" /\ c.first >= undo.seq)
  PROVE  Anchored(c)'
<1>1. c \in Record /\ Anchored(c)
  BY DEF HistoryInv, RecordTypes, RecordsInv
<1>. QED
  BY <1>1, AnchoredGrows

\* A saved record is anchored because the view it is made of fits.
LEMMA SaveRecords ==
  ASSUME HistoryInv, NEW r \in Reader, SaveRecord(r)
  PROVE  RecordsInv'
<1>0. ReaderTypes /\ RecordTypes
  BY DEF HistoryInv
<1>1. undo' = undo /\ records' \subseteq records \cup {Made(r)} /\ (Made(r) \in records' \ records => Made(r).first > 0)
      /\ Keeps
  BY Kept0 DEF SaveRecord
<1>2. Working(r) /\ batch[r] \in 1 .. Len(view[r])
  BY <1>0, SaveOne
<1>3. ViewInv(r) /\ batch[r] > 0 /\ Made(r) \in Record
  <2>1. view[r] \in Seq(Piece)
    BY RowFacts
  <2>2. batch[r] > 0
    BY <1>2, <2>1
  <2>. QED
    BY <1>0, <1>2, <2>2, MadeIs DEF HistoryInv, ViewsInv
<1>. SUFFICES ASSUME NEW c \in records', ~c.late, ~(undo'.at = "invalidating" /\ c.first >= undo'.seq)
              PROVE  Anchored(c)'
  BY DEF RecordsInv
<1>4. CASE c \in records
  BY <1>1, <1>4, RecordsKept
<1>5. CASE c \notin records
  <2>1. c = Made(r) /\ Made(r).first > 0
    BY <1>1, <1>5
  <2>2. Anchored(c)
    BY <1>3, <2>1, MadeAnchored
  <2>. HIDE DEF Made
  <2>. QED
    BY <1>1, <1>3, <2>1, <2>2, AnchoredGrows
<1>. QED
  BY <1>4, <1>5

\* RecordsInv is kept.
LEMMA RecordsNext ==
  ASSUME HistoryInv, [Next]_vars
  PROVE  RecordsInv'
<1>1. ASSUME records' = records, undo' = undo \/ (undo'.at = "deleting" /\ undo.at = "idle"),
             Keeps \/ \E m : Stores(m)
      PROVE  RecordsInv'
  <2>. SUFFICES ASSUME NEW c \in records, ~c.late, ~(undo'.at = "invalidating" /\ c.first >= undo'.seq)
                PROVE  Anchored(c)'
    BY <1>1 DEF RecordsInv
  <2>. QED
    BY <1>1, RecordsKept
<1>2. ASSUME NEW r \in Reader, SaveRecord(r) PROVE RecordsInv'
  BY <1>2, SaveRecords
<1>3. CASE UndoDeletes
  <2>1. records' = records /\ undo'.at = "invalidating" /\ undo'.seq = undo.seq /\ undo.at = "deleting"
        /\ undo.seq \in Nat
    BY <1>3, UndoDeletesIs
  <2>. SUFFICES ASSUME NEW c \in records, ~c.late, ~(c.first >= undo.seq)
                PROVE  Anchored(c)'
    BY <2>1 DEF RecordsInv
  <2>2. c \in Record /\ Anchored(c) /\ c.first \in Nat
    BY <2>1, HistoryAssumption DEF HistoryInv, RecordTypes, RecordsInv, Record
  <2>. QED
    BY <1>3, <2>1, <2>2, AnchoredCut
<1>4. CASE UndoInvalidates
  <2>1. records' = {c \in records : ~Invalid(c)} /\ Keeps
    BY <1>4, Kept0 DEF UndoInvalidates
  <2>. SUFFICES ASSUME NEW c \in records, ~Invalid(c), ~c.late PROVE Anchored(c)'
    BY <2>1 DEF RecordsInv
  <2>. QED
    BY <2>1, RecordsKept DEF Invalid
<1>5. CASE Crash
  <2>. DEFINE F(c) == [c EXCEPT !.late = @ \/ (undo.at = "invalidating" /\ Invalid(c))]
  <2>1. records' = {F(c) : c \in records} /\ Keeps
    BY <1>5, Kept0 DEF Crash
  <2>2. ASSUME NEW c \in records
        PROVE  /\ c.late \/ (undo.at = "invalidating" /\ c.first >= undo.seq) => F(c).late
               /\ F(c).first = c.first /\ F(c).covers = c.covers /\ F(c).whole = c.whole
               /\ F(c).again = c.again
    <3>1. c \in Record
      BY DEF HistoryInv, RecordTypes
    <3>. QED
      BY <3>1 DEF Record, Invalid
  <2>. HIDE DEF F
  <2>. SUFFICES ASSUME NEW d \in records', ~d.late PROVE Anchored(d)'
    BY DEF RecordsInv
  <2>3. PICK c \in records : d = F(c)
    BY <2>1
  <2>4. Anchored(c)'
    BY <2>1, <2>2, <2>3, RecordsKept
  <2>. QED
    BY <2>2, <2>3, <2>4 DEF Anchored, Accounts
<1>6. ASSUME NEW r \in Reader, ReadRecord(r) \/ ReadRows(r) \/ Fits(r) \/ Summarise(r) \/ Truncate(r) \/ Leave(r)
      PROVE  records' = records /\ undo' = undo
  BY <1>6 DEF ReadRecord, ReadRows, Fits, Summarise, Truncate, Leave, recordVars
<1>7. CASE \/ BeginTurn \/ BeginCompress \/ TurnActs \/ LeaveWithMail \/ UndoReads
           \/ Rename \/ TitleArrives \/ UNCHANGED vars
  <2>1. records' = records /\ (undo' = undo \/ (undo'.at = "deleting" /\ undo.at = "idle"))
    BY <1>7 DEF BeginTurn, BeginCompress, Begin, TurnActs, Condense, Call, Steer, Result, Answer, Say,
                SayWith, LeaveWithMail, UndoReads, Rename, TitleArrives, vars, recordVars
  <2>2. ~ UndoDeletes
    <3>1. UndoDeletes => undo.at = "deleting" /\ undo'.at = "invalidating"
      BY UndoDeletesIs
    <3>. QED
      BY <2>1, <3>1
  <2>. QED
    BY <1>1, <2>1, <2>2, Grows
<1>8. ASSUME records' = records, undo' = undo PROVE RecordsInv'
  <2>2. ~ UndoDeletes
    <3>1. UndoDeletes => undo.at = "deleting" /\ undo'.at = "invalidating"
      BY UndoDeletesIs
    <3>. QED
      BY <1>8, <3>1
  <2>. QED
    BY <1>1, <1>8, <2>2, Grows
<1>. QED
  BY <1>2, <1>3, <1>4, <1>5, <1>6, <1>7, <1>8 DEF Next, TurnActs

\* A record that is about to be used.
About(r, c) == c = NoRecord \/ (c.first > 0 /\ (~c.late /\ c.first < cut[r] => Anchored(c)))

LEMMA AboutStays ==
  ASSUME HistoryInv, NEW r \in Reader, pc[r] = "fetching", cut'[r] = cut[r], record'[r] = record[r],
         Keeps \/ \E m : Stores(m)
  PROVE  About(r, record[r])'
<1>1. record[r] \in Record /\ About(r, record[r])
  BY RowFacts DEF HistoryInv, FetchInv, About
<1>2. Anchored(record[r]) => Anchored(record[r])'
  BY <1>1, AnchoredGrows DEF Anchored
<1>. QED
  BY <1>1, <1>2 DEF About

\* The latest record is one to be used.
LEMMA LatestAbout ==
  ASSUME HistoryInv, NEW r \in Reader, pc[r] = "reading"
  PROVE  About(r, Latest)
<1>1. Latest = NoRecord \/ (Latest \in records /\ Latest.first > 0)
  BY LatestIs DEF HistoryInv
<1>2. ASSUME Latest \in records, Latest.first > 0, ~Latest.late, Latest.first < cut[r] PROVE Anchored(Latest)
  <2>1. ~ (undo.at = "invalidating" /\ Latest.first >= undo.seq)
    <3>1. undo.at = "invalidating" => cut[r] <= undo.seq /\ undo.seq \in Nat
      BY DEF HistoryInv, CutInv
    <3>2. cut[r] \in Nat /\ Latest.first \in Nat
      BY <1>2, RowFacts, HistoryAssumption DEF HistoryInv, RecordTypes, Record
    <3>. QED
      BY <1>2, <3>1, <3>2
  <2>. QED
    BY <1>2, <2>1 DEF HistoryInv, RecordsInv
<1>. QED
  BY <1>1, <1>2 DEF About

\* FetchInv is kept.
LEMMA FetchNext ==
  ASSUME HistoryInv, [Next]_vars
  PROVE  FetchInv'
<1>0. ReaderTypes /\ RecordTypes
  BY DEF HistoryInv
<1>. SUFFICES ASSUME NEW q \in Reader, pc'[q] = "fetching"
              PROVE  About(q, record[q])'
  BY DEF FetchInv, About
<1>1. ASSUME pc[q] = pc'[q], Stays(q), ~ UndoDeletes PROVE About(q, record[q])'
  BY <1>1, Grows, AboutStays DEF Stays
<1>2. ASSUME NEW r \in Reader, Goes(r), q # r PROVE About(q, record[q])'
  <2>1. ~ UndoDeletes
    <3>1. undo' = undo
      BY <1>2 DEF Goes
    <3>. QED
      BY <3>1, UndoDeletesIs
  <2>2. Stays(q) /\ pc'[q] = pc[q]
    BY <1>2, OneIs DEF Goes
  <2>. QED
    BY <1>1, <2>1, <2>2
<1>3. CASE UndoDeletes
  <2>1. /\ UNCHANGED <<pc, record>> /\ cut'[q] <= undo.seq /\ cut'[q] <= cut[q] /\ cut'[q] \in Nat
        /\ undo.seq \in Nat /\ cut[q] \in Nat /\ record[q] \in Record
    BY <1>3, UndoDeletesIs, RowFacts
  <2>2. record[q] = NoRecord \/ (record[q].first > 0 /\ (~record[q].late /\ record[q].first < cut[q] => Anchored(record[q])))
    BY <2>1 DEF HistoryInv, FetchInv
  <2>3. record[q].first \in Nat
    BY <2>1, HistoryAssumption DEF Record
  <2>4. ASSUME ~record[q].late, record[q].first < cut'[q], record[q] # NoRecord PROVE Anchored(record[q])'
    <3>1. record[q].first < cut[q] /\ record[q].first < undo.seq
      BY <2>1, <2>3, <2>4
    <3>. DEFINE c == record[q]
    <3>2. Anchored(c)
      BY <2>2, <2>4, <3>1
    <3>3. c \in Record /\ c.first < undo.seq /\ c' = c
      BY <2>1, <3>1
    <3>4. \A d \in Record : Anchored(d) /\ d.first < undo.seq => Anchored(d)'
      BY <1>3, AnchoredCut
    <3>. QED
      BY <3>2, <3>3, <3>4 DEF Anchored
  <2>. QED
    BY <2>1, <2>2, <2>4 DEF About
<1>4. ASSUME NEW r \in Reader, ReaderActs(r) PROVE About(q, record[q])'
  <2>1. Goes(r)
    BY <1>4, ActsGo
  <2>2. CASE q # r
    BY <1>2, <2>1, <2>2
  <2>3. CASE q = r
    <3>1. CASE ReadRecord(r)
      <4>1. record'[q] = Latest /\ pc[r] = "reading" /\ cut' = cut
        BY <1>0, <2>3, <3>1, ReadRecordOne, OneIs
      <4>2. rows' = rows
        BY <3>1 DEF ReadRecord, storeVars
      <4>3. About(r, Latest)
        BY <4>1, LatestAbout
      <4>. HIDE DEF Latest
      <4>. QED
        BY <2>3, <4>1, <4>2, <4>3 DEF About, Anchored
    <3>2. CASE ReadRows(r)
      <4>1. pc'[r] = "starting"
        BY <1>0, <3>2 DEF ReadRows, Move, Set, ReaderTypes
      <4>. QED
        BY <2>3, <4>1
    <3>3. CASE Fits(r) \/ Summarise(r) \/ SaveRecord(r) \/ Truncate(r)
      <4>1. pc'[r] \in {"summarising", "escalating"} \/ pc'[r] = After(r)
        BY <1>0, <3>3 DEF Fits, Summarise, SaveRecord, Truncate, Move, Set, ReaderTypes
      <4>. QED
        BY <2>3, <4>1, AfterIs
    <3>. QED
      BY <1>4, <3>1, <3>2, <3>3 DEF ReaderActs
  <2>. QED
    BY <2>2, <2>3
<1>5. CASE TurnActs
  <2>1. Goes("turn") /\ "turn" \in Reader
    BY <1>5, TurnGoes DEF Reader
  <2>2. pc'["turn"] # "fetching"
    <3>1. CASE Condense
      BY <1>0, <3>1 DEF Condense, Move, Set, ReaderTypes, Reader
    <3>2. CASE Call \/ Steer \/ Result \/ Answer
      <4>1. PICK m \in Row, extra \in {<<>>, <<Nudge>>}, to \in {"tools", "draining", "between", "done"} :
              One("turn", to, record["turn"], view["turn"] \o <<Item(m)>> \o extra, 0)
        BY <3>2, SayOne
      <4>. QED
        BY <1>0, <2>1, <4>1 DEF One, ReaderTypes
    <3>. QED
      BY <1>5, <3>1, <3>2 DEF TurnActs
  <2>. QED
    BY <1>2, <2>1, <2>2
<1>6. CASE BeginTurn \/ BeginCompress
  <2>1. PICK r \in Reader : Begin(r)
    BY <1>6 DEF BeginTurn, BeginCompress, Reader
  <2>2. Goes(r) /\ pc'[r] = "reading"
    BY <2>1, BeginGoes
  <2>. QED
    BY <1>2, <2>2
<1>7. ASSUME NEW R, Forget(R) PROVE pc[q] = pc'[q] /\ Stays(q)
  BY <1>0, <1>7, ForgetTypes DEF Stays
<1>8. CASE LeaveWithMail \/ Crash \/ \E r \in Reader : Leave(r)
  <2>1. pc[q] = pc'[q] /\ Stays(q)
    BY <1>7, <1>8 DEF LeaveWithMail, Crash, Leave
  <2>2. ~ UndoDeletes
    <3>1. undo' = [at |-> "idle", seq |-> 0] \/ undo' = undo
      BY <1>8 DEF LeaveWithMail, Crash, Leave
    <3>. QED
      BY <3>1, UndoDeletesIs
  <2>. QED
    BY <1>1, <2>1, <2>2
<1>9. CASE UndoReads \/ UndoInvalidates \/ Rename \/ TitleArrives \/ UNCHANGED vars
  <2>1. UNCHANGED readerVars /\ Keeps
    BY <1>9, Kept0 DEF UndoReads, UndoInvalidates, Rename, TitleArrives, vars
  <2>2. Stays(q) /\ pc'[q] = pc[q]
    BY <2>1 DEF readerVars, Stays
  <2>. QED
    BY <2>1, <2>2, AboutStays DEF Stays
<1>. QED
  BY <1>3, <1>4, <1>5, <1>6, <1>8, <1>9 DEF Next, TurnActs, ReaderActs

-----------------------------------------------------------------------------
(* The beginning of a turn.                                                 *)

\* Behind a message of the user nothing is healed.
LEMMA UserLast ==
  ASSUME HistoryInv, pc["turn"] \in {"reading", "fetching"}, cut["turn"] = NoCut
  PROVE  /\ Trailing = {}
         /\ \E q \in rows : q.seq = NextSeq - 1 /\ q.role = "user" /\ \A x \in rows : x.seq <= q.seq
<1>1. NextSeq > 1 /\ (\A q \in rows : q.seq = NextSeq - 1 => q.role = "user") /\ NextSeq \in Nat
  BY RowFacts DEF HistoryInv, TurnBegins, Reader
<1>2. Numbers(rows) = 1 .. (NextSeq - 1)
  BY DEF HistoryInv, RowsInv
<1>3. PICK q \in rows : q.seq = NextSeq - 1
  <2>1. NextSeq - 1 \in Numbers(rows)
    BY <1>1, <1>2
  <2>. QED
    BY <2>1 DEF Numbers
<1>4. q.role = "user" /\ \A x \in rows : x.seq <= q.seq
  <2>1. \A x \in rows : x.seq \in 1 .. (NextSeq - 1)
    BY <1>2 DEF Numbers
  <2>. QED
    BY <1>1, <1>3, <2>1
<1>5. Trailing = {}
  <2>1. SUFFICES ASSUME NEW c \in Trailing PROVE FALSE
    OBVIOUS
  <2>2. c \in rows /\ c.role = "calls" /\ \A x \in rows : c.seq < x.seq /\ x.seq < NextSeq => x.role = "tool"
    BY DEF Trailing, OpenAt
  <2>3. c.seq \in 1 .. (NextSeq - 1) /\ c.seq # NextSeq - 1
    BY <1>1, <1>2, <2>2 DEF Numbers
  <2>4. c.seq < q.seq /\ q.seq < NextSeq
    BY <1>1, <1>3, <2>3
  <2>. QED
    BY <1>3, <1>4, <2>2, <2>4
<1>. QED
  BY <1>3, <1>4, <1>5

\* TurnBegins is kept.
LEMMA BeginsNext ==
  ASSUME HistoryInv, [Next]_vars
  PROVE  TurnBegins'
<1>0. ReaderTypes /\ RecordTypes /\ RowsInv /\ "turn" \in Reader
  BY DEF HistoryInv, Reader
<1>. SUFFICES ASSUME pc'["turn"] \in {"reading", "fetching"}, cut'["turn"] = NoCut
              PROVE  NextSeq' > 1 /\ \A q \in rows' : q.seq = NextSeq' - 1 => q.role = "user"
  BY DEF TurnBegins
<1>1. ASSUME Keeps, pc["turn"] \in {"reading", "fetching"}, cut["turn"] = NoCut
      PROVE  NextSeq' > 1 /\ \A q \in rows' : q.seq = NextSeq' - 1 => q.role = "user"
  BY <1>1 DEF Keeps, HistoryInv, TurnBegins
<1>2. CASE BeginTurn
  <2>1. 0 \in 0 .. MaxRows /\ "user" \in Role
    BY HistoryAssumption DEF Role
  <2>2. Stores(Message("user", 0))
    BY <1>0, <1>2, <2>1, Stored1 DEF BeginTurn
  <2>3. Message("user", 0).role = "user"
    BY DEF Message
  <2>. DEFINE m == Message("user", 0)
  <2>. HIDE DEF m
  <2>4. rows' = rows \cup {m} /\ m.role = "user" /\ NextSeq' = NextSeq + 1
    BY <2>2, <2>3 DEF Stores, m
  <2>5. NextSeq \in Nat /\ NextSeq \in 1 .. nextId /\ nextId \in 1 .. (MaxRows + 1) /\ \A q \in rows : q.seq < NextSeq
    BY <1>0, RowFacts DEF RowsInv
  <2>. QED
    BY <2>4, <2>5
<1>3. CASE BeginCompress
  <2>1. Begin("compress") /\ Keeps /\ "compress" \in Reader /\ "compress" # "turn"
    BY <1>3, Kept0 DEF BeginCompress, Reader
  <2>2. PICK p, c, v, b : One("compress", p, c, v, b) /\ cut' = cut
    BY <2>1, BeginGoes DEF Goes
  <2>3. Stays("turn") /\ pc'["turn"] = pc["turn"]
    BY <1>0, <2>1, <2>2, OneIs
  <2>. QED
    BY <1>1, <2>1, <2>3 DEF Stays
<1>4. ASSUME NEW r \in Reader, ReaderActs(r)
      PROVE  NextSeq' > 1 /\ \A q \in rows' : q.seq = NextSeq' - 1 => q.role = "user"
  <2>1. PICK p, c, v, b : One(r, p, c, v, b) /\ cut' = cut
    BY <1>4, ActsGo DEF Goes
  <2>2. pc["turn"] \in {"reading", "fetching"}
    <3>1. CASE r = "turn"
      <4>2. CASE ReadRecord(r) \/ ReadRows(r)
        BY <3>1, <4>2 DEF ReadRecord, ReadRows, Move
      <4>3. CASE Fits(r) \/ Summarise(r) \/ SaveRecord(r) \/ Truncate(r)
        <5>1. pc'[r] \in {"summarising", "escalating"} \/ pc'[r] = After(r)
          BY <1>0, <4>3 DEF Fits, Summarise, SaveRecord, Truncate, Move, Set, ReaderTypes
        <5>. QED
          BY <3>1, <5>1, AfterIs
      <4>. QED
        BY <1>4, <4>2, <4>3 DEF ReaderActs
    <3>2. CASE r # "turn"
      BY <1>0, <2>1, <3>2, OneIs
    <3>. QED
      BY <3>1, <3>2
  <2>3. cut["turn"] = NoCut
    BY <2>1
  <2>4. Keeps
    <3>1. CASE ReadRows(r)
      BY <1>0, <2>2, <2>3, <3>1, Heals, UserLast
    <3>2. CASE ReadRecord(r) \/ Fits(r) \/ Summarise(r) \/ SaveRecord(r) \/ Truncate(r)
      BY <3>2, Kept0 DEF ReadRecord, Fits, Summarise, SaveRecord, Truncate
    <3>. QED
      BY <1>4, <3>1, <3>2 DEF ReaderActs
  <2>. QED
    BY <1>1, <2>2, <2>3, <2>4
<1>5. CASE TurnActs
  <2>1. CASE Condense
    <3>1. pc'["turn"] = "draining"
      BY <1>0, <2>1 DEF Condense, Move, Set, ReaderTypes
    <3>. QED
      BY <3>1
  <2>2. CASE Call \/ Steer \/ Result \/ Answer
    <3>1. PICK m \in Row, extra \in {<<>>, <<Nudge>>}, to \in {"tools", "draining", "between", "done"} :
            One("turn", to, record["turn"], view["turn"] \o <<Item(m)>> \o extra, 0)
      BY <2>2, SayOne
    <3>2. pc'["turn"] = to
      BY <1>0, <3>1 DEF One, ReaderTypes
    <3>. QED
      BY <3>2
  <2>. QED
    BY <1>5, <2>1, <2>2 DEF TurnActs
<1>6. ASSUME NEW R, Forget(R), Keeps \/ "turn" \in R
      PROVE  NextSeq' > 1 /\ \A q \in rows' : q.seq = NextSeq' - 1 => q.role = "user"
  <2>1. "turn" \notin R /\ pc'["turn"] = pc["turn"] /\ cut'["turn"] = cut["turn"]
    BY <1>0, <1>6, ForgetTypes
  <2>. QED
    BY <1>1, <1>6, <2>1
<1>7. CASE LeaveWithMail
  BY <1>6, <1>7 DEF LeaveWithMail
<1>8. CASE Crash
  BY <1>6, <1>8, Kept0 DEF Crash
<1>9. ASSUME NEW r \in Reader, Leave(r)
      PROVE  NextSeq' > 1 /\ \A q \in rows' : q.seq = NextSeq' - 1 => q.role = "user"
  BY <1>6, <1>9, Kept0 DEF Leave
<1>10. CASE UndoDeletes
  <2>1. \/ pc["turn"] = "idle" /\ pc' = pc
        \/ cut'["turn"] \in 1 .. MaxRows
    BY <1>0, <1>10, UndoDeletesIs
  <2>. QED
    BY <2>1, HistoryAssumption DEF NoCut
<1>11. CASE UndoReads \/ UndoInvalidates \/ Rename \/ TitleArrives \/ UNCHANGED vars
  <2>1. UNCHANGED readerVars /\ Keeps
    BY <1>11, Kept0 DEF UndoReads, UndoInvalidates, Rename, TitleArrives, vars
  <2>. QED
    BY <1>1, <2>1 DEF readerVars
<1>. QED
  BY <1>2, <1>3, <1>4, <1>5, <1>7, <1>8, <1>9, <1>10, <1>11 DEF Next, TurnActs, ReaderActs

-----------------------------------------------------------------------------
(* Calls and their results.                                                 *)

\* A call that is stored, or known to be gone, stays so: no id is given twice.
LEMMA CallKept ==
  ASSUME HistoryInv, Keeps \/ \E m : Stores(m), torn' = torn, NEW id, id < nextId, CallStored(id), id \in Int
  PROVE  id < nextId' /\ CallStored(id)'
<1>0. nextId \in Nat
  BY HistoryAssumption DEF HistoryInv, RowsInv
<1>1. CASE Keeps
  BY <1>1 DEF Keeps, CallStored, Ids
<1>2. ASSUME NEW m, Stores(m) PROVE id < nextId' /\ CallStored(id)'
  <2>1. rows' = rows \cup {m} /\ nextId' = nextId + 1 /\ m.id = nextId
    BY <1>2 DEF Stores
  <2>2. id # m.id
    BY <1>0, <2>1
  <2>. QED
    BY <1>0, <2>1, <2>2 DEF CallStored, Ids
<1>. QED
  BY <1>1, <1>2

\* A result stored behind its call.
LEMMA ResultsStored ==
  ASSUME HistoryInv, NEW m, Stores(m), torn' = torn,
         m.role = "tool" => m.call < nextId /\ CallStored(m.call)
  PROVE  ResultsFit'
<1>0. nextId \in Nat /\ rows \subseteq Row /\ m \in Row
  BY HistoryAssumption DEF HistoryInv, RowsInv, Stores, Behind
<1>1. rows' = rows \cup {m} /\ m.id = nextId /\ \A q \in rows : q.seq < m.seq
  BY DEF Stores, Behind
<1>2. \A q \in Row : q.call \in Int
  BY HistoryAssumption DEF Row
<1>. SUFFICES ASSUME NEW r \in rows', r.role = "tool"
              PROVE  r.call < nextId' /\ CallStored(r.call)' /\ \A c \in rows' : c.id = r.call => c.seq < r.seq
  BY DEF ResultsFit
<1>3. r.call < nextId /\ CallStored(r.call) /\ \A c \in rows : c.id = r.call => c.seq < r.seq
  <2>1. CASE r \in rows
    BY <2>1 DEF HistoryInv, ForkInv, ResultsFit
  <2>2. CASE r \notin rows
    BY <1>1, <2>2
  <2>. QED
    BY <2>1, <2>2
<1>4. r.call \in Int /\ r.call # m.id
  BY <1>0, <1>1, <1>2, <1>3
<1>5. r.call < nextId' /\ CallStored(r.call)'
  <2>. DEFINE id == r.call
  <2>1. id < nextId /\ CallStored(id) /\ id \in Int
    BY <1>3, <1>4
  <2>. HIDE DEF id
  <2>2. id < nextId' /\ CallStored(id)'
    BY <2>1, CallKept
  <2>. QED
    BY <2>2 DEF id
<1>. QED
  BY <1>1, <1>3, <1>4, <1>5

LEMMA ResultsKept ==
  ASSUME HistoryInv, Keeps, torn' = torn
  PROVE  ResultsFit'
BY DEF HistoryInv, ForkInv, ResultsFit, Keeps, CallStored, Ids

\* The call a turn awaits stays the last of its view.
LEMMA AwaitedKept ==
  ASSUME HistoryInv, Keeps \/ \E m : Stores(m), torn' = torn, view'["turn"] = view["turn"], pc'["turn"] = pc["turn"]
  PROVE  CallAwaited'
<1>. SUFFICES ASSUME pc["turn"] = "tools"
              PROVE  LET v == view["turn"] IN
                     /\ Len(v) > 0 /\ v[Len(v)].kind = "row"
                     /\ v[Len(v)].row.id < nextId' /\ CallStored(v[Len(v)].row.id)'
  BY DEF CallAwaited, CallStored
<1>. DEFINE v == view["turn"]
            id == v[Len(v)].row.id
<1>1. Len(v) > 0 /\ v[Len(v)].kind = "row" /\ id < nextId /\ CallStored(id)
  BY DEF HistoryInv, ForkInv, CallAwaited
<1>2. id \in Int
  <2>1. v \in Seq(Piece)
    BY RowFacts DEF Reader
  <2>2. v[Len(v)] \in Piece
    BY <1>1, <2>1
  <2>. QED
    BY <1>1, <2>2, PieceIs, HistoryAssumption DEF Row
<1>3. CallStored(id) => id < nextId' /\ (\A x : x = id => CallStored(x)')
  <2>. HIDE DEF id
  <2>. QED
    BY <1>1, <1>2, CallKept
<1>4. CallStored(id)'
  BY <1>1, <1>3 DEF CallStored
<1>. QED
  BY <1>1, <1>3, <1>4 DEF CallStored

LEMMA UserStored ==
  ASSUME HistoryInv, Room, Store(Message("user", 0))
  PROVE  \E m : Stores(m) /\ m.role = "user"
<1>1. 0 \in 0 .. MaxRows /\ "user" \in Role /\ RowsInv
  BY HistoryAssumption DEF Role, HistoryInv
<1>2. Stores(Message("user", 0))
  BY <1>1, Stored1
<1>3. Message("user", 0).role = "user"
  BY DEF Message
<1>. QED
  BY <1>2, <1>3

\* What a turn says answers the call it awaits.
LEMMA SayFork ==
  ASSUME HistoryInv, Call \/ Steer \/ Result \/ Answer
  PROVE  ForkInv'
<1>0. "turn" \in Reader /\ ReaderTypes
  BY DEF Reader, HistoryInv
<1>. DEFINE v == view["turn"]
<1>1. PICK m \in Row, extra \in {<<>>, <<Nudge>>}, to \in {"tools", "draining", "between", "done"} :
        LET w == v \o <<Item(m)>> \o extra IN
           /\ One("turn", to, record["turn"], w, 0)
           /\ Stores(m) /\ cut' = cut /\ v \in Seq(Piece)
           /\ m.role = "tool" => pc["turn"] = "tools" /\ m.call = v[Len(v)].row.id
           /\ to = "tools" => m.role = "calls" /\ extra = <<>>
  BY SayOne
<1>2. torn' = torn
  BY DEF Call, Steer, Result, Answer, Say, SayWith, otherVars
<1>3. m.role = "tool" => m.call < nextId /\ CallStored(m.call)
  BY <1>1 DEF HistoryInv, ForkInv, CallAwaited
<1>4. ResultsFit'
  BY <1>1, <1>2, <1>3, ResultsStored
<1>5. CallAwaited'
  <2>. DEFINE w == v \o <<Item(m)>> \o extra
              x == v \o <<Item(m)>>
  <2>1. One("turn", to, record["turn"], w, 0) /\ cut' = cut
    BY <1>1
  <2>2. (extra = <<>> /\ w = x) \/ (extra = <<Nudge>> /\ w = x \o <<Nudge>>)
    BY <1>1, SaidView
  <2>3. Len(x) = Len(v) + 1 /\ x[Len(v) + 1] = Item(m)
    <3>1. Item(m) \in Piece
      BY DEF Piece
    <3>. HIDE DEF v
    <3>. QED
      BY <1>1, <3>1, AppendedTells
  <2>4. Len(v) \in Nat
    BY <1>1
  <2>. HIDE DEF w, v, x
  <2>5. pc'["turn"] = to /\ view'["turn"] = w
    BY <1>0, <2>1, OneIs
  <2>6. CASE to = "tools"
    <3>1. w = x /\ m.role = "calls"
      <4>1. <<>> # <<Nudge>>
        <5>1. Len(<<>>) = 0 /\ Len(<<Nudge>>) = 1
          OBVIOUS
        <5>. QED
          BY <5>1
      <4>. QED
        BY <1>1, <2>2, <2>6, <4>1
    <3>2. Len(w) = Len(v) + 1 /\ w[Len(w)] = Item(m) /\ Len(w) > 0
      BY <2>3, <2>4, <3>1
    <3>3. Item(m).kind = "row" /\ Item(m).row = m
      BY DEF Item
    <3>4. m \in rows' /\ m.id = nextId /\ nextId' = nextId + 1 /\ nextId \in Nat
      BY <1>1, HistoryAssumption DEF Stores, HistoryInv, RowsInv
    <3>5. m.id < nextId' /\ CallStored(m.id)'
      BY <3>1, <3>4 DEF CallStored
    <3>. QED
      BY <2>5, <3>2, <3>3, <3>5 DEF CallAwaited, CallStored
  <2>7. CASE to # "tools"
    BY <2>5, <2>7 DEF CallAwaited
  <2>. QED
    BY <2>6, <2>7
<1>. QED
  BY <1>4, <1>5 DEF ForkInv

LEMMA ActsFork ==
  ASSUME HistoryInv, NEW r \in Reader, ReaderActs(r)
  PROVE  ForkInv'
<1>0. "turn" \in Reader /\ ReaderTypes /\ RowsInv
  BY DEF Reader, HistoryInv
<1>1. torn' = torn
  BY DEF ReaderActs, ReadRecord, ReadRows, Fits, Summarise, SaveRecord, Truncate, otherVars
<1>2. Keeps \/ \E c \in rows : c.role = "calls" /\ Stores(Message("tool", c.id))
  <2>1. CASE ReadRows(r)
    BY <1>0, <2>1, Heals
  <2>2. CASE ReadRecord(r) \/ Fits(r) \/ Summarise(r) \/ SaveRecord(r) \/ Truncate(r)
    BY <2>2, Kept0 DEF ReadRecord, Fits, Summarise, SaveRecord, Truncate
  <2>. QED
    BY <2>1, <2>2 DEF ReaderActs
<1>3. ResultsFit'
  <2>1. CASE Keeps
    BY <1>1, <2>1, ResultsKept
  <2>2. ASSUME NEW c \in rows, c.role = "calls", Stores(Message("tool", c.id)) PROVE ResultsFit'
    <3>. DEFINE m == Message("tool", c.id)
    <3>1. m.call = c.id
      BY DEF Message
    <3>2. c.id < nextId /\ CallStored(c.id)
      BY <1>0, <2>2 DEF RowsInv, CallStored
    <3>. HIDE DEF m
    <3>3. Stores(m)
      BY <2>2 DEF m
    <3>. QED
      BY <1>1, <3>1, <3>2, <3>3, ResultsStored
  <2>. QED
    BY <1>2, <2>1, <2>2
<1>4. CallAwaited'
  <2>1. CASE r = "turn"
    <3>1. pc'["turn"] \in {"fetching", "starting", "summarising", "escalating"} \/ pc'["turn"] = After(r)
      BY <1>0, <2>1 DEF ReaderActs, ReadRecord, ReadRows, Fits, Summarise, SaveRecord, Truncate, Move, Set, ReaderTypes
    <3>2. pc'["turn"] # "tools"
      BY <3>1, AfterIs
    <3>. QED
      BY <3>2 DEF CallAwaited
  <2>2. CASE r # "turn"
    <3>1. PICK p, c, v, b : One(r, p, c, v, b) /\ cut' = cut
      BY ActsGo DEF Goes
    <3>2. Stays("turn") /\ pc'["turn"] = pc["turn"]
      BY <1>0, <2>2, <3>1, OneIs
    <3>. QED
      BY <1>1, <1>2, <3>2, AwaitedKept DEF Stays
  <2>. QED
    BY <2>1, <2>2
<1>. QED
  BY <1>3, <1>4 DEF ForkInv

\* An undo takes the results with their calls.
LEMMA CutFork ==
  ASSUME HistoryInv, UndoDeletes
  PROVE  ForkInv'
<1>1. /\ rows' = rows \ From(rows, undo.seq) /\ nextId' = nextId /\ UNCHANGED <<pc, view>>
      /\ torn' = torn \cup Ids({r \in From(rows, undo.seq) : r.role = "calls"})
  BY UndoDeletesIs
<1>2. \A r, q \in rows : r.id = q.id => r = q
  BY DEF HistoryInv, RowsInv
<1>3. ASSUME NEW id, CallStored(id) PROVE CallStored(id)'
  <2>1. CASE \E c \in rows : c.id = id /\ c.role = "calls"
    <3>1. PICK c \in rows : c.id = id /\ c.role = "calls"
      BY <2>1
    <3>2. CASE c \in rows'
      BY <3>1, <3>2 DEF CallStored
    <3>3. CASE c \notin rows'
      <4>1. c \in From(rows, undo.seq) /\ id \in torn'
        BY <1>1, <3>1, <3>3 DEF Ids
      <4>2. id \notin Ids(rows')
        BY <1>1, <1>2, <3>1, <3>3 DEF Ids
      <4>. QED
        BY <4>1, <4>2 DEF CallStored, Ids
    <3>. QED
      BY <3>2, <3>3
  <2>2. CASE id \in torn /\ id \notin Ids(rows)
    BY <1>1, <2>2 DEF CallStored, Ids
  <2>. QED
    BY <1>3, <2>1, <2>2 DEF CallStored
<1>4. ResultsFit'
  BY <1>1, <1>3 DEF HistoryInv, ForkInv, ResultsFit
<1>5. CallAwaited'
  <2>. SUFFICES ASSUME pc["turn"] = "tools"
                PROVE  LET v == view["turn"] IN
                       /\ Len(v) > 0 /\ v[Len(v)].kind = "row"
                       /\ v[Len(v)].row.id < nextId /\ CallStored(v[Len(v)].row.id)'
    BY <1>1 DEF CallAwaited, CallStored
  <2>. DEFINE v == view["turn"]
              id == v[Len(v)].row.id
  <2>1. Len(v) > 0 /\ v[Len(v)].kind = "row" /\ id < nextId /\ CallStored(id)
    BY DEF HistoryInv, ForkInv, CallAwaited
  <2>2. \A x : CallStored(x) => CallStored(x)'
    BY <1>3
  <2>3. CallStored(id)'
    BY <1>1, <2>1, <2>2 DEF CallStored
  <2>. QED
    BY <2>1, <2>3
<1>. QED
  BY <1>4, <1>5 DEF ForkInv

\* ForkInv is kept.
LEMMA ForkNext ==
  ASSUME HistoryInv, [Next]_vars
  PROVE  ForkInv'
<1>0. "turn" \in Reader /\ "compress" \in Reader /\ ReaderTypes /\ RowsInv
  BY DEF Reader, HistoryInv
<1>1. CASE BeginTurn
  <2>1. PICK m : Stores(m) /\ m.role = "user"
    BY <1>1, UserStored DEF BeginTurn
  <2>2. torn' = torn
    BY <1>1 DEF BeginTurn, Begin, otherVars
  <2>3. pc'["turn"] = "reading"
    BY <1>0, <1>1, BeginGoes DEF BeginTurn
  <2>4. ResultsFit'
    BY <2>1, <2>2, ResultsStored
  <2>. QED
    BY <2>3, <2>4 DEF ForkInv, CallAwaited
<1>2. CASE BeginCompress
  <2>1. Begin("compress") /\ Keeps /\ "compress" # "turn" /\ torn' = torn
    BY <1>2, Kept0 DEF BeginCompress, Begin, otherVars
  <2>2. PICK p, c, v, b : One("compress", p, c, v, b) /\ cut' = cut
    BY <1>0, <2>1, BeginGoes DEF Goes
  <2>3. Stays("turn") /\ pc'["turn"] = pc["turn"]
    BY <1>0, <2>1, <2>2, OneIs
  <2>. QED
    BY <2>1, <2>3, ResultsKept, AwaitedKept DEF ForkInv, Stays
<1>3. ASSUME NEW r \in Reader, ReaderActs(r) PROVE ForkInv'
  BY <1>3, ActsFork
<1>4. CASE Condense
  <2>1. Keeps /\ torn' = torn
    BY <1>4, Kept0 DEF Condense, otherVars
  <2>2. pc'["turn"] = "draining"
    BY <1>0, <1>4 DEF Condense, Move, Set, ReaderTypes
  <2>. QED
    BY <2>1, <2>2, ResultsKept DEF ForkInv, CallAwaited
<1>5. CASE Call \/ Steer \/ Result \/ Answer
  BY <1>5, SayFork
<1>6. ASSUME NEW R, Forget(R), torn' = torn, Keeps \/ ("turn" \in R /\ \E m : Stores(m) /\ m.role = "user")
      PROVE  ForkInv'
  <2>1. \/ "turn" \in R /\ pc'["turn"] = "idle"
        \/ "turn" \notin R /\ pc'["turn"] = pc["turn"] /\ view'["turn"] = view["turn"]
    BY <1>0, <1>6, ForgetTypes
  <2>2. ResultsFit'
    BY <1>6, ResultsKept, ResultsStored
  <2>3. CallAwaited'
    <3>1. CASE pc'["turn"] = "idle"
      BY <3>1 DEF CallAwaited
    <3>2. CASE "turn" \notin R /\ pc'["turn"] = pc["turn"] /\ view'["turn"] = view["turn"]
      BY <1>6, <3>2, AwaitedKept
    <3>. QED
      BY <2>1, <3>1, <3>2
  <2>. QED
    BY <2>2, <2>3 DEF ForkInv
<1>7. CASE LeaveWithMail
  <2>1. \E m : Stores(m) /\ m.role = "user"
    BY <1>7, UserStored DEF LeaveWithMail
  <2>2. Forget({"turn"}) /\ torn' = torn
    BY <1>7 DEF LeaveWithMail, otherVars
  <2>. QED
    BY <1>6, <2>1, <2>2
<1>8. CASE Crash
  <2>1. Forget(Reader) /\ torn' = torn /\ Keeps
    BY <1>8, Kept0 DEF Crash, otherVars
  <2>. QED
    BY <1>6, <2>1
<1>9. ASSUME NEW r \in Reader, Leave(r) PROVE ForkInv'
  <2>1. Forget({r}) /\ torn' = torn /\ Keeps
    BY <1>9, Kept0 DEF Leave, otherVars
  <2>. QED
    BY <1>6, <2>1
<1>10. CASE UndoDeletes
  BY <1>10, CutFork
<1>11. CASE UndoReads \/ UndoInvalidates \/ Rename \/ TitleArrives \/ UNCHANGED vars
  <2>1. UNCHANGED readerVars /\ Keeps /\ torn' = torn
    BY <1>11, Kept0 DEF UndoReads, UndoInvalidates, Rename, TitleArrives, vars, otherVars
  <2>. QED
    BY <2>1, ResultsKept, AwaitedKept DEF readerVars, ForkInv
<1>. QED
  BY <1>1, <1>2, <1>3, <1>4, <1>5, <1>7, <1>8, <1>9, <1>10, <1>11 DEF Next, ReaderActs

-----------------------------------------------------------------------------
(* The invariant and the theorems.                                          *)

\* The invariant holds of a thread as a session finds it.
LEMMA HistoryInit == Init => HistoryInv
<1>. SUFFICES ASSUME Init PROVE HistoryInv
  OBVIOUS
<1>1. NoRecord \in Record /\ <<>> \in Seq(Piece) /\ Len(<<>>) = 0 /\ 0 \in Nat /\ "idle" \in Place
      /\ MaxRows \in Nat \ {0} /\ NoCut \in 1 .. NoCut
  BY HistoryAssumption DEF NoRecord, Record, Known, Place, NoCut
<1>2. RowsInv /\ NextSeq = 1
  <2>1. Numbers({}) = 1 .. 0
    BY DEF Numbers
  <2>2. Max({0} \cup Numbers({})) = 0
    BY <2>1, TopIs
  <2>3. rows = {} /\ nextId = 1 /\ NextSeq = 1
    BY <2>2 DEF Init, NextSeq
  <2>. QED
    BY <1>1, <2>1, <2>3 DEF RowsInv
<1>3. CutInv
  BY <1>1 DEF Init, CutInv
<1>4. ReaderTypes /\ RecordTypes
  BY <1>1 DEF Init, ReaderTypes, RecordTypes
<1>5. \A r \in Reader : pc[r] = "idle" /\ records = {} /\ rows = {}
  BY DEF Init
<1>6. RecordsInv /\ FetchInv /\ ViewsInv
  BY <1>5 DEF Init, RecordsInv, FetchInv, ViewsInv, Working
<1>7. TurnBegins /\ ForkInv
  BY <1>5 DEF TurnBegins, ForkInv, ResultsFit, CallAwaited, Reader, Init
<1>. QED
  BY <1>2, <1>3, <1>4, <1>6, <1>7 DEF HistoryInv

\* And every step keeps it.
LEMMA HistoryNext == HistoryInv /\ [Next]_vars => HistoryInv'
<1>. SUFFICES ASSUME HistoryInv, [Next]_vars PROVE HistoryInv'
  OBVIOUS
<1>1. RowsInv'
  BY RowsNext
<1>2. CutInv'
  BY CutNext
<1>3. ReaderTypes' /\ RecordTypes'
  BY ReaderTypesNext, RecordTypesNext
<1>4. RecordsInv' /\ FetchInv'
  BY RecordsNext, FetchNext
<1>5. ViewsInv'
  BY ViewsNext
<1>6. TurnBegins' /\ ForkInv'
  BY BeginsNext, ForkNext
<1>. QED
  BY <1>1, <1>2, <1>3, <1>4, <1>5, <1>6 DEF HistoryInv

\* The invariant holds in every reachable state.
THEOREM HistoryInvariant == Spec => []HistoryInv
BY HistoryInit, HistoryNext, PTL DEF Spec

\* A compression record that no undo disturbed names a message of the thread to go on from
\* and tells of what was stored before it only, unless a checkpoint merged into a user message
\* shifted where it ends, and of all of that unless a truncation had dropped some; whatever the turn and a compression beside it stored and summarised
\* meanwhile (saveCompressionRecord, DeleteMessagesAfter).
THEOREM SummaryAnchoredHolds == Spec => []SummaryAnchored
<1>1. HistoryInv => SummaryAnchored
  <2>. SUFFICES ASSUME HistoryInv, NEW c \in records,
                       ~c.late, ~(undo.at = "invalidating" /\ c.first >= undo.seq)
                PROVE  /\ c.first \in Numbers(rows)
                       /\ c.again \/ c.covers \subseteq Content(Before(rows, c.first))
                       /\ c.whole => Content(Before(rows, c.first)) \subseteq c.covers
    BY DEF SummaryAnchored
  <2>. QED
    BY DEF HistoryInv, RecordsInv, Anchored, Accounts
<1>. QED
  BY <1>1, HistoryInvariant, PTL

\* Store.ForkThread maps the id of a result's call to that of its copy.  It refuses a thread
\* only after an undo took a call whose result came later, and in a fork each result
\* refers to a call before it: no id of a deleted row is given again.
THEOREM ForkWorksHolds == Spec => []ForkWorks
<1>1. HistoryInv => ForkWorks
  <2>. SUFFICES ASSUME HistoryInv PROVE ForkWorks
    OBVIOUS
  <2>1. \A r \in rows : r.role = "tool" =>
          CallStored(r.call) /\ \A c \in rows : c.id = r.call => c.seq < r.seq
    BY DEF HistoryInv, ForkInv, ResultsFit
  <2>2. CASE ForkRefused
    BY <2>1, <2>2 DEF ForkRefused, ForkWorks, CallStored, Ids
  <2>3. CASE ~ ForkRefused
    <3>. SUFFICES ASSUME NEW r \in Copy, r.role = "tool"
                  PROVE  \E c \in Copy : c.role = "calls" /\ c.id = r.call /\ c.seq < r.seq
      BY <2>3 DEF ForkWorks
    <3>. DEFINE F(q) == [q EXCEPT !.id = NewId(@), !.call = Remap(q)]
    <3>1. ASSUME NEW q \in rows
          PROVE  /\ F(q) \in Copy /\ F(q).id = NewId(q.id) /\ F(q).call = Remap(q)
                 /\ F(q).role = q.role /\ F(q).seq = q.seq
      <4>1. q \in Row
        BY DEF HistoryInv, RowsInv
      <4>. QED
        BY <4>1 DEF Copy, Row
    <3>2. PICK q \in rows : r = F(q)
      BY DEF Copy
    <3>. HIDE DEF F
    <3>3. q.role = "tool" /\ r.call = NewId(q.call) /\ r.seq = q.seq
      BY <3>1, <3>2 DEF Remap
    <3>4. q.call \in Ids(rows)
      BY <2>3, <3>3 DEF ForkRefused
    <3>5. PICK c \in rows : c.id = q.call /\ c.role = "calls" /\ c.seq < q.seq
      BY <2>1, <3>3, <3>4 DEF CallStored
    <3>. QED
      BY <3>1, <3>3, <3>5
  <2>. QED
    BY <2>2, <2>3
<1>. QED
  BY <1>1, HistoryInvariant, PTL

-----------------------------------------------------------------------------
(* The user's latest message.                                               *)

\* The latest message of the user among S is shown in w.
LatestIn(w, S) ==
  \E r \in RowsOf(w) : r.role = "user" /\ \A q \in S : q.role = "user" => q.seq <= r.seq

\* It is then the last user message of the view.
LatestAt(v, j, S) ==
  /\ Lasts(v, j) /\ \A q \in S : q.role = "user" => q.seq <= v[j].row.seq

\* Where the latest message is shown.
LEMMA ShownAt ==
  ASSUME HistoryInv, Working("turn"), cut["turn"] = NoCut, LatestShown
  PROVE  \E j : LatestAt(view["turn"], j, rows)
<1>. DEFINE v == view["turn"]
<1>1. v \in Seq(Piece) /\ ViewRowType(v) /\ rows \subseteq Row
  BY RowFacts, RowPieces DEF Reader
<1>2. RowsFit(v, rows, NoCut)
  BY DEF HistoryInv, ViewsInv, ViewInv, ViewRows, Reader
<1>3. PICK j \in DOMAIN v : /\ v[j].kind = "row" /\ v[j].row.role = "user"
                            /\ \A q \in rows : q.role = "user" => q.seq <= v[j].row.seq
  BY DEF LatestShown, RowsOf, Of
<1>. HIDE DEF v
<1>4. ASSUME NEW k \in DOMAIN v, v[k].kind = "row" PROVE v[k].row.seq \in 1 .. MaxRows /\ v[k].row.seq < NoCut
  BY <1>1, <1>4, HistoryAssumption DEF ViewRowType, Row, NoCut
<1>5. ASSUME NEW k \in DOMAIN v, IsRow(v, k, "user") PROVE k <= j
  <2>1. v[k].kind = "row" /\ v[k].row.role = "user"
    BY <1>5 DEF IsRow
  <2>2. v[k].row \in rows /\ v[k].row.seq <= v[j].row.seq
    <3>1. v[k].row.seq < NoCut
      BY <1>4, <2>1
    <3>2. v[k].row \in rows
      BY <1>2, <2>1, <3>1 DEF RowsFit
    <3>. QED
      BY <1>3, <2>1, <3>2
  <2>3. j < k => v[j].row.seq < v[k].row.seq
    <3>1. v[k].row.seq < NoCut
      BY <1>4, <2>1
    <3>. QED
      BY <1>2, <1>3, <2>1, <3>1 DEF RowsFit
  <2>4. v[j].row.seq \in Int /\ v[k].row.seq \in Int /\ j \in Int /\ k \in Int
    <3>1. v[j].row.seq \in 1 .. MaxRows /\ v[k].row.seq \in 1 .. MaxRows
      BY <1>3, <1>4, <2>1
    <3>2. DOMAIN v = 1 .. Len(v)
      BY <1>1
    <3>. QED
      BY <3>1, <3>2, HistoryAssumption
  <2>. QED
    BY <2>2, <2>3, <2>4
<1>6. Lasts(v, j)
  BY <1>3, <1>5 DEF Lasts, IsRow
<1>. QED
  BY <1>3, <1>6 DEF LatestAt, v

\* It stays shown where the view keeps it, and no later one is stored.
LEMMA ShownStays ==
  ASSUME NEW v, NEW j, NEW S, LatestAt(v, j, S), NEW w, \E i \in DOMAIN w : w[i] = v[j],
         NEW T, \A q \in T : q.role = "user" => q \in S
  PROVE  LatestIn(w, T)
<1>1. PICK i \in DOMAIN w : w[i] = v[j]
  OBVIOUS
<1>2. w[i].kind = "row" /\ w[i].row.role = "user" /\ w[i].row \in RowsOf(w)
  BY <1>1 DEF LatestAt, Lasts, IsRow, RowsOf, Of
<1>. QED
  BY <1>1, <1>2 DEF LatestAt, LatestIn

\* The steps by others than the turn.
LEMMA OthersShow ==
  ASSUME LatestShown, view'["turn"] = view["turn"], Keeps \/ \E m : Stores(m) /\ m.role # "user"
  PROVE  LatestShown'
<1>1. \A q \in rows' : q.role = "user" => q \in rows
  BY DEF Keeps, Stores
<1>. QED
  BY <1>1 DEF LatestShown

\* What a turn reads shows the user's latest message: it is behind every record.
LEMMA ReadShows ==
  ASSUME HistoryInv, ReadRows("turn"), cut["turn"] = NoCut
  PROVE  LatestShown'
<1>0. "turn" \in Reader /\ RowsInv
  BY DEF Reader, HistoryInv
<1>1. pc["turn"] = "fetching"
  BY DEF ReadRows, Move
<1>2. PICK x \in rows : x.seq = NextSeq - 1 /\ x.role = "user" /\ \A q \in rows : q.seq <= x.seq
  BY <1>1, UserLast
<1>3. Trailing = {} /\ Keeps
  BY <1>0, <1>1, UserLast, Heals
<1>4. PICK c \in Record : /\ c = NoRecord \/ (c = record["turn"] /\ Usable(c))
                          /\ \A q \in rows' : q.seq >= c.first /\ q.role # "tool" =>
                               \E k \in DOMAIN view'["turn"] : view'["turn"][k] = Item(q)
  BY <1>0, ReadRowsOne
<1>5. x.seq >= c.first
  <2>1. CASE c = NoRecord
    <3>1. x.seq \in Nat
      BY HistoryAssumption DEF HistoryInv, RowsInv, Row
    <3>. QED
      BY <2>1, <3>1 DEF NoRecord
  <2>2. CASE Usable(c)
    <3>1. PICK q \in rows : q.seq = c.first
      BY <2>2 DEF Usable, Numbers
    <3>2. q.seq \in Nat /\ x.seq \in Nat /\ q.seq <= x.seq
      BY <1>2, HistoryAssumption DEF HistoryInv, RowsInv, Row
    <3>. QED
      BY <3>1, <3>2
  <2>. QED
    BY <1>4, <2>1, <2>2
<1>6. PICK k \in DOMAIN view'["turn"] : view'["turn"][k] = Item(x)
  BY <1>2, <1>3, <1>4, <1>5 DEF Keeps
<1>7. x \in RowsOf(view'["turn"])
  <2>1. Item(x).kind = "row" /\ Item(x).row = x
    BY DEF Item
  <2>. QED
    BY <1>6, <2>1 DEF RowsOf, Of
<1>. QED
  BY <1>2, <1>3, <1>7 DEF LatestShown, Keeps

\* A summary does not go past the last user message, unless a nudge, which counts as
\* one, stands behind it: a checkpoint there is merged into that message.
LEMMA SaveShows ==
  ASSUME HistoryInv, SaveRecord("turn"), Working("turn"), cut["turn"] = NoCut, LatestShown,
         Of(Kept("turn"), {"nudge"}) = {}
  PROVE  LatestShown'
<1>. DEFINE v == view["turn"]
            b == batch["turn"]
            f == KeptFrom("turn")
            K == SubSeq(v, f + 1, Len(v))
            d == Summary(Told(SubSeq(v, 1, b)))
            w == <<d>> \o K
<1>0. "turn" \in Reader /\ ReaderTypes /\ RecordTypes
  BY DEF Reader, HistoryInv
<1>1. PICK p : One("turn", p, Made("turn"), w, 0) /\ b \in 1 .. Len(v) /\ cut' = cut
  BY <1>0, SaveOne DEF Batch, Kept
<1>2. v \in Seq(Piece) /\ Ordered(v) /\ BatchStops(v, b) /\ f \in 0 .. b
  <2>1. v \in Seq(Piece)
    BY <1>0, RowFacts
  <2>2. ViewInv("turn")
    BY <1>0 DEF HistoryInv, ViewsInv
  <2>3. b > 0
    BY <1>1, <2>1
  <2>4. f \in 0 .. b
    BY <1>0, <2>3, MadeIs
  <2>. QED
    BY <2>1, <2>2, <2>3, <2>4 DEF ViewInv
<1>3. PICK j : LatestAt(v, j, rows)
  BY ShownAt
<1>4. view'["turn"] = w
  <2>. HIDE DEF w
  <2>. QED
    BY <1>0, <1>1, OneIs
<1>5. Digested(w, v, 0, f, d)
  <2>. HIDE DEF v, b, f
  <2>. QED
    BY <1>1, <1>2, SavedView
<1>6. Len(K) = Len(v) - f /\ \A i \in 1 .. (Len(v) - f) : K[i] = v[f + i]
  <2>1. f \in 0 .. Len(v) /\ Len(v) \in f .. Len(v)
    BY <1>1, <1>2
  <2>. HIDE DEF v, b, f
  <2>. QED
    BY <1>2, <2>1, PartIs
<1>7. Of(K, {"nudge"}) = {} /\ K \in Seq(Piece)
  <2>1. Kept("turn") = K
    BY DEF Kept
  <2>2. K \in Seq(Piece)
    <3>. HIDE DEF v, b, f
    <3>. QED
      BY <1>1, <1>2, SavedView
  <2>. QED
    BY <2>1, <2>2
<1>8. Keeps
  BY Kept0 DEF SaveRecord
<1>. HIDE DEF v, b, f, K, d, w
<1>9. j \in 1 .. Len(v) /\ Len(v) \in Nat /\ DOMAIN v = 1 .. Len(v) /\ b \in 1 .. Len(v)
      /\ f \in Nat /\ f <= b
      /\ v[j].kind = "row" /\ v[j].row.role = "user" /\ \A k \in DOMAIN v : IsRow(v, k, "user") => k <= j
  BY <1>1, <1>2, <1>3 DEF LatestAt, Lasts, IsRow
<1>10. b < j
  <2>1. SUFFICES ASSUME ~ (b < j) PROVE FALSE
    OBVIOUS
  <2>. DEFINE U == {k \in DOMAIN v \ Merged(v) : UserRole(v, k)}
              t == Max(U)
  <2>2. U \subseteq 1 .. Len(v) /\ j \in U
    BY <1>9 DEF UserRole, Merged, Of
  <2>. HIDE DEF U
  <2>3. t \in U /\ \A y \in U : t >= y
    BY <1>9, <2>2, MaxProperties
  <2>. HIDE DEF t
  <2>4. t \in 1 .. Len(v) /\ j <= t /\ UserRole(v, t) /\ t \notin Merged(v) /\ \A y \in U : y <= t
    <3>1. t \in 1 .. Len(v) /\ t >= j
      BY <2>2, <2>3
    <3>2. \A y \in U : y <= t
      BY <1>9, <2>2, <2>3, <3>1
    <3>. QED
      BY <1>9, <2>3, <3>1, <3>2 DEF U
  <2>5. Stops(v, t) /\ t \in GroupStarts(v)
    BY <1>9, <2>3, <2>4 DEF Stops, GroupStarts, UserRole, IsRow, U
  <2>6. b < t
    BY <1>2, <2>5 DEF BatchStops
  <2>7. v[t].kind \in {"todo", "nudge", "row", "summary", "checkpoint"}
    BY <1>2, <1>9, <2>4, PieceIs
  <2>8. v[t].kind \notin Leads
    <3>1. j < t
      BY <1>9, <2>1, <2>4, <2>6
    <3>. QED
      BY <1>2, <1>9, <2>4, <3>1 DEF Ordered, Leading, Leads
  <2>9. v[t].kind # "nudge"
    <3>1. t - f \in 1 .. (Len(v) - f) /\ f + (t - f) = t
      BY <1>9, <2>4, <2>6
    <3>2. t - f \in DOMAIN K /\ K[t - f] = v[t]
      BY <1>6, <1>7, <1>9, <3>1
    <3>. QED
      BY <1>7, <3>2 DEF Of
  <2>11. v[t].kind # "checkpoint"
    <3>1. SUFFICES ASSUME v[t].kind = "checkpoint" PROVE FALSE
      OBVIOUS
    <3>2. j < t /\ t \in DOMAIN v /\ j \in DOMAIN v
      BY <1>9, <2>1, <2>4, <2>6
    <3>3. t = j + 1
      BY <1>2, <1>3, <3>1, <3>2 DEF LatestAt, Ordered, Marked
    <3>4. t > 1 /\ t - 1 = j
      BY <1>9, <3>3
    <3>5. UserRole(v, t - 1)
      BY <1>9, <3>4 DEF UserRole
    <3>. QED
      BY <2>4, <3>1, <3>2, <3>4, <3>5 DEF Merged, Of
  <2>10. ~ (v[t].kind = "row")
    <3>1. j < t
      BY <1>9, <2>1, <2>4, <2>6
    <3>. QED
      BY <1>9, <2>4, <3>1 DEF UserRole, IsRow
  <2>. QED
    BY <2>7, <2>8, <2>9, <2>10, <2>11 DEF Leads
<1>11. \E i \in DOMAIN w : w[i] = v[j]
  <2>1. w \in Seq(Piece) /\ Len(w) = 1 + Len(v) - f /\ \A i \in 2 .. Len(w) : w[i] = v[f + i - 1]
    <3>1. f \in Nat /\ 0 + 1 = 1 /\ 0 + 2 = 2
      BY <1>9
    <3>. QED
      BY <1>5, <1>9, <3>1 DEF Digested
  <2>2. j - f + 1 \in 2 .. Len(w) /\ f + (j - f + 1) - 1 = j /\ DOMAIN w = 1 .. Len(w)
    BY <1>9, <1>10, <2>1
  <2>3. w[j - f + 1] = v[j]
    BY <2>1, <2>2
  <2>4. j - f + 1 \in DOMAIN w
    BY <1>9, <1>10, <2>2
  <2>. QED
    BY <2>3, <2>4
<1>12. LatestIn(w, rows)
  BY <1>3, <1>11, ShownStays
<1>. QED
  BY <1>4, <1>8, <1>12 DEF LatestIn, LatestShown, Keeps

\* Truncation drops groups of the latest user message last of all, so not before it fits.
LEMMA TruncateShows ==
  ASSUME HistoryInv, Truncate("turn"), Working("turn"), cut["turn"] = NoCut, LatestShown
  PROVE  LatestShown'
<1>. DEFINE v == view["turn"]
<1>0. "turn" \in Reader /\ ReaderTypes
  BY DEF Reader, HistoryInv
<1>1. PICK p \in {"done", "model", "draining"}, D \in Dropped(v) :
        LET w == Trim(v, D)
            c == [record["turn"] EXCEPT !.whole = @ /\ D = {}]
        IN One("turn", p, c, w, 0) /\ cut' = cut
  BY <1>0, TruncateOne
<1>. DEFINE w == Trim(v, D)
            c == [record["turn"] EXCEPT !.whole = @ /\ D = {}]
<1>2. v \in Seq(Piece)
  BY <1>0, RowFacts
<1>3. PICK j : LatestAt(v, j, rows)
  BY ShownAt
<1>4. view'["turn"] = w /\ Keeps
  <2>1. One("turn", p, c, w, 0) /\ cut' = cut
    BY <1>1
  <2>2. Keeps
    BY Kept0 DEF Truncate
  <2>. HIDE DEF w, c
  <2>. QED
    BY <1>0, <2>1, <2>2, OneIs
<1>. HIDE DEF v, c
<1>5. LastUser(v) = j /\ j \in GroupStarts(v)
  <2>1. Lasts(v, j)
    BY <1>3 DEF LatestAt
  <2>2. LastUser(v) = j
    BY <1>2, <2>1, LastUserIs
  <2>3. j \in GroupStarts(v)
    BY <2>1 DEF Lasts, GroupStarts, IsRow
  <2>. QED
    BY <2>2, <2>3
<1>6. j \notin D
  BY <1>1, <1>5 DEF Dropped, Droppable
<1>7. PICK e : Picks(w, v, e) /\ \E i \in DOMAIN w : e[i] = j
  BY <1>2, <1>5, <1>6, TrimIs
<1>. HIDE DEF w
<1>8. \E i \in DOMAIN w : w[i] = v[j]
  BY <1>7 DEF Picks
<1>9. LatestIn(w, rows)
  BY <1>3, <1>8, ShownStays
<1>. QED
  BY <1>4, <1>9 DEF LatestIn, LatestShown, Keeps

\* An escalated summary leaves the last user message alone.
LEMMA CondenseShows ==
  ASSUME HistoryInv, Condense, Working("turn"), cut["turn"] = NoCut, LatestShown
  PROVE  LatestShown'
<1>. DEFINE v == view["turn"]
<1>0. "turn" \in Reader /\ ReaderTypes
  BY DEF Reader, HistoryInv
<1>1. PICK w \in Seq(Piece), u \in Nat, n \in Nat, d \in Piece :
           /\ One("turn", "draining", record["turn"], w, 0) /\ cut' = cut
           /\ v \in Seq(Piece) /\ u = LastUser(v) /\ n <= Len(v)
           /\ Digested(w, v, u, n, d)
  BY <1>0, CondenseOne
<1>2. view'["turn"] = w /\ Keeps
  <2>1. Keeps
    BY Kept0 DEF Condense
  <2>. QED
    BY <1>0, <1>1, <2>1, OneIs
<1>3. PICK j : LatestAt(v, j, rows)
  BY ShownAt
<1>. HIDE DEF v
<1>4. u = j
  BY <1>1, <1>3, LastUserIs DEF LatestAt
<1>5. j \in 1 .. u /\ j \in DOMAIN w
  <2>1. j \in 1 .. Len(v) /\ Len(w) = u + 1 + Len(v) - n /\ Len(v) \in Nat /\ DOMAIN w = 1 .. Len(w)
    BY <1>1, <1>3 DEF LatestAt, Lasts, Digested
  <2>. QED
    BY <1>1, <1>4, <2>1
<1>6. w[j] = v[j]
  BY <1>1, <1>5 DEF Digested
<1>7. LatestIn(w, rows)
  BY <1>3, <1>5, <1>6, ShownStays
<1>. QED
  BY <1>2, <1>7 DEF LatestIn, LatestShown, Keeps

\* A message of the turn's hides none, and the user's own are shown as they are stored.
LEMMA SayShows ==
  ASSUME HistoryInv, Call \/ Steer \/ Result \/ Answer, LatestShown
  PROVE  LatestShown'
<1>. DEFINE v == view["turn"]
<1>0. "turn" \in Reader
  BY DEF Reader
<1>1. PICK m \in Row, extra \in {<<>>, <<Nudge>>}, to \in {"tools", "draining", "between", "done"} :
        LET w == v \o <<Item(m)>> \o extra IN
           /\ One("turn", to, record["turn"], w, 0) /\ Stores(m) /\ cut' = cut /\ v \in Seq(Piece)
  BY SayOne
<1>. DEFINE x == v \o <<Item(m)>>
            w == x \o extra
<1>2. view'["turn"] = w
  <2>1. One("turn", to, record["turn"], w, 0) /\ cut' = cut
    BY <1>1
  <2>. HIDE DEF w
  <2>. QED
    BY <1>0, <2>1, OneIs
<1>3. (extra = <<>> /\ w = x) \/ w = x \o <<Nudge>>
  BY <1>1, SaidView
<1>4. rows' = rows \cup {m} /\ (\A q \in rows : q.seq < m.seq) /\ m.seq \in Nat /\ rows \subseteq Row
  BY <1>1, HistoryAssumption DEF Stores, Behind, Row
<1>5. Item(m) \in Piece /\ Nudge \in Piece
  BY DEF Piece
<1>. HIDE DEF v, x, w
<1>6. x \in Seq(Piece) /\ Len(x) = Len(v) + 1 /\ x[Len(v) + 1] = Item(m) /\ \A k \in DOMAIN v : x[k] = v[k]
  BY <1>1, <1>5, AppendedTells DEF x
<1>7. DOMAIN x \subseteq DOMAIN w /\ \A k \in DOMAIN x : w[k] = x[k]
  <2>1. CASE w = x
    BY <2>1
  <2>2. CASE w = x \o <<Nudge>>
    <3>1. LET y == x \o <<Nudge>> IN y \in Seq(Piece) /\ Len(y) = Len(x) + 1 /\ \A k \in DOMAIN x : y[k] = x[k]
      BY <1>5, <1>6, AppendedTells
    <3>2. w \in Seq(Piece) /\ Len(w) = Len(x) + 1 /\ Len(x) \in Nat
      BY <1>6, <2>2, <3>1
    <3>. QED
      BY <1>6, <2>2, <3>1, <3>2
  <2>. QED
    BY <1>3, <2>1, <2>2
<1>8. \A r \in RowsOf(v) : r \in RowsOf(w)
  <2>1. DOMAIN v \subseteq DOMAIN x
    BY <1>1, <1>6
  <2>2. \A k \in DOMAIN v : k \in DOMAIN w /\ w[k] = v[k]
    BY <1>6, <1>7, <2>1
  <2>. QED
    BY <2>2 DEF RowsOf, Of
<1>9. m \in RowsOf(w)
  <2>1. Item(m).kind = "row" /\ Item(m).row = m
    BY DEF Item
  <2>2. Len(v) + 1 \in DOMAIN x
    BY <1>1, <1>6
  <2>3. Len(v) + 1 \in DOMAIN w /\ w[Len(v) + 1] = Item(m)
    BY <1>6, <1>7, <2>2
  <2>. QED
    BY <2>1, <2>3 DEF RowsOf, Of
<1>10. CASE m.role = "user"
  <2>1. \A q \in rows' : q.seq <= m.seq
    <3>1. \A q \in rows : q.seq \in Nat
      BY <1>4, HistoryAssumption DEF Row
    <3>. QED
      BY <1>4, <3>1
  <2>. QED
    BY <1>2, <1>9, <1>10, <2>1 DEF LatestShown
<1>11. CASE m.role # "user"
  BY <1>2, <1>4, <1>8, <1>11 DEF LatestShown, v
<1>. QED
  BY <1>10, <1>11

\* What one step does.
LEMMA LatestNext ==
  ASSUME HistoryInv, [Next]_vars, Working("turn")', cut'["turn"] = NoCut
  PROVE  \/ LatestShown'
         \/ Working("turn") /\ ~LatestShown
         \/ batch["turn"] > 0 /\ Of(Kept("turn"), {"nudge"}) # {}
<1>0. "turn" \in Reader /\ "compress" \in Reader /\ ReaderTypes /\ RecordTypes /\ RowsInv
  BY DEF Reader, HistoryInv
<1>. SUFFICES ASSUME Working("turn") => LatestShown,
                     ~ (batch["turn"] > 0 /\ Of(Kept("turn"), {"nudge"}) # {})
              PROVE  LatestShown'
  OBVIOUS
<1>1. ASSUME Stays("turn"), pc'["turn"] = pc["turn"], Keeps \/ \E m : Stores(m) /\ m.role # "user"
      PROVE  LatestShown'
  <2>1. Working("turn")
    BY <1>1 DEF Working
  <2>. QED
    BY <1>1, <2>1, OthersShow DEF Stays
<1>2. CASE BeginTurn
  <2>1. pc'["turn"] = "reading"
    BY <1>0, <1>2, BeginGoes DEF BeginTurn
  <2>. QED
    BY <2>1 DEF Working
<1>3. CASE BeginCompress
  <2>1. Begin("compress") /\ Keeps /\ "compress" # "turn"
    BY <1>3, Kept0 DEF BeginCompress
  <2>2. PICK p, c, v, b : One("compress", p, c, v, b) /\ cut' = cut
    BY <1>0, <2>1, BeginGoes DEF Goes
  <2>3. Stays("turn") /\ pc'["turn"] = pc["turn"]
    BY <1>0, <2>1, <2>2, OneIs
  <2>. QED
    BY <1>1, <2>1, <2>3
<1>4. ASSUME NEW r \in Reader, ReaderActs(r) PROVE LatestShown'
  <2>1. PICK p, c, v, b : One(r, p, c, v, b) /\ cut' = cut
    BY <1>4, ActsGo DEF Goes
  <2>2. CASE r = "turn"
    <3>1. CASE ReadRecord("turn")
      <4>1. pc'["turn"] = "fetching"
        BY <1>0, <3>1 DEF ReadRecord, Move, Set, ReaderTypes
      <4>. QED
        BY <4>1 DEF Working
    <3>2. CASE ReadRows("turn")
      BY <2>1, <3>2, ReadShows
    <3>3. ASSUME Fits("turn") \/ Summarise("turn") \/ SaveRecord("turn") \/ Truncate("turn")
          PROVE  Working("turn") /\ LatestShown /\ cut["turn"] = NoCut
      BY <2>1, <3>3 DEF Fits, Summarise, SaveRecord, Truncate, Move, Working
    <3>4. CASE Fits("turn") \/ Summarise("turn")
      <4>1. Keeps /\ view' = view
        BY <3>4, Kept0 DEF Fits, Summarise
      <4>. QED
        BY <3>3, <3>4, <4>1, OthersShow
    <3>5. CASE SaveRecord("turn")
      <4>1. batch["turn"] > 0
        BY <1>0, <3>5 DEF SaveRecord, ReaderTypes
      <4>. QED
        BY <3>3, <3>5, <4>1, SaveShows
    <3>6. CASE Truncate("turn")
      BY <3>3, <3>6, TruncateShows
    <3>. QED
      BY <1>4, <2>2, <3>1, <3>2, <3>4, <3>5, <3>6 DEF ReaderActs
  <2>3. CASE r # "turn"
    <3>1. Stays("turn") /\ pc'["turn"] = pc["turn"]
      BY <1>0, <2>1, <2>3, OneIs
    <3>2. Keeps \/ \E m : Stores(m) /\ m.role # "user"
      <4>1. CASE ReadRows(r)
        <5>1. \A id : Message("tool", id).role = "tool"
          BY DEF Message
        <5>. QED
          BY <1>0, <4>1, <5>1, Heals
      <4>2. CASE ReadRecord(r) \/ Fits(r) \/ Summarise(r) \/ SaveRecord(r) \/ Truncate(r)
        BY <4>2, Kept0 DEF ReadRecord, Fits, Summarise, SaveRecord, Truncate
      <4>. QED
        BY <1>4, <4>1, <4>2 DEF ReaderActs
    <3>. QED
      BY <1>1, <3>1, <3>2
  <2>. QED
    BY <2>2, <2>3
<1>5. CASE Condense
  <2>1. Working("turn") /\ cut' = cut
    BY <1>0, <1>5, CondenseOne
  <2>. QED
    BY <1>5, <2>1, CondenseShows
<1>6. CASE Call \/ Steer \/ Result \/ Answer
  <2>1. Working("turn")
    BY <1>6, SayOne
  <2>. QED
    BY <1>6, <2>1, SayShows
<1>7. ASSUME NEW R, Forget(R), Keeps \/ "turn" \in R PROVE LatestShown'
  <2>1. \/ "turn" \in R /\ pc'["turn"] = "idle"
        \/ "turn" \notin R /\ pc'["turn"] = pc["turn"] /\ Stays("turn")
    BY <1>0, <1>7, ForgetTypes DEF Stays
  <2>. QED
    BY <1>1, <1>7, <2>1 DEF Working
<1>8. CASE LeaveWithMail
  BY <1>7, <1>8 DEF LeaveWithMail
<1>9. CASE Crash
  BY <1>7, <1>9, Kept0 DEF Crash
<1>10. ASSUME NEW r \in Reader, Leave(r) PROVE LatestShown'
  BY <1>7, <1>10, Kept0 DEF Leave
<1>11. CASE UndoDeletes
  <2>1. pc["turn"] # "idle"
    BY <1>11, UndoDeletesIs DEF Working
  <2>2. cut'["turn"] \in 1 .. MaxRows
    BY <1>0, <1>11, <2>1, UndoDeletesIs
  <2>. QED
    BY <2>2, HistoryAssumption DEF NoCut
<1>12. CASE UndoReads \/ UndoInvalidates \/ Rename \/ TitleArrives \/ UNCHANGED vars
  <2>1. UNCHANGED readerVars /\ Keeps
    BY <1>12, Kept0 DEF UndoReads, UndoInvalidates, Rename, TitleArrives, vars
  <2>2. Stays("turn") /\ pc'["turn"] = pc["turn"]
    BY <2>1 DEF readerVars, Stays
  <2>. QED
    BY <1>1, <2>1, <2>2
<1>. QED
  BY <1>2, <1>3, <1>4, <1>5, <1>6, <1>8, <1>9, <1>10, <1>11, <1>12 DEF Next, ReaderActs

\* The user's latest message is in the view of a turn no undo disturbs from when it reads
\* its rows; no step of the turn or of others takes it away, but for a summary that
\* goes up to a nudge (alignCompressionBoundary, truncateToBudget).
THEOREM LatestUserKeptHolds == Spec => LatestUserKept
<1>1. HistoryInv /\ [Next]_vars =>
        [(Working("turn") /\ cut["turn"] = NoCut)' =>
           \/ LatestShown'
           \/ Working("turn") /\ ~LatestShown
           \/ batch["turn"] > 0 /\ Of(Kept("turn"), {"nudge"}) # {}]_vars
  BY LatestNext
<1>. QED
  BY <1>1, HistoryInvariant, PTL DEF Spec, LatestUserKept
=============================================================================
