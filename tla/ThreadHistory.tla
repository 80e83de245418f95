--------------------------- MODULE ThreadHistory ---------------------------
(***************************************************************************)
(* The stored history of one conversation thread: messages with sequence    *)
(* numbers and tool calls (internal/memory/thread.go), the records of       *)
(* context compression (internal/memory/compression.go), what buildMessages *)
(* and compressIfNeeded make of them (internal/agent), and what the user    *)
(* does to the thread meanwhile: /undo, /compress, /fork and /title run     *)
(* whether or not a turn is working on it.                                  *)
(*                                                                         *)
(* A statement or transaction of the store is one step; reading the messages *)
(* and healing the thread's end are one too (TurnLoop has them apart).  Text *)
(* and token counts are left out: of a summary the model keeps which         *)
(* messages it tells of, and the budget may ask for anything.  A group has   *)
(* one call, known by the id of its assistant message.  What passes between  *)
(* a turn and its caller is in TurnLoop, not here.                           *)
(***************************************************************************)
EXTENDS Integers, Sequences, FiniteSets, SequencesExt

CONSTANTS
  MaxRows,      \* bound: messages ever stored
  MaxRecords,   \* bound: compressions ever recorded
  Scenes        \* bounds: what may happen beside plain turns, in how many messages

ASSUME HistoryAssumption ==
  /\ MaxRows \in Nat \ {0} /\ MaxRecords \in Nat
  /\ \A s \in Scenes :
       /\ s.rows \in Nat
       /\ s.may \subseteq {"undo", "compress", "todo", "longtodo", "nudge", "trim",
                          "checkpoint", "title", "crash"}

VARIABLES
  rows,       \* the messages of the thread: [seq, id, role, call]
  nextId,     \* messages.id is never used twice
  records,    \* the compression records: [id, first, covers, whole, late, again]
  nextRecord,
  todo,       \* the thread has a task list
  title,      \* who gave the title, or "none"
  pc,         \* of the turn and of /compress
  record,     \* the compression record each read, or NoRecord
  view,       \* the messages each works on, the system prompt apart
  batch,      \* how many items of its view each is having summarised
  untitled,   \* the thread had no title when the turn began
  titling,    \* title goroutines under way
  undo,       \* the undo in progress: its step and the number it cuts at
  cut,        \* lowest number undone since each began (history)
  torn,       \* calls an undo deleted (history)
  scene       \* the one of Scenes explored

storeVars == <<rows, nextId>>
recordVars == <<records, nextRecord>>
readerVars == <<pc, record, view, batch, cut>>
titleVars == <<title, untitled, titling>>
otherVars == <<torn, scene>>
vars == <<storeVars, recordVars, todo, readerVars, titleVars, undo, otherVars>>

Reader == {"turn", "compress"}
May(feature) == feature \in scene.may
Set(f, x, v) == [f EXCEPT ![x] = v]

NoRecord ==
  [id |-> 0, first |-> 0, covers |-> {}, whole |-> TRUE, late |-> FALSE, again |-> FALSE]
NoCut == MaxRows + 1

Ids(S) == {r.id : r \in S}
Before(S, n) == {r \in S : r.seq < n}
From(S, n) == {r \in S : r.seq >= n}
Numbers(S) == {r.seq : r \in S}

-----------------------------------------------------------------------------
(* Messages.                                                                *)

\* appendMessageWithToolCallsOnce numbers a message under the write lock.
NextSeq == Max({0} \cup Numbers(rows)) + 1
Message(role, call) == [seq |-> NextSeq, id |-> nextId, role |-> role, call |-> call]

Room == nextId <= MaxRows /\ nextId <= scene.rows
Store(m) == rows' = rows \cup {m} /\ nextId' = nextId + 1

\* c is a call whose results go on until r, without one for c before r.
OpenAt(c, r, S) ==
  /\ c.role = "calls" /\ c.seq < r.seq
  /\ \A q \in S : c.seq < q.seq /\ q.seq < r.seq => q.role = "tool" /\ q.call # c.id

\* The repair of sanitizeIndexedMessages shows of the results of a group only the
\* first one of its call.
Shown(S) ==
  {r \in S : r.role = "tool" => \E c \in S : c.id = r.call /\ OpenAt(c, r, S)}

\* trailingUnansweredToolCalls: the call the thread ends with, unanswered.
Trailing == {c \in rows : OpenAt(c, [seq |-> NextSeq], rows)}

-----------------------------------------------------------------------------
(* The view: task list, summary and messages, in this order; in the course  *)
(* of a turn also a checkpoint of its earlier work and a nudge by the agent. *)

Reminder == [kind |-> "todo"]
Nudge == [kind |-> "nudge"]
Summary(S) == [kind |-> "summary", covers |-> S]
Checkpoint(S) == [kind |-> "checkpoint", covers |-> S]
Item(r) == [kind |-> "row", row |-> r]

\* What f has at those of the numbers up to n that are in K, in their order.
Chosen(f, K, n) ==
  LET upTo[k \in 0 .. n] ==
        IF k = 0 THEN <<>>
        ELSE IF k \in K THEN Append(upTo[k - 1], f[k]) ELSE upTo[k - 1]
  IN upTo[n]

\* The messages S in the order of their numbers.
Items(S) ==
  Chosen([n \in Numbers(S) |-> Item(CHOOSE r \in S : r.seq = n)], Numbers(S), MaxRows)

IsRow(v, k, role) == v[k].kind = "row" /\ v[k].row.role = role
UserRole(v, k) == v[k].kind # "row" \/ v[k].row.role = "user"
Of(v, kinds) == {k \in DOMAIN v : v[k].kind \in kinds}

\* toRawMessages: a checkpoint is merged into a message of role user before it.  Raw
\* is the place of the k-th item of v in the list this makes, the raw messages.
Merged(v) == {k \in Of(v, {"checkpoint"}) : k > 1 /\ UserRole(v, k - 1)}
Raw(v, k) == k - Cardinality({j \in Merged(v) : j <= k})

\* groupMessagesForCompression
GroupStarts(v) == {k \in DOMAIN v : ~IsRow(v, k, "tool")}

\* alignCompressionBoundary: the items that are summarised when the target is t are
\* those up to here.  Groups of raw messages are not split, and the last of role
\* user is kept.
Stops_PastUser(v, k) == FALSE                                         \* mutant
Stops(v, k) ==
  LET users == {j \in DOMAIN v \ Merged(v) : UserRole(v, j)}
  IN  k \in users /\ \A j \in users : j <= k

Boundary(v, t) ==
  LET ends == {k \in GroupStarts(v) \ Merged(v) : Raw(v, k) > t \/ Stops(v, k)}
  IN  Min({Len(v) + 1} \cup ends) - 1

RowsOf(v) == {v[k].row : k \in Of(v, {"row"})}
Digests == {"summary", "checkpoint"}

\* What a summary of v tells of: its messages, the results among them going with
\* their calls, and what a summary or checkpoint in it told of.
Content(S) == Ids({r \in S : r.role # "tool"})
Told(v) == Content(RowsOf(v)) \cup UNION {v[k].covers : k \in Of(v, Digests)}

\* FirstKeptSeq is the number of the first stored message that is kept.
FirstKept(v) == IF RowsOf(v) = {} THEN 0 ELSE v[Min(Of(v, {"row"}))].row.seq

\* latestPersistedUserIndex
LastUser(v) == Max({0} \cup {k \in DOMAIN v : IsRow(v, k, "user")})

\* truncateIndexedToBudget drops groups until the rest fits: those before the last
\* stored user message, those after it, and last a checkpoint next to it.
TrimRank(v, k) ==
  CASE k < LastUser(v) -> 0
    [] LastUser(v) > 0 /\ k = LastUser(v) + 1 /\ v[k].kind = "checkpoint" -> 2
    [] OTHER -> 1

\* The groups of v, by where they start, that may be dropped, and in which order.
Droppable(v) == GroupStarts(v) \ {LastUser(v)}
Sooner(v, a, b) ==
  TrimRank(v, a) < TrimRank(v, b) \/ (TrimRank(v, a) = TrimRank(v, b) /\ a < b)
Dropped(v) ==
  {D \in SUBSET (IF May("trim") THEN Droppable(v) ELSE {}) :
     \A b \in D : \A a \in Droppable(v) : Sooner(v, a, b) => a \in D}

\* v without the groups that start at D.
Trim(v, D) ==
  LET Group(k) == Max({g \in GroupStarts(v) : g <= k})
  IN Chosen(v, {k \in DOMAIN v : Group(k) \notin D}, Len(v))

Init ==
  /\ rows = {} /\ nextId = 1
  /\ records = {} /\ nextRecord = 1
  /\ todo = FALSE /\ title = "none"
  /\ pc = [r \in Reader |-> "idle"]
  /\ record = [r \in Reader |-> NoRecord]
  /\ view = [r \in Reader |-> <<>>]
  /\ batch = [r \in Reader |-> 0]
  /\ cut = [r \in Reader |-> NoCut]
  /\ untitled = FALSE /\ titling = 0
  /\ undo = [at |-> "idle", seq |-> 0]
  /\ torn = {} /\ scene \in Scenes

-----------------------------------------------------------------------------
(* Building the messages of a turn or of /compress.                         *)

Move(r, from, to) == pc[r] = from /\ pc' = Set(pc, r, to)

\* The working memory of the readers in R is gone.
Forget(R) ==
  LET Reset(f, x) == [r \in Reader |-> IF r \in R THEN x ELSE f[r]] IN
  /\ pc' = Reset(pc, "idle")
  /\ record' = Reset(record, NoRecord)
  /\ view' = Reset(view, <<>>)
  /\ batch' = Reset(batch, 0)
  /\ cut' = Reset(cut, NoCut)

\* buildMessages is entered; an undo under way then has deleted nothing yet, for
\* the user interface starts neither during an undo.
Begin(r) ==
  /\ Move(r, "idle", "reading")
  /\ undo.at = "idle"
  /\ UNCHANGED <<recordVars, todo, record, view, batch, cut, undo, otherVars>>

\* Chat stores the user's message and sees whether the thread has a title.
BeginTurn ==
  /\ Room /\ Begin("turn")
  /\ Store(Message("user", 0))
  /\ untitled' = (title = "none")
  /\ UNCHANGED <<title, titling>>

BeginCompress ==
  /\ May("compress") /\ Begin("compress")
  /\ UNCHANGED <<storeVars, titleVars>>

\* GetLatestCompression: the record made last.
Latest ==
  IF records = {} THEN NoRecord
  ELSE CHOOSE c \in records : \A d \in records : d.id <= c.id

ReadRecord(r) ==
  /\ Move(r, "reading", "fetching")
  /\ record' = Set(record, r, Latest)
  /\ UNCHANGED <<storeVars, recordVars, todo, view, batch, cut, titleVars, undo, otherVars>>

\* A record whose first kept message is not there is dangling.
Usable(c) == c.first > 0 /\ c.first \in Numbers(rows)

\* The messages are read, from the first kept one if there is a summary, and a
\* trailing call is answered with an interrupted result.
ReadRows(r) ==
  LET c == IF Usable(record[r]) THEN record[r] ELSE NoRecord
      healed == {Message("tool", m.id) : m \in Trailing}
      shown == Shown(From(rows, c.first) \cup healed)
  IN
  /\ Move(r, "fetching", "starting")
  /\ Trailing # {} => Room
  /\ rows' = rows \cup healed
  /\ nextId' = nextId + Cardinality(healed)
  /\ record' = Set(record, r, c)
  /\ view' = Set(view, r, (IF todo THEN <<Reminder>> ELSE <<>>)
                          \o (IF c = NoRecord THEN <<>> ELSE <<Summary(c.covers)>>)
                          \o Items(shown))
  /\ UNCHANGED <<recordVars, todo, batch, cut, titleVars, undo, otherVars>>

-----------------------------------------------------------------------------
(* compressIfNeeded: at the start, and in a turn after each tool group.      *)

After(r) ==
  IF r = "compress" THEN "done"
  ELSE IF pc[r] \in {"starting", "summarising"} THEN "model" ELSE "draining"

\* There is room in the budget.
Fits(r) ==
  /\ pc[r] \in {"starting", "between"}
  /\ pc' = Set(pc, r, After(r))
  /\ UNCHANGED <<storeVars, recordVars, todo, record, view, batch, cut, titleVars, undo, otherVars>>

\* /compress takes all it may, a turn as much as its budget asks for: a task list
\* alone only if that is long.
Targets(r) ==
  LET v == view[r]
      most == Raw(v, Len(v)) - 1
  IN
    IF r = "compress" THEN {most}
    ELSE {t \in 1 .. most : t = 1 /\ v[1] = Reminder => May("longtodo")}

\* A beginning of the view is being summarised; in the course of a turn only if
\* something stands before the last stored user message.
Summarise(r) ==
  /\ \/ Move(r, "starting", "summarising")
     \/ Move(r, "between", "escalating") /\ LastUser(view[r]) >= 2
  /\ nextRecord + Cardinality({q \in Reader : batch[q] > 0}) <= MaxRecords
  /\ Len(view[r]) >= 2
  /\ \E t \in Targets(r) :
       /\ Boundary(view[r], t) > 0
       /\ batch' = Set(batch, r, Boundary(view[r], t))
  /\ UNCHANGED <<storeVars, recordVars, todo, record, view, cut, titleVars, undo, otherVars>>

\* The batch is of raw messages; where it ends among them is taken for the place in
\* the list with the checkpoints, so that as much as they are more of what was
\* summarised is kept.
Batch(r) == SubSeq(view[r], 1, batch[r])
KeptFrom(r) == Raw(view[r], batch[r])
Kept(r) == SubSeq(view[r], KeptFrom(r) + 1, Len(view[r]))

\* The record SaveCompression stores, and for the properties whether it tells of
\* all before its first message, whether that message may have been undone and
\* whether it may be told of as well.
Made(r) ==
  LET first == FirstKept(Kept(r)) IN
  [id |-> nextRecord, first |-> first, covers |-> Told(Batch(r)),
   whole |-> record[r].whole /\ \A k \in Of(view[r], Digests) : k <= batch[r],
   late |-> record[r].late \/ first >= cut[r],
   again |-> record[r].again \/ KeptFrom(r) < batch[r]]

\* The summary arrives and stands for its batch, unless what is kept begins with a
\* result (validateProviderPayload); it is recorded if it stands before a stored
\* message and the store takes it.
SaveRecord(r) ==
  /\ pc[r] \in {"summarising", "escalating"} /\ pc' = Set(pc, r, After(r))
  /\ Len(Kept(r)) > 0 => ~IsRow(Kept(r), 1, "tool")
  /\ view' = Set(view, r, <<Summary(Told(Batch(r)))>> \o Kept(r))
  /\ record' = Set(record, r, Made(r))
  /\ \/ Made(r).first > 0 /\ records' = records \cup {Made(r)}
     \/ UNCHANGED records
  /\ nextRecord' = nextRecord + 1
  /\ batch' = Set(batch, r, 0)
  /\ UNCHANGED <<storeVars, todo, cut, titleVars, undo, otherVars>>

\* There is no summary, or none that helps: a turn goes on with what fits.
Truncate(r) ==
  /\ pc[r] \in {"starting", "between", "summarising", "escalating"}
  /\ pc' = Set(pc, r, After(r))
  /\ \E D \in Dropped(view[r]) :
       /\ view' = Set(view, r, Trim(view[r], D))
       /\ record' = Set(record, r, [record[r] EXCEPT !.whole = @ /\ D = {}])
  /\ batch' = Set(batch, r, 0)
  /\ UNCHANGED <<storeVars, recordVars, todo, cut, titleVars, undo, otherVars>>

\* compressActiveTurn has the earlier work of the turn, with the checkpoint before
\* it, replaced by a checkpoint; that is never stored.
Condense ==
  LET v == view["turn"]
      u == LastUser(v)
      work == IF u < Len(v) /\ v[u + 1].kind = "checkpoint" THEN u + 2 ELSE u + 1
  IN
  /\ May("checkpoint")
  /\ Move("turn", "between", "draining")
  /\ u > 0
  /\ \E k \in Of(v, {"row"}) : k > u
  /\ \E n \in {g - 1 : g \in GroupStarts(v) \cup {Len(v) + 1}} :
       /\ n >= work
       /\ view' = Set(view, "turn", SubSeq(v, 1, u)
                         \o <<Checkpoint(Told(SubSeq(v, u + 1, n)))>>
                         \o SubSeq(v, n + 1, Len(v)))
  /\ UNCHANGED <<storeVars, recordVars, todo, record, batch, cut, titleVars, undo, otherVars>>

\* A turn or a /compress ends, be it with an error or for want of anything to do.
Leave(r) ==
  /\ pc[r] # "idle"
  /\ Forget({r})
  /\ UNCHANGED <<storeVars, recordVars, todo, titleVars, undo, otherVars>>

-----------------------------------------------------------------------------
(* The turn.                                                                *)

\* A message is stored and appended to the turn's view, then perhaps a nudge.
SayWith(m, extra, to) ==
  /\ Room /\ Store(m)
  /\ pc' = Set(pc, "turn", to)
  /\ view' = Set(view, "turn", view["turn"] \o <<Item(m)>> \o extra)
  /\ UNCHANGED <<recordVars, record, batch, cut, undo, otherVars>>
Say(m, to) == SayWith(m, <<>>, to)

Ready == pc["turn"] \in {"model", "draining"}

Call == Ready /\ Say(Message("calls", 0), "tools") /\ UNCHANGED <<todo, titleVars>>

\* drainSteering, after a tool group.
Steer ==
  /\ pc["turn"] = "draining"
  /\ Say(Message("user", 0), "draining") /\ UNCHANGED <<todo, titleVars>>

\* The result is stored whether or not its call still is.  The tool may have been
\* todo, which replaces the task list; if there is one and it was not used for
\* long, the agent nudges the model.
Result ==
  LET nudges == IF May("nudge") /\ todo /\ Of(view["turn"], {"nudge"}) = {}
                THEN {<<>>, <<Nudge>>} ELSE {<<>>}
  IN
  /\ pc["turn"] = "tools"
  /\ \E extra \in nudges :
       /\ SayWith(Message("tool", Last(view["turn"]).row.id), extra, "between")
       /\ todo' \in IF May("todo") /\ extra = <<>> THEN BOOLEAN ELSE {todo}
  /\ UNCHANGED titleVars

\* The final answer; a thread that had no title is given one in the background.
Answer ==
  /\ Ready
  /\ Say(Message("answer", 0), "done")
  /\ titling' = IF May("title") /\ untitled THEN titling + 1 ELSE titling
  /\ UNCHANGED <<todo, title, untitled>>

\* endSteeringTurn stores what was sent too late for the turn.
LeaveWithMail ==
  /\ pc["turn"] # "idle" /\ Room
  /\ Store(Message("user", 0))
  /\ Forget({"turn"})
  /\ UNCHANGED <<recordVars, todo, titleVars, undo, otherVars>>

-----------------------------------------------------------------------------
(* What the user does.                                                      *)

\* undoLast looks for the last user message, DeleteMessagesAfter deletes it and
\* what follows, and then the records that do not stand before it.
UndoReads ==
  LET users == {r \in rows : r.role = "user"} IN
  /\ May("undo") /\ undo.at = "idle" /\ users # {}
  /\ undo' = [at |-> "deleting", seq |-> Max(Numbers(users))]
  /\ UNCHANGED <<storeVars, recordVars, todo, readerVars, titleVars, otherVars>>

UndoDeletes ==
  LET gone == From(rows, undo.seq) IN
  /\ undo.at = "deleting"
  /\ undo' = [undo EXCEPT !.at = "invalidating"]
  /\ rows' = rows \ gone
  /\ cut' = [r \in Reader |-> IF pc[r] = "idle" THEN NoCut ELSE Min({cut[r], undo.seq})]
  /\ torn' = torn \cup Ids({r \in gone : r.role = "calls"})
  /\ UNCHANGED <<scene, nextId, recordVars, todo, pc, record, view, batch, titleVars>>

\* InvalidateCompressionsAfterSeq
Invalid_After(c) == c.first > undo.seq                                \* mutant
Invalid(c) == c.first >= undo.seq

UndoInvalidates ==
  /\ undo.at = "invalidating"
  /\ undo' = [at |-> "idle", seq |-> 0]
  /\ records' = {c \in records : ~Invalid(c)}
  /\ UNCHANGED <<storeVars, nextRecord, todo, readerVars, titleVars, otherVars>>

\* ForkThread copies the messages under new ids, and the results' references to
\* their calls with them; it refuses a result whose call is not in the thread.
\* It leaves the thread as it was.
NewId(i) == i + MaxRows

Remap_Not(r) == r.call                                                \* mutant
Remap(r) == IF r.role = "tool" THEN NewId(r.call) ELSE r.call

ForkRefused == \E r \in rows : r.role = "tool" /\ r.call \notin Ids(rows)
Copy == {[r EXCEPT !.id = NewId(@), !.call = Remap(r)] : r \in rows}

\* /title sets the title if there is none.
Rename ==
  /\ May("title") /\ undo.at = "idle"
  /\ title' = IF title = "none" THEN "manual" ELSE title
  /\ UNCHANGED <<storeVars, recordVars, todo, readerVars, untitled, titling, undo, otherVars>>

\* maybeGenerateTitle sets it, if it finds one.
TitleArrives ==
  /\ titling > 0 /\ titling' = titling - 1
  /\ title' \in {title, "auto"}
  /\ UNCHANGED <<storeVars, recordVars, todo, readerVars, untitled, undo, otherVars>>

\* The program dies; what it had stored stays, and the records an undo had not
\* yet dropped with it.
Crash ==
  /\ May("crash")
  /\ \E r \in Reader : pc[r] # "idle"
  /\ Forget(Reader)
  /\ undo' = [at |-> "idle", seq |-> 0]
  /\ titling' = 0
  /\ records' = {[c EXCEPT !.late = @ \/ (undo.at = "invalidating" /\ Invalid(c))]
                   : c \in records}
  /\ UNCHANGED <<storeVars, nextRecord, todo, title, untitled, otherVars>>

Next ==
  \/ BeginTurn \/ BeginCompress
  \/ \E r \in Reader :
       \/ ReadRecord(r) \/ ReadRows(r)
       \/ Fits(r) \/ Summarise(r) \/ SaveRecord(r) \/ Truncate(r) \/ Leave(r)
  \/ Condense \/ Call \/ Steer \/ Result \/ Answer \/ LeaveWithMail
  \/ UndoReads \/ UndoDeletes \/ UndoInvalidates
  \/ Rename \/ TitleArrives \/ Crash

Spec == Init /\ [][Next]_vars

-----------------------------------------------------------------------------
(* Properties.                                                              *)

\* Types; the messages are numbered without gaps.
TypeOK ==
  /\ \A r \in rows : r.id < nextId /\ r.call \in 0 .. MaxRows
                     /\ r.role \in {"user", "calls", "tool", "answer"}
  /\ Numbers(rows) = 1 .. Cardinality(rows) /\ nextId \in 1 .. (MaxRows + 1)
  /\ nextRecord \in 1 .. (MaxRecords + 1)
  /\ \A c \in records : c.id < nextRecord /\ c.first \in 1 .. MaxRows
  /\ todo \in BOOLEAN /\ untitled \in BOOLEAN /\ titling \in 0 .. MaxRows
  /\ title \in {"none", "manual", "auto"}
  /\ \A r \in Reader :
       /\ pc[r] \in {"idle", "reading", "fetching", "starting", "summarising", "model",
                     "tools", "between", "escalating", "draining", "done"}
       /\ batch[r] \in 0 .. Len(view[r])
       /\ (batch[r] > 0) = (pc[r] \in {"summarising", "escalating"})
       /\ cut[r] \in 1 .. NoCut
  /\ undo.at \in {"idle", "deleting", "invalidating"}
  /\ torn \subseteq 1 .. MaxRows /\ scene \in Scenes

\* A record made undisturbed by an undo, and not about to be dropped by one,
\* stands before a message of the thread; if nothing it replaced told of more, it
\* tells of all that came before, and of nothing that is shown again or that was
\* undone, but when a merged checkpoint shifted where it ends (compression.go,
\* DeleteMessagesAfter).
SummaryAnchored ==
  \A c \in records :
    ~c.late /\ ~(undo.at = "invalidating" /\ c.first >= undo.seq) =>
      /\ c.first \in Numbers(rows)
      /\ c.again \/ c.covers \subseteq Content(Before(rows, c.first))
      /\ c.whole => Content(Before(rows, c.first)) \subseteq c.covers

\* A turn works on a view from when it read it.
Working(r) == pc[r] \notin {"idle", "reading", "fetching"}

\* The last user message stored is in the view of the turn.
LatestShown ==
  \E r \in RowsOf(view["turn"]) :
    r.role = "user" /\ \A q \in rows : q.role = "user" => q.seq <= r.seq

\* A turn that no undo disturbs begins with the last user message in its view, and
\* whatever is compressed, dropped or sent meanwhile no step takes it away ("the latest
\* user turn is always preserved", docs/DESIGN.md), but for a summary that goes up to a
\* nudge, which alignCompressionBoundary takes for a user message.
LatestUserKept ==
  [][(Working("turn") /\ cut["turn"] = NoCut)' =>
       \/ LatestShown'
       \/ Working("turn") /\ ~LatestShown
       \/ batch["turn"] > 0 /\ Of(Kept("turn"), {"nudge"}) # {}]_vars

\* At any time a fork has the results in it refer to calls before them in the
\* fork, and it is refused only when an undo took a call whose result came later
\* (ForkThread).
ForkWorks ==
  IF ForkRefused THEN torn # {}
  ELSE \A r \in Copy : r.role = "tool" =>
         \E c \in Copy : c.role = "calls" /\ c.id = r.call /\ c.seq < r.seq

\* Every summary in use tells of all that is not shown with it, and of that alone:
\* "silent history loss forbidden" (docs/DESIGN.md).
SummaryIsComplete ==
  \A c \in records :
    ~c.late /\ undo.at = "idle" => c.covers = Content(Before(rows, c.first))

\* A title the user gave stays ("to avoid clobbering a manual rename",
\* docs/DESIGN.md).
RenameKept == [][title = "manual" => title' = "manual"]_vars
=============================================================================
