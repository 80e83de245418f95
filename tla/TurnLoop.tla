------------------------------ MODULE TurnLoop ------------------------------
(***************************************************************************)
(* The agent's turns on one conversation thread (Agent.Chat in             *)
(* internal/agent/agent.go): the durable transcript, the in-memory view    *)
(* that becomes the provider payload, tool-call groups and their results,  *)
(* messages the user sends while the agent works (steering.go), the repair *)
(* of interrupted groups (sanitize.go) and the guard against repeated      *)
(* groups (tool_loop_guard.go).                                            *)
(*                                                                         *)
(* One action is one durable write with the event that goes with it.  Text *)
(* is left out: a transcript entry is its role, the call it belongs to and *)
(* whether it holds real output.                                           *)
(***************************************************************************)
EXTENDS Integers, Sequences, FiniteSets, SequencesExt

CONSTANTS
  Message,       \* messages a user may send while a turn runs
  QueueCap,      \* steeringQueueCap
  WarnAt,        \* repeatedToolCallWarningAt
  AbortAt,       \* repeatedToolCallAbortAt
  Fingerprint,   \* what a tool-call group asks for, call ids aside
  MaxTurns,      \* provider calls per Chat; 0 is no limit
  GroupSize,     \* calls per group
  MaxChats, MaxGroups,    \* bounds: Chat calls and tool-call groups explored
  Faults         \* what may go wrong: "sink", "store", "crash", "compress"

ASSUME TurnAssumption ==
  /\ QueueCap \in Nat \ {0} /\ GroupSize \in Nat \ {0}
  /\ WarnAt \in Nat /\ AbortAt \in Nat /\ 1 < WarnAt /\ WarnAt < AbortAt
  /\ MaxTurns \in Nat /\ MaxChats \in Nat /\ MaxGroups \in Nat
  /\ Faults \subseteq {"sink", "store", "crash", "compress"}

VARIABLES
  log,        \* the messages of the thread, in sequence order
  view,       \* indexedMsgs of the running turn
  pc,         \* where the turn is; "idle" while nobody holds the turn lock
  cancelled,  \* the turn's context is done
  rounds,     \* provider calls of this turn
  guard,      \* toolLoopGuard: last fingerprint and how often in a row
  group,      \* the group being executed: its next call, and those its workers
              \* have not taken yet
  parallel,   \* whether that group runs as one concurrent batch
  active,     \* steeringQueues.active
  queue,      \* steeringQueues.queues
  raw,        \* messages taken from the queue and not yet persisted
  healing,    \* results a concurrent CompressNow is about to add
  chats, groups,   \* how many Chat calls and groups there were
  accepted,   \* messages EnqueueUserMessage took, in order (history)
  cut,        \* those a drain that failed never came to (history)
  ran,        \* calls whose tool was really started (history)
  lost,       \* groups a crash or a failing store left unsealed (history)
  meddled     \* groups CompressNow added results to (history)

turnVars == <<pc, cancelled, rounds, guard, group, parallel>>
steerVars == <<active, queue, raw, accepted, cut>>
historyVars == <<chats, groups, ran, lost, meddled>>
vars == <<log, view, turnVars, steerVars, healing, historyVars>>

May(fault) == fault \in Faults

\* An event does not reach the caller: it fails, or the turn is cancelled, for
\* send waits for the caller and for the end of the turn's context at once.
SinkFails == cancelled \/ May("sink")

-----------------------------------------------------------------------------
(* Transcript entries.                                                      *)

User      == [role |-> "user"]
Steer(m)  == [role |-> "steer", msg |-> m]
Answer    == [role |-> "assistant"]
Calls(g, f, p) == [role |-> "calls", group |-> g, fp |-> f, chat |-> chats, batch |-> p]
Result(g, i, body) == [role |-> "tool", group |-> g, call |-> i, body |-> body]
Interrupted(g, i) == Result(g, i, "interrupted")

Call == 1 .. GroupSize
IsResult(e, g, i) == e.role = "tool" /\ e.group = g /\ e.call = i

\* The last entry up to k that is not a result, and whether k is a result of the
\* group at i.
Opener(s, k) == Max({0} \cup {i \in 1 .. k : s[i].role # "tool"})
Answers(s, i, k) ==
  i < k /\ i = Opener(s, k) /\ s[i].role = "calls" /\ s[k].group = s[i].group

Unanswered(s, i) ==
  IF i > 0 /\ s[i].role = "calls"
  THEN {c \in Call : ~\E k \in DOMAIN s : Answers(s, i, k) /\ s[k].call = c}
  ELSE {}

\* The elements of s that are in S, in their order.
Among(s, S) ==
  LET only[k \in 0 .. Len(s)] ==
        IF k = 0 THEN <<>>
        ELSE IF s[k] \in S THEN Append(only[k - 1], s[k]) ELSE only[k - 1]
  IN only[Len(s)]

\* One interrupted result for each of the calls C of group g, in call order.
MadeUp(g, C) == Among([c \in Call |-> Interrupted(g, c)], {Interrupted(g, c) : c \in C})

\* sanitizeIndexedMessages: each group keeps the first result of each of its
\* calls, and the missing ones are made up; other results are dropped.
Kept(s, k) ==
  \/ s[k].role # "tool"
  \/ \E i \in DOMAIN s :
       /\ Answers(s, i, k)
       /\ \A j \in 1 .. (k - 1) : Answers(s, i, j) => s[j].call # s[k].call

\* Mutant: a group that another message follows is not repaired.
EndsGroup_Trailing(s, k) == k = Len(s)
EndsGroup(s, k) == k = Len(s) \/ s[k + 1].role # "tool"

Repaired(s, k) ==
  LET i == Opener(s, k) IN
    (IF Kept(s, k) THEN <<s[k]>> ELSE <<>>)
    \o (IF EndsGroup(s, k) /\ Unanswered(s, i) # {}
        THEN MadeUp(s[i].group, Unanswered(s, i)) ELSE <<>>)

Sanitize(s) == FlattenSeq([k \in DOMAIN s |-> Repaired(s, k)])

\* trailingUnansweredToolCalls: the results the last group lacks, when nothing
\* but results follows it.
TrailingUnanswered(s) ==
  LET i == Opener(s, Len(s)) IN
    IF Unanswered(s, i) = {} THEN <<>> ELSE MadeUp(s[i].group, Unanswered(s, i))

-----------------------------------------------------------------------------
Idle == pc = "idle"

\* Mutant: results and messages are persisted, but the running turn does not see
\* them.
Show_LogOnly(e) == IF e.role = "calls" THEN Append(view, e) ELSE view
\* A persisted entry joins the in-memory view of the turn.
Show(e) == Append(view, e)

Init ==
  /\ log = <<>> /\ view = <<>>
  /\ pc = "idle" /\ cancelled = FALSE /\ rounds = 0
  /\ guard = [fp |-> "none", count |-> 0]
  /\ group = [id |-> 0, next |-> 1, todo |-> {}] /\ parallel = FALSE
  /\ active = FALSE /\ queue = <<>> /\ raw = <<>> /\ accepted = <<>>
  /\ cut = {}
  /\ healing = <<>> /\ chats = 0 /\ groups = 0
  /\ ran = {} /\ lost = {} /\ meddled = {}

\* Chat takes the turn lock and opens the steering queue.
BeginChat ==
  /\ Idle /\ chats < MaxChats
  /\ pc' = "opening"
  /\ cancelled' = FALSE /\ rounds' = 0
  /\ guard' = [fp |-> "none", count |-> 0]
  /\ chats' = chats + 1
  /\ active' = TRUE
  /\ UNCHANGED <<log, view, group, parallel, queue, raw, accepted, cut, healing,
                 groups, ran, lost, meddled>>

\* The user's message is persisted, and the thread announced.
PersistUser ==
  /\ pc = "opening"
  /\ \/ May("store") /\ pc' = "closing" /\ UNCHANGED log
     \/ /\ log' = Append(log, User)
        /\ \/ pc' = "building"
           \/ SinkFails /\ pc' = "closing"
  /\ UNCHANGED <<view, cancelled, rounds, guard, group, parallel, steerVars, healing,
                 historyVars>>

\* buildMessages: read the thread, seal a trailing group, repair the view.
BuildMessages ==
  /\ pc = "building"
  /\ \E healed \in {log \o TrailingUnanswered(log)} :
       log' = healed /\ view' = Sanitize(healed)
  /\ pc' = "model"
  /\ UNCHANGED <<cancelled, rounds, guard, group, parallel, steerVars, healing, historyVars>>

-----------------------------------------------------------------------------
(* The provider call.                                                       *)

TurnLimitReached == MaxTurns > 0 /\ rounds >= MaxTurns

\* The turn limit, a failed or a cancelled completion ends the turn.
ModelFails ==
  /\ pc = "model"
  /\ pc' = "closing"
  /\ UNCHANGED <<log, view, cancelled, rounds, guard, group, parallel, steerVars,
                 healing, historyVars>>

\* A terminal answer, which may be empty.
ModelAnswers ==
  /\ pc = "model" /\ ~TurnLimitReached
  /\ pc' = "closing"
  /\ \/ UNCHANGED log
     \/ log' = Append(log, Answer)
  /\ UNCHANGED <<view, cancelled, rounds, guard, group, parallel, steerVars, healing,
                 historyVars>>

Observe(f) ==
  [fp |-> f, count |-> IF guard.fp = f THEN guard.count + 1 ELSE 1]
Skip  == guard.count >= WarnAt
Abort == guard.count >= AbortAt

\* A tool-call group: observed by the guard, persisted with its calls in one
\* transaction, then announced call by call.
ModelCalls(f) ==
  LET g == groups + 1 IN
  /\ pc = "model" /\ ~TurnLimitReached /\ groups < MaxGroups
  /\ rounds' = IF MaxTurns = 0 THEN rounds ELSE rounds + 1
  /\ guard' = Observe(f)
  /\ groups' = g
  /\ \/ /\ May("store")
        /\ pc' = "closing"
        /\ UNCHANGED <<log, view, group, parallel>>
     \/ \E p \in {b \in BOOLEAN : b => GroupSize > 1} :
          /\ log' = Append(log, Calls(g, f, p))
          /\ view' = Show(Calls(g, f, p))
          /\ group' = [id |-> g, next |-> 1, todo |-> {}]
          /\ parallel' = p
          /\ \/ pc' = "tools"
             \/ SinkFails /\ pc' = "sealing"
  /\ UNCHANGED <<cancelled, steerVars, healing, chats, ran, lost,
                 meddled>>

-----------------------------------------------------------------------------
(* Executing a group.                                                       *)

\* Mutant: a group that is left half-way is sealed from its first call.
ClosePending_All(i) == pc' = "sealing" /\ group' = [group EXCEPT !.next = 1]
\* Leave the group at call i: that call and the later ones are to be sealed.
ClosePending(i) == pc' = "sealing" /\ group' = [group EXCEPT !.next = i]

Started(g, i) == IF Skip THEN {} ELSE {<<g, i>>}

\* A concurrent batch looks at the context before its workers start.
BeginBatch ==
  /\ pc = "tools" /\ parallel /\ group.next = 1
  /\ \/ /\ cancelled
        /\ ClosePending(1)
     \/ /\ ~cancelled
        /\ pc' = "batch"
        /\ group' = [group EXCEPT !.todo = Call]
  /\ UNCHANGED <<log, view, cancelled, rounds, guard, parallel, steerVars, healing,
                 historyVars>>

\* A worker takes a call; if the context is done by then it does not start it.
BatchCall(i) ==
  /\ pc = "batch" /\ i \in group.todo
  /\ group' = [group EXCEPT !.todo = @ \ {i}]
  /\ pc' = IF group.todo = {i} THEN "report" ELSE "batch"
  /\ ran' = IF cancelled THEN ran ELSE ran \cup Started(group.id, i)
  /\ UNCHANGED <<log, view, cancelled, rounds, guard, parallel, steerVars, healing,
                 chats, groups, lost,
                 meddled>>

\* A sequential group looks at it before every call.
RunCall ==
  /\ pc = "tools" /\ ~parallel /\ group.next \in Call
  /\ \/ /\ cancelled
        /\ ClosePending(group.next)
        /\ UNCHANGED ran
     \/ /\ ~cancelled
        /\ pc' = "report"
        /\ ran' = ran \cup Started(group.id, group.next)
        /\ UNCHANGED group
  /\ UNCHANGED <<log, view, cancelled, rounds, guard, parallel, steerVars, healing,
                 chats, groups, lost,
                 meddled>>

\* The event cannot be sent, or the result cannot be stored.
Unreported == SinkFails \/ May("store")

\* The next call's output is sent to the caller, then persisted.
Report ==
  LET i == group.next
      r == Result(group.id, i, IF <<group.id, i>> \in ran THEN "output"
                               ELSE IF Skip THEN "repeated" ELSE "dropped")
  IN
  /\ pc = "report"
  /\ \/ /\ Unreported
        /\ ClosePending(i)
        /\ UNCHANGED <<log, view>>
     \/ /\ log' = Append(log, r)
        /\ view' = Show(r)
        /\ group' = [group EXCEPT !.next = i + 1]
        /\ pc' = IF parallel /\ i < GroupSize THEN "report" ELSE "tools"
  /\ UNCHANGED <<cancelled, rounds, guard, parallel, steerVars, healing, historyVars>>

\* closePending: every call from the failed one on gets an interrupted result.
Seal ==
  /\ pc = "sealing"
  /\ \/ /\ group.next \in Call
        /\ log' = Append(log, Interrupted(group.id, group.next))
        /\ group' = [group EXCEPT !.next = @ + 1]
        /\ UNCHANGED <<pc, lost>>
     \/ /\ group.next \notin Call
        /\ pc' = "closing"
        /\ UNCHANGED <<log, group, lost>>
     \/ /\ group.next \in Call /\ May("store")
        /\ pc' = "closing"
        /\ lost' = lost \cup {group.id}
        /\ UNCHANGED <<log, group>>
  /\ UNCHANGED <<view, cancelled, rounds, guard, parallel, steerVars, healing, chats,
                 groups, ran, meddled>>

\* The group is complete: stop if cancelled or looping, else take the messages
\* queued meanwhile.
GroupDone ==
  /\ pc = "tools" /\ group.next \notin Call
  /\ IF cancelled \/ Abort
     THEN /\ pc' = "closing"
          /\ UNCHANGED <<queue, raw>>
     ELSE /\ pc' = "steering"
          /\ raw' = queue /\ queue' = <<>>
  /\ UNCHANGED <<log, view, cancelled, rounds, guard, group, parallel, active, accepted,
                 cut, healing, historyVars>>

\* drainSteering: persist, then confirm each message; a failure returns at once,
\* and the messages behind it are gone.
DrainSteering ==
  /\ pc = "steering"
  /\ IF raw = <<>>
     THEN /\ pc' = "model"
          /\ UNCHANGED <<log, view, raw, cut>>
     ELSE \/ /\ May("store")
             /\ pc' = "closing" /\ raw' = <<>> /\ cut' = cut \cup ToSet(raw)
             /\ UNCHANGED <<log, view>>
          \/ /\ log' = Append(log, Steer(Head(raw)))
             /\ view' = Show(Steer(Head(raw)))
             /\ \/ raw' = Tail(raw) /\ UNCHANGED <<pc, cut>>
                \/ SinkFails /\ pc' = "closing" /\ raw' = <<>> /\ cut' = cut \cup ToSet(Tail(raw))
  /\ UNCHANGED <<cancelled, rounds, guard, group, parallel, active, queue, accepted,
                 healing, historyVars>>

-----------------------------------------------------------------------------
(* The end of a turn: endSteeringTurn, still under the turn lock.            *)

\* Mutant: what is still queued at the end of a turn is dropped.
Undelivered_Dropped == <<>>
Undelivered == queue

EndTurn ==
  /\ pc = "closing"
  /\ pc' = "leftover"
  /\ active' = FALSE
  /\ raw' = Undelivered /\ queue' = <<>>
  /\ UNCHANGED <<log, view, cancelled, rounds, guard, group, parallel, accepted, cut,
                 healing, historyVars>>

\* Undelivered messages are persisted, each on its own; then the lock is free.
PersistLeftover ==
  /\ pc = "leftover"
  /\ IF raw = <<>>
     THEN /\ pc' = "idle" /\ view' = <<>>
          /\ UNCHANGED <<log, raw>>
     ELSE /\ raw' = Tail(raw)
          /\ \/ log' = Append(log, Steer(Head(raw)))
             \/ May("store") /\ UNCHANGED log
          /\ UNCHANGED <<pc, view>>
  /\ UNCHANGED <<cancelled, rounds, guard, group, parallel, active, queue, accepted,
                 cut, healing, historyVars>>

-----------------------------------------------------------------------------
(* What happens beside the turn.                                             *)

QueueHasRoom == Len(queue) < QueueCap

\* EnqueueUserMessage, from any other goroutine.
Enqueue(m) ==
  /\ active
  /\ QueueHasRoom
  /\ ~\E k \in DOMAIN accepted : accepted[k] = m
  /\ queue' = Append(queue, m)
  /\ accepted' = Append(accepted, m)
  /\ UNCHANGED <<log, view, turnVars, active, raw, cut, healing, historyVars>>

\* InterruptThread, or the client going away.
Cancel ==
  /\ ~Idle /\ ~cancelled
  /\ cancelled' = TRUE
  /\ UNCHANGED <<log, view, pc, rounds, guard, group, parallel, steerVars, healing,
                 historyVars>>

\* The process dies and is started again: only the transcript is left.
Crash ==
  /\ May("crash") /\ ~Idle
  /\ pc' = "idle" /\ view' = <<>> /\ active' = FALSE
  /\ queue' = <<>> /\ raw' = <<>> /\ healing' = <<>>
  /\ accepted' = Among(accepted, {m \in Message : \E k \in DOMAIN log : log[k] = Steer(m)})
  /\ lost' = lost \cup {g \in {group.id} : pc \in {"tools", "batch", "report", "sealing"}}
  /\ UNCHANGED <<log, cancelled, rounds, guard, group, parallel, cut, chats, groups, ran,
                 meddled>>

\* CompressNow calls buildMessages without the turn lock: it reads the thread
\* and seals what looks like a trailing interrupted group, call by call.
CompressReads ==
  /\ May("compress") /\ healing = <<>>
  /\ TrailingUnanswered(log) # <<>>
  /\ healing' = TrailingUnanswered(log)
  /\ UNCHANGED <<log, view, turnVars, steerVars, historyVars>>

CompressSeals ==
  /\ healing # <<>>
  /\ log' = Append(log, Head(healing))
  /\ healing' = Tail(healing)
  /\ meddled' = meddled \cup {Head(healing).group}
  /\ UNCHANGED <<view, turnVars, steerVars, chats, groups, ran, lost>>

-----------------------------------------------------------------------------
Step ==
  \/ PersistUser \/ BuildMessages \/ ModelFails \/ ModelAnswers
  \/ \E f \in Fingerprint : ModelCalls(f)
  \/ BeginBatch \/ (\E i \in Call : BatchCall(i)) \/ RunCall \/ Report \/ Seal \/ GroupDone \/ DrainSteering
  \/ EndTurn \/ PersistLeftover

Next ==
  \/ BeginChat \/ Step \/ Cancel \/ Crash
  \/ \E m \in Message : Enqueue(m)
  \/ CompressReads \/ CompressSeals

Spec == Init /\ [][Next]_vars

(* The turn's goroutine runs on: a provider call returns (its stream has an  *)
(* idle watchdog), a tool call returns or is cancelled.                      *)
FairSpec == Spec /\ WF_vars(Step)

-----------------------------------------------------------------------------
(* Properties.                                                              *)

Entry ==
  {User, Answer} \cup {Steer(m) : m \in Message}
  \cup [role : {"calls"}, group : 1 .. MaxGroups, fp : Fingerprint, chat : 1 .. MaxChats,
        batch : BOOLEAN]
  \cup [role : {"tool"}, group : 1 .. MaxGroups, call : Call,
        body : {"output", "repeated", "dropped", "interrupted"}]

\* Every variable has its type; the steering queue of a thread never holds more
\* than steeringQueueCap messages, and is empty while no turn is active.
TypeOK ==
  /\ log \in Seq(Entry) /\ view \in Seq(Entry) /\ healing \in Seq(Entry)
  /\ pc \in {"idle", "opening", "building", "model", "tools", "batch", "report",
             "sealing", "steering", "closing", "leftover"}
  /\ cancelled \in BOOLEAN /\ parallel \in BOOLEAN
  /\ rounds \in 0 .. MaxTurns
  /\ guard \in [fp : Fingerprint \cup {"none"}, count : 0 .. MaxGroups]
  /\ group \in [id : 0 .. MaxGroups, next : 1 .. GroupSize + 1, todo : SUBSET Call]
  /\ queue \in Seq(Message) /\ Len(queue) <= QueueCap
  /\ active \in BOOLEAN /\ (~active => queue = <<>>)
  /\ raw \in Seq(Message) /\ accepted \in Seq(Message) /\ cut \subseteq Message
  /\ chats \in 0 .. MaxChats /\ groups \in 0 .. MaxGroups
  /\ ran \subseteq (1 .. MaxGroups) \X Call
  /\ lost \subseteq 1 .. MaxGroups /\ meddled \subseteq 1 .. MaxGroups

\* What a provider accepts (validateProviderPayload): the results of a group
\* follow it at once, one for each call, and there are no others.
Valid(s) ==
  /\ \A i \in DOMAIN s : s[i].role = "calls" =>
       \A c \in Call : \E k \in (i + 1) .. (i + GroupSize) :
          k \in DOMAIN s /\ IsResult(s[k], s[i].group, c)
  /\ \A k \in DOMAIN s : s[k].role = "tool" =>
       \E i \in DOMAIN s : /\ s[i].role = "calls" /\ s[i].group = s[k].group
                           /\ i < k /\ k <= i + GroupSize

\* Whatever was interrupted before, a payload sent to the provider is valid: the
\* assertion in Chat ("invalid provider payload") never fires.
PayloadValid == pc = "model" => Valid(Sanitize(view))

\* The payload of a running turn is the one that a turn resumed from the store
\* would build: nothing is shown to the model that is not durable, and nothing
\* durable is withheld from it.  (Results CompressNow added beside are apart.)
Own(s) == Among(s, {e \in Entry : e.role = "tool" => e.group \notin meddled})
ViewMatchesLog == pc = "model" => Own(Sanitize(view)) = Own(Sanitize(log))

\* A turn that ended, however it did short of a crash or a failing store, leaves
\* no group without its results.
Sealed ==
  Idle => \A i \in DOMAIN log :
    log[i].role = "calls" /\ log[i].group \notin lost => Unanswered(log, i) = {}

\* However a group ends, short of results CompressNow adds to it: it has at most
\* one result for each call, in call order, and was cut in one place, from which on
\* its results say "not completed".  In a sequential group only the call at the cut
\* may have been started all the same; the later ones never were.
Results == {k \in DOMAIN log : log[k].role = "tool" /\ log[k].group \notin meddled}
Batched ==
  {log[i].group : i \in {k \in DOMAIN log : log[k].role = "calls" /\ log[k].batch}}
CutInOnePlace ==
  \A j, k \in Results : j < k /\ log[j].group = log[k].group =>
    /\ log[j].call < log[k].call
    /\ log[j].body = "interrupted" =>
         /\ log[k].body = "interrupted"
         /\ <<log[k].group, log[k].call>> \in ran => log[k].group \in Batched

\* How many groups up to position i of the transcript ask the same thing in a
\* row, within one Chat.
InARow(i) ==
  LET same(k) == log[k].role = "calls" =>
                   log[k].fp = log[i].fp /\ log[k].chat = log[i].chat
      from == {j \in 1 .. i : /\ log[j].role = "calls"
                              /\ \A k \in j .. i : same(k)}
  IN Cardinality(from)

\* No-progress loops stop: from the warning on a repeated group starts no tool,
\* and no group is asked for again once the loop was to be aborted.
LoopsStop ==
  \A i \in DOMAIN log : log[i].role = "calls" =>
    /\ InARow(i) <= AbortAt
    /\ InARow(i) >= WarnAt => \A c \in Call : <<log[i].group, c>> \notin ran

Steered == Among(log, {Steer(m) : m \in Message})
Delivered == [k \in DOMAIN Steered |-> Steered[k].msg]

Mailbox == INSTANCE SteeringMailbox
             WITH pending <- raw \o queue, delivered <- Delivered, taken <- accepted,
                  interrupted <- SinkFails \/ May("store")

\* The steering queue, with its drains at tool boundaries and at the end of a
\* turn, is a first-in first-out mailbox which loses messages, and then the first
\* of those on their way, only while the turn is cancelled or something fails.
ImplementsMailbox == Mailbox!Spec

\* Every accepted message reaches the transcript, whether the turn has another
\* tool boundary, ends, fails or is cancelled; but for those behind the one at
\* which a drain of a cancelled turn failed.
SteeringDelivered ==
  \A m \in Message : (\E k \in DOMAIN accepted : accepted[k] = m)
                       ~> (m \in cut \/ \E k \in DOMAIN log : log[k] = Steer(m))

\* The output of a call that was recorded is what the model is shown.
OutputIsShown ==
  pc = "model" => \A k \in DOMAIN log :
    log[k].role = "tool" /\ log[k].body = "output"
      => \E j \in DOMAIN view : view[j] = log[k]
=============================================================================
