----------------------------- MODULE Compaction -----------------------------
(***************************************************************************)
(* What context compression does to the token budget of one turn            *)
(* (compressIfNeeded and compressActiveTurn in internal/agent/compression.go *)
(* and the two places where Agent.Chat calls them): before the first request *)
(* and after every tool group, the view is measured and, if it is over the   *)
(* budget, summarised, condensed into a checkpoint, pruned or truncated.     *)
(* ThreadHistory has what becomes of the records; this module has the sizes. *)
(*                                                                         *)
(* A message is its role, its kind, its tokens, the call it belongs to and   *)
(* the order of its arrival.  Tokens of a sequence are the sum of those of   *)
(* its messages.  Ratios are percentages.  The second actor is the command   *)
(* --summarize-context, which asks the same summarizer without a turn.       *)
(***************************************************************************)
EXTENDS Integers, Sequences, FiniteSets, SequencesExt

CONSTANTS
  Settings,      \* configurations and models explored, see SettingsAssumption
  UserSizes, ResultSizes, SummarySizes,   \* tokens of what others write
  MaxPast,       \* bound: tool groups of earlier turns in the view
  MaxRounds      \* bound: tool groups of the turn

\* Config.Validate
SettingsAssumption ==
  \A s \in Settings :
    /\ {s.context, s.threshold, s.ratio, s.tail, s.output, s.min, s.max} \subseteq Nat
    /\ {s.enabled, s.sameIds} \subseteq BOOLEAN
    /\ s.context > 0
    /\ s.enabled =>
         /\ 0 < s.ratio /\ s.ratio < s.threshold /\ s.threshold < 100
         /\ 0 < s.output /\ s.output <= 100 /\ s.min <= s.max
ASSUME CompactionAssumption ==
  /\ SettingsAssumption
  /\ UserSizes \cup ResultSizes \cup SummarySizes \subseteq Nat \ {0}
  /\ MaxPast \in Nat /\ MaxRounds \in Nat

VARIABLES
  cfg,       \* the setting in use
  view,      \* indexedMsgs
  phase,        \* where the turn is
  asked,     \* the summary asked for: "start", "active", "escalated", "command"
  tries,     \* calls of the summarizer that this pass made (history)
  usage,     \* and those of them that reported their usage (history)
  last,      \* what the last pass reported
  steered,   \* the user's messages were appended since then
  nudged,    \* the agent has put a message of its own into the turn
  rounds,    \* tool groups of this turn
  request    \* what the command --summarize-context asks for

turnVars == <<steered, nudged, rounds>>
passVars == <<asked, tries, usage, last>>
compactionVars == <<cfg, view, phase, passVars, turnVars, request>>

Clamp(x, lo, hi) == IF x < lo THEN lo ELSE IF x > hi THEN hi ELSE x
Percent(n, p) == (n * p) \div 100

-----------------------------------------------------------------------------
(* Messages.                                                                *)

Say(role, kind, tokens, call, seq) ==
  [role |-> role, kind |-> kind, tokens |-> tokens, call |-> call, seq |-> seq]

Small == 400
System == Say("system", "system", 2000, 0, 0)
Summary(n) == Say("user", "compression_summary", n, 0, 0)
Checkpoint(n) == Say("user", "active_turn_summary", n, 0, 0)
Nudge == Say("user", "todo_nudge", Small, 0, 0)
User(n, seq) == Say("user", "thread_message", n, 0, seq)
Group(n, call, seq) ==
  <<Say("assistant", "thread_message", Small, call, seq),
    Say("tool", "thread_message", n, call, seq)>>
Answer(seq) == Say("assistant", "thread_message", Small, 0, seq)

Persisted(m) == m.kind = "thread_message"
Digest(v, k) == k \in DOMAIN v /\ v[k].kind = "active_turn_summary"

\* CountMessages and messageRangeTokens.
Over(v, S) ==
  LET sum[k \in 0 .. Len(v)] ==
        IF k = 0 THEN 0 ELSE sum[k - 1] + (IF k \in S THEN v[k].tokens ELSE 0)
  IN  sum[Len(v)]
Tokens(v) == Over(v, DOMAIN v)

Users(v) == {k \in DOMAIN v : v[k].role = "user"}
LastUserRole(v) == Max({0} \cup Users(v))
LastUser(v) == Max({0} \cup {k \in Users(v) : Persisted(v[k])})

\* groupMessagesForCompression: a call goes with its results.
Starts(v) == {k \in DOMAIN v : v[k].role # "tool"}
EndOf(v, k) == Min({s \in Starts(v) : s > k} \cup {Len(v) + 1}) - 1

\* validateProviderPayload: a result follows its call, every call has its result,
\* and no two calls have the same id.
Valid(v) ==
  LET calls == {k \in DOMAIN v : v[k].role = "assistant" /\ v[k].call # 0} IN
  /\ \A k \in DOMAIN v : v[k].role = "tool" => k - 1 \in calls /\ v[k - 1].call = v[k].call
  /\ \A k \in calls : k < Len(v) /\ v[k + 1].role = "tool"
  /\ \A j, k \in calls : v[j].call = v[k].call => j = k

\* activeTurnRawTailTokens
RawTail(v) ==
  IF LastUser(v) = 0 THEN 0
  ELSE Over(v, {k \in DOMAIN v : k > LastUser(v) /\ Persisted(v[k])})

-----------------------------------------------------------------------------
(* The budgets that follow from the setting.                                *)

\* A ratio that is none stands for the default.
Ratio(p, default) == IF p <= 0 \/ p > 100 THEN default ELSE p
Budget == Percent(cfg.context, Ratio(cfg.threshold, 80))

\* activeTurnTargetBudget
Target ==
  LET t == Percent(cfg.context, IF cfg.ratio = 100 THEN 50 ELSE Ratio(cfg.ratio, 50))
  IN  IF t = 0 \/ t > Budget THEN Budget ELSE t

\* activeTurnRecentTailTarget
TailTarget ==
  LET t == Percent(cfg.context, 15) IN
  IF cfg.tail > 0 THEN cfg.tail
  ELSE IF cfg.context >= 65536 THEN Clamp(t, 8192, 12288) ELSE Clamp(t, 64, 8192)

\* activeTurnRequiredRecentTail of work of n tokens.
Floor(n) ==
  IF cfg.tail = 0 /\ cfg.context < 65536 THEN 0 ELSE Min({n, TailTarget})

\* activeTurnSummaryReserve
Reserve == Min({Clamp(Percent(cfg.context, 6), cfg.min, cfg.max), Target \div 4})

\* minimumUsefulActiveSummaryTokens, and its cap by the summary's own limit.
MaxOutput == Clamp(Percent(Tokens(view), cfg.output), cfg.min, cfg.max)
Useful(n) ==
  LET least == IF n < 4096 THEN 0 ELSE Clamp(n \div 50, 768, 2048)
  IN  IF MaxOutput > 0 THEN Min({least, (MaxOutput * 3) \div 4}) ELSE least

-----------------------------------------------------------------------------
(* Pruning and truncation.                                                  *)

\* 2000 characters of a tool's output, and what is left of a longer one.
LongOutput == 500
Pruned == 520

Cut(m) == IF m.role = "tool" /\ m.tokens > LongOutput THEN [m EXCEPT !.tokens = Pruned] ELSE m

\* pruneOldToolOutputs
PruneOld(v) ==
  LET u == LastUserRole(v)
  IN  [k \in 1 .. (u - 1) |-> Cut(v[k])] \o SubSeq(v, Max({u, 1}), Len(v))
Prunes(v) ==
  \E k \in DOMAIN v : k < LastUserRole(v) /\ v[k].role = "tool" /\ v[k].tokens > LongOutput

\* The messages of v at the places in S, in order.
InOrder(S) ==
  LET most == Max({0} \cup S)
      in[k \in 0 .. most] ==
        IF k = 0 THEN <<>> ELSE IF k \in S THEN Append(in[k - 1], k) ELSE in[k - 1]
  IN  in[most]
Kept(v, S) == LET ks == InOrder(S) IN [i \in DOMAIN ks |-> v[ks[i]]]

Without(v, dropped) == Kept(v, DOMAIN v \ UNION {s .. EndOf(v, s) : s \in dropped})

\* minimalSafeIndexedPayload
Minimal(v) ==
  LET u == LastUser(v)
  IN  Kept(v, {1} \cup ({u} \ {0}) \cup {k \in {u + 1} : u > 0 /\ Digest(v, k)})

\* truncateIndexedToBudget drops groups until the rest fits: those before the last
\* stored user message, then those after it, and last a checkpoint next to it.
DropOrder(v) ==
  LET u == LastUser(v)
      groups == Starts(v) \ {1, u}
      lastResort == {k \in groups : u > 0 /\ k = u + 1 /\ Digest(v, k)}
      before == {k \in groups : k < u \/ u = 0}
  IN  InOrder(before) \o InOrder((groups \ before) \ lastResort) \o InOrder(lastResort)

Truncated(v) ==
  LET order == DropOrder(v)
      Rest(n) == Without(v, {order[i] : i \in 1 .. n})
      enough == {n \in 0 .. Len(order) : Tokens(Rest(n)) <= Budget}
  IN
  IF Tokens(v) <= Budget THEN v
  ELSE IF ~Valid(v) THEN Minimal(v)
  ELSE Rest(IF enough = {} THEN Len(order) ELSE Min(enough))

\* finalizeCompressionFallback: what cannot be sent ends the turn.
Sendable(t) == Valid(t) /\ Tokens(t) <= Budget
Finalized(t, outcome) ==
  [view |-> t, outcome |-> IF Sendable(t) THEN outcome ELSE "error", unsafe |-> ~Sendable(t)]
Fallback(v, outcome) == Finalized(Truncated(v), outcome)

\* The fallback of compressActiveTurn, which gives up less recent work than floor.
UnlessShort(f, v, floor) ==
  IF RawTail(f.view) < floor THEN [view |-> v, outcome |-> "error", unsafe |-> TRUE] ELSE f
ActiveFallback_AnyTail(v, outcome, floor) == Fallback(v, outcome)          \* mutant
ActiveFallback(v, outcome, floor) == UnlessShort(Fallback(v, outcome), v, floor)

Failed(result) == [result EXCEPT !.outcome = "error", !.unsafe = TRUE]
Done(v, outcome) == [view |-> v, outcome |-> outcome, unsafe |-> FALSE]

-----------------------------------------------------------------------------
(* What is summarised.                                                      *)

\* toRawMessages merges a checkpoint into the user's message before it.  Raw is the
\* place of the k-th message of v among the raw messages this makes.
Merged(v) == {k \in DOMAIN v : k > 1 /\ Digest(v, k) /\ v[k - 1].role = "user"}
Raw(v, k) == k - Cardinality({j \in Merged(v) : j <= k})

\* At the start of a turn: raw messages from the first on until the rest is within
\* the target, but never the last in the role of the user.
PrefixWanted ==
  LET n == Raw(view, Len(view))
      UpTo(t) == {k \in DOMAIN view : k > 1 /\ Raw(view, k) <= t}
      enough == {t \in 2 .. (n - 1) : Tokens(view) - Over(view, UpTo(t)) <= Target}
  IN  Min(enough \cup {n - 1})

\* alignCompressionBoundary: up to here the view is summarised.
Prefix ==
  LET raw == DOMAIN view \ Merged(view)
      stops == {s \in (Starts(view) \cap raw) \ {1} :
                  Raw(view, s) > PrefixWanted \/ s = Max({0} \cup (Users(view) \cap raw))}
  IN  Min(stops \cup {Len(view) + 1}) - 1

\* In the course of a turn: its first complete groups, with a checkpoint before
\* them, until what is left is small enough, keeping the recent ones.
WorkStart(v) == IF Digest(v, LastUser(v) + 1) THEN LastUser(v) + 2 ELSE LastUser(v) + 1
WorkFrom(v, k) == Over(v, k .. Len(v))
RequiredTail(v) == Floor(WorkFrom(v, WorkStart(v)))
Fixed(v) == Over(v, 1 .. LastUser(v))

RecentLimit(v) ==
  LET most == Max({0, Budget - Fixed(v) - Reserve})
      wish == Target - Fixed(v) - Reserve
  IN  Max({0, IF wish < TailTarget THEN Min({TailTarget, most}) ELSE wish})

WorkStarts(v) == {s \in Starts(v) : s >= WorkStart(v)}

\* The first group of the suffix that makes up the recent work.
Protected(v) ==
  IF RequiredTail(v) = 0 THEN Len(v) + 1
  ELSE Max({Min(WorkStarts(v))} \cup {s \in WorkStarts(v) : WorkFrom(v, s) >= RequiredTail(v)})

BatchEnd(v) ==
  LET ends == {s - 1 : s \in {t \in WorkStarts(v) \cup {Len(v) + 1} : t <= Protected(v)}}
      enough == {e \in ends : WorkFrom(v, e + 1) <= RecentLimit(v)}
  IN  IF enough = {} THEN Max(ends) ELSE Min(enough)

HasWork(v) == \E k \in DOMAIN v : k > LastUser(v) /\ Persisted(v[k])
NothingOld(v) == BatchEnd(v) < WorkStart(v)

\* prepareCompressionBatch cuts long outputs before they are measured.
BatchTokens(v) ==
  Over([k \in DOMAIN v |-> Cut(v[k])], LastUser(v) .. BatchEnd(v))

\* A checkpoint is too brief for what it stands for; the command compares only if it
\* was told to ask again.
CommandTooBrief(n) == request.retry /\ n < request.need
TooBrief(n) ==
  \/ asked = "active" /\ n < Useful(BatchTokens(PruneOld(view)))
  \/ asked = "command" /\ CommandTooBrief(n)

-----------------------------------------------------------------------------
(* A pass.                                                                  *)

Passing == {"starting", "between", "asking", "retrying"}
Excess(v) == Tokens(v) > Budget

\* preCompressionSnapshot: whether compression_start is sent.
Announced_Target == cfg.enabled /\ Tokens(view) > Target               \* mutant
Announced == cfg.enabled /\ Excess(view)

NoReport == [outcome |-> "none", started |-> FALSE, calls |-> 0, used |-> 0, dropped |-> FALSE]

\* A result ends the pass and Chat goes on, or returns the error.  Reported are the
\* calls the pass made, but not those of an escalation that came to nothing, nor
\* those of a command that failed.
Report(result) ==
  LET dropped == asked \in {"escalated", "command"} /\ result.outcome # "compressed" IN
  /\ view' = result.view
  /\ last' = [outcome |-> result.outcome, started |-> Announced, dropped |-> dropped,
              calls |-> IF dropped THEN 0 ELSE tries',
              used |-> IF dropped THEN 0 ELSE usage']
  /\ phase' = IF result.unsafe \/ asked = "command" THEN "stopped"
           ELSE IF phase = "starting" \/ asked = "start" THEN "model" ELSE "draining"
  /\ asked' = "none" /\ steered' = FALSE
  /\ UNCHANGED <<cfg, nudged, rounds, request>>

Quietly(result) == tries' = 0 /\ usage' = 0 /\ Report(result)

Fits == phase \in {"starting", "between"} /\ ~Excess(view) /\ Quietly(Done(view, "none"))

Disabled ==
  /\ phase \in {"starting", "between"} /\ Excess(view) /\ ~cfg.enabled
  /\ Quietly(Fallback(view, "fallback_truncate"))

Attempts == phase \in {"starting", "between"} /\ Excess(view) /\ cfg.enabled

TooShort == Attempts /\ Len(view) <= 2 /\ Quietly(Failed(Fallback(view, "error")))

AskModel(what) ==
  /\ asked' = what /\ phase' = "asking" /\ tries' = 0 /\ usage' = 0
  /\ UNCHANGED <<cfg, view, last, turnVars, request>>

\* At the start of a turn.  (The last of the messages is the user's, so of three
\* there is one to summarise: the boundary is never too small.)
AskStart == Attempts /\ phase = "starting" /\ Len(view) > 2 /\ AskModel("start")

\* After a tool group.
Between == Attempts /\ phase = "between" /\ Len(view) > 2
PrunedFits(v) == Prunes(v) /\ Tokens(PruneOld(v)) <= Budget

PruneEnough == Between /\ PrunedFits(view) /\ Quietly(Done(PruneOld(view), "pruned"))

\* compressActiveTurn without a call: the payload is not valid, or there is no work
\* of this turn in it.
Hopeless ==
  /\ Between /\ ~PrunedFits(view)
  /\ LET v == PruneOld(view) IN
     \/ ~Valid(v) /\ Quietly(ActiveFallback(v, "error", 0))
     \/ /\ Valid(v) /\ (LastUser(v) = 0 \/ ~HasWork(v))
        /\ Quietly(ActiveFallback(v, "fallback_truncate", 0))

Condensable ==
  LET v == PruneOld(view) IN
  Between /\ ~PrunedFits(view) /\ Valid(v) /\ LastUser(v) > 0 /\ HasWork(v)

AskActive == Condensable /\ ~NothingOld(PruneOld(view)) /\ AskModel("active")

\* The recent work is all there is: the earlier turns are summarised instead.
Spare == LET v == PruneOld(view) IN ActiveFallback(v, "fallback_truncate", RequiredTail(v))

MayEscalate ==
  Spare.outcome = "fallback_truncate" /\ LastUser(view) >= 3

Escalate == Condensable /\ NothingOld(PruneOld(view)) /\ MayEscalate /\ AskModel("escalated")
KeepRecent == Condensable /\ NothingOld(PruneOld(view)) /\ ~MayEscalate /\ Quietly(Spare)

-----------------------------------------------------------------------------
(* The summarizer.                                                          *)

\* A call is made; it reports its usage unless it fails.
Called(ok) ==
  /\ tries' = tries + 1
  /\ usage' \in IF ok THEN {usage, usage + 1} ELSE {usage}

\* There is no summary.
GiveUp(outcome) ==
  CASE asked = "start" -> Fallback(view, outcome)
    [] asked = "escalated" -> Spare
    [] asked = "command" -> Done(view, "error")
    [] OTHER -> LET v == PruneOld(view) IN ActiveFallback(v, outcome, RequiredTail(v))

\* The model of the summary is not known: no call is made.
Unresolved ==
  phase = "asking" /\ UNCHANGED <<tries, usage>> /\ Report(GiveUp("error"))

SummaryFails ==
  phase \in {"asking", "retrying"} /\ Called(FALSE) /\ Report(GiveUp("error"))

SummaryEmpty ==
  phase \in {"asking", "retrying"} /\ Called(TRUE) /\ Report(GiveUp("fallback_truncate"))

Shrinks(v) == Valid(v) /\ Tokens(v) < Tokens(view) /\ Tokens(v) <= Budget

\* The summary stands for the earlier messages.  What is kept is counted off as if
\* the checkpoints were not in the view.
WithPrefix(n) ==
  LET v == <<view[1], Summary(n)>> \o SubSeq(view, Raw(view, Prefix) + 1, Len(view)) IN
  IF Shrinks(v) THEN Done(v, "compressed") ELSE GiveUp("fallback_truncate")

\* The checkpoint stands for the earlier work of the turn.
WithCheckpoint(n) ==
  LET v == PruneOld(view)
      u == LastUser(v)
      w == SubSeq(v, 1, u) \o <<Checkpoint(n)>> \o SubSeq(v, BatchEnd(v) + 1, Len(v))
  IN
  IF ~Valid(w) THEN GiveUp("error")
  ELSE IF ~Shrinks(w) THEN GiveUp("fallback_truncate")
  ELSE IF RawTail(w) < RequiredTail(v) THEN Failed(GiveUp("error"))
  ELSE Done(w, "compressed")

SummaryArrives(n) ==
  /\ phase \in {"asking", "retrying"} /\ Called(TRUE) /\ ~TooBrief(n)
  /\ Report(CASE asked = "active" -> WithCheckpoint(n)
              [] asked = "command" -> Done(view, "compressed")
              [] OTHER -> WithPrefix(n))

\* A checkpoint that is too short is asked for once more.
SummaryTooShort(n) ==
  /\ TooBrief(n) /\ Called(TRUE)
  /\ \/ /\ phase = "asking" /\ phase' = "retrying"
        /\ UNCHANGED <<cfg, view, asked, last, turnVars, request>>
     \/ phase = "retrying" /\ Report(GiveUp("fallback_truncate"))

-----------------------------------------------------------------------------
(* The turn around it.                                                      *)

NextSeq == Max({0} \cup {view[k].seq : k \in DOMAIN view}) + 1
NewCall == IF cfg.sameIds THEN 1 ELSE NextSeq

\* The model calls a tool.  The agent may add a nudge to the result, once.
ToolGroup ==
  /\ phase \in {"model", "draining"} /\ rounds < MaxRounds
  /\ \E n \in ResultSizes, nudge \in {FALSE, ~nudged} :
       /\ view' = view \o Group(n, NewCall, NextSeq) \o (IF nudge THEN <<Nudge>> ELSE <<>>)
       /\ nudged' = (nudged \/ nudge)
  /\ phase' = "between" /\ rounds' = rounds + 1
  /\ UNCHANGED <<cfg, passVars, steered, request>>

\* drainSteering, after the pass.
Steer ==
  /\ phase = "draining" /\ ~steered /\ steered' = TRUE
  /\ view' = Append(view, User(Small, NextSeq))
  /\ UNCHANGED <<cfg, phase, passVars, nudged, rounds, request>>

\* A final answer.
TurnEnds ==
  /\ phase \in {"model", "draining"} /\ phase' = "stopped"
  /\ UNCHANGED <<cfg, view, passVars, turnVars, request>>

-----------------------------------------------------------------------------
(* The command --summarize-context (SummarizeContext, runSummarizeContext).  *)

NoRequest == [need |-> 0, retry |-> FALSE]

\* The request is read and checked; what is wrong with it is all that is answered.
\* The length asked for is at most three quarters of the limit.
CommandReads ==
  /\ phase = "reading"
  /\ \/ phase' = "stopped" /\ UNCHANGED <<asked, request>>
     \/ /\ phase' = "asking" /\ asked' = "command"
        /\ \E need \in {0} \cup SummarySizes, limit \in SummarySizes, retry \in BOOLEAN :
             request' = [need |-> Min({need, (limit * 3) \div 4}), retry |-> retry]
  /\ UNCHANGED <<cfg, view, tries, usage, last, turnVars>>

-----------------------------------------------------------------------------

\* The view buildMessages made: the system prompt, a summary of what went before
\* it, groups of earlier turns, and the user's message.
Exchange(size, n) == <<User(Small, n)>> \o Group(size, n + 1, n + 1) \o <<Answer(n + 2)>>
History(past) ==
  LET upTo[k \in 0 .. Len(past)] ==
        IF k = 0 THEN <<>> ELSE upTo[k - 1] \o Exchange(past[k], Len(upTo[k - 1]))
  IN  upTo[Len(past)]

CompactionInit ==
  /\ cfg \in Settings
  /\ \/ phase = "reading" /\ view = <<>>
     \/ /\ phase = "starting"
        /\ \E past \in SeqOf(ResultSizes, MaxPast), n \in UserSizes,
             summary \in {<<>>} \cup {<<Summary(s)>> : s \in SummarySizes} :
             view = <<System>> \o summary \o History(past) \o <<User(n, 4 * MaxPast + 1)>>
  /\ asked = "none" /\ tries = 0 /\ usage = 0 /\ last = NoReport
  /\ steered = FALSE /\ nudged = FALSE /\ rounds = 0
  /\ request = NoRequest

CompactionNext ==
  \/ Fits \/ Disabled \/ TooShort \/ AskStart
  \/ PruneEnough \/ Hopeless \/ AskActive \/ Escalate \/ KeepRecent
  \/ Unresolved \/ SummaryFails \/ SummaryEmpty
  \/ \E n \in SummarySizes : SummaryArrives(n) \/ SummaryTooShort(n)
  \/ ToolGroup \/ Steer \/ TurnEnds
  \/ CommandReads

CompactionSpec == CompactionInit /\ [][CompactionNext]_compactionVars

-----------------------------------------------------------------------------
(* Properties.                                                              *)

CompactionTypeOK ==
  /\ cfg \in Settings /\ {steered, nudged} \subseteq BOOLEAN /\ rounds \in 0 .. MaxRounds
  /\ phase \in {"reading", "starting", "model", "between", "asking", "retrying", "draining",
             "stopped"}
  /\ asked \in {"none", "start", "active", "escalated", "command"}
  /\ (asked # "none") = (phase \in {"asking", "retrying"})
  /\ tries \in 0 .. 2 /\ usage \in 0 .. tries

\* What goes to the model after a pass fits the budget and begins with the system
\* prompt; if the pass had to take something away, every call in it has its result
\* (finalizeCompressionFallback: "the hard provider-payload invariants").
PayloadFits ==
  phase \in {"model", "draining"} /\ ~steered =>
    /\ Tokens(view) <= Budget
    /\ view[1] = System
    /\ last.outcome \notin {"none", "pruned"} => Valid(view)

GoesOn == phase \in Passing /\ phase' \in {"model", "draining"}
Stops == phase \in Passing /\ phase' = "stopped" /\ asked # "command"

KeepsWork ==
  /\ RawTail(view') >= Floor(RawTail(view))
  /\ LastUser(view') > 0 /\ view'[LastUser(view')] = view[LastUser(view)]

\* What a turn cannot do without: the system prompt, the user's message, a checkpoint
\* next to it and the recent groups that are required.
Required(v) ==
  LET u == LastUser(v) IN
  {1, u} \cup {k \in {u + 1} : Digest(v, k)}
         \cup IF HasWork(v) THEN Protected(v) .. Len(v) ELSE {}

\* No nudge of the agent's behind the user's message passes for it.
UserIsLast == LastUserRole(view) = LastUser(view) \/ Digest(view, LastUserRole(view))

\* A pass that lets the turn go on keeps the recent raw work that is required and
\* the message it answers ("Never turn a recoverable compression failure into a
\* deceptively tiny but provider-valid prompt", compressActiveTurn), and a pass ends
\* the turn only if what it cannot do without is over the budget.  Compression is on,
\* the provider does not repeat ids, and the last user message is the user's.
RecentWorkKept ==
  [][cfg.enabled /\ Valid(view) /\ LastUser(view) > 0 /\ UserIsLast =>
       /\ GoesOn => KeepsWork
       /\ Stops => Over(view, Required(view)) > Budget]_compactionVars

\* The two halves without the last exception.
WorkNeverLost == [][cfg.enabled /\ Valid(view) /\ LastUser(view) > 0 /\ GoesOn => KeepsWork]_compactionVars
StopsForCause ==
  [][cfg.enabled /\ Valid(view) /\ LastUser(view) > 0 /\ Stops
       => Over(view, Required(view)) > Budget]_compactionVars

\* A pass that was announced says how it ended (preCompressionSnapshot: "guaranteed to
\* produce a terminal compression event"), and unless an escalation came to nothing
\* the calls it made, as many with their usage as told it.
CallsReported ==
  /\ last.started => last.outcome # "none"
  /\ phase \in {"model", "draining", "stopped"} /\ ~last.dropped =>
       last.calls = tries /\ last.used = usage

PassSound == PayloadFits /\ CallsReported
=============================================================================
