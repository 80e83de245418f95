----------------------------- MODULE ToolProofs -----------------------------
(***************************************************************************)
(* Theorems about the tools and what stands before them.                   *)
(*                                                                          *)
(* ToolCalls, for any registry restrictions, policies, batches, worker     *)
(* counts and numbers of turns.  The invariant is in four parts, each about *)
(* one hand-over: a verdict that is carried from the dispatch to the tool,  *)
(* a prompt that is carried to the event loop and its answer back, a        *)
(* process that is carried from its start to the table of the shell, and    *)
(* the terminal item that carries the end of a turn.                        *)
(*                                                                          *)
(* FileMutation, for every number of calls, processes, scenes and edits:    *)
(* the lock table and the temporary files are exact, and the file is the    *)
(* compare-and-swap register of CasFile.                                    *)
(***************************************************************************)
EXTENDS ToolCalls, FileMutation, FiniteSetTheorems, SequenceTheorems, TLAPS

(***************************************************************************)
(* ToolCalls.                                                               *)
(***************************************************************************)

Steps == {"idle", "asking", "waiting", "cleared", "running", "entering", "starting",
          "registering", "commanding", "orphaned", "ended"}
Items == [kind : {"approval"}, call : Calls] \cup [kind : {"done", "err"}]
Loops == [streaming : BOOLEAN, draining : BOOLEAN, quitting : BOOLEAN, exited : BOOLEAN,
          pending : {0, 1}]

\* The types of the variables; the prompts are those of calls of the current turn.
TypeInv ==
  /\ cfg \in Configs
  /\ turns \in Nat /\ plan \in BOOLEAN
  /\ active \in BOOLEAN /\ cancelled \in BOOLEAN
  /\ at \in [Calls -> Steps]
  /\ reply \in [Calls -> {"none", "allow", "deny"}]
  /\ ch \in Seq(Items)
  /\ ui \in Loops
  /\ approvals \in Seq({turns} \X Calls)
  /\ proc \in [Calls -> {"none", "up", "gone"}]
  /\ stopping \subseteq Calls /\ syncJobs \subseteq Calls
  /\ shell \in {"open", "closing", "closed"}
  /\ yes \subseteq Calls
  /\ detached \in BOOLEAN
  /\ \A k \in kids : k = [turn |-> k.turn, call |-> k.call, state |-> k.state]

\* What a call was told when it was dispatched still stands for it on its way to the
\* tool, and a yes in its reply channel is the user's to this call.
OwnVerdict(i) == Verdict(batch[i], cfg, plan, FALSE)
Decided ==
  \A i \in Calls :
    /\ at[i] \in {"asking", "waiting"} => OwnVerdict(i) = "prompt"
    /\ at[i] = "cleared" =>
         OwnVerdict(i) = "allow" \/ (OwnVerdict(i) = "prompt" /\ i \in yes)
    /\ reply[i] = "allow" => i \in yes

\* A loop that still runs holds prompts only while it streams; it drains with a prompt
\* up only when it will quit, and quits only by way of draining.
Held ==
  ~ui.exited =>
    /\ approvals # <<>> => ui.streaming
    /\ ui.quitting => ui.draining
    /\ ui.draining => ui.streaming
    /\ ui.draining /\ ~ui.quitting => approvals = <<>>

\* A turn whose goroutine runs is one the loop streams from, and none of its items is a
\* terminal one; when the goroutine has ended, so have its calls; and a call has a
\* process only between its start and its end.
TurnAlive ==
  /\ active => ui.streaming /\ \A k \in DOMAIN ch : ch[k].kind = "approval"
  /\ ~active => \A i \in Calls : at[i] = "ended"
  /\ \A i \in Calls : proc[i] = "up" => at[i] \in {"registering", "commanding", "orphaned"}

SessionInv ==
  TypeInv /\ Decided /\ RunsAuthorised /\ Held /\ CommandsReachable /\ TurnAlive

\* A turn begins only when every call of the last one has come back and none of its
\* commands is alive, so what StartStream forgets is over.  main.go startStream.
TurnsApart ==
  [][turns' # turns => \A i \in Calls : at[i] = "ended" /\ proc[i] # "up"]_callVars

----------------------------------------------------------------------------
(* Verdicts *)

LEMMA PolicyRange ==
  ASSUME NEW c \in Configs, NEW name, NEW tier
  PROVE  ResolveApprovalPolicy(c, name, tier) \in Policies
BY ConfigsAssumption DEF ResolveApprovalPolicy, DefaultPolicy, Policies

LEMMA TierRange ==
  ASSUME NEW name, NEW tool, NEW args
  PROVE  ResolvedTier(name, tool, args) \in Tiers \cup {"error"}
<1> DEFINE tier == CASE name = "git" -> GitTier(args)
                     [] name = "todo" -> TodoTier(args)
                     [] name = "job" -> JobTier(args)
                     [] name = "shell_exec" -> ShellTier(args)
                     [] OTHER -> tool.tier
<1>1. ResolvedTier(name, tool, args) = IF tier \in Tiers \cup {"error"} THEN tier ELSE "exec"
  BY DEF ResolvedTier
<1> HIDE DEF tier
<1> QED
  BY <1>1 DEF Tiers

\* A call that is not refused has a tool and a tier, obeys plan mode, and its verdict is
\* the policy's.
TierOf(call, sub) == ResolvedTier(call.tool, Registry(sub)[call.tool], Arguments(call))

LEMMA NotRefused ==
  ASSUME NEW call, NEW config, NEW planning \in BOOLEAN, NEW sub \in BOOLEAN,
         Verdict(call, config, planning, sub) # "refused"
  PROVE  /\ call.tool \in DOMAIN Registry(sub)
         /\ TierOf(call, sub) \in Tiers
         /\ planning => TierOf(call, sub) = "read" \/ call.tool = "todo"
         /\ Verdict(call, config, planning, sub)
              = ResolveApprovalPolicy(config, call.tool, TierOf(call, sub))
<1> DEFINE tool == Registry(sub)[call.tool]
           tier == TierOf(call, sub)
           fits == ConformsTo([t |-> "object", v |-> Arguments(call)], tool.schema)
           given == tool.schema.required \subseteq Given(Arguments(call))
           policy == ResolveApprovalPolicy(config, call.tool, tier)
           outOfPlan == planning /\ tier # "read" /\ call.tool # "todo"
<1>1. CASE call.tool \notin DOMAIN Registry(sub)
  BY <1>1 DEF Verdict
<1>2. CASE call.tool \in DOMAIN Registry(sub)
  <2>1. Verdict(call, config, planning, sub) =
          CASE tier = "error" -> "refused"
            [] outOfPlan -> "refused"
            [] ~given -> "refused"
            [] ~fits -> "refused"
            [] OTHER -> policy
    BY <1>2 DEF Verdict, TierOf
  <2>2. tier \in Tiers \cup {"error"}
    BY TierRange DEF TierOf
  <2>3. outOfPlan \in BOOLEAN
    OBVIOUS
  <2> HIDE DEF outOfPlan, fits, given, policy, tier
  <2>4. tier # "error" /\ ~outOfPlan
    <3>1. CASE tier = "error"
      BY <2>1, <3>1
    <3>2. CASE tier # "error" /\ outOfPlan
      BY <2>1, <3>2
    <3> QED
      BY <3>1, <3>2
  <2>5. Verdict(call, config, planning, sub) = policy
    BY <2>1, <2>4
  <2> QED
    BY <1>2, <2>2, <2>4, <2>5 DEF outOfPlan, policy, tier
<1> QED
  BY <1>1, <1>2

LEMMA VerdictRange ==
  ASSUME NEW call, NEW c \in Configs, NEW planning \in BOOLEAN, NEW sub \in BOOLEAN
  PROVE  Verdict(call, c, planning, sub) \in Policies \cup {"refused"}
BY NotRefused, PolicyRange

\* A sub-agent's tool is the session's tool of that name.
LEMMA SameTool ==
  ASSUME NEW name \in DOMAIN Registry(TRUE)
  PROVE  Registry(TRUE)[name] = Registry(FALSE)[name]
<1> DEFINE built == NewRegistry(TRUE)
           docs == {"mcp_docs_fetch"}
<1>1. /\ Registry(TRUE) = [x \in SubagentTools \cap DOMAIN built |-> built[x]]
      /\ Registry(FALSE) = [x \in DOMAIN built \cup docs |->
                              IF x \in DOMAIN built THEN built[x] ELSE ForeignTool]
  BY DEF Registry, Restrict
<1> HIDE DEF built, docs
<1> QED
  BY <1>1

----------------------------------------------------------------------------
(* Authorisation *)

Authorised(r) ==
  LET tier == ResolvedTier(r.tool, Registry(FALSE)[r.tool], Arguments(r))
      mustAsk == \/ RuleFor(r) = "prompt"
                 \/ /\ RuleFor(r) = "none"
                    /\ \/ cfg.mode = "always-ask" /\ tier # "read"
                       \/ cfg.mode = "write" /\ tier = "exec"
  IN /\ RuleFor(r) # "deny"
     /\ mustAsk /\ r.by = "turn" => r.call \in yes
     /\ plan /\ r.by # "background" => tier = "read" \/ r.tool = "todo"

\* What the default policy of a mode says of a tier.
LEMMA DefaultAsks ==
  ASSUME NEW mode, NEW tier \in Tiers, DefaultPolicy(mode, tier) = "allow"
  PROVE  ~(mode = "always-ask" /\ tier # "read") /\ ~(mode = "write" /\ tier = "exec")
<1>1. CASE mode = "always-ask"
  <2>1. DefaultPolicy(mode, tier) = IF Rank(tier) >= Rank("write") THEN "prompt" ELSE "allow"
    BY <1>1 DEF DefaultPolicy
  <2>2. Rank("read") = 1 /\ Rank("write") = 2 /\ Rank("exec") = 3
    BY DEF Rank
  <2> QED
    BY <1>1, <2>1, <2>2 DEF Tiers
<1>2. CASE mode = "write"
  <2>1. DefaultPolicy(mode, tier) = IF Rank(tier) >= Rank("exec") THEN "prompt" ELSE "allow"
    BY <1>2 DEF DefaultPolicy
  <2>2. Rank("exec") = 3
    BY DEF Rank
  <2> QED
    BY <1>2, <2>1, <2>2
<1> QED
  BY <1>1, <1>2

\* The rule of a record is that of the policy it was decided by, and the policy says
\* allow where there is no rule only if the mode does.
LEMMA RuleIs ==
  ASSUME NEW r, cfg \in Configs
  PROVE  LET tier == ResolvedTier(r.tool, Registry(FALSE)[r.tool], Arguments(r)) IN
         /\ RuleFor(r) = IF r.tool \in DOMAIN cfg.tools THEN cfg.tools[r.tool]
                         ELSE IF tier \in DOMAIN cfg.tiers THEN cfg.tiers[tier] ELSE "none"
         /\ RuleFor(r) = "none" => /\ r.tool \notin DOMAIN cfg.tools
                                   /\ tier \notin DOMAIN cfg.tiers
<1> DEFINE tier == ResolvedTier(r.tool, Registry(FALSE)[r.tool], Arguments(r))
<1>1. RuleFor(r) = CASE r.tool \in DOMAIN cfg.tools -> cfg.tools[r.tool]
                     [] r.tool \notin DOMAIN cfg.tools /\ tier \in DOMAIN cfg.tiers -> cfg.tiers[tier]
                     [] OTHER -> "none"
  BY DEF RuleFor
<1> HIDE DEF tier
<1>2. RuleFor(r) = IF r.tool \in DOMAIN cfg.tools THEN cfg.tools[r.tool]
                   ELSE IF tier \in DOMAIN cfg.tiers THEN cfg.tiers[tier] ELSE "none"
  <2>1. CASE r.tool \in DOMAIN cfg.tools
    BY <1>1, <2>1
  <2>2. CASE r.tool \notin DOMAIN cfg.tools /\ tier \in DOMAIN cfg.tiers
    BY <1>1, <2>2
  <2>3. CASE r.tool \notin DOMAIN cfg.tools /\ tier \notin DOMAIN cfg.tiers
    BY <1>1, <2>3
  <2> QED
    BY <2>1, <2>2, <2>3
<1>3. /\ r.tool \in DOMAIN cfg.tools => cfg.tools[r.tool] # "none"
      /\ tier \in DOMAIN cfg.tiers => cfg.tiers[tier] # "none"
  BY ConfigsAssumption DEF Policies
<1> QED
  BY <1>2, <1>3 DEF tier

\* Both ways into a tool: by a verdict of its own, with the user's yes where it asks ...
LEMMA OwnAuthorised ==
  ASSUME TypeInv, NEW i \in Calls, NEW r,
         r = [call |-> i, tool |-> batch[i].tool, args |-> batch[i].args, by |-> "turn"],
         OwnVerdict(i) = "allow" \/ (OwnVerdict(i) = "prompt" /\ i \in yes)
  PROVE  Authorised(r)
<1> DEFINE tier == ResolvedTier(r.tool, Registry(FALSE)[r.tool], Arguments(r))
<1>1. r.tool = batch[i].tool /\ r.call = i /\ Arguments(r) = Arguments(batch[i])
  BY DEF Arguments
<1>2. tier = TierOf(batch[i], FALSE)
  BY <1>1 DEF TierOf
<1>3. /\ tier \in Tiers
      /\ plan => tier = "read" \/ r.tool = "todo"
      /\ OwnVerdict(i) = ResolveApprovalPolicy(cfg, r.tool, tier)
  <2>1. Verdict(batch[i], cfg, plan, FALSE) # "refused" /\ plan \in BOOLEAN
    BY DEF OwnVerdict, TypeInv
  <2>2. /\ TierOf(batch[i], FALSE) \in Tiers
        /\ plan => TierOf(batch[i], FALSE) = "read" \/ batch[i].tool = "todo"
        /\ Verdict(batch[i], cfg, plan, FALSE)
             = ResolveApprovalPolicy(cfg, batch[i].tool, TierOf(batch[i], FALSE))
    BY <2>1, NotRefused
  <2> HIDE DEF tier
  <2> QED
    BY <1>1, <1>2, <2>2 DEF OwnVerdict
<1> HIDE DEF tier
<1>4. /\ RuleFor(r) = IF r.tool \in DOMAIN cfg.tools THEN cfg.tools[r.tool]
                      ELSE IF tier \in DOMAIN cfg.tiers THEN cfg.tiers[tier] ELSE "none"
      /\ RuleFor(r) = "none" => r.tool \notin DOMAIN cfg.tools /\ tier \notin DOMAIN cfg.tiers
  BY RuleIs DEF tier, TypeInv
<1>5. RuleFor(r) # "none" => RuleFor(r) = OwnVerdict(i)
  BY <1>3, <1>4 DEF ResolveApprovalPolicy
<1>6. RuleFor(r) = "none" => OwnVerdict(i) = DefaultPolicy(cfg.mode, tier)
  BY <1>3, <1>4 DEF ResolveApprovalPolicy
<1>7. RuleFor(r) # "deny"
  BY <1>5
<1>8. \/ i \in yes
      \/ /\ RuleFor(r) # "prompt"
         /\ RuleFor(r) = "none" => /\ ~(cfg.mode = "always-ask" /\ tier # "read")
                                   /\ ~(cfg.mode = "write" /\ tier = "exec")
  BY <1>3, <1>5, <1>6, DefaultAsks
<1>9. r.by = "turn" /\ plan \in BOOLEAN
  BY DEF TypeInv
<1>10. Authorised(r) <=>
         LET mustAsk == \/ RuleFor(r) = "prompt"
                        \/ /\ RuleFor(r) = "none"
                           /\ \/ cfg.mode = "always-ask" /\ tier # "read"
                              \/ cfg.mode = "write" /\ tier = "exec"
         IN /\ RuleFor(r) # "deny"
            /\ mustAsk /\ r.by = "turn" => r.call \in yes
            /\ plan /\ r.by # "background" => tier = "read" \/ r.tool = "todo"
  BY DEF Authorised, tier
<1>11. CASE i \in yes
  <2>1. r.call \in yes
    BY <1>1, <1>11
  <2> QED
    BY <1>3, <1>7, <1>10, <2>1
<1>12. CASE i \notin yes
  <2>1. /\ RuleFor(r) # "prompt"
        /\ RuleFor(r) = "none" => /\ ~(cfg.mode = "always-ask" /\ tier # "read")
                                  /\ ~(cfg.mode = "write" /\ tier = "exec")
    BY <1>8, <1>12
  <2> QED
    BY <1>3, <1>7, <1>10, <2>1
<1> QED
  BY <1>11, <1>12

\* ... or below a delegation, which was asked about as a whole, by the denials and the
\* tiers of the session.
LEMMA SubagentAuthorised ==
  ASSUME TypeInv, NEW i, NEW call, NEW r, NEW by \in {"sub", "background"},
         NEW planning \in BOOLEAN, by = "sub" => planning = plan,
         r = [call |-> i, tool |-> call.tool, args |-> call.args, by |-> by],
         Verdict(call, SubagentConfig(cfg), planning, TRUE) = "allow"
  PROVE  Authorised(r)
<1> DEFINE tier == ResolvedTier(r.tool, Registry(FALSE)[r.tool], Arguments(r))
<1>1. r.tool = call.tool /\ r.by = by /\ Arguments(r) = Arguments(call)
  BY DEF Arguments
<1>2. /\ call.tool \in DOMAIN Registry(TRUE)
      /\ planning => TierOf(call, TRUE) = "read" \/ call.tool = "todo"
      /\ ResolveApprovalPolicy(SubagentConfig(cfg), call.tool, TierOf(call, TRUE)) = "allow"
  BY NotRefused DEF TypeInv
<1>3. tier = TierOf(call, TRUE)
  BY <1>1, <1>2, SameTool DEF TierOf
<1>4. RuleFor(r) = IF r.tool \in DOMAIN cfg.tools THEN cfg.tools[r.tool]
                   ELSE IF tier \in DOMAIN cfg.tiers THEN cfg.tiers[tier] ELSE "none"
  BY RuleIs DEF tier, TypeInv
<1> HIDE DEF tier
<1>5. RuleFor(r) # "deny"
  BY <1>1, <1>2, <1>3, <1>4
     DEF ResolveApprovalPolicy, SubagentConfig, RewritePromptToAllow
<1>6. plan /\ by # "background" => tier = "read" \/ r.tool = "todo"
  BY <1>1, <1>2, <1>3
<1>7. r.by # "turn" /\ r.by = by
  BY <1>1
<1> QED
  BY <1>5, <1>6, <1>7 DEF Authorised, tier

LEMMA RunsAre == RunsAuthorised <=> \A r \in ran : Authorised(r)
BY DEF RunsAuthorised, Authorised

----------------------------------------------------------------------------
(* Types *)

LEMMA TypeInit == CallsInit => TypeInv
<1> SUFFICES ASSUME CallsInit PROVE TypeInv
  OBVIOUS
<1>1. Calls = {}
  BY DEF CallsInit, Calls
<1>2. \A S : <<>> \in [{} -> S] /\ <<>> \in Seq(S)
  OBVIOUS
<1>3. ch \in Seq(Items) /\ approvals \in Seq({turns} \X Calls)
  BY <1>2 DEF CallsInit
<1>4. /\ at \in [Calls -> Steps] /\ reply \in [Calls -> {"none", "allow", "deny"}]
      /\ proc \in [Calls -> {"none", "up", "gone"}]
  BY <1>1, <1>2 DEF CallsInit
<1>5. ui \in Loops
  BY DEF CallsInit, Loops
<1> QED
  BY <1>3, <1>4, <1>5 DEF CallsInit, TypeInv

\* What StartStream makes: a turn with nothing behind it.
LEMMA Started ==
  ASSUME TypeInv, KidsWaitedFor, \A i \in Calls : at[i] = "ended",
         NEW u \in Loops, u.quitting => u.draining, StartStream(u)
  PROVE  SessionInv'
<1>1. /\ turns' = turns + 1 /\ cfg' = cfg /\ plan' \in BOOLEAN
      /\ active' = TRUE /\ cancelled' = FALSE
      /\ ch' = <<>> /\ approvals' = <<>>
      /\ stopping' = {} /\ syncJobs' = {} /\ yes' = {} /\ ran' = {}
      /\ shell' = shell /\ detached' = detached /\ kids' = kids
      /\ ui' = [u EXCEPT !.streaming = TRUE]
      /\ at' = [i \in Calls' |-> "idle"]
      /\ reply' = [i \in Calls' |-> "none"]
      /\ proc' = [i \in Calls' |-> "none"]
  BY DEF StartStream, Calls, Unstarted, subVars
<1>2. TypeInv'
  <2>1. \A S : <<>> \in Seq(S)
    OBVIOUS
  <2>2. ch' \in Seq(Items') /\ approvals' \in Seq({turns'} \X Calls')
    BY <1>1, <2>1
  <2>3. /\ at' \in [Calls' -> Steps] /\ reply' \in [Calls' -> {"none", "allow", "deny"}]
        /\ proc' \in [Calls' -> {"none", "up", "gone"}]
    BY <1>1 DEF Steps
  <2>4. ui' \in Loops
    BY <1>1 DEF Loops
  <2>5. turns' \in Nat /\ detached' \in BOOLEAN
    BY <1>1 DEF TypeInv
  <2> QED
    BY <1>1, <2>2, <2>3, <2>4, <2>5 DEF TypeInv, Steps, Loops
<1>3. Decided'
  BY <1>1 DEF Decided
<1>4. RunsAuthorised'
  BY <1>1 DEF RunsAuthorised
<1>5. Held'
  BY <1>1 DEF Held, Loops
<1>6. CommandsReachable'
  BY <1>1 DEF CommandsReachable, OwnReachable, KidsWaitedFor
<1>7. TurnAlive'
  BY <1>1 DEF TurnAlive, Loops
<1> QED
  BY <1>2, <1>3, <1>4, <1>5, <1>6, <1>7 DEF SessionInv

----------------------------------------------------------------------------
(* Steps: a turn starts, or the step stays inside the turn. *)

\* The terminal item with no message waiting.
DrainStays ==
  /\ LoopUp /\ NextItem.kind # "approval" /\ ui.draining
  /\ ui' = [ui EXCEPT !.streaming = FALSE, !.draining = FALSE, !.exited = ui.quitting]
  /\ ch' = Tail(ch)
  /\ UNCHANGED <<cfg, turnVars, subVars, active, cancelled, at, reply, approvals, procVars,
                 shell, yes, ran>>
TerminalStays ==
  /\ LoopUp /\ NextItem.kind # "approval" /\ ~ui.draining
  /\ ui' = [ui EXCEPT !.streaming = FALSE]
  /\ ch' = Tail(ch)
  /\ reply' = ClearApprovals
  /\ approvals' = <<>>
  /\ UNCHANGED <<cfg, turnVars, subVars, active, cancelled, at, procVars, shell, yes, ran>>

CallStep(i) == Advance(i) \/ SubagentCall(i) \/ InterruptOwner(i) \/ ProcessExit(i)
LoopStep ==
  \/ TakeApproval \/ DrainStays \/ TerminalStays
  \/ Stash \/ KeyYes \/ KeyNo \/ KeyCancelPrompt \/ KeyInterrupt \/ Quit
\* A sub-agent's command ends, or a background run goes on: nothing else sees it.
SubStep ==
  /\ \/ \E k \in kids : StopKid(k) \/ KidExit(k)
     \/ BackgroundCall \/ BackgroundEnds
  /\ UNCHANGED <<cfg, turns, plan, batch, active, cancelled, at, reply, ch, ui, approvals,
                 proc, stopping, syncJobs, shell, yes>>
Inside ==
  \/ \E i \in Calls : CallStep(i)
  \/ EndTurn \/ LoopStep \/ CloseShell \/ CloseReturns \/ SubStep

\* The loop starts a turn when the last one is over, and never while it quits.
Starts ==
  /\ ~ui.streaming \/ (LoopUp /\ NextItem.kind # "approval")
  /\ ~ui.exited
  /\ \E u \in Loops : (u.quitting => u.draining) /\ StartStream(u)

LEMMA StepKinds ==
  ASSUME TypeInv, Held, CallsNext
  PROVE  Starts \/ Inside
<1>1. CASE Send
  <2>1. ui \in Loops /\ (ui.quitting => ui.draining) /\ StartStream(ui)
        /\ ~ui.streaming /\ ~ui.exited
    BY <1>1 DEF Send, Held, TypeInv
  <2> QED
    BY <2>1 DEF Starts
<1>2. CASE TakeDrained
  <2> DEFINE idle == [ui EXCEPT !.streaming = FALSE, !.draining = FALSE]
             u == [idle EXCEPT !.pending = 0]
  <2>1. CASE ~ui.quitting /\ ui.pending = 1
    <3>1. u \in Loops /\ ~u.quitting
      BY <2>1 DEF TypeInv, Loops
    <3>2. StartStream(u) /\ LoopUp /\ NextItem.kind # "approval" /\ ~ui.exited
      BY <1>2, <2>1 DEF TakeDrained, LoopUp
    <3> HIDE DEF u
    <3> QED
      BY <3>1, <3>2 DEF Starts
  <2>2. CASE ~(~ui.quitting /\ ui.pending = 1)
    <3>1. [idle EXCEPT !.exited = ui.quitting]
            = [ui EXCEPT !.streaming = FALSE, !.draining = FALSE, !.exited = ui.quitting]
      BY DEF TypeInv, Loops
    <3>2. DrainStays
      BY <1>2, <2>2, <3>1 DEF TakeDrained, DrainStays
    <3> QED
      BY <3>2 DEF Inside, LoopStep
  <2> QED
    BY <2>1, <2>2
<1>3. CASE TakeTerminal
  <2> DEFINE idle == [ui EXCEPT !.streaming = FALSE]
             u == [idle EXCEPT !.pending = 0]
  <2>1. CASE NextItem.kind = "done" /\ ui.pending = 1
    <3>1. ~ui.exited /\ ~ui.draining
      BY <1>3 DEF TakeTerminal, LoopUp
    <3>2. u \in Loops /\ u.quitting = ui.quitting
      BY DEF TypeInv, Loops
    <3>3. ~u.quitting
      BY <3>1, <3>2 DEF Held
    <3>4. StartStream(u) /\ LoopUp /\ NextItem.kind # "approval"
      BY <1>3, <2>1 DEF TakeTerminal
    <3> HIDE DEF u
    <3> QED
      BY <3>1, <3>2, <3>3, <3>4 DEF Starts
  <2>2. CASE ~(NextItem.kind = "done" /\ ui.pending = 1)
    <3>1. TerminalStays
      BY <1>3, <2>2 DEF TakeTerminal, TerminalStays
    <3> QED
      BY <3>1 DEF Inside, LoopStep
  <2> QED
    BY <2>1, <2>2
<1>4. CASE (\E k \in kids : StopKid(k) \/ KidExit(k)) \/ BackgroundCall \/ BackgroundEnds
  <2>1. UNCHANGED <<cfg, turns, plan, batch, active, cancelled, at, reply, ch, ui, approvals,
                    proc, stopping, syncJobs, shell, yes>>
    BY <1>4 DEF StopKid, KidExit, BackgroundCall, BackgroundEnds, turnVars, uiVars, procVars
  <2> QED
    BY <1>4, <2>1 DEF SubStep, Inside
<1> QED
  BY <1>1, <1>2, <1>3, <1>4 DEF CallsNext, Pump, Keys, Inside, LoopStep, CallStep

LEMMA SameTurn ==
  ASSUME Inside
  PROVE  UNCHANGED <<cfg, turns, plan, batch>>
<1>1. ASSUME NEW i \in Calls, CallStep(i)
      PROVE  UNCHANGED <<cfg, turns, plan, batch>>
  BY <1>1 DEF CallStep, Advance, Dispatch, Ask, AwaitReply, Cross, Return, EnterShell,
     StartCommand, RegisterCommand, Monitor, CommandDone, SubagentCall, InterruptOwner,
     ProcessExit, turnVars
<1>2. CASE EndTurn \/ LoopStep \/ CloseShell \/ CloseReturns
  BY <1>2 DEF EndTurn, LoopStep, CloseShell, CloseReturns, TakeApproval, DrainStays,
     TerminalStays, Stash, KeyYes, KeyNo, KeyCancelPrompt, KeyInterrupt, Quit, turnVars
<1>3. CASE SubStep
  BY <1>3 DEF SubStep
<1> QED
  BY <1>1, <1>2, <1>3 DEF Inside

\* The next item of the channel, and the answer that goes to a call.
LEMMA NextIs ==
  ASSUME TypeInv, LoopUp
  PROVE  /\ NextItem \in Items /\ Tail(ch) \in Seq(Items)
         /\ NextItem.kind = "approval" => NextItem.call \in Calls
<1>1. ch \in Seq(Items) /\ ch # <<>>
  BY DEF TypeInv, LoopUp
<1>2. Head(ch) \in Items /\ Tail(ch) \in Seq(Items)
  BY <1>1
<1> QED
  BY <1>2 DEF NextItem, Items

Replies == {"none", "allow", "deny"}

LEMMA AnsweredIs ==
  ASSUME TypeInv, NEW j \in Calls, NEW policy \in {"allow", "deny"}
  PROVE  /\ Answered(reply, <<turns, j>>, policy) \in [Calls -> Replies]
         /\ Answered(reply, <<turns, j>>, policy)
              = IF reply[j] = "none" THEN [reply EXCEPT ![j] = policy] ELSE reply
BY DEF TypeInv, Answered, Replies

LEMMA ResolvedIs ==
  ASSUME TypeInv, Prompted, NEW policy \in {"allow", "deny"}, ResolveCurrent(policy)
  PROVE  \E j \in Calls :
           /\ Head(approvals) = <<turns, j>>
           /\ approvals' = Tail(approvals) /\ approvals' \in Seq({turns} \X Calls)
           /\ reply' \in [Calls -> Replies]
           /\ reply' = IF reply[j] = "none" THEN [reply EXCEPT ![j] = policy] ELSE reply
<1>1. approvals \in Seq({turns} \X Calls) /\ approvals # <<>>
  BY DEF TypeInv, Prompted
<1>2. Head(approvals) \in {turns} \X Calls /\ Tail(approvals) \in Seq({turns} \X Calls)
  BY <1>1
<1>3. PICK j \in Calls : Head(approvals) = <<turns, j>>
  BY <1>2
<1>4. reply' = Answered(reply, <<turns, j>>, policy) /\ approvals' = Tail(approvals)
  BY <1>3 DEF ResolveCurrent
<1>5. /\ reply' \in [Calls -> Replies]
      /\ reply' = IF reply[j] = "none" THEN [reply EXCEPT ![j] = policy] ELSE reply
  BY <1>4, AnsweredIs
<1>6. approvals' \in Seq({turns} \X Calls)
  BY <1>2, <1>4
<1> QED
  BY <1>3, <1>4, <1>5, <1>6

LEMMA ClearedIs ==
  ASSUME TypeInv
  PROVE  /\ ClearApprovals \in [Calls -> Replies]
         /\ \A i \in Calls : ClearApprovals[i] \in {reply[i], "deny"}
BY DEF TypeInv, ClearApprovals, Replies

\* Types are kept by every step inside a turn.
LEMMA TypeNext ==
  ASSUME TypeInv, Inside
  PROVE  TypeInv'
<1>1. /\ UNCHANGED <<cfg, turns, plan, batch>>
      /\ Calls' = Calls /\ Items' = Items
  BY SameTurn DEF Calls, Items
<1>2. ASSUME NEW i \in Calls, CallStep(i)
      PROVE  TypeInv'
  <2>1. CASE Dispatch(i)
    <3>1. \E s \in Steps : at' = [at EXCEPT ![i] = s]
      BY <2>1 DEF Dispatch, Becomes, Steps
    <3>2. at' \in [Calls -> Steps]
      BY <3>1 DEF TypeInv
    <3> QED
      BY <1>1, <2>1, <3>2 DEF Dispatch, TypeInv, turnVars, subVars, uiVars, procVars
  <2>2. CASE Ask(i)
    <3>1. [kind |-> "approval", call |-> i] \in Items
      BY DEF Items
    <3>2. ch' \in Seq(Items)
      <4>1. ch' = ch \/ ch' = Append(ch, [kind |-> "approval", call |-> i])
        BY <2>2 DEF Ask
      <4>2. ch \in Seq(Items)
        BY DEF TypeInv
      <4> QED
        BY <3>1, <4>1, <4>2
    <3>3. at' \in [Calls -> Steps]
      BY <2>2 DEF Ask, TypeInv, Becomes, Steps
    <3> QED
      BY <1>1, <2>2, <3>2, <3>3 DEF Ask, TypeInv, turnVars, subVars, uiVars, procVars
  <2>3. CASE AwaitReply(i)
    BY <1>1, <2>3
       DEF AwaitReply, TypeInv, Becomes, Steps, turnVars, subVars, uiVars, procVars
  <2>4. CASE Cross(i)
    BY <1>1, <2>4 DEF Cross, TypeInv, Becomes, Steps, turnVars, subVars, uiVars, procVars
  <2>5. CASE Return(i)
    <3>1. at' \in [Calls -> Steps] /\ detached' \in BOOLEAN
      BY <2>5 DEF Return, TypeInv, Becomes, Steps
    <3>2. \A k \in kids' : k = [turn |-> k.turn, call |-> k.call, state |-> k.state]
      BY <2>5 DEF Return, TypeInv
    <3> QED
      BY <1>1, <2>5, <3>1, <3>2 DEF Return, TypeInv, turnVars, uiVars, procVars
  <2>6. CASE EnterShell(i)
    BY <1>1, <2>6
       DEF EnterShell, TypeInv, Becomes, Steps, turnVars, subVars, uiVars, procVars
  <2>7. CASE StartCommand(i)
    BY <1>1, <2>7
       DEF StartCommand, TypeInv, Becomes, Steps, turnVars, subVars, uiVars, procVars
  <2>8. CASE RegisterCommand(i)
    BY <1>1, <2>8
       DEF RegisterCommand, TypeInv, Becomes, Steps, turnVars, subVars, uiVars, procVars
  <2>9. CASE Monitor(i)
    BY <1>1, <2>9 DEF Monitor, TypeInv, turnVars, subVars, uiVars, procVars
  <2>10. CASE CommandDone(i)
    BY <1>1, <2>10
       DEF CommandDone, TypeInv, Becomes, Steps, turnVars, subVars, uiVars, procVars
  <2>11. CASE SubagentCall(i)
    <3>1. PICK call \in SubagentCalls : kids' = kids \cup Spawned(turns, i, call)
      BY <2>11 DEF SubagentCall
    <3>2. \A k \in kids' : k = [turn |-> k.turn, call |-> k.call, state |-> k.state]
      BY <3>1 DEF Spawned, TypeInv
    <3> QED
      BY <1>1, <2>11, <3>2 DEF SubagentCall, TypeInv, turnVars, uiVars, procVars
  <2>12. CASE InterruptOwner(i)
    BY <1>1, <2>12 DEF InterruptOwner, TypeInv, turnVars, subVars, uiVars, procVars
  <2>13. CASE ProcessExit(i)
    BY <1>1, <2>13 DEF ProcessExit, TypeInv, turnVars, subVars, uiVars, procVars
  <2> QED
    BY <1>2, <2>1, <2>2, <2>3, <2>4, <2>5, <2>6, <2>7, <2>8, <2>9, <2>10, <2>11, <2>12,
       <2>13
       DEF CallStep, Advance
<1>3. CASE EndTurn
  <2>1. PICK k \in {"done", "err"} : ch' = Append(ch, [kind |-> k])
    BY <1>3 DEF EndTurn
  <2>2. [kind |-> k] \in Items
    BY DEF Items
  <2>3. ch' \in Seq(Items)
    BY <2>1, <2>2 DEF TypeInv
  <2> QED
    BY <1>1, <1>3, <2>3 DEF EndTurn, TypeInv, turnVars, subVars, uiVars, procVars
<1>4. CASE TakeApproval
  <2> DEFINE j == NextItem.call
  <2>1. j \in Calls /\ ch' \in Seq(Items)
    BY <1>4, NextIs DEF TakeApproval
  <2>2. reply' \in [Calls -> Replies]
    BY <1>4, <2>1, AnsweredIs DEF TakeApproval, TypeInv, Replies
  <2>3. approvals' \in Seq({turns} \X Calls)
    <3>1. <<turns, j>> \in {turns} \X Calls
      BY <2>1
    <3>2. approvals' = approvals \/ approvals' = Append(approvals, <<turns, j>>)
      BY <1>4 DEF TakeApproval
    <3>3. approvals \in Seq({turns} \X Calls)
      BY DEF TypeInv
    <3> HIDE DEF j
    <3>4. Append(approvals, <<turns, j>>) \in Seq({turns} \X Calls)
      BY <3>1, <3>3
    <3> QED
      BY <3>2, <3>3, <3>4
  <2> QED
    BY <1>1, <1>4, <2>1, <2>2, <2>3
       DEF TakeApproval, TypeInv, Replies, turnVars, subVars, procVars
<1>5. CASE DrainStays
  <2>1. ch' \in Seq(Items)
    BY <1>5, NextIs DEF DrainStays
  <2>2. ui' \in Loops
    BY <1>5 DEF DrainStays, TypeInv, Loops
  <2> QED
    BY <1>1, <1>5, <2>1, <2>2 DEF DrainStays, TypeInv, turnVars, subVars, procVars
<1>6. CASE TerminalStays
  <2>1. ch' \in Seq(Items)
    BY <1>6, NextIs DEF TerminalStays
  <2>2. ui' \in Loops
    BY <1>6 DEF TerminalStays, TypeInv, Loops
  <2>3. reply' \in [Calls -> Replies]
    BY <1>6, ClearedIs DEF TerminalStays
  <2>4. approvals' \in Seq({turns} \X Calls)
    BY <1>6 DEF TerminalStays
  <2> QED
    BY <1>1, <1>6, <2>1, <2>2, <2>3, <2>4
       DEF TerminalStays, TypeInv, Replies, turnVars, subVars,
       procVars
<1>7. CASE Stash
  BY <1>1, <1>7 DEF Stash, TypeInv, turnVars, subVars, procVars, Loops
<1>8. CASE KeyYes
  <2>1. PICK j \in Calls :
          /\ Head(approvals) = <<turns, j>>
          /\ approvals' \in Seq({turns} \X Calls)
          /\ reply' \in [Calls -> Replies]
    BY <1>8, ResolvedIs DEF KeyYes
  <2>2. yes' \subseteq Calls
    BY <1>8, <2>1 DEF KeyYes, TypeInv
  <2> QED
    BY <1>1, <1>8, <2>1, <2>2 DEF KeyYes, TypeInv, Replies, turnVars, subVars, procVars
<1>9. CASE KeyNo
  <2>1. PICK j \in Calls :
          /\ Head(approvals) = <<turns, j>>
          /\ approvals' \in Seq({turns} \X Calls)
          /\ reply' \in [Calls -> Replies]
    BY <1>9, ResolvedIs DEF KeyNo
  <2> QED
    BY <1>1, <1>9, <2>1 DEF KeyNo, TypeInv, Replies, turnVars, subVars, procVars
<1>10. CASE KeyCancelPrompt
  <2>1. PICK j \in Calls :
          /\ Head(approvals) = <<turns, j>>
          /\ approvals' \in Seq({turns} \X Calls)
          /\ reply' \in [Calls -> Replies]
    BY <1>10, ResolvedIs DEF KeyCancelPrompt
  <2>2. ui' \in Loops /\ cancelled' \in BOOLEAN
    BY <1>10 DEF KeyCancelPrompt, TypeInv, Loops
  <2> QED
    BY <1>1, <1>10, <2>1, <2>2
       DEF KeyCancelPrompt, TypeInv, Replies, turnVars, subVars, procVars
<1>11. CASE KeyInterrupt
  BY <1>1, <1>11 DEF KeyInterrupt, TypeInv, turnVars, subVars, procVars, Loops
<1>12. CASE Quit
  BY <1>1, <1>12 DEF Quit, TypeInv, turnVars, subVars, procVars, Loops
<1>13. CASE CloseShell
  BY <1>1, <1>13 DEF CloseShell, TypeInv, turnVars, subVars, uiVars, procVars
<1>14. CASE CloseReturns
  BY <1>1, <1>14 DEF CloseReturns, TypeInv, turnVars, subVars, uiVars, procVars
<1>15. CASE SubStep
  <2>1. \A k \in kids' : k = [turn |-> k.turn, call |-> k.call, state |-> k.state]
    <3>1. CASE \E k \in kids : StopKid(k) \/ KidExit(k)
      BY <3>1 DEF StopKid, KidExit, TypeInv
    <3>2. CASE BackgroundCall
      <4>1. PICK call \in SubagentCalls : kids' = kids \cup Spawned(0, 0, call)
        BY <3>2 DEF BackgroundCall
      <4> QED
        BY <4>1 DEF Spawned, TypeInv
    <3>3. CASE BackgroundEnds
      BY <3>3 DEF BackgroundEnds, TypeInv
    <3> QED
      BY <1>15, <3>1, <3>2, <3>3 DEF SubStep
  <2>2. detached' \in BOOLEAN
    BY <1>15 DEF SubStep, StopKid, KidExit, BackgroundCall, BackgroundEnds, TypeInv
  <2> QED
    BY <1>1, <1>15, <2>1, <2>2 DEF SubStep, TypeInv
<1> QED
  BY <1>2, <1>3, <1>4, <1>5, <1>6, <1>7, <1>8, <1>9, <1>10, <1>11, <1>12, <1>13, <1>14, <1>15
     DEF Inside, LoopStep

----------------------------------------------------------------------------
(* The verdict on its way to the tool *)

\* A step that gives no answer but the user's and moves no call on against its verdict.
LEMMA DecidedStays ==
  ASSUME Decided, UNCHANGED <<cfg, plan, batch>>, yes \subseteq yes',
         \A j \in Calls : reply'[j] = "allow" => reply[j] = "allow" \/ j \in yes',
         \A j \in Calls :
           \/ at'[j] = at[j]
           \/ /\ at'[j] \in {"asking", "waiting"} => OwnVerdict(j) = "prompt"
              /\ at'[j] = "cleared" =>
                   OwnVerdict(j) = "allow" \/ (OwnVerdict(j) = "prompt" /\ j \in yes)
  PROVE  Decided'
<1>1. Calls' = Calls /\ \A j \in Calls : OwnVerdict(j)' = OwnVerdict(j)
  BY DEF Calls, OwnVerdict
<1> QED
  BY <1>1 DEF Decided

LEMMA DecidedNext ==
  ASSUME TypeInv, Decided, Inside
  PROVE  Decided'
<1>1. UNCHANGED <<cfg, turns, plan, batch>>
  BY SameTurn
<1>2. ASSUME NEW i \in Calls, CallStep(i)
      PROVE  Decided'
  <2>1. CASE Dispatch(i)
    <3> DEFINE told == OwnVerdict(i)
    <3>1. told \in Policies \cup {"refused"}
      BY VerdictRange DEF OwnVerdict, TypeInv
    <3>2. PICK s \in Steps :
            /\ at' = [at EXCEPT ![i] = s]
            /\ s # "waiting"
            /\ s = "asking" => told = "prompt"
            /\ s = "cleared" => told = "allow"
      <4>1. at' = [at EXCEPT ![i] = IF cancelled \/ told \in {"refused", "deny"} THEN "ended"
                                    ELSE IF told = "prompt" THEN "asking" ELSE "cleared"]
        BY <2>1 DEF Dispatch, Becomes, OwnVerdict
      <4> HIDE DEF told
      <4> QED
        BY <3>1, <4>1 DEF Policies, Steps
    <3> HIDE DEF told
    <3>3. UNCHANGED <<reply, yes>>
      BY <2>1 DEF Dispatch
    <3>4. \A j \in Calls :
            \/ at'[j] = at[j]
            \/ /\ at'[j] \in {"asking", "waiting"} => (j = i /\ told = "prompt")
               /\ at'[j] = "cleared" => (j = i /\ told = "allow")
      <4>1. at \in [Calls -> Steps]
        BY DEF TypeInv
      <4> QED
        BY <3>2, <4>1
    <3> QED
      BY <1>1, <3>3, <3>4, DecidedStays DEF told
  <2>2. CASE Ask(i)
    BY <1>1, <2>2, DecidedStays DEF Ask, Becomes, TypeInv, Decided
  <2>3. CASE AwaitReply(i)
    BY <1>1, <2>3, DecidedStays DEF AwaitReply, Becomes, TypeInv, Decided
  <2>4. CASE Cross(i) \/ Return(i) \/ EnterShell(i) \/ StartCommand(i) \/ RegisterCommand(i)
           \/ Monitor(i) \/ CommandDone(i) \/ SubagentCall(i) \/ InterruptOwner(i) \/
           ProcessExit(i)
    <3>1. UNCHANGED <<reply, yes>>
      BY <2>4
         DEF Cross, Return, EnterShell, StartCommand, RegisterCommand, Monitor,
             CommandDone, SubagentCall, InterruptOwner, ProcessExit
    <3>2. \A j \in Calls : at'[j] = at[j] \/ at'[j] \notin {"asking", "waiting", "cleared"}
      BY <2>4
         DEF Cross, Return, EnterShell, StartCommand, RegisterCommand, Monitor,
             CommandDone, SubagentCall, InterruptOwner, ProcessExit, Becomes, TypeInv
    <3> QED
      BY <1>1, <3>1, <3>2, DecidedStays
  <2> QED
    BY <1>2, <2>1, <2>2, <2>3, <2>4 DEF CallStep, Advance
<1>3. CASE EndTurn \/ CloseShell \/ CloseReturns
  BY <1>1, <1>3, DecidedStays DEF EndTurn, CloseShell, CloseReturns, procVars
<1>4. CASE TakeApproval
  <2>1. reply' = reply \/ reply' = Answered(reply, <<turns, NextItem.call>>, "deny")
    BY <1>4 DEF TakeApproval
  <2>2. \A j \in Calls : reply'[j] = "allow" => reply[j] = "allow"
    <3> DEFINE k == NextItem.call
               answered == Answered(reply, <<turns, k>>, "deny")
    <3>1. k \in Calls
      BY <1>4, NextIs DEF TakeApproval
    <3>2. answered = IF reply[k] = "none" THEN [reply EXCEPT ![k] = "deny"] ELSE reply
      BY <3>1, AnsweredIs
    <3>3. reply \in [Calls -> Replies]
      BY DEF TypeInv, Replies
    <3>4. reply' = reply \/ reply' = answered
      BY <2>1
    <3> HIDE DEF k, answered
    <3> QED
      BY <3>1, <3>2, <3>3, <3>4
  <2> QED
    BY <1>1, <1>4, <2>2, DecidedStays DEF TakeApproval
<1>5. CASE TerminalStays
  BY <1>1, <1>5, ClearedIs, DecidedStays DEF TerminalStays
<1>6. CASE KeyYes
  <2>1. PICK j \in Calls :
          /\ Head(approvals) = <<turns, j>>
          /\ reply' = IF reply[j] = "none" THEN [reply EXCEPT ![j] = "allow"] ELSE reply
    BY <1>6, ResolvedIs DEF KeyYes
  <2>2. yes' = yes \cup {j} /\ at' = at
    BY <1>6, <2>1 DEF KeyYes
  <2> QED
    BY <1>1, <2>1, <2>2, DecidedStays DEF TypeInv
<1>7. CASE KeyNo \/ KeyCancelPrompt
  <2>1. PICK j \in Calls :
          reply' = IF reply[j] = "none" THEN [reply EXCEPT ![j] = "deny"] ELSE reply
    BY <1>7, ResolvedIs DEF KeyNo, KeyCancelPrompt
  <2>2. yes' = yes /\ at' = at
    BY <1>7 DEF KeyNo, KeyCancelPrompt
  <2> QED
    BY <1>1, <2>1, <2>2, DecidedStays DEF TypeInv
<1>8. CASE DrainStays \/ Stash \/ KeyInterrupt \/ Quit \/ SubStep
  BY <1>1, <1>8, DecidedStays DEF DrainStays, Stash, KeyInterrupt, Quit, SubStep
<1> QED
  BY <1>2, <1>3, <1>4, <1>5, <1>6, <1>7, <1>8 DEF Inside, LoopStep

\* What was allowed to run stays so: rules and mode are those of the turn, and a yes is
\* not taken back.
LEMMA AuthorisedStays ==
  ASSUME NEW r, Authorised(r), UNCHANGED <<cfg, plan>>, yes \subseteq yes'
  PROVE  Authorised(r)'
<1>1. RuleFor(r)' = RuleFor(r)
  BY DEF RuleFor
<1> QED
  BY <1>1 DEF Authorised

LEMMA AuthorisedNext ==
  ASSUME TypeInv, Decided, RunsAuthorised, Inside
  PROVE  RunsAuthorised'
<1>1. UNCHANGED <<cfg, plan>> /\ \A r \in ran : Authorised(r)
  BY SameTurn, RunsAre
<1>2. SUFFICES ASSUME TRUE
               PROVE  yes \subseteq yes' /\ \A r \in ran' : r \in ran \/ Authorised(r)
  <2>1. \A r \in ran' : Authorised(r)'
    BY <1>1, <1>2, AuthorisedStays
  <2> QED
    BY <2>1 DEF RunsAuthorised, Authorised
<1>3. CASE \E i \in Calls : Cross(i)
  <2>1. PICK i \in Calls : Cross(i)
    BY <1>3
  <2> DEFINE r == [call |-> i, tool |-> batch[i].tool, args |-> batch[i].args, by |-> "turn"]
  <2>2. yes' = yes /\ (ran' = ran \/ ran' = ran \cup {r})
    BY <2>1 DEF Cross, Log
  <2>3. OwnVerdict(i) = "allow" \/ (OwnVerdict(i) = "prompt" /\ i \in yes)
    BY <2>1 DEF Cross, Decided
  <2>4. Authorised(r)
    BY <2>3, OwnAuthorised
  <2> HIDE DEF r
  <2> QED
    BY <2>2, <2>4
<1>4. CASE \E i \in Calls : SubagentCall(i)
  <2>1. PICK i \in Calls : SubagentCall(i)
    BY <1>4
  <2>2. PICK call \in SubagentCalls :
          /\ Verdict(call, SubagentConfig(cfg), plan, TRUE) = "allow"
          /\ Log(i, call, "sub")
    BY <2>1 DEF SubagentCall
  <2> DEFINE r == [call |-> i, tool |-> call.tool, args |-> call.args, by |-> "sub"]
  <2>3. yes' = yes /\ ran' = ran \cup {r}
    BY <2>1, <2>2 DEF SubagentCall, Log
  <2>4. Authorised(r)
    <3>1. plan \in BOOLEAN
      BY DEF TypeInv
    <3> QED
      BY <2>2, <3>1, SubagentAuthorised
  <2> HIDE DEF r
  <2> QED
    BY <2>3, <2>4
<1>5. ASSUME NEW i \in Calls, CallStep(i), ~Cross(i), ~SubagentCall(i)
      PROVE  yes' = yes /\ ran' = ran
  BY <1>5
     DEF CallStep, Advance, Dispatch, Ask, AwaitReply, Return, EnterShell, StartCommand,
     RegisterCommand, Monitor, CommandDone, InterruptOwner, ProcessExit
<1>6. CASE EndTurn \/ LoopStep \/ CloseShell \/ CloseReturns
  BY <1>6 DEF EndTurn, LoopStep, CloseShell, CloseReturns, TakeApproval, DrainStays,
     TerminalStays, Stash, KeyYes, KeyNo, KeyCancelPrompt, KeyInterrupt, Quit
<1>7. CASE BackgroundCall
  <2>1. PICK call \in SubagentCalls :
          /\ Verdict(call, SubagentConfig(cfg), FALSE, TRUE) = "allow"
          /\ Log(0, call, "background")
    BY <1>7 DEF BackgroundCall
  <2> DEFINE r == [call |-> 0, tool |-> call.tool, args |-> call.args, by |-> "background"]
  <2>2. yes' = yes /\ ran' = ran \cup {r}
    BY <1>7, <2>1 DEF BackgroundCall, Log
  <2>3. Authorised(r)
    BY <2>1, SubagentAuthorised
  <2> HIDE DEF r
  <2> QED
    BY <2>2, <2>3
<1>8. CASE SubStep /\ ~BackgroundCall
  BY <1>8 DEF SubStep, StopKid, KidExit, BackgroundEnds
<1> QED
  BY <1>3, <1>4, <1>5, <1>6, <1>7, <1>8 DEF Inside

----------------------------------------------------------------------------
(* The prompts and the loop *)

LEMMA HeldNext ==
  ASSUME TypeInv, Held, Inside
  PROVE  Held'
<1>1. ASSUME NEW i \in Calls, CallStep(i)
      PROVE  UNCHANGED <<ui, approvals>>
  BY <1>1 DEF CallStep, Advance, Dispatch, Ask, AwaitReply, Cross, Return, EnterShell,
     StartCommand, RegisterCommand, Monitor, CommandDone, SubagentCall, InterruptOwner,
     ProcessExit, uiVars
<1>2. CASE EndTurn \/ CloseShell \/ CloseReturns \/ SubStep
  BY <1>2 DEF EndTurn, CloseShell, CloseReturns, SubStep, uiVars, Held
<1>3. CASE TakeApproval
  <2>1. ui' = ui /\ ui.streaming /\ (ui.draining => approvals' = approvals)
    BY <1>3 DEF TakeApproval, LoopUp
  <2> QED
    BY <2>1 DEF Held, TypeInv, Loops
<1>4. CASE DrainStays
  <2>1. /\ ~ui'.streaming /\ ~ui'.draining
        /\ ui'.exited = ui.quitting /\ ui'.quitting = ui.quitting
    BY <1>4 DEF DrainStays, TypeInv, Loops
  <2>2. approvals' = approvals /\ ~ui.exited /\ ui.draining
    BY <1>4 DEF DrainStays, LoopUp
  <2> QED
    BY <2>1, <2>2 DEF Held
<1>5. CASE TerminalStays
  <2>1. /\ ~ui'.draining /\ ui'.quitting = ui.quitting /\ ~ui.exited /\ ~ui.draining
        /\ approvals' = <<>>
    BY <1>5 DEF TerminalStays, LoopUp, TypeInv, Loops
  <2> QED
    BY <2>1 DEF Held
<1>6. CASE KeyYes \/ KeyNo \/ KeyCancelPrompt
  <2>1. approvals # <<>> /\ ~ui.exited
    BY <1>6 DEF KeyYes, KeyNo, KeyCancelPrompt, Prompted
  <2>2. ui.streaming /\ ~(ui.draining /\ ~ui.quitting) /\ (ui.quitting => ui.draining)
    BY <2>1 DEF Held
  <2>3. ui' = ui \/ ui' = [ui EXCEPT !.quitting = TRUE, !.draining = TRUE]
    BY <1>6 DEF KeyYes, KeyNo, KeyCancelPrompt
  <2> QED
    BY <2>1, <2>2, <2>3 DEF Held, TypeInv, Loops
<1>7. CASE Stash \/ KeyInterrupt
  <2>1. approvals' = <<>> /\ ui.streaming /\ ~ui.exited
    BY <1>7 DEF Stash, KeyInterrupt
  <2>2. /\ ui'.streaming = ui.streaming
        /\ (ui.quitting => ui.draining) => (ui'.quitting => ui'.draining)
    BY <1>7 DEF Stash, KeyInterrupt, TypeInv, Loops
  <2> QED
    BY <2>1, <2>2 DEF Held
<1>8. CASE Quit
  BY <1>8 DEF Quit, Held, TypeInv, Loops
<1> QED
  <2>1. ASSUME UNCHANGED <<ui, approvals>>
        PROVE  Held'
    BY <2>1 DEF Held
  <2> QED
    BY <1>1, <1>2, <1>3, <1>4, <1>5, <1>6, <1>7, <1>8, <2>1 DEF Inside, LoopStep

----------------------------------------------------------------------------
(* Commands and the table of the shell *)

LEMMA OwnNext ==
  ASSUME TypeInv, OwnReachable, Inside
  PROVE  OwnReachable'
<1>1. Calls' = Calls
  BY SameTurn DEF Calls
<1>2. ASSUME NEW i \in Calls, CallStep(i)
      PROVE  OwnReachable'
  <2>1. CASE Dispatch(i) \/ Ask(i) \/ AwaitReply(i) \/ Cross(i) \/ Return(i) \/
           EnterShell(i) \/ SubagentCall(i)
    <3>1. UNCHANGED <<proc, stopping, syncJobs, shell>>
      BY <2>1 DEF Dispatch, Ask, AwaitReply, Cross, Return, EnterShell, SubagentCall,
         procVars
    <3>2. \A j \in Calls : at[j] = "registering" => at'[j] = "registering"
      BY <2>1 DEF Dispatch, Ask, AwaitReply, Cross, Return, EnterShell, SubagentCall,
         Becomes, TypeInv, MayStart
    <3> QED
      BY <1>1, <3>1, <3>2 DEF OwnReachable
  <2>2. CASE StartCommand(i)
    BY <1>1, <2>2 DEF StartCommand, OwnReachable, TypeInv, Becomes
  <2>3. CASE RegisterCommand(i)
    BY <1>1, <2>3 DEF RegisterCommand, OwnReachable, TypeInv, Becomes
  <2>4. CASE Monitor(i)
    BY <1>1, <2>4 DEF Monitor, OwnReachable, TypeInv, Becomes
  <2>5. CASE CommandDone(i)
    BY <1>1, <2>5 DEF CommandDone, OwnReachable, TypeInv, Becomes
  <2>6. CASE InterruptOwner(i)
    BY <1>1, <2>6 DEF InterruptOwner, OwnReachable, TypeInv, Becomes
  <2>7. CASE ProcessExit(i)
    BY <1>1, <2>7 DEF ProcessExit, OwnReachable, TypeInv, Becomes
  <2> QED
    BY <1>2, <2>1, <2>2, <2>3, <2>4, <2>5, <2>6, <2>7 DEF CallStep, Advance
<1>3. CASE EndTurn \/ LoopStep
  <2>1. UNCHANGED <<at, proc, stopping, syncJobs, shell>>
    BY <1>3 DEF EndTurn, LoopStep, TakeApproval, DrainStays, TerminalStays, Stash, KeyYes,
       KeyNo, KeyCancelPrompt, KeyInterrupt, Quit, procVars
  <2> QED
    BY <1>1, <2>1 DEF OwnReachable
<1>4. CASE CloseShell
  BY <1>1, <1>4 DEF CloseShell, OwnReachable
<1>5. CASE CloseReturns
  BY <1>1, <1>5 DEF CloseReturns, OwnReachable, procVars
<1>6. CASE SubStep
  BY <1>1, <1>6 DEF SubStep, OwnReachable
<1> QED
  BY <1>2, <1>3, <1>4, <1>5, <1>6 DEF Inside

\* A call that others wait for goes on running; one that returns takes none with it that
\* is still held.
LEMMA KidsNext ==
  ASSUME TypeInv, KidsWaitedFor, Inside
  PROVE  KidsWaitedFor'
<1>1. Calls' = Calls /\ turns' = turns
  BY SameTurn DEF Calls
<1>2. ASSUME kids' \subseteq kids,
             \A j \in Calls : at[j] = "running" => at'[j] = "running"
      PROVE  KidsWaitedFor'
  BY <1>1, <1>2 DEF KidsWaitedFor
<1>3. ASSUME NEW i \in Calls, CallStep(i), ~Return(i), ~SubagentCall(i)
      PROVE  KidsWaitedFor'
  <2>1. kids' = kids
    BY <1>3 DEF CallStep, Advance, Dispatch, Ask, AwaitReply, Cross, EnterShell, StartCommand,
       RegisterCommand, Monitor, CommandDone, InterruptOwner, ProcessExit, subVars
  <2>2. \A j \in Calls : at[j] = "running" => at'[j] = "running"
    BY <1>3 DEF CallStep, Advance, Dispatch, Ask, AwaitReply, Cross, EnterShell, StartCommand,
       RegisterCommand, Monitor, CommandDone, InterruptOwner, ProcessExit, MayStart, Becomes,
       TypeInv
  <2> QED
    BY <1>2, <2>1, <2>2
<1>4. ASSUME NEW i \in Calls, Return(i)
      PROVE  KidsWaitedFor'
  <2> SUFFICES ASSUME NEW k \in kids', k.call # 0, k.state = "held"
               PROVE  k.turn = turns /\ k.call \in Calls /\ at'[k.call] = "running"
    BY <1>1 DEF KidsWaitedFor
  <2>1. PICK l \in kids :
          k = [l EXCEPT !.state = IF l \in KidsOf(turns, i) /\ @ = "held" THEN "left" ELSE @]
    BY <1>4 DEF Return
  <2>2. l = [turn |-> l.turn, call |-> l.call, state |-> l.state]
    BY DEF TypeInv
  <2>3. l \notin KidsOf(turns, i) /\ l.state = "held" /\ l.call = k.call /\ l.turn = k.turn
    BY <2>1, <2>2
  <2>4. l.turn = turns /\ l.call \in Calls /\ at[l.call] = "running" /\ l.call # i
    BY <2>3 DEF KidsWaitedFor, KidsOf
  <2> QED
    BY <1>4, <2>3, <2>4 DEF Return, Becomes, TypeInv
<1>5. ASSUME NEW i \in Calls, SubagentCall(i)
      PROVE  KidsWaitedFor'
  <2>1. PICK call \in SubagentCalls : kids' = kids \cup Spawned(turns, i, call)
    BY <1>5 DEF SubagentCall
  <2>2. at' = at /\ at[i] = "running"
    BY <1>5 DEF SubagentCall
  <2>3. \A k \in Spawned(turns, i, call) : k.turn = turns /\ k.call = i
    BY DEF Spawned
  <2> QED
    BY <1>1, <2>1, <2>2, <2>3 DEF KidsWaitedFor
<1>6. CASE EndTurn \/ LoopStep \/ CloseShell \/ CloseReturns
  <2>1. UNCHANGED <<kids, at>>
    BY <1>6 DEF EndTurn, LoopStep, CloseShell, CloseReturns, TakeApproval, DrainStays,
       TerminalStays, Stash, KeyYes, KeyNo, KeyCancelPrompt, KeyInterrupt, Quit, subVars
  <2> QED
    BY <1>2, <2>1
<1>7. CASE SubStep
  <2>1. at' = at
    BY <1>7 DEF SubStep
  <2>2. \A k \in kids' : k \in kids \/ k.state = "told" \/ k.call = 0
    <3>1. ASSUME NEW k \in kids, StopKid(k)
          PROVE  \A l \in kids' : l \in kids \/ l.state = "told"
      <4>1. [k EXCEPT !.state = "told"].state = "told"
        BY DEF TypeInv
      <4> QED
        BY <3>1, <4>1 DEF StopKid
    <3>2. CASE BackgroundCall
      BY <3>2 DEF BackgroundCall, Spawned
    <3>3. CASE BackgroundEnds \/ \E k \in kids : KidExit(k)
      BY <3>3 DEF BackgroundEnds, KidExit
    <3> QED
      BY <1>7, <3>1, <3>2, <3>3 DEF SubStep
  <2> QED
    BY <1>1, <2>1, <2>2 DEF KidsWaitedFor
<1> QED
  BY <1>3, <1>4, <1>5, <1>6, <1>7 DEF Inside

----------------------------------------------------------------------------
(* The goroutine of the turn and its calls *)

LEMMA AliveNext ==
  ASSUME TypeInv, TurnAlive, Inside
  PROVE  TurnAlive'
<1>1. Calls' = Calls
  BY SameTurn DEF Calls
<1>2. ASSUME NEW i \in Calls, CallStep(i)
      PROVE  TurnAlive'
  <2>1. active' = active /\ ui' = ui
    BY <1>2 DEF CallStep, Advance, Dispatch, Ask, AwaitReply, Cross, Return, EnterShell,
       StartCommand, RegisterCommand, Monitor, CommandDone, SubagentCall, InterruptOwner,
       ProcessExit, uiVars
  <2>2. active => \A k \in DOMAIN ch' : ch'[k].kind = "approval"
    <3>1. CASE ch' = ch
      BY <3>1 DEF TurnAlive
    <3>2. CASE ch' = Append(ch, [kind |-> "approval", call |-> i])
      <4>1. ch \in Seq(Items) /\ (active => \A k \in DOMAIN ch : ch[k].kind = "approval")
        BY DEF TypeInv, TurnAlive
      <4> QED
        BY <3>2, <4>1
    <3>3. ch' = ch \/ ch' = Append(ch, [kind |-> "approval", call |-> i])
      BY <1>2 DEF CallStep, Advance, Dispatch, Ask, AwaitReply, Cross, Return, EnterShell,
         StartCommand, RegisterCommand, Monitor, CommandDone, SubagentCall, InterruptOwner,
         ProcessExit
    <3> QED
      BY <3>1, <3>2, <3>3
  <2>3. ~active => UNCHANGED at
    <3>1. ~active => at[i] = "ended"
      BY DEF TurnAlive
    <3> QED
      BY <1>2, <3>1
         DEF CallStep, Advance, MayStart, Dispatch, Ask, AwaitReply, Cross, Return,
             EnterShell,
         StartCommand, RegisterCommand, Monitor, CommandDone, SubagentCall, InterruptOwner,
         ProcessExit
  <2>4. \A j \in Calls : proc'[j] = "up" => at'[j] \in {"registering", "commanding", "orphaned"}
    <3>1. CASE StartCommand(i)
      BY <3>1 DEF StartCommand, TurnAlive, TypeInv, Becomes
    <3>2. CASE RegisterCommand(i)
      BY <3>2 DEF RegisterCommand, TurnAlive, TypeInv, Becomes
    <3>3. CASE CommandDone(i)
      BY <3>3 DEF CommandDone, TurnAlive, TypeInv, Becomes
    <3>4. CASE ProcessExit(i)
      BY <3>4 DEF ProcessExit, TurnAlive, TypeInv, Becomes
    <3>5. CASE Dispatch(i) \/ Ask(i) \/ AwaitReply(i) \/ Cross(i) \/ Return(i) \/
             EnterShell(i) \/ Monitor(i) \/ SubagentCall(i) \/ InterruptOwner(i)
      <4>1. proc' = proc
        BY <3>5 DEF Dispatch, Ask, AwaitReply, Cross, Return, EnterShell, Monitor,
           SubagentCall, InterruptOwner, procVars
      <4>2. \A j \in Calls : at[j] \in {"registering", "commanding", "orphaned"} => at'[j] = at[j]
        BY <3>5 DEF Dispatch, Ask, AwaitReply, Cross, Return, EnterShell, Monitor,
           SubagentCall, InterruptOwner, Becomes, TypeInv, MayStart
      <4> QED
        BY <4>1, <4>2 DEF TurnAlive
    <3> QED
      BY <1>2, <3>1, <3>2, <3>3, <3>4, <3>5 DEF CallStep, Advance
  <2> QED
    BY <1>1, <2>1, <2>2, <2>3, <2>4 DEF TurnAlive
<1>3. CASE EndTurn
  BY <1>1, <1>3 DEF EndTurn, TurnAlive, uiVars, procVars, TypeInv
<1>4. CASE CloseShell \/ CloseReturns \/ SubStep
  BY <1>1, <1>4 DEF CloseShell, CloseReturns, SubStep, TurnAlive, uiVars, procVars
<1>5. CASE LoopStep
  <2>1. UNCHANGED <<active, at, proc>>
    BY <1>5 DEF LoopStep, TakeApproval, DrainStays, TerminalStays, Stash, KeyYes, KeyNo,
       KeyCancelPrompt, KeyInterrupt, Quit, procVars
  <2>2. active => ui'.streaming /\ \A k \in DOMAIN ch' : ch'[k].kind = "approval"
    <3>1. CASE TakeApproval
      <4>1. ui' = ui /\ ch' = Tail(ch) /\ ch # <<>>
        BY <3>1 DEF TakeApproval, LoopUp
      <4>2. ch \in Seq(Items)
        BY DEF TypeInv
      <4>3. active => ui.streaming /\ \A k \in DOMAIN ch : ch[k].kind = "approval"
        BY DEF TurnAlive
      <4>4. \A k \in DOMAIN Tail(ch) : k + 1 \in DOMAIN ch /\ Tail(ch)[k] = ch[k + 1]
        BY <4>1, <4>2
      <4> QED
        BY <4>1, <4>3, <4>4
    <3>2. CASE DrainStays \/ TerminalStays
      <4>1. ch # <<>> /\ Head(ch).kind # "approval"
        BY <3>2 DEF DrainStays, TerminalStays, LoopUp, NextItem
      <4>2. 1 \in DOMAIN ch /\ Head(ch) = ch[1]
        BY <4>1 DEF TypeInv
      <4> QED
        BY <4>1, <4>2 DEF TurnAlive
    <3>3. CASE Stash \/ KeyYes \/ KeyNo \/ KeyCancelPrompt \/ KeyInterrupt \/ Quit
      <4>1. ch' = ch /\ ui'.streaming = ui.streaming
        BY <3>3
           DEF Stash, KeyYes, KeyNo, KeyCancelPrompt, KeyInterrupt, Quit, TypeInv, Loops
      <4> QED
        BY <4>1 DEF TurnAlive
    <3> QED
      BY <1>5, <3>1, <3>2, <3>3 DEF LoopStep
  <2> QED
    BY <1>1, <2>1, <2>2 DEF TurnAlive
<1> QED
  BY <1>2, <1>3, <1>4, <1>5 DEF Inside

----------------------------------------------------------------------------
(* The theorems *)

LEMMA SessionInit == CallsInit => SessionInv
<1> SUFFICES ASSUME CallsInit PROVE SessionInv
  OBVIOUS
<1>1. Calls = {} /\ ran = {} /\ kids = {} /\ approvals = <<>> /\ ~active
      /\ ~ui.quitting /\ ~ui.draining
  BY DEF CallsInit, Calls
<1> QED
  BY <1>1, TypeInit
     DEF SessionInv, Decided, RunsAuthorised, Held, CommandsReachable, OwnReachable,
         KidsWaitedFor, TurnAlive

\* A turn is started only when the goroutine of the last one and its calls have ended.
LEMMA LastOver ==
  ASSUME TypeInv, TurnAlive, Starts
  PROVE  \A i \in Calls : at[i] = "ended" /\ proc[i] # "up"
<1>1. ~active
  <2>1. CASE ~ui.streaming
    BY <2>1 DEF TurnAlive
  <2>2. CASE LoopUp /\ NextItem.kind # "approval"
    <3>1. ch # <<>> /\ Head(ch).kind # "approval"
      BY <2>2 DEF LoopUp, NextItem
    <3>2. 1 \in DOMAIN ch /\ Head(ch) = ch[1]
      BY <3>1 DEF TypeInv
    <3> QED
      BY <3>1, <3>2 DEF TurnAlive
  <2> QED
    BY <2>1, <2>2 DEF Starts
<1> QED
  BY <1>1 DEF TurnAlive

LEMMA SessionNext ==
  ASSUME SessionInv, [CallsNext]_callVars
  PROVE  SessionInv'
<1>1. CASE Starts
  BY <1>1, Started, LastOver DEF Starts, SessionInv, CommandsReachable
<1>2. CASE Inside
  BY <1>2, TypeNext, DecidedNext, AuthorisedNext, HeldNext, OwnNext, KidsNext, AliveNext
     DEF SessionInv, CommandsReachable
<1>3. CASE UNCHANGED callVars
  <2>1. /\ UNCHANGED <<cfg, turns, plan, batch, active, cancelled, at, reply, ch, ui, approvals>>
        /\ UNCHANGED <<proc, stopping, syncJobs, shell, detached, kids, yes, ran>>
    BY <1>3 DEF callVars, turnVars, uiVars, procVars, subVars
  <2>2. Calls' = Calls /\ Items' = Items
    BY <2>1 DEF Calls, Items
  <2>3. TypeInv'
    BY <2>1, <2>2 DEF SessionInv, TypeInv
  <2>4. Decided'
    BY <2>1, DecidedStays DEF SessionInv, Decided
  <2>5. RunsAuthorised'
    <3>1. \A r \in ran : Authorised(r)
      BY RunsAre DEF SessionInv
    <3>2. \A r \in ran' : Authorised(r)'
      BY <2>1, <3>1, AuthorisedStays
    <3> QED
      BY <3>2 DEF RunsAuthorised, Authorised
  <2>6. Held' /\ CommandsReachable' /\ TurnAlive'
    BY <2>1, <2>2 DEF SessionInv, Held, CommandsReachable, OwnReachable, KidsWaitedFor,
       TurnAlive
  <2> QED
    BY <2>3, <2>4, <2>5, <2>6 DEF SessionInv
<1> QED
  BY <1>1, <1>2, <1>3, StepKinds DEF SessionInv

LEMMA SessionHolds == CallsSpec => []SessionInv
BY SessionInit, SessionNext, PTL DEF CallsSpec

\* Whatever crosses into a tool was allowed to: denials hold for the turn and below its
\* delegations, a call that has to be asked about ran after a yes to that call and no
\* other, a plan turn runs what plan mode admits.  registry.go Execute.
THEOREM RunsAuthorisedHolds == CallsSpec => []RunsAuthorised
<1>1. SessionInv => RunsAuthorised
  BY DEF SessionInv
<1> QED
  BY <1>1, SessionHolds, PTL

\* No prompt outlives its turn.  main.go Update.
THEOREM ModalIsLiveHolds == CallsSpec => []ModalIsLive
<1>1. SessionInv => ModalIsLive
  <2> SUFFICES ASSUME SessionInv, ~ui.exited, approvals # <<>>
               PROVE  ui.streaming /\ \A k \in DOMAIN approvals : approvals[k][1] = turns
    BY DEF ModalIsLive
  <2>1. ui.streaming
    BY DEF SessionInv, Held
  <2>2. \A k \in DOMAIN approvals : approvals[k] \in {turns} \X Calls
    BY DEF SessionInv, TypeInv
  <2> QED
    BY <2>1, <2>2
<1> QED
  BY <1>1, SessionHolds, PTL

\* No command of a turn runs unseen.  Its own were stopped, are about to be registered, or
\* are in the table of an open shell, where Close finds them; those of a sub-agent it
\* delegated to are waited for until the turn is cancelled, which their monitors see.
\* shell.go executeSync, delegate.go delegateTask.
THEOREM CommandsReachableHolds == CallsSpec => []CommandsReachable
<1>1. SessionInv => CommandsReachable
  BY DEF SessionInv
<1> QED
  BY <1>1, SessionHolds, PTL

\* A cancelled turn starts no further tool, by itself or below a delegation it waits for.
\* registry.go Execute.
THEOREM NoRevivalHolds == CallsSpec => NoRevival
<1>1. ASSUME SessionInv, [CallsNext]_callVars, cancelled, cancelled'
      PROVE  \A r \in ran' \ ran : r.by = "background"
  <2>1. CASE Starts
    BY <1>1, <2>1 DEF Starts, StartStream
  <2>2. ASSUME NEW i \in Calls, CallStep(i)
        PROVE  ran' = ran
    BY <1>1, <2>2
       DEF CallStep, Advance, Dispatch, Ask, AwaitReply, Cross, Return, EnterShell,
       StartCommand, RegisterCommand, Monitor, CommandDone, SubagentCall, InterruptOwner,
       ProcessExit
  <2>3. CASE EndTurn \/ LoopStep \/ CloseShell \/ CloseReturns
    BY <2>3 DEF EndTurn, LoopStep, CloseShell, CloseReturns, TakeApproval, DrainStays,
       TerminalStays, Stash, KeyYes, KeyNo, KeyCancelPrompt, KeyInterrupt, Quit
  <2>4. CASE UNCHANGED callVars
    BY <2>4 DEF callVars
  <2>5. CASE SubStep
    <3>1. CASE BackgroundCall
      BY <3>1 DEF BackgroundCall, Log
    <3>2. CASE ~BackgroundCall
      BY <2>5, <3>2 DEF SubStep, StopKid, KidExit, BackgroundEnds
    <3> QED
      BY <3>1, <3>2
  <2> QED
    BY <1>1, <2>1, <2>2, <2>3, <2>4, <2>5, StepKinds DEF SessionInv, Inside
<1>2. SessionInv /\ [CallsNext]_callVars =>
        [cancelled /\ cancelled' => \A r \in ran' \ ran : r.by = "background"]_callVars
  BY <1>1
<1> QED
  BY <1>2, SessionHolds, PTL DEF CallsSpec, NoRevival

\* A turn begins when all of the last one is over.  main.go startStream.
THEOREM TurnsApartHolds == CallsSpec => TurnsApart
<1>1. ASSUME SessionInv, [CallsNext]_callVars, turns' # turns
      PROVE  \A i \in Calls : at[i] = "ended" /\ proc[i] # "up"
  <2>1. Starts
    BY <1>1, StepKinds, SameTurn DEF SessionInv, callVars, turnVars
  <2> QED
    BY <1>1, <2>1, LastOver DEF SessionInv
<1>2. SessionInv /\ [CallsNext]_callVars =>
        [turns' # turns => \A i \in Calls : at[i] = "ended" /\ proc[i] # "up"]_callVars
  BY <1>1
<1> QED
  BY <1>2, SessionHolds, PTL DEF CallsSpec, TurnsApart

(***************************************************************************)
(* FileMutation.                                                            *)
(***************************************************************************)

Stage == {"idle", "read", "resolved", "waiting", "entered", "locked", "prepared",
          "written", "valid", "leaving", "unlocked", "done", "crashed"}
File_ == [content : Text, mode : Mode]

DataType ==
  /\ scene \in Scenes /\ request \in [Call -> Request]
  /\ disk \in [Name -> File_] /\ linked \in BOOLEAN
  /\ temps \subseteq [call : Call, content : Text, mode : Mode]
  /\ entries \in [Process -> [Name -> Call \cup {None}]]
  /\ holder \in [Call -> Call \cup {None}] /\ flocked \in [Name -> Call \cup {None}]
  /\ refs \in [Call -> Nat]
  /\ pc \in [Call -> Stage] /\ outcome \in [Call -> {"none", "ok", "error"}]
  /\ expected \in [Call -> Text] /\ path \in [Call -> Name]
  /\ entry \in [Call -> Call \cup {None}] /\ work \in [Call -> File_]
  /\ raced \subseteq Call

\* The calls that use the entry a call made.
Users(e) == {d \in Call : pc[d] \in Holding /\ entry[d] = e}

\* A call in the table's care uses the entry shown for its path.
EntryShown ==
  \A c \in Call : pc[c] \in Holding =>
    entry[c] \in Call /\ entry[c] = entries[ProcessOf[c]][path[c]]

\* An entry stands at the path of the call that made it, in its process, so no entry
\* stands for two paths and a call that has made none yet is in no table.
EntryOfMaker ==
  \A p \in Process, n \in Name : \A e \in Call : entries[p][n] = e =>
    ProcessOf[e] = p /\ path[e] = n /\ pc[e] \notin {"idle", "read", "resolved"}

RefsExact == \A e \in Call : refs[e] = Cardinality(Users(e))

TableInv == EntryShown /\ EntryOfMaker /\ RefsExact

\* The lock file of a path is that of the one call at work there.
Locked == {"locked", "prepared", "written", "valid"}
LockHeld == \A c \in Call : pc[c] \in Locked => flocked[path[c]] = c

\* What a call is about to put there is what it asked for, of what it expects.
WorkAsked ==
  /\ \A c \in Call : pc[c] \in {"prepared", "written", "valid"} =>
       work[c].content = Transform(request[c], expected[c])
  /\ \A t \in temps : pc[t.call] \in {"written", "valid"} =>
       t.content = work[t.call].content

\* A call is answered only once it is leaving, and goes for "real" until it has looked.
NotAnswered ==
  \A c \in Call :
    /\ pc[c] \in {"idle", "read", "resolved", "waiting", "entered"} \cup Locked => outcome[c] = "none"
    /\ pc[c] \in {"idle", "read"} => path[c] = "real"

\* From its last look on the file is what the call expects, with the mode the temporary
\* file was given, unless an editor was there.
StillExpected ==
  \A t \in temps : pc[t.call] = "valid" /\ path[t.call] = "real" =>
    \/ t.call \in raced
    \/ /\ disk["real"].content = expected[t.call]
       /\ expected[t.call] = Absent \/ t.mode = disk["real"].mode

RegisterInv == LockHeld /\ WorkAsked /\ NotAnswered /\ StillExpected
FilesInv == TempsOwned /\ RegisterInv
FileInv == DataType /\ TableInv /\ FilesInv

-----------------------------------------------------------------------------
(* What the transforms yield.                                               *)

\* A nonempty set of natural numbers has a least element: of the intervals up to its
\* members, ordered by inclusion, one is minimal.
LEMMA LeastExists ==
  ASSUME NEW S, S \subseteq Nat, S # {}
  PROVE  \E m \in S : \A k \in S : m <= k
<1>. DEFINE D == {1 .. m : m \in S}
            R == StrictSubsetOrdering(Nat)
<1>1. D \subseteq FiniteSubsetsOf(Nat) /\ D # {}
  <2>1. \A m \in S : IsFiniteSet(1 .. m) /\ 1 .. m \subseteq Nat
    BY FS_Interval
  <2>. QED
    BY <2>1 DEF FiniteSubsetsOf
<1>2. \E x \in D : \A y \in D : ~ (<<y, x>> \in R)
  <2>1. IsWellFoundedOn(R, FiniteSubsetsOf(Nat))
    BY FS_StrictSubsetOrderingWellFounded
  <2>. HIDE DEF D, R
  <2>. QED
    BY <1>1, <2>1, WFMin
<1>3. PICK m \in S : \A k \in S : ~ (<<1 .. k, 1 .. m>> \in R)
  BY <1>2
<1>4. \A k \in S : k < m => <<1 .. k, 1 .. m>> \in R
  <2>. SUFFICES ASSUME NEW k \in S, k < m PROVE <<1 .. k, 1 .. m>> \in R
    OBVIOUS
  <2>1. m \in 1 .. m /\ m \notin 1 .. k /\ 1 .. k \subseteq 1 .. m /\ 1 .. m \subseteq Nat
    OBVIOUS
  <2>. QED
    BY <2>1 DEF StrictSubsetOrdering
<1>5. \A k \in S : k \in Int
  OBVIOUS
<1>. HIDE DEF D, R
<1>6. \A k \in S : ~ (k < m)
  BY <1>3, <1>4
<1>7. m \in Int
  BY <1>5
<1>8. \A k \in S : m <= k
  BY <1>5, <1>6, <1>7
<1>. QED
  BY <1>8

LEMMA MinProperties ==
  ASSUME NEW S, S \subseteq Nat, S # {}
  PROVE  Min(S) \in S /\ \A y \in S : Min(S) <= y
<1>1. \E m \in S : \A k \in S : m <= k
  BY LeastExists
<1>. QED
  BY <1>1 DEF Min

\* The greatest member is the least upper bound.
LEMMA MaxProperties ==
  ASSUME NEW n \in Nat, NEW S, S \subseteq 1 .. n, S # {}
  PROVE  Max(S) \in S /\ \A y \in S : Max(S) >= y
<1>. DEFINE U == {m \in Nat : \A y \in S : y <= m}
<1>1. n \in U
  OBVIOUS
<1>2. PICK m \in U : \A k \in U : m <= k
  <2>. HIDE DEF U
  <2>1. U \subseteq Nat
    BY DEF U
  <2>. QED
    BY <1>1, <2>1, LeastExists
<1>3. m \in S
  <2>1. SUFFICES ASSUME m \notin S PROVE FALSE
    OBVIOUS
  <2>2. PICK z \in S : z \in 1 .. n /\ z <= m
    OBVIOUS
  <2>3. \A y \in S : y <= m - 1
    BY <2>1
  <2>4. m - 1 \in U
    <3>1. m - 1 \in Nat
      BY <2>2
    <3>. QED
      BY <3>1, <2>3
  <2>. QED
    BY <2>4, <1>2
<1>4. m \in S /\ \A y \in S : m >= y
  BY <1>3
<1>. QED
  BY <1>4 DEF Max

\* Taking out a span and putting lines in its place leaves lines.
LEMMA SplicedText ==
  ASSUME NEW lines \in Text, NEW new \in Text, NEW i \in DOMAIN lines, NEW j \in DOMAIN lines
  PROVE  SubSeq(lines, 1, i - 1) \o new \o SubSeq(lines, j + 1, Len(lines)) \in Text
<1>1. SubSeq(lines, 1, i - 1) \in Text
  BY SubSeqProperties DEF Text
<1>2. SubSeq(lines, j + 1, Len(lines)) \in Text
  BY SubSeqProperties DEF Text
<1>3. SubSeq(lines, 1, i - 1) \o new \in Text
  BY <1>1, ConcatProperties DEF Text
<1>. QED
  BY <1>2, <1>3, ConcatProperties DEF Text

\* An anchor of the file is found in it, and an edit by anchors yields a content.
LEMMA AnchoredText ==
  ASSUME NEW r \in Request, NEW lines \in Text, r.anchors # <<>>,
         ValidateHashlines(lines, r.anchors)
  PROVE  ApplyHashlineEdit(lines, r.anchors, r.new) \in Text
<1>. DEFINE hits == {HashIndex(lines, r.anchors[i].hash) : i \in DOMAIN r.anchors}
<1>1. \A i \in DOMAIN r.anchors : HashIndex(lines, r.anchors[i].hash) \in DOMAIN lines
  <2>. SUFFICES ASSUME NEW i \in DOMAIN r.anchors
                PROVE  HashIndex(lines, r.anchors[i].hash) \in DOMAIN lines
    OBVIOUS
  <2>. DEFINE S == {k \in DOMAIN lines : lines[k] = r.anchors[i].hash}
  <2>1. S # {}
    BY DEF ValidateHashlines, Range
  <2>2. Len(lines) \in Nat /\ S \subseteq 1 .. Len(lines)
    BY DEF Text
  <2>3. Max(S) \in S
    BY <2>1, <2>2, MaxProperties
  <2>. QED
    BY <2>3 DEF HashIndex
<1>2. hits \subseteq 1 .. Len(lines) /\ hits # {} /\ DOMAIN lines = 1 .. Len(lines)
  <2>1. 1 \in DOMAIN r.anchors
    BY DEF Request
  <2>. QED
    BY <1>1, <2>1 DEF Text
<1>. HIDE DEF hits
<1>3. hits \subseteq Nat /\ Len(lines) \in Nat
  BY <1>2 DEF Text
<1>4. Min(hits) \in DOMAIN lines /\ Max(hits) \in DOMAIN lines
  BY <1>2, <1>3, MinProperties, MaxProperties
<1>5. r.new \in Text
  BY DEF Request
<1>. QED
  BY <1>4, <1>5, SplicedText DEF ApplyHashlineEdit, hits

LEMMA OneInSeq ==
  ASSUME NEW S, NEW x \in S
  PROVE  <<x>> \in Seq(S)
OBVIOUS

\* Whatever is asked of whatever content, the outcome is a content (a refusal counts as one).
LEMMA TransformType ==
  ASSUME NEW r \in Request, NEW content \in Text
  PROVE  Transform(r, content) \in Text
<1>1. Absent \in Text /\ Failed \in Text /\ r.new \in Text /\ r.old \in Text
  <2>1. <<"absent">> \in Seq(STRING) /\ <<"failed">> \in Seq(STRING)
    BY StringFact, OneInSeq
  <2>2. r.new \in Text /\ r.old \in Text
    BY DEF Request
  <2>. QED
    BY <2>1, <2>2 DEF Absent, Failed, Text
<1>. DEFINE lines == IF content = Absent THEN <<>> ELSE content
<1>2. lines \in Text
  <2>1. <<>> \in Seq(STRING)
    OBVIOUS
  <2>. QED
    BY <2>1 DEF Text
<1>. HIDE DEF lines
<1>3. CASE r.op = "write"
  BY <1>1, <1>3 DEF Transform, FileWrite
<1>4. CASE r.op = "append"
  <2>1. lines \o r.new \in Text
    BY <1>1, <1>2, ConcatProperties DEF Text
  <2>. QED
    BY <1>4, <2>1 DEF Transform, FileAppend, lines
<1>5. CASE r.op = "patch"
  <2>. DEFINE found == Occurrences(lines, r.old)
  <2>1. CASE Cardinality(found) = 1
    <3>1. Len(lines) \in Nat /\ found \subseteq 1 .. Len(lines) /\ DOMAIN lines = 1 .. Len(lines)
      BY <1>2 DEF Text, Occurrences
    <3>2. found # {}
      BY <2>1, FS_EmptySet
    <3>3. Max(found) \in DOMAIN lines
      BY <3>1, <3>2, MaxProperties
    <3>4. FilePatch(r, lines) = SubSeq(lines, 1, Max(found) - 1) \o r.new
                                  \o SubSeq(lines, Max(found) + 1, Len(lines))
      <4>1. ~ (found = {} /\ r.anchors # <<>> /\ ValidateHashlines(lines, r.anchors))
        BY <3>2
      <4>. HIDE DEF found
      <4>. QED
        BY <2>1, <4>1 DEF FilePatch, found
    <3>5. FilePatch(r, lines) \in Text
      BY <3>3, <3>4, <1>1, <1>2, SplicedText
    <3>. QED
      BY <3>5, <1>1, <1>5 DEF Transform, lines
  <2>2. CASE Cardinality(found) # 1
    <3>1. FilePatch(r, lines) \in Text
      BY <2>2, <1>1, <1>2, AnchoredText DEF FilePatch
    <3>. QED
      BY <3>1, <1>1, <1>5 DEF Transform, lines
  <2>. QED
    BY <2>1, <2>2
<1>. QED
  BY <1>3, <1>4, <1>5 DEF Request

-----------------------------------------------------------------------------
(* Types.                                                                   *)

LEMMA DataInit == Init => DataType
<1>. SUFFICES ASSUME Init PROVE DataType
  OBVIOUS
<1>1. Absent \in Text
  BY StringFact, OneInSeq DEF Absent, Text
<1>2. disk \in [Name -> File_]
  BY <1>1, FileAssumption DEF Init, Name, File_, Mode
<1>3. work \in [Call -> File_] /\ expected \in [Call -> Text]
  BY <1>1 DEF Init, File_, Mode
<1>4. path \in [Call -> Name] /\ pc \in [Call -> Stage]
  BY DEF Init, Name, Stage
<1>5. scene \in Scenes /\ request \in [Call -> Request]
  BY FileAssumption DEF Init
<1>. QED
  BY <1>2, <1>3, <1>4, <1>5 DEF DataType, Init

\* A file that is looked at holds a content.
LEMMA SnapshotType ==
  ASSUME DataType, NEW n \in Name
  PROVE  Target(n) \in Name /\ Snapshot(n) \in File_ /\ Snapshot(n).content \in Text
           /\ Snapshot(n).mode \in Mode /\ CanonicalMutationPath(n) \in Name
<1>1. Target(n) \in Name
  BY DEF Target, Name
<1>. QED
  BY <1>1 DEF Snapshot, CanonicalMutationPath, DataType, File_

\* Counting one up or down.
LEMMA CountedUp ==
  ASSUME NEW S, NEW f \in [S -> Nat], NEW x \in S
  PROVE  /\ [f EXCEPT ![x] = @ + 1] \in [S -> Nat]
         /\ \A y \in S : [f EXCEPT ![x] = @ + 1][y] = IF y = x THEN f[y] + 1 ELSE f[y]
<1>1. \A y \in S : [f EXCEPT ![x] = @ + 1][y] = IF y = x THEN f[y] + 1 ELSE f[y]
  OBVIOUS
<1>2. \A y \in S : [f EXCEPT ![x] = @ + 1][y] \in Nat
  BY <1>1
<1>. QED
  BY <1>1, <1>2

LEMMA CountedDown ==
  ASSUME NEW S, NEW f \in [S -> Nat], NEW x \in S, f[x] > 0
  PROVE  /\ [f EXCEPT ![x] = @ - 1] \in [S -> Nat]
         /\ \A y \in S : [f EXCEPT ![x] = @ - 1][y] = IF y = x THEN f[y] - 1 ELSE f[y]
<1>1. \A y \in S : [f EXCEPT ![x] = @ - 1][y] = IF y = x THEN f[y] - 1 ELSE f[y]
  OBVIOUS
<1>2. \A y \in S : [f EXCEPT ![x] = @ - 1][y] \in Nat
  BY <1>1
<1>. QED
  BY <1>1, <1>2

\* A call in the table's care holds a reference: the entry it uses counts one at least.
LEMMA Referenced ==
  ASSUME DataType, TableInv, NEW c \in Call, pc[c] \in Holding
  PROVE  entry[c] \in Call /\ refs[entry[c]] > 0
<1>1. entry[c] \in Call /\ refs[entry[c]] = Cardinality(Users(entry[c]))
  BY DEF TableInv, EntryShown, RefsExact
<1>2. c \in Users(entry[c])
  BY DEF Users
<1>3. IsFiniteSet(Users(entry[c]))
  BY FileAssumption, FS_Subset DEF Users
<1>4. Cardinality(Users(entry[c])) \in Nat /\ Cardinality(Users(entry[c])) # 0
  BY <1>2, <1>3, FS_CardinalityType, FS_EmptySet
<1>. QED
  BY <1>1, <1>4

\* An error on the way keeps the types.
LEMMA LeaveType ==
  ASSUME DataType, NEW c \in Call, Leave(c)
  PROVE  /\ pc' \in [Call -> Stage] /\ outcome' \in [Call -> {"none", "ok", "error"}]
         /\ temps' \subseteq [call : Call, content : Text, mode : Mode]
BY DEF DataType, Leave, Set, Stage

LEMMA DataStep ==
  ASSUME DataType, TableInv, [Next]_vars
  PROVE  DataType'
<1>. USE DEF fileVars, lockVars, argVars, ghostVars
<1>1. ASSUME NEW c \in Call, FileRead(c) PROVE DataType'
  <2>1. Snapshot(request[c].name).content \in Text
    BY SnapshotType DEF DataType, Request
  <2>2. expected' \in [Call -> Text] /\ pc' \in [Call -> Stage]
    BY <1>1, <2>1 DEF FileRead, Move, Set, DataType, Stage
  <2>. QED
    BY <1>1, <2>2 DEF FileRead, DataType
<1>2. ASSUME NEW c \in Call, Resolve(c) PROVE DataType'
  <2>1. CanonicalMutationPath(request[c].name) \in Name
    BY SnapshotType DEF DataType, Request
  <2>2. path' \in [Call -> Name]
    BY <1>2, <2>1 DEF Resolve, Set, DataType
  <2>3. pc' \in [Call -> Stage] /\ outcome' \in [Call -> {"none", "ok", "error"}]
    BY <1>2 DEF Resolve, Set, DataType, Stage
  <2>. QED
    BY <1>2, <2>2, <2>3 DEF Resolve, DataType
<1>3. ASSUME NEW c \in Call, AcquireEntry(c) PROVE DataType'
  <2>. DEFINE p == ProcessOf[c]
              e == IF entries[p][path[c]] = None THEN c ELSE entries[p][path[c]]
  <2>1. p \in Process /\ path[c] \in Name /\ entries[p][path[c]] \in Call \cup {None}
    BY FileAssumption DEF DataType
  <2>2. e \in Call
    BY <2>1
  <2>3. /\ pc' = [pc EXCEPT ![c] = "waiting"] /\ entry' = [entry EXCEPT ![c] = e]
        /\ entries' = [entries EXCEPT ![p][path[c]] = e] /\ refs' = [refs EXCEPT ![e] = @ + 1]
    BY <1>3 DEF AcquireEntry, Move, Set
  <2>. HIDE DEF e
  <2>4. refs' \in [Call -> Nat]
    BY <2>2, <2>3, CountedUp DEF DataType
  <2>5. entries' \in [Process -> [Name -> Call \cup {None}]]
    BY <2>1, <2>2, <2>3 DEF DataType
  <2>6. pc' \in [Call -> Stage] /\ entry' \in [Call -> Call \cup {None}]
    BY <2>2, <2>3 DEF DataType, Stage
  <2>. QED
    BY <1>3, <2>4, <2>5, <2>6 DEF AcquireEntry, DataType
<1>4. ASSUME NEW c \in Call, LockEntry(c) PROVE DataType'
  BY <1>4 DEF LockEntry, Move, Set, DataType, Stage
<1>5. ASSUME NEW c \in Call, Flock(c) PROVE DataType'
  BY <1>5 DEF Flock, Move, Set, DataType, Stage
<1>6. ASSUME NEW c \in Call, Prepare(c) PROVE DataType'
  <2>. DEFINE before == Snapshot(path[c])
              new == Transform(request[c], before.content)
  <2>1. before.content \in Text /\ before.mode \in Mode
    BY SnapshotType DEF DataType
  <2>2. new \in Text
    BY <2>1, TransformType DEF DataType
  <2>3. CASE Leave(c) /\ UNCHANGED work
    BY <1>6, <2>3, LeaveType DEF Prepare, DataType
  <2>4. CASE /\ pc' = Set(pc, c, "prepared")
             /\ work' = Set(work, c, [content |-> new,
                  mode |-> IF before.content = Absent THEN "plain" ELSE before.mode])
             /\ UNCHANGED <<temps, outcome>>
    <3>. HIDE DEF before, new
    <3>1. work' \in [Call -> File_] /\ pc' \in [Call -> Stage]
      BY <2>1, <2>2, <2>4 DEF Set, DataType, File_, Stage, Mode
    <3>. QED
      BY <1>6, <2>4, <3>1 DEF Prepare, DataType
  <2>. QED
    BY <1>6, <2>3, <2>4 DEF Prepare
<1>7. ASSUME NEW c \in Call, WriteTemp(c) PROVE DataType'
  BY <1>7 DEF WriteTemp, Move, Set, DataType, Stage, File_
<1>8. ASSUME NEW c \in Call, Revalidate(c) PROVE DataType'
  <2>. DEFINE current == Snapshot(path[c])
  <2>1. current.mode \in Mode
    BY SnapshotType DEF DataType
  <2>2. CASE Leave(c)
    BY <1>8, <2>2, LeaveType DEF Revalidate, DataType
  <2>3. CASE /\ pc' = Set(pc, c, "valid")
             /\ temps' = {IF t.call = c /\ current.content # Absent
                          THEN [t EXCEPT !.mode = current.mode] ELSE t : t \in temps}
             /\ UNCHANGED outcome
    <3>. HIDE DEF current
    <3>1. pc' \in [Call -> Stage]
      BY <2>3 DEF Set, DataType, Stage
    <3>2. \A t \in temps : [t EXCEPT !.mode = current.mode] \in [call : Call, content : Text, mode : Mode]
      BY <2>1 DEF DataType
    <3>3. temps' \subseteq [call : Call, content : Text, mode : Mode]
      BY <2>3, <3>2 DEF DataType
    <3>. QED
      BY <1>8, <2>3, <3>1, <3>3 DEF Revalidate, DataType
  <2>. QED
    BY <1>8, <2>2, <2>3 DEF Revalidate
<1>9. ASSUME NEW c \in Call, Rename(c) PROVE DataType'
  <2>1. PICK t \in temps : t.call = c
                           /\ disk' = Set(disk, path[c], [content |-> t.content, mode |-> t.mode])
                           /\ temps' = temps \ {t}
    BY <1>9 DEF Rename
  <2>2. disk' \in [Name -> File_] /\ temps' \subseteq [call : Call, content : Text, mode : Mode]
    BY <2>1 DEF DataType, Set, File_
  <2>3. linked' \in BOOLEAN /\ pc' \in [Call -> Stage]
        /\ outcome' \in [Call -> {"none", "ok", "error"}]
    BY <1>9 DEF Rename, Move, Set, DataType, Stage
  <2>. QED
    BY <1>9, <2>2, <2>3 DEF Rename, DataType
<1>10. ASSUME NEW c \in Call, Unlock(c) PROVE DataType'
  BY <1>10 DEF Unlock, Move, Set, DataType, Stage
<1>11. ASSUME NEW c \in Call, ReleaseEntry(c) PROVE DataType'
  <2>1. pc[c] \in Holding
    BY <1>11 DEF ReleaseEntry, Move, Holding
  <2>2. refs' \in [Call -> Nat]
    BY <1>11, <2>1, Referenced, CountedDown DEF ReleaseEntry, DataType
  <2>3. pc' \in [Call -> Stage]
    BY <1>11 DEF ReleaseEntry, Move, Set, DataType, Stage
  <2>4. entries' \in [Process -> [Name -> Call \cup {None}]]
    <3>1. ProcessOf[c] \in Process /\ path[c] \in Name
      BY FileAssumption DEF DataType
    <3>. QED
      BY <1>11, <3>1 DEF ReleaseEntry, DataType
  <2>. QED
    BY <1>11, <2>2, <2>3, <2>4 DEF ReleaseEntry, DataType
<1>12. ASSUME NEW c \in Call, DiskFails(c) PROVE DataType'
  BY <1>12, LeaveType DEF DiskFails, DataType
<1>13. ASSUME NEW c \in Call, Cancel(c) PROVE DataType'
  BY <1>13 DEF Cancel, DataType
<1>14. ASSUME NEW p \in Process, Crash(p) PROVE DataType'
  BY <1>14 DEF Crash, Set, DataType, Stage
<1>15. ASSUME Edit PROVE DataType'
  <2>1. PICK s \in Edits, m \in Mode : disk' = Set(disk, "real", [content |-> s, mode |-> m])
    BY <1>15 DEF Edit
  <2>2. disk' \in [Name -> File_]
    BY <2>1, FileAssumption DEF Set, DataType, File_
  <2>. QED
    BY <1>15, <2>2 DEF Edit, DataType
<1>16. CASE Finished \/ UNCHANGED vars
  BY <1>16 DEF Finished, vars, DataType
<1>. QED
  BY <1>1, <1>2, <1>3, <1>4, <1>5, <1>6, <1>7, <1>8, <1>9, <1>10, <1>11, <1>12, <1>13,
     <1>14, <1>15, <1>16 DEF Next, Step

-----------------------------------------------------------------------------
(* The lock table.                                                          *)

Early == {"idle", "read", "resolved"}

\* A step that takes and drops no entry, and moves nobody's path after it is resolved,
\* leaves the table exact.
LEMMA TableKept ==
  ASSUME DataType, TableInv, UNCHANGED <<entries, refs, entry>>,
         \A d \in Call : /\ pc'[d] \in Holding <=> pc[d] \in Holding
                         /\ pc[d] \notin Early => pc'[d] \notin Early /\ path'[d] = path[d]
  PROVE  TableInv'
<1>1. \A d \in Call : pc'[d] \in Holding => pc[d] \notin Early
  BY DEF Holding, Early
<1>2. EntryShown'
  BY <1>1 DEF TableInv, EntryShown
<1>3. EntryOfMaker'
  BY DEF TableInv, EntryOfMaker, Early
<1>4. \A e \in Call : Users(e)' = Users(e)
  BY DEF Users
<1>5. RefsExact'
  BY <1>4 DEF TableInv, RefsExact
<1>. QED
  BY <1>2, <1>3, <1>5 DEF TableInv

LEMMA UsersFinite ==
  ASSUME NEW e
  PROVE  IsFiniteSet(Users(e)) /\ Cardinality(Users(e)) \in Nat
BY FileAssumption, FS_Subset, FS_CardinalityType DEF Users

\* Nobody uses an entry of a call that has made none.
LEMMA FreshEntry ==
  ASSUME DataType, TableInv, NEW c \in Call, pc[c] \in Early
  PROVE  Users(c) = {} /\ refs[c] = 0
<1>1. \A d \in Call : pc[d] \in Holding => entry[d] # c
  <2>. SUFFICES ASSUME NEW d \in Call, pc[d] \in Holding, entry[d] = c PROVE FALSE
    OBVIOUS
  <2>1. entries[ProcessOf[d]][path[d]] = c /\ ProcessOf[d] \in Process /\ path[d] \in Name
    BY FileAssumption DEF TableInv, EntryShown, DataType
  <2>. QED
    BY <2>1 DEF TableInv, EntryOfMaker, Early
<1>2. Users(c) = {}
  BY <1>1 DEF Users
<1>. QED
  BY <1>2, FS_EmptySet DEF TableInv, RefsExact

\* Users of one entry share its process and its path.
LEMMA UsersTogether ==
  ASSUME DataType, TableInv, NEW c \in Call, pc[c] \in Holding
  PROVE  ProcessOf[entry[c]] = ProcessOf[c] /\ path[entry[c]] = path[c]
<1>1. entry[c] \in Call /\ entries[ProcessOf[c]][path[c]] = entry[c]
      /\ ProcessOf[c] \in Process /\ path[c] \in Name
  BY FileAssumption DEF TableInv, EntryShown, DataType
<1>. QED
  BY <1>1 DEF TableInv, EntryOfMaker

LEMMA AcquireTable ==
  ASSUME DataType, TableInv, NEW c \in Call, AcquireEntry(c)
  PROVE  TableInv'
<1>. DEFINE p == ProcessOf[c]
            e == IF entries[p][path[c]] = None THEN c ELSE entries[p][path[c]]
<1>1. p \in Process /\ path[c] \in Name /\ entries[p][path[c]] \in Call \cup {None}
  BY FileAssumption DEF DataType
<1>2. e \in Call
  BY <1>1
<1>3. /\ pc[c] = "resolved" /\ pc' = [pc EXCEPT ![c] = "waiting"]
      /\ entry' = [entry EXCEPT ![c] = e] /\ path' = path
      /\ entries' = [entries EXCEPT ![p][path[c]] = e] /\ refs' = [refs EXCEPT ![e] = @ + 1]
  BY DEF AcquireEntry, Move, Set, argVars
<1>4. e = c \/ entries[p][path[c]] = e
  OBVIOUS
<1>5. entries[p][path[c]] = None \/ entries[p][path[c]] = e
  OBVIOUS
<1>6. entries[p][path[c]] = None => e = c
  OBVIOUS
<1>. HIDE DEF e
<1>7. /\ \A d \in Call : d # c => pc'[d] = pc[d] /\ entry'[d] = entry[d]
      /\ pc'[c] = "waiting" /\ entry'[c] = e
  BY <1>3 DEF DataType
<1>8. \A q \in Process, n \in Name :
        entries'[q][n] = IF q = p /\ n = path[c] THEN e ELSE entries[q][n]
  BY <1>1, <1>3 DEF DataType
<1>9. EntryShown'
  <2>. SUFFICES ASSUME NEW d \in Call, pc'[d] \in Holding
                PROVE  entry'[d] \in Call /\ entry'[d] = entries'[ProcessOf[d]][path'[d]]
    BY DEF EntryShown
  <2>1. ProcessOf[d] \in Process /\ path[d] \in Name /\ path' = path
    BY <1>3, FileAssumption DEF DataType
  <2>2. CASE d = c
    BY <1>1, <1>2, <1>7, <1>8, <2>1, <2>2
  <2>3. CASE d # c
    <3>1. pc[d] \in Holding /\ entry'[d] = entry[d]
      BY <1>7, <2>3
    <3>2. entry[d] \in Call /\ entry[d] = entries[ProcessOf[d]][path[d]]
      BY <3>1 DEF TableInv, EntryShown
    <3>3. ProcessOf[d] = p /\ path[d] = path[c] => entry[d] = e
      BY <3>2, <1>5, FileAssumption
    <3>. QED
      BY <1>8, <2>1, <3>1, <3>2, <3>3
  <2>. QED
    BY <2>2, <2>3
<1>10. EntryOfMaker'
  <2>. SUFFICES ASSUME NEW q \in Process, NEW n \in Name, NEW f \in Call, entries'[q][n] = f
                PROVE  ProcessOf[f] = q /\ path'[f] = n /\ pc'[f] \notin {"idle", "read", "resolved"}
    BY DEF EntryOfMaker
  <2>1. CASE q = p /\ n = path[c]
    <3>1. f = e
      BY <1>8, <2>1
    <3>2. CASE e = c
      BY <3>1, <3>2, <2>1, <1>3, <1>7
    <3>3. CASE e # c /\ entries[p][path[c]] = e
      <4>1. ProcessOf[f] = q /\ path[f] = n /\ pc[f] \notin {"idle", "read", "resolved"}
        BY <2>1, <3>1, <3>3, <1>1 DEF TableInv, EntryOfMaker
      <4>. QED
        BY <4>1, <3>1, <3>3, <1>3, <1>7
    <3>. QED
      BY <3>2, <3>3, <1>4
  <2>2. CASE ~ (q = p /\ n = path[c])
    <3>1. entries[q][n] = f
      BY <1>8, <2>2
    <3>2. ProcessOf[f] = q /\ path[f] = n /\ pc[f] \notin {"idle", "read", "resolved"}
      BY <3>1 DEF TableInv, EntryOfMaker
    <3>3. f # c
      BY <3>2, <1>3
    <3>. QED
      BY <3>2, <3>3, <1>3, <1>7
  <2>. QED
    BY <2>1, <2>2
<1>11. RefsExact'
  <2>. SUFFICES ASSUME NEW f \in Call PROVE refs'[f] = Cardinality(Users(f)')
    BY DEF RefsExact
  <2>1. refs'[f] = IF f = e THEN refs[f] + 1 ELSE refs[f]
    BY <1>2, <1>3, CountedUp DEF DataType
  <2>2. refs[f] = Cardinality(Users(f))
    BY DEF TableInv, RefsExact
  <2>3. c \notin Users(f)
    BY <1>3 DEF Users, Holding
  <2>4. CASE f = e
    <3>1. Users(f)' = Users(f) \cup {c}
      BY <1>7, <2>3, <2>4 DEF Users, Holding
    <3>2. Cardinality(Users(f) \cup {c}) = Cardinality(Users(f)) + 1
      BY <2>3, UsersFinite, FS_AddElement
    <3>. QED
      BY <2>1, <2>2, <2>4, <3>1, <3>2
  <2>5. CASE f # e
    <3>1. Users(f)' = Users(f)
      BY <1>7, <2>3, <2>5 DEF Users
    <3>. QED
      BY <2>1, <2>2, <2>5, <3>1
  <2>. QED
    BY <2>4, <2>5
<1>. QED
  BY <1>9, <1>10, <1>11 DEF TableInv

LEMMA ReleaseTable ==
  ASSUME DataType, TableInv, NEW c \in Call, ReleaseEntry(c)
  PROVE  TableInv'
<1>. DEFINE p == ProcessOf[c]
            e == entry[c]
<1>1. pc[c] = "unlocked" /\ pc[c] \in Holding
  BY DEF ReleaseEntry, Move, Holding
<1>2. /\ p \in Process /\ path[c] \in Name /\ e \in Call /\ refs[e] > 0
      /\ entries[p][path[c]] = e
  BY <1>1, Referenced, FileAssumption DEF DataType, TableInv, EntryShown
<1>3. /\ pc' = [pc EXCEPT ![c] = "done"] /\ UNCHANGED <<entry, path>>
      /\ refs' = [refs EXCEPT ![e] = @ - 1]
      /\ entries' = IF refs[e] = 1 THEN [entries EXCEPT ![p][path[c]] = None] ELSE entries
  BY DEF ReleaseEntry, Move, Set, argVars, Unused
<1>4. /\ \A d \in Call : d # c => pc'[d] = pc[d]
      /\ pc'[c] = "done"
  BY <1>3 DEF DataType
<1>5. c \in Users(e)
  BY <1>1 DEF Users
<1>. HIDE DEF e
<1>6. \A d \in Call : d # c /\ refs[e] = 1 => d \notin Users(e)
  <2>1. refs[e] = Cardinality(Users(e))
    BY <1>2 DEF TableInv, RefsExact
  <2>2. ASSUME refs[e] = 1 PROVE \E x : Users(e) = {x}
    BY <2>1, <2>2, UsersFinite, FS_Singleton
  <2>. QED
    BY <1>5, <2>2
<1>7. \A q \in Process, n \in Name :
        entries'[q][n] = IF refs[e] = 1 /\ q = p /\ n = path[c] THEN None ELSE entries[q][n]
  BY <1>2, <1>3 DEF DataType
<1>8. EntryShown'
  <2>. SUFFICES ASSUME NEW d \in Call, pc'[d] \in Holding
                PROVE  entry'[d] \in Call /\ entry'[d] = entries'[ProcessOf[d]][path'[d]]
    BY DEF EntryShown
  <2>1. d # c /\ pc[d] \in Holding
    BY <1>4 DEF Holding
  <2>2. /\ entry[d] \in Call /\ entry[d] = entries[ProcessOf[d]][path[d]]
        /\ ProcessOf[d] \in Process /\ path[d] \in Name
    BY <2>1, FileAssumption DEF TableInv, EntryShown, DataType
  <2>3. ~ (refs[e] = 1 /\ ProcessOf[d] = p /\ path[d] = path[c])
    <3>1. SUFFICES ASSUME refs[e] = 1, ProcessOf[d] = p, path[d] = path[c] PROVE FALSE
      OBVIOUS
    <3>2. entry[d] = e
      BY <2>2, <3>1, <1>2
    <3>. QED
      BY <3>1, <3>2, <2>1, <1>6 DEF Users
  <2>. QED
    BY <1>3, <1>7, <2>2, <2>3
<1>9. EntryOfMaker'
  <2>. SUFFICES ASSUME NEW q \in Process, NEW n \in Name, NEW f \in Call, entries'[q][n] = f
                PROVE  ProcessOf[f] = q /\ path'[f] = n /\ pc'[f] \notin {"idle", "read", "resolved"}
    BY DEF EntryOfMaker
  <2>1. entries[q][n] = f
    BY <1>7, FileAssumption
  <2>2. ProcessOf[f] = q /\ path[f] = n /\ pc[f] \notin {"idle", "read", "resolved"}
    BY <2>1 DEF TableInv, EntryOfMaker
  <2>. QED
    BY <2>2, <1>3, <1>4
<1>10. RefsExact'
  <2>. SUFFICES ASSUME NEW f \in Call PROVE refs'[f] = Cardinality(Users(f)')
    BY DEF RefsExact
  <2>1. refs'[f] = IF f = e THEN refs[f] - 1 ELSE refs[f]
    BY <1>2, <1>3, CountedDown DEF DataType
  <2>2. refs[f] = Cardinality(Users(f))
    BY DEF TableInv, RefsExact
  <2>3. Users(f)' = Users(f) \ {c}
    BY <1>3, <1>4 DEF Users, Holding
  <2>4. Cardinality(Users(f) \ {c}) = IF c \in Users(f) THEN Cardinality(Users(f)) - 1
                                                        ELSE Cardinality(Users(f))
    BY UsersFinite, FS_RemoveElement
  <2>5. c \in Users(f) <=> f = e
    BY <1>1 DEF Users, e
  <2>. QED
    BY <2>1, <2>2, <2>3, <2>4, <2>5
<1>. QED
  BY <1>8, <1>9, <1>10 DEF TableInv

LEMMA CrashTable ==
  ASSUME DataType, TableInv, NEW p \in Process, Crash(p)
  PROVE  TableInv'
<1>. DEFINE lost == {c \in Call : ProcessOf[c] = p}
<1>1. /\ pc' = [c \in Call |-> IF c \in lost /\ pc[c] # "done" THEN "crashed" ELSE pc[c]]
      /\ entries' = [entries EXCEPT ![p] = [n \in Name |-> None]]
      /\ refs' = [c \in Call |-> IF c \in lost THEN 0 ELSE refs[c]]
      /\ UNCHANGED <<entry, path>>
  BY DEF Crash, Set, argVars
<1>2. \A q \in Process, n \in Name : entries'[q][n] = IF q = p THEN None ELSE entries[q][n]
  BY <1>1 DEF DataType
<1>3. \A d \in Call : pc'[d] \in Holding => pc[d] \in Holding /\ ProcessOf[d] # p
  BY <1>1 DEF Holding
<1>4. \A d \in Call : pc[d] \in Holding /\ ProcessOf[d] # p => pc'[d] \in Holding
  BY <1>1
<1>5. EntryShown'
  <2>. SUFFICES ASSUME NEW d \in Call, pc'[d] \in Holding
                PROVE  entry'[d] \in Call /\ entry'[d] = entries'[ProcessOf[d]][path'[d]]
    BY DEF EntryShown
  <2>1. ProcessOf[d] \in Process /\ path[d] \in Name
    BY FileAssumption DEF DataType
  <2>. QED
    BY <2>1, <1>1, <1>2, <1>3 DEF TableInv, EntryShown
<1>6. EntryOfMaker'
  <2>. SUFFICES ASSUME NEW q \in Process, NEW n \in Name, NEW f \in Call, entries'[q][n] = f
                PROVE  ProcessOf[f] = q /\ path'[f] = n /\ pc'[f] \notin {"idle", "read", "resolved"}
    BY DEF EntryOfMaker
  <2>1. entries[q][n] = f
    BY <1>2, FileAssumption
  <2>2. ProcessOf[f] = q /\ path[f] = n /\ pc[f] \notin {"idle", "read", "resolved"}
    BY <2>1 DEF TableInv, EntryOfMaker
  <2>. QED
    BY <2>2, <1>1
<1>7. RefsExact'
  <2>. SUFFICES ASSUME NEW f \in Call PROVE refs'[f] = Cardinality(Users(f)')
    BY DEF RefsExact
  <2>1. \A d \in Call : pc[d] \in Holding /\ entry[d] = f => ProcessOf[f] = ProcessOf[d]
    BY UsersTogether
  <2>2. CASE ProcessOf[f] = p
    <3>1. Users(f)' = {}
      BY <2>1, <2>2, <1>1, <1>3 DEF Users
    <3>. QED
      BY <3>1, <2>2, <1>1, FS_EmptySet
  <2>3. CASE ProcessOf[f] # p
    <3>1. Users(f)' = Users(f)
      BY <2>1, <2>3, <1>1, <1>3, <1>4 DEF Users
    <3>. QED
      BY <3>1, <2>3, <1>1 DEF TableInv, RefsExact
  <2>. QED
    BY <2>2, <2>3
<1>. QED
  BY <1>5, <1>6, <1>7 DEF TableInv

LEMMA TableStep ==
  ASSUME DataType, TableInv, [Next]_vars
  PROVE  TableInv'
<1>. USE DEF lockVars, argVars, Move, Set, Holding, Early, DataType
<1>1. ASSUME NEW c \in Call, FileRead(c) PROVE TableInv'
  BY <1>1, TableKept DEF FileRead
<1>2. ASSUME NEW c \in Call, Resolve(c) PROVE TableInv'
  <2>1. \A d \in Call : d # c => pc'[d] = pc[d] /\ path'[d] = path[d]
    BY <1>2 DEF Resolve
  <2>2. pc[c] = "read" /\ pc'[c] \in {"done", "resolved"}
    BY <1>2 DEF Resolve
  <2>. QED
    BY <1>2, <2>1, <2>2, TableKept DEF Resolve
<1>3. ASSUME NEW c \in Call, LockEntry(c) PROVE TableInv'
  BY <1>3, TableKept DEF LockEntry
<1>4. ASSUME NEW c \in Call, Flock(c) PROVE TableInv'
  BY <1>4, TableKept DEF Flock
<1>5. ASSUME NEW c \in Call, Prepare(c) PROVE TableInv'
  <2>1. pc' = [pc EXCEPT ![c] = "prepared"] \/ pc' = [pc EXCEPT ![c] = "leaving"]
    BY <1>5 DEF Prepare, Leave
  <2>. QED
    BY <1>5, <2>1, TableKept DEF Prepare
<1>6. ASSUME NEW c \in Call, WriteTemp(c) PROVE TableInv'
  BY <1>6, TableKept DEF WriteTemp
<1>7. ASSUME NEW c \in Call, Revalidate(c) PROVE TableInv'
  <2>1. pc' = [pc EXCEPT ![c] = "valid"] \/ pc' = [pc EXCEPT ![c] = "leaving"]
    BY <1>7 DEF Revalidate, Leave
  <2>. QED
    BY <1>7, <2>1, TableKept DEF Revalidate
<1>8. ASSUME NEW c \in Call, Rename(c) PROVE TableInv'
  BY <1>8, TableKept DEF Rename
<1>9. ASSUME NEW c \in Call, Unlock(c) PROVE TableInv'
  BY <1>9, TableKept DEF Unlock
<1>10. ASSUME NEW c \in Call, DiskFails(c) PROVE TableInv'
  BY <1>10, TableKept DEF DiskFails, Leave
<1>11. ASSUME NEW c \in Call, Cancel(c) PROVE TableInv'
  BY <1>11, TableKept DEF Cancel
<1>12. ASSUME Edit PROVE TableInv'
  BY <1>12, TableKept DEF Edit
<1>13. CASE Finished \/ UNCHANGED vars
  BY <1>13, TableKept DEF Finished, vars
<1>. QED
  BY <1>1, <1>2, <1>3, <1>4, <1>5, <1>6, <1>7, <1>8, <1>9, <1>10, <1>11, <1>12, <1>13,
     AcquireTable, ReleaseTable, CrashTable DEF Next, Step

-----------------------------------------------------------------------------
(* The file and the temporary files.                                        *)

LEMMA TableInit == Init => TableInv /\ FilesInv
<1>. SUFFICES ASSUME Init PROVE TableInv /\ FilesInv
  OBVIOUS
<1>1. EntryShown /\ EntryOfMaker
  BY FileAssumption DEF Init, EntryShown, EntryOfMaker, Holding
<1>2. RefsExact
  <2>1. \A e \in Call : Users(e) = {}
    BY DEF Init, Users, Holding
  <2>. QED
    BY <2>1, FS_EmptySet DEF Init, RefsExact
<1>3. FilesInv
  BY DEF Init, FilesInv, TempsOwned, RegisterInv, LockHeld, Locked, WorkAsked, NotAnswered,
         StillExpected
<1>. QED
  BY <1>1, <1>2, <1>3 DEF TableInv

\* A step that leaves the files, the locks and what calls asked for alone, and moves no call
\* to a later stage of the work on the file.
LEMMA FilesKept ==
  ASSUME DataType, FilesInv,
         UNCHANGED <<disk, temps, flocked, request, expected, path, work, outcome, raced>>,
         \A d \in Call :
           \/ pc'[d] = pc[d]
           \/ pc[d] = "resolved" /\ pc'[d] = "waiting"
           \/ pc[d] = "waiting" /\ pc'[d] = "entered"
           \/ pc[d] = "unlocked" /\ pc'[d] = "done"
  PROVE  FilesInv'
<1>. USE DEF FilesInv, RegisterInv, DataType
<1>1. TempsOwned'
  BY DEF TempsOwned
<1>2. LockHeld' /\ NotAnswered'
  BY DEF LockHeld, Locked, NotAnswered
<1>3. WorkAsked' /\ StillExpected'
  <2>1. \A d \in Call : pc'[d] \in {"prepared", "written", "valid"} => pc'[d] = pc[d]
    OBVIOUS
  <2>2. \A t \in temps : t.call \in Call
    OBVIOUS
  <2>. QED
    BY <2>1, <2>2 DEF WorkAsked, StillExpected
<1>. QED
  BY <1>1, <1>2, <1>3

\* An error leaves no temporary file, and the others are as they were.
LEMMA LeaveFiles ==
  ASSUME DataType, FilesInv, NEW c \in Call, Leave(c),
         UNCHANGED <<disk, flocked, request, expected, path, work, raced>>
  PROVE  FilesInv'
<1>. USE DEF FilesInv, RegisterInv, DataType
<1>1. /\ \A d \in Call : d # c => pc'[d] = pc[d] /\ outcome'[d] = outcome[d]
      /\ pc'[c] = "leaving" /\ temps' = {t \in temps : t.call # c}
  BY DEF Leave, Set
<1>2. \A t \in temps' : t \in temps /\ t.call \in Call /\ t.call # c /\ pc'[t.call] = pc[t.call]
  BY <1>1
<1>3. TempsOwned'
  BY <1>2 DEF TempsOwned
<1>4. LockHeld' /\ NotAnswered'
  BY <1>1 DEF LockHeld, Locked, NotAnswered
<1>5. WorkAsked'
  BY <1>1, <1>2 DEF WorkAsked
<1>6. StillExpected'
  BY <1>2 DEF StillExpected
<1>. QED
  BY <1>3, <1>4, <1>5, <1>6

\* Two calls are never both at work on one path.
LEMMA OneAtWork ==
  ASSUME RegisterInv, NEW c \in Call, NEW d \in Call, pc[c] \in Locked, pc[d] \in Locked,
         path[c] = path[d]
  PROVE  c = d
BY DEF RegisterInv, LockHeld

LEMMA FilesStep ==
  ASSUME DataType, TableInv, FilesInv, [Next]_vars
  PROVE  FilesInv'
<1>. USE DEF fileVars, lockVars, argVars, ghostVars, FilesInv, RegisterInv, Move, Set
<1>1. ASSUME NEW c \in Call, FileRead(c) PROVE FilesInv'
  <2>1. /\ \A d \in Call : d # c => pc'[d] = pc[d] /\ expected'[d] = expected[d]
        /\ pc[c] = "idle" /\ pc'[c] = "read"
        /\ UNCHANGED <<disk, temps, flocked, request, path, work, outcome, raced>>
    BY <1>1 DEF FileRead, DataType
  <2>2. \A t \in temps : t.call \in Call /\ t.call # c
    BY <2>1 DEF DataType, TempsOwned
  <2>3. TempsOwned'
    BY <2>1, <2>2 DEF TempsOwned
  <2>4. LockHeld' /\ NotAnswered'
    BY <2>1 DEF LockHeld, Locked, NotAnswered
  <2>5. WorkAsked'
    BY <2>1, <2>2 DEF WorkAsked
  <2>6. StillExpected'
    BY <2>1, <2>2 DEF StillExpected
  <2>. QED
    BY <2>3, <2>4, <2>5, <2>6
<1>2. ASSUME NEW c \in Call, Resolve(c) PROVE FilesInv'
  <2>1. /\ \A d \in Call : d # c => pc'[d] = pc[d] /\ path'[d] = path[d] /\ outcome'[d] = outcome[d]
        /\ pc[c] = "read" /\ UNCHANGED <<disk, temps, flocked, request, expected, work, raced>>
        /\ pc'[c] = "done" \/ (pc'[c] = "resolved" /\ outcome'[c] = "none")
    <3>. DEFINE refused == request[c].op = "patch" /\ expected[c] = Absent
    <3>1. /\ pc' = [pc EXCEPT ![c] = IF refused THEN "done" ELSE "resolved"]
          /\ outcome' = [outcome EXCEPT ![c] = IF refused THEN "error" ELSE "none"]
          /\ path' = [path EXCEPT ![c] = CanonicalMutationPath(request[c].name)]
          /\ pc[c] = "read" /\ UNCHANGED <<disk, temps, flocked, request, expected, work, raced>>
      BY <1>2 DEF Resolve
    <3>. HIDE DEF refused
    <3>2. \A d \in Call : d # c => pc'[d] = pc[d] /\ path'[d] = path[d] /\ outcome'[d] = outcome[d]
      BY <3>1 DEF DataType
    <3>3. /\ pc'[c] = IF refused THEN "done" ELSE "resolved"
          /\ outcome'[c] = IF refused THEN "error" ELSE "none"
      BY <3>1 DEF DataType
    <3>. QED
      BY <3>1, <3>2, <3>3
  <2>2. \A t \in temps : t.call \in Call /\ t.call # c
    BY <2>1 DEF DataType, TempsOwned
  <2>3. TempsOwned'
    BY <2>1, <2>2 DEF TempsOwned
  <2>4. LockHeld' /\ NotAnswered'
    BY <2>1 DEF LockHeld, Locked, NotAnswered
  <2>5. WorkAsked'
    BY <2>1, <2>2 DEF WorkAsked
  <2>6. StillExpected'
    BY <2>1, <2>2 DEF StillExpected
  <2>. QED
    BY <2>3, <2>4, <2>5, <2>6
<1>3. ASSUME NEW c \in Call, AcquireEntry(c) PROVE FilesInv'
  BY <1>3, FilesKept DEF AcquireEntry, DataType
<1>4. ASSUME NEW c \in Call, LockEntry(c) PROVE FilesInv'
  BY <1>4, FilesKept DEF LockEntry, DataType
<1>5. ASSUME NEW c \in Call, Flock(c) PROVE FilesInv'
  <2>1. /\ \A d \in Call : d # c => pc'[d] = pc[d]
        /\ pc[c] = "entered" /\ pc'[c] = "locked"
        /\ UNCHANGED <<disk, temps, request, expected, path, work, outcome, raced>>
    BY <1>5 DEF Flock, DataType
  <2>2. \A t \in temps : t.call \in Call /\ t.call # c
    BY <2>1 DEF DataType, TempsOwned
  <2>3. TempsOwned'
    BY <2>1, <2>2 DEF TempsOwned
  <2>4. LockHeld'
    <3>1. /\ \A n \in Name : n # path[c] => flocked'[n] = flocked[n]
          /\ flocked'[path[c]] = c /\ flocked[path[c]] = None
      BY <1>5 DEF Flock, DataType
    <3>2. \A d \in Call : pc[d] \in Locked => path[d] # path[c]
      BY <3>1, FileAssumption DEF LockHeld
    <3>. QED
      BY <2>1, <3>1, <3>2 DEF LockHeld, DataType, Locked
  <2>5. NotAnswered'
    BY <2>1 DEF NotAnswered, Locked
  <2>6. WorkAsked'
    BY <2>1, <2>2 DEF WorkAsked
  <2>7. StillExpected'
    BY <2>1, <2>2 DEF StillExpected
  <2>. QED
    BY <2>3, <2>4, <2>5, <2>6, <2>7
<1>6. ASSUME NEW c \in Call, Prepare(c) PROVE FilesInv'
  <2>. DEFINE new == Transform(request[c], Snapshot(path[c]).content)
  <2>1. CASE Leave(c) /\ UNCHANGED work
    BY <1>6, <2>1, LeaveFiles DEF Prepare
  <2>2. CASE ~ (Leave(c) /\ UNCHANGED work)
    <3>1. /\ pc[c] = "locked" /\ pc' = [pc EXCEPT ![c] = "prepared"]
          /\ Snapshot(path[c]).content = expected[c]
          /\ \E m : work' = [work EXCEPT ![c] = [content |-> new, mode |-> m]]
          /\ UNCHANGED <<disk, temps, flocked, request, expected, path, outcome, raced>>
      BY <1>6, <2>2 DEF Prepare
    <3>2. /\ \A d \in Call : d # c => pc'[d] = pc[d] /\ work'[d] = work[d]
          /\ pc'[c] = "prepared" /\ work'[c].content = Transform(request[c], expected[c])
      BY <3>1 DEF DataType
    <3>3. \A t \in temps : t.call \in Call /\ t.call # c
      BY <3>1 DEF DataType, TempsOwned
    <3>4. TempsOwned'
      BY <3>1, <3>2, <3>3 DEF TempsOwned
    <3>5. LockHeld' /\ NotAnswered'
      BY <3>1, <3>2 DEF LockHeld, Locked, NotAnswered
    <3>6. WorkAsked'
      BY <3>1, <3>2, <3>3 DEF WorkAsked
    <3>7. StillExpected'
      BY <3>1, <3>2, <3>3 DEF StillExpected
    <3>. QED
      BY <3>4, <3>5, <3>6, <3>7
  <2>. QED
    BY <2>1, <2>2
<1>7. ASSUME NEW c \in Call, WriteTemp(c) PROVE FilesInv'
  <2>. DEFINE new == [call |-> c, content |-> work[c].content, mode |-> work[c].mode]
  <2>1. /\ \A d \in Call : d # c => pc'[d] = pc[d]
        /\ pc[c] = "prepared" /\ pc'[c] = "written" /\ temps' = temps \cup {new}
        /\ UNCHANGED <<disk, flocked, request, expected, path, work, outcome, raced>>
    BY <1>7 DEF WriteTemp, DataType
  <2>2. \A t \in temps : t.call \in Call /\ t.call # c
    BY <2>1 DEF DataType, TempsOwned
  <2>3. new.call = c /\ new.content = work[c].content
    OBVIOUS
  <2>. HIDE DEF new
  <2>4. TempsOwned'
    BY <2>1, <2>2, <2>3 DEF TempsOwned
  <2>5. LockHeld' /\ NotAnswered'
    BY <2>1 DEF LockHeld, Locked, NotAnswered
  <2>6. WorkAsked'
    BY <2>1, <2>2, <2>3 DEF WorkAsked
  <2>7. StillExpected'
    BY <2>1, <2>2, <2>3 DEF StillExpected
  <2>. QED
    BY <2>4, <2>5, <2>6, <2>7
<1>8. ASSUME NEW c \in Call, Revalidate(c) PROVE FilesInv'
  <2>. DEFINE current == Snapshot(path[c])
              After(t) == IF t.call = c /\ current.content # Absent
                          THEN [t EXCEPT !.mode = current.mode] ELSE t
  <2>1. CASE Leave(c)
    BY <1>8, <2>1, LeaveFiles DEF Revalidate
  <2>2. CASE ~ Leave(c)
    <3>1. /\ \A d \in Call : d # c => pc'[d] = pc[d]
          /\ pc[c] = "written" /\ pc'[c] = "valid" /\ temps' = {After(t) : t \in temps}
          /\ current.content = expected[c]
          /\ UNCHANGED <<disk, flocked, request, expected, path, work, outcome, raced>>
      BY <1>8, <2>2 DEF Revalidate, DataType
    <3>2. \A t \in temps : /\ t.call \in Call /\ After(t).call = t.call
                           /\ After(t).content = t.content
                           /\ t.call # c => After(t) = t
                           /\ t.call = c /\ current.content # Absent => After(t).mode = current.mode
      BY DEF DataType
    <3>. HIDE DEF After
    <3>3. TempsOwned'
      BY <3>1, <3>2 DEF TempsOwned
    <3>4. LockHeld' /\ NotAnswered'
      BY <3>1 DEF LockHeld, Locked, NotAnswered
    <3>5. WorkAsked'
      BY <3>1, <3>2 DEF WorkAsked
    <3>6. StillExpected'
      <4>1. path[c] = "real" => current = disk["real"]
        BY DEF Snapshot, Target
      <4>. HIDE DEF current
      <4>2. SUFFICES ASSUME NEW t \in temps, pc'[t.call] = "valid", path[t.call] = "real"
                     PROVE  \/ t.call \in raced
                            \/ /\ disk["real"].content = expected[t.call]
                               /\ expected[t.call] = Absent \/ After(t).mode = disk["real"].mode
        BY <3>1, <3>2 DEF StillExpected
      <4>3. CASE t.call = c
        BY <3>1, <3>2, <4>1, <4>2, <4>3
      <4>4. CASE t.call # c
        BY <3>1, <3>2, <4>2, <4>4 DEF StillExpected
      <4>. QED
        BY <4>3, <4>4
    <3>. QED
      BY <3>3, <3>4, <3>5, <3>6
  <2>. QED
    BY <2>1, <2>2
<1>9. ASSUME NEW c \in Call, Rename(c) PROVE FilesInv'
  <2>1. PICK s \in temps : /\ s.call = c /\ temps' = temps \ {s}
                           /\ disk' = Set(disk, path[c], [content |-> s.content, mode |-> s.mode])
    BY <1>9 DEF Rename
  <2>2. /\ \A d \in Call : d # c => pc'[d] = pc[d] /\ outcome'[d] = outcome[d]
        /\ pc[c] = "valid" /\ pc'[c] = "leaving"
        /\ UNCHANGED <<flocked, request, expected, path, work, raced>>
    BY <1>9 DEF Rename, DataType
  <2>3. \A t \in temps' : t \in temps /\ t.call \in Call /\ t.call # c
    BY <2>1 DEF DataType, TempsOwned
  <2>4. TempsOwned'
    BY <2>2, <2>3 DEF TempsOwned
  <2>5. LockHeld' /\ NotAnswered'
    BY <2>2 DEF LockHeld, Locked, NotAnswered
  <2>6. WorkAsked'
    BY <2>2, <2>3 DEF WorkAsked
  <2>7. StillExpected'
    <3>. SUFFICES ASSUME NEW t \in temps', pc'[t.call] = "valid", path'[t.call] = "real"
                  PROVE  /\ t \in temps /\ pc[t.call] = "valid" /\ path[t.call] = "real"
                         /\ disk'["real"] = disk["real"]
      BY <2>2 DEF StillExpected
    <3>1. pc[t.call] = "valid" /\ path[t.call] = "real" /\ t.call \in Call /\ t.call # c
      BY <2>2, <2>3
    <3>2. path[c] # "real"
      BY <3>1, <2>2, OneAtWork DEF Locked
    <3>3. disk'["real"] = disk["real"]
      BY <2>1, <3>2 DEF DataType, Name
    <3>. QED
      BY <3>1, <3>3, <2>3
  <2>. QED
    BY <2>4, <2>5, <2>6, <2>7
<1>10. ASSUME NEW c \in Call, Unlock(c) PROVE FilesInv'
  <2>1. /\ \A d \in Call : d # c => pc'[d] = pc[d]
        /\ pc[c] = "leaving" /\ pc'[c] = "unlocked"
        /\ UNCHANGED <<disk, temps, request, expected, path, work, outcome, raced>>
    BY <1>10 DEF Unlock, DataType
  <2>2. \A t \in temps : t.call \in Call /\ t.call # c
    BY <2>1 DEF DataType, TempsOwned
  <2>3. TempsOwned'
    BY <2>1, <2>2 DEF TempsOwned
  <2>4. LockHeld'
    <3>1. \A n \in Name : flocked[n] # c => flocked'[n] = flocked[n]
      BY <1>10 DEF Unlock
    <3>. QED
      BY <2>1, <3>1 DEF LockHeld, Locked, DataType
  <2>5. NotAnswered'
    BY <2>1 DEF NotAnswered, Locked
  <2>6. WorkAsked'
    BY <2>1, <2>2 DEF WorkAsked
  <2>7. StillExpected'
    BY <2>1, <2>2 DEF StillExpected
  <2>. QED
    BY <2>3, <2>4, <2>5, <2>6, <2>7
<1>11. ASSUME NEW c \in Call, ReleaseEntry(c) PROVE FilesInv'
  BY <1>11, FilesKept DEF ReleaseEntry, DataType
<1>12. ASSUME NEW c \in Call, DiskFails(c) PROVE FilesInv'
  BY <1>12, LeaveFiles DEF DiskFails
<1>13. ASSUME NEW c \in Call, Cancel(c) PROVE FilesInv'
  BY <1>13, FilesKept DEF Cancel
<1>14. ASSUME NEW p \in Process, Crash(p) PROVE FilesInv'
  <2>1. /\ \A d \in Call : \/ pc'[d] = pc[d] /\ (ProcessOf[d] # p \/ pc[d] = "done")
                           \/ pc'[d] = "crashed" /\ ProcessOf[d] = p
        /\ UNCHANGED <<disk, temps, request, expected, path, work, outcome, raced>>
    BY <1>14 DEF Crash, DataType
  <2>2. \A t \in temps : t.call \in Call
    BY DEF DataType
  <2>3. TempsOwned'
    BY <2>1, <2>2 DEF TempsOwned
  <2>4. LockHeld'
    <3>1. \A n \in Name : flocked[n] \in Call /\ ProcessOf[flocked[n]] # p => flocked'[n] = flocked[n]
      BY <1>14 DEF Crash
    <3>. QED
      BY <2>1, <3>1 DEF LockHeld, Locked, DataType
  <2>5. NotAnswered'
    BY <2>1 DEF NotAnswered, Locked
  <2>6. WorkAsked'
    BY <2>1, <2>2 DEF WorkAsked
  <2>7. StillExpected'
    BY <2>1, <2>2 DEF StillExpected
  <2>. QED
    BY <2>3, <2>4, <2>5, <2>6, <2>7
<1>15. ASSUME Edit PROVE FilesInv'
  <2>1. /\ raced' = raced \cup {c \in Call : pc[c] = "valid" /\ path[c] = "real"}
        /\ UNCHANGED <<temps, flocked, pc, request, expected, path, work, outcome>>
    BY <1>15 DEF Edit
  <2>2. TempsOwned' /\ LockHeld' /\ NotAnswered' /\ WorkAsked'
    BY <2>1 DEF TempsOwned, LockHeld, NotAnswered, WorkAsked
  <2>3. StillExpected'
    BY <2>1 DEF StillExpected, DataType
  <2>. QED
    BY <2>2, <2>3
<1>16. CASE Finished \/ UNCHANGED vars
  BY <1>16, FilesKept DEF Finished, vars
<1>. QED
  BY <1>1, <1>2, <1>3, <1>4, <1>5, <1>6, <1>7, <1>8, <1>9, <1>10, <1>11, <1>12, <1>13,
     <1>14, <1>15, <1>16 DEF Next, Step

-----------------------------------------------------------------------------
(* The lock table and the temporary files are exact.                        *)

LEMMA FileInvInit == Init => FileInv
BY DataInit, TableInit DEF FileInv

LEMMA FileInvStep == FileInv /\ [Next]_vars => FileInv'
BY DataStep, TableStep, FilesStep DEF FileInv

LEMMA FileInvHolds == Spec => []FileInv
BY FileInvInit, FileInvStep, PTL DEF Spec

\* The count of an entry is that of the calls that use it, all of one process and path.
LEMMA TableIsExact == FileInv => TableExact
<1>. SUFFICES ASSUME FileInv, NEW c \in Call, pc[c] \in Holding
              PROVE  /\ entry[c] = entries[ProcessOf[c]][path[c]]
                     /\ refs[entry[c]] = Cardinality({d \in Call : pc[d] \in Holding /\ entry[d] = entry[c]
                                                        /\ ProcessOf[d] = ProcessOf[c]})
  BY DEF TableExact
<1>1. entry[c] \in Call /\ entry[c] = entries[ProcessOf[c]][path[c]]
  BY DEF FileInv, TableInv, EntryShown
<1>2. \A d \in Users(entry[c]) : ProcessOf[d] = ProcessOf[c]
  BY UsersTogether DEF FileInv, Users
<1>3. {d \in Call : pc[d] \in Holding /\ entry[d] = entry[c] /\ ProcessOf[d] = ProcessOf[c]}
        = Users(entry[c])
  BY <1>2 DEF Users
<1>. QED
  BY <1>1, <1>3 DEF FileInv, TableInv, RefsExact

LEMMA TypeFollows == FileInv => TypeOK
<1>. SUFFICES ASSUME FileInv PROVE TypeOK
  OBVIOUS
<1>. USE DEF FileInv, DataType
<1>1. DOMAIN disk = Name /\ \A n \in Name : disk[n].mode \in Mode
  BY DEF File_
<1>2. refs \in [Call -> 0 .. Cardinality(Call)]
  <2>1. IsFiniteSet(Call) /\ Cardinality(Call) \in Nat
    BY FileAssumption, FS_CardinalityType
  <2>2. \A e \in Call : refs[e] \in Nat /\ refs[e] <= Cardinality(Call)
    <3>. SUFFICES ASSUME NEW e \in Call PROVE refs[e] \in Nat /\ refs[e] <= Cardinality(Call)
      OBVIOUS
    <3>1. Users(e) \in SUBSET Call
      BY DEF Users
    <3>2. Cardinality(Users(e)) <= Cardinality(Call)
      BY <2>1, <3>1, FS_Subset
    <3>. QED
      BY <3>2 DEF TableInv, RefsExact
  <2>. QED
    BY <2>1, <2>2
<1>. QED
  BY <1>1, <1>2 DEF TypeOK, Stage

\* Through any interleaving of calls, cancellations, failures, crashes and edits, every call
\* in the table's care uses the one entry of its path, whose count is that of these calls,
\* and a temporary file is that of a call about to rename it or of one that crashed.
THEOREM LocksAndTempsExactHolds == Spec => []LocksAndTempsExact
<1>1. FileInv => LocksAndTempsExact
  BY TableIsExact, TypeFollows DEF FileInv, FilesInv, LocksAndTempsExact
<1>. QED
  BY <1>1, FileInvHolds, PTL

-----------------------------------------------------------------------------
(* The file is a compare-and-swap register.                                 *)

Phases == {"new", "asked", "checked", "applied", "refused"}
Want(c) == [old |-> expected[c], new |-> Transform(request[c], expected[c])]

LEMMA PhaseType == \A c : Phase(c) \in Phases /\ Phase(c)' \in Phases
BY DEF Phase, Phases

LEMMA WantType ==
  ASSUME DataType, NEW c \in Call
  PROVE  Want(c) \in [old : Text, new : Text]
<1>1. expected[c] \in Text /\ request[c] \in Request
  BY DEF DataType
<1>2. Transform(request[c], expected[c]) \in Text
  BY <1>1, TransformType
<1>. QED
  BY <1>1, <1>2 DEF Want

LEMMA RegisterInit == FileInv /\ Init => File!Init
<1>. SUFFICES ASSUME FileInv, Init PROVE File!Init
  OBVIOUS
<1>1. disk["real"].content \in Seq(STRING) /\ disk["real"].mode \in {"plain", "exec"}
  BY DEF FileInv, DataType, File_, Mode, Name, Text
<1>2. \A c \in Call : Phase(c) = "new"
  BY DEF Init, Phase
<1>3. \A c \in Call : Want(c) \in [old : Seq(STRING), new : Seq(STRING)]
  BY WantType DEF FileInv, Text
<1>. QED
  BY <1>1, <1>2, <1>3 DEF Init, File!Init, Want

\* A step that leaves the file and what is asked of it alone, and of the phases changes
\* only some to "refused", is a refusal or a stutter of the register.
LEMMA Refuses ==
  ASSUME UNCHANGED <<disk, request, expected, raced>>,
         \A c \in Call : \/ Phase(c)' = Phase(c)
                         \/ Phase(c) \in {"new", "asked", "checked"} /\ Phase(c)' = "refused"
  PROVE  File!Refusals
BY PhaseType DEF File!Refusals, Phases

\* What is asked of the file stays when nobody reads it.
LEMMA WantKept ==
  ASSUME UNCHANGED <<request, expected>>
  PROVE  [c \in Call |-> Want(c)]' = [c \in Call |-> Want(c)]
BY DEF Want

\* A call that leaves on an error is refused, unless it was already.
LEMMA LeaveRefuses ==
  ASSUME DataType, FilesInv, NEW c \in Call, pc[c] \in {"entered", "valid"} \cup Locked, Leave(c),
         UNCHANGED <<disk, request, expected, path, raced>>
  PROVE  File!Refusals
<1>1. /\ \A d \in Call : d # c => Phase(d)' = Phase(d)
      /\ pc'[c] = "leaving" /\ outcome'[c] = "error"
  BY DEF Leave, Set, DataType, Phase
<1>2. outcome[c] = "none"
  BY DEF FilesInv, RegisterInv, NotAnswered, Locked
<1>3. Phase(c) \in {"asked", "checked", "refused"} /\ Phase(c)' = "refused"
  BY <1>1, <1>2 DEF Phase, Locked
<1>. QED
  BY <1>1, <1>3, Refuses

LEMMA ReadAsks ==
  ASSUME FileInv, DataType', NEW c \in Call, FileRead(c)
  PROVE  File!Ask(c)
<1>1. /\ pc[c] = "idle" /\ pc' = [pc EXCEPT ![c] = "read"]
      /\ \E v : expected' = [expected EXCEPT ![c] = v]
      /\ UNCHANGED <<disk, request, path, outcome, raced>>
  BY DEF FileRead, Move, Set, fileVars, ghostVars
<1>2. outcome[c] = "none" /\ path[c] = "real"
  BY <1>1 DEF FileInv, FilesInv, RegisterInv, NotAnswered
<1>3. Phase(c) = "new" /\ Phase(c)' = "asked" /\ \A d \in Call : d # c => Phase(d)' = Phase(d)
  BY <1>1, <1>2 DEF Phase, FileInv, DataType
<1>4. \A d \in Call : d # c => Want(d)' = Want(d)
  BY <1>1 DEF Want, FileInv, DataType
<1>5. Want(c)' \in [old : Seq(STRING), new : Seq(STRING)]
  <2>1. expected'[c] \in Text /\ request'[c] \in Request
    BY DEF DataType
  <2>2. Transform(request'[c], expected'[c]) \in Text
    BY <2>1, TransformType
  <2>. QED
    BY <2>1, <2>2 DEF Want, Text
<1>6. [d \in Call |-> Phase(d)]' = [[d \in Call |-> Phase(d)] EXCEPT ![c] = "asked"]
  BY <1>3
<1>7. [d \in Call |-> Want(d)]' = [[d \in Call |-> Want(d)] EXCEPT ![c] = Want(c)']
  BY <1>4
<1>. QED
  BY <1>1, <1>3, <1>5, <1>6, <1>7 DEF File!Ask, Want

LEMMA RevalidateChecks ==
  ASSUME FileInv, NEW c \in Call, Revalidate(c), ~ Leave(c)
  PROVE  File!Check(c) \/ File!Refusals
<1>1. /\ pc[c] = "written" /\ pc' = [pc EXCEPT ![c] = "valid"]
      /\ Snapshot(path[c]).content = expected[c]
      /\ UNCHANGED <<disk, request, expected, path, outcome, raced>>
  BY DEF Revalidate, Set, argVars, ghostVars
<1>2. outcome[c] = "none"
  BY <1>1 DEF FileInv, FilesInv, RegisterInv, NotAnswered, Locked
<1>3. \A d \in Call : d # c => Phase(d)' = Phase(d)
  BY <1>1 DEF Phase, FileInv, DataType
<1>4. CASE path[c] = "real"
  <2>1. Phase(c) = "asked" /\ Phase(c)' = "checked"
    BY <1>1, <1>2, <1>4 DEF Phase, FileInv, DataType
  <2>2. disk["real"].content = expected[c]
    BY <1>1, <1>4 DEF Snapshot, Target
  <2>3. \A d \in Call : Phase(d) # "checked"
    <3>1. SUFFICES ASSUME NEW d \in Call, Phase(d) = "checked" PROVE FALSE
      OBVIOUS
    <3>2. pc[d] = "valid" /\ path[d] = "real"
      BY <3>1 DEF Phase, FileInv, DataType, Name
    <3>3. c = d
      BY <1>1, <1>4, <3>2, OneAtWork DEF Locked, FileInv, FilesInv
    <3>. QED
      BY <1>1, <3>2, <3>3
  <2>4. [d \in Call |-> Phase(d)]' = [[d \in Call |-> Phase(d)] EXCEPT ![c] = "checked"]
    BY <1>3, <2>1
  <2>. QED
    BY <1>1, <2>1, <2>2, <2>3, <2>4, WantKept DEF File!Check, Want
<1>5. CASE path[c] # "real"
  <2>1. Phase(c) = "refused" /\ Phase(c)' = "refused"
    BY <1>1, <1>2, <1>5 DEF Phase, FileInv, DataType, Name
  <2>. QED
    BY <1>1, <1>3, <2>1, Refuses
<1>. QED
  BY <1>4, <1>5

LEMMA RenameSwaps ==
  ASSUME FileInv, DataType', NEW c \in Call, Rename(c)
  PROVE  File!Swap(c) \/ File!Refusals
<1>1. /\ pc[c] = "valid" /\ pc' = [pc EXCEPT ![c] = "leaving"]
      /\ outcome' = [outcome EXCEPT ![c] = "ok"]
      /\ UNCHANGED <<request, expected, path, raced>>
  BY DEF Rename, Move, Set, argVars, ghostVars
<1>2. PICK t \in temps : /\ t.call = c
                         /\ disk' = [disk EXCEPT ![path[c]] = [content |-> t.content, mode |-> t.mode]]
  BY DEF Rename, Set
<1>3. outcome[c] = "none"
  BY <1>1 DEF FileInv, FilesInv, RegisterInv, NotAnswered, Locked
<1>4. \A d \in Call : d # c => Phase(d)' = Phase(d)
  BY <1>1 DEF Phase, FileInv, DataType
<1>5. CASE path[c] = "real"
  <2>1. Phase(c) = "checked" /\ Phase(c)' = "applied"
    BY <1>1, <1>3, <1>5 DEF Phase, FileInv, DataType
  <2>2. disk'["real"].content = t.content /\ disk'["real"].mode = t.mode /\ t.mode \in {"plain", "exec"}
    BY <1>2, <1>5 DEF FileInv, DataType, Mode, Name
  <2>3. t.content = Transform(request[c], expected[c])
    BY <1>1, <1>2 DEF FileInv, FilesInv, RegisterInv, WorkAsked
  <2>4. \/ c \in raced
        \/ /\ disk["real"].content = expected[c]
           /\ expected[c] = Absent \/ t.mode = disk["real"].mode
    BY <1>1, <1>2, <1>5 DEF FileInv, FilesInv, RegisterInv, StillExpected
  <2>5. [d \in Call |-> Phase(d)]' = [[d \in Call |-> Phase(d)] EXCEPT ![c] = "applied"]
    BY <1>4, <2>1
  <2>. QED
    BY <1>1, <2>1, <2>2, <2>3, <2>4, <2>5, WantKept DEF File!Swap, Want
<1>6. CASE path[c] # "real"
  <2>1. Phase(c) = "refused" /\ Phase(c)' = "refused"
    BY <1>1, <1>3, <1>6 DEF Phase, FileInv, DataType, Name
  <2>2. disk'["real"] = disk["real"]
    BY <1>2, <1>6 DEF FileInv, DataType, Name
  <2>. QED
    BY <1>1, <1>4, <2>1, <2>2, PhaseType DEF File!Refusals, Phases
<1>. QED
  BY <1>5, <1>6

LEMMA RegisterStep == FileInv /\ FileInv' /\ [Next]_vars => [File!Next]_File!vars
<1>. SUFFICES ASSUME FileInv, DataType', [Next]_vars PROVE File!Next
  BY DEF FileInv
<1>. USE DEF fileVars, lockVars, argVars, ghostVars, Move, Set, DataType
<1>0. DataType /\ FilesInv /\ NotAnswered
  BY DEF FileInv, FilesInv, RegisterInv
<1>1. ASSUME NEW c \in Call, FileRead(c) PROVE File!Next
  BY <1>1, ReadAsks DEF File!Next
<1>2. ASSUME NEW c \in Call, Resolve(c) PROVE File!Refusals
  <2>1. \A d \in Call : d # c => Phase(d)' = Phase(d)
    BY <1>0, <1>2 DEF Resolve, Phase
  <2>2. pc[c] = "read" /\ outcome[c] = "none" /\ path[c] = "real"
    BY <1>0, <1>2 DEF Resolve, NotAnswered
  <2>3. Phase(c) = "asked"
    BY <2>2 DEF Phase
  <2>4. pc'[c] \in {"done", "resolved"} /\ outcome'[c] \in {"none", "error"} /\ path'[c] \in Name
    BY <1>0, <1>2 DEF Resolve
  <2>5. Phase(c)' \in {"asked", "refused"}
    BY <2>4 DEF Phase, Name
  <2>. QED
    BY <1>2, <2>1, <2>3, <2>5, Refuses DEF Resolve
<1>3. ASSUME NEW c \in Call, AcquireEntry(c) PROVE File!Refusals
  BY <1>0, <1>3, Refuses DEF AcquireEntry, Phase
<1>4. ASSUME NEW c \in Call, LockEntry(c) PROVE File!Refusals
  BY <1>0, <1>4, Refuses DEF LockEntry, Phase
<1>5. ASSUME NEW c \in Call, Flock(c) PROVE File!Refusals
  BY <1>0, <1>5, Refuses DEF Flock, Phase
<1>6. ASSUME NEW c \in Call, Prepare(c) PROVE File!Refusals
  <2>1. CASE Leave(c)
    BY <1>0, <1>6, <2>1, LeaveRefuses DEF Prepare, Locked
  <2>2. CASE ~ Leave(c)
    <3>1. pc[c] = "locked" /\ pc' = [pc EXCEPT ![c] = "prepared"]
          /\ UNCHANGED <<disk, request, expected, path, outcome, raced>>
      BY <1>6, <2>2 DEF Prepare
    <3>. QED
      BY <1>0, <3>1, Refuses DEF Phase
  <2>. QED
    BY <2>1, <2>2
<1>7. ASSUME NEW c \in Call, WriteTemp(c) PROVE File!Refusals
  BY <1>0, <1>7, Refuses DEF WriteTemp, Phase
<1>8. ASSUME NEW c \in Call, Revalidate(c) PROVE File!Next
  <2>1. CASE Leave(c)
    BY <1>0, <1>8, <2>1, LeaveRefuses DEF Revalidate, Locked, File!Next
  <2>2. CASE ~ Leave(c)
    BY <1>8, <2>2, RevalidateChecks DEF File!Next
  <2>. QED
    BY <2>1, <2>2
<1>9. ASSUME NEW c \in Call, Rename(c) PROVE File!Next
  BY <1>9, RenameSwaps DEF File!Next
<1>10. ASSUME NEW c \in Call, Unlock(c) PROVE File!Refusals
  BY <1>0, <1>10, Refuses DEF Unlock, Phase
<1>11. ASSUME NEW c \in Call, ReleaseEntry(c) PROVE File!Refusals
  BY <1>0, <1>11, Refuses DEF ReleaseEntry, Phase
<1>12. ASSUME NEW c \in Call, DiskFails(c) PROVE File!Refusals
  BY <1>0, <1>12, LeaveRefuses DEF DiskFails, Locked
<1>13. ASSUME NEW c \in Call, Cancel(c) PROVE File!Refusals
  BY <1>13, Refuses DEF Cancel, Phase
<1>14. ASSUME NEW p \in Process, Crash(p) PROVE File!Refusals
  <2>1. \A c \in Call : pc'[c] = pc[c] \/ pc'[c] = "crashed"
    BY <1>14 DEF Crash
  <2>2. UNCHANGED <<disk, request, expected, path, outcome, raced>>
    BY <1>14 DEF Crash
  <2>3. \A c \in Call : \/ Phase(c)' = Phase(c)
                        \/ Phase(c) \in {"new", "asked", "checked"} /\ Phase(c)' = "refused"
    BY <2>1, <2>2 DEF Phase
  <2>. QED
    BY <2>2, <2>3, Refuses
<1>15. ASSUME Edit PROVE File!Outside
  <2>1. \A c \in Call : Phase(c) = "checked" <=> pc[c] = "valid" /\ path[c] = "real"
    BY <1>0 DEF Phase, NotAnswered, Locked, Name
  <2>2. raced' = raced \cup {c \in Call : [d \in Call |-> Phase(d)][c] = "checked"}
    BY <1>15, <2>1 DEF Edit
  <2>3. disk'["real"].content \in Seq(STRING) /\ disk'["real"].mode \in {"plain", "exec"}
    BY DEF File_, Mode, Name, Text
  <2>4. [c \in Call |-> Phase(c)]' = [c \in Call |-> Phase(c)]
    BY <1>15 DEF Edit, Phase
  <2>5. [c \in Call |-> Want(c)]' = [c \in Call |-> Want(c)]
    BY <1>15, WantKept DEF Edit
  <2>. QED
    BY <2>2, <2>3, <2>4, <2>5 DEF File!Outside, Want
<1>16. ASSUME Finished \/ UNCHANGED vars PROVE File!Refusals
  BY <1>16, Refuses DEF Finished, vars, Phase
<1>17. File!Refusals \/ File!Outside => File!Next
  BY DEF File!Next
<1>18. ASSUME NEW c \in Call, Step(c) PROVE File!Next
  <2>. HIDE DEF fileVars, lockVars, argVars, ghostVars, Move, Set, DataType
  <2>. QED
    BY <1>2, <1>3, <1>4, <1>5, <1>6, <1>7, <1>8, <1>9, <1>10, <1>11, <1>17, <1>18 DEF Step
<1>. HIDE DEF fileVars, lockVars, argVars, ghostVars, Move, Set, DataType
<1>. QED
  BY <1>1, <1>12, <1>13, <1>14, <1>15, <1>16, <1>17, <1>18 DEF Next

\* Seen from outside, the calls are those of a compare-and-swap register: each replaces
\* exactly the content it was computed from, at most once, or changes nothing and says so,
\* whatever the interleavings, failures, crashes and edits.
THEOREM FileImplementsRegister == Spec => ImplementsFile
<1>1. Init => File!Init
  BY FileInvInit, RegisterInit
<1>. QED
  BY <1>1, RegisterStep, FileInvHolds, PTL DEF Spec, ImplementsFile, File!Spec
=============================================================================
