------------------------------ MODULE ToolCalls ------------------------------
(***************************************************************************)
(* One terminal session running tool calls: the agent's batch executor      *)
(* (internal/agent/tool_execution.go), the dispatch of a call through plan   *)
(* mode, validation and approval (internal/tools/registry.go), the approval  *)
(* prompt of the terminal UI (cmd/sandbar/main.go, approval_view.go) and the *)
(* synchronous commands of shell_exec (internal/tools/shell.go).            *)
(*                                                                          *)
(* The event loop, the turn's goroutine, every call of its batch, the       *)
(* monitor of every command and the closing of the shell are separate        *)
(* processes.  At most one turn is live at a time: the loop starts the next  *)
(* one only after it has seen the terminal item of the last, so the state    *)
(* of the calls is that of the current turn.  Sub-agents run beside them: one  *)
(* a call waits for, or one in the background that no turn ends.              *)
(***************************************************************************)
EXTENDS ToolCatalog, FiniteSets

CONSTANTS
    Configs,        \* the approval configurations considered
    Batches,        \* the batches of calls a reply may ask for
    SubagentTools,  \* the tools a sub-agent is configured with
    SubagentCalls,  \* the calls a sub-agent may make
    Workers,        \* maxParallelToolCalls
    MaxTurns        \* bound: turns started in a session

ASSUME WorkersAssumption == Workers \in Nat \ {0}

\* SetApprovalConfig takes valid policies only.
ASSUME ConfigsAssumption ==
    \A c \in Configs : /\ \A name \in DOMAIN c.tools : c.tools[name] \in Policies
                       /\ \A tier \in DOMAIN c.tiers : c.tiers[tier] \in Policies

VARIABLES
    cfg,        \* the installed approval configuration
    turns,      \* turns started so far
    plan,       \* the turn runs in plan mode
    batch,      \* its calls: [tool, args]
    active,     \* its goroutine has not sent its terminal item yet
    cancelled,  \* its context is cancelled
    at,         \* where each call is
    reply,      \* the buffered answer in each call's reply channel
    ch,         \* the stream channel: items on their way to the event loop
    ui,         \* the event loop: [streaming, draining, quitting, exited, pending]
    approvals,  \* the prompts it holds, the first one shown: <<turn, call>>
    proc,       \* each call's process: "none", "up" or "gone"
    stopping,   \* the calls whose process was asked to stop
    syncJobs,   \* the commands registered with the shell
    shell,      \* "open", "closing" or "closed"
    detached,   \* a background sub-agent is under way
    kids,       \* the running commands of sub-agents: [turn, call, state], call 0 for
                \* those of one in the background
    yes,        \* history: the calls the user said yes to
    ran         \* history: what crossed into a tool, [call, tool, args, by]

turnVars == <<turns, plan, batch>>
uiVars   == <<ui, approvals>>
procVars == <<proc, stopping, syncJobs>>
subVars  == <<detached, kids>>
callVars == <<cfg, turnVars, active, cancelled, at, reply, ch, uiVars, procVars, shell,
          subVars, yes, ran>>

Calls == DOMAIN batch
Unstarted(b) == [i \in DOMAIN b |-> "idle"]

CallsInit ==
    /\ cfg \in Configs
    /\ turns = 0 /\ plan = FALSE /\ batch = <<>>
    /\ active = FALSE /\ cancelled = FALSE
    /\ at = <<>> /\ reply = <<>> /\ ch = <<>>
    /\ ui = [streaming |-> FALSE, draining |-> FALSE, quitting |-> FALSE,
             exited |-> FALSE, pending |-> 0]
    /\ approvals = <<>>
    /\ proc = <<>> /\ stopping = {} /\ syncJobs = {} /\ shell = "open"
    /\ detached = FALSE /\ kids = {}
    /\ yes = {} /\ ran = {}

----------------------------------------------------------------------------
(* Dispatch *)

\* A sub-agent has the built-in tools it is configured with, and no other; a name
\* that is none of theirs is passed over.
Registry(sub) ==
    LET built == NewRegistry(TRUE) IN
    IF sub THEN Restrict(built, SubagentTools \cap DOMAIN built)
           ELSE [name \in DOMAIN built \cup {"mcp_docs_fetch"} |->
                    IF name \in DOMAIN built THEN built[name] ELSE ForeignTool]

\* executeTool drops a workspace argument; Execute clones the rest.
Arguments(call) == Restrict(call.args, DOMAIN call.args \ {"workspace"})

\* Execute up to the policy: what becomes of a call before anyone is asked.
Verdict(call, config, planning, sub) ==
    IF call.tool \notin DOMAIN Registry(sub) THEN "refused"
    ELSE LET tool == Registry(sub)[call.tool]
             args == Arguments(call)
             tier == ResolvedTier(call.tool, tool, args)
         IN CASE tier = "error" -> "refused"
              [] planning /\ tier # "read" /\ call.tool # "todo" -> "refused"
              [] ~(tool.schema.required \subseteq Given(args)) -> "refused"
              [] ~ConformsTo([t |-> "object", v |-> args], tool.schema) -> "refused"
              [] OTHER -> ResolveApprovalPolicy(config, call.tool, tier)

ParallelBatch ==
    /\ Len(batch) >= 2
    /\ \A i \in Calls : /\ batch[i].tool \in DOMAIN Registry(FALSE)
                        /\ Registry(FALSE)[batch[i].tool].parallel

InFlight == {i \in Calls : at[i] \notin {"idle", "ended"}}

\* A worker takes the next call of the batch.
MayStart(i) ==
    /\ active /\ at[i] = "idle"
    /\ \A j \in 1 .. i - 1 : at[j] # "idle"
    /\ Cardinality(InFlight) < (IF ParallelBatch THEN Workers ELSE 1)

Becomes(i, state) == at' = [at EXCEPT ![i] = state]

Dispatch(i) ==
    /\ MayStart(i)
    /\ LET verdict == Verdict(batch[i], cfg, plan, FALSE) IN
       Becomes(i, IF cancelled \/ verdict \in {"refused", "deny"} THEN "ended"
                  ELSE IF verdict = "prompt" THEN "asking" ELSE "cleared")
    /\ UNCHANGED <<cfg, turnVars, subVars, active, cancelled, reply, ch, uiVars, procVars,
                   shell, yes, ran>>

\* The handler hands the request to the event loop, or gives up.
Ask(i) ==
    /\ at[i] = "asking"
    /\ \/ /\ ch' = Append(ch, [kind |-> "approval", call |-> i])
          /\ Becomes(i, "waiting")
       \/ /\ cancelled
          /\ Becomes(i, "ended")
          /\ UNCHANGED ch
    /\ UNCHANGED <<cfg, turnVars, subVars, active, cancelled, reply, uiVars, procVars,
                   shell, yes, ran>>

\* Mutant: the handler waits for the answer only.
AwaitReply_Deaf(i) ==
    /\ at[i] = "waiting" /\ reply[i] # "none"
    /\ Becomes(i, IF reply[i] = "allow" THEN "cleared" ELSE "ended")
    /\ UNCHANGED <<cfg, turnVars, subVars, active, cancelled, reply, ch, uiVars, procVars,
                   shell, yes, ran>>

\* The handler waits for the answer or for the context: when both are ready
\* select takes either.
AwaitReply(i) ==
    /\ at[i] = "waiting"
    /\ \/ /\ reply[i] # "none"
          /\ Becomes(i, IF reply[i] = "allow" THEN "cleared" ELSE "ended")
       \/ /\ cancelled
          /\ Becomes(i, "ended")
    /\ UNCHANGED <<cfg, turnVars, subVars, active, cancelled, reply, ch, uiVars, procVars,
                   shell, yes, ran>>

\* "by" the turn itself, a sub-agent it waits for, or one in the background.
Log(i, call, by) ==
    ran' = ran \cup {[call |-> i, tool |-> call.tool, args |-> call.args, by |-> by]}

\* Mutant: the context is not looked at again.
Cross_Unchecked(i) ==
    /\ at[i] = "cleared"
    /\ Becomes(i, IF batch[i].tool = "shell_exec" THEN "entering" ELSE "running")
    /\ Log(i, batch[i], "turn")
    /\ UNCHANGED <<cfg, turnVars, subVars, active, cancelled, reply, ch, uiVars, procVars,
                   shell, yes>>

\* The last look at the context, and the step into the tool.
Cross(i) ==
    /\ at[i] = "cleared"
    /\ IF cancelled
       THEN Becomes(i, "ended") /\ UNCHANGED ran
       ELSE /\ Becomes(i, IF batch[i].tool = "shell_exec" THEN "entering" ELSE "running")
            /\ Log(i, batch[i], "turn")
    /\ UNCHANGED <<cfg, turnVars, subVars, active, cancelled, reply, ch, uiVars, procVars,
                   shell, yes>>

----------------------------------------------------------------------------
(* shell_exec *)

\* The segments of the commands considered.
Segments(command) ==
    CASE command = "make"    -> <<<<"make", "test">>>>
      [] command = "tidy"    -> <<<<"rm", "-rf", "/tmp/x">>, <<"sudo", "chmod", "777">>>>
      [] command = "cleanup" -> <<<<"cd", "x">>, <<"rm", "-rf", "/">>>>
      [] OTHER -> <<>>

IsAsync(args) == "async" \in DOMAIN args /\ args["async"].v = TRUE

\* Execute: closed or blocked is an error, an async command is the job
\* supervisor's (JobSupervisor).
EnterShell(i) ==
    /\ at[i] = "entering"
    /\ LET args == Arguments(batch[i]) IN
       Becomes(i, IF \/ shell # "open"
                     \/ CheckBlocked(Segments(StringArg(args, "command")), {})
                     \/ IsAsync(args)
                  THEN "ended" ELSE "starting")
    /\ UNCHANGED <<cfg, turnVars, subVars, active, cancelled, reply, ch, uiVars, procVars,
                   shell, yes, ran>>

\* executeSync starts the process before anyone can find it.
StartCommand(i) ==
    /\ at[i] = "starting"
    /\ IF cancelled
       THEN Becomes(i, "ended") /\ UNCHANGED proc
       ELSE Becomes(i, "registering") /\ proc' = [proc EXCEPT ![i] = "up"]
    /\ UNCHANGED <<cfg, turnVars, subVars, active, cancelled, reply, ch, uiVars, stopping,
                   syncJobs, shell, yes, ran>>

\* Mutant: it is registered with a closed shell as well.
RegisterCommand_Blind(i) ==
    /\ at[i] = "registering"
    /\ syncJobs' = syncJobs \cup {i}
    /\ Becomes(i, "commanding")
    /\ UNCHANGED <<cfg, turnVars, subVars, active, cancelled, reply, ch, uiVars, proc,
                   stopping, shell, yes, ran>>

\* ... and registers it, unless the shell was closed meanwhile.
RegisterCommand(i) ==
    /\ at[i] = "registering"
    /\ IF shell # "open"
       THEN /\ stopping' = stopping \cup {i}
            /\ Becomes(i, "orphaned")
            /\ UNCHANGED syncJobs
       ELSE /\ syncJobs' = syncJobs \cup {i}
            /\ Becomes(i, "commanding")
            /\ UNCHANGED stopping
    /\ UNCHANGED <<cfg, turnVars, subVars, active, cancelled, reply, ch, uiVars, proc,
                   shell, yes, ran>>

\* monitorShellJob: the context ended or the timeout passed.
Monitor(i) ==
    /\ at[i] = "commanding" /\ proc[i] = "up" /\ i \notin stopping
    /\ stopping' = stopping \cup {i}
    /\ UNCHANGED <<cfg, turnVars, subVars, active, cancelled, at, reply, ch, uiVars, proc,
                   syncJobs, shell, yes, ran>>

\* The watcher of executeOneToolCall: a cancelled call interrupts the
\* commands of its owner.
InterruptOwner(i) ==
    /\ cancelled /\ at[i] \in {"entering", "starting", "registering", "commanding"}
    /\ stopping' = stopping \cup {j \in syncJobs : proc[j] = "up"}
    /\ UNCHANGED <<cfg, turnVars, subVars, active, cancelled, at, reply, ch, uiVars, proc,
                   syncJobs, shell, yes, ran>>

\* The process ends by itself, or because it was told to.
ProcessExit(i) ==
    /\ proc[i] = "up"
    /\ proc' = [proc EXCEPT ![i] = "gone"]
    /\ UNCHANGED <<cfg, turnVars, subVars, active, cancelled, at, reply, ch, uiVars,
                   stopping, syncJobs, shell, yes, ran>>

CommandDone(i) ==
    /\ at[i] \in {"commanding", "orphaned"} /\ proc[i] = "gone"
    /\ Becomes(i, "ended")
    /\ syncJobs' = syncJobs \ {i}
    /\ UNCHANGED <<cfg, turnVars, subVars, active, cancelled, reply, ch, uiVars, proc,
                   stopping, shell, yes, ran>>

\* Close, when the session ends: no new command, and every one it knows of is
\* stopped and waited for, for three seconds at most.
CloseShell ==
    /\ ui.exited /\ shell = "open"
    /\ shell' = "closing"
    /\ stopping' = stopping \cup syncJobs
    /\ UNCHANGED <<cfg, turnVars, subVars, active, cancelled, at, reply, ch, uiVars, proc,
                   syncJobs, yes, ran>>
CloseReturns ==
    /\ shell = "closing"
    /\ shell' = "closed"
    /\ UNCHANGED <<cfg, turnVars, subVars, active, cancelled, at, reply, ch, uiVars,
                   procVars, yes, ran>>

----------------------------------------------------------------------------
(* Sub-agents *)

InBackground(i) == "background" \in DOMAIN batch[i].args /\ batch[i].args["background"].v
KidsOf(turn, i) == {k \in kids : k.turn = turn /\ k.call = i}

\* The process a sub-agent's call starts.  It is registered with a shell of the
\* sub-agent's own, which Close and the interrupts of the session do not look into, and
\* which refuses async commands.
Spawned(turn, i, call) ==
    IF /\ call.tool = "shell_exec" /\ ~IsAsync(call.args)
       /\ ~CheckBlocked(Segments(StringArg(call.args, "command")), {})
    THEN {[turn |-> turn, call |-> i, state |-> "held"]} ELSE {}

\* A delegated run calls tools of its own, through a registry of its own, and waits for
\* each.
SubagentCall(i) ==
    /\ at[i] = "running" /\ batch[i].tool = "delegate_task" /\ ~InBackground(i)
    /\ ~cancelled /\ KidsOf(turns, i) = {}
    /\ \E call \in SubagentCalls :
          /\ Verdict(call, SubagentConfig(cfg), plan, TRUE) = "allow"
          /\ Log(i, call, "sub")
          /\ kids' = kids \cup Spawned(turns, i, call)
    /\ UNCHANGED <<cfg, turnVars, active, cancelled, at, reply, ch, uiVars, procVars,
                   shell, detached, yes>>

\* A tool returns.  A delegation does when its run is over, or at once when the turn is
\* cancelled; one in the background when its run was started, or refused.
Return(i) ==
    /\ at[i] = "running"
    /\ KidsOf(turns, i) = {} \/ cancelled
    /\ Becomes(i, "ended")
    /\ kids' = {[k EXCEPT !.state = IF k \in KidsOf(turns, i) /\ @ = "held" THEN "left" ELSE @]
                  : k \in kids}
    /\ detached' \in IF batch[i].tool = "delegate_task" /\ InBackground(i)
                      THEN {detached, TRUE} ELSE {detached}
    /\ UNCHANGED <<cfg, turnVars, active, cancelled, reply, ch, uiVars, procVars, shell,
                   yes, ran>>

\* The background run has a context of its own: no plan mode, and no end of a turn
\* reaches it.
BackgroundCall ==
    /\ detached /\ KidsOf(0, 0) = {}
    /\ \E call \in SubagentCalls :
          /\ Verdict(call, SubagentConfig(cfg), FALSE, TRUE) = "allow"
          /\ Log(0, call, "background")
          /\ kids' = kids \cup Spawned(0, 0, call)
    /\ UNCHANGED <<cfg, turnVars, active, cancelled, at, reply, ch, uiVars, procVars,
                   shell, detached, yes>>

BackgroundEnds ==
    /\ detached /\ KidsOf(0, 0) = {}
    /\ detached' = FALSE
    /\ UNCHANGED <<cfg, turnVars, active, cancelled, at, reply, ch, uiVars, procVars,
                   shell, kids, yes, ran>>

\* Its monitor stops a sub-agent's command: the run's context ended or the timeout
\* passed.
StopKid(k) ==
    /\ k.state # "told"
    /\ kids' = (kids \ {k}) \cup {[k EXCEPT !.state = "told"]}
    /\ UNCHANGED <<cfg, turnVars, active, cancelled, at, reply, ch, uiVars, procVars,
                   shell, detached, yes, ran>>

KidExit(k) ==
    /\ kids' = kids \ {k}
    /\ UNCHANGED <<cfg, turnVars, active, cancelled, at, reply, ch, uiVars, procVars,
                   shell, detached, yes, ran>>

----------------------------------------------------------------------------
(* The turn and the event loop *)

\* The turn's goroutine sends its terminal item.  That of a turn cancelled after its last
\* reply may still be "done".
EndTurn ==
    /\ active
    /\ \A i \in Calls : at[i] = "ended"
    /\ active' = FALSE
    /\ \E kind \in {"done", "err"} :
          ch' = Append(ch, [kind |-> kind])
    /\ UNCHANGED <<cfg, turnVars, subVars, cancelled, at, reply, uiVars, procVars, shell,
                   yes, ran>>

\* An answer goes into the reply channel of its call; it holds one, and a
\* second one is dropped.  An answer to an earlier turn reaches nobody.
Answered(r, e, policy) ==
    IF e[1] = turns /\ r[e[2]] = "none" THEN [r EXCEPT ![e[2]] = policy] ELSE r
ClearApprovals ==
    [i \in DOMAIN reply |->
        IF reply[i] = "none" /\ \E k \in DOMAIN approvals : approvals[k] = <<turns, i>>
        THEN "deny" ELSE reply[i]]

\* startStream, with the loop in state u.
StartStream(u) ==
    /\ turns < MaxTurns
    /\ \E b \in Batches, p \in BOOLEAN :
          /\ batch' = b /\ plan' = p
          /\ at' = Unstarted(b)
          /\ reply' = [i \in DOMAIN b |-> "none"]
          /\ proc' = [i \in DOMAIN b |-> "none"]
    /\ turns' = turns + 1
    /\ active' = TRUE /\ cancelled' = FALSE
    /\ ch' = <<>> /\ approvals' = <<>>
    /\ stopping' = {} /\ syncJobs' = {} /\ yes' = {} /\ ran' = {}
    /\ ui' = [u EXCEPT !.streaming = TRUE]
    /\ UNCHANGED <<cfg, shell, subVars>>

Send == ~ui.exited /\ ~ui.streaming /\ turns + ui.pending < MaxTurns /\ StartStream(ui)

\* A message typed during a turn waits for its end (at most one is kept here).
Stash ==
    /\ ~ui.exited /\ ui.streaming /\ approvals = <<>> /\ ui.pending = 0 /\ turns < MaxTurns
    /\ ui' = [ui EXCEPT !.pending = 1]
    /\ UNCHANGED <<cfg, turnVars, subVars, active, cancelled, at, reply, ch, approvals,
                   procVars, shell, yes, ran>>

LoopUp == ~ui.exited /\ ui.streaming /\ ch # <<>>
NextItem == Head(ch)

\* The loop takes an approval request: it queues it, or denies it when the
\* turn it comes from is being drained.
TakeApproval ==
    /\ LoopUp /\ NextItem.kind = "approval"
    /\ ch' = Tail(ch)
    /\ LET e == <<turns, NextItem.call>> IN
       IF ui.draining
       THEN reply' = Answered(reply, e, "deny") /\ UNCHANGED approvals
       ELSE approvals' = Append(approvals, e) /\ UNCHANGED reply
    /\ UNCHANGED <<cfg, turnVars, subVars, active, cancelled, at, ui, procVars, shell,
                   yes, ran>>

\* The terminal item of a turn that is being drained: quit, or send what
\* waits.
TakeDrained ==
    /\ LoopUp /\ NextItem.kind # "approval" /\ ui.draining
    /\ LET idle == [ui EXCEPT !.streaming = FALSE, !.draining = FALSE] IN
       IF ~ui.quitting /\ ui.pending = 1
       THEN StartStream([idle EXCEPT !.pending = 0])
       ELSE /\ ui' = [idle EXCEPT !.exited = ui.quitting]
            /\ ch' = Tail(ch)
            /\ UNCHANGED <<cfg, turnVars, subVars, active, cancelled, at, reply,
                           approvals, procVars, shell, yes, ran>>

\* Mutant: the prompts of a turn that ended stay.
TakeTerminal_Keeps ==
    /\ LoopUp /\ NextItem.kind # "approval" /\ ~ui.draining
    /\ LET idle == [ui EXCEPT !.streaming = FALSE] IN
       IF NextItem.kind = "done" /\ ui.pending = 1
       THEN StartStream([idle EXCEPT !.pending = 0])
       ELSE /\ ui' = idle
            /\ ch' = Tail(ch)
            /\ UNCHANGED <<cfg, turnVars, subVars, active, cancelled, at, reply,
                           approvals, procVars, shell, yes, ran>>

\* The terminal item of the live turn: the prompts left are denied, and after
\* "done" a waiting message is sent.
TakeTerminal ==
    /\ LoopUp /\ NextItem.kind # "approval" /\ ~ui.draining
    /\ LET idle == [ui EXCEPT !.streaming = FALSE] IN
       IF NextItem.kind = "done" /\ ui.pending = 1
       THEN StartStream([idle EXCEPT !.pending = 0])
       ELSE /\ ui' = idle
            /\ ch' = Tail(ch)
            /\ reply' = ClearApprovals
            /\ approvals' = <<>>
            /\ UNCHANGED <<cfg, turnVars, subVars, active, cancelled, at, procVars, shell,
                           yes, ran>>

----------------------------------------------------------------------------
(* Keys *)

\* Mutant: the key answers the prompt that came last.
ResolveCurrent_Newest(policy) ==
    /\ reply' = Answered(reply, Last(approvals), policy)
    /\ approvals' = Front(approvals)

\* The key answers the prompt that is shown.
ResolveCurrent(policy) ==
    /\ reply' = Answered(reply, Head(approvals), policy)
    /\ approvals' = Tail(approvals)

Prompted == ~ui.exited /\ approvals # <<>>

KeyYes ==
    /\ Prompted
    /\ ResolveCurrent("allow")
    /\ yes' = IF Head(approvals)[1] = turns THEN yes \cup {Head(approvals)[2]} ELSE yes
    /\ UNCHANGED <<cfg, turnVars, subVars, active, cancelled, at, ch, ui, procVars, shell,
                   ran>>

KeyNo ==
    /\ Prompted
    /\ ResolveCurrent("deny")
    /\ UNCHANGED <<cfg, turnVars, subVars, active, cancelled, at, ch, ui, procVars, shell,
                   yes, ran>>

\* ctrl+c cancels the turn, ctrl+d also leaves; the other prompts stay.
KeyCancelPrompt ==
    /\ Prompted
    /\ ResolveCurrent("deny")
    /\ cancelled' = (cancelled \/ ui.streaming)
    /\ ui' \in {ui, [ui EXCEPT !.quitting = TRUE, !.draining = TRUE]}
    /\ UNCHANGED <<cfg, turnVars, subVars, active, at, ch, procVars, shell, yes, ran>>

\* esc, ctrl+c and ctrl+d with no prompt.
KeyInterrupt ==
    /\ ~ui.exited /\ approvals = <<>> /\ ui.streaming
    /\ \/ /\ ~ui.draining
          /\ ui' = [ui EXCEPT !.draining = TRUE]                      \* esc
       \/ /\ ui' = IF ui.draining THEN [ui EXCEPT !.quitting = TRUE]  \* ctrl+c
                                  ELSE ui
       \/ ui' = [ui EXCEPT !.draining = TRUE, !.quitting = TRUE]      \* ctrl+d
    /\ cancelled' = TRUE
    /\ UNCHANGED <<cfg, turnVars, subVars, active, at, reply, ch, approvals, procVars,
                   shell, yes, ran>>

\* ctrl+c or ctrl+d when idle, or the two-second tick after a quit.
Quit ==
    /\ ~ui.exited
    /\ ui.quitting \/ (~ui.streaming /\ approvals = <<>>)
    /\ ui' = [ui EXCEPT !.exited = TRUE]
    /\ UNCHANGED <<cfg, turnVars, subVars, active, cancelled, at, reply, ch, approvals,
                   procVars, shell, yes, ran>>

----------------------------------------------------------------------------
Advance(i) ==
    \/ Dispatch(i) \/ Ask(i) \/ AwaitReply(i) \/ Cross(i) \/ Return(i)
    \/ EnterShell(i) \/ StartCommand(i) \/ RegisterCommand(i) \/ Monitor(i) \/ CommandDone(i)

Pump == TakeApproval \/ TakeDrained \/ TakeTerminal

Keys == Send \/ Stash \/ KeyYes \/ KeyNo \/ KeyCancelPrompt \/ KeyInterrupt

CallsNext ==
    \/ \E i \in Calls : Advance(i) \/ SubagentCall(i) \/ InterruptOwner(i) \/ ProcessExit(i)
    \/ \E k \in kids : StopKid(k) \/ KidExit(k)
    \/ BackgroundCall \/ BackgroundEnds
    \/ EndTurn \/ Pump \/ Keys \/ Quit \/ CloseShell \/ CloseReturns

\* Goroutines run on, the timeout of a command fires, a process that was told
\* to stop is killed in the end and the loop reads its channel.  Keys, an
\* answer and the natural end of a command are not promised.
CallNumbers == UNION {DOMAIN b : b \in Batches}
Fairness ==
    /\ \A i \in CallNumbers :
          /\ WF_callVars(i \in Calls /\ Advance(i))
          /\ WF_callVars(i \in Calls /\ i \in stopping /\ ProcessExit(i))
    /\ WF_callVars(EndTurn)
    /\ WF_callVars(Pump)

CallsSpec == CallsInit /\ [][CallsNext]_callVars /\ Fairness

----------------------------------------------------------------------------
(* Properties *)

\* The rule the configuration has for a call: its tool's own, else its tier's.
RuleFor(r) ==
    LET tier == ResolvedTier(r.tool, Registry(FALSE)[r.tool], Arguments(r)) IN
    CASE r.tool \in DOMAIN cfg.tools -> cfg.tools[r.tool]
      [] r.tool \notin DOMAIN cfg.tools /\ tier \in DOMAIN cfg.tiers -> cfg.tiers[tier]
      [] OTHER -> "none"

\* Whatever crosses into a tool was allowed to: a deny rule holds for the turn
\* and for the sub-agents below it; a call that must be asked about ran only
\* after the user said yes to that very call, not to another prompt that was
\* queued beside it; a plan turn, the sub-agents it waits for included, runs read-tier
\* tools and the todo list only.  registry.go Execute, approval_view.go
\* resolveCurrentApproval, agent.go SpawnSubagent.
RunsAuthorised ==
    \A r \in ran :
        LET tier == ResolvedTier(r.tool, Registry(FALSE)[r.tool], Arguments(r))
            mustAsk == \/ RuleFor(r) = "prompt"
                       \/ /\ RuleFor(r) = "none"
                          /\ \/ cfg.mode = "always-ask" /\ tier # "read"
                             \/ cfg.mode = "write" /\ tier = "exec"
        IN /\ RuleFor(r) # "deny"
           /\ mustAsk /\ r.by = "turn" => r.call \in yes
           /\ plan /\ r.by # "background" => tier = "read" \/ r.tool = "todo"

\* A cancelled turn starts no further tool, nor does a sub-agent it waits for, even when
\* a yes was already in the reply channel and the handler's select took it (registry.go
\* Execute, "an approval cannot revive a cancelled operation").
NoRevival ==
    [][cancelled /\ cancelled' => \A r \in ran' \ ran : r.by = "background"]_callVars

\* The prompt swallows every key while it is up, so it must belong to a turn
\* that can still end: no prompt outlives its turn, and an idle session shows
\* none.  main.go Update ("done", "err", stale items, ctrl+c, ctrl+d).
ModalIsLive ==
    ~ui.exited /\ approvals # <<>> =>
        ui.streaming /\ \A k \in DOMAIN approvals : approvals[k][1] = turns

OwnReachable ==
    \A i \in Calls : proc[i] = "up" =>
        \/ i \in stopping
        \/ at[i] = "registering"
        \/ i \in syncJobs /\ shell = "open"
KidsWaitedFor ==
    \A k \in kids : k.call # 0 /\ k.state = "held" =>
        k.turn = turns /\ k.call \in Calls /\ at[k.call] = "running"

\* Every running command of a turn is reachable.  One of its own was told to stop, or its
\* call is about to register it, or it is registered while the shell can still be closed,
\* so none outlives Close unnoticed; one of a sub-agent it delegated to was told to stop,
\* or the turn's call is waiting for it, or left it because the turn was cancelled, which
\* its monitor sees.  A background sub-agent's commands are no turn's and are not
\* promised.  shell.go executeSync, Close; delegate.go delegateTask.
CommandsReachable == OwnReachable /\ KidsWaitedFor

\* A turn that was cancelled ends and gives the input back, whatever its
\* calls were waiting for: a prompt nobody answered, a queued prompt, a
\* command that ignores its interrupt.
CancelledTurnEnds == (cancelled /\ ui.streaming) ~> (~cancelled \/ ~ui.streaming \/ ui.exited)
=============================================================================
