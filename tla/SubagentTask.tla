---------------------------- MODULE SubagentTask ----------------------------
(***************************************************************************)
(* Sub-agent tasks: the delegate_task and resume_task calls of the parents *)
(* (internal/tools/delegate.go), the goroutine that runs a sub-agent       *)
(* (SpawnSubagent and ResumeSubagent in internal/agent/agent.go), its row  *)
(* in subagent_tasks, the fan-out limits of tropical mode (tropical.go)    *)
(* and the poller that reports a background task to the user interface.    *)
(*                                                                         *)
(* A run is one call of either tool with the goroutine it starts; a task   *)
(* is named by the run that created it.  Of the conversation only the      *)
(* number of provider calls is kept.  Every turn is a tropical one.        *)
(***************************************************************************)
EXTENDS Integers, Sequences, FiniteSets

CONSTANTS
  Thread,         \* threads whose turns delegate
  Script,         \* bound: the sequences of calls explored
  MaxConcurrent,  \* subagent.tropical_max_concurrent, per thread
  MaxTotal,       \* subagent.tropical_max_total_per_turn
  MaxTurns,       \* subagent.max_turns, given a positive value
  ResumeTurns,    \* defaultResumeTurns
  Faults          \* what may go wrong: "insert", "update", "crash"

ASSUME SubagentAssumption ==
  /\ Thread # {}
  /\ Script \subseteq Seq({"delegate", "background", "resume"})
  /\ MaxConcurrent \in Nat /\ MaxTotal \in Nat
  /\ MaxTurns \in Nat \ {0} /\ ResumeTurns \in Nat \ {0}
  /\ Faults \subseteq {"insert", "update", "crash"}

Run == UNION {DOMAIN s : s \in Script}
Old == 0   \* a task of an earlier process: lost in a crash, or at its cap
Task == Run \cup {Old}

VARIABLES
  status, saved,  \* subagent_tasks: status and turn of each task
  launched,       \* how many runs there are
  thread, kind, task,   \* of a run: whose it is, what it is and of which task
  pc,             \* the call until the sub-agent starts, then the sub-agent
  base, count,    \* of a run: provider calls before it, and its own
  persist,        \* runs whose sub-agent writes its row
  event,          \* the terminal event in a run's channel: "none", "done", "error"
  told,           \* the outcome of the call for the parent; "none" while it waits
  dead,           \* runs whose context is done
  cancelled,      \* threads whose current turn is cancelled
  inflight, spent,   \* TropicalLimiter and TropicalTotal of each thread
  resuming,       \* Agent.resuming
  announced,      \* background runs whose start event is on its way to the interface
  polled,         \* background tasks whose result the interface waits for
  report,         \* what became of a background task for the interface: the outcome it
                  \* read, or "error", "timeout", "unheard", "lost"; "none" before
  overlap,        \* tasks read for a resume while a run of them was alive (history)
  unsaved,        \* tasks with a run that ended without writing its row (history)
  asked           \* provider calls made for each task, in all its runs (history)

rowVars == <<status, saved>>
callVars == <<launched, thread, kind, task, told, cancelled, dead>>
runVars == <<pc, base, count, persist, event>>
poolVars == <<inflight, spent, resuming>>
uiVars == <<announced, polled, report>>
historyVars == <<overlap, unsaved, asked>>
vars == <<rowVars, callVars, runVars, poolVars, uiVars, historyVars>>

May(fault) == fault \in Faults
Set(f, x, v) == [f EXCEPT ![x] = v]
Move(r, from, to) == pc[r] = from /\ pc' = Set(pc, r, to)

Background(r) == kind[r] = "background"

\* Between what a run read or inserted and what it writes back.
Working == {"guard", "top", "tools", "answer", "record", "error", "fail"}
Alive(t) == {r \in Run : kind[r] # "none" /\ task[r] = t /\ pc[r] \in Working}

Init ==
  /\ status \in {[t \in Task |-> IF t = Old THEN s ELSE "none"] :
                    s \in {"running", "failed"}}
  /\ saved = [t \in Task |-> IF status[t] = "failed" THEN MaxTurns ELSE 0]
  /\ launched = 0
  /\ thread = [r \in Run |-> CHOOSE th \in Thread : TRUE]
  /\ kind = [r \in Run |-> "none"] /\ task = [r \in Run |-> 0]
  /\ pc = [r \in Run |-> "none"]
  /\ base = [r \in Run |-> 0] /\ count = [r \in Run |-> 0]
  /\ persist = {}
  /\ event = [r \in Run |-> "none"] /\ told = [r \in Run |-> "none"]
  /\ dead = {} /\ cancelled = {}
  /\ inflight = [th \in Thread |-> 0] /\ spent = [th \in Thread |-> 0]
  /\ resuming = {}
  /\ announced = {} /\ polled = {} /\ report = [r \in Run |-> "none"]
  /\ overlap = {} /\ unsaved = {t \in Task : status[t] = "running"}
  /\ asked = saved

-----------------------------------------------------------------------------
(* The parent's calls.  Delegations of one batch run concurrently, a resume *)
(* runs by itself.                                                          *)

Waiting(th) == {r \in Run : kind[r] # "none" /\ thread[r] = th /\ told[r] = "none"}

Scripted(r, k) ==
  \E s \in Script : /\ r \in DOMAIN s /\ s[r] = k
                   /\ \A q \in 1 .. (r - 1) : s[q] = kind[q]

Launch(th, k, t, start) ==
  LET r == launched + 1 IN
  /\ Scripted(r, k) /\ th \notin cancelled
  /\ launched' = r
  /\ thread' = Set(thread, r, th) /\ kind' = Set(kind, r, k) /\ task' = Set(task, r, t)
  /\ pc' = Set(pc, r, start)
  /\ UNCHANGED <<rowVars, told, cancelled, dead, base, count, persist,
                 event, poolVars, uiVars, historyVars>>

Delegate(th) ==
  /\ \A r \in Waiting(th) : kind[r] # "resume"
  /\ \/ Launch(th, "delegate", launched + 1, "spawn")
     \/ Launch(th, "background", launched + 1, "total")

\* A parent resumes a task whose id some call gave it, now or before.
Known(t) ==
  \/ t = Old
  \/ t \in Run /\ kind[t] \in {"delegate", "background"}
              /\ told[t] \in {"answer", "interrupted", "failed", "background"}

Resume(th, t) ==
  /\ Waiting(th) = {}
  /\ Known(t)
  /\ Launch(th, "resume", t, "load")

Refuse(r) == told' = Set(told, r, "refused")

\* TropicalTotal.TryIncrement, then TropicalLimiter.TryAcquire.
CountSpawn(r) ==
  LET th == thread[r] IN
  /\ pc[r] = "total"
  /\ IF spent[th] >= MaxTotal
     THEN pc' = Set(pc, r, "gone") /\ Refuse(r) /\ UNCHANGED spent
     ELSE pc' = Set(pc, r, "slot") /\ spent' = Set(spent, th, spent[th] + 1) /\ UNCHANGED told
  /\ UNCHANGED <<rowVars, launched, thread, kind, task, cancelled, dead, base, count,
                 persist, event, inflight, resuming, uiVars, historyVars>>

SlotFree(th) == inflight[th] < MaxConcurrent

AcquireSlot(r) ==
  LET th == thread[r] IN
  /\ pc[r] = "slot"
  /\ IF SlotFree(th)
     THEN pc' = Set(pc, r, "spawn") /\ inflight' = Set(inflight, th, inflight[th] + 1)
          /\ UNCHANGED told
     ELSE pc' = Set(pc, r, "gone") /\ Refuse(r) /\ UNCHANGED inflight
  /\ UNCHANGED <<rowVars, launched, thread, kind, task, cancelled, dead, base, count,
                 persist, event, spent, resuming, uiVars, historyVars>>

\* TropicalLimiter.Release.
Release(r) ==
  inflight' = IF inflight[thread[r]] > 0
              THEN Set(inflight, thread[r], inflight[thread[r]] - 1) ELSE inflight

GiveBack_Kept(r) == UNCHANGED inflight                                \* mutant
GiveBack(r) == IF Background(r) THEN Release(r) ELSE UNCHANGED inflight

\* SpawnSubagent fails before its goroutine starts; a background call gives its
\* slot back.
SpawnFails(r) ==
  /\ Move(r, "spawn", "gone")
  /\ Refuse(r)
  /\ GiveBack(r)
  /\ UNCHANGED <<rowVars, launched, thread, kind, task, cancelled, dead, base, count,
                 persist, event, spent, resuming, uiVars, historyVars>>

\* SpawnSubagent inserts the row, or goes on without one, and starts.  A
\* background call sends its start event and returns at once; the event of a turn that
\* was cancelled may go nowhere.
Announce(r) ==
  \/ announced' = announced \cup {r} /\ UNCHANGED report
  \/ /\ thread[r] \in cancelled
     /\ report' = Set(report, r, "unheard") /\ UNCHANGED announced

Spawn(r) ==
  /\ Move(r, "spawn", "top")
  /\ \/ status' = Set(status, r, "running") /\ persist' = persist \cup {r}
     \/ May("insert") /\ UNCHANGED <<status, persist>>
  /\ IF Background(r)
     THEN told' = Set(told, r, "background") /\ Announce(r)
     ELSE UNCHANGED <<told, announced, report>>
  /\ UNCHANGED <<saved, launched, thread, kind, task, cancelled, dead, base, count,
                 event, poolVars, polled, historyVars>>

\* ResumeSubagent reads the row: a completed task is answered from it.
Settled(t) == status[t] = "completed"

Load(r) ==
  LET t == task[r] IN
  /\ pc[r] = "load"
  /\ IF status[t] = "none" \/ Settled(t)
     THEN /\ pc' = Set(pc, r, "gone")
          /\ told' = Set(told, r, IF status[t] = "none" THEN "refused" ELSE "stored")
          /\ UNCHANGED <<base, overlap>>
     ELSE /\ pc' = Set(pc, r, "guard")
          /\ base' = Set(base, r, saved[t])
          /\ overlap' = IF Alive(t) = {} THEN overlap ELSE overlap \cup {t}
          /\ UNCHANGED told
  /\ UNCHANGED <<rowVars, launched, thread, kind, task, cancelled, dead, count, persist,
                 event, poolVars, uiVars, unsaved, asked>>

\* A model that cannot be resolved, or another resume that is under way.
ResumeFails(r) ==
  /\ Move(r, "guard", "gone")
  /\ Refuse(r)
  /\ UNCHANGED <<rowVars, launched, thread, kind, task, cancelled, dead, base, count,
                 persist, event, poolVars, uiVars, historyVars>>

GuardFree_ByStatus(r) == status[task[r]] # "completed"                \* mutant
GuardFree(r) == task[r] \notin resuming

TakeGuard(r) ==
  /\ Move(r, "guard", "top")
  /\ GuardFree(r)
  /\ resuming' = resuming \cup {task[r]}
  /\ persist' = persist \cup {r}
  /\ UNCHANGED <<rowVars, callVars, base, count, event, inflight, spent, uiVars,
                 historyVars>>

-----------------------------------------------------------------------------
(* The sub-agent's goroutine.                                               *)

Exhausted(n) == n >= MaxTurns
Budget(r) == IF Exhausted(base[r]) THEN ResumeTurns ELSE MaxTurns - base[r]

\* A provider call, unless the budget is spent: it answers, with or without text,
\* asks for tools, or fails, as it does when the context is done.
AskModel(r) ==
  /\ IF count[r] >= Budget(r)
     THEN Move(r, "top", "error") /\ UNCHANGED <<count, asked>>
     ELSE /\ \E next \in {"answer", "tools", "error"} : Move(r, "top", next)
          /\ count' = Set(count, r, count[r] + 1)
          /\ asked' = Set(asked, task[r], asked[task[r]] + 1)
  /\ UNCHANGED <<rowVars, callVars, base, persist, event, poolVars, uiVars, overlap, unsaved>>

\* The calls are announced and run, and the next round begins, or the loop guard
\* ends the run.
RunTools(r) ==
  /\ Move(r, "tools", "top") \/ Move(r, "tools", "error")
  /\ UNCHANGED <<rowVars, callVars, base, count, persist, event, poolVars, uiVars,
                 historyVars>>

\* A run whose context is done may fail to send a call, a result or the text of
\* its answer: it ends without a word to the parent and without touching its row.
GiveUp(r) ==
  /\ r \in dead
  /\ Move(r, "tools", "closing") \/ Move(r, "answer", "closing")
  /\ unsaved' = unsaved \cup {task[r]}
  /\ UNCHANGED <<rowVars, callVars, base, count, persist, event, poolVars, uiVars, overlap, asked>>

\* sendDone and sendError: the event, delivered or not...
SendEvent(r) ==
  /\ \/ Move(r, "answer", "record") /\ event' = Set(event, r, "done")
     \/ Move(r, "error", "fail") /\ event' = Set(event, r, "error")
     \/ /\ r \in dead
        /\ Move(r, "answer", "record") \/ Move(r, "error", "fail")
        /\ UNCHANGED event
  /\ UNCHANGED <<rowVars, callVars, base, count, persist, poolVars, uiVars, historyVars>>

\* ...then the row, for a run that has one.
Write(r, s) ==
  \/ /\ r \in persist
     /\ status' = Set(status, task[r], s)
     /\ saved' = Set(saved, task[r], base[r] + count[r])
     /\ UNCHANGED unsaved
  \/ /\ r \notin persist \/ May("update")
     /\ unsaved' = unsaved \cup {task[r]}
     /\ UNCHANGED rowVars

RecordDone(r) ==
  /\ Move(r, "record", "closing")
  /\ Write(r, "completed")
  /\ UNCHANGED <<callVars, base, count, persist, event, poolVars, uiVars, overlap, asked>>

RecordError(r) ==
  /\ Move(r, "fail", "closing")
  /\ Write(r, IF r \in dead THEN "interrupted" ELSE "failed")
  /\ UNCHANGED <<callVars, base, count, persist, event, poolVars, uiVars, overlap, asked>>

\* The goroutine ends: the guard of a resume is released, the channel closed.
CloseChannel(r) ==
  /\ Move(r, "closing", "closed")
  /\ resuming' = IF kind[r] = "resume" THEN resuming \ {task[r]} ELSE resuming
  /\ UNCHANGED <<rowVars, callVars, base, count, persist, event, inflight, spent,
                 uiVars, historyVars>>

\* The drainer of a background run sees its channel close.
Drained(r) ==
  /\ Background(r)
  /\ Move(r, "closed", "gone")
  /\ Release(r)
  /\ UNCHANGED <<rowVars, callVars, base, count, persist, event, spent, resuming,
                 uiVars, historyVars>>

-----------------------------------------------------------------------------
(* What the parent makes of it.                                             *)

Open(r) == kind[r] \in {"delegate", "resume"} /\ told[r] = "none"
Started(r) == pc[r] \in (Working \ {"guard"}) \cup {"closing", "closed"}

Answered_OnEvent(r) == event[r] = "done"                              \* mutant
Answered(r) ==
  pc[r] = "closed" /\ event[r] # "error" /\ (event[r] = "done" \/ r \notin dead)

\* The terminal event, or the end of the channel, reaches the parent; when the
\* turn is cancelled it may stop listening at any moment.
Hear(r) ==
  /\ Open(r) /\ Started(r)
  /\ \/ r \in dead /\ told' = Set(told, r, "interrupted")
     \/ /\ event[r] = "error"
        /\ told' = Set(told, r, IF r \in dead THEN "interrupted" ELSE "failed")
     \/ Answered(r) /\ told' = Set(told, r, "answer")
  /\ UNCHANGED <<rowVars, launched, thread, kind, task, cancelled, dead, runVars, poolVars,
                 uiVars, historyVars>>

\* Background runs are detached from the turn that started them.
Attached(th) == {r \in Run : kind[r] \in {"delegate", "resume"} /\ thread[r] = th}

\* The turn is cancelled during a call.  (Between calls that is its end.)  The interface
\* drops what it has not yet taken of it.
Cancel(th) ==
  /\ Waiting(th) # {} /\ th \notin cancelled
  /\ cancelled' = cancelled \cup {th}
  /\ dead' = dead \cup Attached(th)
  /\ \E dropped \in SUBSET {r \in announced : thread[r] = th} :
       /\ announced' = announced \ dropped
       /\ report' = [r \in Run |-> IF r \in dropped THEN "unheard" ELSE report[r]]
  /\ UNCHANGED <<rowVars, launched, thread, kind, task, told, runVars, poolVars, polled,
                 historyVars>>

\* The turn ends, its context with it, and the next turn has a fresh total.
EndTurn(th) ==
  /\ Waiting(th) = {}
  /\ cancelled' = cancelled \ {th}
  /\ dead' = dead \cup Attached(th)
  /\ spent' = Set(spent, th, 0)
  /\ UNCHANGED <<rowVars, launched, thread, kind, task, told, runVars, inflight, resuming,
                 uiVars, historyVars>>

\* The start event of a background run reaches the interface, which begins to poll.
Register(r) ==
  /\ r \in announced
  /\ announced' = announced \ {r} /\ polled' = polled \cup {r}
  /\ UNCHANGED <<rowVars, callVars, runVars, poolVars, report, historyVars>>

StopPolling(r, outcome) ==
  /\ r \in polled
  /\ polled' = polled \ {r} /\ report' = Set(report, r, outcome)
  /\ UNCHANGED <<rowVars, callVars, runVars, poolVars, announced, historyVars>>

Over_Completed(r) == status[r] = "completed"                          \* mutant
Over(r) == status[r] # "running"

\* pollBackgroundTask reports what the row says once that is not "running"; without a
\* row there is nothing but an error to report.
Poll(r) == Over(r) /\ StopPolling(r, IF status[r] = "none" THEN "error" ELSE status[r])

\* An hour after it began, whatever the row has come to say since it was last read.
Deadline(r) == StopPolling(r, "timeout")

Watch(r) == Register(r) \/ Poll(r) \/ Deadline(r)

\* The process dies: the rows stay.
Crash ==
  /\ May("crash")
  /\ launched > 0
  /\ pc' = [r \in Run |-> IF kind[r] = "none" THEN "none" ELSE "gone"]
  /\ told' = [r \in Run |-> IF told[r] = "none" /\ kind[r] # "none" THEN "interrupted"
                            ELSE told[r]]
  /\ unsaved' = unsaved \cup {t \in Task : Alive(t) # {}}
  /\ dead' = {} /\ cancelled' = {} /\ resuming' = {}
  /\ announced' = {} /\ polled' = {}
  /\ report' = [r \in Run |-> IF r \in announced \cup polled THEN "lost" ELSE report[r]]
  /\ inflight' = [th \in Thread |-> 0] /\ spent' = [th \in Thread |-> 0]
  /\ UNCHANGED <<rowVars, launched, thread, kind, task, base, count, persist, event, overlap,
                 asked>>

-----------------------------------------------------------------------------
RunStep(r) ==
  \/ CountSpawn(r) \/ AcquireSlot(r) \/ SpawnFails(r) \/ Spawn(r)
  \/ Load(r) \/ ResumeFails(r) \/ TakeGuard(r)
  \/ AskModel(r) \/ RunTools(r) \/ GiveUp(r)
  \/ SendEvent(r) \/ RecordDone(r) \/ RecordError(r) \/ CloseChannel(r) \/ Drained(r)

Next ==
  \/ \E th \in Thread :
       Delegate(th) \/ Cancel(th) \/ EndTurn(th) \/ \E t \in Task : Resume(th, t)
  \/ \E r \in Run : RunStep(r) \/ Hear(r) \/ Watch(r)
  \/ Crash

Spec == Init /\ [][Next]_vars

(* Goroutines run on: provider calls and tools return, the parent and the    *)
(* poller read what there is to read.  Every run is finite, so that it is     *)
(* enough that some goroutine makes a step.                                  *)
FairSpec == Spec /\ WF_vars(\E r \in Run : RunStep(r) \/ Hear(r) \/ Register(r) \/ Poll(r))

-----------------------------------------------------------------------------
(* Properties.                                                              *)

WatchTypeOK ==
  /\ announced \subseteq Run /\ polled \subseteq Run
  /\ report \in [Run -> {"none", "completed", "failed", "interrupted", "error", "timeout",
                        "unheard", "lost"}]

TypeOK ==
  /\ status \in [Task -> {"none", "running", "completed", "failed", "interrupted"}]
  /\ saved \in [Task -> Nat] /\ launched \in Run \cup {0}
  /\ thread \in [Run -> Thread]
  /\ kind \in [Run -> {"none", "delegate", "background", "resume"}]
  /\ task \in [Run -> Task]
  /\ pc \in [Run -> {"none", "total", "slot", "spawn", "load", "gone", "closing", "closed"}
                    \cup Working]
  /\ base \in [Run -> Nat] /\ count \in [Run -> 0 .. MaxTurns + ResumeTurns]
  /\ event \in [Run -> {"none", "done", "error"}]
  /\ told \in [Run -> {"none", "refused", "background", "stored", "answer", "interrupted",
                      "failed"}]
  /\ persist \subseteq Run /\ dead \subseteq Run /\ cancelled \subseteq Thread
  /\ inflight \in [Thread -> 0 .. MaxConcurrent] /\ spent \in [Thread -> 0 .. MaxTotal]
  /\ resuming \subseteq Task /\ WatchTypeOK
  /\ overlap \subseteq Task /\ unsaved \subseteq Task /\ asked \in [Task -> Nat]

\* The limiter counts exactly the background runs that are under way, however
\* they start, fail or end and whatever turn they belong to.
Holders(th) == {r \in Run : /\ Background(r) /\ thread[r] = th
                            /\ pc[r] \notin {"total", "slot", "gone"}}
SlotsExact == \A th \in Thread : inflight[th] = Cardinality(Holders(th))

\* "Two concurrent ResumeSubagent calls on the same task cannot interleave their
\* re-execution of the same work": the guard lasts as long as the resumed run,
\* also when its parent was told it is interrupted.
OneResume ==
  \A r, q \in Run :
    /\ kind[r] = "resume" /\ pc[r] \in Working \ {"guard"}
    /\ kind[q] = "resume" /\ pc[q] \in Working \ {"guard"}
    /\ task[r] = task[q]
    => r = q

\* What a task's row says can be relied on: no run of it was started from a row
\* another run was about to write, nor ended without writing it.
Sound(t) == t \notin overlap /\ t \notin unsaved

\* A parent that was given an answer got the sub-agent's own, and the task is
\* stored as completed: resuming it returns that answer.
AnswerIsStored ==
  \A r \in Run : told[r] = "answer" =>
    event[r] = "done" /\ (Sound(task[r]) => status[task[r]] = "completed")

\* A row says "running" only while a run of the task is alive, so that a poller
\* comes to an end and a resume does not repeat what is done already.
RunningIsAlive == \A t \in Task : status[t] = "running" /\ Sound(t) => Alive(t) # {}

\* "Repeated resumes deduct consumed budget correctly": over all its runs a task
\* makes no more provider calls than its cap and the fresh budgets it was given.
RunsOf(t) == {r \in Run : kind[r] # "none" /\ task[r] = t}
Fresh(t) == {r \in RunsOf(t) : kind[r] = "resume" /\ Exhausted(base[r])}
BudgetHolds ==
  \A t \in Task : Sound(t) => asked[t] <= MaxTurns + ResumeTurns * Cardinality(Fresh(t))

\* What delegation may use, of slots now and of provider calls in all, is neither
\* exceeded nor lost on any way a run ends (TropicalLimiter, ResumeSubagent).
LimitsHold == SlotsExact /\ BudgetHolds

\* Completed work is not started again.
CompletedStays ==
  [][\A t \in Task : status[t] = "completed" /\ Sound(t)
       => status'[t] = "completed" /\ asked'[t] = asked[t]]_vars

\* "Its result will be delivered to you automatically": what a background task ended
\* with is read and reported, after its run is over, however it ends and whoever resumes
\* it meanwhile.  Not so when the run leaves no row that says how it ended, when its turn is
\* cancelled before the interface hears of it, after an hour, and when the process dies.
Delivered(r) ==
  /\ report[r] \in {"completed", "failed", "interrupted"}
  /\ pc[r] \notin Working \/ r \in overlap
Unwritten(r) == pc[r] \notin Working /\ status[r] \in {"none", "running"}
Awaited ==
  {r \in Run : told[r] = "background"
     /\ ~(Delivered(r) \/ Unwritten(r) \/ report[r] \in {"timeout", "unheard", "lost"})}
BackgroundReported == []<>(Awaited = {})

\* "Skipping the UPDATE would leave status 'running' and make a later resume
\* re-execute completed work": no way to end a run skips it.
NotLeftRunning == \A t \in Run : status[t] = "running" => Alive(t) # {}
=============================================================================
