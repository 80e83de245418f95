--------------------------- MODULE JobSupervisor ---------------------------
(***************************************************************************)
(* The background-job supervisor of internal/tools/jobs.go: the processes  *)
(* an async shell_exec starts, the goroutines that watch, stop and reap    *)
(* them, and the teardown of one thread or of the whole supervisor.        *)
(*                                                                         *)
(* One action is one critical section of the supervisor mutex or of a      *)
(* job's own mutex, one event of the operating system, or one timer.       *)
(* Job output, command text and wall-clock values are left out; time is    *)
(* the order in which jobs finish, and "its retention has run out".        *)
(***************************************************************************)
EXTENDS Integers, FiniteSets

CONSTANTS
  Job,                \* job ids; a uuid is never used twice
  Thread,             \* conversation threads, the owners of jobs
  Owner,              \* the thread whose turn starts the job
  Command,            \* how the job's process answers signals
  Canceller,          \* concurrent CancelThread calls
  RawConfig,          \* the configurations SetConfig may be handed
  DefaultMaxJobs, DefaultMaxRunning

Finisher == "finishClose"             \* the goroutine Close starts
Worker   == Canceller \cup {Finisher} \* everyone who runs stopAndWaitJobs

\* "plain" obeys SIGKILL; "setuid" refuses every signal (EPERM), as a command
\* started through sudo does; "escaped" left a child outside the process
\* group that keeps the output pipes, and so cmd.Wait, open.
CommandKind == {"plain", "setuid", "escaped"}

ASSUME JobAssumption ==
  /\ Owner \in [Job -> Thread]
  /\ Command \in [Job -> CommandKind]
  /\ Finisher \notin Canceller
ASSUME LimitAssumption ==
  /\ DefaultMaxJobs \in Nat \ {0}
  /\ DefaultMaxRunning \in Nat \ {0}
  /\ RawConfig \subseteq [MaxJobs : Int, MaxRunning : Int]
ASSUME JobsAreFinite == IsFiniteSet(Job)

VARIABLES
  cfg,        \* the normalised limits
  jobs,       \* ids in the supervisor's map
  timers,     \* ids with a retention timer in the timer map
  reapers,    \* retention timers that fired and wait for the mutex
  closed, closeDone,
  state,      \* JobState of every job; "none" before its start
  stopReason, \* why a stop was requested; the first request wins
  proc,       \* the OS process: "none", "up", "exit0" or "exitN"
  watch,      \* jobs whose timeout monitor still runs
  grace,      \* jobs with a goroutine waiting to escalate to SIGKILL
  onDone,     \* finished jobs that have not yet run jobDone
  finishedAt, \* 0, or the rank of the job among the finished ones
  clock,      \* how many jobs have finished
  expired,    \* finished jobs older than the retention
  pc,         \* of each stopAndWaitJobs caller
  todo,       \* jobs the caller has still to ask to stop
  awaited,    \* jobs the caller waits for
  errs        \* callers that collected an error

supervisorVars == <<cfg, jobs, timers, reapers, closed, closeDone>>
jobVars == <<state, stopReason, proc, watch, grace, onDone, finishedAt, clock,
             expired>>
workerVars == <<pc, todo, awaited, errs>>
vars == <<supervisorVars, jobVars, workerVars>>

JobState == {"none", "running", "completed", "failed", "cancelled"}
Running(j)  == state[j] = "running"
Finished(j) == state[j] \in {"completed", "failed", "cancelled"}

-----------------------------------------------------------------------------
(* Limits.  A non-positive limit means the default, and the running limit   *)
(* never exceeds the retained one.                                          *)

OrDefault(n, d) == IF n <= 0 THEN d ELSE n

Normalize(c) ==
  LET mj == OrDefault(c.MaxJobs, DefaultMaxJobs)
      mr == OrDefault(c.MaxRunning, DefaultMaxRunning)
  IN  [MaxJobs |-> mj, MaxRunning |-> IF mr > mj THEN mj ELSE mr]

Init ==
  /\ cfg \in {Normalize(c) : c \in RawConfig}
  /\ jobs = {} /\ timers = {} /\ reapers = {}
  /\ closed = FALSE /\ closeDone = FALSE
  /\ state = [j \in Job |-> "none"]
  /\ stopReason = [j \in Job |-> "none"]
  /\ proc = [j \in Job |-> "none"]
  /\ watch = {} /\ grace = {} /\ onDone = {} /\ expired = {}
  /\ finishedAt = [j \in Job |-> 0]
  /\ clock = 0
  /\ pc = [w \in Worker |-> "idle"]
  /\ todo = [w \in Worker |-> {}]
  /\ awaited = [w \in Worker |-> {}]
  /\ errs = {}

\* SetConfig: refused once closed or while any job is retained.
SetConfig_Live(c) ==                                 \* mutant
  /\ ~closed
  /\ cfg' = Normalize(c)
  /\ UNCHANGED <<jobs, timers, reapers, closed, closeDone, jobVars, workerVars>>

SetConfig(c) ==
  /\ ~closed
  /\ jobs = {}
  /\ cfg' = Normalize(c)
  /\ UNCHANGED <<jobs, timers, reapers, closed, closeDone, jobVars, workerVars>>

-----------------------------------------------------------------------------
(* Removing records.  Reaping drops what outlived its retention; eviction   *)
(* drops the finished job that finished first.                              *)

Kept_ZeroTime(S) == {j \in S : finishedAt[j] # 0 /\ j \notin expired}   \* mutant
Kept(S) == S \ expired

OldestFinished(S) ==
  {j \in S : /\ ~Running(j)
             /\ \A k \in S : ~Running(k) => finishedAt[j] <= finishedAt[k]}

MakeRoom(S) ==
  IF Cardinality(S) >= cfg.MaxJobs THEN S \ OldestFinished(S) ELSE S

\* removeLocked for every id outside S: the timer goes with the record.
Retain(S) ==
  /\ jobs' = S
  /\ timers' = timers \cap S

BelowRecordLimit(S) == Cardinality(S) < cfg.MaxJobs
BelowRunningLimit == Cardinality({k \in Kept(jobs) : Running(k)}) < cfg.MaxRunning

-----------------------------------------------------------------------------
(* Starting a job: reap, count, evict, fork and register, all under the     *)
(* supervisor mutex.                                                        *)

Start(j) ==
  LET room == MakeRoom(Kept(jobs)) IN
  /\ state[j] = "none"
  /\ ~closed
  /\ BelowRunningLimit
  /\ BelowRecordLimit(room)
  /\ Retain(room \cup {j})
  /\ state' = [state EXCEPT ![j] = "running"]
  /\ proc' = [proc EXCEPT ![j] = "up"]
  /\ watch' = watch \cup {j}
  /\ UNCHANGED <<cfg, reapers, closed, closeDone, stopReason, grace, onDone,
                 finishedAt, clock, expired, workerVars>>

\* A start that fails: at the running limit it has only reaped, at the record
\* limit or when the fork fails it has evicted as well.
StartFails ==
  /\ ~closed
  /\ IF BelowRunningLimit THEN Retain(MakeRoom(Kept(jobs))) ELSE Retain(Kept(jobs))
  /\ UNCHANGED <<cfg, reapers, closed, closeDone, jobVars, workerVars>>

\* get and list, which the job tool's actions begin with, reap first.
Inspect ==
  /\ Retain(Kept(jobs))
  /\ UNCHANGED <<cfg, reapers, closed, closeDone, jobVars, workerVars>>

-----------------------------------------------------------------------------
(* The life of one job.                                                     *)

\* The command ends by itself, or because of the SIGINT it was sent.
ProcessExits(j) ==
  /\ proc[j] = "up"
  /\ \E exit \in {"exit0", "exitN"} : proc' = [proc EXCEPT ![j] = exit]
  /\ UNCHANGED <<supervisorVars, state, stopReason, watch, grace, onDone,
                 finishedAt, clock, expired, workerVars>>

FinalState(j) ==
  CASE stopReason[j] = "cancelled" -> "cancelled"
    [] stopReason[j] = "timeout"   -> "failed"
    [] OTHER -> IF proc[j] = "exit0" THEN "completed" ELSE "failed"

\* finish, run by the goroutine cmd.Wait returned to.  Closing done sends the
\* monitor and the escalation goroutine home: whichever case their select
\* picks from here on has no effect.
Finish(j) ==
  /\ Running(j)
  /\ proc[j] \in {"exit0", "exitN"}
  /\ state' = [state EXCEPT ![j] = FinalState(j)]
  /\ clock' = clock + 1
  /\ finishedAt' = [finishedAt EXCEPT ![j] = clock + 1]
  /\ onDone' = onDone \cup {j}
  /\ watch' = watch \ {j}
  /\ grace' = grace \ {j}
  /\ UNCHANGED <<supervisorVars, stopReason, proc, expired, workerVars>>

\* jobDone, the callback finish makes after it released the job's mutex.
JobDone_NoTimer(j) ==                                \* mutant
  /\ j \in onDone
  /\ onDone' = onDone \ {j}
  /\ IF j \in jobs /\ closed THEN Retain(jobs \ {j}) ELSE UNCHANGED <<jobs, timers>>
  /\ UNCHANGED <<cfg, reapers, closed, closeDone, state, stopReason, proc, watch,
                 grace, finishedAt, clock, expired, workerVars>>

JobDone(j) ==
  /\ j \in onDone
  /\ onDone' = onDone \ {j}
  /\ \/ /\ j \notin jobs
        /\ UNCHANGED <<jobs, timers>>
     \/ /\ j \in jobs /\ closed
        /\ Retain(jobs \ {j})
     \/ /\ j \in jobs /\ ~closed
        /\ timers' = timers \cup {j}
        /\ UNCHANGED jobs
  /\ UNCHANGED <<cfg, reapers, closed, closeDone, state, stopReason, proc, watch,
                 grace, finishedAt, clock, expired, workerVars>>

\* Time passes: jobs outlive their retention in the order they finished.
Expire(j) ==
  /\ Finished(j) /\ j \notin expired
  /\ \A k \in Job : Finished(k) /\ finishedAt[k] < finishedAt[j] => k \in expired
  /\ expired' = expired \cup {j}
  /\ UNCHANGED <<supervisorVars, state, stopReason, proc, watch, grace, onDone,
                 finishedAt, clock, workerVars>>

\* The retention timer fires; stopping it from now on comes too late.
TimerFires(j) ==
  /\ j \in timers /\ j \in expired /\ j \notin reapers
  /\ reapers' = reapers \cup {j}
  /\ UNCHANGED <<cfg, jobs, timers, closed, closeDone, jobVars, workerVars>>

\* The function the timer runs, once it has the mutex.
RetentionReap(j) ==
  /\ j \in reapers
  /\ reapers' = reapers \ {j}
  /\ IF j \in jobs /\ ~Running(j)
     THEN Retain(jobs \ {j})
     ELSE UNCHANGED <<jobs, timers>>
  /\ UNCHANGED <<cfg, closed, closeDone, jobVars, workerVars>>

-----------------------------------------------------------------------------
(* Stopping a job.  requestStop records the reason once, interrupts the     *)
(* process group and leaves a goroutine that kills it after the grace       *)
(* period; a group that may not be signalled yields an error and no         *)
(* goroutine.                                                               *)

Stoppable_Finished(j) == state[j] # "none" /\ stopReason[j] = "none"   \* mutant
Stoppable(j) == Running(j) /\ stopReason[j] = "none"
Refused(j)   == Stoppable(j) /\ proc[j] = "up" /\ Command[j] = "setuid"

RequestStop(j, reason) ==
  IF Stoppable(j)
  THEN /\ stopReason' = [stopReason EXCEPT ![j] = reason]
       /\ grace' = IF Refused(j) THEN grace ELSE grace \cup {j}
  ELSE UNCHANGED <<stopReason, grace>>

\* monitorShellJob of a detached job: the timeout.
MonitorTimesOut(j) ==
  /\ j \in watch
  /\ watch' = watch \ {j}
  /\ RequestStop(j, "timeout")
  /\ UNCHANGED <<supervisorVars, state, proc, onDone, finishedAt, clock, expired,
                 workerVars>>

\* The grace period runs out: SIGKILL ends a plain command.
Escalate_NoKill(j) ==                                \* mutant
  /\ j \in grace
  /\ grace' = grace \ {j}
  /\ UNCHANGED <<supervisorVars, state, stopReason, proc, watch, onDone, finishedAt,
                 clock, expired, workerVars>>

Escalate(j) ==
  /\ j \in grace
  /\ grace' = grace \ {j}
  /\ proc' = IF proc[j] = "up" /\ Command[j] = "plain"
             THEN [proc EXCEPT ![j] = "exitN"] ELSE proc
  /\ UNCHANGED <<supervisorVars, state, stopReason, watch, onDone, finishedAt,
                 clock, expired, workerVars>>

\* The job tool's cancel action of thread t: reap, look the job up under its
\* owner, and ask it to stop.
CancelJob(t, j) ==
  /\ Retain(Kept(jobs))
  /\ j \in Kept(jobs) /\ Owner[j] = t
  /\ RequestStop(j, "cancelled")
  /\ UNCHANGED <<cfg, reapers, closed, closeDone, state, proc, watch, onDone,
                 finishedAt, clock, expired, workerVars>>

-----------------------------------------------------------------------------
(* Tearing down a thread, or everything.                                    *)

\* CancelThread takes its list under the mutex and stops the jobs outside it.
CancelThread(w, t) ==
  LET S == {j \in jobs : Owner[j] = t /\ Running(j)} IN
  /\ w \in Canceller /\ pc[w] = "idle"
  /\ pc' = [pc EXCEPT ![w] = "stopping"]
  /\ todo' = [todo EXCEPT ![w] = S]
  /\ awaited' = [awaited EXCEPT ![w] = S]
  /\ errs' = errs \ {w}
  /\ UNCHANGED <<supervisorVars, jobVars>>

\* Close: the first call closes the supervisor and starts finishClose.
Close ==
  /\ ~closed
  /\ closed' = TRUE
  /\ pc' = [pc EXCEPT ![Finisher] = "stopping"]
  /\ todo' = [todo EXCEPT ![Finisher] = jobs]
  /\ awaited' = [awaited EXCEPT ![Finisher] = jobs]
  /\ UNCHANGED <<cfg, jobs, timers, reapers, closeDone, jobVars, errs>>

\* stopAndWaitJobs: the next job of the list is asked to stop...
StopNext(w, j) ==
  /\ pc[w] = "stopping" /\ j \in todo[w]
  /\ RequestStop(j, "cancelled")
  /\ todo' = [todo EXCEPT ![w] = @ \ {j}]
  /\ errs' = IF Refused(j) THEN errs \cup {w} ELSE errs
  /\ UNCHANGED <<supervisorVars, state, proc, watch, onDone, finishedAt, clock,
                 expired, pc, awaited>>

\* ...then every job is waited for, unless the caller's context ends first.
AllStopped(w) == pc[w] = "stopping" /\ todo[w] = {}

AllDown_Asked(w) == \A j \in awaited[w] : Finished(j) \/ stopReason[j] # "none"  \* mutant
AllDown(w) == \A j \in awaited[w] : Finished(j)

CancelReturns(w) ==
  /\ w \in Canceller
  /\ AllStopped(w)
  /\ AllDown(w)
  /\ pc' = [pc EXCEPT ![w] = IF w \in errs THEN "failed" ELSE "ok"]
  /\ UNCHANGED <<supervisorVars, jobVars, todo, awaited, errs>>

CancelGivesUp(w) ==
  /\ w \in Canceller
  /\ AllStopped(w)
  /\ awaited[w] # {}
  /\ pc' = [pc EXCEPT ![w] = "failed"]
  /\ UNCHANGED <<supervisorVars, jobVars, todo, awaited, errs>>

\* The caller takes the result and may call again.
CancelAgain(w) ==
  /\ w \in Canceller
  /\ pc[w] \in {"ok", "failed"}
  /\ pc' = [pc EXCEPT ![w] = "idle"]
  /\ awaited' = [awaited EXCEPT ![w] = {}]
  /\ errs' = errs \ {w}
  /\ UNCHANGED <<supervisorVars, jobVars, todo>>

\* finishClose has no deadline: it drops every record when all jobs are down.
FinishClose ==
  /\ AllStopped(Finisher)
  /\ AllDown(Finisher)
  /\ Retain({})
  /\ closeDone' = TRUE
  /\ pc' = [pc EXCEPT ![Finisher] = IF Finisher \in errs THEN "failed" ELSE "ok"]
  /\ UNCHANGED <<cfg, reapers, closed, jobVars, todo, awaited, errs>>

-----------------------------------------------------------------------------
JobStep(j) ==
  \/ Start(j) \/ ProcessExits(j) \/ Finish(j) \/ JobDone(j) \/ Expire(j)
  \/ TimerFires(j) \/ RetentionReap(j) \/ MonitorTimesOut(j) \/ Escalate(j)
  \/ \E t \in Thread : CancelJob(t, j)
  \/ \E w \in Worker : StopNext(w, j)

WorkerStep(w) ==
  \/ \E t \in Thread : CancelThread(w, t)
  \/ CancelReturns(w) \/ CancelGivesUp(w) \/ CancelAgain(w)

Next ==
  \/ \E c \in RawConfig : SetConfig(c)
  \/ StartFails \/ Inspect \/ Close \/ FinishClose
  \/ \E j \in Job : JobStep(j)
  \/ \E w \in Worker : WorkerStep(w)

Spec == Init /\ [][Next]_vars

(* What the Go runtime and the operating system owe: runnable goroutines    *)
(* run, timers fire, SIGKILL kills.  Nothing obliges a command to end by    *)
(* itself, a user to call, or a caller to give up.                          *)
Fairness ==
  /\ \A j \in Job :
       /\ WF_vars(Finish(j)) /\ WF_vars(JobDone(j)) /\ WF_vars(Expire(j))
       /\ WF_vars(TimerFires(j)) /\ WF_vars(RetentionReap(j))
       /\ WF_vars(MonitorTimesOut(j)) /\ WF_vars(Escalate(j))
       /\ \A w \in Worker : WF_vars(StopNext(w, j))
  /\ \A w \in Canceller : WF_vars(CancelReturns(w))
  /\ WF_vars(FinishClose)

FairSpec == Spec /\ Fairness

-----------------------------------------------------------------------------
(* Properties.                                                              *)

TypeOK ==
  /\ cfg \in [MaxJobs : Nat \ {0}, MaxRunning : Nat \ {0}]
  /\ jobs \subseteq Job /\ timers \subseteq Job /\ reapers \subseteq Job
  /\ closed \in BOOLEAN /\ closeDone \in BOOLEAN
  /\ state \in [Job -> JobState]
  /\ stopReason \in [Job -> {"none", "cancelled", "timeout"}]
  /\ proc \in [Job -> {"none", "up", "exit0", "exitN"}]
  /\ watch \subseteq Job /\ grace \subseteq Job
  /\ onDone \subseteq Job /\ expired \subseteq Job
  /\ finishedAt \in [Job -> Nat] /\ clock \in Nat
  /\ pc \in [Worker -> {"idle", "stopping", "ok", "failed"}]
  /\ todo \in [Worker -> SUBSET Job]
  /\ awaited \in [Worker -> SUBSET Job]
  /\ errs \subseteq Worker

\* The limits of JobSupervisorConfig hold at every moment, whatever reaping,
\* evicting and failed starts did before: never more than MaxRunning commands
\* run and never more than MaxJobs records are kept.
Bounded ==
  /\ Cardinality({j \in Job : Running(j)}) <= cfg.MaxRunning
  /\ Cardinality(jobs) <= cfg.MaxJobs

\* No timer, eviction or teardown drops the record of a live command: while a
\* command runs the job tool, CancelThread and Close can still find it.
NoOrphan == \A j \in Job : Running(j) => j \in jobs

\* Once Close has reported (closeDone is closed) no command is alive, no
\* record is left and no retention timer will ever fire.
CloseIsComplete ==
  closeDone => /\ \A j \in Job : ~Running(j)
               /\ jobs = {} /\ timers = {}

\* A retained finished record is on its way out: its completion callback, its
\* retention timer, the fired timer or Close will remove it.  Otherwise it
\* would occupy the record limit for ever.
FinishedIsReaped ==
  \A j \in jobs : Finished(j) => \/ j \in onDone \cup timers \cup reapers
                                \/ closed

\* The reported outcome agrees with who stopped the job, although stop
\* requests of the timeout, the job tool and a teardown race with each other
\* and with the exit of the command: "completed" was never asked to stop.
OutcomeMatchesStop ==
  \A j \in Job : Finished(j) =>
     /\ (state[j] = "cancelled") = (stopReason[j] = "cancelled")
     /\ state[j] = "completed" => stopReason[j] = "none"

\* A stop request is made once: a timeout never overwrites a cancellation nor
\* the other way round, and nothing changes the reason of a finished job.
FirstStopWins ==
  [][\A j \in Job : \/ stopReason'[j] = stopReason[j]
                    \/ stopReason[j] = "none" /\ Running(j) /\ state'[j] = state[j]]_vars

\* The supervisor is a bounded pool of commands (module JobPool): every step of
\* its goroutines, timers and callers is a step of the pool or invisible there.
Live == {j \in Job : Running(j)}
Pool == INSTANCE JobPool WITH
  Limits <- {Normalize(c) : c \in RawConfig},
  limits <- cfg,
  live <- Live,
  kept <- jobs \ Live,
  gone <- {j \in Job : state[j] # "none" /\ j \notin jobs /\ ~Running(j)},
  shut <- closed,
  down <- closeDone
ImplementsPool == Pool!Spec

\* The record limit frees itself: a finished job does not stay for ever.
FinishedIsForgotten == \A j \in Job : Finished(j) ~> j \notin jobs

\* A command that obeys SIGKILL ends: the monitor's timeout sees to it.
PlainJobEnds == \A j \in Job : Running(j) /\ Command[j] = "plain" ~> Finished(j)

\* Close terminates unless a command does not obey SIGKILL.
CloseEnds == closed ~> closeDone \/ \E j \in Job : Running(j) /\ Command[j] # "plain"
=============================================================================
