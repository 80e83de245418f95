------------------------- MODULE SubagentTaskProofs -------------------------
(***************************************************************************)
(* Theorems about SubagentTask for whatever scripts, threads, limits and    *)
(* faults: the guard of ResumeSubagent admits one run of a task at a time,  *)
(* no limit is exceeded on any way a run ends, and an answer that was given *)
(* is the one in the row.                                                   *)
(***************************************************************************)
EXTENDS SubagentTask, FiniteSetTheorems, TLAPS

PcOf == {"none", "total", "slot", "spawn", "load", "gone", "closing", "closed"} \cup Working

RunType ==
  /\ kind \in [Run -> {"none", "delegate", "background", "resume"}]
  /\ task \in [Run -> Task]
  /\ pc \in [Run -> PcOf]

\* A resumed run from the guard it took to the end of its goroutine.
Guarded(r) == kind[r] = "resume" /\ pc[r] \in (Working \ {"guard"}) \cup {"closing"}

\* Agent.resuming has the task of every such run, no two of them are of one task, and a
\* run comes to the same places as a resumed one only as what it is.
GuardHeld == \A r \in Run : Guarded(r) => task[r] \in resuming
GuardAlone == \A r, q \in Run : Guarded(r) /\ Guarded(q) /\ task[r] = task[q] => r = q
ResumeLoads == \A r \in Run : kind[r] = "resume" => pc[r] \notin {"total", "slot", "spawn"}

GuardInv == RunType /\ GuardHeld /\ GuardAlone /\ ResumeLoads

LEMMA GuardInit == Init => GuardInv
BY DEF Init, GuardInv, RunType, PcOf, Task, Old, GuardHeld, GuardAlone, ResumeLoads, Guarded,
   Working

\* A step of one run that takes no guard and gives none back.
LEMMA MoveInv ==
  ASSUME GuardInv, NEW r \in Run, NEW to \in PcOf,
         pc' = Set(pc, r, to), UNCHANGED <<kind, task, resuming>>,
         kind[r] = "resume" => to \notin {"total", "slot", "spawn"},
         Guarded(r)' => Guarded(r)
  PROVE  GuardInv'
<1>1. RunType'
  BY DEF GuardInv, RunType, Set
<1>2. \A q \in Run : Guarded(q)' => Guarded(q)
  BY DEF GuardInv, RunType, Set, Guarded
<1>3. ResumeLoads'
  BY DEF GuardInv, RunType, Set, ResumeLoads
<1>. QED
  BY <1>1, <1>2, <1>3 DEF GuardInv, GuardHeld, GuardAlone

LEMMA LaunchInv ==
  ASSUME GuardInv, NEW th \in Thread, NEW k \in {"delegate", "background", "resume"},
         NEW t, t \in Task \/ t = launched + 1,
         NEW start \in {"spawn", "total", "load"}, k = "resume" => start = "load",
         Launch(th, k, t, start)
  PROVE  GuardInv'
<1>. DEFINE r == launched + 1
<1>1. r \in Run
  BY DEF Launch, Scripted, Run
<1>2. /\ kind' = Set(kind, r, k) /\ task' = Set(task, r, t) /\ pc' = Set(pc, r, start)
      /\ resuming' = resuming
  BY DEF Launch, poolVars
<1>3. t \in Task
  BY <1>1 DEF Task
<1>. HIDE DEF r
<1>4. RunType'
  BY <1>1, <1>2, <1>3 DEF GuardInv, RunType, Set, PcOf
<1>5. \A q \in Run : Guarded(q)' => Guarded(q) /\ q # r
  BY <1>1, <1>2 DEF GuardInv, RunType, Set, Guarded, Working
<1>6. \A q \in Run : q # r => task'[q] = task[q]
  BY <1>1, <1>2 DEF GuardInv, RunType, Set
<1>7. ResumeLoads'
  BY <1>1, <1>2 DEF GuardInv, RunType, Set, ResumeLoads
<1>. QED
  BY <1>2, <1>4, <1>5, <1>6, <1>7 DEF GuardInv, GuardHeld, GuardAlone

\* TakeGuard is the only step into the guard, and only where it is free.
LEMMA TakeInv ==
  ASSUME GuardInv, NEW r \in Run, TakeGuard(r)
  PROVE  GuardInv'
<1>1. /\ pc[r] = "guard" /\ pc' = Set(pc, r, "top") /\ task[r] \notin resuming
      /\ resuming' = resuming \cup {task[r]} /\ UNCHANGED <<kind, task>>
  BY DEF TakeGuard, Move, GuardFree, callVars
<1>2. RunType' /\ ResumeLoads'
  BY <1>1 DEF GuardInv, RunType, Set, PcOf, Working, ResumeLoads
<1>3. \A q \in Run : Guarded(q)' => Guarded(q) \/ q = r
  BY <1>1 DEF GuardInv, RunType, Set, Guarded
<1>. QED
  BY <1>1, <1>2, <1>3 DEF GuardInv, GuardHeld, GuardAlone

\* The guard is given back by the run that has it.
LEMMA CloseInv ==
  ASSUME GuardInv, NEW r \in Run, CloseChannel(r)
  PROVE  GuardInv'
<1>1. /\ pc[r] = "closing" /\ pc' = Set(pc, r, "closed") /\ UNCHANGED <<kind, task>>
      /\ resuming' = IF kind[r] = "resume" THEN resuming \ {task[r]} ELSE resuming
  BY DEF CloseChannel, Move, callVars
<1>2. RunType' /\ ResumeLoads'
  BY <1>1 DEF GuardInv, RunType, Set, PcOf, ResumeLoads
<1>3. \A q \in Run : Guarded(q)' => Guarded(q) /\ q # r
  BY <1>1 DEF GuardInv, RunType, Set, Guarded, Working
<1>4. kind[r] = "resume" => Guarded(r)
  BY <1>1 DEF Guarded
<1>5. ASSUME NEW q \in Run, Guarded(q)' PROVE task'[q] \in resuming'
  BY <1>1, <1>3, <1>4, <1>5 DEF GuardInv, GuardHeld, GuardAlone
<1>. QED
  BY <1>1, <1>2, <1>3, <1>5 DEF GuardInv, GuardHeld, GuardAlone

\* The interface that waits for a background task changes nothing of it.
LEMMA WatchOnly ==
  ASSUME NEW r \in Run, Watch(r)
  PROVE  UNCHANGED <<rowVars, callVars, runVars, poolVars, historyVars>>
BY DEF Watch, Register, Poll, Deadline, StopPolling

LEMMA GuardNext == GuardInv /\ [Next]_vars => GuardInv'
<1>. SUFFICES ASSUME GuardInv, [Next]_vars PROVE GuardInv'
  OBVIOUS
<1>. USE DEF rowVars, callVars, runVars, poolVars, historyVars, vars
<1>1. ASSUME UNCHANGED <<kind, task, pc, resuming>> PROVE GuardInv'
  BY <1>1 DEF GuardInv, RunType, GuardHeld, GuardAlone, ResumeLoads, Guarded
<1>2. ASSUME NEW th \in Thread, Delegate(th) PROVE GuardInv'
  <2>1. CASE Launch(th, "delegate", launched + 1, "spawn")
    BY <2>1, LaunchInv
  <2>2. CASE Launch(th, "background", launched + 1, "total")
    BY <2>2, LaunchInv
  <2>. QED
    BY <1>2, <2>1, <2>2 DEF Delegate
<1>3. ASSUME NEW th \in Thread, NEW t \in Task, Resume(th, t) PROVE GuardInv'
  BY <1>3, LaunchInv DEF Resume
<1>4. ASSUME NEW th \in Thread, Cancel(th) \/ EndTurn(th) PROVE GuardInv'
  BY <1>1, <1>4 DEF Cancel, EndTurn
<1>5. ASSUME NEW r \in Run, RunStep(r) PROVE GuardInv'
  <2>. USE DEF Move
  <2>1. CASE CountSpawn(r) \/ AcquireSlot(r) \/ SpawnFails(r) \/ Spawn(r)
    <3>1. pc[r] \in {"total", "slot", "spawn"} /\ UNCHANGED <<kind, task, resuming>>
      BY <2>1 DEF CountSpawn, AcquireSlot, SpawnFails, Spawn
    <3>2. \E to \in PcOf : pc' = Set(pc, r, to)
      BY <2>1 DEF CountSpawn, AcquireSlot, SpawnFails, Spawn, PcOf, Working
    <3>3. kind[r] # "resume" /\ kind'[r] # "resume"
      BY <3>1 DEF GuardInv, ResumeLoads
    <3>4. ~Guarded(r)'
      BY <3>3 DEF Guarded
    <3>. QED
      BY <3>1, <3>2, <3>3, <3>4, MoveInv
  <2>2. CASE Load(r) \/ ResumeFails(r)
    <3>1. \/ pc' = Set(pc, r, "gone") \/ pc' = Set(pc, r, "guard")
      BY <2>2 DEF Load, ResumeFails
    <3>2. UNCHANGED <<kind, task, resuming>>
      BY <2>2 DEF Load, ResumeFails
    <3>3. ~Guarded(r)'
      BY <3>1, <3>2 DEF GuardInv, RunType, Set, Guarded, Working
    <3>4. "gone" \in PcOf /\ "guard" \in PcOf
      BY DEF PcOf, Working
    <3>. QED
      BY <3>1, <3>2, <3>3, <3>4, MoveInv
  <2>3. CASE TakeGuard(r)
    BY <2>3, TakeInv
  <2>4. CASE AskModel(r) \/ RunTools(r) \/ GiveUp(r) \/ SendEvent(r) \/ RecordDone(r)
             \/ RecordError(r)
    <3>1. pc[r] \in Working \ {"guard"} /\ UNCHANGED <<kind, task, resuming>>
      BY <2>4 DEF AskModel, RunTools, GiveUp, SendEvent, RecordDone, RecordError, Working
    <3>2. \E to \in {"answer", "tools", "error", "top", "record", "fail", "closing"} :
            pc' = Set(pc, r, to)
      BY <2>4 DEF AskModel, RunTools, GiveUp, SendEvent, RecordDone, RecordError
    <3>3. PICK to \in {"answer", "tools", "error", "top", "record", "fail", "closing"} :
            pc' = Set(pc, r, to)
      BY <3>2
    <3>4. to \in PcOf /\ to \notin {"total", "slot", "spawn"}
      BY DEF PcOf, Working
    <3>5. Guarded(r)' => Guarded(r)
      BY <3>1 DEF Guarded
    <3>. QED
      BY <3>1, <3>3, <3>4, <3>5, MoveInv
  <2>5. CASE CloseChannel(r)
    BY <2>5, CloseInv
  <2>6. CASE Drained(r)
    <3>1. pc' = Set(pc, r, "gone") /\ UNCHANGED <<kind, task, resuming>>
      BY <2>6 DEF Drained
    <3>2. ~Guarded(r)' /\ "gone" \in PcOf
      BY <3>1 DEF GuardInv, RunType, Set, Guarded, Working, PcOf
    <3>. QED
      BY <3>1, <3>2, MoveInv
  <2>. QED
    BY <1>5, <2>1, <2>2, <2>3, <2>4, <2>5, <2>6 DEF RunStep
<1>6. ASSUME NEW r \in Run, Hear(r) \/ Watch(r) PROVE GuardInv'
  BY <1>1, <1>6, WatchOnly DEF Hear
<1>7. CASE Crash
  <2>1. UNCHANGED <<kind, task>> /\ pc' = [r \in Run |-> IF kind[r] = "none" THEN "none" ELSE "gone"]
    BY <1>7 DEF Crash
  <2>2. \A r \in Run : ~Guarded(r)'
    BY <2>1 DEF Guarded, Working
  <2>. QED
    BY <2>1, <2>2 DEF GuardInv, RunType, PcOf, GuardHeld, GuardAlone, ResumeLoads
<1>8. CASE UNCHANGED vars
  BY <1>1, <1>8
<1>. QED
  BY <1>2, <1>3, <1>4, <1>5, <1>6, <1>7, <1>8 DEF Next

\* Two runs never work on one task by way of ResumeSubagent, whatever scripts, faults,
\* cancellations and restarts there are.
THEOREM OneResumeHolds == Spec => []OneResume
<1>1. GuardInv => OneResume
  BY DEF GuardInv, GuardAlone, Guarded, OneResume
<1>. QED
  BY <1>1, GuardInit, GuardNext, PTL DEF Spec

-----------------------------------------------------------------------------
(* Slots, budgets, answers and rows.                                        *)

Early == {"total", "slot", "spawn", "load", "guard"}

\* A run from its call to the end of its goroutine.
LifeOf(r) ==
  /\ kind[r] = "none" <=> launched < r
  /\ kind[r] = "none" <=> pc[r] = "none"
  /\ kind[r] = "none" \/ pc[r] \in Early =>
       told[r] = "none" /\ event[r] = "none" /\ count[r] = 0
  /\ kind[r] # "resume" \/ pc[r] = "load" => base[r] = 0
  /\ pc[r] \in {"total", "slot"} => kind[r] = "background"
  /\ pc[r] = "spawn" => kind[r] \in {"delegate", "background"}
  /\ pc[r] \in {"load", "guard"} => kind[r] = "resume"
  /\ kind[r] \in {"delegate", "background"} => task[r] = r
  /\ pc[r] \in {"top", "tools", "answer", "error"} => event[r] = "none"
  /\ event[r] = "done" => pc[r] \in {"record", "closing", "closed", "gone"}
  /\ event[r] = "none" /\ pc[r] \in {"record", "fail", "closing", "closed"} => r \in dead
  /\ told[r] = "answer" => event[r] = "done" /\ pc[r] \in {"closed", "gone"}

Life == \A r \in Run : LifeOf(r)

\* What all the runs of a task may ask for, with the fresh budgets given so far.
Bound(t) == MaxTurns + ResumeTurns * Cardinality(Fresh(t))

\* A task nobody was told of has no row, and no run but the one that may start it.
Unborn(t) == t \in Run /\ (kind[t] = "none" \/ pc[t] \in {"total", "slot", "spawn"})
Unknown(t) ==
  Unborn(t) => /\ status[t] = "none" /\ saved[t] = 0 /\ asked[t] = 0
               /\ \A r \in RunsOf(t) : r = t

\* While no run of a task is under way, its row is up to date.
Idle(t) == Alive(t) = {} => saved[t] = asked[t] /\ status[t] # "running"

\* A run under way is the only one, it started from what was asked before it, and it
\* will not go beyond the bound.
Busy(t) ==
  \A r \in Alive(t) :
    /\ \A q \in Alive(t) : q = r
    /\ status[t] # "completed"
    /\ asked[t] = base[r] + count[r]
    /\ count[r] <= Budget(r) /\ base[r] + Budget(r) <= Bound(t)
    /\ pc[r] = "guard" => saved[t] = base[r] /\ status[t] # "running"

\* A run with an answer has recorded it.
HasAnswered(r) ==
  \/ told[r] = "answer"
  \/ event[r] = "done" /\ pc[r] \in {"closing", "closed"}
Ended(t) == \A r \in RunsOf(t) : HasAnswered(r) => status[t] = "completed"

SoundRow(t) == Idle(t) /\ Busy(t) /\ Ended(t) /\ asked[t] <= Bound(t)
RowOf(t) == Unknown(t) /\ (Sound(t) => SoundRow(t))
Rows == \A t \in Task : RowOf(t)

RunInv == TypeOK /\ Life /\ SlotsExact /\ Rows

-----------------------------------------------------------------------------
(* What a step of a run may assign.                                         *)

StatusOf == {"none", "running", "completed", "failed", "interrupted"}
EventOf == {"none", "done", "error"}
ToldOf == {"none", "refused", "background", "stored", "answer", "interrupted", "failed"}

One(f, g, x, S) == g = f \/ \E v \in S : g = Set(f, x, v)

Assigns(r) ==
  /\ One(pc, pc', r, PcOf) /\ One(told, told', r, ToldOf) /\ One(event, event', r, EventOf)
  /\ One(base, base', r, Nat) /\ One(count, count', r, Nat)
  /\ One(status, status', task[r], StatusOf)
  /\ One(saved, saved', task[r], Nat) /\ One(asked, asked', task[r], Nat)
  /\ UNCHANGED <<launched, thread, kind, task, cancelled, dead>>
  /\ overlap \subseteq overlap' /\ unsaved \subseteq unsaved'

LEMMA RunsAreNumbers == Run \subseteq Nat \ {0} /\ Old \notin Run
BY SubagentAssumption DEF Run, Old

LEMMA RunTyped ==
  ASSUME TypeOK, NEW r \in Run
  PROVE  /\ task[r] \in Task /\ thread[r] \in Thread /\ pc[r] \in PcOf
         /\ base[r] \in Nat /\ count[r] \in Nat
         /\ saved[task[r]] \in Nat /\ asked[task[r]] \in Nat
BY DEF TypeOK, PcOf

LEMMA RunAssigns ==
  ASSUME TypeOK, Life, NEW r \in Run, RunStep(r) \/ Hear(r)
  PROVE  Assigns(r)
<1>. USE DEF rowVars, callVars, runVars, poolVars, historyVars, Move, One, Assigns
<1>p. /\ {"none", "total", "slot", "spawn", "load", "gone", "closing", "closed"} \subseteq PcOf
      /\ {"guard", "top", "tools", "answer", "record", "error", "fail"} \subseteq PcOf
  BY DEF PcOf, Working
<1>t. "running" \in StatusOf /\ "completed" \in StatusOf /\ "failed" \in StatusOf
      /\ "interrupted" \in StatusOf
  BY DEF StatusOf
<1>e. "done" \in EventOf /\ "error" \in EventOf
  BY DEF EventOf
<1>o. {"refused", "background", "stored", "answer", "interrupted", "failed"} \subseteq ToldOf
  BY DEF ToldOf
<1>1. CASE CountSpawn(r)
  BY <1>1, <1>p, <1>o DEF CountSpawn, Refuse
<1>2. CASE AcquireSlot(r)
  BY <1>2, <1>p, <1>o DEF AcquireSlot, Refuse
<1>3. CASE SpawnFails(r)
  BY <1>3, <1>p, <1>o DEF SpawnFails, Refuse
<1>4. CASE Spawn(r)
  <2>1. pc[r] = "spawn"
    BY <1>4 DEF Spawn
  <2>2. task[r] = r
    BY <2>1 DEF Life, LifeOf
  <2>. QED
    BY <1>4, <1>p, <1>o, <1>t, <2>2 DEF Spawn
<1>5. CASE Load(r)
  BY <1>5, <1>p, <1>o, RunTyped DEF Load
<1>6. CASE ResumeFails(r) \/ TakeGuard(r)
  BY <1>6, <1>p, <1>o DEF ResumeFails, TakeGuard, Refuse
<1>7. CASE AskModel(r)
  <2>1. count[r] + 1 \in Nat /\ asked[task[r]] + 1 \in Nat
    BY RunTyped
  <2>. QED
    BY <1>7, <1>p, <2>1 DEF AskModel
<1>8. CASE RunTools(r) \/ GiveUp(r)
  BY <1>8, <1>p DEF RunTools, GiveUp
<1>9. CASE SendEvent(r)
  BY <1>9, <1>p, <1>e DEF SendEvent
<1>10. CASE RecordDone(r) \/ RecordError(r)
  <2>1. \E s \in StatusOf : Write(r, s)
    BY <1>10, <1>t DEF RecordDone, RecordError
  <2>2. base[r] + count[r] \in Nat
    BY RunTyped
  <2>3. /\ One(status, status', task[r], StatusOf) /\ One(saved, saved', task[r], Nat)
        /\ unsaved \subseteq unsaved'
    BY <2>1, <2>2 DEF Write
  <2>. QED
    BY <1>10, <1>p, <2>3 DEF RecordDone, RecordError
<1>11. CASE CloseChannel(r) \/ Drained(r)
  BY <1>11, <1>p DEF CloseChannel, Drained
<1>12. CASE Hear(r)
  BY <1>12, <1>o DEF Hear
<1>. QED
  BY <1>1, <1>2, <1>3, <1>4, <1>5, <1>6, <1>7, <1>8, <1>9, <1>10, <1>11, <1>12 DEF RunStep

\* Another run of the program, and the row of another task, stay as they are.
Same(q) ==
  /\ kind'[q] = kind[q] /\ task'[q] = task[q] /\ pc'[q] = pc[q]
  /\ base'[q] = base[q] /\ count'[q] = count[q]
  /\ event'[q] = event[q] /\ told'[q] = told[q]

LEMMA AssignsTyped ==
  ASSUME TypeOK, NEW r \in Run, Assigns(r)
  PROVE  /\ pc' \in [Run -> PcOf] /\ told' \in [Run -> ToldOf] /\ event' \in [Run -> EventOf]
         /\ base' \in [Run -> Nat] /\ count' \in [Run -> Nat]
         /\ status' \in [Task -> StatusOf]
         /\ saved' \in [Task -> Nat] /\ asked' \in [Task -> Nat]
         /\ \A q \in Run : q # r => Same(q)
         /\ \A t \in Task : t # task[r] =>
              status'[t] = status[t] /\ saved'[t] = saved[t] /\ asked'[t] = asked[t]
<1>1. /\ pc \in [Run -> PcOf] /\ told \in [Run -> ToldOf] /\ event \in [Run -> EventOf]
      /\ base \in [Run -> Nat] /\ count \in [Run -> Nat]
      /\ status \in [Task -> StatusOf]
      /\ saved \in [Task -> Nat] /\ asked \in [Task -> Nat] /\ task[r] \in Task
  BY DEF TypeOK, PcOf, ToldOf, EventOf, StatusOf
<1>2. pc' \in [Run -> PcOf] /\ \A q \in Run : q # r => pc'[q] = pc[q]
  BY <1>1 DEF Assigns, One, Set
<1>3. told' \in [Run -> ToldOf] /\ \A q \in Run : q # r => told'[q] = told[q]
  BY <1>1 DEF Assigns, One, Set
<1>4. event' \in [Run -> EventOf] /\ \A q \in Run : q # r => event'[q] = event[q]
  BY <1>1 DEF Assigns, One, Set
<1>5. base' \in [Run -> Nat] /\ \A q \in Run : q # r => base'[q] = base[q]
  BY <1>1 DEF Assigns, One, Set
<1>6. count' \in [Run -> Nat] /\ \A q \in Run : q # r => count'[q] = count[q]
  BY <1>1 DEF Assigns, One, Set
<1>7. status' \in [Task -> StatusOf] /\ \A t \in Task : t # task[r] => status'[t] = status[t]
  BY <1>1 DEF Assigns, One, Set
<1>8. saved' \in [Task -> Nat] /\ \A t \in Task : t # task[r] => saved'[t] = saved[t]
  BY <1>1 DEF Assigns, One, Set
<1>9. asked' \in [Task -> Nat] /\ \A t \in Task : t # task[r] => asked'[t] = asked[t]
  BY <1>1 DEF Assigns, One, Set
<1>10. \A q \in Run : q # r => Same(q)
  BY <1>2, <1>3, <1>4, <1>5, <1>6 DEF Same, Assigns
<1>. QED
  BY <1>2, <1>3, <1>4, <1>5, <1>6, <1>7, <1>8, <1>9, <1>10

\* The slots, the totals and the sets, which are not assigned run by run.
PoolsTyped ==
  /\ inflight \in [Thread -> 0 .. MaxConcurrent] /\ spent \in [Thread -> 0 .. MaxTotal]
  /\ persist \subseteq Run /\ resuming \subseteq Task
  /\ overlap \subseteq Task /\ unsaved \subseteq Task

LEMMA PoolsKept ==
  ASSUME TypeOK, NEW r \in Run, RunStep(r) \/ Hear(r)
  PROVE  PoolsTyped'
<1>. USE DEF rowVars, callVars, runVars, poolVars, historyVars
<1>t. task[r] \in Task /\ thread[r] \in Thread
  BY RunTyped
<1>p. PoolsTyped
  BY DEF PoolsTyped, TypeOK
<1>1. CASE CountSpawn(r)
  <2>1. spent' \in [Thread -> 0 .. MaxTotal]
    <3>1. spent \in [Thread -> 0 .. MaxTotal] /\ thread[r] \in Thread /\ MaxTotal \in Nat
      BY <1>t, <1>p, SubagentAssumption DEF PoolsTyped
    <3>3. spent[thread[r]] \in 0 .. MaxTotal
      BY ONLY <3>1
    <3>2. \/ spent' = spent
          \/ /\ spent[thread[r]] < MaxTotal
             /\ spent' = [spent EXCEPT ![thread[r]] = spent[thread[r]] + 1]
      BY ONLY <1>1, <3>1, <3>3 DEF CountSpawn, Set
    <3>. QED
      BY ONLY <3>1, <3>2, <3>3
  <2>. QED
    BY <1>1, <1>p, <2>1 DEF CountSpawn, PoolsTyped
<1>2. CASE AcquireSlot(r)
  <2>1. inflight' \in [Thread -> 0 .. MaxConcurrent]
    <3>1. /\ inflight \in [Thread -> 0 .. MaxConcurrent] /\ thread[r] \in Thread /\ MaxConcurrent \in Nat
      BY <1>t, <1>p, SubagentAssumption DEF PoolsTyped
    <3>2. \/ inflight' = inflight
          \/ /\ inflight[thread[r]] < MaxConcurrent
             /\ inflight' = [inflight EXCEPT ![thread[r]] = inflight[thread[r]] + 1]
      BY ONLY <1>2 DEF AcquireSlot, Set, SlotFree
    <3>3. inflight[thread[r]] \in 0 .. MaxConcurrent
      BY ONLY <3>1
    <3>. QED
      BY ONLY <3>1, <3>2, <3>3
  <2>. QED
    BY <1>2, <1>p, <2>1 DEF AcquireSlot, PoolsTyped
<1>3. CASE SpawnFails(r) \/ Drained(r)
  <2>1. inflight' \in [Thread -> 0 .. MaxConcurrent]
    <3>1. /\ inflight \in [Thread -> 0 .. MaxConcurrent] /\ thread[r] \in Thread /\ MaxConcurrent \in Nat
      BY <1>t, <1>p, SubagentAssumption DEF PoolsTyped
    <3>2. \/ inflight' = inflight
          \/ /\ inflight[thread[r]] > 0
             /\ inflight' = [inflight EXCEPT ![thread[r]] = inflight[thread[r]] - 1]
      BY ONLY <1>3 DEF SpawnFails, Drained, Set, GiveBack, Release
    <3>3. inflight[thread[r]] \in 0 .. MaxConcurrent
      BY ONLY <3>1
    <3>. QED
      BY ONLY <3>1, <3>2, <3>3
  <2>. QED
    BY <1>3, <1>p, <2>1 DEF SpawnFails, Drained, PoolsTyped
<1>4. CASE Spawn(r)
  BY <1>4, <1>p DEF Spawn, PoolsTyped
<1>5. CASE Load(r)
  BY <1>5, <1>p, <1>t DEF Load, PoolsTyped
<1>6. CASE ResumeFails(r) \/ TakeGuard(r)
  BY <1>6, <1>p, <1>t DEF ResumeFails, TakeGuard, PoolsTyped
<1>7. CASE AskModel(r) \/ RunTools(r) \/ SendEvent(r)
  BY <1>7, <1>p DEF AskModel, RunTools, SendEvent, PoolsTyped
<1>8. CASE GiveUp(r)
  BY <1>8, <1>p, <1>t DEF GiveUp, PoolsTyped
<1>9. CASE RecordDone(r) \/ RecordError(r)
  BY <1>9, <1>p, <1>t DEF RecordDone, RecordError, Write, PoolsTyped
<1>10. CASE CloseChannel(r) \/ Hear(r)
  BY <1>10, <1>p DEF CloseChannel, Hear, PoolsTyped
<1>. QED
  BY <1>1, <1>2, <1>3, <1>4, <1>5, <1>6, <1>7, <1>8, <1>9, <1>10 DEF RunStep

LEMMA CountKept ==
  ASSUME TypeOK, NEW r \in Run, RunStep(r) \/ Hear(r)
  PROVE  count' \in [Run -> 0 .. MaxTurns + ResumeTurns]
<1>. USE DEF callVars, runVars
<1>1. CASE AskModel(r) /\ count[r] < Budget(r)
  <2>1. base[r] \in Nat
    BY RunTyped
  <2>2. Budget(r) \in Nat /\ Budget(r) <= MaxTurns + ResumeTurns
    BY <2>1, SubagentAssumption DEF Budget, Exhausted
  <2>3. count[r] + 1 \in 0 .. MaxTurns + ResumeTurns
    BY <1>1, <2>2, RunTyped, SubagentAssumption
  <2>4. count' = Set(count, r, count[r] + 1)
    BY <1>1, <2>2, RunTyped DEF AskModel
  <2>. QED
    BY <2>3, <2>4 DEF TypeOK, Set
<1>2. CASE ~(AskModel(r) /\ count[r] < Budget(r))
  <2>1. Budget(r) \in Int /\ count[r] \in Nat
    BY RunTyped, SubagentAssumption DEF Budget
  <2>2. count' = count
    BY <1>2, <2>1 DEF RunStep, CountSpawn, AcquireSlot, SpawnFails, Spawn, Load, ResumeFails, TakeGuard,
           AskModel, RunTools, GiveUp, SendEvent, RecordDone, RecordError, CloseChannel,
           Drained, Hear
  <2>. QED
    BY <2>2 DEF TypeOK
<1>. QED
  BY <1>1, <1>2

LEMMA WatchTyped == TypeOK /\ [Next]_vars => WatchTypeOK'
<1>. SUFFICES ASSUME TypeOK, [Next]_vars PROVE WatchTypeOK'
  OBVIOUS
<1>. USE DEF uiVars
<1>1. WatchTypeOK /\ status \in [Task -> StatusOf] /\ Run \subseteq Task
  BY DEF TypeOK, StatusOf, Task
<1>2. CASE UNCHANGED uiVars
  BY <1>1, <1>2 DEF WatchTypeOK
<1>3. ASSUME NEW r \in Run, Watch(r) PROVE WatchTypeOK'
  <2>1. status[r] \in StatusOf
    BY <1>1
  <2>2. CASE Register(r)
    BY <1>1, <2>2 DEF Register, WatchTypeOK
  <2>3. CASE Poll(r)
    BY <1>1, <2>1, <2>3 DEF Poll, Over, StopPolling, WatchTypeOK, Set, StatusOf
  <2>4. CASE Deadline(r)
    BY <1>1, <2>4 DEF Deadline, StopPolling, WatchTypeOK, Set
  <2>. QED
    BY <1>3, <2>2, <2>3, <2>4 DEF Watch
<1>4. ASSUME NEW r \in Run, Spawn(r) PROVE WatchTypeOK'
  BY <1>1, <1>4 DEF Spawn, Announce, WatchTypeOK, Set
<1>5. ASSUME NEW r \in Run, RunStep(r), ~Spawn(r) PROVE UNCHANGED uiVars
  BY <1>5 DEF RunStep, CountSpawn, AcquireSlot, SpawnFails, Load, ResumeFails, TakeGuard,
       AskModel, RunTools, GiveUp, SendEvent, RecordDone, RecordError, CloseChannel, Drained
<1>6. ASSUME NEW r \in Run, Hear(r) PROVE UNCHANGED uiVars
  BY <1>6 DEF Hear
<1>7. ASSUME NEW th \in Thread, Delegate(th) \/ EndTurn(th) \/ \E t \in Task : Resume(th, t)
      PROVE  UNCHANGED uiVars
  BY <1>7 DEF Delegate, EndTurn, Resume, Launch
<1>8. ASSUME NEW th \in Thread, Cancel(th) PROVE WatchTypeOK'
  BY <1>1, <1>8 DEF Cancel, WatchTypeOK
<1>9. CASE Crash
  BY <1>1, <1>9 DEF Crash, WatchTypeOK
<1>10. CASE UNCHANGED vars
  BY <1>2, <1>10 DEF vars
<1>. QED
  BY <1>2, <1>3, <1>4, <1>5, <1>6, <1>7, <1>8, <1>9, <1>10 DEF Next

LEMMA TypeStep == TypeOK /\ Life /\ [Next]_vars => TypeOK'
<1>. SUFFICES ASSUME TypeOK, Life, [Next]_vars PROVE TypeOK'
  OBVIOUS
<1>0. WatchTypeOK'
  BY WatchTyped
<1>. USE <1>0 DEF rowVars, callVars, runVars, poolVars, historyVars, vars
<1>1. ASSUME NEW th \in Thread, NEW k \in {"delegate", "background", "resume"},
             NEW t, t \in Task \/ t = launched + 1, NEW start \in {"spawn", "total", "load"},
             Launch(th, k, t, start)
      PROVE  TypeOK'
  <2>1. launched + 1 \in Run
    BY <1>1 DEF Launch, Scripted, Run
  <2>2. t \in Task /\ start \in PcOf
    BY <1>1, <2>1 DEF Task, PcOf
  <2>3. /\ thread' \in [Run -> Thread]
        /\ kind' \in [Run -> {"none", "delegate", "background", "resume"}]
        /\ task' \in [Run -> Task]
    BY <1>1, <2>1, <2>2 DEF TypeOK, Launch, Set
  <2>4. pc' \in [Run -> PcOf] /\ launched' \in Run \cup {0}
    BY <1>1, <2>1, <2>2 DEF TypeOK, Launch, Set, PcOf
  <2>. QED
    BY <1>1, <2>3, <2>4 DEF TypeOK, Launch, PcOf
<1>2. ASSUME NEW th \in Thread, Delegate(th) PROVE TypeOK'
  <2>1. CASE Launch(th, "delegate", launched + 1, "spawn")
    BY <1>1, <2>1
  <2>2. CASE Launch(th, "background", launched + 1, "total")
    BY <1>1, <2>2
  <2>. QED
    BY <1>2, <2>1, <2>2 DEF Delegate
<1>3. ASSUME NEW th \in Thread, NEW t \in Task, Resume(th, t) PROVE TypeOK'
  BY <1>1, <1>3 DEF Resume
<1>4. ASSUME NEW th \in Thread, Cancel(th) \/ EndTurn(th) PROVE TypeOK'
  <2>1. spent' \in [Thread -> 0 .. MaxTotal]
    <3>1. spent' = spent \/ spent' = Set(spent, th, 0)
      BY ONLY <1>4 DEF Cancel, EndTurn, poolVars
    <3>2. spent \in [Thread -> 0 .. MaxTotal] /\ 0 \in 0 .. MaxTotal
      BY SubagentAssumption DEF TypeOK
    <3>. QED
      BY ONLY <3>1, <3>2 DEF Set
  <2>4. dead' = dead \cup Attached(th) /\ cancelled' \in {cancelled \cup {th}, cancelled \ {th}}
    BY ONLY <1>4 DEF Cancel, EndTurn
  <2>2. dead' \subseteq Run /\ cancelled' \subseteq Thread
    BY <2>4 DEF TypeOK, Attached
  <2>3. UNCHANGED <<rowVars, launched, thread, kind, task, told, runVars, resuming, historyVars>>
        /\ inflight' = inflight
    BY <1>4 DEF Cancel, EndTurn
  <2>. QED
    BY <2>1, <2>2, <2>3 DEF TypeOK
<1>5. ASSUME NEW r \in Run, RunStep(r) \/ Hear(r) PROVE TypeOK'
  <2>1. Assigns(r)
    BY <1>5, RunAssigns
  <2>2. PoolsTyped' /\ count' \in [Run -> 0 .. MaxTurns + ResumeTurns]
    BY <1>5, PoolsKept, CountKept
  <2>3. UNCHANGED <<launched, thread, kind, task, cancelled, dead>>
    BY <2>1 DEF Assigns
  <2>. QED
    BY <2>1, <2>2, <2>3, AssignsTyped DEF TypeOK, PoolsTyped, PcOf, ToldOf, EventOf, StatusOf
<1>6. ASSUME NEW r \in Run, Watch(r) PROVE TypeOK'
  BY <1>6, WatchOnly DEF TypeOK
<1>7. CASE Crash
  <2>1. /\ pc' \in [Run -> PcOf] /\ inflight' \in [Thread -> 0 .. MaxConcurrent]
        /\ spent' \in [Thread -> 0 .. MaxTotal]
    BY <1>7, SubagentAssumption DEF Crash, PcOf
  <2>2. told' \in [Run -> ToldOf]
    BY <1>7 DEF Crash, TypeOK, ToldOf
  <2>. QED
    BY <1>7, <2>1, <2>2 DEF Crash, TypeOK, PcOf, ToldOf
<1>8. CASE UNCHANGED vars
  BY <1>8 DEF TypeOK
<1>. QED
  BY <1>2, <1>3, <1>4, <1>5, <1>6, <1>7, <1>8 DEF Next

LEMMA LifeRun ==
  ASSUME TypeOK, Life, NEW r \in Run, RunStep(r) \/ Hear(r)
  PROVE  Life'
<1>. USE DEF rowVars, callVars, runVars, poolVars, historyVars, Move
<1>a. Assigns(r) /\ launched' = launched /\ dead' = dead /\ kind' = kind /\ task' = task
  BY RunAssigns DEF Assigns
<1>1. ASSUME NEW q \in Run, q # r PROVE LifeOf(q)'
  <2>1. Same(q)
    BY <1>a, <1>1, AssignsTyped
  <2>2. LifeOf(q)
    BY DEF Life
  <2>. QED
    BY <1>a, <2>1, <2>2 DEF LifeOf, Same, Early
<1>l. LifeOf(r)
  BY DEF Life
<1>f. /\ \A v : Set(pc, r, v)[r] = v /\ Set(told, r, v)[r] = v /\ Set(event, r, v)[r] = v
      /\ \A v : Set(base, r, v)[r] = v /\ Set(count, r, v)[r] = v
  BY DEF TypeOK, Set
<1>. USE DEF LifeOf, Early
<1>2. CASE CountSpawn(r)
  BY <1>2, <1>a, <1>l, <1>f, <1>1 DEF CountSpawn, Refuse, Life
<1>3. CASE AcquireSlot(r)
  BY <1>3, <1>a, <1>l, <1>f, <1>1 DEF AcquireSlot, Refuse, Life
<1>4. CASE SpawnFails(r)
  BY <1>4, <1>a, <1>l, <1>f, <1>1 DEF SpawnFails, Refuse, Life
<1>5. CASE Spawn(r)
  BY <1>5, <1>a, <1>l, <1>f, <1>1 DEF Spawn, Life, Background
<1>6. CASE Load(r)
  BY <1>6, <1>a, <1>l, <1>f, <1>1 DEF Load, Life
<1>7. CASE ResumeFails(r) \/ TakeGuard(r)
  BY <1>7, <1>a, <1>l, <1>f, <1>1 DEF ResumeFails, TakeGuard, Refuse, Life
<1>8. CASE AskModel(r)
  BY <1>8, <1>a, <1>l, <1>f, <1>1 DEF AskModel, Life
<1>9. CASE RunTools(r) \/ GiveUp(r)
  BY <1>9, <1>a, <1>l, <1>f, <1>1 DEF RunTools, GiveUp, Life
<1>10. CASE SendEvent(r)
  BY <1>10, <1>a, <1>l, <1>f, <1>1 DEF SendEvent, Life
<1>11. CASE RecordDone(r) \/ RecordError(r)
  BY <1>11, <1>a, <1>l, <1>f, <1>1 DEF RecordDone, RecordError, Life
<1>12. CASE CloseChannel(r) \/ Drained(r)
  BY <1>12, <1>a, <1>l, <1>f, <1>1 DEF CloseChannel, Drained, Life, Background
<1>13. CASE Hear(r)
  <2>1. /\ pc[r] \notin Early /\ kind'[r] = kind[r] /\ kind[r] # "none"
        /\ UNCHANGED <<pc, base, count, event>>
    BY <1>13, <1>a DEF Hear, Open, Started, Working
  <2>2. told'[r] = "answer" => pc[r] = "closed" /\ event[r] = "done"
    BY <1>13, <1>l, <1>f, <2>1 DEF Hear, Answered, TypeOK
  <2>3. LifeOf(r)'
    BY <1>a, <1>l, <2>1, <2>2
  <2>. QED
    BY <1>1, <2>3 DEF Life
<1>. QED
  BY <1>2, <1>3, <1>4, <1>5, <1>6, <1>7, <1>8, <1>9, <1>10, <1>11, <1>12, <1>13 DEF RunStep

\* A new run, and what it leaves as it was.
LEMMA LaunchFacts ==
  ASSUME TypeOK, Life, NEW th \in Thread, NEW k \in {"delegate", "background", "resume"}, NEW t,
         NEW start \in {"spawn", "total", "load"}, Launch(th, k, t, start)
  PROVE  LET r == launched + 1 IN
         /\ r \in Run /\ launched' = r /\ kind[r] = "none"
         /\ kind'[r] = k /\ task'[r] = t /\ pc'[r] = start /\ thread'[r] = th
         /\ \A q \in Run : q # r => Same(q) /\ thread'[q] = thread[q]
         /\ UNCHANGED <<rowVars, told, dead, base, count, event, inflight, historyVars>>
<1>. DEFINE r == launched + 1
<1>1. r \in Run
  BY DEF Launch, Scripted, Run
<1>2. kind[r] = "none"
  BY <1>1, RunsAreNumbers DEF Life, LifeOf, TypeOK
<1>. QED
  BY <1>1, <1>2 DEF Launch, Set, Same, TypeOK, poolVars

LEMMA LifeStep == TypeOK /\ Life /\ [Next]_vars => Life'
<1>. SUFFICES ASSUME TypeOK, Life, [Next]_vars PROVE Life'
  OBVIOUS
<1>. USE DEF rowVars, callVars, runVars, poolVars, historyVars, vars
<1>1. ASSUME NEW th \in Thread, NEW k \in {"delegate", "background", "resume"}, NEW t,
             NEW start \in {"spawn", "total", "load"}, Launch(th, k, t, start),
             k \in {"delegate", "background"} => t = launched + 1,
             \/ k = "delegate" /\ start = "spawn"
             \/ k = "background" /\ start = "total"
             \/ k = "resume" /\ start = "load"
      PROVE  Life'
  <2>0. PICK r \in Run : r = launched + 1
    BY <1>1, LaunchFacts
  <2>1. /\ r \in Run /\ launched' = r /\ kind[r] = "none"
        /\ kind'[r] = k /\ task'[r] = t /\ pc'[r] = start
        /\ \A q \in Run : q # r => Same(q)
        /\ UNCHANGED <<told, dead, base, count, event>>
    BY <1>1, <2>0, LaunchFacts
  <2>2. Run \subseteq Nat /\ launched \in Nat
    BY RunsAreNumbers DEF TypeOK
  <2>c. k \in {"delegate", "background"} => task'[r] = r
    BY <1>1, <2>0, <2>1
  <2>3. ASSUME NEW q \in Run, q # r PROVE LifeOf(q)'
    <3>1. launched < q <=> launched' < q
      BY <2>0, <2>1, <2>2, <2>3
    <3>. QED
      BY <2>1, <2>3, <3>1 DEF Life, LifeOf, Same, Early
  <2>4. LifeOf(r)'
    <3>1. ~(launched' < r)
      BY <2>1, <2>2
    <3>2. LifeOf(r)
      BY <2>1 DEF Life
    <3>. QED
      BY <1>1, <2>1, <2>c, <3>1, <3>2 DEF LifeOf, Early
  <2>. QED
    BY <2>3, <2>4 DEF Life
<1>2. ASSUME NEW th \in Thread, Delegate(th) PROVE Life'
  <2>1. CASE Launch(th, "delegate", launched + 1, "spawn")
    BY <1>1, <2>1
  <2>2. CASE Launch(th, "background", launched + 1, "total")
    BY <1>1, <2>2
  <2>. QED
    BY <1>2, <2>1, <2>2 DEF Delegate
<1>3. ASSUME NEW th \in Thread, NEW t \in Task, Resume(th, t) PROVE Life'
  BY <1>1, <1>3 DEF Resume
<1>4. ASSUME NEW th \in Thread, Cancel(th) \/ EndTurn(th) PROVE Life'
  BY <1>4 DEF Cancel, EndTurn, Life, LifeOf, Early
<1>5. ASSUME NEW r \in Run, RunStep(r) \/ Hear(r) PROVE Life'
  BY <1>5, LifeRun
<1>6. ASSUME NEW r \in Run, Watch(r) PROVE Life'
  BY <1>6, WatchOnly DEF Life, LifeOf, Early
<1>7. CASE Crash
  <2>1. ASSUME NEW r \in Run PROVE LifeOf(r)'
    BY <1>7, <2>1 DEF Crash, Life, LifeOf, Early
  <2>. QED
    BY <2>1 DEF Life
<1>8. CASE UNCHANGED vars
  BY <1>8 DEF Life, LifeOf, Early
<1>. QED
  BY <1>2, <1>3, <1>4, <1>5, <1>6, <1>7, <1>8 DEF Next

-----------------------------------------------------------------------------
(* The slots.                                                               *)

Holds(r) == Background(r) /\ pc[r] \notin {"total", "slot", "gone"}

\* Only runs that were launched hold one, so that they can be counted.
LEMMA HoldersFinite ==
  ASSUME TypeOK, Life, NEW th \in Thread
  PROVE  IsFiniteSet(Holders(th)) /\ Cardinality(Holders(th)) \in Nat
<1>1. launched \in Nat /\ Run \subseteq Nat \ {0}
  BY RunsAreNumbers DEF TypeOK
<1>2. ASSUME NEW r \in Run, kind[r] # "none" PROVE r \in 1 .. launched
  <2>1. ~(launched < r)
    BY <1>2 DEF Life, LifeOf
  <2>. QED
    BY <1>1, <2>1
<1>3. Holders(th) \subseteq 1 .. launched
  BY <1>2 DEF Holders, Background
<1>4. IsFiniteSet(1 .. launched)
  BY <1>1, FS_Interval
<1>. QED
  BY <1>3, <1>4, FS_Subset, FS_CardinalityType

\* A step of a run that neither takes a slot nor gives one back.
LEMMA SlotsQuiet ==
  ASSUME SlotsExact, NEW r \in Run, \A q \in Run : q # r => Same(q),
         UNCHANGED <<thread, inflight>>, Holds(r)' <=> Holds(r)
  PROVE  SlotsExact'
<1>1. \A q \in Run : Holds(q)' <=> Holds(q)
  BY DEF Holds, Background, Same
<1>2. ASSUME NEW th \in Thread PROVE Holders(th)' = Holders(th)
  BY <1>1 DEF Holders, Holds
<1>. QED
  BY <1>2 DEF SlotsExact

LEMMA SlotTaken ==
  ASSUME TypeOK, Life, SlotsExact, NEW r \in Run, \A q \in Run : q # r => Same(q),
         thread' = thread, ~Holds(r), Holds(r)',
         inflight' = Set(inflight, thread[r], inflight[thread[r]] + 1)
  PROVE  SlotsExact'
<1>1. thread[r] \in Thread
  BY RunTyped
<1>2. \A q \in Run : q # r => (Holds(q)' <=> Holds(q))
  BY DEF Holds, Background, Same
<1>3. ASSUME NEW th \in Thread, th # thread[r] PROVE Holders(th)' = Holders(th)
  BY <1>2, <1>3 DEF Holders, Holds
<1>4. Holders(thread[r])' = Holders(thread[r]) \cup {r} /\ r \notin Holders(thread[r])
  BY <1>2 DEF Holders, Holds
<1>5. Cardinality(Holders(thread[r])') = Cardinality(Holders(thread[r])) + 1
  BY <1>1, <1>4, HoldersFinite, FS_AddElement
<1>6. /\ inflight'[thread[r]] = inflight[thread[r]] + 1
      /\ \A th \in Thread : th # thread[r] => inflight'[th] = inflight[th]
  BY <1>1 DEF TypeOK, Set
<1>7. ASSUME NEW th \in Thread PROVE inflight'[th] = Cardinality(Holders(th)')
  <2>1. CASE th = thread[r]
    BY <1>1, <1>5, <1>6, <2>1 DEF SlotsExact
  <2>2. CASE th # thread[r]
    BY <1>3, <1>6, <2>2 DEF SlotsExact
  <2>. QED
    BY <2>1, <2>2
<1>. QED
  BY <1>7 DEF SlotsExact

\* A slot that is given back was taken: Release has something to count down.
LEMMA SlotGivenBack ==
  ASSUME TypeOK, Life, SlotsExact, NEW r \in Run, \A q \in Run : q # r => Same(q),
         thread' = thread, Holds(r), ~Holds(r)', Release(r)
  PROVE  SlotsExact'
<1>1. thread[r] \in Thread
  BY RunTyped
<1>2. \A q \in Run : q # r => (Holds(q)' <=> Holds(q))
  BY DEF Holds, Background, Same
<1>3. ASSUME NEW th \in Thread, th # thread[r] PROVE Holders(th)' = Holders(th)
  BY <1>2, <1>3 DEF Holders, Holds
<1>4. Holders(thread[r])' = Holders(thread[r]) \ {r} /\ r \in Holders(thread[r])
  BY <1>2 DEF Holders, Holds
<1>5. /\ Cardinality(Holders(thread[r])') = Cardinality(Holders(thread[r])) - 1
      /\ Cardinality(Holders(thread[r])) > 0
  <2>. DEFINE H == Holders(thread[r])
  <2>1. IsFiniteSet(H) /\ Cardinality(H) \in Nat
    BY <1>1, HoldersFinite
  <2>2. Cardinality(H \ {r}) = Cardinality(H) - 1
    BY <1>4, <2>1, FS_RemoveElement
  <2>3. Cardinality(H) # 0
    BY <1>4, <2>1, FS_EmptySet
  <2>. QED
    BY <1>4, <2>1, <2>2, <2>3
<1>6. inflight[thread[r]] = Cardinality(Holders(thread[r]))
  BY <1>1 DEF SlotsExact
<1>7. inflight' = Set(inflight, thread[r], inflight[thread[r]] - 1)
  BY <1>5, <1>6 DEF Release
<1>8. /\ inflight'[thread[r]] = inflight[thread[r]] - 1
      /\ \A th \in Thread : th # thread[r] => inflight'[th] = inflight[th]
  BY <1>1, <1>7 DEF TypeOK, Set
<1>9. ASSUME NEW th \in Thread PROVE inflight'[th] = Cardinality(Holders(th)')
  <2>1. CASE th = thread[r]
    BY <1>5, <1>6, <1>8, <2>1
  <2>2. CASE th # thread[r]
    BY <1>3, <1>8, <2>2 DEF SlotsExact
  <2>. QED
    BY <2>1, <2>2
<1>. QED
  BY <1>9 DEF SlotsExact

LEMMA SlotsRun ==
  ASSUME TypeOK, Life, SlotsExact, NEW r \in Run, RunStep(r) \/ Hear(r)
  PROVE  SlotsExact'
<1>. USE DEF rowVars, callVars, runVars, poolVars, historyVars, Move
<1>a. Assigns(r) /\ thread' = thread /\ kind' = kind
  BY RunAssigns DEF Assigns
<1>s. \A q \in Run : q # r => Same(q)
  BY <1>a, AssignsTyped
<1>l. LifeOf(r)
  BY DEF Life
<1>f. \A v : Set(pc, r, v)[r] = v
  BY DEF TypeOK, Set
<1>1. CASE CountSpawn(r)
  <2>1. pc[r] = "total" /\ (pc' = Set(pc, r, "gone") \/ pc' = Set(pc, r, "slot"))
    BY <1>1 DEF CountSpawn
  <2>2. UNCHANGED inflight /\ ~Holds(r) /\ ~Holds(r)'
    BY <1>1, <1>f, <2>1 DEF CountSpawn, Holds
  <2>. QED
    BY <1>a, <1>s, <2>2, SlotsQuiet
<1>2. CASE AcquireSlot(r)
  <2>1. CASE SlotFree(thread[r])
    <3>1. ~Holds(r) /\ Holds(r)'
      BY <1>2, <1>a, <1>f, <1>l, <2>1 DEF AcquireSlot, Holds, LifeOf, Background
    <3>2. inflight' = Set(inflight, thread[r], inflight[thread[r]] + 1)
      BY <1>2, <2>1 DEF AcquireSlot
    <3>. QED
      BY <1>a, <1>s, <3>1, <3>2, SlotTaken
  <2>2. CASE ~SlotFree(thread[r])
    <3>1. UNCHANGED inflight /\ ~Holds(r) /\ ~Holds(r)'
      BY <1>2, <1>f, <2>2 DEF AcquireSlot, Holds
    <3>. QED
      BY <1>a, <1>s, <3>1, SlotsQuiet
  <2>. QED
    BY <2>1, <2>2
<1>3. CASE SpawnFails(r) \/ Drained(r)
  <2>1. CASE Background(r)
    <3>1. Holds(r) /\ ~Holds(r)' /\ Release(r)
      BY <1>3, <1>f, <2>1 DEF SpawnFails, Drained, GiveBack, Holds
    <3>. QED
      BY <1>a, <1>s, <3>1, SlotGivenBack
  <2>2. CASE ~Background(r)
    <3>1. UNCHANGED inflight /\ ~Holds(r) /\ ~Holds(r)'
      BY <1>3, <1>a, <2>2 DEF SpawnFails, Drained, GiveBack, Holds, Background
    <3>. QED
      BY <1>a, <1>s, <3>1, SlotsQuiet
  <2>. QED
    BY <2>1, <2>2
<1>4. CASE Load(r) \/ ResumeFails(r)
  <2>1. UNCHANGED inflight /\ ~Holds(r) /\ ~Holds(r)'
    BY <1>4, <1>a, <1>l DEF Load, ResumeFails, Holds, LifeOf, Background
  <2>. QED
    BY <1>a, <1>s, <2>1, SlotsQuiet
<1>5. CASE Spawn(r) \/ TakeGuard(r) \/ AskModel(r) \/ RunTools(r) \/ GiveUp(r) \/ SendEvent(r)
           \/ RecordDone(r) \/ RecordError(r) \/ CloseChannel(r) \/ Hear(r)
  <2>1. UNCHANGED inflight
    BY <1>5 DEF Spawn, TakeGuard, AskModel, RunTools, GiveUp, SendEvent, RecordDone,
                RecordError, CloseChannel, Hear
  <2>2. CASE Hear(r)
    <3>1. UNCHANGED pc
      BY <2>2 DEF Hear
    <3>2. Holds(r)' <=> Holds(r)
      BY <1>a, <3>1 DEF Holds, Background
    <3>. QED
      BY <1>a, <1>s, <2>1, <3>2, SlotsQuiet
  <2>3. CASE ~Hear(r)
    <3>1. pc[r] \notin {"total", "slot", "gone"}
      BY <1>5, <2>3 DEF Spawn, TakeGuard, AskModel, RunTools, GiveUp, SendEvent, RecordDone,
                  RecordError, CloseChannel
    <3>2. pc'[r] \notin {"total", "slot", "gone"}
      BY <1>5, <1>f, <2>3 DEF Spawn, TakeGuard, AskModel, RunTools, GiveUp, SendEvent,
                              RecordDone, RecordError, CloseChannel
    <3>3. Holds(r)' <=> Holds(r)
      BY <1>a, <3>1, <3>2 DEF Holds, Background
    <3>. QED
      BY <1>a, <1>s, <2>1, <3>3, SlotsQuiet
  <2>. QED
    BY <2>2, <2>3
<1>. QED
  BY <1>1, <1>2, <1>3, <1>4, <1>5 DEF RunStep

LEMMA SlotsStep == TypeOK /\ Life /\ SlotsExact /\ [Next]_vars => SlotsExact'
<1>. SUFFICES ASSUME TypeOK, Life, SlotsExact, [Next]_vars PROVE SlotsExact'
  OBVIOUS
<1>. USE DEF rowVars, callVars, runVars, poolVars, historyVars, vars
<1>1. ASSUME NEW th \in Thread, NEW k \in {"delegate", "background", "resume"}, NEW t,
             NEW start \in {"spawn", "total", "load"}, Launch(th, k, t, start),
             k = "background" => start = "total"
      PROVE  SlotsExact'
  <2>0. PICK r \in Run : r = launched + 1
    BY <1>1, LaunchFacts
  <2>1. /\ kind[r] = "none" /\ kind'[r] = k /\ pc'[r] = start
        /\ \A q \in Run : q # r => Same(q) /\ thread'[q] = thread[q]
        /\ UNCHANGED inflight
    BY <1>1, <2>0, LaunchFacts
  <2>2. \A q \in Run : Holds(q)' <=> Holds(q)
    BY <1>1, <2>1 DEF Holds, Background, Same
  <2>3. ~Holds(r) /\ ~Holds(r)'
    BY <1>1, <2>1 DEF Holds, Background
  <2>4. ASSUME NEW x \in Thread PROVE Holders(x)' = Holders(x)
    BY <2>1, <2>2, <2>3 DEF Holders, Holds
  <2>. QED
    BY <2>1, <2>4 DEF SlotsExact
<1>2. ASSUME NEW th \in Thread, Delegate(th) PROVE SlotsExact'
  <2>1. CASE Launch(th, "delegate", launched + 1, "spawn")
    BY <1>1, <2>1
  <2>2. CASE Launch(th, "background", launched + 1, "total")
    BY <1>1, <2>2
  <2>. QED
    BY <1>2, <2>1, <2>2 DEF Delegate
<1>3. ASSUME NEW th \in Thread, NEW t \in Task, Resume(th, t) PROVE SlotsExact'
  BY <1>1, <1>3 DEF Resume
<1>4. ASSUME UNCHANGED <<kind, thread, pc, inflight>> PROVE SlotsExact'
  BY <1>4 DEF SlotsExact, Holders, Background
<1>5. ASSUME NEW th \in Thread, Cancel(th) \/ EndTurn(th) PROVE SlotsExact'
  BY <1>4, <1>5 DEF Cancel, EndTurn
<1>6. ASSUME NEW r \in Run, RunStep(r) \/ Hear(r) PROVE SlotsExact'
  BY <1>6, SlotsRun
<1>7. ASSUME NEW r \in Run, Watch(r) PROVE SlotsExact'
  BY <1>4, <1>7, WatchOnly
<1>8. CASE Crash
  <2>1. ASSUME NEW th \in Thread PROVE Holders(th)' = {}
    BY <1>8 DEF Crash, Holders, Background
  <2>2. \A th \in Thread : inflight'[th] = 0
    BY <1>8 DEF Crash
  <2>. QED
    BY <2>1, <2>2, FS_EmptySet DEF SlotsExact
<1>9. CASE UNCHANGED vars
  BY <1>4, <1>9
<1>. QED
  BY <1>2, <1>3, <1>5, <1>6, <1>7, <1>8, <1>9 DEF Next

-----------------------------------------------------------------------------
(* The rows.                                                                *)

LEMMA FreshFinite ==
  ASSUME TypeOK, Life, NEW t \in Task
  PROVE  IsFiniteSet(Fresh(t)) /\ Cardinality(Fresh(t)) \in Nat
<1>1. launched \in Nat /\ Run \subseteq Nat \ {0}
  BY RunsAreNumbers DEF TypeOK
<1>2. ASSUME NEW r \in Run, kind[r] # "none" PROVE r \in 1 .. launched
  <2>1. ~(launched < r)
    BY <1>2 DEF Life, LifeOf
  <2>. QED
    BY <1>1, <2>1
<1>3. Fresh(t) \subseteq 1 .. launched
  BY <1>2 DEF Fresh, RunsOf
<1>4. IsFiniteSet(1 .. launched)
  BY <1>1, FS_Interval
<1>. QED
  BY <1>3, <1>4, FS_Subset, FS_CardinalityType

LEMMA TimesMore ==
  ASSUME NEW a \in Nat, NEW b \in Nat, NEW c \in Nat
  PROVE  /\ b * c \in Nat /\ a + b * c \in Nat /\ a <= a + b * c
         /\ a + b * (c + 1) = (a + b * c) + b
OBVIOUS

LEMMA BoundGrows ==
  ASSUME TypeOK, Life, NEW t \in Task
  PROVE  Bound(t) \in Nat /\ MaxTurns <= Bound(t)
BY FreshFinite, TimesMore, SubagentAssumption DEF Bound

\* A step that leaves a row and the runs of its task as they are.
LEMMA RowKept ==
  ASSUME NEW t \in Task, RowOf(t), Sound(t)', Sound(t)' => Sound(t),
         status'[t] = status[t], saved'[t] = saved[t], asked'[t] = asked[t],
         Alive(t)' = Alive(t), Fresh(t)' = Fresh(t),
         \A q \in Alive(t) : /\ base'[q] = base[q] /\ count'[q] = count[q]
                             /\ pc'[q] = "guard" => pc[q] = "guard",
         \A q \in Run : q \in RunsOf(t)' /\ HasAnswered(q)' => q \in RunsOf(t) /\ HasAnswered(q)
  PROVE  SoundRow(t)'
<1>1. SoundRow(t)
  BY DEF RowOf
<1>2. Bound(t)' = Bound(t)
  BY DEF Bound
<1>3. \A q \in Alive(t) : Budget(q)' = Budget(q)
  BY DEF Budget
<1>4. Idle(t)'
  BY <1>1 DEF SoundRow, Idle
<1>5. Busy(t)'
  BY <1>1, <1>2, <1>3 DEF SoundRow, Busy
<1>6. Ended(t)'
  <2>1. \A q \in RunsOf(t)' : q \in Run
    BY DEF RunsOf
  <2>. QED
    BY <1>1, <2>1 DEF SoundRow, Ended
<1>. QED
  BY <1>1, <1>2, <1>4, <1>5, <1>6 DEF SoundRow

\* The steps of a run that are nothing to the rows.
Quiet(r) ==
  /\ UNCHANGED <<status, saved, asked, base, count>>
  /\ pc'[r] \in Working <=> pc[r] \in Working
  /\ pc'[r] = "guard" => pc[r] = "guard"
  /\ HasAnswered(r)' => HasAnswered(r)

LEMMA AnsweredSame ==
  ASSUME NEW q \in Run, Same(q)
  PROVE  HasAnswered(q)' <=> HasAnswered(q)
BY DEF Same, HasAnswered

LEMMA SoundBefore ==
  ASSUME NEW r \in Run, Assigns(r), NEW t \in Task, Sound(t)'
  PROVE  Sound(t)
BY DEF Assigns, Sound

LEMMA RowQuiet ==
  ASSUME TypeOK, NEW r \in Run, Assigns(r), Quiet(r), NEW t \in Task, RowOf(t), Sound(t)'
  PROVE  SoundRow(t)'
<1>1. kind' = kind /\ task' = task /\ \A q \in Run : q # r => Same(q)
  BY AssignsTyped DEF Assigns
<1>2. \A q \in Run : pc'[q] \in Working <=> pc[q] \in Working
  BY <1>1 DEF Same, Quiet
<1>3. Alive(t)' = Alive(t) /\ RunsOf(t)' = RunsOf(t) /\ Fresh(t)' = Fresh(t)
  BY <1>1, <1>2 DEF Alive, RunsOf, Fresh, Exhausted, Quiet
<1>4. \A q \in Alive(t) : /\ base'[q] = base[q] /\ count'[q] = count[q]
                          /\ pc'[q] = "guard" => pc[q] = "guard"
  BY <1>1 DEF Alive, Same, Quiet
<1>5. \A q \in Run : HasAnswered(q)' => HasAnswered(q)
  BY <1>1, AnsweredSame DEF Quiet
<1>6. status'[t] = status[t] /\ saved'[t] = saved[t] /\ asked'[t] = asked[t]
  BY DEF Quiet
<1>. QED
  BY <1>3, <1>4, <1>5, <1>6, RowKept, SoundBefore

\* The rows of other tasks than the run's.
LEMMA RowElsewhere ==
  ASSUME TypeOK, NEW r \in Run, Assigns(r), NEW t \in Task, t # task[r], RowOf(t), Sound(t)'
  PROVE  SoundRow(t)'
<1>1. kind' = kind /\ task' = task /\ \A q \in Run : q # r => Same(q)
  BY AssignsTyped DEF Assigns
<1>2. \A q \in Run : task[q] = t => Same(q)
  BY <1>1
<1>3. Alive(t)' = Alive(t) /\ RunsOf(t)' = RunsOf(t) /\ Fresh(t)' = Fresh(t)
  BY <1>1, <1>2 DEF Alive, RunsOf, Fresh, Exhausted, Same
<1>4. \A q \in Alive(t) : /\ base'[q] = base[q] /\ count'[q] = count[q]
                          /\ pc'[q] = "guard" => pc[q] = "guard"
  BY <1>2 DEF Alive, Same
<1>5. \A q \in Run : q \in RunsOf(t)' /\ HasAnswered(q)' => q \in RunsOf(t) /\ HasAnswered(q)
  BY <1>2, <1>3, AnsweredSame DEF RunsOf
<1>6. status'[t] = status[t] /\ saved'[t] = saved[t] /\ asked'[t] = asked[t]
  BY AssignsTyped
<1>. QED
  BY <1>3, <1>4, <1>5, <1>6, RowKept, SoundBefore

\* A task that nobody knows of: only the run that may start it can do anything to it.
LEMMA UnknownRun ==
  ASSUME TypeOK, Life, NEW r \in Run, RunStep(r) \/ Hear(r), NEW t \in Task, Unknown(t)
  PROVE  Unknown(t)'
<1>. USE DEF rowVars, callVars, runVars, poolVars, historyVars, Move
<1>a. Assigns(r) /\ kind' = kind /\ task' = task
  BY RunAssigns DEF Assigns
<1>s. \A q \in Run : q # r => Same(q)
  BY <1>a, AssignsTyped
<1>f. \A v : Set(pc, r, v)[r] = v
  BY DEF TypeOK, Set
<1>1. ASSUME pc'[r] \in {"total", "slot", "spawn"}
      PROVE  pc[r] \in {"total", "slot"} /\ UNCHANGED <<status, saved, asked>>
  <2>1. CASE CountSpawn(r) \/ AcquireSlot(r)
    BY <2>1 DEF CountSpawn, AcquireSlot
  <2>2. CASE Hear(r)
    BY <1>1, <2>2 DEF Hear, Started, Working
  <2>3. CASE ~(CountSpawn(r) \/ AcquireSlot(r) \/ Hear(r))
    BY <1>1, <1>f, <2>3
    DEF RunStep, SpawnFails, Spawn, Load, ResumeFails, TakeGuard, AskModel, RunTools, GiveUp,
        SendEvent, RecordDone, RecordError, CloseChannel, Drained
  <2>. QED
    BY <2>1, <2>2, <2>3
<1>2. pc[r] # "none"
  BY DEF RunStep, CountSpawn, AcquireSlot, SpawnFails, Spawn, Load, ResumeFails, TakeGuard,
         AskModel, RunTools, GiveUp, SendEvent, RecordDone, RecordError, CloseChannel, Drained,
         Hear, Started, Working
<1>3. kind[r] # "none"
  BY <1>2 DEF Life, LifeOf
<1>4. ASSUME Unborn(t)' PROVE Unborn(t)
  BY <1>a, <1>s, <1>1, <1>4 DEF Unborn, Same
<1>5. ASSUME Unborn(t)', task[r] = t PROVE UNCHANGED <<status, saved, asked>>
  <2>1. r = t
    BY <1>3, <1>4, <1>5 DEF Unknown, RunsOf
  <2>. QED
    BY <1>a, <1>1, <1>3, <1>5, <2>1 DEF Unborn
<1>6. RunsOf(t)' = RunsOf(t)
  BY <1>a DEF RunsOf
<1>7. task[r] # t => status'[t] = status[t] /\ saved'[t] = saved[t] /\ asked'[t] = asked[t]
  BY <1>a, AssignsTyped
<1>. QED
  BY <1>4, <1>5, <1>6, <1>7 DEF Unknown

\* The run that takes a task up: there was none, and the budget it gets is in the bound.
LEMMA RowSpawn ==
  ASSUME TypeOK, Life, NEW r \in Run, NEW t \in Task, t = task[r], Spawn(r), Assigns(r), RowOf(t), Sound(t)'
  PROVE  SoundRow(t)'
<1>1. /\ pc[r] = "spawn" /\ pc' = Set(pc, r, "top")
      /\ status' = Set(status, r, "running") \/ status' = status
      /\ UNCHANGED <<saved, asked, kind, task, base, count, event>>
      /\ told' = Set(told, r, "background") \/ told' = told
  BY DEF Spawn, Move, historyVars
<1>2. /\ kind[r] \in {"delegate", "background"} /\ t = r /\ base[r] = 0 /\ count[r] = 0
      /\ told[r] = "none" /\ event[r] = "none"
  BY <1>1 DEF Life, LifeOf, Early
<1>3. /\ status[r] = "none" /\ saved[r] = 0 /\ asked[r] = 0
      /\ \A q \in RunsOf(r) : q = r
  BY <1>1, <1>2 DEF RowOf, Unknown, Unborn
<1>4. r \in Task
  BY DEF Task
<1>5. /\ pc'[r] = "top" /\ status'[r] \in {"none", "running"}
      /\ told'[r] # "answer"
  BY <1>1, <1>2, <1>3, <1>4 DEF TypeOK, Set
<1>6. RunsOf(r)' = {r} /\ Alive(r)' = {r} /\ Fresh(r)' = Fresh(r)
  BY <1>1, <1>2, <1>3, <1>5 DEF RunsOf, Alive, Fresh, Working, Exhausted
<1>7. Bound(r)' = Bound(r) /\ Bound(r) \in Nat /\ MaxTurns <= Bound(r)
  BY <1>4, <1>6, BoundGrows DEF Bound
<1>8. Budget(r)' = MaxTurns /\ MaxTurns \in Nat
  BY <1>1, <1>2, SubagentAssumption DEF Budget, Exhausted
<1>9. Idle(r)' /\ Ended(r)'
  BY <1>1, <1>2, <1>5, <1>6 DEF Idle, Ended, HasAnswered
<1>10. Busy(r)'
  BY <1>1, <1>2, <1>3, <1>5, <1>6, <1>7, <1>8 DEF Busy
<1>11. asked'[r] <= Bound(r)'
  BY <1>1, <1>3, <1>7
<1>. QED
  BY <1>9, <1>10, <1>11, <1>2 DEF SoundRow

\* A resume reads a row that nobody is about to write.
LEMMA RowLoad ==
  ASSUME TypeOK, Life, NEW r \in Run, NEW t \in Task, t = task[r], Load(r), Assigns(r), RowOf(t),
         Sound(t)', pc'[r] = "guard"
  PROVE  SoundRow(t)'
<1>0. pc' = Set(pc, r, "guard")
  BY RunTyped DEF Load, TypeOK, Set
<1>1. /\ pc[r] = "load"
      /\ status[t] # "completed" /\ base' = Set(base, r, saved[t])
      /\ overlap' = IF Alive(t) = {} THEN overlap ELSE overlap \cup {t}
      /\ UNCHANGED <<status, saved, asked, kind, task, count, event, told>>
  BY <1>0 DEF Load, rowVars, historyVars, Settled, TypeOK, Set
<1>2. Alive(t) = {}
  BY <1>1 DEF Sound
<1>3. kind[r] = "resume" /\ base[r] = 0 /\ count[r] = 0
  BY <1>1 DEF Life, LifeOf, Early
<1>4. SoundRow(t) /\ saved[t] = asked[t] /\ status[t] # "running"
  BY <1>2, SoundBefore DEF RowOf, SoundRow, Idle
<1>5. \A q \in Run : q # r => pc'[q] = pc[q] /\ base'[q] = base[q]
  BY <1>0, <1>1 DEF TypeOK, Set
<1>6. base'[r] = saved[t] /\ saved[t] \in Nat
  BY <1>1 DEF TypeOK, Set
<1>7. RunsOf(t)' = RunsOf(t) /\ r \in RunsOf(t) /\ Alive(t)' = {r}
  BY <1>1, <1>2, <1>3, <1>5 DEF RunsOf, Alive, Working
<1>8. IsFiniteSet(Fresh(t)) /\ Cardinality(Fresh(t)) \in Nat /\ Bound(t) \in Nat
      /\ MaxTurns <= Bound(t)
  BY FreshFinite, BoundGrows
<1>9. /\ Budget(r)' \in Nat /\ saved[t] + Budget(r)' <= Bound(t)'
      /\ Bound(t) <= Bound(t)' /\ Bound(t)' \in Nat
  <2>1. CASE Exhausted(saved[t])
    <3>1. Fresh(t)' = Fresh(t) \cup {r}
      BY <1>1, <1>3, <1>5, <1>6, <1>7, <2>1 DEF Fresh, Exhausted, RunsOf
    <3>2. r \notin Fresh(t)
      BY <1>3, SubagentAssumption DEF Fresh, Exhausted
    <3>3. Cardinality(Fresh(t)') = Cardinality(Fresh(t)) + 1
      BY <1>8, <3>1, <3>2, FS_AddElement
    <3>4. Bound(t)' = Bound(t) + ResumeTurns
      BY <1>8, <3>3, TimesMore, SubagentAssumption DEF Bound
    <3>5. Budget(r)' = ResumeTurns
      BY <1>6, <2>1 DEF Budget, Exhausted
    <3>6. saved[t] <= Bound(t)
      BY <1>4 DEF SoundRow
    <3>. QED
      BY <1>6, <1>8, <3>4, <3>5, <3>6, SubagentAssumption
  <2>2. CASE ~Exhausted(saved[t])
    <3>1. Fresh(t)' = Fresh(t)
      BY <1>1, <1>3, <1>5, <1>6, <1>7, <2>2, SubagentAssumption DEF Fresh, Exhausted, RunsOf
    <3>2. Budget(r)' = MaxTurns - saved[t] /\ saved[t] < MaxTurns
      BY <1>6, <2>2, SubagentAssumption DEF Budget, Exhausted
    <3>3. Bound(t)' = Bound(t)
      BY <3>1 DEF Bound
    <3>. QED
      BY <1>6, <1>8, <3>2, <3>3, SubagentAssumption
  <2>. QED
    BY <2>1, <2>2
<1>10. Idle(t)'
  BY <1>7 DEF Idle
<1>11. Busy(t)'
  <2>1. asked'[t] = base'[r] + count'[r] /\ count'[r] <= Budget(r)'
    BY <1>1, <1>3, <1>4, <1>6, <1>9
  <2>. QED
    BY <1>1, <1>4, <1>6, <1>7, <1>9, <2>1 DEF Busy
<1>12. Ended(t)'
  <2>1. \A q \in RunsOf(t) : HasAnswered(q)' => HasAnswered(q)
    BY <1>0, <1>1, <1>5 DEF HasAnswered, RunsOf, TypeOK, Set
  <2>. QED
    BY <1>1, <1>4, <1>7, <2>1 DEF Ended, SoundRow
<1>13. asked'[t] <= Bound(t)'
  BY <1>1, <1>4, <1>6, <1>8, <1>9 DEF SoundRow
<1>. QED
  BY <1>10, <1>11, <1>12, <1>13 DEF SoundRow

\* A resume that is refused after it read the row has done nothing.
LEMMA RowResumeFails ==
  ASSUME TypeOK, Life, NEW r \in Run, NEW t \in Task, t = task[r], ResumeFails(r), Assigns(r),
         RowOf(t), Sound(t)'
  PROVE  SoundRow(t)'
<1>1. /\ pc[r] = "guard" /\ pc' = Set(pc, r, "gone") /\ told' = Set(told, r, "refused")
      /\ UNCHANGED <<status, saved, asked, kind, task, base, count, event>>
  BY DEF ResumeFails, Move, Refuse, rowVars, historyVars
<1>2. kind[r] = "resume" /\ count[r] = 0 /\ base[r] \in Nat
  BY <1>1, RunTyped DEF Life, LifeOf, Early
<1>3. r \in Alive(t)
  BY <1>1, <1>2 DEF Alive, Working
<1>4. SoundRow(t)
  BY SoundBefore DEF RowOf
<1>5. /\ \A q \in Alive(t) : q = r
      /\ asked[t] = base[r] + count[r] /\ saved[t] = base[r] /\ status[t] # "running"
  BY <1>1, <1>3, <1>4 DEF SoundRow, Busy
<1>6. \A q \in Run : q # r => pc'[q] = pc[q] /\ told'[q] = told[q]
  BY <1>1 DEF TypeOK, Set
<1>7. pc'[r] = "gone" /\ told'[r] = "refused"
  BY <1>1 DEF TypeOK, Set
<1>8. Alive(t)' = {} /\ RunsOf(t)' = RunsOf(t) /\ Fresh(t)' = Fresh(t)
  BY <1>1, <1>5, <1>6, <1>7 DEF Alive, RunsOf, Fresh, Exhausted, Working
<1>9. Idle(t)'
  BY <1>1, <1>2, <1>5 DEF Idle
<1>10. Busy(t)'
  BY <1>8 DEF Busy
<1>11. Ended(t)'
  <2>1. \A q \in RunsOf(t) : HasAnswered(q)' => HasAnswered(q)
    BY <1>1, <1>6, <1>7 DEF HasAnswered, RunsOf
  <2>. QED
    BY <1>1, <1>4, <1>8, <2>1 DEF Ended, SoundRow
<1>12. asked'[t] <= Bound(t)'
  BY <1>1, <1>4, <1>8 DEF SoundRow, Bound
<1>. QED
  BY <1>9, <1>10, <1>11, <1>12 DEF SoundRow

\* A provider call is one of those the run has left.
LEMMA RowAsk ==
  ASSUME TypeOK, Life, NEW r \in Run, NEW t \in Task, t = task[r], AskModel(r), Assigns(r),
         RowOf(t), Sound(t)'
  PROVE  SoundRow(t)'
<1>1. /\ pc[r] = "top" /\ \E next \in {"answer", "tools", "error"} : pc' = Set(pc, r, next)
      /\ UNCHANGED <<status, saved, kind, task, base, event, told>>
  BY DEF AskModel, Move, rowVars, callVars
<1>2. kind[r] # "none" /\ base[r] \in Nat /\ count[r] \in Nat /\ asked[t] \in Nat
  BY <1>1, RunTyped DEF Life, LifeOf
<1>3. r \in Alive(t)
  BY <1>1, <1>2 DEF Alive, Working
<1>4. SoundRow(t)
  BY SoundBefore DEF RowOf
<1>5. /\ \A q \in Alive(t) : q = r
      /\ asked[t] = base[r] + count[r] /\ status[t] # "completed"
      /\ count[r] <= Budget(r) /\ base[r] + Budget(r) <= Bound(t)
  BY <1>3, <1>4 DEF SoundRow, Busy
<1>6. pc'[r] \in {"answer", "tools", "error"} /\ \A q \in Run : q # r => pc'[q] = pc[q]
  BY <1>1 DEF TypeOK, Set
<1>7. Alive(t)' = Alive(t) /\ RunsOf(t)' = RunsOf(t) /\ Fresh(t)' = Fresh(t)
  BY <1>1, <1>6 DEF Alive, RunsOf, Fresh, Exhausted, Working
<1>8. Budget(r)' = Budget(r) /\ Bound(t)' = Bound(t) /\ Budget(r) \in Nat /\ Bound(t) \in Nat
  BY <1>1, <1>2, <1>7, BoundGrows, SubagentAssumption DEF Budget, Exhausted, Bound
<1>9. /\ asked'[t] = base[r] + count'[r] /\ count'[r] <= Budget(r) /\ count'[r] \in Nat
  <2>1. CASE count[r] >= Budget(r)
    BY <1>2, <1>5, <2>1 DEF AskModel
  <2>2. CASE ~(count[r] >= Budget(r))
    <3>1. count'[r] = count[r] + 1 /\ asked'[t] = asked[t] + 1
      BY <2>2 DEF AskModel, TypeOK, Set
    <3>. QED
      BY <1>2, <1>5, <1>8, <2>2, <3>1
  <2>. QED
    BY <2>1, <2>2
<1>10. Idle(t)'
  BY <1>3, <1>7 DEF Idle
<1>11. Busy(t)'
  BY <1>1, <1>5, <1>6, <1>7, <1>8, <1>9 DEF Busy
<1>12. Ended(t)'
  <2>1. \A q \in RunsOf(t) : HasAnswered(q)' => HasAnswered(q)
    BY <1>1, <1>6 DEF HasAnswered, RunsOf
  <2>. QED
    BY <1>1, <1>4, <1>7, <2>1 DEF Ended, SoundRow
<1>13. asked'[t] <= Bound(t)'
  BY <1>2, <1>5, <1>8, <1>9
<1>. QED
  BY <1>10, <1>11, <1>12, <1>13 DEF SoundRow

\* A run that ends and writes its row leaves it up to date.
LEMMA RowRecord ==
  ASSUME TypeOK, Life, NEW r \in Run, NEW t \in Task, t = task[r],
         RecordDone(r) \/ RecordError(r), Assigns(r), RowOf(t), Sound(t)'
  PROVE  SoundRow(t)'
<1>1. /\ pc[r] \in {"record", "fail"} /\ pc' = Set(pc, r, "closing")
      /\ UNCHANGED <<asked, kind, task, base, count, event, told>>
  BY DEF RecordDone, RecordError, Move, callVars
<1>2. kind[r] # "none" /\ base[r] \in Nat /\ count[r] \in Nat
  BY <1>1, RunTyped DEF Life, LifeOf
<1>3. r \in Alive(t)
  BY <1>1, <1>2 DEF Alive, Working
<1>4. SoundRow(t)
  BY SoundBefore DEF RowOf
<1>5. /\ \A q \in Alive(t) : q = r
      /\ asked[t] = base[r] + count[r] /\ status[t] # "completed"
  BY <1>3, <1>4 DEF SoundRow, Busy
<1>6. /\ saved'[t] = base[r] + count[r] /\ status'[t] # "running"
      /\ pc[r] = "record" => status'[t] = "completed"
  <2>1. PICK s \in {"completed", "interrupted", "failed"} :
          Write(r, s) /\ (pc[r] = "record" => s = "completed")
    BY DEF RecordDone, RecordError, Move
  <2>2. t \notin unsaved'
    BY <1>1 DEF Sound
  <2>3. status' = Set(status, t, s) /\ saved' = Set(saved, t, base[r] + count[r])
    BY <2>1, <2>2 DEF Write
  <2>. QED
    BY <2>1, <2>3 DEF TypeOK, Set
<1>7. \A q \in Run : q # r => pc'[q] = pc[q]
  BY <1>1 DEF TypeOK, Set
<1>8. pc'[r] = "closing"
  BY <1>1 DEF TypeOK, Set
<1>9. Alive(t)' = {} /\ RunsOf(t)' = RunsOf(t) /\ Fresh(t)' = Fresh(t)
  BY <1>1, <1>5, <1>7, <1>8 DEF Alive, RunsOf, Fresh, Exhausted, Working
<1>10. Idle(t)'
  BY <1>1, <1>5, <1>6 DEF Idle
<1>11. Busy(t)'
  BY <1>9 DEF Busy
<1>12. Ended(t)'
  <2>1. ASSUME NEW q \in RunsOf(t), q # r PROVE ~HasAnswered(q)'
    BY <1>1, <1>4, <1>5, <1>7, <2>1 DEF HasAnswered, RunsOf, Ended, SoundRow
  <2>2. HasAnswered(r)' => pc[r] = "record"
    BY <1>1 DEF HasAnswered, Life, LifeOf
  <2>. QED
    BY <1>6, <1>9, <2>1, <2>2 DEF Ended
<1>13. asked'[t] <= Bound(t)'
  BY <1>1, <1>4, <1>9 DEF SoundRow, Bound
<1>. QED
  BY <1>10, <1>11, <1>12, <1>13 DEF SoundRow

LEMMA RowRun ==
  ASSUME TypeOK, Life, NEW r \in Run, RunStep(r) \/ Hear(r), NEW t \in Task, RowOf(t)
  PROVE  RowOf(t)'
<1>. USE DEF rowVars, callVars, runVars, poolVars, historyVars, Move
<1>a. Assigns(r)
  BY RunAssigns
<1>u. Unknown(t)'
  BY UnknownRun DEF RowOf
<1>. SUFFICES ASSUME Sound(t)' PROVE SoundRow(t)'
  BY <1>u DEF RowOf
<1>1. CASE task[r] # t
  BY <1>a, <1>1, RowElsewhere
<1>2. CASE Quiet(r)
  BY <1>a, <1>2, RowQuiet
<1>. SUFFICES ASSUME t = task[r], ~Quiet(r) PROVE SoundRow(t)'
  BY <1>1, <1>2
<1>l. LifeOf(r)
  BY DEF Life
<1>f. \A v : Set(pc, r, v)[r] = v /\ Set(told, r, v)[r] = v
  BY DEF TypeOK, Set
<1>3. CASE CountSpawn(r) \/ AcquireSlot(r) \/ SpawnFails(r)
  <2>1. /\ pc[r] \in {"total", "slot", "spawn"} /\ pc'[r] \in {"slot", "spawn", "gone"}
        /\ UNCHANGED <<status, saved, asked, base, count, event>>
        /\ told' = told \/ told' = Set(told, r, "refused")
    BY <1>3, <1>f DEF CountSpawn, AcquireSlot, SpawnFails, Refuse
  <2>. QED
    BY <1>f, <2>1 DEF Quiet, Working, HasAnswered
<1>4. CASE Spawn(r)
  BY <1>a, <1>4, RowSpawn
<1>5. CASE Load(r)
  <2>1. CASE pc'[r] = "guard"
    BY <1>a, <1>5, <2>1, RowLoad
  <2>2. CASE pc'[r] # "guard"
    <3>1. /\ pc[r] = "load" /\ pc'[r] = "gone" /\ told'[r] \in {"refused", "stored"}
          /\ UNCHANGED <<status, saved, asked, base, count, event>>
      BY <1>5, <1>f, <2>2 DEF Load
    <3>. QED
      BY <3>1 DEF Quiet, Working, HasAnswered
  <2>. QED
    BY <2>1, <2>2
<1>6. CASE ResumeFails(r)
  BY <1>a, <1>6, RowResumeFails
<1>7. CASE TakeGuard(r) \/ RunTools(r)
  <2>1. /\ pc[r] \in {"guard", "tools"} /\ pc'[r] \in {"top", "error"}
        /\ UNCHANGED <<status, saved, asked, base, count, event, told>>
    BY <1>7, <1>f DEF TakeGuard, RunTools
  <2>. QED
    BY <2>1 DEF Quiet, Working, HasAnswered
<1>8. CASE AskModel(r)
  BY <1>a, <1>8, RowAsk
<1>9. CASE GiveUp(r)
  BY <1>9 DEF GiveUp, Sound
<1>10. CASE SendEvent(r)
  <2>1. /\ pc[r] \in {"answer", "error"} /\ pc'[r] \in {"record", "fail"}
        /\ UNCHANGED <<status, saved, asked, base, count, told>>
    BY <1>10, <1>f DEF SendEvent
  <2>. QED
    BY <2>1 DEF Quiet, Working, HasAnswered
<1>11. CASE RecordDone(r) \/ RecordError(r)
  BY <1>a, <1>11, RowRecord
<1>12. CASE CloseChannel(r) \/ Drained(r)
  <2>1. /\ \/ pc[r] = "closing" /\ pc'[r] = "closed"
           \/ pc[r] = "closed" /\ pc'[r] = "gone"
        /\ UNCHANGED <<status, saved, asked, base, count, told, event>>
    BY <1>12, <1>f DEF CloseChannel, Drained
  <2>. QED
    BY <2>1 DEF Quiet, Working, HasAnswered
<1>13. CASE Hear(r)
  <2>1. UNCHANGED <<status, saved, asked, base, count, pc, event>>
    BY <1>13 DEF Hear
  <2>2. told'[r] = "answer" => pc[r] = "closed" /\ event[r] = "done"
    BY <1>13, <1>l, <1>f DEF Hear, Open, Answered, TypeOK, LifeOf
  <2>. QED
    BY <2>1, <2>2 DEF Quiet, HasAnswered
<1>. QED
  BY <1>3, <1>4, <1>5, <1>6, <1>7, <1>8, <1>9, <1>10, <1>11, <1>12, <1>13 DEF RunStep

\* A new run is of a task of its own, or of one that a call has named.
LEMMA RowLaunch ==
  ASSUME TypeOK, Life, NEW th \in Thread, NEW k \in {"delegate", "background", "resume"},
         NEW x, NEW start \in {"spawn", "total", "load"}, Launch(th, k, x, start),
         \/ x = launched + 1 /\ k # "resume"
         \/ Known(x) /\ k = "resume" /\ start = "load",
         NEW t \in Task, RowOf(t)
  PROVE  RowOf(t)'
<1>. PICK r \in Run : r = launched + 1
  BY LaunchFacts
<1>1. /\ kind[r] = "none" /\ kind'[r] = k /\ task'[r] = x /\ pc'[r] = start
      /\ \A q \in Run : q # r => Same(q)
      /\ UNCHANGED <<status, saved, asked, told, base, count, event, overlap, unsaved>>
  BY LaunchFacts DEF rowVars, historyVars
<1>2. /\ base[r] = 0 /\ told[r] = "none" /\ event[r] = "none" /\ pc[r] = "none"
  BY <1>1 DEF Life, LifeOf, Early
<1>3. Alive(t)' = Alive(t)
  <2>1. r \notin Alive(t)
    BY ONLY <1>2 DEF Alive, Working
  <2>2. r \notin Alive(t)'
    <3>1. pc'[r] \in {"spawn", "total", "load"}
      BY <1>1
    <3>. QED
      BY ONLY <3>1 DEF Alive, Working
  <2>3. ASSUME NEW q \in Run, q # r PROVE q \in Alive(t)' <=> q \in Alive(t)
    <3>1. Same(q)
      BY <1>1, <2>3
    <3>. QED
      BY ONLY <3>1 DEF Same, Alive
  <2>4. Alive(t) \subseteq Run /\ Alive(t)' \subseteq Run
    BY DEF Alive
  <2>. QED
    BY ONLY <2>1, <2>2, <2>3, <2>4
<1>4. \A q \in Run : q # r => (q \in RunsOf(t)' <=> q \in RunsOf(t))
  BY <1>1 DEF RunsOf, Same
<1>5. r \notin RunsOf(t)
  BY <1>1 DEF RunsOf
<1>6. Fresh(t)' = Fresh(t)
  <2>1. Fresh(t) \subseteq Run /\ Fresh(t)' \subseteq Run
    BY DEF Fresh, RunsOf
  <2>2. \A q \in Run : q # r => (q \in Fresh(t)' <=> q \in Fresh(t))
    BY <1>1, <1>4 DEF Fresh, Exhausted, Same
  <2>3. r \notin Fresh(t) /\ r \notin Fresh(t)'
    <3>1. base[r] = 0 /\ base'[r] = 0
      BY <1>1, <1>2
    <3>2. ~(0 >= MaxTurns)
      BY SubagentAssumption
    <3>. QED
      BY <3>1, <3>2 DEF Fresh, Exhausted
  <2>4. \A q : q \in Fresh(t)' <=> q \in Fresh(t)
    BY <2>1, <2>2, <2>3
  <2>. QED
    BY <2>4
<1>7. Unknown(t)'
  <2>. SUFFICES ASSUME Unborn(t)'
                PROVE  /\ status'[t] = "none" /\ saved'[t] = 0 /\ asked'[t] = 0
                       /\ \A q \in RunsOf(t)' : q = t
    BY DEF Unknown
  <2>1. Unborn(t)
    BY <1>1 DEF Unborn, Same
  <2>2. told[t] = "none" /\ t \in Run
    <3>1. t \in Run /\ LifeOf(t)
      BY <2>1 DEF Unborn, Life
    <3>2. kind[t] = "none" \/ pc[t] \in Early
      BY <2>1 DEF Unborn, Early
    <3>. QED
      BY <3>1, <3>2 DEF LifeOf
  <2>3. ~Known(t)
    BY <2>2, RunsAreNumbers DEF Known
  <2>4. r \in RunsOf(t)' => r = t
    BY <1>1, <2>3 DEF RunsOf
  <2>5. \A q \in RunsOf(t) : q = t
    BY <2>1 DEF RowOf, Unknown
  <2>6. \A q \in RunsOf(t)' : q \in Run
    BY DEF RunsOf
  <2>. QED
    BY <1>1, <1>4, <2>1, <2>4, <2>5, <2>6 DEF RowOf, Unknown
<1>8. ASSUME Sound(t)' PROVE SoundRow(t)'
  <2>1. Sound(t)
    BY <1>1, <1>8 DEF Sound
  <2>2. \A q \in Alive(t) : /\ base'[q] = base[q] /\ count'[q] = count[q]
                            /\ pc'[q] = "guard" => pc[q] = "guard"
    BY <1>1 DEF Alive, Same
  <2>3. ~HasAnswered(r)'
    BY <1>1, <1>2 DEF HasAnswered
  <2>4. \A q \in Run : q \in RunsOf(t)' /\ HasAnswered(q)' => q \in RunsOf(t) /\ HasAnswered(q)
    BY <1>1, <1>4, <2>3, AnsweredSame
  <2>. QED
    BY <1>1, <1>3, <1>6, <1>8, <2>1, <2>2, <2>4, RowKept
<1>. QED
  BY <1>7, <1>8 DEF RowOf

\* A step that changes neither runs nor rows.
LEMMA RowUntouched ==
  ASSUME NEW t \in Task, RowOf(t),
         UNCHANGED <<status, saved, asked, kind, task, pc, base, count, event, told, overlap,
                     unsaved>>
  PROVE  RowOf(t)'
<1>1. /\ Alive(t)' = Alive(t) /\ RunsOf(t)' = RunsOf(t) /\ Fresh(t)' = Fresh(t)
      /\ Sound(t)' = Sound(t) /\ Unborn(t)' = Unborn(t)
  BY DEF Alive, RunsOf, Fresh, Exhausted, Sound, Unborn
<1>2. \A q \in Run : HasAnswered(q)' <=> HasAnswered(q)
  BY DEF HasAnswered
<1>3. Unknown(t)'
  BY <1>1 DEF RowOf, Unknown
<1>4. ASSUME Sound(t)' PROVE SoundRow(t)'
  BY <1>1, <1>2, <1>4, RowKept
<1>. QED
  BY <1>3, <1>4 DEF RowOf

\* The crash marks the tasks it cuts off.
LEMMA RowCrash ==
  ASSUME TypeOK, Life, Crash, NEW t \in Task, RowOf(t)
  PROVE  RowOf(t)'
<1>1. /\ pc' = [r \in Run |-> IF kind[r] = "none" THEN "none" ELSE "gone"]
      /\ told' = [r \in Run |-> IF told[r] = "none" /\ kind[r] # "none" THEN "interrupted"
                                ELSE told[r]]
      /\ unsaved' = unsaved \cup {x \in Task : Alive(x) # {}}
      /\ UNCHANGED <<status, saved, asked, kind, task, base, count, event, overlap>>
  BY DEF Crash, rowVars
<1>2. Alive(t)' = {} /\ RunsOf(t)' = RunsOf(t) /\ Fresh(t)' = Fresh(t)
  BY <1>1 DEF Alive, RunsOf, Fresh, Exhausted, Working
<1>3. Unknown(t)'
  BY <1>1, <1>2 DEF RowOf, Unknown, Unborn
<1>4. ASSUME Sound(t)' PROVE SoundRow(t)'
  <2>1. Sound(t) /\ Alive(t) = {}
    BY <1>1, <1>4 DEF Sound
  <2>2. \A q \in Run : HasAnswered(q)' => HasAnswered(q)
    BY <1>1 DEF HasAnswered
  <2>3. status'[t] = status[t] /\ saved'[t] = saved[t] /\ asked'[t] = asked[t]
    BY <1>1
  <2>. QED
    BY <1>2, <1>4, <2>1, <2>2, <2>3, RowKept
<1>. QED
  BY <1>3, <1>4 DEF RowOf

LEMMA RowsStep == TypeOK /\ Life /\ Rows /\ [Next]_vars => Rows'
<1>. SUFFICES ASSUME TypeOK, Life, [Next]_vars, NEW t \in Task, RowOf(t) PROVE RowOf(t)'
  BY DEF Rows
<1>. USE DEF rowVars, callVars, runVars, poolVars, historyVars, vars
<1>1. ASSUME NEW th \in Thread, Delegate(th) PROVE RowOf(t)'
  <2>1. CASE Launch(th, "delegate", launched + 1, "spawn")
    BY <2>1, RowLaunch
  <2>2. CASE Launch(th, "background", launched + 1, "total")
    BY <2>2, RowLaunch
  <2>. QED
    BY <1>1, <2>1, <2>2 DEF Delegate
<1>2. ASSUME NEW th \in Thread, NEW x \in Task, Resume(th, x) PROVE RowOf(t)'
  BY <1>2, RowLaunch DEF Resume
<1>3. ASSUME NEW th \in Thread, Cancel(th) \/ EndTurn(th) PROVE RowOf(t)'
  BY <1>3, RowUntouched DEF Cancel, EndTurn
<1>4. ASSUME NEW r \in Run, RunStep(r) \/ Hear(r) PROVE RowOf(t)'
  BY <1>4, RowRun
<1>5. ASSUME NEW r \in Run, Watch(r) PROVE RowOf(t)'
  BY <1>5, RowUntouched, WatchOnly
<1>6. CASE Crash
  BY <1>6, RowCrash
<1>7. CASE UNCHANGED vars
  BY <1>7, RowUntouched
<1>. QED
  BY <1>1, <1>2, <1>3, <1>4, <1>5, <1>6, <1>7 DEF Next

LEMMA RunInit == Init => RunInv
<1>. SUFFICES ASSUME Init PROVE RunInv
  OBVIOUS
<1>n. Run \subseteq Nat \ {0} /\ Old \notin Run
  BY RunsAreNumbers
<1>0. PICK s \in {"running", "failed"} :
        status = [t \in Task |-> IF t = Old THEN s ELSE "none"]
  BY DEF Init
<1>1. /\ \A t \in Task : status[t] \in {"none", "running", "failed"}
      /\ \A t \in Task : t # Old => status[t] = "none"
  BY <1>0
<1>2. TypeOK
  <2>1. (CHOOSE th \in Thread : TRUE) \in Thread
    BY SubagentAssumption
  <2>2. status \in [Task -> StatusOf] /\ saved \in [Task -> Nat]
    BY <1>0, SubagentAssumption DEF Init, StatusOf
  <2>3. task \in [Run -> Task] /\ thread \in [Run -> Thread]
    BY <2>1 DEF Init, Task, Old
  <2>4. count \in [Run -> 0 .. MaxTurns + ResumeTurns] /\ base \in [Run -> Nat]
        /\ inflight \in [Thread -> 0 .. MaxConcurrent] /\ spent \in [Thread -> 0 .. MaxTotal]
    BY SubagentAssumption DEF Init
  <2>5. WatchTypeOK
    BY DEF Init, WatchTypeOK
  <2>. QED
    BY <2>2, <2>3, <2>4, <2>5 DEF Init, TypeOK, StatusOf
<1>3. Life
  BY <1>n DEF Init, Life, LifeOf, Early
<1>4. SlotsExact
  <2>1. \A th \in Thread : Holders(th) = {}
    BY DEF Init, Holders, Background
  <2>. QED
    BY <2>1, FS_EmptySet DEF Init, SlotsExact
<1>5. ASSUME NEW t \in Task PROVE RowOf(t)
  <2>1. Alive(t) = {} /\ RunsOf(t) = {}
    BY DEF Init, Alive, RunsOf
  <2>2. asked[t] = saved[t] /\ saved[t] <= MaxTurns
    BY SubagentAssumption DEF Init
  <2>3. Bound(t) \in Nat /\ MaxTurns <= Bound(t)
    BY <1>2, <1>3, BoundGrows
  <2>4. t \in Run => status[t] = "none" /\ saved[t] = 0 /\ asked[t] = 0
    BY <1>n, <1>1 DEF Init
  <2>5. Sound(t) => status[t] # "running"
    BY DEF Init, Sound
  <2>6. Unknown(t)
    BY <2>1, <2>4 DEF Unknown, Unborn
  <2>7. asked[t] <= Bound(t)
    BY <1>2, <2>2, <2>3, SubagentAssumption DEF TypeOK
  <2>. QED
    BY <2>1, <2>2, <2>5, <2>6, <2>7 DEF RowOf, SoundRow, Idle, Busy, Ended
<1>. QED
  BY <1>2, <1>3, <1>4, <1>5 DEF RunInv, Rows

LEMMA RunNext == RunInv /\ [Next]_vars => RunInv'
BY TypeStep, LifeStep, SlotsStep, RowsStep DEF RunInv

THEOREM RunInvHolds == Spec => []RunInv
BY RunInit, RunNext, PTL DEF Spec

-----------------------------------------------------------------------------
(* What follows from it.                                                    *)

\* The limits hold for any number of threads, runs, slots and turns: the limiter counts
\* exactly the background runs under way, and over all its runs a task makes no more
\* provider calls than its cap and the fresh budgets it was given.
THEOREM LimitsHoldAlways == Spec => []LimitsHold
<1>1. RunInv => LimitsHold
  BY DEF RunInv, Rows, RowOf, SoundRow, Bound, LimitsHold, BudgetHolds
<1>. QED
  BY <1>1, RunInvHolds, PTL

\* A parent that was given an answer got the sub-agent's own, and the row says so.
THEOREM AnswerIsStoredHolds == Spec => []AnswerIsStored
<1>1. ASSUME RunInv, NEW r \in Run, told[r] = "answer"
      PROVE  event[r] = "done" /\ (Sound(task[r]) => status[task[r]] = "completed")
  <2>1. event[r] = "done" /\ kind[r] # "none"
    BY <1>1 DEF RunInv, Life, LifeOf
  <2>2. task[r] \in Task /\ r \in RunsOf(task[r])
    BY <1>1, <2>1, RunTyped DEF RunInv, RunsOf
  <2>3. Sound(task[r]) => Ended(task[r])
    BY <1>1, <2>2 DEF RunInv, Rows, RowOf, SoundRow
  <2>. QED
    BY <1>1, <2>1, <2>2, <2>3 DEF Ended, HasAnswered
<1>2. RunInv => AnswerIsStored
  BY <1>1 DEF AnswerIsStored
<1>. QED
  BY <1>2, RunInvHolds, PTL

\* A row says "running" only while a run of its task is under way.
THEOREM RunningIsAliveHolds == Spec => []RunningIsAlive
<1>1. RunInv => RunningIsAlive
  BY DEF RunInv, Rows, RowOf, SoundRow, Idle, RunningIsAlive
<1>. QED
  BY <1>1, RunInvHolds, PTL

\* Completed work is not started again: no run of the task is under way, and one that is
\* asked for is answered from the row.
Stays ==
  \A t \in Task : status[t] = "completed" /\ Sound(t)
    => status'[t] = "completed" /\ asked'[t] = asked[t]

LEMMA StaysStep == RunInv /\ [Next]_vars => Stays
<1>. SUFFICES ASSUME RunInv, [Next]_vars, NEW t \in Task, status[t] = "completed", Sound(t)
              PROVE  status'[t] = "completed" /\ asked'[t] = asked[t]
  BY DEF Stays
<1>. USE DEF rowVars, callVars, runVars, poolVars, historyVars, vars, Move
<1>1. TypeOK /\ Life /\ Unknown(t) /\ Alive(t) = {}
  BY DEF RunInv, Rows, RowOf, SoundRow, Busy
<1>2. ASSUME UNCHANGED <<status, asked>> PROVE status'[t] = "completed" /\ asked'[t] = asked[t]
  BY <1>2
<1>3. ASSUME NEW r \in Run, RunStep(r) \/ Hear(r)
      PROVE  status'[t] = "completed" /\ asked'[t] = asked[t]
  <2>1. Assigns(r)
    BY <1>1, <1>3, RunAssigns
  <2>2. CASE task[r] # t
    BY <1>1, <2>1, <2>2, AssignsTyped
  <2>3. CASE task[r] = t /\ pc[r] \in Working
    <3>1. kind[r] # "none"
      BY <1>1, <2>3 DEF Life, LifeOf, Working
    <3>. QED
      BY <1>1, <2>3, <3>1 DEF Alive
  <2>4. CASE task[r] = t /\ pc[r] = "spawn"
    <3>1. task[r] = r /\ Unborn(t)
      BY <1>1, <2>4 DEF Life, LifeOf, Unborn
    <3>. QED
      BY <1>1, <3>1 DEF Unknown
  <2>5. CASE pc[r] \notin Working \cup {"spawn"}
    BY <1>2, <1>3, <2>5
    DEF RunStep, CountSpawn, AcquireSlot, SpawnFails, Spawn, Load, ResumeFails, TakeGuard, AskModel,
        RunTools, GiveUp, SendEvent, RecordDone, RecordError, CloseChannel, Drained, Hear, Working
  <2>. QED
    BY <2>2, <2>3, <2>4, <2>5
<1>4. ASSUME NEW th \in Thread, Delegate(th) PROVE UNCHANGED <<status, asked>>
  BY <1>4 DEF Delegate, Launch
<1>5. ASSUME NEW th \in Thread, NEW x \in Task, Resume(th, x) PROVE UNCHANGED <<status, asked>>
  BY <1>5 DEF Resume, Launch
<1>6. ASSUME NEW th \in Thread, Cancel(th) \/ EndTurn(th) PROVE UNCHANGED <<status, asked>>
  BY <1>6 DEF Cancel, EndTurn
<1>7. ASSUME NEW r \in Run, Watch(r) PROVE UNCHANGED <<status, asked>>
  BY <1>7, WatchOnly
<1>8. CASE Crash
  BY <1>2, <1>8 DEF Crash
<1>9. CASE UNCHANGED vars
  BY <1>2, <1>9
<1>. QED
  BY <1>2, <1>3, <1>4, <1>5, <1>6, <1>7, <1>8, <1>9 DEF Next

THEOREM CompletedStaysHolds == Spec => CompletedStays
<1>1. RunInv /\ [Next]_vars => [Stays]_vars
  BY StaysStep
<1>2. Spec => [][Stays]_vars
  BY <1>1, RunInvHolds, PTL DEF Spec
<1>. QED
  BY <1>2 DEF Stays, CompletedStays

=============================================================================
