------------------------ MODULE JobSupervisorProofs ------------------------
(***************************************************************************)
(* Proofs about JobSupervisor for every number of jobs, threads, callers   *)
(* and every configuration.                                                *)
(***************************************************************************)
EXTENDS JobSupervisor, FiniteSetTheorems, TLAPS

\* SetConfig and the constructor only ever install usable limits.
LEMMA NormalizeType ==
  ASSUME NEW c \in RawConfig
  PROVE  /\ Normalize(c) \in [MaxJobs : Nat \ {0}, MaxRunning : Nat \ {0}]
         /\ Normalize(c).MaxRunning <= Normalize(c).MaxJobs
<1>1. c.MaxJobs \in Int /\ c.MaxRunning \in Int
  BY LimitAssumption
<1>2. \A n \in Int, d \in Nat \ {0} : OrDefault(n, d) \in Nat \ {0}
  BY DEF OrDefault
<1>3. /\ OrDefault(c.MaxJobs, DefaultMaxJobs) \in Nat \ {0}
      /\ OrDefault(c.MaxRunning, DefaultMaxRunning) \in Nat \ {0}
  BY <1>1, <1>2, LimitAssumption
<1>. QED
  BY <1>3 DEF Normalize

-----------------------------------------------------------------------------
\* Every variable keeps its type.
THEOREM TypeCorrect == Spec => []TypeOK
<1>1. Init => TypeOK
  <2>. SUFFICES ASSUME Init PROVE TypeOK
    OBVIOUS
  <2>1. cfg \in [MaxJobs : Nat \ {0}, MaxRunning : Nat \ {0}]
    BY NormalizeType DEF Init
  <2>. QED
    BY <2>1 DEF Init, TypeOK, JobState
<1>2. TypeOK /\ [Next]_vars => TypeOK'
  <2>. SUFFICES ASSUME TypeOK, [Next]_vars
                PROVE  TypeOK'
    OBVIOUS
  <2>. USE DEF TypeOK, JobState, supervisorVars, jobVars, workerVars, Retain, Kept
  <2>1. ASSUME NEW c \in RawConfig, SetConfig(c) PROVE TypeOK'
    BY <2>1, NormalizeType DEF SetConfig
  <2>2. CASE StartFails
    BY <2>2 DEF StartFails, MakeRoom
  <2>3. CASE Inspect
    BY <2>3 DEF Inspect
  <2>4. CASE Close
    BY <2>4 DEF Close, Worker
  <2>5. CASE FinishClose
    BY <2>5 DEF FinishClose, Worker
  <2>6. ASSUME NEW j \in Job, JobStep(j) PROVE TypeOK'
    <3>1. CASE Start(j)
      BY <3>1 DEF Start, MakeRoom
    <3>2. CASE ProcessExits(j)
      BY <3>2 DEF ProcessExits
    <3>3. CASE Finish(j)
      BY <3>3 DEF Finish, FinalState
    <3>4. CASE JobDone(j)
      BY <3>4 DEF JobDone
    <3>5. CASE Expire(j)
      BY <3>5 DEF Expire
    <3>6. CASE TimerFires(j)
      BY <3>6 DEF TimerFires
    <3>7. CASE RetentionReap(j)
      BY <3>7 DEF RetentionReap
    <3>8. CASE MonitorTimesOut(j)
      BY <3>8 DEF MonitorTimesOut, RequestStop
    <3>9. CASE Escalate(j)
      BY <3>9 DEF Escalate
    <3>10. ASSUME NEW t \in Thread, CancelJob(t, j) PROVE TypeOK'
      BY <3>10 DEF CancelJob, RequestStop
    <3>11. ASSUME NEW w \in Worker, StopNext(w, j) PROVE TypeOK'
      BY <3>11 DEF StopNext, RequestStop
    <3>. QED
      BY <2>6, <3>1, <3>2, <3>3, <3>4, <3>5, <3>6, <3>7, <3>8, <3>9, <3>10, <3>11
         DEF JobStep
  <2>7. ASSUME NEW w \in Worker, WorkerStep(w) PROVE TypeOK'
    <3>1. ASSUME NEW t \in Thread, CancelThread(w, t) PROVE TypeOK'
      BY <3>1 DEF CancelThread
    <3>2. CASE CancelReturns(w)
      BY <3>2 DEF CancelReturns
    <3>3. CASE CancelGivesUp(w)
      BY <3>3 DEF CancelGivesUp
    <3>4. CASE CancelAgain(w)
      BY <3>4 DEF CancelAgain
    <3>. QED
      BY <2>7, <3>1, <3>2, <3>3, <3>4 DEF WorkerStep
  <2>8. CASE UNCHANGED vars
    BY <2>8 DEF vars
  <2>. QED
    BY <2>1, <2>2, <2>3, <2>4, <2>5, <2>6, <2>7, <2>8 DEF Next
<1>. QED
  BY <1>1, <1>2, PTL DEF Spec

-----------------------------------------------------------------------------
(* NoOrphan is not inductive.  Reaping looks at ages, so one must know that  *)
(* only finished jobs age or report; finishClose empties the map, so one must know that *)
(* it waited for everything in it, which holds because Close took its list   *)
(* when it stopped further starts.                                           *)

AgedFinished == \A j \in expired \cup onDone : Finished(j)
RetainedStarted == \A j \in jobs : state[j] # "none"
Teardown ==
  /\ closed => jobs \subseteq awaited[Finisher]
  /\ pc[Finisher] = "stopping" => closed /\ ~closeDone
  /\ closeDone => closed /\ jobs = {} /\ timers = {}
Reachable == NoOrphan /\ AgedFinished /\ RetainedStarted /\ Teardown

\* Eviction removes finished jobs only.
LEMMA MakeRoomKeepsRunning ==
  ASSUME NEW S
  PROVE  /\ MakeRoom(S) \subseteq S
         /\ \A j \in S : Running(j) => j \in MakeRoom(S)
BY DEF MakeRoom, OldestFinished

\* Dropping what outlived its retention removes finished jobs only.
LEMMA KeptKeepsRunning ==
  ASSUME AgedFinished, NEW S
  PROVE  /\ Kept(S) \subseteq S
         /\ \A j \in S : Running(j) => j \in Kept(S)
BY DEF Kept, AgedFinished, Running, Finished

LEMMA ReachableStep == TypeOK /\ Reachable /\ [Next]_vars => Reachable'
<1>. SUFFICES ASSUME TypeOK, Reachable, [Next]_vars
              PROVE  Reachable'
  OBVIOUS
<1>. USE DEF TypeOK, Reachable, NoOrphan, AgedFinished, RetainedStarted,
             Teardown, Running, Finished, supervisorVars, jobVars, workerVars, Retain
<1>1. ASSUME NEW c \in RawConfig, SetConfig(c) PROVE Reachable'
  BY <1>1 DEF SetConfig
<1>2. CASE StartFails
  BY <1>2, MakeRoomKeepsRunning, KeptKeepsRunning DEF StartFails
<1>3. CASE Inspect
  BY <1>3, KeptKeepsRunning DEF Inspect
<1>4. CASE Close
  BY <1>4, JobAssumption DEF Close, Worker
<1>5. CASE FinishClose
  BY <1>5 DEF FinishClose, AllStopped, AllDown, Worker
<1>6. ASSUME NEW j \in Job, JobStep(j) PROVE Reachable'
  <2>1. CASE Start(j)
    <3>. DEFINE room == MakeRoom(Kept(jobs))
    <3>1. room \subseteq jobs /\ \A k \in jobs : Running(k) => k \in room
      BY MakeRoomKeepsRunning, KeptKeepsRunning
    <3>2. jobs' = room \cup {j} /\ state' = [state EXCEPT ![j] = "running"]
          /\ state[j] = "none" /\ expired' = expired /\ ~closed
          /\ UNCHANGED <<closed, closeDone, onDone, pc, awaited>>
      BY <2>1 DEF Start
    <3>3. \A k \in Job : state'[k] = IF k = j THEN "running" ELSE state[k]
      BY <3>2
    <3>. HIDE DEF room
    <3>4. NoOrphan' /\ RetainedStarted'
      BY <3>1, <3>2, <3>3
    <3>5. AgedFinished'
      BY <3>2, <3>3
    <3>6. Teardown'
      BY <3>2
    <3>. QED
      BY <3>4, <3>5, <3>6
  <2>2. CASE ProcessExits(j)
    BY <2>2 DEF ProcessExits
  <2>3. CASE Finish(j)
    BY <2>3 DEF Finish, FinalState
  <2>4. CASE JobDone(j)
    BY <2>4 DEF JobDone
  <2>5. CASE Expire(j)
    BY <2>5 DEF Expire
  <2>6. CASE TimerFires(j)
    BY <2>6 DEF TimerFires
  <2>7. CASE RetentionReap(j)
    BY <2>7 DEF RetentionReap
  <2>8. CASE MonitorTimesOut(j)
    BY <2>8 DEF MonitorTimesOut
  <2>9. CASE Escalate(j)
    BY <2>9 DEF Escalate
  <2>10. ASSUME NEW t \in Thread, CancelJob(t, j) PROVE Reachable'
    BY <2>10, KeptKeepsRunning DEF CancelJob
  <2>11. ASSUME NEW w \in Worker, StopNext(w, j) PROVE Reachable'
    BY <2>11 DEF StopNext
  <2>. QED
    BY <1>6, <2>1, <2>2, <2>3, <2>4, <2>5, <2>6, <2>7, <2>8, <2>9, <2>10, <2>11
       DEF JobStep
<1>7. ASSUME NEW w \in Worker, WorkerStep(w) PROVE Reachable'
  BY <1>7, JobAssumption
     DEF WorkerStep, CancelThread, CancelReturns, CancelGivesUp, CancelAgain, Worker
<1>8. CASE UNCHANGED vars
  BY <1>8 DEF vars
<1>. QED
  BY <1>1, <1>2, <1>3, <1>4, <1>5, <1>6, <1>7, <1>8 DEF Next

\* A running command is always in the supervisor's map: no reaping, eviction,
\* failed start or teardown loses a live process.
THEOREM NoOrphanHolds == Spec => []NoOrphan
<1>1. Init => Reachable
  BY DEF Init, Reachable, NoOrphan, AgedFinished, RetainedStarted, Teardown,
         Running, Worker
<1>2. Reachable => NoOrphan
  BY DEF Reachable
<1>. QED
  BY <1>1, <1>2, ReachableStep, TypeCorrect, PTL DEF Spec

\* Once Close has reported, no command is alive and nothing is left behind.
THEOREM CloseCompletes == Spec => []CloseIsComplete
<1>1. Init => Reachable
  BY DEF Init, Reachable, NoOrphan, AgedFinished, RetainedStarted, Teardown,
         Running, Worker
<1>2. TypeOK /\ Reachable => CloseIsComplete
  BY DEF Reachable, Teardown, NoOrphan, CloseIsComplete
<1>. QED
  BY <1>1, <1>2, ReachableStep, TypeCorrect, PTL DEF Spec

-----------------------------------------------------------------------------
\* A finished record never stays without something that will remove it.
THEOREM FinishedIsReapedHolds == Spec => []FinishedIsReaped
<1>1. Init => FinishedIsReaped
  BY DEF Init, FinishedIsReaped
<1>2. TypeOK /\ FinishedIsReaped /\ [Next]_vars => FinishedIsReaped'
  <2>. SUFFICES ASSUME TypeOK, FinishedIsReaped, [Next]_vars
                PROVE  FinishedIsReaped'
    OBVIOUS
  <2>. USE DEF TypeOK, FinishedIsReaped, Running, Finished, Kept,
               supervisorVars, jobVars, workerVars, Retain
  <2>1. ASSUME NEW c \in RawConfig, SetConfig(c) PROVE FinishedIsReaped'
    BY <2>1 DEF SetConfig
  <2>2. CASE StartFails
    <3>1. MakeRoom(Kept(jobs)) \subseteq jobs
      BY MakeRoomKeepsRunning
    <3>2. /\ jobs' \subseteq jobs /\ timers' = timers \cap jobs'
          /\ UNCHANGED <<state, reapers, onDone, closed>>
      BY <2>2, <3>1 DEF StartFails
    <3>. QED
      BY <3>2
  <2>3. CASE Inspect \/ Close \/ FinishClose
    BY <2>3 DEF Inspect, Close, FinishClose
  <2>4. ASSUME NEW j \in Job, JobStep(j) PROVE FinishedIsReaped'
    <3>1. CASE Start(j)
      <4>. DEFINE room == MakeRoom(Kept(jobs))
      <4>1. room \subseteq jobs
        BY MakeRoomKeepsRunning
      <4>2. /\ jobs' = room \cup {j} /\ timers' = timers \cap (room \cup {j})
            /\ state' = [state EXCEPT ![j] = "running"]
            /\ UNCHANGED <<reapers, onDone, closed>>
        BY <3>1 DEF Start
      <4>. HIDE DEF room
      <4>3. \A k \in jobs' : Finished(k)' => k \in room /\ Finished(k)
        BY <4>1, <4>2
      <4>. QED
        BY <4>1, <4>2, <4>3
    <3>2. CASE ProcessExits(j) \/ Expire(j) \/ TimerFires(j)
      BY <3>2 DEF ProcessExits, Expire, TimerFires
    <3>3. CASE Finish(j)
      BY <3>3 DEF Finish, FinalState
    <3>4. CASE JobDone(j)
      BY <3>4 DEF JobDone
    <3>5. CASE RetentionReap(j)
      BY <3>5 DEF RetentionReap
    <3>6. CASE MonitorTimesOut(j) \/ Escalate(j)
      BY <3>6 DEF MonitorTimesOut, Escalate
    <3>7. ASSUME NEW t \in Thread, CancelJob(t, j) PROVE FinishedIsReaped'
      BY <3>7 DEF CancelJob
    <3>8. ASSUME NEW w \in Worker, StopNext(w, j) PROVE FinishedIsReaped'
      BY <3>8 DEF StopNext
    <3>. QED
      BY <2>4, <3>1, <3>2, <3>3, <3>4, <3>5, <3>6, <3>7, <3>8 DEF JobStep
  <2>5. ASSUME NEW w \in Worker, WorkerStep(w) PROVE FinishedIsReaped'
    BY <2>5 DEF WorkerStep, CancelThread, CancelReturns, CancelGivesUp, CancelAgain
  <2>6. CASE UNCHANGED vars
    BY <2>6 DEF vars
  <2>. QED
    BY <2>1, <2>2, <2>3, <2>4, <2>5, <2>6 DEF Next
<1>. QED
  BY <1>1, <1>2, TypeCorrect, PTL DEF Spec

\* The final state tells who ended the job; a stop request after the end, or a
\* second one, cannot change the record.
THEOREM OutcomeHolds == Spec => []OutcomeMatchesStop
<1>1. Init => OutcomeMatchesStop
  BY DEF Init, OutcomeMatchesStop, Finished
<1>2. TypeOK /\ OutcomeMatchesStop /\ [Next]_vars => OutcomeMatchesStop'
  <2>. SUFFICES ASSUME TypeOK, OutcomeMatchesStop, [Next]_vars
                PROVE  OutcomeMatchesStop'
    OBVIOUS
  <2>. USE DEF TypeOK, OutcomeMatchesStop, Running, Finished, Stoppable,
               supervisorVars, jobVars, workerVars
  <2>1. ASSUME NEW c \in RawConfig, SetConfig(c) PROVE OutcomeMatchesStop'
    BY <2>1 DEF SetConfig
  <2>2. CASE StartFails \/ Inspect \/ Close \/ FinishClose
    BY <2>2 DEF StartFails, Inspect, Close, FinishClose
  <2>3. ASSUME NEW j \in Job, JobStep(j) PROVE OutcomeMatchesStop'
    <3>1. CASE Start(j)
      BY <3>1 DEF Start
    <3>2. CASE ProcessExits(j) \/ Expire(j) \/ TimerFires(j) \/ JobDone(j)
      BY <3>2 DEF ProcessExits, Expire, TimerFires, JobDone
    <3>3. CASE Finish(j)
      BY <3>3 DEF Finish, FinalState
    <3>4. CASE RetentionReap(j) \/ Escalate(j)
      BY <3>4 DEF RetentionReap, Escalate
    <3>5. CASE MonitorTimesOut(j)
      BY <3>5 DEF MonitorTimesOut, RequestStop
    <3>6. ASSUME NEW t \in Thread, CancelJob(t, j) PROVE OutcomeMatchesStop'
      BY <3>6 DEF CancelJob, RequestStop
    <3>7. ASSUME NEW w \in Worker, StopNext(w, j) PROVE OutcomeMatchesStop'
      BY <3>7 DEF StopNext, RequestStop
    <3>. QED
      BY <2>3, <3>1, <3>2, <3>3, <3>4, <3>5, <3>6, <3>7 DEF JobStep
  <2>4. ASSUME NEW w \in Worker, WorkerStep(w) PROVE OutcomeMatchesStop'
    BY <2>4 DEF WorkerStep, CancelThread, CancelReturns, CancelGivesUp, CancelAgain
  <2>5. CASE UNCHANGED vars
    BY <2>5 DEF vars
  <2>. QED
    BY <2>1, <2>2, <2>3, <2>4, <2>5 DEF Next
<1>. QED
  BY <1>1, <1>2, TypeCorrect, PTL DEF Spec

-----------------------------------------------------------------------------
(* The bounds, and the pool the supervisor implements.                       *)

\* One more element fits below a strict bound.
LEMMA OneMoreFits ==
  ASSUME NEW S, IsFiniteSet(S), NEW x, NEW n \in Nat, Cardinality(S) < n
  PROVE  Cardinality(S \cup {x}) <= n
<1>1. Cardinality(S) \in Nat
  BY FS_CardinalityType
<1>2. Cardinality(S \cup {x}) = IF x \in S THEN Cardinality(S) ELSE Cardinality(S) + 1
  BY FS_AddElement
<1>. QED
  BY <1>1, <1>2

\* What a start does to the records and to the live commands.
LEMMA StartEffect ==
  ASSUME TypeOK, Reachable, NEW j \in Job, Start(j)
  PROVE  \E room \in SUBSET jobs :
           /\ Live \subseteq room /\ jobs' = room \cup {j}
           /\ Cardinality(room) < cfg.MaxJobs
           /\ Cardinality(Live) < cfg.MaxRunning
           /\ Live' = Live \cup {j}
           /\ j \notin jobs /\ state[j] = "none"
           /\ state' = [state EXCEPT ![j] = "running"]
           /\ ~closed /\ UNCHANGED <<cfg, closed, closeDone>>
<1>. DEFINE room == MakeRoom(Kept(jobs))
<1>. USE DEF TypeOK, Reachable, NoOrphan, AgedFinished, RetainedStarted, Live
<1>1. room \subseteq jobs /\ \A k \in jobs : Running(k) => k \in room
  BY MakeRoomKeepsRunning, KeptKeepsRunning
<1>2. {k \in Kept(jobs) : Running(k)} = Live
  BY KeptKeepsRunning
<1>3. /\ state[j] = "none" /\ ~closed
      /\ Cardinality({k \in Kept(jobs) : Running(k)}) < cfg.MaxRunning
      /\ Cardinality(room) < cfg.MaxJobs
      /\ jobs' = room \cup {j}
      /\ state' = [state EXCEPT ![j] = "running"]
      /\ UNCHANGED <<cfg, closed, closeDone>>
  BY DEF Start, Retain, BelowRunningLimit, BelowRecordLimit
<1>. HIDE DEF room
<1>4. Cardinality(Live) < cfg.MaxRunning
  BY <1>2, <1>3
<1>5. Live' = Live \cup {j}
  BY <1>3 DEF Running
<1>. QED
  BY <1>1, <1>3, <1>4, <1>5

\* Every step other than a start or a reconfiguration keeps the limits and
\* adds neither a record nor a live command.
LEMMA OtherStepsShrink ==
  ASSUME TypeOK, [Next]_vars,
         \A j \in Job : ~Start(j), \A c \in RawConfig : ~SetConfig(c)
  PROVE  cfg' = cfg /\ jobs' \subseteq jobs /\ Live' \subseteq Live
<1>. USE DEF TypeOK, Live, Running, Retain, Kept, supervisorVars, jobVars, workerVars
<1>. DEFINE Goal == cfg' = cfg /\ jobs' \subseteq jobs /\ Live' \subseteq Live
<1>1. CASE StartFails
  BY <1>1, MakeRoomKeepsRunning DEF StartFails
<1>2. CASE Inspect \/ Close \/ FinishClose
  BY <1>2 DEF Inspect, Close, FinishClose
<1>3. ASSUME NEW j \in Job, JobStep(j) PROVE Goal
  <2>1. CASE ProcessExits(j) \/ Expire(j) \/ TimerFires(j)
    BY <2>1 DEF ProcessExits, Expire, TimerFires
  <2>2. CASE Finish(j)
    BY <2>2 DEF Finish, FinalState
  <2>3. CASE JobDone(j) \/ RetentionReap(j)
    BY <2>3 DEF JobDone, RetentionReap
  <2>4. CASE MonitorTimesOut(j) \/ Escalate(j)
    BY <2>4 DEF MonitorTimesOut, Escalate
  <2>5. ASSUME NEW t \in Thread, CancelJob(t, j) PROVE Goal
    BY <2>5 DEF CancelJob
  <2>6. ASSUME NEW w \in Worker, StopNext(w, j) PROVE Goal
    BY <2>6 DEF StopNext
  <2>. QED
    BY <1>3, <2>1, <2>2, <2>3, <2>4, <2>5, <2>6 DEF JobStep
<1>4. ASSUME NEW w \in Worker, WorkerStep(w) PROVE Goal
  BY <1>4 DEF WorkerStep, CancelThread, CancelReturns, CancelGivesUp, CancelAgain
<1>5. CASE UNCHANGED vars
  BY <1>5 DEF vars
<1>. QED
  BY <1>1, <1>2, <1>3, <1>4, <1>5 DEF Next

\* At most MaxRunning commands run and at most MaxJobs records are kept.
THEOREM BoundedHolds == Spec => []Bounded
<1>1. Init => Bounded
  <2>. SUFFICES ASSUME Init PROVE Bounded
    OBVIOUS
  <2>1. cfg \in [MaxJobs : Nat \ {0}, MaxRunning : Nat \ {0}]
    BY NormalizeType DEF Init
  <2>2. {j \in Job : Running(j)} = {} /\ jobs = {}
    BY DEF Init, Running
  <2>. QED
    BY <2>1, <2>2, FS_EmptySet DEF Bounded
<1>2. TypeOK /\ Reachable /\ Bounded /\ [Next]_vars => Bounded'
  <2>. SUFFICES ASSUME TypeOK, Reachable, Bounded, [Next]_vars
                PROVE  Bounded'
    OBVIOUS
  <2>1. IsFiniteSet(Live) /\ IsFiniteSet(jobs)
    BY FS_Subset, JobsAreFinite DEF TypeOK, Live
  <2>2. /\ Cardinality(Live) \in Nat /\ Cardinality(jobs) \in Nat
        /\ Cardinality(Live) <= cfg.MaxRunning /\ Cardinality(jobs) <= cfg.MaxJobs
    BY <2>1, FS_CardinalityType DEF Bounded, Live
  <2>3. ASSUME NEW j \in Job, Start(j) PROVE Bounded'
    <3>1. PICK room \in SUBSET jobs :
             /\ jobs' = room \cup {j} /\ Live' = Live \cup {j}
             /\ Cardinality(room) < cfg.MaxJobs
             /\ Cardinality(Live) < cfg.MaxRunning /\ cfg' = cfg
      BY <2>3, StartEffect
    <3>2. IsFiniteSet(room)
      BY <2>1, FS_Subset
    <3>3. cfg.MaxJobs \in Nat /\ cfg.MaxRunning \in Nat
      BY DEF TypeOK
    <3>4. Cardinality(Live \cup {j}) <= cfg.MaxRunning
      BY <2>1, <3>1, <3>3, OneMoreFits
    <3>5. Cardinality(room \cup {j}) <= cfg.MaxJobs
      BY <3>1, <3>2, <3>3, OneMoreFits
    <3>6. Cardinality(Live') <= cfg'.MaxRunning /\ Cardinality(jobs') <= cfg'.MaxJobs
      BY <3>1, <3>4, <3>5
    <3>. QED
      BY <3>6 DEF Bounded, Live
  <2>4. ASSUME NEW c \in RawConfig, SetConfig(c) PROVE Bounded'
    <3>1. jobs' = {} /\ Live' = {}
      BY <2>4 DEF SetConfig, Reachable, NoOrphan, Live, Running, jobVars
    <3>2. cfg' \in [MaxJobs : Nat \ {0}, MaxRunning : Nat \ {0}]
      BY <2>4, NormalizeType DEF SetConfig
    <3>3. Cardinality(Live') <= cfg'.MaxRunning /\ Cardinality(jobs') <= cfg'.MaxJobs
      BY <3>1, <3>2, FS_EmptySet
    <3>. QED
      BY <3>3 DEF Bounded, Live
  <2>5. CASE /\ \A j \in Job : ~Start(j)
             /\ \A c \in RawConfig : ~SetConfig(c)
    <3>1. cfg' = cfg /\ jobs' \subseteq jobs /\ Live' \subseteq Live
      BY <2>5, OtherStepsShrink
    <3>2. /\ Cardinality(jobs') \in Nat /\ Cardinality(Live') \in Nat
          /\ Cardinality(jobs') <= Cardinality(jobs)
          /\ Cardinality(Live') <= Cardinality(Live)
      <4>1. jobs' \in SUBSET jobs /\ Live' \in SUBSET Live
        BY <3>1
      <4>2. /\ IsFiniteSet(jobs') /\ IsFiniteSet(Live')
            /\ Cardinality(jobs') <= Cardinality(jobs)
            /\ Cardinality(Live') <= Cardinality(Live)
        BY ONLY <2>1, <4>1, FS_Subset
      <4>. QED
        BY <4>2, FS_CardinalityType
    <3>3. cfg.MaxJobs \in Nat /\ cfg.MaxRunning \in Nat
      BY DEF TypeOK
    <3>4. Cardinality(Live') <= cfg'.MaxRunning /\ Cardinality(jobs') <= cfg'.MaxJobs
      BY <2>2, <3>1, <3>2, <3>3
    <3>. QED
      BY <3>4 DEF Bounded, Live
  <2>. QED
    BY <2>3, <2>4, <2>5
<1>3. Init => Reachable
  BY DEF Init, Reachable, NoOrphan, AgedFinished, RetainedStarted, Teardown,
         Running, Worker
<1>. QED
  BY <1>1, <1>2, <1>3, ReachableStep, TypeCorrect, PTL DEF Spec

\* A step that starts and ends no command is, for the pool, at most the
\* disappearance of finished records.
LEMMA DropIsForget ==
  ASSUME TypeOK, Reachable, jobs' \subseteq jobs, Live \subseteq jobs',
         UNCHANGED <<cfg, state, closed, closeDone>>
  PROVE  Pool!Forget
<1>. USE DEF TypeOK, Reachable, RetainedStarted, NoOrphan, Live, Running
<1>1. Live' = Live
  OBVIOUS
<1>2. (jobs' \ Live') \in SUBSET (jobs \ Live)
  BY <1>1
<1>3. {j \in Job : state'[j] # "none" /\ j \notin jobs' /\ ~Running(j)'}
        = {j \in Job : state[j] # "none" /\ j \notin jobs /\ ~Running(j)}
            \cup ((jobs \ Live) \ (jobs' \ Live'))
  OBVIOUS
<1>. QED
  BY <1>1, <1>2, <1>3 DEF Pool!Forget

\* The supervisor implements the pool: goroutines, timers, signals and
\* teardown never do what the pool's promise excludes.
THEOREM SupervisorImplementsPool == Spec => ImplementsPool
<1>1. Init => Pool!Init
  BY DEF Init, Pool!Init, Live, Running
<1>2. TypeOK /\ Reachable /\ Reachable' /\ [Next]_vars => [Pool!Next]_(Pool!vars)
  <2>. SUFFICES ASSUME TypeOK, Reachable, Reachable', [Next]_vars
                PROVE  Pool!Next \/ UNCHANGED Pool!vars
    OBVIOUS
  <2>. USE DEF TypeOK, supervisorVars, jobVars, workerVars
  <2>1. ASSUME NEW c \in RawConfig, SetConfig(c) PROVE Pool!Configure
    BY <2>1 DEF SetConfig, Pool!Configure, Reachable, NoOrphan, Live, Running
  <2>2. CASE StartFails
    <3>1. jobs' \subseteq jobs /\ Live \subseteq jobs'
      BY <2>2, MakeRoomKeepsRunning, KeptKeepsRunning
         DEF StartFails, Retain, Reachable, NoOrphan, Live
    <3>. QED
      BY <2>2, <3>1, DropIsForget DEF StartFails, Pool!Next
  <2>3. CASE Inspect
    <3>1. jobs' \subseteq jobs /\ Live \subseteq jobs'
      BY <2>3, KeptKeepsRunning DEF Inspect, Retain, Reachable, NoOrphan, Live
    <3>. QED
      BY <2>3, <3>1, DropIsForget DEF Inspect, Pool!Next
  <2>4. CASE Close
    BY <2>4 DEF Close, Pool!Next, Pool!Shut, Live, Running
  <2>5. CASE FinishClose
    <3>1. /\ closed /\ ~closeDone /\ closeDone' /\ jobs' = {} /\ state' = state
          /\ UNCHANGED <<cfg, closed>>
      BY <2>5 DEF FinishClose, AllStopped, Reachable, Teardown, Retain
    <3>2. Live = {} /\ Live' = {}
      BY <3>1 DEF Reachable, NoOrphan, Live, Running
    <3>. QED
      BY <3>1, <3>2 DEF Pool!Next, Pool!GoDown, Reachable, RetainedStarted, Live
  <2>6. ASSUME NEW j \in Job, JobStep(j) PROVE Pool!Next \/ UNCHANGED Pool!vars
    <3>1. CASE Start(j)
      <4>1. PICK room \in SUBSET jobs :
               /\ Live \subseteq room /\ jobs' = room \cup {j}
               /\ Cardinality(room) < cfg.MaxJobs
               /\ Cardinality(Live) < cfg.MaxRunning
               /\ Live' = Live \cup {j}
               /\ j \notin jobs /\ state[j] = "none"
               /\ state' = [state EXCEPT ![j] = "running"]
               /\ ~closed /\ UNCHANGED <<cfg, closed, closeDone>>
        BY <3>1, StartEffect
      <4>2. Live' \cup (jobs' \ Live') = room \cup {j}
        BY <4>1
      <4>3. (jobs' \ Live') \in SUBSET (jobs \ Live)
        BY <4>1
      <4>4. {k \in Job : state'[k] # "none" /\ k \notin jobs' /\ ~Running(k)'}
              = {k \in Job : state[k] # "none" /\ k \notin jobs /\ ~Running(k)}
                  \cup ((jobs \ Live) \ (jobs' \ Live'))
        BY <4>1 DEF Reachable, RetainedStarted, Live, Running
      <4>5. j \notin Live \cup (jobs \ Live)
                     \cup {k \in Job : state[k] # "none" /\ k \notin jobs /\ ~Running(k)}
        BY <4>1 DEF Live, Running
      <4>6. Cardinality(Live') <= cfg.MaxRunning /\ Cardinality(room \cup {j}) <= cfg.MaxJobs
        <5>1. IsFiniteSet(room) /\ IsFiniteSet(Live)
          BY FS_Subset, JobsAreFinite DEF Live
        <5>2. cfg.MaxJobs \in Nat /\ cfg.MaxRunning \in Nat
          OBVIOUS
        <5>3. Cardinality(Live \cup {j}) <= cfg.MaxRunning
          BY <4>1, <5>1, <5>2, OneMoreFits
        <5>4. Cardinality(room \cup {j}) <= cfg.MaxJobs
          BY <4>1, <5>1, <5>2, OneMoreFits
        <5>. QED
          BY <4>1, <5>3, <5>4
      <4>7. /\ ~closed /\ j \notin Live \cup (jobs \ Live) \cup
                  {k \in Job : state[k] # "none" /\ k \notin jobs /\ ~Running(k)}
            /\ Live' = Live \cup {j} /\ Cardinality(Live') <= cfg.MaxRunning
            /\ Cardinality(Live' \cup (jobs' \ Live')) <= cfg.MaxJobs
            /\ UNCHANGED <<cfg, closed, closeDone>>
        BY <4>1, <4>2, <4>5, <4>6
      <4>8. Pool!Begin(j)
        <5>1. \A S : Pool!Cardinality(S) = Cardinality(S)
          BY ONLY DEF Pool!Cardinality, Cardinality, Pool!IsFiniteSet, IsFiniteSet
        <5>. QED
          BY ONLY <4>3, <4>4, <4>7, <5>1 DEF Pool!Begin
      <4>. QED
        BY <4>8 DEF Pool!Next
    <3>2. CASE ProcessExits(j) \/ Expire(j) \/ TimerFires(j) \/ MonitorTimesOut(j)
               \/ Escalate(j)
      BY <3>2 DEF ProcessExits, Expire, TimerFires, MonitorTimesOut, Escalate,
                  Pool!vars, Live, Running
    <3>3. CASE Finish(j)
      <4>1. /\ Running(j) /\ state' = [state EXCEPT ![j] = FinalState(j)]
            /\ FinalState(j) \in {"completed", "failed", "cancelled"}
            /\ UNCHANGED <<cfg, jobs, closed, closeDone>>
        BY <3>3 DEF Finish, FinalState
      <4>2. Live' = Live \ {j} /\ j \in jobs
        BY <4>1 DEF Live, Running, Reachable, NoOrphan
      <4>3. jobs' \ Live' = (jobs \ Live) \cup {j}
        BY <4>1, <4>2
      <4>4. {k \in Job : state'[k] # "none" /\ k \notin jobs' /\ ~Running(k)'}
              = {k \in Job : state[k] # "none" /\ k \notin jobs /\ ~Running(k)}
        BY <4>1, <4>2 DEF Live, Running
      <4>5. j \in Live
        BY <4>1 DEF Live
      <4>. QED
        BY <4>1, <4>2, <4>3, <4>4, <4>5 DEF Pool!Next, Pool!End
    <3>4. CASE JobDone(j) \/ RetentionReap(j)
      <4>1. jobs' \subseteq jobs /\ UNCHANGED <<cfg, state, closed, closeDone>>
        BY <3>4 DEF JobDone, RetentionReap, Retain
      <4>2. Live \subseteq jobs'
        BY <4>1 DEF Reachable, NoOrphan, Live, Running
      <4>. QED
        BY <4>1, <4>2, DropIsForget DEF Pool!Next
    <3>5. ASSUME NEW t \in Thread, CancelJob(t, j) PROVE Pool!Next
      <4>1. jobs' \subseteq jobs /\ Live \subseteq jobs'
        BY <3>5, KeptKeepsRunning DEF CancelJob, Retain, Reachable, NoOrphan, Live
      <4>. QED
        BY <3>5, <4>1, DropIsForget DEF CancelJob, Pool!Next
    <3>6. ASSUME NEW w \in Worker, StopNext(w, j) PROVE UNCHANGED Pool!vars
      BY <3>6 DEF StopNext, Pool!vars, Live, Running
    <3>. QED
      BY <2>6, <3>1, <3>2, <3>3, <3>4, <3>5, <3>6 DEF JobStep
  <2>7. ASSUME NEW w \in Worker, WorkerStep(w) PROVE UNCHANGED Pool!vars
    BY <2>7 DEF WorkerStep, CancelThread, CancelReturns, CancelGivesUp, CancelAgain,
                Pool!vars, Live, Running
  <2>8. CASE UNCHANGED vars
    BY <2>8 DEF vars, Pool!vars, Live, Running
  <2>. QED
    BY <2>1, <2>2, <2>3, <2>4, <2>5, <2>6, <2>7, <2>8 DEF Next, Pool!Next
<1>3. Init => Reachable
  BY DEF Init, Reachable, NoOrphan, AgedFinished, RetainedStarted, Teardown,
         Running, Worker
<1>. QED
  BY <1>1, <1>2, <1>3, ReachableStep, TypeCorrect, PTL DEF Spec, ImplementsPool, Pool!Spec
=============================================================================
