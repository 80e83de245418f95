--------------------------- MODULE PlanModeProofs ---------------------------
(***************************************************************************)
(* Theorems about PlanMode for every number of turns and whatever the user  *)
(* does: an approval is good for one execution directive, it is for the     *)
(* plan the user was last shown, and it is kept until it is used.           *)
(***************************************************************************)
EXTENDS PlanMode, FiniteSetTheorems, TLAPS

Inside == {"loaded", "marked", "reading", "running", "answered"}
PcOf == {"none", "launched", "waiting", "ended"} \cup Inside

PlanType ==
  /\ mode \in Mode /\ pc \in [Turn -> PcOf] /\ snap \in [Turn -> Mode]
  /\ told \subseteq Turn /\ unclear \subseteq told /\ approvals \in Nat

\* A turn between loading the thread and its end has the turn lock.
LockHeld == \A t \in Turn : pc[t] \in Inside => lock = t

\* A turn that read an approval has the directive to come, whatever the store says by
\* then: the approval and that turn are one claim.  A write that the store refused
\* gives the approval one more directive.
Claim == mode = "approved" \/ \E t \in Turn : pc[t] = "reading" /\ snap[t] = "approved"
ClaimIsCovered ==
  Cardinality(told) + (IF Claim THEN 1 ELSE 0) <= approvals + Cardinality(unclear)

PlanInv == PlanType /\ LockHeld /\ ClaimIsCovered

LEMMA ToldFinite ==
  ASSUME NEW S, S \subseteq Turn
  PROVE  IsFiniteSet(S) /\ Cardinality(S) \in Nat
<1>1. IsFiniteSet(Turn)
  BY FS_Interval, PlanAssumption DEF Turn
<1>. QED
  BY <1>1, FS_Subset, FS_CardinalityType

\* A step that gives no directive, makes no claim and lets nobody in.
LEMMA QuietInv ==
  ASSUME PlanInv, PlanType', told' = told, unclear' = unclear, approvals' = approvals,
         Claim' => Claim,
         \A t \in Turn : pc'[t] \in Inside => pc[t] \in Inside /\ lock' = lock
  PROVE  PlanInv'
<1>1. LockHeld'
  BY DEF PlanInv, LockHeld
<1>2. Cardinality(told) \in Nat /\ Cardinality(unclear) \in Nat
  BY ToldFinite DEF PlanInv, PlanType
<1>3. ClaimIsCovered'
  BY <1>2 DEF PlanInv, PlanType, ClaimIsCovered
<1>. QED
  BY <1>1, <1>3 DEF PlanInv

LEMMA PlanInit == Init => PlanInv
<1>. SUFFICES ASSUME Init PROVE PlanInv
  OBVIOUS
<1>1. PlanType /\ LockHeld /\ ~Claim
  BY DEF Init, PlanType, Mode, PcOf, Inside, LockHeld, Claim
<1>2. Cardinality(told) = 0 /\ Cardinality(unclear) = 0
  BY FS_EmptySet DEF Init
<1>. QED
  BY <1>1, <1>2 DEF PlanInv, ClaimIsCovered, Init

\* The steps of a turn.
LEMMA TurnInv ==
  ASSUME PlanInv, NEW t \in Turn, TurnStep(t) \/ Fail(t)
  PROVE  PlanInv'
<1>. USE DEF Move, Set
<1>0. PlanType
  BY DEF PlanInv
<1>1. CASE SendMessage(t)
  <2>1. /\ pc' = [pc EXCEPT ![t] = "waiting"]
        /\ UNCHANGED <<mode, snap, told, unclear, lock, approvals>>
    BY <1>1 DEF SendMessage, historyVars
  <2>2. PlanType'
    BY <1>0, <2>1 DEF PlanType, PcOf
  <2>3. \A u \in Turn : (pc'[u] \in Inside => pc[u] \in Inside) /\ (pc'[u] = "reading" => pc[u] = "reading")
    BY <1>0, <2>1 DEF PlanType, Inside
  <2>. QED
    BY <2>1, <2>2, <2>3, QuietInv DEF Claim
<1>2. CASE TakeLock(t)
  <2>1. /\ pc' = [pc EXCEPT ![t] = "loaded"] /\ lock = 0 /\ lock' = t
        /\ snap' = [snap EXCEPT ![t] = mode] /\ UNCHANGED <<mode, told, unclear, approvals>>
    BY <1>2 DEF TakeLock, historyVars
  <2>2. PlanType'
    BY <1>0, <2>1 DEF PlanType, PcOf, Inside
  <2>3. \A u \in Turn : pc[u] \notin Inside
    BY <2>1, PlanAssumption DEF PlanInv, LockHeld, Turn
  <2>4. LockHeld'
    BY <1>0, <2>1, <2>3 DEF PlanType, LockHeld
  <2>5. Claim' => Claim
    BY <1>0, <2>1, <2>3 DEF PlanType, Claim, Inside
  <2>6. Cardinality(told) \in Nat /\ Cardinality(unclear) \in Nat
    BY <1>0, ToldFinite DEF PlanType
  <2>. QED
    BY <1>0, <2>1, <2>2, <2>4, <2>5, <2>6 DEF PlanInv, PlanType, ClaimIsCovered
<1>3. CASE MarkTurn(t)
  <2>1. /\ pc' = [pc EXCEPT ![t] = "marked"] /\ pc[t] = "loaded"
        /\ mode' \in {mode, "planning", "off"} /\ UNCHANGED <<snap, told, unclear, lock, approvals>>
    BY <1>3 DEF MarkTurn, historyVars
  <2>2. PlanType'
    BY <1>0, <2>1 DEF PlanType, PcOf, Inside, Mode
  <2>3. \A u \in Turn : (pc'[u] \in Inside => pc[u] \in Inside) /\ (pc'[u] = "reading" => pc[u] = "reading")
    BY <1>0, <2>1 DEF PlanType, Inside
  <2>. QED
    BY <2>1, <2>2, <2>3, QuietInv DEF Claim
<1>4. CASE ReadThread(t)
  <2>1. /\ pc' = [pc EXCEPT ![t] = "reading"] /\ pc[t] = "marked"
        /\ snap' = [snap EXCEPT ![t] = mode] /\ UNCHANGED <<mode, told, unclear, lock, approvals>>
    BY <1>4 DEF ReadThread
  <2>2. PlanType'
    BY <1>0, <2>1 DEF PlanType, PcOf, Inside
  <2>3. \A u \in Turn : pc'[u] \in Inside => pc[u] \in Inside
    BY <1>0, <2>1 DEF PlanType, Inside
  <2>4. Claim' => Claim
    BY <1>0, <2>1 DEF PlanType, Claim
  <2>. QED
    BY <2>1, <2>2, <2>3, <2>4, QuietInv
<1>5. CASE BuildPayload(t)
  <2>1. /\ pc' = [pc EXCEPT ![t] = "running"] /\ pc[t] = "reading"
        /\ UNCHANGED <<snap, lock, approvals>>
    BY <1>5 DEF BuildPayload
  <2>2. \A u \in Turn : (pc'[u] \in Inside => pc[u] \in Inside) /\ pc'[u] # "reading"
    BY <1>0, <2>1 DEF PlanInv, LockHeld, PlanType, Inside
  <2>3. CASE snap[t] = "approved"
    <3>1. /\ told' = told \cup {t} /\ mode' \in {mode, "off"}
          /\ unclear' = IF mode' = "approved" THEN unclear \cup {t} ELSE unclear
      BY <1>5, <2>3 DEF BuildPayload, TryWrite
    <3>2. PlanType' /\ LockHeld'
      BY <1>0, <2>1, <2>2, <3>1 DEF PlanType, PcOf, Inside, Mode, PlanInv, LockHeld
    <3>3. Claim /\ (Claim' <=> mode' = "approved")
      BY <2>1, <2>2, <2>3, <3>1 DEF Claim
    <3>4. /\ IsFiniteSet(told) /\ Cardinality(told) \in Nat
          /\ IsFiniteSet(unclear) /\ Cardinality(unclear) \in Nat
      BY <1>0, ToldFinite DEF PlanType
    <3>5. Cardinality(told') \in Nat /\ Cardinality(told') <= Cardinality(told) + 1
      <4>1. told' = told \cup {t}
        BY <3>1
      <4>2. Cardinality(told \cup {t}) \in {Cardinality(told), Cardinality(told) + 1}
        BY <3>4, FS_AddElement
      <4>. QED
        BY ONLY <3>4, <4>1, <4>2
    <3>6. Cardinality(told) + 1 <= approvals + Cardinality(unclear)
      BY <3>3 DEF PlanInv, ClaimIsCovered
    <3>7. CASE mode' # "approved"
      BY <1>0, <2>1, <3>1, <3>2, <3>3, <3>4, <3>5, <3>6, <3>7 DEF PlanInv, PlanType, ClaimIsCovered
    <3>8. CASE mode' = "approved" /\ t \in unclear
      <4>1. told' = told /\ unclear' = unclear
        BY <1>0, <3>1, <3>8 DEF PlanType
      <4>. QED
        BY <1>0, <2>1, <3>2, <3>3, <3>4, <3>5, <3>6, <4>1 DEF PlanInv, PlanType, ClaimIsCovered
    <3>9. CASE mode' = "approved" /\ t \notin unclear
      <4>1. Cardinality(unclear') = Cardinality(unclear) + 1
        BY <3>1, <3>4, <3>9, FS_AddElement
      <4>. QED
        BY <1>0, <2>1, <3>2, <3>3, <3>4, <3>5, <3>6, <4>1 DEF PlanInv, PlanType, ClaimIsCovered
    <3>. QED
      BY <3>7, <3>8, <3>9
  <2>4. CASE snap[t] # "approved"
    <3>1. told' = told /\ mode' = mode /\ unclear' = unclear
      BY <1>5, <2>4 DEF BuildPayload
    <3>2. PlanType'
      BY <1>0, <2>1, <3>1 DEF PlanType, PcOf, Inside
    <3>. QED
      BY <2>1, <2>2, <3>1, <3>2, QuietInv DEF Claim
  <2>. QED
    BY <2>3, <2>4
<1>6. CASE Answer(t) \/ Complete(t) \/ Fail(t)
  <2>1. /\ \E to \in {"answered", "ended"} : pc' = [pc EXCEPT ![t] = to] /\ (to = "answered" => lock' = lock)
        /\ mode' \in {mode, "pending"} /\ lock' \in {lock, 0}
        /\ UNCHANGED <<snap, told, unclear, approvals>>
    BY <1>6 DEF Answer, Complete, Fail, TryWrite, historyVars
  <2>2. pc[t] \in Inside \/ lock' = lock \/ lock = t
    BY <1>6 DEF Answer, Complete, Fail, Inside
  <2>3. pc'[t] \in Inside => pc[t] \in Inside /\ lock' = lock
    BY <1>0, <1>6 DEF Answer, Complete, Fail, Inside, PlanType
  <2>4. \A u \in Turn \ {t} : pc'[u] = pc[u]
    BY <1>0, <2>1 DEF PlanType
  <2>5. ASSUME NEW u \in Turn \ {t}, pc[u] \in Inside PROVE lock' = lock
    BY <2>2, <2>5 DEF PlanInv, LockHeld
  <2>6. PlanType'
    BY <1>0, <2>1 DEF PlanType, PcOf, Inside, Mode
  <2>7. pc'[t] # "reading"
    BY <1>0, <2>1 DEF PlanType
  <2>8. Claim' => Claim
    BY <2>1, <2>4, <2>7 DEF Claim
  <2>. QED
    BY <2>1, <2>3, <2>4, <2>5, <2>6, <2>8, QuietInv
<1>. QED
  BY <1>1, <1>2, <1>3, <1>4, <1>5, <1>6 DEF TurnStep

\* The steps of the event loop and of /compress: turns are launched or ended, and the
\* state is approved with one more approval or left for another.
LEMMA LoopInv == PlanInv /\ [Next]_vars => PlanInv'
<1>. SUFFICES ASSUME PlanInv, [Next]_vars PROVE PlanInv'
  OBVIOUS
<1>. USE DEF turnVars, uiVars, historyVars, vars
<1>0. PlanType
  BY DEF PlanInv
<1>1. ASSUME NEW t \in Turn, TurnStep(t) \/ Fail(t) PROVE PlanInv'
  BY <1>1, TurnInv
<1>2. ASSUME UNCHANGED <<pc, snap, told, unclear, lock, approvals>>, mode' \in {mode, "off"}
      PROVE  PlanInv'
  <2>1. PlanType'
    BY <1>0, <1>2 DEF PlanType, Mode
  <2>2. Claim' => Claim
    BY <1>2 DEF Claim
  <2>. QED
    BY <1>2, <2>1, <2>2, QuietInv
<1>3. ASSUME NEW n, pc' = Set(pc, n, "launched"), UNCHANGED <<mode, snap, told, unclear, lock, approvals>>
      PROVE  PlanInv'
  <2>1. PlanType'
    BY <1>0, <1>3 DEF PlanType, PcOf, Set
  <2>2. \A t \in Turn : pc'[t] = pc[t] \/ pc'[t] = "launched"
    BY <1>0, <1>3 DEF PlanType, Set
  <2>3. Claim' => Claim
    BY <1>3, <2>2 DEF Claim
  <2>. QED
    BY <1>3, <2>1, <2>2, <2>3, QuietInv DEF Inside
<1>4. CASE Send \/ Notify
  BY <1>3, <1>4 DEF Send, Notify, Launch
<1>5. CASE SeeDone \/ SeeDrained
  <2>1. UNCHANGED <<mode, snap, told, unclear, lock, approvals>> /\ LaunchStash
    BY <1>5 DEF SeeDone, SeeDrained
  <2>2. pc' = pc \/ pc' = Set(pc, launched + 1, "launched")
    BY <2>1 DEF LaunchStash, Launch, NoLaunch
  <2>. QED
    BY <1>2, <1>3, <2>1, <2>2
<1>6. CASE Stash \/ Toggle \/ Interrupt \/ SeeError \/ Approve \/ Reject \/ CloseMenu
           \/ CompressReads \/ CompressClears
  BY <1>2, <1>6 DEF Stash, Toggle, Interrupt, SeeError, Approve, Reject, CloseMenu,
                    CompressReads, CompressClears, TryWrite
<1>7. CASE RecordApproval
  <2>1. UNCHANGED <<pc, snap, told, unclear, lock>>
    BY <1>7 DEF RecordApproval
  <2>4. CASE UNCHANGED <<mode, approvals>>
    BY <1>2, <2>1, <2>4
  <2>5. (mode' = "approved" /\ approvals' = approvals + 1) \/ UNCHANGED <<mode, approvals>>
    BY <1>7 DEF RecordApproval
  <2>. SUFFICES ASSUME mode' = "approved", approvals' = approvals + 1 PROVE PlanInv'
    BY <2>4, <2>5
  <2>2. Cardinality(told) \in Nat /\ Cardinality(unclear) \in Nat
    BY <1>0, ToldFinite DEF PlanType
  <2>3. PlanType' /\ LockHeld'
    BY <1>0, <2>1 DEF PlanInv, PlanType, Mode, LockHeld
  <2>. QED
    BY <1>0, <2>1, <2>2, <2>3 DEF PlanInv, PlanType, ClaimIsCovered
<1>8. CASE Restart
  <2>1. /\ pc' = [t \in Turn |-> IF pc[t] = "none" THEN "none" ELSE "ended"]
        /\ UNCHANGED <<mode, snap, told, unclear, approvals>>
    BY <1>8 DEF Restart
  <2>2. PlanType' /\ (\A t \in Turn : pc'[t] \notin Inside) /\ (Claim' => Claim)
    BY <1>0, <2>1 DEF PlanType, PcOf, Inside, Claim
  <2>. QED
    BY <2>1, <2>2, QuietInv
<1>9. CASE UNCHANGED vars
  BY <1>2, <1>9
<1>. QED
  BY <1>1, <1>4, <1>5, <1>6, <1>7, <1>8, <1>9 DEF Next

\* Never do more turns execute a plan than approvals were given and the store refused to
\* take back, with turns, decisions, /compress and restarts in any order.
THEOREM OneDirectiveHolds == Spec => []OneDirective
<1>1. PlanInv => OneDirective
  <2>. SUFFICES ASSUME PlanInv PROVE OneDirective
    OBVIOUS
  <2>1. Cardinality(told) \in Nat /\ Cardinality(unclear) \in Nat /\ approvals \in Nat
    BY ToldFinite DEF PlanInv, PlanType
  <2>. QED
    BY <2>1 DEF PlanInv, ClaimIsCovered, Claim, OneDirective
<1>. QED
  BY <1>1, PlanInit, LoopInv, PTL DEF Spec

-----------------------------------------------------------------------------
(* What awaits a decision, and what one made, is the last plan.             *)

FreshType ==
  /\ plan \in [Turn -> BOOLEAN] /\ item \in [Turn -> {"none", "done", "err"}]
  /\ asked \in 0 .. MaxTurns /\ launched \in 0 .. MaxTurns /\ toggle \in BOOLEAN

\* Turns are numbered as they are launched.
Numbered == \A t \in Turn : pc[t] = "none" <=> launched < t

\* The turn whose payload was built last is the one under way, if it is past that.
AskedLast ==
  /\ \A t \in Turn : pc[t] \in {"reading", "running", "answered"} => asked = t
  /\ asked > 0 => pc[asked] \in {"reading", "running", "answered", "ended"}

ToldOnce == \A t \in told : pc[t] \in {"running", "answered", "ended"}
AnswerShown == \A t \in Turn : pc[t] = "answered" => item[t] = "done"

\* Under a pending plan a turn has come no further than to load it.
PendingLast == mode = "pending" =>
  /\ asked > 0 /\ plan[asked] /\ item[asked] = "done"
  /\ \A t \in Turn : pc[t] \in Inside => pc[t] = "loaded" /\ snap[t] = "pending"

\* While an approval is written, no turn starts: those alive are those it was given among.
DecidingLast == deciding =>
  /\ asked > 0 /\ (plan[asked] \/ asked \in during)
  /\ \A t \in Turn : pc[t] \in {"none", "ended"} \/ t \in during

\* Under an approval, a turn that began after it has loaded it and has not come past the
\* directive, or had the directive and could not take the approval back.
ApprovedLast == mode = "approved" =>
  /\ asked > 0
  /\ \/ plan[asked] \/ asked \in during \cup unclear
     \/ snap[asked] = "approved" /\ asked \notin told
  /\ \A t \in Turn \ during : pc[t] \in Inside =>
       /\ t \in unclear \/ (pc[t] \in {"loaded", "marked", "reading"} /\ snap[t] = "approved")
       /\ pc[t] # "loaded" => ~plan[t]

FreshInv ==
  /\ PlanType /\ LockHeld /\ FreshType
  /\ Numbered /\ AskedLast /\ ToldOnce /\ AnswerShown
  /\ PendingLast /\ DecidingLast /\ ApprovedLast

LEMMA FreshInit == Init => FreshInv
<1>. SUFFICES ASSUME Init PROVE FreshInv
  OBVIOUS
<1>1. PlanType /\ LockHeld
  BY PlanInit DEF PlanInv
<1>2. FreshType
  <2>1. plan \in [Turn -> BOOLEAN] /\ item \in [Turn -> {"none", "done", "err"}]
    BY DEF Init
  <2>2. asked \in 0 .. MaxTurns /\ launched \in 0 .. MaxTurns
    BY PlanAssumption DEF Init
  <2>3. toggle \in BOOLEAN
    BY Zenon DEF Init
  <2>. QED
    BY <2>1, <2>2, <2>3 DEF FreshType
<1>3. Numbered
  BY PlanAssumption DEF Init, Numbered, Turn
<1>. QED
  BY <1>1, <1>2, <1>3
  DEF Init, FreshInv, AskedLast, ToldOnce, AnswerShown, PendingLast, DecidingLast, ApprovedLast

\* PlanType and LockHeld were shown above.
LEMMA KeptAbove == PlanInv /\ [Next]_vars => PlanType' /\ LockHeld'
BY LoopInv DEF PlanInv

\* The turn lock: no two turns are inside.
LEMMA OneInside ==
  ASSUME LockHeld, NEW t \in Turn, NEW u \in Turn, pc[t] \in Inside, pc[u] \in Inside
  PROVE  t = u
BY DEF LockHeld

LEMMA FreshTurn ==
  ASSUME FreshInv, PlanType', LockHeld', NEW t \in Turn, TurnStep(t) \/ Fail(t)
  PROVE  FreshInv'
<1>. USE DEF Move
<1>t. PlanType /\ LockHeld /\ FreshType
  BY DEF FreshInv
<1>f. /\ \A v : Set(pc, t, v)[t] = v /\ \A u \in Turn \ {t} : Set(pc, t, v)[u] = pc[u]
      /\ \A v : Set(snap, t, v)[t] = v /\ \A u \in Turn \ {t} : Set(snap, t, v)[u] = snap[u]
      /\ \A v : Set(plan, t, v)[t] = v /\ \A u \in Turn \ {t} : Set(plan, t, v)[u] = plan[u]
      /\ \A v : Set(item, t, v)[t] = v /\ \A u \in Turn \ {t} : Set(item, t, v)[u] = item[u]
  BY <1>t DEF PlanType, FreshType, Set
<1>n. Turn \subseteq Nat \ {0} /\ \A n \in 0 .. MaxTurns : n > 0 => n \in Turn
  BY PlanAssumption DEF Turn
<1>a. asked > 0 => asked \in Turn
  BY <1>t, <1>n DEF FreshType
<1>z. t > 0
  BY <1>n
<1>i. pc[t] \in Inside => \A u \in Turn : pc[u] \in Inside => u = t
  BY <1>t, OneInside
<1>1. CASE SendMessage(t)
  <2>1. /\ pc[t] = "launched" /\ pc'[t] = "waiting"
        /\ \A u \in Turn \ {t} : pc'[u] = pc[u] /\ plan'[u] = plan[u]
        /\ UNCHANGED <<mode, item, snap, told, unclear, lock, launched, deciding, asked, during, toggle>>
    BY <1>1, <1>f DEF SendMessage, uiVars, historyVars
  <2>2. asked # t
    BY <1>a, <1>z, <2>1 DEF FreshInv, AskedLast
  <2>3. FreshType'
    BY <1>t, <1>1, <2>1 DEF FreshType, SendMessage, Set, PlanType
  <2>7. Numbered' /\ ToldOnce' /\ AnswerShown'
    BY <1>t, <1>a, <2>1, <2>2, <2>3 DEF FreshInv, Numbered, ToldOnce, AnswerShown, PlanType
  <2>8. AskedLast'
    BY <1>a, <2>1, <2>2, <2>3 DEF FreshInv, AskedLast
  <2>9. PendingLast'
    BY <1>a, <2>1, <2>2, <2>3 DEF FreshInv, PendingLast, Inside
  <2>10. DecidingLast'
    BY <1>a, <2>1, <2>2, <2>3 DEF FreshInv, DecidingLast
  <2>11. ApprovedLast'
    BY <1>a, <2>1, <2>2, <2>3 DEF FreshInv, ApprovedLast, Inside
  <2>. QED
    BY <2>3, <2>7, <2>8, <2>9, <2>10, <2>11 DEF FreshInv
<1>2. CASE TakeLock(t)
  <2>1. /\ pc[t] = "waiting" /\ pc'[t] = "loaded" /\ snap'[t] = mode
        /\ \A u \in Turn \ {t} : pc'[u] = pc[u] /\ snap'[u] = snap[u]
        /\ UNCHANGED <<mode, item, plan, told, unclear, launched, deciding, asked, during, toggle>>
    BY <1>2, <1>f DEF TakeLock, uiVars, historyVars
  <2>2. asked # t
    BY <1>a, <1>z, <2>1 DEF FreshInv, AskedLast
  <2>3. FreshType'
    BY <1>t, <2>1 DEF FreshType
  <2>7. Numbered' /\ ToldOnce' /\ AnswerShown'
    BY <1>t, <1>a, <2>1, <2>2, <2>3 DEF FreshInv, Numbered, ToldOnce, AnswerShown, PlanType
  <2>8. AskedLast'
    BY <1>a, <2>1, <2>2, <2>3 DEF FreshInv, AskedLast
  <2>9. PendingLast'
    BY <1>a, <2>1, <2>2, <2>3 DEF FreshInv, PendingLast, Inside
  <2>10. DecidingLast'
    BY <1>a, <2>1, <2>2, <2>3 DEF FreshInv, DecidingLast
  <2>11. ApprovedLast'
    BY <1>a, <2>1, <2>2, <2>3 DEF FreshInv, ApprovedLast, Inside
  <2>. QED
    BY <2>3, <2>7, <2>8, <2>9, <2>10, <2>11 DEF FreshInv
<1>3. CASE MarkTurn(t)
  <2>1. /\ pc[t] = "loaded" /\ pc'[t] = "marked"
        /\ mode' = IF plan[t] THEN "planning" ELSE IF Unfinished(snap[t]) THEN "off" ELSE mode
        /\ \A u \in Turn \ {t} : pc'[u] = pc[u]
        /\ UNCHANGED <<item, plan, snap, told, unclear, launched, deciding, asked, during, toggle>>
    BY <1>3, <1>f DEF MarkTurn, uiVars, historyVars
  <2>2. asked # t
    BY <1>a, <1>z, <2>1 DEF FreshInv, AskedLast
  <2>3. FreshType' /\ \A u \in Turn \ {t} : pc[u] \notin Inside
    BY <1>t, <1>i, <2>1 DEF FreshType, Inside
  <2>4. mode' # "pending"
    BY <2>1 DEF FreshInv, PendingLast, Inside, Unfinished
  <2>5. mode' = "approved" => mode = "approved" /\ ~plan[t]
    BY <2>1
  <2>7. Numbered' /\ ToldOnce' /\ AnswerShown'
    BY <1>t, <1>a, <2>1, <2>2, <2>3, <2>4, <2>5 DEF FreshInv, Numbered, ToldOnce, AnswerShown, PlanType
  <2>8. AskedLast'
    BY <1>a, <2>1, <2>2, <2>3, <2>4, <2>5 DEF FreshInv, AskedLast
  <2>9. PendingLast'
    BY <1>a, <2>1, <2>2, <2>3, <2>4, <2>5 DEF FreshInv, PendingLast, Inside
  <2>10. DecidingLast'
    BY <1>a, <2>1, <2>2, <2>3, <2>4, <2>5 DEF FreshInv, DecidingLast
  <2>11. ApprovedLast'
    BY <1>a, <2>1, <2>2, <2>3, <2>4, <2>5 DEF FreshInv, ApprovedLast, Inside
  <2>. QED
    BY <2>3, <2>7, <2>8, <2>9, <2>10, <2>11 DEF FreshInv
<1>4. CASE ReadThread(t)
  <2>1. /\ pc[t] = "marked" /\ pc'[t] = "reading" /\ snap'[t] = mode /\ asked' = t
        /\ \A u \in Turn \ {t} : pc'[u] = pc[u] /\ snap'[u] = snap[u]
        /\ UNCHANGED <<mode, item, plan, told, unclear, launched, deciding, during, toggle>>
    BY <1>4, <1>f DEF ReadThread, uiVars
  <2>2. t > 0 /\ t \in 0 .. MaxTurns
    BY PlanAssumption DEF Turn
  <2>3. FreshType' /\ \A u \in Turn \ {t} : pc[u] \notin Inside
    BY <1>t, <1>i, <2>1, <2>2 DEF FreshType, Inside
  <2>4. mode # "pending" /\ (deciding => t \in during) /\ t \notin told
    BY <2>1 DEF FreshInv, PendingLast, DecidingLast, Inside, ToldOnce
  <2>7. Numbered' /\ ToldOnce' /\ AnswerShown'
    BY <1>t, <2>1, <2>2, <2>3, <2>4 DEF FreshInv, Numbered, ToldOnce, AnswerShown, PlanType
  <2>8. AskedLast'
    BY <2>1, <2>2, <2>3, <2>4 DEF FreshInv, AskedLast, Inside
  <2>9. PendingLast'
    BY <2>1, <2>2, <2>3, <2>4 DEF FreshInv, PendingLast, Inside
  <2>10. DecidingLast'
    BY <2>1, <2>2, <2>3, <2>4 DEF FreshInv, DecidingLast
  <2>11. ApprovedLast'
    BY <2>1, <2>2, <2>3, <2>4 DEF FreshInv, ApprovedLast, Inside
  <2>. QED
    BY <2>3, <2>7, <2>8, <2>9, <2>10, <2>11 DEF FreshInv
<1>5. CASE BuildPayload(t)
  <2>1. /\ pc[t] = "reading" /\ pc'[t] = "running"
        /\ \A u \in Turn \ {t} : pc'[u] = pc[u]
        /\ UNCHANGED <<item, plan, snap, launched, deciding, asked, during, toggle>>
        /\ \/ /\ snap[t] = "approved" /\ told' = told \cup {t} /\ mode' \in {mode, "off"}
              /\ unclear' = IF mode' = "approved" THEN unclear \cup {t} ELSE unclear
           \/ snap[t] # "approved" /\ told' = told /\ mode' = mode /\ unclear' = unclear
    BY <1>5, <1>f DEF BuildPayload, TryWrite, uiVars
  <2>2. FreshType' /\ \A u \in Turn \ {t} : pc[u] \notin Inside
    BY <1>t, <1>i, <2>1 DEF FreshType, Inside
  <2>3. mode # "pending" /\ (deciding => t \in during) /\ t \notin told
    BY <2>1 DEF FreshInv, PendingLast, DecidingLast, Inside, ToldOnce
  <2>5. asked = t /\ told \subseteq Turn /\ unclear \subseteq told
    BY <1>t, <2>1 DEF FreshInv, AskedLast, PlanType
  <2>7. Numbered' /\ AskedLast' /\ ToldOnce' /\ AnswerShown'
    BY <2>1, <2>2, <2>5 DEF FreshInv, Numbered, AskedLast, ToldOnce, AnswerShown, Inside
  <2>8. PendingLast' /\ DecidingLast'
    BY <2>1, <2>2, <2>3, <2>5 DEF FreshInv, PendingLast, DecidingLast, Inside
  <2>9. ASSUME mode' = "approved" PROVE ApprovedLast'
    <3>1. mode = "approved"
      BY <2>1, <2>9
    <3>2. t \in during \/ (snap[t] = "approved" /\ ~plan[t])
      BY <2>1, <2>3, <2>5, <3>1 DEF FreshInv, ApprovedLast, Inside
    <3>3. t \in during \cup unclear'
      BY <2>1, <2>9, <3>2
    <3>. QED
      BY <2>1, <2>2, <2>5, <3>1, <3>2, <3>3 DEF FreshInv, ApprovedLast
  <2>. QED
    BY <2>2, <2>7, <2>8, <2>9 DEF FreshInv, ApprovedLast
<1>6. CASE Answer(t)
  <2>1. /\ pc[t] = "running" /\ pc'[t] = "answered" /\ item'[t] = "done"
        /\ \A u \in Turn \ {t} : pc'[u] = pc[u] /\ item'[u] = item[u]
        /\ UNCHANGED <<mode, plan, snap, told, unclear, launched, deciding, asked, during, toggle>>
    BY <1>6, <1>f DEF Answer, uiVars, historyVars
  <2>2. FreshType' /\ \A u \in Turn \ {t} : pc[u] \notin Inside
    BY <1>t, <1>i, <1>6, <2>1 DEF FreshType, Inside, Answer, Set
  <2>3. /\ mode # "pending" /\ (deciding => t \in during)
        /\ mode = "approved" => t \in during \/ (t \in unclear /\ ~plan[t])
    BY <2>1 DEF FreshInv, PendingLast, DecidingLast, ApprovedLast, Inside
  <2>5. asked = t
    BY <2>1 DEF FreshInv, AskedLast
  <2>6. told \subseteq Turn
    BY <1>t DEF PlanType
  <2>. QED
    BY <2>1, <2>2, <2>3, <2>5, <2>6 DEF FreshInv, Numbered, AskedLast, ToldOnce, AnswerShown,
       PendingLast, DecidingLast, ApprovedLast, Inside
<1>7. CASE Complete(t)
  <2>1. /\ pc[t] = "answered" /\ pc'[t] = "ended"
        /\ mode' = mode \/ (plan[t] /\ mode' = "pending")
        /\ \A u \in Turn \ {t} : pc'[u] = pc[u]
        /\ UNCHANGED <<item, plan, snap, told, unclear, launched, deciding, asked, during, toggle>>
    BY <1>7, <1>f DEF Complete, TryWrite, uiVars, historyVars
  <2>2. FreshType' /\ \A u \in Turn \ {t} : pc[u] \notin Inside
    BY <1>t, <1>i, <2>1 DEF FreshType, Inside
  <2>3. /\ mode # "pending" /\ (deciding => t \in during)
        /\ mode = "approved" => t \in during \/ (t \in unclear /\ ~plan[t])
    BY <2>1 DEF FreshInv, PendingLast, DecidingLast, ApprovedLast, Inside
  <2>4. asked = t /\ item[t] = "done" /\ t > 0
    BY <1>n, <2>1 DEF FreshInv, AskedLast, AnswerShown
  <2>5. PlanType' /\ told \subseteq Turn
    BY <1>t DEF PlanType
  <2>. QED
    BY <2>1, <2>2, <2>3, <2>4, <2>5 DEF FreshInv, Numbered, AskedLast, ToldOnce, AnswerShown,
       PendingLast, DecidingLast, ApprovedLast, Inside
<1>8. CASE Fail(t)
  <2>1. /\ pc[t] \in {"waiting", "loaded", "marked", "reading", "running"}
        /\ pc'[t] = "ended" /\ item'[t] = "err"
        /\ \A u \in Turn \ {t} : pc'[u] = pc[u] /\ item'[u] = item[u]
        /\ UNCHANGED <<mode, plan, snap, told, unclear, launched, deciding, asked, during, toggle>>
    BY <1>8, <1>f DEF Fail, uiVars, historyVars
  <2>2. FreshType'
    BY <1>t, <1>8, <2>1 DEF FreshType, Fail, Set
  <2>3. mode = "pending" => asked # t
    BY <1>a, <2>1 DEF FreshInv, PendingLast, AskedLast, Inside
  <2>4. told \subseteq Turn
    BY <1>t DEF PlanType
  <2>. QED
    BY <1>a, <2>1, <2>2, <2>3, <2>4 DEF FreshInv, Numbered, AskedLast, ToldOnce, AnswerShown,
       PendingLast, DecidingLast, ApprovedLast, Inside
<1>. QED
  BY <1>1, <1>2, <1>3, <1>4, <1>5, <1>6, <1>7, <1>8 DEF TurnStep

\* A step of the event loop that starts a turn, or none, while nothing is being decided.
LEMMA FreshLaunch ==
  ASSUME FreshInv, PlanType', LockHeld', ~deciding, toggle' \in BOOLEAN,
         UNCHANGED <<mode, item, plan, snap, told, deciding, asked, during, unclear>>,
         \/ Launch /\ launched < MaxTurns
         \/ NoLaunch
  PROVE  FreshInv'
<1>t. PlanType /\ FreshType /\ Turn \subseteq Nat \ {0}
  BY PlanAssumption DEF FreshInv, Turn
<1>1. CASE NoLaunch
  BY <1>t, <1>1 DEF NoLaunch, FreshInv, FreshType, Numbered, AskedLast, ToldOnce, AnswerShown,
                    PendingLast, DecidingLast, ApprovedLast
<1>2. CASE Launch /\ launched < MaxTurns
  <2>0. PICK n \in Turn : n = launched + 1
    BY <1>t, <1>2, PlanAssumption DEF FreshType, Turn
  <2>1. /\ launched' = n /\ pc'[n] = "launched" /\ \A u \in Turn \ {n} : pc'[u] = pc[u]
        /\ launched \in Nat /\ launched' \in 0 .. MaxTurns
    BY <1>t, <1>2, <2>0, PlanAssumption DEF Launch, PlanType, Set, FreshType, Turn
  <2>2. pc[n] = "none"
    BY <2>0, <2>1 DEF FreshInv, Numbered
  <2>3. asked > 0 => asked \in Turn
    BY <1>t, PlanAssumption DEF FreshType, Turn
  <2>4. n > 0 /\ asked # n
    BY <1>t, <2>2, <2>3 DEF FreshInv, AskedLast
  <2>5. Numbered'
    <3>1. ASSUME NEW u \in Turn, u # n PROVE launched' < u <=> launched < u
      BY <1>t, <2>0, <2>1, <3>1
    <3>. QED
      BY <1>t, <2>0, <2>1, <3>1 DEF FreshInv, Numbered
  <2>6. FreshType'
    BY <1>t, <2>1 DEF FreshType
  <2>7. ToldOnce' /\ AnswerShown'
    BY <1>t, <2>1, <2>2 DEF FreshInv, ToldOnce, AnswerShown, PlanType
  <2>8. AskedLast'
    BY <2>1, <2>3, <2>4 DEF FreshInv, AskedLast
  <2>9. PendingLast' /\ DecidingLast'
    BY <2>1, <2>3, <2>4 DEF FreshInv, PendingLast, DecidingLast, Inside
  <2>10. ApprovedLast'
    BY <2>1, <2>3, <2>4 DEF FreshInv, ApprovedLast, Inside
  <2>. QED
    BY <2>5, <2>6, <2>7, <2>8, <2>9, <2>10 DEF FreshInv
<1>. QED
  BY <1>1, <1>2

\* A step that leaves the turns alone and changes the state, if at all, to "off".
LEMMA FreshStill ==
  ASSUME FreshInv, PlanType', LockHeld', mode' \in {mode, "off"}, toggle' \in BOOLEAN,
         UNCHANGED <<pc, item, plan, snap, told, launched, asked>>,
         unclear' = unclear,
         mode' = "approved" => during' = during,
         deciding' => deciding /\ during' = during
  PROVE  FreshInv'
<1>1. FreshType' /\ Numbered' /\ AskedLast' /\ ToldOnce' /\ AnswerShown'
  BY DEF FreshInv, FreshType, Numbered, AskedLast, ToldOnce, AnswerShown
<1>2. PendingLast'
  BY DEF FreshInv, PendingLast
<1>3. DecidingLast'
  BY DEF FreshInv, DecidingLast
<1>4. ApprovedLast'
  BY DEF FreshInv, ApprovedLast
<1>. QED
  BY <1>1, <1>2, <1>3, <1>4 DEF FreshInv

LEMMA FreshNext == PlanInv /\ FreshInv /\ [Next]_vars => FreshInv'
<1>. SUFFICES ASSUME PlanInv, FreshInv, [Next]_vars PROVE FreshInv'
  OBVIOUS
<1>. USE DEF turnVars, uiVars, historyVars, vars
<1>0. PlanType' /\ LockHeld' /\ toggle \in BOOLEAN /\ PlanType /\ FreshType
  BY KeptAbove DEF FreshInv, FreshType
<1>1. ASSUME NEW t \in Turn, TurnStep(t) \/ Fail(t) PROVE FreshInv'
  BY <1>0, <1>1, FreshTurn
<1>2. CASE Send \/ Notify
  BY <1>0, <1>2, FreshLaunch DEF Send, Notify, Ready, Launchable
<1>3. CASE SeeDone \/ SeeDrained
  <2>1. toggle' \in {toggle, FALSE}
    BY <1>3, Zenon DEF SeeDone, SeeDrained
  <2>2. toggle' \in BOOLEAN
    BY <1>0, <2>1, Zenon
  <2>3. ~deciding /\ UNCHANGED <<mode, item, plan, snap, told, deciding, asked, during, unclear>>
    BY <1>3 DEF SeeDone, SeeDrained, Ready
  <2>4. (Launch /\ launched < MaxTurns) \/ NoLaunch
    BY <1>3 DEF SeeDone, SeeDrained, LaunchStash, Launchable
  <2>. QED
    BY <1>0, <2>2, <2>3, <2>4, FreshLaunch
<1>4. CASE Toggle
  <2>1. toggle' \in BOOLEAN
    BY <1>4 DEF Toggle
  <2>. QED
    BY <1>0, <1>4, <2>1, FreshStill DEF Toggle
<1>5. CASE Stash \/ Interrupt \/ SeeError \/ Reject \/ CloseMenu \/ CompressReads \/ CompressClears
  BY <1>0, <1>5, FreshStill
  DEF Stash, Interrupt, SeeError, Reject, CloseMenu, CompressReads, CompressClears, TryWrite
<1>6. CASE Approve
  <2>1. /\ UNCHANGED <<mode, pc, item, plan, snap, told, launched, asked, toggle>>
        /\ ~deciding
        /\ deciding' = (mode = "pending")
        /\ during' = IF mode = "pending" THEN Alive ELSE during
        /\ unclear' = unclear
    BY <1>6 DEF Approve, Ready
  <2>2. CASE mode # "pending"
    BY <1>0, <2>1, <2>2, FreshStill
  <2>3. CASE mode = "pending"
    <3>1. deciding' /\ \A t \in Turn : pc[t] \in {"none", "ended"} \/ t \in during'
      BY <2>1, <2>3 DEF Alive
    <3>2. DecidingLast'
      BY <2>1, <2>3, <3>1 DEF FreshInv, PendingLast, DecidingLast
    <3>3. ApprovedLast' /\ PendingLast'
      BY <2>1, <2>3 DEF FreshInv, PendingLast, ApprovedLast
    <3>. QED
      BY <1>0, <2>1, <3>2, <3>3 DEF FreshInv, FreshType, Numbered, AskedLast, ToldOnce, AnswerShown
  <2>. QED
    BY <2>2, <2>3
<1>7. CASE RecordApproval
  <2>1. /\ deciding /\ ~deciding' /\ mode' \in {"approved", mode}
        /\ UNCHANGED <<pc, item, plan, snap, told, launched, asked, during, unclear, toggle>>
    BY <1>7 DEF RecordApproval
  <2>3. CASE mode' = mode
    BY <1>0, <2>1, <2>3, FreshStill
  <2>. SUFFICES ASSUME mode' = "approved" PROVE FreshInv'
    BY <2>1, <2>3
  <2>2. ApprovedLast'
    BY <2>1 DEF FreshInv, DecidingLast, ApprovedLast, Inside
  <2>. QED
    BY <1>0, <2>1, <2>2
    DEF FreshInv, FreshType, Numbered, AskedLast, ToldOnce, AnswerShown, PendingLast, DecidingLast
<1>8. CASE Restart
  <2>1. /\ \A t \in Turn : pc'[t] = IF pc[t] = "none" THEN "none" ELSE "ended"
        /\ \A t \in Turn : item'[t] = IF pc[t] = "none" THEN "none"
                                      ELSE IF item[t] = "none" THEN "err" ELSE item[t]
        /\ ~deciding' /\ UNCHANGED <<mode, plan, snap, told, launched, asked, during, unclear>>
    BY <1>8 DEF Restart
  <2>2. asked > 0 => asked \in Turn
    BY <1>0, PlanAssumption DEF FreshType, Turn
  <2>3. toggle' \in BOOLEAN
    BY <1>8, Zenon DEF Restart
  <2>4. item' \in [Turn -> {"none", "done", "err"}]
    BY <1>0, <1>8 DEF Restart, FreshType
  <2>5. FreshType'
    BY <1>0, <2>1, <2>3, <2>4 DEF FreshType
  <2>6. Numbered' /\ ToldOnce' /\ AnswerShown'
    BY <1>0, <2>1 DEF FreshInv, Numbered, ToldOnce, AnswerShown, PlanType
  <2>7. AskedLast'
    BY <2>1, <2>2 DEF FreshInv, AskedLast
  <2>8. PendingLast' /\ DecidingLast'
    BY <2>1, <2>2 DEF FreshInv, PendingLast, DecidingLast, Inside, AskedLast
  <2>9. ApprovedLast'
    BY <2>1, <2>2 DEF FreshInv, ApprovedLast, Inside
  <2>. QED
    BY <1>0, <2>5, <2>6, <2>7, <2>8, <2>9 DEF FreshInv
<1>9. CASE UNCHANGED vars
  BY <1>0, <1>9, FreshStill
<1>. QED
  BY <1>1, <1>2, <1>3, <1>4, <1>5, <1>6, <1>7, <1>8, <1>9 DEF Next

THEOREM FreshInvHolds == Spec => [](PlanInv /\ FreshInv)
BY PlanInit, FreshInit, LoopInv, FreshNext, PTL DEF Spec

\* A plan awaits a decision only while it is the last thing the model was asked for and
\* answered; an approval that stands is for that plan, unless the turn last asked is
\* taking it, had it refused by the store, or was under way as it was given.
THEOREM DecisionIsFreshHolds == Spec => []DecisionIsFresh
<1>1. FreshInv => DecisionIsFresh
  BY DEF FreshInv, PendingLast, ApprovedLast, DecisionIsFresh, PendingIsFresh, ApprovalIsFresh
<1>. QED
  BY <1>1, FreshInvHolds, PTL

\* An approval is given up only to a turn that tells the model, when the user starts over
\* or discards it, to /compress, or to a turn that was under way as it was given.
GivenUp ==
  mode = "approved" /\ mode' # "approved"
    => \/ told' # told
       \/ menu /\ ~menu'
       \/ \E t \in Turn : plan[t] /\ pc[t] = "loaded" /\ pc'[t] = "marked"
       \/ compressing /\ ~compressing'
       \/ \E t \in during : pc'[t] # pc[t]

LEMMA GivenUpStep == PlanInv /\ FreshInv /\ [Next]_vars => GivenUp
<1>. SUFFICES ASSUME FreshInv, [Next]_vars, mode = "approved", mode' # "approved",
                     \A t \in during : pc'[t] = pc[t]
              PROVE  \/ told' # told
                     \/ menu /\ ~menu'
                     \/ \E t \in Turn : plan[t] /\ pc[t] = "loaded" /\ pc'[t] = "marked"
                     \/ compressing /\ ~compressing'
  BY Zenon DEF GivenUp
<1>. USE DEF turnVars, uiVars, historyVars, vars
<1>1. CASE Reject \/ CompressClears
  BY <1>1 DEF Reject, CompressClears
<1>2. ASSUME NEW t \in Turn, MarkTurn(t)
      PROVE  plan[t] /\ pc[t] = "loaded" /\ pc'[t] = "marked"
  <2>1. /\ pc[t] = "loaded" /\ pc'[t] = "marked"
        /\ mode' = IF plan[t] THEN "planning" ELSE IF Unfinished(snap[t]) THEN "off" ELSE mode
    BY <1>2 DEF MarkTurn, Move, Set, FreshInv, PlanType
  <2>2. snap[t] = "approved"
    BY <2>1 DEF FreshInv, ApprovedLast, Inside, ToldOnce, PlanType
  <2>. QED
    BY <2>1, <2>2 DEF Unfinished
<1>3. ASSUME NEW t \in Turn, BuildPayload(t) PROVE told' # told
  <2>1. pc[t] = "reading" /\ told' = told \cup {t}
    BY <1>3 DEF BuildPayload, Move, TryWrite
  <2>2. t \notin told
    BY <2>1 DEF FreshInv, ToldOnce
  <2>. QED
    BY <2>1, <2>2
<1>4. ASSUME NEW t \in Turn, Complete(t) PROVE FALSE
  <2>1. pc[t] = "answered" /\ pc'[t] = "ended" /\ plan[t]
    BY <1>4 DEF Complete, Move, Set, TryWrite, FreshInv, PlanType
  <2>. QED
    BY <2>1 DEF FreshInv, ApprovedLast, Inside
<1>5. ASSUME NEW t \in Turn, SendMessage(t) \/ TakeLock(t) \/ ReadThread(t) \/ Answer(t) \/ Fail(t)
      PROVE  FALSE
  BY <1>5 DEF SendMessage, TakeLock, ReadThread, Answer, Fail
<1>6. CASE Send \/ Notify \/ Stash \/ Toggle \/ Interrupt \/ SeeDone \/ SeeError \/ SeeDrained
           \/ Approve \/ RecordApproval \/ CloseMenu \/ CompressReads \/ Restart
  BY <1>6 DEF Send, Notify, Stash, Toggle, Interrupt, SeeDone, SeeError, SeeDrained,
              Approve, RecordApproval, CloseMenu, CompressReads, Restart
<1>7. CASE UNCHANGED vars
  BY <1>7
<1>. QED
  BY <1>1, <1>2, <1>3, <1>4, <1>5, <1>6, <1>7 DEF Next, TurnStep

THEOREM ApprovalKeptHolds == Spec => ApprovalKept
<1>1. PlanInv /\ FreshInv /\ [Next]_vars => [GivenUp]_vars
  BY GivenUpStep
<1>2. Spec => [][GivenUp]_vars
  BY <1>1, FreshInvHolds, PTL DEF Spec
<1>. QED
  BY <1>2 DEF GivenUp, ApprovalKept

=============================================================================
