---------------------------- MODULE StoreProofs ----------------------------
(***************************************************************************)
(* Theorems about Boot and Migrations for every number of programs,         *)
(* migrations and servers, and whatever worlds: the migrations are applied   *)
(* once and in order, and what a start or a stop has opened it closes.  And  *)
(* about TodoPlan, whose lists the database holds, for any threads, actors,   *)
(* calls and imported lists: snapshots of one revision agree, positions have  *)
(* no holes, and the store never gives out a name twice.                      *)
(***************************************************************************)
EXTENDS Boot, TodoPlan, FiniteSetTheorems, SequenceTheorems, TLAPS

Stage == {"closed", "waiting", "migrating", "open", "failed"}

StoreType ==
  /\ recorded \subseteq Migration /\ runs \in [Migration -> Nat]
  /\ opening \in [Program -> Stage]
  /\ next \in [Program -> 1 .. (Count + 1)]
  /\ applied \in [Program -> BOOLEAN]
  /\ lock \subseteq Program

\* The write lock is that of the one program within a migration.
Exclusive ==
  /\ \A p \in Program : p \in lock <=> opening[p] = "migrating"
  /\ \A p, q \in lock : p = q

\* What is recorded was run, and all before it is recorded too.
InOrder == \A m \in recorded : 1 .. m \subseteq recorded /\ runs[m] >= 1

\* A migration that does not bear to be run again was run if and only if it is recorded.
RunIsRecorded == \A m \in Alter : runs[m] = IF m \in recorded THEN 1 ELSE 0

\* A program has seen to all migrations before its next one, and while it holds the
\* lock what it read of that one is still so.
Progressed(p) ==
  /\ opening[p] = "closed" => next[p] = 1
  /\ opening[p] \in {"waiting", "migrating"} => 1 .. (next[p] - 1) \subseteq recorded
  /\ opening[p] = "migrating" => next[p] \in Migration /\ applied[p] = (next[p] \in recorded)
  /\ opening[p] = "open" => recorded = Migration
Progress == \A p \in Program : Progressed(p)

StoreInv == StoreType /\ Exclusive /\ InOrder /\ RunIsRecorded /\ Progress

-----------------------------------------------------------------------------
(* The database.                                                            *)

\* A new database, or one from before migrations were recorded, is in order.
LEMMA StoreInitInv == StoreInit => StoreInv
<1>. SUFFICES ASSUME StoreInit PROVE StoreInv
  OBVIOUS
<1>. USE MigrationAssumption DEF StoreInit, Migration
<1>1. StoreType
  BY DEF StoreType, Stage
<1>2. RunIsRecorded
  BY DEF RunIsRecorded
<1>3. Exclusive /\ InOrder
  BY DEF Exclusive, InOrder
<1>4. Progress
  BY DEF Progress, Progressed
<1>. QED
  BY <1>1, <1>2, <1>3, <1>4 DEF StoreInv

\* A function of counts stays one when one of them goes up.
LEMMA CountedUp ==
  ASSUME NEW S, NEW f \in [S -> Nat], NEW x
  PROVE  [f EXCEPT ![x] = @ + 1] \in [S -> Nat]
<1>1. \A y \in S : y = x => [f EXCEPT ![x] = @ + 1][y] = f[y] + 1
  OBVIOUS
<1>2. \A y \in S : y # x => [f EXCEPT ![x] = @ + 1][y] = f[y]
  OBVIOUS
<1>3. \A y \in S : [f EXCEPT ![x] = @ + 1][y] \in Nat
  BY <1>1, <1>2
<1>. QED
  BY <1>3

\* A program that takes a step on the way to an open database, or is gone, leaves the
\* database in order.
LEMMA StoreStepInv ==
  ASSUME StoreInv, NEW p \in Program, OpenStep(p) \/ Gone(p)
  PROVE  StoreInv'
<1>. USE DEF StoreInv, Put
<1>1. StoreType'
  <2>. USE MigrationAssumption DEF StoreType, Stage, Migration
  <2>1. CASE Open(p)
    BY <2>1 DEF Open
  <2>2. CASE Begin(p)
    BY <2>2 DEF Begin
  <2>3. CASE Busy(p)
    BY <2>3 DEF Busy
  <2>4. CASE Commit(p)
    <3>1. next[p] \in Migration
      BY <2>4 DEF Commit, Progress, Progressed
    <3>2. recorded' \subseteq Migration
      BY <2>4, <3>1 DEF Commit
    <3>3. runs' \in [Migration -> Nat]
      <4>1. CASE applied[p]
        BY <2>4, <4>1 DEF Commit
      <4>2. CASE ~applied[p]
        <5>1. runs' = [runs EXCEPT ![next[p]] = @ + 1]
          BY ONLY <2>4, <4>2 DEF Commit
        <5>2. runs \in [Migration -> Nat]
          BY ONLY StoreInv DEF StoreInv, StoreType
        <5>. QED
          BY ONLY <5>1, <5>2, CountedUp
      <4>. QED
        BY ONLY <4>1, <4>2
    <3>4. next' \in [Program -> 1 .. (Count + 1)]
      BY <2>4, <3>1 DEF Commit
    <3>5. opening' \in [Program -> Stage] /\ applied' = applied /\ lock' \subseteq Program
      BY <2>4 DEF Commit, Release
    <3>. QED
      BY <3>2, <3>3, <3>4, <3>5
  <2>5. CASE Rollback(p)
    BY <2>5 DEF Rollback, Release
  <2>6. CASE Migrated(p)
    BY <2>6 DEF Migrated
  <2>7. CASE Gone(p)
    BY <2>7 DEF Gone, Release
  <2>. QED
    BY <2>1, <2>2, <2>3, <2>4, <2>5, <2>6, <2>7 DEF OpenStep
<1>2. Exclusive'
  <2>. USE DEF Exclusive, StoreType, Stage
  <2>1. CASE Begin(p)
    BY <2>1 DEF Begin, MayWrite
  <2>2. CASE Commit(p) \/ Rollback(p) \/ Gone(p)
    BY <2>2 DEF Commit, Rollback, Gone, Release
  <2>3. CASE Open(p) \/ Busy(p) \/ Migrated(p)
    BY <2>3 DEF Open, Busy, Migrated
  <2>. QED
    BY <2>1, <2>2, <2>3 DEF OpenStep
<1>3. CASE Commit(p) /\ ~applied[p]
  <2>. DEFINE m == next[p]
  <2>1. /\ m \in Migration /\ m \notin recorded /\ 1 .. (m - 1) \subseteq recorded
        /\ opening[p] = "migrating"
    BY <1>3 DEF Commit, Progress, Progressed
  <2>2. recorded' = recorded \cup {m} /\ runs' = [runs EXCEPT ![m] = @ + 1]
    BY <1>3 DEF Commit
  <2>3. runs \in [Migration -> Nat] /\ recorded \subseteq Migration
    BY DEF StoreType
  <2>4. InOrder'
    <3>1. 1 .. m \subseteq recorded'
      BY <2>1, <2>2, MigrationAssumption DEF Migration
    <3>2. runs'[m] >= 1 /\ \A k \in recorded : runs'[k] >= 1
      BY <2>1, <2>2, <2>3 DEF InOrder
    <3>. QED
      BY <2>2, <3>1, <3>2 DEF InOrder
  <2>5. RunIsRecorded'
    BY <2>1, <2>2, <2>3, MigrationAssumption DEF RunIsRecorded
  <2>6. Progress'
    <3>. SUFFICES ASSUME NEW q \in Program PROVE Progressed(q)'
      BY DEF Progress
    <3>. USE DEF Progress, Progressed
    <3>1. recorded \subseteq recorded' /\ recorded' \subseteq Migration
      BY <2>1, <2>2, <2>3
    <3>2. CASE q = p
      <4>1. opening'[p] = "waiting" /\ next'[p] = m + 1
        BY <1>3 DEF Commit, StoreType
      <4>2. 1 .. m \subseteq recorded'
        BY <2>1, <2>2, MigrationAssumption DEF Migration
      <4>3. (m + 1) - 1 = m
        BY <2>1, MigrationAssumption DEF Migration
      <4>. QED
        BY <3>2, <4>1, <4>2, <4>3
    <3>3. CASE q # p
      <4>1. /\ opening'[q] = opening[q] /\ next'[q] = next[q] /\ applied'[q] = applied[q]
            /\ opening[q] # "migrating"
        BY <1>3, <2>1, <3>3 DEF Commit, StoreType, Exclusive
      <4>. QED
        BY <3>1, <3>3, <4>1 DEF Progress
    <3>. QED
      BY <3>2, <3>3
  <2>. QED
    BY <1>1, <1>2, <2>4, <2>5, <2>6
<1>4. CASE ~(Commit(p) /\ ~applied[p])
  <2>1. recorded' = recorded /\ runs' = runs
    BY <1>4 DEF OpenStep, Open, Begin, Busy, Commit, Rollback, Migrated, Gone
  <2>2. InOrder' /\ RunIsRecorded'
    BY <2>1 DEF InOrder, RunIsRecorded
  <2>3. Progress'
    <3>. SUFFICES ASSUME NEW q \in Program PROVE Progressed(q)'
      BY DEF Progress
    <3>. USE DEF Progress, Progressed, StoreType
    <3>1. CASE q # p
      <4>1. opening'[q] = opening[q] /\ next'[q] = next[q] /\ applied'[q] = applied[q]
        BY <3>1 DEF OpenStep, Open, Begin, Busy, Commit, Rollback, Migrated, Gone
      <4>. QED
        BY <2>1, <4>1
    <3>2. CASE q = p /\ Open(p)
      <4>1. opening'[p] = "waiting" /\ next'[p] = 1
        BY <3>2 DEF Open
      <4>. QED
        BY <3>2, <4>1
    <3>3. CASE q = p /\ Begin(p)
      BY <2>1, <3>3 DEF Begin
    <3>4. CASE q = p /\ (Busy(p) \/ Rollback(p))
      BY <2>1, <3>4 DEF Busy, Rollback
    <3>5. CASE q = p /\ Commit(p)
      <4>1. next[p] \in recorded /\ opening'[p] = "waiting" /\ next'[p] = next[p] + 1
        BY <1>4, <3>5 DEF Commit
      <4>2. 1 .. next[p] \subseteq recorded
        BY <4>1 DEF InOrder
      <4>3. (next[p] + 1) - 1 = next[p]
        BY MigrationAssumption DEF Migration
      <4>. QED
        BY <2>1, <3>5, <4>1, <4>2, <4>3
    <3>6. CASE q = p /\ Migrated(p)
      <4>1. 1 .. (next[p] - 1) \subseteq recorded /\ next[p] \notin Migration /\ opening'[p] = "open"
        BY <3>6 DEF Migrated
      <4>2. next[p] - 1 = Count
        BY <4>1, MigrationAssumption DEF Migration
      <4>. QED
        BY <2>1, <3>6, <4>1, <4>2 DEF Migration
    <3>7. CASE q = p /\ Gone(p)
      BY <3>7 DEF Gone
    <3>. QED
      BY <3>1, <3>2, <3>3, <3>4, <3>5, <3>6, <3>7 DEF OpenStep
  <2>. QED
    BY <1>1, <1>2, <2>2, <2>3
<1>. QED
  BY <1>3, <1>4

\* Every step of Boot is such a step of one program, or leaves the database alone.
LEMMA StoreSteps ==
  [Next]_vars => UNCHANGED storeVars \/ \E p \in Program : OpenStep(p) \/ Gone(p)
<1>. SUFFICES ASSUME [Next]_vars
              PROVE  UNCHANGED storeVars \/ \E p \in Program : OpenStep(p) \/ Gone(p)
  OBVIOUS
<1>. USE BootAssumption DEF Fail
<1>1. CASE BootStep
  <2>1. CASE OpenStore
    BY <2>1 DEF OpenStore
  <2>2. CASE Configure
    BY <2>2 DEF Configure
  <2>3. ASSUME NEW i \in Server, Answers(i) \/ Refuses(i) \/ TimesOut(i) \/ CutOff(i)
        PROVE  UNCHANGED storeVars
    BY <2>3 DEF Answers, Refuses, TimesOut, CutOff, Dial
  <2>4. CASE BudgetEnds \/ ListTools \/ Unlisted \/ ListEnds \/ RegisterAll
    BY <2>4 DEF BudgetEnds, ListTools, Unlisted, ListEnds, RegisterAll
  <2>5. CASE ConnectAll
    BY <2>5 DEF ConnectAll
  <2>6. CASE RestrictTo
    BY <2>6 DEF RestrictTo
  <2>7. CASE SetApprovalConfig
    BY <2>7 DEF SetApprovalConfig
  <2>. QED
    BY <1>1, <2>1, <2>2, <2>3, <2>4, <2>5, <2>6, <2>7 DEF BootStep
<1>2. CASE Quit \/ CloseAgent \/ \E i \in Server : CloseSession(i)
  BY <1>2 DEF Quit, CloseAgent, CloseSession
<1>3. CASE Die \/ CloseStore
  BY <1>3 DEF Die, CloseStore
<1>4. CASE Rival
  BY <1>4 DEF Rival
<1>5. CASE UNCHANGED vars
  BY <1>5 DEF vars
<1>. QED
  BY <1>1, <1>2, <1>3, <1>4, <1>5 DEF Next

LEMMA StoreInvHolds == Spec => []StoreInv
<1>1. Init => StoreInv
  BY StoreInitInv DEF Init
<1>2. StoreInv /\ [Next]_vars => StoreInv'
  <2>. SUFFICES ASSUME StoreInv, [Next]_vars PROVE StoreInv'
    OBVIOUS
  <2>1. CASE UNCHANGED storeVars
    BY <2>1 DEF storeVars, StoreInv, StoreType, Exclusive, InOrder, RunIsRecorded, Progress, Progressed
  <2>2. CASE \E p \in Program : OpenStep(p) \/ Gone(p)
    BY <2>2, StoreStepInv
  <2>. QED
    BY <2>1, <2>2, StoreSteps
<1>. QED
  BY <1>1, <1>2, PTL DEF Spec

\* However many programs open a database at once and die, each migration that does not
\* bear repetition runs once, all in order, and a program that works has them all.
THEOREM MigratedOnceHolds == Spec => []MigratedOnce
<1>1. StoreInv => MigratedOnce
  <2>. SUFFICES ASSUME StoreInv PROVE MigratedOnce
    OBVIOUS
  <2>. USE DEF StoreInv, StoreType
  <2>1. \A m \in Alter : runs[m] <= 1
    BY DEF RunIsRecorded
  <2>2. ASSUME NEW p \in Program, opening[p] = "migrating", next[p] \in Alter, runs[next[p]] > 0
        PROVE  applied[p]
    BY <2>2 DEF RunIsRecorded, Progress, Progressed
  <2>. QED
    BY <2>1, <2>2 DEF MigratedOnce, InOrder, Progress, Progressed
<1>. QED
  BY <1>1, StoreInvHolds, PTL
-----------------------------------------------------------------------------
(* What was opened is closed.                                               *)

Serving == {"list", "restrict", "approval", "running", "agent", "sessions"}
ClosedUp == {"store", "settings", "connect"}

\* From the end of connecting until the last session is closed every connection is the
\* Manager's, who closes them; before and after there is none.
Accounted ==
  /\ pc \in {"start", "settings", "closed"} => Up = {}
  /\ pc = "failed" /\ failure \in ClosedUp => Up = {}
  /\ pc \in Serving => Up \subseteq manager

\* A program that has ended has no database.
StoreClosed == pc \in {"failed", "closed"} => opening[Main] \in {"closed", "failed"}

BootInv == DOMAIN conn = Server /\ Accounted /\ StoreClosed

LEMMA BootInitInv == Init => BootInv
<1>. SUFFICES ASSUME Init PROVE BootInv
  OBVIOUS
<1>1. DOMAIN conn = Server /\ Up = {} /\ pc = "start"
  BY DEF Init, Up
<1>. QED
  BY <1>1 DEF BootInv, Accounted, StoreClosed, Serving

\* Steps of the start that end it close what there is.
LEMMA BootStepInv ==
  ASSUME StoreInv, BootInv, BootStep
  PROVE  BootInv'
<1>. USE BootAssumption DEF BootInv, StoreInv, StoreType, Accounted, StoreClosed,
         Serving, ClosedUp, Server, Up, Goto
<1>1. CASE OpenStore
  <2>1. pc = "start" /\ UNCHANGED <<world, conn, manager>>
    BY <1>1 DEF OpenStore
  <2>2. \/ pc' = "settings"
        \/ pc' = "failed" /\ opening'[Main] = "failed"
        \/ pc' = "start"
    <3>1. pc' = CASE opening'[Main] = "open" -> "settings"
                  [] opening'[Main] = "failed" -> "failed"
                  [] OTHER -> pc
      BY <1>1 DEF OpenStore
    <3>. QED
      BY <2>1, <3>1
  <2>. QED
    BY <2>1, <2>2
<1>2. CASE Configure
  <2>1. CASE world.settings = "shell"
    BY <1>2, <2>1 DEF Configure, Fail, Gone, Put
  <2>2. CASE world.settings # "shell"
    BY <1>2, <2>2 DEF Configure
  <2>. QED
    BY <2>1, <2>2
<1>3. ASSUME NEW i \in Server, Answers(i) \/ Refuses(i) \/ TimesOut(i) \/ CutOff(i)
      PROVE  BootInv'
  BY <1>3 DEF Answers, Refuses, TimesOut, CutOff, Dial
<1>4. CASE BudgetEnds
  BY <1>4 DEF BudgetEnds
<1>5. CASE ConnectAll
  <2>1. CASE "connect" \in spent
    <3>1. pc' = "failed" /\ world' = world /\ pc = "connect"
      BY <1>5, <2>1 DEF ConnectAll, Fail
    <3>2. conn' = ClosedAll(Up) /\ opening'[Main] = "closed"
      BY <1>5, <2>1 DEF ConnectAll, Fail, Gone, Put
    <3>3. DOMAIN conn' = Server' /\ Up' = {}
      BY <3>1, <3>2 DEF ClosedAll
    <3>. QED
      BY <3>1, <3>2, <3>3
  <2>2. CASE "connect" \notin spent
    BY <1>5, <2>2 DEF ConnectAll
  <2>. QED
    BY <2>1, <2>2
<1>6. CASE ListTools
  BY <1>6 DEF ListTools
<1>7. CASE Unlisted \/ ListEnds
  BY <1>7 DEF Unlisted, ListEnds, ListBudgetEnds
<1>8. CASE RegisterAll
  BY <1>8 DEF RegisterAll
<1>9. CASE RestrictTo
  <2>1. CASE pc' = "failed"
    BY <1>9, <2>1 DEF RestrictTo, Fail, Gone, Put
  <2>2. CASE pc' # "failed"
    <3>1. pc = "restrict" /\ pc' = "approval" /\ UNCHANGED <<world, conn, manager>>
      BY <1>9, <2>2 DEF RestrictTo, Fail
    <3>. QED
      BY <3>1
  <2>. QED
    BY <2>1, <2>2
<1>10. CASE SetApprovalConfig
  <2>1. CASE world.settings = "approval"
    BY <1>10, <2>1 DEF SetApprovalConfig, Fail, Gone, Put
  <2>2. CASE world.settings # "approval"
    BY <1>10, <2>2 DEF SetApprovalConfig
  <2>. QED
    BY <2>1, <2>2
<1>. QED
  BY <1>1, <1>2, <1>3, <1>4, <1>5, <1>6, <1>7, <1>8, <1>9, <1>10 DEF BootStep

\* So do the steps of a program that runs and stops; rivals have no part in it.
LEMMA BootNextInv == StoreInv /\ BootInv /\ [Next]_vars => BootInv'
<1>. SUFFICES ASSUME StoreInv, BootInv, [Next]_vars PROVE BootInv'
  OBVIOUS
<1>. USE BootAssumption DEF BootInv, StoreInv, StoreType, Accounted, StoreClosed,
         Serving, ClosedUp, Server, Up, Goto
<1>1. CASE BootStep
  BY <1>1, BootStepInv
<1>2. CASE Die
  BY <1>2 DEF Die, Gone, Put
<1>3. CASE Quit \/ CloseAgent
  BY <1>3 DEF Quit, CloseAgent
<1>4. ASSUME NEW i \in Server, CloseSession(i) PROVE BootInv'
  <2>1. pc = "sessions" /\ conn' = ClosedAll({i}) /\ UNCHANGED <<world, pc, manager>>
    BY <1>4 DEF CloseSession
  <2>2. DOMAIN conn' = Server' /\ Up' \subseteq Up
    BY <2>1 DEF ClosedAll
  <2>. QED
    BY <2>1, <2>2
<1>5. CASE CloseStore
  <2>1. Up = {} /\ pc' = "closed" /\ UNCHANGED <<world, conn>> /\ opening'[Main] = "closed"
    BY <1>5 DEF CloseStore, ToClose, Gone, Put
  <2>. QED
    BY <2>1
<1>6. CASE Rival
  <2>1. UNCHANGED bootVars
    BY <1>6 DEF Rival
  <2>2. opening'[Main] = opening[Main]
    BY <1>6 DEF Rival, OpenStep, Open, Begin, Busy, Commit, Rollback, Migrated, Gone, Put
  <2>. QED
    BY <2>1, <2>2 DEF bootVars
<1>7. CASE UNCHANGED vars
  BY <1>7 DEF vars, storeVars, bootVars
<1>. QED
  BY <1>1, <1>2, <1>3, <1>4, <1>5, <1>6, <1>7 DEF Next

\* Whatever the servers do and however many there are, and whatever rivals do to the
\* database: a program that has quit, or could not start for want of a database,
\* settings or servers, leaves no connection and no database open.
THEOREM NothingLeaksHolds == Spec => []NothingLeaks
<1>1. Init => BootInv
  BY BootInitInv
<1>2. StoreInv /\ BootInv => NothingLeaks
  BY BootAssumption DEF StoreInv, Exclusive, BootInv, Accounted, StoreClosed,
     ClosedUp, NothingLeaks
<1>. QED
  BY <1>1, <1>2, StoreInvHolds, BootNextInv, PTL DEF Spec
-----------------------------------------------------------------------------
(* Lists.                                                                   *)

\* Induction up to a number, on a set: were one of the numbers not in it, so would be
\* its predecessor, and the intervals up to such numbers are well-founded by inclusion.
LEMMA UpTo ==
  ASSUME NEW n \in Nat, NEW T, 0 \in T, \A k \in 0 .. (n - 1) : k \in T => k + 1 \in T
  PROVE  \A k \in 0 .. n : k \in T
<1>. SUFFICES ASSUME NEW m \in 0 .. n, m \notin T PROVE FALSE
  OBVIOUS
<1>. DEFINE D == {1 .. k : k \in {j \in 0 .. n : j \notin T}}
            R == StrictSubsetOrdering(Nat)
<1>1. D \subseteq FiniteSubsetsOf(Nat) /\ D # {}
  <2>1. \A k \in 0 .. n : IsFiniteSet(1 .. k) /\ 1 .. k \subseteq Nat
    BY FS_Interval
  <2>. QED
    BY <2>1 DEF FiniteSubsetsOf
<1>2. \E x \in D : \A y \in D : ~ (<<y, x>> \in R)
  <2>1. IsWellFoundedOn(R, FiniteSubsetsOf(Nat))
    BY FS_StrictSubsetOrderingWellFounded
  <2>. HIDE DEF D, R
  <2>. QED
    BY <1>1, <2>1, WFMin
<1>3. PICK k \in 0 .. n : k \notin T /\ \A j \in 0 .. n : j \notin T => ~ (<<1 .. j, 1 .. k>> \in R)
  BY <1>2
<1>4. k - 1 \in 0 .. (n - 1) /\ (k - 1) + 1 = k
  BY <1>3
<1>5. k - 1 \in 0 .. n /\ k - 1 \notin T
  BY <1>3, <1>4
<1>6. <<1 .. (k - 1), 1 .. k>> \in R
  <2>1. k \in 1 .. k /\ k \notin 1 .. (k - 1) /\ 1 .. (k - 1) \subseteq 1 .. k /\ 1 .. k \subseteq Nat
    BY <1>4
  <2>. QED
    BY <2>1 DEF StrictSubsetOrdering
<1>. QED
  BY <1>3, <1>5, <1>6

\* What two lists in a row hold, and a list with one name more.
LEMMA SetOfConcat ==
  ASSUME NEW S, NEW s \in Seq(S), NEW t \in Seq(S)
  PROVE  s \o t \in Seq(S) /\ ToSet(s \o t) = ToSet(s) \cup ToSet(t)
<1>1. \A x \in ToSet(s) : x \in ToSet(s \o t)
  BY DEF ToSet
<1>2. \A x \in ToSet(t) : x \in ToSet(s \o t)
  <2>. SUFFICES ASSUME NEW j \in 1 .. Len(t) PROVE t[j] \in ToSet(s \o t)
    BY DEF ToSet
  <2>1. Len(s) + j \in 1 .. Len(s \o t) /\ (s \o t)[Len(s) + j] = t[j]
    OBVIOUS
  <2>. QED
    BY <2>1 DEF ToSet
<1>3. \A x \in ToSet(s \o t) : x \in ToSet(s) \cup ToSet(t)
  BY DEF ToSet
<1>. QED
  BY <1>1, <1>2, <1>3

LEMMA SetOfAppend ==
  ASSUME NEW S, NEW s \in Seq(S), NEW e \in S
  PROVE  Append(s, e) \in Seq(S) /\ ToSet(Append(s, e)) = ToSet(s) \cup {e}
<1>. DEFINE t == <<e>>
<1>1. Append(s, e) = s \o t /\ t \in Seq(S)
  OBVIOUS
<1>2. ToSet(t) = {e}
  BY DEF ToSet
<1>. HIDE DEF t
<1>3. s \o t \in Seq(S) /\ ToSet(s \o t) = ToSet(s) \cup ToSet(t)
  BY <1>1, SetOfConcat
<1>. QED
  BY <1>1, <1>2, <1>3

\* A finite set has a list of its members.
LEMMA SetOfListed ==
  ASSUME NEW S, IsFiniteSet(S)
  PROVE  SetToSeq(S) \in Seq(S) /\ ToSet(SetToSeq(S)) = S
<1>. DEFINE n == Cardinality(S)
            s == SetToSeq(S)
<1>1. n \in Nat /\ \E f : f \in Bijection(1 .. n, S)
  BY FS_CardinalityType, FS_NatBijection DEF ExistsBijection
<1>2. \E f \in [1 .. n -> S] : IsInjective(f)
  BY <1>1 DEF Bijection, Injection, Surjection, IsInjective
<1>3. s \in [1 .. n -> S] /\ IsInjective(s)
  BY <1>2 DEF SetToSeq
<1>4. IsFiniteSet(1 .. n) /\ Cardinality(1 .. n) = n
  BY <1>1, FS_Interval
<1>5. s \in Surjection(1 .. n, S)
  <2>1. s \in Injection(1 .. n, S)
    BY <1>3 DEF Injection
  <2>. HIDE DEF s
  <2>. QED
    BY <1>4, <2>1, FS_Injection
<1>6. \A x \in S : \E i \in 1 .. n : s[i] = x
  BY <1>5 DEF Surjection
<1>. HIDE DEF n, s
<1>7. s \in Seq(S) /\ DOMAIN s = 1 .. n
  BY <1>1, <1>3
<1>8. ToSet(s) = S
  BY <1>3, <1>6, <1>7 DEF ToSet
<1>. QED
  BY <1>7, <1>8 DEF s

\* RestrictTo's loop keeps of the names advertised those allowed.
LEMMA SetOfKept ==
  ASSUME NEW allow, order \in Seq(ToolName)
  PROVE  Kept(allow) \in Seq(ToolName) /\ ToSet(Kept(allow)) = ToSet(order) \cap allow
<1>. DEFINE n == Len(order)
            Nth(g, k) == IF k = 0 THEN <<>>
                         ELSE IF order[k] \in allow THEN Append(g[k - 1], order[k]) ELSE g[k - 1]
            Through(m, g) == g = [k \in 0 .. m |-> Nth(g, k)]
            T == {m \in 0 .. n : \E g : Through(m, g)}
<1>1. n \in Nat /\ \A k \in 1 .. n : order[k] \in ToolName
  OBVIOUS
<1>2. 0 \in T
  <2>. DEFINE g == [k \in 0 .. 0 |-> <<>>]
  <2>1. Through(0, g)
    OBVIOUS
  <2>2. 0 \in 0 .. n
    BY <1>1
  <2>. HIDE DEF Through, g
  <2>. QED
    BY <2>1, <2>2
<1>3. ASSUME NEW m \in 0 .. (n - 1), m \in T PROVE m + 1 \in T
  <2>1. PICK g : Through(m, g)
    BY <1>3
  <2>0. \A k \in 0 .. m : g[k] = Nth(g, k)
    <3>. HIDE DEF Nth
    <3>. QED
      BY <2>1
  <2>. DEFINE h == [k \in 0 .. (m + 1) |-> IF k = m + 1 THEN Nth(g, m + 1) ELSE g[k]]
  <2>2. \A k \in 0 .. m : h[k] = g[k]
    BY <1>1
  <2>3. h[m + 1] = Nth(g, m + 1) /\ (m + 1) - 1 = m /\ m \in 0 .. m
    BY <1>1
  <2>4. h = [k \in 0 .. (m + 1) |-> h[k]]
    OBVIOUS
  <2>. HIDE DEF h
  <2>5. h[m + 1] = Nth(h, m + 1)
    BY <2>2, <2>3
  <2>6. ASSUME NEW k \in 0 .. m PROVE h[k] = Nth(h, k)
    <3>1. g[k] = Nth(g, k)
      BY <2>0
    <3>2. CASE k = 0
      BY <2>2, <3>1, <3>2
    <3>3. CASE k # 0
      <4>1. k - 1 \in 0 .. m
        BY <1>1, <3>3
      <4>. QED
        BY <2>2, <3>1, <3>3, <4>1
    <3>. QED
      BY <3>2, <3>3
  <2>7. \A k \in 0 .. (m + 1) : k \in 0 .. m \/ k = m + 1
    BY <1>1
  <2>8. Through(m + 1, h)
    <3>. HIDE DEF Nth
    <3>. QED
      BY <2>4, <2>5, <2>6, <2>7
  <2>9. m + 1 \in 0 .. n
    BY <1>1
  <2>. HIDE DEF Through
  <2>. QED
    BY <2>8, <2>9
<1>4. n \in T
  <2>. HIDE DEF T
  <2>1. \A k \in 0 .. n : k \in T
    BY <1>1, <1>2, <1>3, UpTo
  <2>. QED
    BY <1>1, <2>1
<1>. DEFINE kept == CHOOSE g : Through(n, g)
<1>5. Through(n, kept) /\ Kept(allow) = kept[n]
  <2>1. Through(n, kept)
    <3>. HIDE DEF Through
    <3>. QED
      BY <1>4
  <2>2. Kept(allow) = kept[n]
    BY DEF Kept
  <2>. QED
    BY <2>1, <2>2
<1>. HIDE DEF kept
<1>6. \A k \in 0 .. n : kept[k] = Nth(kept, k)
  <2>. HIDE DEF Nth
  <2>. QED
    BY <1>5
<1>. DEFINE Some(m) == {order[k] : k \in 1 .. m}
            U == {m \in 0 .. n : kept[m] \in Seq(ToolName) /\ ToSet(kept[m]) = Some(m) \cap allow}
<1>7. 0 \in U
  <2>1. kept[0] = <<>>
    BY <1>1, <1>6
  <2>2. ToSet(<<>>) = {} /\ Some(0) = {}
    BY DEF ToSet
  <2>3. 0 \in 0 .. n /\ kept[0] \in Seq(ToolName)
    BY <1>1, <2>1
  <2>. HIDE DEF Some
  <2>. QED
    BY <2>1, <2>2, <2>3
<1>8. ASSUME NEW m \in 0 .. (n - 1), m \in U PROVE m + 1 \in U
  <2>1. m + 1 \in 1 .. n /\ m + 1 # 0 /\ (m + 1) - 1 = m
    BY <1>1
  <2>2. kept[m + 1] = IF order[m + 1] \in allow THEN Append(kept[m], order[m + 1]) ELSE kept[m]
    <3>1. m + 1 \in 0 .. n
      BY <2>1
    <3>2. kept[m + 1] = Nth(kept, m + 1)
      <4>. HIDE DEF Nth
      <4>. QED
        BY <1>6, <3>1
    <3>. QED
      BY <2>1, <3>2
  <2>3. Some(m + 1) = Some(m) \cup {order[m + 1]}
    <3>1. 1 .. (m + 1) = 1 .. m \cup {m + 1}
      BY <1>1
    <3>. QED
      BY <3>1
  <2>4. kept[m] \in Seq(ToolName) /\ ToSet(kept[m]) = Some(m) \cap allow
    BY <1>8
  <2>5. kept[m + 1] \in Seq(ToolName) /\ ToSet(kept[m + 1]) = Some(m + 1) \cap allow
    <3>. HIDE DEF Some
    <3>1. CASE order[m + 1] \in allow
      <4>1. /\ Append(kept[m], order[m + 1]) \in Seq(ToolName)
            /\ ToSet(Append(kept[m], order[m + 1])) = ToSet(kept[m]) \cup {order[m + 1]}
        BY <1>1, <2>1, <2>4, SetOfAppend
      <4>. QED
        BY <2>2, <2>3, <2>4, <3>1, <4>1
    <3>2. CASE order[m + 1] \notin allow
      BY <2>2, <2>3, <2>4, <3>2
    <3>. QED
      BY <3>1, <3>2
  <2>. QED
    BY <2>1, <2>5
<1>9. n \in U
  <2>. HIDE DEF U
  <2>1. \A k \in 0 .. n : k \in U
    BY <1>1, <1>7, <1>8, UpTo
  <2>. QED
    BY <1>1, <2>1
<1>10. Some(n) = ToSet(order)
  BY DEF ToSet
<1>. QED
  BY <1>5, <1>9, <1>10

-----------------------------------------------------------------------------
(* The tools that are advertised are served.                                *)

\* The names advertised are always those that are registered.
Advertised == order \in Seq(ToolName) /\ ToSet(order) = DOMAIN tools

\* Servers are listed one after the other.
Listing == listing \in Nat \ {0} /\ (pc \in {"start", "settings", "connect"} => listing = 1)

\* Until servers are connected there are only built-in tools; from then on until the
\* program stops a tool has a connected server of the Manager behind it.
Backed ==
  /\ pc \in {"start", "settings", "connect"} => \A n \in DOMAIN tools : tools[n] = 0
  /\ pc \in {"list", "restrict", "approval", "running"} =>
       \A n \in DOMAIN tools : tools[n] = 0 \/ tools[n] \in Up \cap manager

\* As long as there is time, those of each connected server passed are there.
Registers(i) == ToSet(world.offers[i]) \subseteq DOMAIN tools
Complete ==
  "list" \notin spent =>
    /\ pc = "list" => \A i \in Up : i < listing => Registers(i)
    /\ pc \in {"restrict", "approval", "running"} /\ (pc = "restrict" \/ world.allow = {"any"}) =>
         \A i \in Up : Registers(i)

ToolsInv == world \in Worlds /\ Advertised /\ Listing /\ Backed /\ Complete

LEMMA ToolsInitInv == Init => ToolsInv
<1>. SUFFICES ASSUME Init PROVE ToolsInv
  OBVIOUS
<1>1. Advertised
  <2>1. /\ SetToSeq(BuiltIn) \in Seq(BuiltIn) /\ ToSet(SetToSeq(BuiltIn)) = BuiltIn
        /\ BuiltIn \subseteq ToolName
    BY ToolsAssumption, SetOfListed
  <2>2. order = SetToSeq(BuiltIn) /\ DOMAIN tools = BuiltIn
    BY DEF Init
  <2>. QED
    BY <2>1, <2>2 DEF Advertised
<1>2. /\ world \in Worlds /\ pc = "start" /\ listing = 1
      /\ \A n \in DOMAIN tools : tools[n] = 0
  BY DEF Init
<1>. QED
  BY <1>1, <1>2 DEF ToolsInv, Listing, Backed, Complete

\* Steps that touch neither the tools nor a connection there is.
LEMMA ToolsKept ==
  ASSUME ToolsInv, UNCHANGED <<world, tools, order, listing, manager>>,
         \/ spent' = spent \/ "list" \in spent',
         \/ UNCHANGED <<pc, conn>>
         \/ UNCHANGED conn /\ pc = "restrict" /\ pc' = "approval" /\ world.allow = {"any"}
         \/ UNCHANGED conn /\ pc = "approval" /\ pc' = "running"
         \/ pc \in {"start", "settings", "connect"} /\ pc' \in {"start", "settings", "connect"}
         \/ pc' \in {"failed", "closed", "agent", "sessions"}
  PROVE  ToolsInv'
<1>. USE DEF ToolsInv
<1>1. Advertised' /\ Listing'
  BY DEF Advertised, Listing
<1>2. Backed'
  BY DEF Backed, Up, Server
<1>3. Complete'
  BY DEF Complete, Registers, Up, Server
<1>. QED
  BY <1>1, <1>2, <1>3

\* The servers come first, and their tools after them.
LEMMA ToolsConnected == ToolsInv /\ BootInv /\ ConnectAll => ToolsInv'
<1>. SUFFICES ASSUME ToolsInv, BootInv, ConnectAll PROVE ToolsInv'
  OBVIOUS
<1>1. pc = "connect" /\ UNCHANGED <<world, spent, listing, unlisted, tools, order>>
  BY DEF ConnectAll, Fail, Goto
<1>2. world \in Worlds /\ Advertised' /\ Listing'
  BY <1>1 DEF ToolsInv, Advertised, Listing
<1>3. pc' = "failed" \/ (pc' = "list" /\ listing = 1)
  BY <1>1 DEF ConnectAll, Fail, Goto, ToolsInv, Listing
<1>4. Backed'
  BY <1>1, <1>3 DEF ToolsInv, Backed
<1>5. Complete'
  <2>1. Up' \subseteq 1 .. Len(world.kind)
    BY <1>1, <1>2, ToolsAssumption DEF Up, Server
  <2>. QED
    BY <1>1, <1>3, <2>1 DEF Complete
<1>. QED
  BY <1>1, <1>2, <1>4, <1>5 DEF ToolsInv

\* The tools of one server more.
LEMMA ToolsListed == ToolsInv /\ BootInv /\ ListTools => ToolsInv'
<1>. SUFFICES ASSUME ToolsInv, BootInv, ListTools PROVE ToolsInv'
  OBVIOUS
<1>1. /\ pc = "list" /\ pc' = pc /\ listing \in Server /\ listing' = listing + 1
      /\ UNCHANGED <<world, conn, spent, manager>>
  BY DEF ListTools
<1>2. /\ world \in Worlds /\ order \in Seq(ToolName) /\ ToSet(order) = DOMAIN tools
      /\ listing \in Nat \ {0} /\ Up \subseteq manager
      /\ world.offers[listing] \in Seq(ToolName) /\ Server = 1 .. Len(world.kind)
  BY <1>1, ToolsAssumption DEF ToolsInv, Advertised, Listing, BootInv, Accounted, Serving, Server
<1>3. Up' = Up
  BY <1>1 DEF Up, Server
<1>4. CASE listing \in Up
  <2>1. tools' = Registered(tools, listing) /\ order' = order \o world.offers[listing]
    BY <1>4 DEF ListTools
  <2>2. DOMAIN tools' = DOMAIN tools \cup ToSet(world.offers[listing])
    BY <2>1 DEF Registered
  <2>3. Advertised'
    BY <1>2, <2>1, <2>2, SetOfConcat DEF Advertised
  <2>4. \A n \in DOMAIN tools' : tools'[n] = listing \/ (n \in DOMAIN tools /\ tools'[n] = tools[n])
    BY <2>1 DEF Registered
  <2>5. Backed'
    BY <1>1, <1>2, <1>3, <1>4, <2>4 DEF ToolsInv, Backed
  <2>6. Complete'
    <3>. SUFFICES ASSUME "list" \notin spent, NEW i \in Up, i < listing + 1 PROVE Registers(i)'
      BY <1>1, <1>3 DEF Complete
    <3>1. i < listing \/ i = listing
      <4>1. i \in Nat
        BY <1>2 DEF Up
      <4>. QED
        BY <1>2, <4>1
    <3>. QED
      BY <1>1, <2>2, <3>1 DEF ToolsInv, Complete, Registers
  <2>. QED
    BY <1>1, <1>2, <2>3, <2>5, <2>6 DEF ToolsInv, Listing
<1>5. CASE listing \notin Up
  <2>1. UNCHANGED <<tools, order>>
    BY <1>5 DEF ListTools
  <2>2. Advertised' /\ Backed'
    BY <1>1, <1>3, <2>1 DEF ToolsInv, Advertised, Backed
  <2>3. Complete'
    <3>. SUFFICES ASSUME "list" \notin spent, NEW i \in Up, i < listing + 1 PROVE Registers(i)'
      BY <1>1, <1>3 DEF Complete
    <3>1. i < listing
      <4>1. i \in Nat /\ i # listing
        BY <1>2, <1>5 DEF Up
      <4>. QED
        BY <1>2, <4>1
    <3>. QED
      BY <1>1, <2>1, <3>1 DEF ToolsInv, Complete, Registers
  <2>. QED
    BY <1>1, <1>2, <2>2, <2>3 DEF ToolsInv, Listing
<1>. QED
  BY <1>4, <1>5

\* When all have been passed, those of all are there.
LEMMA ToolsAll == ToolsInv /\ RegisterAll => ToolsInv'
<1>. SUFFICES ASSUME ToolsInv, RegisterAll PROVE ToolsInv'
  OBVIOUS
<1>1. /\ pc = "list" /\ pc' = "restrict" /\ listing \notin Server
      /\ UNCHANGED <<world, conn, spent, listing, manager, tools, order>>
  BY DEF RegisterAll, Goto
<1>2. world \in Worlds /\ listing \in Nat \ {0} /\ Server = 1 .. Len(world.kind)
  BY ToolsAssumption DEF ToolsInv, Listing, Server
<1>3. \A i \in Up : i < listing
  <2>1. Len(world.kind) \in Nat
    BY <1>2, ToolsAssumption
  <2>. QED
    BY <1>1, <1>2, <2>1 DEF Up
<1>4. Up' = Up
  BY <1>1 DEF Up, Server
<1>5. Advertised' /\ Listing' /\ Backed'
  BY <1>1, <1>4 DEF ToolsInv, Advertised, Listing, Backed
<1>6. Complete'
  BY <1>1, <1>3, <1>4 DEF ToolsInv, Complete, Registers
<1>. QED
  BY <1>1, <1>5, <1>6 DEF ToolsInv

\* An allowlist keeps names and tools alike.
LEMMA ToolsRestricted == ToolsInv /\ RestrictTo => ToolsInv'
<1>. SUFFICES ASSUME ToolsInv, RestrictTo PROVE ToolsInv'
  OBVIOUS
<1>. DEFINE allow == world.allow
<1>1. pc = "restrict" /\ UNCHANGED <<world, conn, spent, listing, manager>>
  BY DEF RestrictTo, Goto, Fail
<1>2. CASE allow = {"any"} \/ ~ (allow \subseteq DOMAIN tools)
  <2>1. UNCHANGED <<tools, order>> /\ (pc' = "failed" \/ (pc' = "approval" /\ allow = {"any"}))
    BY <1>2 DEF RestrictTo, Goto, Fail
  <2>. QED
    BY <1>1, <2>1, ToolsKept
<1>3. CASE allow # {"any"} /\ allow \subseteq DOMAIN tools
  <2>1. pc' = "approval" /\ tools' = [n \in allow |-> tools[n]] /\ order' = Kept(allow)
    BY <1>3 DEF RestrictTo, Goto
  <2>2. order \in Seq(ToolName) /\ ToSet(order) = DOMAIN tools /\ world \in Worlds
    BY DEF ToolsInv, Advertised
  <2>3. Kept(allow) \in Seq(ToolName) /\ ToSet(Kept(allow)) = ToSet(order) \cap allow
    BY <2>2, SetOfKept
  <2>4. Advertised'
    BY <1>3, <2>1, <2>2, <2>3 DEF Advertised
  <2>5. Listing' /\ Complete'
    BY <1>1, <1>3, <2>1 DEF ToolsInv, Listing, Complete
  <2>6. Up' = Up
    BY <1>1 DEF Up, Server
  <2>7. Backed'
    BY <1>1, <1>3, <2>1, <2>6 DEF ToolsInv, Backed
  <2>. QED
    BY <1>1, <2>2, <2>4, <2>5, <2>7 DEF ToolsInv
<1>. QED
  BY <1>2, <1>3

LEMMA ToolsNextInv == ToolsInv /\ BootInv /\ [Next]_vars => ToolsInv'
<1>. SUFFICES ASSUME ToolsInv, BootInv, [Next]_vars PROVE ToolsInv'
  OBVIOUS
<1>. USE DEF Goto, Fail
<1>1. CASE OpenStore
  <2>1. pc = "start" /\ UNCHANGED <<world, conn, spent, listing, manager, tools, order>>
    BY <1>1 DEF OpenStore
  <2>2. pc' \in {"settings", "failed", "start"}
    <3>1. pc' = CASE opening'[Main] = "open" -> "settings"
                  [] opening'[Main] = "failed" -> "failed"
                  [] OTHER -> pc
      BY <1>1 DEF OpenStore
    <3>. QED
      BY <2>1, <3>1
  <2>. QED
    BY <2>1, <2>2, ToolsKept
<1>2. CASE Configure
  <2>1. pc = "settings" /\ UNCHANGED <<world, spent, listing, manager, tools, order>>
    BY <1>2 DEF Configure
  <2>2. CASE pc' \in {"failed", "connect"}
    BY <2>1, <2>2, ToolsKept
  <2>3. CASE pc' \notin {"failed", "connect"}
    <3>1. pc' = "restrict" /\ Server = {}
      BY <1>2, <2>3 DEF Configure
    <3>2. Up' = {} /\ Up = {}
      BY <2>1, <3>1 DEF Up, Server
    <3>3. Advertised' /\ Listing' /\ Backed' /\ Complete'
      BY <2>1, <3>1, <3>2 DEF ToolsInv, Advertised, Listing, Backed, Complete
    <3>. QED
      BY <2>1, <3>3 DEF ToolsInv
  <2>. QED
    BY <2>2, <2>3
<1>3. ASSUME NEW i \in Server, Answers(i) \/ Refuses(i) \/ TimesOut(i) \/ CutOff(i)
      PROVE  ToolsInv'
  BY <1>3, ToolsKept DEF Answers, Refuses, TimesOut, CutOff, Dial
<1>4. CASE BudgetEnds
  <2>1. pc = "connect" /\ pc' = pc /\ UNCHANGED <<world, conn, listing, manager, tools, order>>
    BY <1>4 DEF BudgetEnds
  <2>2. "list" \in spent' <=> "list" \in spent
    BY <1>4 DEF BudgetEnds
  <2>. QED
    BY <2>1, <2>2 DEF ToolsInv, Advertised, Listing, Backed, Complete, Up, Server
<1>5. CASE ConnectAll
  BY <1>5, ToolsConnected
<1>6. CASE ListTools
  BY <1>6, ToolsListed
<1>7. CASE Unlisted
  <2>1. /\ pc = "list" /\ pc' = pc /\ listing' = listing + 1 /\ "list" \in spent
        /\ UNCHANGED <<world, conn, spent, manager, tools, order>>
    BY <1>7 DEF Unlisted
  <2>2. Up' = Up
    BY <2>1 DEF Up, Server
  <2>. QED
    BY <2>1, <2>2 DEF ToolsInv, Advertised, Listing, Backed, Complete
<1>8. CASE ListEnds
  BY <1>8, ToolsKept DEF ListEnds, ListBudgetEnds
<1>9. CASE RegisterAll
  BY <1>9, ToolsAll
<1>10. CASE RestrictTo
  BY <1>10, ToolsRestricted
<1>11. CASE SetApprovalConfig
  BY <1>11, ToolsKept DEF SetApprovalConfig
<1>12. CASE Die
  BY <1>12, ToolsKept DEF Die
<1>13. CASE Quit
  BY <1>13, ToolsKept DEF Quit
<1>14. CASE CloseAgent
  BY <1>14, ToolsKept DEF CloseAgent
<1>15. ASSUME NEW i \in Server, CloseSession(i) PROVE ToolsInv'
  BY <1>15, ToolsKept DEF CloseSession
<1>16. CASE CloseStore
  <2>1. pc' = "closed" /\ UNCHANGED <<world, listing, tools, order>>
    BY <1>16 DEF CloseStore
  <2>. QED
    BY <2>1 DEF ToolsInv, Advertised, Listing, Backed, Complete
<1>17. CASE Rival
  BY <1>17, ToolsKept DEF Rival, bootVars
<1>18. CASE UNCHANGED vars
  BY <1>18, ToolsKept DEF vars, bootVars
<1>. QED
  BY <1>1, <1>2, <1>3, <1>4, <1>5, <1>6, <1>7, <1>8, <1>9, <1>10, <1>11, <1>12, <1>13,
     <1>14, <1>15, <1>16, <1>17, <1>18 DEF Next, BootStep

\* However many servers there are, and however they fail, time out or stay mute: a program
\* that runs advertises the tools it can call, each with a live connection behind it, and,
\* unless the time ran out or --tools says so, those of every server that connected.
THEOREM ToolsServedHolds == Spec => []ToolsServed
<1>1. Init => BootInv /\ ToolsInv
  BY BootInitInv, ToolsInitInv
<1>2. ToolsInv => ToolsServed
  BY DEF ToolsInv, Advertised, Backed, Complete, Registers, ToolsServed
<1>. QED
  BY <1>1, <1>2, StoreInvHolds, BootNextInv, ToolsNextInv, PTL DEF Spec

-----------------------------------------------------------------------------
(* The task lists.                                                          *)

Item == [id : Int, position : Nat \ {0}, status : TodoStatus, created : Nat,
         given : {"store", "caller"}]
List == [revision : Nat \ {0}, next : 1 .. MaxId, items : SUBSET Item]
View == [revision : Nat \ {0}, thread : Thread, life : Nat, items : SUBSET Item]

PlanType ==
  /\ threads \in [Thread -> {"unborn", "live", "deleted"}]
  /\ plan \in [Thread -> List \cup {NoPlan}]
  /\ life \in [Thread -> Nat] /\ ever \in [Thread -> SUBSET Int]
  /\ seen \in [Watched -> View \cup {NoPlan}]

Positions(S) == {i.position : i \in S}
Dense(S) == \E n \in Nat : Positions(S) = 1 .. n

\* A list stands in a live thread, in order, and the number to go on from is above all
\* identifiers the list ever had.
ListOK(t) ==
  LET p == plan[t] IN
  /\ threads[t] = "live" /\ Admits(p.items) /\ Dense(p.items)
  /\ \A i \in p.items : i.created <= p.revision
  /\ Ids(p.items) \subseteq ever[t] /\ \A id \in ever[t] : id < p.next
ListsOK == \A t \in Thread : HasPlan(t) => ListOK(t)

\* Without a list nothing is remembered of one, unless the thread is gone.
NothingLeft ==
  \A t \in Thread : ~HasPlan(t) /\ threads[t] # "deleted" => ever[t] = {}

\* A view is of a list that was there.
ViewsPast ==
  \A a \in Watched : seen[a] # NoPlan =>
    threads[seen[a].thread] # "unborn" /\ seen[a].life <= life[seen[a].thread]

PlanInv == PlanType /\ ListsOK /\ NothingLeft /\ ViewsPast /\ SnapshotsAgree

-----------------------------------------------------------------------------
(* Sets of numbers.                                                         *)

\* A nonempty set of natural numbers has a least element: of the intervals up to its
\* members, ordered by inclusion, one is minimal.
LEMMA LeastExists ==
  ASSUME NEW S, S \subseteq Nat, S # {}
  PROVE  \E m \in S : \A k \in S : m <= k
<1>. DEFINE D == {1 .. m : m \in S}
            R == StrictSubsetOrdering(Nat)
<1>1. D \subseteq FiniteSubsetsOf(Nat) /\ D # {}
  <2>1. \A m \in S : IsFiniteSet(1 .. m) /\ 1 .. m \subseteq Nat
    BY FS_Interval
  <2>. QED
    BY <2>1 DEF FiniteSubsetsOf
<1>2. \E x \in D : \A y \in D : ~ (<<y, x>> \in R)
  <2>1. IsWellFoundedOn(R, FiniteSubsetsOf(Nat))
    BY FS_StrictSubsetOrderingWellFounded
  <2>. HIDE DEF D, R
  <2>. QED
    BY <1>1, <2>1, WFMin
<1>3. PICK m \in S : \A k \in S : ~ (<<1 .. k, 1 .. m>> \in R)
  BY <1>2
<1>4. \A k \in S : k < m => <<1 .. k, 1 .. m>> \in R
  <2>. SUFFICES ASSUME NEW k \in S, k < m PROVE <<1 .. k, 1 .. m>> \in R
    OBVIOUS
  <2>1. m \in 1 .. m /\ m \notin 1 .. k /\ 1 .. k \subseteq 1 .. m /\ 1 .. m \subseteq Nat
    OBVIOUS
  <2>. QED
    BY <2>1 DEF StrictSubsetOrdering
<1>5. \A k \in S : k \in Int
  OBVIOUS
<1>. HIDE DEF D, R
<1>6. \A k \in S : ~ (k < m)
  BY <1>3, <1>4
<1>7. m \in Int
  BY <1>5
<1>8. \A k \in S : m <= k
  BY <1>5, <1>6, <1>7
<1>. QED
  BY <1>8

\* The greatest member is the least upper bound.
LEMMA MaxProperties ==
  ASSUME NEW n \in Nat, NEW S, S \subseteq 1 .. n, S # {}
  PROVE  Max(S) \in S /\ \A y \in S : Max(S) >= y
<1>. DEFINE U == {m \in Nat : \A y \in S : y <= m}
<1>1. n \in U
  OBVIOUS
<1>2. PICK m \in U : \A k \in U : m <= k
  <2>. HIDE DEF U
  <2>1. U \subseteq Nat
    BY DEF U
  <2>. QED
    BY <1>1, <2>1, LeastExists
<1>3. m \in S
  <2>1. SUFFICES ASSUME m \notin S PROVE FALSE
    OBVIOUS
  <2>2. PICK z \in S : z \in 1 .. n /\ z <= m
    OBVIOUS
  <2>3. \A y \in S : y <= m - 1
    BY <2>1
  <2>4. m - 1 \in U
    <3>1. m - 1 \in Nat
      BY <2>2
    <3>. QED
      BY <3>1, <2>3
  <2>. QED
    BY <2>4, <1>2
<1>4. m \in S /\ \A y \in S : m >= y
  BY <1>3
<1>. QED
  BY <1>4 DEF Max

Rank(S, pos, i) == Cardinality({j \in S : pos[j] <= pos[i]})

\* Of a finite set whose members are counted off by distinct positions, there is one with
\* just n members up to it, for each n up to the size of the set.
LEMMA RankExists ==
  ASSUME NEW S, IsFiniteSet(S), NEW M \in Nat, NEW pos \in [S -> 1 .. M],
         \A i, j \in S : pos[i] = pos[j] => i = j,
         NEW n \in 1 .. Cardinality(S)
  PROVE  \E i \in S : Rank(S, pos, i) = n
<1>. DEFINE Upto(m) == {j \in S : pos[j] <= m}
            T == {m \in Nat : Cardinality(Upto(m)) >= n}
<1>1. \A m \in Nat : IsFiniteSet(Upto(m)) /\ Cardinality(Upto(m)) \in Nat
  BY FS_Subset, FS_CardinalityType
<1>2. M \in T
  <2>1. Upto(M) = S
    OBVIOUS
  <2>. QED
    BY <2>1
<1>3. PICK m \in T : \A k \in T : m <= k
  <2>1. T \subseteq Nat /\ T # {}
    BY <1>2
  <2>. HIDE DEF T
  <2>. QED
    BY <2>1, LeastExists
<1>4. m \in Nat /\ m # 0
  <2>1. Upto(0) = {}
    OBVIOUS
  <2>2. Cardinality(Upto(0)) = 0
    BY <2>1, FS_EmptySet
  <2>. QED
    BY <2>2
<1>5. Cardinality(Upto(m - 1)) < n
  <2>1. m - 1 \in Nat /\ m - 1 \notin T
    BY <1>3, <1>4
  <2>2. Cardinality(Upto(m - 1)) \in Nat
    BY <1>1, <2>1
  <2>. QED
    BY <2>1, <2>2
<1>6. \E i \in S : pos[i] = m
  <2>1. SUFFICES ASSUME \A i \in S : pos[i] # m PROVE FALSE
    OBVIOUS
  <2>2. Upto(m) = Upto(m - 1)
    BY <1>4, <2>1
  <2>3. Cardinality(Upto(m)) >= n
    OBVIOUS
  <2>4. Cardinality(Upto(m)) \in Nat
    BY <1>1, <1>4
  <2>. HIDE DEF Upto, T
  <2>. QED
    BY <1>5, <2>2, <2>3, <2>4
<1>7. PICK i \in S : pos[i] = m
  BY <1>6
<1>8. Upto(m) = Upto(m - 1) \cup {i} /\ i \notin Upto(m - 1)
  BY <1>4, <1>7
<1>9. Cardinality(Upto(m)) = Cardinality(Upto(m - 1)) + 1
  <2>1. m - 1 \in Nat
    BY <1>4
  <2>. HIDE DEF Upto
  <2>. QED
    BY <1>1, <1>8, <2>1, FS_AddElement
<1>10. Cardinality(Upto(m)) = n
  <2>1. m - 1 \in Nat /\ Cardinality(Upto(m)) >= n
    BY <1>4
  <2>. HIDE DEF Upto, T
  <2>. QED
    BY <1>1, <1>4, <1>5, <1>9, <2>1
<1>. QED
  BY <1>7, <1>10 DEF Rank

\* A set whose members have the positions 1 to n, each one, has n members.
LEMMA DenseCount ==
  ASSUME NEW S, NEW n \in Nat, Positions(S) = 1 .. n,
         \A i, j \in S : i.position = j.position => i = j
  PROVE  IsFiniteSet(S) /\ Cardinality(S) = n
<1>. DEFINE f == [k \in 1 .. n |-> CHOOSE i \in S : i.position = k]
<1>1. \A k \in 1 .. n : \E i \in S : i.position = k
  BY DEF Positions
<1>2. \A k \in 1 .. n : f[k] \in S /\ f[k].position = k
  BY <1>1
<1>3. \A i \in S : i.position \in 1 .. n
  BY DEF Positions
<1>4. f \in Bijection(1 .. n, S)
  <2>1. f \in [1 .. n -> S]
    BY <1>2
  <2>2. \A k, m \in 1 .. n : f[k] = f[m] => k = m
    BY <1>2
  <2>3. \A i \in S : \E k \in 1 .. n : f[k] = i
    BY <1>2, <1>3
  <2>. HIDE DEF f
  <2>4. f \in Injection(1 .. n, S)
    BY <2>1, <2>2 DEF Injection, IsInjective
  <2>5. f \in Surjection(1 .. n, S)
    BY <2>1, <2>3 DEF Surjection
  <2>. QED
    BY <2>4, <2>5 DEF Bijection
<1>5. ExistsBijection(1 .. n, S)
  BY <1>4 DEF ExistsBijection
<1>6. IsFiniteSet(1 .. n) /\ Cardinality(1 .. n) = n
  BY FS_Interval
<1>. QED
  BY <1>5, <1>6, FS_Bijection

\* Up to a member of a finite set there are one and at most all of its members.
LEMMA RankBounds ==
  ASSUME NEW S, IsFiniteSet(S), NEW T, T \subseteq S, T # {}
  PROVE  Cardinality(T) \in 1 .. Cardinality(S)
<1>1. IsFiniteSet(T) /\ Cardinality(T) <= Cardinality(S) /\ Cardinality(S) \in Nat
  BY FS_Subset, FS_CardinalityType
<1>2. Cardinality(T) \in Nat /\ Cardinality(T) # 0
  BY <1>1, FS_CardinalityType, FS_EmptySet
<1>. QED
  BY <1>1, <1>2

-----------------------------------------------------------------------------
(* Identifiers.                                                             *)

LEMMA FreeFinite ==
  ASSUME NEW first \in 1 .. MaxId, NEW used
  PROVE  IsFiniteSet(Free(first, used)) /\ Cardinality(Free(first, used)) \in Nat
<1>1. IsFiniteSet(first .. (MaxId - 1)) /\ Free(first, used) \subseteq first .. (MaxId - 1)
  BY TodoAssumption, FS_Interval DEF Free
<1>. QED
  BY <1>1, FS_Subset, FS_CardinalityType

\* While there are free numbers, the store gives out one of them.
LEMMA AllocatedFree ==
  ASSUME NEW first \in 1 .. MaxId, NEW used, NEW n \in 1 .. Cardinality(Free(first, used))
  PROVE  Allocated(first, used, n) \in Free(first, used)
<1>. DEFINE S == Free(first, used)
            pos == [j \in S |-> j]
<1>1. IsFiniteSet(S)
  BY FreeFinite
<1>2. pos \in [S -> 1 .. MaxId] /\ \A j \in S : pos[j] = j
  BY TodoAssumption DEF Free
<1>3. n \in 1 .. Cardinality(S) /\ MaxId \in Nat
  BY TodoAssumption
<1>. HIDE DEF pos, S
<1>4. \A i, j \in S : pos[i] = pos[j] => i = j
  BY <1>2
<1>5. \E i \in S : Rank(S, pos, i) = n
  BY <1>1, <1>2, <1>3, <1>4, RankExists
<1>6. \A i \in S : {j \in S : pos[j] <= pos[i]} = {j \in S : j <= i}
  BY <1>2
<1>7. \E i \in S : Cardinality({j \in S : j <= i}) = n
  BY <1>5, <1>6 DEF Rank
<1>. QED
  BY <1>7 DEF Allocated, S

LEMMA AllocatedAbove ==
  ASSUME NEW first \in 1 .. MaxId, NEW used, NEW n \in 1 .. Cardinality(Free(first, used))
  PROVE  /\ Allocated(first, used, n) \in Int
         /\ first <= Allocated(first, used, n) /\ Allocated(first, used, n) < MaxId
BY AllocatedFree, TodoAssumption DEF Free

\* The number to go on from stays in range and is above the identifiers of the list.
LEMMA AfterAbove ==
  ASSUME NEW first \in 1 .. MaxId, NEW S, \A id \in S : id \in Int /\ id < MaxId
  PROVE  /\ After(first, S) \in 1 .. MaxId /\ first <= After(first, S)
         /\ \A id \in S : id < After(first, S)
<1>. DEFINE T == {first} \cup {id + 1 : id \in {i \in S : i > 0}}
<1>1. T \subseteq 1 .. MaxId /\ first \in T
  BY TodoAssumption
<1>2. Max(T) \in T /\ \A y \in T : Max(T) >= y
  <2>. HIDE DEF T
  <2>. QED
    BY <1>1, MaxProperties, TodoAssumption
<1>3. \A id \in S : id > 0 => id + 1 \in T
  OBVIOUS
<1>. HIDE DEF T
<1>4. Max(T) \in 1 .. MaxId /\ first <= Max(T)
  BY <1>1, <1>2
<1>5. \A id \in S : id < Max(T)
  <2>. SUFFICES ASSUME NEW id \in S PROVE id < Max(T)
    OBVIOUS
  <2>1. CASE id > 0
    <3>1. id + 1 <= Max(T)
      BY <1>2, <1>3, <2>1
    <3>. QED
      BY <1>4, <3>1
  <2>2. CASE ~ (id > 0)
    BY <1>4, <2>2
  <2>. QED
    BY <2>1, <2>2
<1>. QED
  BY <1>4, <1>5 DEF After, T

-----------------------------------------------------------------------------
(* Writes.                                                                  *)

\* What every write of a list into t sees to: it makes the next revision of a list in
\* order, above all its identifiers, and names what is new by numbers not given out yet.
WellMade(t, p) ==
  /\ threads[t] = "live" /\ p \in List /\ p.revision = Revision(t)
  /\ Dense(p.items) /\ Next0(t) <= p.next
  /\ \A i \in p.items : i.created <= p.revision /\ i.id < p.next
  /\ \A i \in p.items : i.given = "store" /\ i.created = p.revision => Next0(t) <= i.id

LEMMA ListType ==
  ASSUME PlanType, NEW t \in Thread
  PROVE  /\ plan[t] = NoPlan => ~HasPlan(t) /\ plan[t].revision = 0 /\ PlanItems(t) = {} /\ Next0(t) = 1
         /\ HasPlan(t) => plan[t] \in List /\ PlanItems(t) = plan[t].items /\ Next0(t) = plan[t].next
         /\ HasPlan(t) <=> plan[t] # NoPlan
         /\ plan[t].revision \in Nat /\ Revision(t) \in Nat \ {0} /\ Next0(t) \in 1 .. MaxId
         /\ PlanItems(t) \subseteq Item
<1>1. plan[t] \in List \cup {NoPlan}
  BY DEF PlanType
<1>2. NoPlan.revision = 0
  BY DEF NoPlan
<1>3. 1 \in 1 .. MaxId
  BY TodoAssumption
<1>4. CASE HasPlan(t)
  <2>1. plan[t] \in List /\ plan[t] # NoPlan
    BY <1>1, <1>4 DEF HasPlan
  <2>2. plan[t].revision \in Nat \ {0} /\ plan[t].next \in 1 .. MaxId /\ plan[t].items \subseteq Item
    BY <2>1 DEF List
  <2>. QED
    BY <1>4, <2>1, <2>2 DEF PlanItems, Next0, Revision
<1>5. CASE ~ HasPlan(t)
  <2>1. plan[t] = NoPlan
    BY <1>5 DEF HasPlan
  <2>. QED
    BY <1>2, <1>3, <1>5, <2>1 DEF PlanItems, Next0, Revision
<1>. QED
  BY <1>4, <1>5

LEMMA ListNotNone == \A p \in List : p # NoPlan
BY DEF List, NoPlan

\* A write of what is well made keeps the invariant.
LEMMA WriteKeeps ==
  ASSUME PlanInv, NEW a \in Actor, NEW t \in Thread, NEW p, WellMade(t, p), Write(a, t, p)
  PROVE  PlanInv'
<1>. USE DEF PlanInv
<1>1. /\ plan' = [plan EXCEPT ![t] = p] /\ threads' = threads
      /\ life' = IF HasPlan(t) THEN life ELSE [life EXCEPT ![t] = @ + 1]
      /\ ever' = [ever EXCEPT ![t] = @ \cup Ids(p.items)] /\ Admits(p.items) /\ Show(a, t, p)
  BY DEF Write
<1>2. p \in List /\ p # NoPlan /\ p.revision = plan[t].revision + 1 /\ p.revision \in Nat \ {0}
      /\ p.items \subseteq Item
  BY ListNotNone DEF WellMade, Revision, List
<1>3. /\ plan'[t] = p /\ \A u \in Thread : u # t => plan'[u] = plan[u]
      /\ ever'[t] = ever[t] \cup Ids(p.items) /\ \A u \in Thread : u # t => ever'[u] = ever[u]
  BY <1>1 DEF PlanType
<1>4. /\ \A u \in Thread : u # t => life'[u] = life[u]
      /\ life'[t] = IF HasPlan(t) THEN life[t] ELSE life[t] + 1
      /\ life' \in [Thread -> Nat]
  <2>1. CASE HasPlan(t)
    BY <1>1, <2>1 DEF PlanType
  <2>2. CASE ~ HasPlan(t)
    <3>1. life' = [life EXCEPT ![t] = life[t] + 1] /\ life[t] + 1 \in Nat
      BY <1>1, <2>2 DEF PlanType
    <3>. QED
      BY <3>1, <2>2 DEF PlanType
  <2>. QED
    BY <2>1, <2>2
<1>. DEFINE v == [revision |-> p.revision, thread |-> t, life |-> life'[t], items |-> p.items]
<1>5. \A b \in Watched : seen'[b] = seen[b] \/ seen'[b] = v
  BY <1>1 DEF Show
<1>6. v \in View
  BY <1>2, <1>4 DEF View
<1>7. PlanType'
  <2>1. plan' \in [Thread -> List \cup {NoPlan}]
    BY <1>1, <1>2 DEF PlanType
  <2>2. Ids(p.items) \subseteq Int
    BY <1>2 DEF Ids, Item
  <2>3. ever' \in [Thread -> SUBSET Int]
    BY <1>1, <2>2 DEF PlanType
  <2>4. \A b \in Watched : seen'[b] \in View \cup {NoPlan}
    <3>. HIDE DEF v
    <3>. QED
      BY <1>5, <1>6 DEF PlanType
  <2>5. seen' \in [Watched -> View \cup {NoPlan}]
    <3>1. DOMAIN seen' = Watched /\ seen' = [b \in Watched |-> seen'[b]]
      BY <1>1 DEF Show
    <3>. QED
      BY <2>4, <3>1
  <2>. QED
    BY <1>1, <1>4, <2>1, <2>3, <2>5 DEF PlanType
<1>8. \A u \in Thread : HasPlan(u)' <=> u = t \/ HasPlan(u)
  BY <1>2, <1>3 DEF HasPlan
<1>9. ListsOK'
  <2>. SUFFICES ASSUME NEW u \in Thread, HasPlan(u)' PROVE ListOK(u)'
    BY DEF ListsOK
  <2>1. CASE u # t
    <3>1. HasPlan(u)
      BY <1>8, <2>1
    <3>. QED
      BY <1>1, <1>3, <2>1, <3>1 DEF ListsOK, ListOK
  <2>2. CASE u = t
    <3>1. \A id \in ever[t] : id < p.next
      <4>1. CASE HasPlan(t)
        <5>1. \A id \in ever[t] : id \in Int /\ id < plan[t].next
          BY <4>1 DEF ListsOK, ListOK, PlanType
        <5>2. plan[t].next <= p.next /\ plan[t].next \in Int /\ p.next \in Int
          BY <4>1, <1>2, ListType DEF WellMade, List
        <5>. QED
          BY <5>1, <5>2
      <4>2. CASE ~ HasPlan(t)
        BY <4>2 DEF NothingLeft, WellMade
      <4>. QED
        BY <4>1, <4>2
    <3>2. \A id \in Ids(p.items) : id < p.next
      BY DEF WellMade, Ids
    <3>3. /\ threads[t] = "live" /\ Dense(p.items)
          /\ \A i \in p.items : i.created <= p.revision
      BY DEF WellMade
    <3>. QED
      BY <1>1, <1>3, <2>2, <3>1, <3>2, <3>3 DEF ListOK
  <2>. QED
    BY <2>1, <2>2
<1>10. NothingLeft'
  BY <1>1, <1>3, <1>8 DEF NothingLeft
<1>11. ViewsPast'
  <2>. SUFFICES ASSUME NEW b \in Watched, seen'[b] # NoPlan
                PROVE  threads[seen'[b].thread] # "unborn" /\ seen'[b].life <= life'[seen'[b].thread]
    BY <1>1 DEF ViewsPast
  <2>1. CASE seen'[b] = v
    BY <2>1, <1>4 DEF WellMade, PlanType
  <2>2. CASE seen'[b] = seen[b]
    <3>1. seen[b].thread \in Thread /\ seen[b].life \in Nat
      BY <2>2 DEF PlanType, View
    <3>2. threads[seen[b].thread] # "unborn" /\ seen[b].life <= life[seen[b].thread]
      BY <2>2 DEF ViewsPast
    <3>3. life[seen[b].thread] \in Nat /\ life[seen[b].thread] <= life'[seen[b].thread]
      BY <1>4, <3>1 DEF PlanType
    <3>4. life'[seen[b].thread] \in Nat
      BY <1>4, <3>1
    <3>. QED
      BY <2>2, <3>1, <3>2, <3>3, <3>4
  <2>. HIDE DEF v
  <2>. QED
    BY <1>5, <2>1, <2>2
<1>12. SnapshotsAgree'
  <2>. SUFFICES ASSUME NEW b \in Watched, seen'[b] # NoPlan, plan'[seen'[b].thread] # NoPlan,
                       life'[seen'[b].thread] = seen'[b].life
                PROVE  \/ seen'[b].revision < plan'[seen'[b].thread].revision
                       \/ /\ seen'[b].revision = plan'[seen'[b].thread].revision
                          /\ seen'[b].items = plan'[seen'[b].thread].items
    BY DEF SnapshotsAgree, HasPlan
  <2>1. CASE seen'[b] = v
    BY <2>1, <1>3
  <2>2. CASE seen'[b] = seen[b]
    <3>1. seen[b].thread \in Thread /\ seen[b].life \in Nat /\ seen[b].revision \in Nat
      BY <2>2 DEF PlanType, View
    <3>2. CASE seen[b].thread # t
      BY <2>2, <3>1, <3>2, <1>3, <1>4 DEF SnapshotsAgree, HasPlan
    <3>3. CASE seen[b].thread = t
      <4>1. HasPlan(t)
        <5>1. seen[b].life <= life[t] /\ life[t] \in Nat
          BY <2>2, <3>3 DEF ViewsPast, PlanType
        <5>. QED
          BY <5>1, <2>2, <3>1, <3>3, <1>4
      <4>2. seen[b].revision <= plan[t].revision
        <5>1. plan[t].revision \in Nat
          BY ListType
        <5>2. \/ seen[b].revision < plan[t].revision
              \/ seen[b].revision = plan[t].revision
          BY <4>1, <2>2, <3>3, <1>4 DEF SnapshotsAgree
        <5>. QED
          BY <5>1, <5>2, <3>1
      <4>3. seen[b].revision < p.revision
        BY <4>2, <3>1, <1>2, ListType
      <4>. QED
        BY <4>3, <2>2, <3>3, <1>3
    <3>. QED
      BY <3>2, <3>3
  <2>. HIDE DEF v
  <2>. QED
    BY <1>5, <2>1, <2>2
<1>. QED
  BY <1>7, <1>9, <1>10, <1>11, <1>12

-----------------------------------------------------------------------------
(* What the operations write is well made.                                  *)

\* The list of a thread has positions 1 to the number of its items.
LEMMA ItemsCounted ==
  ASSUME PlanInv, NEW t \in Thread
  PROVE  /\ IsFiniteSet(PlanItems(t)) /\ Cardinality(PlanItems(t)) \in Nat
         /\ Positions(PlanItems(t)) = 1 .. Cardinality(PlanItems(t))
         /\ \A i, j \in PlanItems(t) : i.position = j.position => i = j
<1>1. CASE HasPlan(t)
  <2>1. Admits(PlanItems(t)) /\ Dense(PlanItems(t))
    BY <1>1, ListType DEF PlanInv, ListsOK, ListOK
  <2>2. \A i, j \in PlanItems(t) : i.position = j.position => i = j
    BY <2>1 DEF Admits
  <2>3. PICK n \in Nat : Positions(PlanItems(t)) = 1 .. n
    BY <2>1 DEF Dense
  <2>. QED
    BY <2>2, <2>3, DenseCount
<1>2. CASE ~ HasPlan(t)
  <2>1. PlanItems(t) = {}
    BY <1>2 DEF PlanItems
  <2>2. IsFiniteSet(PlanItems(t)) /\ Cardinality(PlanItems(t)) = 0
    BY <2>1, FS_EmptySet
  <2>3. Positions(PlanItems(t)) = {}
    BY <2>1 DEF Positions
  <2>4. Positions(PlanItems(t)) = 1 .. Cardinality(PlanItems(t))
    BY <2>2, <2>3
  <2>5. \A i, j \in PlanItems(t) : i.position = j.position => i = j
    BY <2>1
  <2>. QED
    BY <2>2, <2>4, <2>5
<1>. QED
  BY <1>1, <1>2

\* A list is that of a live thread, and older than the next revision.
LEMMA OldItems ==
  ASSUME PlanInv, NEW t \in Thread
  PROVE  /\ HasPlan(t) => threads[t] = "live"
         /\ \A i \in PlanItems(t) : i \in Item /\ i.created \in Nat /\ i.created < Revision(t)
         /\ HasPlan(t) => \A id \in ever[t] : id \in Int /\ id < Next0(t)
<1>1. ASSUME HasPlan(t)
      PROVE  threads[t] = "live" /\ \A id \in ever[t] : id \in Int /\ id < Next0(t)
  BY <1>1, ListType DEF PlanInv, ListsOK, ListOK, PlanType
<1>2. ASSUME NEW i \in PlanItems(t)
      PROVE  i \in Item /\ i.created \in Nat /\ i.created < Revision(t)
  <2>1. HasPlan(t)
    BY <1>2 DEF PlanItems
  <2>2. i \in Item /\ i.created <= plan[t].revision
    BY <1>2, <2>1, ListType DEF PlanInv, ListsOK, ListOK
  <2>3. i.created \in Nat /\ plan[t].revision \in Nat
    BY <2>2, ListType DEF Item, PlanInv
  <2>. QED
    BY <2>2, <2>3 DEF Revision
<1>. QED
  BY <1>1, <1>2

\* What is sent: the drafts without a name are among the positions of the sequence.
LEMMA BlanksCounted ==
  ASSUME NEW drafts \in Seq(Draft)
  PROVE  /\ Len(drafts) \in Nat /\ DOMAIN drafts = 1 .. Len(drafts)
         /\ Blanks(drafts) \subseteq 1 .. Len(drafts)
         /\ IsFiniteSet(Blanks(drafts)) /\ Cardinality(Blanks(drafts)) \in Nat
<1>1. Len(drafts) \in Nat /\ DOMAIN drafts = 1 .. Len(drafts)
  OBVIOUS
<1>2. Blanks(drafts) \subseteq 1 .. Len(drafts)
  BY <1>1 DEF Blanks
<1>3. IsFiniteSet(1 .. Len(drafts))
  BY <1>1, FS_Interval
<1>4. IsFiniteSet(Blanks(drafts))
  BY <1>2, <1>3, FS_Subset
<1>. QED
  BY <1>1, <1>2, <1>4, FS_CardinalityType

LEMMA DraftType ==
  ASSUME NEW drafts \in Seq(Draft), NEW k \in DOMAIN drafts
  PROVE  /\ drafts[k] \in Draft /\ drafts[k].id \in Int
         /\ drafts[k].status \in TodoStatus \cup {"none", "bad"}
<1>1. drafts[k] \in Draft
  OBVIOUS
<1>. QED
  BY <1>1 DEF Draft

\* The number of an item without a name: some free number is left for it.
LEMMA BlankNumbered ==
  ASSUME NEW drafts \in Seq(Draft), NEW k \in Blanks(drafts)
  PROVE  Cardinality({j \in Blanks(drafts) : j <= k}) \in 1 .. Cardinality(Blanks(drafts))
<1>1. IsFiniteSet(Blanks(drafts)) /\ Blanks(drafts) \subseteq Int
  BY BlanksCounted
<1>2. k \in {j \in Blanks(drafts) : j <= k}
  BY <1>1
<1>. QED
  BY <1>1, <1>2, RankBounds

LEMMA NamedAbove ==
  ASSUME NEW drafts \in Seq(Draft), \A k \in DOMAIN drafts : drafts[k].id <= MaxId,
         NEW first \in 1 .. MaxId, Acceptable(drafts, first), NEW k \in DOMAIN drafts
  PROVE  /\ Named(drafts, first)[k] \in Int /\ Named(drafts, first)[k] < MaxId
         /\ drafts[k].id = 0 => first <= Named(drafts, first)[k]
<1>. DEFINE n == Cardinality({j \in Blanks(drafts) : j <= k})
<1>1. CASE drafts[k].id # 0
  <2>1. drafts[k].id \in Int /\ drafts[k].id <= MaxId
    BY DraftType
  <2>2. drafts[k].id # MaxId
    BY <1>1 DEF Acceptable, Supplied
  <2>. QED
    BY <1>1, <2>1, <2>2, TodoAssumption DEF Named
<1>2. CASE drafts[k].id = 0
  <2>1. k \in Blanks(drafts)
    BY <1>2 DEF Blanks
  <2>2. n \in 1 .. Cardinality(Blanks(drafts))
    BY <2>1, BlankNumbered
  <2>3. Cardinality(Blanks(drafts)) <= Cardinality(Free(first, Supplied(drafts)))
    BY DEF Acceptable
  <2>4. Cardinality(Blanks(drafts)) \in Nat
    BY BlanksCounted
  <2>5. n \in 1 .. Cardinality(Free(first, Supplied(drafts)))
    <3>. HIDE DEF n
    <3>. QED
      BY <2>2, <2>3, <2>4, FreeFinite
  <2>6. Named(drafts, first)[k] = Allocated(first, Supplied(drafts), n)
    BY <1>2 DEF Named
  <2>. HIDE DEF n
  <2>. QED
    BY <2>5, <2>6, AllocatedAbove
<1>. QED
  BY <1>1, <1>2

LEMMA ReplacementWellMade ==
  ASSUME PlanInv, NEW t \in Thread, threads[t] = "live", NEW drafts \in Imports,
         Acceptable(drafts, Next0(t))
  PROVE  WellMade(t, Replacement(t, drafts))
<1>. DEFINE first == Next0(t)
            now == Revision(t)
            old == PlanItems(t)
            ids == Named(drafts, first)
            It(k) == [id |-> ids[k], position |-> k, status |-> Status(drafts[k]),
                      created |-> Created(old, ids[k], now),
                      given |-> IF drafts[k].id = 0 THEN "store" ELSE "caller"]
            items == Prepared(drafts, first, old, now)
            p == Replacement(t, drafts)
<1>1. drafts \in Seq(Draft) /\ Len(drafts) \in Nat /\ DOMAIN drafts = 1 .. Len(drafts)
  BY TodoAssumption
<1>2. first \in 1 .. MaxId /\ now \in Nat \ {0}
  BY ListType DEF PlanInv
<1>3. \A k \in DOMAIN drafts : ids[k] \in Int /\ ids[k] < MaxId /\ (drafts[k].id = 0 => first <= ids[k])
  <2>. HIDE DEF first
  <2>1. \A k \in DOMAIN drafts : drafts[k].id <= MaxId
    BY TodoAssumption
  <2>. QED
    BY <1>1, <1>2, <2>1, NamedAbove DEF first
<1>4. \A k \in DOMAIN drafts : Status(drafts[k]) \in TodoStatus
  <2>. SUFFICES ASSUME NEW k \in DOMAIN drafts PROVE Status(drafts[k]) \in TodoStatus
    OBVIOUS
  <2>1. drafts[k].status # "bad"
    BY DEF Acceptable, DraftOK
  <2>2. drafts[k].status \in TodoStatus \cup {"none", "bad"}
    BY <1>1, DraftType
  <2>. QED
    BY <2>1, <2>2 DEF Status, TodoStatus
<1>5. \A k \in DOMAIN drafts : Created(old, ids[k], now) \in Nat /\ Created(old, ids[k], now) <= now
  <2>. SUFFICES ASSUME NEW k \in DOMAIN drafts
                PROVE  Created(old, ids[k], now) \in Nat /\ Created(old, ids[k], now) <= now
    OBVIOUS
  <2>1. CASE \E i \in old : i.id = ids[k]
    <3>. DEFINE i == CHOOSE i \in old : i.id = ids[k]
    <3>1. i \in old
      BY <2>1
    <3>2. i.created \in Nat /\ i.created < now
      BY <3>1, OldItems
    <3>3. Created(old, ids[k], now) = i.created
      BY <2>1 DEF Created
    <3>. QED
      BY <3>2, <3>3, <1>2
  <2>2. CASE ~ \E i \in old : i.id = ids[k]
    BY <2>2, <1>2 DEF Created
  <2>. QED
    BY <2>1, <2>2
<1>6. \A k \in DOMAIN drafts : It(k) \in Item
  <2>. HIDE DEF ids, old, now
  <2>. QED
    BY <1>1, <1>3, <1>4, <1>5 DEF Item
<1>7. items = {It(k) : k \in DOMAIN drafts}
  BY DEF Prepared
<1>8. /\ \A k \in DOMAIN drafts : /\ It(k).id = ids[k] /\ It(k).position = k
                                  /\ It(k).created = Created(old, ids[k], now)
                                  /\ It(k).given = "store" => drafts[k].id = 0
      /\ p.revision = now /\ p.items = items /\ p.next = After(first, Ids(items))
  BY DEF Replacement
<1>. HIDE DEF It, items, ids, p, first, now, old
<1>9. items \subseteq Item /\ Positions(items) = 1 .. Len(drafts)
  BY <1>1, <1>6, <1>7, <1>8 DEF Positions
<1>10. \A id \in Ids(items) : id \in Int /\ id < MaxId
  BY <1>3, <1>7, <1>8 DEF Ids
<1>11. p.next \in 1 .. MaxId /\ first <= p.next /\ \A id \in Ids(items) : id < p.next
  BY <1>2, <1>8, <1>10, AfterAbove
<1>12. p \in List
  BY <1>2, <1>8, <1>9, <1>11 DEF List, p, Replacement, now, first, items, old
<1>13. \A i \in items : i.created <= now /\ i.id < p.next /\ (i.given = "store" => first <= i.id)
  BY <1>3, <1>5, <1>7, <1>8, <1>11 DEF Ids
<1>14. Dense(p.items)
  BY <1>1, <1>8, <1>9 DEF Dense
<1>. QED
  BY <1>8, <1>11, <1>12, <1>13, <1>14 DEF WellMade, first, now, p

\* New items get numbers that are free and positions after those there are.
LEMMA CreateWellMade ==
  ASSUME PlanInv, NEW a \in Actor, NEW t \in Thread, NEW drafts \in Seq(Draft),
         CreateTodos(a, t, drafts)
  PROVE  \E p : WellMade(t, p) /\ Write(a, t, p)
<1>. DEFINE first == Next0(t)
            now == Revision(t)
            old == PlanItems(t)
            It(k) == [id |-> Allocated(first, Ids(old), k), position |-> Cardinality(old) + k,
                      status |-> Status(drafts[k]), created |-> now, given |-> "store"]
            new == {It(k) : k \in DOMAIN drafts}
            p == [revision |-> now, items |-> old \cup new, next |-> After(first, Ids(new))]
<1>1. /\ threads[t] = "live" /\ Write(a, t, p)
      /\ \A k \in DOMAIN drafts : DraftOK(drafts[k])
      /\ Len(drafts) <= Cardinality(Free(first, Ids(old)))
  BY DEF CreateTodos
<1>2. Len(drafts) \in Nat /\ DOMAIN drafts = 1 .. Len(drafts)
  OBVIOUS
<1>3. first \in 1 .. MaxId /\ now \in Nat \ {0}
  BY ListType DEF PlanInv
<1>4. /\ Cardinality(old) \in Nat /\ Positions(old) = 1 .. Cardinality(old)
      /\ \A i \in old : i \in Item /\ i.created \in Nat /\ i.created < now
  BY ItemsCounted, OldItems
<1>5. \A i \in old : i.id \in Int /\ i.id < first
  <2>. SUFFICES ASSUME NEW i \in old PROVE i.id \in Int /\ i.id < first
    OBVIOUS
  <2>1. HasPlan(t)
    BY DEF PlanItems
  <2>2. \A j \in plan[t].items : j.id < plan[t].next
    BY <2>1 DEF PlanInv, ListsOK, ListOK, Ids
  <2>3. i \in plan[t].items /\ plan[t].next = first /\ i.id \in Int
    BY <1>4, <2>1, ListType DEF PlanInv, Item
  <2>. QED
    BY <2>2, <2>3
<1>6. \A k \in DOMAIN drafts : Status(drafts[k]) \in TodoStatus
  <2>. SUFFICES ASSUME NEW k \in DOMAIN drafts PROVE Status(drafts[k]) \in TodoStatus
    OBVIOUS
  <2>1. drafts[k].status # "bad"
    BY <1>1 DEF DraftOK
  <2>2. drafts[k].status \in TodoStatus \cup {"none", "bad"}
    BY DraftType
  <2>. QED
    BY <2>1, <2>2 DEF Status, TodoStatus
<1>7. \A k \in DOMAIN drafts : /\ Allocated(first, Ids(old), k) \in Int
                               /\ first <= Allocated(first, Ids(old), k)
                               /\ Allocated(first, Ids(old), k) < MaxId
  <2>1. \A k \in DOMAIN drafts : k \in 1 .. Cardinality(Free(first, Ids(old)))
    <3>1. Cardinality(Free(first, Ids(old))) \in Nat
      BY <1>3, FreeFinite
    <3>. QED
      BY <1>1, <1>2, <3>1
  <2>. HIDE DEF first, old
  <2>. QED
    BY <1>3, <2>1, AllocatedAbove
<1>8. \A k \in DOMAIN drafts : It(k) \in Item
  <2>. HIDE DEF first, now, old
  <2>. QED
    BY <1>2, <1>3, <1>4, <1>6, <1>7 DEF Item
<1>9. /\ \A k \in DOMAIN drafts : /\ It(k).id = Allocated(first, Ids(old), k)
                                  /\ It(k).position = Cardinality(old) + k /\ It(k).created = now
      /\ p.revision = now /\ p.items = old \cup new /\ p.next = After(first, Ids(new))
  OBVIOUS
<1>10. new = {It(k) : k \in DOMAIN drafts}
  OBVIOUS
<1>11. p \in List <=> p.revision \in Nat \ {0} /\ p.next \in 1 .. MaxId /\ p.items \subseteq Item
  BY DEF List
<1>. HIDE DEF It, new, p, first, now, old
<1>12. new \subseteq Item /\ \A i \in new : i.id \in Int /\ first <= i.id /\ i.id < MaxId /\ i.created = now
  BY <1>7, <1>8, <1>9, <1>10
<1>13. p.next \in 1 .. MaxId /\ first <= p.next /\ \A id \in Ids(new) : id < p.next
  <2>1. \A id \in Ids(new) : id \in Int /\ id < MaxId
    BY <1>12 DEF Ids
  <2>. QED
    BY <2>1, <1>3, <1>9, AfterAbove
<1>14. p \in List
  BY <1>3, <1>4, <1>9, <1>11, <1>12, <1>13
<1>15. \A i \in p.items : i.created <= now /\ i.id < p.next
                          /\ (i.given = "store" /\ i.created = now => first <= i.id)
  <2>1. \A i \in old : i.created < now /\ i.created # now /\ i.created <= now /\ i.id < p.next
    BY <1>3, <1>4, <1>5, <1>13
  <2>2. \A i \in new : i.created <= now /\ i.id < p.next /\ first <= i.id
    BY <1>3, <1>12, <1>13 DEF Ids
  <2>. QED
    BY <1>9, <2>1, <2>2
<1>16. Dense(p.items)
  <2>1. Positions(new) = (Cardinality(old) + 1) .. (Cardinality(old) + Len(drafts))
    <3>1. Positions(new) = {Cardinality(old) + k : k \in 1 .. Len(drafts)}
      BY <1>2, <1>9, <1>10 DEF Positions
    <3>2. \A m \in (Cardinality(old) + 1) .. (Cardinality(old) + Len(drafts)) :
            m - Cardinality(old) \in 1 .. Len(drafts) /\ m = Cardinality(old) + (m - Cardinality(old))
      BY <1>2, <1>4
    <3>. QED
      BY <1>2, <1>4, <3>1, <3>2
  <2>2. Positions(p.items) = Positions(old) \cup Positions(new)
    BY <1>9 DEF Positions
  <2>3. Positions(p.items) = 1 .. (Cardinality(old) + Len(drafts))
    BY <1>2, <1>4, <2>1, <2>2
  <2>. QED
    BY <1>2, <1>4, <2>3 DEF Dense
<1>17. WellMade(t, p)
  BY <1>1, <1>9, <1>13, <1>14, <1>15, <1>16 DEF WellMade, first, now
<1>. QED
  BY <1>1, <1>17

\* A list whose items keep their names, times of creation and origins, in some order
\* without holes, is well made as the next revision.
LEMMA RevisedWellMade ==
  ASSUME PlanInv, NEW t \in Thread, HasPlan(t), NEW S \in SUBSET Item, Dense(S),
         \A i \in S : \E j \in plan[t].items : i.id = j.id /\ i.created = j.created
  PROVE  WellMade(t, [plan[t] EXCEPT !.revision = @ + 1, !.items = S])
<1>. DEFINE p == [plan[t] EXCEPT !.revision = @ + 1, !.items = S]
<1>1. plan[t] \in List /\ threads[t] = "live" /\ Next0(t) = plan[t].next
  BY ListType DEF PlanInv, ListsOK, ListOK
<1>2. p \in List /\ p.revision = Revision(t) /\ p.next = plan[t].next /\ p.items = S
  <2>1. /\ plan[t] \in [revision : Nat \ {0}, next : 1 .. MaxId, items : SUBSET Item]
        /\ plan[t].revision + 1 \in Nat \ {0}
    BY <1>1 DEF List
  <2>2. p \in [revision : Nat \ {0}, next : 1 .. MaxId, items : SUBSET Item]
    BY <2>1
  <2>3. p.revision = plan[t].revision + 1 /\ p.next = plan[t].next /\ p.items = S
    BY <2>1
  <2>. QED
    BY <2>2, <2>3 DEF List, Revision
<1>3. plan[t].next \in Int /\ Revision(t) \in Nat
  BY <1>1, ListType DEF List, PlanInv
<1>4. \A j \in plan[t].items : j.created < Revision(t) /\ j.created \in Nat
  BY OldItems DEF PlanItems
<1>5. \A j \in plan[t].items : j.id < plan[t].next
  BY DEF PlanInv, ListsOK, ListOK, Ids
<1>. HIDE DEF p
<1>6. \A i \in S : i.created < Revision(t) /\ i.created \in Nat /\ i.id < plan[t].next
  BY <1>4, <1>5
<1>7. \A i \in S : i.created <= Revision(t) /\ i.created # Revision(t)
  BY <1>3, <1>6
<1>. QED
  BY <1>1, <1>2, <1>3, <1>6, <1>7 DEF WellMade, p

LEMMA UpdateWellMade ==
  ASSUME PlanInv, NEW a \in Actor, NEW t \in Thread, NEW updates,
         \A k \in DOMAIN updates : updates[k].status \in TodoStatus \cup {"none", "bad"},
         UpdateTodos(a, t, updates)
  PROVE  \E p : WellMade(t, p) /\ Write(a, t, p)
<1>. DEFINE Changed(i) == {k \in DOMAIN updates : updates[k].id = i.id /\ updates[k].status # "none"}
            Apply(i) == IF Changed(i) = {} THEN i
                        ELSE [i EXCEPT !.status = updates[CHOOSE k \in Changed(i) : TRUE].status]
            S == {Apply(i) : i \in plan[t].items}
            p == [plan[t] EXCEPT !.revision = @ + 1, !.items = S]
<1>1. PatchesOK(updates) /\ HasPlan(t) /\ Write(a, t, p)
  BY DEF UpdateTodos
<1>2. plan[t].items \subseteq Item
  BY <1>1, ListType DEF PlanInv, List
<1>3. \A i \in Item : /\ Apply(i) \in Item /\ Apply(i).id = i.id /\ Apply(i).created = i.created
                      /\ Apply(i).position = i.position
  <2>. SUFFICES ASSUME NEW i \in Item
                PROVE  /\ Apply(i) \in Item /\ Apply(i).id = i.id /\ Apply(i).created = i.created
                       /\ Apply(i).position = i.position
    OBVIOUS
  <2>1. CASE Changed(i) = {}
    BY <2>1
  <2>2. CASE Changed(i) # {}
    <3>. DEFINE k == CHOOSE k \in Changed(i) : TRUE
    <3>1. k \in Changed(i)
      BY <2>2
    <3>2. updates[k].status \in TodoStatus
      BY <3>1, <1>1 DEF PatchesOK
    <3>3. Apply(i) = [i EXCEPT !.status = updates[k].status]
      BY <2>2
    <3>. HIDE DEF Apply, k, Changed
    <3>. QED
      BY <3>2, <3>3 DEF Item
  <2>. QED
    BY <2>1, <2>2
<1>. HIDE DEF Apply
<1>4. S \in SUBSET Item
  BY <1>2, <1>3
<1>5. Positions(S) = Positions(plan[t].items)
  BY <1>2, <1>3 DEF Positions
<1>6. Dense(S)
  BY <1>1, <1>5 DEF Dense, PlanInv, ListsOK, ListOK
<1>7. \A i \in S : \E j \in plan[t].items : i.id = j.id /\ i.created = j.created
  BY <1>2, <1>3
<1>. HIDE DEF S
<1>8. WellMade(t, p)
  BY <1>1, <1>4, <1>6, <1>7, RevisedWellMade
<1>. QED
  BY <1>1, <1>8

\* Items that move up to close the holes have the positions 1 to their number.
LEMMA CompactDense ==
  ASSUME NEW S \in SUBSET Item, IsFiniteSet(S), NEW M \in Nat, Positions(S) \subseteq 1 .. M,
         \A i, j \in S : i.position = j.position => i = j
  PROVE  /\ Compact(S) \in SUBSET Item /\ Dense(Compact(S))
         /\ \A i \in Compact(S) : \E j \in S : i.id = j.id /\ i.created = j.created
<1>. DEFINE pos == [i \in S |-> i.position]
            Raised(i) == [i EXCEPT !.position = Cardinality({j \in S : j.position <= i.position})]
            n == Cardinality(S)
<1>1. n \in Nat
  BY FS_CardinalityType
<1>2. pos \in [S -> 1 .. M] /\ \A i, j \in S : pos[i] = pos[j] => i = j
  BY DEF Positions
<1>3. \A i \in S : Rank(S, pos, i) = Cardinality({j \in S : j.position <= i.position})
  <2>. SUFFICES ASSUME NEW i \in S
                PROVE  Rank(S, pos, i) = Cardinality({j \in S : j.position <= i.position})
    OBVIOUS
  <2>1. {j \in S : pos[j] <= pos[i]} = {j \in S : j.position <= i.position}
    OBVIOUS
  <2>. QED
    BY <2>1 DEF Rank
<1>4. \A i \in S : Rank(S, pos, i) \in 1 .. n
  <2>. SUFFICES ASSUME NEW i \in S PROVE Rank(S, pos, i) \in 1 .. n
    OBVIOUS
  <2>1. pos[i] \in Int /\ i \in {j \in S : pos[j] <= pos[i]}
    BY <1>2
  <2>. HIDE DEF pos, n
  <2>. QED
    BY <2>1, RankBounds DEF Rank, n
<1>5. \A m \in 1 .. n : \E i \in S : Rank(S, pos, i) = m
  <2>. HIDE DEF pos
  <2>. QED
    BY <1>2, RankExists
<1>6. \A i \in S : /\ Raised(i) \in Item /\ Raised(i).id = i.id /\ Raised(i).created = i.created
                   /\ Raised(i).position = Rank(S, pos, i)
  <2>. SUFFICES ASSUME NEW i \in S
                PROVE  /\ Raised(i) \in Item /\ Raised(i).id = i.id /\ Raised(i).created = i.created
                       /\ Raised(i).position = Rank(S, pos, i)
    OBVIOUS
  <2>. DEFINE r == Rank(S, pos, i)
  <2>1. Raised(i) = [i EXCEPT !.position = r] /\ r \in Nat \ {0} /\ i \in Item
    BY <1>1, <1>3, <1>4
  <2>. HIDE DEF Raised, r
  <2>. QED
    BY <2>1 DEF Item, r
<1>7. Compact(S) = {Raised(i) : i \in S}
  BY DEF Compact
<1>. HIDE DEF Raised, pos, n
<1>8. Positions(Compact(S)) = 1 .. n
  <2>1. Positions(Compact(S)) = {Rank(S, pos, i) : i \in S}
    BY <1>6, <1>7 DEF Positions
  <2>. QED
    BY <2>1, <1>4, <1>5
<1>. QED
  BY <1>1, <1>6, <1>7, <1>8 DEF Dense

LEMMA DeleteWellMade ==
  ASSUME PlanInv, NEW a \in Actor, NEW t \in Thread, NEW ids, DeleteTodos(a, t, ids)
  PROVE  \E p : WellMade(t, p) /\ Write(a, t, p)
<1>. DEFINE S == {i \in plan[t].items : i.id \notin ids}
            p == [plan[t] EXCEPT !.revision = @ + 1, !.items = Compact(S)]
<1>1. HasPlan(t) /\ PlanItems(t) = plan[t].items
  BY DEF DeleteTodos, PlanItems, Ids
<1>2. Write(a, t, p)
  BY DEF DeleteTodos
<1>3. S \in SUBSET Item /\ S \subseteq PlanItems(t)
  BY <1>1, ListType DEF PlanInv, List
<1>. HIDE DEF S
<1>4. IsFiniteSet(S)
  BY <1>3, ItemsCounted, FS_Subset
<1>5. Positions(S) \subseteq 1 .. Cardinality(PlanItems(t))
  BY <1>3, ItemsCounted DEF Positions
<1>6. \A i, j \in S : i.position = j.position => i = j
  BY <1>3, ItemsCounted
<1>7. /\ Compact(S) \in SUBSET Item /\ Dense(Compact(S))
      /\ \A i \in Compact(S) : \E j \in S : i.id = j.id /\ i.created = j.created
  BY <1>3, <1>4, <1>5, <1>6, ItemsCounted, CompactDense
<1>8. \A i \in Compact(S) : \E j \in plan[t].items : i.id = j.id /\ i.created = j.created
  BY <1>1, <1>3, <1>7
<1>9. WellMade(t, p)
  BY <1>1, <1>7, <1>8, RevisedWellMade
<1>. QED
  BY <1>2, <1>9

-----------------------------------------------------------------------------
(* Every step.                                                              *)

LEMMA PlanInit == TodoInit => PlanInv
<1>. SUFFICES ASSUME TodoInit PROVE PlanInv
  OBVIOUS
<1>1. \A t \in Thread : ~HasPlan(t)
  BY DEF TodoInit, HasPlan
<1>2. PlanType
  BY DEF TodoInit, PlanType
<1>. QED
  BY <1>1, <1>2 DEF TodoInit, PlanInv, ListsOK, NothingLeft, ViewsPast, SnapshotsAgree

LEMMA DraftedType ==
  ASSUME NEW items \in Seq(Draft)
  PROVE  Drafted(items) \in Seq(Draft)
<1>1. \A k \in DOMAIN items :
        [id |-> 0, text |-> items[k].text, status |-> "pending"] \in Draft
  <2>. SUFFICES ASSUME NEW k \in DOMAIN items
                PROVE  [id |-> 0, text |-> items[k].text, status |-> "pending"] \in Draft
    OBVIOUS
  <2>1. items[k].text \in {"text", "blank", "none"}
    BY DraftType DEF Draft
  <2>. QED
    BY <2>1 DEF Draft, TodoStatus
<1>2. Len(items) \in Nat /\ DOMAIN items = 1 .. Len(items)
  OBVIOUS
<1>3. Drafted(items) \in [1 .. Len(items) -> Draft]
  BY <1>1, <1>2 DEF Drafted
<1>. QED
  BY <1>2, <1>3, SeqDef

LEMMA PatchesType ==
  ASSUME NEW call \in Calls, NEW k \in DOMAIN Patches(call)
  PROVE  Patches(call)[k].status \in TodoStatus \cup {"none", "bad"}
<1>1. call.items \in Seq(Draft) /\ k \in DOMAIN call.items
  BY TodoAssumption DEF Patches
<1>2. call.items[k].status \in TodoStatus \cup {"none", "bad"} /\ call.items[k] \in Draft
  BY <1>1, DraftType
<1>. DEFINE v == CASE call.action = "complete" -> "completed"
                   [] call.action = "cancel" -> "cancelled"
                   [] OTHER -> call.items[k].status
<1>3. v \in TodoStatus \cup {"none", "bad"}
  BY <1>2 DEF TodoStatus
<1>4. Patches(call)[k] = [call.items[k] EXCEPT !.status = v]
  BY <1>1 DEF Patches
<1>. HIDE DEF v
<1>. QED
  BY <1>2, <1>3, <1>4 DEF Draft

\* What may happen: a well made write, a look at a list, or something to a thread or a
\* list as a whole.
Wrote(t) == \E a \in Actor, p \in List : WellMade(t, p) /\ Write(a, t, p)

LEMMA StepCases ==
  ASSUME PlanInv, TodoNext
  PROVE  \/ \E t \in Thread : Wrote(t) \/ DeletePlan(t) \/ CreateThread(t) \/ DeleteThread(t)
         \/ \E a \in Actor, t \in Thread : ListTodos(a, t)
         \/ \E t, u \in Thread : ForkThread(t, u)
<1>1. \A t : \A a \in Actor : (\E p : WellMade(t, p) /\ Write(a, t, p)) => Wrote(t)
  BY DEF Wrote, WellMade
<1>2. ASSUME NEW a \in Actor, NEW t \in Thread, NEW drafts \in Imports,
             CreatePlan(a, t, drafts) \/ ReplaceTodos(a, t, drafts)
      PROVE  Wrote(t)
  <2>1. threads[t] = "live" /\ Acceptable(drafts, Next0(t)) /\ Write(a, t, Replacement(t, drafts))
    BY <1>2 DEF CreatePlan, ReplaceTodos, Next0
  <2>2. WellMade(t, Replacement(t, drafts))
    BY <2>1, ReplacementWellMade
  <2>. QED
    BY <1>1, <2>1, <2>2
<1>3. ASSUME NEW a \in Actor, NEW t \in Thread, NEW ids, DeleteTodos(a, t, ids)
      PROVE  Wrote(t)
  BY <1>1, <1>3, DeleteWellMade
<1>4. ASSUME NEW a \in Actor, NEW t \in Thread, TodoList(a, t)
      PROVE  Wrote(t) \/ ListTodos(a, t)
  <2>1. ASSUME NEW call \in Calls, CreateTodos(a, t, Drafted(call.items)) PROVE Wrote(t)
    <3>1. Drafted(call.items) \in Seq(Draft)
      BY TodoAssumption, DraftedType
    <3>. QED
      BY <1>1, <2>1, <3>1, CreateWellMade
  <2>2. ASSUME NEW call \in Calls, UpdateTodos(a, t, Patches(call)) PROVE Wrote(t)
    <3>1. \A k \in DOMAIN Patches(call) : Patches(call)[k].status \in TodoStatus \cup {"none", "bad"}
      BY PatchesType
    <3>. QED
      BY <1>1, <2>2, <3>1, UpdateWellMade
  <2>. QED
    BY <1>4, <2>1, <2>2 DEF TodoList
<1>. QED
  BY <1>2, <1>3, <1>4 DEF TodoNext

\* A view that is not of a list just made stays true when its list and its life do.
LEMMA ViewsKept ==
  ASSUME PlanInv, UNCHANGED seen,
         \A t \in Thread : /\ life'[t] \in Nat /\ life[t] <= life'[t]
                           /\ threads[t] # "unborn" =>
                                /\ threads'[t] # "unborn" /\ life'[t] = life[t]
                                /\ plan'[t] = plan[t] \/ plan'[t] = NoPlan
  PROVE  ViewsPast' /\ SnapshotsAgree'
<1>. SUFFICES ASSUME NEW a \in Watched, seen[a] # NoPlan
     PROVE  /\ threads'[seen[a].thread] # "unborn" /\ seen[a].life <= life'[seen[a].thread]
            /\ plan'[seen[a].thread] # NoPlan /\ life'[seen[a].thread] = seen[a].life =>
                 \/ seen[a].revision < plan'[seen[a].thread].revision
                 \/ /\ seen[a].revision = plan'[seen[a].thread].revision
                    /\ seen[a].items = plan'[seen[a].thread].items
  BY DEF ViewsPast, SnapshotsAgree, HasPlan
<1>1. seen[a].thread \in Thread
  BY DEF PlanInv, PlanType, View
<1>2. threads[seen[a].thread] # "unborn" /\ seen[a].life <= life[seen[a].thread]
  BY DEF PlanInv, ViewsPast
<1>. QED
  BY <1>1, <1>2 DEF PlanInv, SnapshotsAgree, HasPlan

LEMMA PlanStep ==
  ASSUME PlanInv, [TodoNext]_todoVars
  PROVE  PlanInv'
<1>. USE DEF PlanInv
<1>1. ASSUME NEW t \in Thread, Wrote(t) PROVE PlanInv'
  <2>1. PICK a \in Actor, p \in List : WellMade(t, p) /\ Write(a, t, p)
    BY <1>1 DEF Wrote
  <2>. QED
    BY <2>1, WriteKeeps
<1>2. ASSUME NEW t \in Thread, DeletePlan(t) PROVE PlanInv'
  <2>1. /\ plan'[t] = NoPlan /\ \A u \in Thread : u # t => plan'[u] = plan[u] /\ ever'[u] = ever[u]
        /\ ever'[t] = {} /\ UNCHANGED <<threads, life, seen>>
    BY <1>2 DEF DeletePlan, PlanType
  <2>2. PlanType'
    BY <1>2 DEF DeletePlan, PlanType
  <2>3. ListsOK' /\ NothingLeft'
    BY <2>1 DEF ListsOK, ListOK, NothingLeft, HasPlan
  <2>4. ViewsPast' /\ SnapshotsAgree'
    BY <2>1, ViewsKept DEF PlanType
  <2>. QED
    BY <2>2, <2>3, <2>4
<1>3. ASSUME NEW t \in Thread, CreateThread(t) PROVE PlanInv'
  <2>1. /\ threads[t] = "unborn" /\ threads'[t] = "live"
        /\ \A u \in Thread : u # t => threads'[u] = threads[u]
        /\ UNCHANGED <<plan, life, ever, seen>>
    BY <1>3 DEF CreateThread, PlanType
  <2>2. PlanType'
    BY <1>3 DEF CreateThread, PlanType
  <2>3. ListsOK' /\ NothingLeft'
    BY <2>1 DEF ListsOK, ListOK, NothingLeft, HasPlan
  <2>4. ViewsPast' /\ SnapshotsAgree'
    BY <2>1, ViewsKept DEF PlanType
  <2>. QED
    BY <2>2, <2>3, <2>4
<1>4. ASSUME NEW t \in Thread, DeleteThread(t) PROVE PlanInv'
  <2>1. /\ threads[t] = "live" /\ threads'[t] = "deleted" /\ plan'[t] = NoPlan
        /\ \A u \in Thread : u # t => threads'[u] = threads[u] /\ plan'[u] = plan[u]
        /\ UNCHANGED <<life, ever, seen>>
    BY <1>4 DEF DeleteThread, PlanType
  <2>2. PlanType'
    BY <1>4 DEF DeleteThread, PlanType
  <2>3. ListsOK' /\ NothingLeft'
    BY <2>1 DEF ListsOK, ListOK, NothingLeft, HasPlan
  <2>4. ViewsPast' /\ SnapshotsAgree'
    BY <2>1, ViewsKept DEF PlanType
  <2>. QED
    BY <2>2, <2>3, <2>4
<1>5. ASSUME NEW a \in Actor, NEW t \in Thread, ListTodos(a, t) PROVE PlanInv'
  <2>. DEFINE v == [revision |-> plan[t].revision, thread |-> t, life |-> life[t],
                    items |-> plan[t].items]
  <2>1. /\ HasPlan(t) /\ UNCHANGED <<threads, plan, life, ever>>
        /\ seen' = [b \in Watched |-> IF b # a THEN seen[b] ELSE v]
    BY <1>5 DEF ListTodos, Show
  <2>2. v \in View
    <3>1. plan[t] \in List /\ life[t] \in Nat
      BY <2>1, ListType DEF PlanType
    <3>. QED
      BY <3>1 DEF View, List
  <2>3. PlanType'
    <3>. HIDE DEF v
    <3>. QED
      BY <2>1, <2>2 DEF PlanType
  <2>4. ListsOK' /\ NothingLeft'
    BY <2>1 DEF ListsOK, ListOK, NothingLeft, HasPlan
  <2>5. threads[t] = "live" /\ life[t] \in Nat
    BY <2>1 DEF ListsOK, ListOK, PlanType
  <2>6. \A b \in Watched : seen'[b] = seen[b] \/ seen'[b] = v
    BY <2>1
  <2>7. ViewsPast'
    BY <2>1, <2>5, <2>6 DEF ViewsPast
  <2>8. SnapshotsAgree'
    BY <2>1, <2>6 DEF SnapshotsAgree, HasPlan
  <2>. QED
    BY <2>3, <2>4, <2>7, <2>8
<1>6. ASSUME NEW t \in Thread, NEW u \in Thread, ForkThread(t, u) PROVE PlanInv'
  <2>1. /\ threads[t] = "live" /\ threads[u] = "unborn" /\ threads'[u] = "live"
        /\ plan'[u] = plan[t] /\ ever'[u] = ever[t] /\ UNCHANGED seen
        /\ life'[u] = IF HasPlan(t) THEN 1 ELSE 0
        /\ \A w \in Thread : w # u => /\ threads'[w] = threads[w] /\ plan'[w] = plan[w]
                                      /\ ever'[w] = ever[w] /\ life'[w] = life[w]
    BY <1>6 DEF ForkThread, PlanType
  <2>2. PlanType'
    BY <1>6 DEF ForkThread, PlanType
  <2>3. ListsOK' /\ NothingLeft'
    BY <2>1 DEF ListsOK, ListOK, NothingLeft, HasPlan
  <2>4. ViewsPast' /\ SnapshotsAgree'
    <3>. SUFFICES ASSUME NEW a \in Watched, seen[a] # NoPlan
         PROVE  /\ seen[a].thread \in Thread /\ seen[a].thread # u
                /\ threads[seen[a].thread] # "unborn" /\ seen[a].life <= life[seen[a].thread]
      BY <2>1 DEF ViewsPast, SnapshotsAgree, HasPlan
    <3>1. seen[a].thread \in Thread
      BY DEF PlanType, View
    <3>. QED
      BY <2>1, <3>1 DEF ViewsPast
  <2>. QED
    BY <2>2, <2>3, <2>4
<1>7. CASE UNCHANGED todoVars
  BY <1>7 DEF todoVars, PlanType, ListsOK, ListOK, NothingLeft, ViewsPast, SnapshotsAgree, HasPlan
<1>. QED
  BY <1>1, <1>2, <1>3, <1>4, <1>5, <1>6, <1>7, StepCases

LEMMA PlanInvHolds == TodoSpec => []PlanInv
BY PlanInit, PlanStep, PTL DEF TodoSpec

\* Whatever two actors, imports, forks and deletions do to the lists: who was shown a list
\* has what the store has until its revision changes, and the positions of a list are 1 to
\* the number of its items.
THEOREM ListsConsistentHolds == TodoSpec => []ListsConsistent
<1>1. PlanInv => PositionsDense
  BY ItemsCounted DEF PositionsDense, Positions
<1>2. PlanInv => ListsConsistent
  BY <1>1 DEF PlanInv, ListsConsistent
<1>. QED
  BY <1>2, PlanInvHolds, PTL

\* An identifier the store gives to a new item was never that of an item of this list, nor of
\* the list it was forked from.
THEOREM FreshIdsHolds == TodoSpec => FreshIds
<1>1. ASSUME PlanInv, [TodoNext]_todoVars, NEW u \in Thread, HasPlan(u), HasPlan(u)',
             NEW i \in PlanItems(u)', i.given = "store", i.created = plan'[u].revision,
             plan'[u] # plan[u]
      PROVE  i.id \notin ever[u]
  <2>1. ASSUME NEW t \in Thread, Wrote(t) PROVE i.id \notin ever[u]
    <3>1. PICK a \in Actor, p \in List : WellMade(t, p) /\ Write(a, t, p)
      BY <2>1 DEF Wrote
    <3>2. plan' = [plan EXCEPT ![t] = p]
      BY <3>1 DEF Write
    <3>3. u = t /\ plan'[u] = p
      BY <1>1, <3>2 DEF PlanInv, PlanType
    <3>4. i \in p.items
      BY <1>1, <3>3 DEF PlanItems
    <3>5. Next0(u) <= i.id
      BY <1>1, <3>1, <3>3, <3>4 DEF WellMade
    <3>6. \A id \in ever[u] : id \in Int /\ id < Next0(u)
      BY <1>1, OldItems
    <3>7. Next0(u) \in Int
      BY <1>1, ListType DEF PlanInv
    <3>. QED
      BY <3>5, <3>6, <3>7
  <2>2. ASSUME NEW t \in Thread, DeletePlan(t) \/ CreateThread(t) \/ DeleteThread(t) PROVE FALSE
    BY <1>1, <2>2 DEF DeletePlan, CreateThread, DeleteThread, HasPlan, PlanInv, PlanType
  <2>3. ASSUME NEW a \in Actor, NEW t \in Thread, ListTodos(a, t) PROVE FALSE
    BY <1>1, <2>3 DEF ListTodos
  <2>4. ASSUME NEW t \in Thread, NEW w \in Thread, ForkThread(t, w) PROVE FALSE
    <3>1. threads[w] = "unborn" /\ plan' = [plan EXCEPT ![w] = plan[t]]
      BY <2>4 DEF ForkThread
    <3>2. threads[u] = "live"
      BY <1>1 DEF PlanInv, ListsOK, ListOK
    <3>. QED
      BY <1>1, <3>1, <3>2 DEF PlanInv, PlanType
  <2>5. CASE UNCHANGED todoVars
    BY <1>1, <2>5 DEF todoVars
  <2>. QED
    BY <1>1, <2>1, <2>2, <2>3, <2>4, <2>5, StepCases
<1>2. PlanInv /\ [TodoNext]_todoVars =>
        [\A t \in Thread :
           HasPlan(t) /\ HasPlan(t)' =>
             \A i \in PlanItems(t)' :
               i.given = "store" /\ i.created = plan'[t].revision /\ plan'[t] # plan[t]
                 => i.id \notin ever[t]]_todoVars
  BY <1>1
<1>. QED
  BY <1>2, PlanInvHolds, PTL DEF TodoSpec, FreshIds
=============================================================================
