------------------------------ MODULE PlanMode ------------------------------
(***************************************************************************)
(* Plan mode of one thread: the persisted lifecycle state (plan_mode in    *)
(* internal/memory/thread.go), the turns that move it (Chat, buildMessages *)
(* and completePlanTurn in internal/agent/agent.go), the user's decision   *)
(* (ApprovePlan, RejectPlan) and the terminal UI that runs the turns and   *)
(* asks for that decision (cmd/sandbar/main.go).                           *)
(*                                                                         *)
(* The UI is one event loop; every turn is a goroutine of its own, and the *)
(* turns of a thread take a lock.  A decision is a read and a write of the *)
(* store without that lock.                                                *)
(***************************************************************************)
EXTENDS Integers, FiniteSets

CONSTANTS
  MaxTurns,    \* bound: turns explored
  MaxStash,    \* bound: messages stashed at a time
  MaxToggles,  \* bound: uses of /plan
  Features     \* what happens beside: the user's "stash", "notify", "compress", and
               \* "busy": a write of the plan state fails

ASSUME PlanAssumption ==
  /\ MaxTurns \in Nat \ {0} /\ MaxStash \in Nat /\ MaxToggles \in Nat
  /\ Features \subseteq {"stash", "notify", "compress", "busy"}

Turn == 1 .. MaxTurns

VARIABLES
  mode,        \* threads.plan_mode
  pc,          \* of every turn
  plan,        \* Request.PlanOnly of every turn
  snap,        \* plan_mode as a turn last read it
  told,        \* turns whose payload holds the execution directive
  item,        \* the turn's terminal item for the UI: "none", "done", "err"
  lock,        \* the turn that holds the thread's turn lock, or 0
  launched,    \* how many turns were launched; the last one is current
  toggle,      \* session.planMode
  menu,        \* the plan-decision menu is open
  streaming, draining, stash,
  deciding,    \* an approval that has read the store and not yet written it
  approvals,   \* how many approvals were recorded (history)
  asked,       \* the last turn whose payload was built (history)
  during,      \* turns alive when the approval read the store (history)
  unclear,     \* turns told to execute whose approval the store kept (history)
  compressing, \* a CompressNow saw an approved plan and is about to clear it
  toggles

turnVars == <<pc, plan, snap, told, lock>>
uiVars == <<launched, toggle, menu, streaming, draining, stash, deciding, toggles>>
historyVars == <<approvals, asked, during, unclear>>
vars == <<mode, item, turnVars, uiVars, historyVars, compressing>>

Mode == {"off", "planning", "pending", "approved"}
May(feature) == feature \in Features
Set(f, t, v) == [f EXCEPT ![t] = v]

\* SetThreadPlanMode, where the caller ignores its error.
TryWrite(m) == mode' = m \/ (May("busy") /\ mode' = mode)

Init ==
  /\ mode = "off"
  /\ pc = [t \in Turn |-> "none"]
  /\ plan = [t \in Turn |-> FALSE]
  /\ snap = [t \in Turn |-> "off"]
  /\ item = [t \in Turn |-> "none"]
  /\ told = {} /\ lock = 0 /\ launched = 0
  /\ toggle = FALSE /\ menu = FALSE /\ streaming = FALSE /\ draining = FALSE
  /\ stash = 0 /\ deciding = FALSE /\ toggles = 0
  /\ approvals = 0 /\ asked = 0 /\ during = {} /\ unclear = {}
  /\ compressing = FALSE

-----------------------------------------------------------------------------
(* A turn.                                                                  *)

Move(t, from, to) == pc[t] = from /\ pc' = Set(pc, t, to)

\* The stream goroutine reads the toggle only when it calls SendMessage.
SendMessage(t) ==
  /\ Move(t, "launched", "waiting")
  /\ plan' = Set(plan, t, toggle)
  /\ UNCHANGED <<mode, item, snap, told, lock, uiVars, historyVars, compressing>>

\* Chat takes the lock, then loads the thread.
TakeLock(t) ==
  /\ Move(t, "waiting", "loaded")
  /\ lock = 0
  /\ lock' = t
  /\ snap' = Set(snap, t, mode)
  /\ UNCHANGED <<mode, item, plan, told, uiVars, historyVars, compressing>>

Unfinished_PendingKept(m) == m = "planning"                          \* mutant
Unfinished_Approved(m) == m # "off"                                  \* mutant
Unfinished(m) == m \in {"planning", "pending"}

\* A plan turn marks the thread; another turn abandons an unfinished decision.
MarkTurn(t) ==
  /\ Move(t, "loaded", "marked")
  /\ mode' = IF plan[t] THEN "planning" ELSE IF Unfinished(snap[t]) THEN "off" ELSE mode
  /\ UNCHANGED <<item, plan, snap, told, lock, uiVars, historyVars, compressing>>

\* buildMessages loads the thread again...
ReadThread(t) ==
  /\ Move(t, "marked", "reading")
  /\ snap' = Set(snap, t, mode)
  /\ asked' = t
  /\ UNCHANGED <<mode, item, plan, told, lock, uiVars, approvals, during, unclear,
                 compressing>>

\* ...and gives an approved plan its one directive, clearing the state.  When the store
\* refuses, the directive goes out and the approval stands.
BuildPayload_StillApproved(t) ==                                     \* mutant
  /\ Move(t, "reading", "running")
  /\ told' = IF snap[t] = "approved" THEN told \cup {t} ELSE told
  /\ UNCHANGED <<mode, item, plan, snap, lock, uiVars, historyVars, compressing>>

BuildPayload(t) ==
  /\ Move(t, "reading", "running")
  /\ IF snap[t] = "approved"
     THEN /\ told' = told \cup {t}
          /\ TryWrite("off")
          /\ unclear' = unclear \cup {u \in {t} : mode' = "approved"}
     ELSE UNCHANGED <<told, mode, unclear>>
  /\ UNCHANGED <<item, plan, snap, lock, uiVars, approvals, asked, during, compressing>>

\* The model answers: the caller is told first, then the plan turn is marked
\* as completed, then the lock is released.
Answer(t) ==
  /\ Move(t, "running", "answered")
  /\ item' = Set(item, t, "done")
  /\ UNCHANGED <<mode, plan, snap, told, lock, uiVars, historyVars, compressing>>

Complete(t) ==
  /\ Move(t, "answered", "ended")
  /\ IF plan[t] THEN TryWrite("pending") ELSE UNCHANGED mode
  /\ lock' = 0
  /\ UNCHANGED <<item, plan, snap, told, uiVars, historyVars, compressing>>

\* An error, a refused write of MarkTurn's or a cancellation ends a turn anywhere before its answer.
Fail(t) ==
  /\ pc[t] \in {"waiting", "loaded", "marked", "reading", "running"}
  /\ pc' = Set(pc, t, "ended")
  /\ lock' = IF lock = t THEN 0 ELSE lock
  /\ item' = Set(item, t, "err")
  /\ UNCHANGED <<mode, plan, snap, told, uiVars, historyVars, compressing>>

-----------------------------------------------------------------------------
(* The event loop.  It does nothing else while an approval is being written. *)

Ready == ~deciding
Current == launched
Launchable == launched < MaxTurns

\* startStream: a new goroutine, and what the UI says of the turn.
Launch ==
  /\ launched' = launched + 1
  /\ pc' = Set(pc, launched + 1, "launched")

NoLaunch == UNCHANGED <<launched, pc>>

HasStash == stash > 0

LaunchStash ==
  /\ HasStash => Launchable
  /\ IF HasStash
     THEN Launch /\ streaming' = TRUE /\ stash' = stash - 1
     ELSE NoLaunch /\ streaming' = FALSE /\ UNCHANGED stash

\* The user sends a message.
Send ==
  /\ Ready /\ ~menu /\ ~streaming /\ Launchable
  /\ Launch /\ streaming' = TRUE
  /\ UNCHANGED <<mode, item, plan, snap, told, lock, toggle, menu, draining, stash,
                 deciding, toggles, historyVars, compressing>>

\* The result of a background task starts a turn by itself, menu or not.
Notify ==
  /\ May("notify")
  /\ Ready /\ ~streaming /\ Launchable
  /\ Launch /\ streaming' = TRUE
  /\ UNCHANGED <<mode, item, plan, snap, told, lock, toggle, menu, draining, stash,
                 deciding, toggles, historyVars, compressing>>

\* A message that the running turn cannot take is kept for after it.
Stash ==
  /\ May("stash")
  /\ Ready /\ ~menu /\ streaming /\ stash < MaxStash
  /\ stash' = stash + 1
  /\ UNCHANGED <<mode, item, turnVars, launched, toggle, menu, streaming,
                 draining, deciding, toggles, historyVars, compressing>>

\* /plan works at any time the input has the keys.
Toggle ==
  /\ Ready /\ ~menu /\ toggles < MaxToggles
  /\ toggle' = ~toggle /\ toggles' = toggles + 1
  /\ UNCHANGED <<mode, item, turnVars, launched, menu, streaming, draining,
                 stash, deciding, historyVars, compressing>>

\* Esc with no menu open interrupts the turn and drains its stream.
Interrupt ==
  /\ Ready /\ ~menu /\ streaming /\ ~draining
  /\ draining' = TRUE
  /\ UNCHANGED <<mode, item, turnVars, launched, toggle, menu, streaming,
                 stash, deciding, toggles, historyVars, compressing>>

\* The terminal item of the current stream: a stashed message starts, and with
\* the toggle on the menu opens.
SeeDone ==
  /\ Ready /\ streaming /\ ~draining /\ item[Current] = "done"
  /\ LaunchStash
  /\ menu' = (menu \/ toggle)
  /\ toggle' = FALSE
  /\ UNCHANGED <<mode, item, plan, snap, told, lock, draining, deciding, toggles,
                 historyVars, compressing>>

SeeError ==
  /\ Ready /\ streaming /\ ~draining /\ item[Current] = "err"
  /\ streaming' = FALSE
  /\ UNCHANGED <<mode, item, turnVars, launched, toggle, menu, draining, stash,
                 deciding, toggles, historyVars, compressing>>

SeeDrained ==
  /\ Ready /\ streaming /\ draining /\ item[Current] # "none"
  /\ draining' = FALSE
  /\ LaunchStash
  /\ UNCHANGED <<mode, item, plan, snap, told, lock, toggle, menu, deciding, toggles,
                 historyVars, compressing>>

Alive == {t \in Turn : pc[t] \notin {"none", "ended"}}

\* "approve": ApprovePlan reads the store; without a pending plan it fails.
Approve ==
  /\ Ready /\ menu
  /\ menu' = FALSE
  /\ deciding' = (mode = "pending")
  /\ during' = IF mode = "pending" THEN Alive ELSE during
  /\ UNCHANGED <<mode, item, turnVars, launched, toggle, streaming, draining,
                 stash, toggles, approvals, asked, unclear, compressing>>

RecordApproval ==
  /\ deciding
  /\ deciding' = FALSE
  /\ \/ mode' = "approved" /\ approvals' = approvals + 1
     \/ May("busy") /\ UNCHANGED <<mode, approvals>>
  /\ UNCHANGED <<item, turnVars, launched, toggle, menu, streaming, draining,
                 stash, toggles, asked, during, unclear, compressing>>

\* "cancel": RejectPlan writes whatever the state.
Reject ==
  /\ Ready /\ menu
  /\ menu' = FALSE
  /\ TryWrite("off")
  /\ UNCHANGED <<item, turnVars, launched, toggle, streaming, draining, stash,
                 deciding, toggles, historyVars, compressing>>

\* "edit", or Esc: only the menu goes.
CloseMenu ==
  /\ Ready /\ menu
  /\ menu' = FALSE
  /\ UNCHANGED <<mode, item, turnVars, launched, toggle, streaming, draining,
                 stash, deciding, toggles, historyVars, compressing>>

\* /compress builds the messages of the thread too, in a goroutine of its own.
CompressReads ==
  /\ May("compress") /\ mode = "approved" /\ ~compressing
  /\ compressing' = TRUE
  /\ UNCHANGED <<mode, item, turnVars, uiVars, historyVars>>

CompressClears ==
  /\ compressing
  /\ compressing' = FALSE
  /\ TryWrite("off")
  /\ UNCHANGED <<item, turnVars, uiVars, historyVars>>

\* The program is restarted and the thread resumed, while a turn runs or not.
Restart ==
  /\ \E t \in Turn : pc[t] # "none"
  /\ pc' = [t \in Turn |-> IF pc[t] = "none" THEN "none" ELSE "ended"]
  /\ item' = [t \in Turn |-> IF pc[t] = "none" THEN "none"
                             ELSE IF item[t] = "none" THEN "err" ELSE item[t]]
  /\ lock' = 0
  /\ toggle' = (mode = "planning") /\ menu' = (mode = "pending")
  /\ streaming' = FALSE /\ draining' = FALSE /\ stash' = 0
  /\ deciding' = FALSE /\ compressing' = FALSE
  /\ UNCHANGED <<mode, plan, snap, told, launched, toggles, historyVars>>

-----------------------------------------------------------------------------
TurnStep(t) ==
  \/ SendMessage(t) \/ TakeLock(t) \/ MarkTurn(t) \/ ReadThread(t) \/ BuildPayload(t)
  \/ Answer(t) \/ Complete(t)

Next ==
  \/ \E t \in Turn : TurnStep(t) \/ Fail(t)
  \/ Send \/ Notify \/ Stash \/ Toggle \/ Interrupt
  \/ SeeDone \/ SeeError \/ SeeDrained
  \/ Approve \/ RecordApproval \/ Reject \/ CloseMenu
  \/ CompressReads \/ CompressClears \/ Restart

Spec == Init /\ [][Next]_vars

(* Turns run on, one way or another, and the event loop handles what comes;  *)
(* nothing obliges the user to act.                                          *)
FairSpec ==
  /\ Spec
  /\ \A t \in Turn : WF_vars(TurnStep(t) \/ Fail(t))
  /\ WF_vars(SeeDone \/ SeeError \/ SeeDrained) /\ WF_vars(RecordApproval)

-----------------------------------------------------------------------------
(* Properties.                                                              *)

TypeOK ==
  /\ mode \in Mode
  /\ pc \in [Turn -> {"none", "launched", "waiting", "loaded", "marked", "reading",
                      "running", "answered", "ended"}]
  /\ plan \in [Turn -> BOOLEAN]
  /\ snap \in [Turn -> Mode]
  /\ item \in [Turn -> {"none", "done", "err"}]
  /\ told \subseteq Turn
  /\ lock \in 0 .. MaxTurns /\ launched \in 0 .. MaxTurns /\ asked \in 0 .. MaxTurns
  /\ during \subseteq Turn /\ unclear \subseteq Turn /\ toggle \in BOOLEAN /\ menu \in BOOLEAN /\ streaming \in BOOLEAN
  /\ draining \in BOOLEAN /\ deciding \in BOOLEAN /\ compressing \in BOOLEAN
  /\ stash \in 0 .. MaxStash /\ toggles \in 0 .. MaxToggles
  /\ approvals \in 0 .. MaxTurns

\* An approval is good for one directive: never do more turns execute a plan
\* than approvals were given, and one more for each time the store refused to take the
\* approval back; a turn that read it and one that another turn told are not both told.
OneDirective ==
  Cardinality(told) + (IF mode = "approved" THEN 1 ELSE 0)
    <= approvals + Cardinality(unclear)

\* A plan awaits a decision only while it is the last thing the model was asked
\* for: an interrupted plan turn leaves none, and a turn after the plan ends it.
PendingIsFresh ==
  mode = "pending" => asked > 0 /\ plan[asked] /\ item[asked] = "done"

\* "A stale pending state can never fire late": an approval that stands is for the plan
\* the model last made, unless the turn last asked is taking it or had it refused by the
\* store, or was already under way as the user approved (buildMessages, ApprovePlan).
ApprovalIsFresh ==
  mode = "approved"
    => \/ plan[asked]
       \/ snap[asked] = "approved" /\ asked \notin told
       \/ asked \in during \cup unclear

\* Both of a decision's states: what awaits one, and what one made, is the plan the
\* model was last asked for (ApprovePlan, Chat).
DecisionIsFresh == PendingIsFresh /\ ApprovalIsFresh

\* "The next turn injects the execution directive exactly once": an approval is
\* given up only to a turn that tells the model, when the user starts over or
\* discards it, to /compress, or to a turn that was under way as it was given.
ApprovalKept ==
  [][mode = "approved" /\ mode' # "approved"
       => \/ told' # told
          \/ menu /\ ~menu'
          \/ \E t \in Turn : plan[t] /\ pc[t] = "loaded" /\ pc'[t] = "marked"
          \/ compressing /\ ~compressing'
          \/ \E t \in during : pc'[t] # pc[t]]_vars

\* A stashed message is sent after the turn it waited for.
StashIsSent == stash > 0 ~> (stash = 0 \/ launched = MaxTurns)
=============================================================================
