------------------------------ MODULE JobPool ------------------------------
(***************************************************************************)
(* What the job supervisor promises, without goroutines, timers or signals: *)
(* a bounded pool of commands.  A job is live while its command runs, then  *)
(* kept for inspection, then gone; a live job is never gone.  A pool that   *)
(* was shut starts nothing any more, and is down only when it is empty.     *)
(***************************************************************************)
EXTENDS Integers, FiniteSets

CONSTANTS Job, Limits   \* Limits: the pairs of limits a pool may be given

VARIABLES limits, live, kept, gone, shut, down
vars == <<limits, live, kept, gone, shut, down>>

Init ==
  /\ limits \in Limits
  /\ live = {} /\ kept = {} /\ gone = {}
  /\ shut = FALSE /\ down = FALSE

\* The limits change only while the pool holds no job.
Configure ==
  /\ ~shut /\ live = {} /\ kept = {}
  /\ limits' \in Limits
  /\ UNCHANGED <<live, kept, gone, shut, down>>

\* A command starts; some finished records may go to make room for it.
Begin(j) ==
  /\ ~shut
  /\ j \notin live \cup kept \cup gone
  /\ live' = live \cup {j}
  /\ Cardinality(live') <= limits.MaxRunning
  /\ kept' \in SUBSET kept
  /\ Cardinality(live' \cup kept') <= limits.MaxJobs
  /\ gone' = gone \cup (kept \ kept')
  /\ UNCHANGED <<limits, shut, down>>

\* A command ends and its record is kept.
End(j) ==
  /\ j \in live
  /\ live' = live \ {j}
  /\ kept' = kept \cup {j}
  /\ UNCHANGED <<limits, gone, shut, down>>

\* Finished records go, for whatever reason.
Forget ==
  /\ kept' \in SUBSET kept
  /\ gone' = gone \cup (kept \ kept')
  /\ UNCHANGED <<limits, live, shut, down>>

Shut ==
  /\ ~shut
  /\ shut' = TRUE
  /\ UNCHANGED <<limits, live, kept, gone, down>>

\* A shut pool whose commands have all ended drops its records and is down.
GoDown ==
  /\ shut /\ ~down /\ live = {}
  /\ down' = TRUE
  /\ kept' = {}
  /\ gone' = gone \cup kept
  /\ UNCHANGED <<limits, live, shut>>

Next ==
  \/ Configure \/ Forget \/ Shut \/ GoDown
  \/ \E j \in Job : Begin(j) \/ End(j)

Spec == Init /\ [][Next]_vars
=============================================================================
