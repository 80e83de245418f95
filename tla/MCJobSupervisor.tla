-------------------------- MODULE MCJobSupervisor --------------------------
(* Instances of JobSupervisor for TLC. *)
EXTENDS JobSupervisor, TLC

CONSTANTS j1, j2, t1, t2

\* One owner and one kind of command.
MCOneOwner == [j \in Job |-> t1]
MCPlain == [j \in Job |-> "plain"]

\* Two owners; the second command refuses signals.
MCTwoOwners == (j1 :> t1) @@ (j2 :> t2)
MCMixed == (j1 :> "plain") @@ (j2 :> "setuid")

\* Zero means the defaults, and a running limit above the record limit is cut.
MCRawConfig == {[MaxJobs |-> 0, MaxRunning |-> 0], [MaxJobs |-> 2, MaxRunning |-> 1],
                [MaxJobs |-> 1, MaxRunning |-> 5]}
MCTightConfig == {[MaxJobs |-> 0, MaxRunning |-> 0], [MaxJobs |-> 1, MaxRunning |-> 5]}
MCOneConfig == {[MaxJobs |-> 2, MaxRunning |-> 5]}
=============================================================================
