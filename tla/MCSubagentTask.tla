--------------------------- MODULE MCSubagentTask ---------------------------
(* Small instances of SubagentTask. *)
EXTENDS SubagentTask

\* Two delegations in the background, a delegation that is resumed, and two
\* resumes of an old task.
MCScript == {<<"background", "background">>, <<"background", "resume">>,
             <<"delegate", "resume">>, <<"resume", "resume">>}
MCOne == {<<"delegate">>}

MCNoFault == {}
MCAll == {"insert", "update", "crash"}
=============================================================================
