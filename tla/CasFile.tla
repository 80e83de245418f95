------------------------------- MODULE CasFile -------------------------------
(***************************************************************************)
(* What the mutating file tools promise of one file: a register that a     *)
(* call changes from the content it was computed from, or not at all.      *)
(* Editors that take no lock write whenever they like; only what they      *)
(* write between a call's last check and its swap can be lost.             *)
(***************************************************************************)
CONSTANTS
  Call,      \* calls of the tools
  Content,   \* contents, one of which stands for no file
  Absent

VARIABLES
  value,   \* the content of the file, or Absent
  mode,    \* its permission bits
  phase,   \* of each call: "new", "asked", "checked", "applied", "refused"
  want,    \* of each call: the content it expects and the one it puts there
  raced    \* calls whose checked file an editor has touched

vars == <<value, mode, phase, want, raced>>

Init ==
  /\ value \in Content
  /\ mode \in {"plain", "exec"}
  /\ phase = [c \in Call |-> "new"]
  /\ want \in [Call -> [old : Content, new : Content]]
  /\ raced = {}

Ask(c) ==
  /\ phase[c] = "new"
  /\ phase' = [phase EXCEPT ![c] = "asked"]
  /\ want'[c] \in [old : Content, new : Content]
  /\ want' = [want EXCEPT ![c] = want'[c]]
  /\ UNCHANGED <<value, mode, raced>>

\* A call is in possession of the file from its check to its swap.
Check(c) ==
  /\ phase[c] = "asked" /\ value = want[c].old
  /\ \A d \in Call : phase[d] # "checked"
  /\ phase' = [phase EXCEPT ![c] = "checked"]
  /\ UNCHANGED <<value, mode, want, raced>>

\* The mode survives, except for that of a file made by the call.
Swap(c) ==
  /\ phase[c] = "checked"
  /\ value = want[c].old \/ c \in raced
  /\ value' = want[c].new
  /\ \/ mode' = mode
     \/ mode' \in {"plain", "exec"} /\ (want[c].old = Absent \/ c \in raced)
  /\ phase' = [phase EXCEPT ![c] = "applied"]
  /\ UNCHANGED <<want, raced>>

\* A refused call has changed nothing; a crash refuses all calls of a process.
Refusals ==
  /\ \A c \in Call : phase'[c] # phase[c] =>
       phase[c] \in {"new", "asked", "checked"} /\ phase'[c] = "refused"
  /\ phase' \in [Call -> {"new", "asked", "checked", "applied", "refused"}]
  /\ UNCHANGED <<value, mode, want, raced>>

Outside ==
  /\ value' \in Content /\ mode' \in {"plain", "exec"}
  /\ raced' = raced \cup {c \in Call : phase[c] = "checked"}
  /\ UNCHANGED <<phase, want>>

Next ==
  \/ Outside \/ Refusals
  \/ \E c \in Call : Ask(c) \/ Check(c) \/ Swap(c)

Spec == Init /\ [][Next]_vars
=============================================================================
