-------------------------- MODULE SteeringMailbox --------------------------
(***************************************************************************)
(* What a user may rely on when sending messages to a working agent: the   *)
(* messages it takes reach the conversation in order, each at most once.   *)
(* While the work is interrupted, the first of those on their way may be   *)
(* lost; otherwise none is.                                                *)
(***************************************************************************)
EXTENDS Integers, Sequences

CONSTANT Message

VARIABLES
  taken,        \* all messages taken, in order
  pending,      \* those that are on their way
  delivered,    \* those that are in the conversation
  interrupted   \* the work is being cut short

vars == <<taken, pending, delivered, interrupted>>

Init == taken = <<>> /\ pending = <<>> /\ delivered = <<>> /\ interrupted \in BOOLEAN

\* What may be left of the messages s.
Left(s) ==
  IF interrupted THEN {SubSeq(s, k, Len(s)) : k \in 1 .. Len(s) + 1} ELSE {s}

Take(m) ==
  /\ taken' = Append(taken, m)
  /\ pending' = Append(pending, m)
  /\ UNCHANGED <<delivered, interrupted>>

Deliver ==
  /\ pending # <<>>
  /\ delivered' = Append(delivered, Head(pending))
  /\ pending' \in Left(Tail(pending))
  /\ UNCHANGED <<taken, interrupted>>

Lose ==
  /\ pending' \in Left(pending)
  /\ UNCHANGED <<taken, delivered, interrupted>>

Interrupt ==
  /\ interrupted' \in BOOLEAN
  /\ UNCHANGED <<taken, pending, delivered>>

Next == Deliver \/ Lose \/ Interrupt \/ \E m \in Message : Take(m)

Spec == Init /\ [][Next]_vars
=============================================================================
