----------------------------- MODULE MCTodoPlan -----------------------------
(* A small instance of TodoPlan. *)
EXTENDS TodoPlan

Item(id, text, status) == [id |-> id, text |-> text, status |-> status]
New == Item(0, "text", "none")

\* Valid calls, and one of each kind the tool refuses.
MCCalls ==
  {[action |-> "create", items |-> <<Item(0, "text", "completed")>>],
   [action |-> "create", items |-> <<New, New>>],
   [action |-> "create", items |-> <<Item(1, "none", "none")>>],
   [action |-> "update", items |-> <<Item(1, "none", "in_progress"), Item(2, "text", "none")>>],
   [action |-> "update", items |-> <<Item(1, "none", "none")>>],
   [action |-> "complete", items |-> <<Item(1, "none", "none")>>],
   [action |-> "complete", items |-> <<Item(1, "none", "none"), Item(1, "none", "none")>>],
   [action |-> "cancel", items |-> <<Item(2, "blank", "none")>>],
   [action |-> "cancel", items |-> <<Item(2, "none", "none")>>]}

\* Snapshots with names of the caller, some above those given out so far, one that
\* is no number and one too large.
MCImports ==
  {<<>>, <<New>>, <<Item(3, "text", "completed"), New>>, <<Item(-1, "text", "none")>>,
   <<Item(4, "text", "none"), Item(4, "text", "none")>>, <<Item(5, "text", "none")>>}
=============================================================================
