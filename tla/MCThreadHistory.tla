--------------------------- MODULE MCThreadHistory ---------------------------
(* Small instances of ThreadHistory. *)
EXTENDS ThreadHistory

Scene(may, n) == [may |-> may, rows |-> n]

MCAll ==
  {Scene({"undo", "compress", "todo", "longtodo", "checkpoint", "crash"}, 4),
   Scene({"undo", "trim", "todo", "longtodo", "nudge", "checkpoint", "crash"}, 5),
   Scene({"compress", "trim", "todo", "longtodo", "nudge", "checkpoint"}, 4),
   Scene({"checkpoint"}, 8), Scene({"title"}, 4)}
MCTrim  == {Scene({"trim"}, MaxRows)}
MCAgain == {Scene({"checkpoint"}, MaxRows)}
MCTitle == {Scene({"title"}, MaxRows)}
=============================================================================
