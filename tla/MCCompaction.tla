---------------------------- MODULE MCCompaction ----------------------------
(* Small instances of Compaction. *)
EXTENDS Compaction

Setting(context, threshold, tail, enabled) ==
  [context |-> context, threshold |-> threshold, ratio |-> 50, tail |-> tail,
   output |-> 20, min |-> 1000, max |-> 12000, enabled |-> enabled, sameIds |-> FALSE]

MCSettings ==
  {Setting(65536, 80, 0, TRUE), Setting(60000, 80, 0, TRUE),
   Setting(60000, 90, 20000, TRUE), Setting(65536, 80, 0, FALSE),
   [Setting(65536, 60, 0, TRUE) EXCEPT !.sameIds = TRUE]}
=============================================================================
