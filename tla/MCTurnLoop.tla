----------------------------- MODULE MCTurnLoop -----------------------------
(* Small instances of TurnLoop. *)
EXTENDS TurnLoop

MCNoFault  == {}
MCCompress == {"compress"}
MCAll      == {"crash", "sink", "store", "compress"}
=============================================================================
