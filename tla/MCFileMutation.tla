--------------------------- MODULE MCFileMutation ---------------------------
(* Small instances of FileMutation. *)
EXTENDS FileMutation, TLC

CONSTANTS c1, c2, c3, p1, p2

\* Two goroutines of one process and a call of another.
MCProcessOf == (c1 :> p1) @@ (c2 :> p1) @@ (c3 :> p2)
MCOne == c1 :> p1

Anchor(l) == [hash |-> l, text |-> l]
MCRequest(op, name, old, new, anchors) ==
  [op |-> op, name |-> name, old |-> old, new |-> new, anchors |-> anchors]

Write == MCRequest("write", "link", <<>>, <<"b">>, <<>>)
AppendB == MCRequest("append", "real", <<>>, <<"b">>, <<>>)
Literal == MCRequest("patch", "real", <<"a">>, <<"b">>, <<>>)
Anchors == MCRequest("patch", "link", <<>>, <<"a">>, <<Anchor("b")>>)

MCBoth == (c1 :> AppendB) @@ (c2 :> Literal) @@ (c3 :> Write)
MCNew == (c1 :> Write) @@ (c2 :> Anchors) @@ (c3 :> AppendB)
Scene(start, requests, faults) == [start |-> start, requests |-> requests, faults |-> faults]

MCScenes == {Scene(<<"b", "a">>, MCBoth, {"cancel"}), Scene(<<"b", "a">>, MCNew, {"crash"}),
             Scene(Absent, MCNew, {"disk"})}

\* A file with two equal lines, and an edit that names the first of them.
MCTwice == {Scene(<<"a", "b", "c", "b">>,
                  c1 :> MCRequest("patch", "real", <<>>, <<"d">>, <<Anchor("a"), Anchor("b")>>), {})}

MCEdits == {Absent, <<"b">>}
=============================================================================
