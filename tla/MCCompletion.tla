---------------------------- MODULE MCCompletion ----------------------------
(* Small instances of Completion. *)
EXTENDS Completion

Text(atom) == [k |-> "text", atom |-> atom]
Think == [k |-> "think"]
Tool(i, part) == [k |-> "tool", index |-> i, part |-> part]
Stop(i) == [k |-> "stop", index |-> i]

Block(dialect, registered, params) ==
  [t |-> "block", dialect |-> dialect, tool |-> "file_read", registered |-> registered,
   agrees |-> TRUE, params |-> params, valid |-> params > 0]
A == Char("a")
B == Char("b")

MCResponses ==
  {<<>>, <<Think>>,
   <<Think, Text(A), Text(B)>>,
   <<Text(Lt), Text(OpenTag), Text(A), Text(Lt), Text(CloseTag), Text(B)>>,
   <<Text(A), Text(Lt), Text(B), Text(Lt)>>,
   <<Tool(1, "x"), Tool(0, "y"), Stop(1), Tool(0, "z")>>,
   <<Text(Block("xml", TRUE, 1)), Text(Block("invoke", FALSE, 1)), Text(Block("dsml", TRUE, 0))>>}

\* An embedded call and nothing else.
MCCallResponse == {<<Text(Block("xml", TRUE, 1))>>, <<Text(A)>>}

MCPayloads == SeqOf({"system", "nothing", "user", "calls", "tool"}, 3)
=============================================================================
