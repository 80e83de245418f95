------------------------------- MODULE MCBoot -------------------------------
(* Small instances of Boot. *)
EXTENDS Boot

Start(kind, timed, offers, settings, allow) ==
  [kind |-> kind, timed |-> timed, offers |-> offers, settings |-> settings, allow |-> allow]

Kind == {"serves", "refuses", "hangs", "mute"}

\* Two servers of any kind, whose tools share a name once it is sanitised; and a start
\* without servers.
MCWorlds ==
  {Start(<<a, b>>, timed, <<<<"x", "y">>, <<"y">>>>, "good", {"any"})
     : a \in Kind, b \in Kind, timed \in SUBSET {1, 2}}
  \cup {Start(<<a, "serves">>, {}, <<<<"x">>, <<"y">>>>, settings, allow)
          : a \in Kind, settings \in {"good", "approval"}, allow \in {{}, {"y", "todo"}}}
  \cup {Start(<<>>, {}, <<>>, settings, {"any"}) : settings \in {"good", "shell"}}

\* A server without timeout_ms that hangs, beside one that serves.
MCHung == {Start(<<"hangs", "serves">>, {}, <<<<"x">>, <<"y">>>>, "good", {"any"})}
=============================================================================
