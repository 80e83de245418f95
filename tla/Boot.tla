-------------------------------- MODULE Boot --------------------------------
(***************************************************************************)
(* How Sandbar starts and stops (openLocalRuntime and main in cmd/sandbar):   *)
(* it opens the database, connects the configured MCP servers in parallel     *)
(* under a common budget, lists and registers their tools one server after    *)
(* the other under a second one, restricts the tools to an allowlist, and     *)
(* runs; at the end it gives its jobs three seconds to stop (JobSupervisor    *)
(* has how, and what may survive that), stops the servers, and closes the     *)
(* database (internal/mcp, Registry.Register and RestrictTo).  A rival        *)
(* program opens the same database meanwhile.                                 *)
(*                                                                           *)
(* Servers are numbered in the order of their names.  What a server does is   *)
(* given by the world: it answers, refuses, hangs, or connects and then never *)
(* lists its tools.  A timer may end a wait for any server still awaited, for *)
(* one that answers may be slow; the budget exceeds each server's own timeout *)
(* by a second, so it ends none of those.                                     *)
(***************************************************************************)
EXTENDS Migrations, Sequences, SequencesExt

CONSTANTS
  Main,      \* the program in question
  Worlds,    \* [kind, timed, offers, settings, allow]: what each server does,
             \* which have a timeout_ms, the names newTool gives their tools, the
             \* step at which the settings turn out bad, and --tools
  ToolName,  \* the names of tools
  BuiltIn    \* those of the built-in ones

ASSUME BootAssumption == Main \in Program

\* There are finitely many built-in tools, and a list of servers, each with a list of tools.
ASSUME ToolsAssumption ==
  /\ BuiltIn \subseteq ToolName /\ IsFiniteSet(BuiltIn)
  /\ \A w \in Worlds : /\ w.kind \in Seq({"serves", "refuses", "hangs", "mute"})
                       /\ w.offers \in [DOMAIN w.kind -> Seq(ToolName)]

VARIABLES
  world,
  pc,        \* where Main is
  failure,   \* the step it failed at, or "none"
  conn,      \* each server's connection
  spent,     \* the budgets that ran out
  listing,   \* the server whose tools are listed
  unlisted,  \* servers whose tools could not be listed
  manager,   \* the servers of the runtime's Manager
  tools,     \* Registry.tools: the server behind each name, 0 if built in
  order      \* Registry.order: the names as they are advertised

bootVars == <<world, pc, failure, conn, spent, listing, unlisted, manager, tools, order>>
vars == <<storeVars, bootVars>>

Server == DOMAIN world.kind
Up == {i \in Server : conn[i] = "up"}
Dialling == {i \in Server : conn[i] = "dialling"}

ClosedAll(S) == [i \in Server |-> IF i \in S THEN "closed" ELSE conn[i]]

Init ==
  /\ StoreInit
  /\ world \in Worlds
  /\ pc = "start" /\ failure = "none"
  /\ conn = [i \in Server |-> "none"]
  /\ spent = {} /\ listing = 1 /\ unlisted = {} /\ manager = {}
  /\ tools = [n \in BuiltIn |-> 0] /\ order = SetToSeq(BuiltIn)

Goto(from, to) == pc = from /\ pc' = to

\* openLocalRuntime closes the database and returns an error, which ends the
\* program; what else it holds then is not closed.
Fail(from, step) ==
  /\ Goto(from, "failed")
  /\ failure' = step
  /\ Gone(Main)

-----------------------------------------------------------------------------
(* The database and the settings.                                           *)

OpenStore ==
  /\ pc = "start"
  /\ OpenStep(Main)
  /\ pc' = CASE opening'[Main] = "open" -> "settings"
             [] opening'[Main] = "failed" -> "failed"
             [] OTHER -> pc
  /\ failure' = IF pc' = "failed" THEN "store" ELSE failure
  /\ UNCHANGED <<world, conn, spent, listing, unlisted, manager, tools, order>>

Configure ==
  /\ IF world.settings = "shell" THEN Fail("settings", "settings") /\ UNCHANGED conn
     ELSE /\ Goto("settings", IF Server = {} THEN "restrict" ELSE "connect")
          /\ conn' = [i \in Server |-> "dialling"]
          /\ UNCHANGED <<storeVars, failure>>
  /\ UNCHANGED <<world, spent, listing, unlisted, manager, tools, order>>

-----------------------------------------------------------------------------
(* Connecting.                                                              *)

Dial(i, outcome) ==
  /\ pc = "connect" /\ i \in Dialling
  /\ conn' = [conn EXCEPT ![i] = outcome]
  /\ UNCHANGED <<storeVars, world, pc, failure, spent, listing, unlisted, manager, tools, order>>

Answers(i) == world.kind[i] \in {"serves", "mute"} /\ Dial(i, "up")
Refuses(i) == world.kind[i] = "refuses" /\ Dial(i, "error")
TimesOut(i) == i \in world.timed /\ Dial(i, "error")
CutOff(i) == "connect" \in spent /\ Dial(i, "error")

BudgetEnds ==
  /\ pc = "connect" /\ "connect" \notin spent
  /\ Dialling \ world.timed # {}
  /\ spent' = spent \cup {"connect"}
  /\ UNCHANGED <<storeVars, world, pc, failure, conn, listing, unlisted, manager, tools, order>>

\* After the last connect ConnectAll looks at its own context, and closes them all if
\* the budget is over.
ConnectAll ==
  /\ Dialling = {}
  /\ IF "connect" \in spent
     THEN /\ Fail("connect", "connect") /\ conn' = ClosedAll(Up)
          /\ UNCHANGED manager
     ELSE /\ Goto("connect", "list") /\ manager' = Up
          /\ UNCHANGED <<storeVars, failure, conn>>
  /\ UNCHANGED <<world, spent, listing, unlisted, tools, order>>

-----------------------------------------------------------------------------
(* Tools.                                                                   *)

\* Register puts a tool in the place of one with its name, and advertises it once
\* more.
Registered(t, i) ==
  [n \in DOMAIN t \cup ToSet(world.offers[i]) |->
     IF n \in ToSet(world.offers[i]) THEN i ELSE t[n]]

Lists(i) == world.kind[i] = "serves" /\ "list" \notin spent

\* RegisterAll passes over the servers that are not connected.
ListTools ==
  /\ pc = "list" /\ listing \in Server
  /\ listing \notin Up \/ Lists(listing)
  /\ IF listing \in Up
     THEN /\ tools' = Registered(tools, listing)
          /\ order' = order \o world.offers[listing]
     ELSE UNCHANGED <<tools, order>>
  /\ listing' = listing + 1
  /\ UNCHANGED <<storeVars, world, pc, failure, conn, spent, unlisted, manager>>

\* A server that does not list its tools in time is passed over, and by then there is
\* no time left for those after it.
Unlisted ==
  /\ pc = "list" /\ listing \in Up /\ "list" \in spent
  /\ unlisted' = unlisted \cup {listing}
  /\ listing' = listing + 1
  /\ UNCHANGED <<storeVars, world, pc, failure, conn, spent, manager, tools, order>>

ListBudgetEnds_Never == FALSE                                         \* mutant
ListBudgetEnds == pc = "list" /\ listing \in Up

ListEnds ==
  /\ ListBudgetEnds /\ "list" \notin spent
  /\ spent' = spent \cup {"list"}
  /\ UNCHANGED <<storeVars, world, pc, failure, conn, listing, unlisted, manager, tools, order>>

RegisterAll ==
  /\ listing \notin Server
  /\ Goto("list", "restrict")
  /\ UNCHANGED <<storeVars, world, failure, conn, spent, listing, unlisted, manager, tools, order>>

Kept_All(allow) == order                                              \* mutant
Kept(allow) ==
  LET kept[k \in 0 .. Len(order)] ==
        IF k = 0 THEN <<>>
        ELSE IF order[k] \in allow THEN Append(kept[k - 1], order[k]) ELSE kept[k - 1]
  IN kept[Len(order)]

\* A name that is not registered, perhaps because its server failed, fails the boot.
RestrictTo ==
  LET allow == world.allow IN
  /\ IF allow = {"any"} THEN /\ Goto("restrict", "approval")
                             /\ UNCHANGED <<storeVars, failure, tools, order>>
     ELSE IF ~(allow \subseteq DOMAIN tools)
     THEN Fail("restrict", "allowlist") /\ UNCHANGED <<tools, order>>
     ELSE /\ Goto("restrict", "approval")
          /\ tools' = [n \in allow |-> tools[n]]
          /\ order' = Kept(allow)
          /\ UNCHANGED <<storeVars, failure>>
  /\ UNCHANGED <<world, conn, spent, listing, unlisted, manager>>

SetApprovalConfig ==
  /\ IF world.settings = "approval" THEN Fail("approval", "approval")
     ELSE Goto("approval", "running") /\ UNCHANGED <<storeVars, failure>>
  /\ UNCHANGED <<world, conn, spent, listing, unlisted, manager, tools, order>>

-----------------------------------------------------------------------------
(* Running and stopping.                                                    *)

\* A one-shot turn that fails, as well as a start without a usable model, goes through
\* die, which closes nothing.
Die ==
  /\ Goto("running", "failed") /\ failure' = "turn"
  /\ Gone(Main)
  /\ UNCHANGED <<world, conn, spent, listing, unlisted, manager, tools, order>>

Quit ==
  /\ Goto("running", "agent")
  /\ UNCHANGED <<storeVars, world, failure, conn, spent, listing, unlisted, manager, tools, order>>

\* The agent's Close has three seconds for the jobs.  Its error is passed over, so the
\* rest is closed even if jobs live on: one that refused its signal, or whose grace is
\* longer than that.
CloseAgent ==
  /\ Goto("agent", "sessions")
  /\ UNCHANGED <<storeVars, world, failure, conn, spent, listing, unlisted, manager, tools, order>>

\* Manager.Close: one connection after the other, whatever errors there are.
ToClose_Listed == manager \ unlisted                                  \* mutant
ToClose == manager

CloseSession(i) ==
  /\ pc = "sessions" /\ i \in ToClose \cap Up
  /\ \A j \in ToClose \cap Up : i <= j
  /\ conn' = ClosedAll({i})
  /\ UNCHANGED <<storeVars, world, pc, failure, spent, listing, unlisted, manager, tools, order>>

CloseStore ==
  /\ ToClose \cap Up = {}
  /\ Goto("sessions", "closed") /\ manager' = {}
  /\ Gone(Main)
  /\ UNCHANGED <<world, failure, conn, spent, listing, unlisted, tools, order>>

\* Other programs open the database, use it, and die at any time.
Rival ==
  /\ \E p \in Program \ {Main} :
       OpenStep(p) \/ (opening[p] # "closed" /\ Gone(p))
  /\ UNCHANGED bootVars

BootStep ==
  \/ OpenStore \/ Configure
  \/ \E i \in Server : Answers(i) \/ Refuses(i) \/ TimesOut(i) \/ CutOff(i)
  \/ BudgetEnds \/ ConnectAll
  \/ ListTools \/ Unlisted \/ ListEnds \/ RegisterAll
  \/ RestrictTo \/ SetApprovalConfig

Next ==
  \/ BootStep
  \/ Die \/ Quit \/ CloseAgent \/ CloseStore
  \/ \E i \in Server : CloseSession(i)
  \/ Rival

\* Code that can go on does, and timers fire.
Fairness == WF_vars(BootStep)

Spec == Init /\ [][Next]_vars
FairSpec == Spec /\ Fairness

-----------------------------------------------------------------------------
(* Properties.                                                              *)

\* When Sandbar has quit, or could not start for want of a database, settings or
\* servers, no connection to a server and no open database of it is left, those of
\* servers included whose tools were never registered (localRuntime.close, ConnectAll).
\* The later failures, where the code does leave them, are excepted.
NothingLeaks ==
  (pc = "closed" \/ (pc = "failed" /\ failure \in {"store", "settings", "connect"})) =>
    Up = {} /\ opening[Main] \in {"closed", "failed"} /\ Main \notin lock

\* However servers hang or stay mute, and rivals open the database, the start comes to
\* an end ("so a hung server cannot stall runtime construction", mcp.go).
BootEnds == <>(pc \in {"running", "failed"})

\* In the running program the tools advertised are those that can be called, each has
\* a live connection behind it, and none is missing of a server that connected, unless
\* the time to list them ran out or --tools says so (RegisterAll, RestrictTo).
ToolsServed ==
  pc = "running" =>
    /\ ToSet(order) = DOMAIN tools
    /\ \A n \in DOMAIN tools : tools[n] = 0 \/ tools[n] \in Up \cap manager
    /\ ("list" \notin spent /\ world.allow = {"any"}) =>
         \A i \in Up : ToSet(world.offers[i]) \subseteq DOMAIN tools

\* A server never keeps Sandbar from starting ("collects per-server failures as
\* warnings so one bad server is skipped instead of blocking startup", mcp.go).
ServersAreIsolated == failure # "connect"
=============================================================================
