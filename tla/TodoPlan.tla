------------------------------ MODULE TodoPlan ------------------------------
(***************************************************************************)
(* The task lists of the conversation threads (internal/memory/plan.go) and *)
(* the todo tool the model keeps them with (internal/tools/todo.go).  A      *)
(* thread has at most one list.  Its items are named by identifiers the      *)
(* store gives out, or that came with an imported snapshot; who was shown a  *)
(* list refers to its items by these names later on, when others, a          *)
(* sub-agent or a second Sandbar on the same database, may have changed it.  *)
(*                                                                         *)
(* Every write is one immediate transaction (withPlanWrite): one step, and   *)
(* an error is no step at all.  The words of an item are left out.  An       *)
(* identifier is a number; 0 is a blank one, and those below it stand for    *)
(* names that are no positive numbers.  The list a registry keeps in memory  *)
(* when it has no store or no thread is not in this module.                  *)
(***************************************************************************)
EXTENDS Integers, Sequences, FiniteSets, SequencesExt

CONSTANTS
  Thread, Actor,   \* an actor reads and writes task lists
  Watched,         \* the actors whose view of them is followed
  MaxId,           \* math.MaxInt64
  Calls,           \* what the model asks of the todo tool
  Imports,         \* lists of drafts a program may store as a whole
  MaxWrites, MaxItems   \* bounds: changes of lists, and the length of one

TodoStatus == {"pending", "in_progress", "completed", "cancelled"}

\* What a caller may send of an item: what is missing is "none".
Draft == [id : Int, text : {"text", "blank", "none"}, status : TodoStatus \cup {"none", "bad"}]

ASSUME TodoAssumption ==
  /\ Watched \subseteq Actor
  /\ MaxId \in Nat \ {0}
  /\ Imports \subseteq Seq(Draft)
  /\ \A drafts \in Imports : \A k \in DOMAIN drafts : drafts[k].id <= MaxId
  /\ \A call \in Calls : call.items \in Seq(Draft)
  /\ MaxWrites \in Nat /\ MaxItems \in Nat

VARIABLES
  threads,   \* which threads there are
  plan,      \* the list of each thread: [revision, next, items], or NoPlan
  life,      \* how many lists the thread had (history)
  ever,      \* identifiers that were in the list of this life (history)
  writes,    \* how many changes there were
  seen       \* the list each watched actor was shown last, or NoPlan

todoVars == <<threads, plan, life, ever, seen, writes>>

NoPlan == [revision |-> 0]
HasPlan(t) == plan[t] # NoPlan
PlanItems(t) == IF HasPlan(t) THEN plan[t].items ELSE {}   \* planItems
Ids(S) == {i.id : i \in S}

-----------------------------------------------------------------------------
(* Identifiers.                                                             *)

\* What allocateTodoID gives the nth time: the nth number from next on that is not
\* used.  The highest number of all is never given out.
Free(next, used) == (next .. (MaxId - 1)) \ used
Allocated(next, used, n) ==
  LET free == Free(next, used)
  IN  CHOOSE id \in free : Cardinality({j \in free : j <= id}) = n

\* The number to go on from once the identifiers in S are in the list.
After_Off(next, S) == Max({next} \cup {id \in S : id > 0})            \* mutant
After(next, S) == Max({next} \cup {id + 1 : id \in {i \in S : i > 0}})

-----------------------------------------------------------------------------
(* What a list may be made of.                                              *)

\* validateTodoDraft
DraftOK(d) == d.text = "text" /\ d.status # "bad"
Status(d) == IF d.status = "none" THEN "pending" ELSE d.status

Supplied(drafts) == {drafts[k].id : k \in DOMAIN drafts} \ {0}
Blanks(drafts) == {k \in DOMAIN drafts : drafts[k].id = 0}

\* prepareReplacement: the drafts it takes, the identifier of each and the items.
Acceptable(drafts, next) ==
  /\ \A k \in DOMAIN drafts : DraftOK(drafts[k])
  /\ Cardinality(Supplied(drafts)) + Cardinality(Blanks(drafts)) = Len(drafts)
  /\ MaxId \notin Supplied(drafts)
  /\ Cardinality(Blanks(drafts)) <= Cardinality(Free(next, Supplied(drafts)))

Named(drafts, next) ==
  [k \in DOMAIN drafts |->
     IF drafts[k].id # 0 THEN drafts[k].id
     ELSE Allocated(next, Supplied(drafts), Cardinality({j \in Blanks(drafts) : j <= k}))]

\* An item that stays keeps its time of creation, here the revision it came with.
Created(old, id, now) ==
  IF \E i \in old : i.id = id THEN (CHOOSE i \in old : i.id = id).created ELSE now

Prepared(drafts, next, old, now) ==
  LET ids == Named(drafts, next)
  IN  {[id |-> ids[k], position |-> k, status |-> Status(drafts[k]),
        created |-> Created(old, ids[k], now),
        given |-> IF drafts[k].id = 0 THEN "store" ELSE "caller"] : k \in DOMAIN drafts}

\* The keys of the todos table: insertTodos fails when two items share one.
Admits(S) ==
  \A i, j \in S : i # j => i.id # j.id /\ i.position # j.position

-----------------------------------------------------------------------------
TodoInit ==
  /\ threads = [t \in Thread |-> "unborn"]
  /\ plan = [t \in Thread |-> NoPlan]
  /\ life = [t \in Thread |-> 0]
  /\ ever = [t \in Thread |-> {}]
  /\ writes = 0
  /\ seen = [a \in Watched |-> NoPlan]

Show(a, t, p) ==
  seen' = [b \in Watched |->
             IF b # a THEN seen[b]
             ELSE [revision |-> p.revision, thread |-> t, life |-> life'[t], items |-> p.items]]

Writes == writes < MaxWrites /\ writes' = writes + 1

\* A write that ends with revision, next and items in the list of t, which loadPlan
\* then hands to actor a.
Write(a, t, p) ==
  /\ Admits(p.items) /\ Writes
  /\ Cardinality(p.items) <= MaxItems
  /\ plan' = [plan EXCEPT ![t] = p]
  /\ life' = IF HasPlan(t) THEN life ELSE [life EXCEPT ![t] = @ + 1]
  /\ ever' = [ever EXCEPT ![t] = @ \cup Ids(p.items)]
  /\ Show(a, t, p)
  /\ UNCHANGED threads

Revision(t) == plan[t].revision + 1
Next0(t) == IF HasPlan(t) THEN plan[t].next ELSE 1

-----------------------------------------------------------------------------
(* The operations of the store.                                             *)

\* A list as a whole becomes what the drafts say.
Replacement(t, drafts) ==
  LET items == Prepared(drafts, Next0(t), PlanItems(t), Revision(t))
  IN  [revision |-> Revision(t), items |-> items, next |-> After(Next0(t), Ids(items))]

CreatePlan(a, t, drafts) ==
  /\ threads[t] = "live" /\ ~HasPlan(t)
  /\ Acceptable(drafts, 1)
  /\ Write(a, t, Replacement(t, drafts))

ReplaceTodos(a, t, drafts) ==
  /\ threads[t] = "live"
  /\ Acceptable(drafts, Next0(t))
  /\ Write(a, t, Replacement(t, drafts))

DeletePlan(t) ==
  /\ HasPlan(t) /\ Writes
  /\ plan' = [plan EXCEPT ![t] = NoPlan]
  /\ ever' = [ever EXCEPT ![t] = {}]
  /\ UNCHANGED <<threads, life, seen>>

\* GetPlan and ListTodos
ListTodos(a, t) ==
  /\ HasPlan(t)
  /\ UNCHANGED <<threads, plan, life, ever, writes>>
  /\ Show(a, t, plan[t])

\* New items go to the end of the list, which is made if there is none.
CreateTodos(a, t, drafts) ==
  LET old == PlanItems(t)
      new == {[id |-> Allocated(Next0(t), Ids(old), k), position |-> Cardinality(old) + k,
               status |-> Status(drafts[k]), created |-> Revision(t), given |-> "store"]
                : k \in DOMAIN drafts}
  IN
  /\ threads[t] = "live" /\ drafts # <<>>
  /\ \A k \in DOMAIN drafts : drafts[k].id = 0 /\ DraftOK(drafts[k])
  /\ Len(drafts) <= Cardinality(Free(Next0(t), Ids(old)))
  /\ Write(a, t, [revision |-> Revision(t), items |-> old \cup new,
                  next |-> After(Next0(t), Ids(new))])

\* validateTodoUpdates
PatchesOK(updates) ==
  /\ updates # <<>> /\ Cardinality(Supplied(updates)) = Len(updates)
  /\ \A k \in DOMAIN updates :
       LET u == updates[k] IN
         /\ u.text # "blank" /\ u.status # "bad"
         /\ u.text # "none" \/ u.status # "none"

\* All items are changed, or none if one is not in the list.
UpdateTodos(a, t, updates) ==
  LET Changed(i) == {k \in DOMAIN updates : updates[k].id = i.id /\ updates[k].status # "none"}
      Apply(i) == IF Changed(i) = {} THEN i
                  ELSE [i EXCEPT !.status = updates[CHOOSE k \in Changed(i) : TRUE].status]
  IN
  /\ PatchesOK(updates)
  /\ HasPlan(t) /\ Supplied(updates) \subseteq Ids(plan[t].items)
  /\ Write(a, t, [plan[t] EXCEPT !.revision = @ + 1, !.items = {Apply(i) : i \in @}])

\* The items left move up.
Compact_Not(S) == S                                                   \* mutant
Compact(S) ==
  {[i EXCEPT !.position = Cardinality({j \in S : j.position <= i.position})] : i \in S}

DeleteTodos(a, t, ids) ==
  /\ ids # {} /\ ids \subseteq Ids(PlanItems(t))
  /\ Write(a, t, [plan[t] EXCEPT !.revision = @ + 1,
                                 !.items = Compact({i \in @ : i.id \notin ids})])

-----------------------------------------------------------------------------
(* The todo tool.                                                           *)

\* validateTodoInput and parseTodoItems
InputOK(action, i) ==
  /\ i.text # "blank" /\ i.status # "bad"
  /\ action = "create" => i.text = "text"
  /\ action # "create" => i.id # 0
  /\ action = "update" => i.text # "none" \/ i.status # "none"

Parses(call) ==
  /\ call.items # <<>>
  /\ \A k \in DOMAIN call.items : InputOK(call.action, call.items[k])
  /\ call.action # "create" => Cardinality(Supplied(call.items)) = Len(call.items)

\* mutatePersistedTodos: a new item is pending whatever was asked, and complete and
\* cancel set the status themselves.
Drafted(items) ==
  [k \in DOMAIN items |-> [id |-> 0, text |-> items[k].text, status |-> "pending"]]
Patches(call) ==
  [k \in DOMAIN call.items |->
     [call.items[k] EXCEPT !.status = CASE call.action = "complete" -> "completed"
                                        [] call.action = "cancel" -> "cancelled"
                                        [] OTHER -> @]]

TodoList(a, t) ==
  \/ ListTodos(a, t)
  \/ \E call \in Calls :
       /\ Parses(call)
       /\ IF call.action = "create" THEN CreateTodos(a, t, Drafted(call.items))
          ELSE UpdateTodos(a, t, Patches(call))

-----------------------------------------------------------------------------
(* Threads.                                                                 *)

CreateThread(t) ==
  /\ threads[t] = "unborn"
  /\ threads' = [threads EXCEPT ![t] = "live"]
  /\ UNCHANGED <<plan, life, ever, seen, writes>>

\* ForkThread copies the list of t to the new thread u, where the transcript that
\* names its items is copied too.
ForkThread(t, u) ==
  /\ threads[t] = "live" /\ threads[u] = "unborn"
  /\ threads' = [threads EXCEPT ![u] = "live"]
  /\ plan' = [plan EXCEPT ![u] = plan[t]]
  /\ life' = [life EXCEPT ![u] = IF HasPlan(t) THEN 1 ELSE 0]
  /\ ever' = [ever EXCEPT ![u] = ever[t]]
  /\ UNCHANGED <<seen, writes>>

\* DeleteThread: the list goes with the thread.
DeleteThread(t) ==
  /\ threads[t] = "live"
  /\ threads' = [threads EXCEPT ![t] = "deleted"]
  /\ plan' = [plan EXCEPT ![t] = NoPlan]
  /\ UNCHANGED <<life, ever, seen, writes>>

TodoNext ==
  \/ \E a \in Actor, t \in Thread :
       \/ TodoList(a, t)
       \/ \E drafts \in Imports : CreatePlan(a, t, drafts) \/ ReplaceTodos(a, t, drafts)
       \/ \E ids \in SUBSET Ids(PlanItems(t)) : DeleteTodos(a, t, ids)
  \/ \E t \in Thread :
       \/ DeletePlan(t) \/ CreateThread(t) \/ DeleteThread(t)
       \/ \E u \in Thread : ForkThread(t, u)

TodoSpec == TodoInit /\ [][TodoNext]_todoVars

-----------------------------------------------------------------------------
(* Properties.                                                              *)

\* The name the store gives a new item was never that of another item of the list,
\* removed ones and those a fork brought along included, so a name remembered from
\* an old list or transcript never hits the wrong item ("next_todo_id prevents ID
\* reuse after an item is removed or a plan is replaced",
\* migrations/0006_thread_plans.sql).
FreshIds ==
  [][\A t \in Thread :
       HasPlan(t) /\ HasPlan(t)' =>
         \A i \in PlanItems(t)' :
           i.given = "store" /\ i.created = plan'[t].revision /\ plan'[t] # plan[t]
             => i.id \notin ever[t]]_todoVars

\* Who was shown a list has what the store has, until its revision changes: a view
\* of the current revision is never out of date, and no view is ahead of the store
\* ("making snapshots safe to reconcile", plan.go).
SnapshotsAgree ==
  \A a \in Watched :
    LET s == seen[a] IN
    (s # NoPlan /\ HasPlan(s.thread) /\ life[s.thread] = s.life) =>
      LET p == plan[s.thread] IN
        s.revision < p.revision \/ (s.revision = p.revision /\ s.items = p.items)

\* The positions of a list are 1, 2, and so on, whatever was removed or replaced:
\* CreateTodos counts the items to place new ones, and one placed on another would
\* be refused by the table for good.
PositionsDense ==
  \A t \in Thread :
    {i.position : i \in PlanItems(t)} = 1 .. Cardinality(PlanItems(t))

\* What is shown of a list and how it is stored agree with what the calls did.
ListsConsistent == SnapshotsAgree /\ PositionsDense
=============================================================================
