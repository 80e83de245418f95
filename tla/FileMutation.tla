---------------------------- MODULE FileMutation ----------------------------
(***************************************************************************)
(* The mutating file tools: file_write, file_append and file_patch         *)
(* (internal/tools/file.go, patch.go, hashline.go) on top of mutateFile    *)
(* (file_mutation.go), called from several goroutines of several           *)
(* processes, beside an editor that takes no lock.                         *)
(*                                                                         *)
(* There is one file, "real", and a second name for it, the symbolic link  *)
(* "link".  A content is a sequence of lines; the digest of a content and  *)
(* the stamp of a line are taken for the content and the line themselves.  *)
(***************************************************************************)
EXTENDS Integers, Sequences, FiniteSets, SequencesExt, FiniteSetsExt

CONSTANTS
  Call,        \* calls of the tools
  Process,     \* operating-system processes
  ProcessOf,   \* the process of each call
  Scenes,      \* bound: what the file holds, who asks for what, what goes wrong
  Edits,       \* bound: what the editor may put there
  MaxEdits     \* bound: how often it does

None == "none"
Name == {"real", "link"}
Absent == <<"absent">>   \* ExpectedFileAbsent, and the content of no file
Mode == {"plain", "exec"}

Text == Seq(STRING)      \* a content, line by line
Request == [name : Name, op : {"write", "append", "patch"}, old : Text, new : Text,
            anchors : Seq([hash : STRING, text : STRING])]

ASSUME FileAssumption ==
  /\ IsFiniteSet(Call) /\ None \notin Call
  /\ ProcessOf \in [Call -> Process]
  /\ Edits \subseteq Text /\ MaxEdits \in Nat
  /\ \A s \in Scenes : s.start \in Text /\ s.requests \in [Call -> Request]
                       /\ s.faults \subseteq {"cancel", "crash", "disk"}

\* True of every string; the provers know nothing of STRING.
ASSUME StringFact == {"absent", "failed"} \subseteq STRING

VARIABLES
  disk,      \* content and mode of the file at each name
  linked,    \* whether "link" still is a symbolic link to "real"
  temps,     \* temporary files: the call that made it, with content and mode
  entries,   \* mutationPathLocks: of process and path, the entry, or none
  holder,    \* mutationLockEntry.mu of the entry a call made
  refs,      \* mutationLockEntry.refs of the entry a call made
  flocked,   \* flock of the lock file of each path
  pc, request, expected,   \* of a call
  path,      \* of a call: its canonical path
  entry,     \* of a call: the table entry it took, named by the call that made it
  work,      \* of a call: the new content and the mode it is to have
  outcome,   \* of a call: "none", "ok", "error"
  abandoned, \* calls whose context is done
  edits, raced,  \* number of edits, calls an editor overtook (history)
  scene

fileVars == <<disk, linked, temps>>
lockVars == <<entries, holder, refs, flocked>>
argVars == <<request, expected, path, entry>>
ghostVars == <<edits, raced, scene>>
vars == <<fileVars, lockVars, argVars, ghostVars, pc, work, outcome, abandoned>>

Set(f, x, v) == [f EXCEPT ![x] = v]
Move(c, from, to) == pc[c] = from /\ pc' = Set(pc, c, to)
May(fault) == fault \in scene.faults

----------------------------------------------------------------------------
(* What a request makes of a content; Failed when the tool refuses. *)

Failed == <<"failed">>

\* The map from a line's stamp to its index keeps the last of equal lines.
HashIndex(lines, h) == Max({i \in DOMAIN lines : lines[i] = h})

\* Every anchor must be the stamp of a line of the file with that text.
ValidateHashlines(lines, refs_) ==
  \A i \in DOMAIN refs_ : refs_[i].hash \in Range(lines) /\ refs_[i].text = refs_[i].hash

\* The span from the first to the last anchored line is replaced.
ApplyHashlineEdit(lines, refs_, new) ==
  LET at == {HashIndex(lines, refs_[i].hash) : i \in DOMAIN refs_}
  IN SubSeq(lines, 1, Min(at) - 1) \o new \o SubSeq(lines, Max(at) + 1, Len(lines))

Occurrences(lines, old) == {i \in DOMAIN lines : old = <<lines[i]>>}

\* The three transforms.  An old_str that occurs must occur once; one that does
\* not may be anchors.
FileWrite(r, lines) == r.new
FileAppend(r, lines) == lines \o r.new
FilePatch(r, lines) ==
  LET found == Occurrences(lines, r.old) IN
  CASE Cardinality(found) = 1 ->
         LET i == Max(found) IN SubSeq(lines, 1, i - 1) \o r.new \o SubSeq(lines, i + 1, Len(lines))
    [] found = {} /\ r.anchors # <<>> /\ ValidateHashlines(lines, r.anchors) ->
         ApplyHashlineEdit(lines, r.anchors, r.new)
    [] OTHER -> Failed

Transform(r, content) ==
  LET lines == IF content = Absent THEN <<>> ELSE content IN
  CASE r.op = "write"  -> FileWrite(r, lines)
    [] r.op = "append" -> FileAppend(r, lines)
    [] r.op = "patch"  -> IF content = Absent THEN Failed ELSE FilePatch(r, lines)

----------------------------------------------------------------------------
Init ==
  /\ scene \in Scenes
  /\ disk = [n \in Name |-> [content |-> IF n = "real" THEN scene.start ELSE Absent,
                             mode |-> "plain"]]
  /\ linked = TRUE /\ temps = {}
  /\ entries = [p \in Process |-> [n \in Name |-> None]]
  /\ holder = [c \in Call |-> None] /\ refs = [c \in Call |-> 0]
  /\ flocked = [n \in Name |-> None]
  /\ pc = [c \in Call |-> "idle"]
  /\ request = scene.requests
  /\ expected = [c \in Call |-> Absent]
  /\ path = [c \in Call |-> "real"] /\ entry = [c \in Call |-> None]
  /\ work = [c \in Call |-> [content |-> Absent, mode |-> "plain"]]
  /\ outcome = [c \in Call |-> "none"]
  /\ abandoned = {} /\ edits = 0 /\ raced = {}

\* What opening a name reaches.
Target(n) == IF n = "link" /\ linked THEN "real" ELSE n
Snapshot(n) == disk[Target(n)]

\* Symlinks of the existing portion are resolved: a link whose target is
\* missing stays itself.
CanonicalMutationPath(n) == IF Snapshot(n).content # Absent THEN Target(n) ELSE n

\* The model has read the file, and with it the digest it must send.
FileRead(c) ==
  /\ Move(c, "idle", "read")
  /\ expected' = Set(expected, c, Snapshot(request[c].name).content)
  /\ UNCHANGED <<fileVars, lockVars, request, path, entry, work, outcome, abandoned, ghostVars>>

\* file_patch refuses to work on a file that is not there; the path is
\* resolved before any lock is taken.
Resolve(c) ==
  /\ pc[c] = "read"
  /\ LET refused == request[c].op = "patch" /\ expected[c] = Absent IN
     /\ pc' = Set(pc, c, IF refused THEN "done" ELSE "resolved")
     /\ outcome' = Set(outcome, c, IF refused THEN "error" ELSE "none")
  /\ path' = Set(path, c, CanonicalMutationPath(request[c].name))
  /\ UNCHANGED <<fileVars, lockVars, request, expected, entry, work, abandoned, ghostVars>>

\* Under the table's mutex: find the entry of the path, or make it.
AcquireEntry(c) ==
  LET p == ProcessOf[c]
      e == IF entries[p][path[c]] = None THEN c ELSE entries[p][path[c]] IN
  /\ Move(c, "resolved", "waiting")
  /\ entry' = Set(entry, c, e)
  /\ entries' = [entries EXCEPT ![p][path[c]] = e]
  /\ refs' = [refs EXCEPT ![e] = @ + 1]
  /\ UNCHANGED <<fileVars, holder, flocked, request, expected, path, work, outcome, abandoned, ghostVars>>

LockEntry(c) ==
  /\ Move(c, "waiting", "entered")
  /\ holder[entry[c]] = None
  /\ holder' = Set(holder, entry[c], c)
  /\ UNCHANGED <<fileVars, entries, refs, flocked, argVars, work, outcome, abandoned, ghostVars>>

\* The lock file coordinates processes.
Flock_Shared(c) ==
  /\ Move(c, "entered", "locked")
  /\ flocked' = Set(flocked, path[c], c)
  /\ UNCHANGED <<fileVars, entries, holder, refs, argVars, work, outcome, abandoned, ghostVars>>

Flock(c) ==
  /\ Move(c, "entered", "locked")
  /\ flocked[path[c]] = None
  /\ flocked' = Set(flocked, path[c], c)
  /\ UNCHANGED <<fileVars, entries, holder, refs, argVars, work, outcome, abandoned, ghostVars>>

\* An error on the way: the temporary file goes, then the locks.
Leave(c) ==
  /\ pc' = Set(pc, c, "leaving")
  /\ outcome' = Set(outcome, c, "error")
  /\ temps' = {t \in temps : t.call # c}

\* Opening the lock file, the temporary file, writing or renaming it fails.
DiskFails(c) ==
  /\ May("disk") /\ pc[c] \in {"entered", "prepared", "written", "valid"}
  /\ Leave(c)
  /\ UNCHANGED <<disk, linked, lockVars, argVars, work, abandoned, ghostVars>>

\* First look at the file: the precondition, the transform, the context.
Prepare(c) ==
  /\ pc[c] = "locked"
  /\ LET before == Snapshot(path[c])
         new == Transform(request[c], before.content)
     IN IF c \notin abandoned /\ before.content = expected[c] /\ new # Failed
        THEN /\ pc' = Set(pc, c, "prepared")
             /\ work' = Set(work, c, [content |-> new,
                  mode |-> IF before.content = Absent THEN "plain" ELSE before.mode])
             /\ UNCHANGED <<temps, outcome>>
        ELSE Leave(c) /\ UNCHANGED work
  /\ UNCHANGED <<disk, linked, lockVars, argVars, abandoned, ghostVars>>

WriteTemp(c) ==
  /\ Move(c, "prepared", "written")
  /\ temps' = temps \cup {[call |-> c, content |-> work[c].content, mode |-> work[c].mode]}
  /\ UNCHANGED <<disk, linked, lockVars, argVars, work, outcome, abandoned, ghostVars>>

\* Second look, after the slow write: the precondition again, and the mode.
Revalidate(c) ==
  /\ pc[c] = "written"
  /\ LET current == Snapshot(path[c]) IN
     IF c \notin abandoned /\ current.content = expected[c]
     THEN /\ pc' = Set(pc, c, "valid")
          /\ temps' = {IF t.call = c /\ current.content # Absent
                       THEN [t EXCEPT !.mode = current.mode] ELSE t : t \in temps}
          /\ UNCHANGED outcome
     ELSE Leave(c)
  /\ UNCHANGED <<disk, linked, lockVars, argVars, work, abandoned, ghostVars>>

\* The rename replaces whatever stands at the path, a link included.
Rename(c) ==
  /\ Move(c, "valid", "leaving")
  /\ \E t \in temps :
       /\ t.call = c
       /\ disk' = Set(disk, path[c], [content |-> t.content, mode |-> t.mode])
       /\ temps' = temps \ {t}
  /\ linked' = (linked /\ path[c] # "link")
  /\ outcome' = Set(outcome, c, "ok")
  /\ UNCHANGED <<lockVars, argVars, work, abandoned, ghostVars>>

\* releaseLocal, first half: the lock file and the entry's mutex.
Unlock(c) ==
  /\ Move(c, "leaving", "unlocked")
  /\ flocked' = [n \in Name |-> IF flocked[n] = c THEN None ELSE flocked[n]]
  /\ holder' = Set(holder, entry[c], None)
  /\ UNCHANGED <<fileVars, entries, refs, argVars, work, outcome, abandoned, ghostVars>>

\* Second half, under the table's mutex: the last one out removes the entry.
Unused_Unasked(e) == TRUE
Unused(e) == refs[e] = 1
ReleaseEntry(c) ==
  /\ Move(c, "unlocked", "done")
  /\ refs' = [refs EXCEPT ![entry[c]] = @ - 1]
  /\ entries' = IF Unused(entry[c])
                THEN [entries EXCEPT ![ProcessOf[c]][path[c]] = None] ELSE entries
  /\ UNCHANGED <<fileVars, holder, flocked, argVars, work, outcome, abandoned, ghostVars>>

----------------------------------------------------------------------------
(* The surroundings. *)

\* A context that is done earlier is noticed after the locks at the soonest.
Cancel(c) ==
  /\ May("cancel") /\ pc[c] \in {"locked", "prepared", "written"} /\ c \notin abandoned
  /\ abandoned' = abandoned \cup {c}
  /\ UNCHANGED <<fileVars, lockVars, argVars, pc, work, outcome, ghostVars>>

\* A process dies: its memory goes, the kernel drops its file locks, its
\* temporary files stay.
Crash(p) ==
  LET lost == {c \in Call : ProcessOf[c] = p} IN
  /\ May("crash") /\ \E c \in lost : pc[c] \notin {"done", "crashed"}
  /\ pc' = [c \in Call |-> IF c \in lost /\ pc[c] # "done" THEN "crashed" ELSE pc[c]]
  /\ flocked' = [n \in Name |-> IF flocked[n] \in lost THEN None ELSE flocked[n]]
  /\ entries' = Set(entries, p, [n \in Name |-> None])
  /\ holder' = [c \in Call |-> IF c \in lost THEN None ELSE holder[c]]
  /\ refs' = [c \in Call |-> IF c \in lost THEN 0 ELSE refs[c]]
  /\ UNCHANGED <<fileVars, argVars, work, outcome, abandoned, ghostVars>>

\* An editor writes, removes or changes the mode of the file.
Edit ==
  /\ edits < MaxEdits /\ edits' = edits + 1
  /\ \E s \in Edits, m \in Mode :
       /\ s = Absent => m = "plain"
       /\ disk["real"] # [content |-> s, mode |-> m]
       /\ disk' = Set(disk, "real", [content |-> s, mode |-> m])
  /\ raced' = raced \cup {c \in Call : pc[c] = "valid" /\ path[c] = "real"}
  /\ UNCHANGED <<linked, temps, lockVars, argVars, pc, work, outcome, abandoned, scene>>

\* The only state in which nothing is left to do: TLC reports any other as a
\* deadlock, so no call waits for a lock that nobody will release.
Finished ==
  /\ \A c \in Call : pc[c] \in {"done", "crashed"}
  /\ UNCHANGED vars

Step(c) ==
  \/ Resolve(c) \/ AcquireEntry(c) \/ LockEntry(c) \/ Flock(c) \/ Prepare(c)
  \/ WriteTemp(c) \/ Revalidate(c) \/ Rename(c) \/ Unlock(c) \/ ReleaseEntry(c)

Next ==
  \/ \E c \in Call : FileRead(c) \/ Step(c) \/ DiskFails(c) \/ Cancel(c)
  \/ \E p \in Process : Crash(p)
  \/ Edit
  \/ Finished

Spec == Init /\ [][Next]_vars

----------------------------------------------------------------------------
(* Properties. *)

TypeOK ==
  /\ DOMAIN disk = Name /\ \A n \in Name : disk[n].mode \in Mode
  /\ pc \in [Call -> {"idle", "read", "resolved", "waiting", "entered", "locked", "prepared",
                      "written", "valid", "leaving", "unlocked", "done", "crashed"}]
  /\ \A p \in Process : entries[p] \in [Name -> Call \cup {None}]
  /\ holder \in [Call -> Call \cup {None}] /\ refs \in [Call -> 0 .. Cardinality(Call)]
  /\ outcome \in [Call -> {"none", "ok", "error"}]

Holding == {"waiting", "entered", "locked", "prepared", "written", "valid", "leaving", "unlocked"}

\* Every call between taking and dropping an entry uses the entry the table
\* shows for its path, and the entry's count is that of these calls: a second
\* mutex for a path in use would serialise nothing.
TableExact ==
  \A c \in Call : pc[c] \in Holding =>
    /\ entry[c] = entries[ProcessOf[c]][path[c]]
    /\ refs[entry[c]] = Cardinality({d \in Call : pc[d] \in Holding /\ entry[d] = entry[c]
                                                   /\ ProcessOf[d] = ProcessOf[c]})

\* A temporary file belongs to a call that is about to rename it, or is what a
\* crash left behind; an answered call leaves none.
TempsOwned ==
  /\ \A t \in temps : pc[t.call] \in {"written", "valid", "crashed"}
  /\ \A t, u \in temps : t.call = u.call => t = u

\* The lock table and the temporary files of mutateFile are consistent with the
\* calls in progress, through cancellations, failures and crashes.
LocksAndTempsExact == TypeOK /\ TableExact /\ TempsOwned

\* The register of CasFile is the file at "real"; a call that goes for the
\* dangling link has no part in it.
Phase(c) ==
  IF outcome[c] = "ok" /\ path[c] = "real" THEN "applied"
  ELSE IF outcome[c] # "none" \/ pc[c] = "crashed" \/ path[c] = "link" THEN "refused"
  ELSE IF pc[c] = "idle" THEN "new"
  ELSE IF pc[c] = "valid" THEN "checked" ELSE "asked"

File == INSTANCE CasFile WITH
  Content <- Seq(STRING),
  value <- disk["real"].content,
  mode <- disk["real"].mode,
  phase <- [c \in Call |-> Phase(c)],
  want <- [c \in Call |-> [old |-> expected[c], new |-> Transform(request[c], expected[c])]]

\* The file is a compare-and-swap register: whatever the goroutines, processes,
\* names, cancellations, failures and crashes, a call replaces exactly the
\* content it was computed from, at most once, or changes nothing and says so;
\* only an editor's change in the instant before the rename can be lost.
ImplementsFile == File!Spec

\* "lines are selected by content anchor": every line an edit by anchors removes
\* stands between two lines the model named, or is one of them.
AnchorsSelect ==
  \A c \in Call : outcome[c] = "ok" /\ request[c].op = "patch" /\ request[c].old = <<>> =>
    LET before == expected[c] IN
    \E i, j \in DOMAIN before :
      /\ i <= j /\ j - i = Len(request[c].anchors) - 1
      /\ \A k \in i .. j : before[k] = request[c].anchors[k - i + 1].hash
      /\ work[c].content = SubSeq(before, 1, i - 1) \o request[c].new
                             \o SubSeq(before, j + 1, Len(before))
=============================================================================
