---------------------------- MODULE SandboxServer ----------------------------
(***************************************************************************)
(* cmd/semteams/sandbox: the HTTP server that owns one workspace per task. *)
(* Handlers run concurrently and serialise on the task's mutex; commands   *)
(* run for as long as they like inside it; read_only_paths are kept in     *)
(* memory and enforced by chmod sweeps after every mutation, which may     *)
(* fail half-way; the process may die at any point and only the disk       *)
(* survives.  One task is modelled: tasks share nothing but the maps that  *)
(* hold their mutex and metadata.                                          *)
(***************************************************************************)
EXTENDS Integers, FiniteSets

CONSTANTS
  Handlers,     \* requests in progress at the same time
  DirFiles,     \* files inside Dir
  RootFiles,    \* files directly in the workspace
  Dir,          \* a directory of the workspace
  Values,       \* file contents
  Absent,       \* content of a file that does not exist
  Free,         \* the mutex has no holder
  MaxRestarts   \* bound on process restarts

ASSUME SandboxConstantsOK ==
  /\ Dir \notin DirFiles \cup RootFiles
  /\ DirFiles \cap RootFiles = {}
  /\ Absent \notin Values
  /\ Free \notin Handlers
  /\ MaxRestarts \in Nat

Files == DirFiles \cup RootFiles
Nodes == Files \cup {Dir}
Entries == RootFiles \cup {Dir}   \* what read_only_paths may name

VARIABLES
  tree,       \* the workspace directory: "absent", "bare" (no git yet), "ready"
              \* or "partial" (what a failed deletion or rollback left)
  content,    \* content of each file
  dirThere,   \* Dir exists
  ro,         \* nodes whose write permission was removed
  meta,       \* taskMeta: the read_only_paths in memory
  lock,       \* holder of the task mutex
  act,        \* what each handler is doing
  promised,   \* history: read_only_paths recorded since the last deletion began
  sealed,     \* history: content of Dir when it was first swept, or Open
  sweepErr,   \* history: the last sweep had errors
  restarts

disk == <<tree, content, dirThere, ro>>
history == <<promised, sealed, sweepErr>>
vars == <<disk, meta, lock, act, history, restarts>>

Idle == [op |-> "idle", step |-> "none", entries |-> {}]
Steps == {"none", "wait", "locked", "git", "meta", "sweep", "remove", "forget",
          "run", "drain"}
Ops == {"create", "delete", "write", "read", "archive", "exec"}

Open == [p \in {} |-> Absent]

Init ==
  /\ tree = "absent" /\ content = [p \in Files |-> Absent]
  /\ dirThere = FALSE /\ ro = {}
  /\ meta = {} /\ lock = Free
  /\ act = [h \in Handlers |-> Idle]
  /\ promised = {} /\ sealed = Open /\ sweepErr = FALSE /\ restarts = 0

Exists == {p \in Files : content[p] # Absent} \cup (IF dirThere THEN {Dir} ELSE {})
Under(e) == IF e = Dir THEN {Dir} \cup DirFiles ELSE {e}
Covered(es) == {n \in Nodes : \E e \in es : n \in Under(e)}

\* Permission to create or overwrite p, and to remove it: a directory without
\* write permission fixes the set of its entries, not their content.
DirWritable(p) == p \in DirFiles /\ dirThere => Dir \notin ro
MayWrite(p) == IF p \in Exists THEN p \notin ro ELSE DirWritable(p)
MayRemove(p) == p \in Exists /\ DirWritable(p)

Put(p, v) ==
  /\ content' = [content EXCEPT ![p] = v]
  /\ dirThere' = (dirThere \/ p \in DirFiles)

At(h, op, step) == act[h].op = op /\ act[h].step = step /\ lock = h
Go(h, step) == act' = [act EXCEPT ![h].step = step]

\* Responding releases the mutex (deferred unlock).
Respond(h) == act' = [act EXCEPT ![h] = Idle] /\ lock' = Free

(***************************************************************************)
(* Request entry                                                           *)
(***************************************************************************)

\* A request that passed validation waits for the task mutex.
Arrive(h, op, entries) ==
  /\ act[h] = Idle
  /\ act' = [act EXCEPT ![h] = [op |-> op, step |-> "wait", entries |-> entries]]
  /\ UNCHANGED <<disk, meta, lock, history, restarts>>

getTaskMutex(h) ==
  /\ act[h].step = "wait" /\ lock = Free
  /\ lock' = h /\ Go(h, "locked")
  /\ UNCHANGED <<disk, meta, history, restarts>>

(***************************************************************************)
(* read_only_paths                                                         *)
(***************************************************************************)

\* What a sweep that froze done, of all it had to, is remembered for.
Swept(es, done, all) ==
  /\ ro' = ro \cup done
  /\ sweepErr' = (done # all)
  /\ sealed' = IF done = all /\ Dir \in es /\ dirThere /\ sealed = Open
               THEN [p \in DirFiles |-> content[p]] ELSE sealed

\* A walk visits a directory before its files and stops at the first error.
Walked(all) == {done \in SUBSET all : done \cap DirFiles # {} /\ Dir \in all => Dir \in done}

\* Mutant: the sweep freezes files but leaves directories writable.
FilesOnly_applyReadOnlyChmod(es) ==
  LET all == (Exists \ {Dir}) \cap Covered(es) IN
  \E done \in Walked(all) : Swept(es, done, all)

\* Freeze what exists under the given paths; a path that does not exist yet is
\* left to a later sweep.  An error is logged and the request answered with 200.
applyReadOnlyChmod(es) ==
  LET all == Exists \cap Covered(es) IN
  \E done \in Walked(all) : Swept(es, done, all)

\* The sweep that ends a write and an exec.
FinishWithSweep(h) ==
  /\ applyReadOnlyChmod(meta)
  /\ Respond(h)
  /\ UNCHANGED <<tree, content, dirThere, meta, promised, restarts>>

(***************************************************************************)
(* POST /worktree                                                          *)
(***************************************************************************)

\* createWorkspace, first half: an existing directory is taken as it is.
createWorkspace(h, op, then) ==
  /\ At(h, op, "locked")
  /\ \/ tree = "absent" /\ tree' = "bare" /\ Go(h, "git")
     \/ tree # "absent" /\ UNCHANGED tree /\ Go(h, then)
  /\ UNCHANGED <<content, dirThere, ro, meta, lock, history, restarts>>

\* Mutant: a failed git init leaves the directory behind.
NoRollback_initGitRepo(h, op, then) ==
  /\ At(h, op, "git")
  /\ \/ tree' = "ready" /\ Go(h, then) /\ UNCHANGED lock
     \/ UNCHANGED tree /\ Respond(h)
  /\ UNCHANGED <<content, dirThere, ro, meta, history, restarts>>

\* Second half: git init fails, times out or is cancelled by the client; the
\* directory is rolled back, as far as that succeeds (its error is ignored), and
\* the request answered with 500.
initGitRepo(h, op, then) ==
  /\ At(h, op, "git")
  /\ \/ tree' = "ready" /\ Go(h, then) /\ UNCHANGED lock
     \/ tree' \in {"absent", "partial"} /\ Respond(h)
  /\ UNCHANGED <<content, dirThere, ro, meta, history, restarts>>

\* Mutant: the last request's paths replace the earlier ones.
Replace_MergeMeta(h) ==
  /\ At(h, "create", "meta")
  /\ meta' = act[h].entries /\ promised' = promised \cup act[h].entries
  /\ Go(h, "sweep")
  /\ UNCHANGED <<disk, lock, sealed, sweepErr, restarts>>

\* Re-creating an existing workspace adds paths, never drops one.
MergeMeta(h) ==
  /\ At(h, "create", "meta")
  /\ meta' = meta \cup act[h].entries /\ promised' = promised \cup act[h].entries
  /\ Go(h, "sweep")
  /\ UNCHANGED <<disk, lock, sealed, sweepErr, restarts>>

handleCreateWorktree(h) ==
  \/ createWorkspace(h, "create", "meta")
  \/ initGitRepo(h, "create", "meta")
  \/ MergeMeta(h)
  \/ At(h, "create", "sweep") /\ FinishWithSweep(h)

(***************************************************************************)
(* DELETE /worktree                                                        *)
(***************************************************************************)

\* Everything is made writable before it is removed; the walk may stop at an
\* error: 500.
chmodTreeWritable(h) ==
  /\ At(h, "delete", "locked")
  /\ sealed' = Open /\ promised' = {}
  /\ \/ ro' = {} /\ Go(h, "remove") /\ UNCHANGED lock
     \/ /\ ro' \in {still \in SUBSET ro : Dir \in still => ro \cap DirFiles \subseteq still}
        /\ Respond(h)
  /\ UNCHANGED <<tree, content, dirThere, meta, sweepErr, restarts>>

\* RemoveAll may fail half-way: 500, and the metadata stays.
removeWorkspace(h) ==
  /\ At(h, "delete", "remove")
  /\ \/ /\ tree' = "absent" /\ content' = [p \in Files |-> Absent] /\ dirThere' = FALSE
        /\ Go(h, "forget") /\ UNCHANGED lock
     \/ /\ \E kept \in SUBSET Files :
             content' = [p \in Files |-> IF p \in kept THEN content[p] ELSE Absent]
        /\ tree' = (IF tree = "absent" THEN tree ELSE "partial")
        /\ Respond(h) /\ UNCHANGED dirThere
  /\ UNCHANGED <<ro, meta, history, restarts>>

ForgetMeta(h) ==
  /\ At(h, "delete", "forget")
  /\ meta' = {}
  /\ Respond(h)
  /\ UNCHANGED <<disk, history, restarts>>

handleDeleteWorktree(h) == chmodTreeWritable(h) \/ removeWorkspace(h) \/ ForgetMeta(h)

(***************************************************************************)
(* PUT /file, GET /file, GET /worktree/{taskID}/archive                    *)
(***************************************************************************)

\* 404, also for an archive of a missing workspace.
NotFound(h) ==
  /\ lock = h /\ act[h].step = "locked" /\ act[h].op \in {"write", "read", "archive"}
  /\ tree = "absent"
  /\ Respond(h)
  /\ UNCHANGED <<disk, meta, history, restarts>>

\* 403 when the file or its directory is frozen.
WriteForbidden(h, p) ==
  /\ At(h, "write", "locked") /\ tree # "absent"
  /\ ~MayWrite(p)
  /\ Respond(h)
  /\ UNCHANGED <<disk, meta, history, restarts>>

handleWriteFile(h, p, v) ==
  /\ At(h, "write", "locked") /\ tree # "absent"
  /\ MayWrite(p) /\ Put(p, v)
  /\ Go(h, "sweep")
  /\ UNCHANGED <<tree, ro, meta, lock, history, restarts>>

WriteSweep(h) == At(h, "write", "sweep") /\ FinishWithSweep(h)

\* Reads and archives change nothing, whatever they return.
handleReadFile(h) ==
  /\ At(h, "read", "locked") /\ tree # "absent"
  /\ Respond(h)
  /\ UNCHANGED <<disk, meta, history, restarts>>

handleZipWorkspace(h) ==
  /\ At(h, "archive", "locked") /\ tree # "absent"
  /\ Respond(h)
  /\ UNCHANGED <<disk, meta, history, restarts>>

(***************************************************************************)
(* POST /exec                                                              *)
(***************************************************************************)

\* The command is a shell of the same user and its children: they create,
\* overwrite and remove what permissions allow, any number of times, and may
\* rename a directory, frozen or not, or remove it when it is empty: its parent,
\* the workspace, stays writable.
Running(h) == At(h, "exec", "run") \/ At(h, "exec", "drain")

ExecWrites(h, p, v) ==
  /\ Running(h)
  /\ MayWrite(p) /\ Put(p, v)
  /\ UNCHANGED <<tree, ro, meta, lock, act, history, restarts>>

ExecRemoves(h, p) ==
  /\ Running(h)
  /\ MayRemove(p)
  /\ content' = [content EXCEPT ![p] = Absent]
  /\ ro' = ro \ {p}
  /\ UNCHANGED <<tree, dirThere, meta, lock, act, history, restarts>>

ExecMovesDir(h) ==
  /\ Running(h)
  /\ dirThere /\ dirThere' = FALSE
  /\ content' = [p \in Files |-> IF p \in DirFiles THEN Absent ELSE content[p]]
  /\ ro' = ro \ Under(Dir)
  /\ sealed' = Open
  /\ UNCHANGED <<tree, meta, lock, act, promised, sweepErr, restarts>>

\* Mutant: no timeout, so a shell that waits for a file waits for ever.
Untimed_ShellEnds(h) ==
  /\ At(h, "exec", "run") /\ Exists # {}
  /\ FinishWithSweep(h)

\* The shell exits, or is killed at the timeout or when the client gives up.
\* If a child still holds its output open, cmd.Run goes on waiting.
ShellEnds(h) ==
  /\ At(h, "exec", "run")
  /\ \/ FinishWithSweep(h)
     \/ Go(h, "drain") /\ UNCHANGED <<disk, meta, lock, history, restarts>>

\* The last child closes the output; only now is the process group killed.
ChildEnds(h) == At(h, "exec", "drain") /\ FinishWithSweep(h)

handleExec(h) ==
  \/ createWorkspace(h, "exec", "run")
  \/ initGitRepo(h, "exec", "run")
  \/ ShellEnds(h)

(***************************************************************************)
(* Specification                                                           *)
(***************************************************************************)

\* The process dies and is started again: mutexes, metadata and requests are
\* gone, the disk is as it was.
Restart ==
  /\ restarts < MaxRestarts /\ restarts' = restarts + 1
  /\ meta' = {} /\ lock' = Free /\ act' = [h \in Handlers |-> Idle]
  /\ UNCHANGED <<disk, history>>

Work(h) ==
  \/ getTaskMutex(h)
  \/ handleCreateWorktree(h) \/ handleDeleteWorktree(h) \/ handleExec(h)
  \/ NotFound(h) \/ WriteSweep(h) \/ handleReadFile(h) \/ handleZipWorkspace(h)
  \/ \E p \in Files : WriteForbidden(h, p) \/ \E v \in Values : handleWriteFile(h, p, v)

Command(h) ==
  \/ ChildEnds(h) \/ ExecMovesDir(h)
  \/ \E p \in Files : ExecRemoves(h, p) \/ \E v \in Values : ExecWrites(h, p, v)

Next ==
  \/ \E h \in Handlers :
       \/ \E op \in Ops : \E entries \in (IF op = "create" THEN SUBSET Entries ELSE {{}}) :
            Arrive(h, op, entries)
       \/ Work(h) \/ Command(h)
  \/ Restart

\* A handler that can take a step takes it: Go mutexes do not starve a waiter,
\* git init and shells are killed at their timeout.  Children of a command,
\* clients and restarts are free to do nothing.
Fairness == \A h \in Handlers : SF_vars(getTaskMutex(h)) /\ WF_vars(Work(h))

Spec == Init /\ [][Next]_vars /\ Fairness

\* As Spec, and every command's children end some day.
SpecChildrenEnd == Spec /\ \A h \in Handlers : WF_vars(ChildEnds(h))

(***************************************************************************)
(* Properties                                                              *)
(***************************************************************************)

\* Types of the variables.
TypeOK ==
  /\ tree \in {"absent", "bare", "ready", "partial"} /\ dirThere \in BOOLEAN
  /\ content \in [Files -> Values \cup {Absent}]
  /\ ro \subseteq Exists /\ (tree = "absent" => Exists = {})
  /\ meta \subseteq Entries /\ promised \subseteq Entries
  /\ lock \in Handlers \cup {Free} /\ restarts \in Nat /\ sweepErr \in BOOLEAN
  /\ sealed = Open \/ sealed \in [DirFiles -> Values \cup {Absent}]
  /\ act \in [Handlers -> [op : Ops \cup {"idle"}, step : Steps, entries : SUBSET Entries]]

\* Once a read-only directory was swept without an error, its files keep the
\* content they had, for as long as the directory stays at its path: none changes,
\* appears or disappears before the workspace is deleted, by any request or any
\* command that does not rename the directory itself, and across restarts.
SealedUnchanged == \A p \in DOMAIN sealed : content[p] = sealed[p]

Frozen(es) == Exists \cap Covered(es) \subseteq ro

\* Until the process restarts, everything that exists under an acknowledged
\* read-only path is frozen whenever the mutex is free, unless the last sweep had
\* errors, which are only logged: the next sweep that has none makes up for all
\* before it (server.go 242-245, 386-389, 526-529).  A restart forgets the paths
\* that did not exist yet (server.go 26-29).  A deletion ends the promise when it
\* begins: if it fails half-way, the tree is thawed until the next sweep.
EnforcedUntilRestart == lock = Free /\ restarts = 0 /\ ~sweepErr => Frozen(promised)

\* Other requests see a workspace directory without its git repository only when a
\* crash left it, or a removal that failed, a deletion or the rollback of a failed
\* git init (workspace.go 131-135): a git init that fails, times out or is
\* cancelled does not by itself.
UsableWorktree == lock = Free /\ tree = "bare" => restarts > 0

\* Every request is answered: no path returns with the mutex held, no two
\* handlers wait for each other, a hanging shell is killed at its timeout.
RequestsEnd == \A h \in Handlers : act[h].op # "idle" ~> act[h].op = "idle"

\* exec.go 14-16: at the timeout the whole process group is killed, "so child
\* processes ... don't outlive the request": an exec always ends.
ExecEndsAtTimeout ==
  \A h \in Handlers : act[h].op = "exec" /\ lock = h ~> lock # h
=============================================================================
