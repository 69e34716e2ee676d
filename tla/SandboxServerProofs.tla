------------------------- MODULE SandboxServerProofs -------------------------
(***************************************************************************)
(* Proofs about SandboxServer for any number of concurrent requests, any   *)
(* files, any contents and any number of restarts.  SInv is inductive: it  *)
(* says what the holder of the mutex has established at each step of its   *)
(* handler, and what is true of the disk when nobody is in the middle of a *)
(* mutation.                                                               *)
(***************************************************************************)
EXTENDS SandboxServer, TLAPS

\* A handler past the wait holds the mutex.
Exclusive == \A h \in Handlers : act[h].step \in {"none", "wait"} \/ lock = h

\* What a handler relies on between two of its steps.
Stages ==
  \A h \in Handlers :
    /\ act[h].step = "git" => tree = "bare" /\ Exists = {}
    /\ act[h].step \in {"run", "drain"} => tree # "absent"
    /\ act[h].step = "meta" => tree # "absent"
    /\ act[h].step = "sweep" => tree # "absent"
    /\ act[h].step = "remove" => ro = {} /\ sealed = Open /\ promised = {}
    /\ act[h].step = "forget" => promised = {}

\* A sealed directory exists, is frozen, and so is every file in it.
Sealing ==
  sealed # Open =>
    /\ dirThere /\ Dir \in ro
    /\ \A p \in DirFiles : content[p] = sealed[p] /\ (content[p] # Absent => p \in ro)

\* Between a mutation and the sweep that follows it.
Dirty == \E h \in Handlers : act[h].step \in {"sweep", "run", "drain"}

Enforcement ==
  restarts = 0 => promised \subseteq meta /\ (Dirty \/ sweepErr \/ Frozen(promised))

Creation == restarts = 0 /\ tree = "bare" => \E h \in Handlers : act[h].step = "git"

SInv == TypeOK /\ Exclusive /\ Stages /\ Sealing /\ Enforcement /\ Creation

USE SandboxConstantsOK

\* A server without workspaces.
LEMMA InitSInv == Init => SInv
<1> SUFFICES ASSUME Init PROVE SInv
  OBVIOUS
<1>1. Exists = {}
  BY DEF Init, Exists
<1>2. TypeOK
  BY <1>1 DEF Init, TypeOK, Idle, Ops, Steps
<1>3. Exclusive /\ Stages /\ Sealing /\ Creation
  BY DEF Init, Exclusive, Stages, Sealing, Creation, Idle
<1>4. Enforcement
  BY <1>1 DEF Init, Enforcement, Frozen
<1> QED
  BY <1>2, <1>3, <1>4 DEF SInv

-----------------------------------------------------------------------------
\* A request arrives and gets the mutex.

\* A request arrives.
LEMMA ArriveSInv ==
  ASSUME SInv, NEW h \in Handlers, NEW op \in Ops, NEW es \in SUBSET Entries,
         Arrive(h, op, es)
  PROVE  SInv'
<1>1. TypeOK'
  BY DEF Arrive, SInv, TypeOK, disk, history, Exists, Open, Ops, Steps, Idle
<1>2. Exclusive' /\ Stages' /\ Sealing'
  BY DEF Arrive, SInv, TypeOK, disk, history, Exists, Open, Exclusive, Stages, Sealing, Idle
<1>3. Enforcement' /\ Creation'
  BY DEF Arrive, SInv, TypeOK, disk, history, Exists, Frozen, Covered, Enforcement, Creation,
         Dirty, Idle
<1> QED
  BY <1>1, <1>2, <1>3 DEF SInv

\* A handler takes the mutex of its task.
LEMMA GetTaskMutexSInv ==
  ASSUME SInv, NEW h \in Handlers, getTaskMutex(h)
  PROVE  SInv'
<1>1. TypeOK'
  BY DEF getTaskMutex, Go, SInv, TypeOK, disk, history, Exists, Open, Ops, Steps
<1>2. Exclusive' /\ Stages' /\ Sealing'
  BY DEF getTaskMutex, Go, SInv, TypeOK, disk, history, Exists, Open, Exclusive, Stages, Sealing
<1>3. Enforcement' /\ Creation'
  BY DEF getTaskMutex, Go, SInv, TypeOK, disk, history, Exists, Frozen, Covered, Enforcement,
         Creation, Dirty, Exclusive
<1> QED
  BY <1>1, <1>2, <1>3 DEF SInv

-----------------------------------------------------------------------------
\* Steps of the mutex holder: nobody else is past the wait.

\* Whoever holds the mutex works alone.
LEMMA Others ==
  ASSUME SInv, NEW h \in Handlers, lock = h
  PROVE  /\ lock # Free
         /\ \A k \in Handlers \ {h} : act[k].step \in {"none", "wait"}
BY DEF SInv, Exclusive

\* The workspace is created.
LEMMA CreateWorkspaceSInv ==
  ASSUME SInv, NEW h \in Handlers, NEW op \in {"create", "exec"},
         NEW then \in {"meta", "run"}, createWorkspace(h, op, then)
  PROVE  SInv'
<1>0. \A k \in Handlers \ {h} : act[k].step \in {"none", "wait"}
  BY Others DEF createWorkspace, At
<1> USE DEF createWorkspace, At, Go
<1>1. TypeOK'
  BY DEF SInv, TypeOK, history, Exists, Open, Ops, Steps
<1>2. Exclusive' /\ Sealing'
  BY DEF SInv, TypeOK, history, Exists, Open, Exclusive, Sealing
<1>3. Stages'
  BY <1>0 DEF SInv, TypeOK, history, Exists, Open, Stages
<1>4. Enforcement'
  BY <1>0 DEF SInv, TypeOK, history, Exists, Frozen, Covered, Enforcement, Dirty
<1>5. Creation'
  BY <1>0 DEF SInv, TypeOK, history, Creation
<1> QED
  BY <1>1, <1>2, <1>3, <1>4, <1>5 DEF SInv

\* Its repository is initialised, or rolled back.
LEMMA InitGitRepoSInv ==
  ASSUME SInv, NEW h \in Handlers, NEW op \in {"create", "exec"},
         NEW then \in {"meta", "run"}, initGitRepo(h, op, then)
  PROVE  SInv'
<1>0. \A k \in Handlers \ {h} : act[k].step \in {"none", "wait"}
  BY Others DEF initGitRepo, At
<1>a. Exists = {} /\ tree = "bare"
  BY DEF initGitRepo, At, SInv, Stages
<1> USE DEF initGitRepo, At, Go, Respond
<1>1. TypeOK'
  BY <1>a DEF SInv, TypeOK, history, Exists, Open, Ops, Steps, Idle
<1>2. Exclusive' /\ Sealing'
  BY DEF SInv, TypeOK, history, Exists, Open, Exclusive, Sealing, Idle
<1>3. Stages'
  BY <1>0 DEF SInv, TypeOK, history, Exists, Open, Stages, Idle
<1>4. Enforcement'
  <2>1. Exists' = {}
    BY <1>a DEF Exists
  <2> QED
    BY <2>1 DEF SInv, TypeOK, history, Frozen, Enforcement
<1>5. Creation'
  BY DEF Creation
<1> QED
  BY <1>1, <1>2, <1>3, <1>4, <1>5 DEF SInv

\* The metadata of a workspace is merged.
LEMMA MergeMetaSInv ==
  ASSUME SInv, NEW h \in Handlers, MergeMeta(h)
  PROVE  SInv'
<1>0. \A k \in Handlers \ {h} : act[k].step \in {"none", "wait"}
  BY Others DEF MergeMeta, At
<1> USE DEF MergeMeta, At, Go
<1>1. TypeOK'
  BY DEF SInv, TypeOK, disk, Exists, Open, Ops, Steps
<1>2. Exclusive' /\ Sealing'
  BY DEF SInv, TypeOK, disk, Exists, Open, Exclusive, Sealing
<1>3. Stages'
  BY <1>0 DEF SInv, TypeOK, disk, Exists, Open, Stages
<1>4. Enforcement'
  BY DEF SInv, TypeOK, Enforcement, Dirty
<1>5. Creation'
  BY <1>0 DEF SInv, TypeOK, disk, Creation
<1> QED
  BY <1>1, <1>2, <1>3, <1>4, <1>5 DEF SInv

\* The sweep at the end of a create, a write or an exec.
LEMMA FinishWithSweepSInv ==
  ASSUME SInv, NEW h \in Handlers, lock = h,
         act[h].step \in {"sweep", "run", "drain"}, FinishWithSweep(h)
  PROVE  SInv'
<1>0. \A k \in Handlers \ {h} : act[k].step \in {"none", "wait"}
  BY Others
<1>a. PICK all : all = Exists \cap Covered(meta)  OBVIOUS
<1>b. PICK done \in SUBSET all : Swept(meta, done, all)
  BY <1>a DEF FinishWithSweep, applyReadOnlyChmod, Walked
<1> USE DEF Respond
<1>c. /\ ro' = ro \cup done /\ sweepErr' = (done # all)
      /\ sealed' = IF done = all /\ Dir \in meta /\ dirThere /\ sealed = Open
                   THEN [p \in DirFiles |-> content[p]] ELSE sealed
  BY <1>b DEF Swept
<1>d. Respond(h) /\ UNCHANGED <<tree, content, dirThere, meta, promised, restarts>>
  BY DEF FinishWithSweep
<1>e. Exists' = Exists
  BY <1>d DEF Exists
<1>1. TypeOK'
  <2>1. ro' \subseteq Exists' /\ sweepErr' \in BOOLEAN
    BY <1>a, <1>b, <1>c, <1>e DEF SInv, TypeOK
  <2>2. sealed' = Open \/ sealed' \in [DirFiles -> Values \cup {Absent}]
    BY <1>c DEF SInv, TypeOK, Files
  <2>3. act' \in [Handlers -> [op : Ops \cup {"idle"}, step : Steps, entries : SUBSET Entries]]
    BY <1>d DEF SInv, TypeOK, Ops, Steps, Idle
  <2> QED
    BY <1>d, <1>e, <2>1, <2>2, <2>3 DEF SInv, TypeOK, Open
<1>2. Exclusive' /\ Stages'
  BY <1>0, <1>d, <1>e DEF SInv, TypeOK, Exclusive, Stages, Idle
<1>3. Sealing'
  <2>1. CASE sealed # Open
    BY <1>c, <1>d, <2>1 DEF SInv, Sealing
  <2>2. CASE sealed = Open /\ sealed' # Open
    <3>1. done = all /\ Dir \in meta /\ dirThere /\ sealed' = [p \in DirFiles |-> content[p]]
      BY <1>c, <2>2
    <3>2. \A n \in {Dir} \cup DirFiles : n \in Exists => n \in ro'
      BY <1>a, <1>c, <3>1 DEF Covered, Under, Nodes, Files
    <3>3. Dir \in Exists /\ \A p \in DirFiles : content[p] # Absent => p \in Exists
      BY <3>1 DEF Exists, Files
    <3> QED
      BY <1>d, <3>1, <3>2, <3>3 DEF Sealing
  <2> QED
    BY <2>1, <2>2 DEF Sealing, Open
<1>4. Enforcement'
  <2>1. ~sweepErr' => Exists \cap Covered(meta) \subseteq ro'
    BY <1>a, <1>c
  <2>2. promised \subseteq meta => Covered(promised) \subseteq Covered(meta)
    BY DEF Covered
  <2>3. Covered(promised)' = Covered(promised)
    BY <1>d DEF Covered
  <2> QED
    BY <1>d, <1>e, <2>1, <2>2, <2>3 DEF SInv, Enforcement, Frozen
<1>5. Creation'
  BY <1>0, <1>d DEF SInv, TypeOK, Creation
<1> QED
  BY <1>1, <1>2, <1>3, <1>4, <1>5 DEF SInv

-----------------------------------------------------------------------------
\* Deletion.

\* Before a removal the tree is made writable.
LEMMA ChmodTreeWritableSInv ==
  ASSUME SInv, NEW h \in Handlers, chmodTreeWritable(h)
  PROVE  SInv'
<1>0. \A k \in Handlers \ {h} : act[k].step \in {"none", "wait"}
  BY Others DEF chmodTreeWritable, At
<1> USE DEF chmodTreeWritable, At, Go, Respond, Idle
<1>1. TypeOK'
  BY DEF SInv, TypeOK, Exists, Open, Ops, Steps
<1>2. Exclusive' /\ Sealing'
  BY DEF SInv, TypeOK, Open, Exclusive, Sealing
<1>3. Stages'
  BY <1>0 DEF SInv, TypeOK, Exists, Open, Stages
<1>4. Enforcement'
  BY DEF SInv, TypeOK, Enforcement, Frozen, Covered
<1>5. Creation'
  BY <1>0 DEF SInv, TypeOK, Creation
<1> QED
  BY <1>1, <1>2, <1>3, <1>4, <1>5 DEF SInv

\* The workspace is removed.
LEMMA RemoveWorkspaceSInv ==
  ASSUME SInv, NEW h \in Handlers, removeWorkspace(h)
  PROVE  SInv'
<1>0. \A k \in Handlers \ {h} : act[k].step \in {"none", "wait"}
  BY Others DEF removeWorkspace, At
<1>a. ro = {} /\ sealed = Open /\ promised = {}
  BY DEF removeWorkspace, At, SInv, Stages
<1>b. tree' = "absent" => Exists' = {}
  BY DEF removeWorkspace, SInv, TypeOK, Exists
<1> USE DEF removeWorkspace, At, Go, Respond
<1>1. TypeOK'
  <2>1. content' \in [Files -> Values \cup {Absent}] /\ dirThere' \in BOOLEAN
    BY DEF SInv, TypeOK
  <2>2. act' \in [Handlers -> [op : Ops \cup {"idle"}, step : Steps, entries : SUBSET Entries]]
    BY DEF SInv, TypeOK, Ops, Steps, Idle
  <2>3. tree' \in {"absent", "bare", "ready", "partial"} /\ lock' \in Handlers \cup {Free}
    BY DEF SInv, TypeOK
  <2>4. ro' \subseteq Exists' /\ sealed' = Open
    BY <1>a DEF history
  <2>5. Open' = Open
    BY DEF Open
  <2> QED
    BY <1>b, <2>1, <2>2, <2>3, <2>4, <2>5 DEF SInv, TypeOK, history
<1>2. Exclusive' /\ Sealing'
  BY <1>a DEF SInv, TypeOK, history, Open, Exclusive, Sealing, Idle
<1>3. Stages'
  BY <1>0, <1>a DEF SInv, TypeOK, history, Open, Stages, Idle
<1>4. Enforcement'
  BY <1>a DEF SInv, TypeOK, history, Enforcement, Frozen, Covered
<1>5. Creation'
  BY DEF SInv, TypeOK, Creation, Stages
<1> QED
  BY <1>1, <1>2, <1>3, <1>4, <1>5 DEF SInv

\* Its metadata is forgotten.
LEMMA ForgetMetaSInv ==
  ASSUME SInv, NEW h \in Handlers, ForgetMeta(h)
  PROVE  SInv'
<1>0. \A k \in Handlers \ {h} : act[k].step \in {"none", "wait"}
  BY Others DEF ForgetMeta, At
<1>a. promised = {}
  BY DEF ForgetMeta, At, SInv, Stages
<1> USE DEF ForgetMeta, At, Respond
<1>1. TypeOK'
  BY DEF SInv, TypeOK, disk, history, Exists, Open, Ops, Steps, Idle
<1>2. Exclusive' /\ Sealing'
  BY DEF SInv, TypeOK, disk, history, Open, Exclusive, Sealing, Idle
<1>3. Stages'
  BY <1>0 DEF SInv, TypeOK, disk, history, Exists, Open, Stages, Idle
<1>4. Enforcement'
  BY <1>a DEF SInv, TypeOK, disk, history, Enforcement, Frozen, Covered
<1>5. Creation'
  BY <1>0 DEF SInv, TypeOK, disk, Creation
<1> QED
  BY <1>1, <1>2, <1>3, <1>4, <1>5 DEF SInv

-----------------------------------------------------------------------------
\* Answers that change nothing, and mutations of files.

\* A response that changed nothing.
LEMMA QuietSInv ==
  ASSUME SInv, NEW h \in Handlers, lock = h, act[h].step = "locked", Respond(h),
         UNCHANGED <<disk, meta, history, restarts>>
  PROVE  SInv'
<1>0. \A k \in Handlers \ {h} : act[k].step \in {"none", "wait"}
  BY Others
<1> USE DEF Respond
<1>1. TypeOK'
  BY DEF SInv, TypeOK, disk, history, Exists, Open, Ops, Steps, Idle
<1>2. Exclusive' /\ Sealing'
  BY DEF SInv, TypeOK, disk, history, Open, Exclusive, Sealing, Idle
<1>3. Stages'
  BY <1>0 DEF SInv, TypeOK, disk, history, Exists, Open, Stages, Idle
<1>4. Enforcement'
  BY <1>0 DEF SInv, TypeOK, disk, history, Exists, Frozen, Covered, Enforcement, Dirty
<1>5. Creation'
  BY <1>0 DEF SInv, TypeOK, disk, Creation
<1> QED
  BY <1>1, <1>2, <1>3, <1>4, <1>5 DEF SInv

\* A permitted write leaves a sealed directory alone.
LEMMA PutSealed ==
  ASSUME SInv, NEW p \in Files, NEW v \in Values, MayWrite(p), Put(p, v),
         UNCHANGED <<ro, sealed>>
  PROVE  Sealing'
<1> SUFFICES ASSUME sealed # Open PROVE Sealing'
  BY DEF Sealing
<1>1. dirThere /\ Dir \in ro /\ \A q \in DirFiles : content[q] = sealed[q] /\ (content[q] # Absent => q \in ro)
  BY DEF SInv, Sealing
<1>2. p \notin DirFiles
  BY <1>1 DEF MayWrite, DirWritable, Exists, Files
<1>3. \A q \in DirFiles : content'[q] = content[q]
  BY <1>2 DEF Put, SInv, TypeOK, Files
<1> QED
  BY <1>1, <1>3 DEF Put, Sealing, Open

\* A handler that has just written, or a command that is still running.
LEMMA MutationSInv ==
  ASSUME SInv, NEW h \in Handlers, lock = h, tree # "absent",
         act[h].step \in {"locked", "run", "drain"},
         NEW s \in {"sweep", "run", "drain"}, act' = [act EXCEPT ![h].step = s],
         NEW p \in Files, NEW v \in Values, MayWrite(p), Put(p, v),
         UNCHANGED <<tree, ro, meta, lock, history, restarts>>
  PROVE  SInv'
<1>0. \A k \in Handlers \ {h} : act[k].step \in {"none", "wait"}
  BY Others
<1>1. TypeOK'
  <2>1. Exists \subseteq Exists'
    BY DEF Put, Exists, SInv, TypeOK
  <2> QED
    BY <2>1 DEF Put, SInv, TypeOK, history, Open, Ops, Steps
<1>2. Exclusive'
  BY DEF SInv, TypeOK, Exclusive
<1>3. Sealing'
  BY PutSealed DEF history
<1>4. Stages'
  BY <1>0 DEF SInv, TypeOK, Stages
<1>5. Enforcement'
  BY DEF SInv, TypeOK, Enforcement, Dirty, history
<1>6. Creation'
  BY <1>0 DEF SInv, TypeOK, Creation
<1> QED
  BY <1>1, <1>2, <1>3, <1>4, <1>5, <1>6 DEF SInv

\* A command removes a file.
LEMMA ExecRemovesSInv ==
  ASSUME SInv, NEW h \in Handlers, NEW p \in Files, ExecRemoves(h, p)
  PROVE  SInv'
<1>0. lock = h /\ act[h].step \in {"run", "drain"} /\ \A k \in Handlers \ {h} : act[k].step \in {"none", "wait"}
  BY Others DEF ExecRemoves, Running, At
<1> USE DEF ExecRemoves
<1>1. TypeOK'
  <2>1. Exists' = Exists \ {p} /\ ro' \subseteq Exists'
    BY DEF Exists, SInv, TypeOK, Files
  <2>2. tree' # "absent"
    BY <1>0 DEF SInv, Stages
  <2> QED
    BY <2>1, <2>2 DEF SInv, TypeOK, history, Open
<1>2. Exclusive'
  BY DEF SInv, TypeOK, Exclusive
<1>3. Sealing'
  <2> SUFFICES ASSUME sealed # Open PROVE Sealing'
    BY DEF Sealing, history
  <2>1. dirThere /\ Dir \in ro
    BY DEF SInv, Sealing
  <2>2. p \notin DirFiles /\ p # Dir
    BY <2>1 DEF MayRemove, DirWritable, Files
  <2> QED
    BY <2>1, <2>2 DEF Sealing, SInv, TypeOK, history
<1>4. Stages'
  BY <1>0 DEF SInv, TypeOK, Stages
<1>5. Enforcement'
  BY <1>0 DEF SInv, TypeOK, Enforcement, Dirty, history
<1>6. Creation'
  BY <1>0 DEF SInv, TypeOK, Creation
<1> QED
  BY <1>1, <1>2, <1>3, <1>4, <1>5, <1>6 DEF SInv

\* A command renames the directory, or removes it.
LEMMA ExecMovesDirSInv ==
  ASSUME SInv, NEW h \in Handlers, ExecMovesDir(h)
  PROVE  SInv'
<1>0. lock = h /\ act[h].step \in {"run", "drain"} /\ \A k \in Handlers \ {h} : act[k].step \in {"none", "wait"}
  BY Others DEF ExecMovesDir, Running, At
<1> USE DEF ExecMovesDir
<1>1. TypeOK'
  <2>1. content' \in [Files -> Values \cup {Absent}] /\ dirThere' \in BOOLEAN
    BY DEF SInv, TypeOK
  <2>2. ro' \subseteq Exists'
    BY DEF SInv, TypeOK, Exists, Under, Files
  <2>3. tree' # "absent"
    BY <1>0 DEF SInv, Stages
  <2>4. sealed' = Open'
    BY DEF Open
  <2> QED
    BY <2>1, <2>2, <2>3, <2>4 DEF SInv, TypeOK
<1>2. Exclusive' /\ Sealing'
  BY DEF SInv, TypeOK, Exclusive, Sealing, Open
<1>3. Stages'
  BY <1>0 DEF SInv, TypeOK, Stages
<1>4. Enforcement'
  BY <1>0 DEF SInv, TypeOK, Enforcement, Dirty
<1>5. Creation'
  BY <1>0 DEF SInv, TypeOK, Creation
<1> QED
  BY <1>1, <1>2, <1>3, <1>4, <1>5 DEF SInv

\* The shell is gone and a child holds its output open.
LEMMA DrainSInv ==
  ASSUME SInv, NEW h \in Handlers, At(h, "exec", "run"), Go(h, "drain"),
         UNCHANGED <<disk, meta, lock, history, restarts>>
  PROVE  SInv'
<1>0. \A k \in Handlers \ {h} : act[k].step \in {"none", "wait"}
  BY Others DEF At
<1> USE DEF At, Go
<1>1. TypeOK'
  BY DEF SInv, TypeOK, disk, history, Exists, Open, Ops, Steps
<1>2. Exclusive' /\ Sealing'
  BY DEF SInv, TypeOK, disk, history, Open, Exclusive, Sealing
<1>3. Stages'
  BY <1>0 DEF SInv, TypeOK, disk, Stages
<1>4. Enforcement'
  BY DEF SInv, TypeOK, history, Enforcement, Dirty
<1>5. Creation'
  BY <1>0 DEF SInv, TypeOK, disk, Creation
<1> QED
  BY <1>1, <1>2, <1>3, <1>4, <1>5 DEF SInv

\* The server restarts.
LEMMA RestartSInv ==
  ASSUME SInv, Restart
  PROVE  SInv'
<1>1. TypeOK'
  BY DEF Restart, SInv, TypeOK, disk, history, Exists, Open, Idle, Ops, Steps
<1>2. Exclusive' /\ Stages' /\ Sealing'
  BY DEF Restart, SInv, disk, history, Exclusive, Stages, Sealing, Idle, Open
<1>3. Enforcement' /\ Creation'
  BY DEF Restart, SInv, TypeOK, Enforcement, Creation
<1> QED
  BY <1>1, <1>2, <1>3 DEF SInv

-----------------------------------------------------------------------------
\* SInv is inductive: one case per step of a handler or of its command.

\* The steps of a handler.
LEMMA WorkSInv ==
  ASSUME SInv, NEW h \in Handlers, Work(h)
  PROVE  SInv'
<1>1. CASE getTaskMutex(h)
  BY <1>1, GetTaskMutexSInv
<1>2. CASE handleCreateWorktree(h)
  <2>1. CASE createWorkspace(h, "create", "meta")
    BY <2>1, CreateWorkspaceSInv
  <2>2. CASE initGitRepo(h, "create", "meta")
    BY <2>2, InitGitRepoSInv
  <2>3. CASE MergeMeta(h)
    BY <2>3, MergeMetaSInv
  <2>4. CASE At(h, "create", "sweep") /\ FinishWithSweep(h)
    BY <2>4, FinishWithSweepSInv DEF At
  <2> QED
    BY <1>2, <2>1, <2>2, <2>3, <2>4 DEF handleCreateWorktree
<1>3. CASE handleDeleteWorktree(h)
  BY <1>3, ChmodTreeWritableSInv, RemoveWorkspaceSInv, ForgetMetaSInv DEF handleDeleteWorktree
<1>4. CASE handleExec(h)
  <2>1. CASE createWorkspace(h, "exec", "run")
    BY <2>1, CreateWorkspaceSInv
  <2>2. CASE initGitRepo(h, "exec", "run")
    BY <2>2, InitGitRepoSInv
  <2>3. CASE At(h, "exec", "run") /\ FinishWithSweep(h)
    BY <2>3, FinishWithSweepSInv DEF At
  <2>4. CASE /\ At(h, "exec", "run") /\ Go(h, "drain")
             /\ UNCHANGED <<disk, meta, lock, history, restarts>>
    BY <2>4, DrainSInv
  <2> QED
    BY <1>4, <2>1, <2>2, <2>3, <2>4 DEF handleExec, ShellEnds
<1>5. CASE NotFound(h)
  BY <1>5, QuietSInv DEF NotFound
<1>6. CASE WriteSweep(h)
  BY <1>6, FinishWithSweepSInv DEF WriteSweep, At
<1>7. CASE handleReadFile(h)
  BY <1>7, QuietSInv DEF handleReadFile, At
<1>8. CASE handleZipWorkspace(h)
  BY <1>8, QuietSInv DEF handleZipWorkspace, At
<1>9. CASE \E p \in Files : WriteForbidden(h, p)
  BY <1>9, QuietSInv DEF WriteForbidden, At
<1>10. CASE \E p \in Files, v \in Values : handleWriteFile(h, p, v)
  <2>1. PICK p \in Files, v \in Values : handleWriteFile(h, p, v)
    BY <1>10
  <2> QED
    BY <2>1, MutationSInv DEF handleWriteFile, At, Go
<1> QED
  BY <1>1, <1>2, <1>3, <1>4, <1>5, <1>6, <1>7, <1>8, <1>9, <1>10 DEF Work

\* The steps of a command.
LEMMA CommandSInv ==
  ASSUME SInv, NEW h \in Handlers, Command(h)
  PROVE  SInv'
<1>1. CASE ChildEnds(h)
  BY <1>1, FinishWithSweepSInv DEF ChildEnds, At
<1>2. CASE \E p \in Files : ExecRemoves(h, p)
  BY <1>2, ExecRemovesSInv
<1>3. CASE \E p \in Files, v \in Values : ExecWrites(h, p, v)
  <2>1. PICK p \in Files, v \in Values : ExecWrites(h, p, v)
    BY <1>3
  <2>2. lock = h /\ act[h].step \in {"run", "drain"} /\ tree # "absent"
    BY <2>1 DEF ExecWrites, Running, At, SInv, Stages
  <2>3. act' = [act EXCEPT ![h].step = act[h].step]
    BY <2>1 DEF ExecWrites, SInv, TypeOK
  <2> QED
    BY <2>1, <2>2, <2>3, MutationSInv DEF ExecWrites
<1>4. CASE ExecMovesDir(h)
  BY <1>4, ExecMovesDirSInv
<1> QED
  BY <1>1, <1>2, <1>3, <1>4 DEF Command

\* Every step keeps the invariant.
LEMMA NextSInv == SInv /\ [Next]_vars => SInv'
<1> SUFFICES ASSUME SInv, [Next]_vars PROVE SInv'
  OBVIOUS
<1>1. ASSUME NEW h \in Handlers, NEW op \in Ops,
             NEW es \in (IF op = "create" THEN SUBSET Entries ELSE {{}}), Arrive(h, op, es)
      PROVE  SInv'
  <2>1. es \in SUBSET Entries
    OBVIOUS
  <2> QED
    BY <1>1, <2>1, ArriveSInv
<1>2. ASSUME NEW h \in Handlers, Work(h) \/ Command(h)
      PROVE  SInv'
  BY <1>2, WorkSInv, CommandSInv
<1>3. CASE Restart
  BY <1>3, RestartSInv
<1>4. CASE UNCHANGED vars
  BY <1>4 DEF vars, disk, history, SInv, TypeOK, Exclusive, Stages, Sealing, Enforcement,
     Creation, Dirty, Frozen, Covered, Exists, Open
<1> QED
  BY <1>1, <1>2, <1>3, <1>4 DEF Next

\* SInv holds throughout every behaviour of the server.
LEMMA SInvAlways == Spec => []SInv
BY InitSInv, NextSInv, PTL DEF Spec

-----------------------------------------------------------------------------
\* The variables keep their types, nothing that does not exist is frozen, and
\* a workspace that does not exist has no files: the handlers of server.go
\* never write outside an existing tree, whatever requests, commands, failures
\* and restarts there are.
THEOREM SandboxTypeCorrect == Spec => []TypeOK
<1>1. SInv => TypeOK
  BY DEF SInv
<1> QED
  BY <1>1, SInvAlways, PTL

\* A read-only directory that was swept without an error keeps every file's
\* content while it stays at its path, until the workspace is deleted:
\* applyReadOnlyChmod freezes the directory as well as its files, so neither
\* handleWriteFile nor any command but a rename of the directory itself can
\* change, add or remove one, with any number of concurrent requests and restarts.
THEOREM SealedForever == Spec => []SealedUnchanged
<1>1. SInv => SealedUnchanged
  <2> SUFFICES ASSUME SInv, NEW p \in DOMAIN sealed PROVE content[p] = sealed[p]
    BY DEF SealedUnchanged
  <2>1. sealed # Open
    BY DEF Open
  <2>2. p \in DirFiles
    BY <2>1 DEF SInv, TypeOK
  <2> QED
    BY <2>1, <2>2 DEF SInv, Sealing
<1> QED
  BY <1>1, SInvAlways, PTL

\* In a process that has not restarted, whenever no handler holds the task's
\* mutex every existing node under an acknowledged read_only_path is frozen, or
\* the last sweep had errors: each handler that can create one sweeps all paths
\* before it unlocks, and a sweep that succeeds makes up for those that did not.
THEOREM EnforcedWhileRunning == Spec => []EnforcedUntilRestart
<1>1. SInv => EnforcedUntilRestart
  <2> SUFFICES ASSUME SInv, lock = Free, restarts = 0, ~sweepErr PROVE Frozen(promised)
    BY DEF EnforcedUntilRestart
  <2>1. ~Dirty
    BY DEF SInv, Exclusive, Dirty
  <2> QED
    BY <2>1 DEF SInv, Enforcement
<1> QED
  BY <1>1, SInvAlways, PTL

\* In a process that has not restarted, a workspace directory without its git
\* repository that other requests can see was left by a removal that failed:
\* createWorkspace tries to roll a failed or cancelled git init back before it
\* unlocks.
THEOREM CreationAtomic == Spec => []UsableWorktree
<1>1. SInv => UsableWorktree
  BY DEF SInv, TypeOK, Exclusive, Creation, UsableWorktree
<1> QED
  BY <1>1, SInvAlways, PTL
=============================================================================
