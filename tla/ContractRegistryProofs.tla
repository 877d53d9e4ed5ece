------------------------ MODULE ContractRegistryProofs ------------------------
(***************************************************************************)
(* Theorems about the contract registry, for any number of reloads, edits, *)
(* agents and restarts: its types, that a reload never leaves a contract   *)
(* older than an overlapping reload found it, that a quiet reload mirrors  *)
(* the disk, and that updates that do not overlap are kept.                *)
(***************************************************************************)
EXTENDS ContractRegistry, TLAPS

Stages == {"idle", "load", "open", "close", "unlink", "snapshot", "validate", "list_runs",
           "evaluations", "decide", "over"}

Answers == {"none", "reloaded", "already_loaded", "edited", "missing",
            "400", "404", "error", "keep", "discard", "needs_review"}

Registered == Roots \X (Nat \cup {-1})

\* Where a thread may be, and what it is about there.
Placed(p) ==
    /\ pc[p] # "over" => answer[p] = "none"
    /\ p \in Reloaders => pc[p] \in {"idle", "load", "over"}
    /\ p \in Editors =>
         /\ pc[p] \in {"idle", "open", "close", "unlink", "over"}
         /\ pc[p] = "open" => job[p].op \in {"write", "update"}
         /\ pc[p] = "close" => job[p].op \in {"write", "update", "none"}
         /\ pc[p] = "unlink" => job[p].op = "delete"

\* What a thread saw over when it began is over.
PlaceInv ==
    /\ TypeOK
    /\ \A p \in Reloaders \cup Editors : Placed(p)
    /\ \A p \in Threads : after[p] \subseteq Over

-----------------------------------------------------------------------------
(* Types of the operators.                                                 *)

LEMMA ThreadsApart ==
    /\ Reloaders \subseteq Threads /\ Editors \subseteq Threads
    /\ \A p \in Reloaders : p \notin Editors
BY RegistryAssumption DEF Threads

LEMMA FilesAre ==
    /\ \A root \in Roots, c \in Contracts : <<root, c>> \in Files
    /\ \A f \in Files : f[1] \in Roots /\ f[2] \in Contracts /\ f = <<f[1], f[2]>>
    /\ Builtin \in Roots /\ ContractsDir \in Roots /\ 0 \in Contracts
BY RegistryAssumption DEF Files, Roots, Contracts

LEMMA StateIs ==
    ASSUME disk \in [Files -> State], NEW root \in Roots, NEW c \in Contracts
    PROVE  /\ disk[<<root, c>>] \in State /\ disk[<<root, c>>].version \in Nat
           /\ Loaded(root, c) \in Registered
<1>1. disk[<<root, c>>] \in State
  BY FilesAre
<1>2. disk[<<root, c>>].version \in Nat
  BY <1>1 DEF State
<1>3. QED
  BY <1>1, <1>2 DEF Loaded, Registered

LEMMA NoStateType == NoState \in State
BY DEF NoState, State

LEMMA UnloadedType == Unloaded \in Registered
BY FilesAre DEF Unloaded, Registered

LEMMA BuildType ==
    ASSUME disk \in [Files -> State]
    PROVE  BuildRegistry \in [Contracts -> Registered]
<1>1. \A c \in Contracts : FromBuiltin[c] \in Registered
  BY FilesAre, StateIs, UnloadedType DEF FromBuiltin
<1>2. QED
  BY <1>1, FilesAre, StateIs DEF BuildRegistry

LEMMA LoadingType ==
    ASSUME NEW root \in Roots, NEW at \in Contracts, NEW read \in State,
           NEW listed \in SUBSET Contracts, NEW loaded \in SUBSET Contracts
    PROVE  /\ Loading(root, at, read, listed, loaded) \in Job
           /\ LET j == Loading(root, at, read, listed, loaded) IN
              /\ j.root = root /\ j.at = at /\ j.read = read /\ j.listed = listed
              /\ j.loaded = loaded /\ j.op = "none"
BY DEF Loading, Job

LEMMA EditingType ==
    ASSUME NEW f \in Files, NEW op \in {"none", "write", "update", "delete"},
           NEW read \in State, NEW old \in SUBSET Editors
    PROVE  /\ Editing(f, op, read, old) \in Job
           /\ LET j == Editing(f, op, read, old) IN
              /\ j.root = f[1] /\ j.at = f[2] /\ j.read = read /\ j.op = op
              /\ j.old = old
BY FilesAre DEF Editing, Job

LEMMA NoJobType == NoJob \in Job
BY LoadingType, FilesAre, NoStateType DEF NoJob

LEMMA JobIs ==
    ASSUME job \in [Reloaders \cup Editors -> Job], NEW p \in Reloaders \cup Editors
    PROVE  /\ job[p] \in Job /\ job[p].root \in Roots /\ job[p].at \in Contracts
           /\ job[p].read \in State /\ job[p].listed \in SUBSET Contracts
           /\ job[p].loaded \in SUBSET Contracts /\ Target(p) \in Files
           /\ job[p].op \in {"none", "write", "update", "delete"}
           /\ job[p].read.version \in Nat /\ job[p].read.edits \in SUBSET Editors
           /\ job[p].old \in SUBSET Editors
<1>1. job[p] \in Job
  OBVIOUS
<1>2. job[p].root \in Roots /\ job[p].at \in Contracts /\ job[p].read \in State
  BY <1>1 DEF Job
<1>3. Target(p) \in Files
  BY <1>2, FilesAre DEF Target
<1>4. QED
  BY <1>1, <1>2, <1>3 DEF Job, State

LEMMA GotoType ==
    ASSUME TypeOK, NEW p \in Threads, NEW at \in Stages, Goto(p, at)
    PROVE  /\ pc' \in [Threads -> Stages] /\ answer' \in [Threads -> Answers]
           /\ pc'[p] = at /\ answer'[p] = answer[p]
           /\ \A q \in Threads \ {p} : pc'[q] = pc[q] /\ answer'[q] = answer[q]
BY DEF TypeOK, Goto, Stages, Answers

LEMMA AnswerType ==
    ASSUME TypeOK, NEW p \in Threads, NEW what \in Answers, Answer(p, what)
    PROVE  /\ pc' \in [Threads -> Stages] /\ answer' \in [Threads -> Answers]
           /\ pc'[p] = "over" /\ answer'[p] = what
           /\ \A q \in Threads \ {p} : pc'[q] = pc[q] /\ answer'[q] = answer[q]
BY DEF TypeOK, Answer, Stages, Answers

LEMMA EmptyEdits == {} \in SUBSET Editors
OBVIOUS

LEMMA Kinds == {"absent", "empty"} \subseteq Content \cup {"absent"}
BY DEF Content

\* One file changes: it gets the next version.
LEMMA ChangeType ==
    ASSUME disk \in [Files -> State], NEW f \in Files,
           NEW kind \in Content \cup {"absent"}, NEW edits \in SUBSET Editors,
           Change(f, kind, edits)
    PROVE  /\ disk' \in [Files -> State]
           /\ disk'[f] = [kind |-> kind, version |-> disk[f].version + 1,
                          edits |-> edits]
           /\ \A g \in Files \ {f} : disk'[g] = disk[g]
           /\ \A g \in Files : disk[g].version <= disk'[g].version
<1>1. disk[f] \in State /\ disk[f].version \in Nat
  BY DEF State
<1>2. [kind |-> kind, version |-> disk[f].version + 1, edits |-> edits] \in State
  BY <1>1 DEF State
<1>3. \A g \in Files : disk[g].version \in Nat
  BY DEF State
<1>4. QED
  BY <1>1, <1>2, <1>3 DEF Change

LEMMA SameDiskOrder ==
    ASSUME disk \in [Files -> State], UNCHANGED disk
    PROVE  \A g \in Files : disk[g].version <= disk'[g].version
BY DEF State

\* One thread's record of the threads that were over.
LEMMA BeganOver ==
    ASSUME PlaceInv, NEW p \in Threads, Began(p)
    PROVE  /\ after' \in [Threads -> SUBSET Threads] /\ after'[p] = Over
           /\ pc[p] = "idle" /\ p \notin Over
           /\ \A q \in Threads \ {p} : after'[q] = after[q]
BY DEF PlaceInv, TypeOK, Began, Over

\* A step of one thread: nobody else moves, and what was over stays over.
OnlyMoves(p) ==
    /\ pc' \in [Threads -> Stages] /\ answer' \in [Threads -> Answers]
    /\ pc[p] # "over" /\ pc'[p] # "idle"
    /\ \A q \in Threads \ {p} : pc'[q] = pc[q] /\ answer'[q] = answer[q]

LEMMA OverGrows ==
    ASSUME TypeOK, NEW p \in Threads, OnlyMoves(p)
    PROVE  Over \subseteq Over'
BY DEF OnlyMoves, Over

LEMMA PlaceStep ==
    ASSUME PlaceInv, NEW p \in Reloaders \cup Editors, OnlyMoves(p), TypeOK', Placed(p)',
           UNCHANGED after \/ Began(p),
           \A q \in (Reloaders \cup Editors) \ {p} : job'[q] = job[q]
    PROVE  PlaceInv'
<1> USE ThreadsApart
<1>1. Over \subseteq Over'
  BY OverGrows DEF PlaceInv
<1>2. \A q \in (Reloaders \cup Editors) \ {p} : Placed(q)'
  BY DEF PlaceInv, OnlyMoves, Placed
<1>3. \A q \in Threads : after'[q] \subseteq Over'
  BY <1>1, BeganOver DEF PlaceInv
<1>4. QED
  BY <1>2, <1>3 DEF PlaceInv

-----------------------------------------------------------------------------
(* Reloads.                                                                *)

LEMMA ReloadType ==
    ASSUME PlaceInv, NEW p \in Reloaders, Reload(p)
    PROVE  PlaceInv' /\ OnlyMoves(p)
<1> USE ThreadsApart
<1>1. /\ TypeOK /\ Began(p) /\ UNCHANGED <<fileVars, registered, up, restarts>>
      /\ answer[p] = "none" /\ Placed(p)
  BY BeganOver DEF Reload, PlaceInv, Placed
<1>2. /\ after' \in [Threads -> SUBSET Threads] /\ pc[p] = "idle"
  BY <1>1, BeganOver
<1>3. since' \in [Reloaders -> [Files -> Nat]]
  <2>1. [f \in Files |-> disk[f].version] \in [Files -> Nat]
    BY <1>1 DEF TypeOK, State
  <2>2. QED
    BY <1>1, <2>1 DEF Reload, TypeOK
<1>4. DomainDir \in Roots /\ disk[<<DomainDir, 0>>] \in State
  BY <1>1, FilesAre, StateIs DEF DomainDir, TypeOK
<1>5. Loading(DomainDir, 0, disk[<<DomainDir, 0>>], {}, {}) \in Job
  BY <1>4, LoadingType, FilesAre
<1>6. CASE DomainDir \in dirs
  <2>1. /\ Goto(p, "load") /\ "load" \in Stages
        /\ job' = [job EXCEPT ![p] = Loading(DomainDir, 0, disk[<<DomainDir, 0>>],
                                             {}, {})]
    BY <1>6 DEF Reload, Stages
  <2>2. OnlyMoves(p) /\ pc'[p] = "load" /\ answer'[p] = "none"
    BY <1>1, <1>2, <2>1, GotoType DEF OnlyMoves
  <2>3. job' \in [Reloaders \cup Editors -> Job]
    BY <1>1, <1>5, <2>1 DEF TypeOK
  <2>4. TypeOK'
    BY <1>1, <1>2, <1>3, <2>2, <2>3 DEF TypeOK, OnlyMoves, Stages, Answers, fileVars
  <2>5. Placed(p)'
    BY <2>2 DEF Placed
  <2>6. \A q \in (Reloaders \cup Editors) \ {p} : job'[q] = job[q]
    BY <1>1, <2>1 DEF TypeOK
  <2>7. QED
    BY <1>1, <2>2, <2>4, <2>5, <2>6, PlaceStep
<1>7. CASE DomainDir \notin dirs
  <2>1. PICK what \in {"404", "already_loaded"} : Answer(p, what)
    BY <1>7 DEF Reload
  <2>2. what \in Answers /\ UNCHANGED job
    BY <1>7 DEF Reload, Answers
  <2>3. OnlyMoves(p) /\ pc'[p] = "over"
    BY <1>1, <1>2, <2>1, <2>2, AnswerType DEF OnlyMoves
  <2>4. TypeOK'
    BY <1>1, <1>2, <1>3, <2>2, <2>3 DEF TypeOK, OnlyMoves, Stages, Answers, fileVars
  <2>5. Placed(p)'
    BY <2>3 DEF Placed
  <2>6. QED
    BY <1>1, <2>2, <2>3, <2>4, <2>5, PlaceStep
<1>8. QED
  BY <1>6, <1>7

LEMMA InstallType ==
    ASSUME TypeOK, NEW p \in Reloaders
    PROVE  /\ Install(p) \in [Contracts -> Registered]
           /\ \A c \in Contracts \ {job[p].at} : Install(p)[c] = registered[c]
           /\ Accepts(job[p].at, job[p].read) =>
                Install(p)[job[p].at] = <<job[p].root, job[p].read.version>>
           /\ ~Accepts(job[p].at, job[p].read) => Install(p) = registered
<1>1. registered \in [Contracts -> Registered]
  BY DEF TypeOK, Registered
<1>2. /\ job[p].at \in Contracts /\ job[p].root \in Roots
      /\ job[p].read.version \in Nat
  BY JobIs DEF TypeOK
<1>3. <<job[p].root, job[p].read.version>> \in Registered
  BY <1>2 DEF Registered
<1>4. QED
  BY <1>1, <1>2, <1>3 DEF Install

\* What a load step does: it installs, and answers or reads the next contract.
LoadStep(p, listed, loaded) ==
    LET j == job[p]
        left == {c \in listed : c > j.at}
    IN \/ /\ left = {} /\ Answer(p, "reloaded")
          /\ job' = [job EXCEPT ![p] = Loading(j.root, 0, NoState, {}, loaded)]
       \/ \E next \in left :
             /\ \A c \in left : next <= c
             /\ Goto(p, "load")
             /\ job' = [job EXCEPT ![p] = Loading(j.root, next, disk[<<j.root, next>>],
                                                  listed, loaded)]

Listed(p) == IF job[p].at = 0 THEN Present(job[p].root) ELSE job[p].listed

LoadedNow(p) ==
    IF Accepts(job[p].at, job[p].read) THEN job[p].loaded \cup {job[p].at}
                                       ELSE job[p].loaded

LEMMA LoadContractIs ==
    ASSUME PlaceInv, NEW p \in Reloaders, LoadContract(p)
    PROVE  /\ pc[p] = "load" /\ registered' = Install(p)
           /\ Accepts(job[p].at, job[p].read) \/ Skips(job[p].at, job[p].read)
           /\ UNCHANGED <<disk, dirs, up, restarts, since, after>>
           /\ LoadStep(p, Listed(p), LoadedNow(p))
           /\ Listed(p) \in SUBSET Contracts /\ LoadedNow(p) \in SUBSET Contracts
<1>1. job[p].listed \in SUBSET Contracts /\ job[p].loaded \in SUBSET Contracts
      /\ job[p].at \in Contracts
  BY JobIs DEF PlaceInv, TypeOK
<1>2. Listed(p) \in SUBSET Contracts /\ LoadedNow(p) \in SUBSET Contracts
  BY <1>1 DEF Listed, Present, LoadedNow
<1>3. QED
  BY <1>2 DEF LoadContract, LoadStep, Listed, LoadedNow, fileVars, historyVars

LEMMA LoadContractType ==
    ASSUME PlaceInv, NEW p \in Reloaders, LoadContract(p)
    PROVE  PlaceInv' /\ OnlyMoves(p)
<1> USE ThreadsApart
<1> DEFINE listed == Listed(p)
           loaded == LoadedNow(p)
           root == job[p].root
<1>1. /\ TypeOK /\ Placed(p) /\ pc[p] = "load" /\ registered' = Install(p)
      /\ UNCHANGED <<disk, dirs, up, restarts, since, after>>
      /\ LoadStep(p, listed, loaded)
      /\ listed \in SUBSET Contracts /\ loaded \in SUBSET Contracts
      /\ root \in Roots
  BY LoadContractIs, JobIs DEF PlaceInv, TypeOK
<1>2. registered' \in [Contracts -> Registered] /\ answer[p] = "none"
  BY <1>1, InstallType DEF Placed
<1>3. ASSUME NEW j \in Job, job' = [job EXCEPT ![p] = j], OnlyMoves(p), Placed(p)'
      PROVE  PlaceInv'
  <2>1. job' \in [Reloaders \cup Editors -> Job]
    BY <1>1, <1>3 DEF TypeOK
  <2>2. TypeOK'
    BY <1>1, <1>2, <1>3, <2>1 DEF TypeOK, OnlyMoves, Stages, Answers, Registered
  <2>3. \A q \in (Reloaders \cup Editors) \ {p} : job'[q] = job[q]
    BY <1>1, <1>3 DEF TypeOK
  <2>4. QED
    BY <1>1, <1>3, <2>2, <2>3, PlaceStep
<1>4. CASE /\ Answer(p, "reloaded")
           /\ job' = [job EXCEPT ![p] = Loading(root, 0, NoState, {}, loaded)]
  <2>1. Loading(root, 0, NoState, {}, loaded) \in Job
    BY <1>1, LoadingType, NoStateType, FilesAre
  <2>2. "reloaded" \in Answers
    BY DEF Answers
  <2>3. OnlyMoves(p) /\ pc'[p] = "over"
    BY <1>1, <1>4, <2>2, AnswerType DEF OnlyMoves
  <2>4. Placed(p)'
    BY <2>3 DEF Placed
  <2>5. QED
    BY <1>3, <1>4, <2>1, <2>3, <2>4
<1>5. ASSUME NEW next \in listed, Goto(p, "load"),
             job' = [job EXCEPT ![p] = Loading(root, next, disk[<<root, next>>],
                                               listed, loaded)]
      PROVE  PlaceInv' /\ OnlyMoves(p)
  <2>1. next \in Contracts /\ disk[<<root, next>>] \in State
    BY <1>1, StateIs DEF TypeOK
  <2>2. Loading(root, next, disk[<<root, next>>], listed, loaded) \in Job
    BY <1>1, <2>1, LoadingType
  <2>3. "load" \in Stages
    BY DEF Stages
  <2>4. OnlyMoves(p) /\ pc'[p] = "load" /\ answer'[p] = "none"
    BY <1>1, <1>2, <1>5, <2>3, GotoType DEF OnlyMoves
  <2>5. Placed(p)'
    BY <2>4 DEF Placed
  <2>6. QED
    BY <1>3, <1>5, <2>2, <2>4, <2>5
<1>6. QED
  BY <1>1, <1>4, <1>5 DEF LoadStep

LEMMA LoadFailsType ==
    ASSUME PlaceInv, NEW p \in Reloaders, LoadFails(p)
    PROVE  PlaceInv' /\ OnlyMoves(p)
<1> USE ThreadsApart
<1>1. /\ TypeOK /\ pc[p] = "load" /\ Answer(p, "400") /\ "400" \in Answers
      /\ UNCHANGED <<disk, dirs, registered, up, job, restarts, since, after>>
  BY DEF LoadFails, PlaceInv, Answers, fileVars, historyVars
<1>2. OnlyMoves(p) /\ pc'[p] = "over"
  BY <1>1, AnswerType DEF OnlyMoves
<1>3. TypeOK'
  BY <1>1, <1>2 DEF TypeOK, OnlyMoves, Stages, Answers
<1>4. Placed(p)'
  BY <1>2 DEF Placed
<1>5. QED
  BY <1>1, <1>2, <1>3, <1>4, PlaceStep

-----------------------------------------------------------------------------
(* The file tools.                                                         *)

\* A call of a file tool begins: it goes on to its first write, or is over.
EditBegins(e, f) ==
    \E op \in {"write", "update", "delete"}, read \in State, old \in SUBSET Editors :
        /\ Begin(e, f, op, read, old)
        /\ op = "update" => read = disk[f]
        /\ \/ op \in {"write", "update"} /\ Goto(e, "open")
           \/ op = "delete" /\ Goto(e, "unlink")
           \/ \E what \in {"error", "missing"} : Answer(e, what)
        /\ pc'[e] = "open" /\ op = "update" => disk[f].kind \notin {"absent", "empty"}

LEMMA EditsBegin ==
    ASSUME PlaceInv, NEW e \in Editors, NEW f \in Editable,
           WriteFile(e, f) \/ UpdateFile(e, f) \/ DeleteFile(e, f)
    PROVE  EditBegins(e, f)
<1> USE ThreadsApart
<1>1. TypeOK /\ f \in Files /\ disk[f] \in State
  BY RegistryAssumption DEF PlaceInv, TypeOK
<1>2. CASE WriteFile(e, f)
  BY <1>2, NoStateType, EmptyEdits DEF WriteFile, EditBegins
<1>3. CASE UpdateFile(e, f)
  <2>1. CASE Begin(e, f, "update", disk[f], {}) /\ Answer(e, "error")
    <3>1. pc'[e] = "over"
      BY <1>1, <2>1 DEF Answer, TypeOK
    <3>2. QED
      BY <1>1, <2>1, <3>1, EmptyEdits DEF EditBegins
  <2>2. CASE /\ disk[f].kind \notin {"absent", "empty"}
             /\ \E old \in SUBSET disk[f].edits : Begin(e, f, "update", disk[f], old)
             /\ Goto(e, "open")
    <3>1. PICK old \in SUBSET disk[f].edits : Begin(e, f, "update", disk[f], old)
      BY <2>2
    <3>2. old \in SUBSET Editors
      BY <1>1 DEF State
    <3>3. QED
      BY <1>1, <2>2, <3>1, <3>2 DEF EditBegins
  <2>3. QED
    BY <1>3, <2>1, <2>2 DEF UpdateFile
<1>4. CASE DeleteFile(e, f)
  <2>1. Begin(e, f, "delete", NoState, {})
    BY <1>4 DEF DeleteFile
  <2>2. \/ Goto(e, "unlink")
        \/ \E what \in {"error", "missing"} : Answer(e, what)
    BY <1>4 DEF DeleteFile
  <2>3. QED
    BY <2>1, <2>2, NoStateType, EmptyEdits DEF EditBegins
<1>5. QED
  BY <1>2, <1>3, <1>4

LEMMA EditBeginsType ==
    ASSUME PlaceInv, NEW e \in Editors, NEW f \in Editable, EditBegins(e, f)
    PROVE  PlaceInv' /\ OnlyMoves(e)
<1> USE ThreadsApart
<1>1. PICK op \in {"write", "update", "delete"}, read \in State, old \in SUBSET Editors :
         /\ Begin(e, f, op, read, old)
         /\ \/ op \in {"write", "update"} /\ Goto(e, "open")
            \/ op = "delete" /\ Goto(e, "unlink")
            \/ \E what \in {"error", "missing"} : Answer(e, what)
  BY DEF EditBegins
<1>2. /\ TypeOK /\ Began(e) /\ f \in Files /\ Placed(e)
      /\ UNCHANGED <<disk, dirs, registered, up, restarts, since>>
      /\ job' = [job EXCEPT ![e] = Editing(f, op, read, old)]
  BY <1>1, RegistryAssumption DEF PlaceInv, Begin, fileVars
<1>3. after' \in [Threads -> SUBSET Threads] /\ pc[e] = "idle" /\ answer[e] = "none"
  BY <1>2, BeganOver DEF Placed
<1>4. Editing(f, op, read, old) \in Job /\ Editing(f, op, read, old).op = op
  BY <1>2, EditingType
<1>5. /\ job' \in [Reloaders \cup Editors -> Job] /\ job'[e] = Editing(f, op, read, old)
      /\ \A q \in (Reloaders \cup Editors) \ {e} : job'[q] = job[q]
  BY <1>2, <1>4 DEF TypeOK
<1>6. /\ OnlyMoves(e)
      /\ \/ pc'[e] = "open" /\ op \in {"write", "update"} /\ answer'[e] = "none"
         \/ pc'[e] = "unlink" /\ op = "delete" /\ answer'[e] = "none"
         \/ pc'[e] = "over"
  <2>1. {"error", "missing"} \subseteq Answers /\ {"open", "unlink"} \subseteq Stages
    BY DEF Answers, Stages
  <2>2. QED
    BY <1>1, <1>2, <1>3, <2>1, GotoType, AnswerType DEF OnlyMoves
<1>7. TypeOK'
  BY <1>2, <1>3, <1>5, <1>6 DEF TypeOK, OnlyMoves, Stages, Answers
<1>8. Placed(e)'
  BY <1>4, <1>5, <1>6 DEF Placed
<1>9. QED
  BY <1>2, <1>5, <1>6, <1>7, <1>8, PlaceStep

LEMMA OpenType ==
    ASSUME PlaceInv, NEW e \in Editors, Open(e)
    PROVE  PlaceInv' /\ OnlyMoves(e)
<1> USE ThreadsApart
<1>1. /\ TypeOK /\ pc[e] = "open" /\ Change(Target(e), "empty", {})
      /\ dirs' = dirs \cup {job[e].root} /\ Goto(e, "close") /\ Placed(e)
      /\ UNCHANGED <<registered, up, job, restarts, since, after>>
  BY DEF Open, PlaceInv, historyVars
<1>2. disk' \in [Files -> State] /\ dirs' \subseteq Roots
  <2>1. Target(e) \in Files /\ job[e].root \in Roots /\ "empty" \in Content
    BY <1>1, JobIs DEF TypeOK, Content
  <2>2. disk \in [Files -> State] /\ dirs \subseteq Roots
    BY <1>1 DEF TypeOK
  <2>3. disk' \in [Files -> State]
    <3>1. "empty" \in Content \cup {"absent"}
      BY Kinds
    <3>2. QED
      BY <1>1, <2>1, <2>2, <3>1, ChangeType, EmptyEdits
  <2>4. QED
    BY <1>1, <2>1, <2>2, <2>3
<1>3. OnlyMoves(e) /\ pc'[e] = "close" /\ answer'[e] = "none"
  <2>1. "close" \in Stages
    BY DEF Stages
  <2>2. QED
    BY <1>1, <2>1, GotoType DEF OnlyMoves, Placed
<1>4. TypeOK'
  BY <1>1, <1>2, <1>3 DEF TypeOK, OnlyMoves, Stages, Answers
<1>5. Placed(e)'
  BY <1>1, <1>3 DEF Placed
<1>6. QED
  BY <1>1, <1>3, <1>4, <1>5, PlaceStep

\* The edits a closing call leaves in its file.
Kept(e) ==
    {e} \cup (IF job[e].op = "update" THEN job[e].read.edits \ job[e].old ELSE {})

LEMMA CloseIs ==
    ASSUME PlaceInv, NEW e \in Editors, Close(e)
    PROVE  /\ pc[e] = "close" /\ Answer(e, "edited")
           /\ UNCHANGED <<dirs, registered, up, job, restarts, since, after>>
           /\ \/ job[e].op = "none" /\ UNCHANGED disk
              \/ /\ job[e].op # "none"
                 /\ \E kind \in Content : Change(Target(e), kind, Kept(e))
           /\ Kept(e) \in SUBSET Editors /\ Target(e) \in Files
<1>1. job[e].read.edits \in SUBSET Editors /\ Target(e) \in Files
  BY JobIs DEF PlaceInv, TypeOK
<1>2. Written \subseteq Content /\ "broken" \in Content
  BY RegistryAssumption DEF Content
<1>3. Kept(e) \in SUBSET Editors
  BY <1>1 DEF Kept
<1>4. \/ job[e].op = "none" /\ UNCHANGED disk
      \/ /\ job[e].op # "none"
         /\ \E kind \in Content : Change(Target(e), kind, Kept(e))
  BY <1>2 DEF Close, Kept
<1>5. QED
  BY <1>1, <1>3, <1>4 DEF Close, historyVars

LEMMA CloseType ==
    ASSUME PlaceInv, NEW e \in Editors, Close(e)
    PROVE  PlaceInv' /\ OnlyMoves(e)
<1> USE ThreadsApart
<1>1. TypeOK /\ "edited" \in Answers
  BY DEF PlaceInv, Answers
<1>2. disk' \in [Files -> State]
  <2>1. CASE UNCHANGED disk
    BY <1>1, <2>1 DEF TypeOK
  <2>2. ASSUME NEW kind \in Content, Change(Target(e), kind, Kept(e))
        PROVE  disk' \in [Files -> State]
    BY <1>1, <2>2, CloseIs, ChangeType DEF TypeOK
  <2>3. QED
    BY <2>1, <2>2, CloseIs
<1>3. OnlyMoves(e) /\ pc'[e] = "over"
  BY <1>1, CloseIs, AnswerType DEF OnlyMoves
<1>4. TypeOK'
  BY <1>1, <1>2, <1>3, CloseIs DEF TypeOK, OnlyMoves, Stages, Answers
<1>5. Placed(e)'
  BY <1>3 DEF Placed
<1>6. QED
  BY <1>3, <1>4, <1>5, CloseIs, PlaceStep

\* What an unlink does to the jobs: those that hold the file open lose it.
LEMMA UnlinkIs ==
    ASSUME PlaceInv, NEW e \in Editors, Unlink(e)
    PROVE  /\ pc[e] = "unlink" /\ Target(e) \in Files
           /\ UNCHANGED <<dirs, registered, up, restarts, since, after>>
           /\ job' \in [Reloaders \cup Editors -> Job]
           /\ \E what \in {"error", "edited"} : Answer(e, what)
           /\ UNCHANGED disk \/ Change(Target(e), "absent", {})
           /\ \A q \in Reloaders \cup Editors :
                \/ job'[q] = job[q]
                \/ /\ q \in Editors /\ pc[q] = "close" /\ Target(q) = Target(e)
                   /\ job'[q].op = "none" /\ job'[q].root = job[q].root
                   /\ job'[q].at = job[q].at /\ job'[q].read = job[q].read
                   /\ job'[q].old = job[q].old
<1> DEFINE orphaned == {w \in Editors : pc[w] = "close" /\ Target(w) = Target(e)}
<1>1. /\ pc[e] = "unlink" /\ Target(e) \in Files
      /\ UNCHANGED <<dirs, registered, up, restarts, since, after>>
      /\ job \in [Reloaders \cup Editors -> Job]
  BY JobIs DEF Unlink, PlaceInv, TypeOK, historyVars
<1>2. CASE disk[Target(e)].kind = "absent"
  BY <1>1, <1>2 DEF Unlink
<1>3. CASE disk[Target(e)].kind # "absent"
  <2>1. /\ Answer(e, "edited") /\ Change(Target(e), "absent", {})
        /\ job' = [q \in DOMAIN job |->
                     IF q \in orphaned THEN [job[q] EXCEPT !.op = "none"] ELSE job[q]]
    BY <1>3 DEF Unlink
  <2>2. ASSUME NEW q \in Reloaders \cup Editors
        PROVE  /\ job'[q] \in Job
               /\ \/ job'[q] = job[q]
                  \/ /\ q \in orphaned
                     /\ job'[q].op = "none" /\ job'[q].root = job[q].root
                     /\ job'[q].at = job[q].at /\ job'[q].read = job[q].read
                     /\ job'[q].old = job[q].old
    <3>1. job[q] \in Job
      BY <1>1
    <3>2. /\ [job[q] EXCEPT !.op = "none"] \in Job
          /\ LET j == [job[q] EXCEPT !.op = "none"] IN
             /\ j.op = "none" /\ j.root = job[q].root /\ j.at = job[q].at
             /\ j.read = job[q].read /\ j.old = job[q].old
      BY <3>1 DEF Job
    <3>3. job'[q] = IF q \in orphaned THEN [job[q] EXCEPT !.op = "none"] ELSE job[q]
      BY <1>1, <2>1
    <3>4. QED
      BY <3>1, <3>2, <3>3
  <2>3. job' \in [Reloaders \cup Editors -> Job]
    BY <1>1, <2>1, <2>2
  <2>4. QED
    BY <1>1, <2>1, <2>2, <2>3
<1>4. QED
  BY <1>2, <1>3

LEMMA UnlinkType ==
    ASSUME PlaceInv, NEW e \in Editors, Unlink(e)
    PROVE  PlaceInv' /\ OnlyMoves(e)
<1> USE ThreadsApart
<1>1. TypeOK /\ {"edited", "error"} \subseteq Answers
  BY DEF PlaceInv, Answers
<1>2. disk' \in [Files -> State]
  <2>1. disk \in [Files -> State] /\ Target(e) \in Files
    BY <1>1, UnlinkIs DEF TypeOK
  <2>2. CASE UNCHANGED disk
    BY <2>1, <2>2
  <2>3. CASE Change(Target(e), "absent", {})
    <3>1. "absent" \in Content \cup {"absent"}
      BY Kinds
    <3>2. QED
      BY <2>1, <2>3, <3>1, ChangeType, EmptyEdits
  <2>4. QED
    BY <2>2, <2>3, UnlinkIs
<1>3. OnlyMoves(e) /\ pc'[e] = "over"
  BY <1>1, UnlinkIs, AnswerType DEF OnlyMoves
<1>4. TypeOK'
  BY <1>1, <1>2, <1>3, UnlinkIs DEF TypeOK, OnlyMoves, Stages, Answers
<1>5. \A q \in Reloaders \cup Editors : Placed(q)'
  <2>1. Placed(e)'
    BY <1>3 DEF Placed
  <2>2. \A q \in (Reloaders \cup Editors) \ {e} : Placed(q)'
    BY <1>3, UnlinkIs DEF PlaceInv, Placed, OnlyMoves
  <2>3. QED
    BY <2>1, <2>2
<1>6. \A q \in Threads : after'[q] \subseteq Over'
  BY <1>1, <1>3, OverGrows, UnlinkIs DEF PlaceInv
<1>7. QED
  BY <1>3, <1>4, <1>5, <1>6 DEF PlaceInv

-----------------------------------------------------------------------------
(* The process, and every step.                                            *)

LEMMA RestartIs ==
    ASSUME PlaceInv, Restart
    PROVE  /\ UNCHANGED <<disk, dirs, job, since, after>>
           /\ \A p \in Threads : pc'[p] = IF pc[p] = "idle" THEN "idle" ELSE "over"
           /\ \A p \in Reloaders : answer'[p] = "none"
           /\ \A p \in Editors : answer'[p] = answer[p]
           /\ Over \subseteq Over'
           /\ pc' \in [Threads -> Stages]
<1> USE ThreadsApart
<1>1. TypeOK /\ UNCHANGED <<disk, dirs, job, since, after>>
  BY DEF PlaceInv, Restart, fileVars, historyVars
<1>2. pc' \in [Threads -> Stages]
      /\ \A p \in Threads : pc'[p] = IF pc[p] = "idle" THEN "idle" ELSE "over"
  BY <1>1 DEF Restart, TypeOK, Stages
<1>3. /\ \A p \in Reloaders : answer'[p] = "none"
      /\ \A p \in Editors : answer'[p] = answer[p]
  BY <1>1 DEF Restart, TypeOK
<1>4. Over \subseteq Over'
  BY <1>2 DEF Over
<1>5. QED
  BY <1>1, <1>2, <1>3, <1>4

LEMMA RestartType ==
    ASSUME PlaceInv, Restart
    PROVE  PlaceInv'
<1> USE ThreadsApart
<1>1. TypeOK
  BY DEF PlaceInv
<1>2. registered' \in [Contracts -> Registered]
  BY <1>1, BuildType, UnloadedType DEF Restart, TypeOK
<1>3. answer' \in [Threads -> Answers]
  BY <1>1 DEF Restart, TypeOK, Answers
<1>4. restarts' \in 0..MaxRestarts /\ up' \in BOOLEAN
  BY <1>1, RegistryAssumption DEF Restart, TypeOK, StartupFails
<1>5. TypeOK'
  BY <1>1, <1>2, <1>3, <1>4, RestartIs DEF TypeOK, Stages, Answers, Registered
<1>6. \A p \in Reloaders \cup Editors : Placed(p)'
  BY RestartIs DEF PlaceInv, Placed
<1>7. \A p \in Threads : after'[p] \subseteq Over'
  BY RestartIs DEF PlaceInv
<1>8. QED
  BY <1>5, <1>6, <1>7 DEF PlaceInv

LEMMA PlaceInit == RegistryInit => PlaceInv
<1> SUFFICES ASSUME RegistryInit PROVE PlaceInv
  OBVIOUS
<1> USE ThreadsApart
<1>1. disk \in [Files -> State] /\ \A f \in Files : disk[f].version = 0
  <2>1. [NoState EXCEPT !.kind = "full"] \in State
        /\ [NoState EXCEPT !.kind = "full"].version = 0
    BY DEF NoState, State, Content
  <2>2. QED
    BY <2>1, NoStateType DEF RegistryInit, NoState
<1>2. registered \in [Contracts -> Registered]
  BY <1>1, BuildType DEF RegistryInit
<1>3. TypeOK
  BY <1>1, <1>2, NoJobType, FilesAre, RegistryAssumption
  DEF RegistryInit, TypeOK, Registered
<1>4. \A p \in Threads : pc[p] = "idle" /\ answer[p] = "none" /\ after[p] = {}
  BY DEF RegistryInit
<1>5. QED
  BY <1>3, <1>4 DEF PlaceInv, Placed

\* Every step is a step of one thread, a restart or a stutter.
LEMMA StepsAre ==
    ASSUME PlaceInv, [RegistryNext \/ Restart]_registryVars
    PROVE  \/ \E p \in Reloaders : Reload(p)
           \/ \E p \in Reloaders : LoadContract(p)
           \/ \E p \in Reloaders : LoadFails(p)
           \/ \E e \in Editors, f \in Editable : EditBegins(e, f)
           \/ \E e \in Editors : Open(e)
           \/ \E e \in Editors : Close(e)
           \/ \E e \in Editors : Unlink(e)
           \/ Restart
           \/ UNCHANGED registryVars
<1>1. CASE RegistryNext
  <2>1. CASE \E p \in Reloaders : Reload(p) \/ LoadContract(p) \/ LoadFails(p)
    BY <2>1
  <2>2. CASE \E e \in Editors : Open(e) \/ Close(e) \/ Unlink(e)
    BY <2>2
  <2>3. CASE \E e \in Editors, f \in Editable :
                WriteFile(e, f) \/ UpdateFile(e, f) \/ DeleteFile(e, f)
    BY <2>3, EditsBegin
  <2>4. QED
    BY <1>1, <2>1, <2>2, <2>3 DEF RegistryNext
<1>2. QED
  BY <1>1

LEMMA PlaceStutter == PlaceInv /\ UNCHANGED registryVars => PlaceInv'
BY DEF PlaceInv, TypeOK, Placed, Over, registryVars

LEMMA PlaceNext == PlaceInv /\ [RegistryNext \/ Restart]_registryVars => PlaceInv'
BY StepsAre, ReloadType, LoadContractType, LoadFailsType, EditBeginsType, OpenType,
   CloseType, UnlinkType, RestartType, PlaceStutter

\* A thread is where its kind of call can be, and what it saw over is over.
THEOREM PlaceInvariant == RegistrySpec => []PlaceInv
BY PlaceInit, PlaceNext, PTL DEF RegistrySpec

\* Every variable of the contract registry has its type.
THEOREM TypeCorrect == RegistrySpec => []TypeOK
<1>1. PlaceInv => TypeOK
  BY DEF PlaceInv
<1>2. QED
  BY <1>1, PlaceInvariant, PTL

-----------------------------------------------------------------------------
(* No contract older than an overlapping reload found it.                  *)

LEMMA VersionsGrow ==
    ASSUME PlaceInv, [RegistryNext \/ Restart]_registryVars
    PROVE  \A g \in Files : disk[g].version <= disk'[g].version
<1> USE ThreadsApart
<1>1. disk \in [Files -> State] /\ "empty" \in Content \cup {"absent"}
      /\ "absent" \in Content \cup {"absent"} /\ Content \subseteq Content \cup {"absent"}
  BY Kinds DEF PlaceInv, TypeOK
<1>2. CASE UNCHANGED disk
  BY <1>1, <1>2, SameDiskOrder
<1>3. CASE \E e \in Editors : Open(e)
  <2>1. PICK e \in Editors : Open(e)
    BY <1>3
  <2>2. Target(e) \in Files /\ Change(Target(e), "empty", {})
    BY <2>1, JobIs DEF Open, PlaceInv, TypeOK
  <2>3. QED
    BY <1>1, <2>2, ChangeType, EmptyEdits
<1>4. CASE \E e \in Editors : Close(e)
  <2>1. PICK e \in Editors : Close(e)
    BY <1>4
  <2>2. CASE UNCHANGED disk
    BY <1>2, <2>2
  <2>3. ASSUME NEW kind \in Content, Change(Target(e), kind, Kept(e))
        PROVE  \A g \in Files : disk[g].version <= disk'[g].version
    BY <1>1, <2>1, <2>3, CloseIs, ChangeType
  <2>4. QED
    BY <2>1, <2>2, <2>3, CloseIs
<1>5. CASE \E e \in Editors : Unlink(e)
  <2>1. PICK e \in Editors : Unlink(e)
    BY <1>5
  <2>2. CASE UNCHANGED disk
    BY <1>2, <2>2
  <2>3. CASE Change(Target(e), "absent", {})
    BY <1>1, <2>1, <2>3, UnlinkIs, ChangeType, EmptyEdits
  <2>4. QED
    BY <2>1, <2>2, <2>3, UnlinkIs
<1>6. CASE \/ \E p \in Reloaders : Reload(p) \/ LoadFails(p)
           \/ \E e \in Editors, f \in Editable : EditBegins(e, f)
  BY <1>2, <1>6 DEF Reload, LoadFails, EditBegins, Begin, fileVars
<1>7. CASE (\E p \in Reloaders : LoadContract(p)) \/ Restart \/ UNCHANGED registryVars
  BY <1>2, <1>7, LoadContractIs, RestartIs DEF registryVars
<1>8. QED
  BY <1>3, <1>4, <1>5, <1>6, <1>7, StepsAre

\* The versions of the files when a reload began, and of the one it has read.
SinceHolds(p) ==
    /\ Started(p) => \A f \in Files : since[p][f] <= disk[f].version
    /\ pc[p] = "load" =>
         since[p][<<job[p].root, job[p].at>>] <= job[p].read.version

SinceInv == PlaceInv /\ \A p \in Reloaders : SinceHolds(p)

\* A reload that neither begins nor moves, whatever happens to the disk.
LEMMA SinceStays ==
    ASSUME SinceInv, NEW p \in Reloaders,
           \A g \in Files : disk[g].version <= disk'[g].version,
           disk' \in [Files -> State],
           since'[p] = since[p], job'[p] = job[p],
           pc'[p] = pc[p] \/ (pc[p] # "idle" /\ pc'[p] = "over")
    PROVE  SinceHolds(p)'
<1> USE ThreadsApart
<1>1. SinceHolds(p) /\ TypeOK
  BY DEF SinceInv, PlaceInv
<1>2. \A g \in Files : /\ disk[g].version \in Nat /\ disk'[g].version \in Nat
                       /\ since[p][g] \in Nat
  BY <1>1 DEF TypeOK, State
<1>3. Started(p)' => \A g \in Files : since'[p][g] <= disk'[g].version
  BY <1>1, <1>2 DEF SinceHolds, Started
<1>4. QED
  BY <1>1, <1>3 DEF SinceHolds

LEMMA SinceNext == SinceInv /\ [RegistryNext \/ Restart]_registryVars => SinceInv'
<1> SUFFICES ASSUME SinceInv, [RegistryNext \/ Restart]_registryVars PROVE SinceInv'
  OBVIOUS
<1> USE ThreadsApart
<1>1. PlaceInv /\ PlaceInv' /\ TypeOK /\ disk' \in [Files -> State]
  BY PlaceNext DEF SinceInv, PlaceInv, TypeOK
<1>2. \A g \in Files : disk[g].version <= disk'[g].version
  BY <1>1, VersionsGrow
<1>3. CASE \E p \in Reloaders : Reload(p)
  <2>1. PICK p \in Reloaders : Reload(p)
    BY <1>3
  <2>2. OnlyMoves(p) /\ UNCHANGED disk
    BY <1>1, <2>1, ReloadType DEF Reload, fileVars
  <2>3. \A q \in Reloaders \ {p} : /\ since'[q] = since[q] /\ job'[q] = job[q]
                                   /\ pc'[q] = pc[q]
    BY <1>1, <2>1, <2>2 DEF Reload, TypeOK, OnlyMoves
  <2>4. \A q \in Reloaders \ {p} : SinceHolds(q)'
    BY <1>1, <1>2, <2>3, SinceStays
  <2>5. \A f \in Files : since'[p][f] = disk[f].version
    BY <1>1, <2>1 DEF Reload, TypeOK
  <2>6. CASE DomainDir \in dirs
    <3>1. job' = [job EXCEPT ![p] =
                     Loading(DomainDir, 0, disk[<<DomainDir, 0>>], {}, {})]
      BY <2>1, <2>6 DEF Reload
    <3>2. DomainDir \in Roots /\ 0 \in Contracts
      BY FilesAre DEF DomainDir
    <3>3. disk[<<DomainDir, 0>>] \in State
      BY <1>1, <3>2, StateIs DEF TypeOK
    <3>4. /\ job'[p].root = DomainDir /\ job'[p].at = 0
          /\ job'[p].read = disk[<<DomainDir, 0>>]
      BY <1>1, <3>1, <3>2, <3>3, LoadingType DEF TypeOK
    <3>5. <<DomainDir, 0>> \in Files /\ disk[<<DomainDir, 0>>].version \in Nat
      BY <1>1, <3>2, FilesAre, StateIs DEF TypeOK
    <3>6. since'[p][<<job'[p].root, job'[p].at>>] <= job'[p].read.version
      BY <2>5, <3>4, <3>5
    <3>7. \A f \in Files : since'[p][f] <= disk'[f].version
      BY <1>2, <2>5
    <3>8. SinceHolds(p)'
      BY <3>6, <3>7 DEF SinceHolds
    <3>9. QED
      BY <1>1, <2>4, <3>8 DEF SinceInv
  <2>7. CASE DomainDir \notin dirs
    <3>1. pc'[p] = "over"
      BY <1>1, <2>1, <2>7 DEF Reload, Answer, TypeOK
    <3>2. \A f \in Files : since'[p][f] <= disk'[f].version
      BY <1>2, <2>5
    <3>3. SinceHolds(p)'
      BY <3>1, <3>2 DEF SinceHolds
    <3>4. QED
      BY <1>1, <2>4, <3>3 DEF SinceInv
  <2>8. QED
    BY <2>6, <2>7
<1>4. CASE \E p \in Reloaders : LoadContract(p)
  <2>1. PICK p \in Reloaders : LoadContract(p)
    BY <1>4
  <2>2. /\ OnlyMoves(p) /\ UNCHANGED <<disk, since>> /\ pc[p] = "load"
        /\ LoadStep(p, Listed(p), LoadedNow(p))
        /\ Listed(p) \in SUBSET Contracts /\ LoadedNow(p) \in SUBSET Contracts
    BY <1>1, <2>1, LoadContractType, LoadContractIs
  <2>3. \A q \in Reloaders \ {p} : /\ since'[q] = since[q] /\ job'[q] = job[q]
                                   /\ pc'[q] = pc[q]
    BY <1>1, <2>2 DEF TypeOK, OnlyMoves, LoadStep
  <2>4. \A q \in Reloaders \ {p} : SinceHolds(q)'
    BY <1>1, <1>2, <2>3, SinceStays
  <2>5. \A f \in Files : since'[p][f] <= disk'[f].version
    BY <2>2 DEF SinceInv, SinceHolds, Started
  <2>6. CASE Answer(p, "reloaded")
    <3>1. pc'[p] = "over"
      BY <1>1, <2>6 DEF Answer, TypeOK
    <3>2. SinceHolds(p)'
      BY <2>5, <3>1 DEF SinceHolds
    <3>3. QED
      BY <1>1, <2>4, <3>2 DEF SinceInv
  <2>7. ASSUME NEW next \in Listed(p),
               job' = [job EXCEPT ![p] =
                  Loading(job[p].root, next, disk[<<job[p].root, next>>],
                          Listed(p), LoadedNow(p))]
        PROVE  SinceInv'
    <3>1. job[p].root \in Roots /\ next \in Contracts
      BY <1>1, <2>2, JobIs DEF TypeOK
    <3>2. disk[<<job[p].root, next>>] \in State /\ <<job[p].root, next>> \in Files
      BY <1>1, <3>1, StateIs, FilesAre DEF TypeOK
    <3>3. /\ job'[p].root = job[p].root /\ job'[p].at = next
          /\ job'[p].read = disk[<<job[p].root, next>>]
      BY <1>1, <2>2, <2>7, <3>1, <3>2, LoadingType DEF TypeOK
    <3>4. since'[p][<<job'[p].root, job'[p].at>>] <= job'[p].read.version
      BY <2>2, <2>5, <3>2, <3>3
    <3>5. SinceHolds(p)'
      BY <2>5, <3>4 DEF SinceHolds
    <3>6. QED
      BY <1>1, <2>4, <3>5 DEF SinceInv
  <2>8. QED
    BY <2>2, <2>6, <2>7 DEF LoadStep
<1>5. ASSUME \A q \in Reloaders :
                /\ since'[q] = since[q] /\ job'[q] = job[q]
                /\ pc'[q] = pc[q] \/ (pc[q] # "idle" /\ pc'[q] = "over")
      PROVE  SinceInv'
  BY <1>1, <1>2, <1>5, SinceStays DEF SinceInv
<1>6. CASE \E p \in Reloaders : LoadFails(p)
  <2>1. \A q \in Reloaders :
           /\ since'[q] = since[q] /\ job'[q] = job[q]
           /\ pc'[q] = pc[q] \/ (pc[q] # "idle" /\ pc'[q] = "over")
    BY <1>1, <1>6 DEF LoadFails, Answer, TypeOK, historyVars
  <2>2. QED
    BY <1>5, <2>1
<1>7. CASE \E e \in Editors : \/ \E f \in Editable : EditBegins(e, f)
                              \/ Open(e) \/ Close(e) \/ Unlink(e)
  <2>1. PICK e \in Editors : \/ \E f \in Editable : EditBegins(e, f)
                             \/ Open(e) \/ Close(e) \/ Unlink(e)
    BY <1>7
  <2>2. OnlyMoves(e)
    BY <1>1, <2>1, EditBeginsType, OpenType, CloseType, UnlinkType
  <2>3. \A q \in Reloaders : since'[q] = since[q] /\ pc'[q] = pc[q]
    BY <1>1, <2>1, <2>2, CloseIs, UnlinkIs
    DEF OnlyMoves, EditBegins, Begin, Open, historyVars
  <2>4. \A q \in Reloaders : job'[q] = job[q]
    BY <1>1, <2>1, CloseIs, UnlinkIs DEF EditBegins, Begin, Open, TypeOK
  <2>5. QED
    BY <1>5, <2>3, <2>4
<1>8. CASE Restart
  <2>1. \A q \in Reloaders :
           /\ since'[q] = since[q] /\ job'[q] = job[q]
           /\ pc'[q] = pc[q] \/ (pc[q] # "idle" /\ pc'[q] = "over")
    BY <1>1, <1>8, RestartIs
  <2>2. QED
    BY <1>5, <2>1
<1>9. CASE UNCHANGED registryVars
  BY <1>5, <1>9 DEF registryVars
<1>10. QED
  BY <1>1, <1>3, <1>4, <1>6, <1>7, <1>8, <1>9, StepsAre

LEMMA SinceInit == RegistryInit => SinceInv
<1> SUFFICES ASSUME RegistryInit PROVE SinceInv
  OBVIOUS
<1>1. \A p \in Reloaders : pc[p] = "idle"
  BY ThreadsApart DEF RegistryInit
<1>2. QED
  BY <1>1, PlaceInit DEF SinceInv, SinceHolds, Started

\* Contract c is registered no older than some reload found it that was not
\* over when p began.
FreshFor(p, c) ==
    \E q \in Reloaders :
        /\ Started(q) /\ q \notin after[p]
        /\ registered[c][1] = job[q].root
        /\ registered[c][2] >= since[q][<<job[q].root, c>>]

\* Reloads that run or have answered, and what they have loaded.
LoadedFresh(p) ==
    pc[p] = "load" \/ answer[p] = "reloaded" => \A c \in job[p].loaded : FreshFor(p, c)

FreshInv == SinceInv /\ \A p \in Reloaders : LoadedFresh(p)

\* Fresh contracts stay so when no reload begins another domain directory.
LEMMA FreshStays ==
    ASSUME NEW p \in Reloaders, NEW c \in Contracts, FreshFor(p, c),
           \A q \in Reloaders : Started(q) =>
                Started(q)' /\ job'[q].root = job[q].root /\ since'[q] = since[q],
           after'[p] = after[p], registered'[c] = registered[c]
    PROVE  FreshFor(p, c)'
BY DEF FreshFor

\* A reload that does not move keeps what it has loaded fresh.
LEMMA LoadedStays ==
    ASSUME FreshInv, NEW p \in Reloaders, job'[p] = job[p],
           pc'[p] = "load" \/ answer'[p] = "reloaded"
              => pc[p] = "load" \/ answer[p] = "reloaded",
           \A q \in Reloaders : Started(q) =>
                Started(q)' /\ job'[q].root = job[q].root /\ since'[q] = since[q],
           after'[p] = after[p], registered' = registered
    PROVE  LoadedFresh(p)'
<1>1. job[p].loaded \in SUBSET Contracts /\ LoadedFresh(p)
  BY JobIs DEF FreshInv, SinceInv, PlaceInv, TypeOK
<1>2. QED
  BY <1>1, FreshStays DEF LoadedFresh

LEMMA FreshLoad ==
    ASSUME FreshInv, PlaceInv', NEW p \in Reloaders, LoadContract(p)
    PROVE  \A q \in Reloaders : LoadedFresh(q)'
<1> USE ThreadsApart
<1>1. /\ PlaceInv /\ TypeOK /\ SinceHolds(p)
      /\ pc[p] = "load" /\ registered' = Install(p) /\ OnlyMoves(p)
      /\ UNCHANGED <<since, after>>
      /\ LoadStep(p, Listed(p), LoadedNow(p))
      /\ Listed(p) \in SUBSET Contracts /\ LoadedNow(p) \in SUBSET Contracts
  BY LoadContractIs, LoadContractType DEF FreshInv, SinceInv, PlaceInv
<1>2. job[p].root \in Roots /\ job[p].at \in Contracts /\ job[p].read.version \in Nat
  BY <1>1, JobIs DEF TypeOK
<1>3. job'[p].root = job[p].root /\ job'[p].loaded = LoadedNow(p)
  <2>1. CASE job' = [job EXCEPT ![p] =
                Loading(job[p].root, 0, NoState, {}, LoadedNow(p))]
    <3>1. job'[p] = Loading(job[p].root, 0, NoState, {}, LoadedNow(p))
      BY <1>1, <2>1 DEF TypeOK
    <3>2. QED
      BY <3>1 DEF Loading
  <2>2. ASSUME NEW next \in Listed(p),
               job' = [job EXCEPT ![p] =
                  Loading(job[p].root, next, disk[<<job[p].root, next>>],
                          Listed(p), LoadedNow(p))]
        PROVE  job'[p].root = job[p].root /\ job'[p].loaded = LoadedNow(p)
    <3>1. next \in Contracts /\ disk[<<job[p].root, next>>] \in State
      BY <1>1, <1>2, StateIs DEF TypeOK
    <3>2. QED
      BY <1>1, <1>2, <2>2, <3>1, LoadingType DEF TypeOK
  <2>3. QED
    BY <1>1, <2>1, <2>2 DEF LoadStep
<1>4. \A q \in Reloaders \ {p} :
         job'[q] = job[q] /\ pc'[q] = pc[q] /\ answer'[q] = answer[q]
  BY <1>1 DEF TypeOK, OnlyMoves, LoadStep
<1>5. Started(p) /\ pc'[p] # "idle"
  BY <1>1 DEF LoadStep, Goto, Answer, TypeOK, Started
<1>6. \A q \in Reloaders : Started(q) =>
         Started(q)' /\ job'[q].root = job[q].root /\ since'[q] = since[q]
  BY <1>1, <1>3, <1>4, <1>5 DEF Started
<1>7. \A q \in Reloaders : p \notin after[q] /\ after'[q] = after[q]
  BY <1>1 DEF PlaceInv, Over
<1>8. ASSUME Accepts(job[p].at, job[p].read), NEW q \in Reloaders,
             NEW c \in Contracts, c = job[p].at
      PROVE  FreshFor(q, c)'
  <2>1. registered'[c] = <<job[p].root, job[p].read.version>>
    BY <1>1, <1>8, InstallType
  <2>2. since[p][<<job[p].root, c>>] <= job[p].read.version
    BY <1>1, <1>8 DEF SinceHolds
  <2>3. since[p][<<job[p].root, c>>] \in Nat
    BY <1>1, <1>2, FilesAre DEF TypeOK
  <2>4. registered'[c][2] >= since'[p][<<job'[p].root, c>>]
    BY <1>1, <1>2, <1>3, <2>1, <2>2, <2>3
  <2>5. registered'[c][1] = job'[p].root
    BY <1>3, <2>1
  <2>6. Started(p)' /\ p \notin after'[q]
    BY <1>5, <1>6, <1>7
  <2>7. QED
    BY <2>4, <2>5, <2>6 DEF FreshFor
<1>9. ASSUME NEW q \in Reloaders, NEW c \in Contracts, FreshFor(q, c)
      PROVE  FreshFor(q, c)'
  <2>1. CASE registered'[c] = registered[c]
    BY <1>6, <1>7, <1>9, <2>1, FreshStays
  <2>2. CASE registered'[c] # registered[c]
    <3>1. c = job[p].at /\ Accepts(job[p].at, job[p].read)
      BY <1>1, <2>2, InstallType
    <3>2. QED
      BY <1>8, <3>1
  <2>3. QED
    BY <2>1, <2>2
<1>10. LoadedFresh(p)'
  <2>1. \A c \in job[p].loaded : FreshFor(p, c)
    BY <1>1 DEF FreshInv, LoadedFresh
  <2>2. job[p].loaded \in SUBSET Contracts
    BY <1>1, JobIs DEF TypeOK
  <2>3. \A c \in LoadedNow(p) : FreshFor(p, c)'
    <3> SUFFICES ASSUME NEW c \in LoadedNow(p) PROVE FreshFor(p, c)'
      OBVIOUS
    <3>1. c \in Contracts
      BY <1>1
    <3>2. CASE c \in job[p].loaded
      BY <1>9, <2>1, <3>1, <3>2
    <3>3. CASE c \notin job[p].loaded
      <4>1. c = job[p].at /\ Accepts(job[p].at, job[p].read)
        BY <3>3 DEF LoadedNow
      <4>2. QED
        BY <1>8, <3>1, <4>1
    <3>4. QED
      BY <3>2, <3>3
  <2>4. QED
    BY <1>3, <2>3 DEF LoadedFresh
<1>11. \A q \in Reloaders \ {p} : LoadedFresh(q)'
  <2> SUFFICES ASSUME NEW q \in Reloaders \ {p} PROVE LoadedFresh(q)'
    OBVIOUS
  <2>1. LoadedFresh(q) /\ job[q].loaded \in SUBSET Contracts
    BY <1>1, JobIs DEF FreshInv, TypeOK
  <2>2. QED
    BY <1>4, <1>9, <2>1 DEF LoadedFresh
<1>12. QED
  BY <1>10, <1>11

LEMMA FreshNext == FreshInv /\ [RegistryNext \/ Restart]_registryVars => FreshInv'
<1> SUFFICES ASSUME FreshInv, [RegistryNext \/ Restart]_registryVars PROVE FreshInv'
  OBVIOUS
<1> USE ThreadsApart
<1>1. PlaceInv /\ PlaceInv' /\ TypeOK /\ SinceInv'
  BY PlaceNext, SinceNext DEF FreshInv, SinceInv, PlaceInv
<1>2. CASE \E p \in Reloaders : Reload(p)
  <2>1. PICK p \in Reloaders : Reload(p)
    BY <1>2
  <2>2. /\ OnlyMoves(p) /\ pc[p] = "idle" /\ UNCHANGED registered
        /\ \A q \in Reloaders \ {p} : after'[q] = after[q]
    BY <1>1, <2>1, ReloadType, BeganOver DEF Reload
  <2>3. \A q \in Reloaders \ {p} : since'[q] = since[q] /\ job'[q] = job[q]
    BY <1>1, <2>1 DEF Reload, TypeOK
  <2>4. \A q \in Reloaders : Started(q) =>
           Started(q)' /\ job'[q].root = job[q].root /\ since'[q] = since[q]
    BY <2>2, <2>3 DEF Started, OnlyMoves
  <2>5. \A q \in Reloaders \ {p} : LoadedFresh(q)'
    BY <2>2, <2>3, <2>4, LoadedStays DEF OnlyMoves
  <2>6. LoadedFresh(p)'
    <3>1. CASE DomainDir \in dirs
      <4>1. job'[p] = Loading(DomainDir, 0, disk[<<DomainDir, 0>>], {}, {})
        BY <1>1, <2>1, <3>1 DEF Reload, TypeOK
      <4>2. job'[p].loaded = {}
        BY <4>1 DEF Loading
      <4>3. QED
        BY <4>2 DEF LoadedFresh
    <3>2. CASE DomainDir \notin dirs
      <4>1. pc'[p] = "over" /\ answer'[p] \in {"404", "already_loaded"}
        BY <1>1, <2>1, <3>2 DEF Reload, Answer, TypeOK
      <4>2. QED
        BY <4>1 DEF LoadedFresh
    <3>3. QED
      BY <3>1, <3>2
  <2>7. QED
    BY <1>1, <2>5, <2>6 DEF FreshInv
<1>3. CASE \E p \in Reloaders : LoadContract(p)
  BY <1>1, <1>3, FreshLoad DEF FreshInv
<1>4. ASSUME UNCHANGED <<registered, since>>,
             \A q \in Reloaders :
                /\ job'[q] = job[q] /\ after'[q] = after[q]
                /\ Started(q) => Started(q)'
                /\ \/ pc'[q] = pc[q] /\ answer'[q] = answer[q]
                   \/ pc'[q] = "over" /\ answer'[q] = "400"
      PROVE  FreshInv'
  <2>1. \A q \in Reloaders : Started(q) =>
           Started(q)' /\ job'[q].root = job[q].root /\ since'[q] = since[q]
    BY <1>4
  <2>2. \A q \in Reloaders : LoadedFresh(q)'
    BY <1>4, <2>1, LoadedStays
  <2>3. QED
    BY <1>1, <2>2 DEF FreshInv
<1>5. CASE \E p \in Reloaders : LoadFails(p)
  <2>1. PICK p \in Reloaders : LoadFails(p)
    BY <1>5
  <2>2. /\ UNCHANGED <<registered, since, job, after>>
        /\ pc'[p] = "over" /\ answer'[p] = "400" /\ OnlyMoves(p)
    BY <1>1, <2>1, LoadFailsType DEF LoadFails, Answer, TypeOK, historyVars
  <2>3. QED
    BY <1>4, <2>2 DEF OnlyMoves, Started
<1>6. CASE \E e \in Editors : \/ \E f \in Editable : EditBegins(e, f)
                              \/ Open(e) \/ Close(e) \/ Unlink(e)
  <2>1. PICK e \in Editors : \/ \E f \in Editable : EditBegins(e, f)
                             \/ Open(e) \/ Close(e) \/ Unlink(e)
    BY <1>6
  <2>2. OnlyMoves(e)
    BY <1>1, <2>1, EditBeginsType, OpenType, CloseType, UnlinkType
  <2>3. UNCHANGED <<registered, since>>
    BY <1>1, <2>1, CloseIs, UnlinkIs DEF EditBegins, Begin, Open, historyVars
  <2>4. \A q \in Reloaders : job'[q] = job[q] /\ after'[q] = after[q]
    BY <1>1, <2>1, CloseIs, UnlinkIs, BeganOver
    DEF EditBegins, Begin, Open, TypeOK, historyVars
  <2>5. QED
    BY <1>4, <2>2, <2>3, <2>4 DEF OnlyMoves, Started
<1>7. CASE Restart
  <2>1. \A q \in Reloaders : pc'[q] # "load" /\ answer'[q] = "none"
    BY <1>1, <1>7, RestartIs
  <2>2. QED
    BY <1>1, <2>1 DEF FreshInv, LoadedFresh
<1>8. CASE UNCHANGED registryVars
  BY <1>4, <1>8 DEF registryVars, Started
<1>9. QED
  BY <1>1, <1>2, <1>3, <1>5, <1>6, <1>7, <1>8, StepsAre

\* A reload never leaves a contract it loaded older than a reload found it that
\* overlapped with it or came later, however reloads, edits and restarts mix.
THEOREM NothingGetsOlder == RegistrySpec => []NeverOlder
<1>1. RegistryInit => FreshInv
  <2> SUFFICES ASSUME RegistryInit PROVE FreshInv
    OBVIOUS
  <2>1. \A p \in Reloaders : pc[p] = "idle" /\ answer[p] = "none"
    BY ThreadsApart DEF RegistryInit
  <2>2. QED
    BY <2>1, SinceInit DEF FreshInv, LoadedFresh
<1>2. FreshInv => NeverOlder
  BY DEF FreshInv, LoadedFresh, FreshFor, NeverOlder
<1>3. QED
  BY <1>1, <1>2, FreshNext, PTL DEF RegistrySpec

-----------------------------------------------------------------------------
(* A reload that runs alone mirrors the disk.                              *)

Mirrored(root, c) == Accepts(c, disk[<<root, c>>]) => registered[c] = Loaded(root, c)

\* What a reload that is alone has installed of its directory so far, or until it
\* failed.
MirrorsSoFar(p) ==
    /\ job[p].root = DomainDir
    /\ pc[p] = "load" \/ answer[p] = "400" =>
         /\ job[p].read = disk[<<job[p].root, job[p].at>>]
         /\ job[p].at # 0 => job[p].listed = Present(job[p].root)
         /\ \A c \in Contracts : c < job[p].at => Mirrored(job[p].root, c)
    /\ answer[p] = "400" => ~Accepts(job[p].at, job[p].read)
    /\ answer[p] = "reloaded" => \A c \in Contracts : Mirrored(DomainDir, c)

QuietLoad(p) ==
    Alone(p) /\ (pc[p] = "load" \/ answer[p] \in {"reloaded", "400"}) => MirrorsSoFar(p)

QuietInv == PlaceInv /\ \A p \in Reloaders : QuietLoad(p)

\* A step of another thread ends the solitude of a reload.
LEMMA OthersDisturb ==
    ASSUME PlaceInv, NEW p \in Reloaders, NEW q \in (Reloaders \cup Editors) \ {p},
           OnlyMoves(q), after'[p] = after[p]
    PROVE  ~Alone(p)'
<1>1. q \notin after[p]
  BY ThreadsApart DEF PlaceInv, OnlyMoves, Over
<1>2. Started(q)'
  BY DEF OnlyMoves, Started
<1>3. QED
  BY <1>1, <1>2 DEF Alone

\* What does not exist is not loaded.
LEMMA AbsentIsMirrored ==
    ASSUME NEW root \in Roots, NEW c \in Contracts, c # 0, c \notin Present(root)
    PROVE  Mirrored(root, c)
<1>1. disk[<<root, c>>].kind = "absent"
  BY DEF Present
<1>2. ~Accepts(c, disk[<<root, c>>])
  BY <1>1 DEF Accepts, Lenient
<1>3. QED
  BY <1>2 DEF Mirrored

LEMMA QuietLoadStep ==
    ASSUME QuietInv, NEW p \in Reloaders, LoadContract(p), Alone(p)'
    PROVE  MirrorsSoFar(p)'
<1> USE ThreadsApart
<1> DEFINE j == job[p]
           root == j.root
<1>1. /\ PlaceInv /\ TypeOK /\ pc[p] = "load" /\ registered' = Install(p)
      /\ OnlyMoves(p) /\ UNCHANGED <<disk, dirs, after>>
      /\ LoadStep(p, Listed(p), LoadedNow(p))
      /\ Listed(p) \in SUBSET Contracts /\ LoadedNow(p) \in SUBSET Contracts
  BY LoadContractIs, LoadContractType DEF QuietInv, PlaceInv
<1>2. root \in Roots /\ j.at \in Contracts /\ Contracts \subseteq Int
  BY <1>1, JobIs, RegistryAssumption DEF TypeOK, Contracts
<1>3. Alone(p)
  BY <1>1 DEF Alone, Started, OnlyMoves
<1>4. MirrorsSoFar(p)
  BY <1>1, <1>3 DEF QuietInv, QuietLoad
<1>5. root = DomainDir /\ j.read = disk[<<root, j.at>>] /\ Listed(p) = Present(root)
      /\ DomainDir' = DomainDir
  BY <1>1, <1>4 DEF MirrorsSoFar, Listed, DomainDir
<1>7. ASSUME NEW c \in Contracts,
             c <= j.at \/ c \notin Listed(p)
      PROVE  Accepts(c, disk[<<DomainDir, c>>]) =>
                registered'[c] = <<DomainDir, disk[<<DomainDir, c>>].version>>
  <2>1. CASE c = j.at
    BY <1>1, <1>5, <2>1, InstallType
  <2>2. CASE c < j.at
    <3>1. Mirrored(root, c) /\ c # j.at
      BY <1>1, <1>2, <1>4, <2>2 DEF MirrorsSoFar
    <3>2. registered'[c] = registered[c]
      BY <1>1, <3>1, InstallType
    <3>3. QED
      BY <1>5, <3>1, <3>2 DEF Mirrored, Loaded
  <2>3. CASE c > j.at
    <3>1. c # 0 /\ c # j.at /\ c \notin Present(root)
      BY <1>2, <1>5, <1>7, <2>3, RegistryAssumption DEF Contracts
    <3>2. registered'[c] = registered[c] /\ Mirrored(root, c)
      BY <1>1, <1>2, <3>1, InstallType, AbsentIsMirrored
    <3>3. QED
      BY <1>5, <3>2 DEF Mirrored, Loaded
  <2>4. c = j.at \/ c < j.at \/ c > j.at
    <3>1. c \in Int /\ j.at \in Int
      BY <1>2
    <3>2. QED
      BY <3>1
  <2>5. QED
    BY <2>1, <2>2, <2>3, <2>4
<1>8. CASE /\ {c \in Listed(p) : c > j.at} = {} /\ Answer(p, "reloaded")
           /\ job' = [job EXCEPT ![p] = Loading(root, 0, NoState, {}, LoadedNow(p))]
  <2>1. /\ job'[p] = Loading(root, 0, NoState, {}, LoadedNow(p))
        /\ pc'[p] = "over" /\ answer'[p] = "reloaded"
    BY <1>1, <1>8 DEF TypeOK, Answer
  <2>2. job'[p].root = DomainDir'
    BY <1>5, <2>1 DEF Loading
  <2>3. \A c \in Contracts : c <= j.at \/ c \notin Listed(p)
    <3> SUFFICES ASSUME NEW c \in Contracts, c \in Listed(p) PROVE c <= j.at
      OBVIOUS
    <3>1. ~(c > j.at)
      BY <1>8
    <3>2. c \in Int /\ j.at \in Int
      BY <1>2
    <3>3. QED
      BY <3>1, <3>2
  <2>4. \A c \in Contracts : Mirrored(DomainDir, c)'
    BY <1>1, <1>5, <1>7, <2>3 DEF Mirrored, Loaded
  <2>5. QED
    BY <2>1, <2>2, <2>4 DEF MirrorsSoFar
<1>9. ASSUME NEW next \in {c \in Listed(p) : c > j.at},
             \A c \in {d \in Listed(p) : d > j.at} : next <= c,
             Goto(p, "load"),
             job' = [job EXCEPT ![p] = Loading(root, next, disk[<<root, next>>],
                                               Listed(p), LoadedNow(p))]
      PROVE  MirrorsSoFar(p)'
  <2>1. /\ job'[p] = Loading(root, next, disk[<<root, next>>], Listed(p), LoadedNow(p))
        /\ pc'[p] = "load" /\ answer'[p] = "none"
    BY <1>1, <1>9 DEF TypeOK, Goto, PlaceInv, Placed
  <2>2. /\ job'[p].root = root /\ job'[p].at = next
        /\ job'[p].read = disk[<<root, next>>] /\ job'[p].listed = Present(root)
    BY <1>5, <2>1 DEF Loading
  <2>4. job'[p].listed = Present(job[p].root)'
    BY <1>1, <2>2 DEF Present
  <2>5. next \in Contracts /\ Listed(p) \subseteq Contracts
    BY <1>1
  <2>6. \A c \in Contracts : c < next => c <= j.at \/ c \notin Listed(p)
    <3> SUFFICES ASSUME NEW c \in Contracts, c < next, c \in Listed(p)
                 PROVE  c <= j.at
      OBVIOUS
    <3>1. c \in Int /\ j.at \in Int /\ next \in Int
      BY <1>2, <2>5
    <3>2. ~(c > j.at)
      BY <1>9, <3>1
    <3>3. QED
      BY <3>1, <3>2
  <2>7. \A c \in Contracts : c < next => Mirrored(job[p].root, c)'
    BY <1>1, <1>5, <1>7, <2>2, <2>6 DEF Mirrored, Loaded
  <2>8. job'[p].read = disk'[<<job'[p].root, job'[p].at>>]
    BY <1>1, <2>2
  <2>9. QED
    BY <1>5, <2>1, <2>2, <2>4, <2>7, <2>8 DEF MirrorsSoFar
<1>10. QED
  BY <1>1, <1>8, <1>9 DEF LoadStep

LEMMA QuietNext == QuietInv /\ [RegistryNext \/ Restart]_registryVars => QuietInv'
<1> SUFFICES ASSUME QuietInv, [RegistryNext \/ Restart]_registryVars PROVE QuietInv'
  OBVIOUS
<1> USE ThreadsApart
<1>1. PlaceInv /\ PlaceInv' /\ TypeOK
  BY PlaceNext DEF QuietInv, PlaceInv
<1>2. ASSUME NEW q \in Reloaders \cup Editors, OnlyMoves(q),
             \A p \in Reloaders \ {q} : after'[p] = after[p],
             q \in Reloaders => QuietLoad(q)'
      PROVE  QuietInv'
  <2>1. \A p \in Reloaders \ {q} : ~Alone(p)'
    BY <1>1, <1>2, OthersDisturb
  <2>2. \A p \in Reloaders : QuietLoad(p)'
    BY <1>2, <2>1 DEF QuietLoad
  <2>3. QED
    BY <1>1, <2>2 DEF QuietInv
<1>3. CASE \E p \in Reloaders : Reload(p)
  <2>1. PICK p \in Reloaders : Reload(p)
    BY <1>3
  <2>2. OnlyMoves(p) /\ \A q \in Reloaders \ {p} : after'[q] = after[q]
    BY <1>1, <2>1, ReloadType, BeganOver DEF Reload
  <2>3. UNCHANGED <<disk, dirs, registered>>
    BY <2>1 DEF Reload, fileVars
  <2>4. QuietLoad(p)'
    <3>1. CASE DomainDir \in dirs
      <4>1. job'[p] = Loading(DomainDir, 0, disk[<<DomainDir, 0>>], {}, {})
            /\ answer'[p] = answer[p] /\ answer[p] = "none"
        BY <1>1, <2>1, <3>1 DEF Reload, TypeOK, Goto, PlaceInv, Placed, Began
      <4>2. /\ job'[p].root = DomainDir /\ job'[p].at = 0
            /\ job'[p].read = disk[<<DomainDir, 0>>]
        BY <4>1 DEF Loading
      <4>3. DomainDir' = DomainDir
        BY <2>3 DEF DomainDir
      <4>4. \A c \in Contracts : ~(c < 0)
        BY RegistryAssumption DEF Contracts
      <4>5. MirrorsSoFar(p)'
        BY <2>3, <4>1, <4>2, <4>3, <4>4 DEF MirrorsSoFar
      <4>6. QED
        BY <4>5 DEF QuietLoad
    <3>2. CASE DomainDir \notin dirs
      <4>1. pc'[p] = "over" /\ answer'[p] \in {"404", "already_loaded"}
        BY <1>1, <2>1, <3>2 DEF Reload, Answer, TypeOK
      <4>2. QED
        BY <4>1 DEF QuietLoad
    <3>3. QED
      BY <3>1, <3>2
  <2>5. QED
    BY <1>2, <2>2, <2>4
<1>4. CASE \E p \in Reloaders : LoadContract(p)
  <2>1. PICK p \in Reloaders : LoadContract(p)
    BY <1>4
  <2>2. OnlyMoves(p) /\ UNCHANGED after
    BY <1>1, <2>1, LoadContractType, LoadContractIs
  <2>3. QuietLoad(p)'
    BY <2>1, QuietLoadStep DEF QuietLoad
  <2>4. QED
    BY <1>2, <2>2, <2>3
<1>5. CASE \E p \in Reloaders : LoadFails(p)
  <2>1. PICK p \in Reloaders : LoadFails(p)
    BY <1>5
  <2>2. OnlyMoves(p) /\ UNCHANGED after
    BY <1>1, <2>1, LoadFailsType DEF LoadFails, historyVars
  <2>3. /\ pc[p] = "load" /\ pc'[p] = "over" /\ answer'[p] = "400"
        /\ ~Accepts(job[p].at, job[p].read) /\ UNCHANGED <<disk, dirs, registered, job>>
    BY <1>1, <2>1 DEF LoadFails, Answer, TypeOK, fileVars
  <2>4. QuietLoad(p)'
    <3> SUFFICES ASSUME Alone(p)' PROVE MirrorsSoFar(p)'
      BY DEF QuietLoad
    <3>1. Alone(p)
      BY <2>2 DEF Alone, Started, OnlyMoves
    <3>2. MirrorsSoFar(p)
      BY <2>3, <3>1 DEF QuietInv, QuietLoad
    <3>3. QED
      BY <2>3, <3>2 DEF MirrorsSoFar, Mirrored, Loaded, Present, DomainDir
  <2>5. QED
    BY <1>2, <2>2, <2>4
<1>6. CASE \E e \in Editors : \/ \E f \in Editable : EditBegins(e, f)
                              \/ Open(e) \/ Close(e) \/ Unlink(e)
  <2>1. PICK e \in Editors : \/ \E f \in Editable : EditBegins(e, f)
                             \/ Open(e) \/ Close(e) \/ Unlink(e)
    BY <1>6
  <2>2. OnlyMoves(e)
    BY <1>1, <2>1, EditBeginsType, OpenType, CloseType, UnlinkType
  <2>3. \A q \in Reloaders : after'[q] = after[q]
    BY <1>1, <2>1, CloseIs, UnlinkIs, BeganOver
    DEF EditBegins, Begin, Open, historyVars
  <2>4. QED
    BY <1>2, <2>2, <2>3
<1>7. CASE Restart
  <2>1. \A q \in Reloaders : pc'[q] # "load" /\ answer'[q] = "none"
    BY <1>1, <1>7, RestartIs
  <2>2. QED
    BY <1>1, <2>1 DEF QuietInv, QuietLoad
<1>8. CASE UNCHANGED registryVars
  <2>1. \A p \in Reloaders : QuietLoad(p)'
    BY <1>8 DEF QuietInv, QuietLoad, Alone, Started, MirrorsSoFar, DomainDir,
       Mirrored, Loaded, Present, registryVars
  <2>2. QED
    BY <1>1, <2>1 DEF QuietInv
<1>9. QED
  BY <1>1, <1>3, <1>4, <1>5, <1>6, <1>7, <1>8, StepsAre

LEMMA QuietInit == RegistryInit => QuietInv
<1> SUFFICES ASSUME RegistryInit PROVE QuietInv
  OBVIOUS
<1>1. \A p \in Reloaders : pc[p] = "idle" /\ answer[p] = "none"
  BY ThreadsApart DEF RegistryInit
<1>2. QED
  BY <1>1, PlaceInit DEF QuietInv, QuietLoad

\* A reload with no edit and no other reload during it or since registers every
\* contract of its directory that loads, as it is on disk (registry.py:85).
THEOREM QuietReloadsMirror == RegistrySpec => []QuietReloadMirrorsDisk
<1>1. QuietInv => QuietReloadMirrorsDisk
  BY DEF QuietInv, QuietLoad, MirrorsSoFar, Mirrored, QuietReloadMirrorsDisk
<1>2. QED
  BY <1>1, QuietInit, QuietNext, PTL DEF RegistrySpec

\* Such a reload, when it answers 400, has met a contract that does not load and
\* registered those before it as they are on disk (registry.py:102).
THEOREM FailedReloadsStopHalfway == RegistrySpec => []FailedReloadStopsHalfway
<1>1. QuietInv => FailedReloadStopsHalfway
  BY DEF QuietInv, QuietLoad, MirrorsSoFar, Mirrored, FailedReloadStopsHalfway
<1>2. QED
  BY <1>1, QuietInit, QuietNext, PTL DEF RegistrySpec

-----------------------------------------------------------------------------
(* Updates that do not overlap are kept.                                   *)

\* A call on the file of u that was not over when u began.
Rival(w, u) == w # u /\ Started(w) /\ Target(w) = Target(u) /\ w \notin after[u]

\* One that need not keep what u wrote.
Overrules(w, u) ==
    /\ Rival(w, u)
    /\ job[w].op # "update" \/ u \notin after[w] \/ u \in job[w].old

\* The text of u is in the file, or is brought back by the call that truncated
\* it; an update that goes on has read it.
InReach(u) ==
    /\ \/ u \in disk[Target(u)].edits
       \/ /\ disk[Target(u)].kind = "empty"
          /\ \E w \in Editors : Rival(w, u) /\ answer[w] = "none"
    /\ \A w \in Editors :
          /\ pc[w] \in {"open", "close"} /\ job[w].op = "update"
          /\ Target(w) = Target(u) /\ u \in after[w]
          => u \in job[w].read.edits

Updated(u) == answer[u] = "edited" /\ job[u].op = "update"

TextKept(u) == Updated(u) => InReach(u) \/ \E w \in Editors : Overrules(w, u)

TextInv == PlaceInv /\ \A u \in Editors : TextKept(u)

LEMMA UpdatedIsOver ==
    ASSUME PlaceInv, NEW u \in Editors, Updated(u)
    PROVE  pc[u] = "over" /\ u \in Over
BY ThreadsApart DEF PlaceInv, Placed, Updated, Over

\* Calls keep their file; a call that overrules goes on overruling.
LEMMA RivalsStay ==
    ASSUME NEW u \in Editors, NEW w \in Editors,
           \A q \in {u, w} : /\ Target(q)' = Target(q) /\ after'[q] = after[q]
                             /\ Started(q) => Started(q)'
                             /\ job'[q].op = job[q].op \/ job'[q].op = "none"
                             /\ job'[q].old = job[q].old
    PROVE  /\ Rival(w, u) => Rival(w, u)'
           /\ Overrules(w, u) => Overrules(w, u)'
<1>1. Rival(w, u) => Rival(w, u)'
  BY DEF Rival
<1>2. Overrules(w, u) => Overrules(w, u)'
  BY <1>1 DEF Overrules
<1>3. QED
  BY <1>1, <1>2

\* A step that changes no file and no call of the file tools, but may end some.
LEMMA TextFrame ==
    ASSUME TextInv, UNCHANGED disk,
           \A q \in Editors : /\ job'[q] = job[q] /\ after'[q] = after[q]
                              /\ answer'[q] = answer[q]
                              /\ Started(q) => Started(q)'
                              /\ pc'[q] \in {"open", "close"} => pc'[q] = pc[q]
    PROVE  \A u \in Editors : TextKept(u)'
<1> SUFFICES ASSUME NEW u \in Editors, Updated(u)'
             PROVE  InReach(u)' \/ \E w \in Editors : Overrules(w, u)'
  BY DEF TextKept
<1>1. \A q \in Editors : Target(q)' = Target(q)
  BY DEF Target
<1>2. Updated(u)
  BY DEF Updated
<1>3. \A w \in Editors : /\ Rival(w, u) => Rival(w, u)'
                         /\ Overrules(w, u) => Overrules(w, u)'
  BY <1>1, RivalsStay
<1>4. CASE InReach(u)
  <2>1. InReach(u)'
    BY <1>1, <1>3, <1>4 DEF InReach
  <2>2. QED
    BY <2>1
<1>5. QED
  BY <1>2, <1>3, <1>4 DEF TextInv, TextKept

\* A step of one call that leaves the other calls and the files it is not
\* about: what an update sees and writes on the file of u is hypothesis.
LEMMA TextOfOthers ==
    ASSUME TextInv, NEW e \in Editors, NEW u \in Editors, e # u, OnlyMoves(e),
           \A q \in Editors \ {e} : job'[q] = job[q] /\ after'[q] = after[q],
           Started(e) => job'[e] = job[e] /\ after'[e] = after[e],
           Target(e)' # Target(u) => disk'[Target(u)] = disk[Target(u)],
           /\ Target(e)' = Target(u)
           /\ job'[e].op = "update" /\ u \in after'[e] /\ u \notin job'[e].old
           /\ InReach(u)
           => /\ \/ u \in disk'[Target(u)].edits
                 \/ disk'[Target(u)] = disk[Target(u)] /\ ~Started(e)
                 \/ disk'[Target(u)].kind = "empty" /\ answer'[e] = "none"
              /\ pc'[e] \in {"open", "close"} => u \in job'[e].read.edits
    PROVE  TextKept(u)'
<1> USE ThreadsApart
<1> SUFFICES ASSUME Updated(u)'
             PROVE  InReach(u)' \/ \E w \in Editors : Overrules(w, u)'
  BY DEF TextKept
<1>1. /\ \A q \in Editors \ {e} : Target(q)' = Target(q)
      /\ \A q \in Editors \ {e} : pc'[q] = pc[q] /\ answer'[q] = answer[q]
      /\ \A q \in Editors : Started(q) => Started(q)'
  BY DEF Target, OnlyMoves, Started
<1>2. Updated(u) /\ pc[u] = "over" /\ Started(u) /\ PlaceInv
  <2>1. Updated(u)
    BY <1>1 DEF Updated
  <2>2. QED
    BY <2>1, UpdatedIsOver DEF Started, TextInv
<1>3. Started(e) => Target(e)' = Target(e)
  BY DEF Target
<1>4. \A w \in Editors : /\ Rival(w, u) => Rival(w, u)'
                         /\ Overrules(w, u) => Overrules(w, u)'
  BY <1>1, <1>2, <1>3 DEF Rival, Overrules
<1>5. CASE \E w \in Editors : Overrules(w, u)
  BY <1>4, <1>5
<1>6. CASE InReach(u) /\ Target(e)' # Target(u)
  <2>1. disk'[Target(u)'] = disk[Target(u)] /\ Target(u)' = Target(u)
    BY <1>1, <1>6
  <2>2. \A w \in Editors : Rival(w, u) => w # e
    BY <1>3, <1>6 DEF Rival
  <2>3. \/ u \in disk'[Target(u)'].edits
        \/ /\ disk'[Target(u)'].kind = "empty"
           /\ \E w \in Editors : Rival(w, u)' /\ answer'[w] = "none"
    BY <1>1, <1>4, <1>6, <2>1, <2>2 DEF InReach
  <2>4. ASSUME NEW w \in Editors, pc'[w] \in {"open", "close"}, job'[w].op = "update",
               Target(w)' = Target(u)', u \in after'[w]
        PROVE  u \in job'[w].read.edits
    <3>1. w # e
      BY <1>6, <2>1, <2>4
    <3>2. QED
      BY <1>1, <1>6, <2>1, <2>4, <3>1 DEF InReach
  <2>5. QED
    BY <2>3, <2>4 DEF InReach
<1>7. CASE InReach(u) /\ Target(e)' = Target(u)
  <2>1. Target(u)' = Target(u) /\ after'[u] = after[u]
    BY <1>1
  <2>2. Rival(e, u)'
    <3>1. pc[e] # "over" /\ pc'[e] # "idle" /\ after[u] \subseteq Over
      BY <1>2 DEF OnlyMoves, PlaceInv
    <3>2. e \notin after'[u]
      BY <2>1, <3>1 DEF Over
    <3>3. QED
      BY <1>7, <2>1, <3>1, <3>2 DEF Rival, Started
  <2>3. CASE job'[e].op # "update" \/ u \notin after'[e] \/ u \in job'[e].old
    BY <2>2, <2>3 DEF Overrules
  <2>4. CASE job'[e].op = "update" /\ u \in after'[e] /\ u \notin job'[e].old
    <3>1. \/ u \in disk'[Target(u)].edits
          \/ disk'[Target(u)] = disk[Target(u)] /\ ~Started(e)
          \/ disk'[Target(u)].kind = "empty" /\ answer'[e] = "none"
      BY <1>7, <2>4
    <3>2. \/ u \in disk'[Target(u)'].edits
          \/ /\ disk'[Target(u)'].kind = "empty"
             /\ \E w \in Editors : Rival(w, u)' /\ answer'[w] = "none"
      <4>1. CASE disk'[Target(u)] = disk[Target(u)] /\ ~Started(e)
        <5>1. \A w \in Editors : Rival(w, u) => w # e
          BY <4>1 DEF Rival
        <5>2. QED
          BY <1>1, <1>4, <1>7, <2>1, <4>1, <5>1 DEF InReach
      <4>2. QED
        BY <2>1, <2>2, <3>1, <4>1
    <3>3. ASSUME NEW w \in Editors, pc'[w] \in {"open", "close"}, job'[w].op = "update",
                 Target(w)' = Target(u)', u \in after'[w]
          PROVE  u \in job'[w].read.edits
      <4>1. CASE w = e
        BY <1>7, <2>4, <3>3, <4>1
      <4>2. CASE w # e
        BY <1>1, <1>7, <2>1, <3>3, <4>2 DEF InReach
      <4>3. QED
        BY <4>1, <4>2
    <3>4. QED
      BY <3>2, <3>3 DEF InReach
  <2>5. QED
    BY <2>3, <2>4
<1>8. QED
  BY <1>2, <1>5, <1>6, <1>7 DEF TextInv, TextKept

LEMMA TextBegins ==
    ASSUME TextInv, NEW e \in Editors, NEW f \in Editable, EditBegins(e, f)
    PROVE  \A u \in Editors : TextKept(u)'
<1> USE ThreadsApart
<1> SUFFICES ASSUME NEW u \in Editors PROVE TextKept(u)'
  OBVIOUS
<1>1. PlaceInv /\ TypeOK /\ f \in Files /\ f = <<f[1], f[2]>>
  BY RegistryAssumption, FilesAre DEF TextInv, PlaceInv
<1>2. PICK op \in {"write", "update", "delete"}, read \in State, old \in SUBSET Editors :
         /\ Begin(e, f, op, read, old)
         /\ op = "update" => read = disk[f]
         /\ \/ op \in {"write", "update"} /\ Goto(e, "open")
            \/ op = "delete" /\ Goto(e, "unlink")
            \/ \E what \in {"error", "missing"} : Answer(e, what)
         /\ pc'[e] = "open" /\ op = "update" => disk[f].kind \notin {"absent", "empty"}
  BY DEF EditBegins
<1>3. /\ Began(e) /\ pc[e] = "idle" /\ UNCHANGED disk /\ OnlyMoves(e)
      /\ job' = [job EXCEPT ![e] = Editing(f, op, read, old)]
      /\ \A q \in Editors \ {e} : after'[q] = after[q]
  BY <1>1, <1>2, BeganOver, EditBeginsType DEF Begin, fileVars
<1>4. /\ job'[e] = Editing(f, op, read, old) /\ job'[e].op = op /\ job'[e].read = read
      /\ \A q \in Editors \ {e} : job'[q] = job[q]
  BY <1>1, <1>3 DEF TypeOK, Editing
<1>5. Target(e)' = f
  BY <1>1, <1>4 DEF Target, Editing
<1>6. pc'[e] \in {"open", "unlink", "over"} /\ answer'[e] # "edited"
  <2>1. answer[e] = "none"
    BY <1>1, <1>3 DEF PlaceInv, Placed
  <2>2. QED
    BY <1>1, <1>2, <2>1 DEF TypeOK, Goto, Answer
<1>7. CASE u = e
  BY <1>6, <1>7 DEF TextKept, Updated
<1>8. CASE u # e
  <2>1. ASSUME Target(u) = f, op = "update", InReach(u)
        PROVE  pc'[e] \in {"open", "close"} => u \in job'[e].read.edits
    BY <1>2, <1>4, <1>6, <2>1 DEF InReach
  <2>2. ~Started(e)
    BY <1>3 DEF Started
  <2>3. disk' = disk
    BY <1>3
  <2>4. QED
    BY <1>3, <1>4, <1>5, <1>8, <2>1, <2>2, <2>3, TextOfOthers
<1>9. QED
  BY <1>7, <1>8

LEMMA TextOpens ==
    ASSUME TextInv, NEW e \in Editors, Open(e)
    PROVE  \A u \in Editors : TextKept(u)'
<1> USE ThreadsApart
<1> SUFFICES ASSUME NEW u \in Editors PROVE TextKept(u)'
  OBVIOUS
<1>1. /\ PlaceInv /\ pc[e] = "open" /\ Change(Target(e), "empty", {})
      /\ UNCHANGED <<job, after>> /\ OnlyMoves(e) /\ Placed(e)
      /\ disk \in [Files -> State] /\ job \in [Reloaders \cup Editors -> Job]
  BY OpenType DEF Open, TextInv, PlaceInv, TypeOK, historyVars
<1>2. \A q \in Editors : Target(q)' = Target(q) /\ Target(q) \in Files
  BY <1>1, JobIs DEF Target
<1>3. /\ disk'[Target(e)].kind = "empty"
      /\ \A g \in Files \ {Target(e)} : disk'[g] = disk[g]
  <2>1. "empty" \in Content \cup {"absent"}
    BY Kinds
  <2>2. Target(e) \in Files
    BY <1>2
  <2>3. /\ disk'[Target(e)] = [kind |-> "empty", version |-> disk[Target(e)].version + 1,
                               edits |-> {}]
        /\ \A g \in Files \ {Target(e)} : disk'[g] = disk[g]
    BY <1>1, <2>1, <2>2, ChangeType, EmptyEdits
  <2>4. QED
    BY <2>3
<1>4. pc'[e] = "close" /\ answer'[e] = "none"
  BY <1>1 DEF Open, Goto, PlaceInv, TypeOK, Placed
<1>5. CASE u = e
  BY <1>4, <1>5 DEF TextKept, Updated
<1>6. CASE u # e
  <2>1. ASSUME Target(e) = Target(u), job[e].op = "update", u \in after[e], InReach(u)
        PROVE  u \in job[e].read.edits
    BY <1>1, <2>1 DEF InReach
  <2>2. /\ job' = job /\ after' = after
        /\ Target(e) # Target(u) => disk'[Target(u)] = disk[Target(u)]
    BY <1>1, <1>2, <1>3
  <2>3. QED
    BY <1>1, <1>2, <1>3, <1>4, <1>6, <2>1, <2>2, TextOfOthers
<1>7. QED
  BY <1>5, <1>6

LEMMA TextCloses ==
    ASSUME TextInv, NEW e \in Editors, Close(e)
    PROVE  \A u \in Editors : TextKept(u)'
<1> USE ThreadsApart
<1> SUFFICES ASSUME NEW u \in Editors PROVE TextKept(u)'
  OBVIOUS
<1>1. /\ PlaceInv /\ pc[e] = "close" /\ UNCHANGED <<job, after>> /\ OnlyMoves(e)
      /\ disk \in [Files -> State] /\ Kept(e) \in SUBSET Editors /\ Target(e) \in Files
      /\ \/ job[e].op = "none" /\ UNCHANGED disk
         \/ /\ job[e].op # "none"
            /\ \E kind \in Content : Change(Target(e), kind, Kept(e))
      /\ Answer(e, "edited") /\ job \in [Reloaders \cup Editors -> Job]
  BY CloseIs, CloseType DEF TextInv, PlaceInv, TypeOK
<1>2. \A q \in Editors : Target(q)' = Target(q) /\ Target(q) \in Files
  BY <1>1, JobIs DEF Target
<1>3. pc'[e] = "over" /\ answer'[e] = "edited"
  BY <1>1 DEF Answer, PlaceInv, TypeOK
<1>4. /\ \A g \in Files \ {Target(e)} : disk'[g] = disk[g]
      /\ job[e].op = "update" => disk'[Target(e)].edits = Kept(e)
  <2>1. CASE job[e].op = "none" /\ UNCHANGED disk
    BY <2>1
  <2>2. ASSUME NEW kind \in Content, Change(Target(e), kind, Kept(e))
        PROVE  /\ \A g \in Files \ {Target(e)} : disk'[g] = disk[g]
               /\ disk'[Target(e)].edits = Kept(e)
    <3>1. kind \in Content \cup {"absent"}
      OBVIOUS
    <3>2. /\ disk'[Target(e)] = [kind |-> kind, version |-> disk[Target(e)].version + 1,
                                 edits |-> Kept(e)]
          /\ \A g \in Files \ {Target(e)} : disk'[g] = disk[g]
      BY <1>1, <2>2, <3>1, ChangeType
    <3>3. QED
      BY <3>2
  <2>3. QED
    BY <1>1, <2>1, <2>2
<1>5. CASE u = e
  <2>1. \A w \in Editors : u \notin after'[w]
    BY <1>1, <1>5 DEF PlaceInv, Over
  <2>2. Updated(u)' => u \in disk'[Target(u)'].edits
    BY <1>1, <1>2, <1>4, <1>5 DEF Updated, Kept
  <2>3. QED
    BY <2>1, <2>2 DEF TextKept, InReach
<1>6. CASE u # e
  <2>1. ASSUME Target(e) = Target(u), job[e].op = "update", u \in after[e],
               u \notin job[e].old, InReach(u)
        PROVE  u \in disk'[Target(u)].edits
    <3>1. u \in job[e].read.edits
      BY <1>1, <2>1 DEF InReach
    <3>2. QED
      BY <1>4, <2>1, <3>1 DEF Kept
  <2>2. /\ job' = job /\ after' = after
        /\ Target(e) # Target(u) => disk'[Target(u)] = disk[Target(u)]
    BY <1>1, <1>2, <1>4
  <2>3. QED
    BY <1>1, <1>2, <1>3, <1>6, <2>1, <2>2, TextOfOthers
<1>7. QED
  BY <1>5, <1>6

LEMMA TextUnlinks ==
    ASSUME TextInv, NEW e \in Editors, Unlink(e)
    PROVE  \A u \in Editors : TextKept(u)'
<1> USE ThreadsApart
<1> SUFFICES ASSUME NEW u \in Editors, Updated(u)'
             PROVE  InReach(u)' \/ \E w \in Editors : Overrules(w, u)'
  BY DEF TextKept
<1>1. /\ PlaceInv /\ pc[e] = "unlink" /\ UNCHANGED after /\ OnlyMoves(e) /\ Placed(e)
      /\ disk \in [Files -> State] /\ Target(e) \in Files
      /\ UNCHANGED disk \/ Change(Target(e), "absent", {})
      /\ job \in [Reloaders \cup Editors -> Job]
      /\ \A q \in Editors :
           \/ job'[q] = job[q]
           \/ /\ pc[q] = "close" /\ Target(q) = Target(e) /\ job'[q].op = "none"
              /\ job'[q].root = job[q].root /\ job'[q].at = job[q].at
              /\ job'[q].old = job[q].old
  BY UnlinkIs, UnlinkType DEF TextInv, PlaceInv, TypeOK
<1>2. /\ \A q \in Editors : Target(q)' = Target(q) /\ Target(q) \in Files
      /\ \A q \in Editors : job'[q].op = job[q].op \/ job'[q].op = "none"
      /\ \A q \in Editors : job'[q].old = job[q].old
      /\ \A q \in Editors : Started(q) => Started(q)'
      /\ job'[e] = job[e] /\ job[e].op = "delete"
  BY <1>1, JobIs DEF Target, OnlyMoves, Started, Placed
<1>3. \A g \in Files \ {Target(e)} : disk'[g] = disk[g]
  <2>1. "absent" \in Content \cup {"absent"}
    BY Kinds
  <2>2. QED
    BY <1>1, <2>1, ChangeType, EmptyEdits
<1>4. u # e /\ Updated(u) /\ pc[u] = "over"
  <2>1. u # e
    BY <1>2 DEF Updated
  <2>2. Updated(u)
    BY <1>1, <1>2, <2>1 DEF Updated, OnlyMoves
  <2>3. QED
    BY <1>1, <2>1, <2>2, UpdatedIsOver
<1>5. \A w \in Editors : /\ Rival(w, u) => Rival(w, u)'
                         /\ Overrules(w, u) => Overrules(w, u)'
  BY <1>1, <1>2, RivalsStay
<1>6. CASE \E w \in Editors : Overrules(w, u)
  BY <1>5, <1>6
<1>7. CASE Target(e) = Target(u)
  <2>1. e \notin after[u]
    BY <1>1 DEF PlaceInv, Over
  <2>2. Overrules(e, u)
    BY <1>1, <1>2, <1>4, <1>7, <2>1 DEF Overrules, Rival, Started
  <2>3. QED
    BY <1>5, <2>2
<1>8. CASE Target(e) # Target(u) /\ InReach(u)
  <2>1. disk'[Target(u)'] = disk[Target(u)]
    BY <1>2, <1>3, <1>8
  <2>2. \A w \in Editors : Rival(w, u) => answer'[w] = answer[w]
    BY <1>1, <1>8 DEF Rival, OnlyMoves
  <2>3. \/ u \in disk'[Target(u)'].edits
        \/ /\ disk'[Target(u)'].kind = "empty"
           /\ \E w \in Editors : Rival(w, u)' /\ answer'[w] = "none"
    BY <1>5, <1>8, <2>1, <2>2 DEF InReach
  <2>4. ASSUME NEW w \in Editors, pc'[w] \in {"open", "close"}, job'[w].op = "update",
               Target(w)' = Target(u)', u \in after'[w]
        PROVE  u \in job'[w].read.edits
    <3>1. w # e /\ pc'[w] = pc[w] /\ job'[w] = job[w]
      BY <1>1, <1>2, <1>8, <2>4 DEF OnlyMoves
    <3>2. QED
      BY <1>1, <1>2, <1>8, <2>4, <3>1 DEF InReach
  <2>5. QED
    BY <2>3, <2>4 DEF InReach
<1>9. QED
  BY <1>4, <1>6, <1>7, <1>8 DEF TextInv, TextKept

LEMMA TextNext == TextInv /\ [RegistryNext \/ Restart]_registryVars => TextInv'
<1> SUFFICES ASSUME TextInv, [RegistryNext \/ Restart]_registryVars PROVE TextInv'
  OBVIOUS
<1> USE ThreadsApart
<1>1. PlaceInv /\ PlaceInv'
  BY PlaceNext DEF TextInv
<1>2. ASSUME NEW p \in Reloaders, Reload(p) \/ LoadContract(p) \/ LoadFails(p)
      PROVE  \A u \in Editors : TextKept(u)'
  <2>1. OnlyMoves(p) /\ p \notin Editors /\ UNCHANGED disk
    BY <1>1, <1>2, ReloadType, LoadContractType, LoadFailsType
    DEF Reload, LoadContract, LoadFails, fileVars
  <2>2. \A q \in Editors : after'[q] = after[q]
    BY <1>1, <1>2, <2>1, BeganOver DEF Reload, LoadContract, LoadFails, historyVars
  <2>3. \A q \in Editors : job'[q] = job[q]
    BY <1>1, <1>2, <2>1 DEF Reload, LoadContract, LoadFails, PlaceInv, TypeOK
  <2>4. \A q \in Editors : /\ answer'[q] = answer[q] /\ pc'[q] = pc[q]
                           /\ Started(q) => Started(q)'
    BY <2>1 DEF OnlyMoves, Started
  <2>5. QED
    BY <2>1, <2>2, <2>3, <2>4, TextFrame
<1>3. CASE Restart
  <2>1. \A q \in Editors : /\ Started(q) => Started(q)'
                           /\ pc'[q] \notin {"open", "close"}
    BY <1>1, <1>3, RestartIs DEF Started
  <2>2. QED
    BY <1>1, <1>3, <2>1, RestartIs, TextFrame DEF TextInv
<1>4. CASE UNCHANGED registryVars
  <2>1. \A q \in Editors : Started(q) => Started(q)'
    BY <1>4 DEF registryVars, Started
  <2>2. QED
    BY <1>1, <1>4, <2>1, TextFrame DEF registryVars, TextInv
<1>5. QED
  BY <1>1, <1>2, <1>3, <1>4, StepsAre, TextBegins, TextOpens, TextCloses, TextUnlinks
  DEF TextInv

\* The text an update_file has written stays in the file unless a call that was
\* not over before it replaces or deletes the file, overlaps it, is an update told
\* to replace that text, or has not finished: updates one after the other lose
\* nothing that they do not name (file_tools.py:78).
THEOREM SequentialUpdatesKept == RegistrySpec => []SequentialEditsKept
<1>1. RegistryInit => TextInv
  <2> SUFFICES ASSUME RegistryInit PROVE TextInv
    OBVIOUS
  <2>1. \A u \in Editors : answer[u] = "none"
    BY ThreadsApart DEF RegistryInit
  <2>2. QED
    BY <2>1, PlaceInit DEF TextInv, TextKept, Updated
<1>2. TextInv => SequentialEditsKept
  <2> SUFFICES ASSUME TextInv, NEW u \in Editors, Updated(u),
                      u \notin disk[Target(u)].edits
               PROVE  \E w \in Editors : MayUndo(w, u)
    BY DEF SequentialEditsKept, Updated
  <2>1. CASE InReach(u)
    BY <2>1 DEF InReach, Rival, MayUndo
  <2>2. CASE \E w \in Editors : Overrules(w, u)
    BY <2>2 DEF Overrules, Rival, MayUndo
  <2>3. QED
    BY <2>1, <2>2 DEF TextInv, TextKept
<1>3. QED
  BY <1>1, <1>2, TextNext, PTL DEF RegistrySpec

=============================================================================
