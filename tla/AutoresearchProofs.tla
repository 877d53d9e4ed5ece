-------------------------- MODULE AutoresearchProofs --------------------------
(***************************************************************************)
(* Theorems about the improvement runs of one domain, for any number of    *)
(* them beside any number of reloads, edits, agent runs and restarts: the  *)
(* types, that what is kept survives a restart unless it is edited, and    *)
(* that a change kept for its pass rate has counted every evaluation that  *)
(* was stored when its run began.                                          *)
(***************************************************************************)
EXTENDS Autoresearch, FiniteSetTheorems, ContractRegistryProofs

ImproverStages == {"idle", "snapshot", "validate", "list_runs", "evaluations", "over"}

\* What an improvement run has established.
Measured(p) ==
    /\ pc[p] \in ImproverStages
    /\ pc[p] # "over" => answer[p] = "none"
    /\ pc[p] = "idle" => work[p] = NoWork
    /\ pc[p] \notin {"idle", "over"} => up
    /\ answer[p] = "keep" => AllValid(work[p])
    /\ answer[p] = "keep" /\ work[p].default /\ Unedited(p) => up
    /\ Started(p) /\ Unedited(p) =>
         /\ \A f \in work[p].valid : Strict(disk[f])
         /\ work[p].default => work[p].targets = DefaultTargets

StoreType ==
    /\ evaluations \in [Runs -> Nat \X Nat]
    /\ saves \in 0..MaxSaves
    /\ work \in [Improvers -> Work]
    /\ before \in [Improvers -> [Runs -> Nat \X Nat]]

ImproveInv ==
    /\ PlaceInv
    /\ StoreType
    /\ \A p \in Improvers : Measured(p)

-----------------------------------------------------------------------------
(* Types.                                                                  *)

LEMMA ImproversApart ==
    /\ Improvers \subseteq Threads
    /\ \A p \in Improvers : p \notin Reloaders /\ p \notin Editors
BY RegistryAssumption DEF Threads, Improvers

LEMMA NoWorkType ==
    /\ NoWork \in Work
    /\ NoWork.valid = {} /\ NoWork.default = FALSE
BY DEF NoWork, Work, Metrics

LEMMA WorkIs ==
    ASSUME StoreType, NEW p \in Improvers
    PROVE  /\ work[p] \in Work /\ work[p].targets \in SUBSET Files
           /\ work[p].fileLeft \in SUBSET Files /\ work[p].exists \in SUBSET Files
           /\ work[p].valid \in SUBSET Files /\ work[p].default \in BOOLEAN
           /\ work[p].passed \in Nat /\ work[p].failed \in Nat
           /\ work[p].runLeft \in SUBSET Runs /\ work[p].metric \in Metrics
<1>1. work[p] \in Work
  BY DEF StoreType
<1>2. QED
  BY <1>1 DEF Work

LEMMA DefaultsAreFiles == DefaultTargets \in SUBSET Files
<1>1. Present(Builtin) \subseteq Contracts
  BY DEF Present
<1>2. QED
  BY <1>1, FilesAre DEF DefaultTargets

\* A pair of counts, and the same with one count more.
LEMMA CountsIs ==
    ASSUME NEW e \in Nat \X Nat
    PROVE  /\ e[1] \in Nat /\ e[2] \in Nat
           /\ \A i \in {1, 2} : [e EXCEPT ![i] = @ + 1] \in Nat \X Nat
<1>1. PICK a \in Nat, b \in Nat : e = <<a, b>>
  OBVIOUS
<1>2. [e EXCEPT ![1] = @ + 1] = <<a + 1, b>>
  BY <1>1
<1>3. [e EXCEPT ![2] = @ + 1] = <<a, b + 1>>
  BY <1>1
<1>4. QED
  BY <1>1, <1>2, <1>3

-----------------------------------------------------------------------------
(* Steps of the registry.                                                  *)

\* A step of a reload or an edit moves that thread alone, and only an edit
\* changes a file.
LEMMA RegistryStep ==
    ASSUME PlaceInv, RegistryNext
    PROVE  \E q \in Reloaders \cup Editors :
              /\ OnlyMoves(q) /\ UNCHANGED up
              /\ \A p \in Improvers : after'[p] = after[p]
              /\ q \in Editors \/ UNCHANGED disk
<1> USE ThreadsApart, ImproversApart
<1>1. CASE \E q \in Reloaders : Reload(q)
  <2>1. PICK q \in Reloaders : Reload(q)
    BY <1>1
  <2>2. OnlyMoves(q) /\ UNCHANGED <<disk, up>> /\ Began(q)
    BY <2>1, ReloadType DEF Reload, fileVars
  <2>3. QED
    BY <2>2, BeganOver
<1>2. CASE \E q \in Reloaders : LoadContract(q) \/ LoadFails(q)
  <2>1. PICK q \in Reloaders : LoadContract(q) \/ LoadFails(q)
    BY <1>2
  <2>2. OnlyMoves(q) /\ UNCHANGED <<disk, up, after>>
    BY <2>1, LoadContractType, LoadFailsType, LoadContractIs
    DEF LoadFails, fileVars, historyVars
  <2>3. QED
    BY <2>2
<1>3. CASE \E e \in Editors, f \in Editable : EditBegins(e, f)
  <2>1. PICK e \in Editors, f \in Editable : EditBegins(e, f)
    BY <1>3
  <2>2. OnlyMoves(e)
    BY <2>1, EditBeginsType
  <2>3. UNCHANGED up /\ Began(e)
    BY <2>1 DEF EditBegins, Begin
  <2>4. QED
    BY <2>2, <2>3, BeganOver
<1>4. CASE \E e \in Editors : Open(e) \/ Close(e) \/ Unlink(e)
  <2>1. PICK e \in Editors : Open(e) \/ Close(e) \/ Unlink(e)
    BY <1>4
  <2>2. OnlyMoves(e)
    BY <2>1, OpenType, CloseType, UnlinkType
  <2>3. UNCHANGED <<up, after>>
    BY <2>1, CloseIs, UnlinkIs DEF Open, historyVars
  <2>4. QED
    BY <2>2, <2>3
<1>5. QED
  BY <1>1, <1>2, <1>3, <1>4, EditsBegin DEF RegistryNext

\* An edit that moves was not over when anybody began.
LEMMA EditsShow ==
    ASSUME PlaceInv, NEW q \in Editors, OnlyMoves(q), NEW p \in Threads,
           after'[p] = after[p]
    PROVE  ~Unedited(p)'
<1> USE ThreadsApart
<1>1. q \notin after[p]
  BY DEF PlaceInv, Over, OnlyMoves
<1>2. pc'[q] # "idle"
  BY DEF OnlyMoves
<1>3. QED
  BY <1>1, <1>2 DEF Unedited, Started

\* Somebody else moved and changed no file: nothing is lost.
LEMMA MeasuredStays ==
    ASSUME NEW p \in Improvers, Measured(p), UNCHANGED disk,
           work'[p] = work[p], pc'[p] = pc[p], answer'[p] = answer[p],
           after'[p] = after[p], up => up',
           \A e \in Editors : Started(e) => Started(e)'
    PROVE  Measured(p)'
<1>1. Unedited(p)' => Unedited(p)
  BY DEF Unedited
<1>2. DefaultTargets' = DefaultTargets
  BY DEF DefaultTargets, Present
<1>3. Started(p)' = Started(p) /\ AllValid(work[p])' = AllValid(work[p])
  BY DEF Started, AllValid
<1>4. QED
  BY <1>1, <1>2, <1>3 DEF Measured, Strict, AllValid

LEMMA MeasuredBeside ==
    ASSUME PlaceInv, RegistryNext, UNCHANGED work, NEW p \in Improvers, Measured(p)
    PROVE  Measured(p)'
<1> USE ThreadsApart, ImproversApart
<1>1. PICK q \in Reloaders \cup Editors :
         /\ OnlyMoves(q) /\ UNCHANGED up
         /\ \A r \in Improvers : after'[r] = after[r]
         /\ q \in Editors \/ UNCHANGED disk
  BY RegistryStep
<1>2. /\ pc'[p] = pc[p] /\ answer'[p] = answer[p]
      /\ \A e \in Editors : Started(e) => Started(e)'
  BY <1>1 DEF OnlyMoves, Started
<1>3. CASE q \in Editors
  <2>1. ~Unedited(p)'
    BY <1>1, <1>3, EditsShow
  <2>2. QED
    BY <1>1, <1>2, <2>1 DEF Measured, AllValid
<1>4. CASE UNCHANGED disk
  BY <1>1, <1>2, <1>4, MeasuredStays
<1>5. QED
  BY <1>1, <1>3, <1>4

-----------------------------------------------------------------------------
(* Restarts.                                                               *)

\* With valid default targets the process starts.
LEMMA DefaultsStart ==
    ASSUME NEW p \in Improvers, Measured(p), answer[p] = "keep", Unedited(p),
           work[p].default
    PROVE  ~StartupFails
<1>1. Started(p) /\ AllValid(work[p])
  BY DEF Measured, Started
<1>2. work[p].targets = DefaultTargets /\ work[p].valid = work[p].targets
      /\ \A f \in work[p].valid : Strict(disk[f])
  BY <1>1 DEF Measured, AllValid
<1>3. \A c \in {0} \cup Present(Builtin) : <<Builtin, c>> \in DefaultTargets
  BY DEF DefaultTargets
<1>4. QED
  BY <1>2, <1>3 DEF StartupFails

LEMMA MeasuredRestarts ==
    ASSUME PlaceInv, Restart, UNCHANGED work, NEW p \in Improvers, Measured(p)
    PROVE  Measured(p)'
<1> USE ThreadsApart, ImproversApart
<1>1. /\ UNCHANGED <<disk, after>>
      /\ \A q \in Threads : pc'[q] = IF pc[q] = "idle" THEN "idle" ELSE "over"
  BY RestartIs
<1>2. answer'[p] = answer[p] /\ up' = ~StartupFails
  BY DEF Restart, PlaceInv, TypeOK
<1>3. Unedited(p)' => Unedited(p)
  BY <1>1 DEF Unedited, Started
<1>4. DefaultTargets' = DefaultTargets
  BY <1>1 DEF DefaultTargets, Present
<1>5. Started(p)' = Started(p)
  BY <1>1 DEF Started
<1>6. answer[p] = "keep" /\ work[p].default /\ Unedited(p)' => up'
  BY <1>2, <1>3, DefaultsStart
<1>7. pc'[p] \in {"idle", "over"} /\ (pc'[p] = "idle" => pc[p] = "idle")
  BY <1>1
<1>8. QED
  BY <1>1, <1>2, <1>3, <1>4, <1>5, <1>6, <1>7
  DEF Measured, Strict, AllValid, ImproverStages

-----------------------------------------------------------------------------
(* Steps of an improvement run.                                            *)

\* A step of improvement run p with the locals w.
RunStep(p, w) ==
    /\ OnlyMoves(p)
    /\ w \in Work /\ work' = [work EXCEPT ![p] = w]
    /\ UNCHANGED <<disk, dirs, registered, up, job, restarts, since, storeVars>>
    /\ before' \in [Improvers -> [Runs -> Nat \X Nat]]

LEMMA RunStepType ==
    ASSUME ImproveInv, NEW p \in Improvers, NEW w, RunStep(p, w),
           UNCHANGED after \/ Began(p)
    PROVE  /\ PlaceInv' /\ StoreType' /\ work'[p] = w
           /\ \A q \in Improvers \ {p} : Measured(q)'
<1> USE ThreadsApart, ImproversApart
<1>1. /\ PlaceInv /\ OnlyMoves(p) /\ StoreType
      /\ UNCHANGED <<disk, dirs, registered, up, job, restarts, since, storeVars>>
  BY DEF RunStep, ImproveInv
<1>2. /\ after' \in [Threads -> SUBSET Threads]
      /\ \A q \in Threads \ {p} : after'[q] = after[q]
  BY <1>1, BeganOver DEF PlaceInv, TypeOK
<1>3. TypeOK'
  BY <1>1, <1>2 DEF PlaceInv, TypeOK, OnlyMoves, Stages, Answers
<1>4. \A q \in Reloaders \cup Editors : Placed(q)'
  BY <1>1 DEF PlaceInv, Placed, OnlyMoves
<1>5. \A q \in Threads : after'[q] \subseteq Over'
  BY <1>1, OverGrows, BeganOver DEF PlaceInv
<1>6. StoreType'
  BY <1>1 DEF StoreType, RunStep, storeVars
<1>7. work'[p] = w /\ \A q \in Improvers \ {p} : work'[q] = work[q]
  BY <1>1 DEF StoreType, RunStep
<1>8. \A e \in Editors : Started(e) => Started(e)'
  BY <1>1 DEF OnlyMoves, Started
<1>9. ASSUME NEW q \in Improvers \ {p} PROVE Measured(q)'
  <2>1. pc'[q] = pc[q] /\ answer'[q] = answer[q] /\ after'[q] = after[q]
    BY <1>1, <1>2 DEF OnlyMoves
  <2>2. QED
    BY <1>1, <1>7, <1>8, <2>1, MeasuredStays DEF ImproveInv
<1>10. QED
  BY <1>3, <1>4, <1>5, <1>6, <1>7, <1>9 DEF PlaceInv

\* p goes on: its new locals are as good as its old ones.
LEMMA GoesOn ==
    ASSUME ImproveInv, NEW p \in Improvers, NEW w, RunStep(p, w), UNCHANGED after,
           pc[p] \notin {"idle", "over"}, pc'[p] \in ImproverStages,
           pc'[p] # "over" => answer'[p] = "none",
           answer'[p] = "keep" => AllValid(w),
           w.default = work[p].default, w.targets = work[p].targets,
           \A f \in w.valid : f \in work[p].valid \/ Strict(disk[f])
    PROVE  ImproveInv'
<1> USE ThreadsApart, ImproversApart
<1>1. /\ PlaceInv' /\ StoreType' /\ work'[p] = w
      /\ \A q \in Improvers \ {p} : Measured(q)'
  BY RunStepType
<1>2. Measured(p) /\ up' = up /\ disk' = disk /\ pc'[p] # "idle"
  BY DEF ImproveInv, RunStep, OnlyMoves
<1>3. Unedited(p)' => Unedited(p)
  BY DEF RunStep, OnlyMoves, Unedited, Started
<1>4. DefaultTargets' = DefaultTargets
  BY <1>2 DEF DefaultTargets, Present
<1>5. up /\ Started(p)
  BY <1>2 DEF Measured, Started
<1>6. Measured(p)'
  BY <1>1, <1>2, <1>3, <1>4, <1>5 DEF Measured, Strict, AllValid
<1>7. QED
  BY <1>1, <1>6 DEF ImproveInv

\* p begins: it has found nothing valid, and its defaults are what is there.
LEMMA RunBegins ==
    ASSUME ImproveInv, NEW p \in Improvers, NEW w, RunStep(p, w), Began(p),
           \/ pc'[p] = "snapshot" /\ answer'[p] = "none"
           \/ pc'[p] = "over" /\ answer'[p] # "keep",
           w.valid = {}, w.default => w.targets = DefaultTargets
    PROVE  ImproveInv'
<1> USE ThreadsApart, ImproversApart
<1>1. /\ PlaceInv' /\ StoreType' /\ work'[p] = w
      /\ \A q \in Improvers \ {p} : Measured(q)'
  BY RunStepType
<1>2. up' = up /\ disk' = disk /\ up
  BY DEF RunStep, Began
<1>3. DefaultTargets' = DefaultTargets
  BY <1>2 DEF DefaultTargets, Present
<1>4. Measured(p)'
  BY <1>1, <1>2, <1>3 DEF Measured, ImproverStages
<1>5. QED
  BY <1>1, <1>4 DEF ImproveInv

LEMMA BeforeType ==
    ASSUME ImproveInv, NEW p \in Improvers
    PROVE  [before EXCEPT ![p] = evaluations] \in [Improvers -> [Runs -> Nat \X Nat]]
BY DEF ImproveInv, StoreType

LEMMA ImproveKeeps ==
    ASSUME ImproveInv, NEW p \in Improvers, NEW chosen \in TargetChoices,
           NEW metric \in Metrics, Improve(p, chosen, metric)
    PROVE  ImproveInv'
<1> USE ThreadsApart, ImproversApart
<1> DEFINE targets == IF chosen = {} THEN DefaultTargets ELSE chosen
           w == [NoWork EXCEPT !.targets = targets, !.default = (chosen = {}),
                               !.metric = metric, !.fileLeft = targets]
<1>1. /\ PlaceInv /\ TypeOK /\ StoreType /\ Measured(p) /\ Began(p) /\ pc[p] = "idle"
      /\ answer[p] = "none" /\ work[p] = NoWork
  BY DEF ImproveInv, PlaceInv, Improve, Began, Measured
<1>2. /\ UNCHANGED <<disk, dirs, registered, up, job, restarts, since, storeVars>>
      /\ before' \in [Improvers -> [Runs -> Nat \X Nat]]
  BY BeforeType DEF Improve, stillVars, fileVars
<1>3. CASE registered[0] = Unloaded
  <2>1. Answer(p, "404") /\ UNCHANGED work /\ "404" \in Answers
    BY <1>3 DEF Improve, Answers
  <2>2. OnlyMoves(p) /\ pc'[p] = "over" /\ answer'[p] = "404"
    BY <1>1, <2>1, AnswerType DEF OnlyMoves
  <2>3. work' = [work EXCEPT ![p] = NoWork]
    BY <1>1, <2>1 DEF StoreType
  <2>4. RunStep(p, NoWork)
    BY <1>2, <2>2, <2>3, NoWorkType DEF RunStep
  <2>5. QED
    BY <1>1, <2>2, <2>4, NoWorkType, RunBegins
<1>4. CASE registered[0] # Unloaded
  <2>1. Goto(p, "snapshot") /\ work' = [work EXCEPT ![p] = w] /\ "snapshot" \in Stages
    BY <1>4 DEF Improve, Stages
  <2>2. OnlyMoves(p) /\ pc'[p] = "snapshot" /\ answer'[p] = "none"
    BY <1>1, <2>1, GotoType DEF OnlyMoves
  <2>3. targets \in SUBSET Files /\ (chosen = {} => targets = DefaultTargets)
    BY AutoresearchAssumption, DefaultsAreFiles
  <2>4. w \in Work /\ w.valid = {} /\ (w.default => w.targets = DefaultTargets)
    <3> HIDE DEF targets
    <3>1. NoWork \in Work
      BY NoWorkType
    <3>2. w \in Work /\ w.valid = NoWork.valid /\ w.default = (chosen = {})
          /\ w.targets = targets
      BY <2>3, <3>1 DEF Work
    <3>3. QED
      BY <2>3, <3>2, NoWorkType
  <2>5. RunStep(p, w)
    <3> HIDE DEF w
    <3>1. QED
      BY <1>2, <2>1, <2>2, <2>4 DEF RunStep
  <2>6. QED
    <3> HIDE DEF w
    <3>1. QED
      BY <1>1, <2>2, <2>4, <2>5, RunBegins
<1>5. QED
  BY <1>3, <1>4

LEMMA RefuseKeeps ==
    ASSUME ImproveInv, NEW p \in Improvers, Refuse(p)
    PROVE  ImproveInv'
<1> USE ThreadsApart, ImproversApart
<1>1. /\ PlaceInv /\ TypeOK /\ StoreType /\ Measured(p) /\ Began(p) /\ pc[p] = "idle"
      /\ work[p] = NoWork
  BY DEF ImproveInv, PlaceInv, Refuse, Began, Measured
<1>2. /\ UNCHANGED <<disk, dirs, registered, up, job, restarts, since, storeVars>>
      /\ before' \in [Improvers -> [Runs -> Nat \X Nat]]
  BY <1>1 DEF Refuse, stillVars, fileVars, StoreType
<1>3. PICK what \in {"404", "400"} : Answer(p, what)
  BY DEF Refuse
<1>4. what \in Answers /\ what # "keep"
  BY DEF Answers
<1>5. OnlyMoves(p) /\ pc'[p] = "over" /\ answer'[p] = what
  BY <1>1, <1>3, <1>4, AnswerType DEF OnlyMoves
<1>6. work' = [work EXCEPT ![p] = NoWork]
  BY <1>1 DEF Refuse, StoreType
<1>7. RunStep(p, NoWork)
  BY <1>2, <1>5, <1>6, NoWorkType DEF RunStep
<1>8. QED
  BY <1>1, <1>4, <1>5, <1>7, NoWorkType, RunBegins

\* The frame of a step past the first.
LEMMA RunFrame ==
    ASSUME ImproveInv, NEW p \in Improvers, NEW w \in Work, OnlyMoves(p),
           work' = [work EXCEPT ![p] = w], UNCHANGED <<stillVars, historyVars, before>>
    PROVE  RunStep(p, w) /\ UNCHANGED after
<1>1. before' \in [Improvers -> [Runs -> Nat \X Nat]]
  BY DEF ImproveInv, StoreType
<1>2. QED
  BY <1>1 DEF RunStep, stillVars, historyVars, fileVars

LEMMA SnapshotKeeps ==
    ASSUME ImproveInv, NEW p \in Improvers, NEW f \in Files, SnapshotAsset(p, f)
    PROVE  ImproveInv'
<1> USE ThreadsApart, ImproversApart
<1> DEFINE left == work[p].fileLeft \ {f}
           exists == IF disk[f].kind = "absent" THEN work[p].exists
                     ELSE work[p].exists \cup {f}
           next == IF left # {} THEN "snapshot"
                   ELSE IF exists = {} THEN "list_runs" ELSE "validate"
           w == [work[p] EXCEPT !.exists = exists,
                                !.fileLeft = IF left = {} THEN exists ELSE left]
<1>1. /\ TypeOK /\ StoreType /\ Measured(p) /\ pc[p] = "snapshot" /\ answer[p] = "none"
      /\ UNCHANGED <<stillVars, historyVars, before>>
      /\ work[p] \in Work
  BY WorkIs DEF ImproveInv, PlaceInv, SnapshotAsset, Measured
<1>2. CASE disk[f].kind = "broken"
  <2>1. Answer(p, "404") /\ UNCHANGED work /\ "404" \in Answers
    BY <1>2 DEF SnapshotAsset, Answers
  <2>2. OnlyMoves(p) /\ pc'[p] = "over" /\ answer'[p] = "404"
    BY <1>1, <2>1, AnswerType DEF OnlyMoves
  <2>3. work' = [work EXCEPT ![p] = work[p]]
    BY <1>1, <2>1 DEF StoreType
  <2>4. RunStep(p, work[p]) /\ UNCHANGED after
    BY <1>1, <2>2, <2>3, RunFrame
  <2>5. QED
    BY <1>1, <2>2, <2>4, GoesOn DEF ImproverStages
<1>3. CASE disk[f].kind # "broken"
  <2>1. /\ Goto(p, next) /\ next \in Stages /\ next \in ImproverStages /\ next # "over"
        /\ next # "idle"
    BY <1>3 DEF SnapshotAsset, Stages, ImproverStages
  <2>2. work' = [work EXCEPT ![p] = w]
    BY <1>1, <1>3 DEF SnapshotAsset, StoreType
  <2> HIDE DEF next
  <2>3. OnlyMoves(p) /\ pc'[p] = next /\ answer'[p] = "none"
    BY <1>1, <2>1, GotoType DEF OnlyMoves
  <2>4. left \in SUBSET Files /\ exists \in SUBSET Files
    BY <1>1, WorkIs
  <2>5. /\ w \in Work /\ w.valid = work[p].valid /\ w.default = work[p].default
        /\ w.targets = work[p].targets
    <3> HIDE DEF left, exists
    <3>1. QED
      BY <1>1, <2>4 DEF Work
  <2> HIDE DEF w
  <2>6. RunStep(p, w) /\ UNCHANGED after
    BY <1>1, <2>2, <2>3, <2>5, RunFrame
  <2>7. QED
    BY <1>1, <2>1, <2>3, <2>5, <2>6, GoesOn
<1>4. QED
  BY <1>2, <1>3

LEMMA ValidateKeeps ==
    ASSUME ImproveInv, NEW p \in Improvers, NEW f \in Files, ValidateAsset(p, f)
    PROVE  ImproveInv'
<1> USE ThreadsApart, ImproversApart
<1> DEFINE left == work[p].fileLeft \ {f}
           valid == IF Strict(disk[f]) THEN work[p].valid \cup {f} ELSE work[p].valid
           next == IF left = {} THEN "list_runs" ELSE "validate"
           w == [work[p] EXCEPT !.fileLeft = left, !.valid = valid]
<1>1. /\ TypeOK /\ StoreType /\ Measured(p) /\ pc[p] = "validate" /\ answer[p] = "none"
      /\ UNCHANGED <<stillVars, historyVars, before>>
      /\ work[p] \in Work
  BY WorkIs DEF ImproveInv, PlaceInv, ValidateAsset, Measured
<1>2. /\ Goto(p, next) /\ next \in Stages /\ next \in ImproverStages /\ next # "over"
      /\ next # "idle"
  BY DEF ValidateAsset, Stages, ImproverStages
<1>3. work' = [work EXCEPT ![p] = w]
  BY <1>1 DEF ValidateAsset, StoreType
<1> HIDE DEF next
<1>4. OnlyMoves(p) /\ pc'[p] = next /\ answer'[p] = "none"
  BY <1>1, <1>2, GotoType DEF OnlyMoves
<1>5. left \in SUBSET Files /\ valid \in SUBSET Files
  BY <1>1, WorkIs
<1>6. \A g \in valid : g \in work[p].valid \/ Strict(disk[g])
  OBVIOUS
<1>7. /\ w \in Work /\ w.valid = valid /\ w.default = work[p].default
      /\ w.targets = work[p].targets
  <2> HIDE DEF left, valid
  <2>1. QED
    BY <1>1, <1>5 DEF Work
<1> HIDE DEF w, valid
<1>8. RunStep(p, w) /\ UNCHANGED after
  BY <1>1, <1>3, <1>4, <1>7, RunFrame
<1>9. QED
  BY <1>1, <1>2, <1>4, <1>6, <1>7, <1>8, GoesOn


-----------------------------------------------------------------------------
(* The decision.                                                           *)

\* Only what is wholly valid is kept.
LEMMA DecisionIs ==
    ASSUME NEW w \in Work, NEW met, NEW decision \in Decision(w, met)
    PROVE  /\ decision \in Answers
           /\ decision = "keep" => AllValid(w)
<1>1. w.metric \in Metrics
  BY DEF Work
<1>2. CASE ~AllValid(w)
  BY <1>2 DEF Decision, Answers
<1>3. CASE AllValid(w)
  <2>1. CASE w.metric = "contract_validity"
    BY <1>3, <2>1 DEF Decision, Answers
  <2>2. CASE w.metric = "trace_completeness"
    BY <1>3, <2>2 DEF Decision, Answers
  <2>3. CASE w.metric = "eval_pass_rate"
    BY <1>3, <2>3 DEF Decision, Answers
  <2>4. QED
    BY <1>1, <2>1, <2>2, <2>3 DEF Metrics
<1>4. QED
  BY <1>2, <1>3

LEMMA ConcludeKeeps ==
    ASSUME ImproveInv, NEW p \in Improvers, NEW w \in Work, NEW met,
           pc[p] \in {"list_runs", "evaluations"}, Conclude(p, w, met),
           w.valid = work[p].valid, w.default = work[p].default,
           w.targets = work[p].targets, UNCHANGED <<stillVars, historyVars, before>>
    PROVE  ImproveInv'
<1> USE ThreadsApart, ImproversApart
<1> DEFINE u == [w EXCEPT !.runLeft = {}]
<1>1. TypeOK
  BY DEF ImproveInv, PlaceInv
<1>2. PICK decision \in Decision(w, met) : Answer(p, decision)
  BY DEF Conclude
<1>3. decision \in Answers /\ (decision = "keep" => AllValid(w))
  BY DecisionIs
<1>4. OnlyMoves(p) /\ pc'[p] = "over" /\ answer'[p] = decision
  BY <1>1, <1>2, <1>3, AnswerType DEF OnlyMoves
<1>5. work' = [work EXCEPT ![p] = u]
  BY DEF Conclude
<1>6. /\ u \in Work /\ u.valid = w.valid /\ u.default = w.default
      /\ u.targets = w.targets
  BY DEF Work
<1>7. AllValid(u) = AllValid(w)
  BY <1>6 DEF AllValid
<1> HIDE DEF u
<1>8. RunStep(p, u) /\ UNCHANGED after
  BY <1>4, <1>5, <1>6, RunFrame
<1>9. QED
  BY <1>3, <1>4, <1>6, <1>7, <1>8, GoesOn DEF ImproverStages

LEMMA ConcludeByProxyKeeps ==
    ASSUME ImproveInv, NEW p \in Improvers, NEW basis \in {"proxy", "error"},
           pc[p] \in {"list_runs", "evaluations"}, ConcludeByProxy(p, basis),
           UNCHANGED <<stillVars, historyVars, before>>
    PROVE  ImproveInv'
<1> DEFINE w == [work[p] EXCEPT !.basis = basis]
<1>1. work[p] \in Work
  BY WorkIs DEF ImproveInv
<1>2. /\ w \in Work /\ w.valid = work[p].valid /\ w.default = work[p].default
      /\ w.targets = work[p].targets
  BY <1>1 DEF Work
<1>3. Conclude(p, w, ProxyMet(work[p]))
  BY DEF ConcludeByProxy
<1> HIDE DEF w
<1>4. QED
  BY <1>2, <1>3, ConcludeKeeps

LEMMA RepositoryFailsKeeps ==
    ASSUME ImproveInv, NEW p \in Improvers, RepositoryFails(p)
    PROVE  ImproveInv'
<1>1. /\ pc[p] \in {"list_runs", "evaluations"} /\ ConcludeByProxy(p, "error")
      /\ UNCHANGED <<stillVars, historyVars, before>>
  BY DEF RepositoryFails
<1>2. QED
  BY <1>1, ConcludeByProxyKeeps

LEMMA ListRunsKeeps ==
    ASSUME ImproveInv, NEW p \in Improvers, ListRuns(p)
    PROVE  ImproveInv'
<1> USE ThreadsApart, ImproversApart
<1>1. /\ TypeOK /\ pc[p] = "list_runs" /\ answer[p] = "none" /\ work[p] \in Work
      /\ UNCHANGED <<stillVars, historyVars, before>>
  BY WorkIs DEF ImproveInv, PlaceInv, ListRuns, Measured
<1>2. CASE Runs = {}
  BY <1>1, <1>2, ConcludeByProxyKeeps DEF ListRuns
<1>3. CASE Runs # {}
  <2> DEFINE w == [work[p] EXCEPT !.runLeft = Runs]
  <2>1. Goto(p, "evaluations") /\ "evaluations" \in Stages
    BY <1>3 DEF ListRuns, Stages
  <2>2. work' = [work EXCEPT ![p] = w]
    BY <1>3 DEF ListRuns, ImproveInv, StoreType
  <2>3. OnlyMoves(p) /\ pc'[p] = "evaluations" /\ answer'[p] = "none"
    BY <1>1, <2>1, GotoType DEF OnlyMoves
  <2>4. /\ w \in Work /\ w.valid = work[p].valid /\ w.default = work[p].default
        /\ w.targets = work[p].targets
    BY <1>1 DEF Work
  <2> HIDE DEF w
  <2>5. RunStep(p, w) /\ UNCHANGED after
    BY <1>1, <2>2, <2>3, <2>4, RunFrame
  <2>6. QED
    BY <1>1, <2>3, <2>4, <2>5, GoesOn DEF ImproverStages
<1>4. QED
  BY <1>2, <1>3

LEMMA ListRunEvaluationsKeeps ==
    ASSUME ImproveInv, NEW p \in Improvers, NEW r \in Runs, ListRunEvaluations(p, r)
    PROVE  ImproveInv'
<1> USE ThreadsApart, ImproversApart
<1> DEFINE w == [work[p] EXCEPT !.runLeft = @ \ {r}, !.passed = @ + evaluations[r][1],
                                !.failed = @ + evaluations[r][2]]
           proxy == [w EXCEPT !.basis = "proxy"]
           rate == [w EXCEPT !.basis = "rate"]
           same(v) == /\ v \in Work /\ v.valid = work[p].valid
                      /\ v.default = work[p].default /\ v.targets = work[p].targets
<1>1. /\ TypeOK /\ pc[p] = "evaluations" /\ answer[p] = "none" /\ work[p] \in Work
      /\ UNCHANGED <<stillVars, historyVars, before>>
  BY WorkIs DEF ImproveInv, PlaceInv, ListRunEvaluations, Measured
<1>2. evaluations[r][1] \in Nat /\ evaluations[r][2] \in Nat
  <2>1. evaluations[r] \in Nat \X Nat
    BY DEF ImproveInv, StoreType
  <2>2. QED
    BY <2>1, CountsIs
<1>3. same(w)
  <2>1. /\ work[p].passed \in Nat /\ work[p].failed \in Nat
        /\ work[p].runLeft \in SUBSET Runs
    BY WorkIs DEF ImproveInv
  <2>2. /\ work[p].passed + evaluations[r][1] \in Nat
        /\ work[p].failed + evaluations[r][2] \in Nat
        /\ work[p].runLeft \ {r} \in SUBSET Runs
    BY <1>2, <2>1
  <2>3. QED
    BY <1>1, <2>2 DEF Work
<1>4. same(proxy) /\ same(rate)
  <2> HIDE DEF w
  <2>1. QED
    BY <1>3 DEF Work
<1>5. \/ Goto(p, "evaluations") /\ work' = [work EXCEPT ![p] = w]
      \/ Conclude(p, proxy, ProxyMet(w))
      \/ Conclude(p, rate, RateMet(w.passed, w.failed))
  BY Zenon DEF ListRunEvaluations
<1> HIDE DEF w, proxy, rate
<1>6. CASE Goto(p, "evaluations") /\ work' = [work EXCEPT ![p] = w]
  <2>1. "evaluations" \in Stages
    BY DEF Stages
  <2>2. OnlyMoves(p) /\ pc'[p] = "evaluations" /\ answer'[p] = "none"
    BY <1>1, <1>6, <2>1, GotoType DEF OnlyMoves
  <2>3. RunStep(p, w) /\ UNCHANGED after
    BY <1>1, <1>3, <1>6, <2>2, RunFrame
  <2>4. QED
    BY <1>1, <1>3, <2>2, <2>3, GoesOn DEF ImproverStages
<1>7. CASE Conclude(p, proxy, ProxyMet(w))
  BY <1>1, <1>4, <1>7, ConcludeKeeps
<1>8. CASE Conclude(p, rate, RateMet(w.passed, w.failed))
  BY <1>1, <1>4, <1>8, ConcludeKeeps
<1>9. QED
  BY <1>5, <1>6, <1>7, <1>8

-----------------------------------------------------------------------------
(* Every step.                                                             *)

LEMMA ImproveInit == Init => ImproveInv
<1> SUFFICES ASSUME Init PROVE ImproveInv
  OBVIOUS
<1> USE ThreadsApart, ImproversApart
<1>1. RegistryInit /\ PlaceInv
  BY PlaceInit DEF Init
<1>2. StoreType
  BY AutoresearchAssumption, NoWorkType DEF Init, StoreType
<1>3. ASSUME NEW p \in Improvers PROVE Measured(p)
  BY <1>1 DEF Init, RegistryInit, Measured, ImproverStages, Started
<1>4. QED
  BY <1>1, <1>2, <1>3 DEF ImproveInv

LEMMA SaveKeeps ==
    ASSUME ImproveInv, NEW r \in Runs, SaveEvaluation(r)
    PROVE  ImproveInv'
<1>1. /\ UNCHANGED registryVars /\ UNCHANGED <<work, before>>
      /\ saves < MaxSaves /\ saves' = saves + 1
  BY DEF SaveEvaluation
<1>2. PICK i \in {1, 2} : evaluations' = [evaluations EXCEPT ![r][i] = @ + 1]
  BY DEF SaveEvaluation
<1>3. evaluations' \in [Runs -> Nat \X Nat]
  <2>1. [evaluations[r] EXCEPT ![i] = @ + 1] \in Nat \X Nat
    BY CountsIs DEF ImproveInv, StoreType
  <2>2. evaluations' = [evaluations EXCEPT ![r] = [evaluations[r] EXCEPT ![i] = @ + 1]]
    BY <1>2
  <2>3. QED
    BY <2>1, <2>2 DEF ImproveInv, StoreType
<1>4. StoreType'
  <2>1. saves' \in 0..MaxSaves
    BY <1>1, AutoresearchAssumption DEF ImproveInv, StoreType
  <2>2. QED
    BY <1>1, <1>3, <2>1 DEF ImproveInv, StoreType
<1>5. PlaceInv'
  BY <1>1, PlaceStutter DEF ImproveInv
<1>6. \A p \in Improvers : Measured(p)'
  BY <1>1, MeasuredStays DEF ImproveInv, registryVars, Started
<1>7. QED
  BY <1>4, <1>5, <1>6 DEF ImproveInv

LEMMA RestartKeeps ==
    ASSUME ImproveInv, RestartAll
    PROVE  ImproveInv'
<1>1. Restart /\ PlaceInv /\ UNCHANGED <<saves, work, before>>
  BY DEF RestartAll, ImproveInv
<1>2. StoreType'
  <2>1. [r \in Runs |-> <<0, 0>>] \in [Runs -> Nat \X Nat]
    OBVIOUS
  <2>2. QED
    BY <1>1, <2>1 DEF RestartAll, ImproveInv, StoreType
<1>3. QED
  BY <1>1, <1>2, RestartType, MeasuredRestarts DEF ImproveInv

LEMMA RegistryKeeps ==
    ASSUME ImproveInv, RegistryNext, UNCHANGED <<storeVars, work, before>>
    PROVE  ImproveInv'
<1>1. PlaceInv'
  BY PlaceNext DEF ImproveInv
<1>2. StoreType'
  BY DEF ImproveInv, StoreType, storeVars
<1>3. QED
  BY <1>1, <1>2, MeasuredBeside DEF ImproveInv

LEMMA StutterKeeps == ImproveInv /\ UNCHANGED vars => ImproveInv'
<1> SUFFICES ASSUME ImproveInv, UNCHANGED vars PROVE ImproveInv'
  OBVIOUS
<1>1. UNCHANGED registryVars /\ UNCHANGED <<storeVars, work, before>>
  BY DEF vars
<1>2. PlaceInv'
  BY <1>1, PlaceStutter DEF ImproveInv
<1>3. StoreType'
  BY <1>1 DEF ImproveInv, StoreType, storeVars
<1>4. \A p \in Improvers : Measured(p)'
  BY <1>1, MeasuredStays DEF ImproveInv, registryVars, Started
<1>5. QED
  BY <1>2, <1>3, <1>4 DEF ImproveInv

LEMMA ImproveNext == ImproveInv /\ [Next]_vars => ImproveInv'
<1> SUFFICES ASSUME ImproveInv, [Next]_vars PROVE ImproveInv'
  OBVIOUS
<1>1. ASSUME NEW p \in Improvers, ImprovementStep(p) PROVE ImproveInv'
  BY <1>1, ImproveKeeps, RefuseKeeps, SnapshotKeeps, ValidateKeeps, ListRunsKeeps,
     ListRunEvaluationsKeeps, RepositoryFailsKeeps DEF ImprovementStep
<1>2. QED
  BY <1>1, SaveKeeps, RegistryKeeps, RestartKeeps, StutterKeeps DEF Next

\* An improvement run keeps only targets that are all valid, and what it has
\* found valid stays so until somebody edits it.
THEOREM ImproveInvariant == Spec => []ImproveInv
BY ImproveInit, ImproveNext, PTL DEF Spec

\* Every variable of the registry and of the improvement runs has its type.
THEOREM AutoresearchTypeCorrect == Spec => []AutoresearchTypeOK
<1>1. ImproveInv => AutoresearchTypeOK
  BY DEF ImproveInv, PlaceInv, StoreType, AutoresearchTypeOK
<1>2. QED
  BY <1>1, ImproveInvariant, PTL

\* What an improvement run has kept is valid on disk until somebody edits it,
\* and with the default targets the process starts again on it.
THEOREM KeptStarts == Spec => []KeptSurvivesRestart
<1>1. ImproveInv => KeptSurvivesRestart
  <2> SUFFICES ASSUME ImproveInv, NEW p \in Improvers, answer[p] = "keep", Unedited(p)
               PROVE  /\ \A f \in work[p].targets : Strict(disk[f])
                      /\ work[p].default => up /\ ~StartupFails
    BY DEF KeptSurvivesRestart
  <2>1. Measured(p) /\ Started(p) /\ AllValid(work[p])
    BY DEF ImproveInv, Measured, Started
  <2>2. \A f \in work[p].targets : Strict(disk[f])
    BY <2>1 DEF Measured, AllValid
  <2>3. QED
    BY <2>1, <2>2, DefaultsStart DEF Measured
<1>2. QED
  BY <1>1, ImproveInvariant, PTL

-----------------------------------------------------------------------------
(* Sums over finite sets.                                                  *)

\* What holds of a set when it holds of its proper subsets holds of every
\* subset of a finite set: P is the set of those it holds of.
LEMMA SubsetInduction ==
    ASSUME NEW S, IsFiniteSet(S), NEW P,
           \A T \in SUBSET S : (\A U \in (SUBSET T) \ {T} : U \in P) => T \in P
    PROVE  \A T \in SUBSET S : T \in P
<1> DEFINE Bad == {T \in SUBSET S : T \notin P}
<1>1. IsWellFoundedOn(StrictSubsetOrdering(S), SUBSET S)
  BY FS_StrictSubsetOrderingWellFounded, FS_FiniteSubsetsOfFinite
<1> SUFFICES ASSUME Bad # {} PROVE FALSE
  OBVIOUS
<1>2. PICK T \in Bad : \A U \in Bad : ~ (<<U, T>> \in StrictSubsetOrdering(S))
  <2> HIDE DEF Bad
  <2>1. Bad \subseteq SUBSET S
    BY DEF Bad
  <2>2. QED
    BY <1>1, <2>1, WFMin
<1>3. ASSUME NEW U \in (SUBSET T) \ {T} PROVE U \in P
  <2>1. T \in SUBSET S /\ U \in SUBSET S /\ U \subseteq T /\ U # T
    OBVIOUS
  <2>2. <<U, T>> \in StrictSubsetOrdering(S)
    <3>1. StrictSubsetOrdering(S) =
            {ss \in (SUBSET S) \X (SUBSET S) : ss[1] \subseteq ss[2] /\ ss[1] # ss[2]}
      BY DEF StrictSubsetOrdering
    <3> DEFINE uu == <<U, T>>
    <3>2. uu \in (SUBSET S) \X (SUBSET S) /\ uu[1] = U /\ uu[2] = T
      BY <2>1
    <3>3. uu \in StrictSubsetOrdering(S)
      <4> HIDE DEF uu
      <4>1. QED
        BY <2>1, <3>1, <3>2
    <3>4. QED
      BY <3>3
  <2>3. QED
    BY <1>2, <2>1, <2>2
<1>4. QED
  BY <1>3

\* The element a sum takes first.
First(T) == CHOOSE x \in T : TRUE
Rest(T) == T \ {First(T)}

\* g gives each subset of S the sum of the counts h of its elements.
Sums(h, S, g) ==
    g = [T \in SUBSET S |-> IF T = {} THEN 0 ELSE h[First(T)] + g[Rest(T)]]

LEMMA RestIs ==
    ASSUME NEW T, T # {}
    PROVE  First(T) \in T /\ Rest(T) \in (SUBSET T) \ {T}
BY DEF First, Rest

LEMMA SumsIs ==
    ASSUME NEW h, NEW S, NEW g, Sums(h, S, g), NEW T \in SUBSET S
    PROVE  g[T] = IF T = {} THEN 0 ELSE h[First(T)] + g[Rest(T)]
<1> DEFINE e(U) == IF U = {} THEN 0 ELSE h[First(U)] + g[Rest(U)]
<1>1. g = [U \in SUBSET S |-> e(U)]
  BY DEF Sums
<1> HIDE DEF e
<1>2. g[T] = e(T)
  BY <1>1
<1>3. QED
  BY <1>2 DEF e

\* Sums do not depend on the set they are taken within.
LEMMA SumsAgree ==
    ASSUME NEW h, NEW S1, NEW S2, NEW g1, NEW g2, Sums(h, S1, g1), Sums(h, S2, g2),
           NEW S, IsFiniteSet(S), S \subseteq S1, S \subseteq S2
    PROVE  g1[S] = g2[S]
<1> DEFINE P == {T \in SUBSET S : g1[T] = g2[T]}
<1>1. ASSUME NEW T \in SUBSET S, \A U \in (SUBSET T) \ {T} : U \in P
      PROVE  T \in P
  <2>1. /\ g1[T] = IF T = {} THEN 0 ELSE h[First(T)] + g1[Rest(T)]
        /\ g2[T] = IF T = {} THEN 0 ELSE h[First(T)] + g2[Rest(T)]
    <3>1. T \in SUBSET S1 /\ T \in SUBSET S2
      OBVIOUS
    <3>2. QED
      BY <3>1, SumsIs
  <2>2. T # {} => g1[Rest(T)] = g2[Rest(T)]
    BY <1>1, RestIs
  <2>3. QED
    BY <2>1, <2>2
<1>2. \A T \in SUBSET S : T \in P
  <2> HIDE DEF P
  <2>1. QED
    BY <1>1, SubsetInduction
<1>3. QED
  BY <1>2

\* The sums over the subsets of a finite set exist.
LEMMA SumsExist ==
    ASSUME NEW h, NEW S, IsFiniteSet(S)
    PROVE  \E g : Sums(h, S, g)
<1> DEFINE P == {T \in SUBSET S : \E g : Sums(h, T, g)}
<1>1. ASSUME NEW T \in SUBSET S, \A U \in (SUBSET T) \ {T} : U \in P
      PROVE  T \in P
  <2> DEFINE within(U) == CHOOSE g : Sums(h, U, g)
             sum(U) == IF U = {} THEN 0 ELSE h[First(U)] + within(Rest(U))[Rest(U)]
             all == [U \in SUBSET T |-> sum(U)]
  <2>1. ASSUME NEW U \in (SUBSET T) \ {T} PROVE Sums(h, U, within(U)) /\ IsFiniteSet(U)
    <3>1. \E g : Sums(h, U, g)
      BY <1>1, <2>1
    <3>2. IsFiniteSet(U)
      BY FS_Subset
    <3>3. QED
      BY <3>1, <3>2
  <2>2. ASSUME NEW U \in SUBSET T, U # {}
        PROVE  within(Rest(U))[Rest(U)] = all[Rest(U)]
    <3> DEFINE V == Rest(U)
    <3>1. V \in (SUBSET T) \ {T} /\ V \in SUBSET T
      BY <2>2, RestIs
    <3>2. Sums(h, V, within(V))
      BY <2>1, <3>1
    <3>3. within(V)[V] = IF V = {} THEN 0 ELSE h[First(V)] + within(V)[Rest(V)]
      <4> HIDE DEF V, within
      <4>1. QED
        BY <3>2, SumsIs
    <3>4. V # {} => within(V)[Rest(V)] = within(Rest(V))[Rest(V)]
      <4> SUFFICES ASSUME V # {} PROVE within(V)[Rest(V)] = within(Rest(V))[Rest(V)]
        OBVIOUS
      <4>1. Rest(V) \in (SUBSET T) \ {T} /\ Rest(V) \subseteq V
        BY <3>1, RestIs
      <4>2. Sums(h, Rest(V), within(Rest(V))) /\ IsFiniteSet(Rest(V))
        BY <2>1, <4>1
      <4> HIDE DEF V, within
      <4>3. QED
        BY <3>2, <4>1, <4>2, SumsAgree
    <3>5. all[V] = sum(V)
      BY <3>1
    <3> HIDE DEF V, within, all
    <3>6. within(V)[V] = all[V]
      BY <3>3, <3>4, <3>5
    <3>7. QED
      BY <3>6 DEF V
  <2>3. Sums(h, T, all)
    <3>1. \A U \in SUBSET T :
            sum(U) = IF U = {} THEN 0 ELSE h[First(U)] + all[Rest(U)]
      <4> HIDE DEF within, all
      <4>1. QED
        BY <2>2
    <3> DEFINE e(U) == IF U = {} THEN 0 ELSE h[First(U)] + all[Rest(U)]
    <3>2. \A U \in SUBSET T : sum(U) = e(U)
      BY <3>1
    <3>3. all = [U \in SUBSET T |-> sum(U)]
      OBVIOUS
    <3> HIDE DEF sum, all, e
    <3>4. all = [U \in SUBSET T |-> e(U)]
      BY <3>2, <3>3
    <3>5. QED
      BY <3>4 DEF Sums, e
  <2>4. QED
    BY <2>3
<1>2. \A T \in SUBSET S : T \in P
  <2> HIDE DEF P
  <2>1. QED
    BY <1>1, SubsetInduction
<1>3. QED
  BY <1>2

\* Sums of natural numbers are natural numbers.
LEMMA SumsType ==
    ASSUME NEW S, NEW h \in [S -> Nat], NEW S0, NEW g, Sums(h, S0, g),
           NEW T, T \subseteq S, T \subseteq S0, IsFiniteSet(T)
    PROVE  g[T] \in Nat
<1> DEFINE P == {U \in SUBSET T : g[U] \in Nat}
<1>1. ASSUME NEW U \in SUBSET T, \A V \in (SUBSET U) \ {U} : V \in P
      PROVE  U \in P
  <2>1. g[U] = IF U = {} THEN 0 ELSE h[First(U)] + g[Rest(U)]
    <3>1. U \in SUBSET S0
      OBVIOUS
    <3>2. QED
      BY <3>1, SumsIs
  <2>2. U # {} => h[First(U)] \in Nat /\ g[Rest(U)] \in Nat
    BY <1>1, RestIs
  <2>3. QED
    BY <2>1, <2>2
<1>2. \A U \in SUBSET T : U \in P
  <2> HIDE DEF P
  <2>1. QED
    BY <1>1, SubsetInduction
<1>3. QED
  BY <1>2

\* It does not matter which element a sum takes first.
LEMMA SumsTake ==
    ASSUME NEW S, NEW h \in [S -> Nat], NEW S0, NEW g, Sums(h, S0, g),
           NEW T, T \subseteq S, T \subseteq S0, IsFiniteSet(T)
    PROVE  \A r \in T : g[T] = h[r] + g[T \ {r}]
<1> DEFINE P == {U \in SUBSET T : \A r \in U : g[U] = h[r] + g[U \ {r}]}
<1>1. ASSUME NEW U \in SUBSET T, \A V \in (SUBSET U) \ {U} : V \in P
      PROVE  U \in P
  <2> SUFFICES ASSUME NEW r \in U PROVE g[U] = h[r] + g[U \ {r}]
    OBVIOUS
  <2> DEFINE x == First(U)
             both == (U \ {x}) \ {r}
  <2>1. x \in U /\ Rest(U) = U \ {x} /\ Rest(U) \in (SUBSET U) \ {U}
    BY RestIs DEF Rest
  <2>2. g[U] = h[x] + g[U \ {x}]
    <3>1. U \in SUBSET S0 /\ U # {}
      OBVIOUS
    <3>2. g[U] = h[First(U)] + g[Rest(U)]
      BY <3>1, SumsIs
    <3>3. QED
      BY <2>1, <3>2
  <2> HIDE DEF x
  <2>3. CASE x = r
    BY <2>2, <2>3
  <2>4. CASE x # r
    <3>1. g[U \ {x}] = h[r] + g[both]
      <4>1. U \ {x} \in P /\ r \in U \ {x}
        BY <1>1, <2>1, <2>4
      <4>2. QED
        BY <4>1
    <3>2. g[U \ {r}] = h[x] + g[(U \ {r}) \ {x}]
      <4>1. U \ {r} \in P /\ x \in U \ {r}
        BY <1>1, <2>1, <2>4
      <4>2. QED
        BY <4>1
    <3>3. both = (U \ {r}) \ {x}
      OBVIOUS
    <3>4. g[both] \in Nat /\ h[x] \in Nat /\ h[r] \in Nat
      <4>1. both \subseteq S /\ both \subseteq S0 /\ both \subseteq T
        OBVIOUS
      <4>2. IsFiniteSet(both)
        BY <4>1, FS_Subset
      <4>3. g[both] \in Nat
        <5> HIDE DEF both
        <5>1. QED
          BY <4>1, <4>2, SumsType
      <4>4. QED
        BY <2>1, <4>3
    <3>5. QED
      <4> HIDE DEF both, P
      <4>1. g[U \ {r}] = h[x] + g[both]
        BY <3>2, <3>3
      <4>2. QED
        BY <2>2, <3>1, <3>4, <4>1
  <2>5. QED
    BY <2>3, <2>4
<1>2. \A U \in SUBSET T : U \in P
  <2> HIDE DEF P
  <2>1. QED
    BY <1>1, SubsetInduction
<1>3. QED
  BY <1>2

-----------------------------------------------------------------------------
(* What the evaluations counted amount to.                                 *)

\* The evaluations that the runs of T have in the counts c.
SumOf(c, i, T) == MapThenSumSet(LAMBDA r : c[r][i], T)

PerRun(c, i) == [r \in Runs |-> c[r][i]]

LEMMA PerRunType ==
    ASSUME NEW c \in [Runs -> Nat \X Nat], NEW i \in {1, 2}
    PROVE  PerRun(c, i) \in [Runs -> Nat]
<1>1. ASSUME NEW r \in Runs PROVE c[r][i] \in Nat
  <2>1. c[r] \in Nat \X Nat
    OBVIOUS
  <2>2. QED
    BY <2>1, CountsIs
<1>2. QED
  BY <1>1 DEF PerRun

\* The sum the model takes is one over the subsets of T.
LEMMA SumOfIs ==
    ASSUME NEW c \in [Runs -> Nat \X Nat], NEW i \in {1, 2},
           NEW T \in SUBSET Runs, IsFiniteSet(T)
    PROVE  \E g : Sums(PerRun(c, i), T, g) /\ SumOf(c, i, T) = g[T]
<1> DEFINE term(g, U) == IF U = {} THEN 0
                         ELSE c[CHOOSE y \in U : TRUE][i]
                              + g[U \ {CHOOSE y \in U : TRUE}]
           e(g, U) == IF U = {} THEN 0 ELSE PerRun(c, i)[First(U)] + g[Rest(U)]
           table(g) == g = [U \in SUBSET T |-> term(g, U)]
<1>1. SumOf(c, i, T) = (CHOOSE g : table(g))[T]
  BY DEF SumOf, MapThenSumSet, MapThenFoldSet
<1>2. ASSUME NEW g, NEW U \in SUBSET T PROVE e(g, U) = term(g, U)
  <2>1. CASE U = {}
    BY <2>1
  <2>2. CASE U # {}
    <3>1. First(U) \in Runs /\ First(U) = (CHOOSE y \in U : TRUE)
          /\ Rest(U) = U \ {CHOOSE y \in U : TRUE}
      BY <2>2, RestIs DEF First, Rest
    <3>2. PerRun(c, i)[First(U)] = c[First(U)][i]
      BY <3>1 DEF PerRun
    <3>3. QED
      BY <2>2, <3>1, <3>2
  <2>3. QED
    BY <2>1, <2>2
<1>3. ASSUME NEW g PROVE table(g) <=> Sums(PerRun(c, i), T, g)
  <2>1. Sums(PerRun(c, i), T, g) <=> g = [U \in SUBSET T |-> e(g, U)]
    BY DEF Sums
  <2> HIDE DEF e, term
  <2>2. [U \in SUBSET T |-> e(g, U)] = [U \in SUBSET T |-> term(g, U)]
    BY <1>2
  <2>3. QED
    BY <2>1, <2>2
<1> HIDE DEF table
<1>4. PICK f : Sums(PerRun(c, i), T, f)
  BY SumsExist
<1>5. table(CHOOSE g : table(g))
  BY <1>3, <1>4
<1>6. QED
  BY <1>1, <1>3, <1>5

\* The sum of no run is zero, and that of one run more counts what it had.
LEMMA SumOfGrows ==
    ASSUME NEW c \in [Runs -> Nat \X Nat], NEW i \in {1, 2},
           NEW T \in SUBSET Runs, IsFiniteSet(T)
    PROVE  /\ SumOf(c, i, {}) = 0
           /\ SumOf(c, i, T) \in Nat
           /\ \A r \in T : SumOf(c, i, T) = c[r][i] + SumOf(c, i, T \ {r})
<1> DEFINE h == PerRun(c, i)
<1>1. h \in [Runs -> Nat]
  BY PerRunType
<1>2. PICK g : Sums(h, T, g) /\ SumOf(c, i, T) = g[T]
  BY SumOfIs
<1>3. ASSUME NEW U \in SUBSET T PROVE SumOf(c, i, U) = g[U]
  <2>1. IsFiniteSet(U) /\ U \in SUBSET Runs
    BY FS_Subset
  <2>2. PICK f : Sums(h, U, f) /\ SumOf(c, i, U) = f[U]
    BY <2>1, SumOfIs
  <2> HIDE DEF h
  <2>3. f[U] = g[U]
    BY <1>2, <2>1, <2>2, SumsAgree
  <2>4. QED
    BY <2>2, <2>3
<1>4. g[{}] = 0
  <2>1. {} \in SUBSET T
    OBVIOUS
  <2> HIDE DEF h
  <2>2. QED
    BY <1>2, <2>1, SumsIs
<1>5. g[T] \in Nat
  <2> HIDE DEF h
  <2>1. QED
    BY <1>1, <1>2, SumsType
<1>6. \A r \in T : g[T] = h[r] + g[T \ {r}]
  <2> HIDE DEF h
  <2>1. QED
    BY <1>1, <1>2, SumsTake
<1>7. \A r \in T : h[r] = c[r][i]
  BY DEF PerRun
<1>8. \A r \in T : T \ {r} \in SUBSET T
  OBVIOUS
<1> HIDE DEF h
<1>9. QED
  BY <1>2, <1>3, <1>4, <1>5, <1>6, <1>7, <1>8

-----------------------------------------------------------------------------
(* What an improvement run counts.                                         *)

Counted(p) == Runs \ work[p].runLeft

\* What the locals w of an improvement run that keeps a change for its pass
\* rate have counted, of the evaluations c.
CountsStored(w, c) ==
    /\ w.basis = "rate" =>
         /\ w.passed >= SumOf(c, 1, Runs) /\ w.failed >= SumOf(c, 2, Runs)
         /\ 2000 * w.passed >= 1899 * (w.passed + w.failed)
    /\ w.basis = "proxy" => SumOf(c, 1, Runs) + SumOf(c, 2, Runs) = 0

\* Nothing stored is lost while an improvement run works, and it has counted
\* what the runs it has asked for had stored before it began.
Counting(p) ==
    /\ pc[p] \in {"idle", "snapshot", "validate", "list_runs"} =>
         /\ work[p].passed = 0 /\ work[p].failed = 0 /\ work[p].basis = "none"
    /\ pc[p] = "evaluations" =>
         /\ work[p].basis = "none" /\ IsFiniteSet(Counted(p))
         /\ work[p].passed >= SumOf(before[p], 1, Counted(p))
         /\ work[p].failed >= SumOf(before[p], 2, Counted(p))
    /\ pc[p] \notin {"idle", "over"} =>
         \A r \in Runs, i \in {1, 2} : evaluations[r][i] >= before[p][r][i]
    /\ answer[p] = "keep" /\ work[p].metric = "eval_pass_rate" =>
         CountsStored(work[p], before[p])

\* Inductive together with what each improvement run has established.
CountInv ==
    /\ ImproveInv
    /\ \A p \in Improvers : Counting(p)

\* Somebody else moved, and what was stored is still there.
LEMMA CountingStays ==
    ASSUME NEW p \in Improvers, StoreType, StoreType', Counting(p),
           pc'[p] = pc[p], answer'[p] = answer[p], work'[p] = work[p],
           before'[p] = before[p],
           \A r \in Runs, i \in {1, 2} : evaluations'[r][i] >= evaluations[r][i]
    PROVE  Counting(p)'
<1>1. Counted(p)' = Counted(p)
  BY DEF Counted
<1>2. ASSUME pc[p] \notin {"idle", "over"}, NEW r \in Runs, NEW i \in {1, 2}
      PROVE  evaluations'[r][i] >= before[p][r][i]
  <2>1. /\ evaluations[r] \in Nat \X Nat /\ evaluations'[r] \in Nat \X Nat
        /\ before[p][r] \in Nat \X Nat
    BY DEF StoreType
  <2>2. evaluations[r][i] \in Nat /\ evaluations'[r][i] \in Nat /\ before[p][r][i] \in Nat
    BY <2>1, CountsIs
  <2>3. evaluations'[r][i] >= evaluations[r][i] /\ evaluations[r][i] >= before[p][r][i]
    BY <1>2 DEF Counting
  <2>4. QED
    BY <2>2, <2>3
<1>3. QED
  BY <1>1, <1>2 DEF Counting

\* A step of one improvement run leaves the others where they were.
LEMMA OthersStay ==
    ASSUME ImproveInv, NEW p \in Improvers, ImprovementStep(p), NEW q \in Improvers \ {p}
    PROVE  /\ pc'[q] = pc[q] /\ answer'[q] = answer[q] /\ work'[q] = work[q]
           /\ before'[q] = before[q] /\ UNCHANGED evaluations
<1> USE ImproversApart
<1>1. /\ pc \in [Threads -> Stages] /\ answer \in [Threads -> Answers]
      /\ work \in [Improvers -> Work]
      /\ before \in [Improvers -> [Runs -> Nat \X Nat]]
  BY DEF ImproveInv, PlaceInv, TypeOK, StoreType, Stages, Answers
<1>2. ASSUME NEW what, Answer(p, what)
      PROVE  pc'[q] = pc[q] /\ answer'[q] = answer[q]
  BY <1>1, <1>2 DEF Answer
<1>3. ASSUME NEW at, Goto(p, at) PROVE pc'[q] = pc[q] /\ answer'[q] = answer[q]
  BY <1>1, <1>3 DEF Goto
<1>4. ASSUME NEW w, NEW met, Conclude(p, w, met)
      PROVE  pc'[q] = pc[q] /\ answer'[q] = answer[q] /\ work'[q] = work[q]
  BY <1>1, <1>2, <1>4 DEF Conclude
<1>5. ASSUME NEW chosen \in TargetChoices, NEW metric \in Metrics,
             Improve(p, chosen, metric)
      PROVE  /\ pc'[q] = pc[q] /\ answer'[q] = answer[q] /\ work'[q] = work[q]
             /\ before'[q] = before[q] /\ UNCHANGED evaluations
  BY <1>1, <1>2, <1>3, <1>5 DEF Improve, stillVars, storeVars
<1>6. CASE Refuse(p)
  BY <1>2, <1>6 DEF Refuse, stillVars, storeVars
<1>7. ASSUME NEW f \in Files, SnapshotAsset(p, f) \/ ValidateAsset(p, f)
      PROVE  /\ pc'[q] = pc[q] /\ answer'[q] = answer[q] /\ work'[q] = work[q]
             /\ before'[q] = before[q] /\ UNCHANGED evaluations
  BY <1>1, <1>2, <1>3, <1>7 DEF SnapshotAsset, ValidateAsset, stillVars, storeVars
<1>8. CASE ListRuns(p)
  BY <1>1, <1>3, <1>4, <1>8 DEF ListRuns, ConcludeByProxy, stillVars, storeVars
<1>9. ASSUME NEW r \in Runs, ListRunEvaluations(p, r)
      PROVE  /\ pc'[q] = pc[q] /\ answer'[q] = answer[q] /\ work'[q] = work[q]
             /\ before'[q] = before[q] /\ UNCHANGED evaluations
  BY <1>1, <1>3, <1>4, <1>9 DEF ListRunEvaluations, stillVars, storeVars
<1>10. CASE RepositoryFails(p)
  BY <1>4, <1>10 DEF RepositoryFails, ConcludeByProxy, stillVars, storeVars
<1>11. QED
  BY <1>5, <1>6, <1>7, <1>8, <1>9, <1>10 DEF ImprovementStep

\* What was stored when an improvement run began was stored then.
LEMMA ImproveCounts ==
    ASSUME ImproveInv, ImproveInv', NEW p \in Improvers, NEW chosen \in TargetChoices,
           NEW metric \in Metrics, Improve(p, chosen, metric)
    PROVE  Counting(p)'
<1> USE ImproversApart
<1>1. /\ TypeOK /\ StoreType /\ StoreType' /\ pc[p] = "idle"
      /\ answer[p] = "none" /\ work[p] = NoWork
  BY DEF ImproveInv, PlaceInv, Improve, Began, Measured
<1>2. UNCHANGED evaluations /\ before'[p] = evaluations
  BY <1>1 DEF Improve, stillVars, storeVars, StoreType
<1>3. \A r \in Runs, i \in {1, 2} : evaluations'[r][i] >= before'[p][r][i]
  <2>1. ASSUME NEW r \in Runs, NEW i \in {1, 2} PROVE evaluations[r][i] \in Nat
    <3>1. evaluations[r] \in Nat \X Nat
      BY <1>1 DEF StoreType
    <3>2. QED
      BY <3>1, CountsIs
  <2>2. QED
    BY <1>2, <2>1
<1>4. CASE registered[0] = Unloaded
  <2>1. Answer(p, "404") /\ "404" \in Answers
    BY <1>4 DEF Improve, Answers
  <2>2. pc'[p] = "over" /\ answer'[p] = "404"
    BY <1>1, <2>1, AnswerType
  <2>3. QED
    BY <2>2 DEF Counting
<1>5. CASE registered[0] # Unloaded
  <2> DEFINE targets == IF chosen = {} THEN DefaultTargets ELSE chosen
             w == [NoWork EXCEPT !.targets = targets, !.default = (chosen = {}),
                                 !.metric = metric, !.fileLeft = targets]
  <2>1. Goto(p, "snapshot") /\ work'[p] = w /\ "snapshot" \in Stages
    BY <1>1, <1>5 DEF Improve, Stages, StoreType
  <2>2. pc'[p] = "snapshot" /\ answer'[p] = "none"
    BY <1>1, <2>1, GotoType
  <2>3. w.passed = 0 /\ w.failed = 0 /\ w.basis = "none"
    <3> HIDE DEF targets
    <3>1. QED
      BY DEF NoWork
  <2> HIDE DEF w
  <2>4. QED
    BY <1>3, <2>1, <2>2, <2>3 DEF Counting
<1>6. QED
  BY <1>4, <1>5

LEMMA RefuseCounts ==
    ASSUME ImproveInv, NEW p \in Improvers, Refuse(p)
    PROVE  Counting(p)'
<1> USE ImproversApart
<1>1. TypeOK
  BY DEF ImproveInv, PlaceInv
<1>2. PICK what \in {"404", "400"} : Answer(p, what)
  BY DEF Refuse
<1>3. what \in Answers /\ what # "keep"
  BY DEF Answers
<1>4. pc'[p] = "over" /\ answer'[p] = what
  BY <1>1, <1>2, <1>3, AnswerType
<1>5. QED
  BY <1>3, <1>4 DEF Counting

\* The files are looked at before the evaluations are counted.
LEMMA FilesCount ==
    ASSUME ImproveInv, NEW p \in Improvers, NEW f \in Files, Counting(p),
           SnapshotAsset(p, f) \/ ValidateAsset(p, f)
    PROVE  Counting(p)'
<1> USE ImproversApart
<1>1. /\ TypeOK /\ StoreType /\ work[p] \in Work
      /\ pc[p] \in {"snapshot", "validate"} /\ answer[p] = "none"
      /\ UNCHANGED <<evaluations, before>>
  BY WorkIs DEF ImproveInv, PlaceInv, SnapshotAsset, ValidateAsset, Measured,
     stillVars, storeVars
<1>2. work[p].passed = 0 /\ work[p].failed = 0 /\ work[p].basis = "none"
  BY <1>1 DEF Counting
<1>3. \A r \in Runs, i \in {1, 2} : evaluations'[r][i] >= before'[p][r][i]
  BY <1>1 DEF Counting
<1>4. \/ Answer(p, "404")
      \/ /\ \E at \in {"snapshot", "validate", "list_runs"} : Goto(p, at)
         /\ work'[p].passed = 0 /\ work'[p].failed = 0 /\ work'[p].basis = "none"
  <2>1. CASE SnapshotAsset(p, f) /\ disk[f].kind = "broken"
    BY <2>1 DEF SnapshotAsset
  <2>2. CASE SnapshotAsset(p, f) /\ disk[f].kind # "broken"
    BY <1>1, <1>2, <2>2 DEF SnapshotAsset, StoreType, Work
  <2>3. CASE ValidateAsset(p, f)
    BY <1>1, <1>2, <2>3 DEF ValidateAsset, StoreType, Work
  <2>4. QED
    BY <2>1, <2>2, <2>3
<1>5. CASE Answer(p, "404")
  <2>1. "404" \in Answers
    BY DEF Answers
  <2>2. pc'[p] = "over" /\ answer'[p] = "404"
    BY <1>1, <1>5, <2>1, AnswerType
  <2>3. QED
    BY <2>2 DEF Counting
<1>6. ASSUME NEW at \in {"snapshot", "validate", "list_runs"}, Goto(p, at),
             work'[p].passed = 0, work'[p].failed = 0, work'[p].basis = "none"
      PROVE  Counting(p)'
  <2>1. at \in Stages
    BY DEF Stages
  <2>2. pc'[p] = at /\ answer'[p] = "none"
    BY <1>1, <1>6, <2>1, GotoType
  <2>3. QED
    BY <1>3, <1>6, <2>2 DEF Counting
<1>7. QED
  BY <1>4, <1>5, <1>6

\* A rate that is met.
LEMMA RateMetIs ==
    ASSUME NEW passed \in Nat, NEW failed \in Nat, passed + failed # 0,
           RateMet(passed, failed)
    PROVE  2000 * passed >= 1899 * (passed + failed)
<1> DEFINE total == passed + failed
<1>1. total \in Nat \ {0}
  OBVIOUS
<1>2. (2000 * passed + total) \div (2 * total) >= 950
  BY DEF RateMet, PassRate
<1> HIDE DEF total
<1>3. 2000 * passed + total >= 1900 * total
  <2> DEFINE a == 2000 * passed + total
  <2>1. a \in Nat /\ a \div (2 * total) >= 950
    BY <1>1, <1>2
  <2> HIDE DEF a
  <2>2. a >= 1900 * total
    BY <1>1, <2>1
  <2>3. QED
    BY <2>2 DEF a
<1>4. 2000 * passed >= 1899 * total
  BY <1>1, <1>3
<1>5. QED
  BY <1>4 DEF total

\* A change is kept for its pass rate only if the rate was met.
LEMMA KeptIsMet ==
    ASSUME NEW w \in Work, NEW met \in BOOLEAN, NEW decision \in Decision(w, met),
           decision = "keep", w.metric = "eval_pass_rate"
    PROVE  met
<1>1. AllValid(w)
  BY DecisionIs
<1>2. Decision(w, met) = IF met THEN {"keep"} ELSE {"needs_review"}
  BY <1>1 DEF Decision
<1>3. QED
  BY <1>2

LEMMA ConcludeCounts ==
    ASSUME ImproveInv, NEW p \in Improvers, NEW w \in Work, NEW met \in BOOLEAN,
           Conclude(p, w, met), met => CountsStored(w, before[p]), UNCHANGED before
    PROVE  Counting(p)'
<1> USE ImproversApart
<1> DEFINE u == [w EXCEPT !.runLeft = {}]
<1>1. TypeOK /\ StoreType
  BY DEF ImproveInv, PlaceInv
<1>2. PICK decision \in Decision(w, met) : Answer(p, decision)
  BY DEF Conclude
<1>3. decision \in Answers
  BY DecisionIs
<1>4. pc'[p] = "over" /\ answer'[p] = decision
  BY <1>1, <1>2, <1>3, AnswerType
<1>5. work'[p] = u
  BY <1>1 DEF Conclude, StoreType
<1>6. /\ u.metric = w.metric /\ u.basis = w.basis
      /\ u.passed = w.passed /\ u.failed = w.failed
  BY DEF Work
<1> HIDE DEF u
<1>7. answer'[p] = "keep" /\ u.metric = "eval_pass_rate" => CountsStored(u, before[p])
  <2>1. decision = "keep" /\ w.metric = "eval_pass_rate" => CountsStored(w, before[p])
    BY <1>2, KeptIsMet
  <2>2. CountsStored(w, before[p]) => CountsStored(u, before[p])
    BY <1>6 DEF CountsStored
  <2>3. QED
    BY <1>4, <1>6, <2>1, <2>2
<1>8. QED
  BY <1>4, <1>5, <1>7 DEF Counting

LEMMA ProxyCounts ==
    ASSUME ImproveInv, NEW p \in Improvers, NEW basis \in {"proxy", "error"},
           ConcludeByProxy(p, basis), UNCHANGED before,
           basis = "proxy" => Runs = {}
    PROVE  Counting(p)'
<1> DEFINE w == [work[p] EXCEPT !.basis = basis]
<1>1. StoreType /\ work[p] \in Work /\ before[p] \in [Runs -> Nat \X Nat]
  BY WorkIs DEF ImproveInv, StoreType
<1>2. w \in Work /\ w.basis = basis
  BY <1>1 DEF Work
<1>3. Conclude(p, w, ProxyMet(work[p])) /\ ProxyMet(work[p]) \in BOOLEAN
  BY DEF ConcludeByProxy, ProxyMet
<1>4. CountsStored(w, before[p])
  <2>1. CASE basis = "error"
    BY <1>2, <2>1 DEF CountsStored
  <2>2. CASE basis = "proxy"
    <3>1. Runs = {} /\ {} \in SUBSET Runs /\ IsFiniteSet({})
      BY <2>2, FS_EmptySet
    <3>2. SumOf(before[p], 1, {}) = 0 /\ SumOf(before[p], 2, {}) = 0
      BY <1>1, <3>1, SumOfGrows
    <3> HIDE DEF w
    <3>3. QED
      BY <1>2, <2>2, <3>1, <3>2 DEF CountsStored
  <2>3. QED
    BY <2>1, <2>2
<1> HIDE DEF w
<1>5. QED
  BY <1>2, <1>3, <1>4, ConcludeCounts

LEMMA RepositoryFailsCounts ==
    ASSUME ImproveInv, NEW p \in Improvers, RepositoryFails(p)
    PROVE  Counting(p)'
BY ProxyCounts DEF RepositoryFails

LEMMA ListRunsCounts ==
    ASSUME ImproveInv, ImproveInv', NEW p \in Improvers, Counting(p), ListRuns(p)
    PROVE  Counting(p)'
<1> USE ImproversApart
<1>1. /\ TypeOK /\ StoreType /\ pc[p] = "list_runs" /\ answer[p] = "none"
      /\ work[p] \in Work /\ UNCHANGED <<evaluations, before>>
  BY WorkIs DEF ImproveInv, PlaceInv, ListRuns, Measured, stillVars, storeVars
<1>2. CASE Runs = {}
  BY <1>1, <1>2, ProxyCounts DEF ListRuns
<1>3. CASE Runs # {}
  <2> DEFINE w == [work[p] EXCEPT !.runLeft = Runs]
  <2>1. Goto(p, "evaluations") /\ work'[p] = w /\ "evaluations" \in Stages
    BY <1>1, <1>3 DEF ListRuns, Stages, StoreType
  <2>2. pc'[p] = "evaluations" /\ answer'[p] = "none"
    BY <1>1, <2>1, GotoType
  <2>3. w.runLeft = Runs /\ w.passed = 0 /\ w.failed = 0 /\ w.basis = "none"
    BY <1>1 DEF Counting, Work
  <2> HIDE DEF w
  <2>4. Counted(p)' = {} /\ IsFiniteSet({}) /\ {} \in SUBSET Runs
    BY <2>1, <2>3, FS_EmptySet DEF Counted
  <2>5. SumOf(before[p], 1, {}) = 0 /\ SumOf(before[p], 2, {}) = 0
    <3>1. before[p] \in [Runs -> Nat \X Nat]
      BY <1>1 DEF StoreType
    <3>2. QED
      BY <2>4, <3>1, SumOfGrows
  <2>6. \A r \in Runs, i \in {1, 2} : evaluations'[r][i] >= before'[p][r][i]
    BY <1>1 DEF Counting
  <2>7. QED
    BY <1>1, <2>1, <2>2, <2>3, <2>4, <2>5, <2>6 DEF Counting
<1>4. QED
  BY <1>2, <1>3

\* The evaluations read of one run more are at least those it had before.
LEMMA CountsOneMore ==
    ASSUME ImproveInv, NEW p \in Improvers, Counting(p), pc[p] = "evaluations",
           NEW r \in work[p].runLeft, NEW T, T = Runs \ (work[p].runLeft \ {r})
    PROVE  /\ IsFiniteSet(T) /\ T \in SUBSET Runs
           /\ work[p].passed + evaluations[r][1] >= SumOf(before[p], 1, T)
           /\ work[p].failed + evaluations[r][2] >= SumOf(before[p], 2, T)
<1>1. /\ StoreType /\ work[p].runLeft \in SUBSET Runs
      /\ before[p] \in [Runs -> Nat \X Nat]
      /\ work[p].passed \in Nat /\ work[p].failed \in Nat
  BY WorkIs DEF ImproveInv, StoreType
<1>2. T = Counted(p) \cup {r} /\ Counted(p) = T \ {r} /\ r \in T /\ T \in SUBSET Runs
  BY <1>1 DEF Counted
<1>3. IsFiniteSet(Counted(p)) /\ Counted(p) \in SUBSET Runs
  BY DEF Counting, Counted
<1>4. IsFiniteSet(T)
  BY <1>2, <1>3, FS_AddElement
<1>5. ASSUME NEW i \in {1, 2}
      PROVE  /\ SumOf(before[p], i, T)
                  = before[p][r][i] + SumOf(before[p], i, Counted(p))
             /\ SumOf(before[p], i, Counted(p)) \in Nat
             /\ evaluations[r][i] >= before[p][r][i]
             /\ evaluations[r][i] \in Nat /\ before[p][r][i] \in Nat
  <2>1. SumOf(before[p], i, T) = before[p][r][i] + SumOf(before[p], i, T \ {r})
    BY <1>1, <1>2, <1>4, SumOfGrows
  <2>2. SumOf(before[p], i, Counted(p)) \in Nat
    BY <1>1, <1>3, SumOfGrows
  <2>3. evaluations[r] \in Nat \X Nat /\ before[p][r] \in Nat \X Nat
    BY <1>1 DEF StoreType
  <2>4. evaluations[r][i] \in Nat /\ before[p][r][i] \in Nat
    BY <2>3, CountsIs
  <2>5. evaluations[r][i] >= before[p][r][i]
    BY <1>1 DEF Counting
  <2>6. QED
    BY <1>2, <2>1, <2>2, <2>4, <2>5
<1>6. work[p].passed >= SumOf(before[p], 1, Counted(p))
      /\ work[p].failed >= SumOf(before[p], 2, Counted(p))
  BY DEF Counting
<1>7. QED
  BY <1>1, <1>2, <1>4, <1>5, <1>6

LEMMA ListRunEvaluationsCounts ==
    ASSUME ImproveInv, ImproveInv', NEW p \in Improvers, NEW r \in Runs, Counting(p),
           ListRunEvaluations(p, r)
    PROVE  Counting(p)'
<1> USE ImproversApart
<1> DEFINE w == [work[p] EXCEPT !.runLeft = @ \ {r}, !.passed = @ + evaluations[r][1],
                                !.failed = @ + evaluations[r][2]]
           proxy == [w EXCEPT !.basis = "proxy"]
           rate == [w EXCEPT !.basis = "rate"]
           T == Runs \ (work[p].runLeft \ {r})
<1>1. /\ TypeOK /\ StoreType /\ pc[p] = "evaluations" /\ answer[p] = "none"
      /\ work[p] \in Work /\ r \in work[p].runLeft /\ UNCHANGED <<evaluations, before>>
  BY WorkIs DEF ImproveInv, PlaceInv, ListRunEvaluations, Measured, stillVars, storeVars
<1>2. /\ work[p].passed + evaluations[r][1] \in Nat
      /\ work[p].failed + evaluations[r][2] \in Nat
      /\ work[p].runLeft \ {r} \in SUBSET Runs
  <2>1. evaluations[r] \in Nat \X Nat
    BY <1>1 DEF StoreType
  <2>2. evaluations[r][1] \in Nat /\ evaluations[r][2] \in Nat
    BY <2>1, CountsIs
  <2>3. /\ work[p].passed \in Nat /\ work[p].failed \in Nat
        /\ work[p].runLeft \in SUBSET Runs
    BY <1>1, WorkIs
  <2>4. QED
    BY <2>2, <2>3
<1>3. /\ w \in Work /\ w.basis = "none" /\ w.runLeft = work[p].runLeft \ {r}
      /\ w.passed = work[p].passed + evaluations[r][1]
      /\ w.failed = work[p].failed + evaluations[r][2]
  <2>1. work[p].basis = "none"
    BY <1>1 DEF Counting
  <2>2. QED
    BY <1>1, <1>2, <2>1 DEF Work
<1>4. /\ IsFiniteSet(T) /\ T \in SUBSET Runs
      /\ w.passed >= SumOf(before[p], 1, T) /\ w.failed >= SumOf(before[p], 2, T)
  <2> HIDE DEF w
  <2>1. QED
    BY <1>1, <1>3, CountsOneMore
<1>5. \/ Goto(p, "evaluations") /\ work' = [work EXCEPT ![p] = w] /\ w.runLeft # {}
      \/ Conclude(p, proxy, ProxyMet(w)) /\ w.runLeft = {} /\ w.passed + w.failed = 0
      \/ /\ Conclude(p, rate, RateMet(w.passed, w.failed))
         /\ w.runLeft = {} /\ w.passed + w.failed # 0
  BY Zenon DEF ListRunEvaluations
<1>6. /\ proxy \in Work /\ proxy.basis = "proxy"
      /\ rate \in Work /\ rate.basis = "rate"
      /\ rate.passed = w.passed /\ rate.failed = w.failed
  <2> HIDE DEF w
  <2>1. QED
    BY <1>3 DEF Work
<1> HIDE DEF w, proxy, rate
<1>7. w.passed \in Nat /\ w.failed \in Nat
  BY <1>2, <1>3
<1>8. w.runLeft = {} => T = Runs
  BY <1>3
<1>9. SumOf(before[p], 1, T) \in Nat /\ SumOf(before[p], 2, T) \in Nat
  <2>1. before[p] \in [Runs -> Nat \X Nat]
    BY <1>1 DEF StoreType
  <2> HIDE DEF T
  <2>2. QED
    BY <1>4, <2>1, SumOfGrows
<1>10. CASE Goto(p, "evaluations") /\ work' = [work EXCEPT ![p] = w]
  <2>1. "evaluations" \in Stages /\ work'[p] = w
    BY <1>1, <1>10 DEF Stages, StoreType
  <2>2. pc'[p] = "evaluations" /\ answer'[p] = "none"
    BY <1>1, <1>10, <2>1, GotoType
  <2>3. Counted(p)' = T
    BY <1>3, <2>1 DEF Counted
  <2>4. \A s \in Runs, i \in {1, 2} : evaluations'[s][i] >= before'[p][s][i]
    BY <1>1 DEF Counting
  <2> HIDE DEF T
  <2>5. QED
    BY <1>1, <1>3, <1>4, <2>1, <2>2, <2>3, <2>4 DEF Counting
<1>11. CASE Conclude(p, proxy, ProxyMet(w)) /\ w.runLeft = {} /\ w.passed + w.failed = 0
  <2>1. SumOf(before[p], 1, Runs) + SumOf(before[p], 2, Runs) = 0
    <3> HIDE DEF T
    <3>1. SumOf(before[p], 1, T) + SumOf(before[p], 2, T) = 0
      BY <1>4, <1>7, <1>9, <1>11
    <3>2. QED
      BY <1>8, <1>11, <3>1
  <2>2. CountsStored(proxy, before[p])
    BY <1>6, <2>1 DEF CountsStored
  <2>3. ProxyMet(w) \in BOOLEAN
    BY DEF ProxyMet
  <2>4. QED
    BY <1>1, <1>6, <1>11, <2>2, <2>3, ConcludeCounts
<1>12. CASE /\ Conclude(p, rate, RateMet(w.passed, w.failed))
            /\ w.runLeft = {} /\ w.passed + w.failed # 0
  <2>1. RateMet(w.passed, w.failed)
        => 2000 * w.passed >= 1899 * (w.passed + w.failed)
    BY <1>7, <1>12, RateMetIs
  <2>2. RateMet(w.passed, w.failed) => CountsStored(rate, before[p])
    <3>1. w.passed >= SumOf(before[p], 1, Runs) /\ w.failed >= SumOf(before[p], 2, Runs)
      BY <1>4, <1>8, <1>12
    <3>2. QED
      BY <1>6, <2>1, <3>1 DEF CountsStored
  <2>3. RateMet(w.passed, w.failed) \in BOOLEAN
    BY DEF RateMet
  <2>4. QED
    BY <1>1, <1>6, <1>12, <2>2, <2>3, ConcludeCounts
<1>13. QED
  BY <1>5, <1>10, <1>11, <1>12

\* Nothing stored is lost but by a restart, which ends every improvement run.
LEMMA StoreGrows ==
    ASSUME StoreType, NEW s \in Runs, SaveEvaluation(s)
    PROVE  \A r \in Runs, i \in {1, 2} : evaluations'[r][i] >= evaluations[r][i]
<1> SUFFICES ASSUME NEW r \in Runs, NEW i \in {1, 2}
             PROVE  evaluations'[r][i] >= evaluations[r][i]
  OBVIOUS
<1>1. PICK j \in {1, 2} : evaluations' = [evaluations EXCEPT ![s][j] = @ + 1]
  BY DEF SaveEvaluation
<1>2. PICK a \in Nat, b \in Nat : evaluations[r] = <<a, b>>
  BY DEF StoreType
<1>3. CASE r # s
  <2>1. evaluations'[r] = evaluations[r]
    BY <1>1, <1>3 DEF StoreType
  <2>2. QED
    BY <1>2, <2>1
<1>4. CASE r = s
  <2>1. evaluations'[r] = [<<a, b>> EXCEPT ![j] = @ + 1]
    BY <1>1, <1>2, <1>4 DEF StoreType
  <2>2. evaluations'[r] = IF j = 1 THEN <<a + 1, b>> ELSE <<a, b + 1>>
    BY <2>1
  <2>3. QED
    BY <1>2, <2>2
<1>5. QED
  BY <1>3, <1>4

\* The evaluations are counts.
LEMMA StoreSame ==
    ASSUME StoreType, UNCHANGED evaluations
    PROVE  \A r \in Runs, i \in {1, 2} : evaluations'[r][i] >= evaluations[r][i]
<1> SUFFICES ASSUME NEW r \in Runs, NEW i \in {1, 2}
             PROVE  evaluations'[r][i] >= evaluations[r][i]
  OBVIOUS
<1>1. evaluations[r] \in Nat \X Nat
  BY DEF StoreType
<1>2. evaluations[r][i] \in Nat
  BY <1>1, CountsIs
<1>3. QED
  BY <1>2

LEMMA RestartCounts ==
    ASSUME ImproveInv, ImproveInv', RestartAll, NEW p \in Improvers, Counting(p)
    PROVE  Counting(p)'
<1> USE ThreadsApart, ImproversApart
<1>1. PlaceInv /\ Restart /\ TypeOK /\ Measured(p) /\ UNCHANGED <<work, before>>
  BY DEF ImproveInv, PlaceInv, RestartAll
<1>2. pc'[p] = IF pc[p] = "idle" THEN "idle" ELSE "over"
  BY <1>1, RestartIs
<1>3. answer'[p] = answer[p]
  BY <1>1 DEF Restart, TypeOK
<1>4. QED
  BY <1>1, <1>2, <1>3 DEF Counting

LEMMA CountInit == Init => CountInv
<1> SUFFICES ASSUME Init PROVE CountInv
  OBVIOUS
<1> USE ThreadsApart, ImproversApart
<1>1. ImproveInv
  BY ImproveInit
<1>2. ASSUME NEW p \in Improvers PROVE Counting(p)
  <2>1. pc[p] = "idle" /\ answer[p] = "none" /\ work[p] = NoWork
    BY DEF Init, RegistryInit
  <2>2. NoWork.passed = 0 /\ NoWork.failed = 0 /\ NoWork.basis = "none"
    BY DEF NoWork
  <2>3. QED
    BY <2>1, <2>2 DEF Counting
<1>3. QED
  BY <1>1, <1>2 DEF CountInv

LEMMA CountNext == CountInv /\ [Next]_vars => CountInv'
<1> SUFFICES ASSUME CountInv, [Next]_vars PROVE CountInv'
  OBVIOUS
<1> USE ThreadsApart, ImproversApart
<1>1. ImproveInv /\ ImproveInv' /\ StoreType /\ StoreType'
  BY ImproveNext DEF CountInv, ImproveInv
<1>2. \A p \in Improvers : Counting(p)
  BY DEF CountInv
<1>3. ASSUME NEW p \in Improvers, ImprovementStep(p), NEW q \in Improvers
      PROVE  Counting(q)'
  <2>1. CASE q = p
    BY <1>1, <1>2, <1>3, <2>1, ImproveCounts, RefuseCounts, FilesCount, ListRunsCounts,
       ListRunEvaluationsCounts, RepositoryFailsCounts DEF ImprovementStep
  <2>2. CASE q # p
    <3>1. /\ pc'[q] = pc[q] /\ answer'[q] = answer[q] /\ work'[q] = work[q]
          /\ before'[q] = before[q] /\ UNCHANGED evaluations
      BY <1>1, <1>3, <2>2, OthersStay
    <3>2. QED
      BY <1>1, <1>2, <3>1, StoreSame, CountingStays
  <2>3. QED
    BY <2>1, <2>2
<1>4. ASSUME NEW r \in Runs, SaveEvaluation(r), NEW p \in Improvers
      PROVE  Counting(p)'
  <2>1. UNCHANGED <<pc, answer, work, before>>
    BY <1>4 DEF SaveEvaluation, registryVars
  <2>2. \A s \in Runs, i \in {1, 2} : evaluations'[s][i] >= evaluations[s][i]
    BY <1>1, <1>4, StoreGrows
  <2>3. QED
    BY <1>1, <1>2, <2>1, <2>2, CountingStays
<1>5. ASSUME RegistryNext, UNCHANGED <<storeVars, work, before>>, NEW p \in Improvers
      PROVE  Counting(p)'
  <2>1. PICK q \in Reloaders \cup Editors : OnlyMoves(q)
    BY <1>1, <1>5, RegistryStep DEF ImproveInv
  <2>2. pc'[p] = pc[p] /\ answer'[p] = answer[p] /\ UNCHANGED evaluations
    BY <1>5, <2>1 DEF OnlyMoves, storeVars
  <2>3. QED
    BY <1>1, <1>2, <1>5, <2>2, StoreSame, CountingStays
<1>6. ASSUME UNCHANGED vars, NEW p \in Improvers PROVE Counting(p)'
  BY <1>1, <1>2, <1>6, StoreSame, CountingStays DEF vars, registryVars, storeVars
<1>7. QED
  BY <1>1, <1>2, <1>3, <1>4, <1>5, <1>6, RestartCounts DEF CountInv, Next

\* An improvement run that has asked for the evaluations of some runs has
\* counted at least those they had before it began.
THEOREM CountInvariant == Spec => []CountInv
BY CountInit, CountNext, PTL DEF Spec

\* A change kept for its pass rate has counted every evaluation stored before
\* the improvement run began, however many runs there are and whatever is
\* stored meanwhile, and the rate it was kept for is the one it promises.
THEOREM StoredCounted == Spec => []KeepCountsStored
<1>1. CountInv => KeepCountsStored
  <2> SUFFICES ASSUME CountInv, NEW p \in Improvers, answer[p] = "keep",
                      work[p].metric = "eval_pass_rate"
               PROVE  LET w == work[p] IN
                      /\ w.basis = "rate" =>
                           /\ w.passed >= StoredBefore(p, 1)
                           /\ w.failed >= StoredBefore(p, 2)
                           /\ 2000 * w.passed >= 1899 * (w.passed + w.failed)
                      /\ w.basis = "proxy" => StoredBefore(p, 1) + StoredBefore(p, 2) = 0
    BY DEF KeepCountsStored
  <2>1. CountsStored(work[p], before[p])
    BY DEF CountInv, Counting
  <2>2. \A i \in {1, 2} : StoredBefore(p, i) = SumOf(before[p], i, Runs)
    BY DEF StoredBefore, SumOf
  <2>3. QED
    BY <2>1, <2>2 DEF CountsStored
<1>2. QED
  BY <1>1, CountInvariant, PTL

=============================================================================
