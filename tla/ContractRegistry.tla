--------------------------- MODULE ContractRegistry ---------------------------
(***************************************************************************)
(* The contracts of one domain on disk and in the process: the files       *)
(* domain.yaml and agents/*.yaml under CONTRACTS_DIR and under app/domains *)
(* (app/domains/registry.py, app/dependencies.py), the reload route and    *)
(* the file tools that edit them.                                          *)
(*                                                                         *)
(* Every request and every file tool call is a thread.  No lock protects   *)
(* the registry or the files; a dictionary assignment is atomic, a file is *)
(* truncated before it is written.  A reload installs what it has read     *)
(* and reads the next file in one step: reads of files and writes of the   *)
(* registry commute.                                                       *)
(***************************************************************************)
EXTENDS Integers, FiniteSets

CONSTANTS
    Reloaders,      \* calls of POST /domains/{domain_id}/reload
    Editors,        \* calls of the file tools
    Others,         \* further threads, of the modules that extend this one
    ContractsDir,   \* settings.contracts_dir
    Builtin,        \* _BUILTIN_DOMAINS; the default contracts_dir is the same
    AgentCount,     \* agent files of the domain, numbered in sorted order
    Written,        \* kinds of content an edit may write
    Editable,       \* files an edit may touch
    MaxRestarts     \* bound on the restarts of the process

Roots == {ContractsDir, Builtin}

\* Contract 0 is domain.yaml, the others are the agents.
Contracts == 0..AgentCount
Files == Roots \X Contracts
Threads == Reloaders \cup Editors \cup Others

\* A truncated file; a mapping that lacks required fields; a valid contract;
\* a field of a wrong type; YAML that is not a mapping; not YAML.
Content == {"empty", "partial", "full", "mistyped", "scalar", "broken"}

ASSUME RegistryAssumption ==
    /\ AgentCount \in Nat
    /\ MaxRestarts \in Nat
    /\ Written \subseteq Content
    /\ Editable \subseteq Files
    /\ Reloaders \cap Editors = {} /\ Others \cap (Reloaders \cup Editors) = {}

VARIABLES
    disk,       \* the content of each file
    dirs,       \* the roots that have a directory for the domain
    registered, \* DomainRegistry: the file version each contract was loaded from
    up,         \* whether the application started
    pc,         \* where each thread is
    job,        \* its locals
    answer,     \* what it answered
    restarts,   \* restarts so far
    since,      \* history: the versions on disk when a thread began
    after       \* history: the threads that were over when it began

fileVars == <<disk, dirs>>
historyVars == <<since, after>>
registryVars == <<disk, dirs, registered, up, pc, job, answer, restarts, since, after>>

\* version counts the changes of the file, edits names the calls whose text it holds.
State == [kind : Content \cup {"absent"}, version : Nat, edits : SUBSET Editors]

Unloaded == <<Builtin, -1>>

Job == [root : Roots, at : Contracts, read : State, listed : SUBSET Contracts,
        loaded : SUBSET Contracts, op : {"none", "write", "update", "delete"},
        old : SUBSET Editors]

TypeOK ==
    /\ disk \in [Files -> State]
    /\ dirs \subseteq Roots
    /\ registered \in [Contracts -> Roots \X (Nat \cup {-1})]
    /\ up \in BOOLEAN
    /\ pc \in [Threads -> {"idle", "load", "open", "close", "unlink", "snapshot",
                           "validate", "list_runs", "evaluations", "decide", "over"}]
    /\ job \in [Reloaders \cup Editors -> Job]
    /\ answer \in [Threads -> {"none", "reloaded", "already_loaded", "edited", "missing",
                               "400", "404", "error", "keep", "discard", "needs_review"}]
    /\ restarts \in 0..MaxRestarts
    /\ since \in [Reloaders -> [Files -> Nat]]
    /\ after \in [Threads -> SUBSET Threads]

-----------------------------------------------------------------------------
(* What the loaders accept.                                                *)

\* model_validate of the parsed file as it is.
Strict(state) == state.kind = "full"

\* load_domain_from_directory fills in defaults first.
Lenient(state) == state.kind \in {"full", "partial", "empty"}

\* A domain without domain.yaml is synthesized; an agent file that is gone,
\* cannot be parsed or is no mapping is skipped; a field that does not
\* validate raises, and so does a domain.yaml that is no mapping.
Accepts(c, state) == Lenient(state) \/ (c = 0 /\ state.kind = "absent")
Skips(c, state) == c # 0 /\ state.kind \in {"absent", "scalar", "broken"}

Present(root) == {c \in Contracts \ {0} : disk[<<root, c>>].kind # "absent"}

Loaded(root, c) == <<root, disk[<<root, c>>].version>>

\* from_directory(_BUILTIN_DOMAINS): one invalid contract fails all of it.
StartupFails ==
    /\ disk[<<Builtin, 0>>].kind # "absent"
    /\ \E c \in {0} \cup Present(Builtin) : ~Strict(disk[<<Builtin, c>>])

FromBuiltin ==
    [c \in Contracts |->
        IF disk[<<Builtin, 0>>].kind # "absent" /\ disk[<<Builtin, c>>].kind # "absent"
        THEN Loaded(Builtin, c) ELSE Unloaded]

\* _build_registry overlays CONTRACTS_DIR and drops the error, not what was
\* loaded before it.
Overlaid(c) ==
    /\ ContractsDir \in dirs /\ ContractsDir # Builtin
    /\ Accepts(c, disk[<<ContractsDir, c>>])
    /\ \A b \in 0..c : \/ Accepts(b, disk[<<ContractsDir, b>>])
                       \/ Skips(b, disk[<<ContractsDir, b>>])

BuildRegistry ==
    [c \in Contracts |->
        IF Overlaid(c) THEN Loaded(ContractsDir, c) ELSE FromBuiltin[c]]

-----------------------------------------------------------------------------
(* Threads.                                                                *)

NoState == [kind |-> "absent", version |-> 0, edits |-> {}]

\* The locals of a reload that has read a file, and of an edit of one.
Loading(root, at, read, listed, loaded) ==
    [root |-> root, at |-> at, read |-> read, listed |-> listed, loaded |-> loaded,
     op |-> "none", old |-> {}]

\* old names the calls whose text the old text of an update covers.
Editing(f, op, read, old) ==
    [root |-> f[1], at |-> f[2], read |-> read, listed |-> {}, loaded |-> {}, op |-> op,
     old |-> old]

NoJob == Loading(Builtin, 0, NoState, {}, {})

\* The built-in contracts are valid, or the domain is not on disk.
RegistryInit ==
    /\ dirs \in {{Builtin}, {}}
    /\ disk = [f \in Files |->
                  IF f[1] \in dirs THEN [NoState EXCEPT !.kind = "full"] ELSE NoState]
    /\ registered = BuildRegistry
    /\ up = TRUE
    /\ pc = [p \in Threads |-> "idle"]
    /\ job = [p \in Reloaders \cup Editors |-> NoJob]
    /\ answer = [p \in Threads |-> "none"]
    /\ restarts = 0
    /\ since = [p \in Reloaders |-> [f \in Files |-> 0]]
    /\ after = [p \in Threads |-> {}]

Over == {p \in Threads : pc[p] = "over"}

Began(p) ==
    /\ up /\ pc[p] = "idle"
    /\ after' = [after EXCEPT ![p] = Over]

Answer(p, what) ==
    /\ pc' = [pc EXCEPT ![p] = "over"]
    /\ answer' = [answer EXCEPT ![p] = what]

Goto(p, at) ==
    /\ pc' = [pc EXCEPT ![p] = at]
    /\ UNCHANGED answer

-----------------------------------------------------------------------------
(* The reload route.                                                       *)

\* The first candidate that is a directory.
DomainDir == IF ContractsDir \in dirs THEN ContractsDir ELSE Builtin

Reload(p) ==
    /\ Began(p)
    /\ IF DomainDir \in dirs
       THEN /\ Goto(p, "load")
            /\ job' = [job EXCEPT ![p] =
                   Loading(DomainDir, 0, disk[<<DomainDir, 0>>], {}, {})]
       ELSE /\ Answer(p, IF registered[0] = Unloaded THEN "404" ELSE "already_loaded")
            /\ UNCHANGED job
    /\ since' = [since EXCEPT ![p] = [f \in Files |-> disk[f].version]]
    /\ UNCHANGED <<fileVars, registered, up, restarts>>

\* A registry that keeps what it has, in the manner of setdefault.
InstallOnce(p) ==
    IF registered[job[p].at][2] < 0
    THEN [registered EXCEPT ![job[p].at] = <<job[p].root, job[p].read.version>>]
    ELSE registered

\* A built-in contract that an overlay does not replace.
InstallBuiltinFirst(p) ==
    IF Accepts(job[p].at, job[p].read) /\ job[p].root = Builtin
    THEN [registered EXCEPT ![job[p].at] = <<job[p].root, job[p].read.version>>]
    ELSE registered

\* A contract filed under its kind and not under the directory it came from.
InstallByKind(p) ==
    [registered EXCEPT ![job[p].at] = <<job[p].read.kind, job[p].read.version>>]

Install(p) ==
    LET j == job[p] IN
    IF Accepts(j.at, j.read)
    THEN [registered EXCEPT ![j.at] = <<j.root, j.read.version>>]
    ELSE registered

\* Load the contract that was read and read the next file of the listing,
\* which is made once domain.yaml is loaded.
LoadContract(p) ==
    LET j == job[p]
        listed == IF j.at = 0 THEN Present(j.root) ELSE j.listed
        left == {c \in listed : c > j.at}
        loaded == IF Accepts(j.at, j.read) THEN j.loaded \cup {j.at} ELSE j.loaded
    IN /\ pc[p] = "load"
       /\ Accepts(j.at, j.read) \/ Skips(j.at, j.read)
       /\ registered' = Install(p)
       /\ \/ /\ left = {} /\ Answer(p, "reloaded")
             /\ job' = [job EXCEPT ![p] = Loading(j.root, 0, NoState, {}, loaded)]
          \/ \E next \in left :
             /\ \A c \in left : next <= c
             /\ Goto(p, "load")
             /\ job' = [job EXCEPT ![p] =
                  Loading(j.root, next, disk[<<j.root, next>>], listed, loaded)]
       /\ UNCHANGED <<fileVars, up, restarts, historyVars>>

\* A failed reload that takes out of the registry what it had loaded.
LoadFailsUnregistering(p) ==
    /\ pc[p] = "load"
    /\ ~Accepts(job[p].at, job[p].read) /\ ~Skips(job[p].at, job[p].read)
    /\ Answer(p, "400")
    /\ registered' = [c \in Contracts |-> IF c \in job[p].loaded THEN Unloaded
                                          ELSE registered[c]]
    /\ UNCHANGED <<fileVars, up, job, restarts, historyVars>>

\* The contract that was read does not validate; those before it stay.
LoadFails(p) ==
    /\ pc[p] = "load"
    /\ ~Accepts(job[p].at, job[p].read) /\ ~Skips(job[p].at, job[p].read)
    /\ Answer(p, "400")
    /\ UNCHANGED <<fileVars, registered, up, job, restarts, historyVars>>

-----------------------------------------------------------------------------
(* The file tools: check, truncate, write; check, unlink.                  *)

Target(e) == <<job[e].root, job[e].at>>

Change(f, kind, edits) ==
    disk' = [disk EXCEPT ![f] = [kind |-> kind, version |-> disk[f].version + 1,
                                 edits |-> edits]]

Begin(e, f, op, read, old) ==
    /\ Began(e)
    /\ job' = [job EXCEPT ![e] = Editing(f, op, read, old)]
    /\ UNCHANGED <<fileVars, registered, up, restarts, since>>

\* write_file, and update_file with the whole content (or with an empty old text
\* for an empty file): the file must not exist unless it may be overwritten, or
\* it must exist.
WriteFile(e, f) ==
    /\ Begin(e, f, "write", NoState, {})
    /\ Goto(e, "open") \/ Answer(e, "error")

\* update_file with old and new: the file must exist and hold the old text,
\* which is taken from what the calls before wrote, or from none of it.
UpdateFile(e, f) ==
    \/ /\ disk[f].kind \notin {"absent", "empty"}
       /\ \E old \in SUBSET disk[f].edits : Begin(e, f, "update", disk[f], old)
       /\ Goto(e, "open")
    \/ Begin(e, f, "update", disk[f], {}) /\ Answer(e, "error")

\* delete_file; missing_ok decides the answer when the file does not exist.
DeleteFile(e, f) ==
    /\ Begin(e, f, "delete", NoState, {})
    /\ IF disk[f].kind = "absent"
       THEN \E what \in {"error", "missing"} : Answer(e, what)
       ELSE Goto(e, "unlink")

Open(e) ==
    /\ pc[e] = "open"
    /\ Change(Target(e), "empty", {})
    /\ dirs' = dirs \cup {job[e].root}
    /\ Goto(e, "close")
    /\ UNCHANGED <<registered, up, job, restarts, historyVars>>

\* An update that writes its new text without the text around it.
CloseReplacing(e) ==
    /\ pc[e] = "close"
    /\ IF job[e].op = "none"
       THEN UNCHANGED disk
       ELSE \E kind \in Written : Change(Target(e), kind, {e})
    /\ Answer(e, "edited")
    /\ UNCHANGED <<dirs, registered, up, job, restarts, historyVars>>

\* The text that was read, with the new text for the old.  What was written since
\* the file was truncated may be overwritten in part.
Close(e) ==
    LET kept == IF job[e].op = "update" THEN job[e].read.edits \ job[e].old ELSE {}
        edits == {e} \cup kept
    IN
    /\ pc[e] = "close"
    /\ \/ job[e].op # "none" /\ \E kind \in Written : Change(Target(e), kind, edits)
       \/ /\ job[e].op # "none" /\ disk[Target(e)].kind # "empty"
          /\ Change(Target(e), "broken", edits)
       \/ job[e].op = "none" /\ UNCHANGED disk
    /\ Answer(e, "edited")
    /\ UNCHANGED <<dirs, registered, up, job, restarts, historyVars>>

\* A call that holds the unlinked file open writes to no file.
Unlink(e) ==
    LET f == Target(e)
        orphaned == {w \in Editors : pc[w] = "close" /\ Target(w) = f}
    IN /\ pc[e] = "unlink"
       /\ IF disk[f].kind = "absent"
          THEN Answer(e, "error") /\ UNCHANGED <<disk, job>>
          ELSE /\ Answer(e, "edited")
               /\ Change(f, "absent", {})
               /\ job' = [q \in DOMAIN job |->
                            IF q \in orphaned THEN [job[q] EXCEPT !.op = "none"]
                            ELSE job[q]]
       /\ UNCHANGED <<dirs, registered, up, restarts, historyVars>>

\* The process ends, its threads with it, and starts again.
Restart ==
    /\ restarts < MaxRestarts
    /\ restarts' = restarts + 1
    /\ up' = ~StartupFails
    /\ registered' = IF StartupFails THEN [c \in Contracts |-> Unloaded]
                     ELSE BuildRegistry
    /\ pc' = [p \in Threads |-> IF pc[p] = "idle" THEN "idle" ELSE "over"]
    /\ answer' = [p \in Threads |-> IF p \in Reloaders THEN "none" ELSE answer[p]]
    /\ UNCHANGED <<fileVars, job, historyVars>>

RegistryNext ==
    \/ \E p \in Reloaders : Reload(p) \/ LoadContract(p) \/ LoadFails(p)
    \/ \E e \in Editors : Open(e) \/ Close(e) \/ Unlink(e)
    \/ \E e \in Editors, f \in Editable :
          WriteFile(e, f) \/ UpdateFile(e, f) \/ DeleteFile(e, f)

RegistrySpec == RegistryInit /\ [][RegistryNext \/ Restart]_registryVars

-----------------------------------------------------------------------------
(* What the reload route and the file tools promise.                       *)

Started(p) == pc[p] # "idle"

\* Every other reload and edit was over before p began, and none began since.
Alone(p) ==
    \A q \in (Reloaders \cup Editors) \ {p} : Started(q) => q \in after[p]

\* A reload that ran alone, with no edit during it or since, leaves every
\* contract of its directory that loads registered as it is on disk: no file
\* of the listing is left out, none comes from the other root.
QuietReloadMirrorsDisk ==
    \A p \in Reloaders :
        answer[p] = "reloaded" /\ Alone(p) =>
            \A c \in Contracts :
                Accepts(c, disk[<<DomainDir, c>>]) =>
                    registered[c] = Loaded(DomainDir, c)

\* A reload that failed while it ran alone was stopped by a contract on disk that
\* does not load, and serves, until the next reload, the contracts before it as
\* they are on disk beside those it did not get to (registry.py:102): the answer
\* 400 does not mean that nothing was replaced.
FailedReloadStopsHalfway ==
    \A p \in Reloaders :
        answer[p] = "400" /\ Alone(p) =>
            LET bad == job[p].at IN
            /\ ~Accepts(bad, disk[<<DomainDir, bad>>])
            /\ \A c \in Contracts :
                  c < bad /\ Accepts(c, disk[<<DomainDir, c>>])
                  => registered[c] = Loaded(DomainDir, c)

\* Once a reload has answered, a contract it loaded is never registered from
\* a file older than the one that was on disk when some reload began that was
\* not over before this one: a slow reload may set the registry back, but not
\* past its own beginning.
NeverOlder ==
    \A p \in Reloaders : answer[p] = "reloaded" =>
        \A c \in job[p].loaded : \E q \in Reloaders :
            /\ Started(q) /\ q \notin after[p]
            /\ registered[c][1] = job[q].root
            /\ registered[c][2] >= since[q][<<job[q].root, c>>]

\* The edits that may undo edit u of the same file: a call that replaces or
\* deletes what is there, an update that ran while u did, an update told to
\* replace u's text, a call that has not finished.
MayUndo(w, u) ==
    /\ w # u /\ Started(w) /\ Target(w) = Target(u) /\ w \notin after[u]
    /\ \/ job[w].op # "update" \/ u \notin after[w]
       \/ u \in job[w].old \/ answer[w] = "none"

\* The text an update_file wrote stays in the file through every later update
\* that was not asked to replace it (file_tools.py:78): among updates, an edit is
\* lost by accident only between calls that overlap.
SequentialEditsKept ==
    \A u \in Editors :
        answer[u] = "edited" /\ job[u].op = "update" /\ u \notin disk[Target(u)].edits
        => \E w \in Editors : MayUndo(w, u)

=============================================================================
