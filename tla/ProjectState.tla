---------------------------- MODULE ProjectState -----------------------------
(***************************************************************************)
(* The disk-backed project state machine, agenticx/project_state: the six  *)
(* tools of tools.py over the files of ProjectStore (store.py), with the   *)
(* feature transitions of feature_list.py and schema.py.                   *)
(*                                                                         *)
(* A tool runs in a worker thread (asyncio.to_thread), and several         *)
(* sessions and processes may open one project.  The file lock serialises  *)
(* what a tool does between taking and releasing it; inside, each file is  *)
(* replaced atomically, one after the other, and the process may die       *)
(* between two of them (the lock dies with it).  project_init tests        *)
(* is_initialized, and verify_run runs its steps, before the lock.         *)
(*                                                                         *)
(* A call that returns an error without writing leaves no trace and is not *)
(* a step.  progress.md, the log files and the verify counters are left    *)
(* out: nothing reads them back.                                           *)
(***************************************************************************)
EXTENDS Naturals, FiniteSets

CONSTANTS
    Features,   \* feature ids; their archive names are distinct
    Sessions,   \* tool callers
    DependsOn,  \* Feature.depends_on
    Rank,       \* position in the order (priority, created_at, id)
    NoFeature,  \* active_feature_id = None, or no feature_id argument
    Overwrite,  \* values of the overwrite argument that callers pass
    Given,      \* statuses that callers write in the features they pass
    MaxInits,   \* bound: project_init calls
    MaxCrashes  \* bound: process deaths

ASSUME FeaturesAssumption ==
    /\ NoFeature \notin Features
    /\ DependsOn \in [Features -> SUBSET Features]
    /\ Rank \in [Features -> Nat]
    /\ \A f, g \in Features : Rank[f] = Rank[g] => f = g

ASSUME SessionsAssumption == "nobody" \notin Sessions

ASSUME BoundsAssumption ==
    Overwrite \subseteq BOOLEAN /\ MaxInits \in Nat /\ MaxCrashes \in Nat

ASSUME GivenAssumption ==
    Given \subseteq {"pending", "in_progress", "verified", "committed"}

VARIABLES
    list,       \* feature_list.json: status per id, "absent" when not listed
    status,     \* status.json: phase ("missing" without the file) and active
    gate,       \* verify.yaml exists
    archive,    \* features with archive/feature_<id>.json
    lock,       \* holder of .lock, or "nobody"
    at,         \* what each session's tool call is about to do
    feats,      \* the list a project_init call parsed from its argument
    target,     \* feature_id argument of a verify_run call
    nextList,   \* the feature list the lock holder will save
    nextStatus, \* the status the lock holder will save
    inits, crashes

files == <<list, status, gate, archive>>
call == <<at, feats, target, nextList, nextStatus>>
vars == <<files, lock, call, inits, crashes>>

Statuses == {"pending", "in_progress", "verified", "committed"}
Phases == {"initialize", "implement", "verify", "commit"}
Places == {"idle", "initChecked", "verifying",
           "archive", "list", "initList", "status", "initStatus", "gate"}

Lists == [Features -> Statuses \cup {"absent"}]
StatusFiles == [phase : Phases \cup {"missing"}, active : Features \cup {NoFeature}]

NoList == [f \in Features |-> "absent"]
default_status == [phase |-> "initialize", active |-> NoFeature]

TypeOK ==
    /\ list \in Lists
    /\ status \in StatusFiles
    /\ gate \in BOOLEAN
    /\ archive \subseteq Features
    /\ lock \in Sessions \cup {"nobody"}
    /\ at \in [Sessions -> Places]
    /\ feats \in [Sessions -> Lists]
    /\ target \in [Sessions -> Features \cup {NoFeature}]
    /\ nextList \in [Sessions -> Lists]
    /\ nextStatus \in [Sessions -> StatusFiles]
    /\ inits \in 0..MaxInits
    /\ crashes \in 0..MaxCrashes

Init ==
    /\ list = NoList
    /\ status = [phase |-> "missing", active |-> NoFeature]
    /\ gate = FALSE
    /\ archive = {}
    /\ lock = "nobody"
    /\ at = [s \in Sessions |-> "idle"]
    /\ feats = [s \in Sessions |-> NoList]
    /\ target = [s \in Sessions |-> NoFeature]
    /\ nextList = [s \in Sessions |-> NoList]
    /\ nextStatus = [s \in Sessions |-> default_status]
    /\ inits = 0 /\ crashes = 0

-----------------------------------------------------------------------------
(* Reading the files.                                                       *)

\* Both files exist: a saved list is never empty.
is_initialized == status.phase # "missing" /\ list # NoList

load_status == IF status.phase = "missing" THEN default_status ELSE status

in_progress == {f \in Features : list[f] = "in_progress"}

\* Every dependency of f is committed in the list on disk.
deps_committed(f) == \A d \in DependsOn[f] : list[d] = "committed"

\* f is what select_next_pending returns: the first candidate in rank order.
Ready == {f \in Features : list[f] = "pending" /\ deps_committed(f)}
select_next_pending(f) == f \in Ready /\ \A g \in Ready : Rank[f] <= Rank[g]

\* transition_feature in the copy of the list that will be saved.
transition_feature(f, new) == [list EXCEPT ![f] = new]

-----------------------------------------------------------------------------
(* The lock and the writes made under it.                                   *)

\* Seeded fault: the lock is not exclusive.
AcquireShared(s, place, newList, newStatus) ==
    /\ lock' = s
    /\ at' = [at EXCEPT ![s] = place]
    /\ nextList' = [nextList EXCEPT ![s] = newList]
    /\ nextStatus' = [nextStatus EXCEPT ![s] = newStatus]

\* Session s takes the lock, reads the files, and plans what it will save.
Acquire(s, place, newList, newStatus) ==
    /\ lock = "nobody"
    /\ lock' = s
    /\ at' = [at EXCEPT ![s] = place]
    /\ nextList' = [nextList EXCEPT ![s] = newList]
    /\ nextStatus' = [nextStatus EXCEPT ![s] = newStatus]

\* The call of s is over; its locals are gone.
Return(s) ==
    /\ at' = [at EXCEPT ![s] = "idle"]
    /\ feats' = [feats EXCEPT ![s] = NoList]
    /\ target' = [target EXCEPT ![s] = NoFeature]
    /\ nextList' = [nextList EXCEPT ![s] = NoList]
    /\ nextStatus' = [nextStatus EXCEPT ![s] = default_status]

\* Seeded fault: the snapshot's name leaves out the id of the feature.
WriteArchiveOneName(s) ==
    /\ at[s] = "archive"
    /\ archive' = Features
    /\ at' = [at EXCEPT ![s] = "list"]
    /\ UNCHANGED <<list, status, gate, lock, feats, target, nextList,
                   nextStatus, inits, crashes>>

\* write_archive of the feature being committed.
WriteArchive(s) ==
    /\ at[s] = "archive"
    /\ archive' = archive \cup {target[s]}
    /\ at' = [at EXCEPT ![s] = "list"]
    /\ UNCHANGED <<list, status, gate, lock, feats, target, nextList,
                   nextStatus, inits, crashes>>

\* save_feature_list.
WriteList(s) ==
    /\ at[s] \in {"list", "initList"}
    /\ list' = nextList[s]
    /\ at' = [at EXCEPT ![s] = IF @ = "list" THEN "status" ELSE "initStatus"]
    /\ UNCHANGED <<status, gate, archive, lock, feats, target, nextList,
                   nextStatus, inits, crashes>>

\* save_status ends every tool but project_init.
WriteStatus(s) ==
    /\ at[s] = "status"
    /\ status' = nextStatus[s]
    /\ lock' = "nobody"
    /\ Return(s)
    /\ UNCHANGED <<list, gate, archive, inits, crashes>>

WriteInitStatus(s) ==
    /\ at[s] = "initStatus"
    /\ status' = nextStatus[s]
    /\ at' = [at EXCEPT ![s] = "gate"]
    /\ UNCHANGED <<list, gate, archive, lock, feats, target, nextList,
                   nextStatus, inits, crashes>>

\* write_default_init_script and write_default_verify_yaml.
WriteTemplates(s) ==
    /\ at[s] = "gate"
    /\ gate' = TRUE
    /\ lock' = "nobody"
    /\ Return(s)
    /\ UNCHANGED <<list, status, archive, inits, crashes>>

-----------------------------------------------------------------------------
(* The tools.                                                               *)

\* The lists callers pass to project_init: never empty, and a status that is
\* not given is pending.
Arguments == [Features -> Given \cup {"pending", "absent"}] \ {NoList}

\* project_init up to the lock: the test of is_initialized.
project_init(s, l, overwrite) ==
    /\ at[s] = "idle"
    /\ inits < MaxInits
    /\ is_initialized => overwrite
    /\ at' = [at EXCEPT ![s] = "initChecked"]
    /\ feats' = [feats EXCEPT ![s] = l]
    /\ inits' = inits + 1
    /\ UNCHANGED <<files, lock, target, nextList, nextStatus, crashes>>

\* project_init under the lock: a fresh list; a status file that exists is kept.
project_init_locked(s) ==
    /\ at[s] = "initChecked"
    /\ Acquire(s, "initList", feats[s], load_status)
    /\ UNCHANGED <<files, feats, target, inits, crashes>>

\* feature_select accepts f: no other feature is in progress, its dependencies
\* are committed, and it is pending or already selected.
Selectable(f) ==
    /\ in_progress \subseteq {f}
    /\ list[f] \in {"pending", "in_progress"}
    /\ deps_committed(f)

Selected(f) == [phase |-> "implement", active |-> f]

feature_select(s, f) ==
    /\ at[s] = "idle"
    /\ Selectable(f)
    /\ Acquire(s, "list", transition_feature(f, "in_progress"), Selected(f))
    /\ UNCHANGED <<files, feats, target, inits, crashes>>

\* feature_select without a feature_id.
feature_select_auto(s) ==
    \E f \in Features :
        in_progress = {} /\ select_next_pending(f) /\ feature_select(s, f)

\* Seeded fault: the archive snapshot is forgotten.
CompleteUnarchived(s, f) ==
    /\ at[s] = "idle"
    /\ list[f] = "verified"
    /\ f \notin archive
    /\ Acquire(s, "list", transition_feature(f, "committed"),
               [phase |-> "commit", active |-> NoFeature])
    /\ target' = [target EXCEPT ![s] = f]
    /\ UNCHANGED <<files, feats, inits, crashes>>

\* feature_complete: write_archive refuses a feature that has a snapshot.
feature_complete(s, f) ==
    /\ at[s] = "idle"
    /\ list[f] = "verified"
    /\ f \notin archive
    /\ Acquire(s, "archive", transition_feature(f, "committed"),
               [phase |-> "commit", active |-> NoFeature])
    /\ target' = [target EXCEPT ![s] = f]
    /\ UNCHANGED <<files, feats, inits, crashes>>

\* verify_run starts its steps, all of them or only_step, without the lock; an
\* only_step that names no step passes.
verify_run(s, f) ==
    /\ at[s] = "idle"
    /\ gate
    /\ at' = [at EXCEPT ![s] = "verifying"]
    /\ target' = [target EXCEPT ![s] = f]
    /\ UNCHANGED <<files, lock, feats, nextList, nextStatus, inits,
                   crashes>>

\* A passing run advances the feature if it is in progress now.
Advances(s) == target[s] \in Features /\ list[target[s]] = "in_progress"

verify_passed(s) ==
    /\ at[s] = "verifying"
    /\ LET st == [load_status EXCEPT !.phase = "verify"]
       IN  \/ /\ Advances(s)
              /\ Acquire(s, "list", transition_feature(target[s], "verified"), st)
           \/ /\ ~Advances(s)
              /\ Acquire(s, "status", NoList, st)
    /\ UNCHANGED <<files, feats, target, inits, crashes>>

\* A failing run only counts.
verify_failed(s) ==
    /\ at[s] = "verifying"
    /\ Acquire(s, "status", NoList, load_status)
    /\ UNCHANGED <<files, feats, target, inits, crashes>>

\* _file_lock gives up after its timeout, or run_verify or the tool raises.
GiveUp(s) ==
    /\ at[s] \in {"initChecked", "verifying"}
    /\ Return(s)
    /\ UNCHANGED <<files, lock, inits, crashes>>

\* The process of s dies and the operating system releases its lock, or a write
\* raises and the tool leaves the lock on its way out.
Crash(s) ==
    /\ at[s] # "idle"
    /\ crashes < MaxCrashes
    /\ crashes' = crashes + 1
    /\ lock' = IF lock = s THEN "nobody" ELSE lock
    /\ Return(s)
    /\ UNCHANGED <<files, inits>>

-----------------------------------------------------------------------------
Writes(s) == \/ WriteArchive(s) \/ WriteList(s) \/ WriteStatus(s)
             \/ WriteInitStatus(s) \/ WriteTemplates(s)

Tools(s) ==
    \/ \E l \in Arguments, overwrite \in Overwrite : project_init(s, l, overwrite)
    \/ project_init_locked(s)
    \/ \E f \in Features : feature_select(s, f) \/ feature_complete(s, f)
    \/ feature_select_auto(s)
    \/ \E f \in Features \cup {NoFeature} : verify_run(s, f)
    \/ verify_passed(s) \/ verify_failed(s)

Next == \E s \in Sessions : Tools(s) \/ Writes(s) \/ GiveUp(s) \/ Crash(s)

Spec == Init /\ [][Next]_vars

\* A tool that holds the lock goes on writing; the steps of a verify run and the
\* wait for the lock have timeouts; and the agents of the feature loop keep
\* trying to complete what is verified.
Fairness ==
    \A s \in Sessions :
        /\ WF_vars(Writes(s))
        /\ WF_vars(project_init_locked(s) \/ verify_passed(s)
                     \/ verify_failed(s) \/ GiveUp(s))
        /\ SF_vars(\E f \in Features : feature_complete(s, f))

FairSpec == Spec /\ Fairness

=============================================================================
