------------------------- MODULE ProjectStateProofs --------------------------
(***************************************************************************)
(* Proofs of the safety properties of ProjectState and of its refinement   *)
(* of FeatureBoard, for every set of features, every dependency graph and  *)
(* every number of sessions, rewrites and crashes.                         *)
(*                                                                         *)
(* The invariants are not inductive: between taking the lock and saving,   *)
(* a session carries a list computed from an earlier read.  IInv adds that *)
(* only the holder of the lock is at a write (Exclusive), and that what it *)
(* carries is still one legal move away from the list on disk (Planned).   *)
(***************************************************************************)
EXTENDS ProjectStateProps, TLAPS

Writing == {"archive", "list", "initList", "status", "initStatus", "gate"}

\* Only the holder of the lock is about to write.
Exclusive == \A s \in Sessions : at[s] \in Writing => lock = s

\* One move of the board, with the evidence a commit needs.
LegalStart(l) ==
    \E f \in Features :
        /\ list[f] = "pending"
        /\ in_progress = {}
        /\ deps_committed(f)
        /\ l = transition_feature(f, "in_progress")
LegalVerify(l) ==
    \E f \in Features :
        list[f] = "in_progress" /\ l = transition_feature(f, "verified")
LegalCommit(l) ==
    \E f \in Features :
        /\ list[f] = "verified"
        /\ f \in archive
        /\ l = transition_feature(f, "committed")
LegalNext(l) == l = list \/ LegalStart(l) \/ LegalVerify(l) \/ LegalCommit(l)

\* A list nobody has worked on, and the callers of project_init that pass
\* nothing else: its tool schema has no status.
Fresh(l) == l \in [Features -> {"pending", "absent"}]
OnlyPending == Given \subseteq {"pending"}
Parsed == \A s \in Sessions : Fresh(feats[s])

ToArchive(s) ==
    /\ target[s] \in Features
    /\ list[target[s]] = "verified"
    /\ nextList[s] = transition_feature(target[s], "committed")

\* What a session will save is still a legal move when it saves it.
Planned ==
    \A s \in Sessions :
        /\ at[s] = "archive" => ToArchive(s)
        /\ at[s] = "list" => LegalNext(nextList[s])
        /\ at[s] = "initList" => Fresh(nextList[s])

IInv ==
    /\ TypeOK
    /\ Exclusive
    /\ Parsed
    /\ Planned
    /\ OneInProgress
    /\ DepsCommitted
    /\ CommittedHasArchive

-----------------------------------------------------------------------------
(* Lists and moves.                                                         *)

\* The list on disk and what may be saved over it are lists of features.
LEMMA ListTypes ==
    ASSUME TypeOK
    PROVE  /\ list \in Lists /\ NoList \in Lists /\ default_status \in StatusFiles
           /\ load_status \in StatusFiles
           /\ \A f \in Features, new \in Statuses : transition_feature(f, new) \in Lists
           /\ \A l : LegalNext(l) \/ Fresh(l) => l \in Lists
BY FeaturesAssumption
   DEF TypeOK, Lists, NoList, Statuses, StatusFiles, Phases, default_status,
       load_status, transition_feature, LegalNext, LegalStart, LegalVerify,
       LegalCommit, Fresh

\* A feature is its own dependency only if it can never be started, and nothing
\* that has started depends on a feature that is not committed.
LEMMA NotOwnDependency ==
    ASSUME TypeOK, DepsCommitted, NEW f \in Features, list[f] # "committed"
    PROVE  /\ deps_committed(f) => f \notin DependsOn[f]
           /\ \A g \in Features :
                 list[g] \in {"in_progress", "verified", "committed"}
                     => f \notin DependsOn[g]
BY DEF TypeOK, DepsCommitted, deps_committed

\* Starting a feature keeps the three invariants of the list.
LEMMA StartKeeps ==
    ASSUME TypeOK, OneInProgress, DepsCommitted, CommittedHasArchive,
           LegalStart(list'), archive' = archive
    PROVE  OneInProgress' /\ DepsCommitted' /\ CommittedHasArchive'
<1> PICK f \in Features : /\ list[f] = "pending"
                          /\ in_progress = {}
                          /\ deps_committed(f)
                          /\ list' = transition_feature(f, "in_progress")
  BY DEF LegalStart
<1>1. /\ list'[f] = "in_progress"
      /\ \A g \in Features \ {f} : list'[g] = list[g]
  BY DEF TypeOK, Lists, transition_feature
<1>2. \A g \in Features : f \notin DependsOn[g] \/ list[g] \in {"pending", "absent"}
  BY NotOwnDependency DEF TypeOK, Lists, Statuses
<1>3. OneInProgress'
  BY <1>1 DEF OneInProgress, in_progress
<1>4. DepsCommitted'
  <2> SUFFICES ASSUME NEW g \in Features, NEW d \in DependsOn[g],
                      list'[g] \in {"in_progress", "verified", "committed"}
               PROVE  list'[d] = "committed"
    BY DEF DepsCommitted, deps_committed
  <2>1. f \notin DependsOn[g]
    BY <1>1, <1>2, NotOwnDependency
  <2>2. list[d] = "committed"
    BY <1>1 DEF DepsCommitted, deps_committed
  <2> QED BY <1>1, <2>1, <2>2, FeaturesAssumption
<1>5. CommittedHasArchive'
  BY <1>1 DEF CommittedHasArchive
<1> QED BY <1>3, <1>4, <1>5

\* Moving one feature on to verified, or to committed with its snapshot, keeps
\* the three invariants of the list.
LEMMA AdvanceKeeps ==
    ASSUME TypeOK, OneInProgress, DepsCommitted, CommittedHasArchive,
           archive' = archive, NEW f \in Features, NEW new,
           list' = transition_feature(f, new),
           \/ list[f] = "in_progress" /\ new = "verified"
           \/ list[f] = "verified" /\ new = "committed" /\ f \in archive
    PROVE  OneInProgress' /\ DepsCommitted' /\ CommittedHasArchive'
<1>1. /\ list'[f] = new
      /\ \A g \in Features \ {f} : list'[g] = list[g]
  BY DEF TypeOK, Lists, transition_feature
<1>2. OneInProgress'
  BY <1>1 DEF OneInProgress
<1>3. DepsCommitted'
  <2> SUFFICES ASSUME NEW g \in Features, NEW d \in DependsOn[g],
                      list'[g] \in {"in_progress", "verified", "committed"}
               PROVE  list'[d] = "committed"
    BY DEF DepsCommitted, deps_committed
  <2>1. list[g] \in {"in_progress", "verified", "committed"}
    BY <1>1
  <2>2. list[d] = "committed" /\ d \in Features
    BY <2>1, FeaturesAssumption DEF DepsCommitted, deps_committed
  <2> QED BY <1>1, <2>2
<1>4. CommittedHasArchive'
  BY <1>1 DEF CommittedHasArchive
<1> QED BY <1>2, <1>3, <1>4

\* Saving a planned list keeps the three invariants of the list.
LEMMA SaveKeeps ==
    ASSUME TypeOK, OneInProgress, DepsCommitted, CommittedHasArchive,
           LegalNext(list') \/ Fresh(list'), archive' = archive
    PROVE  OneInProgress' /\ DepsCommitted' /\ CommittedHasArchive'
<1>1. CASE list' = list
  BY <1>1 DEF OneInProgress, DepsCommitted, deps_committed, CommittedHasArchive
<1>2. CASE LegalStart(list')
  BY <1>2, StartKeeps
<1>3. CASE LegalVerify(list')
  BY <1>3, AdvanceKeeps DEF LegalVerify
<1>4. CASE LegalCommit(list')
  BY <1>4, AdvanceKeeps DEF LegalCommit
<1>5. CASE Fresh(list')
  BY <1>5 DEF Fresh, OneInProgress, DepsCommitted, CommittedHasArchive
<1> QED BY <1>1, <1>2, <1>3, <1>4, <1>5 DEF LegalNext

\* A step that leaves the list alone and loses no snapshot keeps them too.
LEMMA QuietKeeps ==
    ASSUME OneInProgress, DepsCommitted, CommittedHasArchive,
           list' = list, archive \subseteq archive'
    PROVE  OneInProgress' /\ DepsCommitted' /\ CommittedHasArchive'
BY DEF OneInProgress, DepsCommitted, deps_committed, CommittedHasArchive

\* So do the plans of the sessions, as long as their own locals stay.
LEMMA PlansStay ==
    ASSUME TypeOK, Planned, list' = list, archive \subseteq archive',
           NEW s \in Sessions, at'[s] = at[s], target'[s] = target[s],
           nextList'[s] = nextList[s]
    PROVE  /\ at'[s] = "archive" => ToArchive(s)'
           /\ at'[s] = "list" => LegalNext(nextList[s])'
           /\ at'[s] = "initList" => Fresh(nextList[s])'
<1>1. at'[s] = "archive" => ToArchive(s)'
  BY DEF Planned, ToArchive, transition_feature
<1>2. at'[s] = "list" => LegalNext(nextList[s])'
  <2> SUFFICES ASSUME LegalNext(nextList[s])
               PROVE  LegalNext(nextList[s])'
    BY DEF Planned
  <2>1. CASE nextList[s] = list
    BY <2>1 DEF LegalNext
  <2>2. CASE LegalStart(nextList[s])
    BY <2>2 DEF LegalNext, LegalStart, transition_feature, in_progress,
                deps_committed
  <2>3. CASE LegalVerify(nextList[s])
    BY <2>3 DEF LegalNext, LegalVerify, transition_feature
  <2>4. CASE LegalCommit(nextList[s])
    BY <2>4 DEF LegalNext, LegalCommit, transition_feature
  <2> QED BY <2>1, <2>2, <2>3, <2>4 DEF LegalNext
<1>3. at'[s] = "initList" => Fresh(nextList[s])'
  BY DEF Planned, Fresh
<1> QED BY <1>1, <1>2, <1>3

-----------------------------------------------------------------------------
(* The steps.                                                               *)

\* Nothing is in progress before the first project_init.
LEMMA InitIInv == Init => IInv
<1> SUFFICES ASSUME Init PROVE IInv
  OBVIOUS
<1>1. TypeOK
  <2>1. /\ NoList \in Lists /\ list = NoList
        /\ default_status \in StatusFiles /\ status \in StatusFiles
    BY DEF Init, Lists, StatusFiles, NoList, default_status, Phases
  <2>2. /\ nextList \in [Sessions -> Lists]
        /\ nextStatus \in [Sessions -> StatusFiles]
        /\ feats \in [Sessions -> Lists]
    BY <2>1 DEF Init
  <2>3. inits \in 0..MaxInits /\ crashes \in 0..MaxCrashes
    BY BoundsAssumption DEF Init
  <2>4. /\ gate \in BOOLEAN
        /\ archive \subseteq Features
        /\ lock \in Sessions \cup {"nobody"}
        /\ at \in [Sessions -> Places]
        /\ target \in [Sessions -> Features \cup {NoFeature}]
    BY DEF Init, Places
  <2> QED BY <2>1, <2>2, <2>3, <2>4 DEF TypeOK
<1>2. Exclusive /\ Planned
  BY DEF Init, Exclusive, Planned, Writing
<1>4. Parsed
  BY DEF Init, Parsed, Fresh, NoList
<1>3. OneInProgress /\ DepsCommitted /\ CommittedHasArchive
  BY DEF Init, NoList, OneInProgress, DepsCommitted, CommittedHasArchive
<1> QED BY <1>1, <1>2, <1>3, <1>4 DEF IInv

\* Taking the lock with a legal plan: the files stay as they are.
LEMMA AcquireStep ==
    ASSUME IInv, NEW s \in Sessions, NEW place \in Writing, NEW l \in Lists,
           NEW st \in StatusFiles, Acquire(s, place, l, st), UNCHANGED files,
           target' \in [Sessions -> Features \cup {NoFeature}],
           \A r \in Sessions \ {s} : target'[r] = target[r],
           feats' = feats,
           UNCHANGED <<inits, crashes>>,
           place = "archive" => /\ target'[s] \in Features
                                /\ list[target'[s]] = "verified"
                                /\ l = transition_feature(target'[s], "committed"),
           place = "list" => LegalNext(l),
           place = "initList" => Fresh(l)
    PROVE  IInv'
<1> USE DEF IInv
<1>1. TypeOK'
  BY DEF TypeOK, Acquire, files, Places, Writing
<1>2. Exclusive'
  BY SessionsAssumption DEF Exclusive, Acquire, TypeOK, Writing
<1>3. Planned'
  <2> SUFFICES ASSUME NEW r \in Sessions
               PROVE  /\ at'[r] = "archive" => ToArchive(r)'
                      /\ at'[r] = "list" => LegalNext(nextList[r])'
                      /\ at'[r] = "initList" => Fresh(nextList[r])'
    BY DEF Planned
  <2>1. CASE r # s
    <3>1. at'[r] = at[r] /\ nextList'[r] = nextList[r] /\ target'[r] = target[r]
      BY <2>1 DEF Acquire, TypeOK
    <3> QED BY <3>1, PlansStay DEF files
  <2>2. CASE r = s
    <3>1. at'[s] = place /\ nextList'[s] = l
      BY DEF Acquire, TypeOK
    <3>2. place = "archive" => ToArchive(s)'
      BY <3>1 DEF ToArchive, transition_feature, files
    <3>3. LegalNext(l) => LegalNext(nextList[s])'
      <4>1. CASE l = list
        BY <4>1, <3>1 DEF LegalNext, files
      <4>2. CASE LegalStart(l)
        <5>1. in_progress' = in_progress
              /\ \A f \in Features : deps_committed(f)' = deps_committed(f)
          BY DEF in_progress, deps_committed, files
        <5> QED BY <4>2, <3>1, <5>1
                DEF LegalNext, LegalStart, transition_feature, files
      <4>3. CASE LegalVerify(l)
        BY <4>3, <3>1 DEF LegalNext, LegalVerify, transition_feature, files
      <4>4. CASE LegalCommit(l)
        BY <4>4, <3>1 DEF LegalNext, LegalCommit, transition_feature, files
      <4> QED BY <4>1, <4>2, <4>3, <4>4 DEF LegalNext
    <3>4. Fresh(l) => Fresh(nextList[s])'
      BY <3>1 DEF Fresh
    <3> QED BY <2>2, <3>1, <3>2, <3>3, <3>4
  <2> QED BY <2>1, <2>2
<1>4. OneInProgress' /\ DepsCommitted' /\ CommittedHasArchive'
  BY QuietKeeps DEF files
<1>5. Parsed'
  BY DEF Parsed, Fresh
<1> QED BY <1>1, <1>2, <1>3, <1>4, <1>5

\* The call of s returns: its plan is dropped, and the lock with it if it is
\* given up.  The list stays, and no snapshot is lost.
LEMMA ReturnStep ==
    ASSUME IInv, NEW s \in Sessions, Return(s), list' = list,
           archive' = archive, status' \in StatusFiles, gate' \in BOOLEAN,
           lock' = lock \/ (lock' = "nobody" /\ lock \in {s, "nobody"}),
           inits' = inits, crashes' \in 0..MaxCrashes
    PROVE  IInv'
<1> USE DEF IInv
<1>1. TypeOK'
  BY ListTypes DEF TypeOK, Return, Places
<1>2. Exclusive'
  BY SessionsAssumption DEF Exclusive, Return, TypeOK, Writing
<1>3. Planned'
  <2> SUFFICES ASSUME NEW r \in Sessions
               PROVE  /\ at'[r] = "archive" => ToArchive(r)'
                      /\ at'[r] = "list" => LegalNext(nextList[r])'
                      /\ at'[r] = "initList" => Fresh(nextList[r])'
    BY DEF Planned
  <2>1. CASE r # s
    <3>1. at'[r] = at[r] /\ nextList'[r] = nextList[r] /\ target'[r] = target[r]
      BY <2>1 DEF Return, TypeOK
    <3> QED BY <3>1, PlansStay
  <2>2. CASE r = s
    BY <2>2 DEF Return, TypeOK
  <2> QED BY <2>1, <2>2
<1>4. OneInProgress' /\ DepsCommitted' /\ CommittedHasArchive'
  BY QuietKeeps
<1>5. Parsed'
  BY DEF Parsed, Fresh, NoList, Return, TypeOK
<1> QED BY <1>1, <1>2, <1>3, <1>4, <1>5

\* A step of s that touches neither the list nor any plan, and leaves s away
\* from the places where a list is saved.
LEMMA LocalStep ==
    ASSUME IInv, NEW s \in Sessions, TypeOK', list' = list, archive' = archive,
           lock' = lock, nextList' = nextList, Parsed',
           \A r \in Sessions \ {s} : at'[r] = at[r] /\ target'[r] = target[r],
           at'[s] \notin {"archive", "list", "initList"},
           at'[s] \in Writing => lock = s
    PROVE  IInv'
<1> USE DEF IInv
<1>1. Exclusive'
  BY DEF Exclusive
<1>2. Planned'
  <2> SUFFICES ASSUME NEW r \in Sessions
               PROVE  /\ at'[r] = "archive" => ToArchive(r)'
                      /\ at'[r] = "list" => LegalNext(nextList[r])'
                      /\ at'[r] = "initList" => Fresh(nextList[r])'
    BY DEF Planned
  <2>1. CASE r # s
    BY <2>1, PlansStay
  <2>2. CASE r = s
    BY <2>2
  <2> QED BY <2>1, <2>2
<1>3. OneInProgress' /\ DepsCommitted' /\ CommittedHasArchive'
  BY QuietKeeps
<1> QED BY <1>1, <1>2, <1>3

\* The snapshot is written: the planned commit now has its evidence.
LEMMA WriteArchiveStep ==
    ASSUME IInv, NEW s \in Sessions, WriteArchive(s)
    PROVE  IInv'
<1> USE DEF IInv
<1>1. ToArchive(s)
  BY DEF Planned, WriteArchive
<1>2. TypeOK'
  BY <1>1 DEF TypeOK, WriteArchive, Places, ToArchive
<1>3. Exclusive'
  BY DEF Exclusive, WriteArchive, TypeOK, Writing
<1>4. Planned'
  <2> SUFFICES ASSUME NEW r \in Sessions
               PROVE  /\ at'[r] = "archive" => ToArchive(r)'
                      /\ at'[r] = "list" => LegalNext(nextList[r])'
                      /\ at'[r] = "initList" => Fresh(nextList[r])'
    BY DEF Planned
  <2>1. CASE r # s
    BY <2>1, PlansStay DEF WriteArchive, TypeOK
  <2>2. CASE r = s
    <3>1. LegalCommit(nextList[s])'
      BY <1>1 DEF ToArchive, LegalCommit, WriteArchive, transition_feature
    <3> QED BY <2>2, <3>1 DEF WriteArchive, TypeOK, LegalNext
  <2> QED BY <2>1, <2>2
<1>5. OneInProgress' /\ DepsCommitted' /\ CommittedHasArchive'
  BY QuietKeeps DEF WriteArchive
<1>6. Parsed'
  BY DEF Parsed, Fresh, WriteArchive
<1> QED BY <1>2, <1>3, <1>4, <1>5, <1>6

\* The list is saved.  Its writer holds the lock, so no other session has a
\* plan that this could make illegal.
LEMMA WriteListStep ==
    ASSUME IInv, NEW s \in Sessions, WriteList(s)
    PROVE  IInv'
<1> USE DEF IInv
<1>1. LegalNext(list') \/ Fresh(list')
  BY DEF Planned, WriteList
<1>2. lock = s /\ \A r \in Sessions \ {s} : at[r] \notin Writing
  BY DEF Exclusive, WriteList, Writing
<1>3. TypeOK'
  BY DEF WriteList, TypeOK, Places
<1>4. Exclusive'
  BY <1>2 DEF Exclusive, WriteList, TypeOK, Writing
<1>5. Planned'
  BY <1>2 DEF Planned, WriteList, TypeOK, Writing
<1>6. OneInProgress' /\ DepsCommitted' /\ CommittedHasArchive'
  BY <1>1, SaveKeeps DEF WriteList
<1>7. Parsed'
  BY DEF Parsed, Fresh, WriteList
<1> QED BY <1>3, <1>4, <1>5, <1>6, <1>7

\* Saving status.json and writing the templates.
LEMMA OtherWriteSteps ==
    ASSUME IInv, NEW s \in Sessions,
           WriteStatus(s) \/ WriteInitStatus(s) \/ WriteTemplates(s)
    PROVE  IInv'
<1>1. nextStatus[s] \in StatusFiles /\ (at[s] \in Writing => lock = s)
  BY DEF IInv, TypeOK, Exclusive
<1>2. CASE WriteStatus(s)
  BY <1>1, <1>2, ReturnStep DEF WriteStatus, Writing, IInv, TypeOK
<1>3. CASE WriteTemplates(s)
  BY <1>1, <1>3, ReturnStep DEF WriteTemplates, Writing, IInv, TypeOK
<1>4. CASE WriteInitStatus(s)
  <2>1. TypeOK'
    BY <1>1, <1>4 DEF IInv, TypeOK, WriteInitStatus, Places
  <2>2. /\ at'[s] = "gate"
        /\ \A r \in Sessions \ {s} : at'[r] = at[r]
    BY <1>4 DEF IInv, TypeOK, WriteInitStatus
  <2>3. Parsed'
    BY <1>4 DEF IInv, Parsed, Fresh, WriteInitStatus
  <2> QED BY <1>1, <1>4, <2>1, <2>2, <2>3, LocalStep DEF WriteInitStatus, Writing
<1> QED BY <1>2, <1>3, <1>4

\* What happens without the lock: the test of project_init, the start of a
\* verify run, giving up, and the death of the process.
LEMMA UnlockedSteps ==
    ASSUME OnlyPending, IInv, NEW s \in Sessions,
           \/ \E l \in Arguments, overwrite \in Overwrite :
                  project_init(s, l, overwrite)
           \/ \E f \in Features \cup {NoFeature} : verify_run(s, f)
           \/ GiveUp(s) \/ Crash(s)
    PROVE  IInv'
<1>1. ASSUME NEW l \in Arguments, NEW overwrite \in Overwrite,
             project_init(s, l, overwrite)
      PROVE  IInv'
  <2>1. Given \cup {"pending", "absent"} = {"pending", "absent"}
    BY DEF OnlyPending
  <2>2. Fresh(l)
    BY <2>1 DEF Arguments, Fresh
  <2>3. l \in Lists
    BY <2>2 DEF Fresh, Lists, Statuses
  <2>4. Parsed'
    BY <1>1, <2>2 DEF IInv, TypeOK, Parsed, Fresh, project_init
  <2>5. TypeOK'
    BY <1>1, <2>3, BoundsAssumption
       DEF IInv, TypeOK, project_init, files, Places
  <2>6. /\ at'[s] = "initChecked"
        /\ \A r \in Sessions \ {s} : at'[r] = at[r]
    BY <1>1 DEF IInv, TypeOK, project_init
  <2> QED BY <1>1, <2>4, <2>5, <2>6, LocalStep DEF project_init, files, Writing
<1>2. ASSUME NEW f \in Features \cup {NoFeature}, verify_run(s, f)
      PROVE  IInv'
  <2>1. TypeOK'
    BY <1>2 DEF IInv, TypeOK, verify_run, files, Places
  <2>2. /\ at'[s] = "verifying"
        /\ \A r \in Sessions \ {s} : at'[r] = at[r] /\ target'[r] = target[r]
    BY <1>2 DEF IInv, TypeOK, verify_run
  <2>3. Parsed'
    BY <1>2 DEF IInv, Parsed, Fresh, verify_run
  <2> QED BY <1>2, <2>1, <2>2, <2>3, LocalStep DEF verify_run, files, Writing
<1>3. CASE GiveUp(s)
  BY <1>3, ReturnStep DEF GiveUp, files, IInv, TypeOK
<1>4. CASE Crash(s)
  <2>1. crashes' \in 0..MaxCrashes
    BY <1>4, BoundsAssumption DEF Crash, IInv, TypeOK
  <2>2. lock' = lock \/ (lock' = "nobody" /\ lock \in {s, "nobody"})
    BY <1>4 DEF Crash
  <2> QED BY <1>4, <2>1, <2>2, ReturnStep DEF Crash, files, IInv, TypeOK
<1> QED BY <1>1, <1>2, <1>3, <1>4

\* The tools that take the lock: each carries away a legal plan.
LEMMA LockedSteps ==
    ASSUME IInv, NEW s \in Sessions,
           \/ project_init_locked(s)
           \/ \E f \in Features : feature_select(s, f) \/ feature_complete(s, f)
           \/ feature_select_auto(s)
           \/ verify_passed(s) \/ verify_failed(s)
    PROVE  IInv'
<1> USE ListTypes DEF IInv
<1>1. CASE project_init_locked(s)
  <2>1. Fresh(feats[s]) /\ feats[s] \in Lists
    BY DEF Parsed, TypeOK
  <2>2. Acquire(s, "initList", feats[s], load_status)
    BY <1>1 DEF project_init_locked
  <2> QED BY <1>1, <2>1, <2>2, AcquireStep
          DEF project_init_locked, Writing, TypeOK
<1>2. ASSUME NEW f \in Features, feature_select(s, f)
      PROVE  IInv'
  <2>1. LegalNext(transition_feature(f, "in_progress"))
    <3>1. CASE list[f] = "in_progress"
      BY <3>1 DEF LegalNext, transition_feature, TypeOK, Lists
    <3>2. CASE list[f] = "pending"
      <4>1. in_progress = {}
        BY <1>2, <3>2 DEF feature_select, Selectable, in_progress
      <4> QED BY <1>2, <3>2, <4>1
              DEF feature_select, Selectable, LegalNext, LegalStart
    <3> QED BY <1>2, <3>1, <3>2 DEF feature_select, Selectable
  <2>2. transition_feature(f, "in_progress") \in Lists /\ Selected(f) \in StatusFiles
    BY DEF Statuses, Selected, StatusFiles, Phases
  <2>3. Acquire(s, "list", transition_feature(f, "in_progress"), Selected(f))
    BY <1>2 DEF feature_select
  <2> QED BY <1>2, <2>1, <2>2, <2>3, AcquireStep
          DEF feature_select, Writing, TypeOK
<1>3. ASSUME NEW f \in Features, feature_complete(s, f)
      PROVE  IInv'
  <2> DEFINE l == transition_feature(f, "committed")
             st == [phase |-> "commit", active |-> NoFeature]
  <2>1. l \in Lists /\ st \in StatusFiles
    BY DEF Statuses, StatusFiles, Phases
  <2>2. Acquire(s, "archive", l, st) /\ list[f] = "verified"
    BY <1>3 DEF feature_complete
  <2>3. /\ target'[s] = f
        /\ target' \in [Sessions -> Features \cup {NoFeature}]
        /\ \A r \in Sessions \ {s} : target'[r] = target[r]
    BY <1>3 DEF feature_complete, TypeOK
  <2> HIDE DEF st
  <2> QED BY <1>3, <2>1, <2>2, <2>3, AcquireStep
          DEF feature_complete, Writing, TypeOK
<1>4. CASE feature_select_auto(s)
  BY <1>2, <1>4 DEF feature_select_auto
<1>5. CASE verify_passed(s)
  <2> DEFINE st == [load_status EXCEPT !.phase = "verify"]
             l == transition_feature(target[s], "verified")
  <2>1. st \in StatusFiles
    BY DEF StatusFiles, Phases
  <2> HIDE DEF st
  <2>2. CASE Advances(s)
    <3>1. LegalNext(l) /\ l \in Lists
      BY <2>2 DEF Advances, LegalNext, LegalVerify, Statuses
    <3>2. Acquire(s, "list", l, st)
      BY <1>5, <2>2 DEF verify_passed, st
    <3> QED BY <1>5, <2>1, <3>1, <3>2, AcquireStep
            DEF verify_passed, Writing, TypeOK
  <2>3. CASE ~Advances(s)
    <3>1. Acquire(s, "status", NoList, st)
      BY <1>5, <2>3 DEF verify_passed, st
    <3> QED BY <1>5, <2>1, <3>1, AcquireStep DEF verify_passed, Writing, TypeOK
  <2> QED BY <2>2, <2>3
<1>6. CASE verify_failed(s)
  BY <1>6, AcquireStep DEF verify_failed, Writing, TypeOK
<1> QED BY <1>1, <1>2, <1>3, <1>4, <1>5, <1>6

-----------------------------------------------------------------------------
(* The theorems.                                                            *)

\* IInv holds in every reachable state.
THEOREM Invariance ==
    ASSUME OnlyPending
    PROVE  Spec => []IInv
<1>1. IInv /\ [Next]_vars => IInv'
  <2> SUFFICES ASSUME IInv, [Next]_vars
               PROVE  IInv'
    OBVIOUS
  <2>1. ASSUME NEW s \in Sessions, Tools(s)
        PROVE  IInv'
    BY <2>1, UnlockedSteps, LockedSteps DEF Tools
  <2>2. ASSUME NEW s \in Sessions, Writes(s)
        PROVE  IInv'
    BY <2>2, WriteArchiveStep, WriteListStep, OtherWriteSteps DEF Writes
  <2>3. ASSUME NEW s \in Sessions, GiveUp(s) \/ Crash(s)
        PROVE  IInv'
    BY <2>3, UnlockedSteps
  <2>4. CASE UNCHANGED vars
    <3> USE <2>4 DEF vars, files, call
    <3>1. TypeOK' /\ Exclusive' /\ Parsed'
      BY DEF IInv, TypeOK, Exclusive, Parsed, Fresh
    <3>2. Planned'
      BY PlansStay DEF IInv, Planned
    <3>3. OneInProgress' /\ DepsCommitted' /\ CommittedHasArchive'
      BY QuietKeeps DEF IInv
    <3> QED BY <3>1, <3>2, <3>3 DEF IInv
  <2> QED BY <2>1, <2>2, <2>3, <2>4 DEF Next
<1> QED BY <1>1, InitIInv, PTL DEF Spec

\* Every variable keeps its type.
THEOREM TypeCorrect ==
    ASSUME OnlyPending
    PROVE  Spec => []TypeOK
BY Invariance, PTL DEF IInv

\* feature_select never leaves two features in progress on disk, whatever the
\* other sessions do and wherever a process dies.
THEOREM OneFeatureInProgress ==
    ASSUME OnlyPending
    PROVE  Spec => []OneInProgress
BY Invariance, PTL DEF IInv

\* What was started stands on committed dependencies, in every list on disk.
THEOREM DependenciesCommitted ==
    ASSUME OnlyPending
    PROVE  Spec => []DepsCommitted
BY Invariance, PTL DEF IInv

\* feature_complete writes the snapshot before the list, so no commit is ever
\* without it.
THEOREM CommitsAreArchived ==
    ASSUME OnlyPending
    PROVE  Spec => []CommittedHasArchive
BY Invariance, PTL DEF IInv

-----------------------------------------------------------------------------
(* The refinement.                                                          *)

\* A saved list is a move of the board.
LEMMA SaveIsMove ==
    ASSUME IInv, NEW s \in Sessions, WriteList(s)
    PROVE  list' = list \/ Board!Next
<1>1. LegalNext(list') \/ Fresh(list')
  BY DEF IInv, Planned, WriteList
<1>2. CASE LegalStart(list')
  <2> PICK f \in Features : /\ list[f] = "pending"
                            /\ in_progress = {}
                            /\ deps_committed(f)
                            /\ list' = transition_feature(f, "in_progress")
    BY <1>2 DEF LegalStart
  <2>1. Board!Start(f)
    BY DEF Board!Start, in_progress, deps_committed, transition_feature
  <2> QED BY <2>1 DEF Board!Next
<1>3. CASE LegalVerify(list')
  BY <1>3 DEF LegalVerify, transition_feature, Board!Next, Board!Verify
<1>4. CASE LegalCommit(list')
  BY <1>4 DEF LegalCommit, transition_feature, Board!Next, Board!Commit
<1>5. CASE Fresh(list')
  BY <1>5 DEF Fresh, Board!Next, Board!Rewrite
<1> QED BY <1>1, <1>2, <1>3, <1>4, <1>5 DEF LegalNext

\* Only WriteList changes the list.
LEMMA OnlySaves ==
    ASSUME NEW s \in Sessions, Tools(s) \/ Writes(s) \/ GiveUp(s) \/ Crash(s)
    PROVE  WriteList(s) \/ list' = list
<1>1. CASE Tools(s)
  BY <1>1 DEF Tools, project_init, project_init_locked, feature_select,
              feature_complete, feature_select_auto, verify_run, verify_passed,
              verify_failed, files
<1>2. CASE Writes(s)
  BY <1>2 DEF Writes, WriteArchive, WriteStatus, WriteInitStatus, WriteTemplates
<1>3. CASE GiveUp(s) \/ Crash(s)
  BY <1>3 DEF GiveUp, Crash, files
<1> QED BY <1>1, <1>2, <1>3

\* The tools, with their lock, their several files and their crashes, move the
\* list on disk like the atomic board.
THEOREM BoardRefinement ==
    ASSUME OnlyPending
    PROVE  Spec => ImplementsBoard
<1>1. Init => Board!Init
  BY DEF Init, NoList, Board!Init
<1>2. IInv /\ [Next]_vars => [Board!Next]_list
  <2> SUFFICES ASSUME IInv, [Next]_vars
               PROVE  list' = list \/ Board!Next
    OBVIOUS
  <2>1. ASSUME NEW s \in Sessions, Tools(s) \/ Writes(s) \/ GiveUp(s) \/ Crash(s)
        PROVE  list' = list \/ Board!Next
    BY <2>1, OnlySaves, SaveIsMove
  <2>2. CASE UNCHANGED vars
    BY <2>2 DEF vars, files
  <2> QED BY <2>1, <2>2 DEF Next
<1> QED
  BY <1>1, <1>2, Invariance, PTL DEF Spec, ImplementsBoard, Board!Spec

=============================================================================
