------------------------- MODULE TeamManagerProofs ---------------------------
(***************************************************************************)
(* Proofs of the safety properties of TeamManager, for every set of agents *)
(* and every value of the limits.                                          *)
(*                                                                         *)
(* RunningIsLive and RunBudget are not inductive: a new run is live only   *)
(* if no cancel was pending for a run that did not exist yet (Future), and *)
(* the budget needs to know where every run came from (Counted) and how    *)
(* far escalation has gone (Breaker).                                      *)
(***************************************************************************)
EXTENDS TeamManagerProps, TLAPS

\* Nothing is known of runs that have not been created.
Future ==
    \A a \in Agents :
        /\ tracked[a] <= launched[a]
        /\ \A i \in Runs : i > launched[a] =>
              stage[a][i] = "none" /\ i \notin toCancel[a]

\* Every run is the spawn, a request of the owner or an escalation.
Counted ==
    \A a \in Agents :
        IF status[a] = "none"
        THEN launched[a] = 0 /\ asked[a] = 0 /\ level[a] = 0
        ELSE launched[a] = 1 + asked[a] + level[a]

\* Every escalation follows a counted failure that did not trip the breaker.
Breaker ==
    \A a \in Agents : level[a] <= failures[a] /\ level[a] <= MaxEscalation

IInv == TypeOK /\ Future /\ Counted /\ Breaker /\ RunningIsLive

-----------------------------------------------------------------------------
(* The steps.                                                               *)

\* The initial state satisfies the invariant.
LEMMA InitInv == Init => IInv
<1> SUFFICES ASSUME Init PROVE IInv
  OBVIOUS
<1>1. /\ 0 \in Nat /\ "none" \in Statuses /\ "none" \in Stages
      /\ "none" \in Answers /\ "wanted" \in Wishes
  BY DEF Statuses, Stages, Answers, Wishes
<1>2. TypeOK
  <2>1. /\ status \in [Agents -> Statuses]
        /\ stage \in [Agents -> [Runs -> Stages]]
        /\ submit \in [Agents -> Answers]
        /\ owner \in [Agents -> Wishes]
    BY <1>1 DEF Init
  <2>2. /\ launched \in [Agents -> Nat]
        /\ failures \in [Agents -> Nat]
        /\ level \in [Agents -> Nat]
    BY <1>1 DEF Init
  <2>3. /\ tracked \in [Agents -> Runs \cup {0}]
        /\ awaited \in [Agents -> Runs \cup {0}]
        /\ toCancel \in [Agents -> SUBSET Runs]
        /\ flagged \subseteq Agents
    BY DEF Init
  <2>4. asked \in [Agents -> 0..MaxAsked]
    BY LimitsAssumption DEF Init
  <2>5. down \in BOOLEAN
    BY DEF Init
  <2> QED BY <2>1, <2>2, <2>3, <2>4, <2>5 DEF TypeOK
<1>3. Future /\ Counted /\ Breaker
  BY LimitsAssumption DEF Init, Future, Counted, Breaker, Runs
<1>4. RunningIsLive
  BY DEF Init, RunningIsLive
<1> QED BY <1>2, <1>3, <1>4 DEF IInv

\* There is room for one more run in Runs whenever one is asked for or
\* escalation still allows it.
LEMMA Room ==
    ASSUME IInv, NEW a \in Agents,
           \/ status[a] = "none"
           \/ asked[a] < MaxAsked
           \/ failures[a] < MaxEscalation
    PROVE  launched[a] + 1 \in Runs
<1>1. /\ launched[a] \in Nat /\ level[a] \in Nat /\ failures[a] \in Nat
      /\ asked[a] \in 0..MaxAsked /\ MaxAsked \in Nat /\ MaxEscalation \in Nat
  BY LimitsAssumption DEF IInv, TypeOK
<1>2. level[a] <= failures[a] /\ level[a] <= MaxEscalation
  BY DEF IInv, Breaker
<1>3. \/ launched[a] = 0
      \/ launched[a] = 1 + asked[a] + level[a]
  BY DEF IInv, Counted
<1> QED
  <2>1. CASE status[a] = "none"
    BY <1>1, <2>1 DEF IInv, Counted, Runs
  <2>2. CASE status[a] # "none"
    <3>1. launched[a] = 1 + asked[a] + level[a]
      BY <2>2 DEF IInv, Counted
    <3>2. asked[a] < MaxAsked \/ level[a] < MaxEscalation
      BY <1>1, <1>2, <2>2
    <3> QED BY <1>1, <1>2, <3>1, <3>2 DEF Runs
  <2> QED BY <2>1, <2>2

\* The newest run of a spawned agent.
LEMMA Newest ==
    ASSUME IInv, NEW a \in Agents, status[a] # "none"
    PROVE  launched[a] \in Runs
<1>1. /\ level[a] \in Nat /\ asked[a] \in 0..MaxAsked
      /\ MaxAsked \in Nat /\ MaxEscalation \in Nat
  BY LimitsAssumption DEF IInv, TypeOK
<1>2. launched[a] = 1 + asked[a] + level[a] /\ level[a] <= MaxEscalation
  BY DEF IInv, Counted, Breaker
<1> QED BY <1>1, <1>2 DEF Runs

\* Creating a run keeps the types, touches no run that exists, and leaves an
\* agent that is running and has a live newest run.
LEMMA CreateRunKeeps ==
    ASSUME IInv, NEW a \in Agents, NEW st \in [Runs -> Stages],
           launched[a] + 1 \in Runs,
           \A i \in Runs : i > launched[a] => st[i] = "none",
           CreateRun(a, st),
           \A b \in Agents : toCancel'[b] \subseteq toCancel[b],
           \A b \in Agents \ {a} : toCancel'[b] = toCancel[b],
           down' = down
    PROVE  /\ stage' \in [Agents -> [Runs -> Stages]]
           /\ launched' \in [Agents -> Nat]
           /\ tracked' \in [Agents -> Runs \cup {0}]
           /\ status' \in [Agents -> Statuses]
           /\ status'[a] = "running" /\ launched'[a] = launched[a] + 1
           /\ \A b \in Agents \ {a} : status'[b] = status[b] /\ launched'[b] = launched[b]
           /\ Future' /\ RunningIsLive'
<1> DEFINE new == launched[a] + 1
<1>1. /\ stage' = [stage EXCEPT ![a] = [st EXCEPT ![new] = "created"]]
      /\ launched' = [launched EXCEPT ![a] = new]
      /\ tracked' = [tracked EXCEPT ![a] = new]
      /\ status' = [status EXCEPT ![a] = "running"]
  BY DEF CreateRun
<1>2. /\ stage \in [Agents -> [Runs -> Stages]] /\ launched \in [Agents -> Nat]
      /\ tracked \in [Agents -> Runs \cup {0}] /\ status \in [Agents -> Statuses]
  BY DEF IInv, TypeOK
<1>3. "created" \in Stages /\ "running" \in Statuses
  BY DEF Stages, Statuses
<1>4. [st EXCEPT ![new] = "created"] \in [Runs -> Stages]
  BY <1>3
<1>5. /\ stage' \in [Agents -> [Runs -> Stages]]
      /\ launched' \in [Agents -> Nat]
      /\ tracked' \in [Agents -> Runs \cup {0}]
      /\ status' \in [Agents -> Statuses]
  BY <1>1, <1>2, <1>3, <1>4
<1>6. /\ status'[a] = "running" /\ launched'[a] = new
      /\ tracked'[a] = new /\ stage'[a] = [st EXCEPT ![new] = "created"]
      /\ \A b \in Agents \ {a} : /\ status'[b] = status[b]
                                 /\ launched'[b] = launched[b]
                                 /\ tracked'[b] = tracked[b]
                                 /\ stage'[b] = stage[b]
  BY <1>1, <1>2
<1>7. new \notin toCancel'[a]
  BY <1>2 DEF IInv, Future, Runs
<1>8. Future'
  <2> SUFFICES ASSUME NEW b \in Agents
               PROVE  /\ tracked'[b] <= launched'[b]
                      /\ \A i \in Runs : i > launched'[b] =>
                            stage'[b][i] = "none" /\ i \notin toCancel'[b]
    BY DEF Future
  <2>1. CASE b = a
    <3>1. launched[a] \in Nat /\ tracked'[a] <= launched'[a]
      BY <1>2, <1>6
    <3>2. ASSUME NEW i \in Runs, i > new
          PROVE  stage'[a][i] = "none" /\ i \notin toCancel'[a]
      <4>1. i > launched[a] /\ i # new
        BY <3>1, <3>2 DEF Runs
      <4>2. i \notin toCancel[a]
        BY <4>1 DEF IInv, Future
      <4> QED BY <1>6, <4>1, <4>2
    <3> QED BY <1>6, <2>1, <3>1, <3>2
  <2>2. CASE b # a
    BY <1>6, <2>2 DEF IInv, Future
  <2> QED BY <2>1, <2>2
<1>9. RunningIsLive'
  <2> SUFFICES ASSUME ~down, NEW b \in Agents, status'[b] = "running"
               PROVE  \/ Live(b, launched[b])'
                      \/ stage'[b][launched'[b]] = "raised"
    BY DEF RunningIsLive
  <2>1. CASE b = a
    <3>1. stage'[a][new] = "created"
      BY <1>6
    <3> QED BY <1>6, <1>7, <2>1, <3>1 DEF Live
  <2>2. CASE b # a
    BY <1>6, <2>2 DEF IInv, RunningIsLive, Live
  <2> QED BY <2>1, <2>2
<1> QED BY <1>5, <1>6, <1>8, <1>9

\* A run that is not "none" has been created, by an agent that was spawned.
LEMMA Created ==
    ASSUME IInv, NEW a \in Agents, NEW i \in Runs, stage[a][i] # "none"
    PROVE  i <= launched[a] /\ status[a] # "none"
<1>1. launched[a] \in Nat /\ i \in Nat /\ i > 0
  BY LimitsAssumption DEF IInv, TypeOK, Runs
<1>2. i <= launched[a]
  BY <1>1 DEF IInv, Future
<1> QED BY <1>1, <1>2 DEF IInv, Counted

\* A step of one run that creates no run, counts nothing and leaves no agent
\* running that was not, keeps the invariant as long as the newest run of a
\* running agent stays live or raises.
LEMMA RunStepKeeps ==
    ASSUME IInv, NEW a \in Agents, NEW i \in Runs, NEW place \in Stages,
           stage[a][i] # "none",
           MoveTo(a, i, place),
           status' \in [Agents -> Statuses],
           \A b \in Agents \ {a} : status'[b] = status[b],
           status'[a] # "none",
           status'[a] = "running" => status[a] = "running",
           ~down /\ status'[a] = "running" /\ i = launched[a] =>
              place \in {"working", "raised"},
           toCancel' \in [Agents -> SUBSET Runs],
           \A b \in Agents : toCancel'[b] \subseteq toCancel[b],
           flagged' \subseteq Agents,
           tracked' \in [Agents -> Runs \cup {0}],
           \A b \in Agents : tracked'[b] = tracked[b] \/ tracked'[b] = 0,
           owner' \in [Agents -> Wishes],
           UNCHANGED <<launched, failures, level, asked, submitVars, down>>
    PROVE  IInv'
<1>0. i <= launched[a] /\ status[a] # "none"
  BY Created
<1>1. /\ stage' = [stage EXCEPT ![a][i] = place]
      /\ stage \in [Agents -> [Runs -> Stages]]
      /\ launched \in [Agents -> Nat] /\ launched' = launched
      /\ failures' = failures /\ level' = level /\ asked' = asked
      /\ submit' = submit /\ awaited' = awaited /\ down' = down
  BY DEF MoveTo, IInv, TypeOK, submitVars
<1>2. stage' \in [Agents -> [Runs -> Stages]]
  BY <1>1
<1>3. /\ stage'[a][i] = place
      /\ \A b \in Agents, k \in Runs :
            b # a \/ k # i => stage'[b][k] = stage[b][k]
  BY <1>1
<1>4. TypeOK'
  BY <1>1, <1>2 DEF IInv, TypeOK
<1>5. Future'
  <2> SUFFICES ASSUME NEW b \in Agents
               PROVE  /\ tracked'[b] <= launched[b]
                      /\ \A k \in Runs : k > launched[b] =>
                            stage'[b][k] = "none" /\ k \notin toCancel'[b]
    BY <1>1 DEF Future
  <2>1. tracked'[b] <= launched[b]
    BY <1>1 DEF IInv, Future
  <2>2. ASSUME NEW k \in Runs, k > launched[b]
        PROVE  stage'[b][k] = "none" /\ k \notin toCancel'[b]
    <3>1. b # a \/ k # i
      BY <1>0, <1>1, <2>2 DEF Runs
    <3> QED BY <1>3, <2>2, <3>1 DEF IInv, Future
  <2> QED BY <2>1, <2>2
<1>6. Counted' /\ Breaker'
  BY <1>0, <1>1 DEF IInv, Counted, Breaker
<1>7. RunningIsLive'
  <2> SUFFICES ASSUME ~down, NEW b \in Agents, status'[b] = "running"
               PROVE  \/ Live(b, launched[b])'
                      \/ stage'[b][launched[b]] = "raised"
    BY <1>1 DEF RunningIsLive
  <2>1. status[b] = "running"
    OBVIOUS
  <2>2. Live(b, launched[b]) \/ stage[b][launched[b]] = "raised"
    BY <2>1 DEF IInv, RunningIsLive
  <2>3. launched[b] \in Runs
    BY <2>1, Newest
  <2>4. CASE b = a /\ launched[b] = i
    BY <1>1, <1>3, <2>4 DEF Live
  <2>5. CASE ~(b = a /\ launched[b] = i)
    BY <1>1, <1>3, <2>2, <2>3, <2>5 DEF Live
  <2> QED BY <2>4, <2>5
<1> QED BY <1>4, <1>5, <1>6, <1>7 DEF IInv

\* The operations that create a run for the stages the agent has.
LEMMA AskedRunKeeps ==
    ASSUME IInv, NEW a \in Agents, CreateRun(a, stage[a]),
           \/ status[a] = "none" /\ asked' = asked
           \/ status[a] # "none" /\ asked[a] < MaxAsked /\ Asked(a),
           flagged' \subseteq Agents,
           submit' \in [Agents -> Answers],
           owner' \in [Agents -> Wishes],
           UNCHANGED <<toCancel, failures, level, awaited, down>>
    PROVE  IInv'
<1>1. launched[a] + 1 \in Runs
  BY Room
<1>2. /\ stage[a] \in [Runs -> Stages]
      /\ \A i \in Runs : i > launched[a] => stage[a][i] = "none"
  BY DEF IInv, TypeOK, Future
<1>3. /\ stage' \in [Agents -> [Runs -> Stages]]
      /\ launched' \in [Agents -> Nat]
      /\ tracked' \in [Agents -> Runs \cup {0}]
      /\ status' \in [Agents -> Statuses]
      /\ status'[a] = "running" /\ launched'[a] = launched[a] + 1
      /\ \A b \in Agents \ {a} : status'[b] = status[b] /\ launched'[b] = launched[b]
      /\ Future' /\ RunningIsLive'
  BY <1>1, <1>2, CreateRunKeeps
<1>4. /\ launched \in [Agents -> Nat] /\ level \in [Agents -> Nat]
      /\ asked \in [Agents -> 0..MaxAsked] /\ MaxAsked \in Nat
  BY LimitsAssumption DEF IInv, TypeOK
<1>5. asked' \in [Agents -> 0..MaxAsked]
  BY <1>4 DEF Asked
<1>6. TypeOK'
  BY <1>3, <1>5 DEF IInv, TypeOK
<1>7. Counted'
  <2> SUFFICES ASSUME NEW b \in Agents
               PROVE  IF status'[b] = "none"
                      THEN launched'[b] = 0 /\ asked'[b] = 0 /\ level[b] = 0
                      ELSE launched'[b] = 1 + asked'[b] + level[b]
    BY DEF Counted
  <2>1. CASE b # a
    <3>1. asked'[b] = asked[b]
      BY <1>4, <2>1 DEF Asked
    <3> QED BY <1>3, <2>1, <3>1 DEF IInv, Counted
  <2>2. CASE b = a /\ status[a] = "none"
    BY <1>3, <1>4, <2>2 DEF IInv, Counted
  <2>3. CASE b = a /\ status[a] # "none"
    <3>1. asked'[a] = asked[a] + 1
      BY <1>4, <2>3 DEF Asked
    <3>2. launched[a] = 1 + asked[a] + level[a]
      BY <2>3 DEF IInv, Counted
    <3> QED BY <1>3, <1>4, <2>3, <3>1, <3>2
  <2> QED BY <2>1, <2>2, <2>3
<1>8. Breaker'
  BY DEF IInv, Breaker
<1> QED BY <1>3, <1>6, <1>7, <1>8 DEF IInv

\* The end of a run: it leaves the books, or escalates into a new run.
LEMMA FinallyKeeps ==
    ASSUME IInv, NEW a \in Agents, NEW i \in Runs, Finally(a, i)
    PROVE  IInv'
<1> DEFINE st == [stage[a] EXCEPT ![i] = "over"]
<1>1. /\ stage[a][i] = "ending"
      /\ toCancel' = [toCancel EXCEPT ![a] = @ \ {i}]
      /\ flagged' = flagged \ {a}
      /\ UNCHANGED <<submit, awaited, down>>
      /\ \/ status[a] \in {"failed", "completed"} /\ auto_escalate(a, st)
         \/ /\ status[a] # "failed"
            /\ stage' = [stage EXCEPT ![a] = st]
            /\ tracked' = [tracked EXCEPT ![a] = 0]
            /\ UNCHANGED <<status, launched, escalationVars>>
  BY DEF Finally, submitVars
<1>2. /\ stage \in [Agents -> [Runs -> Stages]] /\ status \in [Agents -> Statuses]
      /\ tracked \in [Agents -> Runs \cup {0}]
      /\ toCancel \in [Agents -> SUBSET Runs] /\ flagged \subseteq Agents
      /\ failures \in [Agents -> Nat] /\ level \in [Agents -> Nat]
      /\ launched \in [Agents -> Nat] /\ asked \in [Agents -> 0..MaxAsked]
      /\ submit \in [Agents -> Answers] /\ awaited \in [Agents -> Runs \cup {0}]
      /\ down \in BOOLEAN /\ MaxEscalation \in Nat /\ MaxAsked \in Nat
      /\ owner \in [Agents -> Wishes]
  BY LimitsAssumption DEF IInv, TypeOK
<1>3. /\ toCancel' \in [Agents -> SUBSET Runs] /\ flagged' \subseteq Agents
      /\ \A b \in Agents : toCancel'[b] \subseteq toCancel[b]
      /\ \A b \in Agents \ {a} : toCancel'[b] = toCancel[b]
  BY <1>1, <1>2
<1>4. i <= launched[a] /\ status[a] # "none" /\ launched[a] \in Runs
  BY <1>1, Created, Newest
<1>5. /\ "over" \in Stages /\ "failed" \in Statuses
      /\ st \in [Runs -> Stages]
      /\ \A k \in Runs : k > launched[a] => st[k] = "none"
  BY <1>2, <1>4 DEF IInv, Future, Stages, Statuses, Runs
<1>6. CASE /\ failures' = [failures EXCEPT ![a] = @ + 1]
           /\ failures[a] < MaxEscalation
           /\ level' = [level EXCEPT ![a] = @ + 1]
           /\ CreateRun(a, st)
           /\ UNCHANGED <<asked, owner>>
  <2>1. launched[a] + 1 \in Runs
    BY <1>6, Room
  <2>2. /\ stage' \in [Agents -> [Runs -> Stages]]
        /\ launched' \in [Agents -> Nat]
        /\ tracked' \in [Agents -> Runs \cup {0}]
        /\ status' \in [Agents -> Statuses]
        /\ status'[a] = "running" /\ launched'[a] = launched[a] + 1
        /\ \A b \in Agents \ {a} : status'[b] = status[b] /\ launched'[b] = launched[b]
        /\ Future' /\ RunningIsLive'
    BY <1>1, <1>3, <1>5, <1>6, <2>1, CreateRunKeeps
  <2>3. /\ failures' \in [Agents -> Nat] /\ level' \in [Agents -> Nat]
        /\ failures'[a] = failures[a] + 1 /\ level'[a] = level[a] + 1
        /\ \A b \in Agents \ {a} : failures'[b] = failures[b] /\ level'[b] = level[b]
    BY <1>2, <1>6
  <2>4. TypeOK'
    BY <1>1, <1>2, <1>3, <1>6, <2>2, <2>3 DEF TypeOK
  <2>5. Breaker'
    <3> SUFFICES ASSUME NEW b \in Agents
                 PROVE  level'[b] <= failures'[b] /\ level'[b] <= MaxEscalation
      BY DEF Breaker
    <3>1. level[b] <= failures[b] /\ level[b] <= MaxEscalation
      BY DEF IInv, Breaker
    <3> QED BY <1>2, <1>6, <2>3, <3>1
  <2>6. Counted'
    <3> SUFFICES ASSUME NEW b \in Agents
                 PROVE  IF status'[b] = "none"
                        THEN launched'[b] = 0 /\ asked[b] = 0 /\ level'[b] = 0
                        ELSE launched'[b] = 1 + asked[b] + level'[b]
      BY <1>6 DEF Counted
    <3>1. CASE b = a
      <4>1. launched[a] = 1 + asked[a] + level[a]
        BY <1>4 DEF IInv, Counted
      <4> QED BY <1>2, <2>2, <2>3, <3>1, <4>1
    <3>2. CASE b # a
      BY <2>2, <2>3, <3>2 DEF IInv, Counted
    <3> QED BY <3>1, <3>2
  <2> QED BY <2>2, <2>4, <2>5, <2>6 DEF IInv
<1>7. CASE /\ failures' = [failures EXCEPT ![a] = @ + 1]
           /\ stage' = [stage EXCEPT ![a] = st]
           /\ status' = [status EXCEPT ![a] = "failed"]
           /\ tracked' = [tracked EXCEPT ![a] = 0]
           /\ UNCHANGED <<launched, level, asked, owner>>
  <2>1. /\ status' \in [Agents -> Statuses] /\ status'[a] = "failed"
        /\ \A b \in Agents \ {a} : status'[b] = status[b]
        /\ stage' \in [Agents -> [Runs -> Stages]]
        /\ \A b \in Agents \ {a} : stage'[b] = stage[b]
        /\ stage'[a] = st
        /\ tracked' \in [Agents -> Runs \cup {0}] /\ tracked'[a] = 0
        /\ \A b \in Agents \ {a} : tracked'[b] = tracked[b]
    BY <1>2, <1>5, <1>7
  <2>2. /\ failures' \in [Agents -> Nat]
        /\ \A b \in Agents : failures[b] <= failures'[b]
    BY <1>2, <1>7
  <2>3. TypeOK'
    BY <1>1, <1>2, <1>3, <1>7, <2>1, <2>2 DEF TypeOK
  <2>4. Breaker'
    BY <1>2, <1>7, <2>2 DEF IInv, Breaker
  <2>5. Counted'
    BY <1>4, <1>7, <2>1 DEF IInv, Counted
  <2>6. Future'
    BY <1>2, <1>3, <1>5, <1>7, <2>1 DEF IInv, Future
  <2>7. RunningIsLive'
    BY <1>1, <1>3, <1>7, <2>1 DEF IInv, RunningIsLive, Live
  <2> QED BY <2>3, <2>4, <2>5, <2>6, <2>7 DEF IInv
<1>8. CASE /\ status[a] # "failed"
           /\ stage' = [stage EXCEPT ![a] = st]
           /\ tracked' = [tracked EXCEPT ![a] = 0]
           /\ UNCHANGED <<status, launched, escalationVars>>
  <2>1. MoveTo(a, i, "over")
    BY <1>2, <1>8 DEF MoveTo
  <2>2. ~(status[a] = "running" /\ i = launched[a]) \/ down
    BY <1>1 DEF IInv, RunningIsLive, Live
  <2>3. tracked' \in [Agents -> Runs \cup {0}]
        /\ \A b \in Agents : tracked'[b] = tracked[b] \/ tracked'[b] = 0
    BY <1>2, <1>8
  <2> QED BY <1>1, <1>2, <1>3, <1>4, <1>5, <1>8, <2>1, <2>2, <2>3,
             RunStepKeeps DEF submitVars, escalationVars
<1> QED BY <1>1, <1>6, <1>7, <1>8 DEF auto_escalate

\* The steps of a run.
LEMMA RunStepsKeep ==
    ASSUME IInv, NEW a \in Agents, NEW i \in Runs, RunSteps(a, i)
    PROVE  IInv'
<1>1. /\ status \in [Agents -> Statuses] /\ toCancel \in [Agents -> SUBSET Runs]
      /\ tracked \in [Agents -> Runs \cup {0}] /\ flagged \subseteq Agents
      /\ owner \in [Agents -> Wishes]
  BY DEF IInv, TypeOK
<1>2. stage[a][i] # "none" => status[a] # "none"
  BY Created
<1>3. /\ {"dropped", "working", "raised", "ending"} \subseteq Stages
      /\ {"completed", "failed", "paused", "cancelled"} \subseteq Statuses
  BY DEF Stages, Statuses
<1>4. CASE CancelledUnstarted(a, i)
  <2>1. /\ stage[a][i] = "created" /\ i \in toCancel[a]
        /\ MoveTo(a, i, "dropped")
        /\ UNCHANGED <<status, launched, tracked, toCancel, flagged,
                       escalationVars, submitVars, down>>
    BY <1>4 DEF CancelledUnstarted
  <2>2. ~(~down /\ status[a] = "running" /\ i = launched[a])
    BY <2>1 DEF IInv, RunningIsLive, Live
  <2> QED BY <1>1, <1>2, <1>3, <2>1, <2>2, RunStepKeeps DEF escalationVars
<1>5. CASE Starts(a, i)
  <2>1. /\ stage[a][i] = "created" /\ MoveTo(a, i, "working")
        /\ UNCHANGED <<status, launched, tracked, toCancel, flagged,
                       escalationVars, submitVars, down>>
    BY <1>5 DEF Starts
  <2> QED BY <1>1, <1>2, <1>3, <2>1, RunStepKeeps DEF escalationVars
<1>6. CASE SetupFails(a, i)
  <2>1. /\ stage[a][i] = "created" /\ MoveTo(a, i, "raised")
        /\ UNCHANGED <<status, launched, tracked, toCancel, flagged,
                       escalationVars, submitVars, down>>
    BY <1>6 DEF SetupFails
  <2> QED BY <1>1, <1>2, <1>3, <2>1, RunStepKeeps DEF escalationVars
<1>7. ASSUME NEW verdict \in {"completed", "failed", "paused", "cancelled"},
             stage[a][i] = "working",
             MoveTo(a, i, "ending"),
             status' = [status EXCEPT ![a] = verdict],
             toCancel' = toCancel \/ toCancel' = [toCancel EXCEPT ![a] = @ \ {i}],
             owner' \in [Agents -> Wishes],
             UNCHANGED <<launched, tracked, flagged, failures, level, asked,
                         submitVars, down>>
      PROVE  IInv'
  <2>1. /\ status' \in [Agents -> Statuses]
        /\ status'[a] = verdict
        /\ \A b \in Agents \ {a} : status'[b] = status[b]
    BY <1>1, <1>3, <1>7
  <2>2. /\ toCancel' \in [Agents -> SUBSET Runs]
        /\ \A b \in Agents : toCancel'[b] \subseteq toCancel[b]
    BY <1>1, <1>7
  <2>3. verdict # "none" /\ verdict # "running"
    OBVIOUS
  <2> QED BY <1>1, <1>3, <1>7, <2>1, <2>2, <2>3, RunStepKeeps
<1>8. CASE TurnEnds(a, i)
  <2>1. PICK verdict \in {"completed", "failed", "paused", "cancelled"} :
           status' = [status EXCEPT ![a] = IF @ = "cancelled" THEN @ ELSE verdict]
    BY <1>8 DEF TurnEnds
  <2>2. /\ stage[a][i] = "working" /\ MoveTo(a, i, "ending")
        /\ UNCHANGED <<launched, tracked, toCancel, flagged, failures, level,
                       asked, owner, submitVars, down>>
    BY <1>8 DEF TurnEnds, escalationVars
  <2>3. CASE status[a] = "cancelled"
    <3>1. status' = [status EXCEPT ![a] = "cancelled"]
      BY <2>1, <2>3
    <3> QED BY <1>1, <1>7, <2>2, <3>1
  <2>4. CASE status[a] # "cancelled"
    <3>1. status' = [status EXCEPT ![a] = verdict]
      BY <2>1, <2>4
    <3> QED BY <1>1, <1>7, <2>2, <3>1
  <2> QED BY <2>3, <2>4
<1>9. CASE TurnRaises(a, i)
  <2>1. owner' \in [Agents -> Wishes]
    BY <1>1, <1>9 DEF TurnRaises, Wishes
  <2> QED BY <1>7, <1>9, <2>1 DEF TurnRaises
<1>10. CASE TurnCancelled(a, i)
  BY <1>1, <1>7, <1>10 DEF TurnCancelled, escalationVars
<1>11. CASE Finally(a, i)
  BY <1>11, FinallyKeeps
<1> QED BY <1>4, <1>5, <1>6, <1>8, <1>9, <1>10, <1>11 DEF RunSteps

\* What is tracked or has a stage has been created.
LEMMA BoundsOfRuns ==
    ASSUME IInv, NEW b \in Agents, NEW k \in Runs,
           k = tracked[b] \/ stage[b][k] # "none"
    PROVE  k <= launched[b]
<1>1. CASE k = tracked[b]
  BY <1>1 DEF IInv, Future
<1>2. CASE stage[b][k] # "none"
  BY <1>2, Created
<1> QED BY <1>1, <1>2

\* Shutting down keeps the invariant: pending cancels only reach created runs.
LEMMA ShutdownKeeps ==
    ASSUME IInv, shutdown
    PROVE  IInv'
<1>0. /\ toCancel \in [Agents -> SUBSET Runs] /\ launched \in [Agents -> Nat]
      /\ tracked \in [Agents -> Runs \cup {0}]
  BY DEF IInv, TypeOK
<1>1. /\ down' = TRUE
      /\ toCancel' = [b \in Agents |->
            toCancel[b] \cup {i \in Runs : i = tracked[b] /\ stage[b][i] \notin Done}]
      /\ tracked' = [b \in Agents |-> 0]
      /\ flagged' = {}
      /\ UNCHANGED <<status, stage, launched, failures, level, asked, owner,
                     submit, awaited>>
  BY DEF shutdown, escalationVars, submitVars
<1>2. /\ toCancel' \in [Agents -> SUBSET Runs]
      /\ tracked' \in [Agents -> Runs \cup {0}]
      /\ \A b \in Agents : /\ tracked'[b] = 0
            /\ \A k \in toCancel'[b] : k \in toCancel[b] \/ k = tracked[b]
  BY <1>0, <1>1
<1>3. TypeOK'
  BY <1>0, <1>1, <1>2 DEF IInv, TypeOK
<1>4. Future'
  <2> SUFFICES ASSUME NEW b \in Agents
               PROVE  /\ tracked'[b] <= launched[b]
                      /\ \A k \in Runs : k > launched[b] => k \notin toCancel'[b]
    BY <1>1 DEF IInv, Future
  <2>1. tracked'[b] <= launched[b]
    BY <1>0, <1>2
  <2>2. ASSUME NEW k \in Runs, k > launched[b]
        PROVE  k \notin toCancel'[b]
    <3>1. k \notin toCancel[b] /\ k # tracked[b]
      BY <1>0, BoundsOfRuns, <2>2 DEF IInv, Future, Runs
    <3> QED BY <1>2, <3>1
  <2> QED BY <2>1, <2>2
<1>5. Counted' /\ Breaker'
  BY <1>1 DEF IInv, Counted, Breaker
<1>6. RunningIsLive'
  BY <1>1 DEF RunningIsLive
<1> QED BY <1>3, <1>4, <1>5, <1>6 DEF IInv

\* The operations that create no run.
LEMMA CallsKeep ==
    ASSUME IInv, NEW a \in Agents,
           \/ cancel_subagent(a)
           \/ SubmitAwaits(a) \/ SubmitStalled(a) \/ SubmitAnswers(a)
    PROVE  IInv'
<1>1. /\ status \in [Agents -> Statuses] /\ toCancel \in [Agents -> SUBSET Runs]
      /\ stage \in [Agents -> [Runs -> Stages]]
      /\ tracked \in [Agents -> Runs \cup {0}] /\ flagged \subseteq Agents
      /\ launched \in [Agents -> Nat] /\ submit \in [Agents -> Answers]
      /\ awaited \in [Agents -> Runs \cup {0}]
      /\ owner \in [Agents -> Wishes]
  BY DEF IInv, TypeOK
<1>2. /\ "cancelled" \in Statuses
      /\ {"waiting", "ok", "error"} \subseteq Answers
      /\ "cancelled" \in Wishes
  BY DEF Statuses, Answers, Wishes
<1>4. CASE cancel_subagent(a)
  <2>1. /\ ~down /\ status[a] # "none"
        /\ status' = [status EXCEPT ![a] = "cancelled"]
        /\ flagged' = flagged \cup {a}
        /\ toCancel' = [toCancel EXCEPT
              ![a] = @ \cup {i \in Runs : i = tracked[a] /\ stage[a][i] \notin Done}]
        /\ owner' = [owner EXCEPT ![a] = "cancelled"]
        /\ UNCHANGED <<stage, launched, tracked, failures, level, asked,
                       submit, awaited, down>>
    BY <1>4 DEF cancel_subagent, submitVars
  <2>2. /\ status' \in [Agents -> Statuses] /\ status'[a] = "cancelled"
        /\ \A b \in Agents \ {a} : status'[b] = status[b]
        /\ toCancel' \in [Agents -> SUBSET Runs]
        /\ \A b \in Agents \ {a} : toCancel'[b] = toCancel[b]
        /\ \A k \in toCancel'[a] : k \in toCancel[a] \/ k = tracked[a]
    BY <1>1, <1>2, <2>1
  <2>3. TypeOK'
    <3>1. owner' \in [Agents -> Wishes]
      BY <1>1, <1>2, <2>1
    <3> QED BY <1>1, <2>1, <2>2, <3>1 DEF IInv, TypeOK
  <2>4. Future'
    <3> SUFFICES ASSUME NEW b \in Agents, NEW k \in Runs, k > launched[b]
                 PROVE  k \notin toCancel'[b]
      BY <2>1 DEF IInv, Future
    <3>1. k \notin toCancel[b] /\ k # tracked[b]
      BY <1>1, BoundsOfRuns DEF IInv, Future, Runs
    <3> QED BY <2>2, <3>1
  <2>5. Counted' /\ Breaker'
    BY <2>1, <2>2 DEF IInv, Counted, Breaker
  <2>6. RunningIsLive'
    BY <2>1, <2>2 DEF IInv, RunningIsLive, Live
  <2> QED BY <2>3, <2>4, <2>5, <2>6 DEF IInv
<1>6. CASE SubmitAwaits(a)
  <2>1. /\ submit' = [submit EXCEPT ![a] = "waiting"]
        /\ awaited' = [awaited EXCEPT ![a] = tracked[a]]
        /\ UNCHANGED <<status, stage, launched, tracked, toCancel, flagged,
                       failures, level, asked, owner, down>>
    BY <1>6 DEF SubmitAwaits, taskVars, escalationVars
  <2>2. submit' \in [Agents -> Answers] /\ awaited' \in [Agents -> Runs \cup {0}]
    BY <1>1, <1>2, <2>1
  <2>3. TypeOK'
    BY <2>1, <2>2 DEF IInv, TypeOK
  <2> QED BY <2>1, <2>3 DEF IInv, Future, Counted, Breaker, RunningIsLive, Live
<1>7. CASE SubmitStalled(a)
  <2>1. /\ awaited[a] # 0
        /\ stage[a][awaited[a]] \in {"working", "ending"}
        /\ toCancel' = [toCancel EXCEPT ![a] = @ \cup {awaited[a]}]
        /\ UNCHANGED <<status, stage, launched, tracked, flagged, failures,
                       level, asked, owner, submit, awaited, down>>
    BY <1>7 DEF SubmitStalled, escalationVars, submitVars
  <2>2. awaited[a] \in Runs /\ awaited[a] <= launched[a]
    BY <1>1, <2>1, BoundsOfRuns
  <2>3. /\ toCancel' \in [Agents -> SUBSET Runs]
        /\ \A b \in Agents \ {a} : toCancel'[b] = toCancel[b]
        /\ toCancel'[a] = toCancel[a] \cup {awaited[a]}
    BY <1>1, <2>1, <2>2
  <2>4. TypeOK'
    BY <2>1, <2>3 DEF IInv, TypeOK
  <2>5. Future'
    <3> SUFFICES ASSUME NEW b \in Agents, NEW k \in Runs, k > launched[b]
                 PROVE  k \notin toCancel'[b]
      BY <2>1 DEF IInv, Future
    <3>1. k \notin toCancel[b] /\ (b = a => k # awaited[a])
      BY <1>1, <2>2 DEF IInv, Future, Runs
    <3> QED BY <2>3, <3>1
  <2>6. Counted' /\ Breaker'
    BY <2>1 DEF IInv, Counted, Breaker
  <2>7. RunningIsLive'
    <3> SUFFICES ASSUME ~down, NEW b \in Agents, status[b] = "running"
                 PROVE  \/ Live(b, launched[b])'
                        \/ stage[b][launched[b]] = "raised"
      BY <2>1 DEF RunningIsLive
    <3>1. Live(b, launched[b]) \/ stage[b][launched[b]] = "raised"
      BY DEF IInv, RunningIsLive
    <3>2. stage[b][launched[b]] = "created" /\ b = a => launched[b] # awaited[a]
      BY <2>1
    <3> QED BY <2>1, <2>3, <3>1, <3>2 DEF Live
  <2> QED BY <2>4, <2>5, <2>6, <2>7 DEF IInv
<1>8. CASE SubmitAnswers(a)
  <2>1. PICK answer \in {"ok", "error"} : submit' = [submit EXCEPT ![a] = answer]
    BY <1>8 DEF SubmitAnswers
  <2>2. UNCHANGED <<status, stage, launched, tracked, toCancel, flagged,
                    failures, level, asked, owner, awaited, down>>
    BY <1>8 DEF SubmitAnswers, taskVars, escalationVars
  <2>3. submit' \in [Agents -> Answers]
    BY <1>1, <1>2, <2>1
  <2>4. TypeOK'
    BY <2>2, <2>3 DEF IInv, TypeOK
  <2> QED BY <2>2, <2>4 DEF IInv, Future, Counted, Breaker, RunningIsLive, Live
<1> QED BY <1>4, <1>6, <1>7, <1>8

\* Every step keeps the invariant.
LEMMA NextInv == IInv /\ [Next]_vars => IInv'
<1> SUFFICES ASSUME IInv, [Next]_vars PROVE IInv'
  OBVIOUS
<1>0. /\ flagged \subseteq Agents /\ submit \in [Agents -> Answers]
      /\ "spawned" \in Answers
      /\ owner \in [Agents -> Wishes] /\ "wanted" \in Wishes
  BY DEF IInv, TypeOK, Answers, Wishes
<1>1. ASSUME NEW a \in Agents, NEW longrun \in BOOLEAN, spawn_subagent(a, longrun)
      PROVE  IInv'
  <2>1. /\ status[a] = "none" /\ CreateRun(a, stage[a])
        /\ submit' \in [Agents -> Answers]
        /\ UNCHANGED <<toCancel, flagged, failures, level, asked, owner, awaited, down>>
    BY <1>0, <1>1 DEF spawn_subagent, escalationVars
  <2> QED BY <1>0, <2>1, AskedRunKeeps
<1>2. ASSUME NEW a \in Agents, send_message_to_subagent(a)
      PROVE  IInv'
  <2>1. /\ status[a] # "none" /\ asked[a] < MaxAsked /\ Asked(a)
        /\ CreateRun(a, stage[a])
        /\ UNCHANGED <<toCancel, flagged, failures, level, submit, awaited, down>>
    BY <1>2 DEF send_message_to_subagent, submitVars
  <2>2. owner' \in [Agents -> Wishes]
    BY <1>0, <2>1 DEF Asked
  <2> QED BY <1>0, <2>1, <2>2, AskedRunKeeps
<1>3. ASSUME NEW a \in Agents, retry_subagent(a)
      PROVE  IInv'
  <2>1. /\ status[a] # "none" /\ asked[a] < MaxAsked /\ Asked(a)
        /\ CreateRun(a, stage[a]) /\ flagged' = flagged \ {a}
        /\ UNCHANGED <<toCancel, failures, level, submit, awaited, down>>
    BY <1>3 DEF retry_subagent, submitVars
  <2>2. owner' \in [Agents -> Wishes]
    BY <1>0, <2>1 DEF Asked
  <2> QED BY <1>0, <2>1, <2>2, AskedRunKeeps
<1>4. ASSUME NEW a \in Agents,
             cancel_subagent(a) \/ SubmitAwaits(a) \/ SubmitStalled(a) \/ SubmitAnswers(a)
      PROVE  IInv'
  BY <1>4, CallsKeep
<1>5. ASSUME NEW a \in Agents, NEW i \in Runs, RunSteps(a, i)
      PROVE  IInv'
  BY <1>5, RunStepsKeep
<1>6. CASE shutdown
  BY <1>6, ShutdownKeeps
<1>7. CASE UNCHANGED vars
  BY <1>7 DEF vars, taskVars, escalationVars, submitVars, IInv, TypeOK, Future,
              Counted, Breaker, RunningIsLive, Live
<1> QED BY <1>1, <1>2, <1>3, <1>4, <1>5, <1>6, <1>7 DEF Next

-----------------------------------------------------------------------------
(* The theorems.                                                            *)

\* The inductive invariant holds in every reachable state.
THEOREM Invariance == Spec => []IInv
BY InitInv, NextInv, PTL DEF Spec

\* Every variable of TeamManager keeps its type.
THEOREM TypeCorrect == Spec => []TypeOK
BY Invariance, PTL DEF IInv

\* However cancels, resumes, retries and escalations of one agent overlap in
\* send_message_to_subagent, retry_subagent, _auto_escalate and _run_subagent,
\* an agent shown as running has a live newest run, or one whose setup raised.
THEOREM NoStaleRunning == Spec => []RunningIsLive
BY Invariance, PTL DEF IInv

\* The circuit breaker of _auto_escalate bounds the runs of every agent.
THEOREM BudgetKept == Spec => []RunBudget
<1>1. IInv => RunBudget
  <2> SUFFICES ASSUME IInv, NEW a \in Agents
               PROVE  launched[a] <= 1 + asked[a] + MaxEscalation
    BY DEF RunBudget
  <2>1. /\ launched[a] \in Nat /\ level[a] \in Nat /\ asked[a] \in 0..MaxAsked
        /\ MaxAsked \in Nat /\ MaxEscalation \in Nat
    BY LimitsAssumption DEF IInv, TypeOK
  <2>2. level[a] <= MaxEscalation
    BY DEF IInv, Breaker
  <2>3. launched[a] = 0 \/ launched[a] = 1 + asked[a] + level[a]
    BY DEF IInv, Counted
  <2> QED BY <2>1, <2>2, <2>3
<1> QED BY <1>1, Invariance, PTL

-----------------------------------------------------------------------------
(* Cancels.                                                                 *)

\* A cancel that stands shows in the status, so no end of a run escalates it.
CancelInv == \A a \in Agents : owner[a] = "cancelled" => status[a] = "cancelled"

\* Whoever writes a status respects a cancel that stands, takes it back as the
\* owner, or is a turn that raised.
LEMMA StepKeepsCancel == IInv /\ CancelInv /\ [Next]_vars => CancelInv'
<1> SUFFICES ASSUME IInv, CancelInv, Next \/ UNCHANGED vars PROVE CancelInv'
  OBVIOUS
<1>1. /\ status \in [Agents -> Statuses] /\ owner \in [Agents -> Wishes]
  BY DEF IInv, TypeOK
<1>2. CASE UNCHANGED <<status, owner>>
  BY <1>2 DEF CancelInv
<1>3. ASSUME NEW a \in Agents, NEW st, CreateRun(a, st),
             \/ owner' = [owner EXCEPT ![a] = "wanted"]
             \/ status[a] # "cancelled" /\ owner' = owner
      PROVE  CancelInv'
  BY <1>1, <1>3 DEF CreateRun, CancelInv
<1>4. ASSUME NEW a \in Agents, NEW longrun \in BOOLEAN, spawn_subagent(a, longrun)
      PROVE  CancelInv'
  BY <1>3, <1>4 DEF spawn_subagent, escalationVars
<1>5. ASSUME NEW a \in Agents, send_message_to_subagent(a) \/ retry_subagent(a)
      PROVE  CancelInv'
  BY <1>3, <1>5 DEF send_message_to_subagent, retry_subagent, Asked
<1>6. ASSUME NEW a \in Agents, cancel_subagent(a)
      PROVE  CancelInv'
  BY <1>1, <1>6 DEF cancel_subagent, CancelInv
<1>7. ASSUME NEW a \in Agents, NEW i \in Runs, TurnEnds(a, i)
      PROVE  CancelInv'
  BY <1>1, <1>7 DEF TurnEnds, CancelInv, escalationVars
<1>8. ASSUME NEW a \in Agents, NEW i \in Runs, TurnRaises(a, i)
      PROVE  CancelInv'
  BY <1>1, <1>8 DEF TurnRaises, CancelInv
<1>9. ASSUME NEW a \in Agents, NEW i \in Runs, TurnCancelled(a, i)
      PROVE  CancelInv'
  BY <1>1, <1>9 DEF TurnCancelled, CancelInv, escalationVars
<1>10. ASSUME NEW a \in Agents, NEW i \in Runs, Finally(a, i)
       PROVE  CancelInv'
  <2> DEFINE st == [stage[a] EXCEPT ![i] = "over"]
  <2>1. CASE status[a] \in {"failed", "completed"} /\ auto_escalate(a, st)
    <3>1. CASE CreateRun(a, st) /\ UNCHANGED owner
      BY <1>3, <2>1, <3>1
    <3>2. CASE status' = [status EXCEPT ![a] = "failed"] /\ UNCHANGED owner
      BY <1>1, <2>1, <3>2 DEF CancelInv
    <3> QED BY <2>1, <3>1, <3>2 DEF auto_escalate
  <2>2. CASE UNCHANGED <<status, escalationVars>>
    BY <1>2, <2>2 DEF escalationVars
  <2> QED BY <1>10, <2>1, <2>2 DEF Finally
<1>11. ASSUME NEW a \in Agents, NEW i \in Runs,
              CancelledUnstarted(a, i) \/ Starts(a, i) \/ SetupFails(a, i)
       PROVE  CancelInv'
  BY <1>2, <1>11 DEF CancelledUnstarted, Starts, SetupFails, escalationVars
<1>12. ASSUME NEW a \in Agents, SubmitAwaits(a) \/ SubmitStalled(a) \/ SubmitAnswers(a)
       PROVE  CancelInv'
  BY <1>2, <1>12 DEF SubmitAwaits, SubmitStalled, SubmitAnswers, escalationVars
<1>13. CASE shutdown \/ UNCHANGED vars
  BY <1>2, <1>13 DEF shutdown, vars, escalationVars
<1> QED BY <1>4, <1>5, <1>6, <1>7, <1>8, <1>9, <1>10, <1>11, <1>12, <1>13
        DEF Next, RunSteps

\* A cancelled agent is started again only by a request of its owner, whichever of
\* its runs ends or is escalated meanwhile, unless one of its turns raised.
THEOREM CancelsAreFinal == Spec => CancelIsFinal
<1> DEFINE Step == \A a \in Agents :
              owner[a] = "cancelled" /\ launched'[a] > launched[a]
                 => asked'[a] > asked[a]
<1>1. IInv /\ CancelInv /\ [Next]_vars => [Step]_vars
  <2> SUFFICES ASSUME IInv, CancelInv, Next, NEW a \in Agents,
                      owner[a] = "cancelled", launched'[a] > launched[a]
               PROVE  asked'[a] > asked[a]
    OBVIOUS
  <2>1. /\ launched \in [Agents -> Nat] /\ asked \in [Agents -> 0..MaxAsked]
        /\ status \in [Agents -> Statuses] /\ MaxAsked \in Nat
        /\ status[a] = "cancelled"
    BY LimitsAssumption DEF IInv, TypeOK, CancelInv
  <2>2. launched' # launched
    BY <2>1
  <2>3. ASSUME NEW b \in Agents, NEW st, CreateRun(b, st)
        PROVE  b = a
    BY <2>1, <2>3 DEF CreateRun
  <2>4. ASSUME NEW b \in Agents, NEW longrun \in BOOLEAN, spawn_subagent(b, longrun)
        PROVE  FALSE
    BY <2>1, <2>3, <2>4 DEF spawn_subagent
  <2>5. ASSUME NEW b \in Agents,
               send_message_to_subagent(b) \/ retry_subagent(b)
        PROVE  asked'[a] > asked[a]
    <3>1. b = a /\ Asked(b)
      BY <2>3, <2>5 DEF send_message_to_subagent, retry_subagent
    <3> QED BY <2>1, <3>1 DEF Asked
  <2>6. ASSUME NEW b \in Agents, NEW i \in Runs, Finally(b, i)
        PROVE  FALSE
    <3> DEFINE st == [stage[b] EXCEPT ![i] = "over"]
    <3>1. status[b] \in {"failed", "completed"} /\ CreateRun(b, st)
      BY <2>2, <2>6 DEF Finally, auto_escalate
    <3> QED BY <2>1, <2>3, <3>1
  <2>7. ASSUME NEW b \in Agents, NEW i \in Runs,
               \/ CancelledUnstarted(b, i) \/ Starts(b, i) \/ SetupFails(b, i)
               \/ TurnEnds(b, i) \/ TurnRaises(b, i) \/ TurnCancelled(b, i)
        PROVE  FALSE
    BY <2>2, <2>7 DEF CancelledUnstarted, Starts, SetupFails, TurnEnds,
                      TurnRaises, TurnCancelled
  <2>8. ASSUME NEW b \in Agents,
               \/ cancel_subagent(b) \/ SubmitAwaits(b) \/ SubmitStalled(b)
               \/ SubmitAnswers(b)
        PROVE  FALSE
    BY <2>2, <2>8 DEF cancel_subagent, SubmitAwaits, SubmitStalled, SubmitAnswers,
                      taskVars
  <2>9. CASE shutdown
    BY <2>2, <2>9 DEF shutdown
  <2> QED BY <2>4, <2>5, <2>6, <2>7, <2>8, <2>9 DEF Next, RunSteps
<1>2. Init => CancelInv
  BY DEF Init, CancelInv
<1>3. IInv /\ CancelInv /\ [Next]_vars => CancelInv'
  BY StepKeepsCancel
<1>4. Spec => [][Step]_vars
  BY <1>1, <1>2, <1>3, Invariance, PTL DEF Spec
<1> QED BY <1>4 DEF CancelIsFinal

=============================================================================
