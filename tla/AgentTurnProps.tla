---------------------------- MODULE AgentTurnProps ----------------------------
(***************************************************************************)
(* What AgentTurn must satisfy.                                            *)
(***************************************************************************)
EXTENDS AgentTurn

Results(s) == {s[i].of : i \in {j \in DOMAIN s : s[j].role = "tool"}}

\* Nothing but results and reminders is between row i and row j.
Follows(s, i, j) == i < j /\ \A k \in (i + 1)..j : s[k].role = "tool" \/ s[k] = Hint

\* Reminders aside, every result follows its call and every call has one.
Paired(s) ==
    /\ \A j \in DOMAIN s : s[j].role = "tool" =>
          \E i \in DOMAIN s : Follows(s, i, j) /\ s[i].role = "assistant" /\ s[j].of \in s[i].calls
    /\ \A i \in DOMAIN s : s[i].role = "assistant" =>
          \A c \in s[i].calls : \E j \in DOMAIN s :
             Follows(s, i, j) /\ s[j].role = "tool" /\ s[j].of = c

\* Whatever stopped an earlier turn, and whatever others appended, a round calls
\* the model with every call answered right after it and every answer asked for,
\* and a compaction does not part a call from its results.  The summary of a
\* halted loop is asked for with rows that were not repaired: there it is so but
\* for reminders, which may stand between the batch and its results.
PairsStayTogether ==
    /\ pc = "model" => WellFormed(messages)
    /\ pc = "halting" => Paired(messages)
    /\ pc \in {"phase", "starting", "compacting"} => WellFormed(Tail(compacted(snapshot, Retain)))

\* Every path through a batch leaves a result for each of its calls: when the
\* model is called again, no call of this turn is open in the session.
BatchIsAnswered ==
    pc = "model" => \A i \in DOMAIN agent_messages : \A c \in agent_messages[i].calls :
                       c > firstCall => c \in Results(agent_messages)

\* The model sees the results of the batch it asked for, those after a loop
\* reminder excepted.
ResultsAreShown == pc = "model" => shown \subseteq Results(messages)

\* A row that others append meanwhile is given to the model once at most, while
\* no compaction of this turn moved the rows, and stays in the session for the
\* turns to come, unless a compaction summarised it or was waiting when it came.
RowsOfOthers ==
    /\ pc = "model" /\ ~forced =>
          \A n \in 1..MaxInjected : Cardinality({i \in DOMAIN messages : messages[i] = Note(n)}) <= 1
    /\ 1..injected \subseteq Injected(agent_messages) \cup lost

\* How far a turn is from its end: the rounds left, then the steps left in this
\* round.
StepsLeft ==
    CASE pc = "idle"       -> 0
      [] pc = "halting"    -> 1
      [] pc = "round"      -> 0
      [] pc = "call"       -> 2 * Len(calls) + 1
      [] pc = "tool"       -> 2 * Len(calls)
      [] pc = "answered"   -> 2 * MaxBatch + 2
      [] pc = "compacting" -> 2 * MaxBatch + 3
      [] pc = "model"      -> 2 * MaxBatch + 4
      [] pc = "begun"      -> 1
      [] pc \in {"phase", "starting"} -> 2

Rank == (MaxRounds - round) * (2 * MaxBatch + 5) + StepsLeft

\* Whatever is retried (a timeout, a truncated or rejected answer, a repair, a
\* shorter prompt) takes a round: every step brings the turn nearer to its end.
TurnAdvances == [][pc # "idle" /\ ~Inject => pc' = "idle" \/ Rank' < Rank]_turnVars

=============================================================================
