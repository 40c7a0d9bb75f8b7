------------------------------ MODULE AgentTurn ------------------------------
(***************************************************************************)
(* AgentRuntime.run_turn of runtime/agent_runtime.py: the turns of one     *)
(* session, each a bounded number of rounds of a model call and a batch of *)
(* tool calls that run one after the other.                                *)
(*                                                                         *)
(* A turn keeps two lists: session.agent_messages, which outlives it and   *)
(* which others append to while the turn waits (a follow-up to a sub-agent *)
(* that runs, a forwarded message), and messages, the list the model is    *)
(* given.  synced counts the rows of the first that are in the second.     *)
(*                                                                         *)
(* Left out: rows that the loop puts between a batch and the next model    *)
(* call (anchors, hints, checkpoints, images), which split no batch; the   *)
(* counters behind the budget, the guards and the loop detector, each of   *)
(* which may here report at any time; the events, except that a turn ends. *)
(* One action is the code up to the next await.                            *)
(***************************************************************************)
EXTENDS ContextMessages, Functions

CONSTANTS
    MaxTurns,     \* bound: turns of the session
    MaxRounds,    \* max_tool_rounds
    MaxBatch,     \* bound: tool calls in one answer of the model
    MaxInjected,  \* bound: rows that others append
    MaxCalls,     \* bound: tool calls of the session
    Texts,        \* bound: has an answer with calls text?
    Persists,     \* bound: the values of persist_user_message
    Retain,       \* compactor.retain_recent_messages
    MaxTimeouts   \* LLM_ROUND_TIMEOUT_RETRY_LIMIT

ASSUME BoundsAssumption ==
    /\ MaxTurns \in Nat /\ MaxRounds \in Nat /\ MaxBatch \in Nat
    /\ MaxInjected \in Nat /\ MaxCalls \in Nat /\ Texts \subseteq BOOLEAN /\ Persists \subseteq BOOLEAN
    /\ Retain \in Nat \ {0} /\ MaxTimeouts \in Nat

VARIABLES
    pc,             \* where the turn is
    turn, round,    \* turns begun; rounds begun in this turn
    agent_messages, \* of the session
    messages,       \* of the turn
    synced,         \* synced_session_message_count
    calls,          \* the calls of the batch that were not begun
    callCount,      \* calls made so far; each has its number
    truncated,      \* force_retry_next_round
    snapshot,       \* the rows a compaction that waits works on
    proactive,      \* _proactive_compact_this_turn
    forced,         \* _forced_budget_compact_this_turn
    repaired,       \* _context_chain_repair_attempted
    reasonRetry,    \* reason_only_retry
    timeouts,       \* _llm_round_timeout_count of the session
    injected,       \* rows appended by others so far
    firstCall,      \* history: callCount when the turn began
    shown,          \* history: the last batch's results that no reminder precedes
    lost            \* history: rows that a compaction summarised or overwrote

latchVars == <<proactive, forced, repaired, reasonRetry>>
localVars == <<round, messages, synced, calls, truncated, latchVars, firstCall, shown>>
sessionVars == <<agent_messages, timeouts, injected, lost>>
turnVars == <<pc, turn, callCount, snapshot, localVars, sessionVars>>

Stages == {"idle", "phase", "starting", "begun", "round", "model", "compacting",
           "answered", "call", "tool", "halting"}

TurnTypeOK ==
    /\ pc \in Stages
    /\ turn \in 0..MaxTurns /\ round \in 0..MaxRounds
    /\ agent_messages \in Seq(Row) /\ messages \in Seq(Row)
    /\ synced \in Nat
    /\ calls \in Seq(Nat) /\ callCount \in Nat
    /\ truncated \in BOOLEAN
    /\ snapshot \in Seq(Row)
    /\ proactive \in BOOLEAN /\ forced \in BOOLEAN
    /\ repaired \in BOOLEAN /\ reasonRetry \in BOOLEAN
    /\ timeouts \in 0..MaxTimeouts
    /\ injected \in 0..MaxInjected
    /\ firstCall \in Nat /\ shown \subseteq Nat /\ lost \subseteq Nat

TurnInit ==
    /\ pc = "idle" /\ turn = 0 /\ round = 0
    /\ agent_messages = <<>> /\ messages = <<>> /\ synced = 0
    /\ calls = <<>> /\ callCount = 0 /\ truncated = FALSE
    /\ snapshot = <<>> /\ proactive = FALSE /\ forced = FALSE
    /\ repaired = FALSE /\ reasonRetry = FALSE
    /\ timeouts = 0 /\ injected = 0
    /\ firstCall = 0 /\ shown = {} /\ lost = {}

-----------------------------------------------------------------------------
Hint == Note(0)
Injected(s) == {s[i].of : i \in {j \in DOMAIN s : s[j].role = "note"}} \ {0}

\* Every way out of run_turn.  Its locals are gone, and its latches are not read
\* before the next turn clears them.
End ==
    /\ pc' = "idle"
    /\ round' = 0 /\ messages' = <<>> /\ synced' = 0
    /\ calls' = <<>> /\ truncated' = FALSE
    /\ proactive' = FALSE /\ forced' = FALSE /\ repaired' = FALSE /\ reasonRetry' = FALSE
    /\ firstCall' = callCount /\ shown' = {}

\* Another coroutine appends a row while the turn waits, or between turns.
Inject ==
    /\ injected < MaxInjected
    /\ pc # "answered"
    /\ injected' = injected + 1
    /\ agent_messages' = Append(agent_messages, Note(injected + 1))
    /\ UNCHANGED <<pc, turn, callCount, snapshot, localVars, timeouts, lost>>

-----------------------------------------------------------------------------
(* The start of a turn.                                                     *)

\* The user's row joins both lists; without persist_user_message only the second.
\* Then the hooks of the start are awaited.
Begin(agent, history, persist) ==
    /\ agent_messages' = IF persist THEN Append(agent, Hint) ELSE agent
    /\ messages' = Append(history, Hint)
    /\ pc' = "begun"

\* run_turn up to the compactor, which may wait for its summary: one that the
\* phases of a development task asked for, or its own.
StartTurn ==
    /\ pc = "idle" /\ turn < MaxTurns
    /\ turn' = turn + 1
    /\ LET history == sanitize(agent_messages)
       IN  \/ /\ \E persist \in Persists : Begin(agent_messages, history, persist)
              /\ UNCHANGED snapshot
           \/ /\ CanCompact(history, Retain)
              /\ pc' \in {"phase", "starting"} /\ snapshot' = history
              /\ UNCHANGED <<agent_messages, messages>>
    /\ UNCHANGED <<callCount, round, synced, calls, truncated, latchVars, timeouts, injected,
                   firstCall, shown, lost>>

\* The rows that replace the session's when the summary is there.
Replacement == sanitize(compacted(snapshot, Retain))

\* The injected rows that are gone then: summarised, or appended meanwhile.
Replaced == Injected(agent_messages) \ Injected(Replacement)

\* A compaction asked for by the phases replaces the session's rows as it is; the
\* compactor's own finds nothing to split after it.
PhaseCompacted ==
    LET rows == compacted(snapshot, Retain)
    IN  /\ pc = "phase"
        /\ \E persist \in Persists : Begin(rows, rows, persist)
        /\ lost' = lost \cup (Injected(agent_messages) \ Injected(rows))
        /\ snapshot' = <<>>
        /\ UNCHANGED <<turn, callCount, round, synced, calls, truncated, latchVars,
                       timeouts, injected, firstCall, shown>>

\* A replacement of one row is not used.
StartCompacted ==
    /\ pc = "starting"
    /\ \E persist \in Persists :
          IF Len(Replacement) <= 1
            THEN /\ Begin(agent_messages, snapshot, persist)
                 /\ UNCHANGED <<proactive, lost>>
            ELSE /\ Begin(Replacement, Replacement, persist)
                 /\ proactive' = TRUE
                 /\ lost' = lost \cup Replaced
    /\ snapshot' = <<>>
    /\ UNCHANGED <<turn, callCount, round, synced, calls, truncated, forced, repaired,
                   reasonRetry, timeouts, injected, firstCall, shown>>

\* The session's rows are counted: those that came during the hooks, too.
Begun ==
    /\ pc = "begun"
    /\ synced' = Len(agent_messages)
    /\ pc' = "round"
    /\ UNCHANGED <<turn, callCount, snapshot, round, messages, calls, truncated, latchVars,
                   firstCall, shown, sessionVars>>

-----------------------------------------------------------------------------
(* A round.                                                                 *)

\* Seeded fault: the rows that were taken over are not counted.
taken_uncounted(n) == synced

\* synced_session_message_count after n rows were seen
taken(n) == IF n > synced THEN n ELSE synced

\* The rows that others appended are taken over, and the model is called.
RoundStarts ==
    /\ pc = "round" /\ round < MaxRounds
    /\ round' = round + 1
    /\ messages' = sanitize(messages \o
                     sanitize(SubSeq(agent_messages, synced + 1, Len(agent_messages))))
    /\ synced' = taken(Len(agent_messages))
    /\ pc' = "model" /\ truncated' = FALSE
    /\ UNCHANGED <<turn, callCount, snapshot, calls, latchVars, firstCall, shown, sessionVars>>

\* The rounds are used up; or a stop request is seen, at a round, while the model
\* is called, before a tool or while it runs; or a sub-agent that writes nothing
\* but confirmation files is ended, its last result dropped.
Stops ==
    /\ pc \in {"round", "model", "call", "tool"}
    /\ End
    /\ UNCHANGED <<turn, callCount, snapshot, sessionVars>>

\* The next round is begun, with nothing changed but what the action says.
NextRound ==
    /\ pc' = "round"
    /\ UNCHANGED <<round, synced, calls, truncated, proactive, reasonRetry, firstCall, shown>>

\* Seeded fault: the call is repeated without a new round.
ModelTimesOutAgain ==
    /\ pc = "model" /\ timeouts < MaxTimeouts
    /\ timeouts' = timeouts + 1
    /\ UNCHANGED <<pc, turn, callCount, snapshot, localVars, agent_messages, injected, lost>>

\* No answer in time: one more round is tried.
ModelTimesOut ==
    /\ pc = "model"
    /\ IF timeouts < MaxTimeouts
         THEN /\ timeouts' = timeouts + 1
              /\ messages' = Append(messages, Hint)
              /\ NextRound /\ UNCHANGED <<forced, repaired>>
         ELSE End /\ UNCHANGED timeouts
    /\ UNCHANGED <<turn, callCount, snapshot, agent_messages, injected, lost>>

\* The session's rows after a repair
repaired_agent == sanitize(agent_messages)

\* The call raises, or its answer exceeds the budget.  A turn of the meta agent
\* shortens its prompt once; a broken history is repaired once; anything else
\* ends the turn.
ModelFails ==
    /\ pc = "model"
    /\ \/ End /\ UNCHANGED agent_messages
       \/ /\ ~forced /\ forced' = TRUE
          /\ NextRound /\ UNCHANGED <<messages, agent_messages, repaired>>
       \/ /\ ~repaired /\ repaired' = TRUE
          /\ sanitize(agent_messages) # agent_messages
          /\ agent_messages' = repaired_agent
          /\ NextRound /\ UNCHANGED <<messages, forced>>
    /\ UNCHANGED <<turn, callCount, snapshot, timeouts, injected, lost>>

\* An answer with n calls.  Streamed calls that came truncated are dropped, and
\* a hint joins both lists.  The budget may ask for a compaction, once in a turn
\* and never after one at its start.
ModelAnswers(n, cut) ==
    /\ pc = "model" /\ callCount + n <= MaxCalls
    /\ calls' = [k \in 1..n |-> callCount + k]
    /\ callCount' = callCount + n
    /\ truncated' = cut
    /\ timeouts' = 0
    /\ messages' = IF cut THEN Append(messages, Hint) ELSE messages
    /\ agent_messages' = IF cut THEN Append(agent_messages, Hint) ELSE agent_messages
    /\ LET history == sanitize(agent_messages')
       IN  \/ /\ pc' = "answered" /\ UNCHANGED <<forced, snapshot>>
           \/ /\ ~forced /\ ~proactive /\ forced' = TRUE
              /\ IF CanCompact(history, Retain)
                   THEN pc' = "compacting" /\ snapshot' = history
                   ELSE pc' = "answered" /\ UNCHANGED snapshot
    /\ UNCHANGED <<turn, round, synced, proactive, repaired, reasonRetry, injected,
                   firstCall, shown, lost>>

\* The summary replaces both lists, whatever was appended meanwhile.
Compacted ==
    /\ pc = "compacting"
    /\ IF Len(Replacement) <= 1
         THEN UNCHANGED <<agent_messages, messages, shown, lost>>
         ELSE /\ agent_messages' = Replacement
              /\ messages' = Replacement
              /\ shown' = {}
              /\ lost' = lost \cup Replaced
    /\ pc' = "answered" /\ snapshot' = <<>>
    /\ UNCHANGED <<turn, callCount, round, synced, calls, truncated, latchVars, timeouts,
                   injected, firstCall>>

-----------------------------------------------------------------------------
(* What an answer leads to.                                                 *)

\* Calls that were dropped as truncated, or an answer that a guard rejects: one
\* more round, after a rejected answer with a nudge in both lists.
AnswerAgain ==
    /\ pc = "answered" /\ calls = <<>>
    /\ IF truncated
         THEN UNCHANGED <<agent_messages, messages>>
         ELSE /\ agent_messages' = agent_messages \o <<Assistant({}, TRUE), Hint>>
              /\ messages' = messages \o <<Assistant({}, TRUE), Hint>>
    /\ NextRound
    /\ UNCHANGED <<turn, callCount, snapshot, forced, repaired, timeouts, injected, lost>>

\* An answer with nothing but reasoning is asked for again, once in a turn.
ReasoningOnly ==
    /\ pc = "answered" /\ calls = <<>> /\ ~truncated /\ ~reasonRetry
    /\ reasonRetry' = TRUE
    /\ synced' = Len(agent_messages) + 1
    /\ agent_messages' = agent_messages \o
                           <<Assistant({}, TRUE), Assistant({}, FALSE), Hint>>
    /\ messages' = messages \o <<Assistant({}, FALSE), Hint>>
    /\ pc' = "round"
    /\ UNCHANGED <<turn, callCount, snapshot, round, calls, truncated, proactive, forced,
                   repaired, timeouts, injected, firstCall, shown, lost>>

\* The final answer.
Answer ==
    /\ pc = "answered" /\ calls = <<>> /\ ~truncated
    /\ agent_messages' = Append(agent_messages, Assistant({}, TRUE))
    /\ End
    /\ UNCHANGED <<turn, callCount, snapshot, timeouts, injected, lost>>

\* The calls are recorded before the first of them is begun.
BeginBatch(text) ==
    /\ pc = "answered" /\ calls # <<>>
    /\ agent_messages' = Append(agent_messages, Assistant(Range(calls), text))
    /\ synced' = Len(agent_messages')
    /\ messages' = Append(messages, Assistant(Range(calls), text))
    /\ shown' = {}
    /\ pc' = "call"
    /\ UNCHANGED <<turn, callCount, snapshot, round, calls, truncated, latchVars, timeouts,
                   injected, firstCall, lost>>

-----------------------------------------------------------------------------
(* The batch.                                                               *)

\* Seeded fault: a call that is refused leaves no result.
refusal_silent(c) == <<>>

\* The reason a call was refused is its result.
refusal(c) == <<Result(c)>>

\* A reminder that came within this batch hides the results after it.
Reminded(c) ==
    \E i, j \in DOMAIN messages :
       i < j /\ c \in messages[i].calls /\ messages[j].role = "note"

\* The next call of the batch, or the next round.
AfterCall ==
    /\ calls' = Tail(calls)
    /\ pc' = IF Tail(calls) = <<>> THEN "round" ELSE "call"
    /\ synced' = Len(agent_messages')
    /\ UNCHANGED <<round, truncated, latchVars, firstCall>>

\* A call that is invalid, denied, not allowed, or blocked by a hook.  A status
\* query of the meta agent that comes too soon is refused and ends the turn.
Refused ==
    /\ pc = "call"
    /\ agent_messages' = agent_messages \o refusal(Head(calls))
    /\ \/ End
       \/ /\ messages' = messages \o refusal(Head(calls))
          /\ shown' = IF Reminded(Head(calls)) THEN shown ELSE shown \cup {Head(calls)}
          /\ AfterCall
    /\ UNCHANGED <<turn, callCount, snapshot, timeouts, injected, lost>>

Dispatch ==
    /\ pc = "call"
    /\ pc' = "tool"
    /\ UNCHANGED <<turn, callCount, snapshot, localVars, sessionVars>>

\* The tool returned or raised: either is its result.  The loop detector may put
\* a reminder before it.
ToolReturns(warned) ==
    LET c == Head(calls)
    IN  /\ pc = "tool"
        /\ agent_messages' = Append(agent_messages, Result(c))
        /\ messages' = messages \o (IF warned THEN <<Hint, Result(c)>> ELSE <<Result(c)>>)
        /\ shown' = IF warned \/ Reminded(c) THEN shown ELSE shown \cup {c}
        /\ AfterCall
        /\ UNCHANGED <<turn, callCount, snapshot, timeouts, injected, lost>>

\* A critical loop: the rest of the batch gets results that say so, and the model
\* is asked for a summary.
LoopHalts ==
    LET rest == [k \in DOMAIN calls |-> Result(calls[k])]
    IN  /\ pc = "tool"
        /\ agent_messages' = agent_messages \o rest
        /\ synced' = Len(agent_messages')
        /\ messages' = messages \o <<Hint>> \o rest \o <<Hint>>
        /\ calls' = <<>>
        /\ pc' = "halting"
        /\ UNCHANGED <<turn, callCount, snapshot, round, truncated, latchVars, timeouts,
                       injected, firstCall, shown, lost>>

\* The summary, or a default text when the model has none.
Halted ==
    /\ pc = "halting"
    /\ agent_messages' = Append(agent_messages, Assistant({}, TRUE))
    /\ End
    /\ UNCHANGED <<turn, callCount, snapshot, timeouts, injected, lost>>

-----------------------------------------------------------------------------
Step ==
    \/ PhaseCompacted \/ StartCompacted \/ Begun \/ RoundStarts \/ Stops \/ ModelTimesOut \/ ModelFails
    \/ \E n \in 0..MaxBatch, cut \in BOOLEAN : ModelAnswers(n, cut)
    \/ Compacted \/ AnswerAgain \/ ReasoningOnly \/ Answer
    \/ \E text \in Texts : BeginBatch(text)
    \/ Refused \/ Dispatch
    \/ \E warned \in BOOLEAN : ToolReturns(warned)
    \/ LoopHalts \/ Halted

TurnNext == StartTurn \/ Step \/ Inject

TurnSpec == TurnInit /\ [][TurnNext]_turnVars

=============================================================================
