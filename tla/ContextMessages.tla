--------------------------- MODULE ContextMessages ---------------------------
(***************************************************************************)
(* The rows of a conversation and what runtime/agent_runtime.py and        *)
(* runtime/compactor.py do to a list of them: repairing the pairing of     *)
(* tool calls with tool results, and replacing old rows by a summary.      *)
(*                                                                         *)
(* A row keeps what these functions look at: its role, the call a tool row *)
(* answers, the calls an assistant row makes, and whether it has text.     *)
(* System and user rows are told apart by a number only.                   *)
(***************************************************************************)
EXTENDS Naturals, Sequences, FiniteSets

Row == {r \in [role : {"note", "summary", "assistant", "tool"},
               of : Nat, calls : SUBSET Nat, text : BOOLEAN] :
          r.role # "assistant" => r.calls = {}}

Note(n) == [role |-> "note", of |-> n, calls |-> {}, text |-> TRUE]
Summary == [role |-> "summary", of |-> 0, calls |-> {}, text |-> TRUE]
Assistant(calls, text) == [role |-> "assistant", of |-> 0, calls |-> calls, text |-> text]
Result(c) == [role |-> "tool", of |-> c, calls |-> {}, text |-> TRUE]

-----------------------------------------------------------------------------
(* Pairing.                                                                 *)

\* Row j is in the contiguous block of tool rows right after row i.
InBlock(s, i, j) == i < j /\ \A k \in (i + 1)..j : s[k].role = "tool"

\* Seeded fault: an answer anywhere later in the history counts.
AnsweredLater(s, i) ==
    {c \in s[i].calls : \E j \in (i + 1)..Len(s) : s[j].role = "tool" /\ s[j].of = c}

\* The calls of assistant row i that its block answers.
Answered(s, i) ==
    {c \in s[i].calls : \E j \in DOMAIN s : InBlock(s, i, j) /\ s[j].of = c}

\* Seeded fault: only the row right after the call counts.
OwnedFirst(s, j) == j > 1 /\ s[j - 1].role = "assistant" /\ s[j].of \in s[j - 1].calls

\* Tool row j stays: the assistant row before its block made the call.
Owned(s, j) ==
    \E i \in DOMAIN s : s[i].role = "assistant" /\ InBlock(s, i, j) /\ s[j].of \in s[i].calls

\* Row i stays: a result that was asked for, an assistant row with an answered call
\* or with text, or any other row.
Stays(s, i) ==
    CASE s[i].role = "tool"      -> Owned(s, i)
      [] s[i].role = "assistant" -> Answered(s, i) # {} \/ s[i].text
      [] OTHER                   -> TRUE

\* What stays of row i.  A call without text gets a blank, so that what stays has text.
Kept(s, i) ==
    IF s[i].role = "assistant"
      THEN [s[i] EXCEPT !.calls = Answered(s, i), !.text = TRUE] ELSE s[i]

\* The number of positions in K up to i, and the one with number n.
upto(K, i) == Cardinality({j \in K : j <= i})
nth(K, n) == CHOOSE i \in K : upto(K, i) = n

\* _sanitize_context_messages: the rows that stay, in their order.
staying(s) == {i \in DOMAIN s : Stays(s, i)}
sanitize(s) == [n \in 1..Cardinality(staying(s)) |-> Kept(s, nth(staying(s), n))]

\* What a provider that is strict about pairing accepts: every call is answered
\* and every result asked for, right after the row that makes the call.
WellFormed(s) ==
    /\ \A j \in DOMAIN s : s[j].role = "tool" =>
          \E i \in DOMAIN s : InBlock(s, i, j) /\ s[i].role = "assistant" /\ s[j].of \in s[i].calls
    /\ \A i \in DOMAIN s : s[i].role = "assistant" =>
          /\ s[i].text
          /\ \A c \in s[i].calls : \E j \in DOMAIN s :
                InBlock(s, i, j) /\ s[j].role = "tool" /\ s[j].of = c

-----------------------------------------------------------------------------
(* Compaction.                                                              *)

\* The rows after an earlier summary.
working(s) == IF s # <<>> /\ s[1].role = "summary" THEN Tail(s) ELSE s

\* _split_for_compaction: how many rows are summarised.  The rest does not
\* begin with a tool row.
split_at(w, retain) ==
    CHOOSE n \in 0..(Len(w) - retain) :
       /\ n = 0 \/ w[n + 1].role # "tool"
       /\ \A m \in (n + 1)..(Len(w) - retain) : w[m + 1].role = "tool"

CanCompact(s, retain) ==
    Len(working(s)) > retain /\ split_at(working(s), retain) > 0

\* maybe_compact, when it does
compacted(s, retain) ==
    LET w == working(s)
    IN  <<Summary>> \o SubSeq(w, split_at(w, retain) + 1, Len(w))

=============================================================================
