----------------------------- MODULE Transcript -----------------------------
(***************************************************************************)
(* Conversation histories as the agent keeps them and providers demand     *)
(* them.  A message is told apart by its role, by the number of tool calls *)
(* it makes and by the call it answers; the calls of a message are         *)
(* numbered in the order in which the agent answers them.                  *)
(***************************************************************************)
EXTENDS Naturals, Sequences, FiniteSets, SequencesExt

Prompt == [role |-> "user", calls |-> 0, answers |-> 0]
Picture == [role |-> "user", calls |-> 0, answers |-> 0]
Answer == [role |-> "assistant", calls |-> 0, answers |-> 0]
ToolCalls(n) == [role |-> "assistant", calls |-> n, answers |-> 0]
Result(k) == [role |-> "tool", calls |-> 0, answers |-> k]

Messages(maxCalls) ==
    {Prompt, Answer} \cup {ToolCalls(n) : n \in 1..maxCalls}
                     \cup {Result(k) : k \in 1..maxCalls}

(* One result for each of n calls, in their order.                         *)
Results(n) == [k \in 1..n |-> Result(k)]

(* Every tool call is followed by its results, and every result follows    *)
(* its call: what providers accept.                                        *)
WellFormed(h) ==
    /\ \A i \in DOMAIN h : \A k \in 1..h[i].calls :
         i + k <= Len(h) /\ h[i + k] = Result(k)
    /\ \A j \in DOMAIN h : h[j].role = "tool" =>
         h[j].answers < j /\ h[j - h[j].answers].calls >= h[j].answers

(* Where the user speaks.                                                  *)
UserIndices(h) == {i \in DOMAIN h : h[i].role = "user"}

(* A summary of the old messages and the last rounds as they were.         *)
Compacted(h, rounds) ==
    LET split == CHOOSE i \in UserIndices(h) :
                   Cardinality({j \in UserIndices(h) : j >= i}) = rounds
    IN  <<Prompt, Answer>> \o SubSeq(h, split, Len(h))

Compactable(h, rounds) ==
    /\ Cardinality(UserIndices(h)) > rounds
    /\ Len(Compacted(h, rounds)) < Len(h)
=============================================================================
