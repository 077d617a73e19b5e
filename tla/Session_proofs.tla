---------------------------- MODULE Session_proofs ----------------------------
(***************************************************************************)
(* Theorems about a session: the runs of its agent (AgentRun) and what     *)
(* keeps its work (MCSavedWork).                                           *)
(*                                                                         *)
(* AgentRun, for any limits and any number of runs: the token budget is    *)
(* exceeded by less than one response, the user sees no delta of another   *)
(* stream than that of the request under way, and what is sent and kept of *)
(* the conversation is a history providers accept.                         *)
(*                                                                         *)
(* MCSavedWork, for any processes, sessions, files and edits: an edit is   *)
(* whole or leaves nothing, a snapshot holds the tree of its turn and a    *)
(* restore ends in the tree it promised, and a save that answers has saved *)
(* the conversation, over nothing its process has not read.                *)
(***************************************************************************)
EXTENDS AgentRun, MCSavedWork, SequenceTheorems, FiniteSetTheorems, WellFoundedInduction, TLAPS

(* A request is made while tokens are left.                                *)
BudgetInv ==
    /\ spent \in Nat
    /\ at \in {"compacting", "requesting"} => BudgetLeft
    /\ BudgetExceededByOne

(* Streams left behind are those of runs before the one under way, and of  *)
(* the run under way there is one.                                         *)
StreamInv ==
    /\ generation \in Nat
    /\ \A s \in detached : s[1] \in Nat /\ s[1] <= generation
    /\ at \notin {"idle", "compacting by hand"} => \A s \in detached : s[1] < generation
    /\ OneVoice
-----------------------------------------------------------------------------
(*                               The budget                                *)

(* A response that costs no more than the dearest, paid while tokens were  *)
(* left.                                                                   *)
LEMMA OneResponse ==
    ASSUME BudgetInv, BudgetLeft, NEW c \in Costs, spent' = spent + c
    PROVE  spent' \in Nat /\ BudgetExceededByOne'
<1>1. \A k \in Costs : k \in Nat
  BY AgentRunAssumption
<1>2. TokenBudget \in Nat
  BY AgentRunAssumption
<1>3. ASSUME NEW k \in Costs, \A d \in Costs : d <= k PROVE spent' < TokenBudget + k
  <2>1. c <= k
    BY <1>3
  <2>. QED
    BY <1>1, <1>2, <2>1 DEF BudgetInv, BudgetLeft
<1>. QED
  BY <1>1, <1>3 DEF BudgetInv, BudgetExceededByOne

(* Nothing is spent at first.                                              *)
LEMMA BudgetInit == Init => BudgetInv
<1>1. TokenBudget \in Nat \ {0} /\ Costs \subseteq Nat
  BY AgentRunAssumption
<1>. QED
  BY <1>1 DEF Init, BudgetInv, BudgetExceededByOne

(* Only who saw tokens left spends more.                                   *)
LEMMA BudgetStep == BudgetInv /\ [Next]_vars => BudgetInv'
<1> SUFFICES ASSUME BudgetInv, [Next]_vars PROVE BudgetInv'
  OBVIOUS
<1>1. ASSUME UNCHANGED spent,
             at' \in {"compacting", "requesting"} => BudgetLeft
      PROVE  BudgetInv'
  BY <1>1 DEF BudgetInv, BudgetLeft, BudgetExceededByOne
<1>2. ASSUME NEW c \in Costs, BudgetLeft, spent' = spent + c,
             at' \in {"compacting", "requesting"} => spent' < TokenBudget
      PROVE  BudgetInv'
  BY <1>2, OneResponse DEF BudgetInv, BudgetLeft
<1>3. ASSUME spent' = 0, at' \notin {"compacting", "requesting"}
      PROVE  BudgetInv'
  <2>1. TokenBudget \in Nat \ {0} /\ Costs \subseteq Nat
    BY AgentRunAssumption
  <2>. QED
    BY <1>3, <2>1 DEF BudgetInv, BudgetExceededByOne
<1>4. CASE Loop
  BY <1>1, <1>4 DEF Loop, RequestOrEnd, Request, End
<1>5. CASE Compact
  <2>1. CASE UNCHANGED spent
    BY <1>1, <1>5, <2>1 DEF Compact, BudgetInv
  <2>2. CASE ~UNCHANGED spent
    <3>1. PICK c \in Costs : spent' = spent + c
      BY <1>5, <2>2 DEF Compact
    <3>2. BudgetLeft
      BY <1>5 DEF Compact, BudgetInv
    <3>3. at' = "requesting" => spent' < TokenBudget
      BY <1>5, <2>2 DEF Compact, End
    <3>4. at' \in {"idle", "requesting"}
      BY <1>5, <2>2 DEF Compact, End
    <3>. QED
      BY <1>2, <3>1, <3>2, <3>3, <3>4
  <2>. QED
    BY <2>1, <2>2
<1>6. CASE Receive
  <2>1. PICK c \in Costs : spent' = spent + c
    BY <1>6 DEF Receive
  <2>. QED
    BY <1>2, <1>6, <2>1 DEF Receive, BudgetInv
<1>7. CASE CompactedByHand
  <2>1. CASE UNCHANGED spent
    BY <1>1, <1>7, <2>1 DEF CompactedByHand, End
  <2>2. CASE ~UNCHANGED spent
    <3>1. PICK c \in Costs : BudgetLeft /\ spent' = spent + c
      BY <1>7, <2>2 DEF CompactedByHand
    <3>. QED
      BY <1>2, <1>7, <3>1 DEF CompactedByHand, End
  <2>. QED
    BY <2>1, <2>2
<1>8. CASE Run \/ Clear
  BY <1>3, <1>8 DEF Run, Clear, Running
<1>9. CASE Prepare \/ Dispatch \/ ToolsDone \/ Record \/ ToolsFail \/ Stop \/ TaskCanceled \/ CompactByHand
  BY <1>1, <1>9 DEF Prepare, Dispatch, ToolsDone, Record, ToolsFail, Stop, TaskCanceled,
                    CompactByHand, End
<1>10. CASE Delta \/ LateDelta \/ RequestFails \/ Cancel \/ UNCHANGED vars
  BY <1>1, <1>10 DEF Delta, LateDelta, RequestFails, Cancel, vars, End, BudgetInv
<1>. QED
  BY <1>4, <1>5, <1>6, <1>7, <1>8, <1>9, <1>10 DEF Next, Step
-----------------------------------------------------------------------------
(*                               The streams                               *)

LEMMA StreamInit == Init => StreamInv
BY DEF Init, StreamInv, OneVoice

(* A step leaves behind no stream but that of the request that ends.       *)
LEMMA StreamStep == StreamInv /\ [Next]_vars => StreamInv'
<1> SUFFICES ASSUME StreamInv, [Next]_vars PROVE StreamInv'
  OBVIOUS
(* Nothing was shown yet, nor is anything left behind anew.                *)
<1>1. ASSUME UNCHANGED generation, detached' \subseteq detached,
             at' \notin {"idle", "compacting by hand"} => at \notin {"idle", "compacting by hand"},
             at' = "requesting" => shown' = {}
      PROVE  StreamInv'
  BY <1>1 DEF StreamInv, OneVoice
(* The run is over and may leave its stream behind.                        *)
<1>2. ASSUME UNCHANGED generation, at' = "idle", Detach \/ UNCHANGED detached
      PROVE  StreamInv'
  <2>1. \A s \in detached' : s \in detached \/ s = <<generation, turn>>
    BY <1>2 DEF Detach
  <2>2. \A s \in detached' : s[1] \in Nat /\ s[1] <= generation
    <3> TAKE s \in detached'
    <3>1. generation \in Nat
      BY DEF StreamInv
    <3>2. CASE s \in detached
      BY <3>2 DEF StreamInv
    <3>3. CASE s = <<generation, turn>>
      <4>1. s[1] = generation
        BY <3>3
      <4>. QED
        BY <3>1, <4>1
    <3>. QED
      BY <2>1, <3>2, <3>3
  <2>. QED
    BY <1>2, <2>2 DEF StreamInv, OneVoice
<1>3. CASE Run
  BY <1>3 DEF Run, Running, StreamInv, OneVoice
<1>4. CASE Prepare \/ Loop \/ Compact \/ Receive \/ Dispatch \/ ToolsDone \/ Record \/ ToolsFail
           \/ Clear \/ CompactByHand \/ CompactedByHand
  BY <1>1, <1>4 DEF Prepare, Loop, RequestOrEnd, Request, Compact, Receive, Dispatch, ToolsDone,
                    Record, ToolsFail, Clear, CompactByHand, CompactedByHand, End, Running
<1>5. CASE Stop \/ TaskCanceled
  BY <1>2, <1>5 DEF Stop, TaskCanceled, End
<1>6. CASE Delta
  BY <1>6 DEF Delta, StreamInv, OneVoice, runVars
<1>7. CASE LateDelta
  <2>1. PICK s \in detached : (MayShow(s) /\ UNCHANGED detached)
                              \/ (detached' = detached \ {s} /\ UNCHANGED shown)
    BY <1>7 DEF LateDelta
  <2>2. UNCHANGED <<generation, at, turn, emitted>>
    BY <1>7 DEF LateDelta, runVars
  <2>3. CASE MayShow(s)
    <3>1. at # "requesting"
      <4>1. s[1] = generation
        BY <2>3, Zenon DEF MayShow
      <4>2. at = "requesting" => s[1] < generation
        BY DEF StreamInv
      <4>3. generation \in Nat
        BY DEF StreamInv
      <4>. QED
        BY <4>1, <4>2, <4>3
    <3>. QED
      BY <2>1, <2>2, <3>1 DEF StreamInv, OneVoice
  <2>4. CASE ~MayShow(s)
    BY <2>1, <2>2, <2>4 DEF StreamInv, OneVoice
  <2>. QED
    BY <2>3, <2>4
<1>8. CASE RequestFails
  <2>1. CASE at' = "idle"
    BY <1>2, <1>8, <2>1 DEF RequestFails, End
  <2>2. CASE at' # "idle"
    <3>1. Retryable /\ UNCHANGED <<at, generation, shown, detached>> /\ at = "requesting"
      BY <1>8, <2>2 DEF RequestFails, End
    <3>2. shown' = {}
      BY <3>1 DEF Retryable, StreamInv, OneVoice
    <3>. QED
      BY <1>1, <3>1, <3>2
  <2>. QED
    BY <2>1, <2>2
<1>9. CASE Cancel \/ UNCHANGED vars
  BY <1>9 DEF Cancel, vars, runVars, streamVars, StreamInv, OneVoice
<1>. QED
  BY <1>3, <1>4, <1>5, <1>6, <1>7, <1>8, <1>9 DEF Next, Step
-----------------------------------------------------------------------------
(*                              The transcript                             *)

Histories == Seq(Messages(MaxCalls))

(* The messages there are, and the numbers in them.                        *)
LEMMA MessageTypes ==
    /\ MaxCalls \in Nat
    /\ \A m \in Messages(MaxCalls) : m.calls \in 0..MaxCalls /\ m.answers \in 0..MaxCalls
    /\ Prompt \in Messages(MaxCalls) /\ Answer \in Messages(MaxCalls)
    /\ Picture \in Messages(MaxCalls)
    /\ \A n \in 1..MaxCalls : ToolCalls(n) \in Messages(MaxCalls) /\ Result(n) \in Messages(MaxCalls)
<1>1. MaxCalls \in Nat
  BY AgentRunAssumption
<1>2. ASSUME NEW m \in Messages(MaxCalls) PROVE m.calls \in 0..MaxCalls /\ m.answers \in 0..MaxCalls
  <2>1. CASE m \in {Prompt, Answer}
    BY <1>1, <2>1 DEF Prompt, Answer
  <2>2. CASE \E n \in 1..MaxCalls : m = ToolCalls(n)
    BY <1>1, <2>2 DEF ToolCalls
  <2>3. CASE \E n \in 1..MaxCalls : m = Result(n)
    BY <1>1, <2>3 DEF Result
  <2>. QED
    BY <2>1, <2>2, <2>3 DEF Messages
<1>3. Picture = Prompt
  BY DEF Picture, Prompt
<1>. QED
  BY <1>1, <1>2, <1>3 DEF Messages

(* What no call is made or answered in is well formed.                     *)
LEMMA TalkWellFormed ==
    ASSUME NEW h \in Histories, \A i \in 1..Len(h) : h[i].calls = 0 /\ h[i].role # "tool"
    PROVE  WellFormed(h)
<1>1. DOMAIN h = 1..Len(h)
  BY DEF Histories
<1>2. 1..0 = {}
  OBVIOUS
<1>. QED
  BY <1>1, <1>2 DEF WellFormed

(* Well-formed histories follow each other.                                *)
LEMMA JoinedWellFormed ==
    ASSUME NEW s \in Histories, NEW t \in Histories, WellFormed(s), WellFormed(t)
    PROVE  s \o t \in Histories /\ WellFormed(s \o t)
<1> DEFINE h == s \o t
<1>1. /\ h \in Histories /\ Len(h) = Len(s) + Len(t) /\ Len(s) \in Nat /\ Len(t) \in Nat
      /\ \A i \in 1..Len(s) : h[i] = s[i]
      /\ \A i \in 1..Len(t) : h[Len(s) + i] = t[i]
  BY ConcatProperties, LenProperties DEF Histories
<1>2. DOMAIN h = 1..Len(h) /\ DOMAIN s = 1..Len(s) /\ DOMAIN t = 1..Len(t)
  BY <1>1 DEF Histories
<1>3. \A i \in 1..Len(h) : i \in 1..Len(s) \/ \E k \in 1..Len(t) : i = Len(s) + k
  <2> TAKE i \in 1..Len(h)
  <2>1. CASE i <= Len(s)
    BY <1>1, <2>1
  <2>2. CASE i > Len(s)
    <3>1. i - Len(s) \in 1..Len(t) /\ i = Len(s) + (i - Len(s))
      BY <1>1, <2>2
    <3>. QED
      BY <3>1
  <2>. QED
    BY <1>1, <2>1, <2>2
<1>4. \A i \in 1..Len(h) : h[i] \in Messages(MaxCalls)
  BY <1>1 DEF Histories
<1> HIDE DEF h
<1>5. ASSUME NEW i \in 1..Len(h), NEW k \in 1..h[i].calls
      PROVE  i + k <= Len(h) /\ h[i + k] = Result(k)
  <2>0. h[i].calls \in Nat
    BY <1>4, MessageTypes
  <2>1. CASE i \in 1..Len(s)
    <3>1. k \in 1..s[i].calls
      BY <1>1, <2>1
    <3>2. i + k <= Len(s) /\ s[i + k] = Result(k)
      BY <1>2, <2>1, <3>1 DEF WellFormed
    <3>. QED
      BY <1>1, <2>0, <2>1, <3>2
  <2>2. CASE \E j \in 1..Len(t) : i = Len(s) + j
    <3>1. PICK j \in 1..Len(t) : i = Len(s) + j
      BY <2>2
    <3>2. k \in 1..t[j].calls
      BY <1>1, <3>1
    <3>3. j + k <= Len(t) /\ t[j + k] = Result(k)
      BY <1>2, <3>1, <3>2 DEF WellFormed
    <3>4. j + k \in 1..Len(t) /\ i + k = Len(s) + (j + k)
      BY <1>1, <2>0, <3>1, <3>3
    <3>. QED
      BY <1>1, <3>3, <3>4
  <2>. QED
    BY <1>3, <2>1, <2>2
<1>6. ASSUME NEW i \in 1..Len(h), h[i].role = "tool"
      PROVE  h[i].answers < i /\ h[i - h[i].answers].calls >= h[i].answers
  <2>0. h[i].answers \in Nat
    BY <1>4, MessageTypes
  <2>1. CASE i \in 1..Len(s)
    <3>1. s[i].answers < i /\ s[i - s[i].answers].calls >= s[i].answers
      BY <1>1, <1>2, <1>6, <2>1 DEF WellFormed
    <3>2. i - s[i].answers \in 1..Len(s)
      BY <1>1, <2>0, <2>1, <3>1
    <3>. QED
      BY <1>1, <2>1, <3>1, <3>2
  <2>2. CASE \E j \in 1..Len(t) : i = Len(s) + j
    <3>1. PICK j \in 1..Len(t) : i = Len(s) + j
      BY <2>2
    <3>2. t[j].answers < j /\ t[j - t[j].answers].calls >= t[j].answers /\ h[i] = t[j]
      BY <1>1, <1>2, <1>6, <3>1 DEF WellFormed
    <3>3. j - t[j].answers \in 1..Len(t) /\ i - t[j].answers = Len(s) + (j - t[j].answers)
      BY <1>1, <2>0, <3>1, <3>2
    <3>4. h[i - t[j].answers] = t[j - t[j].answers]
      BY <1>1, <3>3
    <3>. QED
      BY <1>1, <2>0, <3>1, <3>2, <3>4
  <2>. QED
    BY <1>3, <2>1, <2>2
<1>. QED
  BY <1>1, <1>2, <1>5, <1>6 DEF WellFormed, h

(* A batch and one result for each of its calls are well formed.           *)
LEMMA BatchWellFormed ==
    ASSUME NEW n \in 1..MaxCalls
    PROVE  /\ Results(n) \in Histories
           /\ <<ToolCalls(n)>> \o Results(n) \in Histories
           /\ WellFormed(<<ToolCalls(n)>> \o Results(n))
<1> DEFINE h == <<ToolCalls(n)>> \o Results(n)
<1>0. n \in Nat /\ \A k \in 1..n : k \in 1..MaxCalls
  BY MessageTypes
<1>1. Results(n) \in Histories /\ Len(Results(n)) = n /\ \A k \in 1..n : Results(n)[k] = Result(k)
  BY <1>0, MessageTypes DEF Results, Histories
<1>2. <<ToolCalls(n)>> \in Histories /\ Len(<<ToolCalls(n)>>) = 1
  BY MessageTypes DEF Histories
<1>3. /\ h \in Histories /\ Len(h) = n + 1
      /\ \A i \in 1..n + 1 : h[i] = IF i <= 1 THEN <<ToolCalls(n)>>[i] ELSE Results(n)[i - 1]
  BY <1>0, <1>1, <1>2, ConcatProperties DEF Histories
<1>4. h[1] = ToolCalls(n) /\ \A k \in 1..n : h[1 + k] = Result(k)
  <2>1. h[1] = ToolCalls(n)
    BY <1>0, <1>3
  <2>2. ASSUME NEW k \in 1..n PROVE h[1 + k] = Result(k)
    <3>1. 1 + k \in 1..n + 1 /\ ~(1 + k <= 1) /\ (1 + k) - 1 = k
      BY <1>0
    <3>2. h[1 + k] = Results(n)[(1 + k) - 1]
      BY <1>3, <3>1
    <3>. QED
      BY <1>1, <3>1, <3>2
  <2>. QED
    BY <2>1, <2>2
<1>5. DOMAIN h = 1..n + 1
  BY <1>3 DEF Histories
<1> HIDE DEF h
<1>6. \A i \in 1..n + 1 : i = 1 \/ \E k \in 1..n : i = 1 + k
  <2> TAKE i \in 1..n + 1
  <2>1. i # 1 => i - 1 \in 1..n /\ i = 1 + (i - 1)
    BY <1>0
  <2>. QED
    BY <2>1
<1>7. ToolCalls(n).calls = n /\ ToolCalls(n).role # "tool"
  BY DEF ToolCalls
<1>8. \A k \in 1..n : Result(k).calls = 0 /\ Result(k).answers = k
  BY DEF Result
<1>9. ASSUME NEW i \in 1..n + 1, NEW k \in 1..h[i].calls
      PROVE  i + k <= n + 1 /\ h[i + k] = Result(k)
  <2>1. i = 1
    BY <1>4, <1>6, <1>8
  <2>. QED
    BY <1>0, <1>4, <1>7, <2>1
<1>10. ASSUME NEW i \in 1..n + 1, h[i].role = "tool"
       PROVE  h[i].answers < i /\ h[i - h[i].answers].calls >= h[i].answers
  <2>1. PICK k \in 1..n : i = 1 + k
    BY <1>4, <1>6, <1>7, <1>10
  <2>2. h[i].answers = k /\ i - k = 1
    BY <1>0, <1>4, <1>8, <2>1
  <2>. QED
    BY <1>0, <1>4, <1>7, <2>1, <2>2
<1>. QED
  BY <1>1, <1>3, <1>5, <1>9, <1>10 DEF WellFormed, h

(* A batch that follows a well-formed history, and its results.            *)
LEMMA BatchAnswered ==
    ASSUME NEW h \in Histories, WellFormed(h), NEW n \in 1..MaxCalls
    PROVE  /\ Append(h, ToolCalls(n)) \in Histories
           /\ Append(h, ToolCalls(n)) \o Results(n) \in Histories
           /\ WellFormed(Append(h, ToolCalls(n)) \o Results(n))
           /\ Front(Append(h, ToolCalls(n))) = h
<1>1. Append(h, ToolCalls(n)) = h \o <<ToolCalls(n)>> /\ Append(h, ToolCalls(n)) \in Histories
  BY MessageTypes, AppendIsConcat, AppendProperties DEF Histories
<1>2. <<ToolCalls(n)>> \in Histories
  BY MessageTypes DEF Histories
<1>5. Results(n) \in Histories
  BY BatchWellFormed
<1>3. (h \o <<ToolCalls(n)>>) \o Results(n) = h \o (<<ToolCalls(n)>> \o Results(n))
  BY <1>2, <1>5, ConcatAssociative DEF Histories
<1>4. Front(Append(h, ToolCalls(n))) = h
  <2>1. Len(h) \in Nat /\ Len(Append(h, ToolCalls(n))) = Len(h) + 1
    BY MessageTypes, AppendProperties, LenProperties DEF Histories
  <2>. QED
    BY <2>1, MessageTypes DEF Histories, Front
<1>. QED
  BY <1>1, <1>3, <1>4, BatchWellFormed, JoinedWellFormed

(* Some of the indices of a history, from the last on: a set of Nat.       *)
LEMMA LastOnes ==
    ASSUME NEW L \in Nat, NEW U \in SUBSET (1..L), NEW rounds \in Nat \ {0}, Cardinality(U) > rounds
    PROVE  \E i \in U : Cardinality({j \in U : j >= i}) = rounds
<1> DEFINE From(i) == {j \in U : j >= i}
           few == {i \in Nat : Cardinality(From(i)) < rounds}
<1>0. \A j \in U : j \in Nat /\ 0 <= j /\ j < L + 1 /\ j <= L
  OBVIOUS
<1>1. IsFiniteSet(1..L)
  BY FS_Interval
<1>2. \A i \in Nat : IsFiniteSet(From(i)) /\ Cardinality(From(i)) \in Nat
  <2> TAKE i \in Nat
  <2>1. From(i) \in SUBSET (1..L)
    OBVIOUS
  <2>2. IsFiniteSet(From(i))
    BY <1>1, <2>1, FS_Subset
  <2>. QED
    BY <2>2, FS_CardinalityType
<1>3. L + 1 \in few
  <2>2. \A j \in U : ~(j >= L + 1)
    BY <1>0
  <2>1. From(L + 1) = {}
    BY <2>2
  <2>. QED
    BY <2>1, FS_EmptySet
<1>4. PICK i \in few : \A k \in few : ~(k < i)
  <2>1. few \subseteq Nat /\ few # {}
    BY <1>3
  <2> HIDE DEF few
  <2>2. \E i \in few : \A k \in few : ~(<<k, i>> \in OpToRel(<, Nat))
    BY <2>1, NatLessThanWellFounded, WFMin
  <2>. QED
    BY <2>1, <2>2 DEF OpToRel
<1>5. i \in Nat /\ i # 0
  <2>1. From(0) = U
    BY <1>0
  <2>2. Cardinality(U) \in Nat
    BY <1>1, FS_Subset, FS_CardinalityType
  <2>3. 0 \notin few
    BY <2>1, <2>2
  <2>. QED
    BY <1>4, <2>3
<1>6. PICK k \in Nat : i = k + 1
  BY <1>5
<1>7. k \notin few
  BY <1>4, <1>6
<1>8. \/ From(k) = From(i) \cup {k} /\ k \notin From(i)
      \/ From(k) = From(i) /\ k \notin U
  <2>1. \A j \in U : (j >= k <=> j = k \/ j >= i) /\ (j >= i => j # k)
    BY <1>0, <1>6
  <2>2. k \notin From(i)
    BY <2>1
  <2>3. CASE k \in U
    <3>1. \A j : j \in From(k) <=> j \in From(i) \/ j = k
      BY <2>1, <2>3
    <3>2. From(k) = From(i) \cup {k}
      <4> HIDE DEF From
      <4>. QED
        BY <3>1
    <3>. QED
      BY <2>2, <3>2
  <2>4. CASE k \notin U
    BY <2>1, <2>4
  <2>. QED
    BY <2>3, <2>4
<1>9. CASE k \notin U
  <2>1. From(k) = From(i)
    BY <1>8, <1>9
  <2>. QED
    BY <1>4, <1>7, <2>1
<1>10. CASE k \in U
  <2>1. From(k) = From(i) \cup {k} /\ k \notin From(i)
    BY <1>8, <1>10
  <2>2. Cardinality(From(k)) = Cardinality(From(i)) + 1
    BY <1>2, <1>5, <2>1, FS_AddElement
  <2>3. Cardinality(From(i)) < rounds /\ ~(Cardinality(From(k)) < rounds)
    BY <1>4, <1>6, <1>7
  <2>4. Cardinality(From(k)) = rounds
    BY <1>2, <1>5, <2>2, <2>3
  <2>. QED
    BY <1>10, <2>4
<1>. QED
  BY <1>9, <1>10

(* A round of the user begins no result: what follows is well formed.      *)
LEMMA RoundsWellFormed ==
    ASSUME NEW h \in Histories, WellFormed(h), NEW split \in 1..Len(h), h[split].role = "user"
    PROVE  /\ SubSeq(h, split, Len(h)) \in Histories
           /\ WellFormed(SubSeq(h, split, Len(h)))
<1> DEFINE t == SubSeq(h, split, Len(h))
           first == split - 1
<1>1. DOMAIN h = 1..Len(h) /\ Len(h) \in Nat /\ \A i \in 1..Len(h) : h[i] \in Messages(MaxCalls)
  BY DEF Histories
<1>2. first \in Nat /\ split = first + 1 /\ first < Len(h)
  BY <1>1
<1>3. /\ t \in Histories /\ Len(t) = Len(h) - first
      /\ \A i \in 1..Len(h) - first : t[i] = h[first + i]
  <2>1. \A i \in split..Len(h) : h[i] \in Messages(MaxCalls)
    BY <1>1
  <2>2. /\ t \in Seq(Messages(MaxCalls))
        /\ Len(t) = IF split <= Len(h) THEN Len(h) - split + 1 ELSE 0
        /\ \A i \in 1..Len(h) - split + 1 : t[i] = h[split + i - 1]
    BY <1>1, <2>1, SubSeqProperties
  <2>3. Len(h) - split + 1 = Len(h) - first
    BY <1>1, <1>2
  <2> HIDE DEF t, first
  <2>4. \A i \in 1..Len(h) - first : split + i - 1 = first + i
    BY <1>1, <1>2
  <2>. QED
    BY <1>1, <2>2, <2>3, <2>4 DEF Histories
<1> HIDE DEF t, first
<1>4. DOMAIN t = 1..Len(h) - first
  BY <1>3 DEF Histories
<1>5. ASSUME NEW i \in 1..Len(h) - first, NEW k \in 1..t[i].calls
      PROVE  i + k <= Len(t) /\ t[i + k] = Result(k)
  <2>1. first + i \in 1..Len(h) /\ t[i] = h[first + i]
    BY <1>1, <1>2, <1>3
  <2>2. t[i].calls \in Nat
    BY <1>1, <2>1, MessageTypes
  <2>3. (first + i) + k <= Len(h) /\ h[(first + i) + k] = Result(k)
    BY <1>1, <2>1 DEF WellFormed
  <2>4. i + k \in 1..Len(h) - first /\ first + (i + k) = (first + i) + k
    BY <1>1, <1>2, <2>2, <2>3
  <2>. QED
    BY <1>1, <1>3, <2>3, <2>4
<1>6. ASSUME NEW i \in 1..Len(h) - first, t[i].role = "tool"
      PROVE  t[i].answers < i /\ t[i - t[i].answers].calls >= t[i].answers
  <2> DEFINE a == t[i].answers
             j == first + i
  <2>1. j \in 1..Len(h) /\ t[i] = h[j]
    BY <1>1, <1>2, <1>3
  <2>2. a \in Nat /\ j \in Nat
    BY <1>1, <2>1, MessageTypes
  <2>3. a < j /\ h[j - a].calls >= a
    BY <1>1, <1>6, <2>1 DEF WellFormed
  <2>4. j - a \in 1..Len(h) /\ h[j - a].calls \in Nat
    <3>1. j - a \in 1..Len(h)
      BY <1>1, <2>1, <2>2, <2>3
    <3>. QED
      BY <1>1, <3>1, MessageTypes
  <2>5. ~(j - a <= first)
    <3>1. SUFFICES ASSUME j - a <= first PROVE FALSE
      OBVIOUS
    <3> DEFINE k == split - (j - a)
    <3>4. split <= j /\ split \in Nat
      BY <1>1, <1>2
    <3>5. j - a \in Nat /\ j - a < split
      BY <1>2, <2>2, <2>3, <3>1
    <3> HIDE DEF j, a
    <3>6. \A x, y, z \in Nat : x < y /\ y - x <= z => y - x \in 1..z /\ x + (y - x) = y
      OBVIOUS
    <3>7. split - (j - a) <= h[j - a].calls
      BY <2>2, <2>3, <2>4, <3>4, <3>5
    <3>2. k \in 1..h[j - a].calls /\ (j - a) + k = split
      BY <2>4, <3>4, <3>5, <3>6, <3>7
    <3>3. h[split] = Result(k)
      BY <1>1, <2>4, <3>2 DEF WellFormed
    <3>. QED
      BY <3>3 DEF Result
  <2>6. a < i /\ i - a \in 1..Len(h) - first /\ first + (i - a) = j - a
    BY <1>1, <1>2, <2>1, <2>2, <2>3, <2>5
  <2>. QED
    BY <1>3, <2>3, <2>6
<1>. QED
  BY <1>3, <1>4, <1>5, <1>6 DEF WellFormed, t

(* The summary and the last rounds.                                        *)
LEMMA CompactedWellFormed ==
    ASSUME NEW h \in Histories, WellFormed(h), NEW rounds \in Nat \ {0}, Compactable(h, rounds)
    PROVE  Compacted(h, rounds) \in Histories /\ WellFormed(Compacted(h, rounds))
<1> DEFINE split == CHOOSE i \in UserIndices(h) :
                      Cardinality({j \in UserIndices(h) : j >= i}) = rounds
<1>1. Len(h) \in Nat /\ UserIndices(h) \in SUBSET (1..Len(h))
  BY DEF UserIndices, Histories
<1>2. Cardinality(UserIndices(h)) > rounds
  BY DEF Compactable
<1>3. \E i \in UserIndices(h) : Cardinality({j \in UserIndices(h) : j >= i}) = rounds
  BY <1>1, <1>2, LastOnes
<1>4. split \in UserIndices(h)
  BY <1>3
<1>5. Compacted(h, rounds) = <<Prompt, Answer>> \o SubSeq(h, split, Len(h))
  BY DEF Compacted
<1> HIDE DEF split
<1>6. split \in 1..Len(h) /\ h[split].role = "user"
  BY <1>1, <1>4 DEF UserIndices
<1>7. <<Prompt, Answer>> \in Histories /\ WellFormed(<<Prompt, Answer>>)
  <2>1. <<Prompt, Answer>> \in Histories
    BY MessageTypes DEF Histories
  <2>2. \A i \in 1..Len(<<Prompt, Answer>>) :
          <<Prompt, Answer>>[i].calls = 0 /\ <<Prompt, Answer>>[i].role # "tool"
    BY DEF Prompt, Answer
  <2>. QED
    BY <2>1, <2>2, TalkWellFormed
<1>. QED
  BY <1>5, <1>6, <1>7, RoundsWellFormed, JoinedWellFormed

-----------------------------------------------------------------------------
(*                              The history                                *)

(* While a batch is under way, the history ends with its calls; otherwise  *)
(* it is well formed. A run that compacts has a request left.              *)
HistoryInv ==
    /\ TypeOK
    /\ at \in {"tools", "tracing"} =>
          /\ batch \in Batches
          /\ \E h \in Histories : WellFormed(h) /\ history = Append(h, ToolCalls(batch.calls))
    /\ ToolCallsAnswered
    /\ at = "compacting" => turn < MaxIterations

(* A run that ends leaves a well-formed history.                           *)
LEMMA EndKeeps ==
    ASSUME HistoryInv, NEW h \in Histories, WellFormed(h), End(h), spent' \in Nat,
           Detach \/ detached' = detached
    PROVE  HistoryInv'
<1>1. /\ history' = h /\ at' = "idle" /\ turn' = 0 /\ same' = NoneAlike /\ batch' = NoBatch
      /\ attempt' = 0 /\ emitted' = FALSE /\ shown' = {}
      /\ UNCHANGED <<canceled, generation, compactions>>
  BY DEF End
<1>2. detached' \subseteq Nat \X Nat
  <2>1. detached \subseteq Nat \X Nat /\ generation \in Nat /\ turn \in Nat
    <3>1. turn \in 0..MaxIterations /\ MaxIterations \in Nat
      BY AgentRunAssumption DEF HistoryInv, TypeOK
    <3>2. detached \subseteq Nat \X Nat /\ generation \in Nat
      BY DEF HistoryInv, TypeOK
    <3>. QED
      BY <3>1, <3>2
  <2>. QED
    BY <2>1 DEF Detach
<1>3. TypeOK'
  <2>1. same' \in [print : Prints \cup {NoPrint}, times : Nat]
    BY <1>1 DEF NoneAlike
  <2>2. turn' \in 0..MaxIterations /\ attempt' \in 0..MaxRetries
    BY <1>1, AgentRunAssumption
  <2>3. canceled' \in BOOLEAN
    BY <1>1 DEF HistoryInv, TypeOK
  <2>4. emitted' \in BOOLEAN
    BY <1>1
  <2>. QED
    BY <1>1, <1>2, <2>1, <2>2, <2>3, <2>4 DEF HistoryInv, TypeOK, Histories
<1>. QED
  BY <1>1, <1>3 DEF HistoryInv, ToolCallsAnswered

(* Requests and the head of the loop leave the history as it is.           *)
LEMMA RequestKeeps ==
    ASSUME HistoryInv, Request, turn < MaxIterations, at \notin {"tools", "tracing"}, spent' \in Nat,
           UNCHANGED detached
    PROVE  HistoryInv'
<1>1. /\ at' = "requesting" /\ turn' = turn + 1 /\ attempt' = 0 /\ emitted' = FALSE /\ shown' = {}
      /\ UNCHANGED <<history, canceled, generation, compactions, same, batch, detached>>
  BY DEF Request
<1>2. turn' \in 0..MaxIterations /\ attempt' \in 0..MaxRetries
  <2>1. turn \in 0..MaxIterations /\ MaxIterations \in Nat /\ MaxRetries \in Nat
    BY AgentRunAssumption DEF HistoryInv, TypeOK
  <2>. QED
    BY <1>1, <2>1
<1>3. canceled' \in BOOLEAN
  BY <1>1 DEF HistoryInv, TypeOK
<1>4. emitted' \in BOOLEAN
  BY <1>1
<1>5. TypeOK'
  BY <1>1, <1>2, <1>3, <1>4 DEF HistoryInv, TypeOK
<1>. QED
  BY <1>1, <1>5 DEF HistoryInv, ToolCallsAnswered

(* What a step leaves alone when it does not touch the history or batch.   *)
LEMMA SameHistory ==
    ASSUME HistoryInv, TypeOK', UNCHANGED <<history, batch>>,
           at' \in {"tools", "tracing"} <=> at \in {"tools", "tracing"},
           at' = "compacting" => turn' < MaxIterations
    PROVE  HistoryInv'
BY DEF HistoryInv, ToolCallsAnswered

(* The first conversation is empty.                                        *)
LEMMA HistoryInit == Init => HistoryInv
<1> SUFFICES ASSUME Init PROVE HistoryInv
  OBVIOUS
<1>1. /\ history = <<>> /\ at = "idle" /\ generation = 0 /\ turn = 0 /\ spent = 0 /\ attempt = 0
      /\ same = NoneAlike /\ batch = NoBatch /\ detached = {} /\ shown = {} /\ compactions = 0
      /\ canceled = FALSE /\ emitted = FALSE
  BY DEF Init
<1>2. same \in [print : Prints \cup {NoPrint}, times : Nat]
  BY <1>1 DEF NoneAlike
<1>3. turn \in 0..MaxIterations /\ attempt \in 0..MaxRetries
  BY <1>1, AgentRunAssumption
<1>4. canceled \in BOOLEAN /\ emitted \in BOOLEAN
  BY <1>1
<1>5. TypeOK
  BY <1>1, <1>2, <1>3, <1>4 DEF TypeOK
<1>6. WellFormed(history)
  BY <1>1 DEF WellFormed
<1>. QED
  BY <1>1, <1>5, <1>6 DEF HistoryInv, ToolCallsAnswered

(* The end of a batch, as its results, or as it was before it.             *)
LEMMA BatchAt ==
    ASSUME HistoryInv, at \in {"tools", "tracing"}
    PROVE  /\ batch.calls \in 1..MaxCalls
           /\ CanceledBatch \in Histories /\ WellFormed(CanceledBatch)
           /\ Front(history) \in Histories /\ WellFormed(Front(history))
<1>1. batch.calls \in 1..MaxCalls
  BY DEF HistoryInv, Batches
<1>2. PICK h \in Histories : WellFormed(h) /\ history = Append(h, ToolCalls(batch.calls))
  BY DEF HistoryInv
<1>. QED
  BY <1>1, <1>2, BatchAnswered DEF CanceledBatch

(* Pictures follow the results of a batch.                                 *)
LEMMA RecordedWellFormed ==
    ASSUME HistoryInv, at = "tracing", NEW n \in 0..batch.calls
    PROVE  Recorded(n) \in Histories /\ WellFormed(Recorded(n))
<1> DEFINE shots == [i \in 1..n |-> Picture]
<1>1. batch.calls \in 1..MaxCalls /\ CanceledBatch \in Histories /\ WellFormed(CanceledBatch)
  BY BatchAt
<1>2. n \in Nat
  BY <1>1, MessageTypes
<1>3. shots \in Histories /\ Len(shots) = n /\ \A i \in 1..n : shots[i] = Picture
  BY <1>2, MessageTypes DEF Histories
<1>4. WellFormed(shots)
  <2>1. Picture.calls = 0 /\ Picture.role # "tool"
    BY DEF Picture
  <2> HIDE DEF shots
  <2>. QED
    BY <1>3, <2>1, TalkWellFormed
<1>5. Recorded(n) = CanceledBatch \o shots
  BY DEF Recorded, CanceledBatch
<1>. QED
  BY <1>1, <1>3, <1>4, <1>5, JoinedWellFormed

(* An answer, or a prompt, after a well-formed history.                    *)
LEMMA SaidWellFormed ==
    ASSUME NEW h \in Histories, WellFormed(h), NEW m \in {Prompt, Answer}
    PROVE  Append(h, m) \in Histories /\ WellFormed(Append(h, m))
<1>1. m \in Messages(MaxCalls) /\ m.calls = 0 /\ m.role # "tool"
  BY MessageTypes DEF Prompt, Answer
<1>2. <<m>> \in Histories /\ Len(<<m>>) = 1 /\ <<m>>[1] = m
  BY <1>1 DEF Histories
<1>3. \A i \in 1..Len(<<m>>) : <<m>>[i] = m
  BY <1>2
<1>4. WellFormed(<<m>>)
  BY <1>1, <1>2, <1>3, TalkWellFormed
<1>5. Append(h, m) = h \o <<m>>
  BY <1>1, AppendIsConcat DEF Histories
<1>. QED
  BY <1>2, <1>4, <1>5, JoinedWellFormed

(* What compaction may put in place of the history is one to send.         *)
LEMMA ReplacedWellFormed ==
    ASSUME HistoryInv, at \notin {"tools", "tracing"}, NEW rounds \in Nat \ {0},
           NEW h \in Replaced(rounds)
    PROVE  h \in Histories /\ WellFormed(h)
BY CompactedWellFormed DEF Replaced, HistoryInv, ToolCallsAnswered, TypeOK, Histories

(* Outside of a batch the history may be left as it is at any time.        *)
LEMMA LeaveKeeps ==
    ASSUME HistoryInv, at \notin {"tools", "tracing"}, End(history), spent' \in Nat,
           Detach \/ detached' = detached
    PROVE  HistoryInv'
<1>1. history \in Histories /\ WellFormed(history)
  BY DEF HistoryInv, ToolCallsAnswered, TypeOK, Histories
<1>. QED
  BY <1>1, EndKeeps

(* The actions of a run, one after the other.                              *)
LEMMA PrepareKeeps == ASSUME HistoryInv, Prepare PROVE HistoryInv'
<1>1. history \in Histories /\ WellFormed(history) /\ spent' \in Nat /\ detached' = detached
  BY DEF Prepare, HistoryInv, ToolCallsAnswered, TypeOK, Histories
<1>2. CASE End(history)
  BY <1>1, <1>2, LeaveKeeps DEF Prepare
<1>3. CASE /\ history' = Append(history, Prompt) /\ at' = "looping"
           /\ UNCHANGED <<canceled, generation, compactions, runVars, streamVars>>
  <2>1. history' \in Histories /\ WellFormed(history')
    BY <1>1, <1>3, SaidWellFormed
  <2>2. TypeOK'
    BY <1>1, <1>3, <2>1 DEF HistoryInv, TypeOK, Histories, runVars, streamVars
  <2>. QED
    BY <1>3, <2>1, <2>2 DEF HistoryInv, ToolCallsAnswered
<1>. QED
  BY <1>2, <1>3 DEF Prepare

(* The actions one by one: the head of the loop, ...                       *)
LEMMA LoopKeeps == ASSUME HistoryInv, Loop PROVE HistoryInv'
<1>1. at = "looping" /\ spent' \in Nat /\ detached' = detached
  BY DEF Loop, HistoryInv, TypeOK
<1>2. turn \in 0..MaxIterations /\ MaxIterations \in Nat
  BY AgentRunAssumption DEF HistoryInv, TypeOK
<1>3. CASE End(history)
  BY <1>1, <1>3, LeaveKeeps
<1>4. CASE Request /\ ~Exhausted
  BY <1>1, <1>2, <1>4, RequestKeeps DEF Exhausted
<1>5. CASE /\ at' = "compacting" /\ ~Exhausted
           /\ UNCHANGED <<history, canceled, generation, compactions, runVars, streamVars>>
  <2>1. TypeOK'
    BY <1>1, <1>5 DEF HistoryInv, TypeOK, runVars, streamVars
  <2>2. turn < MaxIterations /\ turn' = turn
    BY <1>2, <1>5 DEF Exhausted, runVars
  <2>. QED
    BY <1>1, <1>5, <2>1, <2>2, SameHistory DEF runVars
<1>. QED
  BY <1>3, <1>4, <1>5 DEF Loop, RequestOrEnd

(* ... compaction in the loop, ...                                         *)
LEMMA CompactKeeps == ASSUME HistoryInv, Compact PROVE HistoryInv'
<1>0. /\ at = "compacting" /\ turn < MaxIterations /\ detached' = detached /\ spent \in Nat
      /\ Retain \in Nat \ {0} /\ Costs \subseteq Nat
  BY AgentRunAssumption DEF Compact, HistoryInv, TypeOK
<1>1. CASE Request /\ UNCHANGED spent
  BY <1>0, <1>1, RequestKeeps
<1>2. CASE /\ spent' \in {spent + c : c \in Costs}
           /\ \E h \in Replaced(Retain) :
               IF spent' < TokenBudget
               THEN /\ history' = h
                    /\ at' = "requesting"
                    /\ turn' = turn + 1
                    /\ attempt' = 0 /\ emitted' = FALSE /\ shown' = {}
                    /\ UNCHANGED <<canceled, generation, compactions, same, batch>>
               ELSE End(h)
  <2>1. PICK h \in Replaced(Retain) :
               IF spent' < TokenBudget
               THEN /\ history' = h
                    /\ at' = "requesting"
                    /\ turn' = turn + 1
                    /\ attempt' = 0 /\ emitted' = FALSE /\ shown' = {}
                    /\ UNCHANGED <<canceled, generation, compactions, same, batch>>
               ELSE End(h)
    BY <1>2
  <2>2. h \in Histories /\ WellFormed(h)
    BY <1>0, ReplacedWellFormed
  <2>3. spent' \in Nat
    BY <1>0, <1>2
  <2>4. CASE End(h)
    BY <1>0, <2>2, <2>3, <2>4, EndKeeps
  <2>5. CASE spent' < TokenBudget
    <3>0. /\ history' = h /\ at' = "requesting" /\ turn' = turn + 1
          /\ attempt' = 0 /\ emitted' = FALSE /\ shown' = {}
          /\ UNCHANGED <<canceled, generation, compactions, same, batch>>
      BY <2>1, <2>5
    <3>1. turn' \in 0..MaxIterations /\ attempt' \in 0..MaxRetries
      <4>1. turn \in 0..MaxIterations /\ MaxIterations \in Nat /\ MaxRetries \in Nat
        BY AgentRunAssumption DEF HistoryInv, TypeOK
      <4>. QED
        BY <1>0, <3>0, <4>1
    <3>2. canceled' \in BOOLEAN
      BY <3>0 DEF HistoryInv, TypeOK
    <3>3. emitted' \in BOOLEAN
      BY <3>0
    <3>4. TypeOK'
      BY <1>0, <2>2, <2>3, <3>0, <3>1, <3>2, <3>3 DEF HistoryInv, TypeOK, Histories
    <3>. QED
      BY <2>2, <3>0, <3>4 DEF HistoryInv, ToolCallsAnswered
  <2>. QED
    BY <2>1, <2>4, <2>5
<1>. QED
  BY <1>1, <1>2 DEF Compact

(* ... the stream of a response, ...                                       *)
LEMMA StreamKeeps ==
    ASSUME HistoryInv, Delta \/ LateDelta \/ RequestFails \/ Receive PROVE HistoryInv'
<1>0. /\ generation \in Nat /\ turn \in 0..MaxIterations /\ turn \in Nat /\ attempt \in 0..MaxRetries
      /\ MaxRetries \in Nat /\ shown \subseteq Nat \X Nat /\ detached \subseteq Nat \X Nat
      /\ spent \in Nat /\ Costs \subseteq Nat
  <2>1. MaxRetries \in Nat /\ MaxIterations \in Nat /\ Costs \subseteq Nat
    BY AgentRunAssumption
  <2>2. turn \in 0..MaxIterations /\ attempt \in 0..MaxRetries
    BY DEF HistoryInv, TypeOK
  <2>3. /\ generation \in Nat /\ shown \subseteq Nat \X Nat /\ detached \subseteq Nat \X Nat
        /\ spent \in Nat
    BY DEF HistoryInv, TypeOK
  <2>. QED
    BY <2>1, <2>2, <2>3
<1>1. CASE Delta
  <2>1. /\ emitted' = TRUE /\ shown' = shown \cup {<<generation, turn>>} /\ at = "requesting"
        /\ UNCHANGED <<history, at, canceled, generation, spent, detached, compactions, turn, same,
                       batch, attempt>>
    BY <1>1 DEF Delta, runVars
  <2>2. shown' \subseteq Nat \X Nat
    BY <1>0, <2>1
  <2>3. emitted' \in BOOLEAN
    BY <2>1
  <2>4. TypeOK'
    BY <2>1, <2>2, <2>3 DEF HistoryInv, TypeOK
  <2>. QED
    BY <2>1, <2>4, SameHistory
<1>2. CASE LateDelta
  <2>1. UNCHANGED <<history, at, canceled, generation, spent, compactions, turn, same, batch, attempt,
                    emitted>>
    BY <1>2 DEF LateDelta, runVars
  <2>2. detached' \subseteq Nat \X Nat /\ shown' \subseteq Nat \X Nat
    BY <1>0, <1>2 DEF LateDelta
  <2>3. TypeOK'
    BY <2>1, <2>2 DEF HistoryInv, TypeOK
  <2>4. at = "compacting" => turn < MaxIterations
    BY DEF HistoryInv
  <2>. QED
    BY <2>1, <2>3, <2>4, SameHistory
<1>3. CASE RequestFails
  <2>1. CASE End(history)
    BY <1>0, <1>3, <2>1, LeaveKeeps DEF RequestFails
  <2>2. CASE ~End(history)
    <3>1. /\ attempt' = IF attempt < MaxRetries THEN attempt + 1 ELSE attempt
          /\ emitted' = FALSE /\ at = "requesting"
          /\ UNCHANGED <<history, at, canceled, generation, spent, detached, compactions, turn, same,
                         batch, shown>>
      BY <1>3, <2>2 DEF RequestFails, runVars
    <3>2. attempt' \in 0..MaxRetries
      BY <1>0, <3>1
    <3>3. emitted' \in BOOLEAN
      BY <3>1
    <3>4. TypeOK'
      BY <3>1, <3>2, <3>3 DEF HistoryInv, TypeOK
    <3>. QED
      BY <3>1, <3>4, SameHistory
  <2>. QED
    BY <2>1, <2>2
<1>4. CASE Receive
  <2>1. /\ at = "requesting" /\ at' = "received" /\ batch' \in Batches \cup {NoBatch}
        /\ spent' \in {spent + c : c \in Costs}
        /\ UNCHANGED <<history, canceled, generation, detached, compactions, turn, same, attempt,
                       emitted, shown>>
    BY <1>4 DEF Receive, streamVars
  <2>2. spent' \in Nat
    <3>1. spent \in Nat /\ Costs \subseteq Nat
      BY AgentRunAssumption DEF HistoryInv, TypeOK
    <3>2. \A x, y \in Nat : x + y \in Nat
      OBVIOUS
    <3>. QED
      BY <2>1, <3>1, <3>2
  <2>3. TypeOK'
    BY <2>1, <2>2 DEF HistoryInv, TypeOK
  <2>. QED
    BY <2>1, <2>3 DEF HistoryInv, ToolCallsAnswered
<1>. QED
  BY <1>1, <1>2, <1>3, <1>4

(* ... what becomes of the response, ...                                   *)
LEMMA DispatchKeeps == ASSUME HistoryInv, Dispatch PROVE HistoryInv'
<1>0. at = "received" /\ spent' \in Nat /\ detached' = detached
  BY DEF Dispatch, HistoryInv, TypeOK
<1>1. history \in Histories /\ WellFormed(history)
  BY <1>0 DEF HistoryInv, ToolCallsAnswered, TypeOK, Histories
<1>2. CASE End(Append(history, Answer))
  BY <1>0, <1>1, <1>2, SaidWellFormed, EndKeeps
<1>3. CASE End(history)
  BY <1>0, <1>3, LeaveKeeps
<1>4. CASE /\ batch # NoBatch
           /\ history' = Append(history, ToolCalls(batch.calls))
           /\ at' = "tools"
           /\ same' = [print |-> batch.print, times |-> Alike]
           /\ UNCHANGED <<canceled, generation, compactions, turn, batch, streamVars>>
  <2>1. batch \in Batches
    BY <1>4 DEF HistoryInv, TypeOK
  <2>2. batch.calls \in 1..MaxCalls /\ batch.print \in Prints
    BY <2>1 DEF Batches
  <2>3. history' \in Histories
    BY <1>1, <1>4, <2>2, BatchAnswered
  <2>4. Alike \in Nat
    <3>1. same.times \in Nat
      BY DEF HistoryInv, TypeOK
    <3>. QED
      BY <3>1 DEF Alike
  <2>5. same' \in [print : Prints \cup {NoPrint}, times : Nat]
    BY <1>4, <2>2, <2>4
  <2>6. TypeOK'
    BY <1>0, <1>4, <2>3, <2>5 DEF HistoryInv, TypeOK, Histories, streamVars
  <2>. QED
    BY <1>1, <1>4, <2>1, <2>6 DEF HistoryInv, ToolCallsAnswered
<1>. QED
  BY <1>2, <1>3, <1>4 DEF Dispatch

(* ... the batch of tools and what is recorded of it, ...                  *)
LEMMA BatchKeeps ==
    ASSUME HistoryInv, ToolsDone \/ Record \/ ToolsFail PROVE HistoryInv'
<1>1. CASE ToolsDone
  <2>1. TypeOK'
    BY <1>1 DEF ToolsDone, HistoryInv, TypeOK, runVars, streamVars
  <2>. QED
    BY <1>1, <2>1, SameHistory DEF ToolsDone, runVars
<1>2. CASE Record
  <2>1. PICK n \in 0..batch.calls : history' = Recorded(n)
    BY <1>2 DEF Record
  <2>2. history' \in Histories /\ WellFormed(history')
    BY <1>2, <2>1, RecordedWellFormed DEF Record
  <2>3. TypeOK'
    BY <1>2, <2>2 DEF Record, HistoryInv, TypeOK, Histories, streamVars
  <2>. QED
    BY <1>2, <2>2, <2>3 DEF Record, HistoryInv, ToolCallsAnswered
<1>3. CASE ToolsFail
  <2>1. spent' \in Nat /\ detached' = detached
    BY <1>3 DEF ToolsFail, HistoryInv, TypeOK
  <2>. QED
    BY <1>3, <2>1, BatchAt, EndKeeps DEF ToolsFail
<1>. QED
  BY <1>1, <1>2, <1>3

(* ... stopping, ...                                                       *)
LEMMA StopKeeps ==
    ASSUME HistoryInv, Interruptible = FALSE, Stop \/ TaskCanceled PROVE HistoryInv'
<1>1. spent' \in Nat /\ (Detach \/ detached' = detached)
  BY DEF Stop, TaskCanceled, HistoryInv, TypeOK
<1>2. CASE at = "tools"
  <2>1. End(CanceledBatch)
    BY <1>2 DEF Stop, TaskCanceled
  <2>. QED
    BY <1>1, <1>2, <2>1, BatchAt, EndKeeps
<1>3. CASE at \notin {"tools", "tracing"}
  <2>1. End(history)
    BY <1>3 DEF Stop, TaskCanceled
  <2>. QED
    BY <1>1, <1>3, <2>1, LeaveKeeps
<1>. QED
  BY <1>2, <1>3 DEF Stop, TaskCanceled

(* The user's calls between the runs, and the event.                       *)
LEMMA UserKeeps ==
    ASSUME HistoryInv, Run \/ Cancel \/ Clear \/ CompactByHand PROVE HistoryInv'
<1>1. CASE Run
  <2>0. canceled' \in BOOLEAN
    BY <1>1 DEF Run
  <2>2. /\ generation' = generation + 1 /\ spent' = 0 /\ at' = "preparing"
        /\ UNCHANGED <<history, detached, compactions, turn, same, batch, attempt, emitted, shown>>
    BY <1>1 DEF Run, runVars, streamVars
  <2>4. generation \in Nat
    BY DEF HistoryInv, TypeOK
  <2>3. generation' \in Nat /\ spent' \in Nat
    BY <2>2, <2>4
  <2>1. TypeOK'
    BY <2>0, <2>2, <2>3 DEF HistoryInv, TypeOK
  <2>. QED
    BY <1>1, <2>1, SameHistory DEF Run, Running, runVars
<1>2. CASE Cancel
  <2>1. TypeOK'
    BY <1>2 DEF Cancel, HistoryInv, TypeOK, runVars, streamVars
  <2>2. at = "compacting" => turn < MaxIterations
    BY DEF HistoryInv
  <2>. QED
    BY <1>2, <2>1, <2>2, SameHistory DEF Cancel, runVars
<1>3. CASE Clear
  <2>1. history' \in Histories /\ WellFormed(history')
    BY <1>3 DEF Clear, WellFormed, Histories
  <2>2. TypeOK'
    BY <1>3, <2>1 DEF Clear, HistoryInv, TypeOK, runVars, streamVars, Histories
  <2>. QED
    BY <1>3, <2>1, <2>2 DEF Clear, Running, HistoryInv, ToolCallsAnswered
<1>4. CASE CompactByHand
  <2>0. canceled' \in BOOLEAN
    BY <1>4 DEF CompactByHand
  <2>2. /\ compactions' = compactions + 1 /\ at' = "compacting by hand"
        /\ UNCHANGED <<history, generation, spent, detached, turn, same, batch, attempt, emitted, shown>>
    BY <1>4 DEF CompactByHand, runVars, streamVars
  <2>4. compactions \in Nat
    BY DEF HistoryInv, TypeOK
  <2>5. \A n \in Nat : n + 1 \in Nat
    OBVIOUS
  <2>3. compactions' \in Nat
    BY <2>2, <2>4, <2>5
  <2>1. TypeOK'
    BY <2>0, <2>2, <2>3 DEF HistoryInv, TypeOK
  <2>. QED
    BY <1>4, <2>1, SameHistory DEF CompactByHand, Running, runVars
<1>. QED
  BY <1>1, <1>2, <1>3, <1>4

(* ... and /compact.                                                       *)
LEMMA CompactedByHandKeeps == ASSUME HistoryInv, CompactedByHand PROVE HistoryInv'
<1>0. at = "compacting by hand" /\ detached' = detached /\ spent \in Nat /\ Costs \subseteq Nat
  BY AgentRunAssumption DEF CompactedByHand, HistoryInv, TypeOK
<1>1. CASE End(history) /\ UNCHANGED spent
  BY <1>0, <1>1, LeaveKeeps
<1>3. spent' \in Nat
  <2>1. spent' = spent \/ \E c \in Costs : spent' = spent + c
    BY DEF CompactedByHand
  <2>3. Costs \subseteq Nat /\ spent \in Nat
    BY <1>0
  <2>2. \A c \in Costs : c \in Nat /\ spent + c \in Nat
    BY <2>3
  <2>. QED
    BY <1>0, <2>1, <2>2, Zenon
<1>2. CASE \E h \in Replaced(1), c \in Costs : End(h) /\ spent' = spent + c
  <2>1. PICK h \in Replaced(1) : End(h) /\ \E c \in Costs : spent' = spent + c
    BY <1>2
  <2>4. 1 \in Nat \ {0}
    OBVIOUS
  <2>2. h \in Histories /\ WellFormed(h)
    BY <1>0, <2>4, ReplacedWellFormed
  <2>. QED
    BY <1>0, <1>3, <2>1, <2>2, EndKeeps
<1>. QED
  BY <1>1, <1>2 DEF CompactedByHand

(* All steps keep the invariant of the conversation.                       *)
LEMMA HistoryStep ==
    ASSUME Interruptible = FALSE PROVE HistoryInv /\ [Next]_vars => HistoryInv'
<1> SUFFICES ASSUME HistoryInv, [Next]_vars PROVE HistoryInv'
  OBVIOUS
<1>1. CASE UNCHANGED vars
  <2>1. TypeOK'
    BY <1>1 DEF vars, HistoryInv, TypeOK, runVars, streamVars
  <2>2. at = "compacting" => turn < MaxIterations
    BY DEF HistoryInv
  <2>. QED
    BY <1>1, <2>1, <2>2, SameHistory DEF vars, runVars
<1>2. CASE Next
  BY <1>2, PrepareKeeps, LoopKeeps, CompactKeeps, StreamKeeps, DispatchKeeps, BatchKeeps, StopKeeps,
     UserKeeps, CompactedByHandKeeps DEF Next, Step
<1>. QED
  BY <1>1, <1>2
-----------------------------------------------------------------------------
(*                                Theorems                                 *)

(* Requests and compactions alternate in any way, but none starts once the *)
(* budget is used up (core.py:498-509).                                    *)
THEOREM AgentBudgetExceededByOne == Spec => []BudgetExceededByOne
<1>1. BudgetInv => BudgetExceededByOne
  BY DEF BudgetInv
<1>. QED
  BY <1>1, BudgetInit, BudgetStep, PTL DEF Spec

(* A stream that outlives its cancellation stays silent during the requests *)
(* of later runs, and what is visible is never requested a second time      *)
(* (core.py:522-612).                                                       *)
THEOREM OneVoiceHolds == Spec => []OneVoice
<1>1. StreamInv => OneVoice
  BY DEF StreamInv
<1>. QED
  BY <1>1, StreamInit, StreamStep, PTL DEF Spec

(* Outside of a tool batch every call in the history has its result: after *)
(* cancellations, failures, compactions and retries alike, the history is  *)
(* one that a provider accepts (core.py:300-400, compaction.py). Of a run  *)
(* that no task cancellation meets while its results are traced.           *)
THEOREM HistoryAcceptableHolds ==
    ASSUME Interruptible = FALSE PROVE Spec => []HistoryAcceptable
<1>1. HistoryInv => HistoryAcceptable
  BY DEF HistoryInv, HistoryAcceptable
<1>. QED
  BY <1>1, HistoryInit, HistoryStep, PTL DEF Spec

-----------------------------------------------------------------------------
(*                            The edits (Edits)                            *)

(* What a call has done, from where it stands. Nothing is written before   *)
(* the write, all of it after, and of a patch what git was through with;   *)
(* who is at work has the lock; and a thread that still writes belongs to  *)
(* a call that waits for it or was cancelled.                              *)
Early == {"idle", "capture", "write", "check", "apply", "stage", "clear", "move", "restore"}
Making == {"stage", "clear", "move", "restore"}

Written(c) ==
    /\ \A p \in Paths : drafts[p] = c => p \in landed[c]
    /\ edit[c].at \in Early => landed[c] = {}
    /\ edit[c].at = "git" => edit[c].todo \subseteq edit[c].paths /\ landed[c] = edit[c].paths \ edit[c].todo
    /\ edit[c].at = "diagnose" => landed[c] = edit[c].paths
Writing(c) ==
    /\ edit[c].at = "write" => c \in writes
    /\ c \in writes => /\ edit[c].kind = "write" /\ landed[c] = {}
                       /\ \/ edit[c].at = "write"
                          \/ edit[c].at = "done" /\ edit[c].answer = "canceled"
Answered(c) ==
    /\ edit[c].answer # "none" => edit[c].at = "done"
    /\ edit[c].answer = "ok" => landed[c] = edit[c].paths
    /\ edit[c].answer = "error" /\ c \notin halfDone => landed[c] = {} /\ c \notin writes
Kinds(c) ==
    /\ edit[c].at \notin {"idle", "done"} => mutator = c
    /\ edit[c].kind = "project" => edit[c].paths = {} /\ edit[c].at \in Making \cup {"done"}
    /\ edit[c].at \in Making => edit[c].kind = "project"
    /\ edit[c].at \in {"stage", "clear"} => ~edit[c].existed
CallInv(c) == Written(c) /\ Writing(c) /\ Answered(c) /\ Kinds(c)

EditsInv == Edited!TypeOK /\ Edited!NothingLeftOver /\ \A c \in Edits : CallInv(c)

USE DEF Early, Making

(* Who may hold the mutation lock is not one of the calls.                 *)
LEMMA EditsNames == User \notin Edits /\ Old \notin Edits /\ Nobody \notin Edits
BY WorkAssumption DEF Edited!EditsAssumption

(* Before the first call nothing is written and nothing is locked.         *)
LEMMA EditsStart == Edited!Init => EditsInv
<1> SUFFICES ASSUME Edited!Init PROVE EditsInv
  OBVIOUS
<1>1. Edited!TypeOK
  BY DEF Edited!Init, Edited!TypeOK, Edited!Idle, Edited!Texts
<1>2. Edited!NothingLeftOver
  BY DEF Edited!Init, Edited!NothingLeftOver
<1>3. ASSUME NEW c \in Edits PROVE CallInv(c)
  BY EditsNames DEF Edited!Init, Edited!Idle, CallInv, Written, Writing, Answered, Kinds
<1> QED
  BY <1>1, <1>2, <1>3 DEF EditsInv

(* A step of one call leaves the others as they are.                       *)
Spared(d) ==
    /\ edit'[d] = edit[d] /\ landed'[d] = landed[d]
    /\ d \in writes' <=> d \in writes
    /\ d \in halfDone' <=> d \in halfDone
    /\ \A p \in Paths : drafts'[p] = d => drafts[p] = d
    /\ edit[d].at \in {"idle", "done"} \/ mutator' = mutator

(* ... so what was true of them stays true.                                *)
LEMMA OthersSpared ==
    ASSUME NEW d \in Edits, CallInv(d), Spared(d)
    PROVE  CallInv(d)'
<1>1. Written(d)'
  BY DEF CallInv, Spared, Written
<1>2. Writing(d)'
  BY DEF CallInv, Spared, Writing
<1>3. Answered(d)'
  BY DEF CallInv, Spared, Answered
<1>4. Kinds(d)'
  BY DEF CallInv, Spared, Kinds
<1> QED
  BY <1>1, <1>2, <1>3, <1>4 DEF CallInv
(* A call stays a call wherever it goes and whatever it answers.           *)
Places == {"idle", "capture", "write", "check", "apply", "git", "diagnose",
           "stage", "clear", "move", "restore", "done"}
Answers == {"none", "ok", "error", "canceled"}
Call == [kind : {"write", "patch", "project"}, paths : SUBSET Paths, at : Places,
         base : [Paths -> Edited!Texts], todo : SUBSET Paths, existed : BOOLEAN,
         answer : Answers]

(* ... it is still a call.                                                 *)
LEMMA CallStays ==
    ASSUME NEW es \in [Edits -> Call], NEW c \in Edits
    PROVE  /\ \A place \in Places : [es EXCEPT ![c].at = place] \in [Edits -> Call]
           /\ \A answer \in Answers :
                [es EXCEPT ![c].at = "done", ![c].answer = answer, ![c].todo = {}] \in [Edits -> Call]
           /\ \A place \in Places, todo \in SUBSET Paths :
                /\ [es EXCEPT ![c].at = place, ![c].todo = todo] \in [Edits -> Call]
                /\ [es EXCEPT ![c].todo = todo, ![c].at = place] \in [Edits -> Call]
           /\ \A place \in Places, b \in BOOLEAN :
                [es EXCEPT ![c].at = place, ![c].existed = b] \in [Edits -> Call]
<1>1. es[c] \in Call
  OBVIOUS
<1>2. \A place \in Places : [es[c] EXCEPT !.at = place] \in Call
  BY <1>1 DEF Call
<1>3. \A answer \in Answers :
        [es[c] EXCEPT !.at = "done", !.answer = answer, !.todo = {}] \in Call
  BY <1>1 DEF Call, Places
<1>4. \A place \in Places, todo \in SUBSET Paths :
        /\ [es[c] EXCEPT !.at = place, !.todo = todo] \in Call
        /\ [es[c] EXCEPT !.todo = todo, !.at = place] \in Call
  BY <1>1 DEF Call
<1>5. \A place \in Places, b \in BOOLEAN : [es[c] EXCEPT !.at = place, !.existed = b] \in Call
  BY <1>1 DEF Call
<1> QED
  BY <1>2, <1>3, <1>4, <1>5

(* What a step may do to the calls, for their types.                       *)
Moves(c) ==
    \/ edit' = edit
    \/ \E place \in Places : edit' = [edit EXCEPT ![c].at = place]
    \/ \E answer \in Answers : edit' = [edit EXCEPT ![c].at = "done", ![c].answer = answer, ![c].todo = {}]

(* A step that moves one call leaves calls.                                *)
LEMMA MovesTyped ==
    ASSUME NEW c \in Edits, edit \in [Edits -> Call], Moves(c)
    PROVE  edit' \in [Edits -> Call]
<1>1. CASE edit' = edit
  BY <1>1
<1>2. CASE \E place \in Places : edit' = [edit EXCEPT ![c].at = place]
  <2>1. PICK place \in Places : edit' = [edit EXCEPT ![c].at = place]
    BY <1>2
  <2> QED
    BY <2>1, CallStays
<1>3. CASE \E answer \in Answers :
             edit' = [edit EXCEPT ![c].at = "done", ![c].answer = answer, ![c].todo = {}]
  <2>1. PICK answer \in Answers :
          edit' = [edit EXCEPT ![c].at = "done", ![c].answer = answer, ![c].todo = {}]
    BY <1>3
  <2> QED
    BY <2>1, CallStays
<1> QED
  BY <1>1, <1>2, <1>3 DEF Moves

(* The steps of a call, one by one. It begins when the lock is free, ...   *)
LEMMA BeginKept ==
    ASSUME EditsInv, NEW c \in Edits, NEW kind \in {"write", "patch", "project"}, NEW paths \in SUBSET Paths,
           kind = "project" => paths = {}, Edited!Begin(c, kind, paths)
    PROVE  EditsInv'
<1>0. CallInv(c) /\ Edited!TypeOK
  BY DEF EditsInv
<1>1. Edited!TypeOK'
  BY <1>0, EditsNames DEF Edited!TypeOK, Edited!Texts, Edited!Begin, Edited!Idle, Edited!At, Edited!Goes, Edited!Answers
<1>2. Edited!NothingLeftOver'
  BY <1>0 DEF EditsInv, Edited!NothingLeftOver, Edited!TypeOK, CallInv, Writing, Edited!Begin, Edited!Idle, Edited!At, Edited!Goes, Edited!Answers
<1>3. Written(c)'
  BY <1>0, EditsNames DEF Edited!TypeOK, CallInv, Written, Writing, Kinds, Edited!Begin, Edited!Idle, Edited!At, Edited!Goes, Edited!Answers
<1>4. Writing(c)'
  BY <1>0 DEF Edited!TypeOK, CallInv, Written, Writing, Answered, Kinds, Edited!Begin, Edited!Idle, Edited!At, Edited!Goes, Edited!Answers
<1>5. Answered(c)'
  BY <1>0 DEF Edited!TypeOK, CallInv, Written, Writing, Answered, Kinds, Edited!Begin, Edited!Idle, Edited!At, Edited!Goes, Edited!Answers
<1>6. Kinds(c)'
  BY <1>0 DEF Edited!TypeOK, CallInv, Writing, Answered, Kinds, Edited!Begin, Edited!Idle, Edited!At, Edited!Goes, Edited!Answers
<1>7. ASSUME NEW d \in Edits, d # c PROVE Spared(d)
  BY <1>0, <1>7, EditsNames DEF EditsInv, Edited!TypeOK, CallInv, Writing, Kinds, Spared, Edited!Begin, Edited!Idle, Edited!At, Edited!Goes, Edited!Answers
<1> QED
  BY <1>1, <1>2, <1>3, <1>4, <1>5, <1>6, <1>7, OthersSpared DEF EditsInv, CallInv

(* ... reads what it will check itself against, ...                        *)
LEMMA CaptureKept ==
    ASSUME EditsInv, NEW c \in Edits, Edited!Capture(c)
    PROVE  EditsInv'
<1>0. CallInv(c) /\ Edited!TypeOK
  BY DEF EditsInv
<1>1. Edited!TypeOK'
  <2>1. edit \in [Edits -> Call]
    BY <1>0 DEF Edited!TypeOK, Call, Places, Answers
  <2>2. Moves(c)
    BY DEF Moves, Places, Answers, Edited!Capture, Edited!At, Edited!Goes, Edited!Answers
  <2>3. edit' \in [Edits -> Call]
    BY <2>1, <2>2, MovesTyped
  <2> QED
    BY <1>0, <2>3 DEF Edited!TypeOK, Call, Places, Answers, Edited!Texts, Edited!Capture, Edited!At, Edited!Goes, Edited!Answers
<1>2. Edited!NothingLeftOver'
  BY <1>0 DEF EditsInv, Edited!NothingLeftOver, Edited!TypeOK, CallInv, Writing, Edited!Capture, Edited!At, Edited!Goes, Edited!Answers
<1>3. Written(c)'
  BY <1>0, EditsNames DEF Edited!TypeOK, CallInv, Written, Writing, Kinds, Edited!Capture, Edited!At, Edited!Goes, Edited!Answers
<1>4. Writing(c)'
  BY <1>0 DEF Edited!TypeOK, CallInv, Written, Writing, Answered, Kinds, Edited!Capture, Edited!At, Edited!Goes, Edited!Answers
<1>5. Answered(c)'
  BY <1>0 DEF Edited!TypeOK, CallInv, Written, Writing, Answered, Kinds, Edited!Capture, Edited!At, Edited!Goes, Edited!Answers
<1>6. Kinds(c)'
  BY <1>0 DEF Edited!TypeOK, CallInv, Writing, Answered, Kinds, Edited!Capture, Edited!At, Edited!Goes, Edited!Answers
<1>7. ASSUME NEW d \in Edits, d # c PROVE Spared(d)
  BY <1>0, <1>7, EditsNames DEF EditsInv, Edited!TypeOK, CallInv, Writing, Kinds, Spared, Edited!Capture, Edited!At, Edited!Goes, Edited!Answers
<1> QED
  BY <1>1, <1>2, <1>3, <1>4, <1>5, <1>6, <1>7, OthersSpared DEF EditsInv, CallInv

(* ... writes beside its file, ...                                         *)
LEMMA WriteTempKept ==
    ASSUME EditsInv, NEW c \in Edits, Edited!WriteTemp(c)
    PROVE  EditsInv'
<1>0. CallInv(c) /\ Edited!TypeOK
  BY DEF EditsInv
<1>1. Edited!TypeOK'
  BY <1>0, EditsNames DEF Edited!TypeOK, Edited!Texts, Edited!WriteTemp, Edited!At, Edited!Goes, Edited!Answers
<1>2. Edited!NothingLeftOver'
  BY <1>0 DEF EditsInv, Edited!NothingLeftOver, Edited!TypeOK, CallInv, Writing, Edited!WriteTemp, Edited!At, Edited!Goes, Edited!Answers
<1>3. Written(c)'
  BY <1>0, EditsNames DEF Edited!TypeOK, CallInv, Written, Writing, Kinds, Edited!WriteTemp, Edited!At, Edited!Goes, Edited!Answers
<1>4. Writing(c)'
  BY <1>0 DEF Edited!TypeOK, CallInv, Written, Writing, Answered, Kinds, Edited!WriteTemp, Edited!At, Edited!Goes, Edited!Answers
<1>5. Answered(c)'
  BY <1>0 DEF Edited!TypeOK, CallInv, Written, Writing, Answered, Kinds, Edited!WriteTemp, Edited!At, Edited!Goes, Edited!Answers
<1>6. Kinds(c)'
  BY <1>0 DEF Edited!TypeOK, CallInv, Writing, Answered, Kinds, Edited!WriteTemp, Edited!At, Edited!Goes, Edited!Answers
<1>7. ASSUME NEW d \in Edits, d # c PROVE Spared(d)
  BY <1>0, <1>7, EditsNames DEF EditsInv, Edited!TypeOK, CallInv, Writing, Kinds, Spared, Edited!WriteTemp, Edited!At, Edited!Goes, Edited!Answers
<1> QED
  BY <1>1, <1>2, <1>3, <1>4, <1>5, <1>6, <1>7, OthersSpared DEF EditsInv, CallInv

(* ... and over it, all at once, ...                                       *)
LEMMA WriteLandsKept ==
    ASSUME EditsInv, NEW c \in Edits, NEW synced \in BOOLEAN, Edited!WriteLands(c, synced)
    PROVE  EditsInv'
<1>0. CallInv(c) /\ Edited!TypeOK
  BY DEF EditsInv
<1>1. Edited!TypeOK'
  <2>1. edit \in [Edits -> Call]
    BY <1>0 DEF Edited!TypeOK, Call, Places, Answers
  <2>2. Moves(c)
    BY DEF Moves, Places, Answers, Edited!WriteLands, Edited!At, Edited!Goes, Edited!Answers
  <2>3. edit' \in [Edits -> Call]
    BY <2>1, <2>2, MovesTyped
  <2> QED
    BY <1>0, <2>3 DEF Edited!TypeOK, Call, Places, Answers, Edited!Texts, Edited!WriteLands, Edited!At, Edited!Goes, Edited!Answers
<1>2. Edited!NothingLeftOver'
  BY <1>0 DEF EditsInv, Edited!NothingLeftOver, Edited!TypeOK, CallInv, Writing, Edited!WriteLands, Edited!At, Edited!Goes, Edited!Answers
<1>3. Written(c)'
  BY <1>0, EditsNames DEF Edited!TypeOK, CallInv, Written, Writing, Kinds, Edited!WriteLands, Edited!At, Edited!Goes, Edited!Answers
<1>4. Writing(c)'
  BY <1>0 DEF Edited!TypeOK, CallInv, Written, Writing, Answered, Kinds, Edited!WriteLands, Edited!At, Edited!Goes, Edited!Answers
<1>5. Answered(c)'
  BY <1>0 DEF Edited!TypeOK, CallInv, Written, Writing, Answered, Kinds, Edited!WriteLands, Edited!At, Edited!Goes, Edited!Answers
<1>6. Kinds(c)'
  BY <1>0 DEF Edited!TypeOK, CallInv, Writing, Answered, Kinds, Edited!WriteLands, Edited!At, Edited!Goes, Edited!Answers
<1>7. ASSUME NEW d \in Edits, d # c PROVE Spared(d)
  BY <1>0, <1>7, EditsNames DEF EditsInv, Edited!TypeOK, CallInv, Writing, Kinds, Spared, Edited!WriteLands, Edited!At, Edited!Goes, Edited!Answers
<1> QED
  BY <1>1, <1>2, <1>3, <1>4, <1>5, <1>6, <1>7, OthersSpared DEF EditsInv, CallInv

(* ... or not at all; ...                                                  *)
LEMMA WriteFailsKept ==
    ASSUME EditsInv, NEW c \in Edits, Edited!WriteFails(c)
    PROVE  EditsInv'
<1>0. CallInv(c) /\ Edited!TypeOK
  BY DEF EditsInv
<1>1. Edited!TypeOK'
  <2>1. edit \in [Edits -> Call]
    BY <1>0 DEF Edited!TypeOK, Call, Places, Answers
  <2>2. Moves(c)
    BY DEF Moves, Places, Answers, Edited!WriteFails, Edited!At, Edited!Goes, Edited!Answers
  <2>3. edit' \in [Edits -> Call]
    BY <2>1, <2>2, MovesTyped
  <2> QED
    BY <1>0, <2>3 DEF Edited!TypeOK, Call, Places, Answers, Edited!Texts, Edited!WriteFails, Edited!At, Edited!Goes, Edited!Answers
<1>2. Edited!NothingLeftOver'
  BY <1>0 DEF EditsInv, Edited!NothingLeftOver, Edited!TypeOK, CallInv, Writing, Edited!WriteFails, Edited!At, Edited!Goes, Edited!Answers
<1>3. Written(c)'
  BY <1>0, EditsNames DEF Edited!TypeOK, CallInv, Written, Writing, Kinds, Edited!WriteFails, Edited!At, Edited!Goes, Edited!Answers
<1>4. Writing(c)'
  BY <1>0 DEF Edited!TypeOK, CallInv, Written, Writing, Answered, Kinds, Edited!WriteFails, Edited!At, Edited!Goes, Edited!Answers
<1>5. Answered(c)'
  BY <1>0 DEF Edited!TypeOK, CallInv, Written, Writing, Answered, Kinds, Edited!WriteFails, Edited!At, Edited!Goes, Edited!Answers
<1>6. Kinds(c)'
  BY <1>0 DEF Edited!TypeOK, CallInv, Writing, Answered, Kinds, Edited!WriteFails, Edited!At, Edited!Goes, Edited!Answers
<1>7. ASSUME NEW d \in Edits, d # c PROVE Spared(d)
  BY <1>0, <1>7, EditsNames DEF EditsInv, Edited!TypeOK, CallInv, Writing, Kinds, Spared, Edited!WriteFails, Edited!At, Edited!Goes, Edited!Answers
<1> QED
  BY <1>1, <1>2, <1>3, <1>4, <1>5, <1>6, <1>7, OthersSpared DEF EditsInv, CallInv

(* ... a patch is checked before it is applied, ...                        *)
LEMMA CheckPatchKept ==
    ASSUME EditsInv, NEW c \in Edits, Edited!CheckPatch(c)
    PROVE  EditsInv'
<1>0. CallInv(c) /\ Edited!TypeOK
  BY DEF EditsInv
<1>1. Edited!TypeOK'
  <2>0. CallInv(c)
    BY <1>0
  <2>1. edit \in [Edits -> Call]
    BY <1>0 DEF Edited!TypeOK, Call, Places, Answers
  <2>2. "none" \in Answers /\ (target = "empty") \in BOOLEAN /\ edit[c].paths \in SUBSET Paths /\ edit[c].todo \in SUBSET Paths
    BY <2>1 DEF Call, Answers
  <2>4. "git" \in Places /\ "move" \in Places
    BY DEF Places
  <2>3. edit' \in [Edits -> Call]
    <3>1. CASE edit' = [edit EXCEPT ![c].at = "git", ![c].todo = edit[c].paths]
      BY <3>1, <2>1, <2>2, <2>4, CallStays
    <3>2. CASE Moves(c)
      BY <3>2, <2>1, MovesTyped
    <3> QED
      BY <3>1, <3>2 DEF Moves, Places, Answers, Edited!CheckPatch, Edited!Answers, Edited!Goes
  <2> QED
    BY <1>0, <2>3 DEF Edited!TypeOK, Call, Places, Answers, Edited!Texts, Edited!CheckPatch, Edited!At, Edited!Goes, Edited!Answers
<1>2. Edited!NothingLeftOver'
  BY <1>0 DEF EditsInv, Edited!NothingLeftOver, Edited!TypeOK, CallInv, Writing, Edited!CheckPatch, Edited!At, Edited!Goes, Edited!Answers
<1>3. Written(c)'
  BY <1>0, EditsNames DEF Edited!TypeOK, CallInv, Written, Writing, Kinds, Edited!CheckPatch, Edited!At, Edited!Goes, Edited!Answers
<1>4. Writing(c)'
  BY <1>0 DEF Edited!TypeOK, CallInv, Written, Writing, Answered, Kinds, Edited!CheckPatch, Edited!At, Edited!Goes, Edited!Answers
<1>5. Answered(c)'
  BY <1>0 DEF Edited!TypeOK, CallInv, Written, Writing, Answered, Kinds, Edited!CheckPatch, Edited!At, Edited!Goes, Edited!Answers
<1>6. Kinds(c)'
  BY <1>0 DEF Edited!TypeOK, CallInv, Writing, Answered, Kinds, Edited!CheckPatch, Edited!At, Edited!Goes, Edited!Answers
<1>7. ASSUME NEW d \in Edits, d # c PROVE Spared(d)
  BY <1>0, <1>7, EditsNames DEF EditsInv, Edited!TypeOK, CallInv, Writing, Kinds, Spared, Edited!CheckPatch, Edited!At, Edited!Goes, Edited!Answers
<1> QED
  BY <1>1, <1>2, <1>3, <1>4, <1>5, <1>6, <1>7, OthersSpared DEF EditsInv, CallInv

(* ... and git writes file after file; ...                                 *)
LEMMA GitWritesKept ==
    ASSUME EditsInv, NEW c \in Edits, NEW p \in Paths, Edited!GitWrites(c, p)
    PROVE  EditsInv'
<1>0. CallInv(c) /\ Edited!TypeOK
  BY DEF EditsInv
<1>1. Edited!TypeOK'
  <2>0. CallInv(c)
    BY <1>0
  <2>1. edit \in [Edits -> Call]
    BY <1>0 DEF Edited!TypeOK, Call, Places, Answers
  <2>2. "none" \in Answers /\ (target = "empty") \in BOOLEAN /\ edit[c].paths \in SUBSET Paths /\ edit[c].todo \in SUBSET Paths
    BY <2>1 DEF Call, Answers
  <2>4. "git" \in Places /\ "move" \in Places
    BY DEF Places
  <2>3. edit' \in [Edits -> Call]
    <3>1. edit' = [edit EXCEPT ![c].todo = @ \ {p}, ![c].at = IF @ = "git" /\ edit[c].todo = {p} THEN "diagnose" ELSE @]
      BY DEF Edited!GitWrites
    <3>2. edit' = [edit EXCEPT ![c].todo = edit[c].todo \ {p}, ![c].at = IF edit[c].todo = {p} THEN "diagnose" ELSE "git"]
      BY <3>1, <2>1, <2>0 DEF Edited!GitWrites, Edited!At
    <3> QED
      <4>1. edit[c].todo \ {p} \in SUBSET Paths /\ "diagnose" \in Places /\ "git" \in Places
        BY <2>2 DEF Places
      <4>2. PICK place \in Places : place = IF edit[c].todo = {p} THEN "diagnose" ELSE "git"
        BY <4>1
      <4>3. PICK todo \in SUBSET Paths : todo = edit[c].todo \ {p}
        BY <4>1
      <4>4. edit' = [edit EXCEPT ![c].todo = todo, ![c].at = place]
        BY <3>2, <4>2, <4>3
      <4> QED
        BY <4>4, <2>1, CallStays
  <2>5. drafts' \in [Paths -> Edited!Texts] /\ landed' \in [Edits -> SUBSET Paths]
    BY <1>0 DEF Edited!TypeOK, Edited!Texts, Edited!GitWrites
  <2> QED
    BY <1>0, <2>3, <2>5 DEF Edited!TypeOK, Call, Places, Answers, Edited!GitWrites, Edited!At, Edited!Goes, Edited!Answers
<1>2. Edited!NothingLeftOver'
  BY <1>0 DEF EditsInv, Edited!NothingLeftOver, Edited!TypeOK, CallInv, Writing, Edited!GitWrites, Edited!At, Edited!Goes, Edited!Answers
<1>3. Written(c)'
  BY <1>0, EditsNames DEF Edited!TypeOK, CallInv, Written, Writing, Kinds, Edited!GitWrites, Edited!At, Edited!Goes, Edited!Answers
<1>4. Writing(c)'
  BY <1>0 DEF Edited!TypeOK, CallInv, Written, Writing, Answered, Kinds, Edited!GitWrites, Edited!At, Edited!Goes, Edited!Answers
<1>5. Answered(c)'
  BY <1>0 DEF Edited!TypeOK, CallInv, Written, Writing, Answered, Kinds, Edited!GitWrites, Edited!At, Edited!Goes, Edited!Answers
<1>6. Kinds(c)'
  BY <1>0 DEF Edited!TypeOK, CallInv, Writing, Answered, Kinds, Edited!GitWrites, Edited!At, Edited!Goes, Edited!Answers
<1>7. ASSUME NEW d \in Edits, d # c PROVE Spared(d)
  BY <1>0, <1>7, EditsNames DEF EditsInv, Edited!TypeOK, CallInv, Writing, Kinds, Spared, Edited!GitWrites, Edited!At, Edited!Goes, Edited!Answers
<1> QED
  BY <1>1, <1>2, <1>3, <1>4, <1>5, <1>6, <1>7, OthersSpared DEF EditsInv, CallInv

(* ... diagnostics are read after the write; ...                           *)
LEMMA DiagnoseKept ==
    ASSUME EditsInv, NEW c \in Edits, Edited!Diagnose(c)
    PROVE  EditsInv'
<1>0. CallInv(c) /\ Edited!TypeOK
  BY DEF EditsInv
<1>1. Edited!TypeOK'
  <2>1. edit \in [Edits -> Call]
    BY <1>0 DEF Edited!TypeOK, Call, Places, Answers
  <2>2. Moves(c)
    BY DEF Moves, Places, Answers, Edited!Diagnose, Edited!At, Edited!Goes, Edited!Answers
  <2>3. edit' \in [Edits -> Call]
    BY <2>1, <2>2, MovesTyped
  <2> QED
    BY <1>0, <2>3 DEF Edited!TypeOK, Call, Places, Answers, Edited!Texts, Edited!Diagnose, Edited!At, Edited!Goes, Edited!Answers
<1>2. Edited!NothingLeftOver'
  BY <1>0 DEF EditsInv, Edited!NothingLeftOver, Edited!TypeOK, CallInv, Writing, Edited!Diagnose, Edited!At, Edited!Goes, Edited!Answers
<1>3. Written(c)'
  BY <1>0, EditsNames DEF Edited!TypeOK, CallInv, Written, Writing, Kinds, Edited!Diagnose, Edited!At, Edited!Goes, Edited!Answers
<1>4. Writing(c)'
  BY <1>0 DEF Edited!TypeOK, CallInv, Written, Writing, Answered, Kinds, Edited!Diagnose, Edited!At, Edited!Goes, Edited!Answers
<1>5. Answered(c)'
  BY <1>0 DEF Edited!TypeOK, CallInv, Written, Writing, Answered, Kinds, Edited!Diagnose, Edited!At, Edited!Goes, Edited!Answers
<1>6. Kinds(c)'
  BY <1>0 DEF Edited!TypeOK, CallInv, Writing, Answered, Kinds, Edited!Diagnose, Edited!At, Edited!Goes, Edited!Answers
<1>7. ASSUME NEW d \in Edits, d # c PROVE Spared(d)
  BY <1>0, <1>7, EditsNames DEF EditsInv, Edited!TypeOK, CallInv, Writing, Kinds, Spared, Edited!Diagnose, Edited!At, Edited!Goes, Edited!Answers
<1> QED
  BY <1>1, <1>2, <1>3, <1>4, <1>5, <1>6, <1>7, OthersSpared DEF EditsInv, CallInv

(* ... a project is made beside its target, ...                            *)
LEMMA StageProjectKept ==
    ASSUME EditsInv, NEW c \in Edits, Edited!StageProject(c)
    PROVE  EditsInv'
<1>0. CallInv(c) /\ Edited!TypeOK
  BY DEF EditsInv
<1>1. Edited!TypeOK'
  <2>1. edit \in [Edits -> Call]
    BY <1>0 DEF Edited!TypeOK, Call, Places, Answers
  <2>2. Moves(c)
    BY DEF Moves, Places, Answers, Edited!StageProject, Edited!At, Edited!Goes, Edited!Answers
  <2>3. edit' \in [Edits -> Call]
    BY <2>1, <2>2, MovesTyped
  <2> QED
    BY <1>0, <2>3 DEF Edited!TypeOK, Call, Places, Answers, Edited!Texts, Edited!StageProject, Edited!At, Edited!Goes, Edited!Answers
<1>2. Edited!NothingLeftOver'
  <2>1. \A d \in Edits : d # c => edit'[d] = edit[d]
    BY <1>0 DEF Edited!TypeOK, Edited!StageProject, Edited!At, Edited!Goes, Edited!Answers
  <2>2. ~crashed /\ c \in temps' => edit'[c].at \in {"clear", "move", "restore"}
    BY <1>0 DEF EditsInv, Edited!NothingLeftOver, Edited!TypeOK, CallInv, Writing, Edited!StageProject, Edited!At, Edited!Goes, Edited!Answers
  <2>3. temps' \subseteq temps \cup {c} /\ temps' \subseteq Edits /\ writes' = writes /\ crashed' = crashed
    BY <1>0 DEF Edited!TypeOK, Edited!StageProject, Edited!At, Edited!Goes, Edited!Answers
  <2> QED
    BY <2>1, <2>2, <2>3 DEF EditsInv, Edited!NothingLeftOver, Edited!At
<1>3. Written(c)'
  BY <1>0, EditsNames DEF Edited!TypeOK, CallInv, Written, Writing, Kinds, Edited!StageProject, Edited!At, Edited!Goes, Edited!Answers
<1>4. Writing(c)'
  BY <1>0 DEF Edited!TypeOK, CallInv, Written, Writing, Answered, Kinds, Edited!StageProject, Edited!At, Edited!Goes, Edited!Answers
<1>5. Answered(c)'
  BY <1>0 DEF Edited!TypeOK, CallInv, Written, Writing, Answered, Kinds, Edited!StageProject, Edited!At, Edited!Goes, Edited!Answers
<1>6. Kinds(c)'
  BY <1>0 DEF Edited!TypeOK, CallInv, Writing, Answered, Kinds, Edited!StageProject, Edited!At, Edited!Goes, Edited!Answers
<1>7. ASSUME NEW d \in Edits, d # c PROVE Spared(d)
  BY <1>0, <1>7, EditsNames DEF EditsInv, Edited!TypeOK, CallInv, Writing, Kinds, Spared, Edited!StageProject, Edited!At, Edited!Goes, Edited!Answers
<1> QED
  BY <1>1, <1>2, <1>3, <1>4, <1>5, <1>6, <1>7, OthersSpared DEF EditsInv, CallInv

(* ... which has to be free, ...                                           *)
LEMMA ClearTargetKept ==
    ASSUME EditsInv, NEW c \in Edits, NEW fails \in BOOLEAN, Edited!ClearTarget(c, fails)
    PROVE  EditsInv'
<1>0. CallInv(c) /\ Edited!TypeOK
  BY DEF EditsInv
<1>1. Edited!TypeOK'
  <2>0. CallInv(c)
    BY <1>0
  <2>1. edit \in [Edits -> Call]
    BY <1>0 DEF Edited!TypeOK, Call, Places, Answers
  <2>2. "none" \in Answers /\ (target = "empty") \in BOOLEAN /\ edit[c].paths \in SUBSET Paths /\ edit[c].todo \in SUBSET Paths
    BY <2>1 DEF Call, Answers
  <2>4. "git" \in Places /\ "move" \in Places
    BY DEF Places
  <2>3. edit' \in [Edits -> Call]
    <3>1. CASE edit' = [edit EXCEPT ![c].at = "move", ![c].existed = (target = "empty")]
      BY <3>1, <2>1, <2>2, <2>4, CallStays
    <3>2. CASE Moves(c)
      BY <3>2, <2>1, MovesTyped
    <3> QED
      BY <3>1, <3>2 DEF Moves, Places, Answers, Edited!ClearTarget, Edited!Answers, Edited!Goes
  <2> QED
    BY <1>0, <2>3 DEF Edited!TypeOK, Call, Places, Answers, Edited!Texts, Edited!ClearTarget, Edited!At, Edited!Goes, Edited!Answers
<1>2. Edited!NothingLeftOver'
  BY <1>0 DEF EditsInv, Edited!NothingLeftOver, Edited!TypeOK, CallInv, Writing, Edited!ClearTarget, Edited!At, Edited!Goes, Edited!Answers
<1>3. Written(c)'
  BY <1>0, EditsNames DEF Edited!TypeOK, CallInv, Written, Writing, Kinds, Edited!ClearTarget, Edited!At, Edited!Goes, Edited!Answers
<1>4. Writing(c)'
  BY <1>0 DEF Edited!TypeOK, CallInv, Written, Writing, Answered, Kinds, Edited!ClearTarget, Edited!At, Edited!Goes, Edited!Answers
<1>5. Answered(c)'
  BY <1>0 DEF Edited!TypeOK, CallInv, Written, Writing, Answered, Kinds, Edited!ClearTarget, Edited!At, Edited!Goes, Edited!Answers
<1>6. Kinds(c)'
  BY <1>0 DEF Edited!TypeOK, CallInv, Writing, Answered, Kinds, Edited!ClearTarget, Edited!At, Edited!Goes, Edited!Answers
<1>7. ASSUME NEW d \in Edits, d # c PROVE Spared(d)
  BY <1>0, <1>7, EditsNames DEF EditsInv, Edited!TypeOK, CallInv, Writing, Kinds, Spared, Edited!ClearTarget, Edited!At, Edited!Goes, Edited!Answers
<1> QED
  BY <1>1, <1>2, <1>3, <1>4, <1>5, <1>6, <1>7, OthersSpared DEF EditsInv, CallInv

(* ... moved over it, ...                                                  *)
LEMMA MoveProjectKept ==
    ASSUME EditsInv, NEW c \in Edits, NEW fails \in BOOLEAN, NEW synced \in BOOLEAN, Edited!MoveProject(c, fails, synced)
    PROVE  EditsInv'
<1>0. CallInv(c) /\ Edited!TypeOK
  BY DEF EditsInv
<1>1. Edited!TypeOK'
  <2>1. edit \in [Edits -> Call]
    BY <1>0 DEF Edited!TypeOK, Call, Places, Answers
  <2>2. Moves(c)
    BY DEF Moves, Places, Answers, Edited!MoveProject, Edited!At, Edited!Goes, Edited!Answers
  <2>3. edit' \in [Edits -> Call]
    BY <2>1, <2>2, MovesTyped
  <2> QED
    BY <1>0, <2>3 DEF Edited!TypeOK, Call, Places, Answers, Edited!Texts, Edited!MoveProject, Edited!At, Edited!Goes, Edited!Answers
<1>2. Edited!NothingLeftOver'
  <2>1. \A d \in Edits : d # c => edit'[d] = edit[d]
    BY <1>0 DEF Edited!TypeOK, Edited!MoveProject, Edited!At, Edited!Goes, Edited!Answers
  <2>2. ~crashed /\ c \in temps' => edit'[c].at \in {"clear", "move", "restore"}
    BY <1>0 DEF EditsInv, Edited!NothingLeftOver, Edited!TypeOK, CallInv, Writing, Edited!MoveProject, Edited!At, Edited!Goes, Edited!Answers
  <2>3. temps' \subseteq temps \cup {c} /\ temps' \subseteq Edits /\ writes' = writes /\ crashed' = crashed
    BY <1>0 DEF Edited!TypeOK, Edited!MoveProject, Edited!At, Edited!Goes, Edited!Answers
  <2> QED
    BY <2>1, <2>2, <2>3 DEF EditsInv, Edited!NothingLeftOver, Edited!At
<1>3. Written(c)'
  BY <1>0, EditsNames DEF Edited!TypeOK, CallInv, Written, Writing, Kinds, Edited!MoveProject, Edited!At, Edited!Goes, Edited!Answers
<1>4. Writing(c)'
  BY <1>0 DEF Edited!TypeOK, CallInv, Written, Writing, Answered, Kinds, Edited!MoveProject, Edited!At, Edited!Goes, Edited!Answers
<1>5. Answered(c)'
  BY <1>0 DEF Edited!TypeOK, CallInv, Written, Writing, Answered, Kinds, Edited!MoveProject, Edited!At, Edited!Goes, Edited!Answers
<1>6. Kinds(c)'
  BY <1>0 DEF Edited!TypeOK, CallInv, Writing, Answered, Kinds, Edited!MoveProject, Edited!At, Edited!Goes, Edited!Answers
<1>7. ASSUME NEW d \in Edits, d # c PROVE Spared(d)
  BY <1>0, <1>7, EditsNames DEF EditsInv, Edited!TypeOK, CallInv, Writing, Kinds, Spared, Edited!MoveProject, Edited!At, Edited!Goes, Edited!Answers
<1> QED
  BY <1>1, <1>2, <1>3, <1>4, <1>5, <1>6, <1>7, OthersSpared DEF EditsInv, CallInv

(* ... and taken back when that fails.                                     *)
LEMMA RestoreTargetKept ==
    ASSUME EditsInv, NEW c \in Edits, Edited!RestoreTarget(c)
    PROVE  EditsInv'
<1>0. CallInv(c) /\ Edited!TypeOK
  BY DEF EditsInv
<1>1. Edited!TypeOK'
  <2>1. edit \in [Edits -> Call]
    BY <1>0 DEF Edited!TypeOK, Call, Places, Answers
  <2>2. Moves(c)
    BY DEF Moves, Places, Answers, Edited!RestoreTarget, Edited!At, Edited!Goes, Edited!Answers
  <2>3. edit' \in [Edits -> Call]
    BY <2>1, <2>2, MovesTyped
  <2> QED
    BY <1>0, <2>3 DEF Edited!TypeOK, Call, Places, Answers, Edited!Texts, Edited!RestoreTarget, Edited!At, Edited!Goes, Edited!Answers
<1>2. Edited!NothingLeftOver'
  BY <1>0 DEF EditsInv, Edited!NothingLeftOver, Edited!TypeOK, CallInv, Writing, Edited!RestoreTarget, Edited!At, Edited!Goes, Edited!Answers
<1>3. Written(c)'
  BY <1>0, EditsNames DEF Edited!TypeOK, CallInv, Written, Writing, Kinds, Edited!RestoreTarget, Edited!At, Edited!Goes, Edited!Answers
<1>4. Writing(c)'
  BY <1>0 DEF Edited!TypeOK, CallInv, Written, Writing, Answered, Kinds, Edited!RestoreTarget, Edited!At, Edited!Goes, Edited!Answers
<1>5. Answered(c)'
  BY <1>0 DEF Edited!TypeOK, CallInv, Written, Writing, Answered, Kinds, Edited!RestoreTarget, Edited!At, Edited!Goes, Edited!Answers
<1>6. Kinds(c)'
  BY <1>0 DEF Edited!TypeOK, CallInv, Writing, Answered, Kinds, Edited!RestoreTarget, Edited!At, Edited!Goes, Edited!Answers
<1>7. ASSUME NEW d \in Edits, d # c PROVE Spared(d)
  BY <1>0, <1>7, EditsNames DEF EditsInv, Edited!TypeOK, CallInv, Writing, Kinds, Spared, Edited!RestoreTarget, Edited!At, Edited!Goes, Edited!Answers
<1> QED
  BY <1>1, <1>2, <1>3, <1>4, <1>5, <1>6, <1>7, OthersSpared DEF EditsInv, CallInv

(* A cancelled call leaves its thread to write on its own.                 *)
LEMMA CancelKept ==
    ASSUME EditsInv, NEW c \in Edits, Edited!Cancel(c)
    PROVE  EditsInv'
<1>0. CallInv(c) /\ Edited!TypeOK
  BY DEF EditsInv
<1>1. Edited!TypeOK'
  <2>1. edit \in [Edits -> Call]
    BY <1>0 DEF Edited!TypeOK, Call, Places, Answers
  <2>2. Moves(c)
    BY DEF Moves, Places, Answers, Edited!Cancel, Edited!At, Edited!Goes, Edited!Answers
  <2>3. edit' \in [Edits -> Call]
    BY <2>1, <2>2, MovesTyped
  <2> QED
    BY <1>0, <2>3 DEF Edited!TypeOK, Call, Places, Answers, Edited!Texts, Edited!Cancel, Edited!At, Edited!Goes, Edited!Answers
<1>2. Edited!NothingLeftOver'
  BY <1>0 DEF EditsInv, Edited!NothingLeftOver, Edited!TypeOK, CallInv, Writing, Edited!Cancel, Edited!At, Edited!Goes, Edited!Answers
<1>3. Written(c)'
  BY <1>0, EditsNames DEF Edited!TypeOK, CallInv, Written, Writing, Kinds, Edited!Cancel, Edited!At, Edited!Goes, Edited!Answers
<1>4. Writing(c)'
  BY <1>0 DEF Edited!TypeOK, CallInv, Written, Writing, Answered, Kinds, Edited!Cancel, Edited!At, Edited!Goes, Edited!Answers
<1>5. Answered(c)'
  BY <1>0 DEF Edited!TypeOK, CallInv, Written, Writing, Answered, Kinds, Edited!Cancel, Edited!At, Edited!Goes, Edited!Answers
<1>6. Kinds(c)'
  BY <1>0 DEF Edited!TypeOK, CallInv, Writing, Answered, Kinds, Edited!Cancel, Edited!At, Edited!Goes, Edited!Answers
<1>7. ASSUME NEW d \in Edits, d # c PROVE Spared(d)
  BY <1>0, <1>7, EditsNames DEF EditsInv, Edited!TypeOK, CallInv, Writing, Kinds, Spared, Edited!Cancel, Edited!At, Edited!Goes, Edited!Answers
<1> QED
  BY <1>1, <1>2, <1>3, <1>4, <1>5, <1>6, <1>7, OthersSpared DEF EditsInv, CallInv

(* Git stopped half way has written what it had written.                   *)
LEMMA GitTimesOutKept ==
    ASSUME EditsInv, NEW c \in Edits, Edited!GitTimesOut(c)
    PROVE  EditsInv'
<1>0. CallInv(c) /\ Edited!TypeOK
  BY DEF EditsInv
<1>1. Edited!TypeOK'
  <2>1. edit \in [Edits -> Call]
    BY <1>0 DEF Edited!TypeOK, Call, Places, Answers
  <2>2. Moves(c)
    BY DEF Moves, Places, Answers, Edited!GitTimesOut, Edited!At, Edited!Goes, Edited!Answers
  <2>3. edit' \in [Edits -> Call]
    BY <2>1, <2>2, MovesTyped
  <2> QED
    BY <1>0, <2>3 DEF Edited!TypeOK, Call, Places, Answers, Edited!Texts, Edited!GitTimesOut, Edited!At, Edited!Goes, Edited!Answers
<1>2. Edited!NothingLeftOver'
  BY <1>0 DEF EditsInv, Edited!NothingLeftOver, Edited!TypeOK, CallInv, Writing, Edited!GitTimesOut, Edited!At, Edited!Goes, Edited!Answers
<1>3. Written(c)'
  BY <1>0, EditsNames DEF Edited!TypeOK, CallInv, Written, Writing, Kinds, Edited!GitTimesOut, Edited!At, Edited!Goes, Edited!Answers
<1>4. Writing(c)'
  BY <1>0 DEF Edited!TypeOK, CallInv, Written, Writing, Answered, Kinds, Edited!GitTimesOut, Edited!At, Edited!Goes, Edited!Answers
<1>5. Answered(c)'
  BY <1>0 DEF Edited!TypeOK, CallInv, Written, Writing, Answered, Kinds, Edited!GitTimesOut, Edited!At, Edited!Goes, Edited!Answers
<1>6. Kinds(c)'
  BY <1>0 DEF Edited!TypeOK, CallInv, Writing, Answered, Kinds, Edited!GitTimesOut, Edited!At, Edited!Goes, Edited!Answers
<1>7. ASSUME NEW d \in Edits, d # c PROVE Spared(d)
  BY <1>0, <1>7, EditsNames DEF EditsInv, Edited!TypeOK, CallInv, Writing, Kinds, Spared, Edited!GitTimesOut, Edited!At, Edited!Goes, Edited!Answers
<1> QED
  BY <1>1, <1>2, <1>3, <1>4, <1>5, <1>6, <1>7, OthersSpared DEF EditsInv, CallInv

(* The user's own edits are no call's.                                     *)
LEMMA UserEditsKept ==
    ASSUME EditsInv, Edited!UserEdits
    PROVE  EditsInv'
<1>1. Edited!TypeOK'
  <2>1. \A p \in Paths : drafts \in [Paths -> Edited!Texts] => [drafts EXCEPT ![p] = User] \in [Paths -> Edited!Texts]
    BY DEF Edited!Texts
  <2> QED
    BY <2>1 DEF EditsInv, Edited!TypeOK, Edited!UserEdits
<1>2. Edited!NothingLeftOver'
  BY DEF EditsInv, Edited!NothingLeftOver, Edited!UserEdits, Edited!At
<1>3. ASSUME NEW d \in Edits PROVE Spared(d)
  BY EditsNames DEF EditsInv, Edited!TypeOK, Edited!UserEdits, Spared
<1> QED
  BY <1>1, <1>2, <1>3, OthersSpared DEF EditsInv

(* Calls are typed, and only a call that is done has answered.             *)
LEMMA EditsShape ==
    EditsInv => /\ edit \in [Edits -> Call]
                /\ \A c \in Edits : edit[c].at = "done" \/ edit[c].answer = "none"
<1> SUFFICES ASSUME EditsInv
             PROVE  /\ edit \in [Edits -> Call]
                    /\ \A c \in Edits : edit[c].at = "done" \/ edit[c].answer = "none"
  OBVIOUS
<1>1. edit \in [Edits -> Call]
  BY DEF EditsInv, Edited!TypeOK, Call, Places, Answers
<1>2. \A c \in Edits : edit[c].at = "done" \/ edit[c].answer = "none"
  BY DEF EditsInv, CallInv, Answered
<1> QED
  BY <1>1, <1>2

(* A crash stops all calls, and frees the lock.                            *)
LEMMA CrashKept ==
    ASSUME EditsInv, Edited!Crash
    PROVE  EditsInv'
<1>1. Edited!TypeOK'
  <2>1. edit \in [Edits -> Call]
    BY DEF EditsInv, Edited!TypeOK, Call, Places, Answers
  <2>2. \A d \in Edits : [edit[d] EXCEPT !.at = "done"] \in Call
    BY <2>1 DEF Call, Places
  <2>3. edit' \in [Edits -> Call]
    BY <2>2 DEF Edited!Crash
  <2> QED
    BY <2>3 DEF EditsInv, Edited!TypeOK, Edited!Crash, Call, Places, Answers
<1>2. Edited!NothingLeftOver'
  BY DEF Edited!NothingLeftOver, Edited!Crash
<1>3. ASSUME NEW d \in Edits PROVE CallInv(d)'
  <2>0. CallInv(d) /\ edit[d] \in Call
    BY EditsShape DEF EditsInv
  <2>1. /\ edit'[d].at = "done" /\ edit'[d].answer = edit[d].answer /\ edit'[d].paths = edit[d].paths
        /\ edit'[d].kind = edit[d].kind
    BY <2>0 DEF Edited!Crash, Call
  <2>2. writes' = {} /\ landed' = landed /\ drafts' = drafts /\ halfDone' = halfDone
    BY DEF Edited!Crash
  <2> QED
    BY <2>0, <2>1, <2>2 DEF CallInv, Written, Writing, Answered, Kinds
<1> QED
  BY <1>1, <1>2, <1>3 DEF EditsInv

(* Every step keeps the invariant.                                         *)
LEMMA EditsStep ==
    ASSUME EditsInv, Edited!Next
    PROVE  EditsInv'
<1>1. ASSUME NEW c \in Edits, NEW p \in Paths, Edited!Begin(c, "write", {p}) \/ Edited!GitWrites(c, p)
      PROVE  EditsInv'
  BY <1>1, BeginKept, GitWritesKept
<1>2. ASSUME NEW c \in Edits, NEW ps \in SUBSET Paths, Edited!Begin(c, "patch", ps)
      PROVE  EditsInv'
  BY <1>2, BeginKept
<1>3. ASSUME NEW c \in Edits, Edited!Begin(c, "project", {})
      PROVE  EditsInv'
  BY <1>3, BeginKept
<1>4. ASSUME NEW c \in Edits, \/ Edited!Capture(c) \/ Edited!WriteTemp(c) \/ Edited!WriteFails(c)
                              \/ Edited!CheckPatch(c) \/ Edited!Diagnose(c)
      PROVE  EditsInv'
  BY <1>4, CaptureKept, WriteTempKept, WriteFailsKept, CheckPatchKept, DiagnoseKept
<1>5. ASSUME NEW c \in Edits, \/ Edited!StageProject(c) \/ Edited!RestoreTarget(c)
                              \/ Edited!Cancel(c) \/ Edited!GitTimesOut(c)
      PROVE  EditsInv'
  BY <1>5, StageProjectKept, RestoreTargetKept, CancelKept, GitTimesOutKept
<1>6. ASSUME NEW c \in Edits, NEW b \in BOOLEAN, Edited!WriteLands(c, b) \/ Edited!ClearTarget(c, b)
      PROVE  EditsInv'
  BY <1>6, WriteLandsKept, ClearTargetKept
<1>7. ASSUME NEW c \in Edits, NEW fails \in BOOLEAN, NEW synced \in BOOLEAN,
             Edited!MoveProject(c, fails, synced)
      PROVE  EditsInv'
  BY <1>7, MoveProjectKept
<1> QED
  BY <1>1, <1>2, <1>3, <1>4, <1>5, <1>6, <1>7, UserEditsKept, CrashKept DEF Edited!Next

(* An edit that succeeded has landed whole, one that failed not at all.    *)
LEMMA EditsInvWhole == EditsInv => Edited!AllOrNothing
BY DEF EditsInv, CallInv, Written, Writing, Answered, Edited!AllOrNothing

(* A project's call answers in its own steps only.                         *)
LEMMA ProjectsOwnSteps ==
    ASSUME EditsInv, Edited!Next, NEW c \in Edits, edit[c].kind = "project", edit[c].at # "done"
    PROVE  \/ edit'[c].answer = "none"
           \/ Edited!StageProject(c) \/ Edited!RestoreTarget(c)
           \/ \E b \in BOOLEAN : Edited!ClearTarget(c, b)
           \/ \E fails, synced \in BOOLEAN : Edited!MoveProject(c, fails, synced)
<1>0. /\ edit \in [Edits -> Call] /\ edit[c].answer = "none" /\ edit[c].at \in Making
      /\ c \notin writes
  BY EditsShape DEF EditsInv, CallInv, Kinds, Writing
<1> USE DEF Edited!At, Edited!Goes, Edited!Answers
<1>1. ASSUME NEW d \in Edits, d # c, edit' = [edit EXCEPT ![d] = edit'[d]]
      PROVE  edit'[c].answer = "none"
  BY <1>0, <1>1
<1>2. ASSUME NEW d \in Edits, NEW kind, NEW ps, Edited!Begin(d, kind, ps)
      PROVE  edit'[c].answer = "none"
  BY <1>0, <1>2 DEF Edited!Begin, Edited!Idle, Call
<1>3. ASSUME NEW d \in Edits,
             \/ Edited!Capture(d) \/ Edited!WriteTemp(d) \/ Edited!WriteFails(d)
             \/ Edited!CheckPatch(d) \/ Edited!Diagnose(d) \/ Edited!Cancel(d) \/ Edited!GitTimesOut(d)
      PROVE  edit'[c].answer = "none"
  <2>1. CASE d = c
    BY <1>0, <1>3, <2>1
       DEF Edited!Capture, Edited!WriteTemp, Edited!WriteFails, Edited!CheckPatch, Edited!Diagnose,
           Edited!Cancel, Edited!GitTimesOut
  <2>2. CASE d # c
    BY <1>0, <1>3, <2>2
       DEF Edited!Capture, Edited!WriteTemp, Edited!WriteFails, Edited!CheckPatch, Edited!Diagnose,
           Edited!Cancel, Edited!GitTimesOut
  <2> QED
    BY <2>1, <2>2
<1>4. ASSUME NEW d \in Edits, NEW b \in BOOLEAN, Edited!WriteLands(d, b)
      PROVE  edit'[c].answer = "none"
  <2>1. d # c
    BY <1>0, <1>4 DEF Edited!WriteLands
  <2> QED
    BY <1>0, <1>4, <2>1 DEF Edited!WriteLands
<1>5. ASSUME NEW d \in Edits, NEW p \in Paths, Edited!GitWrites(d, p)
      PROVE  edit'[c].answer = "none"
  BY <1>0, <1>5 DEF Edited!GitWrites, Call
<1>6. ASSUME NEW d \in Edits, d # c, NEW fails \in BOOLEAN, NEW synced \in BOOLEAN,
             \/ Edited!StageProject(d) \/ Edited!RestoreTarget(d)
             \/ Edited!ClearTarget(d, fails) \/ Edited!MoveProject(d, fails, synced)
      PROVE  edit'[c].answer = "none"
  BY <1>0, <1>6
     DEF Edited!StageProject, Edited!RestoreTarget, Edited!ClearTarget, Edited!MoveProject
<1>7. CASE Edited!UserEdits \/ Edited!Crash
  BY <1>0, <1>7 DEF Edited!UserEdits, Edited!Crash, Call
<1>8. BOOLEAN # {}
  OBVIOUS
<1> QED
  BY <1>2, <1>3, <1>4, <1>5, <1>6, <1>7, <1>8 DEF Edited!Next

(* A project that was made stands at its target, one that was not left it. *)
LEMMA ProjectsWhole ==
    ASSUME EditsInv, Edited!Next
    PROVE  Edited!ProjectWhole
<1> SUFFICES ASSUME NEW c \in Edits, edit[c].kind = "project", edit[c].at # "done"
             PROVE  /\ edit'[c].answer = "ok" => target' = "project" /\ c \notin temps'
                    /\ edit'[c].answer = "error" /\ edit[c].existed => target' # "absent"
  BY DEF Edited!ProjectWhole, Edited!At
<1>0. /\ edit \in [Edits -> Call] /\ Kinds(c) /\ target \in {"absent", "empty", "users", "project"}
      /\ edit[c].answer = "none"
  BY EditsShape DEF EditsInv, CallInv, Edited!TypeOK
<1>5. /\ \A place : edit' = [edit EXCEPT ![c].at = place] => edit'[c].answer = "none"
      /\ \A place, b : edit' = [edit EXCEPT ![c].at = place, ![c].existed = b] => edit'[c].answer = "none"
      /\ \A answer : edit' = [edit EXCEPT ![c].at = "done", ![c].answer = answer, ![c].todo = {}]
            => edit'[c].answer = answer
  BY <1>0 DEF Call
<1> USE DEF Edited!At, Edited!Goes, Edited!Answers
<1>1. CASE Edited!StageProject(c)
  BY <1>0, <1>1, <1>5 DEF Edited!StageProject, Kinds
<1>2. CASE Edited!RestoreTarget(c)
  BY <1>0, <1>2 DEF Edited!RestoreTarget, Kinds
<1>3. CASE \E b \in BOOLEAN : Edited!ClearTarget(c, b)
  <2>1. ~edit[c].existed
    BY <1>0, <1>3 DEF Edited!ClearTarget, Kinds
  <2>2. edit'[c].answer # "ok"
    <3>1. \/ edit' = [edit EXCEPT ![c].at = "done", ![c].answer = "error", ![c].todo = {}]
          \/ edit' = [edit EXCEPT ![c].at = "move", ![c].existed = (target = "empty")]
      BY <1>3 DEF Edited!ClearTarget
    <3> QED
      BY <3>1, <1>5
  <2> QED
    BY <2>1, <2>2
<1>4. CASE \E fails, synced \in BOOLEAN : Edited!MoveProject(c, fails, synced)
  BY <1>0, <1>4, <1>5 DEF Edited!MoveProject, Kinds
<1> QED
  BY <1>1, <1>2, <1>3, <1>4, ProjectsOwnSteps

(* A file changes by who has the lock, the user or a cancelled call.       *)
LEMMA ChangesLocked ==
    ASSUME EditsInv, Edited!Next
    PROVE  Edited!ChangedUnderLock
<1>0. \A c \in Edits : Writing(c) /\ Kinds(c)
  BY DEF EditsInv, CallInv
<1>1. target = "users" => target' = "users"
  BY DEF Edited!Next, Edited!Begin, Edited!Capture, Edited!WriteTemp, Edited!WriteLands,
         Edited!WriteFails, Edited!CheckPatch, Edited!GitWrites, Edited!Diagnose, Edited!StageProject,
         Edited!ClearTarget, Edited!MoveProject, Edited!RestoreTarget, Edited!Cancel,
         Edited!GitTimesOut, Edited!UserEdits, Edited!Crash
<1>2. \/ drafts' = drafts
      \/ \E c \in Edits, b \in BOOLEAN : Edited!WriteLands(c, b)
      \/ \E c \in Edits, p \in Paths : Edited!GitWrites(c, p)
      \/ \E p \in Paths : drafts' = [drafts EXCEPT ![p] = User]
  BY DEF Edited!Next, Edited!Begin, Edited!Capture, Edited!WriteTemp,
         Edited!WriteFails, Edited!CheckPatch, Edited!Diagnose, Edited!StageProject,
         Edited!ClearTarget, Edited!MoveProject, Edited!RestoreTarget, Edited!Cancel,
         Edited!GitTimesOut, Edited!UserEdits, Edited!Crash
<1>3. drafts \in [Paths -> Edited!Texts]
  BY DEF EditsInv, Edited!TypeOK
<1> SUFFICES ASSUME NEW q \in Paths, drafts'[q] # drafts[q]
             PROVE  drafts'[q] \in {User, mutator} \cup {c \in Edits : edit[c].answer = "canceled"}
  BY <1>1 DEF Edited!ChangedUnderLock
<1>4. ASSUME NEW c \in Edits, NEW b \in BOOLEAN, Edited!WriteLands(c, b)
      PROVE  drafts'[q] \in {User, mutator} \cup {d \in Edits : edit[d].answer = "canceled"}
  <2>1. drafts'[q] = c
    BY <1>3, <1>4 DEF Edited!WriteLands
  <2>2. mutator = c \/ edit[c].answer = "canceled"
    BY <1>0, <1>4 DEF Edited!WriteLands, Writing, Kinds
  <2> QED
    BY <2>1, <2>2
<1>5. ASSUME NEW c \in Edits, NEW p \in Paths, Edited!GitWrites(c, p)
      PROVE  drafts'[q] \in {User, mutator} \cup {d \in Edits : edit[d].answer = "canceled"}
  <2>1. drafts'[q] = c
    BY <1>3, <1>5 DEF Edited!GitWrites
  <2>2. mutator = c
    BY <1>0, <1>5 DEF Edited!GitWrites, Edited!At, Kinds
  <2> QED
    BY <2>1, <2>2
<1> QED
  BY <1>2, <1>3, <1>4, <1>5

(* The invariant holds while the edits run.                                *)
EditsPart == part = "edits" => EditsInv

(* ... through every step of the instance.                                 *)
LEMMA EditsPartStep ==
    ASSUME EditsPart, [WorkNext]_<<part, talkVars, snapshotsVars, editsVars>>
    PROVE  EditsPart'
<1> SUFFICES ASSUME part' = "edits" PROVE EditsInv'
  BY DEF EditsPart
<1>1. CASE part = "edits" /\ Edited!Next
  BY <1>1, EditsStep DEF EditsPart
<1>2. CASE UNCHANGED <<part, editsVars>>
  BY <1>2 DEF EditsPart, editsVars, EditsInv, Edited!TypeOK, Edited!NothingLeftOver, Edited!At,
              Edited!Texts, CallInv, Written, Writing, Answered, Kinds
<1> QED
  BY <1>1, <1>2 DEF WorkNext

(* A tool's edit that succeeded has written all of its files, one that     *)
(* failed none unless git was stopped half way or a directory could not be *)
(* synced, and nothing temporary stays (_atomic_write_text, _apply_patch). *)
THEOREM EditsWholeHolds == WorkSpec => []EditsWhole
<1>1. WorkInit => EditsPart
  BY EditsStart DEF WorkInit, EditsPart
<1>2. EditsPart /\ [WorkNext]_<<part, talkVars, snapshotsVars, editsVars>> => EditsPart'
  BY EditsPartStep
<1>3. EditsPart => EditsWhole
  BY EditsInvWhole DEF EditsWhole, EditsInv, EditsPart
<1> QED
  BY <1>1, <1>2, <1>3, PTL DEF WorkSpec

-----------------------------------------------------------------------------
(*                        The snapshots (Snapshots)                        *)

(* Snapshots. Who holds the lock and who waits for it follows from where   *)
(* the process is; a capture in the background waits or stages while no    *)
(* turn runs, so the tree it finds is the one its turn left.               *)
Main == Side!Main
Turns == Side!Turns
Restoring == {"wait", "save", "apply", "back"}
InTurn == pc \in {"pre", "preCommit", "run"} \/ (pc \in Restoring /\ home = "run")

Quiet == \A t \in Turns : background[t] = "none"
Only(t) == background[t] # "none" /\ \A u \in Turns : u # t => background[u] = "none"

Queues ==
    /\ pc = "idle" => \/ queue = <<>> /\ Quiet
                      \/ \E t \in Turns : queue = <<t>> /\ Only(t)
    /\ pc = "pre" => \/ queue = <<Main>> /\ Quiet
                     \/ \E t \in Turns : queue = <<t, Main>> /\ Only(t)
    /\ pc = "run" => queue = <<>> /\ Quiet
    /\ pc \in {"preCommit"} \cup Restoring => queue = <<Main>> /\ Quiet

(* What is of a turn that still goes on.                                   *)
TurnsInv ==
    /\ InTurn => turnOf >= 1
    /\ \A t \in Turns : background[t] # "none" => t =< turnOf /\ (InTurn => t < turnOf)
    /\ \A i \in 1 .. Len(head) :
        /\ head[i].phase # "pre-restore" => head[i].turn >= 1 /\ head[i].turn =< turnOf
        /\ head[i].phase = "pre-turn" /\ pc \in {"pre", "preCommit"} => head[i].turn < turnOf
        /\ head[i].phase = "post-turn" /\ InTurn => head[i].turn < turnOf

(* Trees, while no rollback was left behind.                               *)
TreesInv ==
    /\ loose.todo = {}
    /\ \A t \in Turns : background[t] # "none" => tree = ends[t]
    /\ \A t \in Turns : background[t] = "staged" => index = ends[t]
    /\ pc = "preCommit" => index = tree
    /\ pc = "save" => restore.before = tree
    /\ pc = "apply" => /\ restore.todo \subseteq Side!FilesOf(restore.before) \cup Side!FilesOf(restore.target)
                       /\ \A f \in Files \ restore.todo : tree[f] = restore.target[f]
    /\ pc = "back" => \A f \in Files \ restore.todo : tree[f] = restore.before[f]
EntriesInv ==
    \A i \in 1 .. Len(head) :
        /\ head[i].phase = "pre-turn" => head[i].tree = starts[head[i].turn]
        /\ head[i].phase = "post-turn" => head[i].tree = ends[head[i].turn]

SideTypes == Side!TypeOK /\ starts \in [Turns -> Side!Tree] /\ ends \in [Turns -> Side!Tree]
SideInv == SideTypes /\ Queues /\ TurnsInv /\ (~strayed => TreesInv /\ EntriesInv)

(* The bounds of the instance.                                             *)
LEMMA SideBounds == MaxTurns \in Nat /\ MaxCommits \in Nat
BY WorkAssumption DEF Side!SnapshotsAssumption

(* Short queues, as sequences.                                             *)
LEMMA ShortQueues ==
    /\ Append(<<>>, Main) = <<Main>>
    /\ \A t \in Turns : /\ Append(<<>>, t) = <<t>> /\ Append(<<t>>, Main) = <<t, Main>>
                         /\ <<t>> # <<>> /\ Head(<<t>>) = t /\ Tail(<<t>>) = <<>>
                         /\ <<t, Main>> # <<>> /\ Head(<<t, Main>>) = t /\ Tail(<<t, Main>>) = <<Main>>
                         /\ t # Main
    /\ <<Main>> # <<>> /\ Head(<<Main>>) = Main /\ Tail(<<Main>>) = <<>>
<1>1. \A a : /\ Append(<<>>, a) = <<a>> /\ <<a>> # <<>> /\ Head(<<a>>) = a
            /\ Len(<<a>>) = 1
  OBVIOUS
<1>2. \A a : Tail(<<a>>) = <<>>
  OBVIOUS
<1>3. ASSUME NEW a, NEW b
      PROVE  Append(<<a>>, b) = <<a, b>> /\ <<a, b>> # <<>> /\ Head(<<a, b>>) = a
  <2>1. <<a>> \in Seq({a, b}) /\ <<a, b>> \in Seq({a, b}) /\ Len(<<a, b>>) = 2 /\ Len(<<a>>) = 1
    OBVIOUS
  <2>2. /\ Append(<<a>>, b) \in Seq({a, b}) /\ Len(Append(<<a>>, b)) = 2
        /\ Append(<<a>>, b)[1] = a /\ Append(<<a>>, b)[2] = b
    BY <2>1, AppendProperties, b \in {a, b}
  <2>3. \A i \in 1 .. 2 : Append(<<a>>, b)[i] = <<a, b>>[i]
    BY <2>2
  <2>4. Append(<<a>>, b) = <<a, b>>
    BY <2>1, <2>2, <2>3, SeqEqual
  <2> QED
    BY <2>1, <2>4
<1>4. \A a, b : Tail(<<a, b>>) = <<b>>
  OBVIOUS
<1>5. \A t \in Turns : t # Main
  BY SideBounds DEF Main, Turns, Side!Main, Side!Turns
<1> QED
  BY <1>1, <1>2, <1>3, <1>4, <1>5

(* What is left of a short queue when the main thread gives up its place.  *)
LEMMA WithoutMain ==
    /\ \A i \in 1 .. Len(<<Main>>) : Side!RemoveAt(<<Main>>, i) = <<>>
    /\ \A t \in Turns : \A i \in 1 .. Len(<<t, Main>>) :
        <<t, Main>>[i] = Main => Side!RemoveAt(<<t, Main>>, i) = <<t>>
<1>1. ASSUME NEW i \in 1 .. Len(<<Main>>) PROVE Side!RemoveAt(<<Main>>, i) = <<>>
  <2>1. i = 1
    OBVIOUS
  <2> QED
    BY <2>1 DEF Side!RemoveAt
<1>2. ASSUME NEW t \in Turns, NEW i \in 1 .. Len(<<t, Main>>), <<t, Main>>[i] = Main
      PROVE  Side!RemoveAt(<<t, Main>>, i) = <<t>>
  <2>1. i = 2
    BY <1>2, ShortQueues
  <2>2. ASSUME NEW a, NEW b PROVE SubSeq(<<a, b>>, 1, 1) = <<a>> /\ SubSeq(<<a, b>>, 3, 2) = <<>>
    <3>1. <<a>> \in Seq({a, b}) /\ Len(<<a>>) = 1 /\ \A j \in 1 .. 1 : <<a, b>>[j] \in {a, b}
      OBVIOUS
    <3>2. /\ SubSeq(<<a, b>>, 1, 1) \in Seq({a, b}) /\ Len(SubSeq(<<a, b>>, 1, 1)) = 1
          /\ SubSeq(<<a, b>>, 1, 1)[1] = <<a, b>>[1]
      BY <3>1, SubSeqProperties
    <3>3. \A j \in 1 .. 1 : SubSeq(<<a, b>>, 1, 1)[j] = <<a>>[j]
      BY <3>2
    <3>4. SubSeq(<<a, b>>, 1, 1) = <<a>>
      BY <3>1, <3>2, <3>3, SeqEqual
    <3>5. 3 \in Int /\ 2 \in Int /\ 2 < 3
      OBVIOUS
    <3>6. SubSeq(<<a, b>>, 3, 2) = <<>>
      BY <3>5, SubSeqEmpty
    <3> QED
      BY <3>4, <3>6
  <2>3. \A a : <<a>> \o <<>> = <<a>>
    OBVIOUS
  <2>4. Side!RemoveAt(<<t, Main>>, 2) = SubSeq(<<t, Main>>, 1, 1) \o SubSeq(<<t, Main>>, 3, 2)
    BY DEF Side!RemoveAt
  <2> QED
    BY <2>1, <2>2, <2>3, <2>4
<1> QED
  BY <1>1, <1>2

(* Before the first turn no snapshot is taken and no lock is held.         *)
LEMMA SideStart == Side!Init => SideInv
<1> SUFFICES ASSUME Side!Init PROVE SideInv
  OBVIOUS
<1> USE SideBounds DEF Side!Init
<1>0. Side!Nothing \in Side!Tree
  BY DEF Side!Nothing, Side!Tree
<1>1. SideTypes
  <2>1. Side!NoWork \in Side!Work
    BY <1>0 DEF Side!NoWork, Side!Work
  <2>2. Side!NoRestore \in [target : Side!Tree, before : Side!Tree, todo : SUBSET Files]
    BY <1>0 DEF Side!NoRestore
  <2>3. head \in Seq(Side!Commit) /\ queue \in Seq({Side!Main} \cup Side!Turns) /\ 0 \in 0 .. MaxTurns
    BY EmptySeq
  <2> QED
    BY <1>0, <2>1, <2>2, <2>3 DEF SideTypes, Side!TypeOK, Turns
<1>2. Queues
  BY DEF Queues, Quiet, Turns, Restoring
<1>3. TurnsInv
  BY DEF TurnsInv, InTurn, Restoring, Turns
<1>4. TreesInv /\ EntriesInv
  BY DEF TreesInv, EntriesInv, Turns, Side!NoWork
<1> QED
  BY <1>1, <1>2, <1>3, <1>4 DEF SideInv

(* One commit more.                                                        *)
LEMMA Committed ==
    ASSUME SideTypes, NEW kind \in {"pre-turn", "post-turn", "pre-restore"},
           NEW t \in 0 .. MaxTurns, Side!Commits(kind, t)
    PROVE  /\ head' \in Seq(Side!Commit) /\ index' \in Side!Tree
           /\ Len(head') = Len(head) + 1 /\ Len(head) \in Nat
           /\ \A i \in 1 .. Len(head) : head'[i] = head[i]
           /\ LET c == head'[Len(head) + 1] IN c.phase = kind /\ c.turn = t /\ c.tree = index
<1>1. index \in Side!Tree /\ head \in Seq(Side!Commit)
  BY DEF SideTypes, Side!TypeOK
<1>2. [phase |-> kind, turn |-> t, tree |-> index] \in Side!Commit
  BY <1>1 DEF Side!Commit
<1>3. Side!Nothing \in Side!Tree
  BY DEF Side!Nothing, Side!Tree
<1> QED
  BY <1>1, <1>2, <1>3 DEF Side!Commits

(* The types follow from the shape of the queue, ...                       *)
Short(q) == q \in {<<>>, <<Main>>} \/ \E t \in Turns : q = <<t>> \/ q = <<t, Main>>
Flows == {"idle", "pre", "preCommit", "run", "wait", "save", "apply", "back"}

(* ... which are queues of turns and the main thread, ...                  *)
LEMMA ShortTyped == \A q : Short(q) => q \in Seq({Side!Main} \cup Side!Turns)
<1>1. <<>> \in Seq({Side!Main} \cup Side!Turns) /\ <<Main>> \in Seq({Side!Main} \cup Side!Turns)
  BY DEF Main
<1>2. \A t \in Turns : /\ <<t>> \in Seq({Side!Main} \cup Side!Turns)
                       /\ <<t, Main>> \in Seq({Side!Main} \cup Side!Turns)
  BY DEF Main, Turns
<1> QED
  BY <1>1, <1>2 DEF Short

(* ... and those of the rest from how it is updated.                       *)
Trees == Side!Tree
Restores == [target : Trees, before : Trees, todo : SUBSET Files]
Works == [goal : Trees, todo : SUBSET Files]

(* ... and those of the parts of the records, ...                          *)
LEMMA SideShapes ==
    /\ Side!Nothing \in Trees /\ Side!NoRestore \in Restores /\ Side!NoWork \in Works
    /\ \A t \in Trees, f \in Files, c \in Contents \cup {Missing} : [t EXCEPT ![f] = c] \in Trees
    /\ \A t, goal \in Trees, f \in Files : [t EXCEPT ![f] = goal[f]] \in Trees
    /\ \A s \in [Turns -> Trees], t \in Turns, new \in Trees : [s EXCEPT ![t] = new] \in [Turns -> Trees]
    /\ \A b \in [Turns -> {"none", "waits", "staged"}], t \in Turns, new \in {"none", "waits", "staged"} :
        [b EXCEPT ![t] = new] \in [Turns -> {"none", "waits", "staged"}]
    /\ \A r \in Restores : /\ r.target \in Trees /\ r.before \in Trees /\ r.todo \subseteq Files
                           /\ \A t \in Trees : [r EXCEPT !.target = t] \in Restores
                           /\ \A t \in Trees : [r EXCEPT !.before = t] \in Restores
                           /\ \A fs \in SUBSET Files : [r EXCEPT !.todo = fs] \in Restores
    /\ \A w \in Works : /\ w.goal \in Trees /\ w.todo \subseteq Files
                        /\ \A fs \in SUBSET Files : [w EXCEPT !.todo = fs] \in Works
    /\ \A t \in Trees : Side!FilesOf(t) \subseteq Files
<1>1. Side!Nothing \in Trees
  BY DEF Side!Nothing, Side!Tree, Trees
<1>2. Side!NoRestore \in Restores /\ Side!NoWork \in Works
  BY <1>1 DEF Side!NoRestore, Side!NoWork, Restores, Works
<1>3. /\ \A t \in Trees, f \in Files, c \in Contents \cup {Missing} : [t EXCEPT ![f] = c] \in Trees
      /\ \A t, goal \in Trees, f \in Files : [t EXCEPT ![f] = goal[f]] \in Trees
  BY DEF Trees, Side!Tree
<1>4. \A r \in Restores : /\ r.target \in Trees /\ r.before \in Trees /\ r.todo \subseteq Files
                          /\ \A t \in Trees : [r EXCEPT !.target = t] \in Restores
                          /\ \A t \in Trees : [r EXCEPT !.before = t] \in Restores
                          /\ \A fs \in SUBSET Files : [r EXCEPT !.todo = fs] \in Restores
  BY DEF Restores
<1>5. \A w \in Works : /\ w.goal \in Trees /\ w.todo \subseteq Files
                       /\ \A fs \in SUBSET Files : [w EXCEPT !.todo = fs] \in Works
  BY DEF Works
<1>6. \A t \in Trees : Side!FilesOf(t) \subseteq Files
  BY DEF Side!FilesOf
<1> QED
  BY <1>1, <1>2, <1>3, <1>4, <1>5, <1>6

(* Everything but the queue.                                               *)
RestTyped ==
    /\ tree \in Trees /\ index \in Trees /\ head \in Seq(Side!Commit)
    /\ turnOf \in 0 .. MaxTurns /\ pc \in Flows
    /\ home \in {"idle", "run"} /\ taken \in BOOLEAN /\ closing \in BOOLEAN
    /\ background \in [Turns -> {"none", "waits", "staged"}]
    /\ restore \in Restores /\ loose \in Works /\ strayed \in BOOLEAN
    /\ starts \in [Turns -> Trees] /\ ends \in [Turns -> Trees]

(* ... which is what the types say of the rest, ...                        *)
LEMMA RestIs == SideTypes => RestTyped
BY DEF SideTypes, Side!TypeOK, RestTyped, Trees, Turns, Restores, Works, Flows, Side!Work

(* ... and with the shape of the queue all that they say.                  *)
LEMMA TypesAfter ==
    ASSUME RestTyped', Queues'
    PROVE  SideTypes'
<1>1. Short(queue')
  BY DEF RestTyped, Queues, Short, Restoring, Flows
<1>2. queue' \in Seq({Side!Main} \cup Side!Turns)
  BY <1>1, ShortTyped
<1> QED
  BY <1>2 DEF SideTypes, Side!TypeOK, RestTyped, Trees, Turns, Restores, Works, Flows, Side!Work

(* The entries of the history and the numbers of the turns.                *)
LEMMA EntryTyped ==
    ASSUME RestTyped
    PROVE  /\ Len(head) \in Nat /\ turnOf \in Nat
           /\ \A i \in 1 .. Len(head) :
                /\ head[i].phase \in {"pre-turn", "post-turn", "pre-restore"}
                /\ head[i].turn \in Nat /\ head[i].turn \in 0 .. MaxTurns /\ head[i].tree \in Trees
           /\ \A t \in Turns : t \in Nat /\ t >= 1
           /\ \A t \in Nat : t >= 1 /\ t =< turnOf => t \in Turns
<1>1. head \in Seq(Side!Commit)
  BY DEF RestTyped
<1>2. \A i \in 1 .. Len(head) : head[i] \in Side!Commit
  BY <1>1
<1>3. Len(head) \in Nat
  BY <1>1
<1>4. turnOf \in 0 .. MaxTurns
  BY DEF RestTyped
<1> QED
  BY <1>2, <1>3, <1>4, SideBounds DEF Side!Commit, Trees, Turns, Side!Turns

(* Who holds the lock.                                                     *)
LEMMA HoldsMain ==
    ASSUME SideInv, Side!Holds(Side!Main)
    PROVE  queue = <<Main>> /\ Quiet /\ pc \in {"pre", "preCommit"} \cup Restoring
BY ShortQueues DEF SideInv, Queues, SideTypes, Side!TypeOK, Side!Holds, Restoring, Main

(* ... and a capture of a turn holds it between turns.                     *)
LEMMA HoldsTurn ==
    ASSUME SideInv, NEW t \in Turns, Side!Holds(t)
    PROVE  /\ Only(t)
           /\ \/ pc = "idle" /\ queue = <<t>>
              \/ pc = "pre" /\ queue = <<t, Main>>
BY ShortQueues DEF SideInv, Queues, SideTypes, Side!TypeOK, Side!Holds, Restoring

(* The steps one by one. A turn queues for the lock, ...                   *)
LEMMA TurnBeginsKept ==
    ASSUME SideInv, Side!TurnBegins
    PROVE  SideInv'
<1>0. RestTyped /\ TurnsInv /\ (~strayed => TreesInv /\ EntriesInv)
  BY RestIs DEF SideInv
<1>1. /\ pc = "idle" /\ turnOf < MaxTurns
      /\ turnOf' = turnOf + 1
      /\ taken' = FALSE
      /\ pc' = "pre"
      /\ queue' = Append(queue, Main)
      /\ UNCHANGED <<tree, head, index, home, background, restore, loose, closing, strayed, starts,
                     ends>>
  BY DEF Side!TurnBegins, Side!flow, Side!undo, Side!past, Side!git, Main
<1>2. Queues
  BY DEF SideInv
<1>3. RestTyped
  BY RestIs DEF SideInv
<1>4. Queues'
  BY <1>0, <1>1, <1>2, ShortQueues DEF Queues, Quiet, Only, Restoring, RestTyped
<1>5. RestTyped'
  <2>1. turnOf + 1 \in 0 .. MaxTurns
    BY <1>0, <1>1, SideBounds DEF RestTyped
  <2> QED
    BY <1>0, <1>1, <2>1 DEF RestTyped, Flows
<1>6. TurnsInv'
  BY <1>0, <1>1, <1>2, <1>3, EntryTyped DEF RestTyped, TurnsInv, InTurn, Restoring, Quiet, Only
<1>7. ASSUME ~strayed' PROVE TreesInv'
  BY <1>0, <1>1, <1>2, <1>3, <1>7, SideShapes DEF RestTyped, TreesInv, Quiet, Only, Queues, Restoring
<1>8. ASSUME ~strayed' PROVE EntriesInv'
  BY <1>0, <1>1, <1>3, <1>8, EntryTyped DEF RestTyped, EntriesInv, TurnsInv, InTurn
<1> QED
  BY <1>4, <1>5, <1>6, <1>7, <1>8, TypesAfter DEF SideInv

(* ... stages the tree when it has it, ...                                 *)
LEMMA PreAddsKept ==
    ASSUME SideInv, Side!PreAdds
    PROVE  SideInv'
<1>0. RestTyped /\ TurnsInv /\ (~strayed => TreesInv /\ EntriesInv)
  BY RestIs DEF SideInv
<1>1. /\ pc = "pre"
      /\ index' = tree
      /\ pc' = "preCommit"
      /\ UNCHANGED <<tree, head, queue, home, turnOf, taken, background, restore, loose, closing,
                     strayed, starts, ends>>
  BY DEF Side!PreAdds, Side!Holds, Side!flow, Side!undo, Side!past, Side!git, Main
<1>2. queue = <<Main>> /\ Quiet /\ pc \in {"pre", "preCommit"} \cup Restoring
  BY HoldsMain DEF Side!PreAdds
<1>3. RestTyped
  BY RestIs DEF SideInv
<1>4. Queues'
  BY <1>0, <1>1, <1>2, ShortQueues DEF Queues, Quiet, Only, Restoring, RestTyped
<1>5. RestTyped'
  BY <1>0, <1>1, <1>3, SideShapes, EntryTyped DEF RestTyped, Flows
<1>6. TurnsInv'
  BY <1>0, <1>1, <1>2, <1>3, EntryTyped DEF RestTyped, TurnsInv, InTurn, Restoring, Quiet, Only
<1>7. ASSUME ~strayed' PROVE TreesInv'
  BY <1>0, <1>1, <1>2, <1>3, <1>7, SideShapes DEF RestTyped, TreesInv, Quiet, Only, Queues, Restoring
<1>8. ASSUME ~strayed' PROVE EntriesInv'
  BY <1>0, <1>1, <1>3, <1>8, EntryTyped DEF RestTyped, EntriesInv, TurnsInv, InTurn
<1> QED
  BY <1>4, <1>5, <1>6, <1>7, <1>8, TypesAfter DEF SideInv

(* ... commits it and runs, ...                                            *)
LEMMA PreCommitsKept ==
    ASSUME SideInv, Side!PreCommits
    PROVE  SideInv'
<1>0. RestTyped /\ TurnsInv /\ (~strayed => TreesInv /\ EntriesInv)
  BY RestIs DEF SideInv
<1>1. /\ pc = "preCommit"
      /\ pc' = "run"
      /\ taken' = TRUE
      /\ queue' = Tail(queue)
      /\ starts' = [starts EXCEPT ![turnOf] = tree]
      /\ UNCHANGED <<tree, home, turnOf, background, restore, loose, closing, strayed, ends>>
  BY DEF Side!PreCommits, Side!Runs, Side!Commits, Side!flow, Side!undo, Side!past, Side!git, Main
<1>2. queue = <<Main>> /\ Quiet
  BY <1>1 DEF SideInv, Queues, Restoring
<1>3. /\ Len(head') = Len(head) + 1 /\ Len(head) \in Nat /\ index' \in Trees
      /\ head' \in Seq(Side!Commit)
      /\ \A i \in 1 .. Len(head) : head'[i] = head[i]
      /\ head'[Len(head) + 1].phase = "pre-turn" /\ head'[Len(head) + 1].turn = turnOf
      /\ head'[Len(head) + 1].tree = index
  <2>1. turnOf \in 0 .. MaxTurns /\ SideTypes
    BY <1>0 DEF RestTyped, SideInv
  <2> QED
    BY <2>1, Committed DEF Side!PreCommits, Trees
<1>4. Queues'
  BY <1>0, <1>1, <1>2, ShortQueues DEF Queues, Quiet, Only, Restoring, RestTyped
<1>5. RestTyped'
  BY <1>0, <1>1, <1>3, SideShapes, EntryTyped DEF RestTyped, Flows
<1>6. TurnsInv'
  <2>1. ASSUME NEW i \in 1 .. Len(head'), i # Len(head) + 1
        PROVE  i \in 1 .. Len(head) /\ head'[i] = head[i]
    BY <1>3, <2>1
  <2>2. \A i \in 1 .. Len(head) :
          /\ head[i].phase # "pre-restore" => head[i].turn >= 1 /\ head[i].turn =< turnOf
          /\ head[i].phase = "pre-turn" /\ pc' \in {"pre", "preCommit"} => head[i].turn < turnOf
          /\ head[i].phase = "post-turn" /\ InTurn' => head[i].turn < turnOf
    BY <1>0, <1>1, <1>2 DEF TurnsInv, InTurn, Restoring
  <2>3. LET c == head'[Len(head) + 1]
        IN  /\ c.phase # "pre-restore" => c.turn >= 1 /\ c.turn =< turnOf
            /\ c.phase = "pre-turn" /\ pc' \in {"pre", "preCommit"} => c.turn < turnOf
            /\ c.phase = "post-turn" /\ InTurn' => c.turn < turnOf
    <3>1. pc = "preCommit" => turnOf >= 1
      BY <1>0 DEF TurnsInv, InTurn
    <3>2. turnOf =< turnOf /\ \A u \in Turns : u >= 1
      BY EntryTyped, <1>0
    <3> QED
      BY <1>0, <1>1, <1>2, <1>3, <3>1, <3>2 DEF TurnsInv, InTurn, Restoring, Only
  <2>4. \A u \in Turns : background'[u] # "none" => background[u] # "none"
    BY <1>0, <1>1 DEF RestTyped
  <2>5. (InTurn' => InTurn) /\ turnOf' = turnOf
    BY <1>1 DEF InTurn, Restoring
  <2> QED
    BY <1>0, <2>1, <2>2, <2>3, <2>4, <2>5 DEF TurnsInv
<1>7. ASSUME ~strayed' PROVE TreesInv'
  BY <1>0, <1>1, <1>2, <1>3, <1>7, SideShapes DEF RestTyped, TreesInv, Quiet, Only, Queues, Restoring
<1>8. ASSUME ~strayed' PROVE EntriesInv'
  <2>0. EntriesInv /\ TreesInv
    BY <1>0, <1>1, <1>8
  <2>1. ASSUME NEW i \in 1 .. Len(head'), i # Len(head) + 1
        PROVE  i \in 1 .. Len(head) /\ head'[i] = head[i]
    BY <1>3, <2>1
  <2>2. ASSUME NEW i \in 1 .. Len(head)
        PROVE  /\ head[i].phase = "pre-turn" => head[i].tree = starts'[head[i].turn]
               /\ head[i].phase = "post-turn" => head[i].tree = ends'[head[i].turn]
    BY <1>0, <1>1, <2>0, EntryTyped DEF EntriesInv, TurnsInv, RestTyped
  <2>3. LET c == head'[Len(head) + 1]
        IN  /\ c.phase = "pre-turn" => c.tree = starts'[c.turn]
            /\ c.phase = "post-turn" => c.tree = ends'[c.turn]
    <3>1. pc = "preCommit" => turnOf \in Turns
      BY <1>0, EntryTyped DEF TurnsInv, InTurn
    <3> QED
      BY <1>0, <1>1, <1>3, <2>0, <3>1 DEF TreesInv, RestTyped
  <2> QED
    BY <2>1, <2>2, <2>3 DEF EntriesInv
<1> QED
  BY <1>4, <1>5, <1>6, <1>7, <1>8, TypesAfter DEF SideInv

(* ... or runs without a snapshot, ...                                     *)
LEMMA PreFailsKept ==
    ASSUME SideInv, Side!PreFails
    PROVE  SideInv'
<1>0. RestTyped /\ TurnsInv /\ (~strayed => TreesInv /\ EntriesInv)
  BY RestIs DEF SideInv
<1>1. /\ pc \in {"pre", "preCommit"}
      /\ index' = Side!Nothing
      /\ pc' = "run"
      /\ taken' = FALSE
      /\ queue' = Tail(queue)
      /\ starts' = [starts EXCEPT ![turnOf] = tree]
      /\ UNCHANGED <<tree, head, home, turnOf, background, restore, loose, closing, strayed, ends>>
  BY DEF Side!PreFails, Side!Runs, Side!Forgets, Side!flow, Side!undo, Side!past, Side!git, Main
<1>2. queue = <<Main>> /\ Quiet /\ pc \in {"pre", "preCommit"} \cup Restoring
  BY HoldsMain DEF Side!PreFails
<1>3. RestTyped
  BY RestIs DEF SideInv
<1>4. Queues'
  BY <1>0, <1>1, <1>2, ShortQueues DEF Queues, Quiet, Only, Restoring, RestTyped
<1>5. RestTyped'
  <2>1. /\ Side!Nothing \in Trees /\ [starts EXCEPT ![turnOf] = tree] \in [Turns -> Trees]
    BY <1>0, SideShapes DEF RestTyped
  <2> QED
    BY <1>0, <1>1, <2>1 DEF RestTyped, Flows
<1>6. TurnsInv'
  BY <1>0, <1>1, <1>2, <1>3, EntryTyped DEF RestTyped, TurnsInv, InTurn, Restoring, Quiet, Only
<1>7. ASSUME ~strayed' PROVE TreesInv'
  BY <1>0, <1>1, <1>2, <1>3, <1>7, SideShapes DEF RestTyped, TreesInv, Quiet, Only, Queues, Restoring
<1>8. ASSUME ~strayed' PROVE EntriesInv'
  BY <1>0, <1>1, <1>3, <1>8, EntryTyped DEF RestTyped, EntriesInv, TurnsInv, InTurn
<1> QED
  BY <1>4, <1>5, <1>6, <1>7, <1>8, TypesAfter DEF SideInv

(* ... and writes while no capture stages; ...                             *)
LEMMA WritesKept ==
    ASSUME SideInv, Side!Writes
    PROVE  SideInv'
<1>0. RestTyped /\ TurnsInv /\ (~strayed => TreesInv /\ EntriesInv)
  BY RestIs DEF SideInv
<1>1. /\ pc = "run"
      /\ UNCHANGED <<head, index, queue, pc, home, turnOf, taken, background, restore, loose,
                     closing, strayed, starts, ends>>
  BY DEF Side!Writes, Side!flow, Side!undo, Side!past, Side!git, Main
<1>2. Queues
  BY DEF SideInv
<1>3. RestTyped
  BY RestIs DEF SideInv
<1>4. Queues'
  BY <1>0, <1>1, <1>2, ShortQueues DEF Queues, Quiet, Only, Restoring, RestTyped
<1>5. RestTyped'
  <2>1. PICK f \in Files, c \in Contents \cup {Missing} : tree' = [tree EXCEPT ![f] = c]
    BY DEF Side!Writes
  <2>2. tree \in Trees
    BY <1>0 DEF RestTyped
  <2>3. tree' \in Trees
    BY <2>1, <2>2, SideShapes
  <2> QED
    BY <1>0, <1>1, <2>3 DEF RestTyped, Flows
<1>6. TurnsInv'
  BY <1>0, <1>1, <1>2, <1>3, EntryTyped DEF RestTyped, TurnsInv, InTurn, Restoring, Quiet, Only
<1>7. ASSUME ~strayed' PROVE TreesInv'
  BY <1>0, <1>1, <1>2, <1>3, <1>7, SideShapes DEF RestTyped, TreesInv, Quiet, Only, Queues, Restoring
<1>8. ASSUME ~strayed' PROVE EntriesInv'
  BY <1>0, <1>1, <1>3, <1>8, EntryTyped DEF RestTyped, EntriesInv, TurnsInv, InTurn
<1> QED
  BY <1>4, <1>5, <1>6, <1>7, <1>8, TypesAfter DEF SideInv

(* ... the capture after it stages the tree the turn left, ...             *)
LEMMA BackgroundAddsKept ==
    ASSUME SideInv, NEW t \in Turns, Side!BackgroundAdds(t)
    PROVE  SideInv'
<1>0. RestTyped /\ TurnsInv /\ (~strayed => TreesInv /\ EntriesInv)
  BY RestIs DEF SideInv
<1>1. /\ background[t] = "waits"
      /\ index' = tree
      /\ background' = [background EXCEPT ![t] = "staged"]
      /\ UNCHANGED <<tree, head, queue, pc, home, turnOf, taken, restore, loose, closing, strayed,
                     starts, ends>>
  BY DEF Side!BackgroundAdds, Side!flow, Side!undo, Side!past, Side!git, Main
<1>2. Only(t) /\ \/ pc = "idle" /\ queue = <<t>>
                 \/ pc = "pre" /\ queue = <<t, Main>>
  BY HoldsTurn DEF Side!BackgroundAdds
<1>3. RestTyped
  BY RestIs DEF SideInv
<1>4. Queues'
  BY <1>0, <1>1, <1>2, ShortQueues DEF Queues, Quiet, Only, Restoring, RestTyped
<1>5. RestTyped'
  BY <1>0, <1>1, <1>3, SideShapes, EntryTyped DEF RestTyped, Flows
<1>6. TurnsInv'
  BY <1>0, <1>1, <1>2, <1>3, EntryTyped DEF RestTyped, TurnsInv, InTurn, Restoring, Quiet, Only
<1>7. ASSUME ~strayed' PROVE TreesInv'
  BY <1>0, <1>1, <1>2, <1>3, <1>7, SideShapes DEF RestTyped, TreesInv, Quiet, Only, Queues, Restoring
<1>8. ASSUME ~strayed' PROVE EntriesInv'
  BY <1>0, <1>1, <1>3, <1>8, EntryTyped DEF RestTyped, EntriesInv, TurnsInv, InTurn
<1> QED
  BY <1>4, <1>5, <1>6, <1>7, <1>8, TypesAfter DEF SideInv

(* ... commits it, ...                                                     *)
LEMMA BackgroundCommitsKept ==
    ASSUME SideInv, NEW t \in Turns, Side!BackgroundCommits(t)
    PROVE  SideInv'
<1>0. RestTyped /\ TurnsInv /\ (~strayed => TreesInv /\ EntriesInv)
  BY RestIs DEF SideInv
<1>1. /\ background[t] = "staged"
      /\ background' = [background EXCEPT ![t] = "none"]
      /\ queue' = Tail(queue)
      /\ UNCHANGED <<tree, pc, home, turnOf, taken, restore, loose, closing, strayed, starts, ends>>
  BY DEF Side!BackgroundCommits, Side!BackgroundEnds, Side!Commits, Side!flow, Side!undo, Side!past, Side!git, Main
<1>2. Only(t) /\ \/ pc = "idle" /\ queue = <<t>>
                 \/ pc = "pre" /\ queue = <<t, Main>>
  BY HoldsTurn DEF Side!BackgroundCommits, Side!BackgroundEnds
<1>3. /\ Len(head') = Len(head) + 1 /\ Len(head) \in Nat /\ index' \in Trees
      /\ head' \in Seq(Side!Commit)
      /\ \A i \in 1 .. Len(head) : head'[i] = head[i]
      /\ head'[Len(head) + 1].phase = "post-turn" /\ head'[Len(head) + 1].turn = t
      /\ head'[Len(head) + 1].tree = index
  <2>1. t \in 0 .. MaxTurns /\ SideTypes
    BY SideBounds DEF Turns, Side!Turns, SideInv
  <2> QED
    BY <2>1, Committed DEF Side!BackgroundCommits, Trees
<1>4. Queues'
  BY <1>0, <1>1, <1>2, ShortQueues DEF Queues, Quiet, Only, Restoring, RestTyped
<1>5. RestTyped'
  BY <1>0, <1>1, <1>3, SideShapes, EntryTyped DEF RestTyped, Flows
<1>6. TurnsInv'
  <2>1. ASSUME NEW i \in 1 .. Len(head'), i # Len(head) + 1
        PROVE  i \in 1 .. Len(head) /\ head'[i] = head[i]
    BY <1>3, <2>1
  <2>2. \A i \in 1 .. Len(head) :
          /\ head[i].phase # "pre-restore" => head[i].turn >= 1 /\ head[i].turn =< turnOf
          /\ head[i].phase = "pre-turn" /\ pc' \in {"pre", "preCommit"} => head[i].turn < turnOf
          /\ head[i].phase = "post-turn" /\ InTurn' => head[i].turn < turnOf
    BY <1>0, <1>1, <1>2 DEF TurnsInv, InTurn, Restoring
  <2>3. LET c == head'[Len(head) + 1]
        IN  /\ c.phase # "pre-restore" => c.turn >= 1 /\ c.turn =< turnOf
            /\ c.phase = "pre-turn" /\ pc' \in {"pre", "preCommit"} => c.turn < turnOf
            /\ c.phase = "post-turn" /\ InTurn' => c.turn < turnOf
    <3>1. pc = "preCommit" => turnOf >= 1
      BY <1>0 DEF TurnsInv, InTurn
    <3>2. turnOf =< turnOf /\ \A u \in Turns : u >= 1
      BY EntryTyped, <1>0
    <3> QED
      BY <1>0, <1>1, <1>2, <1>3, <3>1, <3>2 DEF TurnsInv, InTurn, Restoring, Only
  <2>4. \A u \in Turns : background'[u] # "none" => background[u] # "none"
    BY <1>0, <1>1 DEF RestTyped
  <2>5. (InTurn' => InTurn) /\ turnOf' = turnOf
    BY <1>1 DEF InTurn, Restoring
  <2> QED
    BY <1>0, <2>1, <2>2, <2>3, <2>4, <2>5 DEF TurnsInv
<1>7. ASSUME ~strayed' PROVE TreesInv'
  BY <1>0, <1>1, <1>2, <1>3, <1>7, SideShapes DEF RestTyped, TreesInv, Quiet, Only, Queues, Restoring
<1>8. ASSUME ~strayed' PROVE EntriesInv'
  <2>0. EntriesInv /\ TreesInv
    BY <1>0, <1>1, <1>8
  <2>1. ASSUME NEW i \in 1 .. Len(head'), i # Len(head) + 1
        PROVE  i \in 1 .. Len(head) /\ head'[i] = head[i]
    BY <1>3, <2>1
  <2>2. ASSUME NEW i \in 1 .. Len(head)
        PROVE  /\ head[i].phase = "pre-turn" => head[i].tree = starts'[head[i].turn]
               /\ head[i].phase = "post-turn" => head[i].tree = ends'[head[i].turn]
    BY <1>0, <1>1, <2>0, EntryTyped DEF EntriesInv, TurnsInv, RestTyped
  <2>3. LET c == head'[Len(head) + 1]
        IN  /\ c.phase = "pre-turn" => c.tree = starts'[c.turn]
            /\ c.phase = "post-turn" => c.tree = ends'[c.turn]
    <3>1. pc = "preCommit" => turnOf \in Turns
      BY <1>0, EntryTyped DEF TurnsInv, InTurn
    <3> QED
      BY <1>0, <1>1, <1>3, <2>0, <3>1 DEF TreesInv, RestTyped
  <2> QED
    BY <2>1, <2>2, <2>3 DEF EntriesInv
<1> QED
  BY <1>4, <1>5, <1>6, <1>7, <1>8, TypesAfter DEF SideInv

(* ... or gives up.                                                        *)
LEMMA BackgroundFailsKept ==
    ASSUME SideInv, NEW t \in Turns, Side!BackgroundFails(t)
    PROVE  SideInv'
<1>0. RestTyped /\ TurnsInv /\ (~strayed => TreesInv /\ EntriesInv)
  BY RestIs DEF SideInv
<1>1. /\ TRUE
      /\ index' = Side!Nothing
      /\ background' = [background EXCEPT ![t] = "none"]
      /\ queue' = Tail(queue)
      /\ UNCHANGED <<tree, head, pc, home, turnOf, taken, restore, loose, closing, strayed, starts,
                     ends>>
  BY DEF Side!BackgroundFails, Side!BackgroundEnds, Side!Forgets, Side!flow, Side!undo, Side!past, Side!git, Main
<1>2. Only(t) /\ \/ pc = "idle" /\ queue = <<t>>
                 \/ pc = "pre" /\ queue = <<t, Main>>
  BY HoldsTurn DEF Side!BackgroundFails, Side!BackgroundEnds
<1>3. RestTyped
  BY RestIs DEF SideInv
<1>4. Queues'
  BY <1>0, <1>1, <1>2, ShortQueues DEF Queues, Quiet, Only, Restoring, RestTyped
<1>5. RestTyped'
  BY <1>0, <1>1, <1>3, SideShapes, EntryTyped DEF RestTyped, Flows
<1>6. TurnsInv'
  BY <1>0, <1>1, <1>2, <1>3, EntryTyped DEF RestTyped, TurnsInv, InTurn, Restoring, Quiet, Only
<1>7. ASSUME ~strayed' PROVE TreesInv'
  BY <1>0, <1>1, <1>2, <1>3, <1>7, SideShapes DEF RestTyped, TreesInv, Quiet, Only, Queues, Restoring
<1>8. ASSUME ~strayed' PROVE EntriesInv'
  BY <1>0, <1>1, <1>3, <1>8, EntryTyped DEF RestTyped, EntriesInv, TurnsInv, InTurn
<1> QED
  BY <1>4, <1>5, <1>6, <1>7, <1>8, TypesAfter DEF SideInv

(* A restore stages the tree it finds, ...                                 *)
LEMMA RestoreAddsKept ==
    ASSUME SideInv, Side!RestoreAdds
    PROVE  SideInv'
<1>0. RestTyped /\ TurnsInv /\ (~strayed => TreesInv /\ EntriesInv)
  BY RestIs DEF SideInv
<1>1. /\ pc = "wait"
      /\ index' = tree
      /\ pc' = "save"
      /\ restore' = [restore EXCEPT !.before = tree]
      /\ UNCHANGED <<tree, head, queue, home, turnOf, taken, background, loose, closing, strayed,
                     starts, ends>>
  BY DEF Side!RestoreAdds, Side!flow, Side!undo, Side!past, Side!git, Main
<1>2. queue = <<Main>> /\ Quiet /\ pc \in {"pre", "preCommit"} \cup Restoring
  BY HoldsMain DEF Side!RestoreAdds
<1>3. RestTyped
  BY RestIs DEF SideInv
<1>4. Queues'
  BY <1>0, <1>1, <1>2, ShortQueues DEF Queues, Quiet, Only, Restoring, RestTyped
<1>5. RestTyped'
  BY <1>0, <1>1, <1>3, SideShapes, EntryTyped DEF RestTyped, Flows
<1>6. TurnsInv'
  BY <1>0, <1>1, <1>2, <1>3, EntryTyped DEF RestTyped, TurnsInv, InTurn, Restoring, Quiet, Only
<1>7. ASSUME ~strayed' PROVE TreesInv'
  BY <1>0, <1>1, <1>2, <1>3, <1>7, SideShapes DEF RestTyped, TreesInv, Quiet, Only, Queues, Restoring
<1>8. ASSUME ~strayed' PROVE EntriesInv'
  BY <1>0, <1>1, <1>3, <1>8, EntryTyped DEF RestTyped, EntriesInv, TurnsInv, InTurn
<1> QED
  BY <1>4, <1>5, <1>6, <1>7, <1>8, TypesAfter DEF SideInv

(* ... saves it, with all files still to do, ...                           *)
LEMMA RestoreSavesKept ==
    ASSUME SideInv, Side!RestoreSaves
    PROVE  SideInv'
<1>0. RestTyped /\ TurnsInv /\ (~strayed => TreesInv /\ EntriesInv)
  BY RestIs DEF SideInv
<1>1. /\ pc = "save"
      /\ pc' = "apply"
      /\ restore' = [restore EXCEPT !.todo = Side!FilesOf(restore.before) \cup Side!FilesOf(restore.target)]
      /\ UNCHANGED <<tree, queue, home, turnOf, taken, background, loose, closing, strayed, starts,
                     ends>>
  BY DEF Side!RestoreSaves, Side!Commits, Side!flow, Side!undo, Side!past, Side!git, Main
<1>2. queue = <<Main>> /\ Quiet
  BY <1>1 DEF SideInv, Queues, Restoring
<1>3. /\ Len(head') = Len(head) + 1 /\ Len(head) \in Nat /\ index' \in Trees
      /\ head' \in Seq(Side!Commit)
      /\ \A i \in 1 .. Len(head) : head'[i] = head[i]
      /\ head'[Len(head) + 1].phase = "pre-restore" /\ head'[Len(head) + 1].turn = 0
      /\ head'[Len(head) + 1].tree = index
  <2>1. 0 \in 0 .. MaxTurns /\ SideTypes
    BY SideBounds DEF SideInv
  <2> QED
    BY <2>1, Committed DEF Side!RestoreSaves, Trees
<1>4. Queues'
  BY <1>0, <1>1, <1>2, ShortQueues DEF Queues, Quiet, Only, Restoring, RestTyped
<1>5. RestTyped'
  BY <1>0, <1>1, <1>3, SideShapes, EntryTyped DEF RestTyped, Flows
<1>6. TurnsInv'
  <2>1. ASSUME NEW i \in 1 .. Len(head'), i # Len(head) + 1
        PROVE  i \in 1 .. Len(head) /\ head'[i] = head[i]
    BY <1>3, <2>1
  <2>2. \A i \in 1 .. Len(head) :
          /\ head[i].phase # "pre-restore" => head[i].turn >= 1 /\ head[i].turn =< turnOf
          /\ head[i].phase = "pre-turn" /\ pc' \in {"pre", "preCommit"} => head[i].turn < turnOf
          /\ head[i].phase = "post-turn" /\ InTurn' => head[i].turn < turnOf
    BY <1>0, <1>1, <1>2 DEF TurnsInv, InTurn, Restoring
  <2>3. LET c == head'[Len(head) + 1]
        IN  /\ c.phase # "pre-restore" => c.turn >= 1 /\ c.turn =< turnOf
            /\ c.phase = "pre-turn" /\ pc' \in {"pre", "preCommit"} => c.turn < turnOf
            /\ c.phase = "post-turn" /\ InTurn' => c.turn < turnOf
    <3>1. pc = "preCommit" => turnOf >= 1
      BY <1>0 DEF TurnsInv, InTurn
    <3>2. turnOf =< turnOf /\ \A u \in Turns : u >= 1
      BY EntryTyped, <1>0
    <3> QED
      BY <1>0, <1>1, <1>2, <1>3, <3>1, <3>2 DEF TurnsInv, InTurn, Restoring, Only
  <2>4. \A u \in Turns : background'[u] # "none" => background[u] # "none"
    BY <1>0, <1>1 DEF RestTyped
  <2>5. (InTurn' => InTurn) /\ turnOf' = turnOf
    BY <1>1 DEF InTurn, Restoring
  <2> QED
    BY <1>0, <2>1, <2>2, <2>3, <2>4, <2>5 DEF TurnsInv
<1>7. ASSUME ~strayed' PROVE TreesInv'
  <2>1. restore' = [restore EXCEPT !.todo = Side!FilesOf(restore.before) \cup Side!FilesOf(restore.target)]
    BY <1>1
  <2>2. /\ restore'.todo = Side!FilesOf(restore.before) \cup Side!FilesOf(restore.target)
        /\ restore'.before = restore.before /\ restore'.target = restore.target
    BY <1>0, <2>1 DEF RestTyped, Restores
  <2>3. tree = restore.before /\ restore.target \in Trees /\ tree \in Trees
    BY <1>0, <1>1, <1>7, SideShapes DEF TreesInv, RestTyped
  <2>4. \A f \in Files \ restore'.todo : tree[f] = restore.target[f]
    BY <2>2, <2>3 DEF Side!FilesOf
  <2> QED
    BY <1>0, <1>1, <1>2, <1>7, <2>2, <2>4 DEF TreesInv, Quiet
<1>8. ASSUME ~strayed' PROVE EntriesInv'
  <2>0. EntriesInv /\ TreesInv
    BY <1>0, <1>1, <1>8
  <2>1. ASSUME NEW i \in 1 .. Len(head'), i # Len(head) + 1
        PROVE  i \in 1 .. Len(head) /\ head'[i] = head[i]
    BY <1>3, <2>1
  <2>2. ASSUME NEW i \in 1 .. Len(head)
        PROVE  /\ head[i].phase = "pre-turn" => head[i].tree = starts'[head[i].turn]
               /\ head[i].phase = "post-turn" => head[i].tree = ends'[head[i].turn]
    BY <1>0, <1>1, <2>0, EntryTyped DEF EntriesInv, TurnsInv, RestTyped
  <2>3. LET c == head'[Len(head) + 1]
        IN  /\ c.phase = "pre-turn" => c.tree = starts'[c.turn]
            /\ c.phase = "post-turn" => c.tree = ends'[c.turn]
    <3>1. pc = "preCommit" => turnOf \in Turns
      BY <1>0, EntryTyped DEF TurnsInv, InTurn
    <3> QED
      BY <1>0, <1>1, <1>3, <2>0, <3>1 DEF TreesInv, RestTyped
  <2> QED
    BY <2>1, <2>2, <2>3 DEF EntriesInv
<1> QED
  BY <1>4, <1>5, <1>6, <1>7, <1>8, TypesAfter DEF SideInv

(* ... ends when every file is put, ...                                    *)
LEMMA RestoredKept ==
    ASSUME SideInv, Side!Restored
    PROVE  SideInv'
<1>0. RestTyped /\ TurnsInv /\ (~strayed => TreesInv /\ EntriesInv)
  BY RestIs DEF SideInv
<1>1. /\ pc = "apply"
      /\ pc' = home
      /\ queue' = Tail(queue)
      /\ restore' = Side!NoRestore
      /\ UNCHANGED <<tree, head, index, home, turnOf, taken, background, loose, closing, strayed,
                     starts, ends>>
  BY DEF Side!Restored, Side!Returns, Side!flow, Side!undo, Side!past, Side!git, Main
<1>2. queue = <<Main>> /\ Quiet
  BY <1>1 DEF SideInv, Queues, Restoring
<1>3. RestTyped
  BY RestIs DEF SideInv
<1>4. Queues'
  BY <1>0, <1>1, <1>2, ShortQueues DEF Queues, Quiet, Only, Restoring, RestTyped
<1>5. RestTyped'
  BY <1>0, <1>1, <1>3, SideShapes, EntryTyped DEF RestTyped, Flows
<1>6. TurnsInv'
  BY <1>0, <1>1, <1>2, <1>3, EntryTyped DEF RestTyped, TurnsInv, InTurn, Restoring, Quiet, Only
<1>7. ASSUME ~strayed' PROVE TreesInv'
  BY <1>0, <1>1, <1>2, <1>3, <1>7, SideShapes DEF RestTyped, TreesInv, Quiet, Only, Queues, Restoring
<1>8. ASSUME ~strayed' PROVE EntriesInv'
  BY <1>0, <1>1, <1>3, <1>8, EntryTyped DEF RestTyped, EntriesInv, TurnsInv, InTurn
<1> QED
  BY <1>4, <1>5, <1>6, <1>7, <1>8, TypesAfter DEF SideInv

(* ... or put back, ...                                                    *)
LEMMA RolledBackKept ==
    ASSUME SideInv, Side!RolledBack
    PROVE  SideInv'
<1>0. RestTyped /\ TurnsInv /\ (~strayed => TreesInv /\ EntriesInv)
  BY RestIs DEF SideInv
<1>1. /\ pc = "back"
      /\ pc' = home
      /\ queue' = Tail(queue)
      /\ restore' = Side!NoRestore
      /\ UNCHANGED <<tree, head, index, home, turnOf, taken, background, loose, closing, strayed,
                     starts, ends>>
  BY DEF Side!RolledBack, Side!Returns, Side!flow, Side!undo, Side!past, Side!git, Main
<1>2. queue = <<Main>> /\ Quiet
  BY <1>1 DEF SideInv, Queues, Restoring
<1>3. RestTyped
  BY RestIs DEF SideInv
<1>4. Queues'
  BY <1>0, <1>1, <1>2, ShortQueues DEF Queues, Quiet, Only, Restoring, RestTyped
<1>5. RestTyped'
  BY <1>0, <1>1, <1>3, SideShapes, EntryTyped DEF RestTyped, Flows
<1>6. TurnsInv'
  BY <1>0, <1>1, <1>2, <1>3, EntryTyped DEF RestTyped, TurnsInv, InTurn, Restoring, Quiet, Only
<1>7. ASSUME ~strayed' PROVE TreesInv'
  BY <1>0, <1>1, <1>2, <1>3, <1>7, SideShapes DEF RestTyped, TreesInv, Quiet, Only, Queues, Restoring
<1>8. ASSUME ~strayed' PROVE EntriesInv'
  BY <1>0, <1>1, <1>3, <1>8, EntryTyped DEF RestTyped, EntriesInv, TurnsInv, InTurn
<1> QED
  BY <1>4, <1>5, <1>6, <1>7, <1>8, TypesAfter DEF SideInv

(* ... is refused before it has put any, ...                               *)
LEMMA RestoreRefusedKept ==
    ASSUME SideInv, Side!RestoreRefused
    PROVE  SideInv'
<1>0. RestTyped /\ TurnsInv /\ (~strayed => TreesInv /\ EntriesInv)
  BY RestIs DEF SideInv
<1>1. /\ pc \in {"wait", "save"}
      /\ index' = Side!Nothing
      /\ pc' = home
      /\ queue' = Tail(queue)
      /\ restore' = Side!NoRestore
      /\ UNCHANGED <<tree, head, home, turnOf, taken, background, loose, closing, strayed, starts,
                     ends>>
  BY DEF Side!RestoreRefused, Side!Returns, Side!Forgets, Side!flow, Side!undo, Side!past, Side!git, Main
<1>2. queue = <<Main>> /\ Quiet /\ pc \in {"pre", "preCommit"} \cup Restoring
  BY HoldsMain DEF Side!RestoreRefused
<1>3. RestTyped
  BY RestIs DEF SideInv
<1>4. Queues'
  BY <1>0, <1>1, <1>2, ShortQueues DEF Queues, Quiet, Only, Restoring, RestTyped
<1>5. RestTyped'
  BY <1>0, <1>1, <1>3, SideShapes, EntryTyped DEF RestTyped, Flows
<1>6. TurnsInv'
  BY <1>0, <1>1, <1>2, <1>3, EntryTyped DEF RestTyped, TurnsInv, InTurn, Restoring, Quiet, Only
<1>7. ASSUME ~strayed' PROVE TreesInv'
  BY <1>0, <1>1, <1>2, <1>3, <1>7, SideShapes DEF RestTyped, TreesInv, Quiet, Only, Queues, Restoring
<1>8. ASSUME ~strayed' PROVE EntriesInv'
  BY <1>0, <1>1, <1>3, <1>8, EntryTyped DEF RestTyped, EntriesInv, TurnsInv, InTurn
<1> QED
  BY <1>4, <1>5, <1>6, <1>7, <1>8, TypesAfter DEF SideInv

(* ... or breaks and begins to roll back, ...                              *)
LEMMA RestoreBreaksKept ==
    ASSUME SideInv, Side!RestoreBreaks
    PROVE  SideInv'
<1>0. RestTyped /\ TurnsInv /\ (~strayed => TreesInv /\ EntriesInv)
  BY RestIs DEF SideInv
<1>1. /\ pc = "apply"
      /\ pc' = "back"
      /\ restore' = [restore EXCEPT !.todo = Side!FilesOf(restore.before) \cup Side!FilesOf(restore.target)]
      /\ UNCHANGED <<tree, head, index, queue, home, turnOf, taken, background, loose, closing,
                     strayed, starts, ends>>
  BY DEF Side!RestoreBreaks, Side!RollbackFiles, Side!flow, Side!undo, Side!past, Side!git, Main
<1>2. queue = <<Main>> /\ Quiet
  BY <1>1 DEF SideInv, Queues, Restoring
<1>3. RestTyped
  BY RestIs DEF SideInv
<1>4. Queues'
  BY <1>0, <1>1, <1>2, ShortQueues DEF Queues, Quiet, Only, Restoring, RestTyped
<1>5. RestTyped'
  BY <1>0, <1>1, <1>3, SideShapes, EntryTyped DEF RestTyped, Flows
<1>6. TurnsInv'
  BY <1>0, <1>1, <1>2, <1>3, EntryTyped DEF RestTyped, TurnsInv, InTurn, Restoring, Quiet, Only
<1>7. ASSUME ~strayed' PROVE TreesInv'
  <2>1. restore' = [restore EXCEPT !.todo = Side!FilesOf(restore.before) \cup Side!FilesOf(restore.target)]
    BY <1>1
  <2>2. /\ restore'.todo = Side!FilesOf(restore.before) \cup Side!FilesOf(restore.target)
        /\ restore'.before = restore.before /\ restore'.target = restore.target
    BY <1>0, <2>1 DEF RestTyped, Restores
  <2>3. /\ restore.todo \subseteq Side!FilesOf(restore.before) \cup Side!FilesOf(restore.target)
        /\ \A f \in Files \ restore.todo : tree[f] = restore.target[f]
    BY <1>0, <1>1, <1>7 DEF TreesInv
  <2>4. \A f \in Files \ restore'.todo : tree[f] = restore.before[f]
    BY <2>2, <2>3 DEF Side!FilesOf
  <2> QED
    BY <1>0, <1>1, <1>2, <1>7, <2>2, <2>4 DEF TreesInv, Quiet
<1>8. ASSUME ~strayed' PROVE EntriesInv'
  BY <1>0, <1>1, <1>3, <1>8, EntryTyped DEF RestTyped, EntriesInv, TurnsInv, InTurn
<1> QED
  BY <1>4, <1>5, <1>6, <1>7, <1>8, TypesAfter DEF SideInv

(* ... which may break as well, ...                                        *)
LEMMA RollbackBreaksKept ==
    ASSUME SideInv, Side!RollbackBreaks
    PROVE  SideInv'
<1>0. RestTyped /\ TurnsInv /\ (~strayed => TreesInv /\ EntriesInv)
  BY RestIs DEF SideInv
<1>1. /\ pc = "back"
      /\ pc' = home
      /\ queue' = Tail(queue)
      /\ restore' = Side!NoRestore
      /\ UNCHANGED <<tree, head, index, home, turnOf, taken, background, loose, closing, strayed,
                     starts, ends>>
  BY DEF Side!RollbackBreaks, Side!Returns, Side!flow, Side!undo, Side!past, Side!git, Main
<1>2. queue = <<Main>> /\ Quiet
  BY <1>1 DEF SideInv, Queues, Restoring
<1>3. RestTyped
  BY RestIs DEF SideInv
<1>4. Queues'
  BY <1>0, <1>1, <1>2, ShortQueues DEF Queues, Quiet, Only, Restoring, RestTyped
<1>5. RestTyped'
  BY <1>0, <1>1, <1>3, SideShapes, EntryTyped DEF RestTyped, Flows
<1>6. TurnsInv'
  BY <1>0, <1>1, <1>2, <1>3, EntryTyped DEF RestTyped, TurnsInv, InTurn, Restoring, Quiet, Only
<1>7. ASSUME ~strayed' PROVE TreesInv'
  BY <1>0, <1>1, <1>2, <1>3, <1>7, SideShapes DEF RestTyped, TreesInv, Quiet, Only, Queues, Restoring
<1>8. ASSUME ~strayed' PROVE EntriesInv'
  BY <1>0, <1>1, <1>3, <1>8, EntryTyped DEF RestTyped, EntriesInv, TurnsInv, InTurn
<1> QED
  BY <1>4, <1>5, <1>6, <1>7, <1>8, TypesAfter DEF SideInv

(* ... or be left to a thread of its own.                                  *)
LEMMA RollbackLeftKept ==
    ASSUME SideInv, Side!RollbackLeft
    PROVE  SideInv'
<1>0. RestTyped /\ TurnsInv /\ (~strayed => TreesInv /\ EntriesInv)
  BY RestIs DEF SideInv
<1>1. /\ pc = "back"
      /\ pc' = home
      /\ queue' = Tail(queue)
      /\ restore' = Side!NoRestore
      /\ strayed' = TRUE
      /\ loose' = [goal |-> restore.before, todo |-> restore.todo]
      /\ UNCHANGED <<tree, head, index, home, turnOf, taken, background, closing, starts, ends>>
  BY DEF Side!RollbackLeft, Side!Returns, Side!flow, Side!undo, Side!past, Side!git, Main
<1>2. queue = <<Main>> /\ Quiet
  BY <1>1 DEF SideInv, Queues, Restoring
<1>3. RestTyped
  BY RestIs DEF SideInv
<1>4. Queues'
  BY <1>0, <1>1, <1>2, ShortQueues DEF Queues, Quiet, Only, Restoring, RestTyped
<1>5. RestTyped'
  <2>1. [goal |-> restore.before, todo |-> restore.todo] \in Works
    BY <1>0, SideShapes DEF RestTyped, Works
  <2>2. Side!NoRestore \in Restores
    BY SideShapes
  <2> QED
    BY <1>0, <1>1, <2>1, <2>2 DEF RestTyped, Flows
<1>6. TurnsInv'
  BY <1>0, <1>1, <1>2, <1>3, EntryTyped DEF RestTyped, TurnsInv, InTurn, Restoring, Quiet, Only
<1>7. ASSUME ~strayed' PROVE TreesInv'
  BY <1>0, <1>1, <1>2, <1>3, <1>7, SideShapes DEF RestTyped, TreesInv, Quiet, Only, Queues, Restoring
<1>8. ASSUME ~strayed' PROVE EntriesInv'
  BY <1>0, <1>1, <1>3, <1>8, EntryTyped DEF RestTyped, EntriesInv, TurnsInv, InTurn
<1> QED
  BY <1>4, <1>5, <1>6, <1>7, <1>8, TypesAfter DEF SideInv

(* Cleaning drops the history, ...                                         *)
LEMMA CleansKept ==
    ASSUME SideInv, Side!Cleans
    PROVE  SideInv'
<1>0. RestTyped /\ TurnsInv /\ (~strayed => TreesInv /\ EntriesInv)
  BY RestIs DEF SideInv
<1>1. /\ pc = "idle"
      /\ head' = <<>>
      /\ UNCHANGED <<tree, index, queue, pc, home, turnOf, taken, background, restore, loose,
                     closing, strayed, starts, ends>>
  BY DEF Side!Cleans, Side!flow, Side!undo, Side!past, Side!git, Main
<1>2. Queues
  BY DEF SideInv
<1>3. RestTyped
  BY RestIs DEF SideInv
<1>4. Queues'
  BY <1>0, <1>1, <1>2, ShortQueues DEF Queues, Quiet, Only, Restoring, RestTyped
<1>5. RestTyped'
  BY <1>0, <1>1, <1>3, SideShapes, EntryTyped DEF RestTyped, Flows
<1>6. TurnsInv'
  BY <1>0, <1>1, <1>2, <1>3, EntryTyped DEF RestTyped, TurnsInv, InTurn, Restoring, Quiet, Only
<1>7. ASSUME ~strayed' PROVE TreesInv'
  BY <1>0, <1>1, <1>2, <1>3, <1>7, SideShapes DEF RestTyped, TreesInv, Quiet, Only, Queues, Restoring
<1>8. ASSUME ~strayed' PROVE EntriesInv'
  BY <1>0, <1>1, <1>3, <1>8, EntryTyped DEF RestTyped, EntriesInv, TurnsInv, InTurn
<1> QED
  BY <1>4, <1>5, <1>6, <1>7, <1>8, TypesAfter DEF SideInv

(* ... and closing waits for nothing.                                      *)
LEMMA ClosesKept ==
    ASSUME SideInv, Side!Closes
    PROVE  SideInv'
<1>0. RestTyped /\ TurnsInv /\ (~strayed => TreesInv /\ EntriesInv)
  BY RestIs DEF SideInv
<1>1. /\ TRUE
      /\ closing' = TRUE
      /\ UNCHANGED <<tree, head, index, queue, pc, home, turnOf, taken, background, restore, loose,
                     strayed, starts, ends>>
  BY DEF Side!Closes, Side!flow, Side!undo, Side!past, Side!git, Main
<1>2. Queues
  BY DEF SideInv
<1>3. RestTyped
  BY RestIs DEF SideInv
<1>4. Queues'
  BY <1>0, <1>1, <1>2, ShortQueues DEF Queues, Quiet, Only, Restoring, RestTyped
<1>5. RestTyped'
  BY <1>0, <1>1, <1>3, SideShapes, EntryTyped DEF RestTyped, Flows
<1>6. TurnsInv'
  BY <1>0, <1>1, <1>2, <1>3, EntryTyped DEF RestTyped, TurnsInv, InTurn, Restoring, Quiet, Only
<1>7. ASSUME ~strayed' PROVE TreesInv'
  BY <1>0, <1>1, <1>2, <1>3, <1>7, SideShapes DEF RestTyped, TreesInv, Quiet, Only, Queues, Restoring
<1>8. ASSUME ~strayed' PROVE EntriesInv'
  BY <1>0, <1>1, <1>3, <1>8, EntryTyped DEF RestTyped, EntriesInv, TurnsInv, InTurn
<1> QED
  BY <1>4, <1>5, <1>6, <1>7, <1>8, TypesAfter DEF SideInv

(* A turn that is cancelled takes the process out of the queue.            *)
LEMMA PreCanceledKept ==
    ASSUME SideInv, Side!PreCanceled
    PROVE  SideInv'
<1>0. RestTyped /\ TurnsInv /\ Queues /\ (~strayed => TreesInv /\ EntriesInv)
  BY RestIs DEF SideInv
<1>1. /\ pc \in {"pre", "preCommit"} /\ pc' = "idle"
      /\ starts' = [starts EXCEPT ![turnOf] = tree]
      /\ \E i \in 1 .. Len(queue) : queue[i] = Main /\ queue' = Side!RemoveAt(queue, i)
      /\ UNCHANGED <<tree, home, turnOf, taken, background, restore, loose, strayed, closing, ends>>
      /\ \/ UNCHANGED <<head, index>> /\ pc = "pre"
         \/ UNCHANGED head /\ index' = Side!Nothing /\ pc = "preCommit"
         \/ Side!Commits("pre-turn", turnOf) /\ pc = "preCommit"
  BY DEF Side!PreCanceled, Side!Forgets, Side!git, Side!flow, Side!undo, Side!past, Main
<1>2. turnOf \in Turns /\ turnOf \in 0 .. MaxTurns /\ turnOf \in Nat
  BY <1>0, <1>1, EntryTyped DEF TurnsInv, InTurn, RestTyped
<1>4. Queues'
  <2>1. PICK i \in 1 .. Len(queue) : queue[i] = Main /\ queue' = Side!RemoveAt(queue, i)
    BY <1>1
  <2>2. Quiet' <=> Quiet
    BY <1>1 DEF Quiet
  <2>3. CASE queue = <<Main>> /\ Quiet
    BY <1>1, <2>1, <2>2, <2>3, WithoutMain DEF Queues, Restoring
  <2>4. CASE \E t \in Turns : queue = <<t, Main>> /\ Only(t)
    <3>1. PICK t \in Turns : queue = <<t, Main>> /\ Only(t)
      BY <2>4
    <3>2. queue' = <<t>> /\ Only(t)'
      BY <1>1, <2>1, <3>1, WithoutMain DEF Only
    <3> QED
      BY <1>1, <3>2 DEF Queues, Restoring
  <2> QED
    BY <1>0, <1>1, <2>3, <2>4 DEF Queues
<1>5. ASSUME Side!Commits("pre-turn", turnOf)
      PROVE  /\ head' \in Seq(Side!Commit) /\ index' \in Trees
             /\ Len(head') = Len(head) + 1 /\ Len(head) \in Nat
             /\ \A i \in 1 .. Len(head) : head'[i] = head[i]
             /\ head'[Len(head) + 1].phase = "pre-turn" /\ head'[Len(head) + 1].turn = turnOf
             /\ head'[Len(head) + 1].tree = index
  BY <1>2, <1>5, Committed DEF SideInv, Trees
<1>6. RestTyped'
  <2>1. head' \in Seq(Side!Commit) /\ index' \in Trees
    BY <1>0, <1>1, <1>5, SideShapes DEF RestTyped
  <2>2. [starts EXCEPT ![turnOf] = tree] \in [Turns -> Trees]
    BY <1>0, SideShapes, <1>2 DEF RestTyped
  <2> QED
    BY <1>0, <1>1, <2>1, <2>2 DEF RestTyped, Flows
<1>7. TurnsInv'
  <2>1. ~InTurn' /\ turnOf' = turnOf /\ background' = background
    BY <1>1 DEF InTurn, Restoring
  <2>2. ASSUME NEW i \in 1 .. Len(head'), head'[i].phase # "pre-restore"
        PROVE  head'[i].turn >= 1 /\ head'[i].turn =< turnOf
    <3>1. CASE head' = head
      BY <1>0, <2>2, <3>1 DEF TurnsInv
    <3>2. CASE Side!Commits("pre-turn", turnOf)
      <4>1. CASE i = Len(head) + 1
        BY <1>2, <1>5, <3>2, <4>1, EntryTyped DEF Turns, Side!Turns
      <4>2. CASE i # Len(head) + 1
        <5>1. i \in 1 .. Len(head) /\ head'[i] = head[i]
          BY <1>5, <3>2, <4>2
        <5> QED
          BY <1>0, <2>2, <5>1 DEF TurnsInv
      <4> QED
        BY <4>1, <4>2
    <3> QED
      BY <1>1, <3>1, <3>2
  <2> QED
    BY <1>0, <1>1, <2>1, <2>2 DEF TurnsInv
<1>8. ASSUME ~strayed' PROVE TreesInv'
  <2>1. TreesInv
    BY <1>0, <1>1, <1>8
  <2>2. \A t \in Turns : background[t] = "staged" => index' = ends[t]
    BY <1>0, <1>1, <2>1 DEF TreesInv, Queues, Quiet
  <2> QED
    BY <1>1, <2>1, <2>2 DEF TreesInv
<1>9. ASSUME ~strayed' PROVE EntriesInv'
  <2>1. TreesInv /\ EntriesInv
    BY <1>0, <1>1, <1>9
  <2>2. ASSUME NEW i \in 1 .. Len(head)
        PROVE  /\ head[i].phase = "pre-turn" => head[i].tree = starts'[head[i].turn]
               /\ head[i].phase = "post-turn" => head[i].tree = ends'[head[i].turn]
    BY <1>0, <1>1, <2>1, EntryTyped DEF EntriesInv, TurnsInv, RestTyped
  <2>3. CASE head' = head
    BY <2>2, <2>3 DEF EntriesInv
  <2>4. CASE Side!Commits("pre-turn", turnOf) /\ pc = "preCommit"
    <3>1. ASSUME NEW i \in 1 .. Len(head'), i # Len(head) + 1
          PROVE  i \in 1 .. Len(head) /\ head'[i] = head[i]
      BY <1>5, <2>4, <3>1
    <3>2. starts'[turnOf] = tree /\ index = tree
      BY <1>0, <1>1, <1>2, <2>1, <2>4 DEF RestTyped, TreesInv
    <3> QED
      BY <1>5, <2>2, <2>4, <3>1, <3>2 DEF EntriesInv
  <2> QED
    BY <1>1, <2>3, <2>4
<1> QED
  BY <1>4, <1>6, <1>7, <1>8, <1>9, TypesAfter DEF SideInv

(* The end of a turn starts its capture.                                   *)
LEMMA TurnEndsKept ==
    ASSUME SideInv, Side!TurnEnds
    PROVE  SideInv'
<1>0. RestTyped /\ TurnsInv /\ Queues /\ (~strayed => TreesInv /\ EntriesInv)
  BY RestIs DEF SideInv
<1>1. /\ pc = "run" /\ pc' = "idle"
      /\ ends' = [ends EXCEPT ![turnOf] = tree]
      /\ \/ background' = [background EXCEPT ![turnOf] = "waits"] /\ queue' = Append(queue, turnOf)
         \/ UNCHANGED <<background, queue>>
      /\ UNCHANGED <<tree, head, index, home, turnOf, taken, restore, loose, strayed, closing, starts>>
  BY DEF Side!TurnEnds, Side!git, Side!flow, Side!undo, Side!past
<1>2. turnOf \in Turns /\ turnOf \in Nat /\ queue = <<>> /\ Quiet
  BY <1>0, <1>1, EntryTyped DEF TurnsInv, InTurn, RestTyped, Queues
<1>3. \A t \in Turns : background'[t] # "none" => t = turnOf /\ queue' = <<t>>
  BY <1>0, <1>1, <1>2, ShortQueues DEF RestTyped, Quiet
<1>4. Queues'
  <2>1. CASE background' = [background EXCEPT ![turnOf] = "waits"] /\ queue' = Append(queue, turnOf)
    <3>1. queue' = <<turnOf>> /\ background'[turnOf] = "waits"
      BY <1>0, <1>2, <2>1, ShortQueues DEF RestTyped
    <3>2. Only(turnOf)'
      BY <1>3, <3>1, <1>2, <1>1 DEF Only
    <3>3. pc' = "idle" /\ \E t \in Turns : queue' = <<t>> /\ Only(t)'
      <4>1. turnOf' = turnOf
        BY <1>1
      <4>2. background'[turnOf] # "none" /\ \A u \in Turns : u # turnOf => background'[u] = "none"
        BY <1>3, <3>1
      <4>3. PICK t \in Turns : t = turnOf
        BY <1>2
      <4>4. queue' = <<t>> /\ Only(t)'
        BY <3>1, <4>2, <4>3 DEF Only
      <4> QED
        BY <4>4, <1>1
    <3> QED
      BY <3>3 DEF Queues, Restoring
  <2>2. CASE UNCHANGED <<background, queue>>
    BY <1>1, <1>2, <2>2 DEF Queues, Quiet, Restoring
  <2> QED
    BY <1>1, <2>1, <2>2
<1>5. RestTyped'
  <2>1. /\ [ends EXCEPT ![turnOf] = tree] \in [Turns -> Trees]
        /\ [background EXCEPT ![turnOf] = "waits"] \in [Turns -> {"none", "waits", "staged"}]
    BY <1>0, <1>2, SideShapes DEF RestTyped
  <2> QED
    BY <1>0, <1>1, <2>1 DEF RestTyped, Flows
<1>6. TurnsInv'
  <2>1. ~InTurn'
    BY <1>1 DEF InTurn, Restoring
  <2> QED
    BY <1>0, <1>1, <1>2, <1>3, <2>1 DEF TurnsInv
<1>7. ASSUME ~strayed' PROVE TreesInv'
  <2>1. TreesInv
    BY <1>0, <1>1, <1>7
  <2>2. \A t \in Turns : background'[t] # "staged"
    BY <1>0, <1>1, <1>2 DEF RestTyped, Quiet
  <2>3. ends'[turnOf] = tree
    BY <1>0, <1>1, <1>2 DEF RestTyped
  <2> QED
    BY <1>1, <1>3, <2>1, <2>2, <2>3 DEF TreesInv
<1>8. ASSUME ~strayed' PROVE EntriesInv'
  <2>1. EntriesInv
    BY <1>0, <1>1, <1>8
  <2>2. \A i \in 1 .. Len(head) : head[i].phase = "post-turn" => head[i].turn # turnOf
    BY <1>0, <1>1, <1>2, EntryTyped DEF TurnsInv, InTurn
  <2> QED
    BY <1>0, <1>1, <2>1, <2>2, EntryTyped DEF EntriesInv, RestTyped
<1> QED
  BY <1>4, <1>5, <1>6, <1>7, <1>8, TypesAfter DEF SideInv

(* A restore begins when nothing else is under way.                        *)
LEMMA RestoreBeginsKept ==
    ASSUME SideInv, NEW n, Side!RestoreBegins(n)
    PROVE  SideInv'
<1>0. RestTyped /\ TurnsInv /\ Queues /\ (~strayed => TreesInv /\ EntriesInv)
  BY RestIs DEF SideInv
<1>1. /\ pc \in {"idle", "run"} /\ pc' = "wait" /\ home' = pc
      /\ \A t \in Turns : background[t] = "none"
      /\ queue' = Append(queue, Main)
      /\ \E i \in 1 .. Len(head) : restore' = [restore EXCEPT !.target = head[i].tree]
      /\ UNCHANGED <<tree, head, index, turnOf, taken, background, loose, strayed, closing, starts, ends>>
  BY DEF Side!RestoreBegins, Side!PreTurns, Side!git, Side!past, Main, Turns
<1>2. queue = <<>> /\ Quiet
  BY <1>0, <1>1 DEF Queues, Quiet, Only
<1>4. Queues'
  BY <1>1, <1>2, ShortQueues DEF Queues, Quiet, Restoring
<1>5. RestTyped'
  <2>1. PICK i \in 1 .. Len(head) : restore' = [restore EXCEPT !.target = head[i].tree]
    BY <1>1
  <2>2. head[i].tree \in Trees
    BY <1>0, EntryTyped
  <2>3. restore' \in Restores
    BY <1>0, <2>1, <2>2, SideShapes DEF RestTyped
  <2> QED
    BY <1>0, <1>1, <2>3 DEF RestTyped, Flows
<1>6. TurnsInv'
  BY <1>0, <1>1 DEF TurnsInv, InTurn, Restoring
<1>7. ASSUME ~strayed' PROVE TreesInv'
  BY <1>0, <1>1, <1>7 DEF TreesInv
<1>8. ASSUME ~strayed' PROVE EntriesInv'
  BY <1>0, <1>1, <1>8 DEF EntriesInv
<1> QED
  BY <1>4, <1>5, <1>6, <1>7, <1>8, TypesAfter DEF SideInv

(* One file more is as it shall be.                                        *)
LEMMA FilePutKept ==
    ASSUME SideInv, NEW goal \in Trees, Side!PutFile(restore.todo, goal),
           \/ pc = "apply" /\ goal = restore.target
           \/ pc = "back" /\ goal = restore.before
    PROVE  SideInv'
<1>0. RestTyped /\ TurnsInv /\ Queues /\ (~strayed => TreesInv /\ EntriesInv)
  BY RestIs DEF SideInv
<1>1. PICK f \in restore.todo :
        /\ tree' = [tree EXCEPT ![f] = goal[f]] /\ restore' = [restore EXCEPT !.todo = @ \ {f}]
        /\ UNCHANGED <<head, index, queue, pc, home, turnOf, taken, background, loose, strayed,
                       closing, starts, ends>>
  BY DEF Side!PutFile, Side!git, Side!flow, Side!past
<1>2. /\ restore'.todo = restore.todo \ {f} /\ restore'.target = restore.target
      /\ restore'.before = restore.before /\ f \in Files
  BY <1>0, <1>1 DEF RestTyped, Restores
<1>3. Quiet
  BY <1>0 DEF Queues, Restoring
<1>4. Queues'
  BY <1>0, <1>1 DEF Queues, Quiet, Only
<1>5. RestTyped'
  <2>1. tree' \in Trees
    BY <1>0, <1>1, <1>2, SideShapes DEF RestTyped
  <2>2. restore.todo \ {f} \in SUBSET Files
    BY <1>0, SideShapes DEF RestTyped
  <2>3. restore' \in Restores
    BY <1>0, <1>1, <2>2, SideShapes DEF RestTyped
  <2> QED
    BY <1>0, <1>1, <2>1, <2>3 DEF RestTyped
<1>6. TurnsInv'
  BY <1>0, <1>1 DEF TurnsInv, InTurn
<1>7. ASSUME ~strayed' PROVE TreesInv'
  <2>1. TreesInv
    BY <1>0, <1>1, <1>7
  <2>2. \A g \in Files : tree'[g] = IF g = f THEN goal[f] ELSE tree[g]
    BY <1>0, <1>1, <1>2 DEF RestTyped, Trees, Side!Tree
  <2>3. \A t \in Turns : background'[t] = "none"
    BY <1>1, <1>3 DEF Quiet
  <2>4. pc' = pc /\ loose' = loose
    BY <1>1
  <2> QED
    BY <1>2, <2>1, <2>2, <2>3, <2>4 DEF TreesInv
<1>8. ASSUME ~strayed' PROVE EntriesInv'
  BY <1>0, <1>1, <1>8 DEF EntriesInv
<1> QED
  BY <1>4, <1>5, <1>6, <1>7, <1>8, TypesAfter DEF SideInv

(* Without the lock only what was left behind is at work.                  *)
LEMMA LooseFileKept ==
    ASSUME SideInv, Side!LooseFile
    PROVE  SideInv'
<1>0. RestTyped /\ TurnsInv /\ Queues /\ (~strayed => TreesInv /\ EntriesInv)
  BY RestIs DEF SideInv
<1>1. PICK f \in loose.todo :
        /\ tree' = [tree EXCEPT ![f] = loose.goal[f]]
        /\ loose' = IF loose.todo = {f} THEN Side!NoWork ELSE [loose EXCEPT !.todo = @ \ {f}]
        /\ UNCHANGED <<head, index, queue, pc, home, turnOf, taken, background, restore, strayed,
                       closing, starts, ends>>
  BY DEF Side!LooseFile, Side!git, Side!flow, Side!past
<1>2. strayed
  BY <1>0 DEF TreesInv
<1>4. Queues'
  BY <1>0, <1>1 DEF Queues, Quiet, Only
<1>5. RestTyped'
  <2>1. f \in Files /\ loose.goal \in Trees
    BY <1>0, SideShapes DEF RestTyped
  <2>2. tree' \in Trees
    BY <1>0, <1>1, <2>1, SideShapes DEF RestTyped
  <2>3. loose.todo \ {f} \in SUBSET Files
    BY <1>0, SideShapes DEF RestTyped
  <2>4. loose' \in Works
    BY <1>0, <1>1, <2>3, SideShapes DEF RestTyped
  <2> QED
    BY <1>0, <1>1, <2>2, <2>4 DEF RestTyped
<1>6. TurnsInv'
  BY <1>0, <1>1 DEF TurnsInv, InTurn
<1> QED
  BY <1>1, <1>2, <1>4, <1>5, <1>6, TypesAfter DEF SideInv

(* Every step keeps the invariant.                                         *)
LEMMA SideStep ==
    ASSUME SideInv, Side!Next
    PROVE  SideInv'
<1>1. CASE \/ Side!TurnBegins \/ Side!PreAdds \/ Side!PreCommits \/ Side!PreFails \/ Side!PreCanceled
           \/ Side!Writes \/ Side!TurnEnds
  BY <1>1, TurnBeginsKept, PreAddsKept, PreCommitsKept, PreFailsKept, PreCanceledKept, WritesKept,
     TurnEndsKept
<1>2. ASSUME NEW t \in Side!Turns,
             Side!BackgroundAdds(t) \/ Side!BackgroundCommits(t) \/ Side!BackgroundFails(t)
      PROVE  SideInv'
  BY <1>2, BackgroundAddsKept, BackgroundCommitsKept, BackgroundFailsKept DEF Turns
<1>3. ASSUME NEW n \in Side!Turns, Side!RestoreBegins(n) PROVE SideInv'
  BY <1>3, RestoreBeginsKept
<1>4. CASE Side!RestoreFile \/ Side!RollbackFile
  <2>1. restore.target \in Trees /\ restore.before \in Trees
    BY RestIs, SideShapes DEF SideInv, RestTyped
  <2> QED
    BY <1>4, <2>1, FilePutKept DEF Side!RestoreFile, Side!RollbackFile
<1>5. CASE \/ Side!RestoreAdds \/ Side!RestoreSaves \/ Side!Restored \/ Side!RestoreRefused
           \/ Side!RestoreBreaks \/ Side!RolledBack \/ Side!RollbackBreaks \/ Side!RollbackLeft
  BY <1>5, RestoreAddsKept, RestoreSavesKept, RestoredKept, RestoreRefusedKept, RestoreBreaksKept,
     RolledBackKept, RollbackBreaksKept, RollbackLeftKept
<1>6. CASE Side!LooseFile \/ Side!Cleans \/ Side!Closes
  BY <1>6, LooseFileKept, CleansKept, ClosesKept
<1> QED
  BY <1>1, <1>2, <1>3, <1>4, <1>5, <1>6 DEF Side!Next

(* A restore is reported when the tree is the snapshot's, a rollback when  *)
(* it is the one it found.                                                 *)
LEMMA RestoresWhole ==
    ASSUME SideInv, Side!Next
    PROVE  Side!WholeRestore
<1> SUFFICES ASSUME ~strayed
             PROVE  /\ pc = "apply" /\ pc' \notin {"apply", "back"} => tree = restore.target
                    /\ pc = "back" /\ pc' # "back" /\ restore.todo = {} => tree = restore.before
  BY DEF Side!WholeRestore
<1>0. RestTyped /\ TreesInv
  BY RestIs DEF SideInv
<1>1. tree \in Trees /\ restore.target \in Trees /\ restore.before \in Trees
  BY <1>0, SideShapes DEF RestTyped
<1>2. \A t \in Trees : (\A f \in Files : tree[f] = t[f]) => tree = t
  BY <1>1 DEF Trees, Side!Tree
<1>3. pc = "back" /\ restore.todo = {} => tree = restore.before
  BY <1>0, <1>1, <1>2 DEF TreesInv
<1>4. pc = "apply" /\ restore.todo = {} => tree = restore.target
  BY <1>0, <1>1, <1>2 DEF TreesInv
<1>5. pc = "apply" /\ pc' \notin {"apply", "back"} => restore.todo = {}
  <2> USE DEF Side!flow, Side!Holds
  <2>1. CASE \/ Side!TurnBegins \/ Side!PreAdds \/ Side!PreCommits \/ Side!PreFails \/ Side!PreCanceled
             \/ Side!Writes \/ Side!TurnEnds
    BY <2>1 DEF Side!TurnBegins, Side!PreAdds, Side!PreCommits, Side!PreFails, Side!PreCanceled,
                Side!Writes, Side!TurnEnds
  <2>2. ASSUME NEW t \in Side!Turns,
               Side!BackgroundAdds(t) \/ Side!BackgroundCommits(t) \/ Side!BackgroundFails(t)
        PROVE  pc' = pc
    BY <2>2 DEF Side!BackgroundAdds, Side!BackgroundCommits, Side!BackgroundFails, Side!BackgroundEnds
  <2>3. ASSUME NEW n \in Side!Turns, Side!RestoreBegins(n) PROVE pc # "apply"
    BY <2>3 DEF Side!RestoreBegins
  <2>4. CASE Side!RestoreFile \/ Side!RollbackFile \/ Side!LooseFile \/ Side!Cleans \/ Side!Closes
    BY <2>4 DEF Side!RestoreFile, Side!RollbackFile, Side!PutFile, Side!LooseFile, Side!Cleans, Side!Closes
  <2>5. CASE \/ Side!RestoreAdds \/ Side!RestoreSaves \/ Side!Restored \/ Side!RestoreRefused
             \/ Side!RestoreBreaks \/ Side!RolledBack \/ Side!RollbackBreaks \/ Side!RollbackLeft
    BY <2>5 DEF Side!RestoreAdds, Side!RestoreSaves, Side!Restored, Side!RestoreRefused,
                Side!RestoreBreaks, Side!RolledBack, Side!RollbackBreaks, Side!RollbackLeft
  <2> QED
    BY <2>1, <2>2, <2>3, <2>4, <2>5 DEF Side!Next
<1> QED
  BY <1>3, <1>4, <1>5

(* The invariant holds while the snapshots run.                            *)
SidePart == part = "snapshots" => SideInv

(* ... through every step of the instance.                                 *)
LEMMA SidePartStep ==
    ASSUME SidePart, [WorkNext]_<<part, talkVars, snapshotsVars, editsVars>>
    PROVE  SidePart'
<1> SUFFICES ASSUME part' = "snapshots" PROVE SideInv'
  BY DEF SidePart
<1>1. CASE part = "snapshots" /\ Side!Next
  BY <1>1, SideStep DEF SidePart
<1>2. CASE UNCHANGED <<part, snapshotsVars>>
  BY <1>2 DEF SidePart, snapshotsVars, SideInv, SideTypes, Side!TypeOK, Queues, Quiet, Only,
              TurnsInv, InTurn, TreesInv, EntriesInv
<1> QED
  BY <1>1, <1>2 DEF WorkNext

(* A snapshot of a turn holds the tree that the turn began or ended with   *)
(* (SnapshotService._capture_locked, in the background after a turn).      *)
THEOREM SnapshotsFaithfulHolds == WorkSpec => []SnapshotsFaithful
<1>1. WorkInit => SidePart
  BY SideStart DEF WorkInit, SidePart
<1>2. SidePart /\ [WorkNext]_<<part, talkVars, snapshotsVars, editsVars>> => SidePart'
  BY SidePartStep
<1>3. SidePart => SnapshotsFaithful
  BY DEF SidePart, SnapshotsFaithful, SideInv, SideTypes, EntriesInv, Side!SnapshotsFaithful
<1> QED
  BY <1>1, <1>2, <1>3, PTL DEF WorkSpec

(* A restore that ends well leaves the tree it was asked for, one that     *)
(* rolled back the tree it found (SnapshotService.restore); a project that *)
(* was made is complete, and a file changes only under the mutation lock,  *)
(* by its user or by a cancelled call (_create_project_atomic).            *)
THEOREM RestoreAllOrNothingHolds == WorkSpec => RestoreAllOrNothing
<1>1. WorkInit => SidePart /\ EditsPart
  BY SideStart, EditsStart DEF WorkInit, SidePart, EditsPart
<1>2. SidePart /\ EditsPart /\ [WorkNext]_<<part, talkVars, snapshotsVars, editsVars>>
        => (SidePart /\ EditsPart)'
  BY SidePartStep, EditsPartStep
<1>3. SidePart /\ EditsPart /\ [WorkNext]_<<part, talkVars, snapshotsVars, editsVars>>
        => [/\ part = "snapshots" => Side!WholeRestore
            /\ part = "edits" => Edited!ProjectWhole /\ Edited!ChangedUnderLock
           ]_<<part, snapshotsVars, editsVars>>
  <2> SUFFICES ASSUME SidePart, EditsPart, [WorkNext]_<<part, talkVars, snapshotsVars, editsVars>>,
                      ~UNCHANGED <<part, snapshotsVars, editsVars>>
               PROVE  /\ part = "snapshots" => Side!WholeRestore
                      /\ part = "edits" => Edited!ProjectWhole /\ Edited!ChangedUnderLock
    OBVIOUS
  <2>1. CASE part = "snapshots" /\ Side!Next
    BY <2>1, RestoresWhole DEF SidePart
  <2>2. CASE part = "edits" /\ Edited!Next
    BY <2>2, ProjectsWhole, ChangesLocked DEF EditsPart
  <2> QED
    BY <2>1, <2>2 DEF WorkNext
<1> QED
  BY <1>1, <1>2, <1>3, PTL DEF WorkSpec, RestoreAllOrNothing

-----------------------------------------------------------------------------
(*                    The conversations (Conversations)                    *)

(* Conversations: the order of the table. A set with 0 that is closed      *)
(* under successor holds every natural number: otherwise the least number  *)
(* outside it would be a successor inside it.                              *)
LEMMA NatSetInduction ==
    ASSUME NEW S, 0 \in S, \A n \in Nat : n \in S => n + 1 \in S
    PROVE  Nat \subseteq S
<1> SUFFICES ASSUME Nat \ S # {} PROVE FALSE
  OBVIOUS
<1> DEFINE T == Nat \ S
<1>1. \E x \in T : \A y \in T : ~(<<y, x>> \in OpToRel(<, Nat))
  <2>1. T \subseteq Nat /\ T # {}
    OBVIOUS
  <2> HIDE DEF T
  <2>. QED
    BY <2>1, NatLessThanWellFounded, WFMin
<1>2. \E x \in T : \A y \in T : ~(y < x)
  BY <1>1 DEF OpToRel
<1>3. PICK x \in T : \A y \in T : ~(y < x)
  BY <1>2
<1>4. x # 0 /\ x - 1 \in Nat /\ x - 1 \in S
  BY <1>3
<1>. QED
  BY <1>3, <1>4

(* The recursion of Conversations!Without over a sequence q.               *)
DropStep(q, gone, F, i) ==
    IF i = 0 THEN <<>>
    ELSE IF q[i] \in gone THEN F[i - 1] ELSE Append(F[i - 1], q[i])
Drops(q, gone, F) == F = [i \in 0 .. Len(q) |-> DropStep(q, gone, F, i)]

(* The recursion has a solution.                                           *)
LEMMA DropExists ==
    ASSUME NEW R, NEW q \in Seq(R), NEW gone
    PROVE  \E F : Drops(q, gone, F)
<1> DEFINE S == {m \in Nat : m <= Len(q) =>
                   \E F \in [0..m -> Seq(R)] : \A i \in 0..m : F[i] = DropStep(q, gone, F, i)}
<1>1. 0 \in S
  <2> DEFINE F == [i \in 0..0 |-> <<>>]
  <2>1. F \in [0..0 -> Seq(R)]
    OBVIOUS
  <2>2. \A i \in 0..0 : i = 0 /\ F[i] = <<>>
    OBVIOUS
  <2> HIDE DEF F
  <2>3. \A i \in 0..0 : F[i] = DropStep(q, gone, F, i)
    BY <2>2 DEF DropStep
  <2>. QED
    BY <2>1, <2>3
<1>2. ASSUME NEW m \in Nat, m \in S PROVE m + 1 \in S
  <2>0. SUFFICES ASSUME m + 1 <= Len(q)
                 PROVE  \E F \in [0..m + 1 -> Seq(R)] :
                           \A i \in 0..m + 1 : F[i] = DropStep(q, gone, F, i)
    <3>1. m + 1 \in Nat
      OBVIOUS
    <3>. QED
      BY <3>1
  <2>1. PICK F \in [0..m -> Seq(R)] : \A i \in 0..m : F[i] = DropStep(q, gone, F, i)
    <3>1. m <= Len(q)
      BY <2>0, LenProperties
    <3>. QED
      BY <1>2, <3>1
  <2> DEFINE final == IF q[m + 1] \in gone THEN F[m] ELSE Append(F[m], q[m + 1])
             G == [i \in 0..m + 1 |-> IF i = m + 1 THEN final ELSE F[i]]
  <2>2. final \in Seq(R)
    <3>1. F[m] \in Seq(R)
      BY <2>1
    <3>2. m + 1 \in 1..Len(q)
      BY <2>0, LenProperties
    <3>3. q[m + 1] \in R
      BY <3>2
    <3>. QED
      BY <3>1, <3>3
  <2>3. G \in [0..m + 1 -> Seq(R)]
    BY <2>2
  <2>4. \A i \in 0..m : G[i] = F[i]
    OBVIOUS
  <2>5. G[m + 1] = final
    OBVIOUS
  <2> HIDE DEF G
  <2>6. ASSUME NEW i \in 0..m PROVE G[i] = DropStep(q, gone, G, i)
    <3>1. i # 0 => i - 1 \in 0..m
      OBVIOUS
    <3>. QED
      BY <2>1, <2>4, <3>1 DEF DropStep
  <2>7. G[m + 1] = DropStep(q, gone, G, m + 1)
    <3>1. m + 1 # 0 /\ (m + 1) - 1 = m /\ m \in 0..m
      OBVIOUS
    <3> HIDE DEF final
    <3>2. DropStep(q, gone, G, m + 1) = final
      BY <2>4, <3>1 DEF DropStep, final
    <3>. QED
      BY <2>5, <3>2
  <2>8. \A i \in 0..m + 1 : G[i] = DropStep(q, gone, G, i)
    BY <2>6, <2>7
  <2>. QED
    BY <2>3, <2>8
<1>3. Len(q) \in S
  <2> HIDE DEF S
  <2>. QED
    BY <1>1, <1>2, NatSetInduction, LenProperties
<1>4. PICK F \in [0..Len(q) -> Seq(R)] :
        \A i \in 0..Len(q) : F[i] = DropStep(q, gone, F, i)
  BY <1>3
<1>5. Drops(q, gone, F)
  BY <1>4 DEF Drops
<1>. QED
  BY <1>5

(* What is left of the first m entries of q.                               *)
Left(q, gone, m, t) ==
    /\ \A i \in 1..Len(t) : \E k \in 1..m : t[i] = q[k] /\ q[k] \notin gone
    /\ \A k \in 1..m : q[k] \notin gone => \E i \in 1..Len(t) : t[i] = q[k]

(* Without drops what is in gone and nothing else.                         *)
LEMMA DropFacts ==
    ASSUME NEW R, NEW q \in Seq(R), NEW gone, NEW F, Drops(q, gone, F)
    PROVE  F[Len(q)] \in Seq(R) /\ Left(q, gone, Len(q), F[Len(q)])
<1> DEFINE S == {m \in Nat : m <= Len(q) => F[m] \in Seq(R) /\ Left(q, gone, m, F[m])}
<1>0. \A i \in 0..Len(q) : F[i] = DropStep(q, gone, F, i)
  BY DEF Drops
<1>1. 0 \in S
  <2>1. F[0] = <<>>
    BY <1>0, LenProperties DEF DropStep
  <2>2. F[0] \in Seq(R) /\ Len(F[0]) = 0 /\ 1..0 = {}
    BY <2>1
  <2>. QED
    BY <2>2 DEF Left
<1>2. ASSUME NEW m \in Nat, m \in S PROVE m + 1 \in S
  <2>0. SUFFICES ASSUME m + 1 <= Len(q)
                 PROVE  F[m + 1] \in Seq(R) /\ Left(q, gone, m + 1, F[m + 1])
    <3>1. m + 1 \in Nat
      OBVIOUS
    <3>. QED
      BY <3>1
  <2>1. F[m] \in Seq(R) /\ Left(q, gone, m, F[m])
    <3>1. m <= Len(q)
      BY <2>0, LenProperties
    <3>. QED
      BY <1>2, <3>1
  <2>2. /\ m + 1 \in 0..Len(q) /\ m + 1 \in 1..Len(q) /\ q[m + 1] \in R /\ Len(q) \in Nat
        /\ m + 1 # 0 /\ (m + 1) - 1 = m
    BY <2>0, LenProperties
  <2>3. CASE q[m + 1] \in gone
    <3>1. F[m + 1] = F[m]
      BY <1>0, <2>2, <2>3 DEF DropStep
    <3>. QED
      BY <2>1, <2>3, <3>1, LenProperties DEF Left
  <2>4. CASE q[m + 1] \notin gone
    <3> DEFINE t == F[m]
               u == Append(t, q[m + 1])
    <3>1. F[m + 1] = u
      BY <1>0, <2>2, <2>4 DEF DropStep
    <3>2. /\ u \in Seq(R) /\ Len(u) = Len(t) + 1 /\ Len(t) \in Nat
          /\ \A i \in 1..Len(t) : u[i] = t[i]
          /\ u[Len(u)] = q[m + 1]
      BY <2>1, <2>2, AppendProperties, LenProperties
    <3> HIDE DEF t, u
    <3>3. Left(q, gone, m, t)
      BY <2>1 DEF t
    <3>5. ASSUME NEW i \in 1..Len(u)
          PROVE  \E k \in 1..m + 1 : u[i] = q[k] /\ q[k] \notin gone
      <4>1. CASE i = Len(u)
        BY <2>4, <3>2, <4>1
      <4>2. CASE i \in 1..Len(t)
        <5>1. PICK k \in 1..m : t[i] = q[k] /\ q[k] \notin gone
          BY <3>3, <4>2 DEF Left
        <5>. QED
          BY <3>2, <4>2, <5>1
      <4>. QED
        BY <3>2, <4>1, <4>2
    <3>6. ASSUME NEW k \in 1..m + 1, q[k] \notin gone
          PROVE  \E i \in 1..Len(u) : u[i] = q[k]
      <4>1. CASE k = m + 1
        BY <3>2, <4>1
      <4>2. CASE k \in 1..m
        <5>1. PICK i \in 1..Len(t) : t[i] = q[k]
          BY <3>3, <3>6, <4>2 DEF Left
        <5>. QED
          BY <3>2, <5>1
      <4>. QED
        BY <4>1, <4>2
    <3>. QED
      BY <3>1, <3>2, <3>5, <3>6 DEF Left
  <2>. QED
    BY <2>3, <2>4
<1>3. Len(q) \in S
  <2> HIDE DEF S
  <2>. QED
    BY <1>1, <1>2, NatSetInduction, LenProperties
<1>. QED
  BY <1>3

(* As sets of entries.                                                     *)
Entries(q) == {q[i] : i \in 1 .. Len(q)}

(* ... the entries that are not gone.                                      *)
LEMMA WithoutFacts ==
    ASSUME NEW R, NEW q \in Seq(R), NEW gone
    PROVE  Talk!Without(q, gone) \in Seq(R) /\ Entries(Talk!Without(q, gone)) = Entries(q) \ gone
<1> DEFINE kept == CHOOSE F : Drops(q, gone, F)
<1>1. Drops(q, gone, kept)
  BY DropExists
<1>2. Talk!Without(q, gone) = kept[Len(q)]
  BY DEF Talk!Without, Drops, DropStep
<1> HIDE DEF kept
<1>3. kept[Len(q)] \in Seq(R) /\ Left(q, gone, Len(q), kept[Len(q)])
  BY <1>1, DropFacts
<1> DEFINE new == Talk!Without(q, gone)
<1>4. new \in Seq(R) /\ Left(q, gone, Len(q), new)
  BY <1>2, <1>3
<1> HIDE DEF new
<1>5. Entries(new) \subseteq Entries(q) \ gone
  BY <1>4 DEF Entries, Left
<1>6. Entries(q) \ gone \subseteq Entries(new)
  BY <1>4 DEF Entries, Left
<1> QED
  BY <1>4, <1>5, <1>6 DEF new

(* One entry more.                                                         *)
LEMMA AppendFacts ==
    ASSUME NEW R, NEW q \in Seq(R), NEW e \in R
    PROVE  Append(q, e) \in Seq(R) /\ Entries(Append(q, e)) = Entries(q) \cup {e}
<1>1. /\ Append(q, e) \in Seq(R) /\ Len(Append(q, e)) = Len(q) + 1 /\ Len(q) \in Nat
      /\ \A i \in 1 .. Len(q) : Append(q, e)[i] = q[i]
      /\ Append(q, e)[Len(q) + 1] = e
  BY AppendProperties, LenProperties
<1>2. \A i \in 1 .. Len(q) + 1 : i \in 1 .. Len(q) \/ i = Len(q) + 1
  BY <1>1
<1>3. Entries(Append(q, e)) \subseteq Entries(q) \cup {e}
  BY <1>1, <1>2 DEF Entries
<1>4. Entries(q) \subseteq Entries(Append(q, e))
  BY <1>1 DEF Entries
<1>5. e \in Entries(Append(q, e))
  BY <1>1 DEF Entries
<1> QED
  BY <1>1, <1>3, <1>4, <1>5

(* The newest n entries of q are its last ones, in their order.            *)
LEMMA NewestFacts ==
    ASSUME NEW R, NEW q \in Seq(R), NEW n \in Nat \ {0}
    PROVE  /\ Talk!Newest(q, n) \in Seq(R)
           /\ \E k \in Nat : /\ Len(q) = Len(Talk!Newest(q, n)) + k
                             /\ \A i \in 1 .. Len(Talk!Newest(q, n)) : Talk!Newest(q, n)[i] = q[i + k]
           /\ Entries(Talk!Newest(q, n)) \subseteq Entries(q)
           /\ Len(q) > 0 => q[Len(q)] \in Entries(Talk!Newest(q, n))
<1> DEFINE m == IF Len(q) > n THEN Len(q) - n + 1 ELSE 1
           new == Talk!Newest(q, n)
           k == m - 1
<1>1. Len(q) \in Nat /\ m \in Int /\ m >= 1 /\ k \in Nat /\ m =< Len(q) + 1
      /\ (Len(q) > 0 => m =< Len(q))
  BY LenProperties
<1>2. new = SubSeq(q, m, Len(q))
  BY DEF Talk!Newest
<1> HIDE DEF m
<1>3. \A i \in m .. Len(q) : q[i] \in R
  BY <1>1
<1>4. /\ new \in Seq(R)
      /\ Len(new) = IF m <= Len(q) THEN Len(q) - m + 1 ELSE 0
      /\ \A i \in 1 .. Len(q) - m + 1 : new[i] = q[m + i - 1]
  BY <1>1, <1>2, <1>3, SubSeqProperties
<1> HIDE DEF new
<1>5. Len(new) = Len(q) - m + 1
  BY <1>1, <1>4
<1>6. \A i \in 1 .. Len(new) : m + i - 1 = i + k /\ i + k \in 1 .. Len(q)
  BY <1>1, <1>5
<1>7. Len(q) = Len(new) + k /\ \A i \in 1 .. Len(new) : new[i] = q[i + k]
  BY <1>1, <1>4, <1>5, <1>6
<1>8. Entries(new) \subseteq Entries(q)
  BY <1>6, <1>7 DEF Entries
<1>9. ASSUME Len(q) > 0 PROVE q[Len(q)] \in Entries(new)
  <2>1. Len(new) \in 1 .. Len(new) /\ Len(new) + k = Len(q)
    BY <1>1, <1>4, <1>5, <1>7, <1>9
  <2> QED
    BY <1>7, <2>1 DEF Entries
<1> QED
  BY <1>1, <1>4, <1>7, <1>8, <1>9 DEF new

-----------------------------------------------------------------------------
(* A conversation holds turns of its session in the order they were held,  *)
(* none later than the nth.                                                *)
Hist == Seq(Talk!Turn)
Apart(s, q, n) ==
    \A i \in 1 .. Len(q) :
        /\ q[i][1] = s /\ q[i][2] =< n
        /\ \A j \in 1 .. i - 1 : q[j][2] < q[i][2]

(* The bounds of the instance and the values that stand for nothing.       *)
LEMMA TalkBounds ==
    /\ MaxTurns \in Nat \ {0} /\ MaxRows \in Nat \ {0} /\ MaxKept \in Nat \ {0}
    /\ MaxCaptures \in Nat \ {0} /\ Unread \notin Nat /\ NoRow \notin Sessions
    /\ \A r \in Talk!Row : r # NoRow
BY WorkAssumption DEF Talk!ConversationsAssumption

(* A turn is its session and its number.                                   *)
LEMMA TurnTyped == \A t \in Talk!Turn : t[1] \in Sessions /\ t[2] \in 1 .. MaxTurns /\ t[2] \in Nat
BY TalkBounds DEF Talk!Turn

(* Turns are only added to what was held.                                  *)
LEMMA ApartGrows ==
    ASSUME NEW s, NEW q \in Hist, NEW m \in Nat, NEW n \in Nat, m =< n, Apart(s, q, m)
    PROVE  Apart(s, q, n)
<1>1. \A i \in 1 .. Len(q) : q[i][2] \in Nat
  BY TurnTyped DEF Hist
<1> QED
  BY <1>1 DEF Apart

(* A conversation without turns is in order.                               *)
LEMMA ApartEmpty == \A s, n : Apart(s, <<>>, n)
BY DEF Apart

(* The serializer keeps the newest turns in their order.                   *)
LEMMA ApartNewest ==
    ASSUME NEW s, NEW q \in Hist, NEW n \in Nat, Apart(s, q, n)
    PROVE  Talk!Bounded(q) \in Hist /\ Apart(s, Talk!Bounded(q), n)
<1> DEFINE b == Talk!Bounded(q)
<1>1. /\ b \in Hist
      /\ \E k \in Nat : Len(q) = Len(b) + k /\ \A i \in 1 .. Len(b) : b[i] = q[i + k]
  BY NewestFacts, TalkBounds DEF Hist, Talk!Bounded
<1> HIDE DEF b
<1>2. PICK k \in Nat : Len(q) = Len(b) + k /\ \A i \in 1 .. Len(b) : b[i] = q[i + k]
  BY <1>1
<1>3. Len(b) \in Nat
  BY <1>1 DEF Hist
<1>4. ASSUME NEW i \in 1 .. Len(b) PROVE b[i][1] = s /\ b[i][2] =< n
  <2>1. i + k \in 1 .. Len(q)
    BY <1>2, <1>3
  <2> QED
    BY <1>2, <2>1 DEF Apart
<1>5. ASSUME NEW i \in 1 .. Len(b), NEW j \in 1 .. i - 1 PROVE b[j][2] < b[i][2]
  <2>1. i + k \in 1 .. Len(q) /\ j + k \in 1 .. (i + k) - 1 /\ j \in 1 .. Len(b)
    BY <1>2, <1>3
  <2> QED
    BY <1>2, <2>1 DEF Apart
<1> QED
  BY <1>1, <1>4, <1>5 DEF b, Apart

(* One turn more is later than all that were held.                         *)
LEMMA ApartMore ==
    ASSUME NEW s \in Sessions, NEW q \in Hist, NEW n \in 0 .. MaxTurns, n < MaxTurns, Apart(s, q, n)
    PROVE  /\ Append(q, <<s, n + 1>>) \in Hist /\ Apart(s, Append(q, <<s, n + 1>>), n + 1)
<1> DEFINE e == <<s, n + 1>>
           r == Append(q, e)
<1>1. e \in Talk!Turn /\ e[1] = s /\ e[2] = n + 1
  BY TalkBounds DEF Talk!Turn
<1> HIDE DEF e
<1>2. /\ r \in Hist /\ Len(r) = Len(q) + 1 /\ Len(q) \in Nat
      /\ \A i \in 1 .. Len(q) : r[i] = q[i]
      /\ r[Len(q) + 1] = e
  BY <1>1, AppendProperties, LenProperties DEF Hist
<1> HIDE DEF r
<1>3. \A i \in 1 .. Len(q) : q[i][2] \in Nat /\ q[i][2] =< n
  BY TurnTyped DEF Hist, Apart
<1>4. ASSUME NEW i \in 1 .. Len(r) PROVE r[i][1] = s /\ r[i][2] =< n + 1
  <2>1. i \in 1 .. Len(q) \/ i = Len(q) + 1
    BY <1>2
  <2>2. n \in Nat
    BY TalkBounds
  <2> QED
    BY <1>1, <1>2, <1>3, <2>1, <2>2 DEF Apart
<1>5. ASSUME NEW i \in 1 .. Len(r), NEW j \in 1 .. i - 1 PROVE r[j][2] < r[i][2]
  <2>1. j \in 1 .. Len(q) /\ (i \in 1 .. Len(q) \/ i = Len(q) + 1)
    BY <1>2
  <2>2. n \in Nat
    BY TalkBounds
  <2> QED
    BY <1>1, <1>2, <1>3, <2>1, <2>2 DEF Apart
<1> QED
  BY <1>2, <1>4, <1>5 DEF r, e, Apart

(* The rest of the invariant is about one process p at a time: when it may *)
(* have snapshots in threads, that they are of its session and its newest  *)
(* capture is none that was committed, that no revision it knows is newer  *)
(* than the row, and that its newest capture is on its way, was refused    *)
(* with a warning or is in the row.                                        *)
Of(p) == {t \in threads : t.proc = p}
Loads == [session : Sessions, turns : Hist, rev : Nat]
Books == [Sessions -> Nat \cup {Unread}]
Marks == [Sessions -> Int]
Tables == [Sessions -> Talk!Row \cup {NoRow}]
Steps == {"off", "idle", "turn", "saving", "answered"}

TalkTyped ==
    /\ rows \in Tables /\ recency \in Seq(Sessions)
    /\ Entries(recency) = {s \in Sessions : rows[s] # NoRow}
    /\ minted \subseteq Sessions /\ turns \in 0 .. MaxTurns
    /\ known \in [Processes -> Books] /\ committed \in [Processes -> Marks]
    /\ captured \in [Processes -> 0 .. MaxCaptures] /\ awaits \in [Processes -> 0 .. MaxCaptures]
    /\ program \in [Processes -> {"cli", "tui"}]
    /\ active \in [Processes -> Sessions \cup {NoRow}]
    /\ messages \in [Processes -> Hist] /\ phase \in [Processes -> Steps]
    /\ warned \in [Processes -> BOOLEAN] /\ left \in [Processes -> BOOLEAN]
    /\ follow \in [Processes -> Talk!Follow]
    /\ fetched \in [Processes -> {NoRow} \cup Loads]
    /\ threads \subseteq Talk!Job
    /\ seen \in [Processes -> Nat] /\ looked \in [Processes -> BOOLEAN]

Table ==
    \A s \in Sessions : rows[s] # NoRow => s \in minted /\ Apart(s, rows[s].turns, turns)
InOrder(p) ==
    /\ Apart(active[p], messages[p], turns)
    /\ \A t \in Of(p) : Apart(t.session, t.turns, turns)
    /\ follow[p] = "apply" => /\ fetched[p] \in Loads /\ fetched[p].session \in minted
                              /\ Apart(fetched[p].session, fetched[p].turns, turns)
    /\ phase[p] # "off" => active[p] \in minted
    /\ \A s \in Sessions : known[p][s] # Unread => s \in minted
Phases(p) ==
    /\ phase[p] = "off" => active[p] = NoRow /\ messages[p] = <<>> /\ Of(p) = {} /\ ~left[p]
    /\ phase[p] \in {"off", "idle", "turn"} => follow[p] = "stay"
    /\ follow[p] # "exit" /\ phase[p] # "saving" => Of(p) = {}
    /\ left[p] => follow[p] = "exit"
Pending(p) ==
    /\ \A t \in Of(p) : /\ t.session = active[p] /\ t.seq =< captured[p]
                        /\ committed[p][t.session] # t.seq
                        /\ follow[p] # "exit" => t.seq = awaits[p]
    /\ \A t, u \in Of(p) : t.seq = u.seq => t = u
    /\ \A s \in Sessions : committed[p][s] =< captured[p]
Revisions(p) ==
    /\ \A s \in Sessions : rows[s] # NoRow =>
          /\ known[p][s] # Unread => known[p][s] =< rows[s].rev
          /\ active[p] = s => seen[p] =< rows[s].rev
    /\ phase[p] # "off" => /\ known[p][active[p]] \in Nat
                           /\ looked[p] \/ known[p][active[p]] = seen[p]
    /\ follow[p] = "apply" =>
          /\ rows[fetched[p].session] # NoRow => fetched[p].rev =< rows[fetched[p].session].rev
          /\ known[p][fetched[p].session] =
                IF fetched[p].session = active[p] /\ seen[p] > fetched[p].rev
                THEN seen[p] ELSE fetched[p].rev
Stored(p) ==
    /\ committed[p][active[p]] = captured[p]
    /\ rows[active[p]] # NoRow /\ rows[active[p]].rev = seen[p]
          => rows[active[p]].turns = Talk!Bounded(messages[p])
OnItsWay(p) == \E t \in Of(p) : t.seq = captured[p] /\ t.turns = messages[p]
Kept(p) == phase[p] \in {"saving", "answered"} => OnItsWay(p) \/ warned[p] \/ Stored(p)

Owns(p) == InOrder(p) /\ Phases(p) /\ Pending(p) /\ Revisions(p) /\ Kept(p)
TalkInv == TalkTyped /\ Table /\ \A p \in Processes : Owns(p)

(* Types of what is updated.                                               *)
LEMMA TalkTypes == (TalkTyped => Talk!TypeOK) /\ (TalkTyped' => Talk!TypeOK')
<1>1. ASSUME NEW q \in Seq(Sessions) PROVE Talk!Range(q) = Entries(q)
  BY DEF Talk!Range, Entries
<1>2. TalkTyped => Talk!TypeOK
  BY <1>1 DEF TalkTyped, Talk!TypeOK, Tables, Books, Marks, Hist, Steps
<1>3. TalkTyped' => Talk!TypeOK'
  BY <1>1 DEF TalkTyped, Talk!TypeOK, Tables, Books, Marks, Hist, Steps
<1> QED
  BY <1>2, <1>3

(* ... stays what it was.                                                  *)
LEMMA TalkShapes ==
    /\ \A b \in Books : /\ \A s \in Sessions : b[s] \in Nat \cup {Unread}
                        /\ \A s \in Sessions, r \in Nat : [b EXCEPT ![s] = r] \in Books
                        /\ \A gone : [s \in Sessions |-> IF s \in gone THEN Unread ELSE b[s]] \in Books
    /\ \A m \in Marks : /\ \A s \in Sessions : m[s] \in Int
                        /\ \A s \in Sessions, n \in Nat : [m EXCEPT ![s] = n] \in Marks
                        /\ \A gone : [s \in Sessions |-> IF s \in gone THEN -1 ELSE m[s]] \in Marks
    /\ \A r \in Tables, s \in Sessions : r[s] # NoRow => r[s].rev \in Nat /\ r[s].turns \in Hist
    /\ \A v \in Nat, h \in Hist : [rev |-> v, turns |-> h] \in Talk!Row /\ [rev |-> v, turns |-> h] # NoRow
    /\ \A l \in Loads : l.session \in Sessions /\ l.turns \in Hist /\ l.rev \in Nat
    /\ \A s \in Sessions, h \in Hist, v \in Nat : [session |-> s, turns |-> h, rev |-> v] \in Loads
    /\ \A t \in Talk!Job : t.proc \in Processes /\ t.session \in Sessions /\ t.seq \in Nat /\ t.turns \in Hist
    /\ \A p \in Processes, s \in Sessions, n \in Nat, h \in Hist :
        [proc |-> p, session |-> s, seq |-> n, turns |-> h] \in Talk!Job
    /\ Talk!Forgotten \in Books /\ Talk!Nothing \in Marks /\ <<>> \in Hist
    /\ \A s \in Sessions : Talk!Forgotten[s] = Unread /\ Talk!Nothing[s] = -1
<1>1. /\ \A r \in Tables, s \in Sessions : r[s] # NoRow => r[s].rev \in Nat /\ r[s].turns \in Hist
      /\ \A v \in Nat, h \in Hist : [rev |-> v, turns |-> h] \in Talk!Row
  BY DEF Tables, Talk!Row, Hist
<1>2. \A v \in Nat, h \in Hist : [rev |-> v, turns |-> h] # NoRow
  BY <1>1, TalkBounds
<1>3. /\ \A l \in Loads : l.session \in Sessions /\ l.turns \in Hist /\ l.rev \in Nat
      /\ \A s \in Sessions, h \in Hist, v \in Nat : [session |-> s, turns |-> h, rev |-> v] \in Loads
  BY DEF Loads
<1>4. /\ \A t \in Talk!Job : t.proc \in Processes /\ t.session \in Sessions /\ t.seq \in Nat /\ t.turns \in Hist
      /\ \A p \in Processes, s \in Sessions, n \in Nat, h \in Hist :
          [proc |-> p, session |-> s, seq |-> n, turns |-> h] \in Talk!Job
  BY DEF Talk!Job, Hist
<1>5. \A b \in Books : /\ \A s \in Sessions : b[s] \in Nat \cup {Unread}
                       /\ \A s \in Sessions, r \in Nat : [b EXCEPT ![s] = r] \in Books
                       /\ \A gone : [s \in Sessions |-> IF s \in gone THEN Unread ELSE b[s]] \in Books
  BY DEF Books
<1>6. \A m \in Marks : /\ \A s \in Sessions : m[s] \in Int
                       /\ \A s \in Sessions, n \in Nat : [m EXCEPT ![s] = n] \in Marks
                       /\ \A gone : [s \in Sessions |-> IF s \in gone THEN -1 ELSE m[s]] \in Marks
  BY DEF Marks
<1>7. /\ Talk!Forgotten \in Books /\ Talk!Nothing \in Marks /\ <<>> \in Hist
      /\ \A s \in Sessions : Talk!Forgotten[s] = Unread /\ Talk!Nothing[s] = -1
  BY DEF Talk!Forgotten, Talk!Nothing, Books, Marks, Hist
<1> QED
  BY <1>1, <1>2, <1>3, <1>4, <1>5, <1>6, <1>7

(* A step of another process: rows are only rewritten with a newer         *)
(* revision, made for a fresh session or dropped.                          *)
Untouched(q) ==
    /\ known'[q] = known[q] /\ captured'[q] = captured[q] /\ committed'[q] = committed[q]
    /\ active'[q] = active[q] /\ messages'[q] = messages[q] /\ phase'[q] = phase[q]
    /\ awaits'[q] = awaits[q] /\ warned'[q] = warned[q] /\ left'[q] = left[q]
    /\ follow'[q] = follow[q] /\ fetched'[q] = fetched[q] /\ Of(q)' = Of(q)
    /\ seen'[q] = seen[q] /\ looked'[q] = looked[q]
Grown ==
    /\ minted \subseteq minted' /\ turns =< turns' /\ turns \in Nat /\ turns' \in Nat
    /\ \A s \in Sessions : rows'[s] # NoRow =>
        \/ rows'[s] = rows[s]
        \/ s \notin minted /\ s \in minted'
        \/ rows[s] # NoRow /\ rows'[s].rev > rows[s].rev

(* What is a process's own stays so when another one steps.                *)
LEMMA OthersKept ==
    ASSUME TalkTyped, TalkTyped', Table, Grown, NEW q \in Processes, Owns(q), Untouched(q)
    PROVE  Owns(q)'
<1>0. /\ active[q] \in Sessions \cup {NoRow} /\ messages[q] \in Hist
      /\ seen[q] \in Nat /\ known[q] \in Books /\ fetched[q] \in {NoRow} \cup Loads
      /\ \A t \in Of(q) : t \in Talk!Job
      /\ \A s \in Sessions : rows[s] # NoRow => rows[s].rev \in Nat
      /\ \A s \in Sessions : rows'[s] # NoRow => rows'[s].rev \in Nat
      /\ rows' \in Tables
  BY TalkShapes DEF TalkTyped, Of
<1>1. InOrder(q)'
  <2>1. \A s, h : h \in Hist /\ Apart(s, h, turns) => Apart(s, h, turns')
    BY ApartGrows DEF Grown
  <2> QED
    BY <1>0, <2>1, TalkShapes DEF Owns, InOrder, Untouched, Grown
<1>2. Phases(q)'
  BY DEF Owns, Phases, Untouched
<1>3. Pending(q)'
  BY DEF Owns, Pending, Untouched
<1>4. Revisions(q)'
  <2>1. ASSUME NEW s \in Sessions, rows'[s] # NoRow
        PROVE  /\ known'[q][s] # Unread => known'[q][s] =< rows'[s].rev
               /\ active'[q] = s => seen'[q] =< rows'[s].rev
    <3>1. active[q] = s => s \in minted
      BY TalkBounds DEF Owns, InOrder, Phases
    <3>2. known[q][s] # Unread => s \in minted /\ known[q][s] \in Nat
      BY <1>0, TalkShapes DEF Owns, InOrder
    <3> QED
      BY <1>0, <2>1, <3>1, <3>2 DEF Owns, Revisions, Untouched, Grown
  <2>2. ASSUME follow[q] = "apply", rows'[fetched[q].session] # NoRow
        PROVE  fetched[q].rev =< rows'[fetched[q].session].rev
    <3>1. fetched[q] \in Loads /\ fetched[q].session \in minted
      BY <1>0, <2>2 DEF Owns, InOrder
    <3> QED
      BY <1>0, <2>2, <3>1, TalkShapes DEF Owns, Revisions, Grown
  <2> QED
    BY <2>1, <2>2 DEF Owns, Revisions, Untouched
<1>5. Kept(q)'
  <2>1. ASSUME phase[q] \in {"saving", "answered"}, Stored(q) PROVE Stored(q)'
    <3>1. active[q] \in Sessions /\ active[q] \in minted
      BY <1>0, <2>1 DEF Owns, InOrder, TalkTyped
    <3>2. rows[active[q]] # NoRow => seen[q] =< rows[active[q]].rev
      BY <3>1 DEF Owns, Revisions
    <3> QED
      BY <1>0, <2>1, <3>1, <3>2 DEF Stored, Untouched, Grown
  <2> QED
    BY <2>1 DEF Owns, Kept, OnItsWay, Untouched
<1> QED
  BY <1>1, <1>2, <1>3, <1>4, <1>5 DEF Owns

(* A step of one process is one that keeps what is its own.                *)
LEMMA ActorKept ==
    ASSUME TalkInv, TalkTyped', Table', Grown, NEW p \in Processes, Owns(p)',
           \A q \in Processes \ {p} : Untouched(q)
    PROVE  TalkInv'
<1>1. ASSUME NEW q \in Processes, q # p PROVE Owns(q)'
  BY <1>1, OthersKept DEF TalkInv
<1> QED
  BY <1>1 DEF TalkInv

(* A snapshot that is captured is the newest, and on its way.              *)
LEMMA Captured ==
    ASSUME TalkInv, NEW p \in Processes, NEW h \in Hist, Talk!Capture(p, h), phase[p] # "off",
           turns' \in 0 .. MaxTurns, turns =< turns', Apart(active[p], h, turns'),
           phase'[p] \notin {"off", "idle", "turn"}, left'[p] => follow'[p] = "exit",
           \/ follow'[p] = "exit"
           \/ phase'[p] = "saving" /\ awaits'[p] = captured[p] + 1 /\ Of(p) = {}
    PROVE  /\ captured' \in [Processes -> 0 .. MaxCaptures] /\ captured'[p] = captured[p] + 1
           /\ threads' \subseteq Talk!Job /\ messages' \in [Processes -> Hist]
           /\ \A q \in Processes \ {p} : /\ Of(q)' = Of(q) /\ captured'[q] = captured[q]
                                        /\ messages'[q] = messages[q]
           /\ Apart(active[p], messages'[p], turns')
           /\ \A t \in Of(p)' : Apart(t.session, t.turns, turns')
           /\ Table' /\ Phases(p)' /\ Pending(p)' /\ Kept(p)'
<1> DEFINE job == [proc |-> p, session |-> active[p], seq |-> captured[p] + 1, turns |-> h]
<1>0. TalkTyped /\ Table /\ Owns(p)
  BY DEF TalkInv
<1>1. /\ captured[p] < MaxCaptures
      /\ captured' = [captured EXCEPT ![p] = captured[p] + 1]
      /\ threads' = threads \cup {job}
      /\ messages' = [messages EXCEPT ![p] = h]
      /\ UNCHANGED <<rows, recency, minted, committed, program, active, seen>>
  BY DEF Talk!Capture
<1>2. /\ captured[p] \in Nat /\ captured[p] + 1 \in 0 .. MaxCaptures /\ captured[p] + 1 \in Nat
      /\ active[p] \in Sessions
  BY <1>0, <1>1, TalkBounds DEF TalkTyped, Owns, InOrder
<1>3. /\ captured' \in [Processes -> 0 .. MaxCaptures] /\ captured'[p] = captured[p] + 1
      /\ messages' \in [Processes -> Hist] /\ messages'[p] = h
      /\ \A q \in Processes \ {p} : captured'[q] = captured[q] /\ messages'[q] = messages[q]
  BY <1>0, <1>1, <1>2 DEF TalkTyped
<1>4. /\ job \in Talk!Job /\ job.proc = p /\ job.session = active[p] /\ job.seq = captured[p] + 1
      /\ job.turns = h
  BY <1>2, TalkShapes
<1> HIDE DEF job
<1>5. /\ threads' \subseteq Talk!Job /\ Of(p)' = Of(p) \cup {job}
      /\ \A q \in Processes \ {p} : Of(q)' = Of(q)
  BY <1>0, <1>1, <1>4 DEF TalkTyped, Of
<1>6. \A s, g : g \in Hist /\ Apart(s, g, turns) => Apart(s, g, turns')
  <2>1. turns \in Nat /\ turns' \in Nat
    BY <1>0, TalkBounds DEF TalkTyped
  <2> QED
    BY <2>1, ApartGrows
<1>7. Apart(active[p], messages'[p], turns')
  BY <1>3
<1>8. \A t \in Of(p) : t \in Talk!Job /\ t.turns \in Hist /\ t.seq \in Nat /\ t.session \in Sessions
  BY <1>0, TalkShapes DEF TalkTyped, Of
<1>9. \A t \in Of(p)' : Apart(t.session, t.turns, turns')
  BY <1>0, <1>4, <1>5, <1>6, <1>8 DEF Owns, InOrder
<1>10. Table'
  BY <1>0, <1>1, <1>6, TalkShapes DEF Table, TalkTyped
<1>11. Phases(p)'
  BY DEF Phases
<1>12. Pending(p)'
  <2>1. \A s \in Sessions : committed[p][s] \in Int /\ committed[p][s] =< captured[p]
    BY <1>0, TalkShapes DEF TalkTyped, Owns, Pending
  <2>2. \A t \in Of(p) : /\ t.session = active[p] /\ t.seq =< captured[p]
                         /\ committed[p][t.session] # t.seq
    BY <1>0 DEF Owns, Pending
  <2>3. \A t \in Of(p)' : /\ t.session = active'[p] /\ t.seq =< captured'[p]
                          /\ committed'[p][t.session] # t.seq
    BY <1>1, <1>2, <1>3, <1>4, <1>5, <1>8, <2>1, <2>2
  <2>4. ASSUME follow'[p] # "exit", NEW t \in Of(p)' PROVE t.seq = awaits'[p]
    BY <1>4, <1>5, <2>4
  <2>5. ASSUME NEW t \in Of(p)', NEW u \in Of(p)', t.seq = u.seq PROVE t = u
    <3>1. CASE t = job /\ u = job
      BY <3>1
    <3>2. CASE t \in Of(p) /\ u \in Of(p)
      BY <1>0, <2>5, <3>2 DEF Owns, Pending
    <3>3. CASE t \in Of(p) /\ u = job
      BY <1>2, <1>4, <1>8, <2>2, <2>5, <3>3
    <3>4. CASE t = job /\ u \in Of(p)
      BY <1>2, <1>4, <1>8, <2>2, <2>5, <3>4
    <3> QED
      BY <1>5, <3>1, <3>2, <3>3, <3>4
  <2>6. \A s \in Sessions : committed'[p][s] =< captured'[p]
    BY <1>1, <1>2, <1>3, <2>1
  <2> QED
    BY <2>3, <2>4, <2>5, <2>6 DEF Pending
<1>13. Kept(p)'
  BY <1>3, <1>4, <1>5 DEF Kept, OnItsWay
<1> QED
  BY <1>3, <1>5, <1>7, <1>9, <1>10, <1>11, <1>12, <1>13

(* A save that does not load anything before.                              *)
LEMMA SaveKept ==
    ASSUME TalkInv, NEW p \in Processes, NEW h \in Hist, NEW next \in {"stay", "look", "new", "exit"},
           Talk!Save(p, h, next), phase[p] # "off",
           turns' \in 0 .. MaxTurns, turns =< turns', Apart(active[p], h, turns'),
           next = "exit" \/ Of(p) = {}, left' \in [Processes -> BOOLEAN],
           \A q \in Processes \ {p} : left'[q] = left[q],
           left'[p] => next = "exit", UNCHANGED <<known, fetched, looked>>
    PROVE  TalkInv'
<1>0. TalkTyped /\ Table /\ Owns(p)
  BY DEF TalkInv
<1>1. /\ phase' = [phase EXCEPT ![p] = "saving"]
      /\ awaits' = [awaits EXCEPT ![p] = captured[p] + 1]
      /\ warned' = [warned EXCEPT ![p] = FALSE]
      /\ follow' = [follow EXCEPT ![p] = next]
      /\ UNCHANGED <<rows, recency, minted, committed, program, active, seen>>
      /\ captured[p] < MaxCaptures
  BY DEF Talk!Save, Talk!Capture
<1>2. /\ captured[p] \in Nat /\ captured[p] + 1 \in 0 .. MaxCaptures
      /\ phase'[p] = "saving" /\ awaits'[p] = captured[p] + 1 /\ follow'[p] = next
  BY <1>0, <1>1, TalkBounds DEF TalkTyped
<1>3. /\ captured' \in [Processes -> 0 .. MaxCaptures] /\ captured'[p] = captured[p] + 1
      /\ threads' \subseteq Talk!Job /\ messages' \in [Processes -> Hist]
      /\ \A q \in Processes \ {p} : /\ Of(q)' = Of(q) /\ captured'[q] = captured[q]
                                   /\ messages'[q] = messages[q]
      /\ Apart(active[p], messages'[p], turns')
      /\ \A t \in Of(p)' : Apart(t.session, t.turns, turns')
      /\ Table' /\ Phases(p)' /\ Pending(p)' /\ Kept(p)'
  BY <1>2, Captured DEF Talk!Save
<1>4. TalkTyped'
  <2>1. next \in Talk!Follow
    BY DEF Talk!Follow
  <2> QED
    BY <1>0, <1>1, <1>2, <1>3, <2>1 DEF TalkTyped, Steps
<1>5. \A q \in Processes \ {p} : Untouched(q)
  BY <1>0, <1>1, <1>3 DEF TalkTyped, Untouched
<1>6. Grown
  BY <1>0, <1>1, TalkBounds DEF TalkTyped, Grown
<1>7. InOrder(p)'
  BY <1>0, <1>1, <1>2, <1>3 DEF Owns, InOrder
<1>8. Revisions(p)'
  BY <1>0, <1>1, <1>2 DEF Owns, Revisions
<1>9. Owns(p)'
  BY <1>3, <1>7, <1>8 DEF Owns
<1> QED
  BY <1>3, <1>4, <1>5, <1>6, <1>9, ActorKept

(* What a turn leaves of the history.                                      *)
LEMMA TurnAdds ==
    ASSUME TalkInv, NEW p \in Processes, phase[p] # "off", NEW h \in Talk!AfterTurn(p),
           turns' = IF h = messages[p] THEN turns ELSE turns + 1
    PROVE  h \in Hist /\ turns' \in 0 .. MaxTurns /\ turns =< turns' /\ Apart(active[p], h, turns')
<1>1. /\ turns \in 0 .. MaxTurns /\ turns \in Nat /\ active[p] \in Sessions /\ messages[p] \in Hist
      /\ Apart(active[p], messages[p], turns)
  BY TalkBounds DEF TalkInv, TalkTyped, Owns, InOrder
<1>2. CASE h = messages[p]
  BY <1>1, <1>2
<1>3. CASE h # messages[p]
  <2>1. turns < MaxTurns /\ h = Append(messages[p], <<active[p], turns + 1>>) /\ turns' = turns + 1
    BY <1>3 DEF Talk!AfterTurn
  <2>2. h \in Hist /\ Apart(active[p], h, turns + 1)
    BY <1>1, <2>1, ApartMore
  <2> QED
    BY <1>1, <2>1, <2>2, TalkBounds
<1> QED
  BY <1>2, <1>3

(* A process at its prompt, or in a turn, waits for no save.               *)
LEMMA IdleHolds ==
    ASSUME TalkInv, NEW p \in Processes, phase[p] \in {"idle", "turn"}
    PROVE  /\ Of(p) = {} /\ ~left[p] /\ follow[p] = "stay" /\ active[p] \in Sessions
           /\ messages[p] \in Hist /\ Apart(active[p], messages[p], turns)
           /\ turns \in 0 .. MaxTurns /\ turns =< turns /\ active[p] \in minted
<1>1. TalkTyped /\ Owns(p)
  BY DEF TalkInv
<1>2. follow[p] = "stay" /\ Of(p) = {} /\ ~left[p]
  BY <1>1 DEF Owns, Phases
<1>3. active[p] \in minted /\ Apart(active[p], messages[p], turns)
  BY <1>1 DEF Owns, InOrder
<1>4. turns \in 0 .. MaxTurns /\ messages[p] \in Hist /\ minted \subseteq Sessions
  BY <1>1 DEF TalkTyped
<1>5. turns =< turns
  BY <1>4, TalkBounds
<1> QED
  BY <1>2, <1>3, <1>4, <1>5

(* A turn that ends saves what it added, ...                               *)
LEMMA TurnEndsKeeps ==
    ASSUME TalkInv, NEW p \in Processes, Talk!TurnEnds(p)
    PROVE  TalkInv'
<1>1. PICK h \in Talk!AfterTurn(p) :
        /\ Talk!Save(p, h, IF p \in Printing THEN "exit" ELSE "stay")
        /\ turns' = IF h = messages[p] THEN turns ELSE turns + 1
  BY DEF Talk!TurnEnds
<1>2. phase[p] = "turn" /\ UNCHANGED <<left, known, fetched, looked>>
  BY DEF Talk!TurnEnds
<1>3. h \in Hist /\ turns' \in 0 .. MaxTurns /\ turns =< turns' /\ Apart(active[p], h, turns')
  BY <1>1, <1>2, TurnAdds
<1>4. Of(p) = {} /\ ~left[p]
  BY <1>2, IdleHolds
<1>5. left' \in [Processes -> BOOLEAN]
  BY <1>2 DEF TalkInv, TalkTyped
<1>6. PICK next \in {"stay", "exit"} : Talk!Save(p, h, next)
  BY <1>1
<1> QED
  BY <1>2, <1>3, <1>4, <1>5, <1>6, SaveKept

(* ... a command what it left, ...                                         *)
LEMMA CommandKeeps ==
    ASSUME TalkInv, NEW p \in Processes, Talk!Command(p) \/ Talk!SaveFirst(p)
    PROVE  TalkInv'
<1>1. phase[p] = "idle" /\ UNCHANGED <<turns, left, known, fetched, looked>>
  BY DEF Talk!Command, Talk!SaveFirst, Talk!Attended
<1>2. PICK h \in {messages[p], <<>>}, next \in {"stay", "look", "new"} : Talk!Save(p, h, next)
  BY DEF Talk!Command, Talk!SaveFirst
<1>3. Of(p) = {} /\ ~left[p] /\ turns' \in 0 .. MaxTurns /\ turns =< turns'
  BY <1>1, IdleHolds
<1>4. h \in Hist /\ Apart(active[p], h, turns')
  BY <1>1, <1>2, IdleHolds, ApartEmpty, TalkShapes
<1>5. left' \in [Processes -> BOOLEAN]
  BY <1>1 DEF TalkInv, TalkTyped
<1> QED
  BY <1>1, <1>2, <1>3, <1>4, <1>5, SaveKept

(* ... and the shutdown whatever there is.                                 *)
LEMMA QuitKeeps ==
    ASSUME TalkInv, NEW p \in Processes, Talk!Quit(p)
    PROVE  TalkInv'
<1>1. /\ Talk!Save(p, messages[p], "exit") /\ left' = [left EXCEPT ![p] = phase[p] = "turn"]
      /\ UNCHANGED <<turns, known, fetched, looked>> /\ phase[p] # "off"
  BY DEF Talk!Quit, Talk!Attended
<1>2. /\ messages[p] \in Hist /\ Apart(active[p], messages[p], turns) /\ turns \in 0 .. MaxTurns
      /\ turns =< turns /\ left \in [Processes -> BOOLEAN]
  BY TalkBounds DEF TalkInv, TalkTyped, Owns, InOrder
<1>3. left' \in [Processes -> BOOLEAN] /\ \A q \in Processes \ {p} : left'[q] = left[q]
  BY <1>1, <1>2
<1> QED
  BY <1>1, <1>2, <1>3, SaveKept

(* A turn left running saves when it ends, for a process about to exit.    *)
LEMMA LateTurnEndsKeeps ==
    ASSUME TalkInv, NEW p \in Processes, Talk!LateTurnEnds(p)
    PROVE  TalkInv'
<1>0. TalkTyped /\ Table /\ Owns(p)
  BY DEF TalkInv
<1>1. /\ left[p] /\ left' = [left EXCEPT ![p] = FALSE]
      /\ UNCHANGED <<phase, awaits, warned, follow, known, fetched, looked>>
  BY DEF Talk!LateTurnEnds
<1>2. PICK h \in Talk!AfterTurn(p) :
        Talk!Capture(p, h) /\ turns' = IF h = messages[p] THEN turns ELSE turns + 1
  BY DEF Talk!LateTurnEnds
<1>3. UNCHANGED <<rows, recency, minted, committed, program, active, seen>>
  BY <1>2 DEF Talk!Capture
<1>4. phase[p] \notin {"off", "idle", "turn"} /\ follow'[p] = "exit" /\ ~left'[p]
  BY <1>0, <1>1 DEF TalkTyped, Owns, Phases
<1>5. h \in Hist /\ turns' \in 0 .. MaxTurns /\ turns =< turns' /\ Apart(active[p], h, turns')
  BY <1>2, <1>4, TurnAdds
<1>6. /\ captured' \in [Processes -> 0 .. MaxCaptures]
      /\ threads' \subseteq Talk!Job /\ messages' \in [Processes -> Hist]
      /\ \A q \in Processes \ {p} : /\ Of(q)' = Of(q) /\ captured'[q] = captured[q]
                                   /\ messages'[q] = messages[q]
      /\ Apart(active[p], messages'[p], turns')
      /\ \A t \in Of(p)' : Apart(t.session, t.turns, turns')
      /\ Table' /\ Phases(p)' /\ Pending(p)' /\ Kept(p)'
  BY <1>1, <1>2, <1>4, <1>5, Captured
<1>7. TalkTyped'
  BY <1>0, <1>1, <1>3, <1>5, <1>6 DEF TalkTyped
<1>8. \A q \in Processes \ {p} : Untouched(q)
  BY <1>0, <1>1, <1>3, <1>6 DEF TalkTyped, Untouched
<1>9. Grown
  BY <1>0, <1>3, <1>5, TalkBounds DEF TalkTyped, Grown
<1>10. InOrder(p)'
  BY <1>0, <1>1, <1>3, <1>4, <1>6 DEF Owns, InOrder
<1>11. Revisions(p)'
  BY <1>0, <1>1, <1>3, <1>4 DEF Owns, Revisions
<1>12. Owns(p)'
  BY <1>6, <1>10, <1>11 DEF Owns
<1> QED
  BY <1>6, <1>7, <1>8, <1>9, <1>12, ActorKept

(* A resume loads its target before it saves.                              *)
LEMMA ResumeKeeps ==
    ASSUME TalkInv, NEW p \in Processes, NEW s \in Sessions, Talk!Resume(p, s)
    PROVE  TalkInv'
<1> DEFINE load == [session |-> s, turns |-> rows[s].turns, rev |-> rows[s].rev]
           mine == Talk!Remembered(known[p], s)
<1>0. TalkTyped /\ Table /\ Owns(p)
  BY DEF TalkInv
<1>1. /\ phase[p] = "idle" /\ rows[s] # NoRow
      /\ known' = [known EXCEPT ![p] = mine]
      /\ fetched' = [fetched EXCEPT ![p] = load]
      /\ looked' = [looked EXCEPT ![p] = looked[p] \/ s = active[p]]
      /\ UNCHANGED <<turns, left>>
      /\ Talk!Save(p, messages[p], "apply")
  BY DEF Talk!Resume, Talk!Attended
<1>2. /\ phase' = [phase EXCEPT ![p] = "saving"]
      /\ awaits' = [awaits EXCEPT ![p] = captured[p] + 1]
      /\ warned' = [warned EXCEPT ![p] = FALSE]
      /\ follow' = [follow EXCEPT ![p] = "apply"]
      /\ UNCHANGED <<rows, recency, minted, committed, program, active, seen>>
      /\ captured[p] < MaxCaptures
  BY <1>1 DEF Talk!Save, Talk!Capture
<1>3. /\ Of(p) = {} /\ ~left[p] /\ active[p] \in Sessions /\ active[p] \in minted
      /\ messages[p] \in Hist /\ Apart(active[p], messages[p], turns)
      /\ turns \in 0 .. MaxTurns /\ turns =< turns
  BY <1>1, IdleHolds
<1>4. /\ captured[p] \in Nat /\ captured[p] + 1 \in 0 .. MaxCaptures
      /\ phase'[p] = "saving" /\ awaits'[p] = captured[p] + 1 /\ follow'[p] = "apply"
  BY <1>0, <1>2, TalkBounds DEF TalkTyped
<1>5. /\ captured' \in [Processes -> 0 .. MaxCaptures]
      /\ threads' \subseteq Talk!Job /\ messages' \in [Processes -> Hist]
      /\ \A q \in Processes \ {p} : /\ Of(q)' = Of(q) /\ captured'[q] = captured[q]
                                   /\ messages'[q] = messages[q]
      /\ Apart(active[p], messages'[p], turns')
      /\ \A t \in Of(p)' : Apart(t.session, t.turns, turns')
      /\ Table' /\ Phases(p)' /\ Pending(p)' /\ Kept(p)'
  BY <1>1, <1>3, <1>4, Captured DEF Talk!Save
<1>6. /\ rows[s].rev \in Nat /\ rows[s].turns \in Hist /\ Apart(s, rows[s].turns, turns) /\ s \in minted
      /\ known[p] \in Books /\ known[p][s] \in Nat \cup {Unread} /\ seen[p] \in Nat
  BY <1>0, <1>1, TalkShapes DEF TalkTyped, Table
<1>7. load \in Loads /\ load.session = s /\ load.turns = rows[s].turns /\ load.rev = rows[s].rev
  BY <1>6, TalkShapes
<1> HIDE DEF load
<1>8. /\ mine \in Books /\ mine[s] = rows[s].rev
      /\ \A r \in Sessions : r # s => mine[r] = known[p][r]
  <2>1. known[p][s] # Unread => known[p][s] =< rows[s].rev
    BY <1>0, <1>1 DEF Owns, Revisions
  <2>2. [known[p] EXCEPT ![s] = rows[s].rev] \in Books
    BY <1>6, TalkShapes
  <2> QED
    BY <1>6, <2>1, <2>2 DEF Talk!Remembered, Books
<1> HIDE DEF mine
<1>9. TalkTyped'
  <2>1. "apply" \in Talk!Follow
    BY DEF Talk!Follow
  <2> QED
    BY <1>0, <1>1, <1>2, <1>4, <1>5, <1>7, <1>8, <2>1 DEF TalkTyped, Steps
<1>10. \A q \in Processes \ {p} : Untouched(q)
  BY <1>0, <1>1, <1>2, <1>5 DEF TalkTyped, Untouched
<1>11. Grown
  BY <1>0, <1>1, <1>2, TalkBounds DEF TalkTyped, Grown
<1>12. /\ known'[p] = mine /\ fetched'[p] = load /\ (looked'[p] <=> looked[p] \/ s = active[p])
  BY <1>0, <1>1 DEF TalkTyped
<1>13. InOrder(p)'
  BY <1>0, <1>1, <1>2, <1>3, <1>5, <1>6, <1>7, <1>8, <1>12 DEF Owns, InOrder
<1>14. Revisions(p)'
  <2>1. /\ known[p][active[p]] \in Nat /\ (looked[p] \/ known[p][active[p]] = seen[p])
        /\ active[p] = s => seen[p] =< rows[s].rev
    BY <1>0, <1>1, <1>3 DEF Owns, Revisions
  <2> QED
    BY <1>0, <1>2, <1>3, <1>6, <1>7, <1>8, <1>12, <2>1 DEF Owns, Revisions
<1>15. Owns(p)'
  BY <1>5, <1>13, <1>14 DEF Owns
<1> QED
  BY <1>5, <1>9, <1>10, <1>11, <1>15, ActorKept

(* A turn starts at the prompt.                                            *)
LEMMA TurnStartsKeeps ==
    ASSUME TalkInv, NEW p \in Processes, Talk!TurnStarts(p)
    PROVE  TalkInv'
<1>0. TalkTyped /\ Table /\ Owns(p)
  BY DEF TalkInv
<1>1. /\ phase[p] = "idle" /\ phase' = [phase EXCEPT ![p] = "turn"]
      /\ UNCHANGED <<rows, recency, minted, turns, known, captured, committed, program, active,
                     messages, awaits, warned, left, follow, fetched, threads, seen, looked>>
  BY DEF Talk!TurnStarts, Talk!store
<1>2. TalkTyped' /\ phase'[p] = "turn"
  BY <1>0, <1>1 DEF TalkTyped, Steps
<1>3. Of(p) = {} /\ ~left[p] /\ follow[p] = "stay" /\ active[p] \in minted
  BY <1>1, IdleHolds
<1>4. \A q : Of(q)' = Of(q)
  BY <1>1 DEF Of
<1>5. \A q \in Processes \ {p} : Untouched(q)
  BY <1>0, <1>1, <1>4 DEF TalkTyped, Untouched
<1>6. Grown /\ Table'
  BY <1>0, <1>1, TalkBounds DEF TalkTyped, Grown, Table
<1>7. Owns(p)'
  BY <1>0, <1>1, <1>2, <1>3, <1>4 DEF Owns, InOrder, Phases, Pending, Revisions, Kept
<1> QED
  BY <1>2, <1>5, <1>6, <1>7, ActorKept

(* The rows that a delete leaves.                                          *)
LEMMA RemovedKeeps ==
    ASSUME TalkInv, NEW p \in Processes, NEW gone, active[p] \notin gone, Talk!Removed(p, gone)
    PROVE  TalkInv'
<1> DEFINE mine == [s \in Sessions |-> IF s \in gone THEN Unread ELSE known[p][s]]
           done == [s \in Sessions |-> IF s \in gone THEN -1 ELSE committed[p][s]]
<1>0. TalkTyped /\ Table /\ Owns(p)
  BY DEF TalkInv
<1>1. /\ phase[p] = "idle"
      /\ rows' = [s \in Sessions |-> IF s \in gone THEN NoRow ELSE rows[s]]
      /\ recency' = Talk!Without(recency, gone)
      /\ known' = [known EXCEPT ![p] = mine]
      /\ committed' = [committed EXCEPT ![p] = done]
      /\ UNCHANGED <<minted, turns, captured, program, active, messages, phase, awaits, warned,
                     left, follow, fetched, threads, seen, looked>>
  BY DEF Talk!Removed, Talk!Attended, Talk!driver
<1>2. Of(p) = {} /\ ~left[p] /\ follow[p] = "stay" /\ active[p] \in minted /\ active[p] \in Sessions
  BY <1>1, IdleHolds
<1>3. /\ known[p] \in Books /\ committed[p] \in Marks /\ mine \in Books /\ done \in Marks
      /\ \A s \in Sessions : mine[s] = (IF s \in gone THEN Unread ELSE known[p][s])
      /\ \A s \in Sessions : done[s] = (IF s \in gone THEN -1 ELSE committed[p][s])
  <2>1. known[p] \in Books /\ committed[p] \in Marks
    BY <1>0 DEF TalkTyped
  <2>2. mine \in Books /\ done \in Marks
    BY <2>1, TalkShapes
  <2>3. \A s \in Sessions : mine[s] = (IF s \in gone THEN Unread ELSE known[p][s])
    OBVIOUS
  <2>4. \A s \in Sessions : done[s] = (IF s \in gone THEN -1 ELSE committed[p][s])
    OBVIOUS
  <2> QED
    BY <2>1, <2>2, <2>3, <2>4
<1> HIDE DEF mine, done
<1>4. rows' \in Tables /\ \A s \in Sessions : rows'[s] = IF s \in gone THEN NoRow ELSE rows[s]
  BY <1>0, <1>1 DEF TalkTyped, Tables
<1>5. recency' \in Seq(Sessions) /\ Entries(recency)' = Entries(recency) \ gone
  BY <1>0, <1>1, WithoutFacts DEF TalkTyped
<1>6. TalkTyped'
  BY <1>0, <1>1, <1>3, <1>4, <1>5 DEF TalkTyped
<1>7. \A q : Of(q)' = Of(q)
  BY <1>1 DEF Of
<1>8. \A q \in Processes \ {p} : Untouched(q)
  BY <1>0, <1>1, <1>7 DEF TalkTyped, Untouched
<1>9. Grown /\ Table'
  BY <1>0, <1>1, <1>4, TalkBounds DEF TalkTyped, Grown, Table
<1>10. known'[p] = mine /\ committed'[p] = done
  BY <1>0, <1>1 DEF TalkTyped
<1>11. InOrder(p)'
  BY <1>0, <1>1, <1>2, <1>3, <1>7, <1>10 DEF Owns, InOrder
<1>12. Phases(p)'
  BY <1>0, <1>1, <1>7 DEF Owns, Phases
<1>13. Pending(p)'
  <2>1. captured[p] \in Nat
    BY <1>0, TalkBounds DEF TalkTyped
  <2> QED
    BY <1>0, <1>1, <1>2, <1>3, <1>7, <1>10, <2>1 DEF Owns, Pending
<1>14. Revisions(p)'
  BY <1>0, <1>1, <1>2, <1>3, <1>4, <1>10 DEF Owns, Revisions
<1>15. Kept(p)'
  BY <1>1 DEF Kept
<1>16. Owns(p)'
  BY <1>11, <1>12, <1>13, <1>14, <1>15 DEF Owns
<1> QED
  BY <1>6, <1>8, <1>9, <1>16, ActorKept

(* ... be they named or empty.                                             *)
LEMMA DeletesKeep ==
    ASSUME TalkInv, NEW p \in Processes, Talk!Delete(p) \/ Talk!DeleteEmpty(p)
    PROVE  TalkInv'
<1>1. PICK gone : active[p] \notin gone /\ Talk!Removed(p, gone)
  BY DEF Talk!Delete, Talk!DeleteEmpty
<1> QED
  BY <1>1, RemovedKeeps

(* The end of a process takes what it had in threads with it.              *)
LEMMA EndedKeeps ==
    ASSUME TalkInv, NEW p \in Processes, Talk!Ended(p)
    PROVE  TalkInv'
<1>0. TalkTyped /\ Table
  BY DEF TalkInv
<1>1. /\ known' = [known EXCEPT ![p] = Talk!Forgotten]
      /\ captured' = [captured EXCEPT ![p] = 0]
      /\ committed' = [committed EXCEPT ![p] = Talk!Nothing]
      /\ program' = [program EXCEPT ![p] = "cli"]
      /\ active' = [active EXCEPT ![p] = NoRow]
      /\ messages' = [messages EXCEPT ![p] = <<>>]
      /\ phase' = [phase EXCEPT ![p] = "off"]
      /\ awaits' = [awaits EXCEPT ![p] = 0]
      /\ warned' = [warned EXCEPT ![p] = FALSE]
      /\ left' = [left EXCEPT ![p] = FALSE]
      /\ follow' = [follow EXCEPT ![p] = "stay"]
      /\ fetched' = [fetched EXCEPT ![p] = NoRow]
      /\ seen' = [seen EXCEPT ![p] = 0]
      /\ looked' = [looked EXCEPT ![p] = FALSE]
      /\ threads' = {t \in threads : t.proc # p}
      /\ UNCHANGED <<rows, recency, minted, turns>>
  BY DEF Talk!Ended
<1>2. TalkTyped'
  <2>1. "stay" \in Talk!Follow /\ 0 \in 0 .. MaxCaptures /\ 0 \in Nat
    BY TalkBounds DEF Talk!Follow
  <2> QED
    BY <1>0, <1>1, <2>1, TalkShapes DEF TalkTyped, Steps
<1>3. Of(p)' = {} /\ \A q \in Processes \ {p} : Of(q)' = Of(q)
  BY <1>1 DEF Of
<1>4. \A q \in Processes \ {p} : Untouched(q)
  BY <1>0, <1>1, <1>3 DEF TalkTyped, Untouched
<1>5. Grown /\ Table'
  BY <1>0, <1>1, TalkBounds DEF TalkTyped, Grown, Table
<1>6. /\ known'[p] = Talk!Forgotten /\ captured'[p] = 0 /\ committed'[p] = Talk!Nothing
      /\ active'[p] = NoRow /\ messages'[p] = <<>> /\ phase'[p] = "off" /\ left'[p] = FALSE
      /\ follow'[p] = "stay"
  BY <1>0, <1>1 DEF TalkTyped
<1>7. InOrder(p)' /\ Phases(p)'
  BY <1>3, <1>6, ApartEmpty, TalkShapes DEF InOrder, Phases
<1>8. Pending(p)' /\ Kept(p)'
  BY <1>3, <1>6, TalkShapes DEF Pending, Kept
<1>9. Revisions(p)'
  BY <1>6, TalkBounds, TalkShapes DEF Revisions
<1>10. Owns(p)'
  BY <1>7, <1>8, <1>9 DEF Owns
<1> QED
  BY <1>2, <1>4, <1>5, <1>10, ActorKept

(* A fresh session's row, and those the table keeps.                       *)
LEMMA Created ==
    ASSUME TalkTyped, Table, NEW s \in Sessions, Talk!Create(s)
    PROVE  /\ s \notin minted /\ minted' = minted \cup {s} /\ recency' \in Seq(Sessions)
           /\ rows' \in Tables /\ rows'[s] # NoRow /\ rows'[s].rev = 0 /\ rows'[s].turns = <<>>
           /\ \A r \in Sessions : r # s => rows'[r] = rows[r] \/ rows'[r] = NoRow
           /\ Entries(recency)' = {r \in Sessions : rows'[r] # NoRow}
<1> DEFINE longer == Append(recency, s)
           kept == Talk!Newest(longer, MaxRows)
           row == [rev |-> 0, turns |-> <<>>]
<1>1. /\ s \notin minted /\ minted' = minted \cup {s} /\ recency' = kept
      /\ rows' = [r \in Sessions |-> IF r = s THEN row
                                     ELSE IF r \in Talk!Range(kept) THEN rows[r] ELSE NoRow]
  BY DEF Talk!Create
<1>2. /\ longer \in Seq(Sessions) /\ Entries(longer) = Entries(recency) \cup {s}
      /\ longer[Len(longer)] = s /\ Len(longer) > 0
  <2>1. recency \in Seq(Sessions)
    BY DEF TalkTyped
  <2>2. longer \in Seq(Sessions) /\ Entries(longer) = Entries(recency) \cup {s}
    BY <2>1, AppendFacts
  <2>3. Len(recency) \in Nat /\ Len(longer) = Len(recency) + 1 /\ longer[Len(recency) + 1] = s
    BY <2>1, AppendProperties, LenProperties
  <2> QED
    BY <2>2, <2>3
<1> HIDE DEF longer
<1>3. kept \in Seq(Sessions) /\ Entries(kept) \subseteq Entries(longer) /\ s \in Entries(kept)
  BY <1>2, NewestFacts, TalkBounds
<1> HIDE DEF kept
<1>4. Talk!Range(kept) = Entries(kept)
  BY <1>3 DEF Talk!Range, Entries
<1>5. row \in Talk!Row /\ row # NoRow /\ row.rev = 0 /\ row.turns = <<>>
  BY TalkShapes
<1> HIDE DEF row
<1>6. rows' \in Tables
  BY <1>1, <1>5 DEF TalkTyped, Tables
<1>7. \A r \in Entries(kept) : r = s \/ rows[r] # NoRow
  BY <1>2, <1>3 DEF TalkTyped
<1>8. /\ rows'[s] = row
      /\ \A r \in Sessions : r # s => rows'[r] = IF r \in Entries(kept) THEN rows[r] ELSE NoRow
  BY <1>1, <1>4
<1>9. Entries(kept) \subseteq Sessions
  BY <1>3 DEF Entries
<1>10. Entries(kept) = {r \in Sessions : rows'[r] # NoRow}
  BY <1>3, <1>5, <1>7, <1>8, <1>9
<1> QED
  BY <1>1, <1>3, <1>5, <1>6, <1>8, <1>10

(* A process that adopts what it has read.                                 *)
LEMMA OpenKeeps ==
    ASSUME TalkInv, NEW p \in Processes, Talk!Open(p)
    PROVE  TalkInv'
<1>0. TalkTyped /\ Table /\ Owns(p)
  BY DEF TalkInv
<1>1. PICK s \in Sessions : Talk!OpenOld(p, s) \/ Talk!OpenNew(p, s)
  BY DEF Talk!Open
<1>2. PICK k \in {"cli", "tui"} : program' = [program EXCEPT ![p] = k]
  BY DEF Talk!Open
<1>3. /\ phase[p] = "off" /\ phase' = [phase EXCEPT ![p] = "idle"]
      /\ UNCHANGED <<turns, captured, committed, awaits, warned, left, follow, fetched, threads>>
  BY DEF Talk!Open
<1>4. PICK h \in Hist, rev \in Nat, book \in Books :
        /\ Talk!Adopt(p, s, h, rev)
        /\ known' = [known EXCEPT ![p] = book]
        /\ book[s] = rev /\ \A r \in Sessions : r # s => book[r] = Unread
        /\ Apart(s, h, turns) /\ minted \subseteq minted' /\ s \in minted' /\ minted' \subseteq Sessions
        /\ rows' \in Tables /\ rows'[s] # NoRow /\ rows'[s].rev = rev /\ Apart(s, rows'[s].turns, turns)
        /\ rows'[s] = rows[s] \/ s \notin minted
        /\ \A r \in Sessions : r # s => rows'[r] = rows[r] \/ rows'[r] = NoRow
        /\ recency' \in Seq(Sessions) /\ Entries(recency)' = {r \in Sessions : rows'[r] # NoRow}
  <2>1. CASE Talk!OpenOld(p, s)
    <3> DEFINE book == Talk!Remembered(Talk!Forgotten, s)
    <3>1. /\ rows[s] # NoRow /\ known' = [known EXCEPT ![p] = book]
          /\ Talk!Adopt(p, s, rows[s].turns, rows[s].rev)
          /\ UNCHANGED <<rows, recency, minted>>
      BY <2>1 DEF Talk!OpenOld
    <3>2. rows[s].rev \in Nat /\ rows[s].turns \in Hist /\ s \in minted /\ Apart(s, rows[s].turns, turns)
      BY <1>0, <3>1, TalkShapes DEF TalkTyped, Table
    <3>3. book = [Talk!Forgotten EXCEPT ![s] = rows[s].rev]
      BY TalkShapes DEF Talk!Remembered
    <3>4. book \in Books /\ book[s] = rows[s].rev /\ \A r \in Sessions : r # s => book[r] = Unread
      BY <3>2, <3>3, TalkShapes DEF Books
    <3> HIDE DEF book
    <3>5. /\ recency \in Seq(Sessions) /\ Entries(recency)' = {r \in Sessions : rows'[r] # NoRow}
          /\ rows \in Tables /\ minted \subseteq Sessions
      BY <1>0, <3>1 DEF TalkTyped
    <3> QED
      BY <3>1, <3>2, <3>4, <3>5
  <2>2. CASE Talk!OpenNew(p, s)
    <3> DEFINE book == [Talk!Forgotten EXCEPT ![s] = 0]
    <3>1. Talk!Create(s) /\ known' = [known EXCEPT ![p] = book] /\ Talk!Adopt(p, s, <<>>, 0)
      BY <2>2 DEF Talk!OpenNew
    <3>2. book \in Books /\ book[s] = 0 /\ \A r \in Sessions : r # s => book[r] = Unread
      BY TalkShapes DEF Books
    <3> HIDE DEF book
    <3>3. /\ s \notin minted /\ minted' = minted \cup {s} /\ recency' \in Seq(Sessions)
          /\ rows' \in Tables /\ rows'[s] # NoRow /\ rows'[s].rev = 0 /\ rows'[s].turns = <<>>
          /\ \A r \in Sessions : r # s => rows'[r] = rows[r] \/ rows'[r] = NoRow
          /\ Entries(recency)' = {r \in Sessions : rows'[r] # NoRow}
      BY <1>0, <3>1, Created
    <3>4. minted' \subseteq Sessions
      BY <1>0, <3>3 DEF TalkTyped
    <3>5. <<>> \in Hist /\ 0 \in Nat /\ Apart(s, <<>>, turns)
      BY TalkShapes, ApartEmpty
    <3> QED
      BY <3>1, <3>2, <3>3, <3>4, <3>5
  <2> QED
    BY <1>1, <2>1, <2>2
<1>5. /\ active[p] = NoRow /\ Of(p) = {} /\ ~left[p] /\ follow[p] = "stay"
  BY <1>0, <1>3 DEF Owns, Phases
<1>6. /\ active' = [active EXCEPT ![p] = s] /\ messages' = [messages EXCEPT ![p] = h]
      /\ seen' = [seen EXCEPT ![p] = rev] /\ looked' = [looked EXCEPT ![p] = FALSE]
  BY <1>4, <1>5, TalkBounds DEF Talk!Adopt
<1>7. TalkTyped'
  BY <1>0, <1>2, <1>3, <1>4, <1>6 DEF TalkTyped, Steps
<1>8. \A q : Of(q)' = Of(q)
  BY <1>3 DEF Of
<1>9. \A q \in Processes \ {p} : Untouched(q)
  BY <1>0, <1>3, <1>4, <1>6, <1>8 DEF TalkTyped, Untouched
<1>10. Grown
  BY <1>0, <1>3, <1>4, TalkBounds DEF TalkTyped, Grown
<1>11. Table'
  BY <1>0, <1>3, <1>4 DEF Table
<1>12. /\ known'[p] = book /\ active'[p] = s /\ messages'[p] = h /\ phase'[p] = "idle" /\ seen'[p] = rev
       /\ looked'[p] = FALSE
  BY <1>0, <1>3, <1>4, <1>6 DEF TalkTyped
<1>13. InOrder(p)'
  BY <1>3, <1>4, <1>5, <1>8, <1>12 DEF InOrder
<1>14. Phases(p)' /\ Pending(p)' /\ Kept(p)'
  BY <1>0, <1>3, <1>5, <1>8, <1>12 DEF Owns, Phases, Pending, Kept
<1>15. Revisions(p)'
  BY <1>3, <1>4, <1>5, <1>12 DEF Revisions
<1>16. Owns(p)'
  BY <1>13, <1>14, <1>15 DEF Owns
<1> QED
  BY <1>7, <1>9, <1>10, <1>11, <1>16, ActorKept

(* A process that goes on after its save has nothing left in a thread,     *)
(* unless it is about to end.                                              *)
LEMMA GoesOnKeeps ==
    ASSUME TalkInv, NEW p \in Processes, Talk!GoesOn(p)
    PROVE  TalkInv'
<1>0. TalkTyped /\ Table /\ Owns(p)
  BY DEF TalkInv
<1>1. /\ phase[p] = "answered" /\ phase' = [phase EXCEPT ![p] = "idle"]
      /\ follow' = [follow EXCEPT ![p] = "stay"] /\ fetched' = [fetched EXCEPT ![p] = NoRow]
      /\ UNCHANGED <<turns, captured, committed, program, awaits, warned, left, threads>>
  BY DEF Talk!GoesOn
<1>2. follow[p] \in {"stay", "look", "new", "apply"}
  BY DEF Talk!GoesOn, Talk!Stays, Talk!Looks, Talk!StartsNew, Talk!Applies
<1>3. /\ Of(p) = {} /\ ~left[p] /\ active[p] \in minted /\ active[p] \in Sessions
      /\ messages[p] \in Hist /\ Apart(active[p], messages[p], turns)
  BY <1>0, <1>1, <1>2 DEF Owns, Phases, InOrder, TalkTyped
<1>4. /\ phase'[p] = "idle" /\ follow'[p] = "stay" /\ ~left'[p] /\ Of(p)' = {}
      /\ \A q : Of(q)' = Of(q)
  BY <1>0, <1>1, <1>3 DEF TalkTyped, Of
<1>5. /\ phase' \in [Processes -> Steps] /\ follow' \in [Processes -> Talk!Follow]
      /\ fetched' \in [Processes -> {NoRow} \cup Loads]
  BY <1>0, <1>1 DEF TalkTyped, Steps, Talk!Follow
<1>6. Phases(p)' /\ Kept(p)'
  BY <1>4 DEF Phases, Kept
<1>7. Pending(p)'
  BY <1>0, <1>1, <1>4 DEF Owns, Pending
<1>8. known[p] \in Books /\ seen[p] \in Nat
  BY <1>0 DEF TalkTyped
<1>9. CASE Talk!Stays(p)
  <2>1. UNCHANGED <<rows, recency, minted, known, active, messages, seen, looked>>
    BY <1>9 DEF Talk!Stays
  <2>2. TalkTyped'
    BY <1>0, <1>1, <1>5, <2>1 DEF TalkTyped
  <2>3. \A q \in Processes \ {p} : Untouched(q)
    BY <1>0, <1>1, <1>4, <2>1 DEF TalkTyped, Untouched
  <2>4. Grown /\ Table'
    BY <1>0, <1>1, <2>1, TalkBounds DEF TalkTyped, Grown, Table
  <2>5. InOrder(p)' /\ Revisions(p)'
    BY <1>0, <1>1, <1>3, <1>4, <2>1 DEF Owns, InOrder, Revisions
  <2> QED
    BY <1>6, <1>7, <2>2, <2>3, <2>4, <2>5, ActorKept DEF Owns
<1>10. CASE Talk!Looks(p)
  <2>1. UNCHANGED <<rows, recency, minted, active, messages, seen>>
    BY <1>10 DEF Talk!Looks
  <2>2. PICK book \in Books : /\ known' = [known EXCEPT ![p] = book]
                              /\ \A s \in Sessions : s # active[p] => book[s] = known[p][s]
                              /\ \/ book[active[p]] = known[p][active[p]] /\ looked' = looked
                                 \/ /\ looked' = [looked EXCEPT ![p] = TRUE]
                                    /\ rows[active[p]] # NoRow
                                    /\ book[active[p]] = rows[active[p]].rev
    <3>1. CASE UNCHANGED <<known, looked>>
      <4>1. known' = [known EXCEPT ![p] = known[p]] /\ looked' = looked
        BY <1>0, <3>1 DEF TalkTyped
      <4> QED
        BY <1>8, <4>1
    <3>2. CASE ~UNCHANGED <<known, looked>>
      <4> DEFINE book == Talk!Remembered(known[p], active[p])
      <4>1. /\ rows[active[p]] # NoRow /\ known' = [known EXCEPT ![p] = book]
            /\ looked' = [looked EXCEPT ![p] = TRUE]
        BY <1>10, <3>2 DEF Talk!Looks
      <4>2. rows[active[p]].rev \in Nat /\ known[p][active[p]] \in Nat
            /\ known[p][active[p]] =< rows[active[p]].rev
        BY <1>0, <1>1, <1>3, <4>1, TalkBounds, TalkShapes DEF Owns, Revisions, TalkTyped
      <4>3. /\ book \in Books /\ book[active[p]] = rows[active[p]].rev
            /\ \A s \in Sessions : s # active[p] => book[s] = known[p][s]
        <5>1. [known[p] EXCEPT ![active[p]] = rows[active[p]].rev] \in Books
          BY <1>3, <1>8, <4>2, TalkShapes
        <5> QED
          BY <1>3, <1>8, <4>2, <5>1 DEF Talk!Remembered, Books
      <4> HIDE DEF book
      <4> QED
        BY <4>1, <4>3
    <3> QED
      BY <3>1, <3>2
  <2>3. /\ looked' \in [Processes -> BOOLEAN] /\ known'[p] = book
        /\ \A q \in Processes \ {p} : looked'[q] = looked[q]
    BY <1>0, <2>2 DEF TalkTyped
  <2>4. TalkTyped'
    BY <1>0, <1>1, <1>5, <2>1, <2>2, <2>3 DEF TalkTyped
  <2>5. \A q \in Processes \ {p} : Untouched(q)
    BY <1>0, <1>1, <1>4, <2>1, <2>2, <2>3 DEF TalkTyped, Untouched
  <2>6. Grown /\ Table'
    BY <1>0, <1>1, <2>1, TalkBounds DEF TalkTyped, Grown, Table
  <2>7. InOrder(p)'
    BY <1>0, <1>1, <1>3, <1>4, <2>1, <2>2, <2>3 DEF Owns, InOrder
  <2>8. Revisions(p)'
    <3>1. /\ known[p][active[p]] \in Nat /\ (looked[p] \/ known[p][active[p]] = seen[p])
          /\ rows[active[p]] # NoRow => rows[active[p]].rev \in Nat
      BY <1>0, <1>1, <1>3, TalkShapes DEF Owns, Revisions, TalkTyped
    <3>2. book[active[p]] \in Nat /\ (looked'[p] \/ book[active[p]] = seen[p])
      BY <1>0, <2>2, <3>1 DEF TalkTyped
    <3>3. \A s \in Sessions : rows[s] # NoRow /\ book[s] # Unread => book[s] =< rows[s].rev
      BY <1>0, <1>3, <2>2, <3>1 DEF Owns, Revisions
    <3> QED
      BY <1>0, <1>4, <2>1, <2>3, <3>2, <3>3 DEF Owns, Revisions
  <2> QED
    BY <1>6, <1>7, <2>4, <2>5, <2>6, <2>7, <2>8, ActorKept DEF Owns
<1>11. CASE Talk!StartsNew(p)
  <2>1. PICK s \in Sessions : /\ Talk!Create(s) /\ known' = [known EXCEPT ![p][s] = 0]
                              /\ Talk!Adopt(p, s, <<>>, 0)
    BY <1>11 DEF Talk!StartsNew
  <2>2. /\ s \notin minted /\ minted' = minted \cup {s} /\ recency' \in Seq(Sessions)
        /\ rows' \in Tables /\ rows'[s] # NoRow /\ rows'[s].rev = 0 /\ rows'[s].turns = <<>>
        /\ \A r \in Sessions : r # s => rows'[r] = rows[r] \/ rows'[r] = NoRow
        /\ Entries(recency)' = {r \in Sessions : rows'[r] # NoRow}
    BY <1>0, <2>1, Created
  <2>3. s # active[p]
    BY <1>3, <2>2
  <2>4. /\ active' = [active EXCEPT ![p] = s] /\ messages' = [messages EXCEPT ![p] = <<>>]
        /\ seen' = [seen EXCEPT ![p] = 0] /\ looked' = [looked EXCEPT ![p] = FALSE]
    BY <2>1, <2>3 DEF Talk!Adopt
  <2>5. PICK book \in Books : /\ known' = [known EXCEPT ![p] = book] /\ book[s] = 0
                              /\ \A r \in Sessions : r # s => book[r] = known[p][r]
    <3>1. [known[p] EXCEPT ![s] = 0] \in Books
      BY <1>8, TalkShapes
    <3> QED
      BY <1>8, <2>1, <3>1 DEF Books
  <2>6. /\ known'[p] = book /\ active'[p] = s /\ messages'[p] = <<>> /\ seen'[p] = 0
        /\ looked'[p] = FALSE
    BY <1>0, <2>4, <2>5 DEF TalkTyped
  <2>7. TalkTyped'
    BY <1>0, <1>1, <1>5, <2>2, <2>4, <2>5, TalkShapes DEF TalkTyped
  <2>8. \A q \in Processes \ {p} : Untouched(q)
    BY <1>0, <1>1, <1>4, <2>4, <2>5 DEF TalkTyped, Untouched
  <2>9. Grown
    BY <1>0, <1>1, <2>2, TalkBounds DEF TalkTyped, Grown
  <2>12. Table'
    <3>1. Apart(s, rows'[s].turns, turns')
      BY <2>2, ApartEmpty
    <3> QED
      BY <1>0, <1>1, <2>2, <3>1 DEF Table
  <2>10. InOrder(p)'
    BY <1>0, <1>4, <2>2, <2>5, <2>6, ApartEmpty DEF Owns, InOrder
  <2>11. Revisions(p)'
    BY <1>0, <1>4, <2>2, <2>5, <2>6 DEF Owns, Revisions
  <2> QED
    BY <1>6, <1>7, <2>7, <2>8, <2>9, <2>10, <2>11, <2>12, ActorKept DEF Owns
<1>12. CASE Talk!Applies(p)
  <2> DEFINE load == fetched[p]
             rev == IF load.session = active[p] /\ seen[p] > load.rev THEN seen[p] ELSE load.rev
  <2>1. follow[p] = "apply" /\ Talk!Adopt(p, load.session, load.turns, load.rev)
        /\ UNCHANGED <<rows, recency, minted, known>>
    BY <1>12 DEF Talk!Applies
  <2>2. /\ load \in Loads /\ load.session \in minted /\ Apart(load.session, load.turns, turns)
        /\ load.session \in Sessions /\ load.turns \in Hist /\ load.rev \in Nat
    BY <1>0, <2>1, TalkShapes DEF Owns, InOrder
  <2>3. /\ active' = [active EXCEPT ![p] = load.session] /\ messages' = [messages EXCEPT ![p] = load.turns]
        /\ seen' = [seen EXCEPT ![p] = rev] /\ looked' = [looked EXCEPT ![p] = FALSE]
    BY <2>1 DEF Talk!Adopt
  <2>4. /\ rev \in Nat /\ known[p][load.session] = rev
        /\ rows[load.session] # NoRow => rev =< rows[load.session].rev
    BY <1>0, <1>8, <2>1, <2>2 DEF Owns, Revisions
  <2> HIDE DEF rev, load
  <2>5. /\ active'[p] = load.session /\ messages'[p] = load.turns /\ seen'[p] = rev
    BY <1>0, <2>3 DEF TalkTyped
  <2>6. TalkTyped'
    BY <1>0, <1>1, <1>5, <2>1, <2>2, <2>3, <2>4 DEF TalkTyped
  <2>7. \A q \in Processes \ {p} : Untouched(q)
    BY <1>0, <1>1, <1>4, <2>1, <2>3 DEF TalkTyped, Untouched
  <2>8. Grown /\ Table'
    BY <1>0, <1>1, <2>1, TalkBounds DEF TalkTyped, Grown, Table
  <2>9. InOrder(p)'
    BY <1>0, <1>1, <1>4, <2>1, <2>2, <2>5 DEF Owns, InOrder
  <2>10. Revisions(p)'
    BY <1>0, <1>4, <2>1, <2>2, <2>4, <2>5 DEF Owns, Revisions
  <2> QED
    BY <1>6, <1>7, <2>6, <2>7, <2>8, <2>9, <2>10, ActorKept DEF Owns
<1> QED
  BY <1>9, <1>10, <1>11, <1>12 DEF Talk!GoesOn

(* What an answer changes for the process it is for.                       *)
LEMMA AnsweredFor ==
    ASSUME TalkInv, NEW t \in threads, NEW saved \in BOOLEAN, Talk!Answered(t, saved)
    PROVE  /\ t \in Talk!Job /\ t.proc \in Processes /\ t \in Of(t.proc) /\ t.seq \in Nat /\ t.turns \in Hist
           /\ t.session = active[t.proc] /\ active[t.proc] \in Sessions /\ active[t.proc] \in minted
           /\ phase[t.proc] # "off"
           /\ threads' \subseteq Talk!Job /\ Of(t.proc)' = Of(t.proc) \ {t}
           /\ \A q \in Processes \ {t.proc} : /\ Of(q)' = Of(q) /\ phase'[q] = phase[q]
                                             /\ warned'[q] = warned[q]
           /\ phase' \in [Processes -> Steps] /\ warned' \in [Processes -> BOOLEAN]
           /\ warned'[t.proc] <=> warned[t.proc] \/ ~saved
           /\ UNCHANGED <<minted, turns, captured, program, active, messages, awaits, left, follow,
                          fetched, looked>>
           /\ Phases(t.proc)'
           /\ phase'[t.proc] \in {"saving", "answered"} => phase[t.proc] \in {"saving", "answered"}
           /\ (phase[t.proc] = "off") = (phase'[t.proc] = "off")
<1> DEFINE p == t.proc
<1>0. TalkTyped
  BY DEF TalkInv
<1>1. t \in Talk!Job /\ t.proc \in Processes /\ t \in Of(t.proc) /\ t.seq \in Nat /\ t.turns \in Hist
  BY <1>0, TalkShapes DEF TalkTyped, Of
<1>2. Owns(p)
  BY <1>1 DEF TalkInv
<1>3. /\ threads' = threads \ {t}
      /\ phase' = IF phase[p] = "saving" /\ t.seq = awaits[p]
                  THEN [phase EXCEPT ![p] = "answered"] ELSE phase
      /\ warned' = [warned EXCEPT ![p] = warned[p] \/ ~saved]
      /\ UNCHANGED <<minted, turns, captured, program, active, messages, awaits, left, follow,
                     fetched, looked>>
  BY DEF Talk!Answered
<1>4. phase[p] # "off" /\ t.session = active[p]
  BY <1>1, <1>2 DEF Owns, Phases, Pending
<1>5. active[p] \in minted /\ active[p] \in Sessions
  BY <1>0, <1>2, <1>4 DEF Owns, InOrder, TalkTyped
<1>6. /\ threads' \subseteq Talk!Job /\ Of(p)' = Of(p) \ {t}
      /\ \A q \in Processes \ {p} : Of(q)' = Of(q)
  BY <1>0, <1>1, <1>3 DEF TalkTyped, Of
<1>7. /\ phase' \in [Processes -> Steps] /\ warned' \in [Processes -> BOOLEAN]
      /\ \A q \in Processes \ {p} : phase'[q] = phase[q] /\ warned'[q] = warned[q]
      /\ phase'[p] = (IF phase[p] = "saving" /\ t.seq = awaits[p] THEN "answered" ELSE phase[p])
      /\ warned'[p] <=> warned[p] \/ ~saved
  BY <1>0, <1>1, <1>3 DEF TalkTyped, Steps
<1>8. Phases(p)'
  <2>1. ASSUME follow'[p] # "exit", phase'[p] # "saving" PROVE Of(p)' = {}
    <3>1. CASE phase[p] # "saving"
      BY <1>2, <1>3, <1>6, <2>1, <3>1 DEF Owns, Phases
    <3>2. CASE phase[p] = "saving"
      <4>1. t.seq = awaits[p] /\ \A u \in Of(p) : u.seq = awaits[p]
        BY <1>1, <1>2, <1>3, <2>1, <3>2 DEF Owns, Pending
      <4>2. \A u \in Of(p) : u = t
        BY <1>1, <1>2, <4>1 DEF Owns, Pending
      <4> QED
        BY <1>6, <4>2
    <3> QED
      BY <3>1, <3>2
  <2> QED
    BY <1>2, <1>3, <1>4, <1>7, <2>1 DEF Owns, Phases
<1> QED
  BY <1>1, <1>3, <1>4, <1>5, <1>6, <1>7, <1>8

(* An answer that leaves the store as it is.                               *)
LEMMA UnsavedKeeps ==
    ASSUME TalkInv, NEW t \in threads, Talk!SaveSkipped(t) \/ Talk!SaveFails(t)
    PROVE  TalkInv'
<1> DEFINE p == t.proc
<1>0. TalkTyped /\ Table
  BY DEF TalkInv
<1>1. PICK saved \in BOOLEAN : /\ Talk!Answered(t, saved)
                               /\ saved => Talk!Superseded(t)
                               /\ UNCHANGED <<rows, recency, known, committed, seen>>
  BY DEF Talk!SaveSkipped, Talk!SaveFails
<1>2. /\ t \in Talk!Job /\ p \in Processes /\ t \in Of(p) /\ t.seq \in Nat /\ t.turns \in Hist
      /\ t.session = active[p] /\ active[p] \in Sessions /\ active[p] \in minted
      /\ phase[p] # "off" /\ threads' \subseteq Talk!Job /\ Of(p)' = Of(p) \ {t}
      /\ \A q \in Processes \ {p} : /\ Of(q)' = Of(q) /\ phase'[q] = phase[q]
                                    /\ warned'[q] = warned[q]
      /\ phase' \in [Processes -> Steps] /\ warned' \in [Processes -> BOOLEAN]
      /\ warned'[p] <=> warned[p] \/ ~saved
      /\ UNCHANGED <<minted, turns, captured, program, active, messages, awaits, left, follow,
                     fetched, looked>>
      /\ Phases(p)'
      /\ phase'[p] \in {"saving", "answered"} => phase[p] \in {"saving", "answered"}
      /\ (phase[p] = "off") = (phase'[p] = "off")
  BY <1>1, AnsweredFor
<1>3. Owns(p)
  BY <1>2 DEF TalkInv
<1> HIDE DEF p
<1>4. TalkTyped'
  BY <1>0, <1>1, <1>2 DEF TalkTyped
<1>5. \A q \in Processes \ {p} : Untouched(q)
  BY <1>1, <1>2 DEF Untouched
<1>6. Grown /\ Table'
  BY <1>0, <1>1, <1>2, TalkBounds DEF TalkTyped, Grown, Table
<1>7. InOrder(p)' /\ Revisions(p)' /\ Pending(p)'
  BY <1>1, <1>2, <1>3 DEF Owns, InOrder, Revisions, Pending
<1>8. Kept(p)'
  <2>1. ASSUME phase[p] \in {"saving", "answered"}, OnItsWay(p), saved PROVE OnItsWay(p)'
    <3>1. PICK u \in Of(p) : u.seq = captured[p] /\ u.turns = messages[p]
      BY <2>1 DEF OnItsWay
    <3>2. t.seq =< committed[p][active[p]]
      BY <1>1, <1>2, <2>1 DEF Talk!Superseded, p
    <3>3. /\ committed[p][active[p]] =< captured[p] /\ committed[p][active[p]] # t.seq
          /\ committed[p][active[p]] # u.seq /\ t.seq =< captured[p]
          /\ u.session = active[p]
      BY <1>2, <1>3, <3>1 DEF Owns, Pending
    <3>4. captured[p] \in Nat /\ committed[p][active[p]] \in Int
      BY <1>0, <1>2, TalkBounds, TalkShapes DEF TalkTyped
    <3>5. u # t
      BY <1>2, <3>1, <3>2, <3>3, <3>4
    <3> QED
      BY <1>2, <3>1, <3>5 DEF OnItsWay
  <2>2. Stored(p) => Stored(p)'
    BY <1>1, <1>2 DEF Stored
  <2> QED
    BY <1>2, <1>3, <2>1, <2>2 DEF Owns, Kept
<1>9. Owns(p)'
  BY <1>2, <1>7, <1>8 DEF Owns
<1> QED
  BY <1>2, <1>4, <1>5, <1>6, <1>9, ActorKept

(* The revision that a save asks for is the one its process has seen.      *)
LEMMA SaveCommitsKeeps ==
    ASSUME TalkInv, NEW t \in threads, Talk!SaveCommits(t)
    PROVE  /\ TalkInv'
           /\ looked[t.proc] \/ rows[t.session].rev = seen[t.proc]
<1> DEFINE p == t.proc
           s == t.session
           row == [rev |-> rows[s].rev + 1, turns |-> Talk!Bounded(t.turns)]
<1>0. TalkTyped /\ Table
  BY DEF TalkInv
<1>1. /\ Talk!Answered(t, TRUE) /\ ~Talk!Superseded(t) /\ Talk!Writable(t)
      /\ rows' = [rows EXCEPT ![s] = row]
      /\ recency' = Append(Talk!Without(recency, {s}), s)
      /\ known' = [known EXCEPT ![p][s] = Talk!Expected(t) + 1]
      /\ committed' = [committed EXCEPT ![p][s] = t.seq]
      /\ seen' = [seen EXCEPT ![p] = rows[s].rev + 1]
  BY DEF Talk!SaveCommits
<1>2. /\ t \in Talk!Job /\ p \in Processes /\ t \in Of(p) /\ t.seq \in Nat /\ t.turns \in Hist
      /\ s = active[p] /\ active[p] \in Sessions /\ active[p] \in minted
      /\ phase[p] # "off" /\ threads' \subseteq Talk!Job /\ Of(p)' = Of(p) \ {t}
      /\ \A q \in Processes \ {p} : /\ Of(q)' = Of(q) /\ phase'[q] = phase[q]
                                    /\ warned'[q] = warned[q]
      /\ phase' \in [Processes -> Steps] /\ warned' \in [Processes -> BOOLEAN]
      /\ warned'[p] <=> warned[p]
      /\ UNCHANGED <<minted, turns, captured, program, active, messages, awaits, left, follow,
                     fetched, looked>>
      /\ Phases(p)'
      /\ phase'[p] \in {"saving", "answered"} => phase[p] \in {"saving", "answered"}
      /\ (phase[p] = "off") = (phase'[p] = "off")
  BY <1>1, AnsweredFor
<1>3. Owns(p)
  BY <1>2 DEF TalkInv
<1> HIDE DEF p, s
<1>4. /\ known[p][s] \in Nat /\ known[p][s] # Unread /\ rows[s] # NoRow /\ rows[s].rev \in Nat
      /\ known[p] \in Books /\ committed[p] \in Marks /\ seen[p] \in Nat /\ captured[p] \in Nat
      /\ fetched[p] \in {NoRow} \cup Loads
  <2>1. /\ rows \in Tables /\ known[p] \in Books /\ committed[p] \in Marks /\ seen[p] \in Nat
        /\ captured[p] \in Nat /\ fetched[p] \in {NoRow} \cup Loads
    BY <1>0, <1>2, TalkBounds DEF TalkTyped
  <2>2. rows[s] # NoRow
    BY <1>1 DEF Talk!Writable, s
  <2>3. known[p][s] \in Nat
    BY <1>2, <1>3 DEF Owns, Revisions
  <2>4. rows[s].rev \in Nat
    BY <1>2, <2>1, <2>2, TalkShapes
  <2> QED
    BY <2>1, <2>2, <2>3, <2>4, TalkBounds
<1>5. Talk!Expected(t) = known[p][s] /\ rows[s].rev = known[p][s]
  BY <1>1, <1>4 DEF Talk!Expected, Talk!Writable, p, s
<1>6. looked[p] \/ rows[s].rev = seen[p]
  BY <1>2, <1>3, <1>5 DEF Owns, Revisions
<1>7. committed[p][s] < t.seq /\ t.seq =< captured[p]
  <2>1. ~(t.seq =< committed[p][s])
    BY <1>1 DEF Talk!Superseded, p, s
  <2>2. committed[p][s] \in Int
    BY <1>2, <1>4, TalkShapes
  <2>3. t.seq =< captured[p]
    BY <1>2, <1>3 DEF Owns, Pending
  <2> QED
    BY <1>2, <2>1, <2>2, <2>3
<1>8. /\ Apart(s, t.turns, turns) /\ turns \in Nat /\ Talk!Bounded(t.turns) \in Hist
      /\ Apart(s, Talk!Bounded(t.turns), turns)
  <2>1. Apart(s, t.turns, turns)
    BY <1>2, <1>3 DEF Owns, InOrder, s, p
  <2>2. turns \in Nat
    BY <1>0, TalkBounds DEF TalkTyped
  <2> QED
    BY <1>2, <2>1, <2>2, ApartNewest
<1>9. row \in Talk!Row /\ row # NoRow /\ row.rev = rows[s].rev + 1 /\ row.turns = Talk!Bounded(t.turns)
  <2>1. rows[s].rev + 1 \in Nat
    BY <1>4
  <2>2. ASSUME NEW v \in Nat, NEW h \in Hist
        PROVE  LET r == [rev |-> v, turns |-> h] IN r \in Talk!Row /\ r # NoRow /\ r.rev = v /\ r.turns = h
    BY TalkShapes
  <2> QED
    BY <1>8, <2>1, <2>2
<1> HIDE DEF row
<1>10. PICK book \in Books : /\ known' = [known EXCEPT ![p] = book] /\ book[s] = rows[s].rev + 1
                             /\ \A r \in Sessions : r # s => book[r] = known[p][r]
  <2>1. rows[s].rev + 1 \in Nat /\ s \in Sessions
    BY <1>2, <1>4
  <2>2. [known[p] EXCEPT ![s] = rows[s].rev + 1] \in Books
    BY <1>4, <2>1, TalkShapes
  <2>3. known' = [known EXCEPT ![p] = [known[p] EXCEPT ![s] = rows[s].rev + 1]]
    BY <1>1, <1>5
  <2> QED
    BY <1>4, <2>1, <2>2, <2>3 DEF Books
<1>11. PICK done \in Marks : /\ committed' = [committed EXCEPT ![p] = done] /\ done[s] = t.seq
                             /\ \A r \in Sessions : r # s => done[r] = committed[p][r]
  <2>1. [committed[p] EXCEPT ![s] = t.seq] \in Marks
    BY <1>2, <1>4, TalkShapes
  <2> QED
    BY <1>0, <1>1, <1>2, <1>4, <2>1 DEF TalkTyped, Marks
<1>12. /\ rows' \in Tables /\ rows'[s] = row /\ \A r \in Sessions : r # s => rows'[r] = rows[r]
  BY <1>0, <1>1, <1>2, <1>9 DEF TalkTyped, Tables
<1>13. recency' \in Seq(Sessions) /\ Entries(recency)' = Entries(recency) \cup {s}
  <2>1. /\ Talk!Without(recency, {s}) \in Seq(Sessions)
        /\ Entries(Talk!Without(recency, {s})) = Entries(recency) \ {s}
    BY <1>0, WithoutFacts DEF TalkTyped
  <2>2. /\ recency' \in Seq(Sessions)
        /\ Entries(recency') = Entries(Talk!Without(recency, {s})) \cup {s}
    <3>1. PICK others : others = Talk!Without(recency, {s})
      OBVIOUS
    <3>2. recency' = Append(others, s)
      BY <1>1, <3>1
    <3>3. s \in Sessions /\ others \in Seq(Sessions)
      BY <1>2, <2>1, <3>1
    <3>4. Append(others, s) \in Seq(Sessions) /\ Entries(Append(others, s)) = Entries(others) \cup {s}
      BY <3>3, AppendFacts
    <3> QED
      BY <3>1, <3>2, <3>4
  <2>3. Entries(recency)' = Entries(recency')
    BY DEF Entries
  <2> QED
    BY <2>1, <2>2, <2>3
<1>14. Entries(recency)' = {r \in Sessions : rows'[r] # NoRow}
  <2>1. Entries(recency) = {r \in Sessions : rows[r] # NoRow}
    BY <1>0 DEF TalkTyped
  <2> QED
    BY <1>2, <1>9, <1>12, <1>13, <2>1
<1>15. TalkTyped'
  <2>1. /\ known' \in [Processes -> Books] /\ committed' \in [Processes -> Marks]
        /\ seen' \in [Processes -> Nat]
    <3>1. rows[s].rev + 1 \in Nat
      BY <1>4
    <3>2. /\ known \in [Processes -> Books] /\ committed \in [Processes -> Marks]
          /\ seen \in [Processes -> Nat]
      BY <1>0 DEF TalkTyped
    <3>3. known' \in [Processes -> Books] /\ committed' \in [Processes -> Marks]
      BY <1>10, <1>11, <3>2
    <3>4. seen' \in [Processes -> Nat]
      BY <1>1, <3>1, <3>2
    <3> QED
      BY <3>3, <3>4
  <2> QED
    BY <1>0, <1>2, <1>12, <1>13, <1>14, <2>1 DEF TalkTyped
<1>16. \A q \in Processes \ {p} : Untouched(q)
  BY <1>0, <1>1, <1>2, <1>10, <1>11 DEF TalkTyped, Untouched
<1>17. Grown
  BY <1>2, <1>4, <1>8, <1>9, <1>12 DEF Grown
<1>18. Table'
  BY <1>0, <1>2, <1>8, <1>9, <1>12 DEF Table
<1>19. known'[p] = book /\ committed'[p] = done /\ seen'[p] = rows[s].rev + 1
  BY <1>0, <1>1, <1>2, <1>10, <1>11 DEF TalkTyped
<1>20. InOrder(p)'
  BY <1>2, <1>3, <1>10, <1>19 DEF Owns, InOrder
<1>21. Pending(p)'
  <2>1. \A u \in Of(p)' : u \in Of(p) /\ u # t /\ u.session = s /\ u.seq # t.seq
    BY <1>2, <1>3 DEF Owns, Pending
  <2> QED
    BY <1>2, <1>3, <1>7, <1>11, <1>19, <2>1 DEF Owns, Pending
<1>22. Revisions(p)'
  <2>1. ASSUME NEW r \in Sessions, rows'[r] # NoRow
        PROVE  /\ known'[p][r] # Unread => known'[p][r] =< rows'[r].rev
               /\ active'[p] = r => seen'[p] =< rows'[r].rev
    BY <1>2, <1>3, <1>4, <1>9, <1>10, <1>12, <1>19, <2>1 DEF Owns, Revisions
  <2>2. ASSUME follow'[p] = "apply"
        PROVE  /\ rows'[fetched'[p].session] # NoRow => fetched'[p].rev =< rows'[fetched'[p].session].rev
               /\ known'[p][fetched'[p].session] =
                    IF fetched'[p].session = active'[p] /\ seen'[p] > fetched'[p].rev
                    THEN seen'[p] ELSE fetched'[p].rev
    <3>1. /\ fetched[p].session \in Sessions /\ fetched[p].rev \in Nat
          /\ rows[fetched[p].session] # NoRow => fetched[p].rev =< rows[fetched[p].session].rev
      BY <1>2, <1>3, <2>2, TalkShapes DEF Owns, InOrder, Revisions
    <3>2. CASE fetched[p].session = s
      BY <1>2, <1>4, <1>9, <1>10, <1>12, <1>19, <3>1, <3>2
    <3>3. CASE fetched[p].session # s
      BY <1>2, <1>3, <1>10, <1>12, <1>19, <2>2, <3>1, <3>3 DEF Owns, Revisions
    <3> QED
      BY <3>2, <3>3
  <2> QED
    BY <1>2, <1>4, <1>10, <1>19, <2>1, <2>2 DEF Revisions
<1>23. Kept(p)'
  <2>1. ASSUME phase[p] \in {"saving", "answered"}, ~warned[p] PROVE OnItsWay(p)' \/ Stored(p)'
    <3>1. CASE OnItsWay(p)
      <4>1. PICK u \in Of(p) : u.seq = captured[p] /\ u.turns = messages[p]
        BY <3>1 DEF OnItsWay
      <4>2. CASE u # t
        BY <1>2, <4>1, <4>2 DEF OnItsWay
      <4>3. CASE u = t
        BY <1>2, <1>9, <1>11, <1>12, <1>19, <4>1, <4>3 DEF Stored
      <4> QED
        BY <4>2, <4>3
    <3>2. CASE Stored(p)
      BY <1>2, <1>4, <1>7, <3>2 DEF Stored
    <3> QED
      BY <1>3, <2>1, <3>1, <3>2 DEF Owns, Kept
  <2> QED
    BY <1>2, <2>1 DEF Kept
<1>24. Owns(p)'
  BY <1>2, <1>20, <1>21, <1>22, <1>23 DEF Owns
<1>25. TalkInv'
  BY <1>2, <1>15, <1>16, <1>17, <1>18, <1>24, ActorKept
<1> QED
  BY <1>6, <1>25 DEF p, s

(* Every step keeps the invariant.                                         *)
LEMMA TalkStep == ASSUME TalkInv, Talk!Next PROVE TalkInv'
<1>1. CASE \E p \in Processes : Talk!Program(p)
  <2>1. PICK p \in Processes : Talk!Program(p)
    BY <1>1
  <2>2. Talk!Exit(p) \/ Talk!Crash(p) => Talk!Ended(p)
    BY DEF Talk!Exit, Talk!Crash
  <2> QED
    BY <2>1, <2>2, OpenKeeps, TurnStartsKeeps, TurnEndsKeeps, LateTurnEndsKeeps, CommandKeeps,
       ResumeKeeps, DeletesKeep, GoesOnKeeps, QuitKeeps, EndedKeeps DEF Talk!Program
<1>2. CASE \E t \in threads : Talk!SaveSkipped(t) \/ Talk!SaveCommits(t) \/ Talk!SaveFails(t)
  BY <1>2, UnsavedKeeps, SaveCommitsKeeps
<1> QED
  BY <1>1, <1>2 DEF Talk!Next

(* Before the first process opens the database nothing is saved.           *)
LEMMA TalkStart == Talk!Init => TalkInv
<1> SUFFICES ASSUME Talk!Init PROVE TalkInv
  OBVIOUS
<1>1. recency = <<>> /\ threads = {} /\ rows = [s \in Sessions |-> NoRow]
  BY DEF Talk!Init
<1>2. rows \in Tables /\ recency \in Seq(Sessions) /\ Entries(recency) = {} /\ \A s \in Sessions : rows[s] = NoRow
  BY <1>1 DEF Tables, Entries
<1>3. TalkTyped
  <2>1. "stay" \in Talk!Follow /\ 0 \in 0 .. MaxCaptures /\ 0 \in 0 .. MaxTurns /\ 0 \in Nat
    BY TalkBounds DEF Talk!Follow
  <2> QED
    BY <1>1, <1>2, <2>1, TalkShapes DEF Talk!Init, TalkTyped, Steps
<1>4. Table
  BY <1>2 DEF Table
<1>5. ASSUME NEW p \in Processes PROVE Owns(p)
  <2>1. /\ known[p] = Talk!Forgotten /\ captured[p] = 0 /\ committed[p] = Talk!Nothing
        /\ active[p] = NoRow /\ messages[p] = <<>> /\ phase[p] = "off" /\ left[p] = FALSE
        /\ follow[p] = "stay" /\ Of(p) = {}
    BY <1>1 DEF Talk!Init, Of
  <2> QED
    BY <1>2, <2>1, ApartEmpty, TalkShapes DEF Owns, InOrder, Phases, Pending, Revisions, Kept
<1> QED
  BY <1>3, <1>4, <1>5 DEF TalkInv

(* What the runs check follows from the invariant.                         *)
LEMMA TalkHolds == TalkInv => Talk!TypeOK /\ Talk!SavedMeansSaved /\ Talk!RowsKeepApart
<1> SUFFICES ASSUME TalkInv PROVE Talk!TypeOK /\ Talk!SavedMeansSaved /\ Talk!RowsKeepApart
  OBVIOUS
<1>1. Talk!TypeOK
  BY TalkTypes DEF TalkInv
<1>2. Talk!RowsKeepApart
  BY DEF TalkInv, Table, Apart, Talk!RowsKeepApart
<1>3. Talk!SavedMeansSaved
  <2>1. ASSUME NEW p \in Processes, \A t \in threads : t.proc # p PROVE ~OnItsWay(p)
    BY <2>1 DEF OnItsWay, Of
  <2> QED
    BY <2>1 DEF TalkInv, Owns, Kept, Stored, Talk!SavedMeansSaved
<1> QED
  BY <1>1, <1>2, <1>3

(* Only a save rewrites a row, at the revision its process has seen or     *)
(* looked at.                                                              *)
LEMMA StepsLook == ASSUME TalkInv, Talk!Next PROVE Talk!LooksOrReads
<1> SUFFICES ASSUME NEW p \in Processes, NEW s \in Sessions, Talk!Rewrites(p, s)
             PROVE  looked[p] \/ rows[s].rev = seen[p]
  BY DEF Talk!LooksOrReads
<1>0. TalkTyped /\ Table
  BY DEF TalkInv
<1>1. /\ rows[s] # NoRow /\ rows'[s] # NoRow /\ rows'[s].rev # rows[s].rev
      /\ \E t \in threads : t \notin threads' /\ t.proc = p
  BY DEF Talk!Rewrites
<1>2. ASSUME NEW q \in Processes, Talk!Program(q) PROVE FALSE
  <2>1. \A r \in Sessions : rows[r] # NoRow /\ rows'[r] # NoRow => rows'[r] = rows[r]
    <3>1. ASSUME NEW r \in Sessions, Talk!Create(r)
          PROVE  \A u \in Sessions : rows[u] # NoRow /\ rows'[u] # NoRow => rows'[u] = rows[u]
      BY <1>0, <3>1, Created DEF Table
    <3>2. Talk!Open(q) => UNCHANGED rows \/ \E r \in Sessions : Talk!Create(r)
      BY DEF Talk!Open, Talk!OpenOld, Talk!OpenNew
    <3>3. Talk!GoesOn(q) => UNCHANGED rows \/ \E r \in Sessions : Talk!Create(r)
      BY DEF Talk!GoesOn, Talk!Stays, Talk!Looks, Talk!StartsNew, Talk!Applies
    <3>4. \A h : Talk!Capture(q, h) => UNCHANGED rows
      BY DEF Talk!Capture
    <3>5. \A h, next : Talk!Save(q, h, next) => UNCHANGED rows
      BY <3>4 DEF Talk!Save
    <3>6. /\ Talk!TurnEnds(q) \/ Talk!Command(q) \/ Talk!SaveFirst(q) \/ Talk!Quit(q) => UNCHANGED rows
          /\ \A r \in Sessions : Talk!Resume(q, r) => UNCHANGED rows
      BY <3>5 DEF Talk!TurnEnds, Talk!Command, Talk!SaveFirst, Talk!Quit, Talk!Resume
    <3>7. Talk!TurnStarts(q) \/ Talk!LateTurnEnds(q) \/ Talk!Exit(q) \/ Talk!Crash(q) => UNCHANGED rows
      BY <3>4 DEF Talk!TurnStarts, Talk!LateTurnEnds, Talk!Exit, Talk!Crash, Talk!Ended
    <3>8. ASSUME NEW gone, Talk!Removed(q, gone), NEW r \in Sessions, rows'[r] # NoRow
          PROVE  rows'[r] = rows[r]
      BY <3>8 DEF Talk!Removed
    <3>9. Talk!Delete(q) \/ Talk!DeleteEmpty(q) => \E gone : Talk!Removed(q, gone)
      BY DEF Talk!Delete, Talk!DeleteEmpty
    <3> QED
      BY <1>2, <3>1, <3>2, <3>3, <3>6, <3>7, <3>8, <3>9 DEF Talk!Program
  <2> QED
    BY <1>1, <2>1
<1>3. ASSUME NEW t \in threads, Talk!SaveSkipped(t) \/ Talk!SaveFails(t) PROVE FALSE
  BY <1>1, <1>3 DEF Talk!SaveSkipped, Talk!SaveFails
<1>4. ASSUME NEW t \in threads, Talk!SaveCommits(t)
      PROVE  t.proc = p /\ t.session = s /\ (looked[t.proc] \/ rows[t.session].rev = seen[t.proc])
  <2>1. threads' = threads \ {t} /\ \A r \in Sessions : r # t.session => rows'[r] = rows[r]
    BY <1>0, <1>4 DEF Talk!SaveCommits, Talk!Answered, TalkTyped, Tables
  <2> QED
    BY <1>1, <1>4, <2>1, SaveCommitsKeeps
<1> QED
  BY <1>2, <1>3, <1>4 DEF Talk!Next

-----------------------------------------------------------------------------
(* The invariant holds while the conversations run.                        *)
TalkPart == part = "conversations" => TalkInv

(* ... through every step of the instance.                                 *)
LEMMA TalkPartStep ==
    ASSUME TalkPart, [WorkNext]_<<part, talkVars, snapshotsVars, editsVars>>
    PROVE  TalkPart'
<1> SUFFICES ASSUME part' = "conversations" PROVE TalkInv'
  BY DEF TalkPart
<1>1. CASE part = "conversations" /\ Talk!Next
  BY <1>1, TalkStep DEF TalkPart
<1>2. CASE UNCHANGED <<part, talkVars>>
  <2>1. TalkInv
    BY <1>2 DEF TalkPart
  <2>2. /\ UNCHANGED <<rows, recency, minted, turns, known, captured, committed, program, active,
                      messages>>
        /\ UNCHANGED <<phase, awaits, warned, left, follow, fetched, threads, seen, looked>>
    BY <1>2 DEF talkVars
  <2> QED
    BY <2>1, <2>2 DEF TalkInv, TalkTyped, Table, Owns, InOrder, Phases, Pending, Revisions, Kept,
                      OnItsWay, Stored, Of
<1> QED
  BY <1>1, <1>2 DEF WorkNext

(* A save that answers without a warning has stored the conversation as it *)
(* stands, and a row holds turns of its own session only, in their order.  *)
THEOREM HistoriesKeptHolds == WorkSpec => []HistoriesKept
<1>1. WorkInit => TalkPart
  BY TalkStart DEF WorkInit, TalkPart
<1>2. TalkPart /\ [WorkNext]_<<part, talkVars, snapshotsVars, editsVars>> => TalkPart'
  BY TalkPartStep
<1>3. TalkPart => HistoriesKept
  BY TalkHolds DEF HistoriesKept, TalkPart
<1> QED
  BY <1>1, <1>2, <1>3, PTL DEF WorkSpec

(* A process writes only over what it has read, unless one of its commands *)
(* has looked at its own session without adopting it.                      *)
THEOREM OverwritesLookedHolds == WorkSpec => OverwritesLooked
<1>1. WorkInit => TalkPart
  BY TalkStart DEF WorkInit, TalkPart
<1>2. TalkPart /\ [WorkNext]_<<part, talkVars, snapshotsVars, editsVars>> => TalkPart'
  BY TalkPartStep
<1>3. TalkPart /\ [WorkNext]_<<part, talkVars, snapshotsVars, editsVars>>
        => [part = "conversations" => Talk!LooksOrReads]_<<part, talkVars>>
  <2> SUFFICES ASSUME TalkPart, [WorkNext]_<<part, talkVars, snapshotsVars, editsVars>>,
                      part = "conversations", ~UNCHANGED <<part, talkVars>>
               PROVE  Talk!LooksOrReads
    OBVIOUS
  <2>1. Talk!Next
    BY DEF WorkNext
  <2> QED
    BY <2>1, StepsLook DEF TalkPart
<1> QED
  BY <1>1, <1>2, <1>3, PTL DEF WorkSpec, OverwritesLooked
=============================================================================
