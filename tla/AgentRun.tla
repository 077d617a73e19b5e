------------------------------ MODULE AgentRun ------------------------------
(***************************************************************************)
(* The run loop of one agent (kairocli/agent/core.py) over its life:       *)
(* prompts, compaction, streamed model requests with their retries, tool   *)
(* batches, the token budget, and cancellation by the user's event or of   *)
(* the task, at every await.                                               *)
(*                                                                         *)
(* Tokens are counted in messages.  Which tools a batch calls matters only *)
(* to the stagnation check: a batch carries a print.                       *)
(***************************************************************************)
EXTENDS Transcript

CONSTANTS
    MaxIterations,  \* budget.max_iterations
    TokenBudget,    \* budget.token_budget
    Costs,          \* what one response may cost
    Window,         \* budget.stagnation_window
    MaxRetries,     \* max_llm_retries
    Trigger,        \* compression_trigger_tokens
    Retain,         \* retain_recent_rounds
    MaxCalls,       \* bound: calls of one batch
    Prints,         \* fingerprints of batches
    NoPrint,
    Interruptible,  \* the task may be cancelled while its tool results are traced
    MaxRuns,        \* bound: runs
    MaxCompactions  \* bound: manual compactions

ASSUME AgentRunAssumption ==
    /\ MaxIterations \in Nat \ {0} /\ TokenBudget \in Nat \ {0}
    /\ Costs \subseteq Nat /\ Costs # {} /\ IsFiniteSet(Costs)
    /\ Window \in Nat \ {0, 1} /\ MaxRetries \in Nat
    /\ Trigger \in Nat /\ Retain \in Nat \ {0}
    /\ MaxCalls \in Nat /\ NoPrint \notin Prints
    /\ Interruptible \in BOOLEAN /\ MaxRuns \in Nat /\ MaxCompactions \in Nat

VARIABLES
    history,     \* the messages
    at,          \* where the run is
    canceled,    \* cancel_event is set
    generation,  \* _run_generation
    turn,        \* model requests of this run
    spent,       \* _shared_token_budget.used
    attempt,     \* tries of the current request
    emitted,     \* the current request showed something
    same,        \* the print of the last batches and how many in a row have it
    batch,       \* the tool calls in hand
    detached,    \* streams left behind by a cancellation, as <<generation, turn>>
    shown,       \* streams whose deltas reached the screen since the last request
    compactions  \* bound: manual compactions so far

runVars == <<turn, same, batch>>
streamVars == <<attempt, emitted, shown>>
vars == <<history, at, canceled, generation, spent, detached, compactions,
          runVars, streamVars>>

NoBatch == [calls |-> 0, print |-> NoPrint]
Batches == {[calls |-> n, print |-> p] : n \in 1..MaxCalls, p \in Prints}
NoneAlike == [print |-> NoPrint, times |-> 0]

TypeOK ==
    /\ history \in Seq(Messages(MaxCalls))
    /\ at \in {"idle", "preparing", "looping", "compacting", "requesting", "received",
               "tools", "tracing", "compacting by hand"}
    /\ canceled \in BOOLEAN /\ emitted \in BOOLEAN
    /\ generation \in Nat /\ spent \in Nat /\ compactions \in Nat
    /\ turn \in 0..MaxIterations /\ attempt \in 0..MaxRetries
    /\ same \in [print : Prints \cup {NoPrint}, times : Nat]
    /\ batch \in Batches \cup {NoBatch}
    /\ detached \subseteq Nat \X Nat /\ shown \subseteq Nat \X Nat

Init ==
    /\ history = <<>> /\ at = "idle" /\ canceled = FALSE
    /\ generation = 0 /\ turn = 0 /\ spent = 0 /\ attempt = 0
    /\ emitted = FALSE /\ same = NoneAlike /\ batch = NoBatch
    /\ detached = {} /\ shown = {} /\ compactions = 0
-----------------------------------------------------------------------------
Running == at # "idle"

(* run() returns or raises: of its variables only the history is left.     *)
End(h) ==
    /\ history' = h
    /\ at' = "idle"
    /\ turn' = 0 /\ same' = NoneAlike /\ batch' = NoBatch
    /\ attempt' = 0 /\ emitted' = FALSE /\ shown' = {}
    /\ UNCHANGED <<canceled, generation, compactions>>

(* The provider's stream may go on although its task was cancelled.        *)
Detach == detached' \in {detached, detached \cup {<<generation, turn>>}}

BudgetLeft == spent < TokenBudget
Exhausted == turn = MaxIterations
-----------------------------------------------------------------------------
(* run() is admitted.                                                      *)
Run ==
    /\ ~Running /\ generation < MaxRuns
    /\ at' = "preparing"
    /\ generation' = generation + 1
    /\ canceled' = FALSE
    /\ spent' = 0
    /\ UNCHANGED <<history, detached, compactions, runVars, streamVars>>

(* Images, skills and memory are ready, or one of them fails.              *)
Prepare ==
    /\ at = "preparing"
    /\ \/ /\ history' = Append(history, Prompt)
          /\ at' = "looping"
          /\ UNCHANGED <<canceled, generation, compactions, runVars, streamVars>>
       \/ End(history)
    /\ UNCHANGED <<spent, detached>>

(* A new model request: the observers start afresh.                        *)
Request ==
    /\ at' = "requesting"
    /\ turn' = turn + 1
    /\ attempt' = 0 /\ emitted' = FALSE /\ shown' = {}
    /\ UNCHANGED <<history, canceled, generation, compactions, same, batch>>

RequestOrEnd == IF BudgetLeft THEN Request ELSE End(history)

(* The head of the loop.                                                   *)
Loop ==
    /\ at = "looping"
    /\ \/ /\ Exhausted \/ canceled
          /\ End(history)
       \/ /\ ~Exhausted /\ ~canceled
          /\ IF Len(history) >= Trigger /\ Cardinality(UserIndices(history)) > Retain
                /\ BudgetLeft
             THEN /\ at' = "compacting"
                  /\ UNCHANGED <<history, canceled, generation, compactions,
                                 runVars, streamVars>>
             ELSE RequestOrEnd
    /\ UNCHANGED <<spent, detached>>

(* _compact after its summary came: it replaces the history, or does not.  *)
Replaced(rounds) ==
    IF Compactable(history, rounds) THEN {history, Compacted(history, rounds)}
    ELSE {history}

(* compact_if_needed: a failing summary changes nothing.                   *)
Compact ==
    /\ at = "compacting" /\ ~canceled
    /\ \/ /\ spent' \in {spent + c : c \in Costs}
          /\ \E h \in Replaced(Retain) :
               IF spent' < TokenBudget
               THEN /\ history' = h
                    /\ at' = "requesting"
                    /\ turn' = turn + 1
                    /\ attempt' = 0 /\ emitted' = FALSE /\ shown' = {}
                    /\ UNCHANGED <<canceled, generation, compactions, same, batch>>
               ELSE End(h)
       \/ /\ Request
          /\ UNCHANGED spent
    /\ UNCHANGED detached
-----------------------------------------------------------------------------
(* The observer of the current stream.                                     *)
Delta ==
    /\ at = "requesting" /\ ~canceled
    /\ emitted' = TRUE
    /\ shown' = shown \cup {<<generation, turn>>}
    /\ UNCHANGED <<history, at, canceled, generation, spent, detached, compactions,
                   runVars, attempt>>

(* Mutated form: a stream is recognised by the event alone.                *)
MayShowWheneverNotCanceled(s) == ~canceled

(* What observe() asks before it shows a delta of stream s.                *)
MayShow(s) == ~canceled /\ s[1] = generation

(* A stream that survived its cancellation delivers, or gives up.          *)
LateDelta ==
    \E s \in detached :
      /\ \/ /\ MayShow(s)
            /\ shown' = shown \cup {s}
            /\ UNCHANGED detached
         \/ /\ detached' = detached \ {s}
            /\ UNCHANGED shown
      /\ UNCHANGED <<history, at, canceled, generation, spent, compactions, runVars,
                     attempt, emitted>>

(* Mutated form: an error is retried whatever was shown and however often. *)
RetryAlways == TRUE
Retryable == ~emitted /\ attempt < MaxRetries

(* The provider fails, transiently or for good.                            *)
RequestFails ==
    /\ at = "requesting" /\ ~canceled
    /\ \/ /\ Retryable
          /\ attempt' = IF attempt < MaxRetries THEN attempt + 1 ELSE attempt
          /\ emitted' = FALSE
          /\ UNCHANGED <<history, at, canceled, generation, compactions, runVars, shown>>
       \/ End(history)
    /\ UNCHANGED <<spent, detached>>

(* The response arrived; it is charged, traced and its reasoning shown.    *)
Receive ==
    /\ at = "requesting" /\ ~canceled
    /\ at' = "received"
    /\ batch' \in Batches \cup {NoBatch}
    /\ spent' \in {spent + c : c \in Costs}
    /\ UNCHANGED <<history, canceled, generation, detached, compactions, turn, same,
                   streamVars>>

Alike == IF same.print = batch.print THEN same.times + 1 ELSE 1

(* An answer ends the run; a batch of calls may be refused for its cost or *)
(* for stagnation, and is in the history before it runs.                   *)
Dispatch ==
    /\ at = "received"
    /\ \/ /\ batch = NoBatch
          /\ End(Append(history, Answer))
       \/ /\ batch # NoBatch
          /\ IF BudgetLeft /\ Alike < Window
             THEN /\ history' = Append(history, ToolCalls(batch.calls))
                  /\ at' = "tools"
                  /\ same' = [print |-> batch.print, times |-> Alike]
                  /\ UNCHANGED <<canceled, generation, compactions, turn, batch, streamVars>>
             ELSE End(history)
    /\ UNCHANGED <<spent, detached>>

(* The results, then one picture for each result that brought any.         *)
Recorded(pictures) ==
    history \o Results(batch.calls) \o [i \in 1..pictures |-> Picture]

(* The batch is complete; its results are first written to the trace, which *)
(* does not ask for the user's event.                                       *)
ToolsDone ==
    /\ at = "tools" /\ ~canceled
    /\ at' = "tracing"
    /\ UNCHANGED <<history, canceled, generation, spent, detached, compactions,
                   runVars, streamVars>>

Record ==
    /\ at = "tracing"
    /\ \E pictures \in 0..batch.calls : history' = Recorded(pictures)
    /\ at' = "looping"
    /\ batch' = NoBatch
    /\ UNCHANGED <<canceled, generation, spent, detached, compactions, turn, same, streamVars>>

(* Mutated form: a cancelled batch is left as it is.                       *)
CanceledBatchForgotten == history

(* A synthetic result for each call of a cancelled batch.                  *)
CanceledBatch == history \o Results(batch.calls)

(* Any other failure of the batch takes its calls back.                    *)
ToolsFail ==
    /\ at = "tools" /\ ~canceled
    /\ End(Front(history))
    /\ UNCHANGED <<spent, detached>>

(* The run notices the user's event where it waits for work.               *)
Stop ==
    /\ canceled
    /\ \/ at = "requesting" /\ End(history) /\ Detach
       \/ at = "compacting" /\ End(history) /\ UNCHANGED detached
       \/ at = "tools" /\ End(CanceledBatch) /\ UNCHANGED detached
       \/ at = "compacting by hand" /\ End(history) /\ UNCHANGED detached
    /\ UNCHANGED spent
-----------------------------------------------------------------------------
(* The user asks for cancellation.                                         *)
Cancel ==
    /\ ~canceled
    /\ canceled' = TRUE
    /\ UNCHANGED <<history, at, generation, spent, detached, compactions, runVars, streamVars>>

(* The task of the run is cancelled at the await it is in.                 *)
TaskCanceled ==
    /\ Running
    /\ at = "tracing" => Interruptible
    /\ \/ at = "requesting" /\ Detach
       \/ at # "requesting" /\ UNCHANGED detached
    /\ End(IF at = "tools" THEN CanceledBatch ELSE history)
    /\ UNCHANGED spent

(* clear(), refused during a run.                                          *)
Clear ==
    /\ ~Running
    /\ history' = <<>>
    /\ spent' = 0
    /\ UNCHANGED <<at, canceled, generation, detached, compactions, runVars, streamVars>>

(* compact() clears the event, as run() does, but has no generation.       *)
CompactByHand ==
    /\ ~Running /\ compactions < MaxCompactions
    /\ at' = "compacting by hand"
    /\ canceled' = FALSE
    /\ compactions' = compactions + 1
    /\ UNCHANGED <<history, generation, spent, detached, runVars, streamVars>>

CompactedByHand ==
    /\ at = "compacting by hand" /\ ~canceled
    /\ \/ /\ BudgetLeft /\ Cardinality(UserIndices(history)) > 1
          /\ \E h \in Replaced(1), c \in Costs : End(h) /\ spent' = spent + c
       \/ End(history) /\ UNCHANGED spent
    /\ UNCHANGED detached
-----------------------------------------------------------------------------
Step ==
    \/ Prepare \/ Loop \/ Compact \/ RequestFails \/ Receive \/ Dispatch
    \/ ToolsDone \/ Record \/ ToolsFail \/ Stop \/ CompactedByHand

Next ==
    \/ Step \/ Run \/ Delta \/ LateDelta \/ Cancel \/ TaskCanceled
    \/ Clear \/ CompactByHand

Spec == Init /\ [][Next]_vars

(* A run that waits gets its answer or an error: model requests, tools and *)
(* observers all have time limits.                                         *)
FairSpec == Spec /\ WF_vars(Step)
-----------------------------------------------------------------------------
(*                               Properties                                *)

(* Outside of a tool batch every call in the history has its results, so   *)
(* that the next request is one a provider accepts: after cancellations,   *)
(* failures, compactions and retries alike.                                *)
ToolCallsAnswered == at \notin {"tools", "tracing"} => WellFormed(history)

(* The same of well-typed states: whenever the loop calls the model, the   *)
(* provider accepts the history.                                           *)
HistoryAcceptable == TypeOK /\ ToolCallsAnswered

(* What the user sees of a model request comes from one stream, that of    *)
(* the request: no late delta of a cancelled run, no second attempt after  *)
(* a visible one.                                                          *)
OneVoice ==
    at = "requesting" =>
      /\ shown \subseteq {<<generation, turn>>}
      /\ shown # {} => emitted

(* However compaction and requests alternate, the token budget is exceeded *)
(* by less than one response.                                              *)
BudgetExceededByOne ==
    \A c \in Costs : (\A d \in Costs : d <= c) => spent < TokenBudget + c

(* Every run ends: in an answer, an error or a cancellation.               *)
EveryRunEnds == Running ~> ~Running
=============================================================================
