------------------------------ MODULE ServerGate ------------------------------
(***************************************************************************)
(* The shared/exclusive gate of one MCP server (_AsyncServerGate in        *)
(* kairocli/tools/registry.py) with its users: tool calls and reads, which *)
(* share it, and lifecycle transitions, which have it alone and come one   *)
(* at a time because the server manager holds its lifecycle lock.          *)
(*                                                                         *)
(* The gate is an asyncio.Condition.  Its lock is never held across an     *)
(* await, so a method of the gate runs in one go up to its wait, in the    *)
(* order the event loop queued the tasks (ready); waiting tasks sleep in a *)
(* queue of their own and a notify moves them to the loop's queue.         *)
(***************************************************************************)
EXTENDS Naturals, FiniteSets, Sequences

CONSTANTS
    Calls,        \* calls and reads of this server
    Transitions,  \* restarts, enables, disables and closes of this server
    NoOne,
    PassesOn      \* a cancelled waiter notifies another one (Python 3.13 on)

ASSUME ServerGateAssumption ==
    /\ Calls \cap Transitions = {}
    /\ NoOne \notin Transitions
    /\ IsFiniteSet(Calls) /\ IsFiniteSet(Transitions)
    /\ PassesOn \in BOOLEAN

VARIABLES
    readers,         \* _readers
    writer,          \* _writer
    waitingWriters,  \* _waiting_writers
    sleeping,        \* the condition's waiters, oldest first
    ready,           \* tasks whose next step on the gate the event loop has queued
    at,              \* task -> where it is
    lifecycle        \* the transition that holds the manager's _lifecycle_lock

vars == <<readers, writer, waitingWriters, sleeping, ready, at, lifecycle>>

Users == Calls \cup Transitions

TypeOK ==
    /\ readers \in Nat /\ writer \in BOOLEAN /\ waitingWriters \in Nat
    /\ sleeping \in Seq(Users) /\ ready \in Seq(Users)
    /\ at \in [Users -> {"idle", "entering", "asleep", "woken", "canceled",
                         "granted", "inside", "leaving", "done"}]
    /\ lifecycle \in Transitions \cup {NoOne}

Init ==
    /\ readers = 0 /\ writer = FALSE /\ waitingWriters = 0
    /\ sleeping = <<>> /\ ready = <<>>
    /\ at = [x \in Users |-> "idle"]
    /\ lifecycle = NoOne
-----------------------------------------------------------------------------
(* It is x's turn in the event loop.                                       *)
Turn(x) == ready # <<>> /\ Head(ready) = x

(* The queue s without its entry i.                                        *)
WithoutEntry(s, i) ==
    [j \in 1..(Len(s) - 1) |-> IF j < i THEN s[j] ELSE s[j + 1]]

(* x is taken out of the loop's queue, or out of the condition's.          *)
Dequeued(x) ==
    \E i \in 1..Len(ready) : ready[i] = x /\ ready' = WithoutEntry(ready, i)
Roused(x) ==
    /\ \E i \in 1..Len(sleeping) :
         sleeping[i] = x /\ sleeping' = WithoutEntry(sleeping, i)
    /\ ready' = Append(ready, x)

(* Mutated form: a transition does not wait for the calls inside.          *)
OpenToTransitionAlways == ~writer

(* The predicates the gate's two waits wait for.                           *)
OpenToCalls == ~writer /\ waitingWriters = 0
OpenToTransition == ~writer /\ readers = 0

(* notify_all, by the task at the head of the line.                        *)
NotifyAll(f) ==
    /\ ready' = Tail(ready) \o sleeping
    /\ sleeping' = <<>>
    /\ at' = [y \in Users |-> IF f[y] = "asleep" THEN "woken" ELSE f[y]]

NotifyNobody(f) ==
    /\ ready' = Tail(ready)
    /\ at' = f
    /\ UNCHANGED sleeping

(* asyncio.Condition.wait on its way out of a cancellation.                *)
NotifyOne(f) ==
    IF PassesOn /\ sleeping # <<>>
    THEN /\ ready' = Append(Tail(ready), Head(sleeping))
         /\ sleeping' = Tail(sleeping)
         /\ at' = [f EXCEPT ![Head(sleeping)] = "woken"]
    ELSE NotifyNobody(f)

Sleep(x) ==
    /\ ready' = Tail(ready)
    /\ sleeping' = Append(sleeping, x)
    /\ at' = [at EXCEPT ![x] = "asleep"]
-----------------------------------------------------------------------------
(*                       Calls: shared ownership                           *)

(* execute_output or mcp_server_call creates the acquire_shared task.      *)
CallArrives(c) ==
    /\ at[c] = "idle"
    /\ at' = [at EXCEPT ![c] = "entering"]
    /\ ready' = Append(ready, c)
    /\ UNCHANGED <<readers, writer, waitingWriters, sleeping, lifecycle>>

(* acquire_shared: the wait's predicate, at first and after each wake-up.  *)
AcquireShared(c) ==
    /\ Turn(c) /\ at[c] \in {"entering", "woken"}
    /\ \/ /\ OpenToCalls
          /\ readers' = readers + 1
          /\ NotifyNobody([at EXCEPT ![c] = "granted"])
       \/ /\ ~OpenToCalls
          /\ Sleep(c)
          /\ UNCHANGED readers
    /\ UNCHANGED <<writer, waitingWriters, lifecycle>>

(* The call sees that its acquire task is done and goes on.                *)
CallProceeds(c) ==
    /\ at[c] = "granted"
    /\ at' = [at EXCEPT ![c] = "inside"]
    /\ UNCHANGED <<readers, writer, waitingWriters, sleeping, ready, lifecycle>>

(* The call returns, raises, is cancelled or times out: its finally block  *)
(* creates the release task.                                               *)
CallEnds(c) ==
    /\ at[c] = "inside"
    /\ at' = [at EXCEPT ![c] = "leaving"]
    /\ ready' = Append(ready, c)
    /\ UNCHANGED <<readers, writer, waitingWriters, sleeping, lifecycle>>

(* _acquire_mcp_shared_with_cancellation: an acquire task not started is   *)
(* dropped, a waiting one is told at its turn, and ownership won together  *)
(* with the cancellation is given back.                                    *)
CancelCall(c) ==
    /\ \/ /\ at[c] = "entering"
          /\ at' = [at EXCEPT ![c] = "idle"]
          /\ Dequeued(c)
          /\ UNCHANGED sleeping
       \/ /\ at[c] = "asleep"
          /\ at' = [at EXCEPT ![c] = "canceled"]
          /\ Roused(c)
       \/ /\ at[c] = "woken"
          /\ at' = [at EXCEPT ![c] = "canceled"]
          /\ UNCHANGED <<ready, sleeping>>
       \/ /\ at[c] = "granted"
          /\ at' = [at EXCEPT ![c] = "leaving"]
          /\ ready' = Append(ready, c)
          /\ UNCHANGED sleeping
    /\ UNCHANGED <<readers, writer, waitingWriters, lifecycle>>

CanceledCallLeaves(c) ==
    /\ Turn(c) /\ at[c] = "canceled"
    /\ NotifyOne([at EXCEPT ![c] = "idle"])
    /\ UNCHANGED <<readers, writer, waitingWriters, lifecycle>>

(* release_shared: the last call out wakes everybody.                      *)
ReleaseShared(c) ==
    /\ Turn(c) /\ at[c] = "leaving"
    /\ readers' = readers - 1
    /\ IF readers' = 0
       THEN NotifyAll([at EXCEPT ![c] = "idle"])
       ELSE NotifyNobody([at EXCEPT ![c] = "idle"])
    /\ UNCHANGED <<writer, waitingWriters, lifecycle>>
-----------------------------------------------------------------------------
(*                  Transitions: exclusive ownership                       *)

TransitionBegins(w) ==
    /\ at[w] = "idle" /\ lifecycle = NoOne
    /\ lifecycle' = w
    /\ at' = [at EXCEPT ![w] = "entering"]
    /\ ready' = Append(ready, w)
    /\ UNCHANGED <<readers, writer, waitingWriters, sleeping>>

(* acquire_exclusive: it counts as a waiting writer from its first look at *)
(* the gate until it has it.                                               *)
AcquireExclusive(w) ==
    /\ Turn(w) /\ at[w] \in {"entering", "woken"}
    /\ \/ /\ OpenToTransition
          /\ writer' = TRUE
          /\ waitingWriters' = IF at[w] = "woken" THEN waitingWriters - 1
                               ELSE waitingWriters
          /\ NotifyNobody([at EXCEPT ![w] = "inside"])
       \/ /\ ~OpenToTransition
          /\ waitingWriters' = IF at[w] = "woken" THEN waitingWriters
                               ELSE waitingWriters + 1
          /\ Sleep(w)
          /\ UNCHANGED writer
    /\ UNCHANGED <<readers, lifecycle>>

(* The user or a timeout cancels a transition that still waits.            *)
CancelTransition(w) ==
    /\ \/ /\ at[w] = "entering"
          /\ at' = [at EXCEPT ![w] = "done"]
          /\ Dequeued(w)
          /\ lifecycle' = NoOne
          /\ UNCHANGED sleeping
       \/ /\ at[w] = "asleep"
          /\ at' = [at EXCEPT ![w] = "canceled"]
          /\ Roused(w)
          /\ UNCHANGED lifecycle
       \/ /\ at[w] = "woken"
          /\ at' = [at EXCEPT ![w] = "canceled"]
          /\ UNCHANGED <<ready, sleeping, lifecycle>>
    /\ UNCHANGED <<readers, writer, waitingWriters>>

(* The finally block of acquire_exclusive: nobody else is told.            *)
CanceledTransitionLeaves(w) ==
    /\ Turn(w) /\ at[w] = "canceled"
    /\ waitingWriters' = waitingWriters - 1
    /\ NotifyOne([at EXCEPT ![w] = "done"])
    /\ lifecycle' = NoOne
    /\ UNCHANGED <<readers, writer>>

(* The body of mcp_server_transition returns, raises or is cancelled.      *)
TransitionEnds(w) ==
    /\ at[w] = "inside"
    /\ at' = [at EXCEPT ![w] = "leaving"]
    /\ ready' = Append(ready, w)
    /\ UNCHANGED <<readers, writer, waitingWriters, sleeping, lifecycle>>

(* Mutated form of ReleaseExclusive: nobody is told.                       *)
ReleaseExclusiveSilently(w) ==
    /\ Turn(w) /\ at[w] = "leaving"
    /\ writer' = FALSE
    /\ NotifyNobody([at EXCEPT ![w] = "done"])
    /\ lifecycle' = NoOne
    /\ UNCHANGED <<readers, waitingWriters>>

(* release_exclusive: everybody who sleeps looks again.                    *)
ReleaseExclusive(w) ==
    /\ Turn(w) /\ at[w] = "leaving"
    /\ writer' = FALSE
    /\ NotifyAll([at EXCEPT ![w] = "done"])
    /\ lifecycle' = NoOne
    /\ UNCHANGED <<readers, waitingWriters>>
-----------------------------------------------------------------------------
CallStep(c) ==
    \/ AcquireShared(c) \/ CallProceeds(c) \/ CallEnds(c)
    \/ CanceledCallLeaves(c) \/ ReleaseShared(c)

TransitionStep(w) ==
    \/ AcquireExclusive(w) \/ TransitionEnds(w)
    \/ CanceledTransitionLeaves(w) \/ ReleaseExclusive(w)

Next ==
    \/ \E c \in Calls : CallArrives(c) \/ CancelCall(c) \/ CallStep(c)
    \/ \E w \in Transitions :
         TransitionBegins(w) \/ CancelTransition(w) \/ TransitionStep(w)

Spec == Init /\ [][Next]_vars

(* The event loop runs what it queued, calls end (every call has a hard    *)
(* timeout) and so do transitions.  Nobody has to call or to cancel.       *)
FairSpec ==
    /\ Spec
    /\ \A c \in Calls : WF_vars(CallStep(c))
    /\ \A w \in Transitions : WF_vars(TransitionStep(w))
-----------------------------------------------------------------------------
(*                               Properties                                *)

HoldsShared(c) == at[c] \in {"granted", "inside", "leaving"}
HoldsExclusive(w) == at[w] \in {"inside", "leaving"}
Waiting(x) == at[x] \in {"entering", "asleep", "woken"}

(* The counters say who is there, whatever was cancelled when: no release  *)
(* without ownership, no ownership that stays behind.                      *)
CountersAgree ==
    /\ readers = Cardinality({c \in Calls : HoldsShared(c)})
    /\ writer <=> \E w \in Transitions : HoldsExclusive(w)
    /\ waitingWriters =
         Cardinality({w \in Transitions : at[w] \in {"asleep", "woken", "canceled"}})

(* A call or read has the gate with other calls, a transition alone.       *)
Gate == INSTANCE SharedExclusive
          WITH sharers <- {c \in Calls : HoldsShared(c)},
               owners <- {w \in Transitions : HoldsExclusive(w)}
ImplementsSharedExclusive == Gate!Spec

(* A transition that waits is not starved by calls that keep coming.       *)
TransitionServed ==
    \A w \in Transitions : Waiting(w) ~> ~Waiting(w)

(* registry.py: a "fair shared/exclusive gate".  A call that waits is served *)
(* (or cancelled), as long as the gate drains now and then: calls that      *)
(* overlap for ever can keep one asleep after a transition was cancelled.  *)
CallServed ==
    []<>(readers = 0) => \A c \in Calls : Waiting(c) ~> ~Waiting(c)

(* Both: nobody waits for ever at the gate (_AsyncServerGate).             *)
EveryoneServed == TransitionServed /\ CallServed
=============================================================================
