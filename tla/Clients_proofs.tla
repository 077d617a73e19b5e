--------------------------- MODULE Clients_proofs ---------------------------
(***************************************************************************)
(* Theorems about the processes that answer over pipes, and the gate that  *)
(* guards an MCP server: ServerGate keeps transitions out while calls run, *)
(* whatever they are; a shell process is never forgotten; diagnostics are  *)
(* those of the caller's text; an MCP server's state is current, or word   *)
(* of the change is on its way; and what is closed is over.                *)
(***************************************************************************)
EXTENDS MCClients, ServerGate, SequenceTheorems, FiniteSetTheorems, WellFoundedInduction, TLAPS

-----------------------------------------------------------------------------
(* The gate of an MCP server.                                              *)
Sharers == {c \in Calls : HoldsShared(c)}
Owners == {w \in Transitions : HoldsExclusive(w)}
Waiters == {w \in Transitions : at[w] \in {"asleep", "woken", "canceled"}}

(* The condition's queue holds sleeping tasks, each once.                  *)
SleepInv ==
    /\ \A i \in 1..Len(sleeping) : at[sleeping[i]] = "asleep"
    /\ \A i, j \in 1..Len(sleeping) : sleeping[i] = sleeping[j] => i = j

(* Whoever is busy with a transition has the lifecycle lock.               *)
LifecycleInv ==
    \A w \in Transitions : at[w] \notin {"idle", "done"} => lifecycle = w

IInv == TypeOK /\ SleepInv /\ LifecycleInv /\ CountersAgree
-----------------------------------------------------------------------------
(* Taking one entry out of a queue leaves the others, in their order.      *)
LEMMA WithoutEntryFacts ==
    ASSUME NEW S, NEW s \in Seq(S), NEW i \in 1..Len(s)
    PROVE  /\ WithoutEntry(s, i) \in Seq(S)
           /\ Len(WithoutEntry(s, i)) = Len(s) - 1
           /\ \A j \in 1..(Len(s) - 1) :
                WithoutEntry(s, i)[j] = IF j < i THEN s[j] ELSE s[j + 1]
<1>1. Len(s) \in Nat /\ Len(s) > 0 /\ \A j \in 1..Len(s) : s[j] \in S
  OBVIOUS
<1>2. \A j \in 1..(Len(s) - 1) : j + 1 \in 1..Len(s)
  BY <1>1
<1>. QED
  BY <1>1, <1>2 DEF WithoutEntry

(* Who sleeps before and after x is roused.                                *)
LEMMA RousedFacts ==
    ASSUME TypeOK, SleepInv, NEW x \in Users, Roused(x),
           at' = [at EXCEPT ![x] = "canceled"]
    PROVE  SleepInv' /\ sleeping' \in Seq(Users) /\ ready' \in Seq(Users)
<1> PICK i \in 1..Len(sleeping) :
         sleeping[i] = x /\ sleeping' = WithoutEntry(sleeping, i)
  BY DEF Roused
<1>1. /\ sleeping' \in Seq(Users) /\ Len(sleeping') = Len(sleeping) - 1
      /\ \A j \in 1..(Len(sleeping) - 1) :
           sleeping'[j] = IF j < i THEN sleeping[j] ELSE sleeping[j + 1]
  BY WithoutEntryFacts DEF TypeOK
<1>2. Len(sleeping) \in Nat
  BY DEF TypeOK
<1>3. ASSUME NEW j \in 1..Len(sleeping') PROVE at'[sleeping'[j]] = "asleep"
  <2>1. PICK k \in 1..Len(sleeping) : k # i /\ sleeping'[j] = sleeping[k]
    <3>1. CASE j < i
      BY <1>1, <1>2, <3>1
    <3>2. CASE ~(j < i)
      <4>1. j + 1 \in 1..Len(sleeping) /\ j + 1 # i
        BY <1>1, <1>2, <3>2
      <4>. QED
        BY <1>1, <3>2, <4>1
    <3>. QED
      BY <3>1, <3>2
  <2>2. sleeping[k] # x /\ sleeping[k] \in Users
    BY <2>1 DEF SleepInv, TypeOK
  <2>. QED
    BY <2>1, <2>2 DEF SleepInv, TypeOK
<1>4. ASSUME NEW j \in 1..Len(sleeping'), NEW k \in 1..Len(sleeping'),
             sleeping'[j] = sleeping'[k]
      PROVE  j = k
  <2> DEFINE old(m) == IF m < i THEN m ELSE m + 1
  <2>1. /\ old(j) \in 1..Len(sleeping) /\ old(k) \in 1..Len(sleeping)
        /\ sleeping'[j] = sleeping[old(j)] /\ sleeping'[k] = sleeping[old(k)]
    <3>1. ASSUME NEW n \in 1..Len(sleeping')
          PROVE  old(n) \in 1..Len(sleeping) /\ sleeping'[n] = sleeping[old(n)]
      BY <1>1, <1>2
    <3> HIDE DEF old
    <3> QED
      BY <3>1
  <2>2. old(j) = old(k)
    BY <1>4, <2>1 DEF SleepInv
  <2>. QED
    BY <1>2, <2>2
<1>5. ready' \in Seq(Users)
  BY DEF Roused, TypeOK
<1>. QED
  BY <1>1, <1>3, <1>4, <1>5 DEF SleepInv

(* A task that has not started leaves the loop's queue.                    *)
LEMMA DequeuedFacts ==
    ASSUME TypeOK, NEW x \in Users, Dequeued(x)
    PROVE  ready' \in Seq(Users)
BY WithoutEntryFacts DEF Dequeued, TypeOK
-----------------------------------------------------------------------------
(* Tasks that sleep when everybody is notified, or when one of them is.    *)
LEMMA NotifyFacts ==
    ASSUME TypeOK, SleepInv, NEW x \in Users, NEW f, ready # <<>>,
           at[x] # "asleep", NEW v \in {"idle", "done", "granted", "inside"},
           f = [at EXCEPT ![x] = v],
           \/ NotifyAll(f) \/ NotifyNobody(f) \/ NotifyOne(f)
    PROVE  /\ SleepInv' /\ sleeping' \in Seq(Users) /\ ready' \in Seq(Users)
           /\ DOMAIN at' = Users /\ at'[x] = v
           /\ \A y \in Users \ {x} :
                \/ at'[y] = at[y]
                \/ at[y] = "asleep" /\ at'[y] = "woken"
           /\ at' \in [Users -> {at[y] : y \in Users} \cup {v, "woken"}]
<1> USE DEF TypeOK
<1>0. f \in [Users -> {at[y] : y \in Users} \cup {v}] /\ f[x] = v
      /\ Tail(ready) \in Seq(Users) /\ \A y \in Users \ {x} : f[y] = at[y]
  OBVIOUS
<1>s. \A i \in 1..Len(sleeping) : sleeping[i] \in Users \ {x} /\ f[sleeping[i]] = "asleep"
  BY <1>0 DEF SleepInv
<1>1. CASE NotifyAll(f)
  <2>1. sleeping' = <<>> /\ ready' \in Seq(Users)
    BY <1>0, <1>1 DEF NotifyAll
  <2>2. SleepInv'
    BY <2>1 DEF SleepInv
  <2>. QED
    BY <1>0, <1>1, <2>1, <2>2 DEF NotifyAll
<1>2. CASE NotifyNobody(f)
  <2>1. SleepInv'
    BY <1>0, <1>s, <1>2 DEF NotifyNobody, SleepInv
  <2>. QED
    BY <1>0, <1>2, <2>1 DEF NotifyNobody
<1>3. CASE NotifyOne(f) /\ ~NotifyNobody(f)
  <2>1. /\ sleeping # <<>>
        /\ ready' = Append(Tail(ready), Head(sleeping))
        /\ sleeping' = Tail(sleeping)
        /\ at' = [f EXCEPT ![Head(sleeping)] = "woken"]
    BY <1>3 DEF NotifyOne
  <2>2. /\ Head(sleeping) = sleeping[1] /\ 1 \in 1..Len(sleeping)
        /\ Len(Tail(sleeping)) = Len(sleeping) - 1
        /\ \A i \in 1..(Len(sleeping) - 1) : Tail(sleeping)[i] = sleeping[i + 1]
        /\ Tail(sleeping) \in Seq(Users) /\ Len(sleeping) \in Nat
    BY <2>1
  <2>3. Head(sleeping) \in Users \ {x} /\ at[Head(sleeping)] = "asleep"
    BY <1>s, <2>2 DEF SleepInv
  <2>4. ready' \in Seq(Users) /\ sleeping' \in Seq(Users)
    BY <1>0, <2>1, <2>2, <2>3
  <2>5. /\ DOMAIN at' = Users /\ at'[x] = v
        /\ \A y \in Users \ {x} :
             at'[y] = at[y] \/ (at[y] = "asleep" /\ at'[y] = "woken")
    BY <1>0, <2>1, <2>3
  <2>6. at' \in [Users -> {at[y] : y \in Users} \cup {v, "woken"}]
    BY <1>0, <2>1, <2>3
  <2>7. SleepInv'
    <3>1. \A i \in 1..Len(sleeping') :
            /\ i + 1 \in 1..Len(sleeping)
            /\ sleeping'[i] = sleeping[i + 1]
            /\ sleeping[i + 1] # Head(sleeping)
      <4> TAKE i \in 1..Len(sleeping')
      <4>1. i + 1 \in 1..Len(sleeping) /\ i + 1 # 1 /\ sleeping'[i] = sleeping[i + 1]
        BY <2>1, <2>2
      <4>. QED
        BY <2>2, <4>1 DEF SleepInv
    <3>2. \A i \in 1..Len(sleeping') : at'[sleeping'[i]] = "asleep"
      BY <1>s, <2>1, <3>1
    <3>3. \A i, j \in 1..Len(sleeping') : sleeping'[i] = sleeping'[j] => i = j
      <4> TAKE i, j \in 1..Len(sleeping')
      <4> HAVE sleeping'[i] = sleeping'[j]
      <4>1. i + 1 = j + 1
        BY <3>1 DEF SleepInv
      <4>. QED
        BY <4>1
    <3>. QED
      BY <3>2, <3>3 DEF SleepInv
  <2>. QED
    BY <2>4, <2>5, <2>6, <2>7
<1>. QED
  BY <1>1, <1>2, <1>3

(* Going to sleep puts the task at the end of the condition's queue.       *)
LEMMA SleepFacts ==
    ASSUME TypeOK, SleepInv, NEW x \in Users, at[x] # "asleep", ready # <<>>, Sleep(x)
    PROVE  SleepInv' /\ sleeping' \in Seq(Users) /\ ready' \in Seq(Users)
<1> USE DEF TypeOK
<1>1. /\ sleeping' = Append(sleeping, x) /\ at' = [at EXCEPT ![x] = "asleep"]
      /\ sleeping' \in Seq(Users) /\ ready' \in Seq(Users)
  BY DEF Sleep
<1>2. /\ Len(sleeping') = Len(sleeping) + 1 /\ Len(sleeping) \in Nat
      /\ sleeping'[Len(sleeping) + 1] = x
      /\ \A i \in 1..Len(sleeping) : sleeping'[i] = sleeping[i]
  BY <1>1
<1>3. \A i \in 1..Len(sleeping) : sleeping[i] # x /\ sleeping[i] \in Users
  BY DEF SleepInv
<1>4. \A i \in 1..Len(sleeping') : at'[sleeping'[i]] = "asleep"
  <2> TAKE i \in 1..Len(sleeping')
  <2>1. i = Len(sleeping) + 1 \/ i \in 1..Len(sleeping)
    BY <1>2
  <2>. QED
    BY <1>1, <1>2, <1>3, <2>1 DEF SleepInv
<1>5. \A i, j \in 1..Len(sleeping') : sleeping'[i] = sleeping'[j] => i = j
  <2> TAKE i, j \in 1..Len(sleeping')
  <2>1. /\ i = Len(sleeping) + 1 \/ i \in 1..Len(sleeping)
        /\ j = Len(sleeping) + 1 \/ j \in 1..Len(sleeping)
    BY <1>2
  <2>. QED
    BY <1>2, <1>3, <2>1 DEF SleepInv
<1>. QED
  BY <1>1, <1>4, <1>5 DEF SleepInv
-----------------------------------------------------------------------------
(* The sets behind the counters are finite.                                *)
LEMMA CountersFinite ==
    /\ IsFiniteSet(Sharers) /\ Cardinality(Sharers) \in Nat
    /\ IsFiniteSet(Waiters) /\ Cardinality(Waiters) \in Nat
<1>1. IsFiniteSet(Sharers) /\ IsFiniteSet(Waiters)
  BY ServerGateAssumption, FS_Subset DEF Sharers, Waiters
<1>. QED
  BY <1>1, FS_CardinalityType

(* The part of the invariant that the counters are not about.              *)
Order == TypeOK /\ SleepInv /\ LifecycleInv

(* Only x moves, apart from sleepers that are woken.                       *)
OnlyMoves(x, v) ==
    /\ at' \in [Users -> {at[y] : y \in Users} \cup {v, "woken"}]
    /\ at'[x] = v
    /\ \A y \in Users \ {x} :
         at'[y] = at[y] \/ (at[y] = "asleep" /\ at'[y] = "woken")

(* What a move of one task does to the sets behind the counters.           *)
LEMMA MoveFacts ==
    ASSUME TypeOK, NEW x \in Users, NEW v, OnlyMoves(x, v)
    PROVE  /\ Sharers' = IF x \in Calls /\ v \in {"granted", "inside", "leaving"}
                         THEN Sharers \cup {x} ELSE Sharers \ {x}
           /\ Owners' = IF x \in Transitions /\ v \in {"inside", "leaving"}
                        THEN Owners \cup {x} ELSE Owners \ {x}
           /\ Waiters' = IF x \in Transitions /\ v \in {"asleep", "woken", "canceled"}
                         THEN Waiters \cup {x} ELSE Waiters \ {x}
<1> USE DEF OnlyMoves, Users
<1>1. \A c \in Calls \ {x} : HoldsShared(c)' <=> HoldsShared(c)
  BY DEF HoldsShared
<1>2. \A w \in Transitions \ {x} : HoldsExclusive(w)' <=> HoldsExclusive(w)
  BY DEF HoldsExclusive
<1>3. \A w \in Transitions \ {x} :
        at'[w] \in {"asleep", "woken", "canceled"} <=> at[w] \in {"asleep", "woken", "canceled"}
  OBVIOUS
<1>4. HoldsShared(x)' <=> v \in {"granted", "inside", "leaving"}
  BY DEF HoldsShared
<1>5. HoldsExclusive(x)' <=> v \in {"inside", "leaving"}
  BY DEF HoldsExclusive
<1>. QED
  BY <1>1, <1>2, <1>3, <1>4, <1>5 DEF Sharers, Owners, Waiters

(* How many they are after x came or went.                                 *)
LEMMA CountFacts ==
    ASSUME NEW x
    PROVE  /\ Cardinality(Sharers \cup {x}) =
                IF x \in Sharers THEN Cardinality(Sharers) ELSE Cardinality(Sharers) + 1
           /\ Cardinality(Sharers \ {x}) =
                IF x \in Sharers THEN Cardinality(Sharers) - 1 ELSE Cardinality(Sharers)
           /\ Cardinality(Waiters \cup {x}) =
                IF x \in Waiters THEN Cardinality(Waiters) ELSE Cardinality(Waiters) + 1
           /\ Cardinality(Waiters \ {x}) =
                IF x \in Waiters THEN Cardinality(Waiters) - 1 ELSE Cardinality(Waiters)
<1>1. x \in Sharers => Sharers \cup {x} = Sharers
  OBVIOUS
<1>2. x \notin Sharers => Sharers \ {x} = Sharers
  OBVIOUS
<1>3. x \in Waiters => Waiters \cup {x} = Waiters
  OBVIOUS
<1>4. x \notin Waiters => Waiters \ {x} = Waiters
  OBVIOUS
<1>. QED
  BY <1>1, <1>2, <1>3, <1>4, CountersFinite, FS_AddElement, FS_RemoveElement

(* The counters in terms of the three sets.                                *)
LEMMA CountersMean ==
    CountersAgree <=> /\ readers = Cardinality(Sharers)
                      /\ writer <=> Owners # {}
                      /\ waitingWriters = Cardinality(Waiters)
BY DEF CountersAgree, Sharers, Owners, Waiters

(* The same after a step.                                                  *)
LEMMA CountersMeanNext ==
    CountersAgree' <=> /\ readers' = Cardinality(Sharers')
                       /\ writer' <=> Owners' # {}
                       /\ waitingWriters' = Cardinality(Waiters')
BY DEF CountersAgree, Sharers, Owners, Waiters

(* The set of a counter is empty exactly when the counter is zero.         *)
LEMMA NobodyShares == ASSUME CountersAgree PROVE readers = 0 <=> Sharers = {}
BY CountersMean, CountersFinite, FS_EmptySet
-----------------------------------------------------------------------------
States == {"idle", "entering", "asleep", "woken", "canceled", "granted", "inside",
           "leaving", "done"}

(* The queues are as they should be after the step.                        *)
QueuesKept == SleepInv' /\ sleeping' \in Seq(Users) /\ ready' \in Seq(Users)

(* A call that moves and counts itself in or out accordingly.              *)
LEMMA CallMoves ==
    ASSUME IInv, NEW c \in Calls, NEW v \in States, OnlyMoves(c, v), QueuesKept,
           UNCHANGED <<writer, waitingWriters, lifecycle>>,
           readers' = IF v \in {"granted", "inside", "leaving"}
                      THEN IF c \in Sharers THEN readers ELSE readers + 1
                      ELSE IF c \in Sharers THEN readers - 1 ELSE readers
    PROVE  IInv'
<1>0. TypeOK /\ SleepInv /\ LifecycleInv /\ CountersAgree /\ c \in Users /\ c \notin Transitions
  BY ServerGateAssumption DEF IInv, Users
<1>1. /\ Sharers' = IF v \in {"granted", "inside", "leaving"}
                    THEN Sharers \cup {c} ELSE Sharers \ {c}
      /\ Owners' = Owners /\ Waiters' = Waiters
  BY <1>0, MoveFacts DEF Owners, Waiters
<1>2. readers' = Cardinality(Sharers')
  BY <1>0, <1>1, CountFacts, CountersMean
<1>3. CountersAgree'
  BY <1>0, <1>1, <1>2, CountersMean, CountersMeanNext
<1>4. readers' \in Nat
  BY <1>1, <1>2, CountersFinite, FS_AddElement, FS_RemoveElement, FS_CardinalityType
<1>5. at' \in [Users -> States]
  BY <1>0 DEF OnlyMoves, TypeOK, States
<1>6. TypeOK'
  BY <1>0, <1>4, <1>5 DEF TypeOK, States, QueuesKept
<1>7. LifecycleInv'
  BY <1>0 DEF LifecycleInv, OnlyMoves, Users
<1>. QED
  BY <1>3, <1>6, <1>7 DEF IInv, QueuesKept

(* A transition that moves, with the lifecycle lock in its hands.          *)
LEMMA TransitionMoves ==
    ASSUME IInv, NEW w \in Transitions, NEW v \in States \ {"idle", "granted"},
           OnlyMoves(w, v), QueuesKept, UNCHANGED readers,
           at[w] # "idle" \/ lifecycle = NoOne, at[w] # "done",
           writer' \in BOOLEAN, writer' <=> v \in {"inside", "leaving"},
           lifecycle' = IF v = "done" THEN NoOne ELSE w,
           waitingWriters' = IF v \in {"asleep", "woken", "canceled"}
                             THEN IF w \in Waiters THEN waitingWriters ELSE waitingWriters + 1
                             ELSE IF w \in Waiters THEN waitingWriters - 1 ELSE waitingWriters
    PROVE  IInv'
<1>0. TypeOK /\ SleepInv /\ LifecycleInv /\ CountersAgree /\ w \in Users /\ w \notin Calls
  BY ServerGateAssumption DEF IInv, Users
<1>1. lifecycle \in {w, NoOne}
  BY <1>0 DEF LifecycleInv
<1>2. \A u \in Transitions \ {w} : at[u] \in {"idle", "done"}
  BY <1>0, <1>1, ServerGateAssumption DEF LifecycleInv
<1>3. /\ Sharers' = Sharers
      /\ Owners' = IF v \in {"inside", "leaving"} THEN Owners \cup {w} ELSE Owners \ {w}
      /\ Waiters' = IF v \in {"asleep", "woken", "canceled"}
                    THEN Waiters \cup {w} ELSE Waiters \ {w}
  BY <1>0, MoveFacts DEF Sharers
<1>4. Owners \ {w} = {}
  BY <1>2 DEF Owners, HoldsExclusive
<1>5. waitingWriters' = Cardinality(Waiters')
  BY <1>0, <1>3, CountFacts, CountersMean
<1>6. CountersAgree'
  BY <1>0, <1>3, <1>4, <1>5, CountersMean, CountersMeanNext
<1>7. waitingWriters' \in Nat
  BY <1>3, <1>5, CountersFinite, FS_AddElement, FS_RemoveElement, FS_CardinalityType
<1>8. at' \in [Users -> States]
  BY <1>0 DEF OnlyMoves, TypeOK, States
<1>9. TypeOK'
  BY <1>0, <1>7, <1>8 DEF TypeOK, States, QueuesKept
<1>10. LifecycleInv'
  BY <1>0, <1>2 DEF LifecycleInv, OnlyMoves, Users
<1>. QED
  BY <1>6, <1>9, <1>10 DEF IInv, QueuesKept

(* A step that does not wake anybody moves x alone.                        *)
LEMMA PlainMove ==
    ASSUME TypeOK, NEW x \in Users, NEW v, at' = [at EXCEPT ![x] = v]
    PROVE  OnlyMoves(x, v)
BY DEF TypeOK, OnlyMoves

(* Entries of the queues do not change when x moves outside of them.       *)
LEMMA AwakeMove ==
    ASSUME TypeOK, SleepInv, NEW x \in Users, NEW v, at[x] # "asleep",
           at' = [at EXCEPT ![x] = v], UNCHANGED sleeping, ready' \in Seq(Users)
    PROVE  QueuesKept
<1>1. \A i \in 1..Len(sleeping) : sleeping[i] # x /\ sleeping[i] \in Users
  BY DEF SleepInv, TypeOK
<1>. QED
  BY <1>1 DEF SleepInv, TypeOK, QueuesKept
-----------------------------------------------------------------------------
(* Every step of a call keeps the invariant.                               *)
LEMMA CallPreserves ==
    ASSUME IInv, NEW c \in Calls, CallArrives(c) \/ CancelCall(c) \/ CallStep(c)
    PROVE  IInv'
<1>0. TypeOK /\ SleepInv /\ c \in Users
  BY DEF IInv, Users
<1>s. c \in Sharers <=> at[c] \in {"granted", "inside", "leaving"}
  BY DEF Sharers, HoldsShared
<1>1. CASE CallArrives(c)
  <2>0. ready' \in Seq(Users)
    BY <1>0, <1>1 DEF CallArrives, TypeOK
  <2>1. OnlyMoves(c, "entering") /\ QueuesKept
    BY <1>0, <1>1, <2>0, PlainMove, AwakeMove DEF CallArrives
  <2>. QED
    BY <1>1, <1>s, <2>1, CallMoves DEF CallArrives, States
<1>2. CASE CancelCall(c) /\ at[c] = "entering"
  <2>1. OnlyMoves(c, "idle") /\ QueuesKept
    BY <1>0, <1>2, PlainMove, AwakeMove, DequeuedFacts DEF CancelCall
  <2>. QED
    BY <1>2, <1>s, <2>1, CallMoves DEF CancelCall, States
<1>3. CASE CancelCall(c) /\ at[c] = "asleep"
  <2>1. OnlyMoves(c, "canceled") /\ QueuesKept
    BY <1>0, <1>3, PlainMove, RousedFacts DEF CancelCall, QueuesKept
  <2>. QED
    BY <1>3, <1>s, <2>1, CallMoves DEF CancelCall, States
<1>4. CASE CancelCall(c) /\ at[c] = "woken"
  <2>1. OnlyMoves(c, "canceled") /\ QueuesKept
    BY <1>0, <1>4, PlainMove, AwakeMove DEF CancelCall, TypeOK
  <2>. QED
    BY <1>4, <1>s, <2>1, CallMoves DEF CancelCall, States
<1>5. CASE CancelCall(c) /\ at[c] = "granted"
  <2>0. ready' \in Seq(Users)
    BY <1>0, <1>5 DEF CancelCall, TypeOK
  <2>1. OnlyMoves(c, "leaving") /\ QueuesKept
    BY <1>0, <1>5, <2>0, PlainMove, AwakeMove DEF CancelCall
  <2>. QED
    BY <1>5, <1>s, <2>1, CallMoves DEF CancelCall, States
<1>6. CASE AcquireShared(c) /\ OpenToCalls
  <2>1. OnlyMoves(c, "granted") /\ QueuesKept
    BY <1>0, <1>6, NotifyFacts DEF AcquireShared, Turn, OnlyMoves, QueuesKept
  <2>. QED
    BY <1>6, <1>s, <2>1, CallMoves DEF AcquireShared, States
<1>7. CASE AcquireShared(c) /\ ~OpenToCalls
  <2>1. OnlyMoves(c, "asleep") /\ QueuesKept
    BY <1>0, <1>7, PlainMove, SleepFacts DEF AcquireShared, Turn, Sleep, QueuesKept
  <2>. QED
    BY <1>7, <1>s, <2>1, CallMoves DEF AcquireShared, States
<1>8. CASE CallProceeds(c)
  <2>1. OnlyMoves(c, "inside") /\ QueuesKept
    BY <1>0, <1>8, PlainMove, AwakeMove DEF CallProceeds, TypeOK
  <2>. QED
    BY <1>8, <1>s, <2>1, CallMoves DEF CallProceeds, States
<1>9. CASE CallEnds(c)
  <2>0. ready' \in Seq(Users)
    BY <1>0, <1>9 DEF CallEnds, TypeOK
  <2>1. OnlyMoves(c, "leaving") /\ QueuesKept
    BY <1>0, <1>9, <2>0, PlainMove, AwakeMove DEF CallEnds
  <2>. QED
    BY <1>9, <1>s, <2>1, CallMoves DEF CallEnds, States
<1>10. CASE CanceledCallLeaves(c)
  <2>1. OnlyMoves(c, "idle") /\ QueuesKept
    BY <1>0, <1>10, NotifyFacts DEF CanceledCallLeaves, Turn, OnlyMoves, QueuesKept
  <2>. QED
    BY <1>10, <1>s, <2>1, CallMoves DEF CanceledCallLeaves, States
<1>11. CASE ReleaseShared(c)
  <2>1. OnlyMoves(c, "idle") /\ QueuesKept
    BY <1>0, <1>11, NotifyFacts DEF ReleaseShared, Turn, OnlyMoves, QueuesKept
  <2>. QED
    BY <1>11, <1>s, <2>1, CallMoves DEF ReleaseShared, States
<1>. QED
  BY <1>1, <1>2, <1>3, <1>4, <1>5, <1>6, <1>7, <1>8, <1>9, <1>10, <1>11
     DEF CallStep, CancelCall, AcquireShared

(* Every step of a transition keeps the invariant.                         *)
LEMMA TransitionPreserves ==
    ASSUME IInv, NEW w \in Transitions,
           TransitionBegins(w) \/ CancelTransition(w) \/ TransitionStep(w)
    PROVE  IInv'
<1>0. TypeOK /\ SleepInv /\ LifecycleInv /\ w \in Users
  BY DEF IInv, Users
<1>s. w \in Waiters <=> at[w] \in {"asleep", "woken", "canceled"}
  BY DEF Waiters
<1>l. at[w] \notin {"idle", "done"} => lifecycle = w
  BY <1>0 DEF LifecycleInv
<1>o. at[w] \notin {"idle", "done"} => (writer <=> at[w] \in {"inside", "leaving"})
  <2>1. at[w] \notin {"idle", "done"} => Owners \subseteq {w}
    BY <1>0 DEF LifecycleInv, Owners, HoldsExclusive
  <2>2. w \in Owners <=> at[w] \in {"inside", "leaving"}
    BY DEF Owners, HoldsExclusive
  <2>. QED
    BY <2>1, <2>2, CountersMean DEF IInv
<1>b. writer \in BOOLEAN
  BY <1>0 DEF TypeOK
<1>1. CASE TransitionBegins(w)
  <2>0. ready' \in Seq(Users)
    BY <1>0, <1>1 DEF TransitionBegins, TypeOK
  <2>1. OnlyMoves(w, "entering") /\ QueuesKept
    BY <1>0, <1>1, <2>0, PlainMove, AwakeMove DEF TransitionBegins
  <2>2. writer = FALSE
    <3>1. Owners = {}
      BY <1>0, <1>1, ServerGateAssumption DEF TransitionBegins, LifecycleInv, Owners, HoldsExclusive
    <3>. QED
      BY <1>b, <3>1, CountersMean DEF IInv
  <2>3. writer' = FALSE
    BY <1>1, <2>2 DEF TransitionBegins
  <2>4. /\ w \notin Waiters /\ UNCHANGED <<readers, waitingWriters>>
        /\ lifecycle = NoOne /\ lifecycle' = w /\ at[w] # "done"
    BY <1>1, <1>s DEF TransitionBegins
  <2>. QED
    BY <2>1, <2>3, <2>4, TransitionMoves DEF States
<1>2. CASE CancelTransition(w) /\ at[w] = "entering"
  <2>1. OnlyMoves(w, "done") /\ QueuesKept
    BY <1>0, <1>2, PlainMove, AwakeMove, DequeuedFacts DEF CancelTransition
  <2>. QED
    BY <1>2, <1>s, <1>o, <1>b, <2>1, TransitionMoves DEF CancelTransition, States
<1>3. CASE CancelTransition(w) /\ at[w] = "asleep"
  <2>1. OnlyMoves(w, "canceled") /\ QueuesKept
    BY <1>0, <1>3, PlainMove, RousedFacts DEF CancelTransition, QueuesKept
  <2>. QED
    BY <1>3, <1>s, <1>l, <1>o, <1>b, <2>1, TransitionMoves DEF CancelTransition, States
<1>4. CASE CancelTransition(w) /\ at[w] = "woken"
  <2>1. OnlyMoves(w, "canceled") /\ QueuesKept
    BY <1>0, <1>4, PlainMove, AwakeMove DEF CancelTransition, TypeOK
  <2>. QED
    BY <1>4, <1>s, <1>l, <1>o, <1>b, <2>1, TransitionMoves DEF CancelTransition, States
<1>5. CASE AcquireExclusive(w) /\ OpenToTransition
  <2>1. OnlyMoves(w, "inside") /\ QueuesKept
    BY <1>0, <1>5, NotifyFacts DEF AcquireExclusive, Turn, OnlyMoves, QueuesKept
  <2>. QED
    BY <1>5, <1>s, <1>l, <2>1, TransitionMoves DEF AcquireExclusive, States
<1>6. CASE AcquireExclusive(w) /\ ~OpenToTransition
  <2>1. OnlyMoves(w, "asleep") /\ QueuesKept
    BY <1>0, <1>6, PlainMove, SleepFacts DEF AcquireExclusive, Turn, Sleep, QueuesKept
  <2>. QED
    BY <1>6, <1>s, <1>l, <1>o, <1>b, <2>1, TransitionMoves DEF AcquireExclusive, States
<1>7. CASE CanceledTransitionLeaves(w)
  <2>1. OnlyMoves(w, "done") /\ QueuesKept
    BY <1>0, <1>7, NotifyFacts DEF CanceledTransitionLeaves, Turn, OnlyMoves, QueuesKept
  <2>. QED
    BY <1>7, <1>s, <1>o, <1>b, <2>1, TransitionMoves DEF CanceledTransitionLeaves, States
<1>8. CASE TransitionEnds(w)
  <2>0. ready' \in Seq(Users)
    BY <1>0, <1>8 DEF TransitionEnds, TypeOK
  <2>1. OnlyMoves(w, "leaving") /\ QueuesKept
    BY <1>0, <1>8, <2>0, PlainMove, AwakeMove DEF TransitionEnds
  <2>. QED
    BY <1>8, <1>s, <1>l, <1>o, <1>b, <2>1, TransitionMoves DEF TransitionEnds, States
<1>9. CASE ReleaseExclusive(w)
  <2>1. OnlyMoves(w, "done") /\ QueuesKept
    BY <1>0, <1>9, NotifyFacts DEF ReleaseExclusive, Turn, OnlyMoves, QueuesKept
  <2>2. writer' = FALSE
    BY <1>9 DEF ReleaseExclusive
  <2>3. /\ w \notin Waiters /\ UNCHANGED <<readers, waitingWriters>>
        /\ lifecycle' = NoOne /\ at[w] # "done" /\ at[w] # "idle"
    BY <1>9, <1>s DEF ReleaseExclusive
  <2>. QED
    BY <2>1, <2>2, <2>3, TransitionMoves DEF States
<1>. QED
  BY <1>1, <1>2, <1>3, <1>4, <1>5, <1>6, <1>7, <1>8, <1>9
     DEF TransitionStep, CancelTransition, AcquireExclusive

(* IInv is inductive.                                                      *)
LEMMA IInvInductive == Spec => []IInv
<1>1. Init => IInv
  <2> SUFFICES ASSUME Init PROVE IInv
    OBVIOUS
  <2>1. Sharers = {} /\ Owners = {} /\ Waiters = {}
    BY DEF Init, Sharers, Owners, Waiters, HoldsShared, HoldsExclusive, Users
  <2>2. CountersAgree
    BY <2>1, CountersMean, FS_EmptySet DEF Init
  <2>3. TypeOK
    <3>1. readers \in Nat /\ waitingWriters \in Nat /\ lifecycle \in Transitions \cup {NoOne}
      BY DEF Init
    <3>2. writer \in BOOLEAN
      BY DEF Init
    <3>3. sleeping \in Seq(Users) /\ ready \in Seq(Users)
      BY DEF Init
    <3>4. at \in [Users -> {"idle", "entering", "asleep", "woken", "canceled",
                            "granted", "inside", "leaving", "done"}]
      BY DEF Init
    <3>. QED
      BY <3>1, <3>2, <3>3, <3>4 DEF TypeOK
  <2>4. SleepInv /\ LifecycleInv
    BY DEF Init, SleepInv, LifecycleInv, Users
  <2>. QED
    BY <2>2, <2>3, <2>4 DEF IInv
<1>2. IInv /\ [Next]_vars => IInv'
  <2> SUFFICES ASSUME IInv, [Next]_vars PROVE IInv'
    OBVIOUS
  <2>1. CASE UNCHANGED vars
    <3>1. Sharers' = Sharers /\ Owners' = Owners /\ Waiters' = Waiters
      BY <2>1 DEF vars, Sharers, Owners, Waiters, HoldsShared, HoldsExclusive
    <3>2. CountersAgree'
      BY <2>1, <3>1, CountersMean, CountersMeanNext DEF vars, IInv
    <3>. QED
      BY <2>1, <3>2 DEF vars, IInv, TypeOK, SleepInv, LifecycleInv
  <2>. QED
    BY <2>1, CallPreserves, TransitionPreserves DEF Next
<1>. QED
  BY <1>1, <1>2, PTL DEF Spec

(* Types of the gate: in particular no counter ever goes below zero, so    *)
(* no release finds the gate without its owner.                            *)
THEOREM GateTypeCorrect == Spec => []TypeOK
<1>1. IInv => TypeOK
  BY DEF IInv
<1>. QED
  BY <1>1, IInvInductive, PTL

(* The counters of the gate say who holds it and who waits for it,         *)
(* whatever is cancelled at whatever moment.                               *)
THEOREM CountersAgreeHolds == Spec => []CountersAgree
<1>1. IInv => CountersAgree
  BY DEF IInv
<1>. QED
  BY <1>1, IInvInductive, PTL
-----------------------------------------------------------------------------
(* Starting state of the abstract gate.                                    *)
LEMMA GateStarts == Init => Gate!Init
BY DEF Init, Gate!Init, HoldsShared, HoldsExclusive, Users

(* A step of a call is the call's coming in or going out, or nothing.      *)
LEMMA CallRefines ==
    ASSUME IInv, NEW c \in Calls, CallArrives(c) \/ CancelCall(c) \/ CallStep(c)
    PROVE  [Gate!Next]_(Gate!gate)
<1> USE DEF Sharers, Owners
<1>0. TypeOK /\ SleepInv /\ c \in Users /\ c \notin Transitions
  BY ServerGateAssumption DEF IInv, Users
<1>s. c \in Sharers <=> at[c] \in {"granted", "inside", "leaving"}
  BY DEF HoldsShared
<1>1. ASSUME NEW v \in {"idle", "entering", "asleep", "canceled"}, OnlyMoves(c, v)
      PROVE  [Gate!Next]_(Gate!gate)
  <2>1. Sharers' = Sharers \ {c} /\ Owners' = Owners
    BY <1>0, <1>1, MoveFacts
  <2>2. CASE c \in Sharers
    BY <2>1, <2>2 DEF Gate!Next, Gate!Unshare
  <2>3. CASE c \notin Sharers
    BY <2>1, <2>3 DEF Gate!gate
  <2>. QED
    BY <2>2, <2>3
<1>2. ASSUME NEW v \in {"inside", "leaving"}, OnlyMoves(c, v), c \in Sharers
      PROVE  [Gate!Next]_(Gate!gate)
  <2>1. Sharers' = Sharers /\ Owners' = Owners
    BY <1>0, <1>2, MoveFacts
  <2>. QED
    BY <2>1 DEF Gate!gate
<1>3. CASE CallArrives(c)
  BY <1>0, <1>1, <1>3, PlainMove DEF CallArrives
<1>4. CASE CancelCall(c)
  <2>1. CASE at[c] = "entering"
    BY <1>0, <1>1, <1>4, <2>1, PlainMove DEF CancelCall
  <2>2. CASE at[c] \in {"asleep", "woken"}
    BY <1>0, <1>1, <1>4, <2>2, PlainMove DEF CancelCall
  <2>3. CASE at[c] = "granted"
    BY <1>0, <1>2, <1>4, <1>s, <2>3, PlainMove DEF CancelCall
  <2>. QED
    BY <1>4, <2>1, <2>2, <2>3 DEF CancelCall
<1>5. CASE AcquireShared(c) /\ OpenToCalls
  <2>1. OnlyMoves(c, "granted")
    BY <1>0, <1>5, NotifyFacts DEF AcquireShared, Turn, OnlyMoves
  <2>2. Sharers' = Sharers \cup {c} /\ Owners' = Owners
    BY <1>0, <2>1, MoveFacts
  <2>3. Owners = {}
    BY <1>5, CountersMean DEF OpenToCalls, IInv
  <2>4. c \notin Sharers
    BY <1>5, <1>s DEF AcquireShared
  <2>. QED
    BY <2>2, <2>3, <2>4 DEF Gate!Next, Gate!Share
<1>6. CASE AcquireShared(c) /\ ~OpenToCalls
  BY <1>0, <1>1, <1>6, PlainMove DEF AcquireShared, Sleep
<1>7. CASE CallProceeds(c)
  BY <1>0, <1>2, <1>7, <1>s, PlainMove DEF CallProceeds
<1>8. CASE CallEnds(c)
  BY <1>0, <1>2, <1>8, <1>s, PlainMove DEF CallEnds
<1>9. CASE CanceledCallLeaves(c)
  <2>1. OnlyMoves(c, "idle")
    BY <1>0, <1>9, NotifyFacts DEF CanceledCallLeaves, Turn, OnlyMoves
  <2>. QED
    BY <1>1, <2>1
<1>10. CASE ReleaseShared(c)
  <2>1. OnlyMoves(c, "idle")
    BY <1>0, <1>10, NotifyFacts DEF ReleaseShared, Turn, OnlyMoves
  <2>. QED
    BY <1>1, <2>1
<1>. QED
  BY <1>3, <1>4, <1>5, <1>6, <1>7, <1>8, <1>9, <1>10 DEF CallStep, AcquireShared

(* A step of a transition takes the gate, gives it back, or is nothing.    *)
LEMMA TransitionRefines ==
    ASSUME IInv, NEW w \in Transitions,
           TransitionBegins(w) \/ CancelTransition(w) \/ TransitionStep(w)
    PROVE  [Gate!Next]_(Gate!gate)
<1> USE DEF Sharers, Owners
<1>0. TypeOK /\ SleepInv /\ LifecycleInv /\ w \in Users /\ w \notin Calls
  BY ServerGateAssumption DEF IInv, Users
<1>o. w \in Owners <=> at[w] \in {"inside", "leaving"}
  BY DEF HoldsExclusive
<1>1. ASSUME NEW v \in {"done", "entering", "asleep", "canceled"}, OnlyMoves(w, v),
             w \notin Owners
      PROVE  [Gate!Next]_(Gate!gate)
  <2>1. Sharers' = Sharers /\ Owners' = Owners
    BY <1>0, <1>1, MoveFacts
  <2>. QED
    BY <2>1 DEF Gate!gate
<1>2. CASE TransitionBegins(w)
  BY <1>0, <1>1, <1>2, <1>o, PlainMove DEF TransitionBegins
<1>3. CASE CancelTransition(w)
  BY <1>0, <1>1, <1>3, <1>o, PlainMove DEF CancelTransition
<1>4. CASE AcquireExclusive(w) /\ OpenToTransition
  <2>1. OnlyMoves(w, "inside")
    BY <1>0, <1>4, NotifyFacts DEF AcquireExclusive, Turn, OnlyMoves
  <2>2. Sharers = {} /\ Owners = {}
    BY <1>4, CountersMean, NobodyShares DEF OpenToTransition, IInv
  <2>3. Sharers' = Sharers /\ Owners' = {w}
    BY <1>0, <2>1, <2>2, MoveFacts
  <2>. QED
    BY <2>2, <2>3 DEF Gate!Next, Gate!Own
<1>5. CASE AcquireExclusive(w) /\ ~OpenToTransition
  BY <1>0, <1>1, <1>5, <1>o, PlainMove DEF AcquireExclusive, Sleep
<1>6. CASE CanceledTransitionLeaves(w)
  <2>1. OnlyMoves(w, "done") /\ w \notin Owners
    BY <1>0, <1>6, <1>o, NotifyFacts DEF CanceledTransitionLeaves, Turn, OnlyMoves
  <2>. QED
    BY <1>1, <2>1
<1>7. CASE TransitionEnds(w)
  <2>1. OnlyMoves(w, "leaving") /\ w \in Owners
    BY <1>0, <1>7, <1>o, PlainMove DEF TransitionEnds
  <2>2. Sharers' = Sharers /\ Owners' = Owners
    BY <1>0, <2>1, MoveFacts
  <2>. QED
    BY <2>2 DEF Gate!gate
<1>8. CASE ReleaseExclusive(w)
  <2>1. OnlyMoves(w, "done")
    BY <1>0, <1>8, NotifyFacts DEF ReleaseExclusive, Turn, OnlyMoves
  <2>2. Owners = {w}
    <3>1. w \in Owners /\ lifecycle = w
      BY <1>0, <1>8, <1>o DEF ReleaseExclusive, LifecycleInv
    <3>2. \A u \in Owners : u = w
      BY <1>0, <3>1 DEF LifecycleInv, HoldsExclusive
    <3>. QED
      BY <3>1, <3>2
  <2>3. Sharers' = Sharers /\ Owners' = {}
    BY <1>0, <2>1, <2>2, MoveFacts
  <2>. QED
    BY <2>2, <2>3 DEF Gate!Next, Gate!Disown
<1>. QED
  BY <1>2, <1>3, <1>4, <1>5, <1>6, <1>7, <1>8 DEF TransitionStep, AcquireExclusive

(* The gate does what it promises: calls and reads share it, a transition  *)
(* has it alone, for any number of users and under any cancellation.       *)
THEOREM GateRefines == Spec => ImplementsSharedExclusive
<1>1. IInv /\ [Next]_vars => [Gate!Next]_(Gate!gate)
  <2> SUFFICES ASSUME IInv, [Next]_vars PROVE [Gate!Next]_(Gate!gate)
    OBVIOUS
  <2>1. CASE UNCHANGED vars
    BY <2>1 DEF vars, Gate!gate, HoldsShared, HoldsExclusive
  <2>. QED
    BY <2>1, CallRefines, TransitionRefines DEF Next
<1>. QED
  BY <1>1, GateStarts, IInvInductive, PTL DEF Spec, ImplementsSharedExclusive, Gate!Spec

-----------------------------------------------------------------------------
(* Shells. Where a call stands says what it holds: the session it runs its *)
(* command in, the registry lock, the process it ends, which no table has  *)
(* any more; and after the registry's cancellation it only ends what it    *)
(* ran.                                                                    *)
Pids == Commanded!Pids
Stages == {"idle", "prune", "lock", "spawn", "drain", "read", "wait", "kill", "done"}
Call == [kind : Commanded!Kinds, on : 0 .. MaxSpawned, target : 0 .. MaxSpawned,
         at : Stages, todo : SUBSET Pids, got : SUBSET Tools]

Ending(c) == call[c].at \in {"idle", "done"} \/ (call[c].at = "kill" /\ ~Commanded!WasPruning(c))

CallInv(c) ==
    /\ call[c].at \in {"drain", "read"} => /\ call[c].kind = "exec" /\ call[c].on \in Pids
                                           /\ executing[call[c].on] = c
    /\ call[c].at = "wait" => call[c].kind = "once" /\ call[c].on \in Pids
    /\ call[c].at \in {"lock", "spawn"} => call[c].kind = "start"
    /\ call[c].at = "spawn" => starting = c /\ Cardinality(table) < MaxSessions
    /\ call[c].at = "kill" => /\ call[c].target \in Pids \ table /\ call[c].target =< shells
                              /\ Commanded!WasPruning(c) => executing[call[c].target] = Free
    /\ call[c].kind = "exec" => call[c].on \in Pids
    /\ call[c].on =< shells /\ \A p \in call[c].todo : p =< shells
    /\ call[c].got \subseteq {c} \cup cutOff
    /\ call[c].at = "idle" => told[c] = {}
    /\ "registry" \in told[c] \/ shutdown \in {"closing", "closed"} => Ending(c)

(* A session's lock is held by the call whose command it runs.             *)
Held ==
    \A p \in Pids, c \in Tools :
        executing[p] = c => /\ call[c].kind = "exec" /\ call[c].on = p
                            /\ call[c].at \in {"drain", "read", "kill"}
                            /\ call[c].at = "kill" => call[c].target = p

(* A pipe that will be read has the output of the command that runs, and   *)
(* of those that were cut off.                                             *)
Piped ==
    \A p \in Pids : /\ p \in table \/ executing[p] # Free => unread[p] \subseteq {executing[p]} \cup cutOff
                    /\ p > shells => unread[p] = {}

Tabled ==
    /\ \A p \in table : p =< shells
    /\ Cardinality(table) =< MaxSessions
    /\ shutdown = "closed" => table = {}

(* A process that runs is in the table, or a call waits for it or ends it. *)
Living ==
    \A p \in alive :
        \/ p \in table \/ p \in spared
        \/ \E c \in Tools : \/ call[c].at = "kill" /\ call[c].target = p
                            \/ call[c].at = "wait" /\ call[c].on = p

ShellInv == Commanded!TypeOK /\ (\A c \in Tools : CallInv(c)) /\ Held /\ Piped /\ Tabled /\ Living

(* The constants, and the numbers of processes.                            *)
LEMMA ShellBounds ==
    /\ Free \notin Tools /\ MaxSessions \in Nat /\ MaxSessions > 0 /\ MaxSpawned \in Nat
    /\ Pids = 1 .. MaxSpawned /\ IsFiniteSet(Pids) /\ 0 .. MaxSpawned \subseteq Nat
<1>1. Free \notin Tools /\ MaxSessions \in Nat /\ MaxSessions > 0 /\ MaxSpawned \in Nat
  BY ClientsAssumption DEF Commanded!ShellAssumption
<1>2. Pids = 1 .. MaxSpawned
  BY DEF Pids, Commanded!Pids
<1> QED
  BY <1>1, <1>2, FS_Interval

(* The cardinality of the shells' module is this one.                      *)
LEMMA SameCount == \A S : Commanded!Cardinality(S) = Cardinality(S)
BY DEF Commanded!Cardinality, Cardinality

(* The types, once more in the names above.                                *)
ShellTyped ==
    /\ call \in [Tools -> Call]
    /\ table \in SUBSET Pids /\ alive \in SUBSET Pids /\ stubborn \in SUBSET Pids
    /\ expired \in SUBSET Pids /\ executing \in [Pids -> Tools \cup {Free}]
    /\ unread \in [Pids -> SUBSET Tools] /\ starting \in Tools \cup {Free}
    /\ mutating \in Tools \cup {Free} /\ shells \in 0 .. MaxSpawned
    /\ shutdown \in {"open", "canceling", "closing", "closed"}
    /\ told \in [Tools -> SUBSET {"owner", "registry"}]
    /\ spared \in SUBSET Pids /\ cutOff \in SUBSET Tools

(* What the model types, with records named; ...                           *)
LEMMA ShellTypes == Commanded!TypeOK <=> ShellTyped
BY DEF Commanded!TypeOK, ShellTyped, Call, Stages, Pids

(* ... and after a step.                                                   *)
LEMMA TypesBack == ShellTyped' => Commanded!TypeOK'
BY DEF Commanded!TypeOK, ShellTyped, Call, Stages, Pids

(* What a call becomes.                                                    *)
LEMMA CallShapes ==
    /\ Commanded!Idle \in Call
    /\ \A r \in Call : /\ r.on \in 0 .. MaxSpawned /\ r.target \in 0 .. MaxSpawned /\ r.at \in Stages
                       /\ r.todo \subseteq Pids /\ r.got \subseteq Tools /\ r.kind \in Commanded!Kinds
    /\ \A r \in Call, stage \in Stages : [r EXCEPT !.at = stage] \in Call
    /\ \A r \in Call, stage \in Stages, got \in SUBSET Tools : [r EXCEPT !.at = stage, !.got = got] \in Call
    /\ \A r \in Call, stage \in Stages, p \in 0 .. MaxSpawned : [r EXCEPT !.at = stage, !.target = p] \in Call
    /\ \A r \in Call, stage \in Stages, p \in 0 .. MaxSpawned, todo \in SUBSET Pids :
        [r EXCEPT !.at = stage, !.target = p, !.todo = todo] \in Call
    /\ \A k \in Commanded!Kinds, p \in 0 .. MaxSpawned, todo \in SUBSET Pids :
        /\ [Commanded!Idle EXCEPT !.kind = k, !.at = "prune", !.on = p, !.todo = todo] \in Call
        /\ [Commanded!Idle EXCEPT !.kind = k, !.at = "kill", !.target = p] \in Call
        /\ [Commanded!Idle EXCEPT !.kind = k, !.at = "wait", !.on = p] \in Call
<1>1. Commanded!Idle \in Call
  BY ShellBounds DEF Commanded!Idle, Call, Stages, Commanded!Kinds
<1>2. \A k \in Commanded!Kinds, p \in 0 .. MaxSpawned, todo \in SUBSET Pids :
        /\ [Commanded!Idle EXCEPT !.kind = k, !.at = "prune", !.on = p, !.todo = todo] \in Call
        /\ [Commanded!Idle EXCEPT !.kind = k, !.at = "kill", !.target = p] \in Call
        /\ [Commanded!Idle EXCEPT !.kind = k, !.at = "wait", !.on = p] \in Call
  BY <1>1 DEF Call, Commanded!Idle, Stages
<1>3. /\ \A r \in Call : /\ r.on \in 0 .. MaxSpawned /\ r.target \in 0 .. MaxSpawned /\ r.at \in Stages
                         /\ r.todo \subseteq Pids /\ r.got \subseteq Tools /\ r.kind \in Commanded!Kinds
      /\ \A r \in Call, stage \in Stages : [r EXCEPT !.at = stage] \in Call
  BY DEF Call
<1>4. /\ \A r \in Call, stage \in Stages, got \in SUBSET Tools : [r EXCEPT !.at = stage, !.got = got] \in Call
      /\ \A r \in Call, stage \in Stages, p \in 0 .. MaxSpawned : [r EXCEPT !.at = stage, !.target = p] \in Call
  BY DEF Call
<1>5. \A r \in Call, stage \in Stages, p \in 0 .. MaxSpawned, todo \in SUBSET Pids :
        [r EXCEPT !.at = stage, !.target = p, !.todo = todo] \in Call
  BY DEF Call
<1> QED
  BY <1>1, <1>2, <1>3, <1>4, <1>5

(* A table that loses sessions, and one that gains one.                    *)
LEMMA TableCounts ==
    ASSUME table \in SUBSET Pids
    PROVE  /\ Cardinality(table) \in Nat
           /\ \A t \in SUBSET table : Cardinality(t) \in Nat /\ Cardinality(t) =< Cardinality(table)
           /\ \A p \in Pids \ table : Cardinality(table \cup {p}) = Cardinality(table) + 1
<1>1. IsFiniteSet(table)
  BY ShellBounds, FS_Subset
<1>2. Cardinality(table) \in Nat
  BY <1>1, FS_CardinalityType
<1>3. ASSUME NEW t \in SUBSET table PROVE Cardinality(t) \in Nat /\ Cardinality(t) =< Cardinality(table)
  BY <1>1, FS_Subset, FS_CardinalityType
<1>4. ASSUME NEW p \in Pids \ table PROVE Cardinality(table \cup {p}) = Cardinality(table) + 1
  BY <1>1, FS_AddElement
<1> QED
  BY <1>2, <1>3, <1>4

(* The invariant, about one call.                                          *)
LEMMA CallFacts ==
    ASSUME ShellInv, NEW c \in Tools
    PROVE  /\ ShellTyped /\ CallInv(c) /\ Held /\ Piped /\ Tabled /\ Living /\ call[c] \in Call
           /\ shells \in Nat /\ shells =< MaxSpawned /\ \A p \in Pids : p \in Nat
           /\ call[c].on \in Nat /\ call[c].target \in Nat /\ call[c].todo \subseteq Pids
<1>1. ShellTyped /\ CallInv(c) /\ Held /\ Piped /\ Tabled /\ Living
  BY ShellTypes DEF ShellInv
<1>2. call[c] \in Call /\ shells \in 0 .. MaxSpawned
  BY <1>1 DEF ShellTyped
<1>3. call[c].on \in 0 .. MaxSpawned /\ call[c].target \in 0 .. MaxSpawned /\ call[c].todo \subseteq Pids
  BY <1>2, CallShapes
<1>4. \A n \in 0 .. MaxSpawned : n \in Nat /\ n =< MaxSpawned
  BY ShellBounds
<1>5. \A p \in Pids : p \in Nat
  BY ShellBounds
<1> QED
  BY <1>1, <1>2, <1>3, <1>4, <1>5

(* A step of a call c that leaves what the other calls rely on.            *)
Alone(c) ==
    /\ \A d \in Tools \ {c} : /\ call'[d] = call[d] /\ told'[d] = told[d]
                              /\ starting' = d <=> starting = d
                              /\ \A p \in Pids : executing'[p] = d <=> executing[p] = d
    /\ \A p \in Pids : executing[p] = Free => executing'[p] = Free \/ p \in table
    /\ shells' \in Nat /\ shells =< shells' /\ cutOff \subseteq cutOff' /\ shutdown' = shutdown
    /\ table' \in SUBSET Pids /\ \A p \in table' \ table : p > shells
    /\ table' \subseteq table \/ starting = c

(* A call is not disturbed by a step of another.                           *)
LEMMA Untouched ==
    ASSUME ShellInv, NEW c \in Tools, Alone(c)
    PROVE  \A d \in Tools \ {c} : CallInv(d)'
<1> SUFFICES ASSUME NEW d \in Tools \ {c} PROVE CallInv(d)'
  OBVIOUS
<1>1. ShellTyped /\ CallInv(d) /\ Tabled
  BY ShellTypes DEF ShellInv
<1>2. call'[d] = call[d] /\ told'[d] = told[d] /\ call[d] \in Call /\ shutdown' = shutdown
  BY <1>1 DEF ShellTyped, Alone
<1>3. table \in SUBSET Pids /\ shells \in Nat /\ \A p \in Pids : p \in Nat
  BY <1>1, ShellBounds DEF ShellTyped
<1>4. call[d].on \in Nat /\ call[d].target \in Nat /\ call[d].todo \subseteq Pids
  BY <1>2, CallShapes, ShellBounds
<1>5. Commanded!WasPruning(d)' <=> Commanded!WasPruning(d)
  BY <1>1, <1>2 DEF Alone, Commanded!WasPruning, CallInv
<1>6. Ending(d)' <=> Ending(d)
  BY <1>2, <1>5 DEF Ending
<1>7. call[d].at = "spawn" => starting' = d /\ Cardinality(table') < MaxSessions
  <2> SUFFICES ASSUME call[d].at = "spawn" PROVE starting' = d /\ Cardinality(table') < MaxSessions
    OBVIOUS
  <2>1. starting = d /\ starting' = d /\ Cardinality(table) < MaxSessions
    BY <1>1 DEF CallInv, Alone
  <2>2. table' \subseteq table
    BY <2>1 DEF Alone
  <2> QED
    BY <1>3, <2>1, <2>2, TableCounts, ShellBounds
<1>8. call[d].at = "kill" => /\ call[d].target \in Pids \ table' /\ call[d].target =< shells'
                             /\ Commanded!WasPruning(d) => executing'[call[d].target] = Free
  BY <1>1, <1>3, <1>4 DEF CallInv, Alone
<1>9. call[d].got \subseteq {d} \cup cutOff'
  BY <1>1 DEF CallInv, Alone
<1>10. call[d].on =< shells' /\ \A p \in call[d].todo : p =< shells'
  BY <1>1, <1>3, <1>4 DEF CallInv, Alone
<1>11. /\ call[d].at \in {"drain", "read"} => /\ call[d].kind = "exec" /\ call[d].on \in Pids
                                              /\ executing'[call[d].on] = d
       /\ call[d].at = "wait" => call[d].kind = "once" /\ call[d].on \in Pids
       /\ call[d].at \in {"lock", "spawn"} => call[d].kind = "start"
       /\ call[d].kind = "exec" => call[d].on \in Pids
       /\ call[d].at = "idle" => told[d] = {}
       /\ "registry" \in told[d] \/ shutdown \in {"closing", "closed"} => Ending(d)
  BY <1>1 DEF CallInv, Alone
<1> QED
  BY <1>2, <1>5, <1>6, <1>7, <1>8, <1>9, <1>10, <1>11 DEF CallInv

(* A call that is over.                                                    *)
LEMMA Finished ==
    ASSUME NEW c \in Tools, call'[c].at = "done", call'[c].kind = "exec" => call'[c].on \in Pids,
           call'[c].on =< shells', \A p \in call'[c].todo : p =< shells', call'[c].got \subseteq {c} \cup cutOff'
    PROVE  CallInv(c)'
BY DEF CallInv, Ending

(* What a call that ends gives back.                                       *)
LEMMA Freed ==
    ASSUME ShellTyped, NEW c \in Tools,
           executing' = [p \in Pids |-> IF executing[p] = c THEN Free ELSE executing[p]],
           starting' = IF starting = c THEN Free ELSE starting
    PROVE  /\ executing' \in [Pids -> Tools \cup {Free}] /\ starting' \in Tools \cup {Free}
           /\ starting' # c /\ \A p \in Pids : executing'[p] # c
           /\ \A p \in Pids : executing[p] = Free => executing'[p] = Free
           /\ \A d \in Tools \ {c} : /\ starting' = d <=> starting = d
                                     /\ \A p \in Pids : executing'[p] = d <=> executing[p] = d
BY ShellBounds DEF ShellTyped

(* Sessions taken out of the table, and one put into it.                   *)
LEMMA TableLess ==
    ASSUME ShellTyped, Tabled, table' \subseteq table, shells' \in Nat, shells =< shells',
           shutdown' = shutdown
    PROVE  Tabled'
<1>1. table \in SUBSET Pids /\ shells \in Nat /\ \A p \in Pids : p \in Nat
  BY ShellBounds DEF ShellTyped
<1> QED
  BY <1>1, TableCounts, ShellBounds DEF Tabled

(* A call that begins looks for idle sessions; ...                         *)
LEMMA BeginsKept ==
    ASSUME ShellInv,
           NEW c \in Tools,
           NEW k \in {"start", "exec", "list"},
           NEW sid \in 0 .. shells,
           call[c].at = "idle",
           shutdown = "open",
           (k = "exec") = (sid # 0),
           call' = [call EXCEPT ![c] = [Commanded!Idle EXCEPT !.kind = k, !.at = "prune", !.on = sid, !.todo = table]],
           mutating' = IF k = "exec" THEN c ELSE mutating,
           UNCHANGED <<table, alive, stubborn, expired, executing, unread, starting, shells,
           shutdown, told, spared, cutOff>>
    PROVE  ShellInv'
<1>0. /\ ShellTyped /\ CallInv(c) /\ Held /\ Piped /\ Tabled /\ Living /\ call[c] \in Call
      /\ shells \in Nat /\ shells =< MaxSpawned /\ \A p \in Pids : p \in Nat
      /\ call[c].on \in Nat /\ call[c].target \in Nat /\ call[c].todo \subseteq Pids
  BY CallFacts
<1>1. /\ call'[c].kind = k
      /\ call'[c].at = "prune"
      /\ call'[c].on = sid
      /\ call'[c].target = 0
      /\ call'[c].got = {}
      /\ call'[c].todo = table
      /\ call' \in [Tools -> Call] /\ \A d \in Tools \ {c} : call'[d] = call[d]
  <2>1. call'[c] = [Commanded!Idle EXCEPT !.kind = k, !.at = "prune", !.on = sid, !.todo = table] /\ \A d \in Tools \ {c} : call'[d] = call[d]
    BY <1>0 DEF ShellTyped
  <2>2. [Commanded!Idle EXCEPT !.kind = k, !.at = "prune", !.on = sid, !.todo = table] \in Call
    <3>1. k \in Commanded!Kinds /\ sid \in 0 .. MaxSpawned /\ table \in SUBSET Pids
      BY <1>0, ShellBounds DEF ShellTyped, Commanded!Kinds
    <3> QED
      BY <3>1, CallShapes
  <2>3. call' \in [Tools -> Call]
    BY <1>0, <2>1, <2>2 DEF ShellTyped
  <2> QED
    BY <1>0, <2>1, <2>3 DEF Call, Commanded!Idle
<1>2. ShellTyped'
  BY <1>0, <1>1, ShellBounds DEF ShellTyped
<1>3. \A d \in Tools \ {c} : CallInv(d)'
  <2>1. \A d \in Tools \ {c} : /\ call'[d] = call[d] /\ told'[d] = told[d]
                               /\ starting' = d <=> starting = d
                               /\ \A p \in Pids : executing'[p] = d <=> executing[p] = d
    BY <1>0, <1>1, ShellBounds DEF ShellTyped, CallInv
  <2>2. \A p \in Pids : executing[p] = Free => executing'[p] = Free \/ p \in table
    BY <1>0, <1>1, ShellBounds DEF ShellTyped, CallInv
  <2>3. /\ shells' \in Nat /\ shells =< shells' /\ cutOff \subseteq cutOff' /\ shutdown' = shutdown
        /\ table' \in SUBSET Pids /\ \A p \in table' \ table : p > shells
        /\ table' \subseteq table \/ starting = c
    BY <1>0, <1>1, <1>2, ShellBounds DEF ShellTyped, CallInv
  <2>4. Alone(c)
    BY <2>1, <2>2, <2>3 DEF Alone
  <2> QED
    BY <2>4, Untouched
<1>4. CallInv(c)'
  <2>1. /\ call'[c].on =< shells' /\ (call'[c].kind = "exec" => call'[c].on \in Pids)
        /\ call'[c].got \subseteq {c} \cup cutOff'
    <3>1. sid =< shells /\ sid \in Nat /\ (k = "exec" => sid # 0)
      BY <1>0
    <3>2. k = "exec" => sid \in Pids
      BY <1>0, <3>1, ShellBounds
    <3> QED
      BY <1>0, <1>1, <3>1, <3>2
  <2>2. "registry" \in told'[c] \/ shutdown' \in {"closing", "closed"} => Ending(c)'
    BY <1>0, <1>1 DEF CallInv, Ending, Commanded!WasPruning, ShellTyped
  <2>3. call'[c].at = "kill" => /\ call'[c].target \in Pids \ table' /\ call'[c].target =< shells'
                                /\ Commanded!WasPruning(c)' => executing'[call'[c].target] = Free
    BY <1>0, <1>1, <1>2, ShellBounds DEF CallInv, Tabled, ShellTyped, Commanded!WasPruning
  <2>4. /\ call'[c].at \in {"drain", "read"} => /\ call'[c].kind = "exec" /\ call'[c].on \in Pids
                                                /\ executing'[call'[c].on] = c
        /\ call'[c].at = "wait" => call'[c].kind = "once" /\ call'[c].on \in Pids
        /\ call'[c].at \in {"lock", "spawn"} => call'[c].kind = "start"
        /\ call'[c].at # "idle" /\ \A p \in call'[c].todo : p =< shells'
        /\ call'[c].at = "spawn" => starting' = c /\ Cardinality(table') < MaxSessions
    BY <1>0, <1>1, <1>2, ShellBounds DEF CallInv, Tabled, ShellTyped
  <2> QED
    BY <2>1, <2>2, <2>3, <2>4 DEF CallInv
<1>5. Held'
  BY <1>0, <1>1, <1>2, ShellBounds DEF ShellTyped, Held, CallInv
<1>6. Piped'
  BY <1>0, <1>1, <1>2, ShellBounds DEF ShellTyped, Piped, CallInv, Held
<1>7. Tabled'
  BY <1>0, TableLess
<1>8. Living'
  BY <1>0, <1>1, <1>2 DEF ShellTyped, Living, CallInv
<1> QED
  BY <1>2, <1>3, <1>4, <1>5, <1>6, <1>7, <1>8, TypesBack DEF ShellInv

(* ... or it stops a session; ...                                          *)
LEMMA StopsKept ==
    ASSUME ShellInv,
           NEW c \in Tools,
           NEW sid \in table,
           call[c].at = "idle",
           shutdown = "open",
           call' = [call EXCEPT ![c] = [Commanded!Idle EXCEPT !.kind = "stop", !.at = "kill", !.target = sid]],
           table' = table \ {sid},
           UNCHANGED <<alive, stubborn, expired, executing, unread, starting, mutating, shells,
           shutdown, told, spared, cutOff>>
    PROVE  ShellInv'
<1>0. /\ ShellTyped /\ CallInv(c) /\ Held /\ Piped /\ Tabled /\ Living /\ call[c] \in Call
      /\ shells \in Nat /\ shells =< MaxSpawned /\ \A p \in Pids : p \in Nat
      /\ call[c].on \in Nat /\ call[c].target \in Nat /\ call[c].todo \subseteq Pids
  BY CallFacts
<1>1. /\ call'[c].kind = "stop"
      /\ call'[c].at = "kill"
      /\ call'[c].on = 0
      /\ call'[c].target = sid
      /\ call'[c].got = {}
      /\ call'[c].todo = {}
      /\ call' \in [Tools -> Call] /\ \A d \in Tools \ {c} : call'[d] = call[d]
  <2>1. call'[c] = [Commanded!Idle EXCEPT !.kind = "stop", !.at = "kill", !.target = sid] /\ \A d \in Tools \ {c} : call'[d] = call[d]
    BY <1>0 DEF ShellTyped
  <2>2. [Commanded!Idle EXCEPT !.kind = "stop", !.at = "kill", !.target = sid] \in Call
    <3>1. "stop" \in Commanded!Kinds /\ sid \in 0 .. MaxSpawned
      BY <1>0, ShellBounds DEF ShellTyped, Commanded!Kinds
    <3> QED
      BY <3>1, CallShapes
  <2>3. call' \in [Tools -> Call]
    BY <1>0, <2>1, <2>2 DEF ShellTyped
  <2> QED
    BY <1>0, <2>1, <2>3 DEF Call, Commanded!Idle
<1>2. ShellTyped'
  BY <1>0, <1>1, ShellBounds DEF ShellTyped
<1>3. \A d \in Tools \ {c} : CallInv(d)'
  <2>1. \A d \in Tools \ {c} : /\ call'[d] = call[d] /\ told'[d] = told[d]
                               /\ starting' = d <=> starting = d
                               /\ \A p \in Pids : executing'[p] = d <=> executing[p] = d
    BY <1>0, <1>1, ShellBounds DEF ShellTyped, CallInv
  <2>2. \A p \in Pids : executing[p] = Free => executing'[p] = Free \/ p \in table
    BY <1>0, <1>1, ShellBounds DEF ShellTyped, CallInv
  <2>3. /\ shells' \in Nat /\ shells =< shells' /\ cutOff \subseteq cutOff' /\ shutdown' = shutdown
        /\ table' \in SUBSET Pids /\ \A p \in table' \ table : p > shells
        /\ table' \subseteq table \/ starting = c
    BY <1>0, <1>1, <1>2, ShellBounds DEF ShellTyped, CallInv
  <2>4. Alone(c)
    BY <2>1, <2>2, <2>3 DEF Alone
  <2> QED
    BY <2>4, Untouched
<1>4. CallInv(c)'
  <2>1. /\ call'[c].on =< shells' /\ (call'[c].kind = "exec" => call'[c].on \in Pids)
        /\ call'[c].got \subseteq {c} \cup cutOff'
    BY <1>0, <1>1 DEF CallInv, ShellTyped
  <2>2. "registry" \in told'[c] \/ shutdown' \in {"closing", "closed"} => Ending(c)'
    BY <1>0, <1>1 DEF CallInv, Ending, Commanded!WasPruning, ShellTyped
  <2>3. call'[c].at = "kill" => /\ call'[c].target \in Pids \ table' /\ call'[c].target =< shells'
                                /\ Commanded!WasPruning(c)' => executing'[call'[c].target] = Free
    BY <1>0, <1>1, <1>2, ShellBounds DEF CallInv, Tabled, ShellTyped, Commanded!WasPruning
  <2>4. /\ call'[c].at \in {"drain", "read"} => /\ call'[c].kind = "exec" /\ call'[c].on \in Pids
                                                /\ executing'[call'[c].on] = c
        /\ call'[c].at = "wait" => call'[c].kind = "once" /\ call'[c].on \in Pids
        /\ call'[c].at \in {"lock", "spawn"} => call'[c].kind = "start"
        /\ call'[c].at # "idle" /\ \A p \in call'[c].todo : p =< shells'
        /\ call'[c].at = "spawn" => starting' = c /\ Cardinality(table') < MaxSessions
    BY <1>0, <1>1, <1>2, ShellBounds DEF CallInv, Tabled, ShellTyped
  <2> QED
    BY <2>1, <2>2, <2>3, <2>4 DEF CallInv
<1>5. Held'
  BY <1>0, <1>1, <1>2, ShellBounds DEF ShellTyped, Held, CallInv
<1>6. Piped'
  BY <1>0, <1>1, <1>2, ShellBounds DEF ShellTyped, Piped, CallInv, Held
<1>7. Tabled'
  BY <1>0, TableLess
<1>8. Living'
  BY <1>0, <1>1, <1>2 DEF ShellTyped, Living, CallInv
<1> QED
  BY <1>2, <1>3, <1>4, <1>5, <1>6, <1>7, <1>8, TypesBack DEF ShellInv

(* ... or it starts a process of its own.                                  *)
LEMMA OnceBeginsKept ==
    ASSUME ShellInv,
           NEW c \in Tools,
           NEW ignores \in BOOLEAN,
           call[c].at = "idle",
           shutdown = "open",
           shells < MaxSpawned,
           call' = [call EXCEPT ![c] = [Commanded!Idle EXCEPT !.kind = "once", !.at = "wait", !.on = shells']],
           shells' = shells + 1,
           mutating' = c,
           alive' = alive \cup {shells'},
           stubborn' = IF ignores THEN stubborn \cup {shells'} ELSE stubborn,
           UNCHANGED <<table, expired, executing, unread, starting, shutdown, told, spared,
           cutOff>>
    PROVE  ShellInv'
<1>0. /\ ShellTyped /\ CallInv(c) /\ Held /\ Piped /\ Tabled /\ Living /\ call[c] \in Call
      /\ shells \in Nat /\ shells =< MaxSpawned /\ \A p \in Pids : p \in Nat
      /\ call[c].on \in Nat /\ call[c].target \in Nat /\ call[c].todo \subseteq Pids
  BY CallFacts
<1>1. /\ call'[c].kind = "once"
      /\ call'[c].at = "wait"
      /\ call'[c].on = shells + 1
      /\ call'[c].target = 0
      /\ call'[c].got = {}
      /\ call'[c].todo = {}
      /\ call' \in [Tools -> Call] /\ \A d \in Tools \ {c} : call'[d] = call[d]
  <2>1. call'[c] = [Commanded!Idle EXCEPT !.kind = "once", !.at = "wait", !.on = shells'] /\ \A d \in Tools \ {c} : call'[d] = call[d]
    BY <1>0 DEF ShellTyped
  <2>2. [Commanded!Idle EXCEPT !.kind = "once", !.at = "wait", !.on = shells'] \in Call
    <3>1. "once" \in Commanded!Kinds /\ shells' \in 0 .. MaxSpawned
      BY <1>0, ShellBounds DEF ShellTyped, Commanded!Kinds
    <3> QED
      BY <3>1, CallShapes
  <2>3. call' \in [Tools -> Call]
    BY <1>0, <2>1, <2>2 DEF ShellTyped
  <2> QED
    BY <1>0, <2>1, <2>3 DEF Call, Commanded!Idle
<1>2. ShellTyped'
  BY <1>0, <1>1, ShellBounds DEF ShellTyped
<1>3. \A d \in Tools \ {c} : CallInv(d)'
  <2>1. \A d \in Tools \ {c} : /\ call'[d] = call[d] /\ told'[d] = told[d]
                               /\ starting' = d <=> starting = d
                               /\ \A p \in Pids : executing'[p] = d <=> executing[p] = d
    BY <1>0, <1>1, ShellBounds DEF ShellTyped, CallInv
  <2>2. \A p \in Pids : executing[p] = Free => executing'[p] = Free \/ p \in table
    BY <1>0, <1>1, ShellBounds DEF ShellTyped, CallInv
  <2>3. /\ shells' \in Nat /\ shells =< shells' /\ cutOff \subseteq cutOff' /\ shutdown' = shutdown
        /\ table' \in SUBSET Pids /\ \A p \in table' \ table : p > shells
        /\ table' \subseteq table \/ starting = c
    BY <1>0, <1>1, <1>2, ShellBounds DEF ShellTyped, CallInv
  <2>4. Alone(c)
    BY <2>1, <2>2, <2>3 DEF Alone
  <2> QED
    BY <2>4, Untouched
<1>4. CallInv(c)'
  <2>1. /\ call'[c].on =< shells' /\ (call'[c].kind = "exec" => call'[c].on \in Pids)
        /\ call'[c].got \subseteq {c} \cup cutOff'
    BY <1>0, <1>1 DEF CallInv, ShellTyped
  <2>2. "registry" \in told'[c] \/ shutdown' \in {"closing", "closed"} => Ending(c)'
    BY <1>0, <1>1 DEF CallInv, Ending, Commanded!WasPruning, ShellTyped
  <2>3. call'[c].at = "kill" => /\ call'[c].target \in Pids \ table' /\ call'[c].target =< shells'
                                /\ Commanded!WasPruning(c)' => executing'[call'[c].target] = Free
    BY <1>0, <1>1, <1>2, ShellBounds DEF CallInv, Tabled, ShellTyped, Commanded!WasPruning
  <2>4. /\ call'[c].at \in {"drain", "read"} => /\ call'[c].kind = "exec" /\ call'[c].on \in Pids
                                                /\ executing'[call'[c].on] = c
        /\ call'[c].at = "wait" => call'[c].kind = "once" /\ call'[c].on \in Pids
        /\ call'[c].at \in {"lock", "spawn"} => call'[c].kind = "start"
        /\ call'[c].at # "idle" /\ \A p \in call'[c].todo : p =< shells'
        /\ call'[c].at = "spawn" => starting' = c /\ Cardinality(table') < MaxSessions
    BY <1>0, <1>1, <1>2, ShellBounds DEF CallInv, Tabled, ShellTyped
  <2> QED
    BY <2>1, <2>2, <2>3, <2>4 DEF CallInv
<1>5. Held'
  BY <1>0, <1>1, <1>2, ShellBounds DEF ShellTyped, Held, CallInv
<1>6. Piped'
  BY <1>0, <1>1, <1>2, ShellBounds DEF ShellTyped, Piped, CallInv, Held
<1>7. Tabled'
  BY <1>0, TableLess
<1>8. Living'
  BY <1>0, <1>1, <1>2 DEF ShellTyped, Living, CallInv
<1> QED
  BY <1>2, <1>3, <1>4, <1>5, <1>6, <1>7, <1>8, TypesBack DEF ShellInv

(* An idle session is ended.                                               *)
LEMMA PrunesKept ==
    ASSUME ShellInv,
           NEW c \in Tools,
           NEW sid \in Pids,
           NEW rest \in SUBSET (call[c].todo \ {sid}),
           call[c].at = "prune",
           sid \in call[c].todo,
           executing[sid] = Free,
           call' = [call EXCEPT ![c].at = "kill", ![c].target = sid, ![c].todo = rest],
           table' = table \ {sid},
           UNCHANGED <<alive, stubborn, expired, executing, unread, starting, mutating, shells,
           shutdown, told, spared, cutOff>>
    PROVE  ShellInv'
<1>0. /\ ShellTyped /\ CallInv(c) /\ Held /\ Piped /\ Tabled /\ Living /\ call[c] \in Call
      /\ shells \in Nat /\ shells =< MaxSpawned /\ \A p \in Pids : p \in Nat
      /\ call[c].on \in Nat /\ call[c].target \in Nat /\ call[c].todo \subseteq Pids
  BY CallFacts
<1>1. /\ call'[c].kind = call[c].kind
      /\ call'[c].at = "kill"
      /\ call'[c].on = call[c].on
      /\ call'[c].target = sid
      /\ call'[c].got = call[c].got
      /\ call'[c].todo = rest
      /\ call' \in [Tools -> Call] /\ \A d \in Tools \ {c} : call'[d] = call[d]
  <2>1. call'[c] = [call[c] EXCEPT !.at = "kill", !.target = sid, !.todo = rest] /\ \A d \in Tools \ {c} : call'[d] = call[d]
    BY <1>0 DEF ShellTyped
  <2>2. [call[c] EXCEPT !.at = "kill", !.target = sid, !.todo = rest] \in Call
    <3>1. "kill" \in Stages /\ sid \in 0 .. MaxSpawned /\ rest \in SUBSET Pids
      BY <1>0, ShellBounds DEF Stages
    <3> QED
      BY <1>0, <3>1, CallShapes
  <2>3. call' \in [Tools -> Call]
    BY <1>0, <2>1, <2>2 DEF ShellTyped
  <2> QED
    BY <1>0, <2>1, <2>3 DEF Call, Commanded!Idle
<1>2. ShellTyped'
  BY <1>0, <1>1, ShellBounds DEF ShellTyped
<1>3. \A d \in Tools \ {c} : CallInv(d)'
  <2>1. \A d \in Tools \ {c} : /\ call'[d] = call[d] /\ told'[d] = told[d]
                               /\ starting' = d <=> starting = d
                               /\ \A p \in Pids : executing'[p] = d <=> executing[p] = d
    BY <1>0, <1>1, ShellBounds DEF ShellTyped, CallInv
  <2>2. \A p \in Pids : executing[p] = Free => executing'[p] = Free \/ p \in table
    BY <1>0, <1>1, ShellBounds DEF ShellTyped, CallInv
  <2>3. /\ shells' \in Nat /\ shells =< shells' /\ cutOff \subseteq cutOff' /\ shutdown' = shutdown
        /\ table' \in SUBSET Pids /\ \A p \in table' \ table : p > shells
        /\ table' \subseteq table \/ starting = c
    BY <1>0, <1>1, <1>2, ShellBounds DEF ShellTyped, CallInv
  <2>4. Alone(c)
    BY <2>1, <2>2, <2>3 DEF Alone
  <2> QED
    BY <2>4, Untouched
<1>4. CallInv(c)'
  <2>1. /\ call'[c].on =< shells' /\ (call'[c].kind = "exec" => call'[c].on \in Pids)
        /\ call'[c].got \subseteq {c} \cup cutOff'
    BY <1>0, <1>1 DEF CallInv, ShellTyped
  <2>2. "registry" \in told'[c] \/ shutdown' \in {"closing", "closed"} => Ending(c)'
    BY <1>0, <1>1 DEF CallInv, Ending, Commanded!WasPruning, ShellTyped
  <2>3. call'[c].at = "kill" => /\ call'[c].target \in Pids \ table' /\ call'[c].target =< shells'
                                /\ Commanded!WasPruning(c)' => executing'[call'[c].target] = Free
    BY <1>0, <1>1, <1>2, ShellBounds DEF CallInv, Tabled, ShellTyped, Commanded!WasPruning
  <2>4. /\ call'[c].at \in {"drain", "read"} => /\ call'[c].kind = "exec" /\ call'[c].on \in Pids
                                                /\ executing'[call'[c].on] = c
        /\ call'[c].at = "wait" => call'[c].kind = "once" /\ call'[c].on \in Pids
        /\ call'[c].at \in {"lock", "spawn"} => call'[c].kind = "start"
        /\ call'[c].at # "idle" /\ \A p \in call'[c].todo : p =< shells'
        /\ call'[c].at = "spawn" => starting' = c /\ Cardinality(table') < MaxSessions
    BY <1>0, <1>1, <1>2, ShellBounds DEF CallInv, Tabled, ShellTyped
  <2> QED
    BY <2>1, <2>2, <2>3, <2>4 DEF CallInv
<1>5. Held'
  BY <1>0, <1>1, <1>2, ShellBounds DEF ShellTyped, Held, CallInv
<1>6. Piped'
  BY <1>0, <1>1, <1>2, ShellBounds DEF ShellTyped, Piped, CallInv, Held
<1>7. Tabled'
  BY <1>0, TableLess
<1>8. Living'
  BY <1>0, <1>1, <1>2 DEF ShellTyped, Living, CallInv
<1> QED
  BY <1>2, <1>3, <1>4, <1>5, <1>6, <1>7, <1>8, TypesBack DEF ShellInv

(* The look is over: a start waits for the registry lock, ...              *)
LEMMA StartQueuesKept ==
    ASSUME ShellInv,
           NEW c \in Tools,
           call[c].at = "prune",
           call[c].kind = "start",
           call' = [call EXCEPT ![c].at = "lock"],
           UNCHANGED <<table, alive, stubborn, expired, executing, unread, starting, mutating,
           shells, shutdown, told, spared, cutOff>>
    PROVE  ShellInv'
<1>0. /\ ShellTyped /\ CallInv(c) /\ Held /\ Piped /\ Tabled /\ Living /\ call[c] \in Call
      /\ shells \in Nat /\ shells =< MaxSpawned /\ \A p \in Pids : p \in Nat
      /\ call[c].on \in Nat /\ call[c].target \in Nat /\ call[c].todo \subseteq Pids
  BY CallFacts
<1>1. /\ call'[c].kind = call[c].kind
      /\ call'[c].at = "lock"
      /\ call'[c].on = call[c].on
      /\ call'[c].target = call[c].target
      /\ call'[c].got = call[c].got
      /\ call'[c].todo = call[c].todo
      /\ call' \in [Tools -> Call] /\ \A d \in Tools \ {c} : call'[d] = call[d]
  <2>1. call'[c] = [call[c] EXCEPT !.at = "lock"] /\ \A d \in Tools \ {c} : call'[d] = call[d]
    BY <1>0 DEF ShellTyped
  <2>2. [call[c] EXCEPT !.at = "lock"] \in Call
    BY <1>0, CallShapes, ShellBounds DEF ShellTyped, Stages, Commanded!Kinds
  <2>3. call' \in [Tools -> Call]
    BY <1>0, <2>1, <2>2 DEF ShellTyped
  <2> QED
    BY <1>0, <2>1, <2>3 DEF Call, Commanded!Idle
<1>2. ShellTyped'
  BY <1>0, <1>1, ShellBounds DEF ShellTyped
<1>3. \A d \in Tools \ {c} : CallInv(d)'
  <2>1. \A d \in Tools \ {c} : /\ call'[d] = call[d] /\ told'[d] = told[d]
                               /\ starting' = d <=> starting = d
                               /\ \A p \in Pids : executing'[p] = d <=> executing[p] = d
    BY <1>0, <1>1, ShellBounds DEF ShellTyped, CallInv
  <2>2. \A p \in Pids : executing[p] = Free => executing'[p] = Free \/ p \in table
    BY <1>0, <1>1, ShellBounds DEF ShellTyped, CallInv
  <2>3. /\ shells' \in Nat /\ shells =< shells' /\ cutOff \subseteq cutOff' /\ shutdown' = shutdown
        /\ table' \in SUBSET Pids /\ \A p \in table' \ table : p > shells
        /\ table' \subseteq table \/ starting = c
    BY <1>0, <1>1, <1>2, ShellBounds DEF ShellTyped, CallInv
  <2>4. Alone(c)
    BY <2>1, <2>2, <2>3 DEF Alone
  <2> QED
    BY <2>4, Untouched
<1>4. CallInv(c)'
  <2>1. /\ call'[c].on =< shells' /\ (call'[c].kind = "exec" => call'[c].on \in Pids)
        /\ call'[c].got \subseteq {c} \cup cutOff'
    BY <1>0, <1>1 DEF CallInv, ShellTyped
  <2>2. "registry" \in told'[c] \/ shutdown' \in {"closing", "closed"} => Ending(c)'
    BY <1>0, <1>1 DEF CallInv, Ending, Commanded!WasPruning, ShellTyped
  <2>3. call'[c].at = "kill" => /\ call'[c].target \in Pids \ table' /\ call'[c].target =< shells'
                                /\ Commanded!WasPruning(c)' => executing'[call'[c].target] = Free
    BY <1>0, <1>1, <1>2, ShellBounds DEF CallInv, Tabled, ShellTyped, Commanded!WasPruning
  <2>4. /\ call'[c].at \in {"drain", "read"} => /\ call'[c].kind = "exec" /\ call'[c].on \in Pids
                                                /\ executing'[call'[c].on] = c
        /\ call'[c].at = "wait" => call'[c].kind = "once" /\ call'[c].on \in Pids
        /\ call'[c].at \in {"lock", "spawn"} => call'[c].kind = "start"
        /\ call'[c].at # "idle" /\ \A p \in call'[c].todo : p =< shells'
        /\ call'[c].at = "spawn" => starting' = c /\ Cardinality(table') < MaxSessions
    BY <1>0, <1>1, <1>2, ShellBounds DEF CallInv, Tabled, ShellTyped
  <2> QED
    BY <2>1, <2>2, <2>3, <2>4 DEF CallInv
<1>5. Held'
  BY <1>0, <1>1, <1>2, ShellBounds DEF ShellTyped, Held, CallInv
<1>6. Piped'
  BY <1>0, <1>1, <1>2, ShellBounds DEF ShellTyped, Piped, CallInv, Held
<1>7. Tabled'
  BY <1>0, TableLess
<1>8. Living'
  BY <1>0, <1>1, <1>2 DEF ShellTyped, Living, CallInv
<1> QED
  BY <1>2, <1>3, <1>4, <1>5, <1>6, <1>7, <1>8, TypesBack DEF ShellInv

(* ... a list ends, and so does a command whose session has gone, ...      *)
LEMMA LookEndsKept ==
    ASSUME ShellInv,
           NEW c \in Tools,
           call[c].at = "prune",
           call[c].kind \in {"list", "exec"},
           table' = table \/ (table' = table \ {call[c].on} /\ (call[c].on \notin table \/ call[c].on \notin alive)),
           call' = [call EXCEPT ![c].at = "done", ![c].got = {}],
           executing' = [p \in Pids |-> IF executing[p] = c THEN Free ELSE executing[p]],
           starting' = IF starting = c THEN Free ELSE starting,
           mutating' = IF mutating = c THEN Free ELSE mutating,
           UNCHANGED <<alive, stubborn, expired, unread, shells, shutdown, told, spared,
           cutOff>>
    PROVE  ShellInv'
<1>0. /\ ShellTyped /\ CallInv(c) /\ Held /\ Piped /\ Tabled /\ Living /\ call[c] \in Call
      /\ shells \in Nat /\ shells =< MaxSpawned /\ \A p \in Pids : p \in Nat
      /\ call[c].on \in Nat /\ call[c].target \in Nat /\ call[c].todo \subseteq Pids
  BY CallFacts
<1>1. /\ call'[c].kind = call[c].kind
      /\ call'[c].at = "done"
      /\ call'[c].on = call[c].on
      /\ call'[c].target = call[c].target
      /\ call'[c].got = {}
      /\ call'[c].todo = call[c].todo
      /\ call' \in [Tools -> Call] /\ \A d \in Tools \ {c} : call'[d] = call[d]
  <2>1. call'[c] = [call[c] EXCEPT !.at = "done", !.got = {}] /\ \A d \in Tools \ {c} : call'[d] = call[d]
    BY <1>0 DEF ShellTyped
  <2>2. [call[c] EXCEPT !.at = "done", !.got = {}] \in Call
    BY <1>0, CallShapes, ShellBounds DEF ShellTyped, Stages, Commanded!Kinds
  <2>3. call' \in [Tools -> Call]
    BY <1>0, <2>1, <2>2 DEF ShellTyped
  <2> QED
    BY <1>0, <2>1, <2>3 DEF Call, Commanded!Idle
<1>2. ShellTyped'
  BY <1>0, <1>1, Freed, ShellBounds DEF ShellTyped
<1>3. \A d \in Tools \ {c} : CallInv(d)'
  <2>1. \A d \in Tools \ {c} : /\ call'[d] = call[d] /\ told'[d] = told[d]
                               /\ starting' = d <=> starting = d
                               /\ \A p \in Pids : executing'[p] = d <=> executing[p] = d
    BY <1>0, <1>1, Freed, ShellBounds DEF ShellTyped, CallInv
  <2>2. \A p \in Pids : executing[p] = Free => executing'[p] = Free \/ p \in table
    BY <1>0, <1>1, Freed, ShellBounds DEF ShellTyped, CallInv
  <2>3. /\ shells' \in Nat /\ shells =< shells' /\ cutOff \subseteq cutOff' /\ shutdown' = shutdown
        /\ table' \in SUBSET Pids /\ \A p \in table' \ table : p > shells
        /\ table' \subseteq table \/ starting = c
    BY <1>0, <1>1, <1>2, ShellBounds DEF ShellTyped, CallInv
  <2>4. Alone(c)
    BY <2>1, <2>2, <2>3 DEF Alone
  <2> QED
    BY <2>4, Untouched
<1>4. CallInv(c)'
  <2>1. call'[c].got \subseteq {c} \cup cutOff'
    BY <1>1
  <2>2. call'[c].on =< shells' /\ (\A p \in call'[c].todo : p =< shells') /\ (call'[c].kind = "exec" => call'[c].on \in Pids)
    BY <1>0, <1>1 DEF CallInv
  <2> QED
    BY <1>1, <2>1, <2>2, Finished
<1>5. Held'
  BY <1>0, <1>1, <1>2, Freed, ShellBounds DEF ShellTyped, Held, CallInv
<1>6. Piped'
  <2>1. \A p \in Pids : executing'[p] = executing[p]
    BY <1>0 DEF Held, ShellTyped
  <2> QED
    BY <1>0, <2>1 DEF Piped
<1>7. Tabled'
  BY <1>0, TableLess
<1>8. Living'
  BY <1>0, <1>1, <1>2 DEF ShellTyped, Living, CallInv
<1> QED
  BY <1>2, <1>3, <1>4, <1>5, <1>6, <1>7, <1>8, TypesBack DEF ShellInv

(* ... and a command is written to a session that no other runs in.        *)
LEMMA ExecBeginsKept ==
    ASSUME ShellInv,
           NEW c \in Tools,
           NEW ignores \in BOOLEAN,
           NEW stage \in {"drain", "read"},
           call[c].at = "prune",
           call[c].kind = "exec",
           call[c].on \in table,
           executing[call[c].on] = Free,
           call' = [call EXCEPT ![c].at = stage],
           executing' = [executing EXCEPT ![call[c].on] = c],
           unread' = [unread EXCEPT ![call[c].on] = @ \cup {c}],
           stubborn' = IF ignores THEN stubborn \cup {call[c].on} ELSE stubborn,
           UNCHANGED <<table, alive, expired, starting, mutating, shells, shutdown, told,
           spared, cutOff>>
    PROVE  ShellInv'
<1>0. /\ ShellTyped /\ CallInv(c) /\ Held /\ Piped /\ Tabled /\ Living /\ call[c] \in Call
      /\ shells \in Nat /\ shells =< MaxSpawned /\ \A p \in Pids : p \in Nat
      /\ call[c].on \in Nat /\ call[c].target \in Nat /\ call[c].todo \subseteq Pids
  BY CallFacts
<1>1. /\ call'[c].kind = call[c].kind
      /\ call'[c].at = stage
      /\ call'[c].on = call[c].on
      /\ call'[c].target = call[c].target
      /\ call'[c].got = call[c].got
      /\ call'[c].todo = call[c].todo
      /\ call' \in [Tools -> Call] /\ \A d \in Tools \ {c} : call'[d] = call[d]
  <2>1. call'[c] = [call[c] EXCEPT !.at = stage] /\ \A d \in Tools \ {c} : call'[d] = call[d]
    BY <1>0 DEF ShellTyped
  <2>2. [call[c] EXCEPT !.at = stage] \in Call
    BY <1>0, CallShapes, ShellBounds DEF ShellTyped, Stages, Commanded!Kinds
  <2>3. call' \in [Tools -> Call]
    BY <1>0, <2>1, <2>2 DEF ShellTyped
  <2> QED
    BY <1>0, <2>1, <2>3 DEF Call, Commanded!Idle
<1>2. ShellTyped'
  BY <1>0, <1>1, ShellBounds DEF ShellTyped
<1>3. \A d \in Tools \ {c} : CallInv(d)'
  <2>1. \A d \in Tools \ {c} : /\ call'[d] = call[d] /\ told'[d] = told[d]
                               /\ starting' = d <=> starting = d
                               /\ \A p \in Pids : executing'[p] = d <=> executing[p] = d
    BY <1>0, <1>1, ShellBounds DEF ShellTyped, CallInv
  <2>2. \A p \in Pids : executing[p] = Free => executing'[p] = Free \/ p \in table
    BY <1>0, <1>1, ShellBounds DEF ShellTyped, CallInv
  <2>3. /\ shells' \in Nat /\ shells =< shells' /\ cutOff \subseteq cutOff' /\ shutdown' = shutdown
        /\ table' \in SUBSET Pids /\ \A p \in table' \ table : p > shells
        /\ table' \subseteq table \/ starting = c
    BY <1>0, <1>1, <1>2, ShellBounds DEF ShellTyped, CallInv
  <2>4. Alone(c)
    BY <2>1, <2>2, <2>3 DEF Alone
  <2> QED
    BY <2>4, Untouched
<1>4. CallInv(c)'
  <2>1. /\ call'[c].on =< shells' /\ (call'[c].kind = "exec" => call'[c].on \in Pids)
        /\ call'[c].got \subseteq {c} \cup cutOff'
    BY <1>0, <1>1 DEF CallInv, ShellTyped
  <2>2. "registry" \in told'[c] \/ shutdown' \in {"closing", "closed"} => Ending(c)'
    BY <1>0, <1>1 DEF CallInv, Ending, Commanded!WasPruning, ShellTyped
  <2>3. call'[c].at = "kill" => /\ call'[c].target \in Pids \ table' /\ call'[c].target =< shells'
                                /\ Commanded!WasPruning(c)' => executing'[call'[c].target] = Free
    BY <1>0, <1>1, <1>2, ShellBounds DEF CallInv, Tabled, ShellTyped, Commanded!WasPruning
  <2>4. /\ call'[c].at \in {"drain", "read"} => /\ call'[c].kind = "exec" /\ call'[c].on \in Pids
                                                /\ executing'[call'[c].on] = c
        /\ call'[c].at = "wait" => call'[c].kind = "once" /\ call'[c].on \in Pids
        /\ call'[c].at \in {"lock", "spawn"} => call'[c].kind = "start"
        /\ call'[c].at # "idle" /\ \A p \in call'[c].todo : p =< shells'
        /\ call'[c].at = "spawn" => starting' = c /\ Cardinality(table') < MaxSessions
    BY <1>0, <1>1, <1>2, ShellBounds DEF CallInv, Tabled, ShellTyped
  <2> QED
    BY <2>1, <2>2, <2>3, <2>4 DEF CallInv
<1>5. Held'
  BY <1>0, <1>1, <1>2, ShellBounds DEF ShellTyped, Held, CallInv
<1>6. Piped'
  BY <1>0, <1>1, <1>2, ShellBounds DEF ShellTyped, Piped, CallInv, Held
<1>7. Tabled'
  BY <1>0, TableLess
<1>8. Living'
  BY <1>0, <1>1, <1>2 DEF ShellTyped, Living, CallInv
<1> QED
  BY <1>2, <1>3, <1>4, <1>5, <1>6, <1>7, <1>8, TypesBack DEF ShellInv

(* A start is refused, ...                                                 *)
LEMMA StartRefusedKept ==
    ASSUME ShellInv,
           NEW c \in Tools,
           call[c].at = "lock",
           call' = [call EXCEPT ![c].at = "done", ![c].got = {}],
           executing' = [p \in Pids |-> IF executing[p] = c THEN Free ELSE executing[p]],
           starting' = IF starting = c THEN Free ELSE starting,
           mutating' = IF mutating = c THEN Free ELSE mutating,
           UNCHANGED <<table, alive, stubborn, expired, unread, shells, shutdown, told, spared,
           cutOff>>
    PROVE  ShellInv'
<1>0. /\ ShellTyped /\ CallInv(c) /\ Held /\ Piped /\ Tabled /\ Living /\ call[c] \in Call
      /\ shells \in Nat /\ shells =< MaxSpawned /\ \A p \in Pids : p \in Nat
      /\ call[c].on \in Nat /\ call[c].target \in Nat /\ call[c].todo \subseteq Pids
  BY CallFacts
<1>1. /\ call'[c].kind = call[c].kind
      /\ call'[c].at = "done"
      /\ call'[c].on = call[c].on
      /\ call'[c].target = call[c].target
      /\ call'[c].got = {}
      /\ call'[c].todo = call[c].todo
      /\ call' \in [Tools -> Call] /\ \A d \in Tools \ {c} : call'[d] = call[d]
  <2>1. call'[c] = [call[c] EXCEPT !.at = "done", !.got = {}] /\ \A d \in Tools \ {c} : call'[d] = call[d]
    BY <1>0 DEF ShellTyped
  <2>2. [call[c] EXCEPT !.at = "done", !.got = {}] \in Call
    BY <1>0, CallShapes, ShellBounds DEF ShellTyped, Stages, Commanded!Kinds
  <2>3. call' \in [Tools -> Call]
    BY <1>0, <2>1, <2>2 DEF ShellTyped
  <2> QED
    BY <1>0, <2>1, <2>3 DEF Call, Commanded!Idle
<1>2. ShellTyped'
  BY <1>0, <1>1, Freed, ShellBounds DEF ShellTyped
<1>3. \A d \in Tools \ {c} : CallInv(d)'
  <2>1. \A d \in Tools \ {c} : /\ call'[d] = call[d] /\ told'[d] = told[d]
                               /\ starting' = d <=> starting = d
                               /\ \A p \in Pids : executing'[p] = d <=> executing[p] = d
    BY <1>0, <1>1, Freed, ShellBounds DEF ShellTyped, CallInv
  <2>2. \A p \in Pids : executing[p] = Free => executing'[p] = Free \/ p \in table
    BY <1>0, <1>1, Freed, ShellBounds DEF ShellTyped, CallInv
  <2>3. /\ shells' \in Nat /\ shells =< shells' /\ cutOff \subseteq cutOff' /\ shutdown' = shutdown
        /\ table' \in SUBSET Pids /\ \A p \in table' \ table : p > shells
        /\ table' \subseteq table \/ starting = c
    BY <1>0, <1>1, <1>2, ShellBounds DEF ShellTyped, CallInv
  <2>4. Alone(c)
    BY <2>1, <2>2, <2>3 DEF Alone
  <2> QED
    BY <2>4, Untouched
<1>4. CallInv(c)'
  <2>1. call'[c].got \subseteq {c} \cup cutOff'
    BY <1>1
  <2>2. call'[c].on =< shells' /\ (\A p \in call'[c].todo : p =< shells') /\ (call'[c].kind = "exec" => call'[c].on \in Pids)
    BY <1>0, <1>1 DEF CallInv
  <2> QED
    BY <1>1, <2>1, <2>2, Finished
<1>5. Held'
  BY <1>0, <1>1, <1>2, Freed, ShellBounds DEF ShellTyped, Held, CallInv
<1>6. Piped'
  BY <1>0, <1>1, <1>2, Freed, ShellBounds DEF ShellTyped, Piped, CallInv, Held
<1>7. Tabled'
  BY <1>0, TableLess
<1>8. Living'
  BY <1>0, <1>1, <1>2 DEF ShellTyped, Living, CallInv
<1> QED
  BY <1>2, <1>3, <1>4, <1>5, <1>6, <1>7, <1>8, TypesBack DEF ShellInv

(* ... or has the registry lock and room in the table, ...                 *)
LEMMA StartLocksKept ==
    ASSUME ShellInv,
           NEW c \in Tools,
           call[c].at = "lock",
           starting = Free,
           Cardinality(table) < MaxSessions,
           shutdown \notin {"closing", "closed"},
           call' = [call EXCEPT ![c].at = "spawn"],
           starting' = c,
           UNCHANGED <<table, alive, stubborn, expired, executing, unread, mutating, shells,
           shutdown, told, spared, cutOff>>
    PROVE  ShellInv'
<1>0. /\ ShellTyped /\ CallInv(c) /\ Held /\ Piped /\ Tabled /\ Living /\ call[c] \in Call
      /\ shells \in Nat /\ shells =< MaxSpawned /\ \A p \in Pids : p \in Nat
      /\ call[c].on \in Nat /\ call[c].target \in Nat /\ call[c].todo \subseteq Pids
  BY CallFacts
<1>1. /\ call'[c].kind = call[c].kind
      /\ call'[c].at = "spawn"
      /\ call'[c].on = call[c].on
      /\ call'[c].target = call[c].target
      /\ call'[c].got = call[c].got
      /\ call'[c].todo = call[c].todo
      /\ call' \in [Tools -> Call] /\ \A d \in Tools \ {c} : call'[d] = call[d]
  <2>1. call'[c] = [call[c] EXCEPT !.at = "spawn"] /\ \A d \in Tools \ {c} : call'[d] = call[d]
    BY <1>0 DEF ShellTyped
  <2>2. [call[c] EXCEPT !.at = "spawn"] \in Call
    BY <1>0, CallShapes, ShellBounds DEF ShellTyped, Stages, Commanded!Kinds
  <2>3. call' \in [Tools -> Call]
    BY <1>0, <2>1, <2>2 DEF ShellTyped
  <2> QED
    BY <1>0, <2>1, <2>3 DEF Call, Commanded!Idle
<1>2. ShellTyped'
  BY <1>0, <1>1, ShellBounds DEF ShellTyped
<1>3. \A d \in Tools \ {c} : CallInv(d)'
  <2>1. \A d \in Tools \ {c} : /\ call'[d] = call[d] /\ told'[d] = told[d]
                               /\ starting' = d <=> starting = d
                               /\ \A p \in Pids : executing'[p] = d <=> executing[p] = d
    BY <1>0, <1>1, ShellBounds DEF ShellTyped, CallInv
  <2>2. \A p \in Pids : executing[p] = Free => executing'[p] = Free \/ p \in table
    BY <1>0, <1>1, ShellBounds DEF ShellTyped, CallInv
  <2>3. /\ shells' \in Nat /\ shells =< shells' /\ cutOff \subseteq cutOff' /\ shutdown' = shutdown
        /\ table' \in SUBSET Pids /\ \A p \in table' \ table : p > shells
        /\ table' \subseteq table \/ starting = c
    BY <1>0, <1>1, <1>2, ShellBounds DEF ShellTyped, CallInv
  <2>4. Alone(c)
    BY <2>1, <2>2, <2>3 DEF Alone
  <2> QED
    BY <2>4, Untouched
<1>4. CallInv(c)'
  <2>1. /\ call'[c].on =< shells' /\ (call'[c].kind = "exec" => call'[c].on \in Pids)
        /\ call'[c].got \subseteq {c} \cup cutOff'
    BY <1>0, <1>1 DEF CallInv, ShellTyped
  <2>2. "registry" \in told'[c] \/ shutdown' \in {"closing", "closed"} => Ending(c)'
    BY <1>0, <1>1 DEF CallInv, Ending, Commanded!WasPruning, ShellTyped
  <2>3. call'[c].at = "kill" => /\ call'[c].target \in Pids \ table' /\ call'[c].target =< shells'
                                /\ Commanded!WasPruning(c)' => executing'[call'[c].target] = Free
    BY <1>0, <1>1, <1>2, ShellBounds DEF CallInv, Tabled, ShellTyped, Commanded!WasPruning
  <2>4. /\ call'[c].at \in {"drain", "read"} => /\ call'[c].kind = "exec" /\ call'[c].on \in Pids
                                                /\ executing'[call'[c].on] = c
        /\ call'[c].at = "wait" => call'[c].kind = "once" /\ call'[c].on \in Pids
        /\ call'[c].at \in {"lock", "spawn"} => call'[c].kind = "start"
        /\ call'[c].at # "idle" /\ \A p \in call'[c].todo : p =< shells'
        /\ call'[c].at = "spawn" => starting' = c /\ Cardinality(table') < MaxSessions
    BY <1>0, <1>1, <1>2, ShellBounds DEF CallInv, Tabled, ShellTyped
  <2> QED
    BY <2>1, <2>2, <2>3, <2>4 DEF CallInv
<1>5. Held'
  BY <1>0, <1>1, <1>2, ShellBounds DEF ShellTyped, Held, CallInv
<1>6. Piped'
  BY <1>0, <1>1, <1>2, ShellBounds DEF ShellTyped, Piped, CallInv, Held
<1>7. Tabled'
  BY <1>0, TableLess
<1>8. Living'
  BY <1>0, <1>1, <1>2 DEF ShellTyped, Living, CallInv
<1> QED
  BY <1>2, <1>3, <1>4, <1>5, <1>6, <1>7, <1>8, TypesBack DEF ShellInv

(* ... which its process then takes.                                       *)
LEMMA StartEndsKept ==
    ASSUME ShellInv,
           NEW c \in Tools,
           call[c].at = "spawn",
           shells < MaxSpawned,
           call' = [call EXCEPT ![c].at = "done", ![c].got = {}],
           executing' = [p \in Pids |-> IF executing[p] = c THEN Free ELSE executing[p]],
           starting' = IF starting = c THEN Free ELSE starting,
           mutating' = IF mutating = c THEN Free ELSE mutating,
           shells' = shells + 1,
           alive' = alive \cup {shells'},
           table' = table \cup {shells'},
           UNCHANGED <<stubborn, expired, unread, shutdown, told, spared, cutOff>>
    PROVE  ShellInv'
<1>0. /\ ShellTyped /\ CallInv(c) /\ Held /\ Piped /\ Tabled /\ Living /\ call[c] \in Call
      /\ shells \in Nat /\ shells =< MaxSpawned /\ \A p \in Pids : p \in Nat
      /\ call[c].on \in Nat /\ call[c].target \in Nat /\ call[c].todo \subseteq Pids
  BY CallFacts
<1>1. /\ call'[c].kind = call[c].kind
      /\ call'[c].at = "done"
      /\ call'[c].on = call[c].on
      /\ call'[c].target = call[c].target
      /\ call'[c].got = {}
      /\ call'[c].todo = call[c].todo
      /\ call' \in [Tools -> Call] /\ \A d \in Tools \ {c} : call'[d] = call[d]
  <2>1. call'[c] = [call[c] EXCEPT !.at = "done", !.got = {}] /\ \A d \in Tools \ {c} : call'[d] = call[d]
    BY <1>0 DEF ShellTyped
  <2>2. [call[c] EXCEPT !.at = "done", !.got = {}] \in Call
    BY <1>0, CallShapes, ShellBounds DEF ShellTyped, Stages, Commanded!Kinds
  <2>3. call' \in [Tools -> Call]
    BY <1>0, <2>1, <2>2 DEF ShellTyped
  <2> QED
    BY <1>0, <2>1, <2>3 DEF Call, Commanded!Idle
<1>2. ShellTyped'
  BY <1>0, <1>1, Freed, ShellBounds DEF ShellTyped
<1>3. \A d \in Tools \ {c} : CallInv(d)'
  <2>1. \A d \in Tools \ {c} : /\ call'[d] = call[d] /\ told'[d] = told[d]
                               /\ starting' = d <=> starting = d
                               /\ \A p \in Pids : executing'[p] = d <=> executing[p] = d
    BY <1>0, <1>1, Freed, ShellBounds DEF ShellTyped, CallInv
  <2>2. \A p \in Pids : executing[p] = Free => executing'[p] = Free \/ p \in table
    BY <1>0, <1>1, Freed, ShellBounds DEF ShellTyped, CallInv
  <2>3. /\ shells' \in Nat /\ shells =< shells' /\ cutOff \subseteq cutOff' /\ shutdown' = shutdown
        /\ table' \in SUBSET Pids /\ \A p \in table' \ table : p > shells
        /\ table' \subseteq table \/ starting = c
    BY <1>0, <1>1, <1>2, ShellBounds DEF ShellTyped, CallInv
  <2>4. Alone(c)
    BY <2>1, <2>2, <2>3 DEF Alone
  <2> QED
    BY <2>4, Untouched
<1>4. CallInv(c)'
  <2>1. call'[c].got \subseteq {c} \cup cutOff'
    BY <1>1
  <2>2. call'[c].on =< shells' /\ (\A p \in call'[c].todo : p =< shells') /\ (call'[c].kind = "exec" => call'[c].on \in Pids)
    BY <1>0, <1>1 DEF CallInv
  <2> QED
    BY <1>1, <2>1, <2>2, Finished
<1>5. Held'
  BY <1>0, <1>1, <1>2, Freed, ShellBounds DEF ShellTyped, Held, CallInv
<1>6. Piped'
  <2>1. shells + 1 \in Nat /\ shells + 1 > shells
    BY <1>0
  <2>2. \A p \in Pids : executing'[p] = executing[p]
    BY <1>0 DEF Held, ShellTyped
  <2>3. ASSUME NEW p \in Pids, p = shells + 1 PROVE unread[p] = {}
    BY <1>0, <2>1, <2>3 DEF Piped
  <2>4. ASSUME NEW p \in Pids, p # shells + 1
        PROVE  (p \in table' => p \in table) /\ (p > shells' => p > shells)
    BY <1>0, <2>4
  <2> QED
    BY <1>0, <2>2, <2>3, <2>4 DEF Piped
<1>7. Tabled'
  <2>1. Cardinality(table) < MaxSessions /\ starting = c /\ ~shutdown = "closed"
    BY <1>0 DEF CallInv, Ending
  <2>2. shells + 1 \in Pids \ table
    BY <1>0, ShellBounds DEF Tabled, ShellTyped
  <2>3. table \in SUBSET Pids
    BY <1>0 DEF ShellTyped
  <2>4. Cardinality(table') = Cardinality(table) + 1 /\ Cardinality(table) \in Nat
    BY <2>2, <2>3, TableCounts
  <2> QED
    BY <1>0, <2>1, <2>3, <2>4, ShellBounds DEF Tabled
<1>8. Living'
  BY <1>0, <1>1, <1>2 DEF ShellTyped, Living, CallInv
<1> QED
  BY <1>2, <1>3, <1>4, <1>5, <1>6, <1>7, <1>8, TypesBack DEF ShellInv

(* The session takes the command.                                          *)
LEMMA CommandTakenKept ==
    ASSUME ShellInv,
           NEW c \in Tools,
           call[c].at = "drain",
           call' = [call EXCEPT ![c].at = "read"],
           UNCHANGED <<table, alive, stubborn, expired, executing, unread, starting, mutating,
           shells, shutdown, told, spared, cutOff>>
    PROVE  ShellInv'
<1>0. /\ ShellTyped /\ CallInv(c) /\ Held /\ Piped /\ Tabled /\ Living /\ call[c] \in Call
      /\ shells \in Nat /\ shells =< MaxSpawned /\ \A p \in Pids : p \in Nat
      /\ call[c].on \in Nat /\ call[c].target \in Nat /\ call[c].todo \subseteq Pids
  BY CallFacts
<1>1. /\ call'[c].kind = call[c].kind
      /\ call'[c].at = "read"
      /\ call'[c].on = call[c].on
      /\ call'[c].target = call[c].target
      /\ call'[c].got = call[c].got
      /\ call'[c].todo = call[c].todo
      /\ call' \in [Tools -> Call] /\ \A d \in Tools \ {c} : call'[d] = call[d]
  <2>1. call'[c] = [call[c] EXCEPT !.at = "read"] /\ \A d \in Tools \ {c} : call'[d] = call[d]
    BY <1>0 DEF ShellTyped
  <2>2. [call[c] EXCEPT !.at = "read"] \in Call
    BY <1>0, CallShapes, ShellBounds DEF ShellTyped, Stages, Commanded!Kinds
  <2>3. call' \in [Tools -> Call]
    BY <1>0, <2>1, <2>2 DEF ShellTyped
  <2> QED
    BY <1>0, <2>1, <2>3 DEF Call, Commanded!Idle
<1>2. ShellTyped'
  BY <1>0, <1>1, ShellBounds DEF ShellTyped
<1>3. \A d \in Tools \ {c} : CallInv(d)'
  <2>1. \A d \in Tools \ {c} : /\ call'[d] = call[d] /\ told'[d] = told[d]
                               /\ starting' = d <=> starting = d
                               /\ \A p \in Pids : executing'[p] = d <=> executing[p] = d
    BY <1>0, <1>1, ShellBounds DEF ShellTyped, CallInv
  <2>2. \A p \in Pids : executing[p] = Free => executing'[p] = Free \/ p \in table
    BY <1>0, <1>1, ShellBounds DEF ShellTyped, CallInv
  <2>3. /\ shells' \in Nat /\ shells =< shells' /\ cutOff \subseteq cutOff' /\ shutdown' = shutdown
        /\ table' \in SUBSET Pids /\ \A p \in table' \ table : p > shells
        /\ table' \subseteq table \/ starting = c
    BY <1>0, <1>1, <1>2, ShellBounds DEF ShellTyped, CallInv
  <2>4. Alone(c)
    BY <2>1, <2>2, <2>3 DEF Alone
  <2> QED
    BY <2>4, Untouched
<1>4. CallInv(c)'
  <2>1. /\ call'[c].on =< shells' /\ (call'[c].kind = "exec" => call'[c].on \in Pids)
        /\ call'[c].got \subseteq {c} \cup cutOff'
    BY <1>0, <1>1 DEF CallInv, ShellTyped
  <2>2. "registry" \in told'[c] \/ shutdown' \in {"closing", "closed"} => Ending(c)'
    BY <1>0, <1>1 DEF CallInv, Ending, Commanded!WasPruning, ShellTyped
  <2>3. call'[c].at = "kill" => /\ call'[c].target \in Pids \ table' /\ call'[c].target =< shells'
                                /\ Commanded!WasPruning(c)' => executing'[call'[c].target] = Free
    BY <1>0, <1>1, <1>2, ShellBounds DEF CallInv, Tabled, ShellTyped, Commanded!WasPruning
  <2>4. /\ call'[c].at \in {"drain", "read"} => /\ call'[c].kind = "exec" /\ call'[c].on \in Pids
                                                /\ executing'[call'[c].on] = c
        /\ call'[c].at = "wait" => call'[c].kind = "once" /\ call'[c].on \in Pids
        /\ call'[c].at \in {"lock", "spawn"} => call'[c].kind = "start"
        /\ call'[c].at # "idle" /\ \A p \in call'[c].todo : p =< shells'
        /\ call'[c].at = "spawn" => starting' = c /\ Cardinality(table') < MaxSessions
    BY <1>0, <1>1, <1>2, ShellBounds DEF CallInv, Tabled, ShellTyped
  <2> QED
    BY <2>1, <2>2, <2>3, <2>4 DEF CallInv
<1>5. Held'
  BY <1>0, <1>1, <1>2, ShellBounds DEF ShellTyped, Held, CallInv
<1>6. Piped'
  BY <1>0, <1>1, <1>2, ShellBounds DEF ShellTyped, Piped, CallInv, Held
<1>7. Tabled'
  BY <1>0, TableLess
<1>8. Living'
  BY <1>0, <1>1, <1>2 DEF ShellTyped, Living, CallInv
<1> QED
  BY <1>2, <1>3, <1>4, <1>5, <1>6, <1>7, <1>8, TypesBack DEF ShellInv

(* A call that gives up its own process, in time or canceled.              *)
LEMMA DiscardsKept ==
    ASSUME ShellInv,
           NEW c \in Tools,
           call[c].at \in {"drain", "read", "wait"},
           \A d \in Tools \ {c} : told'[d] = told[d],
           told' \in [Tools -> SUBSET {"owner", "registry"}],
           call' = [call EXCEPT ![c].at = "kill", ![c].target = call[c].on],
           table' = table \ {call[c].on},
           UNCHANGED <<alive, stubborn, expired, executing, unread, starting, mutating, shells,
           shutdown, spared, cutOff>>
    PROVE  ShellInv'
<1>0. /\ ShellTyped /\ CallInv(c) /\ Held /\ Piped /\ Tabled /\ Living /\ call[c] \in Call
      /\ shells \in Nat /\ shells =< MaxSpawned /\ \A p \in Pids : p \in Nat
      /\ call[c].on \in Nat /\ call[c].target \in Nat /\ call[c].todo \subseteq Pids
  BY CallFacts
<1>1. /\ call'[c].kind = call[c].kind
      /\ call'[c].at = "kill"
      /\ call'[c].on = call[c].on
      /\ call'[c].target = call[c].on
      /\ call'[c].got = call[c].got
      /\ call'[c].todo = call[c].todo
      /\ call' \in [Tools -> Call] /\ \A d \in Tools \ {c} : call'[d] = call[d]
  <2>1. call'[c] = [call[c] EXCEPT !.at = "kill", !.target = call[c].on] /\ \A d \in Tools \ {c} : call'[d] = call[d]
    BY <1>0 DEF ShellTyped
  <2>2. [call[c] EXCEPT !.at = "kill", !.target = call[c].on] \in Call
    BY <1>0, CallShapes, ShellBounds DEF ShellTyped, Stages, Commanded!Kinds
  <2>3. call' \in [Tools -> Call]
    BY <1>0, <2>1, <2>2 DEF ShellTyped
  <2> QED
    BY <1>0, <2>1, <2>3 DEF Call, Commanded!Idle
<1>2. ShellTyped'
  BY <1>0, <1>1, ShellBounds DEF ShellTyped
<1>3. \A d \in Tools \ {c} : CallInv(d)'
  <2>1. \A d \in Tools \ {c} : /\ call'[d] = call[d] /\ told'[d] = told[d]
                               /\ starting' = d <=> starting = d
                               /\ \A p \in Pids : executing'[p] = d <=> executing[p] = d
    BY <1>0, <1>1, ShellBounds DEF ShellTyped, CallInv
  <2>2. \A p \in Pids : executing[p] = Free => executing'[p] = Free \/ p \in table
    BY <1>0, <1>1, ShellBounds DEF ShellTyped, CallInv
  <2>3. /\ shells' \in Nat /\ shells =< shells' /\ cutOff \subseteq cutOff' /\ shutdown' = shutdown
        /\ table' \in SUBSET Pids /\ \A p \in table' \ table : p > shells
        /\ table' \subseteq table \/ starting = c
    BY <1>0, <1>1, <1>2, ShellBounds DEF ShellTyped, CallInv
  <2>4. Alone(c)
    BY <2>1, <2>2, <2>3 DEF Alone
  <2> QED
    BY <2>4, Untouched
<1>4. CallInv(c)'
  <2>1. /\ call'[c].on =< shells' /\ (call'[c].kind = "exec" => call'[c].on \in Pids)
        /\ call'[c].got \subseteq {c} \cup cutOff'
    BY <1>0, <1>1 DEF CallInv, ShellTyped
  <2>2. "registry" \in told'[c] \/ shutdown' \in {"closing", "closed"} => Ending(c)'
    BY <1>0, <1>1 DEF CallInv, Ending, Commanded!WasPruning, ShellTyped
  <2>3. call'[c].at = "kill" => /\ call'[c].target \in Pids \ table' /\ call'[c].target =< shells'
                                /\ Commanded!WasPruning(c)' => executing'[call'[c].target] = Free
    BY <1>0, <1>1, <1>2, ShellBounds DEF CallInv, Tabled, ShellTyped, Commanded!WasPruning
  <2>4. /\ call'[c].at \in {"drain", "read"} => /\ call'[c].kind = "exec" /\ call'[c].on \in Pids
                                                /\ executing'[call'[c].on] = c
        /\ call'[c].at = "wait" => call'[c].kind = "once" /\ call'[c].on \in Pids
        /\ call'[c].at \in {"lock", "spawn"} => call'[c].kind = "start"
        /\ call'[c].at # "idle" /\ \A p \in call'[c].todo : p =< shells'
        /\ call'[c].at = "spawn" => starting' = c /\ Cardinality(table') < MaxSessions
    BY <1>0, <1>1, <1>2, ShellBounds DEF CallInv, Tabled, ShellTyped
  <2> QED
    BY <2>1, <2>2, <2>3, <2>4 DEF CallInv
<1>5. Held'
  BY <1>0, <1>1, <1>2, ShellBounds DEF ShellTyped, Held, CallInv
<1>6. Piped'
  BY <1>0, <1>1, <1>2, ShellBounds DEF ShellTyped, Piped, CallInv, Held
<1>7. Tabled'
  BY <1>0, TableLess
<1>8. Living'
  BY <1>0, <1>1, <1>2 DEF ShellTyped, Living, CallInv
<1> QED
  BY <1>2, <1>3, <1>4, <1>5, <1>6, <1>7, <1>8, TypesBack DEF ShellInv

(* The command's answer is what the pipe holds.                            *)
LEMMA CommandEndsKept ==
    ASSUME ShellInv,
           NEW c \in Tools,
           call[c].at = "read",
           call' = [call EXCEPT ![c].at = "done", ![c].got = unread[call[c].on]],
           executing' = [p \in Pids |-> IF executing[p] = c THEN Free ELSE executing[p]],
           starting' = IF starting = c THEN Free ELSE starting,
           mutating' = IF mutating = c THEN Free ELSE mutating,
           unread' = [unread EXCEPT ![call[c].on] = {}],
           table' = IF call[c].on \in alive THEN table ELSE table \ {call[c].on},
           expired' = expired \ {call[c].on},
           UNCHANGED <<alive, stubborn, shells, shutdown, told, spared, cutOff>>
    PROVE  ShellInv'
<1>0. /\ ShellTyped /\ CallInv(c) /\ Held /\ Piped /\ Tabled /\ Living /\ call[c] \in Call
      /\ shells \in Nat /\ shells =< MaxSpawned /\ \A p \in Pids : p \in Nat
      /\ call[c].on \in Nat /\ call[c].target \in Nat /\ call[c].todo \subseteq Pids
  BY CallFacts
<1>1. /\ call'[c].kind = call[c].kind
      /\ call'[c].at = "done"
      /\ call'[c].on = call[c].on
      /\ call'[c].target = call[c].target
      /\ call'[c].got = unread[call[c].on]
      /\ call'[c].todo = call[c].todo
      /\ call' \in [Tools -> Call] /\ \A d \in Tools \ {c} : call'[d] = call[d]
  <2>1. call'[c] = [call[c] EXCEPT !.at = "done", !.got = unread[call[c].on]] /\ \A d \in Tools \ {c} : call'[d] = call[d]
    BY <1>0 DEF ShellTyped
  <2>2. [call[c] EXCEPT !.at = "done", !.got = unread[call[c].on]] \in Call
    <3>1. "done" \in Stages /\ unread[call[c].on] \in SUBSET Tools
      BY <1>0 DEF Stages, CallInv, ShellTyped
    <3> QED
      BY <1>0, <3>1, CallShapes
  <2>3. call' \in [Tools -> Call]
    BY <1>0, <2>1, <2>2 DEF ShellTyped
  <2> QED
    BY <1>0, <2>1, <2>3 DEF Call, Commanded!Idle
<1>2. ShellTyped'
  BY <1>0, <1>1, Freed, ShellBounds DEF ShellTyped
<1>3. \A d \in Tools \ {c} : CallInv(d)'
  <2>1. \A d \in Tools \ {c} : /\ call'[d] = call[d] /\ told'[d] = told[d]
                               /\ starting' = d <=> starting = d
                               /\ \A p \in Pids : executing'[p] = d <=> executing[p] = d
    BY <1>0, <1>1, Freed, ShellBounds DEF ShellTyped, CallInv
  <2>2. \A p \in Pids : executing[p] = Free => executing'[p] = Free \/ p \in table
    BY <1>0, <1>1, Freed, ShellBounds DEF ShellTyped, CallInv
  <2>3. /\ shells' \in Nat /\ shells =< shells' /\ cutOff \subseteq cutOff' /\ shutdown' = shutdown
        /\ table' \in SUBSET Pids /\ \A p \in table' \ table : p > shells
        /\ table' \subseteq table \/ starting = c
    BY <1>0, <1>1, <1>2, ShellBounds DEF ShellTyped, CallInv
  <2>4. Alone(c)
    BY <2>1, <2>2, <2>3 DEF Alone
  <2> QED
    BY <2>4, Untouched
<1>4. CallInv(c)'
  <2>1. call'[c].got \subseteq {c} \cup cutOff'
    BY <1>0, <1>1, ShellBounds DEF Piped, CallInv
  <2>2. call'[c].on =< shells' /\ (\A p \in call'[c].todo : p =< shells') /\ (call'[c].kind = "exec" => call'[c].on \in Pids)
    BY <1>0, <1>1 DEF CallInv
  <2> QED
    BY <1>1, <2>1, <2>2, Finished
<1>5. Held'
  BY <1>0, <1>1, <1>2, Freed, ShellBounds DEF ShellTyped, Held, CallInv
<1>6. Piped'
  BY <1>0, <1>1, <1>2, Freed, ShellBounds DEF ShellTyped, Piped, CallInv, Held
<1>7. Tabled'
  BY <1>0, TableLess
<1>8. Living'
  BY <1>0, <1>1, <1>2 DEF ShellTyped, Living, CallInv
<1> QED
  BY <1>2, <1>3, <1>4, <1>5, <1>6, <1>7, <1>8, TypesBack DEF ShellInv

(* A process of a call's own exits.                                        *)
LEMMA OnceEndsKept ==
    ASSUME ShellInv,
           NEW c \in Tools,
           call[c].at = "wait",
           call' = [call EXCEPT ![c].at = "done", ![c].got = {c}],
           executing' = [p \in Pids |-> IF executing[p] = c THEN Free ELSE executing[p]],
           starting' = IF starting = c THEN Free ELSE starting,
           mutating' = IF mutating = c THEN Free ELSE mutating,
           alive' = alive \ {call[c].on},
           UNCHANGED <<table, stubborn, expired, unread, shells, shutdown, told, spared,
           cutOff>>
    PROVE  ShellInv'
<1>0. /\ ShellTyped /\ CallInv(c) /\ Held /\ Piped /\ Tabled /\ Living /\ call[c] \in Call
      /\ shells \in Nat /\ shells =< MaxSpawned /\ \A p \in Pids : p \in Nat
      /\ call[c].on \in Nat /\ call[c].target \in Nat /\ call[c].todo \subseteq Pids
  BY CallFacts
<1>1. /\ call'[c].kind = call[c].kind
      /\ call'[c].at = "done"
      /\ call'[c].on = call[c].on
      /\ call'[c].target = call[c].target
      /\ call'[c].got = {c}
      /\ call'[c].todo = call[c].todo
      /\ call' \in [Tools -> Call] /\ \A d \in Tools \ {c} : call'[d] = call[d]
  <2>1. call'[c] = [call[c] EXCEPT !.at = "done", !.got = {c}] /\ \A d \in Tools \ {c} : call'[d] = call[d]
    BY <1>0 DEF ShellTyped
  <2>2. [call[c] EXCEPT !.at = "done", !.got = {c}] \in Call
    <3>1. "done" \in Stages /\ {c} \in SUBSET Tools
      BY DEF Stages
    <3> QED
      BY <1>0, <3>1, CallShapes
  <2>3. call' \in [Tools -> Call]
    BY <1>0, <2>1, <2>2 DEF ShellTyped
  <2> QED
    BY <1>0, <2>1, <2>3 DEF Call, Commanded!Idle
<1>2. ShellTyped'
  BY <1>0, <1>1, Freed, ShellBounds DEF ShellTyped
<1>3. \A d \in Tools \ {c} : CallInv(d)'
  <2>1. \A d \in Tools \ {c} : /\ call'[d] = call[d] /\ told'[d] = told[d]
                               /\ starting' = d <=> starting = d
                               /\ \A p \in Pids : executing'[p] = d <=> executing[p] = d
    BY <1>0, <1>1, Freed, ShellBounds DEF ShellTyped, CallInv
  <2>2. \A p \in Pids : executing[p] = Free => executing'[p] = Free \/ p \in table
    BY <1>0, <1>1, Freed, ShellBounds DEF ShellTyped, CallInv
  <2>3. /\ shells' \in Nat /\ shells =< shells' /\ cutOff \subseteq cutOff' /\ shutdown' = shutdown
        /\ table' \in SUBSET Pids /\ \A p \in table' \ table : p > shells
        /\ table' \subseteq table \/ starting = c
    BY <1>0, <1>1, <1>2, ShellBounds DEF ShellTyped, CallInv
  <2>4. Alone(c)
    BY <2>1, <2>2, <2>3 DEF Alone
  <2> QED
    BY <2>4, Untouched
<1>4. CallInv(c)'
  <2>1. call'[c].got \subseteq {c} \cup cutOff'
    BY <1>1
  <2>2. call'[c].on =< shells' /\ (\A p \in call'[c].todo : p =< shells') /\ (call'[c].kind = "exec" => call'[c].on \in Pids)
    BY <1>0, <1>1 DEF CallInv
  <2> QED
    BY <1>1, <2>1, <2>2, Finished
<1>5. Held'
  BY <1>0, <1>1, <1>2, Freed, ShellBounds DEF ShellTyped, Held, CallInv
<1>6. Piped'
  BY <1>0, <1>1, <1>2, Freed, ShellBounds DEF ShellTyped, Piped, CallInv, Held
<1>7. Tabled'
  BY <1>0, TableLess
<1>8. Living'
  BY <1>0, <1>1, <1>2 DEF ShellTyped, Living, CallInv
<1> QED
  BY <1>2, <1>3, <1>4, <1>5, <1>6, <1>7, <1>8, TypesBack DEF ShellInv

(* The session is ended, and the look goes on; ...                         *)
LEMMA PruneGoesOnKept ==
    ASSUME ShellInv,
           NEW c \in Tools,
           call[c].at = "kill",
           Commanded!WasPruning(c),
           call' = [call EXCEPT ![c].at = "prune"],
           alive' = alive \ {call[c].target},
           UNCHANGED <<table, stubborn, expired, executing, unread, starting, mutating, shells,
           shutdown, told, spared, cutOff>>
    PROVE  ShellInv'
<1>0. /\ ShellTyped /\ CallInv(c) /\ Held /\ Piped /\ Tabled /\ Living /\ call[c] \in Call
      /\ shells \in Nat /\ shells =< MaxSpawned /\ \A p \in Pids : p \in Nat
      /\ call[c].on \in Nat /\ call[c].target \in Nat /\ call[c].todo \subseteq Pids
  BY CallFacts
<1>1. /\ call'[c].kind = call[c].kind
      /\ call'[c].at = "prune"
      /\ call'[c].on = call[c].on
      /\ call'[c].target = call[c].target
      /\ call'[c].got = call[c].got
      /\ call'[c].todo = call[c].todo
      /\ call' \in [Tools -> Call] /\ \A d \in Tools \ {c} : call'[d] = call[d]
  <2>1. call'[c] = [call[c] EXCEPT !.at = "prune"] /\ \A d \in Tools \ {c} : call'[d] = call[d]
    BY <1>0 DEF ShellTyped
  <2>2. [call[c] EXCEPT !.at = "prune"] \in Call
    BY <1>0, CallShapes, ShellBounds DEF ShellTyped, Stages, Commanded!Kinds
  <2>3. call' \in [Tools -> Call]
    BY <1>0, <2>1, <2>2 DEF ShellTyped
  <2> QED
    BY <1>0, <2>1, <2>3 DEF Call, Commanded!Idle
<1>2. ShellTyped'
  BY <1>0, <1>1, ShellBounds DEF ShellTyped
<1>3. \A d \in Tools \ {c} : CallInv(d)'
  <2>1. \A d \in Tools \ {c} : /\ call'[d] = call[d] /\ told'[d] = told[d]
                               /\ starting' = d <=> starting = d
                               /\ \A p \in Pids : executing'[p] = d <=> executing[p] = d
    BY <1>0, <1>1, ShellBounds DEF ShellTyped, CallInv
  <2>2. \A p \in Pids : executing[p] = Free => executing'[p] = Free \/ p \in table
    BY <1>0, <1>1, ShellBounds DEF ShellTyped, CallInv
  <2>3. /\ shells' \in Nat /\ shells =< shells' /\ cutOff \subseteq cutOff' /\ shutdown' = shutdown
        /\ table' \in SUBSET Pids /\ \A p \in table' \ table : p > shells
        /\ table' \subseteq table \/ starting = c
    BY <1>0, <1>1, <1>2, ShellBounds DEF ShellTyped, CallInv
  <2>4. Alone(c)
    BY <2>1, <2>2, <2>3 DEF Alone
  <2> QED
    BY <2>4, Untouched
<1>4. CallInv(c)'
  <2>1. /\ call'[c].on =< shells' /\ (call'[c].kind = "exec" => call'[c].on \in Pids)
        /\ call'[c].got \subseteq {c} \cup cutOff'
    BY <1>0, <1>1 DEF CallInv, ShellTyped
  <2>2. "registry" \in told'[c] \/ shutdown' \in {"closing", "closed"} => Ending(c)'
    BY <1>0, <1>1 DEF CallInv, Ending, Commanded!WasPruning, ShellTyped
  <2>3. call'[c].at = "kill" => /\ call'[c].target \in Pids \ table' /\ call'[c].target =< shells'
                                /\ Commanded!WasPruning(c)' => executing'[call'[c].target] = Free
    BY <1>0, <1>1, <1>2, ShellBounds DEF CallInv, Tabled, ShellTyped, Commanded!WasPruning
  <2>4. /\ call'[c].at \in {"drain", "read"} => /\ call'[c].kind = "exec" /\ call'[c].on \in Pids
                                                /\ executing'[call'[c].on] = c
        /\ call'[c].at = "wait" => call'[c].kind = "once" /\ call'[c].on \in Pids
        /\ call'[c].at \in {"lock", "spawn"} => call'[c].kind = "start"
        /\ call'[c].at # "idle" /\ \A p \in call'[c].todo : p =< shells'
        /\ call'[c].at = "spawn" => starting' = c /\ Cardinality(table') < MaxSessions
    BY <1>0, <1>1, <1>2, ShellBounds DEF CallInv, Tabled, ShellTyped
  <2> QED
    BY <2>1, <2>2, <2>3, <2>4 DEF CallInv
<1>5. Held'
  BY <1>0, <1>1, <1>2, ShellBounds DEF ShellTyped, Held, CallInv
<1>6. Piped'
  BY <1>0, <1>1, <1>2, ShellBounds DEF ShellTyped, Piped, CallInv, Held
<1>7. Tabled'
  BY <1>0, TableLess
<1>8. Living'
  BY <1>0, <1>1, <1>2 DEF ShellTyped, Living, CallInv
<1> QED
  BY <1>2, <1>3, <1>4, <1>5, <1>6, <1>7, <1>8, TypesBack DEF ShellInv

(* ... or the call ends, with what its own pipe still holds.               *)
LEMMA KillEndsKept ==
    ASSUME ShellInv,
           NEW c \in Tools,
           call[c].at = "kill",
           ~Commanded!WasPruning(c),
           call' = [call EXCEPT ![c].at = "done", ![c].got = Commanded!Leftover(c)],
           executing' = [p \in Pids |-> IF executing[p] = c THEN Free ELSE executing[p]],
           starting' = IF starting = c THEN Free ELSE starting,
           mutating' = IF mutating = c THEN Free ELSE mutating,
           alive' = alive \ {call[c].target},
           unread' = [p \in Pids |-> IF executing[p] = c THEN {} ELSE unread[p]],
           UNCHANGED <<table, stubborn, expired, shells, shutdown, told, spared, cutOff>>
    PROVE  ShellInv'
<1>0. /\ ShellTyped /\ CallInv(c) /\ Held /\ Piped /\ Tabled /\ Living /\ call[c] \in Call
      /\ shells \in Nat /\ shells =< MaxSpawned /\ \A p \in Pids : p \in Nat
      /\ call[c].on \in Nat /\ call[c].target \in Nat /\ call[c].todo \subseteq Pids
  BY CallFacts
<1>1. /\ call'[c].kind = call[c].kind
      /\ call'[c].at = "done"
      /\ call'[c].on = call[c].on
      /\ call'[c].target = call[c].target
      /\ call'[c].got = Commanded!Leftover(c)
      /\ call'[c].todo = call[c].todo
      /\ call' \in [Tools -> Call] /\ \A d \in Tools \ {c} : call'[d] = call[d]
  <2>1. call'[c] = [call[c] EXCEPT !.at = "done", !.got = Commanded!Leftover(c)] /\ \A d \in Tools \ {c} : call'[d] = call[d]
    BY <1>0 DEF ShellTyped
  <2>2. [call[c] EXCEPT !.at = "done", !.got = Commanded!Leftover(c)] \in Call
    <3>1. "done" \in Stages /\ Commanded!Leftover(c) \in SUBSET Tools
      BY <1>0 DEF Stages, CallInv, ShellTyped, Commanded!Leftover
    <3> QED
      BY <1>0, <3>1, CallShapes
  <2>3. call' \in [Tools -> Call]
    BY <1>0, <2>1, <2>2 DEF ShellTyped
  <2> QED
    BY <1>0, <2>1, <2>3 DEF Call, Commanded!Idle
<1>2. ShellTyped'
  BY <1>0, <1>1, Freed, ShellBounds DEF ShellTyped
<1>3. \A d \in Tools \ {c} : CallInv(d)'
  <2>1. \A d \in Tools \ {c} : /\ call'[d] = call[d] /\ told'[d] = told[d]
                               /\ starting' = d <=> starting = d
                               /\ \A p \in Pids : executing'[p] = d <=> executing[p] = d
    BY <1>0, <1>1, Freed, ShellBounds DEF ShellTyped, CallInv
  <2>2. \A p \in Pids : executing[p] = Free => executing'[p] = Free \/ p \in table
    BY <1>0, <1>1, Freed, ShellBounds DEF ShellTyped, CallInv
  <2>3. /\ shells' \in Nat /\ shells =< shells' /\ cutOff \subseteq cutOff' /\ shutdown' = shutdown
        /\ table' \in SUBSET Pids /\ \A p \in table' \ table : p > shells
        /\ table' \subseteq table \/ starting = c
    BY <1>0, <1>1, <1>2, ShellBounds DEF ShellTyped, CallInv
  <2>4. Alone(c)
    BY <2>1, <2>2, <2>3 DEF Alone
  <2> QED
    BY <2>4, Untouched
<1>4. CallInv(c)'
  <2>1. call'[c].got \subseteq {c} \cup cutOff'
    BY <1>0, <1>1, ShellBounds DEF Piped, CallInv, Commanded!Leftover
  <2>2. call'[c].on =< shells' /\ (\A p \in call'[c].todo : p =< shells') /\ (call'[c].kind = "exec" => call'[c].on \in Pids)
    BY <1>0, <1>1 DEF CallInv
  <2> QED
    BY <1>1, <2>1, <2>2, Finished
<1>5. Held'
  BY <1>0, <1>1, <1>2, Freed, ShellBounds DEF ShellTyped, Held, CallInv
<1>6. Piped'
  BY <1>0, <1>1, <1>2, Freed, ShellBounds DEF ShellTyped, Piped, CallInv, Held
<1>7. Tabled'
  BY <1>0, TableLess
<1>8. Living'
  BY <1>0, <1>1, <1>2 DEF ShellTyped, Living, CallInv
<1> QED
  BY <1>2, <1>3, <1>4, <1>5, <1>6, <1>7, <1>8, TypesBack DEF ShellInv

(* A cancellation that finds the call without a process to end, or ending  *)
(* one.                                                                    *)
LEMMA InterruptedKept ==
    ASSUME ShellInv,
           NEW c \in Tools,
           call[c].at \in {"prune", "lock", "spawn", "drain", "kill"},
           \A d \in Tools \ {c} : told'[d] = told[d],
           told' \in [Tools -> SUBSET {"owner", "registry"}],
           call' = [call EXCEPT ![c].at = "done", ![c].got = {}],
           executing' = [p \in Pids |-> IF executing[p] = c THEN Free ELSE executing[p]],
           starting' = IF starting = c THEN Free ELSE starting,
           mutating' = IF mutating = c THEN Free ELSE mutating,
           alive' = IF call[c].at = "kill" /\ call[c].target \notin stubborn THEN alive \ {call[c].target} ELSE alive,
           spared' = IF call[c].at = "kill" /\ call[c].target \in stubborn THEN spared \cup {call[c].target} ELSE spared,
           cutOff' = IF call[c].at = "drain" THEN cutOff \cup {c} ELSE cutOff,
           UNCHANGED <<table, stubborn, expired, unread, shells, shutdown>>
    PROVE  ShellInv'
<1>0. /\ ShellTyped /\ CallInv(c) /\ Held /\ Piped /\ Tabled /\ Living /\ call[c] \in Call
      /\ shells \in Nat /\ shells =< MaxSpawned /\ \A p \in Pids : p \in Nat
      /\ call[c].on \in Nat /\ call[c].target \in Nat /\ call[c].todo \subseteq Pids
  BY CallFacts
<1>1. /\ call'[c].kind = call[c].kind
      /\ call'[c].at = "done"
      /\ call'[c].on = call[c].on
      /\ call'[c].target = call[c].target
      /\ call'[c].got = {}
      /\ call'[c].todo = call[c].todo
      /\ call' \in [Tools -> Call] /\ \A d \in Tools \ {c} : call'[d] = call[d]
  <2>1. call'[c] = [call[c] EXCEPT !.at = "done", !.got = {}] /\ \A d \in Tools \ {c} : call'[d] = call[d]
    BY <1>0 DEF ShellTyped
  <2>2. [call[c] EXCEPT !.at = "done", !.got = {}] \in Call
    BY <1>0, CallShapes, ShellBounds DEF ShellTyped, Stages, Commanded!Kinds
  <2>3. call' \in [Tools -> Call]
    BY <1>0, <2>1, <2>2 DEF ShellTyped
  <2> QED
    BY <1>0, <2>1, <2>3 DEF Call, Commanded!Idle
<1>2. ShellTyped'
  BY <1>0, <1>1, Freed, ShellBounds DEF ShellTyped
<1>3. \A d \in Tools \ {c} : CallInv(d)'
  <2>1. \A d \in Tools \ {c} : /\ call'[d] = call[d] /\ told'[d] = told[d]
                               /\ starting' = d <=> starting = d
                               /\ \A p \in Pids : executing'[p] = d <=> executing[p] = d
    BY <1>0, <1>1, Freed, ShellBounds DEF ShellTyped, CallInv
  <2>2. \A p \in Pids : executing[p] = Free => executing'[p] = Free \/ p \in table
    BY <1>0, <1>1, Freed, ShellBounds DEF ShellTyped, CallInv
  <2>3. /\ shells' \in Nat /\ shells =< shells' /\ cutOff \subseteq cutOff' /\ shutdown' = shutdown
        /\ table' \in SUBSET Pids /\ \A p \in table' \ table : p > shells
        /\ table' \subseteq table \/ starting = c
    BY <1>0, <1>1, <1>2, ShellBounds DEF ShellTyped, CallInv
  <2>4. Alone(c)
    BY <2>1, <2>2, <2>3 DEF Alone
  <2> QED
    BY <2>4, Untouched
<1>4. CallInv(c)'
  <2>1. call'[c].got \subseteq {c} \cup cutOff'
    BY <1>1
  <2>2. call'[c].on =< shells' /\ (\A p \in call'[c].todo : p =< shells') /\ (call'[c].kind = "exec" => call'[c].on \in Pids)
    BY <1>0, <1>1 DEF CallInv
  <2> QED
    BY <1>1, <2>1, <2>2, Finished
<1>5. Held'
  BY <1>0, <1>1, <1>2, Freed, ShellBounds DEF ShellTyped, Held, CallInv
<1>6. Piped'
  BY <1>0, <1>1, <1>2, Freed, ShellBounds DEF ShellTyped, Piped, CallInv, Held
<1>7. Tabled'
  BY <1>0, TableLess
<1>8. Living'
  BY <1>0, <1>1, <1>2 DEF ShellTyped, Living, CallInv
<1> QED
  BY <1>2, <1>3, <1>4, <1>5, <1>6, <1>7, <1>8, TypesBack DEF ShellInv

(* A session exits or has not been used for long, which moves no call, ... *)
LEMMA SessionAgesKept ==
    ASSUME ShellInv, alive' \subseteq alive, expired' \in SUBSET Pids,
           UNCHANGED <<call, table, stubborn, executing, unread, starting, mutating, shells,
                       shutdown, told, spared, cutOff>>
    PROVE  ShellInv'
<1>1. ShellTyped /\ (\A c \in Tools : CallInv(c)) /\ Held /\ Piped /\ Tabled /\ Living
  BY ShellTypes DEF ShellInv
<1>2. ShellTyped' /\ Held' /\ Piped' /\ Tabled' /\ Living'
  BY <1>1 DEF ShellTyped, Held, Piped, Tabled, Living
<1>3. \A c \in Tools : CallInv(c)'
  BY <1>1 DEF CallInv, Ending, Commanded!WasPruning
<1> QED
  BY <1>2, <1>3, TypesBack DEF ShellInv

(* ... and the registry closes: no call is left that starts or uses a      *)
(* process when the shells are ended.                                      *)
LEMMA ShellCloseKept ==
    ASSUME ShellInv, Commanded!Close
    PROVE  ShellInv'
<1>0. ShellTyped /\ (\A c \in Tools : CallInv(c)) /\ Held /\ Piped /\ Tabled /\ Living
  BY ShellTypes DEF ShellInv
<1>1. /\ \/ shutdown = "open" /\ shutdown' = "canceling" /\ UNCHANGED <<table, alive>>
         \/ /\ shutdown = "canceling" /\ shutdown' = "closing" /\ UNCHANGED <<table, alive>>
            /\ \A c \in Tools : call[c].at \notin {"idle", "done"} => "registry" \in told[c]
         \/ /\ shutdown = "closing" /\ shutdown' = "closed"
            /\ alive' = alive \ table /\ table' = {}
      /\ UNCHANGED <<call, stubborn, expired, executing, unread, starting, mutating, shells, told,
                     spared, cutOff>>
  BY DEF Commanded!Close, Commanded!At
<1>2. ShellTyped' /\ Held' /\ Piped' /\ Living'
  BY <1>0, <1>1 DEF ShellTyped, Held, Piped, Living
<1>3. Tabled'
  <2>1. Cardinality({}) = 0 /\ 0 =< MaxSessions
    BY FS_EmptySet, ShellBounds
  <2>2. (shutdown' # "closed" => table' = table) /\ (shutdown' = "closed" => table' = {})
        /\ (shutdown # "closed" \/ table = {})
    BY <1>0, <1>1 DEF Tabled
  <2>3. shells' = shells
    BY <1>1
  <2>4. CASE shutdown' = "closed"
    BY <2>1, <2>2, <2>4 DEF Tabled
  <2>5. CASE shutdown' # "closed"
    BY <1>0, <2>2, <2>3, <2>5 DEF Tabled
  <2> QED
    BY <2>4, <2>5
<1>4. ASSUME NEW c \in Tools PROVE CallInv(c)'
  <2>1. Ending(c)' <=> Ending(c)
    BY <1>1 DEF Ending, Commanded!WasPruning
  <2>2. shutdown' \in {"closing", "closed"} => Ending(c)
    BY <1>0, <1>1 DEF CallInv, Ending
  <2>3. Ending(c) => call[c].at # "spawn"
    BY DEF Ending
  <2>4. call[c].at = "spawn" => table' = table
    BY <1>0, <1>1, <2>3 DEF CallInv
  <2> QED
    BY <1>0, <1>1, <2>1, <2>2, <2>4 DEF CallInv, Commanded!WasPruning
<1> QED
  BY <1>2, <1>3, <1>4, TypesBack DEF ShellInv

(* Nothing is running when the manager is made.                            *)
LEMMA ShellStart == Commanded!Init => ShellInv
<1> SUFFICES ASSUME Commanded!Init PROVE ShellInv
  OBVIOUS
<1>1. ShellTyped
  <2>1. Commanded!Idle \in Call
    BY CallShapes
  <2>2. 0 \in 0 .. MaxSpawned
    BY ShellBounds
  <2> QED
    BY <2>1, <2>2 DEF Commanded!Init, ShellTyped, Pids
<1>2. \A c \in Tools : CallInv(c)
  BY ShellBounds DEF Commanded!Init, CallInv, Commanded!Idle, Ending
<1>3. Held /\ Piped /\ Living
  BY ShellBounds DEF Commanded!Init, Held, Piped, Living, Pids
<1>4. Tabled
  BY ShellBounds, FS_EmptySet DEF Commanded!Init, Tabled
<1> QED
  BY <1>1, <1>2, <1>3, <1>4, ShellTypes DEF ShellInv

(* A cancellation reaches a call.                                          *)
LEMMA CancelKept ==
    ASSUME ShellInv, NEW c \in Tools, NEW who \in {"owner", "registry"}, Commanded!Cancel(c, who)
    PROVE  ShellInv'
<1>0. ShellTyped /\ CallInv(c) /\ call[c] \in Call
  BY CallFacts
<1>1. /\ told' = [told EXCEPT ![c] = @ \cup {who}] /\ call[c].at \notin {"idle", "done"}
      /\ UNCHANGED <<stubborn, expired, unread, shells, shutdown>>
  BY DEF Commanded!Cancel, Commanded!Interrupt, Commanded!At
<1>2. told' \in [Tools -> SUBSET {"owner", "registry"}] /\ \A d \in Tools \ {c} : told'[d] = told[d]
  BY <1>0, <1>1 DEF ShellTyped
<1>3. call[c].at \in {"read", "wait", "prune", "lock", "spawn", "drain", "kill"}
  BY <1>0, <1>1, CallShapes DEF Stages
<1>4. CASE call[c].at \in {"read", "wait"}
  <2>1. /\ call' = [call EXCEPT ![c].at = "kill", ![c].target = call[c].on]
        /\ table' = table \ {call[c].on}
        /\ UNCHANGED <<alive, executing, starting, mutating, spared, cutOff>>
    BY <1>4 DEF Commanded!Cancel, Commanded!Interrupt, Commanded!Discard, Commanded!At
  <2> QED
    BY <1>1, <1>2, <1>4, <2>1, DiscardsKept
<1>5. CASE call[c].at \notin {"read", "wait"}
  <2>1. /\ call' = [call EXCEPT ![c].at = "done", ![c].got = {}]
        /\ executing' = [p \in Pids |-> IF executing[p] = c THEN Free ELSE executing[p]]
        /\ starting' = IF starting = c THEN Free ELSE starting
        /\ mutating' = IF mutating = c THEN Free ELSE mutating
        /\ alive' = IF call[c].at = "kill" /\ call[c].target \notin stubborn
                    THEN alive \ {call[c].target} ELSE alive
        /\ spared' = IF call[c].at = "kill" /\ call[c].target \in stubborn
                     THEN spared \cup {call[c].target} ELSE spared
        /\ cutOff' = IF call[c].at = "drain" THEN cutOff \cup {c} ELSE cutOff
        /\ UNCHANGED table
    BY <1>5 DEF Commanded!Cancel, Commanded!Interrupt, Commanded!Ends, Commanded!At, Pids
  <2> QED
    BY <1>1, <1>2, <1>3, <1>5, <2>1, InterruptedKept
<1> QED
  BY <1>4, <1>5

(* The steps of a call, one by one.                                        *)
LEMMA LookKept ==
    ASSUME ShellInv, NEW c \in Tools, NEW ignores \in BOOLEAN, NEW long \in BOOLEAN,
           Commanded!Pruned(c, ignores, long)
    PROVE  ShellInv'
<1>1. /\ call[c].at = "prune"
      /\ UNCHANGED <<alive, expired, shells, shutdown, told, spared, cutOff>>
  BY DEF Commanded!Pruned, Commanded!At
<1>2. CASE /\ call[c].kind = "start" /\ Commanded!Goes(c, "lock")
           /\ UNCHANGED <<table, stubborn, executing, unread, starting, mutating>>
  BY <1>1, <1>2, StartQueuesKept DEF Commanded!Goes
<1>3. CASE /\ call[c].kind = "list" /\ Commanded!Ends(c, {})
           /\ UNCHANGED <<table, stubborn, unread>>
  BY <1>1, <1>3, LookEndsKept DEF Commanded!Ends, Pids
<1>4. CASE /\ call[c].kind = "exec" /\ (call[c].on \notin table \/ call[c].on \notin alive)
           /\ table' = table \ {call[c].on} /\ Commanded!Ends(c, {}) /\ UNCHANGED <<stubborn, unread>>
  BY <1>1, <1>4, LookEndsKept DEF Commanded!Ends, Pids
<1>5. CASE /\ call[c].kind = "exec" /\ call[c].on \in table /\ executing[call[c].on] = Free
           /\ executing' = [executing EXCEPT ![call[c].on] = c]
           /\ unread' = [unread EXCEPT ![call[c].on] = @ \cup {c}]
           /\ stubborn' = IF ignores THEN stubborn \cup {call[c].on} ELSE stubborn
           /\ Commanded!Goes(c, IF long THEN "drain" ELSE "read")
           /\ UNCHANGED <<table, starting, mutating>>
  <2>1. (IF long THEN "drain" ELSE "read") \in {"drain", "read"}
    OBVIOUS
  <2> QED
    BY <1>1, <1>5, <2>1, ExecBeginsKept DEF Commanded!Goes
<1> QED
  BY <1>2, <1>3, <1>4, <1>5 DEF Commanded!Pruned

(* A command or a process of a call's own that ends.                       *)
LEMMA CompletesKept ==
    ASSUME ShellInv, NEW c \in Tools, Commanded!Completes(c)
    PROVE  ShellInv'
<1>1. UNCHANGED <<stubborn, shells, shutdown, told, spared, cutOff>>
  BY DEF Commanded!Completes
<1>2. CASE /\ call[c].at = "read" /\ Commanded!Ends(c, unread[call[c].on])
           /\ unread' = [unread EXCEPT ![call[c].on] = {}]
           /\ table' = IF call[c].on \in alive THEN table ELSE table \ {call[c].on}
           /\ expired' = expired \ {call[c].on} /\ UNCHANGED alive
  BY <1>1, <1>2, CommandEndsKept DEF Commanded!Ends, Pids
<1>3. CASE /\ call[c].at = "wait" /\ Commanded!Ends(c, {c})
           /\ alive' = alive \ {call[c].on} /\ UNCHANGED <<unread, table, expired>>
  BY <1>1, <1>3, OnceEndsKept DEF Commanded!Ends, Pids
<1> QED
  BY <1>2, <1>3 DEF Commanded!Completes, Commanded!At

(* A kill that ends, in the middle of a look or of the call.               *)
LEMMA KilledKept ==
    ASSUME ShellInv, NEW c \in Tools, Commanded!Killed(c)
    PROVE  ShellInv'
<1>1. /\ call[c].at = "kill" /\ alive' = alive \ {call[c].target}
      /\ UNCHANGED <<table, stubborn, expired, shells, shutdown, told, spared, cutOff>>
  BY DEF Commanded!Killed, Commanded!At
<1>2. CASE Commanded!WasPruning(c)
  <2>1. Commanded!Goes(c, "prune") /\ UNCHANGED <<executing, starting, mutating, unread>>
    BY <1>2 DEF Commanded!Killed
  <2> QED
    BY <1>1, <1>2, <2>1, PruneGoesOnKept DEF Commanded!Goes
<1>3. CASE ~Commanded!WasPruning(c)
  <2>1. /\ Commanded!Ends(c, Commanded!Leftover(c))
        /\ unread' = [p \in Pids |-> IF executing[p] = c THEN {} ELSE unread[p]]
    BY <1>3 DEF Commanded!Killed, Pids
  <2> QED
    BY <1>1, <1>3, <2>1, KillEndsKept DEF Commanded!Ends, Pids
<1> QED
  BY <1>2, <1>3

(* A start that takes its slot, and its process.                           *)
LEMMA SpawnKept ==
    ASSUME ShellInv, NEW c \in Tools, Commanded!Spawn(c) \/ Commanded!Spawned(c)
    PROVE  ShellInv'
<1>1. CASE Commanded!Spawn(c)
  <2>1. /\ call[c].at = "lock" /\ starting = Free
        /\ UNCHANGED <<table, alive, stubborn, expired, unread, shells, shutdown, told, spared, cutOff>>
    BY <1>1 DEF Commanded!Spawn, Commanded!At
  <2>2. CASE Commanded!IsClosing \/ Cardinality(table) >= MaxSessions
    <3>1. Commanded!Ends(c, {})
      BY <1>1, <2>2, SameCount DEF Commanded!Spawn
    <3> QED
      BY <2>1, <3>1, StartRefusedKept DEF Commanded!Ends, Pids
  <2>3. CASE ~(Commanded!IsClosing \/ Cardinality(table) >= MaxSessions)
    <3>1. /\ starting' = c /\ Commanded!Goes(c, "spawn") /\ UNCHANGED <<executing, mutating>>
      BY <1>1, <2>3, SameCount DEF Commanded!Spawn
    <3>2. Cardinality(table) < MaxSessions
      BY <2>3, CallFacts, TableCounts, ShellBounds DEF ShellTyped
    <3> QED
      BY <2>1, <2>3, <3>1, <3>2, StartLocksKept DEF Commanded!Goes, Commanded!IsClosing
  <2> QED
    BY <2>2, <2>3
<1>2. CASE Commanded!Spawned(c)
  <2>1. /\ call[c].at = "spawn" /\ shells < MaxSpawned
        /\ shells' = shells + 1 /\ alive' = alive \cup {shells'}
        /\ UNCHANGED <<stubborn, expired, unread, shutdown, told, spared, cutOff>>
    BY <1>2 DEF Commanded!Spawned, Commanded!At
  <2>2. ~Commanded!IsClosing
    BY <2>1, CallFacts DEF CallInv, Ending, Commanded!IsClosing
  <2>3. table' = table \cup {shells'} /\ Commanded!Ends(c, {})
    BY <1>2, <2>2 DEF Commanded!Spawned
  <2> QED
    BY <2>1, <2>3, StartEndsKept DEF Commanded!Ends, Pids
<1> QED
  BY <1>1, <1>2

(* The other steps of a call.                                              *)
LEMMA ShellCallKept ==
    ASSUME ShellInv, NEW c \in Tools,
           \/ \E k \in {"start", "exec", "list"} : Commanded!Begin(c, k)
           \/ \E p \in Pids : Commanded!Stop(c, p) \/ Commanded!Prune(c, p)
           \/ \E ignores \in BOOLEAN : Commanded!RunOnce(c, ignores)
           \/ Commanded!Drained(c) \/ Commanded!TimesOut(c)
    PROVE  ShellInv'
<1>1. ASSUME NEW k \in {"start", "exec", "list"}, Commanded!Begin(c, k) PROVE ShellInv'
  <2>1. PICK p \in 0 .. shells :
            /\ (k = "exec") = (p # 0)
            /\ call' = [call EXCEPT ![c] = [Commanded!Idle EXCEPT !.kind = k, !.at = "prune",
                                                                  !.on = p, !.todo = table]]
    BY <1>1 DEF Commanded!Begin
  <2> QED
    BY <1>1, <2>1, BeginsKept DEF Commanded!Begin, Commanded!At
<1>2. ASSUME NEW p \in Pids, Commanded!Stop(c, p) PROVE ShellInv'
  BY <1>2, StopsKept DEF Commanded!Stop, Commanded!At
<1>3. ASSUME NEW p \in Pids, Commanded!Prune(c, p) PROVE ShellInv'
  <2>1. PICK rest \in SUBSET (call[c].todo \ {p}) :
            call' = [call EXCEPT ![c].at = "kill", ![c].target = p, ![c].todo = rest]
    BY <1>3 DEF Commanded!Prune
  <2> QED
    BY <1>3, <2>1, PrunesKept DEF Commanded!Prune, Commanded!Prunable, Commanded!At
<1>4. ASSUME NEW ignores \in BOOLEAN, Commanded!RunOnce(c, ignores) PROVE ShellInv'
  BY <1>4, OnceBeginsKept DEF Commanded!RunOnce, Commanded!At
<1>5. ASSUME Commanded!Drained(c) PROVE ShellInv'
  <2>1. /\ call[c].at = "drain"
        /\ UNCHANGED <<alive, stubborn, expired, executing, unread, starting, mutating, shells,
                       shutdown, told, spared, cutOff>>
    BY <1>5 DEF Commanded!Drained, Commanded!At
  <2>2. CASE call[c].on \in alive
    BY <1>5, <2>1, <2>2, CommandTakenKept DEF Commanded!Drained, Commanded!Goes
  <2>3. CASE call[c].on \notin alive
    <3>1. Commanded!Discard(c, call[c].on)
      BY <1>5, <2>3 DEF Commanded!Drained
    <3> QED
      BY <2>1, <3>1, CallFacts, DiscardsKept DEF Commanded!Discard, ShellTyped
  <2> QED
    BY <2>2, <2>3
<1>6. ASSUME Commanded!TimesOut(c) PROVE ShellInv'
  BY <1>6, CallFacts, DiscardsKept DEF Commanded!TimesOut, Commanded!Discard, Commanded!At, ShellTyped
<1> QED
  BY <1>1, <1>2, <1>3, <1>4, <1>5, <1>6

(* Every step of the shell manager keeps the invariant.                    *)
LEMMA ShellStep ==
    ASSUME ShellInv, Commanded!Next \/ UNCHANGED shellVars
    PROVE  ShellInv'
<1>1. ASSUME UNCHANGED shellVars PROVE ShellInv'
  BY <1>1, SessionAgesKept, ShellTypes DEF shellVars, ShellInv, ShellTyped
<1>2. ASSUME Commanded!Next PROVE ShellInv'
  <2>1. ASSUME NEW p \in Pids, Commanded!Exits(p) \/ Commanded!Expires(p) PROVE ShellInv'
    BY <2>1, SessionAgesKept, ShellTypes DEF Commanded!Exits, Commanded!Expires, ShellInv, ShellTyped
  <2>2. ASSUME NEW c \in Tools,
               \/ \E k \in {"start", "exec", "list"} : Commanded!Begin(c, k)
               \/ \E p \in Pids : Commanded!Stop(c, p) \/ Commanded!Prune(c, p)
               \/ \E ignores, long \in BOOLEAN : Commanded!Pruned(c, ignores, long)
               \/ \E ignores \in BOOLEAN : Commanded!RunOnce(c, ignores)
               \/ Commanded!Spawn(c) \/ Commanded!Spawned(c) \/ Commanded!Drained(c)
               \/ Commanded!Completes(c) \/ Commanded!TimesOut(c) \/ Commanded!Killed(c)
               \/ \E who \in {"owner", "registry"} : Commanded!Cancel(c, who)
        PROVE  ShellInv'
    BY <2>2, ShellCallKept, LookKept, SpawnKept, CompletesKept, KilledKept, CancelKept
  <2> QED
    BY <1>2, <2>1, <2>2, ShellCloseKept DEF Commanded!Next, Pids
<1> QED
  BY <1>1, <1>2

(* What the invariant says of the processes.                               *)
LEMMA ShellAnswers ==
    ASSUME ShellInv
    PROVE  /\ Commanded!TypeOK /\ Commanded!NoForgottenProcess /\ Commanded!CommandsNotPruned
           /\ Commanded!OwnOutput /\ Commanded!ClosedLeavesNothing
<1>1. Commanded!TypeOK /\ (\A c \in Tools : CallInv(c)) /\ Tabled /\ Living
  BY DEF ShellInv
<1>2. Commanded!CommandsNotPruned /\ Commanded!OwnOutput
  BY <1>1 DEF CallInv, Commanded!CommandsNotPruned, Commanded!OwnOutput, Commanded!At
<1>3. Commanded!NoForgottenProcess
  <2>1. Cardinality(table) =< MaxSessions
    BY <1>1 DEF Tabled
  <2>2. \A p \in alive :
            \/ p \in table \/ p \in spared
            \/ \E c \in {d \in Tools : Commanded!At(d) = "kill"} : call[c].target = p
            \/ \E c \in {d \in Tools : Commanded!At(d) \in {"drain", "read", "wait"}} : call[c].on = p
    BY <1>1 DEF Living, Commanded!At
  <2> QED
    BY <2>1, <2>2, SameCount DEF Commanded!NoForgottenProcess
<1>4. Commanded!ClosedLeavesNothing
  BY <1>1 DEF CallInv, Ending, Tabled, Living, Commanded!ClosedLeavesNothing, Commanded!At
<1> QED
  BY <1>1, <1>2, <1>3, <1>4

-----------------------------------------------------------------------------
(* Language servers. The operation that starts a process has the start     *)
(* lock; one that waits has its document's lock; what is on the wire is    *)
(* about versions that were sent, each by one operation; and a process     *)
(* that takes documents has been sent all their versions, in order.        *)
Epochs == Language!Epochs
Versions == Language!Versions
Points == {"off", "start", "abort", "spawn", "init", "undo", "name", "queue", "wait", "actions", "done"}
Op == [pc : Points, uri : Documents \cup {None}, lock : Epochs, event : Epochs,
       started : 0 .. MaxProcesses, result : Ops \cup {None}]
Message == [uri : Documents, version : Versions, text : Ops, started : 0 .. MaxProcesses,
            ready : BOOLEAN]
Publication == [uri : Documents, version : Versions, text : Ops]
Opened == [version : Versions, text : Ops \cup {None}]

Starting == {"abort", "spawn", "init", "undo"}
Spent == {o \in Ops : ops[o].pc \in {"wait", "actions", "done"}}

LspTyped ==
    /\ proc \in 0 .. MaxProcesses /\ spawned \in 0 .. MaxProcesses /\ proc =< spawned
    /\ dead \in BOOLEAN /\ initialized \in BOOLEAN
    /\ startLock \in Ops \cup {None, "close"} /\ lspEpoch \in Epochs
    /\ holder \in [Documents -> [Epochs -> Ops \cup {None}]]
    /\ signalled \in [Documents -> [Epochs -> BOOLEAN]]
    /\ lspVersions \in [Documents -> Versions] /\ found \in [Documents -> Ops \cup {None}]
    /\ sent \in Seq(Message) /\ doc \in [Documents -> Opened] /\ published \in Seq(Publication)
    /\ ops \in [Ops -> Op] /\ lspClosing \in {"no", "cancel", "stop", "done"}
    /\ crossed \in BOOLEAN /\ astray \in BOOLEAN

OpInv(o) ==
    /\ ops[o].pc # "off" => ops[o].uri \in Documents
    /\ ops[o].pc \in Starting => startLock = o
    /\ (ops[o].pc = "spawn" => proc = 0) /\ (ops[o].pc = "init" => proc # 0)
    /\ ops[o].pc \in {"name", "queue"} =>
        /\ ops[o].started # 0 /\ ops[o].started =< spawned
        /\ ops[o].started = proc => initialized
    /\ ops[o].pc \in {"wait", "actions"} =>
        /\ holder[ops[o].uri][ops[o].lock] = o
        /\ ops[o].lock = ops[o].event \/ crossed
    /\ ops[o].pc = "wait" /\ signalled[ops[o].uri][ops[o].event] =>
        found[ops[o].uri] \in {None, o} \/ crossed
    /\ ops[o].result \in {None, o} \/ crossed

Processes ==
    /\ proc # 0 /\ (\A o \in Ops : ops[o].pc \notin {"init", "undo"}) => initialized
    /\ lspClosing \in {"stop", "done"} => \A o \in Ops : ops[o].pc \notin Starting
    /\ lspClosing = "done" => proc = 0

(* A version belongs to the operation that sent it.                        *)
About(u, version, text) ==
    /\ version # 0 /\ version =< lspVersions[u]
    /\ version = lspVersions[u] =>
        \A o \in Ops : ops[o].pc = "wait" /\ ops[o].uri = u /\ ops[o].event = lspEpoch =>
            text = o \/ crossed

Wires ==
    /\ \A i \in 1 .. Len(sent) :
        /\ About(sent[i].uri, sent[i].version, sent[i].text)
        /\ sent[i].started # 0 /\ sent[i].started =< spawned
        /\ sent[i].started = proc => sent[i].ready
    /\ \A i \in 1 .. Len(published) :
        About(published[i].uri, published[i].version, published[i].text)

Ordered ==
    /\ sent # <<>> => initialized
    /\ \A i, j \in 1 .. Len(sent) :
        i < j /\ sent[i].uri = sent[j].uri => sent[i].version < sent[j].version
    /\ \A i \in 1 .. Len(sent) :
        /\ doc[sent[i].uri].version < sent[i].version
        /\ \/ sent[i].version = doc[sent[i].uri].version + 1
           \/ \E j \in 1 .. Len(sent) : /\ j < i /\ sent[j].uri = sent[i].uri
                                        /\ sent[i].version = sent[j].version + 1
    /\ ~dead => \A u \in Documents :
        \/ lspVersions[u] = doc[u].version
        \/ \E j \in 1 .. Len(sent) : sent[j].uri = u /\ sent[j].version = lspVersions[u]

Counted == \A u \in Documents : lspVersions[u] =< Cardinality(Spent)

LspInv ==
    LspTyped /\ (\A o \in Ops : OpInv(o)) /\ Processes /\ Wires /\ (~astray => Ordered) /\ Counted

(* The instance counts as the library does, ...                            *)
LEMMA LspCounts == \A S : Language!Cardinality(S) = Cardinality(S)
BY DEF Language!Cardinality, Cardinality

(* ... and has its finite sets.                                            *)
LEMMA LspFinite == \A S : Language!IsFiniteSet(S) <=> IsFiniteSet(S)
BY DEF Language!IsFiniteSet, IsFiniteSet

(* The constants, and the ranges they bound.                               *)
LEMMA LspBounds ==
    /\ None \notin Ops /\ IsFiniteSet(Ops) /\ MaxProcesses \in Nat /\ MaxEpoch \in Nat
    /\ Epochs = 0 .. MaxEpoch /\ Versions = 0 .. Cardinality(Ops) /\ Cardinality(Ops) \in Nat
    /\ 0 .. MaxProcesses \subseteq Nat /\ Versions \subseteq Nat /\ Epochs \subseteq Nat
    /\ 0 \in Versions /\ 0 \in Epochs
<1>1. None \notin Ops /\ IsFiniteSet(Ops) /\ MaxProcesses \in Nat /\ MaxEpoch \in Nat
  BY ClientsAssumption, LspFinite DEF Language!LspAssumption
<1>2. Epochs = 0 .. MaxEpoch /\ Versions = 0 .. Cardinality(Ops)
  BY LspCounts DEF Epochs, Versions, Language!Epochs, Language!Versions
<1>3. Cardinality(Ops) \in Nat
  BY <1>1, FS_CardinalityType
<1> QED
  BY <1>1, <1>2, <1>3

(* What the model types, with records named.                               *)
LEMMA LspTypes == LspTyped => Language!TypeOK
<1> SUFFICES ASSUME LspTyped PROVE Language!TypeOK
  OBVIOUS
<1>1. spawned \in proc .. MaxProcesses
  BY LspBounds DEF LspTyped
<1>2. \A o \in Ops : ops[o].pc \in Points
  BY DEF LspTyped, Op
<1> QED
  BY <1>1, <1>2 DEF LspTyped, Language!TypeOK, Points, Epochs, Versions, Opened

(* The operations that have sent, or never will, grow with each step.      *)
LEMMA CountsOn ==
    ASSUME Spent \subseteq Spent'
    PROVE  /\ Cardinality(Spent) \in Nat /\ Cardinality(Spent') \in Nat
           /\ Cardinality(Spent) =< Cardinality(Spent') /\ Cardinality(Spent') =< Cardinality(Ops)
           /\ \A o \in Ops : o \notin Spent /\ o \in Spent' => Cardinality(Spent) + 1 =< Cardinality(Spent')
<1>1. Spent \subseteq Ops /\ Spent' \subseteq Ops
  BY DEF Spent
<1>2. IsFiniteSet(Spent) /\ IsFiniteSet(Spent')
  BY <1>1, LspBounds, FS_Subset
<1>3. /\ Cardinality(Spent) \in Nat /\ Cardinality(Spent') \in Nat
      /\ Cardinality(Spent) =< Cardinality(Spent') /\ Cardinality(Spent') =< Cardinality(Ops)
  BY <1>1, <1>2, LspBounds, FS_Subset, FS_CardinalityType
<1>4. ASSUME NEW o \in Ops, o \notin Spent, o \in Spent'
      PROVE  Cardinality(Spent) + 1 =< Cardinality(Spent')
  <2>1. Cardinality(Spent \cup {o}) = Cardinality(Spent) + 1
    BY <1>2, <1>4, FS_AddElement
  <2>2. Spent \cup {o} \subseteq Spent'
    BY <1>4
  <2>3. Cardinality(Spent \cup {o}) =< Cardinality(Spent')
    BY <1>2, <2>2, FS_Subset
  <2> QED
    BY <2>1, <2>3
<1> QED
  BY <1>3, <1>4

(* What a step leaves to an operation it is not about.                     *)
Leaves(q) ==
    /\ ops'[q] = ops[q]
    /\ ops[q].pc \in Starting => startLock' = q /\ proc' = proc
    /\ proc' = proc \/ proc' = 0 \/ proc' > spawned
    /\ spawned =< spawned' /\ (initialized => initialized' \/ proc' = 0)
    /\ \A u \in Documents, e \in Epochs : /\ holder[u][e] = q => holder'[u][e] = q
                                          /\ signalled'[u][e] => signalled[u][e]
    /\ \A u \in Documents : found'[u] \in {None, found[u]}
    /\ crossed => crossed'

(* The invariant, about one operation.                                     *)
LEMMA OpFacts ==
    ASSUME LspInv, NEW o \in Ops
    PROVE  /\ LspTyped /\ OpInv(o) /\ ops[o] \in Op /\ o # None
           /\ proc \in Nat /\ spawned \in Nat /\ lspEpoch \in Nat /\ ops[o].started \in Nat
           /\ ops[o].lock \in Epochs /\ ops[o].event \in Epochs /\ lspEpoch \in Epochs
           /\ ops[o].pc \in Points /\ ops[o].result \in Ops \cup {None}
           /\ proc =< spawned /\ ops[o].started \in 0 .. MaxProcesses
<1>1. LspTyped /\ OpInv(o)
  BY DEF LspInv
<1>2. ops[o] \in Op
  BY <1>1 DEF LspTyped
<1>3. /\ ops[o].started \in 0 .. MaxProcesses /\ ops[o].pc \in Points
      /\ ops[o].lock \in Epochs /\ ops[o].event \in Epochs /\ ops[o].result \in Ops \cup {None}
  BY <1>2 DEF Op
<1>4. proc \in 0 .. MaxProcesses /\ spawned \in 0 .. MaxProcesses /\ lspEpoch \in Epochs /\ proc =< spawned
  BY <1>1 DEF LspTyped
<1> QED
  BY <1>1, <1>2, <1>3, <1>4, LspBounds

(* An operation that a step leaves where it is keeps its part.             *)
LEMMA LeftKept ==
    ASSUME LspInv, NEW q \in Ops, Leaves(q), proc' \in Nat, spawned' \in Nat
    PROVE  OpInv(q)'
<1>1. /\ LspTyped /\ OpInv(q) /\ ops[q] \in Op
      /\ proc \in Nat /\ spawned \in Nat /\ ops[q].started \in Nat
      /\ ops[q].lock \in Epochs /\ ops[q].event \in Epochs
  BY OpFacts
<1>2. ops'[q] = ops[q] /\ (crossed => crossed')
  BY DEF Leaves
<1>3. /\ ops[q].pc # "off" => ops[q].uri \in Documents
      /\ ops[q].result \in {None, q} \/ crossed'
  BY <1>1, <1>2 DEF OpInv
<1>4. /\ ops[q].pc \in Starting => startLock' = q
      /\ (ops[q].pc = "spawn" => proc' = 0) /\ (ops[q].pc = "init" => proc' # 0)
  <2>1. ops[q].pc \in {"spawn", "init"} => ops[q].pc \in Starting
    BY DEF Starting
  <2> QED
    BY <1>1, <2>1 DEF OpInv, Leaves
<1>5. ops[q].pc \in {"name", "queue"} =>
        /\ ops[q].started # 0 /\ ops[q].started =< spawned'
        /\ ops[q].started = proc' => initialized'
  BY <1>1 DEF OpInv, Leaves
<1>6. ops[q].pc \in {"wait", "actions"} =>
        /\ holder'[ops[q].uri][ops[q].lock] = q
        /\ ops[q].lock = ops[q].event \/ crossed'
  BY <1>1, <1>2, <1>3 DEF OpInv, Leaves
<1>7. ops[q].pc = "wait" /\ signalled'[ops[q].uri][ops[q].event] =>
        found'[ops[q].uri] \in {None, q} \/ crossed'
  BY <1>1, <1>2, <1>3 DEF OpInv, Leaves
<1> QED
  BY <1>2, <1>3, <1>4, <1>5, <1>6, <1>7 DEF OpInv

(* What was sent stays about the operations that wait.                     *)
NoneWaits == \A q \in Ops : ops'[q].pc = "wait" => ops[q].pc = "wait" /\ ops'[q].uri = ops[q].uri
                                                    /\ ops'[q].event = ops[q].event

(* What a message is about stays so when nobody begins to wait.            *)
LEMMA AboutKept ==
    ASSUME NoneWaits, lspVersions' = lspVersions, lspEpoch' = lspEpoch, crossed => crossed'
    PROVE  \A u, version, text : About(u, version, text) => About(u, version, text)'
BY DEF NoneWaits, About

(* The messages on the wires are kept when nothing is sent.                *)
LEMMA WiresKept ==
    ASSUME LspInv, NoneWaits, crossed => crossed', spawned' \in Nat, spawned =< spawned',
           proc' = proc \/ proc' > spawned, UNCHANGED <<lspVersions, lspEpoch, sent, published>>
    PROVE  Wires'
<1>1. LspTyped /\ Wires
  BY DEF LspInv
<1>2. spawned \in Nat /\ \A i \in 1 .. Len(sent) : sent[i].started \in Nat
  <2>1. \A i \in 1 .. Len(sent) : sent[i] \in Message
    BY <1>1 DEF LspTyped
  <2> QED
    BY <1>1, <2>1, LspBounds DEF LspTyped, Message
<1>3. \A u, version, text : About(u, version, text) => About(u, version, text)'
  BY AboutKept
<1>4. \A i \in 1 .. Len(sent) :
        /\ About(sent[i].uri, sent[i].version, sent[i].text)'
        /\ sent[i].started # 0 /\ sent[i].started =< spawned'
        /\ sent[i].started = proc' => sent[i].ready
  BY <1>1, <1>2, <1>3 DEF Wires
<1> QED
  BY <1>1, <1>3, <1>4 DEF Wires

(* A document has no more versions than operations spent.                  *)
LEMMA CountedKept ==
    ASSUME LspInv, LspTyped', Spent \subseteq Spent', \A u \in Documents : lspVersions'[u] =< lspVersions[u]
    PROVE  Counted'
<1>1. \A u \in Documents : lspVersions[u] \in Nat /\ lspVersions'[u] \in Nat
  BY LspBounds DEF LspInv, LspTyped
<1> QED
  BY <1>1, CountsOn DEF LspInv, Counted

(* An operation goes on without touching anything but the start lock.      *)
Moves(o) ==
    /\ ops' \in [Ops -> Op] /\ \A q \in Ops \ {o} : ops'[q] = ops[q]
    /\ ops[o].pc \notin {"wait", "actions", "done"} /\ ops'[o].pc \notin {"wait", "actions"}
    /\ startLock' \in Ops \cup {None, "close"} /\ \A q \in Ops \ {o} : startLock = q => startLock' = q
    /\ ops'[o].pc \in {"init", "undo"} \/ ops[o].pc \notin {"init", "undo"}
    /\ lspClosing \in {"stop", "done"} => ops'[o].pc \notin Starting
    /\ UNCHANGED <<proc, spawned, dead, initialized, lspEpoch, holder, signalled, lspVersions,
                   found, sent, doc, published, lspClosing, crossed, astray>>

(* An operation that only moves on, and does not wait.                     *)
LEMMA MovesKept ==
    ASSUME LspInv, NEW o \in Ops, Moves(o), OpInv(o)'
    PROVE  LspInv'
<1>0. LspTyped /\ Processes /\ (~astray => Ordered) /\ Counted
  BY DEF LspInv
<1>1. LspTyped'
  BY <1>0 DEF LspTyped, Moves
<1>2. proc' \in Nat /\ spawned' \in Nat /\ spawned \in Nat
  BY OpFacts DEF Moves
<1>3. ASSUME NEW q \in Ops \ {o} PROVE OpInv(q)'
  <2>1. ops[q].pc \in Starting => startLock = q
    BY OpFacts DEF OpInv
  <2>2. Leaves(q)
    BY <1>2, <2>1 DEF Leaves, Moves
  <2> QED
    BY <1>2, <2>2, LeftKept
<1>4. Processes'
  BY <1>0 DEF Processes, Moves
<1>5. Wires'
  <2>1. NoneWaits
    BY DEF NoneWaits, Moves
  <2> QED
    BY <1>2, <2>1, WiresKept DEF Moves
<1>6. ~astray' => Ordered'
  BY <1>0 DEF Ordered, Moves
<1>7. Counted'
  <2>1. Spent \subseteq Spent'
    BY DEF Spent, Moves
  <2>2. \A u \in Documents : lspVersions'[u] =< lspVersions[u]
    BY <1>0, LspBounds DEF LspTyped, Moves
  <2> QED
    BY <1>1, <2>1, <2>2, CountedKept
<1> QED
  BY <1>1, <1>3, <1>4, <1>5, <1>6, <1>7 DEF LspInv

(* What an operation becomes.                                              *)
LEMMA OpShapes ==
    /\ \A r \in Op : /\ r.pc \in Points /\ r.uri \in Documents \cup {None} /\ r.lock \in Epochs
                     /\ r.event \in Epochs /\ r.started \in 0 .. MaxProcesses
                     /\ r.result \in Ops \cup {None}
    /\ \A r \in Op, pc \in Points : [r EXCEPT !.pc = pc] \in Op
    /\ \A r \in Op, pc \in Points, n \in 0 .. MaxProcesses : [r EXCEPT !.pc = pc, !.started = n] \in Op
    /\ \A r \in Op, pc \in Points, e \in Epochs : [r EXCEPT !.pc = pc, !.lock = e] \in Op
    /\ \A r \in Op, pc \in Points, e \in Epochs : [r EXCEPT !.pc = pc, !.event = e] \in Op
    /\ \A r \in Op, pc \in Points, t \in Ops \cup {None} : [r EXCEPT !.pc = pc, !.result = t] \in Op
    /\ \A u \in Documents : [Language!Idle EXCEPT !.pc = "start", !.uri = u] \in Op
    /\ Language!Idle \in Op
<1>1. /\ \A r \in Op : /\ r.pc \in Points /\ r.uri \in Documents \cup {None} /\ r.lock \in Epochs
                       /\ r.event \in Epochs /\ r.started \in 0 .. MaxProcesses
                       /\ r.result \in Ops \cup {None}
      /\ \A r \in Op, pc \in Points : [r EXCEPT !.pc = pc] \in Op
  BY DEF Op
<1>2. /\ \A r \in Op, pc \in Points, n \in 0 .. MaxProcesses : [r EXCEPT !.pc = pc, !.started = n] \in Op
      /\ \A r \in Op, pc \in Points, e \in Epochs : [r EXCEPT !.pc = pc, !.lock = e] \in Op
  BY DEF Op
<1>3. /\ \A r \in Op, pc \in Points, e \in Epochs : [r EXCEPT !.pc = pc, !.event = e] \in Op
      /\ \A r \in Op, pc \in Points, t \in Ops \cup {None} : [r EXCEPT !.pc = pc, !.result = t] \in Op
  BY DEF Op
<1>4. 0 \in 0 .. MaxProcesses /\ 0 \in Epochs
  BY LspBounds
<1>5. Language!Idle \in Op /\ \A u \in Documents : [Language!Idle EXCEPT !.pc = "start", !.uri = u] \in Op
  BY <1>4 DEF Op, Language!Idle, Points
<1> QED
  BY <1>1, <1>2, <1>3, <1>5

(* Changing one operation's record ...                                     *)
LEMMA Moved ==
    ASSUME ops \in [Ops -> Op], NEW o \in Ops, NEW r \in Op, ops' = [ops EXCEPT ![o] = r]
    PROVE  ops' \in [Ops -> Op] /\ ops'[o] = r /\ \A q \in Ops \ {o} : ops'[q] = ops[q]
OBVIOUS

(* ... or only its point leaves the others alone.                          *)
LEMMA MovedOn ==
    ASSUME ops \in [Ops -> Op], NEW o \in Ops, NEW pc \in Points, ops' = [ops EXCEPT ![o].pc = pc]
    PROVE  /\ ops' \in [Ops -> Op] /\ ops'[o] = [ops[o] EXCEPT !.pc = pc]
           /\ \A q \in Ops \ {o} : ops'[q] = ops[q]
           /\ ops'[o].pc = pc /\ ops'[o].uri = ops[o].uri /\ ops'[o].lock = ops[o].lock
           /\ ops'[o].event = ops[o].event /\ ops'[o].started = ops[o].started
           /\ ops'[o].result = ops[o].result
<1>1. [ops[o] EXCEPT !.pc = pc] \in Op
  BY OpShapes
<1>2. ops' = [ops EXCEPT ![o] = [ops[o] EXCEPT !.pc = pc]]
  OBVIOUS
<1> QED
  BY <1>1, <1>2 DEF Op

(* A call begins, finds the server usable, or begins to start it, ...      *)
LEMMA CallKept ==
    ASSUME LspInv, NEW o \in Ops, NEW u \in Documents, Language!Call(o, u)
    PROVE  LspInv'
<1>0. LspTyped /\ OpInv(o)
  BY OpFacts
<1>1. /\ ops[o].pc = "off" /\ lspClosing = "no"
      /\ ops' = [ops EXCEPT ![o] = [Language!Idle EXCEPT !.pc = "start", !.uri = u]]
      /\ UNCHANGED <<proc, spawned, dead, initialized, startLock, lspEpoch, holder, signalled,
                     lspVersions, found, sent, doc, published, lspClosing, crossed, astray>>
  BY DEF Language!Call, Language!process, Language!documents, Language!wire, Language!history
<1>2. /\ ops' \in [Ops -> Op] /\ \A q \in Ops \ {o} : ops'[q] = ops[q]
      /\ ops'[o] = [Language!Idle EXCEPT !.pc = "start", !.uri = u]
  BY <1>0, <1>1, OpShapes, Moved DEF LspTyped
<1>3. ops'[o].pc = "start" /\ ops'[o].uri = u /\ ops'[o].result = None
  BY <1>2 DEF Language!Idle
<1>4. Moves(o)
  BY <1>0, <1>1, <1>2, <1>3 DEF Moves, LspTyped
<1>5. OpInv(o)'
  BY <1>3 DEF OpInv, Starting
<1> QED
  BY <1>4, <1>5, MovesKept

(* A server that runs needs no start.                                      *)
LEMMA StartSkipsKept ==
    ASSUME LspInv, NEW o \in Ops, Language!StartSkips(o)
    PROVE  LspInv'
<1>0. LspTyped /\ OpInv(o) /\ ops[o] \in Op /\ proc =< spawned /\ Processes
  BY OpFacts DEF LspInv
<1>1. /\ ops[o].pc = "start" /\ startLock = None /\ lspClosing = "no" /\ proc # 0
      /\ ops' = [ops EXCEPT ![o].pc = "name", ![o].started = proc]
      /\ UNCHANGED <<proc, spawned, dead, initialized, startLock, lspEpoch, holder, signalled,
                     lspVersions, found, sent, doc, published, lspClosing, crossed, astray>>
  BY DEF Language!StartSkips, Language!Usable, Language!process, Language!documents, Language!wire,
         Language!history
<1>2. /\ ops' \in [Ops -> Op] /\ \A q \in Ops \ {o} : ops'[q] = ops[q]
      /\ ops'[o].pc = "name" /\ ops'[o].uri = ops[o].uri /\ ops'[o].started = proc
      /\ ops'[o].result = ops[o].result
  <2>1. [ops[o] EXCEPT !.pc = "name", !.started = proc] \in Op
    BY <1>0, OpShapes DEF Points, LspTyped
  <2>2. ops' = [ops EXCEPT ![o] = [ops[o] EXCEPT !.pc = "name", !.started = proc]]
    BY <1>1
  <2> QED
    BY <1>0, <2>1, <2>2, Moved DEF LspTyped, Op
<1>3. initialized
  <2>1. \A q \in Ops : ops[q].pc \notin Starting
    BY <1>1, LspBounds DEF LspInv, OpInv
  <2> QED
    BY <1>0, <1>1, <2>1 DEF Processes, Starting
<1>4. Moves(o)
  BY <1>0, <1>1, <1>2 DEF Moves, LspTyped
<1>5. OpInv(o)'
  BY <1>0, <1>1, <1>2, <1>3 DEF OpInv, Starting
<1> QED
  BY <1>4, <1>5, MovesKept

(* The start lock is taken.                                                *)
LEMMA StartBeginsKept ==
    ASSUME LspInv, NEW o \in Ops, Language!StartBegins(o)
    PROVE  LspInv'
<1>0. LspTyped /\ OpInv(o)
  BY OpFacts
<1>1. /\ ops[o].pc = "start" /\ startLock = None /\ lspClosing = "no" /\ startLock' = o
      /\ ops' = [ops EXCEPT ![o].pc = IF proc = 0 THEN "spawn" ELSE "abort"]
      /\ UNCHANGED <<proc, spawned, dead, initialized, lspEpoch, holder, signalled,
                     lspVersions, found, sent, doc, published, lspClosing, crossed, astray>>
  BY DEF Language!StartBegins, Language!Goes, Language!documents, Language!wire, Language!history
<1>2. (IF proc = 0 THEN "spawn" ELSE "abort") \in Points
  BY DEF Points
<1>3. /\ ops' \in [Ops -> Op] /\ \A q \in Ops \ {o} : ops'[q] = ops[q]
      /\ ops'[o].pc = IF proc = 0 THEN "spawn" ELSE "abort"
      /\ ops'[o].uri = ops[o].uri /\ ops'[o].result = ops[o].result
  BY <1>0, <1>1, <1>2, MovedOn DEF LspTyped
<1>4. Moves(o)
  BY <1>0, <1>1, <1>3, LspBounds DEF Moves, LspTyped
<1>5. OpInv(o)'
  BY <1>0, <1>1, <1>3 DEF OpInv
<1> QED
  BY <1>4, <1>5, MovesKept

(* ... fails to, has the document's lock by name, or is canceled.          *)
LEMMA GoesKept ==
    ASSUME LspInv, NEW o \in Ops, NEW pc \in {"undo", "done"}, Language!Goes(o, pc),
           ops[o].pc \in {"start", "name", "queue", "abort", "spawn", "init"},
           pc = "undo" <=> ops[o].pc = "init",
           startLock' = startLock \/ (startLock' = None /\ ops[o].pc \in {"abort", "spawn"}),
           UNCHANGED <<proc, spawned, dead, initialized, lspEpoch, holder, signalled,
                       lspVersions, found, sent, doc, published, lspClosing, crossed, astray>>
    PROVE  LspInv'
<1>0. LspTyped /\ OpInv(o) /\ Processes
  BY OpFacts DEF LspInv
<1>1. ops' = [ops EXCEPT ![o].pc = pc] /\ pc \in Points
  BY DEF Language!Goes, Points
<1>2. /\ ops' \in [Ops -> Op] /\ \A q \in Ops \ {o} : ops'[q] = ops[q]
      /\ ops'[o].pc = pc /\ ops'[o].uri = ops[o].uri /\ ops'[o].result = ops[o].result
  BY <1>0, <1>1, MovedOn DEF LspTyped
<1>3. \A q \in Ops \ {o} : startLock = q => startLock' = q
  BY <1>0 DEF OpInv, Starting
<1>4. Moves(o)
  BY <1>0, <1>2, <1>3 DEF Moves, LspTyped, Processes, Starting
<1>5. OpInv(o)'
  BY <1>0, <1>2 DEF OpInv, Starting
<1> QED
  BY <1>4, <1>5, MovesKept

(* The document lock of the epoch is named.                                *)
LEMMA NamesKept ==
    ASSUME LspInv, NEW o \in Ops, Language!Names(o)
    PROVE  LspInv'
<1>0. LspTyped /\ OpInv(o) /\ ops[o] \in Op /\ lspEpoch \in Epochs
  BY OpFacts
<1>1. /\ ops[o].pc = "name" /\ ops' = [ops EXCEPT ![o].pc = "queue", ![o].lock = lspEpoch]
      /\ UNCHANGED <<proc, spawned, dead, initialized, startLock, lspEpoch, holder, signalled,
                     lspVersions, found, sent, doc, published, lspClosing, crossed, astray>>
  BY DEF Language!Names, Language!process, Language!documents, Language!wire, Language!history
<1>2. /\ ops' \in [Ops -> Op] /\ \A q \in Ops \ {o} : ops'[q] = ops[q]
      /\ ops'[o].pc = "queue" /\ ops'[o].uri = ops[o].uri /\ ops'[o].started = ops[o].started
      /\ ops'[o].result = ops[o].result
  <2>1. [ops[o] EXCEPT !.pc = "queue", !.lock = lspEpoch] \in Op
    BY <1>0, OpShapes DEF Points
  <2>2. ops' = [ops EXCEPT ![o] = [ops[o] EXCEPT !.pc = "queue", !.lock = lspEpoch]]
    BY <1>1
  <2> QED
    BY <1>0, <2>1, <2>2, Moved DEF LspTyped, Op
<1>3. Moves(o)
  BY <1>0, <1>1, <1>2 DEF Moves, LspTyped, Starting
<1>4. OpInv(o)'
  BY <1>0, <1>1, <1>2 DEF OpInv, Starting
<1> QED
  BY <1>3, <1>4, MovesKept

(* The process and what was said of documents is put away: by a start, by  *)
(* one that is undone, and by the close.                                   *)
LEMMA ResetKept ==
    ASSUME LspInv, NEW pcs \in [Ops -> Points],
           Language!Reset, Language!NoProcess, UNCHANGED <<spawned, crossed, astray>>,
           startLock' \in Ops \cup {None, "close"},
           \A q \in Ops : /\ ops'[q] = [ops[q] EXCEPT !.pc = pcs[q]]
                          /\ \/ pcs[q] = ops[q].pc /\ ops[q].pc \notin Starting
                             \/ /\ ops[q].pc \in {"abort", "undo"} /\ pcs[q] \in {"spawn", "done"}
                                /\ pcs[q] = "spawn" => startLock' = q
                          /\ lspClosing' \in {"stop", "done"} => pcs[q] \notin Starting,
           ops' \in [Ops -> Op], lspClosing' \in {"no", "cancel", "stop", "done"}
    PROVE  LspInv'
<1>0. LspTyped /\ Counted
  BY DEF LspInv
<1>1. /\ lspEpoch < MaxEpoch /\ lspEpoch' = lspEpoch + 1
      /\ lspVersions' = [u \in Documents |-> 0] /\ found' = [u \in Documents |-> None]
      /\ UNCHANGED <<holder, signalled>>
      /\ proc' = 0 /\ dead' = FALSE /\ initialized' = FALSE
      /\ sent' = <<>> /\ doc' = [u \in Documents |-> Language!Closed] /\ published' = <<>>
  BY DEF Language!Reset, Language!NoProcess
<1>2. /\ Language!Closed \in Opened /\ Language!Closed.version = 0 /\ 0 \in 0 .. MaxProcesses
  BY LspBounds DEF Opened, Language!Closed
<1>3. LspTyped'
  <2>1. lspEpoch' \in Epochs
    BY <1>0, <1>1, LspBounds DEF LspTyped
  <2>2. sent' \in Seq(Message) /\ published' \in Seq(Publication)
    BY <1>1
  <2>3. proc' =< spawned' /\ spawned' \in 0 .. MaxProcesses
    BY <1>0, <1>1, LspBounds DEF LspTyped
  <2>4. /\ lspVersions' \in [Documents -> Versions] /\ found' \in [Documents -> Ops \cup {None}]
        /\ doc' \in [Documents -> Opened]
    BY <1>1, <1>2, LspBounds
  <2> QED
    BY <1>0, <1>1, <1>2, <2>1, <2>2, <2>3, <2>4 DEF LspTyped
<1>4. proc' \in Nat /\ spawned' \in Nat /\ spawned \in Nat
  BY <1>0, <1>1, LspBounds DEF LspTyped
<1>5. ASSUME NEW q \in Ops PROVE OpInv(q)'
  <2>0. OpInv(q) /\ ops[q] \in Op /\ ops[q].pc \in Points
    BY OpFacts
  <2>1. CASE pcs[q] = ops[q].pc /\ ops[q].pc \notin Starting
    <3>1. ops'[q] = ops[q]
      BY <2>0, <2>1 DEF Op
    <3>2. Leaves(q)
      BY <1>1, <1>4, <2>1, <3>1 DEF Leaves
    <3> QED
      BY <1>4, <3>2, LeftKept
  <2>2. CASE ops[q].pc \in {"abort", "undo"} /\ pcs[q] \in {"spawn", "done"}
    <3>1. ops'[q].pc = pcs[q] /\ ops'[q].uri = ops[q].uri /\ ops'[q].result = ops[q].result
      BY <2>0 DEF Op
    <3>2. pcs[q] = "spawn" => startLock' = q
      BY <2>2
    <3> QED
      BY <1>1, <2>0, <2>2, <3>1, <3>2 DEF OpInv, Starting
  <2> QED
    BY <2>1, <2>2
<1>9. \A q \in Ops : ops'[q].pc = pcs[q]
  BY <1>0 DEF LspTyped, Op
<1>6. Processes'
  BY <1>1, <1>9 DEF Processes
<1>7. Wires' /\ (~astray' => Ordered')
  BY <1>1, <1>2 DEF Wires, Ordered
<1>8. Counted'
  <2>1. Spent \subseteq Spent'
    BY <1>9 DEF Spent
  <2>2. \A u \in Documents : lspVersions'[u] =< lspVersions[u]
    BY <1>0, <1>1, LspBounds DEF LspTyped
  <2> QED
    BY <1>3, <2>1, <2>2, CountedKept
<1> QED
  BY <1>3, <1>5, <1>6, <1>7, <1>8 DEF LspInv

(* A process is spawned.                                                   *)
LEMMA SpawnsKept ==
    ASSUME LspInv, NEW o \in Ops, Language!Spawns(o)
    PROVE  LspInv'
<1>0. LspTyped /\ OpInv(o) /\ proc \in Nat /\ spawned \in Nat /\ Processes /\ (~astray => Ordered)
  BY OpFacts DEF LspInv
<1>1. /\ ops[o].pc = "spawn" /\ spawned < MaxProcesses
      /\ spawned' = spawned + 1 /\ proc' = spawned + 1
      /\ ops' = [ops EXCEPT ![o].pc = IF lspClosing = "no" THEN "init" ELSE "undo"]
      /\ UNCHANGED <<dead, initialized, startLock, lspEpoch, holder, signalled,
                     lspVersions, found, sent, doc, published, lspClosing, crossed, astray>>
  BY DEF Language!Spawns, Language!Goes, Language!documents, Language!wire, Language!history
<1>2. (IF lspClosing = "no" THEN "init" ELSE "undo") \in Points
  BY DEF Points
<1>3. /\ ops' \in [Ops -> Op] /\ \A q \in Ops \ {o} : ops'[q] = ops[q]
      /\ ops'[o].pc \in {"init", "undo"} /\ ops'[o].uri = ops[o].uri /\ ops'[o].result = ops[o].result
  BY <1>0, <1>1, <1>2, MovedOn DEF LspTyped
<1>4. proc' \in Nat /\ spawned' \in Nat /\ spawned' \in 0 .. MaxProcesses /\ proc' # 0
  BY <1>0, <1>1, LspBounds
<1>5. LspTyped'
  BY <1>0, <1>1, <1>3, <1>4 DEF LspTyped
<1>6. startLock = o
  BY <1>0, <1>1 DEF OpInv, Starting
<1>7. ASSUME NEW q \in Ops \ {o} PROVE OpInv(q)'
  <2>1. ops[q].pc \notin Starting
    BY <1>6, OpFacts DEF OpInv
  <2>2. Leaves(q)
    BY <1>0, <1>1, <1>3, <2>1 DEF Leaves
  <2> QED
    BY <1>4, <2>2, LeftKept
<1>8. OpInv(o)'
  BY <1>0, <1>1, <1>3, <1>6 DEF OpInv, Starting
<1>9. Processes'
  BY <1>0, <1>1, <1>3, <1>4 DEF Processes, Starting
<1>10. Wires'
  <2>1. NoneWaits
    BY <1>1, <1>3 DEF NoneWaits
  <2> QED
    BY <1>0, <1>1, <1>4, <2>1, WiresKept
<1>11. ~astray' => Ordered'
  BY <1>0, <1>1 DEF Ordered
<1>12. Counted'
  <2>1. Spent \subseteq Spent'
    BY <1>1, <1>3 DEF Spent
  <2>2. \A u \in Documents : lspVersions'[u] =< lspVersions[u]
    BY <1>0, <1>1, LspBounds DEF LspTyped
  <2> QED
    BY <1>5, <2>1, <2>2, CountedKept
<1> QED
  BY <1>5, <1>7, <1>8, <1>9, <1>10, <1>11, <1>12 DEF LspInv

(* The server has answered its initialization.                             *)
LEMMA InitializedKept ==
    ASSUME LspInv, NEW o \in Ops, Language!Initialized(o)
    PROVE  LspInv'
<1>0. /\ LspTyped /\ OpInv(o) /\ proc \in Nat /\ spawned \in Nat /\ Processes
      /\ (~astray => Ordered) /\ ops[o] \in Op /\ proc =< spawned
  BY OpFacts DEF LspInv
<1>1. /\ ops[o].pc = "init" /\ lspClosing = "no" /\ initialized' = TRUE /\ startLock' = None
      /\ ops' = [ops EXCEPT ![o].pc = "name", ![o].started = proc]
      /\ UNCHANGED <<proc, spawned, dead, lspEpoch, holder, signalled,
                     lspVersions, found, sent, doc, published, lspClosing, crossed, astray>>
  BY DEF Language!Initialized, Language!documents, Language!wire, Language!history
<1>2. /\ ops' \in [Ops -> Op] /\ \A q \in Ops \ {o} : ops'[q] = ops[q]
      /\ ops'[o].pc = "name" /\ ops'[o].uri = ops[o].uri /\ ops'[o].started = proc
      /\ ops'[o].result = ops[o].result
  <2>1. [ops[o] EXCEPT !.pc = "name", !.started = proc] \in Op
    BY <1>0, OpShapes DEF Points, LspTyped
  <2>2. ops' = [ops EXCEPT ![o] = [ops[o] EXCEPT !.pc = "name", !.started = proc]]
    BY <1>1
  <2> QED
    BY <1>0, <2>1, <2>2, Moved DEF LspTyped, Op
<1>3. LspTyped'
  BY <1>0, <1>1, <1>2 DEF LspTyped
<1>4. startLock = o
  BY <1>0, <1>1 DEF OpInv, Starting
<1>5. ASSUME NEW q \in Ops \ {o} PROVE OpInv(q)'
  <2>1. ops[q].pc \notin Starting
    BY <1>4, OpFacts DEF OpInv
  <2>2. Leaves(q)
    BY <1>0, <1>1, <1>2, <2>1 DEF Leaves
  <2> QED
    BY <1>0, <1>1, <2>2, LeftKept
<1>6. OpInv(o)'
  BY <1>0, <1>1, <1>2 DEF OpInv, Starting
<1>7. Processes'
  BY <1>0, <1>1, <1>2 DEF Processes, Starting
<1>8. Wires'
  <2>1. NoneWaits
    BY <1>1, <1>2 DEF NoneWaits
  <2> QED
    BY <1>0, <1>1, <2>1, WiresKept
<1>9. ~astray' => Ordered'
  BY <1>0, <1>1 DEF Ordered
<1>10. Counted'
  <2>1. Spent \subseteq Spent'
    BY <1>1, <1>2 DEF Spent
  <2>2. \A u \in Documents : lspVersions'[u] =< lspVersions[u]
    BY <1>0, <1>1, LspBounds DEF LspTyped
  <2> QED
    BY <1>3, <2>1, <2>2, CountedKept
<1> QED
  BY <1>3, <1>5, <1>6, <1>7, <1>8, <1>9, <1>10 DEF LspInv

(* An operation sends the next version of its document, ...                *)
LEMMA SendsKept ==
    ASSUME LspInv, NEW o \in Ops, Language!Sends(o)
    PROVE  LspInv'
<1> DEFINE u == ops[o].uri
           next == lspVersions[u] + 1
<1>0. /\ LspTyped /\ OpInv(o) /\ proc \in Nat /\ spawned \in Nat /\ Processes /\ Wires
      /\ (~astray => Ordered) /\ Counted /\ ops[o] \in Op /\ proc =< spawned /\ o # None
      /\ ops[o].lock \in Epochs /\ ops[o].event \in Epochs /\ lspEpoch \in Epochs
      /\ ops[o].started \in 0 .. MaxProcesses
  BY OpFacts DEF LspInv
<1>1. /\ ops[o].pc = "queue" /\ lspClosing = "no"
      /\ holder[u][ops[o].lock] = None
      /\ lspVersions' = [lspVersions EXCEPT ![u] = next]
      /\ found' = [found EXCEPT ![u] = None]
      /\ signalled' = [signalled EXCEPT ![u][lspEpoch] = FALSE]
      /\ UNCHANGED <<proc, spawned, dead, initialized, startLock, lspEpoch, doc, published, lspClosing>>
  BY DEF Language!Sends, Language!process
<1>2. u \in Documents /\ lspVersions[u] \in Nat /\ next \in Nat /\ next # 0 /\ lspVersions[u] < next
  BY <1>0, <1>1, LspBounds DEF OpInv, LspTyped
<1>3. o \notin Spent
  BY <1>1 DEF Spent
<1>4. /\ ops' \in [Ops -> Op] /\ \A q \in Ops \ {o} : ops'[q] = ops[q]
      /\ ops'[o].uri = u /\ ops'[o].result = ops[o].result /\ ops'[o].lock = ops[o].lock
      /\ \/ ops'[o].pc = "wait" /\ ops'[o].event = lspEpoch
         \/ ops'[o].pc = "done"
  <2>1. CASE Language!Usable
    <3>1. ops' = [ops EXCEPT ![o].pc = "wait", ![o].event = lspEpoch]
      BY <2>1 DEF Language!Sends
    <3>2. [ops[o] EXCEPT !.pc = "wait", !.event = lspEpoch] \in Op
      BY <1>0, OpShapes DEF Points
    <3>3. ops' = [ops EXCEPT ![o] = [ops[o] EXCEPT !.pc = "wait", !.event = lspEpoch]]
      BY <3>1
    <3> QED
      BY <1>0, <3>2, <3>3, Moved DEF LspTyped, Op
  <2>2. CASE ~Language!Usable
    <3>1. ops' = [ops EXCEPT ![o].pc = "done"] /\ "done" \in Points
      BY <2>2 DEF Language!Sends, Language!Goes, Points
    <3> QED
      BY <1>0, <3>1, MovedOn DEF LspTyped
  <2> QED
    BY <2>1, <2>2
<1>5. Spent' = Spent \cup {o}
  BY <1>4 DEF Spent
<1>6. next =< Cardinality(Spent') /\ next \in Versions
  <2>1. o \in Ops /\ o \in Spent' /\ Spent \subseteq Spent'
    BY <1>5
  <2>2. /\ Cardinality(Spent) \in Nat /\ Cardinality(Spent') \in Nat
        /\ Cardinality(Spent') =< Cardinality(Ops) /\ Cardinality(Spent) + 1 =< Cardinality(Spent')
    BY <1>3, <2>1, CountsOn
  <2>3. lspVersions[u] =< Cardinality(Spent)
    BY <1>0, <1>2 DEF Counted
  <2> QED
    BY <1>2, <2>2, <2>3, LspBounds
<1> DEFINE m == [uri |-> u, version |-> next, text |-> o, started |-> ops[o].started,
                 ready |-> initialized]
<1>7. m \in Message
  BY <1>0, <1>2, <1>6 DEF Message, LspTyped
<1>8. /\ sent' = (IF Language!Usable THEN Append(sent, m) ELSE sent)
      /\ holder' = (IF Language!Usable THEN [holder EXCEPT ![u][ops[o].lock] = o] ELSE holder)
      /\ astray' = (astray \/ (IF Language!Usable THEN ~initialized ELSE proc = 0))
      /\ crossed' = (crossed \/ (Language!Usable /\ ops[o].lock # lspEpoch))
      /\ Language!Usable <=> ops'[o].pc = "wait"
  <2>1. CASE Language!Usable
    <3>1. ops' = [ops EXCEPT ![o].pc = "wait", ![o].event = lspEpoch]
      BY <2>1 DEF Language!Sends
    <3>2. ops'[o].pc = "wait"
      BY <1>0, <3>1 DEF LspTyped, Op
    <3> QED
      BY <2>1, <3>2 DEF Language!Sends
  <2>2. CASE ~Language!Usable
    <3>1. ops' = [ops EXCEPT ![o].pc = "done"]
      BY <2>2 DEF Language!Sends, Language!Goes
    <3>2. ops'[o].pc = "done"
      BY <1>0, <3>1 DEF LspTyped, Op
    <3>3. UNCHANGED <<holder, sent, crossed>> /\ astray' = (astray \/ proc = 0)
      BY <2>2 DEF Language!Sends
    <3>4. crossed \in BOOLEAN
      BY <1>0 DEF LspTyped
    <3> QED
      BY <2>2, <3>2, <3>3, <3>4
  <2> QED
    BY <2>1, <2>2
<1> HIDE DEF m, next
<1>9. /\ m.uri = u /\ m.version = next /\ m.text = o /\ m.started = ops[o].started
      /\ m.ready = initialized
  BY DEF m
<1>10. /\ \A e \in Epochs : holder'[u][e] = holder[u][e] \/ (Language!Usable /\ holder[u][e] = None /\ holder'[u][e] = o)
       /\ \A w \in Documents \ {u} : holder'[w] = holder[w]
       /\ Language!Usable => holder'[u][ops[o].lock] = o
       /\ holder' \in [Documents -> [Epochs -> Ops \cup {None}]]
  BY <1>0, <1>1, <1>2, <1>8 DEF LspTyped
<1>11. /\ signalled' \in [Documents -> [Epochs -> BOOLEAN]] /\ signalled'[u][lspEpoch] = FALSE
       /\ \A w \in Documents, e \in Epochs : signalled'[w][e] => signalled[w][e]
  BY <1>0, <1>1, <1>2 DEF LspTyped
<1>12. LspTyped'
  <2>1. sent' \in Seq(Message)
    BY <1>0, <1>7, <1>8, AppendProperties DEF LspTyped
  <2>2. /\ lspVersions' \in [Documents -> Versions] /\ found' \in [Documents -> Ops \cup {None}]
    BY <1>0, <1>1, <1>2, <1>6 DEF LspTyped
  <2>3. astray' \in BOOLEAN /\ crossed' \in BOOLEAN
    BY <1>0, <1>8 DEF LspTyped
  <2> QED
    BY <1>0, <1>1, <1>4, <1>10, <1>11, <2>1, <2>2, <2>3 DEF LspTyped
<1>13. ASSUME NEW q \in Ops \ {o} PROVE OpInv(q)'
  <2>1. ops[q].pc \in Starting => startLock = q
    BY OpFacts DEF OpInv
  <2>2. \A w \in Documents : found'[w] \in {None, found[w]}
    BY <1>0, <1>1 DEF LspTyped
  <2>3. \A w \in Documents, e \in Epochs : holder[w][e] = q => holder'[w][e] = q
    BY <1>10, LspBounds
  <2>4. crossed => crossed'
    BY <1>8
  <2>5. Leaves(q)
    BY <1>0, <1>1, <1>4, <1>11, <2>1, <2>2, <2>3, <2>4 DEF Leaves
  <2> QED
    BY <1>0, <1>1, <2>5, LeftKept
<1>14. OpInv(o)'
  BY <1>0, <1>1, <1>2, <1>4, <1>8, <1>10, <1>11 DEF OpInv, Starting
<1>15. Processes'
  BY <1>0, <1>1, <1>4 DEF Processes, Starting
<1>16. Counted'
  <2>1. Cardinality(Spent) =< Cardinality(Spent') /\ Cardinality(Spent) \in Nat /\ Cardinality(Spent') \in Nat
    BY <1>5, CountsOn
  <2>2. \A w \in Documents \ {u} : lspVersions'[w] = lspVersions[w] /\ lspVersions[w] \in Nat
    BY <1>0, <1>1, LspBounds DEF LspTyped
  <2>3. lspVersions'[u] = next
    BY <1>0, <1>1, <1>2 DEF LspTyped
  <2> QED
    BY <1>0, <1>6, <2>1, <2>2, <2>3 DEF Counted
<1>17. /\ lspVersions'[u] = next /\ \A w \in Documents \ {u} : lspVersions'[w] = lspVersions[w]
       /\ Len(sent) \in Nat /\ Len(published) \in Nat
       /\ \A i \in 1 .. Len(sent) : /\ sent[i].uri \in Documents /\ sent[i].version \in Nat
                                     /\ sent[i].started \in Nat
       /\ \A i \in 1 .. Len(published) : published[i].uri \in Documents /\ published[i].version \in Nat
       /\ \A w \in Documents : lspVersions[w] \in Nat /\ doc[w].version \in Nat
  <2>1. \A i \in 1 .. Len(sent) : sent[i] \in Message
    BY <1>0 DEF LspTyped
  <2>2. \A i \in 1 .. Len(published) : published[i] \in Publication
    BY <1>0 DEF LspTyped
  <2>3. /\ \A i \in 1 .. Len(sent) : /\ sent[i].uri \in Documents /\ sent[i].version \in Nat
                                      /\ sent[i].started \in Nat
        /\ \A i \in 1 .. Len(published) : published[i].uri \in Documents /\ published[i].version \in Nat
    BY <2>1, <2>2, LspBounds DEF Message, Publication
  <2>4. \A w \in Documents : lspVersions[w] \in Nat /\ doc[w].version \in Nat
    BY <1>0, LspBounds DEF LspTyped, Opened
  <2>5. lspVersions'[u] = next /\ \A w \in Documents \ {u} : lspVersions'[w] = lspVersions[w]
    BY <1>0, <1>1, <1>2 DEF LspTyped
  <2> QED
    BY <1>0, <2>3, <2>4, <2>5 DEF LspTyped
<1>18. /\ ~Language!Usable => sent' = sent
       /\ Language!Usable => /\ Len(sent') = Len(sent) + 1 /\ sent'[Len(sent) + 1] = m
                             /\ \A i \in 1 .. Len(sent) : sent'[i] = sent[i]
  BY <1>0, <1>7, <1>8, AppendProperties DEF LspTyped
<1>19. Wires'
  <2>1. ASSUME NEW w \in Documents, NEW version \in Nat, NEW text, About(w, version, text)
        PROVE  About(w, version, text)'
    <3>1. lspVersions'[w] = lspVersions[w] \/ (w = u /\ version =< lspVersions[u])
      BY <1>17, <2>1 DEF About
    <3>2. CASE w = u
      BY <1>2, <1>17, <2>1, <3>2 DEF About
    <3>3. CASE w # u
      <4>1. \A q \in Ops : ops'[q].pc = "wait" /\ ops'[q].uri = w => q # o /\ ops'[q] = ops[q]
        BY <1>4, <3>3
      <4>2. crossed => crossed'
        BY <1>8
      <4>3. lspVersions'[w] = lspVersions[w] /\ lspEpoch' = lspEpoch
        BY <1>1, <1>17, <3>3
      <4> QED
        BY <2>1, <4>1, <4>2, <4>3 DEF About
    <3> QED
      BY <3>2, <3>3
  <2> DEFINE Fits(e) == \A w, version, text :
                           w = e.uri /\ version = e.version /\ text = e.text => About(w, version, text)'
  <2>2. \A i \in 1 .. Len(sent) : /\ Fits(sent[i])
                                  /\ sent[i].started # 0 /\ sent[i].started =< spawned'
                                  /\ sent[i].started = proc' => sent[i].ready
    BY <1>0, <1>1, <1>17, <2>1 DEF Wires
  <2>3. \A i \in 1 .. Len(published) : Fits(published[i])
    BY <1>0, <1>17, <2>1 DEF Wires
  <2>4. ASSUME Language!Usable
        PROVE  /\ Fits(m) /\ m.started # 0 /\ m.started =< spawned'
               /\ m.started = proc' => m.ready
    <3>1. m.started # 0 /\ m.started =< spawned' /\ (m.started = proc' => m.ready)
      BY <1>0, <1>1, <1>9 DEF OpInv
    <3>2. ASSUME NEW q \in Ops, ops'[q].pc = "wait", ops'[q].uri = u, ops'[q].event = lspEpoch',
                 ~crossed'
          PROVE  q = o
      <4>1. SUFFICES ASSUME q # o PROVE FALSE
        OBVIOUS
      <4>2. ops'[q] = ops[q] /\ OpInv(q) /\ q # None
        BY <1>4, <4>1, OpFacts
      <4>3. ~crossed /\ ops[o].lock = lspEpoch
        BY <1>8, <2>4, <3>2
      <4>4. holder[u][lspEpoch] = q
        BY <1>1, <3>2, <4>2, <4>3 DEF OpInv
      <4> QED
        BY <1>1, <4>2, <4>3, <4>4
    <3>3. next # 0 /\ next =< lspVersions'[u]
      BY <1>2, <1>17
    <3>4. Fits(m)
      BY <1>1, <1>9, <3>2, <3>3 DEF About
    <3> QED
      BY <3>1, <3>4
  <2>5. CASE Language!Usable
    <3>1. \A i \in 1 .. Len(sent') : (i \in 1 .. Len(sent) /\ sent'[i] = sent[i]) \/ sent'[i] = m
      BY <1>17, <1>18, <2>5
    <3>2. \A i \in 1 .. Len(sent') : /\ Fits(sent'[i])
                                     /\ sent'[i].started # 0 /\ sent'[i].started =< spawned'
                                     /\ sent'[i].started = proc' => sent'[i].ready
      BY <2>2, <2>4, <2>5, <3>1
    <3>3. \A i \in 1 .. Len(published') : Fits(published'[i])
      BY <1>1, <2>3
    <3> QED
      BY <3>2, <3>3 DEF Wires
  <2>6. CASE ~Language!Usable
    <3>1. sent' = sent /\ published' = published
      BY <1>1, <1>18, <2>6
    <3> QED
      BY <2>2, <2>3, <3>1 DEF Wires
  <2> QED
    BY <2>5, <2>6
<1>20. ASSUME ~astray' PROVE Ordered'
  <2>0. Ordered
    BY <1>0, <1>8, <1>20
  <2>1. CASE Language!Usable
    <3>0. initialized /\ ~dead
      BY <1>8, <1>20, <2>1 DEF Language!Usable
    <3>1. /\ \A i \in 1 .. Len(sent') : \/ i \in 1 .. Len(sent) /\ sent'[i] = sent[i]
                                        \/ i = Len(sent) + 1 /\ sent'[i] = m
          /\ 1 .. Len(sent) \subseteq 1 .. Len(sent') /\ 1 .. Len(sent) \subseteq Nat
      BY <1>17, <1>18, <2>1
    <3>2. \A i \in 1 .. Len(sent) : sent[i].uri = u => sent[i].version < next
      BY <1>0, <1>2, <1>17 DEF Wires, About
    <3>3. doc[u].version < next /\ (lspVersions[u] = doc[u].version => next = doc[u].version + 1)
      <4>1. /\ u \in Documents /\ next = lspVersions[u] + 1
            /\ lspVersions[u] \in Nat /\ doc[u].version \in Nat
        BY <1>2, <1>17 DEF next
      <4>2. \/ lspVersions[u] = doc[u].version
            \/ \E j \in 1 .. Len(sent) : sent[j].uri = u /\ sent[j].version = lspVersions[u]
        BY <2>0, <3>0, <4>1 DEF Ordered
      <4>3. \A j \in 1 .. Len(sent) : sent[j].uri = u => doc[u].version < sent[j].version
        BY <2>0 DEF Ordered
      <4> HIDE DEF u
      <4> QED
        BY <4>1, <4>2, <4>3
    <3>4. next = doc[u].version + 1 \/ \E j \in 1 .. Len(sent) : sent[j].uri = u /\ next = sent[j].version + 1
      BY <1>2, <1>17, <2>0, <3>0, <3>3 DEF Ordered, next
    <3>5. \A i, j \in 1 .. Len(sent') :
            i < j /\ sent'[i].uri = sent'[j].uri => sent'[i].version < sent'[j].version
      BY <1>9, <1>17, <1>18, <2>0, <2>1, <3>1, <3>2 DEF Ordered
    <3>6. \A i \in 1 .. Len(sent') :
            /\ doc'[sent'[i].uri].version < sent'[i].version
            /\ \/ sent'[i].version = doc'[sent'[i].uri].version + 1
               \/ \E j \in 1 .. Len(sent') : /\ j < i /\ sent'[j].uri = sent'[i].uri
                                             /\ sent'[i].version = sent'[j].version + 1
      <4>1. ASSUME NEW i \in 1 .. Len(sent)
            PROVE  \/ sent[i].version = doc[sent[i].uri].version + 1
                   \/ \E j \in 1 .. Len(sent') : /\ j < i /\ sent'[j].uri = sent[i].uri
                                                 /\ sent[i].version = sent'[j].version + 1
        BY <1>18, <2>0, <2>1, <3>1 DEF Ordered
      <4>2. \/ m.version = doc[m.uri].version + 1
            \/ \E j \in 1 .. Len(sent') : /\ j < Len(sent) + 1 /\ sent'[j].uri = m.uri
                                          /\ m.version = sent'[j].version + 1
        BY <1>9, <1>17, <1>18, <2>1, <3>4
      <4>3. \A i \in 1 .. Len(sent) : doc[sent[i].uri].version < sent[i].version
        BY <2>0 DEF Ordered
      <4>4. doc[m.uri].version < m.version
        BY <1>9, <3>3
      <4> HIDE DEF u
      <4> QED
        BY <1>1, <3>1, <4>1, <4>2, <4>3, <4>4
    <3>7. \A w \in Documents :
            \/ lspVersions'[w] = doc'[w].version
            \/ \E j \in 1 .. Len(sent') : sent'[j].uri = w /\ sent'[j].version = lspVersions'[w]
      <4>1. Len(sent) + 1 \in 1 .. Len(sent') /\ 1 .. Len(sent) \subseteq 1 .. Len(sent')
        BY <1>17, <1>18, <2>1
      <4>2. ASSUME NEW w \in Documents \ {u}
            PROVE  \/ lspVersions'[w] = doc'[w].version
                   \/ \E j \in 1 .. Len(sent) : sent[j].uri = w /\ sent[j].version = lspVersions'[w]
        BY <1>1, <1>17, <2>0, <3>0 DEF Ordered
      <4>3. sent'[Len(sent) + 1].uri = u /\ sent'[Len(sent) + 1].version = lspVersions'[u]
        BY <1>9, <1>17, <1>18, <2>1
      <4>4. \A j \in 1 .. Len(sent) : sent'[j] = sent[j]
        BY <1>18, <2>1
      <4> HIDE DEF u
      <4>5. ASSUME NEW w \in Documents
            PROVE  \/ lspVersions'[w] = doc'[w].version
                   \/ \E j \in 1 .. Len(sent') : sent'[j].uri = w /\ sent'[j].version = lspVersions'[w]
        <5>1. CASE w = u
          BY <4>1, <4>3, <5>1
        <5>2. CASE w # u
          BY <4>1, <4>2, <4>4, <5>2
        <5> QED
          BY <5>1, <5>2
      <4> QED
        BY <4>5
    <3> QED
      BY <1>1, <3>0, <3>5, <3>6, <3>7 DEF Ordered
  <2>2. CASE ~Language!Usable
    <3>1. dead /\ sent' = sent
      BY <1>8, <1>18, <1>20, <2>2 DEF Language!Usable
    <3> QED
      BY <1>1, <2>0, <3>1 DEF Ordered
  <2> QED
    BY <2>1, <2>2
<1> QED
  BY <1>12, <1>13, <1>14, <1>15, <1>16, <1>19, <1>20 DEF LspInv

(* ... and returns, or is canceled, when it frees its document's lock.     *)
Frees(o) ==
    /\ ops' \in [Ops -> Op] /\ \A q \in Ops \ {o} : ops'[q] = ops[q]
    /\ ops[o].pc \in {"wait", "actions"} /\ ops'[o].pc \in {"actions", "done"}
    /\ ops'[o].uri = ops[o].uri /\ ops'[o].lock = ops[o].lock /\ ops'[o].event = ops[o].event
    /\ ops'[o].result \in {None, o} \/ crossed
    /\ holder' = IF ops'[o].pc = "done" THEN [holder EXCEPT ![ops[o].uri][ops[o].lock] = None]
                 ELSE holder
    /\ UNCHANGED <<proc, spawned, dead, initialized, startLock, lspEpoch, signalled, lspVersions,
                   found, sent, doc, published, lspClosing, crossed, astray>>

(* An operation that stops waiting, and may leave its lock.                *)
LEMMA FreesKept ==
    ASSUME LspInv, NEW o \in Ops, Frees(o)
    PROVE  LspInv'
<1>0. /\ LspTyped /\ OpInv(o) /\ proc \in Nat /\ spawned \in Nat /\ Processes
      /\ (~astray => Ordered) /\ ops[o] \in Op /\ ops[o].lock \in Epochs /\ o # None
  BY OpFacts DEF LspInv
<1>1. UNCHANGED <<proc, spawned, dead, initialized, startLock, lspEpoch, signalled, lspVersions,
                  found, sent, doc, published, lspClosing, crossed, astray>>
  BY DEF Frees
<1>2. /\ ops' \in [Ops -> Op] /\ \A q \in Ops \ {o} : ops'[q] = ops[q]
      /\ ops[o].pc \in {"wait", "actions"} /\ ops'[o].pc \in {"actions", "done"}
      /\ ops'[o].uri = ops[o].uri /\ ops'[o].lock = ops[o].lock /\ ops'[o].event = ops[o].event
      /\ ops'[o].result \in {None, o} \/ crossed
  BY DEF Frees
<1>3. ops[o].uri \in Documents /\ holder[ops[o].uri][ops[o].lock] = o
  BY <1>0, <1>2 DEF OpInv
<1>4. /\ holder' \in [Documents -> [Epochs -> Ops \cup {None}]]
      /\ \A w \in Documents, e \in Epochs, q \in Ops \ {o} : holder[w][e] = q => holder'[w][e] = q
      /\ ops'[o].pc = "actions" => holder' = holder
  BY <1>0, <1>3 DEF Frees, LspTyped
<1>5. LspTyped'
  BY <1>0, <1>1, <1>2, <1>4 DEF LspTyped
<1>6. ASSUME NEW q \in Ops \ {o} PROVE OpInv(q)'
  <2>1. ops[q].pc \in Starting => startLock = q
    BY OpFacts DEF OpInv
  <2>2. Leaves(q)
    BY <1>0, <1>1, <1>2, <1>4, <2>1 DEF Leaves
  <2> QED
    BY <1>0, <1>1, <2>2, LeftKept
<1>7. OpInv(o)'
  BY <1>0, <1>1, <1>2, <1>3, <1>4 DEF OpInv, Starting
<1>8. Processes'
  BY <1>0, <1>1, <1>2 DEF Processes, Starting
<1>9. Wires'
  <2>1. NoneWaits
    BY <1>2 DEF NoneWaits
  <2> QED
    BY <1>0, <1>1, <2>1, WiresKept
<1>10. ~astray' => Ordered'
  BY <1>0, <1>1 DEF Ordered
<1>11. Counted'
  <2>1. Spent \subseteq Spent'
    BY <1>2 DEF Spent
  <2>2. \A w \in Documents : lspVersions'[w] =< lspVersions[w]
    BY <1>0, <1>1, LspBounds DEF LspTyped
  <2> QED
    BY <1>5, <2>1, <2>2, CountedKept
<1> QED
  BY <1>5, <1>6, <1>7, <1>8, <1>9, <1>10, <1>11 DEF LspInv

(* An operation returns its diagnostics, or nothing.                       *)
LEMMA ReturnsKept ==
    ASSUME LspInv, NEW o \in Ops, NEW result \in Ops \cup {None}, NEW pc \in {"actions", "done"},
           ops[o].pc \in {"wait", "actions"}, result \in {None, o} \/ crossed,
           Language!Returns(o, result, pc)
    PROVE  LspInv'
<1>0. LspTyped /\ ops[o] \in Op
  BY OpFacts
<1>1. /\ ops' = [ops EXCEPT ![o].pc = pc, ![o].result = result]
      /\ holder' = IF pc = "done" THEN [holder EXCEPT ![ops[o].uri][ops[o].lock] = None] ELSE holder
      /\ UNCHANGED <<proc, spawned, dead, initialized, startLock, lspEpoch, signalled, lspVersions,
                     found, sent, doc, published, lspClosing, crossed, astray>>
  BY DEF Language!Returns, Language!process, Language!wire, Language!history
<1>2. /\ ops' \in [Ops -> Op] /\ \A q \in Ops \ {o} : ops'[q] = ops[q]
      /\ ops'[o].pc = pc /\ ops'[o].result = result
      /\ ops'[o].uri = ops[o].uri /\ ops'[o].lock = ops[o].lock /\ ops'[o].event = ops[o].event
  <2>1. [ops[o] EXCEPT !.pc = pc, !.result = result] \in Op
    BY <1>0, OpShapes DEF Points
  <2>2. ops' = [ops EXCEPT ![o] = [ops[o] EXCEPT !.pc = pc, !.result = result]]
    BY <1>1
  <2> QED
    BY <1>0, <2>1, <2>2, Moved DEF LspTyped, Op
<1>3. Frees(o)
  BY <1>1, <1>2 DEF Frees
<1> QED
  BY <1>3, FreesKept

(* Diagnostics arrive, do not in time, or the actions end.                 *)
LEMMA DiagnosedKept ==
    ASSUME LspInv, NEW o \in Ops,
           Language!Diagnosed(o) \/ Language!TimesOut(o) \/ Language!ActionsEnd(o)
    PROVE  LspInv'
<1>0. LspTyped /\ OpInv(o) /\ ops[o].result \in Ops \cup {None}
  BY OpFacts
<1>1. CASE Language!Diagnosed(o)
  <2>1. ops[o].pc = "wait" /\ signalled[ops[o].uri][ops[o].event]
    BY <1>1 DEF Language!Diagnosed
  <2>2. found[ops[o].uri] \in Ops \cup {None} /\ (found[ops[o].uri] \in {None, o} \/ crossed)
    BY <1>0, <2>1 DEF OpInv, LspTyped
  <2>3. \E pc \in {"actions", "done"} : Language!Returns(o, found[ops[o].uri], pc)
    BY <1>1 DEF Language!Diagnosed
  <2> QED
    BY <2>1, <2>2, <2>3, ReturnsKept
<1>2. CASE Language!TimesOut(o)
  <2>1. ops[o].pc = "wait" /\ \E pc \in {"actions", "done"} : Language!Returns(o, None, pc)
    BY <1>2 DEF Language!TimesOut
  <2> QED
    BY <2>1, ReturnsKept
<1>3. CASE Language!ActionsEnd(o)
  <2>1. ops[o].pc = "actions" /\ Language!Returns(o, ops[o].result, "done")
    BY <1>3 DEF Language!ActionsEnd
  <2>2. ops[o].result \in {None, o} \/ crossed
    BY <1>0 DEF OpInv
  <2> QED
    BY <1>0, <2>1, <2>2, ReturnsKept
<1> QED
  BY <1>1, <1>2, <1>3

(* An operation is cancelled.                                              *)
LEMMA CanceledKept ==
    ASSUME LspInv, NEW o \in Ops, Language!Canceled(o)
    PROVE  LspInv'
<1>0. LspTyped /\ OpInv(o)
  BY OpFacts
<1>1. UNCHANGED <<sent, doc, published, lspClosing, crossed, astray>>
  BY DEF Language!Canceled, Language!wire, Language!history
<1>2. CASE ops[o].pc \in {"start", "name", "queue"} /\ Language!Goes(o, "done")
           /\ UNCHANGED <<Language!process, Language!documents>>
  BY <1>1, <1>2, GoesKept DEF Language!process, Language!documents
<1>3. CASE /\ ops[o].pc \in {"abort", "spawn"} /\ Language!Goes(o, "done") /\ startLock' = None
           /\ UNCHANGED <<proc, spawned, dead, initialized, Language!documents>>
  BY <1>1, <1>3, GoesKept DEF Language!documents
<1>4. CASE ops[o].pc = "init" /\ Language!Goes(o, "undo")
           /\ UNCHANGED <<Language!process, Language!documents>>
  BY <1>1, <1>4, GoesKept DEF Language!process, Language!documents
<1>5. CASE /\ ops[o].pc \in {"wait", "actions"} /\ Language!Goes(o, "done")
           /\ holder' = [holder EXCEPT ![ops[o].uri][ops[o].lock] = None]
           /\ UNCHANGED <<Language!process, lspEpoch, signalled, lspVersions, found>>
  <2>1. ops' = [ops EXCEPT ![o].pc = "done"] /\ "done" \in Points
    BY <1>5 DEF Language!Goes, Points
  <2>2. /\ ops' \in [Ops -> Op] /\ \A q \in Ops \ {o} : ops'[q] = ops[q]
        /\ ops'[o].pc = "done" /\ ops'[o].uri = ops[o].uri /\ ops'[o].lock = ops[o].lock
        /\ ops'[o].event = ops[o].event /\ ops'[o].result = ops[o].result
    BY <1>0, <2>1, MovedOn DEF LspTyped
  <2>3. ops[o].result \in {None, o} \/ crossed
    BY <1>0 DEF OpInv
  <2>4. Frees(o)
    BY <1>1, <1>5, <2>2, <2>3 DEF Frees, Language!process
  <2> QED
    BY <2>4, FreesKept
<1> QED
  BY <1>2, <1>3, <1>4, <1>5 DEF Language!Canceled

(* The process dies, or a close goes on: nothing else happens to it.       *)
LEMMA StandsKept ==
    ASSUME LspInv, dead' \in BOOLEAN, dead => dead',
           lspClosing' \in {"no", "cancel", "stop", "done"}, startLock' \in Ops \cup {None, "close"},
           startLock' = startLock \/ startLock = None,
           lspClosing' = lspClosing \/ lspClosing' = "cancel" \/ (lspClosing' = "stop" /\ startLock = None),
           UNCHANGED <<proc, spawned, initialized, lspEpoch, holder, signalled, lspVersions,
                       found, sent, doc, published, ops, crossed, astray>>
    PROVE  LspInv'
<1>0. LspTyped /\ Processes /\ (~astray => Ordered)
  BY DEF LspInv
<1>1. LspTyped'
  BY <1>0 DEF LspTyped
<1>2. ASSUME NEW q \in Ops PROVE OpInv(q)' /\ (startLock = None => ops[q].pc \notin Starting)
  <2>1. /\ ops[q].pc \in Starting => startLock = q
        /\ q # None /\ proc \in Nat /\ spawned \in Nat
    BY OpFacts DEF OpInv
  <2>2. Leaves(q)
    BY <2>1 DEF Leaves
  <2> QED
    BY <2>1, <2>2, LeftKept
<1>3. Processes'
  BY <1>0, <1>2 DEF Processes
<1>4. Wires'
  <2>1. NoneWaits /\ spawned \in Nat
    BY <1>0, LspBounds DEF NoneWaits, LspTyped
  <2> QED
    BY <2>1, WiresKept
<1>5. ~astray' => Ordered'
  BY <1>0 DEF Ordered
<1>6. Counted'
  BY DEF LspInv, Counted, Spent
<1> QED
  BY <1>1, <1>2, <1>3, <1>4, <1>5, <1>6 DEF LspInv

(* What the wires carry.                                                   *)
LEMMA WireFacts ==
    ASSUME LspInv
    PROVE  /\ Len(sent) \in Nat /\ Len(published) \in Nat
           /\ \A i \in 1 .. Len(sent) :
                /\ sent[i] \in Message /\ sent[i].uri \in Documents /\ sent[i].version \in Nat
                /\ sent[i].started \in Nat /\ sent[i].text \in Ops /\ sent[i].version \in Versions
           /\ \A i \in 1 .. Len(published) :
                /\ published[i] \in Publication /\ published[i].uri \in Documents
                /\ published[i].version \in Nat /\ published[i].text \in Ops
           /\ \A u \in Documents : lspVersions[u] \in Nat /\ doc[u].version \in Nat
           /\ (sent # <<>> => /\ Len(sent) # 0 /\ 1 \in 1 .. Len(sent) /\ Head(sent) = sent[1]
                              /\ Tail(sent) \in Seq(Message) /\ Len(Tail(sent)) = Len(sent) - 1
                              /\ \A i \in 1 .. Len(sent) - 1 : Tail(sent)[i] = sent[i + 1])
           /\ (published # <<>> => /\ Len(published) # 0 /\ 1 \in 1 .. Len(published)
                                   /\ Head(published) = published[1]
                                   /\ Tail(published) \in Seq(Publication)
                                   /\ Len(Tail(published)) = Len(published) - 1
                                   /\ \A i \in 1 .. Len(published) - 1 : Tail(published)[i] = published[i + 1])
<1>0. LspTyped
  BY DEF LspInv
<1>1. Len(sent) \in Nat /\ Len(published) \in Nat /\ sent \in Seq(Message) /\ published \in Seq(Publication)
  BY <1>0 DEF LspTyped
<1>2. /\ \A i \in 1 .. Len(sent) : sent[i] \in Message
      /\ \A i \in 1 .. Len(published) : published[i] \in Publication
  BY <1>1
<1>3. /\ \A m \in Message : /\ m.uri \in Documents /\ m.version \in Nat /\ m.started \in Nat
                            /\ m.text \in Ops /\ m.version \in Versions
      /\ \A m \in Publication : m.uri \in Documents /\ m.version \in Nat /\ m.text \in Ops
  BY LspBounds DEF Message, Publication
<1>4. \A u \in Documents : lspVersions[u] \in Nat /\ doc[u].version \in Nat
  BY <1>0, LspBounds DEF LspTyped, Opened
<1>5. ASSUME sent # <<>>
      PROVE  /\ Len(sent) # 0 /\ 1 \in 1 .. Len(sent) /\ Head(sent) = sent[1]
             /\ Tail(sent) \in Seq(Message) /\ Len(Tail(sent)) = Len(sent) - 1
             /\ \A i \in 1 .. Len(sent) - 1 : Tail(sent)[i] = sent[i + 1]
  <2>1. Len(sent) # 0
    BY <1>1, <1>5, EmptySeq
  <2>2. Head(sent) = sent[1]
    BY <1>1, <1>5
  <2>3. /\ Tail(sent) \in Seq(Message) /\ Len(Tail(sent)) = Len(sent) - 1
        /\ \A i \in 1 .. Len(Tail(sent)) : Tail(sent)[i] = sent[i + 1]
    BY <1>1, <1>5, HeadTailProperties
  <2> QED
    BY <1>1, <2>1, <2>2, <2>3
<1>6. ASSUME published # <<>>
      PROVE  /\ Len(published) # 0 /\ 1 \in 1 .. Len(published) /\ Head(published) = published[1]
             /\ Tail(published) \in Seq(Publication) /\ Len(Tail(published)) = Len(published) - 1
             /\ \A i \in 1 .. Len(published) - 1 : Tail(published)[i] = published[i + 1]
  <2>1. Len(published) # 0
    BY <1>1, <1>6, EmptySeq
  <2>2. Head(published) = published[1]
    BY <1>1, <1>6
  <2>3. /\ Tail(published) \in Seq(Publication) /\ Len(Tail(published)) = Len(published) - 1
        /\ \A i \in 1 .. Len(Tail(published)) : Tail(published)[i] = published[i + 1]
    BY <1>1, <1>6, HeadTailProperties
  <2> QED
    BY <1>1, <2>1, <2>2, <2>3
<1> QED
  BY <1>1, <1>2, <1>3, <1>4, <1>5, <1>6

(* The process takes the next version of a document, or leaves it: an      *)
(* earlier one is not missing unless something went astray.                *)
LEMMA ServerReadsKept ==
    ASSUME LspInv, Language!ServerReads
    PROVE  LspInv'
<1> DEFINE m == Head(sent)
           follows == initialized /\ doc[m.uri].version = m.version - 1
           answer == [uri |-> m.uri, version |-> m.version, text |-> m.text]
<1>0. /\ LspTyped /\ proc \in Nat /\ spawned \in Nat /\ Processes /\ Wires /\ (~astray => Ordered)
  BY LspBounds DEF LspInv, LspTyped
<1>1. /\ sent # <<>> /\ sent' = Tail(sent)
      /\ doc' = IF follows THEN [doc EXCEPT ![m.uri] = [version |-> m.version, text |-> m.text]] ELSE doc
      /\ published' = IF follows THEN Append(published, answer) ELSE published
      /\ UNCHANGED <<proc, spawned, dead, initialized, startLock, lspEpoch, holder, signalled,
                     lspVersions, found, ops, lspClosing, crossed, astray>>
  BY DEF Language!ServerReads, Language!process, Language!documents, Language!history
<1>2. /\ m = sent[1] /\ m.uri \in Documents /\ m.version \in Nat /\ m.version \in Versions /\ m.text \in Ops
      /\ 1 \in 1 .. Len(sent) /\ Len(sent) \in Nat
      /\ sent' \in Seq(Message) /\ Len(sent') = Len(sent) - 1
      /\ \A i \in 1 .. Len(sent') : sent'[i] = sent[i + 1] /\ i + 1 \in 1 .. Len(sent)
  BY <1>1, WireFacts
<1>3. /\ doc' \in [Documents -> Opened]
      /\ \A u \in Documents : doc'[u] = IF follows /\ u = m.uri
                                        THEN [version |-> m.version, text |-> m.text] ELSE doc[u]
  BY <1>0, <1>1, <1>2 DEF LspTyped, Opened
<1>4. answer \in Publication
  BY <1>2 DEF Publication
<1>5. /\ published' \in Seq(Publication)
      /\ \A i \in 1 .. Len(published') :
            (i \in 1 .. Len(published) /\ published'[i] = published[i]) \/ published'[i] = answer
  <2>1. published \in Seq(Publication) /\ Len(published) \in Nat
    BY <1>0 DEF LspTyped
  <2>2. CASE follows
    <3>1. published' = Append(published, answer)
      BY <1>1, <2>2
    <3> HIDE DEF answer
    <3> QED
      BY <1>4, <2>1, <3>1, AppendProperties
  <2>3. CASE ~follows
    BY <1>1, <2>1, <2>3
  <2> QED
    BY <2>2, <2>3
<1>6. LspTyped'
  BY <1>0, <1>1, <1>2, <1>3, <1>5 DEF LspTyped
<1>7. ASSUME NEW q \in Ops PROVE OpInv(q)'
  <2>1. ops[q].pc \in Starting => startLock = q
    BY OpFacts DEF OpInv
  <2>2. \A u \in Documents : found'[u] \in {None, found[u]}
    BY <1>1
  <2>3. Leaves(q)
    BY <1>0, <1>1, <2>1, <2>2 DEF Leaves
  <2> QED
    BY <1>0, <1>1, <2>3, LeftKept
<1>8. Processes'
  BY <1>0, <1>1 DEF Processes
<1>9. Wires'
  <2>1. NoneWaits
    BY <1>1 DEF NoneWaits
  <2>2. \A u, version, text : About(u, version, text) => About(u, version, text)'
    BY <1>1, <2>1, AboutKept
  <2>3. /\ About(answer.uri, answer.version, answer.text)
        /\ \A i \in 1 .. Len(published) : About(published[i].uri, published[i].version, published[i].text)
    BY <1>0, <1>2 DEF Wires
  <2> DEFINE Fits(e) == \A u, version, text :
                           u = e.uri /\ version = e.version /\ text = e.text => About(u, version, text)'
  <2>4. \A i \in 1 .. Len(published') : Fits(published'[i])
    BY <1>5, <2>2, <2>3
  <2>5. \A i \in 1 .. Len(sent') : /\ Fits(sent'[i])
                                   /\ sent'[i].started # 0 /\ sent'[i].started =< spawned'
                                   /\ sent'[i].started = proc' => sent'[i].ready
    BY <1>0, <1>1, <1>2, <2>2 DEF Wires
  <2> QED
    BY <2>4, <2>5 DEF Wires
<1>10. ASSUME ~astray' PROVE Ordered'
  <2>0. Ordered /\ initialized
    BY <1>0, <1>1, <1>10 DEF Ordered
  <2>1. m.version = doc[m.uri].version + 1 /\ follows
    <3>1. m.version = doc[m.uri].version + 1
      BY <1>2, <2>0 DEF Ordered
    <3> QED
      BY <1>2, <2>0, <3>1, WireFacts
  <2>2. \A u \in Documents : doc'[u].version = IF u = m.uri THEN m.version ELSE doc[u].version
    BY <1>3, <2>1
  <2>3. \A i \in 1 .. Len(sent') : /\ sent'[i] = sent[i + 1] /\ i + 1 \in 1 .. Len(sent)
                                   /\ sent[i + 1].uri \in Documents /\ sent[i + 1].version \in Nat
                                   /\ doc[sent[i + 1].uri].version \in Nat
    BY <1>2, WireFacts
  <2>4. \A j \in 1 .. Len(sent) : j = 1 \/ (j - 1 \in 1 .. Len(sent') /\ sent'[j - 1] = sent[j])
    BY <1>2
  <2> HIDE DEF m, follows
  <2>5. \A i, j \in 1 .. Len(sent') :
          i < j /\ sent'[i].uri = sent'[j].uri => sent'[i].version < sent'[j].version
    <3>1. SUFFICES ASSUME NEW i \in 1 .. Len(sent'), NEW j \in 1 .. Len(sent'), i < j,
                          sent'[i].uri = sent'[j].uri
                   PROVE  sent'[i].version < sent'[j].version
      OBVIOUS
    <3>2. i + 1 \in 1 .. Len(sent) /\ j + 1 \in 1 .. Len(sent) /\ i + 1 < j + 1
      BY <1>2, <3>1
    <3>3. sent[i + 1].uri = sent[j + 1].uri
      BY <2>3, <3>1
    <3>4. sent[i + 1].version < sent[j + 1].version
      BY <2>0, <3>2, <3>3 DEF Ordered
    <3> QED
      BY <2>3, <3>4
  <2>6. ASSUME NEW i \in 1 .. Len(sent')
        PROVE  /\ doc'[sent'[i].uri].version < sent'[i].version
               /\ \/ sent'[i].version = doc'[sent'[i].uri].version + 1
                  \/ \E j \in 1 .. Len(sent') : /\ j < i /\ sent'[j].uri = sent'[i].uri
                                                /\ sent'[i].version = sent'[j].version + 1
    <3>0. i + 1 \in 1 .. Len(sent) /\ 1 < i + 1 /\ i \in Nat
      BY <1>2
    <3>1. m.uri = sent[i + 1].uri => m.version < sent[i + 1].version
      BY <1>2, <2>0, <3>0 DEF Ordered
    <3>2. doc'[sent'[i].uri].version < sent'[i].version
      BY <2>0, <2>2, <2>3, <3>1 DEF Ordered
    <3>3. CASE sent[i + 1].version = doc[sent[i + 1].uri].version + 1
      <4>1. m.uri # sent[i + 1].uri
        BY <1>2, <2>1, <2>3, <3>1, <3>3
      <4> QED
        BY <2>2, <2>3, <3>3, <4>1
    <3>4. CASE \E j \in 1 .. Len(sent) : /\ j < i + 1 /\ sent[j].uri = sent[i + 1].uri
                                         /\ sent[i + 1].version = sent[j].version + 1
      <4>1. PICK j \in 1 .. Len(sent) : /\ j < i + 1 /\ sent[j].uri = sent[i + 1].uri
                                        /\ sent[i + 1].version = sent[j].version + 1
        BY <3>4
      <4>2. CASE j = 1
        BY <1>2, <2>2, <2>3, <4>1, <4>2
      <4>3. CASE j # 1
        <5>1. j - 1 \in 1 .. Len(sent') /\ sent'[j - 1] = sent[j] /\ j - 1 < i
          BY <1>2, <2>4, <3>0, <4>1, <4>3
        <5>2. sent'[j - 1].uri = sent'[i].uri /\ sent'[i].version = sent'[j - 1].version + 1
          BY <2>3, <4>1, <5>1
        <5> QED
          BY <3>2, <5>1, <5>2
      <4> QED
        BY <4>2, <4>3
    <3>5. \/ sent[i + 1].version = doc[sent[i + 1].uri].version + 1
          \/ \E j \in 1 .. Len(sent) : /\ j < i + 1 /\ sent[j].uri = sent[i + 1].uri
                                       /\ sent[i + 1].version = sent[j].version + 1
      BY <2>0, <2>3 DEF Ordered
    <3> QED
      BY <3>2, <3>3, <3>4, <3>5
  <2>7. ASSUME ~dead, NEW u \in Documents
        PROVE  \/ lspVersions[u] = doc'[u].version
               \/ \E j \in 1 .. Len(sent') : sent'[j].uri = u /\ sent'[j].version = lspVersions[u]
    <3>1. CASE lspVersions[u] = doc[u].version
      <4>1. m.version =< lspVersions[m.uri]
        BY <1>0, <1>2 DEF Wires, About
      <4> QED
        BY <1>2, <2>1, <2>2, <3>1, <4>1, WireFacts
    <3>2. CASE \E j \in 1 .. Len(sent) : sent[j].uri = u /\ sent[j].version = lspVersions[u]
      <4>1. PICK j \in 1 .. Len(sent) : sent[j].uri = u /\ sent[j].version = lspVersions[u]
        BY <3>2
      <4> QED
        BY <1>2, <2>2, <2>4, <4>1
    <3> QED
      BY <2>0, <2>7, <3>1, <3>2 DEF Ordered
  <2>8. sent' # <<>> => initialized'
    BY <1>1, <2>0
  <2>9. ~dead' => \A u \in Documents :
          \/ lspVersions'[u] = doc'[u].version
          \/ \E j \in 1 .. Len(sent') : sent'[j].uri = u /\ sent'[j].version = lspVersions'[u]
    BY <1>1, <2>7
  <2> QED
    BY <2>5, <2>6, <2>8, <2>9 DEF Ordered
<1>11. Counted'
  BY <1>1 DEF LspInv, Counted, Spent
<1> QED
  BY <1>6, <1>7, <1>8, <1>9, <1>10, <1>11 DEF LspInv

(* Diagnostics of the version last sent are taken, and wake those who wait.*)
LEMMA DispatchesKept ==
    ASSUME LspInv, Language!Dispatches
    PROVE  LspInv'
<1> DEFINE m == Head(published)
<1>0. /\ LspTyped /\ proc \in Nat /\ spawned \in Nat /\ Processes /\ Wires /\ (~astray => Ordered)
      /\ lspEpoch \in Epochs
  BY LspBounds DEF LspInv, LspTyped
<1>1. /\ published # <<>> /\ published' = Tail(published)
      /\ \A q \in Ops : ops[q].pc = "wait" => ~signalled[ops[q].uri][ops[q].event]
      /\ found' = IF Language!Current(m) THEN [found EXCEPT ![m.uri] = m.text] ELSE found
      /\ signalled' = IF Language!Current(m) THEN [signalled EXCEPT ![m.uri][lspEpoch] = TRUE] ELSE signalled
      /\ UNCHANGED <<proc, spawned, dead, initialized, startLock, lspEpoch, holder, lspVersions,
                     sent, doc, ops, lspClosing, crossed, astray>>
  BY DEF Language!Dispatches, Language!process, Language!history, Language!Quiet
<1>2. /\ m = published[1] /\ m.uri \in Documents /\ m.version \in Nat /\ m.text \in Ops
      /\ 1 \in 1 .. Len(published) /\ Len(published) \in Nat
      /\ published' \in Seq(Publication) /\ Len(published') = Len(published) - 1
      /\ \A i \in 1 .. Len(published') : published'[i] = published[i + 1] /\ i + 1 \in 1 .. Len(published)
  BY <1>1, WireFacts
<1> HIDE DEF m
<1>3. /\ found' \in [Documents -> Ops \cup {None}]
      /\ signalled' \in [Documents -> [Epochs -> BOOLEAN]]
      /\ \A u \in Documents, e \in Epochs : signalled'[u][e] =>
            signalled[u][e] \/ (/\ u = m.uri /\ e = lspEpoch /\ found'[u] = m.text
                                /\ Language!Current(m))
  BY <1>0, <1>1, <1>2 DEF LspTyped
<1>4. LspTyped'
  BY <1>0, <1>1, <1>2, <1>3 DEF LspTyped
<1>5. ASSUME NEW q \in Ops PROVE OpInv(q)'
  <2>0. OpInv(q) /\ ops[q].event \in Epochs
    BY OpFacts
  <2>1. ops[q].pc = "wait" /\ signalled'[ops[q].uri][ops[q].event] =>
            found'[ops[q].uri] \in {None, q} \/ crossed
    <3>1. SUFFICES ASSUME ops[q].pc = "wait", signalled'[ops[q].uri][ops[q].event], ~crossed
                   PROVE  found'[ops[q].uri] = q
      OBVIOUS
    <3>2. ops[q].uri \in Documents /\ ~signalled[ops[q].uri][ops[q].event]
      BY <1>1, <2>0, <3>1 DEF OpInv
    <3>3. /\ ops[q].uri = m.uri /\ ops[q].event = lspEpoch /\ found'[ops[q].uri] = m.text
          /\ m.version = lspVersions[m.uri]
      BY <1>3, <2>0, <3>1, <3>2 DEF Language!Current
    <3>4. About(m.uri, m.version, m.text)
      BY <1>0, <1>2 DEF Wires
    <3> QED
      BY <3>1, <3>3, <3>4 DEF About
  <2> QED
    BY <1>1, <2>0, <2>1 DEF OpInv
<1>6. Processes'
  BY <1>0, <1>1 DEF Processes
<1>7. Wires'
  <2>1. NoneWaits
    BY <1>1 DEF NoneWaits
  <2>2. \A u, version, text : About(u, version, text) => About(u, version, text)'
    BY <1>1, <2>1, AboutKept
  <2> DEFINE Fits(e) == \A u, version, text :
                           u = e.uri /\ version = e.version /\ text = e.text => About(u, version, text)'
  <2>3. \A i \in 1 .. Len(published') : Fits(published'[i])
    BY <1>0, <1>2, <2>2 DEF Wires
  <2>4. \A i \in 1 .. Len(sent') : /\ Fits(sent'[i])
                                   /\ sent'[i].started # 0 /\ sent'[i].started =< spawned'
                                   /\ sent'[i].started = proc' => sent'[i].ready
    BY <1>0, <1>1, <2>2 DEF Wires
  <2> QED
    BY <2>3, <2>4 DEF Wires
<1>8. ~astray' => Ordered'
  BY <1>0, <1>1 DEF Ordered
<1>9. Counted'
  BY <1>1 DEF LspInv, Counted, Spent
<1> QED
  BY <1>4, <1>5, <1>6, <1>7, <1>8, <1>9 DEF LspInv

(* A start puts the old process away, or what it spawned; the close, last. *)
LEMMA PutAwayKept ==
    ASSUME LspInv, \/ \E o \in Ops : Language!Aborted(o) \/ Language!Undone(o)
                   \/ Language!CloseEnds
    PROVE  LspInv'
<1>0. LspTyped /\ Processes /\ \A q \in Ops : OpInv(q) /\ ops[q] \in Op /\ ops[q].pc \in Points
  BY OpFacts DEF LspInv
<1>1. ASSUME NEW o \in Ops, Language!Aborted(o) PROVE LspInv'
  <2>1. /\ ops[o].pc = "abort" /\ Language!Reset /\ Language!NoProcess
        /\ ops' = [ops EXCEPT ![o].pc = "spawn"] /\ "spawn" \in Points
        /\ UNCHANGED <<spawned, startLock, lspClosing, crossed, astray>>
    BY <1>1 DEF Language!Aborted, Language!Goes, Language!history, Points
  <2>2. startLock = o /\ lspClosing \notin {"stop", "done"}
    BY <1>0, <2>1 DEF OpInv, Processes, Starting
  <2> DEFINE pcs == [q \in Ops |-> IF q = o THEN "spawn" ELSE ops[q].pc]
  <2>3. pcs \in [Ops -> Points]
    BY <1>0 DEF Points
  <2>4. ops' \in [Ops -> Op] /\ ops'[o] = [ops[o] EXCEPT !.pc = "spawn"] /\ \A q \in Ops \ {o} : ops'[q] = ops[q]
    BY <1>0, <2>1, MovedOn DEF LspTyped
  <2>5. \A q \in Ops : ops'[q] = [ops[q] EXCEPT !.pc = pcs[q]]
    BY <1>0, <2>4 DEF Op
  <2>6. \A q \in Ops \ {o} : ops[q].pc \notin Starting
    BY <1>0, <2>2 DEF OpInv
  <2>7. \A q \in Ops : \/ pcs[q] = ops[q].pc /\ ops[q].pc \notin Starting
                       \/ /\ ops[q].pc \in {"abort", "undo"} /\ pcs[q] \in {"spawn", "done"}
                          /\ pcs[q] = "spawn" => startLock' = q
    BY <2>1, <2>2, <2>6
  <2> HIDE DEF pcs
  <2> QED
    BY <1>0, <2>1, <2>2, <2>3, <2>4, <2>5, <2>7, ResetKept DEF LspTyped
<1>2. ASSUME NEW o \in Ops, Language!Undone(o) PROVE LspInv'
  <2>1. /\ ops[o].pc = "undo" /\ Language!Reset /\ Language!NoProcess /\ startLock' = None
        /\ ops' = [ops EXCEPT ![o].pc = "done"] /\ "done" \in Points
        /\ UNCHANGED <<spawned, lspClosing, crossed, astray>>
    BY <1>2 DEF Language!Undone, Language!Goes, Language!history, Points
  <2>2. startLock = o
    BY <1>0, <2>1 DEF OpInv, Starting
  <2> DEFINE pcs == [q \in Ops |-> IF q = o THEN "done" ELSE ops[q].pc]
  <2>3. pcs \in [Ops -> Points]
    BY <1>0 DEF Points
  <2>4. ops' \in [Ops -> Op] /\ ops'[o] = [ops[o] EXCEPT !.pc = "done"] /\ \A q \in Ops \ {o} : ops'[q] = ops[q]
    BY <1>0, <2>1, MovedOn DEF LspTyped
  <2>5. \A q \in Ops : ops'[q] = [ops[q] EXCEPT !.pc = pcs[q]]
    BY <1>0, <2>4 DEF Op
  <2>6. \A q \in Ops \ {o} : ops[q].pc \notin Starting
    BY <1>0, <2>2 DEF OpInv
  <2>7. \A q \in Ops : /\ \/ pcs[q] = ops[q].pc /\ ops[q].pc \notin Starting
                          \/ /\ ops[q].pc \in {"abort", "undo"} /\ pcs[q] \in {"spawn", "done"}
                             /\ pcs[q] = "spawn" => startLock' = q
                       /\ pcs[q] \notin Starting
    BY <2>1, <2>2, <2>6 DEF Starting
  <2> HIDE DEF pcs
  <2> QED
    BY <1>0, <2>1, <2>3, <2>4, <2>5, <2>7, ResetKept DEF LspTyped
<1>3. ASSUME Language!CloseEnds PROVE LspInv'
  <2>1. /\ lspClosing = "stop" /\ lspClosing' = "done" /\ Language!Reset /\ Language!NoProcess
        /\ startLock' = None /\ UNCHANGED <<spawned, ops, crossed, astray>>
    BY <1>3 DEF Language!CloseEnds, Language!history
  <2>2. \A q \in Ops : ops[q].pc \notin Starting
    BY <1>0, <2>1 DEF Processes
  <2> DEFINE pcs == [q \in Ops |-> ops[q].pc]
  <2>3. pcs \in [Ops -> Points]
    BY <1>0
  <2>4. \A q \in Ops : ops'[q] = [ops[q] EXCEPT !.pc = pcs[q]] /\ pcs[q] = ops[q].pc
    BY <1>0, <2>1 DEF Op
  <2>5. ops' \in [Ops -> Op]
    BY <1>0, <2>1 DEF LspTyped
  <2> HIDE DEF pcs
  <2> QED
    BY <2>1, <2>2, <2>3, <2>4, <2>5, ResetKept
<1> QED
  BY <1>1, <1>2, <1>3

(* No server has been started.                                             *)
LEMMA LspStart == Language!Init => LspInv
<1> SUFFICES ASSUME Language!Init PROVE LspInv
  OBVIOUS
<1>1. /\ proc = 0 /\ spawned = 0 /\ dead = FALSE /\ initialized = FALSE /\ startLock = None
      /\ lspEpoch = 0 /\ holder = [u \in Documents |-> [e \in Epochs |-> None]]
      /\ signalled = [u \in Documents |-> [e \in Epochs |-> FALSE]]
      /\ lspVersions = [u \in Documents |-> 0] /\ found = [u \in Documents |-> None]
      /\ sent = <<>> /\ doc = [u \in Documents |-> Language!Closed] /\ published = <<>>
      /\ ops = [o \in Ops |-> Language!Idle] /\ lspClosing = "no"
      /\ crossed = FALSE /\ astray = FALSE
  BY DEF Language!Init, Epochs
<1>2. Language!Closed \in Opened /\ Language!Closed.version = 0 /\ 0 \in 0 .. MaxProcesses
  BY LspBounds DEF Opened, Language!Closed
<1>3. \A o \in Ops : ops[o].pc = "off" /\ ops[o].result = None
  BY <1>1 DEF Language!Idle
<1>4. LspTyped
  <2>1. sent \in Seq(Message) /\ published \in Seq(Publication)
    BY <1>1
  <2>2. /\ holder \in [Documents -> [Epochs -> Ops \cup {None}]]
        /\ signalled \in [Documents -> [Epochs -> BOOLEAN]]
        /\ lspVersions \in [Documents -> Versions] /\ found \in [Documents -> Ops \cup {None}]
        /\ doc \in [Documents -> Opened]
    BY <1>1, <1>2, LspBounds
  <2>3. ops \in [Ops -> Op]
    BY <1>1, OpShapes
  <2>4. /\ proc = 0 /\ spawned = 0 /\ dead = FALSE /\ initialized = FALSE /\ startLock = None
        /\ lspEpoch = 0 /\ lspClosing = "no" /\ crossed = FALSE /\ astray = FALSE
    BY <1>1
  <2>5. proc =< spawned /\ spawned \in 0 .. MaxProcesses /\ proc \in 0 .. MaxProcesses /\ lspEpoch \in Epochs
    BY <1>2, <2>4, LspBounds
  <2>6. /\ dead \in BOOLEAN /\ initialized \in BOOLEAN /\ crossed \in BOOLEAN /\ astray \in BOOLEAN
        /\ startLock \in Ops \cup {None, "close"} /\ lspClosing \in {"no", "cancel", "stop", "done"}
    BY <2>4
  <2> QED
    BY <2>1, <2>2, <2>3, <2>5, <2>6 DEF LspTyped
<1>5. \A o \in Ops : OpInv(o)
  BY <1>3 DEF OpInv, Starting
<1>6. Processes /\ Wires /\ Ordered
  BY <1>1, <1>2 DEF Processes, Wires, Ordered
<1>7. Counted
  <2>1. Spent = {}
    BY <1>3 DEF Spent
  <2> QED
    BY <1>1, <2>1, FS_EmptySet DEF Counted
<1> QED
  BY <1>4, <1>5, <1>6, <1>7 DEF LspInv

(* Every step of the language servers keeps the invariant.                 *)
LEMMA LspStep ==
    ASSUME LspInv, Language!Next \/ UNCHANGED lspVars
    PROVE  LspInv'
<1>0. LspTyped
  BY DEF LspInv
<1>1. ASSUME NEW o \in Ops, NEW u \in Documents, Language!Call(o, u) PROVE LspInv'
  BY <1>1, CallKept
<1>2. ASSUME NEW o \in Ops, Language!InitFails(o) PROVE LspInv'
  BY <1>2, GoesKept DEF Language!InitFails, Language!process, Language!documents, Language!wire,
                        Language!history
<1>3. ASSUME NEW o \in Ops,
             \/ Language!StartSkips(o) \/ Language!StartBegins(o) \/ Language!Aborted(o)
             \/ Language!Spawns(o) \/ Language!Initialized(o) \/ Language!Undone(o)
             \/ Language!Names(o) \/ Language!Sends(o) \/ Language!Diagnosed(o)
             \/ Language!TimesOut(o) \/ Language!ActionsEnd(o) \/ Language!Canceled(o)
      PROVE  LspInv'
  BY <1>3, StartSkipsKept, StartBeginsKept, PutAwayKept, SpawnsKept, InitializedKept, NamesKept,
     SendsKept, DiagnosedKept, CanceledKept
<1>4. CASE Language!ServerReads \/ Language!Dispatches \/ Language!CloseEnds
  BY <1>4, ServerReadsKept, DispatchesKept, PutAwayKept
<1>5. CASE Language!Dies
  BY <1>0, <1>5, StandsKept DEF Language!Dies, Language!documents, Language!wire, Language!history, LspTyped
<1>6. CASE Language!CloseBegins
  BY <1>0, <1>6, StandsKept DEF Language!CloseBegins, Language!process, Language!documents,
                                Language!wire, Language!history, LspTyped
<1>7. CASE Language!CloseStops
  BY <1>0, <1>7, StandsKept DEF Language!CloseStops, Language!documents, Language!wire,
                                Language!history, LspTyped
<1>8. CASE UNCHANGED lspVars
  BY <1>0, <1>8, StandsKept DEF lspVars, LspTyped
<1> QED
  BY <1>1, <1>2, <1>3, <1>4, <1>5, <1>6, <1>7, <1>8 DEF Language!Next

(* The properties follow from the invariant.                               *)
LEMMA LspAnswers ==
    LspInv => /\ Language!TypeOK /\ Language!OwnDiagnostics /\ Language!DocumentsInOrder
              /\ Language!ClosedForGood
<1> SUFFICES ASSUME LspInv
             PROVE  /\ Language!TypeOK /\ Language!OwnDiagnostics /\ Language!DocumentsInOrder
                    /\ Language!ClosedForGood
  OBVIOUS
<1>1. Language!TypeOK
  BY LspTypes DEF LspInv
<1>2. Language!OwnDiagnostics
  BY DEF LspInv, OpInv, Language!OwnDiagnostics
<1>3. Language!DocumentsInOrder
  <2>1. SUFFICES ASSUME sent # <<>>
                 PROVE  /\ Head(sent).started = proc => Head(sent).ready
                        /\ ~astray => Head(sent).version = doc[Head(sent).uri].version + 1
    BY DEF Language!DocumentsInOrder
  <2>2. Head(sent) = sent[1] /\ 1 \in 1 .. Len(sent)
    BY <2>1, WireFacts
  <2> QED
    BY <2>2 DEF LspInv, Wires, Ordered
<1>4. Language!ClosedForGood
  BY DEF LspInv, Processes, Starting, Language!ClosedForGood
<1> QED
  BY <1>1, <1>2, <1>3, <1>4

-----------------------------------------------------------------------------
(* MCP clients. What a request waits for, by its owner; what the cache, a  *)
(* read or an answer on its way knows of a resource; and what the client,  *)
(* or an answer on its way, knows of the tools.                            *)
Texts == Served!Versions
Askers == {"start", "refresh", "read", "subscribe"}
Asked == [id : 1 .. MaxId, owner : Askers, uri : Uris \cup {NoRead},
          answer : Texts \cup {Unanswered, Failed}]
Answer == [kind : {"answer"}, id : 1 .. MaxId, value : Texts \cup {Failed}]
Task == [notice : Served!Notice, asked : BOOLEAN]
Cached == [uri : Uris, text : Texts]
Phases == {"closed", "init", "list", "started", "open"}

McpTyped ==
    /\ server \in [up : BOOLEAN, texts : [Uris -> Texts], tools : Texts, subs : SUBSET Uris]
    /\ requests \subseteq Served!Request /\ stream \in Seq(Answer \cup Served!Notice)
    /\ reading \in BOOLEAN /\ connection \in Phases
    /\ nextId \in Nat /\ nextId # 0 /\ pending \subseteq Asked
    /\ tasks \in Seq(Task) /\ Len(tasks) =< MaxTasks
    /\ tools \in Texts /\ registered \in Texts
    /\ cache \in Seq(Cached) /\ Len(cache) =< MaxCached
    /\ reads \in [Uris -> Served!Read \cup {NoRead}] /\ orphans \subseteq Uris
    /\ epoch \in Nat /\ versions \in [Uris -> Nat] /\ subscriptions \subseteq Uris
    /\ changes \in 0 .. MaxChanges /\ silent \in [Uris -> Texts] /\ unheard \in Texts

Grown ==
    /\ server.tools =< changes + 1 /\ unheard =< server.tools
    /\ \A u \in Uris : server.texts[u] =< changes /\ silent[u] =< server.texts[u]

ShutInv ==
    /\ connection = "closed" =>
        ~server.up /\ requests = {} /\ stream = <<>> /\ pending = {} /\ tasks = <<>>
    /\ connection \in {"closed", "init"} =>
        cache = <<>> /\ subscriptions = {} /\ \A u \in Uris : reads[u] = NoRead
    /\ connection # "open" => registered = 0

(* A request is one of its owner's, who waits for it.                      *)
Sole == \A p, r \in pending : p.id = r.id \/ (p.owner = r.owner /\ p.uri = r.uri) => p = r
OneAnswer == \A p, r \in pending : p.answer \in Nat /\ r.answer \in Nat => p = r

IdInv ==
    /\ \A p \in pending : p.id < nextId
    /\ Sole /\ OneAnswer
    /\ \A q \in requests : q.id < nextId /\ (q.owner \in {"read", "subscribe"} => q.uri \in Uris)
    /\ \A q \in requests, p \in pending : p.id = q.id => p.owner = q.owner /\ p.uri = q.uri
    /\ \A i \in 1 .. Len(stream) : /\ stream[i].kind = "answer" => stream[i].id < nextId
                                   /\ stream[i].kind = "updated" => stream[i].uri \in Uris

Placed(p) ==
    /\ p.owner \in {"start", "refresh"} => p.uri = NoRead
    /\ p.owner = "start" => connection \in {"init", "list"}
    /\ p.owner = "refresh" => tasks # <<>> /\ tasks[1].asked
    /\ p.owner \in {"read", "subscribe"} =>
        p.uri \in Uris /\ reads[p.uri] # NoRead /\ reads[p.uri].pc = p.owner

WaitInv ==
    /\ \A p \in pending : Placed(p)
    /\ \A i \in 1 .. Len(tasks) :
        /\ tasks[i].asked => i = 1 /\ tasks[i].notice.kind # "updated"
        /\ tasks[i].notice.kind = "updated" => tasks[i].notice.uri \in Uris

(* A text of u is the server's, or there is word of the change.            *)
Good(u, text) ==
    /\ text =< server.texts[u]
    /\ text = server.texts[u] \/ Served!Announced(u) \/ silent[u] > text

(* A read of u that no change was announced for has such a text.           *)
Fresh(u, text) == reads[u] # NoRead /\ Served!Current(u) => Good(u, text)

TextInv ==
    /\ \A i \in 1 .. Len(cache) : Good(cache[i].uri, cache[i].text)
    /\ \A i, j \in 1 .. Len(cache) : cache[i].uri = cache[j].uri => i = j
    /\ \A u \in Uris : reads[u] # NoRead /\ reads[u].pc \in {"read", "subscribe"} =>
        /\ reads[u].epoch =< epoch
        /\ reads[u].epoch = epoch => reads[u].version =< versions[u]
        /\ reads[u].pc = "subscribe" => Fresh(u, reads[u].text)
    /\ \A p \in pending : p.owner = "read" /\ p.answer \in Nat => Fresh(p.uri, p.answer)
    /\ \A i \in 1 .. Len(stream), p \in pending :
        stream[i].kind = "answer" /\ stream[i].id = p.id /\ p.owner = "read"
            /\ stream[i].value \in Nat => Fresh(p.uri, stream[i].value)

(* A tool list is the server's, or a notice of a newer one is after place  *)
(* i of the stream, or after place k of the tasks, or was given up.        *)
After(version, i) ==
    \E j \in 1 .. Len(stream) : j > i /\ stream[j].kind = "tools" /\ stream[j].value > version
Behind(version, k) ==
    \E j \in 1 .. Len(tasks) : j > k /\ tasks[j].notice.kind = "tools" /\ tasks[j].notice.value > version
Known(version, k) ==
    version = server.tools \/ After(version, 0) \/ Behind(version, k) \/ unheard > version

ToolInv ==
    /\ connection \in {"started", "open"} => Known(tools, 0)
    /\ connection = "open" => registered = tools
    /\ \A p \in pending : p.answer \in Nat =>
        /\ p.owner = "start" => Known(p.answer, 0)
        /\ p.owner = "refresh" => Known(p.answer, 1)
    /\ \A i \in 1 .. Len(stream), p \in pending :
        stream[i].kind = "answer" /\ stream[i].id = p.id /\ p.owner \in {"start", "refresh"}
            /\ stream[i].value \in Nat =>
                stream[i].value = server.tools \/ After(stream[i].value, i)

(* Notices come in the order of the changes.                               *)
NoticeInv ==
    /\ \A i \in 1 .. Len(stream) : stream[i].kind = "tools" =>
        unheard < stream[i].value /\ stream[i].value =< server.tools
    /\ \A i, j \in 1 .. Len(stream) :
        i < j /\ stream[i].kind = "tools" /\ stream[j].kind = "tools" => stream[i].value < stream[j].value
    /\ \A i \in 1 .. Len(tasks) : tasks[i].notice.kind = "tools" =>
        /\ tasks[i].notice.value =< server.tools
        /\ \A j \in 1 .. Len(stream) : stream[j].kind = "tools" => tasks[i].notice.value < stream[j].value

McpInv == McpTyped /\ Grown /\ ShutInv /\ IdInv /\ WaitInv /\ TextInv /\ ToolInv /\ NoticeInv

(* The constants, and the texts and versions they bound.                   *)
LEMMA McpBounds ==
    /\ Unanswered \notin Nat /\ Failed \notin Nat /\ Unanswered # Failed
    /\ NoRead \notin Uris /\ NoRead \notin Served!Read
    /\ MaxTasks \in Nat /\ MaxCached \in Nat /\ MaxChanges \in Nat /\ MaxId \in Nat
    /\ Texts = 0 .. MaxChanges + 1 /\ Texts \subseteq Nat /\ 0 \in Texts /\ 1 \in Texts
    /\ Served!Versions = Texts /\ 1 .. MaxId \subseteq Nat
BY ClientsAssumption DEF Served!McpClientAssumption, Texts, Served!Versions

(* What the elements of the state look like.                               *)
LEMMA Shapes ==
    /\ \A p \in Asked : /\ p.id \in 1 .. MaxId /\ p.id \in Nat /\ p.owner \in Askers
                        /\ p.uri \in Uris \cup {NoRead} /\ p.answer \in Texts \cup {Unanswered, Failed}
    /\ \A q \in Served!Request : /\ q.id \in 1 .. MaxId /\ q.id \in Nat /\ q.owner \in Askers
                                 /\ q.uri \in Uris \cup {NoRead}
    /\ \A m \in Answer \cup Served!Notice :
        /\ m.kind = "answer" => m.id \in 1 .. MaxId /\ m.id \in Nat /\ m.value \in Texts \cup {Failed}
        /\ m.kind # "answer" => /\ m \in Served!Notice /\ m.value \in Texts /\ m.value \in Nat
                                /\ m.kind \in {"tools", "updated", "resources"}
    /\ \A n \in Served!Notice : n.value \in Texts /\ n.value \in Nat
                                /\ n.kind \in {"tools", "updated", "resources"}
    /\ \A t \in Task : t.notice \in Served!Notice /\ t.asked \in BOOLEAN
    /\ \A c \in Cached : c.uri \in Uris /\ c.text \in Texts /\ c.text \in Nat
    /\ \A r \in Served!Read : /\ r.pc \in {"begin", "read", "subscribe", "done"}
                              /\ r.epoch \in Nat /\ r.version \in Nat /\ r.text \in Texts
                              /\ r.attempt \in 1 .. 2 /\ r.text \in Nat
<1>1. /\ \A p \in Asked : /\ p.id \in 1 .. MaxId /\ p.id \in Nat /\ p.owner \in Askers
                          /\ p.uri \in Uris \cup {NoRead} /\ p.answer \in Texts \cup {Unanswered, Failed}
      /\ \A q \in Served!Request : /\ q.id \in 1 .. MaxId /\ q.id \in Nat /\ q.owner \in Askers
                                   /\ q.uri \in Uris \cup {NoRead}
  BY McpBounds DEF Asked, Served!Request, Askers
<1>2. \A n \in Served!Notice : n.value \in Texts /\ n.value \in Nat
                               /\ n.kind \in {"tools", "updated", "resources"}
  BY McpBounds DEF Served!Notice
<1>3. \A m \in Answer : /\ m.kind = "answer" /\ m.id \in 1 .. MaxId /\ m.id \in Nat
                        /\ m.value \in Texts \cup {Failed}
  BY McpBounds DEF Answer
<1>4. \A t \in Task : t.notice \in Served!Notice /\ t.asked \in BOOLEAN
  BY DEF Task
<1>5. /\ \A c \in Cached : c.uri \in Uris /\ c.text \in Texts /\ c.text \in Nat
      /\ \A r \in Served!Read : /\ r.pc \in {"begin", "read", "subscribe", "done"}
                                /\ r.epoch \in Nat /\ r.version \in Nat /\ r.text \in Texts
                                /\ r.attempt \in 1 .. 2 /\ r.text \in Nat
  BY McpBounds DEF Cached, Served!Read
<1> QED
  BY <1>1, <1>2, <1>3, <1>4, <1>5

(* What the state holds, element by element.                               *)
LEMMA McpFacts ==
    ASSUME McpTyped
    PROVE  /\ \A p \in pending : /\ p \in Asked /\ p.id \in 1 .. MaxId /\ p.id \in Nat /\ p.owner \in Askers
                                 /\ p.uri \in Uris \cup {NoRead}
                                 /\ p.answer \in Texts \cup {Unanswered, Failed}
           /\ \A q \in requests : /\ q \in Served!Request /\ q.id \in Nat /\ q.owner \in Askers
                                  /\ q.uri \in Uris \cup {NoRead}
           /\ Len(stream) \in Nat /\ Len(tasks) \in Nat /\ Len(cache) \in Nat
           /\ \A i \in 1 .. Len(stream) :
                /\ stream[i] \in Answer \cup Served!Notice
                /\ stream[i].kind = "answer" => stream[i].id \in Nat /\ stream[i].value \in Texts \cup {Failed}
                /\ stream[i].kind # "answer" => /\ stream[i] \in Served!Notice /\ stream[i].value \in Texts
                                                /\ stream[i].value \in Nat
           /\ \A i \in 1 .. Len(tasks) : /\ tasks[i] \in Task /\ tasks[i].notice.value \in Nat
                                         /\ tasks[i].notice \in Served!Notice
           /\ \A i \in 1 .. Len(cache) : /\ cache[i] \in Cached /\ cache[i].uri \in Uris
                                         /\ cache[i].text \in Nat /\ cache[i].text \in Texts
           /\ \A u \in Uris : /\ server.texts[u] \in Nat /\ silent[u] \in Nat /\ versions[u] \in Nat
                              /\ server.texts[u] \in Texts /\ silent[u] \in Texts
                              /\ reads[u] # NoRead => reads[u] \in Served!Read
           /\ server.tools \in Nat /\ unheard \in Nat /\ epoch \in Nat /\ nextId \in Nat /\ changes \in Nat
           /\ tools \in Nat /\ registered \in Nat
<1>1. /\ \A p \in pending : p \in Asked
      /\ \A q \in requests : q \in Served!Request
  BY DEF McpTyped
<1>2. /\ Len(stream) \in Nat /\ Len(tasks) \in Nat /\ Len(cache) \in Nat
      /\ \A i \in 1 .. Len(stream) : stream[i] \in Answer \cup Served!Notice
      /\ \A i \in 1 .. Len(tasks) : tasks[i] \in Task
      /\ \A i \in 1 .. Len(cache) : cache[i] \in Cached
  BY DEF McpTyped
<1>3. /\ \A u \in Uris : /\ server.texts[u] \in Nat /\ silent[u] \in Nat /\ versions[u] \in Nat
                         /\ server.texts[u] \in Texts /\ silent[u] \in Texts
                         /\ reads[u] # NoRead => reads[u] \in Served!Read
      /\ server.tools \in Nat /\ unheard \in Nat /\ epoch \in Nat /\ nextId \in Nat /\ changes \in Nat
      /\ tools \in Nat /\ registered \in Nat
  BY McpBounds DEF McpTyped
<1>4. /\ \A p \in pending : /\ p.id \in 1 .. MaxId /\ p.id \in Nat /\ p.owner \in Askers
                            /\ p.uri \in Uris \cup {NoRead} /\ p.answer \in Texts \cup {Unanswered, Failed}
      /\ \A q \in requests : q.id \in Nat /\ q.owner \in Askers /\ q.uri \in Uris \cup {NoRead}
  BY <1>1, Shapes
<1>5. \A i \in 1 .. Len(stream) :
        /\ stream[i].kind = "answer" => stream[i].id \in Nat /\ stream[i].value \in Texts \cup {Failed}
        /\ stream[i].kind # "answer" => /\ stream[i] \in Served!Notice /\ stream[i].value \in Texts
                                        /\ stream[i].value \in Nat
  BY <1>2, Shapes
<1>6. /\ \A i \in 1 .. Len(tasks) : tasks[i].notice.value \in Nat /\ tasks[i].notice \in Served!Notice
      /\ \A i \in 1 .. Len(cache) : cache[i].uri \in Uris /\ cache[i].text \in Nat /\ cache[i].text \in Texts
  BY <1>2, Shapes
<1> QED
  BY <1>1, <1>2, <1>3, <1>4, <1>5, <1>6

(* The tail and the longer version of a sequence, by index.                *)
LEMMA TailAt ==
    ASSUME NEW S, NEW s \in Seq(S), s # <<>>
    PROVE  /\ Tail(s) \in Seq(S) /\ Len(Tail(s)) = Len(s) - 1 /\ Len(s) \in Nat /\ Len(s) # 0
           /\ Head(s) = s[1] /\ 1 \in 1 .. Len(s) /\ s[1] \in S
           /\ \A i \in 1 .. Len(Tail(s)) : i + 1 \in 1 .. Len(s) /\ Tail(s)[i] = s[i + 1]
           /\ \A j \in 1 .. Len(s) : j > 1 => j - 1 \in 1 .. Len(Tail(s)) /\ Tail(s)[j - 1] = s[j]
<1>1. Tail(s) \in Seq(S) /\ Len(Tail(s)) = Len(s) - 1 /\ \A i \in 1 .. Len(Tail(s)) : Tail(s)[i] = s[i + 1]
  BY HeadTailProperties
<1>2. Len(s) # 0 /\ Len(s) \in Nat
  BY EmptySeq
<1>3. Head(s) = s[1] /\ 1 \in 1 .. Len(s) /\ s[1] \in S
  BY <1>2
<1>4. \A j \in 1 .. Len(s) : j > 1 => j - 1 \in 1 .. Len(Tail(s)) /\ (j - 1) + 1 = j
  BY <1>1, <1>2
<1> QED
  BY <1>1, <1>2, <1>3, <1>4

(* A longer sequence has the elements it had, and one more.                *)
LEMMA AppendAt ==
    ASSUME NEW S, NEW s \in Seq(S), NEW e \in S
    PROVE  /\ Append(s, e) \in Seq(S) /\ Len(Append(s, e)) = Len(s) + 1 /\ Len(s) \in Nat
           /\ \A i \in 1 .. Len(s) : i \in 1 .. Len(Append(s, e)) /\ Append(s, e)[i] = s[i]
           /\ Append(s, e)[Len(s) + 1] = e /\ Len(s) + 1 \in 1 .. Len(Append(s, e))
           /\ \A i \in 1 .. Len(Append(s, e)) : i \in 1 .. Len(s) \/ i = Len(s) + 1
           /\ Append(s, e) # <<>>
BY AppendProperties

(* The cache without one of its entries.                                   *)
LEMMA WithoutFacts ==
    ASSUME McpTyped, \A i, j \in 1 .. Len(cache) : cache[i].uri = cache[j].uri => i = j, NEW u
    PROVE  /\ Served!Without(u) \in Seq(Cached) /\ Len(Served!Without(u)) =< Len(cache)
           /\ Len(Served!Without(u)) \in Nat
           /\ \A i \in 1 .. Len(Served!Without(u)) :
                /\ Served!Without(u)[i].uri # u
                /\ \E k \in 1 .. Len(cache) : Served!Without(u)[i] = cache[k]
           /\ \A i, j \in 1 .. Len(Served!Without(u)) :
                Served!Without(u)[i].uri = Served!Without(u)[j].uri => i = j
           /\ (\E i \in DOMAIN cache : cache[i].uri = u) => Len(Served!Without(u)) + 1 = Len(cache)
           /\ cache = <<>> => Served!Without(u) = <<>>
<1>0. cache \in Seq(Cached) /\ Len(cache) \in Nat /\ DOMAIN cache = 1 .. Len(cache)
      /\ \A i \in 1 .. Len(cache) : cache[i] \in Cached
  BY DEF McpTyped
<1>1. CASE ~(\E i \in DOMAIN cache : cache[i].uri = u)
  <2>1. Served!Without(u) = cache
    BY <1>1 DEF Served!Without
  <2>2. \A i \in 1 .. Len(cache) : cache[i].uri # u /\ \E k \in 1 .. Len(cache) : cache[i] = cache[k]
    BY <1>0, <1>1
  <2>3. Len(cache) =< Len(cache)
    BY <1>0
  <2> QED
    BY <1>0, <1>1, <2>1, <2>2, <2>3
<1>2. CASE \E i \in DOMAIN cache : cache[i].uri = u
  <2> DEFINE k == CHOOSE i \in DOMAIN cache : cache[i].uri = u
             a == SubSeq(cache, 1, k - 1)
             b == SubSeq(cache, k + 1, Len(cache))
  <2>1. k \in 1 .. Len(cache) /\ cache[k].uri = u
    BY <1>0, <1>2
  <2> HIDE DEF k
  <2>2. Served!Without(u) = a \o b
    BY <1>2 DEF Served!Without, Served!RemoveAt, k
  <2>3. /\ a \in Seq(Cached) /\ Len(a) = k - 1
        /\ \A i \in 1 .. k - 1 : a[i] = cache[i]
    <3>1. 1 \in Int /\ k - 1 \in Int /\ \A i \in 1 .. k - 1 : cache[i] \in Cached
      BY <1>0, <2>1
    <3>2. /\ a \in Seq(Cached) /\ Len(a) = (IF 1 =< k - 1 THEN (k - 1) - 1 + 1 ELSE 0)
          /\ \A i \in 1 .. (k - 1) - 1 + 1 : a[i] = cache[1 + i - 1]
      BY <3>1, SubSeqProperties
    <3> QED
      BY <1>0, <2>1, <3>2
  <2>4. /\ b \in Seq(Cached) /\ Len(b) = Len(cache) - k
        /\ \A i \in 1 .. Len(cache) - k : b[i] = cache[k + i]
    <3>1. k + 1 \in Int /\ Len(cache) \in Int /\ \A i \in k + 1 .. Len(cache) : cache[i] \in Cached
      BY <1>0, <2>1
    <3>2. /\ b \in Seq(Cached) /\ Len(b) = (IF k + 1 =< Len(cache) THEN Len(cache) - (k + 1) + 1 ELSE 0)
          /\ \A i \in 1 .. Len(cache) - (k + 1) + 1 : b[i] = cache[(k + 1) + i - 1]
      BY <3>1, SubSeqProperties
    <3>3. Len(b) = Len(cache) - k
      BY <1>0, <2>1, <3>2
    <3>4. ASSUME NEW i \in 1 .. Len(cache) - k PROVE b[i] = cache[k + i]
      <4>1. i \in 1 .. Len(cache) - (k + 1) + 1 /\ (k + 1) + i - 1 = k + i
        BY <1>0, <2>1, <3>4
      <4> QED
        BY <3>2, <4>1
    <3> QED
      BY <3>2, <3>3, <3>4
  <2> HIDE DEF a, b
  <2>5. /\ a \o b \in Seq(Cached) /\ Len(a \o b) = Len(cache) - 1
        /\ \A i \in 1 .. Len(cache) - 1 : (a \o b)[i] = IF i < k THEN cache[i] ELSE cache[i + 1]
    <3>1. /\ a \o b \in Seq(Cached) /\ Len(a \o b) = Len(a) + Len(b)
          /\ \A i \in 1 .. Len(a) + Len(b) : (a \o b)[i] = IF i =< Len(a) THEN a[i] ELSE b[i - Len(a)]
      BY <2>3, <2>4, ConcatProperties
    <3>2. \A i \in 1 .. Len(cache) - 1 : i < k => i \in 1 .. k - 1 /\ i =< Len(a)
      BY <1>0, <2>1, <2>3
    <3>3. \A i \in 1 .. Len(cache) - 1 : ~(i < k) => /\ i - Len(a) \in 1 .. Len(cache) - k /\ ~(i =< Len(a))
                                                    /\ k + (i - Len(a)) = i + 1
      BY <1>0, <2>1, <2>3
    <3>4. Len(a) + Len(b) = Len(cache) - 1
      BY <1>0, <2>1, <2>3, <2>4
    <3> QED
      BY <2>3, <2>4, <3>1, <3>2, <3>3, <3>4
  <2> DEFINE n(i) == IF i < k THEN i ELSE i + 1
  <2>6. \A i \in 1 .. Len(cache) - 1 : n(i) \in 1 .. Len(cache) /\ n(i) # k /\ (a \o b)[i] = cache[n(i)]
    BY <1>0, <2>1, <2>5
  <2>7. \A i \in 1 .. Len(cache) - 1 : /\ (a \o b)[i].uri # u
                                      /\ \E m \in 1 .. Len(cache) : (a \o b)[i] = cache[m]
    BY <2>1, <2>6
  <2>8. \A i, j \in 1 .. Len(cache) - 1 : (a \o b)[i].uri = (a \o b)[j].uri => i = j
    <3>1. \A i, j \in 1 .. Len(cache) - 1 : n(i) = n(j) => i = j
      BY <1>0, <2>1
    <3> HIDE DEF n
    <3>2. SUFFICES ASSUME NEW i \in 1 .. Len(cache) - 1, NEW j \in 1 .. Len(cache) - 1,
                          (a \o b)[i].uri = (a \o b)[j].uri
                   PROVE  i = j
      OBVIOUS
    <3>3. /\ n(i) \in 1 .. Len(cache) /\ n(j) \in 1 .. Len(cache)
          /\ (a \o b)[i] = cache[n(i)] /\ (a \o b)[j] = cache[n(j)]
      BY <2>6, <3>2
    <3>4. cache[n(i)].uri = cache[n(j)].uri
      BY <3>2, <3>3
    <3>5. n(i) = n(j)
      BY <3>3, <3>4
    <3> QED
      BY <3>1, <3>5
  <2>9. cache # <<>> /\ Len(cache) - 1 \in Nat /\ Len(cache) - 1 =< Len(cache)
        /\ (Len(cache) - 1) + 1 = Len(cache)
    BY <1>0, <2>1
  <2> DEFINE w == a \o b
             size == Len(cache) - 1
  <2>10. w \in Seq(Cached) /\ Len(w) = size /\ w = Served!Without(u)
    BY <2>2, <2>5
  <2>11. /\ \A i \in 1 .. size : w[i].uri # u /\ \E m \in 1 .. Len(cache) : w[i] = cache[m]
         /\ \A i, j \in 1 .. size : w[i].uri = w[j].uri => i = j
         /\ size \in Nat /\ size =< Len(cache) /\ size + 1 = Len(cache)
    BY <2>7, <2>8, <2>9
  <2> HIDE DEF w, size
  <2> QED
    BY <2>9, <2>10, <2>11
<1> QED
  BY <1>1, <1>2

-----------------------------------------------------------------------------
(* How a step may change the stream, by d elements taken from its head and *)
(* one put after its end; and the requests that wait.                      *)
Fits(m) ==
    /\ m.kind = "updated" => m.uri \in Uris
    /\ m.kind = "answer" =>
        /\ m.id \in Nat /\ m.id < nextId
        /\ \A p \in pending : p.id = m.id /\ m.value \in Nat =>
            /\ p.owner = "read" => m.value = server.texts[p.uri]
            /\ p.owner \in {"start", "refresh"} => m.value = server.tools

Shifts(d) ==
    /\ \A j \in 1 .. Len(stream) : j > d => j - d \in 1 .. Len(stream') /\ stream'[j - d] = stream[j]
    /\ \A i \in 1 .. Len(stream') :
        \/ i + d \in 1 .. Len(stream) /\ stream'[i] = stream[i + d]
        \/ d = 0 /\ i = Len(stream) + 1 /\ Fits(stream'[i])

Inherited(p, r) ==
    /\ p.id = r.id /\ p.owner = r.owner /\ p.uri = r.uri
    /\ p.answer \in Nat => \/ p.answer = r.answer
                           \/ \E i \in 1 .. Len(stream) : /\ stream[i].kind = "answer" /\ stream[i].id = p.id
                                                          /\ stream[i].value = p.answer

Inherits == \A p \in pending' : \/ p.answer = Unanswered /\ p.id = nextId
                                \/ \E r \in pending : Inherited(p, r)

(* The stream as it was, ...                                               *)
LEMMA StreamStays == stream' = stream /\ stream \in Seq(Answer \cup Served!Notice) => Shifts(0)
<1> SUFFICES ASSUME stream' = stream, stream \in Seq(Answer \cup Served!Notice) PROVE Shifts(0)
  OBVIOUS
<1>1. Len(stream) \in Nat
  OBVIOUS
<1> QED
  BY <1>1 DEF Shifts

(* ... one message longer, ...                                             *)
LEMMA StreamGrows ==
    ASSUME McpTyped, NEW m \in Answer \cup Served!Notice, stream' = Append(stream, m), Fits(m)
    PROVE  /\ Shifts(0) /\ stream' \in Seq(Answer \cup Served!Notice)
           /\ Len(stream') = Len(stream) + 1 /\ stream'[Len(stream) + 1] = m
           /\ Len(stream) \in Nat
           /\ \A i \in 1 .. Len(stream) : i \in 1 .. Len(stream') /\ stream'[i] = stream[i]
           /\ \A i \in 1 .. Len(stream') : i \in 1 .. Len(stream) \/ (i = Len(stream) + 1 /\ stream'[i] = m)
<1>0. stream \in Seq(Answer \cup Served!Notice)
  BY DEF McpTyped
<1>1. /\ stream' \in Seq(Answer \cup Served!Notice) /\ Len(stream') = Len(stream) + 1
      /\ Len(stream) \in Nat /\ stream'[Len(stream) + 1] = m
      /\ \A i \in 1 .. Len(stream) : i \in 1 .. Len(stream') /\ stream'[i] = stream[i]
      /\ \A i \in 1 .. Len(stream') : i \in 1 .. Len(stream) \/ i = Len(stream) + 1
  <2> DEFINE t == Append(stream, m)
  <2>1. /\ t \in Seq(Answer \cup Served!Notice) /\ Len(t) = Len(stream) + 1
        /\ Len(stream) \in Nat /\ t[Len(stream) + 1] = m
        /\ \A i \in 1 .. Len(stream) : i \in 1 .. Len(t) /\ t[i] = stream[i]
        /\ \A i \in 1 .. Len(t) : i \in 1 .. Len(stream) \/ i = Len(stream) + 1
    BY <1>0, AppendAt
  <2>2. stream' = t
    OBVIOUS
  <2> HIDE DEF t
  <2> QED
    BY <2>1, <2>2
<1>2. \A j \in 1 .. Len(stream) : j - 0 = j
  BY <1>1
<1>3. \A i \in 1 .. Len(stream') : i + 0 = i
  BY <1>1
<1>4. \A i \in 1 .. Len(stream') : \/ i + 0 \in 1 .. Len(stream) /\ stream'[i] = stream[i + 0]
                                   \/ i = Len(stream) + 1 /\ stream'[i] = m
  BY <1>1, <1>3
<1>5. Shifts(0)
  BY <1>1, <1>2, <1>4 DEF Shifts
<1>6. \A i \in 1 .. Len(stream') : i \in 1 .. Len(stream) \/ (i = Len(stream) + 1 /\ stream'[i] = m)
  BY <1>1
<1> QED
  BY <1>1, <1>5, <1>6

(* ... or without its first message.                                       *)
LEMMA StreamShrinks ==
    ASSUME McpTyped, stream # <<>>, stream' = Tail(stream)
    PROVE  /\ Shifts(1) /\ stream' \in Seq(Answer \cup Served!Notice)
           /\ Len(stream') = Len(stream) - 1 /\ Head(stream) = stream[1] /\ 1 \in 1 .. Len(stream)
           /\ \A i \in 1 .. Len(stream') : i + 1 \in 1 .. Len(stream) /\ stream'[i] = stream[i + 1] /\ i + 1 > 1
<1>0. stream \in Seq(Answer \cup Served!Notice)
  BY DEF McpTyped
<1>1. /\ stream' \in Seq(Answer \cup Served!Notice) /\ Len(stream') = Len(stream) - 1
      /\ Head(stream) = stream[1] /\ 1 \in 1 .. Len(stream) /\ Len(stream) \in Nat
      /\ \A i \in 1 .. Len(stream') : i + 1 \in 1 .. Len(stream) /\ stream'[i] = stream[i + 1]
      /\ \A j \in 1 .. Len(stream) : j > 1 => j - 1 \in 1 .. Len(stream') /\ stream'[j - 1] = stream[j]
  BY <1>0, TailAt
<1>2. \A i \in 1 .. Len(stream') : i + 1 > 1
  BY <1>1
<1>3. Shifts(1)
  BY <1>1 DEF Shifts
<1> QED
  BY <1>1, <1>2, <1>3

(* A good text stays good while its notices stay.                          *)
LEMMA GoodKept ==
    ASSUME silent' = silent, server'.texts = server.texts,
           \A u \in Uris : Served!Announced(u) => Served!Announced(u)'
    PROVE  \A u \in Uris, text \in Nat : Good(u, text) => Good(u, text)'
BY DEF Good

(* The answers to reads, those in hand and those on their way, are fresh.  *)
LEMMA AnswersFresh ==
    ASSUME McpInv, NEW d \in {0, 1}, Shifts(d), Inherits,
           \A u \in Uris, text \in Nat :
               /\ \E p \in pending' : p.owner = "read" /\ p.uri = u /\ p.id # nextId
               /\ Fresh(u, text)
               => Fresh(u, text)'
    PROVE  /\ \A p \in pending' : p.owner = "read" /\ p.answer \in Nat => Fresh(p.uri, p.answer)'
           /\ \A i \in 1 .. Len(stream'), p \in pending' :
                stream'[i].kind = "answer" /\ stream'[i].id = p.id /\ p.owner = "read"
                    /\ stream'[i].value \in Nat => \A v : v = stream'[i].value => Fresh(p.uri, v)'
<1>0. McpTyped /\ TextInv /\ IdInv /\ WaitInv
  BY DEF McpInv
<1>1. ASSUME NEW p \in pending', p.owner = "read", p.answer \in Nat PROVE Fresh(p.uri, p.answer)'
  <2>1. PICK r \in pending : Inherited(p, r)
    BY <1>1, McpBounds DEF Inherits
  <2>2. /\ r.uri \in Uris /\ r.owner = "read" /\ p.uri = r.uri /\ p.id = r.id
        /\ r.id < nextId /\ r.id \in Nat /\ nextId \in Nat
    BY <1>0, <1>1, <2>1, McpFacts DEF WaitInv, Placed, Inherited, IdInv
  <2>3. Fresh(r.uri, p.answer)
    BY <1>0, <1>1, <2>1, <2>2 DEF TextInv, Inherited
  <2>4. p.id # nextId
    BY <2>2
  <2> QED
    BY <1>1, <2>2, <2>3, <2>4
<1>2. ASSUME NEW i \in 1 .. Len(stream'), NEW p \in pending', stream'[i].kind = "answer", stream'[i].id = p.id,
             p.owner = "read", stream'[i].value \in Nat, NEW m, m = stream'[i]
      PROVE  Fresh(p.uri, m.value)'
  <2>1. (i + d \in 1 .. Len(stream) /\ m = stream[i + d]) \/ Fits(m)
    BY <1>2 DEF Shifts
  <2>2. m.id < nextId
    BY <1>0, <1>2, <2>1 DEF IdInv, Fits
  <2>3. p.id # nextId
    BY <1>0, <1>2, <2>2, McpFacts
  <2>4. PICK r \in pending : Inherited(p, r)
    BY <2>3 DEF Inherits
  <2>5. r.uri \in Uris /\ r.owner = "read" /\ p.uri = r.uri /\ p.id = r.id
    BY <1>0, <1>2, <2>4 DEF WaitInv, Placed, Inherited
  <2>6. Fresh(r.uri, m.value)
    <3>1. CASE i + d \in 1 .. Len(stream) /\ m = stream[i + d]
      BY <1>0, <1>2, <2>5, <3>1 DEF TextInv
    <3>2. CASE Fits(m)
      <4>1. m.value = server.texts[r.uri]
        BY <1>2, <2>5, <3>2 DEF Fits
      <4>2. Good(r.uri, m.value)
        BY <1>0, <1>2, <2>5, <4>1, McpFacts DEF Good
      <4> QED
        BY <4>2 DEF Fresh
    <3> QED
      BY <2>1, <3>1, <3>2
  <2> QED
    BY <1>2, <2>3, <2>5, <2>6
<1> QED
  BY <1>1, <1>2

(* The part about texts, when cache, reads and epoch stay.                 *)
LEMMA TextKept ==
    ASSUME McpInv, NEW d \in {0, 1}, Shifts(d), Inherits,
           UNCHANGED <<cache, reads, epoch, versions>>,
           \A u \in Uris, text \in Nat : Good(u, text) => Good(u, text)'
    PROVE  TextInv'
<1>0. McpTyped /\ TextInv /\ IdInv /\ WaitInv
  BY DEF McpInv
<1>1. \A u \in Uris, text \in Nat : Good(u, text) => Good(u, text)'
  OBVIOUS
<1>2. \A u \in Uris, text \in Nat : Fresh(u, text) => Fresh(u, text)'
  BY <1>1 DEF Fresh, Served!Current
<1>3. ASSUME NEW i \in 1 .. Len(cache'), NEW u, NEW text, u = cache'[i].uri, text = cache'[i].text
      PROVE  Good(u, text)'
  <2>1. u \in Uris /\ text \in Nat /\ Good(u, text)
    BY <1>0, <1>3, McpFacts DEF TextInv
  <2> QED
    BY <1>1, <2>1
<1>4. \A u \in Uris : reads[u] # NoRead /\ reads[u].pc \in {"read", "subscribe"} =>
        /\ reads[u].epoch =< epoch
        /\ reads[u].epoch = epoch => reads[u].version =< versions[u]
        /\ reads[u].pc = "subscribe" => \A text : text = reads[u].text => Fresh(u, text)'
  <2>1. \A u \in Uris : reads[u] # NoRead => reads[u].text \in Nat
    BY <1>0, McpFacts, Shapes
  <2> QED
    BY <1>0, <1>2, <2>1 DEF TextInv
<1>5. /\ \A p \in pending' : p.owner = "read" /\ p.answer \in Nat => Fresh(p.uri, p.answer)'
      /\ \A i \in 1 .. Len(stream'), p \in pending' :
           stream'[i].kind = "answer" /\ stream'[i].id = p.id /\ p.owner = "read"
               /\ stream'[i].value \in Nat => \A v : v = stream'[i].value => Fresh(p.uri, v)'
  BY <1>2, AnswersFresh
<1>6. \A i, j \in 1 .. Len(cache) : cache[i].uri = cache[j].uri => i = j
  BY <1>0 DEF TextInv
<1>7. /\ \A i \in 1 .. Len(cache') : Good(cache[i].uri, cache[i].text)'
      /\ \A u \in Uris : reads'[u] # NoRead /\ reads'[u].pc = "subscribe" => Fresh(u, reads[u].text)'
  BY <1>3, <1>4
<1> QED
  BY <1>4, <1>5, <1>6, <1>7 DEF TextInv


(* A version of the tools stays known while its notices stay.              *)
LEMMA KnownKept ==
    ASSUME McpInv, NEW d \in {0, 1}, Shifts(d), d = 1 => stream[1].kind # "tools",
           unheard' = unheard, server'.tools = server.tools,
           \A j \in 1 .. Len(tasks) : tasks[j].notice.kind = "tools" =>
               j \in 1 .. Len(tasks') /\ tasks'[j].notice = tasks[j].notice
    PROVE  \A version \in Nat, k \in {0, 1} : Known(version, k) => Known(version, k)'
<1>0. McpTyped /\ Len(stream) \in Nat
  BY McpFacts DEF McpInv
<1>1. SUFFICES ASSUME NEW version \in Nat, NEW k \in {0, 1}, Known(version, k) PROVE Known(version, k)'
  OBVIOUS
<1>2. After(version, 0) => After(version, 0)'
  <2>1. SUFFICES ASSUME NEW j \in 1 .. Len(stream), stream[j].kind = "tools", stream[j].value > version
                 PROVE  After(version, 0)'
    BY DEF After
  <2>2. j > d
    BY <1>0, <2>1
  <2>3. j - d \in 1 .. Len(stream') /\ stream'[j - d] = stream[j] /\ j - d > 0
    BY <1>0, <2>2 DEF Shifts
  <2> QED
    BY <2>1, <2>3 DEF After
<1>3. Behind(version, k) => Behind(version, k)'
  BY DEF Behind
<1> QED
  BY <1>1, <1>2, <1>3 DEF Known

(* The tool lists in the answers, those in hand and those on their way.    *)
LEMMA AnswersKnown ==
    ASSUME McpInv, NEW d \in {0, 1}, Shifts(d), Inherits,
           \A version \in Nat, k \in {0, 1} :
               /\ k = 0 \/ \E p \in pending' : p.owner = "refresh"
               /\ Known(version, k)
               => Known(version, k)',
           server'.tools = server.tools
    PROVE  /\ \A p \in pending' : p.answer \in Nat =>
                /\ p.owner = "start" => Known(p.answer, 0)'
                /\ p.owner = "refresh" => Known(p.answer, 1)'
           /\ \A i \in 1 .. Len(stream'), p \in pending' :
                stream'[i].kind = "answer" /\ stream'[i].id = p.id /\ p.owner \in {"start", "refresh"}
                    /\ stream'[i].value \in Nat =>
                        \/ stream'[i].value = server'.tools
                        \/ \A v : v = stream'[i].value => After(v, i)'
<1>0. McpTyped /\ ToolInv /\ IdInv
  BY DEF McpInv
<1>1. ASSUME NEW p \in pending', p.answer \in Nat
      PROVE  /\ p.owner = "start" => Known(p.answer, 0)'
             /\ p.owner = "refresh" => Known(p.answer, 1)'
  <2>0. \A version \in Nat : /\ Known(version, 0) => Known(version, 0)'
                             /\ p.owner = "refresh" /\ Known(version, 1) => Known(version, 1)'
    OBVIOUS
  <2>1. PICK r \in pending : Inherited(p, r)
    BY <1>1, McpBounds DEF Inherits
  <2>2. CASE p.answer = r.answer
    BY <1>0, <1>1, <2>0, <2>1, <2>2 DEF ToolInv, Inherited
  <2>3. CASE \E i \in 1 .. Len(stream) : /\ stream[i].kind = "answer" /\ stream[i].id = p.id
                                         /\ stream[i].value = p.answer
    <3>1. PICK i \in 1 .. Len(stream) : /\ stream[i].kind = "answer" /\ stream[i].id = p.id
                                        /\ stream[i].value = p.answer
      BY <2>3
    <3>2. p.owner \in {"start", "refresh"} => p.answer = server.tools \/ After(p.answer, i)
      BY <1>0, <1>1, <2>1, <3>1 DEF ToolInv, Inherited
    <3>3. After(p.answer, i) => After(p.answer, 0)
      <4>1. \A j \in 1 .. Len(stream) : j > 0
        BY <1>0, McpFacts
      <4> QED
        BY <4>1 DEF After
    <3> QED
      BY <1>1, <2>0, <3>2, <3>3 DEF Known
  <2> QED
    BY <1>1, <2>1, <2>2, <2>3 DEF Inherited
<1>2. ASSUME NEW i \in 1 .. Len(stream'), NEW p \in pending', NEW m, m = stream'[i],
             m.kind = "answer", m.id = p.id, p.owner \in {"start", "refresh"}, m.value \in Nat
      PROVE  m.value = server'.tools \/ After(m.value, i)'
  <2>1. (i + d \in 1 .. Len(stream) /\ m = stream[i + d]) \/ Fits(m)
    BY <1>2 DEF Shifts
  <2>2. m.id < nextId
    BY <1>0, <1>2, <2>1 DEF IdInv, Fits
  <2>3. PICK r \in pending : Inherited(p, r)
    <3>1. p.id # nextId
      BY <1>0, <1>2, <2>2, McpFacts
    <3> QED
      BY <3>1 DEF Inherits
  <2>4. CASE i + d \in 1 .. Len(stream) /\ m = stream[i + d]
    <3>1. m.value = server.tools \/ After(m.value, i + d)
      BY <1>0, <1>2, <2>3, <2>4 DEF ToolInv, Inherited
    <3>2. After(m.value, i + d) => After(m.value, i)'
      <4>1. SUFFICES ASSUME NEW j \in 1 .. Len(stream), j > i + d, stream[j].kind = "tools",
                            stream[j].value > m.value
                     PROVE  After(m.value, i)'
        BY DEF After
      <4>2. j > d /\ j - d > i
        BY <1>0, <1>2, <4>1, McpFacts
      <4>3. j - d \in 1 .. Len(stream') /\ stream'[j - d] = stream[j]
        BY <4>2 DEF Shifts
      <4> QED
        BY <4>1, <4>2, <4>3 DEF After
    <3> QED
      BY <3>1, <3>2
  <2>5. CASE Fits(m)
    BY <1>2, <2>3, <2>5 DEF Fits, Inherited
  <2> QED
    BY <2>1, <2>4, <2>5
<1>3. \A i \in 1 .. Len(stream'), p \in pending' :
        stream'[i].kind = "answer" /\ stream'[i].id = p.id /\ p.owner \in {"start", "refresh"}
            /\ stream'[i].value \in Nat =>
                \/ stream'[i].value = server'.tools
                \/ \A v : v = stream'[i].value => After(v, i)'
  BY <1>2
<1> QED
  BY <1>1, <1>3

(* The part about tools, when what is registered stays.                    *)
LEMMA ToolKept ==
    ASSUME McpInv, NEW d \in {0, 1}, Shifts(d), Inherits,
           \A version \in Nat, k \in {0, 1} :
               /\ k = 0 \/ \E p \in pending' : p.owner = "refresh"
               /\ Known(version, k)
               => Known(version, k)',
           UNCHANGED <<tools, registered>>, server'.tools = server.tools,
           connection' = connection \/ connection' \notin {"started", "open"}
    PROVE  ToolInv'
<1>0. McpTyped /\ ToolInv
  BY DEF McpInv
<1>1. /\ connection' \in {"started", "open"} => Known(tools, 0)'
      /\ connection' = "open" => registered' = tools'
  <2>1. tools \in Nat
    BY <1>0, McpFacts
  <2>2. \A v \in Nat : v = tools /\ Known(v, 0) => Known(tools, 0)'
    OBVIOUS
  <2> QED
    BY <1>0, <2>1, <2>2 DEF ToolInv
<1>2. /\ \A p \in pending' : p.answer \in Nat =>
           /\ p.owner = "start" => Known(p.answer, 0)'
           /\ p.owner = "refresh" => Known(p.answer, 1)'
      /\ \A i \in 1 .. Len(stream'), p \in pending' :
           stream'[i].kind = "answer" /\ stream'[i].id = p.id /\ p.owner \in {"start", "refresh"}
               /\ stream'[i].value \in Nat =>
                   \/ stream'[i].value = server'.tools
                   \/ \A v : v = stream'[i].value => After(v, i)'
  BY AnswersKnown
<1> QED
  BY <1>1, <1>2 DEF ToolInv

(* The part about tool notices, when none is added.                        *)
LEMMA NoticeKept ==
    ASSUME McpInv, NEW d \in {0, 1}, Shifts(d), unheard' = unheard, server'.tools = server.tools,
           \A i \in 1 .. Len(stream') : i + d \in 1 .. Len(stream) \/ stream'[i].kind # "tools",
           \A j \in 1 .. Len(tasks') : tasks'[j].notice.kind = "tools" =>
               \E k \in 1 .. Len(tasks) : tasks[k].notice = tasks'[j].notice
    PROVE  NoticeInv'
<1>0. McpTyped /\ NoticeInv /\ Len(stream) \in Nat
  BY McpFacts DEF McpInv
<1>1. ASSUME NEW i \in 1 .. Len(stream'), stream'[i].kind = "tools"
      PROVE  i + d \in 1 .. Len(stream) /\ stream'[i] = stream[i + d]
  BY <1>0, <1>1 DEF Shifts
<1>2. \A i \in 1 .. Len(stream') : stream'[i].kind = "tools" =>
        unheard < stream'[i].value /\ stream'[i].value =< server.tools
  BY <1>0, <1>1 DEF NoticeInv
<1>3. ASSUME NEW i \in 1 .. Len(stream'), NEW j \in 1 .. Len(stream'),
             i < j, stream'[i].kind = "tools", stream'[j].kind = "tools"
      PROVE  stream'[i].value < stream'[j].value
  <2>1. /\ i + d \in 1 .. Len(stream) /\ stream'[i] = stream[i + d]
        /\ j + d \in 1 .. Len(stream) /\ stream'[j] = stream[j + d]
    BY <1>1, <1>3
  <2>2. i + d < j + d
    BY <1>3
  <2> QED
    BY <1>0, <1>3, <2>1, <2>2 DEF NoticeInv
<1>4. ASSUME NEW j \in 1 .. Len(tasks'), tasks'[j].notice.kind = "tools"
      PROVE  /\ tasks'[j].notice.value =< server.tools
             /\ \A i \in 1 .. Len(stream') : stream'[i].kind = "tools" => tasks'[j].notice.value < stream'[i].value
  <2>1. PICK k \in 1 .. Len(tasks) : tasks[k].notice = tasks'[j].notice
    BY <1>4
  <2> QED
    BY <1>0, <1>1, <1>4, <2>1 DEF NoticeInv
<1> QED
  BY <1>2, <1>3, <1>4 DEF NoticeInv

(* The part about request ids, when a request is the newest.               *)
LEMMA IdKept ==
    ASSUME McpInv, NEW d \in {0, 1}, Shifts(d), Inherits, nextId' \in Nat, nextId =< nextId',
           \A p \in pending' : p.id < nextId', Sole', OneAnswer',
           \A q \in requests' :
               \/ q \in requests
               \/ /\ q.id = nextId /\ nextId < nextId' /\ (q.owner \in {"read", "subscribe"} => q.uri \in Uris)
                  /\ \A p \in pending' : p.id = nextId => p.owner = q.owner /\ p.uri = q.uri
    PROVE  IdInv'
<1>0. McpTyped /\ IdInv /\ nextId \in Nat
  BY McpFacts DEF McpInv
<1>1. ASSUME NEW q \in requests'
      PROVE  /\ q.id < nextId' /\ (q.owner \in {"read", "subscribe"} => q.uri \in Uris)
             /\ \A p \in pending' : p.id = q.id => p.owner = q.owner /\ p.uri = q.uri
  <2>1. CASE q \in requests
    <3>1. q.id < nextId /\ q.id \in Nat /\ (q.owner \in {"read", "subscribe"} => q.uri \in Uris)
      BY <1>0, <2>1, McpFacts DEF IdInv
    <3>2. ASSUME NEW p \in pending', p.id = q.id PROVE p.owner = q.owner /\ p.uri = q.uri
      <4>1. p.id # nextId
        BY <1>0, <3>1, <3>2
      <4>2. PICK r \in pending : Inherited(p, r)
        BY <4>1 DEF Inherits
      <4> QED
        BY <1>0, <2>1, <3>2, <4>2 DEF IdInv, Inherited
    <3> QED
      BY <1>0, <3>1, <3>2
  <2>2. CASE q \notin requests
    BY <1>0, <2>2
  <2> QED
    BY <2>1, <2>2
<1>2. ASSUME NEW i \in 1 .. Len(stream')
      PROVE  /\ stream'[i].kind = "answer" => stream'[i].id < nextId'
             /\ stream'[i].kind = "updated" => stream'[i].uri \in Uris
  <2>1. \/ i + d \in 1 .. Len(stream) /\ stream'[i] = stream[i + d]
        \/ Fits(stream'[i])
    BY DEF Shifts
  <2>2. CASE i + d \in 1 .. Len(stream) /\ stream'[i] = stream[i + d]
    <3>1. stream[i + d].kind = "answer" => stream[i + d].id \in Nat /\ stream[i + d].id < nextId
      BY <1>0, <2>2, McpFacts DEF IdInv
    <3>2. stream[i + d].kind = "updated" => stream[i + d].uri \in Uris
      BY <1>0, <2>2 DEF IdInv
    <3> QED
      BY <1>0, <2>2, <3>1, <3>2
  <2>3. CASE Fits(stream'[i])
    BY <1>0, <2>3 DEF Fits
  <2> QED
    BY <2>1, <2>2, <2>3
<1> QED
  BY <1>1, <1>2 DEF IdInv

(* What a request, and a resumed owner, do to those that wait.             *)
LEMMA LessWait ==
    ASSUME McpInv, pending' \subseteq pending, requests' \subseteq requests, nextId' = nextId
    PROVE  /\ pending' \subseteq Asked /\ requests' \subseteq Served!Request
           /\ Inherits /\ Sole' /\ OneAnswer' /\ nextId' \in Nat /\ nextId =< nextId'
           /\ \A p \in pending' : p.id < nextId'
           /\ \A q \in requests' : q \in requests
<1>0. McpTyped /\ IdInv /\ nextId \in Nat
  BY McpFacts DEF McpInv
<1>1. Inherits
  BY DEF Inherits, Inherited
<1>2. Sole' /\ OneAnswer' /\ \A p \in pending' : p.id < nextId'
  BY <1>0 DEF IdInv, Sole, OneAnswer
<1> QED
  BY <1>0, <1>1, <1>2 DEF McpTyped

(* What is asked after a request is sent.                                  *)
LEMMA SendsFacts ==
    ASSUME McpInv, NEW owner \in Askers, NEW uri \in Uris \cup {NoRead}, NEW answered,
           Served!Sends(owner, uri, answered),
           \A p \in pending : p.owner = owner /\ p.uri = uri => p \in answered,
           owner \in {"read", "subscribe"} => uri \in Uris
    PROVE  /\ pending' \subseteq Asked /\ requests' \subseteq Served!Request
           /\ Inherits /\ Sole' /\ OneAnswer' /\ nextId' \in Nat /\ nextId =< nextId' /\ nextId < nextId'
           /\ \A p \in pending' : /\ p.id < nextId'
                                  /\ \/ p \in pending /\ p \notin answered
                                     \/ p.id = nextId /\ p.owner = owner /\ p.uri = uri /\ p.answer = Unanswered
           /\ \A q \in requests' :
               \/ q \in requests
               \/ /\ q.id = nextId /\ nextId < nextId' /\ (q.owner \in {"read", "subscribe"} => q.uri \in Uris)
                  /\ \A p \in pending' : p.id = nextId => p.owner = q.owner /\ p.uri = q.uri
<1> DEFINE new == [id |-> nextId, owner |-> owner, uri |-> uri, answer |-> Unanswered]
           asks == [id |-> nextId, owner |-> owner, uri |-> uri]
<1>0. McpTyped /\ IdInv /\ nextId \in Nat
  BY McpFacts DEF McpInv
<1>1. /\ nextId \in 1 .. MaxId /\ nextId' = nextId + 1
      /\ pending' = (pending \ answered) \cup {new}
      /\ requests' \subseteq requests \cup {asks}
  <2>1. nextId =< MaxId /\ nextId' = nextId + 1 /\ pending' = (pending \ answered) \cup {new}
    BY DEF Served!Sends
  <2>2. requests' \subseteq requests \cup {asks}
    BY DEF Served!Sends
  <2>3. nextId # 0
    BY <1>0 DEF McpInv, McpTyped
  <2> QED
    BY <1>0, <2>1, <2>2, <2>3, McpBounds
<1>2. /\ new \in Asked /\ new.id = nextId /\ new.owner = owner /\ new.uri = uri /\ new.answer = Unanswered
      /\ asks \in Served!Request /\ asks.id = nextId /\ asks.owner = owner /\ asks.uri = uri
  BY <1>1 DEF Asked, Served!Request, Askers
<1> HIDE DEF new, asks
<1>3. \A p \in pending' : (p \in pending /\ p \notin answered /\ p.id < nextId /\ p.id \in Nat) \/ p = new
  BY <1>0, <1>1, McpFacts DEF IdInv
<1>4. pending' \subseteq Asked /\ requests' \subseteq Served!Request
  BY <1>0, <1>1, <1>2 DEF McpTyped
<1>5. Inherits
  BY <1>2, <1>3 DEF Inherits, Inherited
<1>6. Sole'
  BY <1>0, <1>2, <1>3 DEF IdInv, Sole
<1>7. OneAnswer'
  BY <1>0, <1>2, <1>3, McpBounds DEF IdInv, OneAnswer
<1>8. \A q \in requests' : q \in requests \/ q = asks
  BY <1>1
<1>9. nextId' \in Nat /\ nextId < nextId' /\ nextId =< nextId'
  BY <1>0, <1>1
<1>10. \A p \in pending' : p.id = nextId => p = new
  BY <1>0, <1>3
<1>11. \A p \in pending' : /\ p.id < nextId'
                           /\ \/ p \in pending /\ p \notin answered
                              \/ p.id = nextId /\ p.owner = owner /\ p.uri = uri /\ p.answer = Unanswered
  BY <1>0, <1>1, <1>2, <1>3
<1>12. \A q \in requests' :
         \/ q \in requests
         \/ /\ q.id = nextId /\ nextId < nextId' /\ (q.owner \in {"read", "subscribe"} => q.uri \in Uris)
            /\ \A p \in pending' : p.id = nextId => p.owner = q.owner /\ p.uri = q.uri
  BY <1>2, <1>8, <1>9, <1>10
<1> QED
  BY <1>4, <1>5, <1>6, <1>7, <1>9, <1>11, <1>12

(* What is asked after an answer is handed over.                           *)
LEMMA ResolveFacts ==
    ASSUME McpInv, NEW p \in pending, NEW v \in Texts \cup {Failed}, Served!Resolve(p, v),
           UNCHANGED <<nextId, requests>>,
           \/ v \notin Nat
           \/ /\ \A r \in pending : r.answer = Unanswered
              /\ \E i \in 1 .. Len(stream) : /\ stream[i].kind = "answer" /\ stream[i].id = p.id
                                             /\ stream[i].value = v
    PROVE  /\ pending' \subseteq Asked /\ requests' \subseteq Served!Request
           /\ Inherits /\ Sole' /\ OneAnswer' /\ nextId' \in Nat /\ nextId =< nextId'
           /\ \A r \in pending' : /\ r.id < nextId'
                                  /\ \E q \in pending : r.id = q.id /\ r.owner = q.owner /\ r.uri = q.uri
           /\ \A q \in requests' : q \in requests
<1> DEFINE new == [p EXCEPT !.answer = v]
<1>0. McpTyped /\ IdInv /\ nextId \in Nat /\ p \in Asked
  BY McpFacts DEF McpInv
<1>1. pending' = (pending \ {p}) \cup {new}
  BY DEF Served!Resolve
<1>2. /\ new \in Asked /\ new.id = p.id /\ new.owner = p.owner /\ new.uri = p.uri /\ new.answer = v
  BY <1>0 DEF Asked
<1> HIDE DEF new
<1>3. \A r \in pending' : (r \in pending /\ r # p) \/ r = new
  BY <1>1
<1>4. Inherits
  <2>1. \A r \in pending : Inherited(r, r)
    BY DEF Inherited
  <2>2. Inherited(new, p)
    BY <1>2 DEF Inherited
  <2> QED
    BY <1>3, <2>1, <2>2 DEF Inherits
<1>5. Sole'
  BY <1>0, <1>2, <1>3 DEF IdInv, Sole
<1>6. OneAnswer'
  BY <1>0, <1>2, <1>3, McpBounds DEF IdInv, OneAnswer
<1>7. \A r \in pending' : /\ r.id < nextId'
                          /\ \E q \in pending : r.id = q.id /\ r.owner = q.owner /\ r.uri = q.uri
  BY <1>0, <1>2, <1>3 DEF IdInv
<1> QED
  BY <1>0, <1>1, <1>2, <1>4, <1>5, <1>6, <1>7 DEF McpTyped

(* The tasks, and where the requests belong.                               *)
LEMMA WaitKept ==
    ASSUME McpInv, UNCHANGED <<reads, tasks>>,
           connection' = connection \/ (connection' \in {"init", "list"}),
           \A p \in pending' : \/ \E r \in pending : p.owner = r.owner /\ p.uri = r.uri
                               \/ p.owner = "start" /\ p.uri = NoRead /\ connection' \in {"init", "list"}
    PROVE  WaitInv'
<1>1. WaitInv
  BY DEF McpInv
<1>2. \A p \in pending' : Placed(p)'
  BY <1>1 DEF WaitInv, Placed
<1> QED
  BY <1>1, <1>2 DEF WaitInv

(* A change is still announced when no notice of it is lost.               *)
LEMMA AnnouncedKept ==
    ASSUME McpTyped, McpTyped', NEW d \in {0, 1}, Shifts(d),
           d = 1 => stream[1].kind \notin {"resources", "updated"},
           \A j \in 1 .. Len(tasks) :
               \E k \in 1 .. Len(tasks') : /\ tasks'[k].notice = tasks[j].notice
                                           /\ tasks'[k].asked = tasks[j].asked \/ tasks[j].notice.kind = "tools"
    PROVE  \A u \in Uris : Served!Announced(u) => Served!Announced(u)'
<1>0. /\ Len(stream) \in Nat /\ DOMAIN stream = 1 .. Len(stream) /\ DOMAIN stream' = 1 .. Len(stream')
      /\ DOMAIN tasks = 1 .. Len(tasks) /\ DOMAIN tasks' = 1 .. Len(tasks')
  BY DEF McpTyped
<1>1. SUFFICES ASSUME NEW u \in Uris, Served!Announced(u) PROVE Served!Announced(u)'
  OBVIOUS
<1>2. CASE \E i \in 1 .. Len(stream) : \/ stream[i].kind = "resources"
                                       \/ stream[i].kind = "updated" /\ stream[i].uri = u
  <2>1. PICK i \in 1 .. Len(stream) : \/ stream[i].kind = "resources"
                                      \/ stream[i].kind = "updated" /\ stream[i].uri = u
    BY <1>2
  <2>2. i > d
    BY <1>0, <2>1
  <2>3. i - d \in 1 .. Len(stream') /\ stream'[i - d] = stream[i]
    BY <2>2 DEF Shifts
  <2> QED
    BY <1>0, <2>1, <2>3 DEF Served!Announced
<1>3. CASE \E i \in 1 .. Len(tasks) :
             \/ tasks[i].notice.kind = "resources" /\ ~tasks[i].asked
             \/ tasks[i].notice.kind = "updated" /\ tasks[i].notice.uri = u
  <2>1. PICK i \in 1 .. Len(tasks) :
             \/ tasks[i].notice.kind = "resources" /\ ~tasks[i].asked
             \/ tasks[i].notice.kind = "updated" /\ tasks[i].notice.uri = u
    BY <1>3
  <2>2. PICK k \in 1 .. Len(tasks') : /\ tasks'[k].notice = tasks[i].notice
                                      /\ tasks'[k].asked = tasks[i].asked \/ tasks[i].notice.kind = "tools"
    OBVIOUS
  <2>3. \/ tasks'[k].notice.kind = "resources" /\ ~tasks'[k].asked
        \/ tasks'[k].notice.kind = "updated" /\ tasks'[k].notice.uri = u
    BY <2>1, <2>2
  <2> QED
    BY <1>0, <2>3 DEF Served!Announced
<1> QED
  BY <1>0, <1>1, <1>2, <1>3 DEF Served!Announced

(* A connection starts, ...                                                *)
LEMMA ConnectKept ==
    ASSUME McpInv, Served!Start
    PROVE  McpInv'
<1> DEFINE new == [id |-> nextId, owner |-> "start", uri |-> NoRead, answer |-> Unanswered]
           asks == [id |-> nextId, owner |-> "start", uri |-> NoRead]
<1>0. McpTyped /\ Grown /\ ShutInv /\ NoticeInv /\ nextId \in Nat /\ nextId # 0
  BY DEF McpInv, McpTyped
<1>1. /\ connection = "closed" /\ nextId =< MaxId /\ connection' = "init" /\ nextId' = nextId + 1
      /\ server' = [server EXCEPT !.up = TRUE] /\ reading' = TRUE
      /\ pending' = {new} /\ requests' = {asks}
      /\ UNCHANGED <<stream, tasks, tools, registered, cache, reads, orphans, epoch, versions,
                     subscriptions, changes, silent, unheard>>
  BY DEF Served!Start, Served!content
<1>2. /\ stream = <<>> /\ tasks = <<>> /\ cache = <<>> /\ subscriptions = {} /\ registered = 0
      /\ \A u \in Uris : reads[u] = NoRead
  BY <1>0, <1>1 DEF ShutInv
<1>3. new \in Asked /\ asks \in Served!Request /\ nextId' \in Nat /\ nextId' # 0
  <2>1. nextId \in 1 .. MaxId
    BY <1>0, <1>1, McpBounds
  <2> QED
    BY <1>0, <1>1, <2>1 DEF Asked, Served!Request, Askers
<1>4. /\ server' \in [up : BOOLEAN, texts : [Uris -> Texts], tools : Texts, subs : SUBSET Uris]
      /\ server'.texts = server.texts /\ server'.tools = server.tools
  BY <1>0, <1>1 DEF McpTyped
<1>5. McpTyped'
  BY <1>0, <1>1, <1>3, <1>4 DEF McpTyped, Phases
<1>6. Grown' /\ ShutInv'
  BY <1>0, <1>1, <1>2, <1>4 DEF Grown, ShutInv
<1>7. IdInv'
  <2>1. \A p \in pending' : p = new
    BY <1>1
  <2>2. /\ \A q \in requests' : q.id = nextId /\ q.owner = "start" /\ q.uri = NoRead
        /\ new.id = nextId /\ new.owner = "start" /\ new.uri = NoRead /\ nextId < nextId'
    BY <1>0, <1>1
  <2>3. Len(stream') = 0
    BY <1>1, <1>2
  <2> HIDE DEF new
  <2> QED
    BY <2>1, <2>2, <2>3 DEF IdInv, Sole, OneAnswer
<1>8. WaitInv'
  <2>1. \A p \in pending' : p.owner = "start" /\ p.uri = NoRead
    BY <1>1
  <2> QED
    BY <1>1, <1>2, <2>1 DEF WaitInv, Placed
<1>9. TextInv' /\ ToolInv'
  <2>1. \A p \in pending' : p.owner = "start" /\ p.answer \notin Nat
    BY <1>1, McpBounds
  <2> QED
    BY <1>1, <1>2, <2>1 DEF TextInv, ToolInv
<1>10. NoticeInv'
  BY <1>1, <1>2 DEF NoticeInv
<1> QED
  BY <1>5, <1>6, <1>7, <1>8, <1>9, <1>10 DEF McpInv

(* The client closes.                                                      *)
LEMMA CloseKept ==
    ASSUME McpInv, Served!Close
    PROVE  McpInv'
<1>0. McpTyped /\ Grown /\ epoch \in Nat
  BY DEF McpInv, McpTyped
<1>1. /\ connection' = "closed" /\ registered' = 0
      /\ server' = [server EXCEPT !.up = FALSE, !.subs = {}]
      /\ requests' = {} /\ stream' = <<>> /\ reading' = FALSE /\ pending' = {} /\ tasks' = <<>>
      /\ cache' = <<>> /\ epoch' = epoch + 1 /\ versions' = [u \in Uris |-> 0] /\ subscriptions' = {}
      /\ reads' = [u \in Uris |-> NoRead] /\ orphans' = {}
      /\ UNCHANGED <<nextId, tools, changes, silent, unheard>>
  BY DEF Served!Close, Served!bounds, Served!ReadsCancelled
<1>2. /\ server' \in [up : BOOLEAN, texts : [Uris -> Texts], tools : Texts, subs : SUBSET Uris]
      /\ server'.texts = server.texts /\ server'.tools = server.tools /\ ~server'.up
  BY <1>0, <1>1 DEF McpTyped
<1>3. McpTyped'
  <2>1. /\ stream' \in Seq(Answer \cup Served!Notice) /\ tasks' \in Seq(Task) /\ cache' \in Seq(Cached)
        /\ Len(tasks') =< MaxTasks /\ Len(cache') =< MaxCached
    BY <1>1, McpBounds
  <2>2. /\ registered' \in Texts /\ epoch' \in Nat /\ versions' \in [Uris -> Nat]
        /\ reads' \in [Uris -> Served!Read \cup {NoRead}] /\ connection' \in Phases
    BY <1>0, <1>1, McpBounds DEF Phases
  <2> QED
    BY <1>0, <1>1, <1>2, <2>1, <2>2 DEF McpTyped
<1>4. Grown' /\ ShutInv'
  BY <1>0, <1>1, <1>2 DEF Grown, ShutInv
<1>5. IdInv' /\ WaitInv' /\ TextInv' /\ ToolInv' /\ NoticeInv'
  BY <1>1 DEF IdInv, Sole, OneAnswer, WaitInv, TextInv, ToolInv, NoticeInv
<1> QED
  BY <1>3, <1>4, <1>5 DEF McpInv

(* ... gets its first answer and its tools, and is registered.             *)
LEMMA ServedInitializedKept ==
    ASSUME McpInv, Served!Initialized
    PROVE  McpInv'
<1>0. McpTyped /\ Grown /\ ShutInv /\ IdInv /\ WaitInv /\ stream \in Seq(Answer \cup Served!Notice)
  BY DEF McpInv, McpTyped
<1>1. /\ connection = "init" /\ connection' = "list"
      /\ UNCHANGED <<server, stream, reading, tasks, tools, registered, cache, reads, orphans, epoch,
                     versions, subscriptions, changes, silent, unheard>>
  BY DEF Served!Initialized, Served!content, Served!bounds
<1>2. PICK p \in Served!Answered("start", NoRead) : Served!Sends("start", NoRead, {p})
  BY DEF Served!Initialized
<1>3. p \in pending /\ p.owner = "start" /\ p.uri = NoRead
  BY <1>2 DEF Served!Answered
<1>4. /\ pending' \subseteq Asked /\ requests' \subseteq Served!Request
      /\ Inherits /\ Sole' /\ OneAnswer' /\ nextId' \in Nat /\ nextId =< nextId' /\ nextId < nextId'
      /\ \A r \in pending' : /\ r.id < nextId'
                             /\ \/ r \in pending /\ r \notin {p}
                                \/ r.id = nextId /\ r.owner = "start" /\ r.uri = NoRead /\ r.answer = Unanswered
      /\ \A q \in requests' :
           \/ q \in requests
           \/ /\ q.id = nextId /\ nextId < nextId' /\ (q.owner \in {"read", "subscribe"} => q.uri \in Uris)
              /\ \A r \in pending' : r.id = nextId => r.owner = q.owner /\ r.uri = q.uri
  <2>1. \A r \in pending : r.owner = "start" /\ r.uri = NoRead => r \in {p}
    BY <1>0, <1>3 DEF IdInv, Sole
  <2>2. "start" \in Askers /\ NoRead \in Uris \cup {NoRead}
    BY DEF Askers
  <2> QED
    BY <1>2, <2>1, <2>2, SendsFacts
<1>5. Shifts(0)
  BY <1>0, <1>1, StreamStays
<1>6. McpTyped'
  <2>1. nextId' # 0
    BY <1>0, <1>4, McpBounds DEF McpTyped
  <2> QED
    BY <1>0, <1>1, <1>4, <2>1 DEF McpTyped, Phases
<1>7. Grown' /\ ShutInv'
  BY <1>0, <1>1 DEF Grown, ShutInv
<1>8. IdInv'
  BY <1>4, <1>5, IdKept
<1>9. WaitInv'
  BY <1>1, <1>4, WaitKept
<1>10. TextInv' /\ NoticeInv'
  <2>1. \A u \in Uris : Served!Announced(u) => Served!Announced(u)'
    BY <1>1 DEF Served!Announced
  <2>2. TextInv'
    BY <1>1, <1>4, <1>5, <2>1, GoodKept, TextKept
  <2>3. NoticeInv'
    BY <1>0, <1>1 DEF McpInv, NoticeInv
  <2> QED
    BY <2>2, <2>3
<1>11. ToolInv'
  <2>1. \A version \in Nat, k \in {0, 1} : Known(version, k) => Known(version, k)'
    BY <1>1 DEF Known, After, Behind
  <2> QED
    BY <1>1, <1>4, <1>5, <2>1, ToolKept
<1> QED
  BY <1>6, <1>7, <1>8, <1>9, <1>10, <1>11 DEF McpInv

(* The tools have been listed.                                             *)
LEMMA ListedKept ==
    ASSUME McpInv, Served!Listed
    PROVE  McpInv'
<1>0. /\ McpTyped /\ Grown /\ ShutInv /\ IdInv /\ WaitInv /\ ToolInv
      /\ stream \in Seq(Answer \cup Served!Notice)
  BY DEF McpInv, McpTyped
<1>1. /\ connection = "list" /\ connection' = "started"
      /\ UNCHANGED <<server, stream, reading, tasks, registered, cache, reads, orphans, epoch,
                     versions, subscriptions, changes, silent, unheard>>
  BY DEF Served!Listed, Served!content, Served!bounds
<1>2. PICK p \in Served!Answered("start", NoRead) :
          p.answer # Failed /\ Served!Resumes({p}) /\ tools' = p.answer
  BY DEF Served!Listed
<1>3. /\ p \in pending /\ p.owner = "start" /\ p.uri = NoRead /\ p.answer # Unanswered
      /\ pending' = pending \ {p} /\ UNCHANGED <<nextId, requests>>
  BY <1>2 DEF Served!Answered, Served!Resumes
<1>4. /\ pending' \subseteq Asked /\ requests' \subseteq Served!Request
      /\ Inherits /\ Sole' /\ OneAnswer' /\ nextId' \in Nat /\ nextId =< nextId'
      /\ \A r \in pending' : r.id < nextId'
      /\ \A q \in requests' : q \in requests
  BY <1>3, LessWait
<1>5. Shifts(0)
  BY <1>0, <1>1, StreamStays
<1>6. tools' \in Texts /\ tools' \in Nat
  BY <1>0, <1>2, <1>3, McpFacts, McpBounds
<1>7. McpTyped'
  BY <1>0, <1>1, <1>3, <1>4, <1>6 DEF McpTyped, Phases
<1>8. Grown' /\ ShutInv'
  BY <1>0, <1>1 DEF Grown, ShutInv
<1>9. IdInv'
  BY <1>4, <1>5, IdKept
<1>10. WaitInv'
  <2>1. \A r \in pending' : r \in pending /\ r.owner # "start"
    BY <1>0, <1>3 DEF IdInv, Sole, WaitInv, Placed
  <2> QED
    BY <1>0, <1>1, <2>1 DEF WaitInv, Placed
<1>11. TextInv' /\ NoticeInv'
  <2>1. \A u \in Uris : Served!Announced(u) => Served!Announced(u)'
    BY <1>1 DEF Served!Announced
  <2>2. TextInv'
    BY <1>1, <1>4, <1>5, <2>1, GoodKept, TextKept
  <2>3. NoticeInv'
    BY <1>0, <1>1 DEF McpInv, NoticeInv
  <2> QED
    BY <2>2, <2>3
<1>12. ToolInv'
  <2>1. \A version \in Nat, k \in {0, 1} : Known(version, k) => Known(version, k)'
    BY <1>1 DEF Known, After, Behind
  <2>2. \A v : v = p.answer => Known(v, 0)'
    BY <1>0, <1>2, <1>3, <1>6, <2>1 DEF ToolInv
  <2>3. \A r \in pending' : r \in pending
    BY <1>3
  <2>4. Known(tools, 0)'
    BY <1>2, <2>2
  <2>5. \A r \in pending' : r.answer \in Nat =>
          /\ r.owner = "start" => Known(r.answer, 0)'
          /\ r.owner = "refresh" => Known(r.answer, 1)'
    BY <1>0, <2>1, <2>3 DEF ToolInv
  <2>6. \A i \in 1 .. Len(stream), r \in pending' :
          stream[i].kind = "answer" /\ stream[i].id = r.id /\ r.owner \in {"start", "refresh"}
              /\ stream[i].value \in Nat =>
                  stream[i].value = server.tools \/ After(stream[i].value, i)
    BY <1>0, <2>3 DEF ToolInv
  <2> QED
    BY <1>1, <2>4, <2>5, <2>6 DEF ToolInv, After
<1> QED
  BY <1>7, <1>8, <1>9, <1>10, <1>11, <1>12 DEF McpInv

(* The tools are registered.                                               *)
LEMMA RegistersKept ==
    ASSUME McpInv, Served!Registers
    PROVE  McpInv'
<1>0. McpTyped /\ Grown /\ ShutInv /\ IdInv /\ WaitInv /\ ToolInv /\ TextInv /\ NoticeInv
  BY DEF McpInv
<1>1. /\ connection = "started" /\ connection' = "open" /\ registered' = tools
      /\ UNCHANGED <<server, requests, stream, reading, nextId, pending, tasks, tools, cache, reads,
                     orphans, epoch, versions, subscriptions, changes, silent, unheard>>
  BY DEF Served!Registers, Served!content, Served!bounds, Served!wire, Served!rpc
<1>2. McpTyped'
  BY <1>0, <1>1 DEF McpTyped, Phases
<1>3. Grown' /\ ShutInv'
  BY <1>0, <1>1 DEF Grown, ShutInv
<1>4. IdInv' /\ NoticeInv'
  BY <1>0, <1>1 DEF IdInv, Sole, OneAnswer, NoticeInv
<1>5. WaitInv'
  BY <1>0, <1>1 DEF WaitInv, Placed
<1>6. TextInv'
  BY <1>0, <1>1 DEF TextInv, Good, Fresh, Served!Current, Served!Announced
<1>7. ToolInv'
  BY <1>0, <1>1 DEF ToolInv, Known, After, Behind
<1> QED
  BY <1>2, <1>3, <1>4, <1>5, <1>6, <1>7 DEF McpInv

(* The server answers, ...                                                 *)
LEMMA AnswersKept ==
    ASSUME McpInv, Served!Answers
    PROVE  McpInv'
<1>0. McpTyped /\ Grown /\ ShutInv /\ IdInv /\ WaitInv
  BY DEF McpInv
<1>1. PICK q \in requests :
        /\ server.up /\ requests' = requests \ {q}
        /\ \E value \in {Failed, CASE q.owner = "read" -> server.texts[q.uri]
                                   [] q.owner \in {"start", "refresh"} -> server.tools
                                   [] q.owner = "subscribe" -> 0} :
               /\ stream' = Append(stream, [kind |-> "answer", id |-> q.id, value |-> value])
               /\ server' = IF q.owner = "subscribe" /\ value # Failed
                            THEN [server EXCEPT !.subs = @ \cup {q.uri}] ELSE server
        /\ UNCHANGED <<reading, connection, nextId, pending, tasks, tools, registered, cache, reads,
                       orphans, epoch, versions, subscriptions, changes, silent, unheard>>
  BY DEF Served!Answers, Served!content, Served!rpc
<1>2. PICK value \in {Failed, CASE q.owner = "read" -> server.texts[q.uri]
                                [] q.owner \in {"start", "refresh"} -> server.tools
                                [] q.owner = "subscribe" -> 0} :
        /\ stream' = Append(stream, [kind |-> "answer", id |-> q.id, value |-> value])
        /\ server' = IF q.owner = "subscribe" /\ value # Failed
                     THEN [server EXCEPT !.subs = @ \cup {q.uri}] ELSE server
  BY <1>1
<1> DEFINE m == [kind |-> "answer", id |-> q.id, value |-> value]
<1>3. /\ q \in Served!Request /\ q.id \in 1 .. MaxId /\ q.id \in Nat /\ q.owner \in Askers /\ q.id < nextId
      /\ q.owner \in {"read", "subscribe"} => q.uri \in Uris
      /\ \A p \in pending : p.id = q.id => p.owner = q.owner /\ p.uri = q.uri
  BY <1>0, Shapes DEF McpTyped, IdInv
<1>4. value \in Texts \cup {Failed}
  <2>1. server.tools \in Texts /\ (q.owner = "read" => server.texts[q.uri] \in Texts) /\ 0 \in Texts
    BY <1>0, <1>3, McpFacts, McpBounds DEF McpTyped
  <2> QED
    BY <1>2, <1>3, <2>1 DEF Askers
<1>5. value \in Nat => /\ q.owner = "read" => value = server.texts[q.uri]
                       /\ q.owner \in {"start", "refresh"} => value = server.tools
  BY <1>2, McpBounds
<1>6. m \in Answer \cup Served!Notice /\ m.kind = "answer" /\ m.id = q.id /\ m.value = value
  BY <1>3, <1>4 DEF Answer
<1> HIDE DEF m
<1>7. Fits(m)
  BY <1>3, <1>5, <1>6 DEF Fits
<1>8. /\ Shifts(0) /\ stream' \in Seq(Answer \cup Served!Notice)
      /\ Len(stream') = Len(stream) + 1 /\ stream'[Len(stream) + 1] = m /\ Len(stream) \in Nat
      /\ \A i \in 1 .. Len(stream) : i \in 1 .. Len(stream') /\ stream'[i] = stream[i]
      /\ \A i \in 1 .. Len(stream') : i \in 1 .. Len(stream) \/ (i = Len(stream) + 1 /\ stream'[i] = m)
  <2>1. stream' = Append(stream, m)
    BY <1>2 DEF m
  <2> QED
    BY <1>0, <1>6, <1>7, <2>1, StreamGrows
<1>9. /\ server' \in [up : BOOLEAN, texts : [Uris -> Texts], tools : Texts, subs : SUBSET Uris]
      /\ server'.texts = server.texts /\ server'.tools = server.tools /\ server'.up = server.up
  BY <1>0, <1>2, <1>3 DEF McpTyped
<1>10. /\ Inherits /\ Sole' /\ OneAnswer' /\ nextId' \in Nat /\ nextId =< nextId'
       /\ \A r \in pending' : r.id < nextId'
       /\ \A r \in requests' : r \in requests
       /\ requests' \subseteq Served!Request
  BY <1>1, LessWait
<1>11. McpTyped'
  BY <1>0, <1>1, <1>8, <1>9, <1>10 DEF McpTyped
<1>12. Grown' /\ ShutInv'
  BY <1>0, <1>1, <1>9 DEF Grown, ShutInv
<1>13. IdInv'
  BY <1>8, <1>10, IdKept
<1>14. WaitInv'
  BY <1>1, WaitKept
<1>15. TextInv'
  <2>1. \A u \in Uris : Served!Announced(u) => Served!Announced(u)'
    BY <1>0, <1>1, <1>8, <1>11, AnnouncedKept
  <2> QED
    BY <1>1, <1>8, <1>9, <1>10, <2>1, GoodKept, TextKept
<1>16. ToolInv'
  <2>1. \A version \in Nat, k \in {0, 1} : Known(version, k) => Known(version, k)'
    BY <1>1, <1>8, <1>9, KnownKept
  <2> QED
    BY <1>1, <1>8, <1>9, <1>10, <2>1, ToolKept
<1>17. NoticeInv'
  <2>1. \A i \in 1 .. Len(stream') : i + 0 \in 1 .. Len(stream) \/ stream'[i].kind # "tools"
    BY <1>6, <1>8
  <2> QED
    BY <1>1, <1>8, <1>9, <2>1, NoticeKept
<1> QED
  BY <1>11, <1>12, <1>13, <1>14, <1>15, <1>16, <1>17 DEF McpInv

(* The server's list of resources changes.                                 *)
LEMMA ResourceListChangesKept ==
    ASSUME McpInv, Served!ResourceListChanges
    PROVE  McpInv'
<1> DEFINE m == [kind |-> "resources", uri |-> NoRead, value |-> 0]
<1>0. McpTyped /\ Grown /\ ShutInv /\ IdInv /\ WaitInv /\ changes \in Nat
  BY McpFacts DEF McpInv
<1>1. /\ server.up /\ changes < MaxChanges /\ changes' = changes + 1 /\ stream' = Append(stream, m)
      /\ UNCHANGED <<server, requests, reading, connection, nextId, pending, tasks, tools, registered,
                     cache, reads, orphans, epoch, versions, subscriptions, silent, unheard>>
  BY DEF Served!ResourceListChanges, Served!Changes, Served!content, Served!rpc
<1>2. m \in Answer \cup Served!Notice /\ m.kind = "resources"
  BY McpBounds DEF Served!Notice
<1> HIDE DEF m
<1>3. Fits(m)
  BY <1>2 DEF Fits
<1>4. /\ Shifts(0) /\ stream' \in Seq(Answer \cup Served!Notice)
      /\ Len(stream') = Len(stream) + 1 /\ stream'[Len(stream) + 1] = m /\ Len(stream) \in Nat
      /\ \A i \in 1 .. Len(stream) : i \in 1 .. Len(stream') /\ stream'[i] = stream[i]
      /\ \A i \in 1 .. Len(stream') : i \in 1 .. Len(stream) \/ (i = Len(stream) + 1 /\ stream'[i] = m)
  BY <1>0, <1>1, <1>2, <1>3, StreamGrows
<1>5. /\ Inherits /\ Sole' /\ OneAnswer' /\ nextId' \in Nat /\ nextId =< nextId'
      /\ \A r \in pending' : r.id < nextId'
      /\ \A r \in requests' : r \in requests
  BY <1>1, LessWait
<1>6. changes' \in 0 .. MaxChanges /\ changes =< changes'
  BY <1>0, <1>1, McpBounds
<1>7. McpTyped'
  BY <1>0, <1>1, <1>4, <1>6 DEF McpTyped
<1>8. Grown' /\ ShutInv'
  <2>1. server.tools =< changes' + 1 /\ \A u \in Uris : server.texts[u] =< changes'
    BY <1>0, <1>1, McpFacts DEF Grown
  <2> QED
    BY <1>0, <1>1, <2>1 DEF Grown, ShutInv
<1>9. IdInv'
  BY <1>4, <1>5, IdKept
<1>10. WaitInv'
  BY <1>1, WaitKept
<1>11. TextInv'
  <2>1. \A u \in Uris : Served!Announced(u) => Served!Announced(u)'
    BY <1>0, <1>1, <1>4, <1>7, AnnouncedKept
  <2> QED
    BY <1>1, <1>4, <1>5, <2>1, GoodKept, TextKept
<1>12. ToolInv'
  <2>1. \A version \in Nat, k \in {0, 1} : Known(version, k) => Known(version, k)'
    BY <1>1, <1>4, KnownKept
  <2> QED
    BY <1>1, <1>4, <1>5, <2>1, ToolKept
<1>13. NoticeInv'
  <2>1. \A i \in 1 .. Len(stream') : i + 0 \in 1 .. Len(stream) \/ stream'[i].kind # "tools"
    BY <1>2, <1>4
  <2> QED
    BY <1>1, <1>4, <2>1, NoticeKept
<1> QED
  BY <1>7, <1>8, <1>9, <1>10, <1>11, <1>12, <1>13 DEF McpInv

(* No version is known that the server has not reached.                    *)
LEMMA KnownBound ==
    ASSUME McpInv
    PROVE  /\ \A version \in Nat, k \in {0, 1} : Known(version, k) => version =< server.tools
           /\ \A version \in Nat, i \in Nat : After(version, i) => version < server.tools
<1>0. McpTyped /\ Grown /\ NoticeInv /\ server.tools \in Nat /\ unheard \in Nat
  BY McpFacts DEF McpInv
<1>1. \A version \in Nat, i \in Nat : After(version, i) => version < server.tools
  <2>1. \A j \in 1 .. Len(stream) : stream[j].kind = "tools" => stream[j].value \in Nat /\ stream[j].value =< server.tools
    BY <1>0, McpFacts DEF NoticeInv
  <2> QED
    BY <1>0, <2>1 DEF After
<1>2. \A version \in Nat, k \in {0, 1} : Behind(version, k) => version < server.tools
  <2>1. \A j \in 1 .. Len(tasks) : tasks[j].notice.kind = "tools" =>
          tasks[j].notice.value \in Nat /\ tasks[j].notice.value =< server.tools
    BY <1>0, McpFacts DEF NoticeInv
  <2> QED
    BY <1>0, <2>1 DEF Behind
<1> QED
  BY <1>0, <1>1, <1>2 DEF Known, Grown

(* The server's tools change.                                              *)
LEMMA ToolsChangeKept ==
    ASSUME McpInv, Served!ToolsChange
    PROVE  McpInv'
<1> DEFINE next == server.tools + 1
           m == [kind |-> "tools", uri |-> NoRead, value |-> next]
<1>0. /\ McpTyped /\ Grown /\ ShutInv /\ IdInv /\ WaitInv /\ ToolInv /\ NoticeInv
      /\ changes \in Nat /\ server.tools \in Nat /\ unheard \in Nat
  BY McpFacts DEF McpInv
<1>1. /\ server.up /\ changes < MaxChanges /\ changes' = changes + 1 /\ stream' = Append(stream, m)
      /\ server' = [server EXCEPT !.tools = next]
      /\ UNCHANGED <<requests, reading, connection, nextId, pending, tasks, tools, registered,
                     cache, reads, orphans, epoch, versions, subscriptions, silent, unheard>>
  BY DEF Served!ToolsChange, Served!Changes, Served!content, Served!rpc
<1>2. next \in Texts /\ next \in Nat /\ server.tools < next
  BY <1>0, <1>1, McpBounds DEF Grown
<1>3. m \in Answer \cup Served!Notice /\ m.kind = "tools" /\ m.value = next
  BY <1>2, McpBounds DEF Served!Notice
<1> HIDE DEF m
<1>4. Fits(m)
  BY <1>3 DEF Fits
<1>5. /\ Shifts(0) /\ stream' \in Seq(Answer \cup Served!Notice)
      /\ Len(stream') = Len(stream) + 1 /\ stream'[Len(stream) + 1] = m /\ Len(stream) \in Nat
      /\ \A i \in 1 .. Len(stream) : i \in 1 .. Len(stream') /\ stream'[i] = stream[i]
      /\ \A i \in 1 .. Len(stream') : i \in 1 .. Len(stream) \/ (i = Len(stream) + 1 /\ stream'[i] = m)
  BY <1>0, <1>1, <1>3, <1>4, StreamGrows
<1>6. /\ Inherits /\ Sole' /\ OneAnswer' /\ nextId' \in Nat /\ nextId =< nextId'
      /\ \A r \in pending' : r.id < nextId'
      /\ \A r \in requests' : r \in requests
  BY <1>1, LessWait
<1>7. changes' \in 0 .. MaxChanges /\ changes =< changes'
  BY <1>0, <1>1, McpBounds
<1>8. /\ server' \in [up : BOOLEAN, texts : [Uris -> Texts], tools : Texts, subs : SUBSET Uris]
      /\ server'.texts = server.texts /\ server'.tools = next /\ server'.up = server.up
  BY <1>0, <1>1, <1>2 DEF McpTyped
<1> HIDE DEF next
<1>9. McpTyped'
  BY <1>0, <1>1, <1>5, <1>7, <1>8 DEF McpTyped
<1>10. Grown' /\ ShutInv'
  <2>1. next =< changes' + 1 /\ unheard =< next /\ \A u \in Uris : server.texts[u] =< changes'
    BY <1>0, <1>1, <1>2, McpFacts DEF Grown, next
  <2> QED
    BY <1>0, <1>1, <1>8, <2>1 DEF Grown, ShutInv
<1>11. IdInv'
  BY <1>5, <1>6, IdKept
<1>12. WaitInv'
  BY <1>1, WaitKept
<1>13. TextInv'
  <2>1. \A u \in Uris : Served!Announced(u) => Served!Announced(u)'
    BY <1>0, <1>1, <1>5, <1>9, AnnouncedKept
  <2> QED
    BY <1>1, <1>5, <1>6, <1>8, <2>1, GoodKept, TextKept
<1>14. \A version \in Nat, i \in 0 .. Len(stream) : version =< server.tools => After(version, i)'
  <2>1. Len(stream) + 1 \in 1 .. Len(stream')
    BY <1>5
  <2>2. \A i \in 0 .. Len(stream) : Len(stream) + 1 > i
    BY <1>5
  <2> QED
    BY <1>0, <1>2, <1>3, <1>5, <2>1, <2>2 DEF After
<1>15. ToolInv'
  <2>1. \A version \in Nat, k \in {0, 1} : Known(version, k) => Known(version, k)'
    BY <1>5, <1>14, KnownBound DEF Known
  <2>2. tools \in Nat
    BY <1>0, McpFacts
  <2>3. connection' \in {"started", "open"} => Known(tools, 0)'
    <3>1. \A v \in Nat : v = tools /\ Known(v, 0) => Known(tools, 0)'
      BY <1>1, <2>1
    <3> QED
      BY <1>0, <1>1, <2>2, <3>1 DEF ToolInv
  <2>4. \A p \in pending' : p.answer \in Nat =>
          /\ p.owner = "start" => Known(p.answer, 0)'
          /\ p.owner = "refresh" => Known(p.answer, 1)'
    BY <1>0, <1>1, <2>1 DEF ToolInv
  <2>5. ASSUME NEW i \in 1 .. Len(stream'), NEW p \in pending', NEW v, v = stream'[i].value,
               stream'[i].kind = "answer", stream'[i].id = p.id, p.owner \in {"start", "refresh"}, v \in Nat
        PROVE  After(v, i)'
    <3>1. i \in 1 .. Len(stream) /\ stream'[i] = stream[i] /\ i \in Nat
      BY <1>3, <1>5, <2>5
    <3>2. v = server.tools \/ After(v, i)
      BY <1>0, <1>1, <2>5, <3>1 DEF ToolInv
    <3>3. v =< server.tools
      BY <1>0, <2>5, <3>1, <3>2, KnownBound
    <3> QED
      BY <1>5, <1>14, <2>5, <3>1, <3>3
  <2>6. \A i \in 1 .. Len(stream'), p \in pending' :
          stream'[i].kind = "answer" /\ stream'[i].id = p.id /\ p.owner \in {"start", "refresh"}
              /\ stream'[i].value \in Nat => \A v : v = stream'[i].value => After(v, i)'
    BY <2>5
  <2>7. connection' = "open" => registered' = tools'
    BY <1>0, <1>1 DEF ToolInv
  <2> QED
    BY <2>3, <2>4, <2>6, <2>7 DEF ToolInv
<1>16. NoticeInv'
  <2>1. \A i \in 1 .. Len(stream) : stream[i].kind = "tools" =>
          stream[i].value \in Nat /\ unheard < stream[i].value /\ stream[i].value < next
    BY <1>0, <1>2, McpFacts DEF NoticeInv
  <2>2. unheard < next /\ next =< next
    BY <1>0, <1>2 DEF Grown
  <2>3. \A i \in 1 .. Len(stream') : stream'[i].kind = "tools" =>
          unheard < stream'[i].value /\ stream'[i].value =< next
    BY <1>2, <1>3, <1>5, <2>1, <2>2
  <2>4. \A i, j \in 1 .. Len(stream') :
          i < j /\ stream'[i].kind = "tools" /\ stream'[j].kind = "tools" => stream'[i].value < stream'[j].value
    <3>1. \A i, j \in 1 .. Len(stream') : i < j => i \in 1 .. Len(stream) /\ stream'[i] = stream[i]
      BY <1>5
    <3>2. \A i, j \in 1 .. Len(stream) :
            i < j /\ stream[i].kind = "tools" /\ stream[j].kind = "tools" => stream[i].value < stream[j].value
      BY <1>0 DEF NoticeInv
    <3> QED
      BY <1>3, <1>5, <2>1, <3>1, <3>2
  <2>5. \A i \in 1 .. Len(tasks) : tasks[i].notice.kind = "tools" =>
          /\ tasks[i].notice.value \in Nat /\ tasks[i].notice.value =< next /\ tasks[i].notice.value < next
          /\ \A j \in 1 .. Len(stream) : stream[j].kind = "tools" => tasks[i].notice.value < stream[j].value
    BY <1>0, <1>2, McpFacts DEF NoticeInv
  <2> QED
    BY <1>1, <1>3, <1>5, <1>8, <2>3, <2>4, <2>5 DEF NoticeInv
<1> QED
  BY <1>9, <1>10, <1>11, <1>12, <1>13, <1>15, <1>16 DEF McpInv

(* The text of a resource changes.                                         *)
LEMMA TextChangesKept ==
    ASSUME McpInv, NEW u \in Uris, Served!TextChanges(u)
    PROVE  McpInv'
<1> DEFINE next == server.texts[u] + 1
           m == [kind |-> "updated", uri |-> u, value |-> 0]
<1>0. /\ McpTyped /\ Grown /\ ShutInv /\ IdInv /\ WaitInv
      /\ changes \in Nat /\ server.texts[u] \in Nat
  BY McpFacts DEF McpInv
<1>1. /\ server.up /\ changes < MaxChanges /\ changes' = changes + 1
      /\ server' = [server EXCEPT !.texts[u] = next]
      /\ UNCHANGED <<requests, reading, connection, nextId, pending, tasks, tools, registered,
                     cache, reads, orphans, epoch, versions, subscriptions, unheard>>
      /\ \/ stream' = Append(stream, m) /\ silent' = silent
         \/ stream' = stream /\ silent' = [silent EXCEPT ![u] = next]
  BY DEF Served!TextChanges, Served!Changes, Served!content, Served!rpc
<1>2. next \in Texts /\ next \in Nat /\ server.texts[u] < next /\ next =< changes'
  <2>1. server.texts[u] =< changes /\ server.texts[u] \in Nat
    BY <1>0 DEF Grown
  <2> QED
    BY <1>0, <1>1, <2>1, McpBounds
<1>3. m \in Answer \cup Served!Notice /\ m.kind = "updated" /\ m.uri = u
  BY McpBounds DEF Served!Notice
<1> HIDE DEF m
<1>4. Fits(m)
  BY <1>3 DEF Fits
<1>5. /\ Shifts(0) /\ stream' \in Seq(Answer \cup Served!Notice) /\ Len(stream) \in Nat
      /\ \A i \in 1 .. Len(stream) : i \in 1 .. Len(stream') /\ stream'[i] = stream[i]
      /\ \A i \in 1 .. Len(stream') : i \in 1 .. Len(stream) \/ stream'[i] = m
      /\ stream' = Append(stream, m) => Len(stream) + 1 \in 1 .. Len(stream') /\ stream'[Len(stream) + 1] = m
  <2>1. CASE stream' = Append(stream, m)
    BY <1>0, <1>3, <1>4, <2>1, StreamGrows
  <2>2. CASE stream' = stream /\ stream' # Append(stream, m)
    <3>1. stream \in Seq(Answer \cup Served!Notice)
      BY <1>0 DEF McpTyped
    <3> QED
      BY <2>2, <3>1, StreamStays
  <2> QED
    BY <1>1, <2>1, <2>2
<1>6. /\ Inherits /\ Sole' /\ OneAnswer' /\ nextId' \in Nat /\ nextId =< nextId'
      /\ \A r \in pending' : r.id < nextId'
      /\ \A r \in requests' : r \in requests
  BY <1>1, LessWait
<1>7. changes' \in 0 .. MaxChanges /\ changes =< changes' /\ changes' \in Nat
  BY <1>0, <1>1, McpBounds
<1>8. /\ server' \in [up : BOOLEAN, texts : [Uris -> Texts], tools : Texts, subs : SUBSET Uris]
      /\ server'.tools = server.tools /\ server'.up = server.up
      /\ server'.texts[u] = next /\ \A w \in Uris \ {u} : server'.texts[w] = server.texts[w]
  BY <1>0, <1>1, <1>2 DEF McpTyped
<1> HIDE DEF next
<1>9. /\ silent' \in [Uris -> Texts] /\ \A w \in Uris \ {u} : silent'[w] = silent[w]
      /\ silent'[u] = silent[u] \/ silent'[u] = next
  BY <1>0, <1>1, <1>2 DEF McpTyped
<1>10. McpTyped'
  BY <1>0, <1>1, <1>5, <1>7, <1>8, <1>9 DEF McpTyped
<1>11. Grown' /\ ShutInv'
  <2>1. server.tools =< changes' + 1
    BY <1>0, <1>7, McpFacts DEF Grown
  <2>2. \A w \in Uris : server'.texts[w] =< changes' /\ silent'[w] =< server'.texts[w]
    <3>1. \A w \in Uris : /\ server.texts[w] \in Nat /\ silent[w] \in Nat
                          /\ server.texts[w] =< changes /\ silent[w] =< server.texts[w]
      BY <1>0, McpFacts DEF Grown
    <3>2. ASSUME NEW w \in Uris \ {u} PROVE server'.texts[w] =< changes' /\ silent'[w] =< server'.texts[w]
      BY <1>0, <1>7, <1>8, <1>9, <3>1
    <3>3. server'.texts[u] =< changes' /\ silent'[u] =< server'.texts[u]
      BY <1>0, <1>2, <1>8, <1>9, <3>1
    <3> QED
      BY <3>2, <3>3
  <2>3. server'.tools =< changes' + 1 /\ unheard' =< server'.tools
    BY <1>0, <1>1, <1>8, <2>1 DEF Grown
  <2>4. Grown'
    BY <2>2, <2>3 DEF Grown
  <2> QED
    BY <1>0, <1>1, <1>8, <2>4 DEF ShutInv
<1>12. IdInv'
  BY <1>5, <1>6, IdKept
<1>13. WaitInv'
  BY <1>1, WaitKept
<1>14. TextInv'
  <2>1. \A w \in Uris : Served!Announced(w) => Served!Announced(w)'
    BY <1>0, <1>1, <1>5, <1>10, AnnouncedKept
  <2>2. ASSUME NEW w \in Uris, NEW text \in Nat, Good(w, text) PROVE Good(w, text)'
    <3>1. CASE w # u
      BY <1>8, <1>9, <2>1, <2>2, <3>1 DEF Good
    <3>2. CASE w = u
      <4>1. text =< server.texts[u]
        BY <2>2, <3>2 DEF Good
      <4>2. text < next /\ text =< next
        BY <1>0, <1>2, <4>1
      <4>3. CASE stream' = Append(stream, m)
        <5>1. Len(stream) + 1 \in DOMAIN stream'
          BY <1>5, <4>3
        <5>2. Served!Announced(u)'
          BY <1>3, <1>5, <4>3, <5>1 DEF Served!Announced
        <5> QED
          BY <1>8, <3>2, <4>2, <5>2 DEF Good
      <4>4. CASE silent' = [silent EXCEPT ![u] = next]
        <5>1. silent'[u] > text
          BY <1>0, <4>2, <4>4 DEF McpTyped
        <5> QED
          BY <1>8, <3>2, <4>2, <5>1 DEF Good
      <4> QED
        BY <1>1, <4>3, <4>4
    <3> QED
      BY <3>1, <3>2
  <2> QED
    BY <1>1, <1>5, <1>6, <2>2, TextKept
<1>15. ToolInv'
  <2>1. \A version \in Nat, k \in {0, 1} : Known(version, k) => Known(version, k)'
    BY <1>1, <1>5, <1>8, KnownKept
  <2> QED
    BY <1>1, <1>5, <1>6, <1>8, <2>1, ToolKept
<1>16. NoticeInv'
  <2>1. \A i \in 1 .. Len(stream') : i + 0 \in 1 .. Len(stream) \/ stream'[i].kind # "tools"
    BY <1>3, <1>5
  <2> QED
    BY <1>1, <1>5, <1>8, <2>1, NoticeKept
<1> QED
  BY <1>10, <1>11, <1>12, <1>13, <1>14, <1>15, <1>16 DEF McpInv

(* The server dies; a request times out, and the end of the stream fails   *)
(* those that wait.                                                        *)
LEMMA DiesKept ==
    ASSUME McpInv, Served!Dies
    PROVE  McpInv'
<1>0. McpTyped /\ Grown /\ ShutInv /\ IdInv /\ WaitInv /\ ToolInv /\ TextInv /\ NoticeInv
  BY DEF McpInv
<1>1. /\ server' = [server EXCEPT !.up = FALSE] /\ requests' = {}
      /\ UNCHANGED <<stream, reading, connection, nextId, pending, tasks, tools, registered, cache, reads,
                     orphans, epoch, versions, subscriptions, changes, silent, unheard>>
  BY DEF Served!Dies, Served!content, Served!bounds, Served!rpc
<1>2. /\ server' \in [up : BOOLEAN, texts : [Uris -> Texts], tools : Texts, subs : SUBSET Uris]
      /\ server'.texts = server.texts /\ server'.tools = server.tools /\ ~server'.up
  BY <1>0, <1>1 DEF McpTyped
<1>3. McpTyped'
  BY <1>0, <1>1, <1>2 DEF McpTyped
<1>4. Grown' /\ ShutInv'
  BY <1>0, <1>1, <1>2 DEF Grown, ShutInv
<1>5. IdInv' /\ NoticeInv'
  BY <1>0, <1>1, <1>2 DEF IdInv, Sole, OneAnswer, NoticeInv
<1>6. WaitInv'
  BY <1>0, <1>1 DEF WaitInv, Placed
<1>7. TextInv'
  BY <1>0, <1>1, <1>2 DEF TextInv, Good, Fresh, Served!Current, Served!Announced
<1>8. ToolInv'
  BY <1>0, <1>1, <1>2 DEF ToolInv, Known, After, Behind
<1> QED
  BY <1>3, <1>4, <1>5, <1>6, <1>7, <1>8 DEF McpInv

(* Only the answers to those that wait change.                             *)
LEMMA OnlyAnswers ==
    ASSUME McpInv, pending' \subseteq Asked, Inherits, Sole', OneAnswer',
           \A r \in pending' : \E q \in pending : r.id = q.id /\ r.owner = q.owner /\ r.uri = q.uri,
           reading' \in BOOLEAN,
           UNCHANGED <<server, requests, stream, connection, nextId, tasks, tools, registered, cache, reads,
                       orphans, epoch, versions, subscriptions, changes, silent, unheard>>
    PROVE  McpInv'
<1>0. /\ McpTyped /\ Grown /\ ShutInv /\ IdInv /\ WaitInv /\ ToolInv /\ TextInv /\ NoticeInv
      /\ stream \in Seq(Answer \cup Served!Notice) /\ nextId \in Nat
  BY DEF McpInv, McpTyped
<1>1. Shifts(0)
  BY <1>0, StreamStays
<1>2. McpTyped'
  BY <1>0 DEF McpTyped
<1>3. connection = "closed" => pending' = {}
  BY <1>0 DEF ShutInv
<1>4. Grown' /\ ShutInv'
  BY <1>0, <1>3 DEF Grown, ShutInv
<1>5. IdInv'
  <2>1. \A r \in pending' : r.id < nextId'
    BY <1>0 DEF IdInv
  <2>2. nextId' \in Nat /\ nextId =< nextId' /\ \A q \in requests' : q \in requests
    BY <1>0
  <2> QED
    BY <1>1, <2>1, <2>2, IdKept
<1>6. WaitInv'
  BY WaitKept
<1>7. TextInv'
  <2>1. \A u \in Uris : Served!Announced(u) => Served!Announced(u)'
    BY DEF Served!Announced
  <2> QED
    BY <1>1, <2>1, GoodKept, TextKept
<1>8. ToolInv'
  <2>1. \A version \in Nat, k \in {0, 1} : Known(version, k) => Known(version, k)'
    BY DEF Known, After, Behind
  <2> QED
    BY <1>1, <2>1, ToolKept
<1>9. NoticeInv'
  BY <1>0 DEF NoticeInv
<1> QED
  BY <1>2, <1>4, <1>5, <1>6, <1>7, <1>8, <1>9 DEF McpInv

(* A request times out.                                                    *)
LEMMA TimeoutKept ==
    ASSUME McpInv, Served!Timeout
    PROVE  McpInv'
<1>1. UNCHANGED <<server, requests, stream, reading, connection, nextId, tasks, tools, registered, cache,
                  reads, orphans, epoch, versions, subscriptions, changes, silent, unheard>>
  BY DEF Served!Timeout, Served!content, Served!wire
<1>2. PICK p \in pending : Served!Resolve(p, Failed)
  BY DEF Served!Timeout
<1>3. Failed \in Texts \cup {Failed} /\ Failed \notin Nat
  BY McpBounds
<1>4. /\ pending' \subseteq Asked /\ Inherits /\ Sole' /\ OneAnswer'
      /\ \A r \in pending' : \E q \in pending : r.id = q.id /\ r.owner = q.owner /\ r.uri = q.uri
  BY <1>1, <1>2, <1>3, ResolveFacts
<1>5. reading' \in BOOLEAN
  BY <1>1 DEF McpInv, McpTyped
<1> QED
  BY <1>1, <1>4, <1>5, OnlyAnswers

(* The stream ends.                                                        *)
LEMMA DisconnectsKept ==
    ASSUME McpInv, Served!Disconnects
    PROVE  McpInv'
<1>0. McpTyped /\ IdInv
  BY DEF McpInv
<1>1. /\ reading' \in BOOLEAN
      /\ pending' = {IF p.answer = Unanswered THEN [p EXCEPT !.answer = Failed] ELSE p : p \in pending}
      /\ UNCHANGED <<server, requests, stream, connection, nextId, tasks, tools, registered, cache,
                     reads, orphans, epoch, versions, subscriptions, changes, silent, unheard>>
  BY DEF Served!Disconnects, Served!content, Served!bounds
<1>2. ASSUME NEW r \in pending'
      PROVE  /\ r \in Asked
             /\ \E q \in pending : /\ r.id = q.id /\ r.owner = q.owner /\ r.uri = q.uri
                                   /\ r.answer = IF q.answer = Unanswered THEN Failed ELSE q.answer
  <2>1. PICK q \in pending : r = IF q.answer = Unanswered THEN [q EXCEPT !.answer = Failed] ELSE q
    BY <1>1
  <2>2. q \in Asked
    BY <1>0 DEF McpTyped
  <2>3. CASE q.answer = Unanswered
    <3>1. r = [q EXCEPT !.answer = Failed]
      BY <2>1, <2>3
    <3> QED
      BY <2>2, <2>3, <3>1 DEF Asked
  <2>4. CASE q.answer # Unanswered
    BY <2>1, <2>2, <2>4
  <2> QED
    BY <2>3, <2>4
<1>3. \A r, s \in pending' : r.id = s.id \/ (r.owner = s.owner /\ r.uri = s.uri) => r = s
  <2>1. SUFFICES ASSUME NEW r \in pending', NEW s \in pending',
                        r.id = s.id \/ (r.owner = s.owner /\ r.uri = s.uri)
                 PROVE  r = s
    OBVIOUS
  <2>2. PICK q \in pending : /\ r.id = q.id /\ r.owner = q.owner /\ r.uri = q.uri
                             /\ r = IF q.answer = Unanswered THEN [q EXCEPT !.answer = Failed] ELSE q
    <3>1. PICK q \in pending : r = IF q.answer = Unanswered THEN [q EXCEPT !.answer = Failed] ELSE q
      BY <1>1
    <3>2. q \in Asked
      BY <1>0 DEF McpTyped
    <3> QED
      BY <3>1, <3>2 DEF Asked
  <2>3. PICK t \in pending : /\ s.id = t.id /\ s.owner = t.owner /\ s.uri = t.uri
                             /\ s = IF t.answer = Unanswered THEN [t EXCEPT !.answer = Failed] ELSE t
    <3>1. PICK t \in pending : s = IF t.answer = Unanswered THEN [t EXCEPT !.answer = Failed] ELSE t
      BY <1>1
    <3>2. t \in Asked
      BY <1>0 DEF McpTyped
    <3> QED
      BY <3>1, <3>2 DEF Asked
  <2>4. q = t
    BY <1>0, <2>1, <2>2, <2>3 DEF IdInv, Sole
  <2> QED
    BY <2>2, <2>3, <2>4
<1>4. Sole'
  BY <1>3 DEF Sole
<1>5. Inherits
  BY <1>2, McpBounds DEF Inherits, Inherited
<1>6. OneAnswer'
  <2>1. SUFFICES ASSUME NEW r \in pending', NEW s \in pending', r.answer \in Nat, s.answer \in Nat
                 PROVE  r = s
    BY DEF OneAnswer
  <2>2. PICK q \in pending : r.id = q.id /\ r.answer = IF q.answer = Unanswered THEN Failed ELSE q.answer
    BY <1>2
  <2>3. PICK t \in pending : s.id = t.id /\ s.answer = IF t.answer = Unanswered THEN Failed ELSE t.answer
    BY <1>2
  <2>4. q.answer \in Nat /\ t.answer \in Nat
    BY <2>1, <2>2, <2>3, McpBounds
  <2>5. q = t
    BY <1>0, <2>4 DEF IdInv, OneAnswer
  <2> QED
    BY <1>3, <2>2, <2>3, <2>5
<1>7. \A r \in pending' : \E q \in pending : r.id = q.id /\ r.owner = q.owner /\ r.uri = q.uri
  BY <1>2
<1>8. pending' \subseteq Asked
  BY <1>2
<1> QED
  BY <1>1, <1>4, <1>5, <1>6, <1>7, <1>8, OnlyAnswers

(* The reader takes an answer, ...                                         *)
LEMMA ReadsAnswerKept ==
    ASSUME McpInv, Served!Reads, Served!ReadsAnswer
    PROVE  McpInv'
<1>0. McpTyped /\ Grown /\ ShutInv /\ IdInv /\ WaitInv /\ nextId \in Nat
  BY McpFacts DEF McpInv
<1>1. /\ stream # <<>> /\ stream' = Tail(stream)
      /\ UNCHANGED <<server, requests, reading, connection, nextId, tasks, tools, registered, cache, reads,
                     orphans, epoch, versions, subscriptions, changes, silent, unheard>>
  BY DEF Served!Reads, Served!ReadsAnswer, Served!content
<1>2. /\ Shifts(1) /\ stream' \in Seq(Answer \cup Served!Notice) /\ Len(stream') = Len(stream) - 1
      /\ Head(stream) = stream[1] /\ 1 \in 1 .. Len(stream)
      /\ \A i \in 1 .. Len(stream') : i + 1 \in 1 .. Len(stream) /\ stream'[i] = stream[i + 1] /\ i + 1 > 1
  BY <1>0, <1>1, StreamShrinks
<1>3. /\ stream[1].kind = "answer" /\ \A p \in pending : p.answer = Unanswered
      /\ \/ pending' = pending
         \/ \E p \in pending : p.id = stream[1].id /\ Served!Resolve(p, stream[1].value)
  BY <1>2 DEF Served!ReadsAnswer
<1>4. stream[1].value \in Texts \cup {Failed}
  BY <1>0, <1>2, <1>3, McpFacts
<1>5. /\ pending' \subseteq Asked /\ Inherits /\ Sole' /\ OneAnswer' /\ nextId' \in Nat /\ nextId =< nextId'
      /\ \A r \in pending' : /\ r.id < nextId'
                             /\ \E q \in pending : r.id = q.id /\ r.owner = q.owner /\ r.uri = q.uri
      /\ \A q \in requests' : q \in requests
  <2>1. CASE pending' = pending
    BY <1>1, <2>1, LessWait
  <2>2. CASE \E p \in pending : p.id = stream[1].id /\ Served!Resolve(p, stream[1].value)
    <3>1. PICK p \in pending : p.id = stream[1].id /\ Served!Resolve(p, stream[1].value)
      BY <2>2
    <3>2. \E i \in 1 .. Len(stream) : /\ stream[i].kind = "answer" /\ stream[i].id = p.id
                                      /\ stream[i].value = stream[1].value
      BY <1>2, <1>3, <3>1
    <3> QED
      BY <1>1, <1>3, <1>4, <3>1, <3>2, ResolveFacts
  <2> QED
    BY <1>3, <2>1, <2>2
<1>6. McpTyped'
  BY <1>0, <1>1, <1>2, <1>5 DEF McpTyped
<1>7. Grown' /\ ShutInv'
  <2>1. connection # "closed"
    BY <1>0, <1>1 DEF ShutInv
  <2> QED
    BY <1>0, <1>1, <2>1 DEF Grown, ShutInv
<1>8. IdInv'
  BY <1>2, <1>5, IdKept
<1>9. WaitInv'
  BY <1>1, <1>5, WaitKept
<1>10. TextInv'
  <2>1. \A j \in 1 .. Len(tasks) :
          \E k \in 1 .. Len(tasks') : /\ tasks'[k].notice = tasks[j].notice
                                      /\ tasks'[k].asked = tasks[j].asked \/ tasks[j].notice.kind = "tools"
    BY <1>1
  <2>2. \A u \in Uris : Served!Announced(u) => Served!Announced(u)'
    BY <1>0, <1>2, <1>3, <1>6, <2>1, AnnouncedKept
  <2> QED
    BY <1>1, <1>2, <1>5, <2>2, GoodKept, TextKept
<1>11. ToolInv'
  <2>1. \A version \in Nat, k \in {0, 1} : Known(version, k) => Known(version, k)'
    BY <1>1, <1>2, <1>3, KnownKept
  <2> QED
    BY <1>1, <1>2, <1>5, <2>1, ToolKept
<1>12. NoticeInv'
  BY <1>1, <1>2, NoticeKept
<1> QED
  BY <1>6, <1>7, <1>8, <1>9, <1>10, <1>11, <1>12 DEF McpInv

(* When everything has changed nothing is cached and no read is current.   *)
LEMMA TextReset ==
    ASSUME McpInv, WaitInv', cache' = <<>>, epoch' = epoch + 1, reads' = reads
    PROVE  TextInv'
<1>0. McpTyped /\ TextInv /\ epoch \in Nat
  BY McpFacts DEF McpInv
<1>1. \A u \in Uris : reads[u] # NoRead /\ reads[u].pc \in {"read", "subscribe"} =>
        reads[u].epoch =< epoch' /\ reads[u].epoch # epoch'
  <2>1. \A u \in Uris : reads[u] # NoRead => reads[u].epoch \in Nat
    BY <1>0, McpFacts, Shapes
  <2> QED
    BY <1>0, <2>1 DEF TextInv
<1>2. \A u \in Uris : \A text : reads[u] # NoRead /\ reads[u].pc \in {"read", "subscribe"} => Fresh(u, text)'
  BY <1>1 DEF Fresh, Served!Current
<1>3. \A p \in pending' : \A text : p.owner = "read" => Fresh(p.uri, text)'
  BY <1>2 DEF WaitInv, Placed
<1>4. /\ \A u \in Uris : reads'[u] # NoRead /\ reads'[u].pc = "subscribe" => Fresh(u, reads[u].text)'
      /\ \A p \in pending' : p.owner = "read" => Fresh(p.uri, p.answer)'
      /\ \A i \in 1 .. Len(stream'), p \in pending' : p.owner = "read" => Fresh(p.uri, stream[i].value)'
  BY <1>2, <1>3
<1>5. Len(cache') = 0
  OBVIOUS
<1> QED
  BY <1>1, <1>4, <1>5 DEF TextInv

(* A sequence of tasks without its first.                                  *)
LEMMA TasksTail ==
    ASSUME McpInv, tasks # <<>>, tasks' = Tail(tasks)
    PROVE  /\ tasks' \in Seq(Task) /\ Len(tasks') =< MaxTasks /\ Len(tasks') \in Nat
           /\ Head(tasks) = tasks[1] /\ 1 \in 1 .. Len(tasks)
           /\ \A i \in 1 .. Len(tasks') : i + 1 \in 1 .. Len(tasks) /\ tasks'[i] = tasks[i + 1] /\ ~tasks'[i].asked
           /\ \A j \in 1 .. Len(tasks) : j > 1 => j - 1 \in 1 .. Len(tasks') /\ tasks'[j - 1] = tasks[j]
<1>0. tasks \in Seq(Task) /\ Len(tasks) =< MaxTasks /\ MaxTasks \in Nat /\ WaitInv
  BY McpBounds DEF McpInv, McpTyped
<1>1. /\ tasks' \in Seq(Task) /\ Len(tasks') = Len(tasks) - 1 /\ Len(tasks) \in Nat /\ Len(tasks) # 0
      /\ Head(tasks) = tasks[1] /\ 1 \in 1 .. Len(tasks)
      /\ \A i \in 1 .. Len(tasks') : i + 1 \in 1 .. Len(tasks) /\ tasks'[i] = tasks[i + 1]
      /\ \A j \in 1 .. Len(tasks) : j > 1 => j - 1 \in 1 .. Len(tasks') /\ tasks'[j - 1] = tasks[j]
  BY <1>0, TailAt
<1>2. \A i \in 1 .. Len(tasks') : ~tasks'[i].asked
  <2>1. \A i \in 1 .. Len(tasks') : i + 1 # 1
    BY <1>1
  <2> QED
    BY <1>0, <1>1, <2>1 DEF WaitInv
<1> QED
  BY <1>0, <1>1, <1>2

(* Handling the first notice loses no word of other resources.             *)
LEMMA AnnouncedTail ==
    ASSUME McpInv, tasks # <<>>, tasks' = Tail(tasks), stream' = stream, NEW u \in Uris,
           tasks[1].notice.kind = "resources" => tasks[1].asked,
           tasks[1].notice.kind = "updated" => tasks[1].notice.uri # u
    PROVE  Served!Announced(u) => Served!Announced(u)'
<1>1. /\ tasks' \in Seq(Task) /\ DOMAIN tasks' = 1 .. Len(tasks') /\ DOMAIN tasks = 1 .. Len(tasks)
      /\ Len(tasks) \in Nat
      /\ \A j \in 1 .. Len(tasks) : j > 1 => j - 1 \in 1 .. Len(tasks') /\ tasks'[j - 1] = tasks[j]
  BY TasksTail DEF McpInv, McpTyped
<1>2. SUFFICES ASSUME Served!Announced(u) PROVE Served!Announced(u)'
  OBVIOUS
<1>3. CASE \E i \in DOMAIN stream : \/ stream[i].kind = "resources"
                                    \/ stream[i].kind = "updated" /\ stream[i].uri = u
  BY <1>3 DEF Served!Announced
<1>4. CASE \E i \in 1 .. Len(tasks) : \/ tasks[i].notice.kind = "resources" /\ ~tasks[i].asked
                                      \/ tasks[i].notice.kind = "updated" /\ tasks[i].notice.uri = u
  <2>1. PICK i \in 1 .. Len(tasks) : \/ tasks[i].notice.kind = "resources" /\ ~tasks[i].asked
                                     \/ tasks[i].notice.kind = "updated" /\ tasks[i].notice.uri = u
    BY <1>4
  <2>2. i > 1
    BY <1>1, <2>1
  <2>3. i - 1 \in DOMAIN tasks' /\ tasks'[i - 1] = tasks[i]
    BY <1>1, <2>2
  <2> QED
    BY <2>1, <2>3 DEF Served!Announced
<1> QED
  BY <1>1, <1>2, <1>3, <1>4 DEF Served!Announced

(* ... or a notification, which waits behind the others ...                *)
LEMMA NoticeQueued ==
    ASSUME McpInv, Served!Reads, Served!ReadsNotice, Len(tasks) < MaxTasks
    PROVE  McpInv'
<1> DEFINE m == Head(stream)
           t == [notice |-> m, asked |-> FALSE]
<1>0. /\ McpTyped /\ Grown /\ ShutInv /\ IdInv /\ WaitInv /\ ToolInv /\ NoticeInv
      /\ tasks \in Seq(Task) /\ Len(tasks) \in Nat
  BY McpFacts DEF McpInv, McpTyped
<1>1. /\ stream # <<>> /\ stream' = Tail(stream) /\ tasks' = Append(tasks, t)
      /\ UNCHANGED <<server, requests, reading, connection, nextId, pending, tools, registered, cache, reads,
                     orphans, epoch, versions, subscriptions, changes, silent, unheard>>
  BY DEF Served!Reads, Served!ReadsNotice, Served!content
<1>2. /\ Shifts(1) /\ stream' \in Seq(Answer \cup Served!Notice) /\ Len(stream') = Len(stream) - 1
      /\ Head(stream) = stream[1] /\ 1 \in 1 .. Len(stream)
      /\ \A i \in 1 .. Len(stream') : i + 1 \in 1 .. Len(stream) /\ stream'[i] = stream[i + 1] /\ i + 1 > 1
  BY <1>0, <1>1, StreamShrinks
<1>3. /\ m = stream[1] /\ m.kind # "answer" /\ m \in Served!Notice
      /\ t \in Task /\ t.notice = m /\ ~t.asked
  <2>1. m = stream[1] /\ m.kind # "answer"
    BY <1>2 DEF Served!ReadsNotice
  <2>2. m \in Served!Notice
    BY <1>0, <1>2, <2>1, McpFacts
  <2> QED
    BY <2>1, <2>2 DEF Task
<1> HIDE DEF m, t
<1>4. /\ tasks' \in Seq(Task) /\ Len(tasks') = Len(tasks) + 1
      /\ \A i \in 1 .. Len(tasks) : i \in 1 .. Len(tasks') /\ tasks'[i] = tasks[i]
      /\ tasks'[Len(tasks) + 1] = t /\ Len(tasks) + 1 \in 1 .. Len(tasks')
      /\ \A i \in 1 .. Len(tasks') : i \in 1 .. Len(tasks) \/ (i = Len(tasks) + 1 /\ tasks'[i] = t)
  <2> DEFINE s == Append(tasks, t)
  <2>1. /\ s \in Seq(Task) /\ Len(s) = Len(tasks) + 1
        /\ \A i \in 1 .. Len(tasks) : i \in 1 .. Len(s) /\ s[i] = tasks[i]
        /\ s[Len(tasks) + 1] = t /\ Len(tasks) + 1 \in 1 .. Len(s)
        /\ \A i \in 1 .. Len(s) : i \in 1 .. Len(tasks) \/ i = Len(tasks) + 1
    BY <1>0, <1>3, AppendAt
  <2>2. tasks' = s
    BY <1>1
  <2> HIDE DEF s
  <2> QED
    BY <2>1, <2>2
<1>5. /\ pending' \subseteq Asked /\ requests' \subseteq Served!Request
      /\ Inherits /\ Sole' /\ OneAnswer' /\ nextId' \in Nat /\ nextId =< nextId'
      /\ \A r \in pending' : r.id < nextId'
      /\ \A q \in requests' : q \in requests
  BY <1>1, LessWait
<1>6. McpTyped'
  <2>1. Len(tasks') =< MaxTasks
    BY <1>0, <1>4, McpBounds
  <2> QED
    BY <1>0, <1>1, <1>2, <1>4, <1>5, <2>1 DEF McpTyped
<1>7. Grown' /\ ShutInv'
  <2>1. connection # "closed"
    BY <1>0, <1>1 DEF ShutInv
  <2> QED
    BY <1>0, <1>1, <2>1 DEF Grown, ShutInv
<1>8. IdInv'
  BY <1>2, <1>5, IdKept
<1>9. WaitInv'
  <2>1. \A p \in pending' : p.owner = "refresh" => tasks' # <<>> /\ tasks'[1].asked
    <3>1. \A p \in pending' : p.owner = "refresh" => tasks # <<>> /\ tasks[1].asked
      BY <1>0, <1>1 DEF WaitInv, Placed
    <3>2. tasks # <<>> => 1 \in 1 .. Len(tasks)
      BY <1>0
    <3>3. tasks' # <<>>
      BY <1>0, <1>4
    <3> QED
      BY <1>4, <3>1, <3>2, <3>3
  <2>2. \A p \in pending' : Placed(p)'
    BY <1>0, <1>1, <2>1 DEF WaitInv, Placed
  <2>3. m.kind = "updated" => m.uri \in Uris
    BY <1>0, <1>2, <1>3 DEF IdInv
  <2>4. \A i \in 1 .. Len(tasks') :
          /\ tasks'[i].asked => i = 1 /\ tasks'[i].notice.kind # "updated"
          /\ tasks'[i].notice.kind = "updated" => tasks'[i].notice.uri \in Uris
    BY <1>0, <1>3, <1>4, <2>3 DEF WaitInv
  <2> QED
    BY <2>2, <2>4 DEF WaitInv
<1>10. TextInv'
  <2>1. ASSUME NEW u \in Uris, Served!Announced(u) PROVE Served!Announced(u)'
    <3>0. /\ DOMAIN stream = 1 .. Len(stream) /\ DOMAIN stream' = 1 .. Len(stream') /\ Len(stream) \in Nat
          /\ DOMAIN tasks = 1 .. Len(tasks) /\ DOMAIN tasks' = 1 .. Len(tasks')
      BY <1>0, <1>2, <1>4 DEF McpTyped
    <3>1. CASE \E i \in 1 .. Len(stream) : \/ stream[i].kind = "resources"
                                           \/ stream[i].kind = "updated" /\ stream[i].uri = u
      <4>1. PICK i \in 1 .. Len(stream) : \/ stream[i].kind = "resources"
                                          \/ stream[i].kind = "updated" /\ stream[i].uri = u
        BY <3>1
      <4>2. CASE i = 1
        <5>1. \/ t.notice.kind = "resources" /\ ~t.asked
              \/ t.notice.kind = "updated" /\ t.notice.uri = u
          BY <1>3, <4>1, <4>2
        <5> QED
          BY <1>4, <3>0, <5>1 DEF Served!Announced
      <4>3. CASE i # 1
        <5>1. i - 1 \in 1 .. Len(stream') /\ stream'[i - 1] = stream[i]
          BY <1>2, <3>0, <4>3 DEF Shifts
        <5> QED
          BY <3>0, <4>1, <5>1 DEF Served!Announced
      <4> QED
        BY <4>2, <4>3
    <3>2. CASE \E i \in 1 .. Len(tasks) : \/ tasks[i].notice.kind = "resources" /\ ~tasks[i].asked
                                          \/ tasks[i].notice.kind = "updated" /\ tasks[i].notice.uri = u
      BY <1>4, <3>0, <3>2 DEF Served!Announced
    <3> QED
      BY <2>1, <3>0, <3>1, <3>2 DEF Served!Announced
  <2> QED
    BY <1>1, <1>2, <1>5, <2>1, GoodKept, TextKept
<1>11. ToolInv'
  <2>1. ASSUME NEW version \in Nat, NEW k \in {0, 1}, k = 0 \/ \E p \in pending' : p.owner = "refresh",
               Known(version, k)
        PROVE  Known(version, k)'
    <3>1. CASE After(version, 0)
      <4>1. PICK j \in 1 .. Len(stream) : stream[j].kind = "tools" /\ stream[j].value > version
        BY <3>1 DEF After
      <4>2. CASE j = 1
        <5>1. Len(tasks) + 1 > k
          <6>1. k = 0 \/ tasks # <<>>
            BY <1>0, <1>1, <2>1 DEF WaitInv, Placed
          <6>2. tasks # <<>> => Len(tasks) # 0
            BY <1>0
          <6> QED
            BY <1>0, <6>1, <6>2
        <5>2. t.notice.kind = "tools" /\ t.notice.value > version
          BY <1>3, <4>1, <4>2
        <5> QED
          BY <1>4, <5>1, <5>2 DEF Known, Behind
      <4>3. CASE j # 1
        <5>1. j > 1 /\ j - 1 > 0
          BY <1>0, <4>3, McpFacts
        <5>2. j - 1 \in 1 .. Len(stream') /\ stream'[j - 1] = stream[j]
          BY <1>2, <5>1 DEF Shifts
        <5> QED
          BY <4>1, <5>1, <5>2 DEF Known, After
      <4> QED
        BY <4>2, <4>3
    <3>2. CASE Behind(version, k)
      BY <1>4, <3>2 DEF Known, Behind
    <3>3. CASE version = server.tools \/ unheard > version
      BY <1>1, <3>3 DEF Known
    <3> QED
      BY <2>1, <3>1, <3>2, <3>3 DEF Known
  <2> QED
    BY <1>1, <1>2, <1>5, <2>1, ToolKept
<1>12. NoticeInv'
  <2>1. \A i \in 1 .. Len(stream') : stream'[i].kind = "tools" =>
          unheard < stream'[i].value /\ stream'[i].value =< server.tools
    BY <1>0, <1>2 DEF NoticeInv
  <2>2. ASSUME NEW i \in 1 .. Len(stream'), NEW j \in 1 .. Len(stream'), i < j,
               stream'[i].kind = "tools", stream'[j].kind = "tools"
        PROVE  stream'[i].value < stream'[j].value
    <3>1. i + 1 < j + 1
      BY <2>2
    <3> QED
      BY <1>0, <1>2, <2>2, <3>1 DEF NoticeInv
  <2>3. m.kind = "tools" => /\ m.value =< server.tools
                            /\ \A j \in 1 .. Len(stream') : stream'[j].kind = "tools" => m.value < stream'[j].value
    <3>1. \A j \in 1 .. Len(stream') : 1 < j + 1
      BY <1>2
    <3> QED
      BY <1>0, <1>2, <1>3, <3>1 DEF NoticeInv
  <2>4. \A i \in 1 .. Len(tasks) : tasks[i].notice.kind = "tools" =>
          /\ tasks[i].notice.value =< server.tools
          /\ \A j \in 1 .. Len(stream') : stream'[j].kind = "tools" => tasks[i].notice.value < stream'[j].value
    BY <1>0, <1>2 DEF NoticeInv
  <2>5. \A i \in 1 .. Len(tasks') : tasks'[i].notice.kind = "tools" =>
          /\ tasks'[i].notice.value =< server.tools
          /\ \A j \in 1 .. Len(stream') : stream'[j].kind = "tools" => tasks'[i].notice.value < stream'[j].value
    BY <1>3, <1>4, <2>3, <2>4
  <2> QED
    BY <1>1, <2>1, <2>2, <2>5 DEF NoticeInv
<1> QED
  BY <1>6, <1>7, <1>8, <1>9, <1>10, <1>11, <1>12 DEF McpInv

(* ... or, beyond the limit, is dropped.                                   *)
LEMMA NoticeDropped ==
    ASSUME McpInv, Served!Reads, Served!ReadsNotice, ~(Len(tasks) < MaxTasks)
    PROVE  McpInv'
<1> DEFINE m == Head(stream)
<1>0. /\ McpTyped /\ Grown /\ ShutInv /\ IdInv /\ WaitInv /\ ToolInv /\ NoticeInv
      /\ epoch \in Nat /\ unheard \in Nat
  BY McpFacts DEF McpInv
<1>1. /\ stream # <<>> /\ stream' = Tail(stream)
      /\ UNCHANGED <<server, requests, reading, connection, nextId, pending, tasks, tools, registered,
                     reads, orphans, subscriptions, changes, silent>>
  BY DEF Served!Reads, Served!ReadsNotice, Served!content, Served!MarkAllChanged
<1>14. \/ m.kind = "tools" /\ unheard' = m.value /\ UNCHANGED <<cache, epoch, versions>>
       \/ /\ m.kind # "tools" /\ epoch' = epoch + 1 /\ versions' = [u \in Uris |-> 0] /\ cache' = <<>>
          /\ unheard' = unheard
  BY DEF Served!Reads, Served!ReadsNotice, Served!content, Served!MarkAllChanged
<1>2. /\ Shifts(1) /\ stream' \in Seq(Answer \cup Served!Notice) /\ Len(stream') = Len(stream) - 1
      /\ Head(stream) = stream[1] /\ 1 \in 1 .. Len(stream)
      /\ \A i \in 1 .. Len(stream') : i + 1 \in 1 .. Len(stream) /\ stream'[i] = stream[i + 1] /\ i + 1 > 1
  BY <1>0, <1>1, StreamShrinks
<1>3. m = stream[1] /\ m.kind # "answer" /\ m.value \in Texts /\ m.value \in Nat
  <2>1. m = stream[1] /\ m.kind # "answer"
    BY <1>2 DEF Served!ReadsNotice
  <2> QED
    BY <1>0, <1>2, <2>1, McpFacts
<1> HIDE DEF m
<1>4. /\ unheard' \in Texts /\ unheard' \in Nat /\ unheard =< unheard' /\ unheard' =< server.tools
      /\ m.kind = "tools" => unheard' = m.value
  <2>1. m.kind = "tools" => unheard < m.value /\ m.value =< server.tools
    BY <1>0, <1>2, <1>3 DEF NoticeInv
  <2>2. unheard \in Texts /\ unheard =< server.tools
    BY <1>0 DEF Grown, McpTyped
  <2> QED
    BY <1>0, <1>14, <1>3, <2>1, <2>2
<1>5. /\ cache' \in Seq(Cached) /\ Len(cache') =< MaxCached /\ epoch' \in Nat /\ versions' \in [Uris -> Nat]
      /\ cache = <<>> => cache' = <<>>
  <2>1. CASE m.kind = "tools"
    BY <1>0, <1>14, <2>1 DEF McpTyped
  <2>2. CASE m.kind # "tools"
    <3>1. cache' = <<>> /\ epoch' = epoch + 1 /\ versions' = [u \in Uris |-> 0]
      BY <1>14, <2>2
    <3>2. <<>> \in Seq(Cached) /\ Len(<<>>) = 0 /\ 0 =< MaxCached
      BY McpBounds
    <3>3. cache' \in Seq(Cached) /\ Len(cache') =< MaxCached
      BY <3>1, <3>2
    <3> QED
      BY <1>0, <3>1, <3>3
  <2> QED
    BY <2>1, <2>2
<1>6. /\ pending' \subseteq Asked /\ requests' \subseteq Served!Request
      /\ Inherits /\ Sole' /\ OneAnswer' /\ nextId' \in Nat /\ nextId =< nextId'
      /\ \A r \in pending' : r.id < nextId'
      /\ \A q \in requests' : q \in requests
  BY <1>1, LessWait
<1>7. McpTyped'
  BY <1>0, <1>1, <1>2, <1>4, <1>5, <1>6 DEF McpTyped
<1>8. Grown' /\ ShutInv'
  <2>1. connection # "closed"
    BY <1>0, <1>1 DEF ShutInv
  <2>2. Grown'
    BY <1>0, <1>1, <1>4 DEF Grown
  <2> QED
    BY <1>0, <1>1, <1>5, <2>1, <2>2 DEF ShutInv
<1>9. IdInv'
  BY <1>2, <1>6, IdKept
<1>10. WaitInv'
  BY <1>1, WaitKept
<1>11. TextInv'
  <2>1. CASE m.kind = "tools"
    <3>1. stream[1].kind \notin {"resources", "updated"}
      BY <1>3, <2>1
    <3>2. \A j \in 1 .. Len(tasks) :
            \E k \in 1 .. Len(tasks') : /\ tasks'[k].notice = tasks[j].notice
                                        /\ tasks'[k].asked = tasks[j].asked \/ tasks[j].notice.kind = "tools"
      BY <1>1
    <3>3. \A u \in Uris : Served!Announced(u) => Served!Announced(u)'
      BY <1>0, <1>2, <1>7, <3>1, <3>2, AnnouncedKept
    <3> QED
      BY <1>1, <1>14, <1>2, <1>6, <2>1, <3>3, GoodKept, TextKept
  <2>2. CASE m.kind # "tools"
    BY <1>1, <1>14, <1>10, <2>2, TextReset
  <2> QED
    BY <2>1, <2>2
<1>12. ToolInv'
  <2>1. ASSUME NEW version \in Nat, NEW k \in {0, 1}, Known(version, k) PROVE Known(version, k)'
    <3>1. CASE After(version, 0)
      <4>1. PICK j \in 1 .. Len(stream) : stream[j].kind = "tools" /\ stream[j].value > version
        BY <3>1 DEF After
      <4>2. CASE j = 1
        <5>1. unheard' > version
          <6>1. stream[1].kind = "tools" /\ stream[1].value > version
            BY <4>1, <4>2
          <6>2. m.kind = "tools" /\ m.value > version /\ unheard' = m.value
            BY <1>3, <1>4, <6>1
          <6> QED
            BY <6>2
        <5> QED
          BY <5>1 DEF Known
      <4>3. CASE j # 1
        <5>1. j > 1 /\ j - 1 > 0
          BY <1>0, <4>3, McpFacts
        <5>2. j - 1 \in 1 .. Len(stream') /\ stream'[j - 1] = stream[j]
          BY <1>2, <5>1 DEF Shifts
        <5> QED
          BY <4>1, <5>1, <5>2 DEF Known, After
      <4> QED
        BY <4>2, <4>3
    <3>2. CASE Behind(version, k)
      BY <1>1, <3>2 DEF Known, Behind
    <3>3. CASE version = server.tools \/ unheard > version
      <4>1. version = server'.tools \/ unheard' > version
        BY <1>0, <1>1, <1>4, <3>3
      <4> QED
        BY <4>1 DEF Known
    <3> QED
      BY <2>1, <3>1, <3>2, <3>3 DEF Known
  <2> QED
    BY <1>1, <1>2, <1>6, <2>1, ToolKept
<1>13. NoticeInv'
  <2>1. \A i \in 1 .. Len(stream') : stream'[i].kind = "tools" =>
          unheard' < stream'[i].value /\ stream'[i].value =< server.tools
    <3>1. \A i \in 1 .. Len(stream') : 1 < i + 1
      BY <1>2
    <3>2. \A i \in 1 .. Len(stream') : stream'[i].kind = "tools" =>
            unheard < stream'[i].value /\ stream'[i].value =< server.tools
      BY <1>0, <1>2 DEF NoticeInv
    <3>3. \A i \in 1 .. Len(stream') : stream'[i].kind = "tools" /\ m.kind = "tools" => m.value < stream'[i].value
      BY <1>0, <1>2, <1>3, <3>1 DEF NoticeInv
    <3> QED
      BY <1>14, <3>2, <3>3
  <2>2. ASSUME NEW i \in 1 .. Len(stream'), NEW j \in 1 .. Len(stream'), i < j,
               stream'[i].kind = "tools", stream'[j].kind = "tools"
        PROVE  stream'[i].value < stream'[j].value
    <3>1. i + 1 < j + 1
      BY <2>2
    <3> QED
      BY <1>0, <1>2, <2>2, <3>1 DEF NoticeInv
  <2>3. \A i \in 1 .. Len(tasks) : tasks[i].notice.kind = "tools" =>
          /\ tasks[i].notice.value =< server.tools
          /\ \A j \in 1 .. Len(stream') : stream'[j].kind = "tools" => tasks[i].notice.value < stream'[j].value
    BY <1>0, <1>2 DEF NoticeInv
  <2> QED
    BY <1>1, <2>1, <2>2, <2>3 DEF NoticeInv
<1> QED
  BY <1>7, <1>8, <1>9, <1>10, <1>11, <1>12, <1>13 DEF McpInv

(* A notification's turn: a changed text leaves the cache, ...             *)
LEMMA HandlesUpdateKept ==
    ASSUME McpInv, Served!HandlesUpdate
    PROVE  McpInv'
<1>a. PICK u : u = Head(tasks).notice.uri
  OBVIOUS
<1>0. /\ McpTyped /\ Grown /\ ShutInv /\ IdInv /\ WaitInv /\ ToolInv /\ NoticeInv /\ TextInv
      /\ stream \in Seq(Answer \cup Served!Notice)
  BY DEF McpInv, McpTyped
<1>1. /\ tasks # <<>> /\ tasks' = Tail(tasks) /\ Head(tasks).notice.kind = "updated"
      /\ versions' = IF reads[u] # NoRead THEN [versions EXCEPT ![u] = @ + 1]
                     ELSE [versions EXCEPT ![u] = 0]
      /\ cache' = Served!Without(u)
      /\ UNCHANGED <<server, requests, stream, reading, connection, nextId, pending, tools, registered,
                     reads, orphans, epoch, subscriptions, changes, silent, unheard>>
  BY <1>a DEF Served!HandlesUpdate, Served!MarkChanged, Served!wire, Served!rpc, Served!bounds
<1>2. /\ tasks' \in Seq(Task) /\ Len(tasks') =< MaxTasks /\ Len(tasks') \in Nat
      /\ Head(tasks) = tasks[1] /\ 1 \in 1 .. Len(tasks)
      /\ \A i \in 1 .. Len(tasks') : i + 1 \in 1 .. Len(tasks) /\ tasks'[i] = tasks[i + 1] /\ ~tasks'[i].asked
      /\ \A j \in 1 .. Len(tasks) : j > 1 => j - 1 \in 1 .. Len(tasks') /\ tasks'[j - 1] = tasks[j]
  BY <1>1, TasksTail
<1>3. u \in Uris /\ u = tasks[1].notice.uri /\ tasks[1].notice.kind = "updated" /\ ~tasks[1].asked
  BY <1>a, <1>0, <1>1, <1>2 DEF WaitInv
<1>4. /\ cache' \in Seq(Cached) /\ Len(cache') =< MaxCached /\ Len(cache') =< Len(cache) /\ Len(cache') \in Nat
      /\ \A i \in 1 .. Len(cache') : cache'[i].uri # u /\ \E k \in 1 .. Len(cache) : cache'[i] = cache[k]
      /\ \A i, j \in 1 .. Len(cache') : cache'[i].uri = cache'[j].uri => i = j
      /\ cache = <<>> => cache' = <<>>
  <2>1. \A i, j \in 1 .. Len(cache) : cache[i].uri = cache[j].uri => i = j
    BY <1>0 DEF TextInv
  <2>2. Len(cache) =< MaxCached /\ Len(cache) \in Nat /\ MaxCached \in Nat
    BY <1>0, McpBounds DEF McpTyped
  <2> QED
    BY <1>0, <1>1, <2>1, <2>2, WithoutFacts
<1>5. /\ versions' \in [Uris -> Nat] /\ \A w \in Uris \ {u} : versions'[w] = versions[w]
      /\ reads[u] # NoRead => versions'[u] = versions[u] + 1 /\ versions[u] \in Nat
  BY <1>0, <1>1, <1>3 DEF McpTyped
<1>6. /\ pending' \subseteq Asked /\ requests' \subseteq Served!Request
      /\ Inherits /\ Sole' /\ OneAnswer' /\ nextId' \in Nat /\ nextId =< nextId'
      /\ \A r \in pending' : r.id < nextId'
      /\ \A q \in requests' : q \in requests
  BY <1>1, LessWait
<1>7. Shifts(0)
  BY <1>0, <1>1, StreamStays
<1>8. McpTyped'
  BY <1>0, <1>1, <1>2, <1>4, <1>5, <1>6 DEF McpTyped
<1>9. Grown' /\ ShutInv'
  <2>1. connection # "closed"
    BY <1>0, <1>1 DEF ShutInv
  <2> QED
    BY <1>0, <1>1, <1>4, <2>1 DEF Grown, ShutInv
<1>10. IdInv'
  BY <1>6, <1>7, IdKept
<1>11. \A p \in pending' : p.owner # "refresh"
  BY <1>0, <1>1, <1>3 DEF WaitInv, Placed
<1>12. WaitInv'
  <2>1. \A p \in pending' : Placed(p)'
    BY <1>0, <1>1, <1>11 DEF WaitInv, Placed
  <2>2. \A i \in 1 .. Len(tasks') : tasks'[i].notice.kind = "updated" => tasks'[i].notice.uri \in Uris
    BY <1>0, <1>2 DEF WaitInv
  <2> QED
    BY <1>2, <2>1, <2>2 DEF WaitInv
<1>13. TextInv'
  <2>1. ASSUME NEW w \in Uris, w # u, NEW text \in Nat, Good(w, text) PROVE Good(w, text)'
    <3>1. Served!Announced(w) => Served!Announced(w)'
      BY <1>1, <1>3, <2>1, AnnouncedTail
    <3> QED
      BY <1>1, <2>1, <3>1 DEF Good
  <2>2. \A w \in Uris : reads[w] # NoRead /\ reads[w].pc \in {"read", "subscribe"} =>
          /\ reads[w].epoch =< epoch
          /\ reads[w].epoch = epoch => reads[w].version =< versions'[w]
    <3>1. \A w \in Uris : reads[w] # NoRead => reads[w].version \in Nat /\ reads[w].text \in Nat
      BY <1>0, McpFacts, Shapes
    <3> QED
      BY <1>0, <1>5, <3>1 DEF TextInv
  <2>3. reads[u] # NoRead /\ reads[u].pc \in {"read", "subscribe"} => ~Served!Current(u)'
    <3>1. reads[u] # NoRead => reads[u].version \in Nat
      BY <1>0, <1>3, McpFacts, Shapes
    <3>2. reads[u] # NoRead /\ reads[u].pc \in {"read", "subscribe"} /\ reads[u].epoch = epoch =>
            reads[u].version < versions'[u]
      BY <1>0, <1>3, <1>5, <3>1 DEF TextInv
    <3>3. versions'[u] \in Nat
      BY <1>3, <1>5
    <3> QED
      BY <1>1, <3>1, <3>2, <3>3 DEF Served!Current
  <2>4. \A w \in Uris, text \in Nat :
          (reads[w] = NoRead \/ reads[w].pc \in {"read", "subscribe"}) /\ Fresh(w, text) => Fresh(w, text)'
    <3>1. \A w \in Uris \ {u} : Served!Current(w)' <=> Served!Current(w)
      BY <1>1, <1>5 DEF Served!Current
    <3>2. \A text \in Nat : reads[u] = NoRead \/ reads[u].pc \in {"read", "subscribe"} => Fresh(u, text)'
      BY <1>1, <2>3 DEF Fresh
    <3>3. ASSUME NEW w \in Uris \ {u}, NEW text \in Nat, Fresh(w, text) PROVE Fresh(w, text)'
      BY <1>1, <2>1, <3>1, <3>3 DEF Fresh
    <3> QED
      BY <3>2, <3>3
  <2>5. /\ \A p \in pending' : p.owner = "read" /\ p.answer \in Nat => Fresh(p.uri, p.answer)'
        /\ \A i \in 1 .. Len(stream'), p \in pending' :
             stream'[i].kind = "answer" /\ stream'[i].id = p.id /\ p.owner = "read"
                 /\ stream'[i].value \in Nat => \A v : v = stream'[i].value => Fresh(p.uri, v)'
    <3>1. \A w \in Uris : (\E p \in pending' : p.owner = "read" /\ p.uri = w /\ p.id # nextId) =>
            reads[w].pc \in {"read", "subscribe"}
      BY <1>0, <1>1 DEF WaitInv, Placed
    <3> QED
      BY <1>6, <1>7, <2>4, <3>1, AnswersFresh
  <2>6. ASSUME NEW i \in 1 .. Len(cache'), NEW w, NEW text, w = cache'[i].uri, text = cache'[i].text
        PROVE  Good(w, text)'
    <3>1. PICK k \in 1 .. Len(cache) : cache'[i] = cache[k]
      BY <1>4
    <3>2. w # u /\ w \in Uris /\ text \in Nat /\ Good(w, text)
      BY <1>0, <1>4, <2>6, <3>1, McpFacts DEF TextInv
    <3> QED
      BY <2>1, <3>2
  <2>7. \A w \in Uris : reads[w] # NoRead /\ reads[w].pc = "subscribe" =>
          \A text : text = reads[w].text => Fresh(w, text)'
    <3>1. \A w \in Uris : reads[w] # NoRead => reads[w].text \in Nat
      BY <1>0, McpFacts, Shapes
    <3>2. \A w \in Uris : reads[w] # NoRead /\ reads[w].pc = "subscribe" => Fresh(w, reads[w].text)
      BY <1>0 DEF TextInv
    <3> QED
      BY <2>4, <3>1, <3>2
  <2>8. /\ \A i \in 1 .. Len(cache') : Good(cache[i].uri, cache[i].text)'
        /\ \A w \in Uris : reads'[w] # NoRead /\ reads'[w].pc = "subscribe" => Fresh(w, reads[w].text)'
    BY <1>1, <2>6, <2>7
  <2> QED
    BY <1>1, <1>4, <2>2, <2>5, <2>8 DEF TextInv
<1>14. ToolInv'
  <2>1. ASSUME NEW version \in Nat, Known(version, 0) PROVE Known(version, 0)'
    <3>1. CASE Behind(version, 0)
      <4>1. PICK j \in 1 .. Len(tasks) : tasks[j].notice.kind = "tools" /\ tasks[j].notice.value > version
        BY <3>1 DEF Behind
      <4>2. j > 1 /\ j - 1 > 0
        BY <1>0, <1>3, <4>1, McpFacts
      <4> QED
        BY <1>2, <4>1, <4>2 DEF Known, Behind
    <3>2. CASE version = server.tools \/ After(version, 0) \/ unheard > version
      BY <1>1, <3>2 DEF Known, After
    <3> QED
      BY <2>1, <3>1, <3>2 DEF Known
  <2>2. \A version \in Nat, k \in {0, 1} :
          /\ k = 0 \/ \E p \in pending' : p.owner = "refresh"
          /\ Known(version, k)
          => Known(version, k)'
    BY <1>11, <2>1
  <2> QED
    BY <1>1, <1>6, <1>7, <2>2, ToolKept
<1>15. NoticeInv'
  <2>1. \A j \in 1 .. Len(tasks') : \E k \in 1 .. Len(tasks) : tasks[k].notice = tasks'[j].notice
    BY <1>2
  <2>2. \A i \in 1 .. Len(stream') : i + 0 \in 1 .. Len(stream)
    BY <1>0, <1>1
  <2> QED
    BY <1>1, <1>7, <2>1, <2>2, NoticeKept
<1> QED
  BY <1>8, <1>9, <1>10, <1>12, <1>13, <1>14, <1>15 DEF McpInv

(* ... and a refresh asks for the list.                                    *)
LEMMA RefreshBeginsKept ==
    ASSUME McpInv, Served!RefreshBegins
    PROVE  McpInv'
<1>0. /\ McpTyped /\ Grown /\ ShutInv /\ IdInv /\ WaitInv /\ ToolInv /\ NoticeInv /\ TextInv
      /\ stream \in Seq(Answer \cup Served!Notice) /\ tasks \in Seq(Task) /\ Len(tasks) =< MaxTasks
      /\ Len(tasks) \in Nat /\ epoch \in Nat /\ nextId \in Nat
  BY McpFacts DEF McpInv, McpTyped
<1>1. /\ tasks # <<>> /\ Head(tasks).notice.kind # "updated" /\ ~Head(tasks).asked
      /\ Served!Sends("refresh", NoRead, {})
      /\ tasks' = [tasks EXCEPT ![1].asked = TRUE]
      /\ UNCHANGED <<server, stream, reading, connection, tools, registered, reads, orphans,
                     subscriptions, changes, silent, unheard>>
  BY DEF Served!RefreshBegins, Served!MarkAllChanged, Served!content, Served!bounds
<1>2. IF Head(tasks).notice.kind = "resources"
      THEN cache' = <<>> /\ epoch' = epoch + 1 /\ versions' = [u \in Uris |-> 0]
      ELSE UNCHANGED <<cache, epoch, versions>>
  BY DEF Served!RefreshBegins, Served!MarkAllChanged, Served!content
<1>3. /\ Head(tasks) = tasks[1] /\ 1 \in 1 .. Len(tasks) /\ tasks[1] \in Task /\ ~tasks[1].asked
      /\ tasks[1].notice.kind # "updated"
  BY <1>0, <1>1, TailAt
<1>4. /\ tasks' \in Seq(Task) /\ Len(tasks') = Len(tasks) /\ tasks' # <<>>
      /\ tasks'[1].notice = tasks[1].notice /\ tasks'[1].asked
      /\ \A i \in 1 .. Len(tasks) : i # 1 => tasks'[i] = tasks[i]
  <2> DEFINE t == [tasks[1] EXCEPT !.asked = TRUE]
  <2>1. t \in Task /\ t.notice = tasks[1].notice /\ t.asked
    BY <1>3 DEF Task
  <2>2. tasks' = [tasks EXCEPT ![1] = t]
    BY <1>1
  <2> HIDE DEF t
  <2>3. tasks' \in Seq(Task) /\ Len(tasks') = Len(tasks) /\ tasks'[1] = t
        /\ \A i \in 1 .. Len(tasks) : i # 1 => tasks'[i] = tasks[i]
    BY <1>0, <1>3, <2>1, <2>2
  <2>4. tasks' # <<>>
    BY <1>0, <1>3, <2>3
  <2> QED
    BY <2>1, <2>3, <2>4
<1>5. /\ cache' \in Seq(Cached) /\ Len(cache') =< MaxCached /\ epoch' \in Nat /\ versions' \in [Uris -> Nat]
      /\ cache = <<>> => cache' = <<>>
  <2>1. CASE Head(tasks).notice.kind = "resources"
    <3>1. cache' = <<>> /\ epoch' = epoch + 1 /\ versions' = [u \in Uris |-> 0]
      BY <1>2, <2>1
    <3>2. <<>> \in Seq(Cached) /\ Len(<<>>) = 0 /\ 0 =< MaxCached
      BY McpBounds
    <3>3. cache' \in Seq(Cached) /\ Len(cache') =< MaxCached
      BY <3>1, <3>2
    <3> QED
      BY <1>0, <3>1, <3>3
  <2>2. CASE Head(tasks).notice.kind # "resources"
    BY <1>0, <1>2, <2>2 DEF McpTyped
  <2> QED
    BY <2>1, <2>2
<1>6. \A p \in pending : p.owner # "refresh"
  BY <1>0, <1>3 DEF WaitInv, Placed
<1>7. /\ pending' \subseteq Asked /\ requests' \subseteq Served!Request
      /\ Inherits /\ Sole' /\ OneAnswer' /\ nextId' \in Nat /\ nextId =< nextId' /\ nextId < nextId'
      /\ \A p \in pending' :
           /\ p.id < nextId'
           /\ \/ p \in pending
              \/ p.id = nextId /\ p.owner = "refresh" /\ p.uri = NoRead /\ p.answer = Unanswered
      /\ \A q \in requests' :
           \/ q \in requests
           \/ /\ q.id = nextId /\ nextId < nextId' /\ (q.owner \in {"read", "subscribe"} => q.uri \in Uris)
              /\ \A p \in pending' : p.id = nextId => p.owner = q.owner /\ p.uri = q.uri
  <2>1. \A p \in pending : p.owner = "refresh" /\ p.uri = NoRead => p \in {}
    BY <1>6
  <2>2. "refresh" \in Askers /\ NoRead \in Uris \cup {NoRead}
    BY DEF Askers
  <2> QED
    BY <1>1, <2>1, <2>2, SendsFacts
<1>8. Shifts(0)
  BY <1>0, <1>1, StreamStays
<1>9. McpTyped'
  <2>1. nextId' # 0
    BY <1>0, <1>7
  <2> QED
    BY <1>0, <1>1, <1>4, <1>5, <1>7, <2>1 DEF McpTyped
<1>10. Grown' /\ ShutInv'
  <2>1. connection # "closed"
    BY <1>0, <1>1 DEF ShutInv
  <2> QED
    BY <1>0, <1>1, <1>5, <2>1 DEF Grown, ShutInv
<1>11. IdInv'
  BY <1>7, <1>8, IdKept
<1>12. WaitInv'
  <2>1. \A p \in pending' : Placed(p)'
    BY <1>0, <1>1, <1>4, <1>7 DEF WaitInv, Placed
  <2>2. ASSUME NEW i \in 1 .. Len(tasks')
        PROVE  /\ tasks'[i].asked => i = 1 /\ tasks'[i].notice.kind # "updated"
               /\ tasks'[i].notice.kind = "updated" => tasks'[i].notice.uri \in Uris
    <3>1. CASE i = 1
      BY <1>3, <1>4, <3>1
    <3>2. CASE i # 1
      BY <1>0, <1>4, <3>2 DEF WaitInv
    <3> QED
      BY <3>1, <3>2
  <2> QED
    BY <2>1, <2>2 DEF WaitInv
<1>13. TextInv'
  <2>1. CASE Head(tasks).notice.kind = "resources"
    BY <1>1, <1>2, <1>12, <2>1, TextReset
  <2>2. CASE Head(tasks).notice.kind # "resources"
    <3>1. tasks[1].notice.kind = "tools"
      <4>1. tasks[1].notice \in Served!Notice
        BY <1>3 DEF Task
      <4>2. tasks[1].notice.kind \in {"tools", "updated", "resources"}
        BY <4>1, Shapes
      <4> QED
        BY <1>3, <2>2, <4>2
    <3>2. ASSUME NEW j \in 1 .. Len(tasks)
          PROVE  \E k \in 1 .. Len(tasks') : /\ tasks'[k].notice = tasks[j].notice
                                             /\ tasks'[k].asked = tasks[j].asked \/ tasks[j].notice.kind = "tools"
      <4>1. /\ tasks'[j].notice = tasks[j].notice
            /\ tasks'[j].asked = tasks[j].asked \/ tasks[j].notice.kind = "tools"
        BY <1>4, <3>1
      <4> QED
        BY <1>4, <4>1
    <3>3. \A u \in Uris : Served!Announced(u) => Served!Announced(u)'
      BY <1>0, <1>8, <1>9, <3>2, AnnouncedKept
    <3> QED
      BY <1>1, <1>2, <1>7, <1>8, <2>2, <3>3, GoodKept, TextKept
  <2> QED
    BY <2>1, <2>2
<1>14. \A j \in 1 .. Len(tasks) : j \in 1 .. Len(tasks') /\ tasks'[j].notice = tasks[j].notice
  BY <1>4
<1>15. ToolInv'
  <2>1. \A version \in Nat, k \in {0, 1} : Known(version, k) => Known(version, k)'
    BY <1>1, <1>8, <1>14, KnownKept
  <2> QED
    BY <1>1, <1>7, <1>8, <2>1, ToolKept
<1>16. NoticeInv'
  <2>1. \A j \in 1 .. Len(tasks') : \E k \in 1 .. Len(tasks) : tasks[k].notice = tasks'[j].notice
    BY <1>4, <1>14
  <2>2. \A i \in 1 .. Len(stream') : i + 0 \in 1 .. Len(stream)
    BY <1>0, <1>1
  <2> QED
    BY <1>1, <1>8, <2>1, <2>2, NoticeKept
<1> QED
  BY <1>9, <1>10, <1>11, <1>12, <1>13, <1>15, <1>16 DEF McpInv

(* ... and takes the answer, or leaves the list as it is.                  *)
LEMMA RefreshEndsKept ==
    ASSUME McpInv, Served!RefreshEnds
    PROVE  McpInv'
<1>0. /\ McpTyped /\ Grown /\ ShutInv /\ IdInv /\ WaitInv /\ ToolInv /\ NoticeInv /\ TextInv
      /\ stream \in Seq(Answer \cup Served!Notice) /\ nextId \in Nat /\ unheard \in Nat /\ tools \in Nat
      /\ server.tools \in Nat
  BY McpFacts DEF McpInv, McpTyped
<1>1. /\ tasks # <<>> /\ Head(tasks).asked /\ tasks' = Tail(tasks)
      /\ UNCHANGED <<server, stream, reading, connection, cache, reads, orphans, epoch, versions,
                     subscriptions, changes, silent>>
  BY DEF Served!RefreshEnds, Served!content
<1>2. PICK p \in Served!Answered("refresh", NoRead), valid \in BOOLEAN :
        /\ Served!Resumes({p})
        /\ IF p.answer = Failed \/ ~valid
           THEN /\ unheard' = IF Head(tasks).notice.kind = "tools" /\ Head(tasks).notice.value > unheard
                              THEN Head(tasks).notice.value ELSE unheard
                /\ UNCHANGED <<tools, registered>>
           ELSE /\ tools' = IF Head(tasks).notice.kind = "tools" THEN p.answer ELSE tools
                /\ registered' = IF connection = "open" THEN tools' ELSE registered
                /\ UNCHANGED unheard
  BY DEF Served!RefreshEnds, Served!RegisterRefreshed
<1>3. /\ p \in pending /\ p.owner = "refresh" /\ p.uri = NoRead /\ p.answer # Unanswered
      /\ pending' = pending \ {p} /\ UNCHANGED <<nextId, requests>>
      /\ p.answer \in Texts \cup {Failed}
  <2>1. /\ p \in pending /\ p.owner = "refresh" /\ p.uri = NoRead /\ p.answer # Unanswered
        /\ pending' = pending \ {p} /\ UNCHANGED <<nextId, requests>>
    BY <1>2 DEF Served!Answered, Served!Resumes
  <2> QED
    BY <1>0, <2>1, McpFacts
<1>4. /\ tasks' \in Seq(Task) /\ Len(tasks') =< MaxTasks /\ Len(tasks') \in Nat
      /\ Head(tasks) = tasks[1] /\ 1 \in 1 .. Len(tasks)
      /\ \A i \in 1 .. Len(tasks') : i + 1 \in 1 .. Len(tasks) /\ tasks'[i] = tasks[i + 1] /\ ~tasks'[i].asked
      /\ \A j \in 1 .. Len(tasks) : j > 1 => j - 1 \in 1 .. Len(tasks') /\ tasks'[j - 1] = tasks[j]
  BY <1>1, TasksTail
<1>5. /\ tasks[1].asked /\ tasks[1].notice.kind # "updated" /\ tasks[1].notice.value \in Nat
      /\ tasks[1].notice.value \in Texts
  <2>1. tasks[1].notice \in Served!Notice /\ tasks[1].notice.value \in Nat
    BY <1>0, <1>4, McpFacts
  <2> QED
    BY <1>0, <1>1, <1>4, <2>1, Shapes DEF WaitInv
<1>6. /\ pending' \subseteq Asked /\ requests' \subseteq Served!Request
      /\ Inherits /\ Sole' /\ OneAnswer' /\ nextId' \in Nat /\ nextId =< nextId'
      /\ \A r \in pending' : r.id < nextId'
      /\ \A q \in requests' : q \in requests
  BY <1>3, LessWait
<1>7. Shifts(0)
  BY <1>0, <1>1, StreamStays
<1>8. \A r \in pending' : r \in pending /\ r.owner # "refresh"
  BY <1>0, <1>3 DEF IdInv, Sole, WaitInv, Placed
<1>9. /\ unheard' \in Texts /\ unheard' \in Nat /\ unheard =< unheard' /\ unheard' =< server.tools
      /\ unheard' = unheard \/ (unheard' = tasks[1].notice.value /\ tasks[1].notice.kind = "tools")
  <2>1. tasks[1].notice.kind = "tools" => tasks[1].notice.value =< server.tools
    BY <1>0, <1>4 DEF NoticeInv
  <2>2. unheard \in Texts /\ unheard =< server.tools
    BY <1>0 DEF Grown, McpTyped
  <2>3. CASE p.answer = Failed \/ ~valid
    <3>1. unheard' = IF tasks[1].notice.kind = "tools" /\ tasks[1].notice.value > unheard
                     THEN tasks[1].notice.value ELSE unheard
      BY <1>2, <1>4, <2>3
    <3> QED
      BY <1>0, <1>5, <2>1, <2>2, <3>1
  <2>4. CASE ~(p.answer = Failed \/ ~valid)
    BY <1>0, <1>2, <2>2, <2>4
  <2> QED
    BY <2>3, <2>4
<1>10. /\ tools' \in Texts /\ registered' \in Texts
       /\ connection # "open" => registered' = registered
       /\ connection = "open" => registered' = tools'
  <2>1. tools \in Texts /\ registered \in Texts /\ (connection = "open" => registered = tools)
    BY <1>0 DEF McpTyped, ToolInv
  <2>2. CASE p.answer = Failed \/ ~valid
    BY <1>2, <2>1, <2>2
  <2>3. CASE ~(p.answer = Failed \/ ~valid)
    <3>1. tools' = IF Head(tasks).notice.kind = "tools" THEN p.answer ELSE tools
      BY <1>2, <2>3
    <3>2. registered' = IF connection = "open" THEN tools' ELSE registered
      BY <1>2, <2>3
    <3>3. p.answer \in Texts
      BY <1>3, <2>3
    <3> QED
      BY <2>1, <3>1, <3>2, <3>3
  <2> QED
    BY <2>2, <2>3
<1>11. McpTyped'
  BY <1>0, <1>1, <1>3, <1>4, <1>6, <1>9, <1>10 DEF McpTyped
<1>12. Grown' /\ ShutInv'
  <2>1. connection # "closed"
    BY <1>0, <1>1 DEF ShutInv
  <2>2. Grown'
    BY <1>0, <1>1, <1>9 DEF Grown
  <2> QED
    BY <1>0, <1>1, <1>10, <2>1, <2>2 DEF ShutInv
<1>13. IdInv'
  BY <1>6, <1>7, IdKept
<1>14. WaitInv'
  <2>1. \A r \in pending' : Placed(r)'
    BY <1>0, <1>1, <1>8 DEF WaitInv, Placed
  <2>2. \A i \in 1 .. Len(tasks') : tasks'[i].notice.kind = "updated" => tasks'[i].notice.uri \in Uris
    BY <1>0, <1>4 DEF WaitInv
  <2> QED
    BY <1>4, <2>1, <2>2 DEF WaitInv
<1>15. TextInv'
  <2>1. \A u \in Uris : Served!Announced(u) => Served!Announced(u)'
    BY <1>1, <1>5, AnnouncedTail
  <2> QED
    BY <1>1, <1>6, <1>7, <2>1, GoodKept, TextKept
<1>16. ToolInv'
  <2>1. ASSUME NEW version \in Nat, version = server.tools \/ After(version, 0) \/ unheard > version
        PROVE  Known(version, 0)'
    <3>1. unheard > version => unheard' > version
      BY <1>0, <1>9
    <3> QED
      BY <1>1, <2>1, <3>1 DEF Known, After
  <2>2. ASSUME NEW version \in Nat, NEW j \in 1 .. Len(tasks), j > 1, tasks[j].notice.kind = "tools",
               tasks[j].notice.value > version
        PROVE  Known(version, 0)'
    <3>1. j - 1 > 0
      BY <2>2
    <3> QED
      BY <1>4, <2>2, <3>1 DEF Known, Behind
  <2>3. CASE p.answer = Failed \/ ~valid
    <3>1. ASSUME NEW version \in Nat, Known(version, 0) PROVE Known(version, 0)'
      <4>1. CASE Behind(version, 0)
        <5>1. PICK j \in 1 .. Len(tasks) : tasks[j].notice.kind = "tools" /\ tasks[j].notice.value > version
          BY <4>1 DEF Behind
        <5>2. CASE j = 1
          <6>1. unheard' = IF tasks[1].notice.kind = "tools" /\ tasks[1].notice.value > unheard
                           THEN tasks[1].notice.value ELSE unheard
            BY <1>2, <1>4, <2>3
          <6>2. unheard' > version
            BY <1>0, <1>5, <5>1, <5>2, <6>1
          <6> QED
            BY <6>2 DEF Known
        <5>3. CASE j # 1
          <6>1. j > 1
            BY <1>0, <5>3, McpFacts
          <6> QED
            BY <2>2, <5>1, <6>1
        <5> QED
          BY <5>2, <5>3
      <4>2. CASE version = server.tools \/ After(version, 0) \/ unheard > version
        BY <2>1, <4>2
      <4> QED
        BY <3>1, <4>1, <4>2 DEF Known
    <3>2. \A version \in Nat, k \in {0, 1} :
            /\ k = 0 \/ \E r \in pending' : r.owner = "refresh"
            /\ Known(version, k)
            => Known(version, k)'
      BY <1>8, <3>1
    <3>3. UNCHANGED <<tools, registered>>
      BY <1>2, <2>3
    <3> QED
      BY <1>1, <1>6, <1>7, <3>2, <3>3, ToolKept
  <2>4. CASE ~(p.answer = Failed \/ ~valid)
    <3>1. p.answer \in Texts /\ p.answer \in Nat
      BY <1>3, <2>4, McpBounds
    <3>2. tools' = IF tasks[1].notice.kind = "tools" THEN p.answer ELSE tools
      BY <1>2, <1>4, <2>4
    <3>3. Known(p.answer, 1)
      BY <1>0, <1>3, <3>1 DEF ToolInv
    <3>4. ASSUME NEW v, v = p.answer PROVE Known(v, 0)'
      <4>1. CASE Behind(v, 1)
        BY <2>2, <3>1, <3>4, <4>1 DEF Behind
      <4>2. CASE v = server.tools \/ After(v, 0) \/ unheard > v
        BY <2>1, <3>1, <3>4, <4>2
      <4> QED
        BY <3>3, <3>4, <4>1, <4>2 DEF Known
    <3>5. ASSUME NEW v, v = tools, connection \in {"started", "open"}, tasks[1].notice.kind # "tools"
          PROVE  Known(v, 0)'
      <4>1. Known(v, 0)
        BY <1>0, <3>5 DEF ToolInv
      <4>2. CASE Behind(v, 0)
        <5>1. PICK j \in 1 .. Len(tasks) : tasks[j].notice.kind = "tools" /\ tasks[j].notice.value > v
          BY <4>2 DEF Behind
        <5>2. j > 1
          BY <1>0, <3>5, <5>1, McpFacts
        <5> QED
          BY <1>0, <2>2, <3>5, <5>1, <5>2
      <4>3. CASE v = server.tools \/ After(v, 0) \/ unheard > v
        BY <1>0, <2>1, <3>5, <4>3
      <4> QED
        BY <4>1, <4>2, <4>3 DEF Known
    <3>6. connection' \in {"started", "open"} => \A v : v = tools' => Known(v, 0)'
      BY <1>1, <3>2, <3>4, <3>5
    <3>7. \A r \in pending' : r.answer \notin Nat
      BY <1>0, <1>3, <1>8, <3>1 DEF IdInv, OneAnswer
    <3>8. \A i \in 1 .. Len(stream'), r \in pending' :
            stream'[i].kind = "answer" /\ stream'[i].id = r.id /\ r.owner \in {"start", "refresh"}
                /\ stream'[i].value \in Nat =>
                    \/ stream'[i].value = server'.tools
                    \/ \A v : v = stream'[i].value => After(v, i)'
      BY <1>0, <1>1, <1>8 DEF ToolInv, After
    <3>9. connection' \in {"started", "open"} => Known(tools, 0)'
      BY <3>6
    <3> QED
      BY <1>1, <1>10, <3>7, <3>8, <3>9 DEF ToolInv
  <2> QED
    BY <2>3, <2>4
<1>17. NoticeInv'
  <2>1. \A i \in 1 .. Len(stream') : stream'[i].kind = "tools" =>
          unheard' < stream'[i].value /\ stream'[i].value =< server'.tools
    BY <1>0, <1>1, <1>4, <1>9 DEF NoticeInv
  <2>2. \A i, j \in 1 .. Len(stream') :
          i < j /\ stream'[i].kind = "tools" /\ stream'[j].kind = "tools" => stream'[i].value < stream'[j].value
    BY <1>0, <1>1 DEF NoticeInv
  <2>3. \A i \in 1 .. Len(tasks') : tasks'[i].notice.kind = "tools" =>
          /\ tasks'[i].notice.value =< server'.tools
          /\ \A j \in 1 .. Len(stream') : stream'[j].kind = "tools" => tasks'[i].notice.value < stream'[j].value
    BY <1>0, <1>1, <1>4 DEF NoticeInv
  <2> QED
    BY <2>1, <2>2, <2>3 DEF NoticeInv
<1> QED
  BY <1>11, <1>12, <1>13, <1>14, <1>15, <1>16, <1>17 DEF McpInv

(* A step of one read: it becomes new, nobody else waits for it, and what  *)
(* it has cached and kept of the resource is the server's text or there is *)
(* word of the change.                                                     *)
LEMMA ReadStep ==
    ASSUME McpInv, NEW u \in Uris, NEW new \in Served!Read \cup {NoRead},
           connection \notin {"closed", "init"}, reads' = [reads EXCEPT ![u] = new],
           UNCHANGED <<server, stream, reading, connection, tasks, tools, registered, epoch,
                       changes, silent, unheard>>,
           orphans' \subseteq Uris, subscriptions' \subseteq Uris, versions' \in [Uris -> Nat],
           \A w \in Uris \ {u} : versions'[w] = versions[w],
           pending' \subseteq Asked, requests' \subseteq Served!Request,
           Inherits, Sole', OneAnswer', nextId' \in Nat, nextId =< nextId',
           \A q \in requests' :
               \/ q \in requests
               \/ /\ q.id = nextId /\ nextId < nextId' /\ (q.owner \in {"read", "subscribe"} => q.uri \in Uris)
                  /\ \A p \in pending' : p.id = nextId => p.owner = q.owner /\ p.uri = q.uri,
           \A p \in pending' :
               /\ p.id < nextId'
               /\ \/ p \in pending /\ ~(p.owner \in {"read", "subscribe"} /\ p.uri = u)
                  \/ /\ p.id = nextId /\ p.uri = u /\ p.answer = Unanswered
                     /\ new # NoRead /\ p.owner = new.pc /\ new.pc \in {"read", "subscribe"},
           new # NoRead /\ new.pc \in {"read", "subscribe"} =>
               /\ new.epoch =< epoch
               /\ new.epoch = epoch => new.version =< versions'[u]
               /\ new.pc = "subscribe" /\ new.epoch = epoch /\ new.version = versions'[u] => Good(u, new.text),
           cache' \in Seq(Cached), Len(cache') =< MaxCached,
           \A i \in 1 .. Len(cache') : Good(cache'[i].uri, cache'[i].text),
           \A i, j \in 1 .. Len(cache') : cache'[i].uri = cache'[j].uri => i = j
    PROVE  McpInv'
<1>0. /\ McpTyped /\ Grown /\ ShutInv /\ IdInv /\ WaitInv /\ ToolInv /\ NoticeInv /\ TextInv
      /\ stream \in Seq(Answer \cup Served!Notice) /\ nextId \in Nat /\ nextId # 0
  BY DEF McpInv, McpTyped
<1>1. /\ reads' \in [Uris -> Served!Read \cup {NoRead}] /\ reads'[u] = new
      /\ \A w \in Uris \ {u} : reads'[w] = reads[w]
  BY <1>0 DEF McpTyped
<1>2. Shifts(0)
  BY <1>0, StreamStays
<1>3. McpTyped'
  <2>1. nextId' # 0
    BY <1>0
  <2> QED
    BY <1>0, <1>1, <2>1 DEF McpTyped
<1>4. Grown' /\ ShutInv'
  <2>1. Grown'
    BY <1>0 DEF Grown
  <2> QED
    BY <1>0, <2>1 DEF ShutInv
<1>5. IdInv'
  BY <1>2, IdKept
<1>6. WaitInv'
  <2>1. ASSUME NEW p \in pending' PROVE Placed(p)'
    <3>1. CASE p \in pending /\ ~(p.owner \in {"read", "subscribe"} /\ p.uri = u)
      <4>1. Placed(p)
        BY <1>0, <3>1 DEF WaitInv
      <4> QED
        BY <1>1, <3>1, <4>1 DEF Placed
    <3>2. CASE /\ p.id = nextId /\ p.uri = u /\ p.answer = Unanswered
               /\ new # NoRead /\ p.owner = new.pc /\ new.pc \in {"read", "subscribe"}
      BY <1>1, <3>2 DEF Placed
    <3> QED
      BY <3>1, <3>2
  <2> QED
    BY <1>0, <2>1 DEF WaitInv
<1>7. \A w, text : Good(w, text) => Good(w, text)'
  BY DEF Good, Served!Announced
<1>8. TextInv'
  <2>1. \A w \in Uris \ {u} : \A text : Fresh(w, text) => Fresh(w, text)'
    BY <1>1, <1>7 DEF Fresh, Served!Current
  <2>2. ASSUME NEW i \in 1 .. Len(cache'), NEW w, NEW text, w = cache'[i].uri, text = cache'[i].text
        PROVE  Good(w, text)'
    BY <1>7, <2>2
  <2>3. ASSUME NEW w \in Uris, reads'[w] # NoRead, reads'[w].pc \in {"read", "subscribe"}
        PROVE  /\ reads'[w].epoch =< epoch
               /\ reads'[w].epoch = epoch => reads'[w].version =< versions'[w]
               /\ reads'[w].pc = "subscribe" => \A text : text = reads'[w].text => Fresh(w, text)'
    <3>1. CASE w = u
      <4>1. reads'[w] = new
        BY <1>1, <3>1
      <4>2. ASSUME reads'[w].pc = "subscribe", NEW text, text = reads'[w].text
            PROVE  Fresh(w, text)'
        <5>0. Served!Current(u)' => reads'[u].epoch = epoch /\ reads'[u].version = versions'[u]
          BY DEF Served!Current
        <5>1. Served!Current(u)' => Good(u, new.text)
          BY <1>1, <2>3, <3>1, <4>1, <4>2, <5>0
        <5>2. Served!Current(u)' => Good(u, text)
          BY <4>1, <4>2, <5>1
        <5>3. Served!Current(u)' => Good(u, text)'
          BY <1>7, <5>2
        <5> QED
          BY <3>1, <5>3 DEF Fresh
      <4> QED
        BY <2>3, <3>1, <4>1, <4>2
    <3>2. CASE w # u
      BY <1>0, <1>1, <2>1, <2>3, <3>2 DEF TextInv
    <3> QED
      BY <3>1, <3>2
  <2>4. /\ \A p \in pending' : p.owner = "read" /\ p.answer \in Nat => Fresh(p.uri, p.answer)'
        /\ \A i \in 1 .. Len(stream'), p \in pending' :
             stream'[i].kind = "answer" /\ stream'[i].id = p.id /\ p.owner = "read"
                 /\ stream'[i].value \in Nat => \A v : v = stream'[i].value => Fresh(p.uri, v)'
    <3>1. \A p \in pending' : p.owner = "read" /\ p.id # nextId => p.uri # u
      OBVIOUS
    <3>2. \A w \in Uris, text \in Nat :
            /\ \E p \in pending' : p.owner = "read" /\ p.uri = w /\ p.id # nextId
            /\ Fresh(w, text)
            => Fresh(w, text)'
      BY <2>1, <3>1
    <3> QED
      BY <1>2, <3>2, AnswersFresh
  <2>5. /\ \A i \in 1 .. Len(cache') : Good(cache[i].uri, cache[i].text)'
        /\ \A w \in Uris : reads'[w] # NoRead /\ reads'[w].pc = "subscribe" => Fresh(w, reads[w].text)'
    BY <2>2, <2>3
  <2>6. \A w \in Uris : reads'[w] # NoRead /\ reads'[w].pc \in {"read", "subscribe"} =>
          /\ reads'[w].epoch =< epoch'
          /\ reads'[w].epoch = epoch' => reads'[w].version =< versions'[w]
    BY <2>3
  <2> QED
    BY <2>4, <2>5, <2>6 DEF TextInv
<1>9. ToolInv'
  <2>1. \A version \in Nat, k \in {0, 1} : Known(version, k) => Known(version, k)'
    BY DEF Known, After, Behind
  <2> QED
    BY <1>2, <2>1, ToolKept
<1>10. NoticeInv'
  BY <1>0 DEF NoticeInv
<1> QED
  BY <1>3, <1>4, <1>5, <1>6, <1>8, <1>9, <1>10 DEF McpInv

(* What the cache holds when it takes a text, ...                          *)
LEMMA CacheTakes ==
    ASSUME McpInv, NEW u \in Uris, NEW text \in Texts, Good(u, text), Served!CacheResource(u, text)
    PROVE  /\ cache' \in Seq(Cached) /\ Len(cache') =< MaxCached
           /\ \A i \in 1 .. Len(cache') : Good(cache'[i].uri, cache'[i].text)
           /\ \A i, j \in 1 .. Len(cache') : cache'[i].uri = cache'[j].uri => i = j
<1> DEFINE others == Served!Without(u)
           room == IF Len(others) >= MaxCached THEN Tail(others) ELSE others
           e == [uri |-> u, text |-> text]
<1>0. McpTyped /\ TextInv /\ MaxCached \in Nat /\ Len(cache) =< MaxCached /\ Len(cache) \in Nat
  BY McpBounds DEF McpInv, McpTyped
<1>1. CASE MaxCached = 0
  <2>1. cache' = <<>>
    BY <1>1 DEF Served!CacheResource
  <2>2. <<>> \in Seq(Cached) /\ Len(<<>>) = 0 /\ 0 =< MaxCached
    BY <1>0
  <2>3. cache' \in Seq(Cached) /\ Len(cache') = 0
    BY <2>1, <2>2
  <2> QED
    BY <1>0, <2>3
<1>2. CASE MaxCached # 0
  <2>1. cache' = Append(room, e)
    BY <1>2 DEF Served!CacheResource
  <2>2. /\ others \in Seq(Cached) /\ Len(others) =< Len(cache) /\ Len(others) \in Nat
        /\ \A i \in 1 .. Len(others) : others[i].uri # u /\ \E k \in 1 .. Len(cache) : others[i] = cache[k]
        /\ \A i, j \in 1 .. Len(others) : others[i].uri = others[j].uri => i = j
    <3>1. \A i, j \in 1 .. Len(cache) : cache[i].uri = cache[j].uri => i = j
      BY <1>0 DEF TextInv
    <3> QED
      BY <1>0, <3>1, WithoutFacts
  <2> HIDE DEF others
  <2>3. /\ room \in Seq(Cached) /\ Len(room) \in Nat /\ Len(room) + 1 =< MaxCached
        /\ \A i \in 1 .. Len(room) : room[i].uri # u /\ \E k \in 1 .. Len(cache) : room[i] = cache[k]
        /\ \A i, j \in 1 .. Len(room) : room[i].uri = room[j].uri => i = j
    <3>1. CASE Len(others) >= MaxCached
      <4>1. others # <<>>
        BY <1>0, <1>2, <3>1
      <4>2. room = Tail(others)
        BY <3>1
      <4>3. /\ room \in Seq(Cached) /\ Len(room) = Len(others) - 1 /\ Len(others) # 0
            /\ \A i \in 1 .. Len(room) : i + 1 \in 1 .. Len(others) /\ room[i] = others[i + 1]
        BY <2>2, <4>1, <4>2, TailAt
      <4> HIDE DEF room
      <4>4. Len(room) \in Nat /\ Len(room) + 1 =< MaxCached
        BY <1>0, <2>2, <4>3
      <4>5. ASSUME NEW i \in 1 .. Len(room)
            PROVE  room[i].uri # u /\ \E k \in 1 .. Len(cache) : room[i] = cache[k]
        <5>1. i + 1 \in 1 .. Len(others) /\ room[i] = others[i + 1]
          BY <4>3
        <5>2. others[i + 1].uri # u /\ \E k \in 1 .. Len(cache) : others[i + 1] = cache[k]
          BY <2>2, <5>1
        <5> QED
          BY <5>1, <5>2
      <4>6. ASSUME NEW i \in 1 .. Len(room), NEW j \in 1 .. Len(room), room[i].uri = room[j].uri PROVE i = j
        <5>0. /\ i + 1 \in 1 .. Len(others) /\ room[i] = others[i + 1]
              /\ j + 1 \in 1 .. Len(others) /\ room[j] = others[j + 1]
          BY <4>3
        <5>a. others[i + 1].uri = others[j + 1].uri
          BY <4>6, <5>0
        <5>1. i + 1 = j + 1
          BY <2>2, <5>0, <5>a
        <5> QED
          BY <4>4, <5>1
      <4> QED
        BY <4>3, <4>4, <4>5, <4>6
    <3>2. CASE ~(Len(others) >= MaxCached)
      <4>1. room = others
        BY <3>2
      <4> HIDE DEF room
      <4> QED
        BY <1>0, <2>2, <3>2, <4>1
    <3> QED
      BY <3>1, <3>2
  <2> HIDE DEF room
  <2>4. e \in Cached /\ e.uri = u /\ e.text = text
    BY DEF Cached
  <2> HIDE DEF e
  <2> DEFINE s == Append(room, e)
  <2>5. /\ s \in Seq(Cached) /\ Len(s) = Len(room) + 1
        /\ \A i \in 1 .. Len(room) : s[i] = room[i]
        /\ s[Len(room) + 1] = e
        /\ \A i \in 1 .. Len(s) : i \in 1 .. Len(room) \/ i = Len(room) + 1
    BY <2>3, <2>4, AppendAt
  <2>6. cache' = s
    BY <2>1
  <2> HIDE DEF s
  <2>7. \A i \in 1 .. Len(s) : Good(s[i].uri, s[i].text)
    <3>1. \A k \in 1 .. Len(cache) : Good(cache[k].uri, cache[k].text)
      BY <1>0 DEF TextInv
    <3>2. \A i \in 1 .. Len(room) : Good(room[i].uri, room[i].text)
      BY <2>3, <3>1
    <3> QED
      BY <2>4, <2>5, <3>2
  <2>8. \A i, j \in 1 .. Len(s) : s[i].uri = s[j].uri => i = j
    BY <2>3, <2>4, <2>5
  <2>9. Len(s) =< MaxCached
    BY <2>3, <2>5
  <2> QED
    BY <2>5, <2>6, <2>7, <2>8, <2>9
<1> QED
  BY <1>1, <1>2

(* ... and when one of its texts is the newest use.                        *)
LEMMA CacheUses ==
    ASSUME McpInv, NEW u \in Uris, \E i \in DOMAIN cache : cache[i].uri = u,
           cache' = Append(Served!Without(u), CHOOSE c \in Served!ToSet(cache) : c.uri = u)
    PROVE  /\ cache' \in Seq(Cached) /\ Len(cache') =< MaxCached
           /\ \A i \in 1 .. Len(cache') : \E k \in 1 .. Len(cache) : cache'[i] = cache[k]
           /\ \A i, j \in 1 .. Len(cache') : cache'[i].uri = cache'[j].uri => i = j
<1> DEFINE others == Served!Without(u)
           e == CHOOSE c \in Served!ToSet(cache) : c.uri = u
           s == Append(others, e)
<1>0. /\ McpTyped /\ TextInv /\ MaxCached \in Nat /\ Len(cache) =< MaxCached /\ Len(cache) \in Nat
      /\ DOMAIN cache = 1 .. Len(cache)
  BY McpBounds DEF McpInv, McpTyped
<1>1. e.uri = u /\ \E k \in 1 .. Len(cache) : e = cache[k]
  <2>1. \E c \in Served!ToSet(cache) : c.uri = u
    BY DEF Served!ToSet
  <2>2. e \in Served!ToSet(cache) /\ e.uri = u
    BY <2>1
  <2> QED
    BY <1>0, <2>2 DEF Served!ToSet
<1>2. e \in Cached
  BY <1>0, <1>1, McpFacts
<1> HIDE DEF e
<1>3. /\ others \in Seq(Cached) /\ Len(others) \in Nat /\ Len(others) + 1 = Len(cache)
      /\ \A i \in 1 .. Len(others) : others[i].uri # u /\ \E k \in 1 .. Len(cache) : others[i] = cache[k]
      /\ \A i, j \in 1 .. Len(others) : others[i].uri = others[j].uri => i = j
  <2>1. \A i, j \in 1 .. Len(cache) : cache[i].uri = cache[j].uri => i = j
    BY <1>0 DEF TextInv
  <2> QED
    BY <1>0, <2>1, WithoutFacts
<1> HIDE DEF others
<1>4. /\ s \in Seq(Cached) /\ Len(s) = Len(others) + 1
      /\ \A i \in 1 .. Len(others) : s[i] = others[i]
      /\ s[Len(others) + 1] = e
      /\ \A i \in 1 .. Len(s) : i \in 1 .. Len(others) \/ i = Len(others) + 1
  BY <1>2, <1>3, AppendAt
<1>5. cache' = s
  BY DEF others, e
<1> HIDE DEF s
<1>6. \A i \in 1 .. Len(s) : \E k \in 1 .. Len(cache) : s[i] = cache[k]
  BY <1>1, <1>3, <1>4
<1>7. \A i, j \in 1 .. Len(s) : s[i].uri = s[j].uri => i = j
  BY <1>1, <1>3, <1>4
<1>8. Len(s) =< MaxCached
  BY <1>0, <1>3, <1>4
<1> QED
  BY <1>4, <1>5, <1>6, <1>7, <1>8

(* A read asks for the text, ...                                           *)
LEMMA ReadAttempts ==
    ASSUME McpInv, NEW u \in Uris, NEW n \in 1 .. 2, NEW answered, Served!Attempt(u, n, answered),
           reads[u] # NoRead, subscriptions' \subseteq Uris,
           \A p \in pending : p.owner \in {"read", "subscribe"} /\ p.uri = u => p \in answered,
           UNCHANGED <<server, stream, reading, connection, tasks, tools, registered, orphans, epoch,
                       versions, changes, silent, unheard>>
    PROVE  McpInv'
<1> DEFINE new == [pc |-> "read", attempt |-> n, epoch |-> epoch, version |-> versions[u], text |-> 0]
<1>0. McpTyped /\ TextInv /\ ShutInv /\ epoch \in Nat /\ versions[u] \in Nat
  BY DEF McpInv, McpTyped
<1>1. /\ Served!Sends("read", u, answered) /\ cache' = cache
      /\ reads' = [reads EXCEPT ![u] = new]
  BY DEF Served!Attempt
<1>2. /\ new \in Served!Read \cup {NoRead} /\ new # NoRead /\ new.pc = "read" /\ new.epoch = epoch
      /\ new.version = versions[u]
  BY <1>0, McpBounds DEF Served!Read
<1> HIDE DEF new
<1>3. /\ pending' \subseteq Asked /\ requests' \subseteq Served!Request
      /\ Inherits /\ Sole' /\ OneAnswer' /\ nextId' \in Nat /\ nextId =< nextId' /\ nextId < nextId'
      /\ \A p \in pending' : /\ p.id < nextId'
                             /\ \/ p \in pending /\ p \notin answered
                                \/ p.id = nextId /\ p.owner = "read" /\ p.uri = u /\ p.answer = Unanswered
      /\ \A q \in requests' :
          \/ q \in requests
          \/ /\ q.id = nextId /\ nextId < nextId' /\ (q.owner \in {"read", "subscribe"} => q.uri \in Uris)
             /\ \A p \in pending' : p.id = nextId => p.owner = q.owner /\ p.uri = q.uri
  <2>1. "read" \in Askers /\ u \in Uris \cup {NoRead}
    BY DEF Askers
  <2>2. \A p \in pending : p.owner = "read" /\ p.uri = u => p \in answered
    OBVIOUS
  <2> QED
    BY <1>1, <2>1, <2>2, SendsFacts
<1>4. \A p \in pending' :
        /\ p.id < nextId'
        /\ \/ p \in pending /\ ~(p.owner \in {"read", "subscribe"} /\ p.uri = u)
           \/ /\ p.id = nextId /\ p.uri = u /\ p.answer = Unanswered
              /\ new # NoRead /\ p.owner = new.pc /\ new.pc \in {"read", "subscribe"}
  BY <1>2, <1>3
<1>5. /\ cache' \in Seq(Cached) /\ Len(cache') =< MaxCached
      /\ \A i \in 1 .. Len(cache') : Good(cache'[i].uri, cache'[i].text)
      /\ \A i, j \in 1 .. Len(cache') : cache'[i].uri = cache'[j].uri => i = j
  BY <1>0, <1>1 DEF McpTyped, TextInv
<1>6. /\ connection \notin {"closed", "init"} /\ orphans' \subseteq Uris /\ versions' \in [Uris -> Nat]
      /\ \A w \in Uris \ {u} : versions'[w] = versions[w]
  BY <1>0 DEF McpTyped, ShutInv
<1>7. new # NoRead /\ new.pc \in {"read", "subscribe"} =>
        /\ new.epoch =< epoch
        /\ new.epoch = epoch => new.version =< versions'[u]
        /\ new.pc = "subscribe" /\ new.epoch = epoch /\ new.version = versions'[u] => Good(u, new.text)
  BY <1>0, <1>2
<1> QED
  BY <1>1, <1>2, <1>3, <1>4, <1>5, <1>6, <1>7, ReadStep

(* ... or is done, with what it leaves in the cache.                       *)
LEMMA ReadDone ==
    ASSUME McpInv, NEW u \in Uris, NEW answered, Served!Ends(u, answered),
           reads[u] # NoRead, subscriptions' \subseteq Uris,
           \A p \in pending : p.owner \in {"read", "subscribe"} /\ p.uri = u => p \in answered,
           cache' \in Seq(Cached), Len(cache') =< MaxCached,
           \A i \in 1 .. Len(cache') : Good(cache'[i].uri, cache'[i].text),
           \A i, j \in 1 .. Len(cache') : cache'[i].uri = cache'[j].uri => i = j,
           UNCHANGED <<server, stream, reading, connection, tasks, tools, registered, orphans, epoch,
                       versions, changes, silent, unheard>>
    PROVE  McpInv'
<1> DEFINE new == [reads[u] EXCEPT !.pc = "done"]
<1>0. McpTyped /\ ShutInv /\ reads[u] \in Served!Read /\ NoRead \notin Served!Read
  BY McpBounds DEF McpInv, McpTyped
<1>1. /\ pending' = pending \ answered /\ UNCHANGED <<nextId, requests>>
      /\ reads' = [reads EXCEPT ![u] = new]
  BY DEF Served!Ends, Served!Resumes
<1>2. new \in Served!Read \cup {NoRead} /\ new.pc = "done"
  BY <1>0 DEF Served!Read
<1> HIDE DEF new
<1>3. /\ pending' \subseteq Asked /\ requests' \subseteq Served!Request
      /\ Inherits /\ Sole' /\ OneAnswer' /\ nextId' \in Nat /\ nextId =< nextId'
      /\ \A p \in pending' : p.id < nextId'
      /\ \A q \in requests' : q \in requests
  BY <1>1, LessWait
<1>4. \A p \in pending' : p.id < nextId' /\ p \in pending /\ ~(p.owner \in {"read", "subscribe"} /\ p.uri = u)
  BY <1>1, <1>3
<1>5. /\ connection \notin {"closed", "init"} /\ orphans' \subseteq Uris /\ versions' \in [Uris -> Nat]
      /\ \A w \in Uris \ {u} : versions'[w] = versions[w]
  BY <1>0 DEF McpTyped, ShutInv
<1> QED
  BY <1>1, <1>2, <1>3, <1>4, <1>5, ReadStep

(* A read with its text keeps it, asks once more or gives up.              *)
LEMMA ReadConcludes ==
    ASSUME McpInv, NEW u \in Uris, NEW text \in Texts, NEW answered, Served!Concludes(u, text, answered),
           reads[u] # NoRead, subscriptions' \subseteq Uris, Fresh(u, text),
           \A p \in pending : p.owner \in {"read", "subscribe"} /\ p.uri = u => p \in answered,
           UNCHANGED <<server, stream, reading, connection, tasks, tools, registered, orphans, epoch,
                       versions, changes, silent, unheard>>
    PROVE  McpInv'
<1>1. CASE Served!Current(u)
  <2>1. Served!CacheResource(u, text) /\ Served!Ends(u, answered)
    BY <1>1 DEF Served!Concludes
  <2>2. Good(u, text)
    BY <1>1 DEF Fresh
  <2>3. /\ cache' \in Seq(Cached) /\ Len(cache') =< MaxCached
        /\ \A i \in 1 .. Len(cache') : Good(cache'[i].uri, cache'[i].text)
        /\ \A i, j \in 1 .. Len(cache') : cache'[i].uri = cache'[j].uri => i = j
    BY <2>1, <2>2, CacheTakes
  <2> QED
    BY <2>1, <2>3, ReadDone
<1>2. CASE ~Served!Current(u) /\ reads[u].attempt = 1
  <2>1. Served!Attempt(u, 2, answered) /\ 2 \in 1 .. 2
    BY <1>2 DEF Served!Concludes
  <2> QED
    BY <2>1, ReadAttempts
<1>3. CASE ~Served!Current(u) /\ reads[u].attempt # 1
  <2>1. Served!Ends(u, answered) /\ cache' = cache
    BY <1>3 DEF Served!Concludes
  <2>2. /\ cache' \in Seq(Cached) /\ Len(cache') =< MaxCached
        /\ \A i \in 1 .. Len(cache') : Good(cache'[i].uri, cache'[i].text)
        /\ \A i, j \in 1 .. Len(cache') : cache'[i].uri = cache'[j].uri => i = j
    BY <2>1 DEF McpInv, McpTyped, TextInv
  <2> QED
    BY <2>1, <2>2, ReadDone
<1> QED
  BY <1>1, <1>2, <1>3

(* A read begins.                                                          *)
LEMMA ReadBeginsKept ==
    ASSUME McpInv, NEW u \in Uris, Served!ReadBegins(u)
    PROVE  McpInv'
<1>1. /\ reads[u] # NoRead /\ reads[u].pc = "begin" /\ Served!Attempt(u, 1, {})
      /\ UNCHANGED <<server, stream, reading, connection, tasks, tools, registered, orphans, epoch,
                     versions, subscriptions, changes, silent, unheard>>
  BY DEF Served!ReadBegins, Served!bounds
<1>2. \A p \in pending : p.owner \in {"read", "subscribe"} /\ p.uri = u => p \in {}
  BY <1>1 DEF McpInv, WaitInv, Placed
<1>3. subscriptions' \subseteq Uris /\ 1 \in 1 .. 2
  BY <1>1 DEF McpInv, McpTyped
<1> QED
  BY <1>1, <1>2, <1>3, ReadAttempts

(* A read has its answer.                                                  *)
LEMMA FetchedKept ==
    ASSUME McpInv, NEW u \in Uris, Served!Fetched(u)
    PROVE  McpInv'
<1>0. /\ McpTyped /\ TextInv /\ WaitInv /\ IdInv /\ ShutInv /\ epoch \in Nat /\ versions[u] \in Nat
      /\ subscriptions \subseteq Uris
  BY DEF McpInv, McpTyped
<1>1. /\ reads[u] # NoRead /\ reads[u].pc = "read"
      /\ UNCHANGED <<server, stream, reading, connection, tasks, tools, registered, orphans, epoch,
                     versions, subscriptions, changes, silent, unheard>>
  BY DEF Served!Fetched, Served!bounds
<1>2. PICK p \in Served!Answered("read", u) :
        IF p.answer = Failed THEN Served!Ends(u, {p}) /\ cache' = cache
        ELSE IF u \in subscriptions THEN Served!Concludes(u, p.answer, {p})
        ELSE /\ Served!Sends("subscribe", u, {p})
             /\ reads' = [reads EXCEPT ![u].pc = "subscribe", ![u].text = p.answer]
             /\ cache' = cache
  BY DEF Served!Fetched
<1>3. /\ p \in pending /\ p.owner = "read" /\ p.uri = u /\ p.answer # Unanswered
      /\ p.answer \in Texts \cup {Failed}
  <2>1. p \in pending /\ p.owner = "read" /\ p.uri = u /\ p.answer # Unanswered
    BY <1>2 DEF Served!Answered
  <2> QED
    BY <1>0, <2>1, McpFacts
<1>4. \A r \in pending : r.owner \in {"read", "subscribe"} /\ r.uri = u => r \in {p}
  <2>1. \A r \in pending : r.uri = u => r.owner # "subscribe"
    BY <1>0, <1>1 DEF WaitInv, Placed
  <2> QED
    BY <1>0, <1>3, <2>1 DEF IdInv, Sole
<1>5. /\ cache \in Seq(Cached) /\ Len(cache) =< MaxCached
      /\ \A i \in 1 .. Len(cache) : Good(cache[i].uri, cache[i].text)
      /\ \A i, j \in 1 .. Len(cache) : cache[i].uri = cache[j].uri => i = j
  BY <1>0 DEF McpTyped, TextInv
<1>6. CASE p.answer = Failed
  <2>1. Served!Ends(u, {p}) /\ cache' = cache
    BY <1>2, <1>6
  <2> QED
    BY <1>0, <1>1, <1>4, <1>5, <2>1, ReadDone
<1>7. p.answer # Failed => p.answer \in Texts /\ Fresh(u, p.answer)
  <2>1. p.answer # Failed => p.answer \in Texts /\ p.answer \in Nat
    BY <1>3, McpBounds
  <2> QED
    BY <1>0, <1>3, <2>1 DEF TextInv
<1>8. CASE p.answer # Failed /\ u \in subscriptions
  <2>1. Served!Concludes(u, p.answer, {p})
    BY <1>2, <1>8
  <2> QED
    BY <1>0, <1>1, <1>4, <1>7, <1>8, <2>1, ReadConcludes
<1>9. CASE p.answer # Failed /\ u \notin subscriptions
  <2> DEFINE new == [reads[u] EXCEPT !.pc = "subscribe", !.text = p.answer]
  <2>1. /\ Served!Sends("subscribe", u, {p}) /\ cache' = cache
        /\ reads' = [reads EXCEPT ![u] = new]
    <3>1. reads' = [reads EXCEPT ![u].pc = "subscribe", ![u].text = p.answer]
      BY <1>2, <1>9
    <3>2. reads' = [reads EXCEPT ![u] = new]
      BY <1>0, <3>1 DEF McpTyped
    <3> QED
      BY <1>2, <1>9, <3>2
  <2>2. /\ new \in Served!Read \cup {NoRead} /\ new # NoRead /\ new.pc = "subscribe" /\ new.text = p.answer
        /\ new.epoch = reads[u].epoch /\ new.version = reads[u].version
    <3>1. reads[u] \in Served!Read /\ NoRead \notin Served!Read
      BY <1>0, <1>1, McpBounds DEF McpTyped
    <3>2. new \in Served!Read /\ new.pc = "subscribe" /\ new.text = p.answer
          /\ new.epoch = reads[u].epoch /\ new.version = reads[u].version
      BY <1>7, <1>9, <3>1 DEF Served!Read, Texts
    <3> QED
      BY <3>1, <3>2
  <2> HIDE DEF new
  <2>3. /\ pending' \subseteq Asked /\ requests' \subseteq Served!Request
        /\ Inherits /\ Sole' /\ OneAnswer' /\ nextId' \in Nat /\ nextId =< nextId' /\ nextId < nextId'
        /\ \A r \in pending' :
             /\ r.id < nextId'
             /\ \/ r \in pending /\ r \notin {p}
                \/ r.id = nextId /\ r.owner = "subscribe" /\ r.uri = u /\ r.answer = Unanswered
        /\ \A q \in requests' :
            \/ q \in requests
            \/ /\ q.id = nextId /\ nextId < nextId' /\ (q.owner \in {"read", "subscribe"} => q.uri \in Uris)
               /\ \A r \in pending' : r.id = nextId => r.owner = q.owner /\ r.uri = q.uri
    <3>1. "subscribe" \in Askers /\ u \in Uris \cup {NoRead}
      BY DEF Askers
    <3>2. \A r \in pending : r.owner = "subscribe" /\ r.uri = u => r \in {p}
      BY <1>4
    <3> QED
      BY <2>1, <3>1, <3>2, SendsFacts
  <2>4. \A r \in pending' :
          /\ r.id < nextId'
          /\ \/ r \in pending /\ ~(r.owner \in {"read", "subscribe"} /\ r.uri = u)
             \/ /\ r.id = nextId /\ r.uri = u /\ r.answer = Unanswered
                /\ new # NoRead /\ r.owner = new.pc /\ new.pc \in {"read", "subscribe"}
    BY <1>4, <2>2, <2>3
  <2>5. /\ connection \notin {"closed", "init"} /\ orphans' \subseteq Uris /\ versions' \in [Uris -> Nat]
        /\ \A w \in Uris \ {u} : versions'[w] = versions[w]
        /\ subscriptions' \subseteq Uris
    BY <1>0, <1>1 DEF McpTyped, ShutInv
  <2>6. /\ new.epoch =< epoch
        /\ new.epoch = epoch => new.version =< versions'[u]
        /\ new.epoch = epoch /\ new.version = versions'[u] => Good(u, new.text)
    <3>1. reads[u].epoch =< epoch /\ (reads[u].epoch = epoch => reads[u].version =< versions[u])
      BY <1>0, <1>1 DEF TextInv
    <3>2. reads[u].epoch = epoch /\ reads[u].version = versions[u] => Good(u, p.answer)
      BY <1>1, <1>7, <1>9 DEF Fresh, Served!Current
    <3> QED
      BY <1>1, <2>2, <3>1, <3>2
  <2>7. new # NoRead /\ new.pc \in {"read", "subscribe"} =>
          /\ new.epoch =< epoch
          /\ new.epoch = epoch => new.version =< versions'[u]
          /\ new.pc = "subscribe" /\ new.epoch = epoch /\ new.version = versions'[u] => Good(u, new.text)
    BY <2>6
  <2>8. /\ cache' \in Seq(Cached) /\ Len(cache') =< MaxCached
        /\ \A i \in 1 .. Len(cache') : Good(cache'[i].uri, cache'[i].text)
        /\ \A i, j \in 1 .. Len(cache') : cache'[i].uri = cache'[j].uri => i = j
    BY <1>5, <2>1
  <2> QED
    BY <1>1, <2>1, <2>2, <2>3, <2>4, <2>5, <2>7, <2>8, ReadStep
<1> QED
  BY <1>6, <1>8, <1>9

(* A subscription has its answer.                                          *)
LEMMA SubscribedKept ==
    ASSUME McpInv, NEW u \in Uris, Served!Subscribed(u)
    PROVE  McpInv'
<1>0. McpTyped /\ TextInv /\ WaitInv /\ IdInv /\ subscriptions \subseteq Uris
  BY DEF McpInv, McpTyped
<1>1. /\ reads[u] # NoRead /\ reads[u].pc = "subscribe"
      /\ UNCHANGED <<server, stream, reading, connection, tasks, tools, registered, orphans, epoch,
                     versions, changes, silent, unheard>>
  BY DEF Served!Subscribed, Served!bounds
<1>2. PICK p \in Served!Answered("subscribe", u) :
        /\ subscriptions' = IF p.answer = Failed THEN subscriptions ELSE subscriptions \cup {u}
        /\ Served!Concludes(u, reads[u].text, {p})
  BY DEF Served!Subscribed
<1>3. p \in pending /\ p.owner = "subscribe" /\ p.uri = u
  BY <1>2 DEF Served!Answered
<1>4. \A r \in pending : r.owner \in {"read", "subscribe"} /\ r.uri = u => r \in {p}
  <2>1. \A r \in pending : r.uri = u => r.owner # "read"
    BY <1>0, <1>1 DEF WaitInv, Placed
  <2> QED
    BY <1>0, <1>3, <2>1 DEF IdInv, Sole
<1>5. subscriptions' \subseteq Uris
  BY <1>0, <1>2
<1>6. reads[u].text \in Texts /\ Fresh(u, reads[u].text)
  <2>1. reads[u].text \in Texts
    BY <1>0, <1>1, McpFacts, Shapes
  <2> QED
    BY <1>0, <1>1, <2>1 DEF TextInv
<1> QED
  BY <1>1, <1>2, <1>4, <1>5, <1>6, ReadConcludes

(* A resource is read: from the cache, or by a read of its own.            *)
LEMMA ReadResourceKept ==
    ASSUME McpInv, NEW u \in Uris, Served!ReadResource(u)
    PROVE  McpInv'
<1>0. /\ McpTyped /\ Grown /\ ShutInv /\ IdInv /\ WaitInv /\ ToolInv /\ NoticeInv /\ TextInv
      /\ orphans \subseteq Uris
  BY DEF McpInv, McpTyped
<1>1. /\ connection = "open"
      /\ UNCHANGED <<server, requests, stream, reading, connection, nextId, pending, tasks, tools, registered,
                     epoch, versions, subscriptions, changes, silent, unheard>>
  BY DEF Served!ReadResource, Served!wire, Served!rpc, Served!bounds
<1>2. CASE \E i \in DOMAIN cache : cache[i].uri = u
  <2>1. /\ cache' = Append(Served!Without(u), CHOOSE c \in Served!ToSet(cache) : c.uri = u)
        /\ UNCHANGED <<reads, orphans>>
    BY <1>2 DEF Served!ReadResource
  <2>2. /\ cache' \in Seq(Cached) /\ Len(cache') =< MaxCached
        /\ \A i \in 1 .. Len(cache') : \E k \in 1 .. Len(cache) : cache'[i] = cache[k]
        /\ \A i, j \in 1 .. Len(cache') : cache'[i].uri = cache'[j].uri => i = j
    BY <1>2, <2>1, CacheUses
  <2>3. McpTyped'
    BY <1>0, <1>1, <2>1, <2>2 DEF McpTyped
  <2>4. Grown' /\ ShutInv' /\ IdInv' /\ NoticeInv' /\ ToolInv'
    <3>1. Grown' /\ ShutInv'
      BY <1>0, <1>1, <2>1 DEF Grown, ShutInv
    <3>2. IdInv' /\ NoticeInv'
      BY <1>0, <1>1 DEF IdInv, Sole, OneAnswer, NoticeInv
    <3>3. ToolInv'
      BY <1>0, <1>1 DEF ToolInv, Known, After, Behind
    <3> QED
      BY <3>1, <3>2, <3>3
  <2>5. WaitInv'
    BY <1>0, <1>1, <2>1 DEF WaitInv, Placed
  <2>6. TextInv'
    <3>1. \A w, text : (Good(w, text) <=> Good(w, text)') /\ (Fresh(w, text) <=> Fresh(w, text)')
      BY <1>1, <2>1 DEF Good, Fresh, Served!Current, Served!Announced
    <3>2. \A i \in 1 .. Len(cache') : Good(cache'[i].uri, cache'[i].text)
      BY <1>0, <2>2 DEF TextInv
    <3>3. \A i \in 1 .. Len(cache') : \A w, text : w = cache'[i].uri /\ text = cache'[i].text => Good(w, text)'
      BY <3>1, <3>2
    <3>4. /\ \A i \in 1 .. Len(cache') : Good(cache[i].uri, cache[i].text)'
          /\ \A w \in Uris : reads'[w] # NoRead /\ reads'[w].pc \in {"read", "subscribe"} =>
               /\ reads'[w].epoch =< epoch'
               /\ reads'[w].epoch = epoch' => reads'[w].version =< versions'[w]
               /\ reads'[w].pc = "subscribe" => \A text : text = reads'[w].text => Fresh(w, text)'
      BY <1>0, <1>1, <2>1, <3>1, <3>3 DEF TextInv
    <3>5. /\ \A p \in pending' : p.owner = "read" /\ p.answer \in Nat => Fresh(p.uri, p.answer)'
          /\ \A i \in 1 .. Len(stream'), p \in pending' :
               stream'[i].kind = "answer" /\ stream'[i].id = p.id /\ p.owner = "read"
                   /\ stream'[i].value \in Nat => \A v : v = stream'[i].value => Fresh(p.uri, v)'
      BY <1>0, <1>1, <3>1 DEF TextInv
    <3> QED
      BY <2>2, <3>4, <3>5 DEF TextInv
  <2> QED
    BY <2>3, <2>4, <2>5, <2>6 DEF McpInv
<1>3. CASE ~(\E i \in DOMAIN cache : cache[i].uri = u)
  <2> DEFINE new == [pc |-> "begin", attempt |-> 1, epoch |-> 0, version |-> 0, text |-> 0]
  <2>1. /\ reads[u] # NoRead => reads[u].pc = "done"
        /\ orphans' \subseteq Uris /\ cache' = cache
        /\ reads' = [reads EXCEPT ![u] = new]
    BY <1>0, <1>3 DEF Served!ReadResource
  <2>2. new \in Served!Read \cup {NoRead} /\ new.pc = "begin"
    BY McpBounds DEF Served!Read
  <2> HIDE DEF new
  <2>3. /\ pending' \subseteq Asked /\ requests' \subseteq Served!Request
        /\ Inherits /\ Sole' /\ OneAnswer' /\ nextId' \in Nat /\ nextId =< nextId'
        /\ \A p \in pending' : p.id < nextId'
        /\ \A q \in requests' : q \in requests
    BY <1>1, LessWait
  <2>4. \A p \in pending' : p.id < nextId' /\ p \in pending /\ ~(p.owner \in {"read", "subscribe"} /\ p.uri = u)
    BY <1>0, <1>1, <2>1, <2>3 DEF WaitInv, Placed
  <2>5. /\ connection \notin {"closed", "init"} /\ subscriptions' \subseteq Uris
        /\ versions' \in [Uris -> Nat] /\ \A w \in Uris \ {u} : versions'[w] = versions[w]
    BY <1>0, <1>1 DEF McpTyped
  <2>6. /\ cache' \in Seq(Cached) /\ Len(cache') =< MaxCached
        /\ \A i \in 1 .. Len(cache') : Good(cache'[i].uri, cache'[i].text)
        /\ \A i, j \in 1 .. Len(cache') : cache'[i].uri = cache'[j].uri => i = j
    BY <1>0, <2>1 DEF McpTyped, TextInv
  <2>7. /\ \A q \in requests' :
            \/ q \in requests
            \/ /\ q.id = nextId /\ nextId < nextId' /\ (q.owner \in {"read", "subscribe"} => q.uri \in Uris)
               /\ \A p \in pending' : p.id = nextId => p.owner = q.owner /\ p.uri = q.uri
        /\ \A p \in pending' :
            /\ p.id < nextId'
            /\ \/ p \in pending /\ ~(p.owner \in {"read", "subscribe"} /\ p.uri = u)
               \/ /\ p.id = nextId /\ p.uri = u /\ p.answer = Unanswered
                  /\ new # NoRead /\ p.owner = new.pc /\ new.pc \in {"read", "subscribe"}
    BY <2>3, <2>4
  <2>8. new # NoRead /\ new.pc \in {"read", "subscribe"} =>
          /\ new.epoch =< epoch
          /\ new.epoch = epoch => new.version =< versions'[u]
          /\ new.pc = "subscribe" /\ new.epoch = epoch /\ new.version = versions'[u] => Good(u, new.text)
    BY <2>2
  <2>9. /\ pending' \subseteq Asked /\ requests' \subseteq Served!Request
        /\ Inherits /\ Sole' /\ OneAnswer' /\ nextId' \in Nat /\ nextId =< nextId'
    BY <2>3
  <2>10. UNCHANGED <<server, stream, reading, connection, tasks, tools, registered, epoch,
                     changes, silent, unheard>>
    BY <1>1
  <2>11. reads' = [reads EXCEPT ![u] = new] /\ orphans' \subseteq Uris /\ new \in Served!Read \cup {NoRead}
    BY <2>1, <2>2
  <2> QED
    BY <2>5, <2>6, <2>7, <2>8, <2>9, <2>10, <2>11, ReadStep
<1> QED
  BY <1>2, <1>3

(* The place of a finished read is given up, by its own callback.          *)
LEMMA ReadFinishedKept ==
    ASSUME McpInv, NEW u \in Uris, Served!ReadFinished(u)
    PROVE  McpInv'
<1>0. /\ McpTyped /\ Grown /\ ShutInv /\ IdInv /\ WaitInv /\ ToolInv /\ NoticeInv /\ TextInv
      /\ orphans \subseteq Uris /\ versions \in [Uris -> Nat]
  BY DEF McpInv, McpTyped
<1>1. UNCHANGED <<server, requests, stream, reading, connection, nextId, pending, tasks, tools, registered,
                  cache, epoch, subscriptions, changes, silent, unheard>>
  BY DEF Served!ReadFinished, Served!wire, Served!rpc, Served!bounds
<1>2. CASE u \in orphans /\ orphans' = orphans \ {u} /\ UNCHANGED <<reads, versions>>
  <2>1. McpTyped'
    BY <1>0, <1>1, <1>2 DEF McpTyped
  <2>2. Grown' /\ ShutInv'
    BY <1>0, <1>1, <1>2 DEF Grown, ShutInv
  <2>3. IdInv' /\ NoticeInv'
    BY <1>0, <1>1 DEF IdInv, Sole, OneAnswer, NoticeInv
  <2>4. WaitInv'
    BY <1>0, <1>1, <1>2 DEF WaitInv, Placed
  <2>5. TextInv'
    BY <1>0, <1>1, <1>2 DEF TextInv, Good, Fresh, Served!Current, Served!Announced
  <2>6. ToolInv'
    BY <1>0, <1>1 DEF ToolInv, Known, After, Behind
  <2> QED
    BY <2>1, <2>2, <2>3, <2>4, <2>5, <2>6 DEF McpInv
<1>3. CASE /\ reads[u] # NoRead /\ reads[u].pc = "done"
           /\ reads' = [reads EXCEPT ![u] = NoRead]
           /\ versions' = [versions EXCEPT ![u] = 0]
           /\ UNCHANGED orphans
  <2>a. PICK new \in Served!Read \cup {NoRead} : new = NoRead
    OBVIOUS
  <2>1. orphans' \subseteq Uris
    BY <1>0, <1>3
  <2>2. /\ pending' \subseteq Asked /\ requests' \subseteq Served!Request
        /\ Inherits /\ Sole' /\ OneAnswer' /\ nextId' \in Nat /\ nextId =< nextId'
        /\ \A p \in pending' : p.id < nextId'
        /\ \A q \in requests' : q \in requests
    BY <1>1, LessWait
  <2>3. \A p \in pending' : p.id < nextId' /\ p \in pending /\ ~(p.owner \in {"read", "subscribe"} /\ p.uri = u)
    BY <1>0, <1>1, <1>3, <2>2 DEF WaitInv, Placed
  <2>4. /\ connection \notin {"closed", "init"} /\ subscriptions' \subseteq Uris
        /\ versions' \in [Uris -> Nat] /\ \A w \in Uris \ {u} : versions'[w] = versions[w]
    BY <1>0, <1>1, <1>3 DEF McpTyped, ShutInv
  <2>5. /\ cache' \in Seq(Cached) /\ Len(cache') =< MaxCached
        /\ \A i \in 1 .. Len(cache') : Good(cache'[i].uri, cache'[i].text)
        /\ \A i, j \in 1 .. Len(cache') : cache'[i].uri = cache'[j].uri => i = j
    BY <1>0, <1>1 DEF McpTyped, TextInv
  <2>6. /\ \A q \in requests' :
            \/ q \in requests
            \/ /\ q.id = nextId /\ nextId < nextId' /\ (q.owner \in {"read", "subscribe"} => q.uri \in Uris)
               /\ \A p \in pending' : p.id = nextId => p.owner = q.owner /\ p.uri = q.uri
        /\ \A p \in pending' :
            /\ p.id < nextId'
            /\ \/ p \in pending /\ ~(p.owner \in {"read", "subscribe"} /\ p.uri = u)
               \/ /\ p.id = nextId /\ p.uri = u /\ p.answer = Unanswered
                  /\ new # NoRead /\ p.owner = new.pc /\ new.pc \in {"read", "subscribe"}
    BY <2>2, <2>3
  <2>7. new # NoRead /\ new.pc \in {"read", "subscribe"} =>
          /\ new.epoch =< epoch
          /\ new.epoch = epoch => new.version =< versions'[u]
          /\ new.pc = "subscribe" /\ new.epoch = epoch /\ new.version = versions'[u] => Good(u, new.text)
    BY <2>a
  <2>8. reads' = [reads EXCEPT ![u] = new]
    BY <1>3, <2>a
  <2>9. /\ pending' \subseteq Asked /\ requests' \subseteq Served!Request
        /\ Inherits /\ Sole' /\ OneAnswer' /\ nextId' \in Nat /\ nextId =< nextId'
    BY <2>2
  <2>10. UNCHANGED <<server, stream, reading, connection, tasks, tools, registered, epoch,
                     changes, silent, unheard>>
    BY <1>1
  <2> QED
    BY <2>1, <2>4, <2>5, <2>6, <2>7, <2>8, <2>9, <2>10, ReadStep
<1> QED
  BY <1>2, <1>3 DEF Served!ReadFinished

-----------------------------------------------------------------------------
(* The invariant holds at the start, and in every step.                    *)
LEMMA McpStart ==
    ASSUME Served!Init
    PROVE  McpInv
<1>0. /\ server = [up |-> FALSE, texts |-> [u \in Uris |-> 0], tools |-> 1, subs |-> {}]
      /\ requests = {} /\ stream = <<>> /\ reading = FALSE
      /\ connection = "closed" /\ nextId = 1 /\ pending = {}
      /\ tasks = <<>> /\ tools = 0 /\ registered = 0
      /\ cache = <<>> /\ reads = [u \in Uris |-> NoRead] /\ orphans = {}
      /\ epoch = 0 /\ versions = [u \in Uris |-> 0] /\ subscriptions = {}
      /\ changes = 0 /\ silent = [u \in Uris |-> 0] /\ unheard = 0
  BY DEF Served!Init
<1>1. McpTyped
  <2>1. /\ stream \in Seq(Answer \cup Served!Notice) /\ tasks \in Seq(Task) /\ cache \in Seq(Cached)
        /\ Len(tasks) = 0 /\ Len(cache) = 0
    BY <1>0
  <2>2. server \in [up : BOOLEAN, texts : [Uris -> Texts], tools : Texts, subs : SUBSET Uris]
    BY <1>0, McpBounds
  <2>3. /\ tools \in Texts /\ registered \in Texts /\ unheard \in Texts /\ silent \in [Uris -> Texts]
        /\ changes \in 0 .. MaxChanges /\ Len(tasks) =< MaxTasks /\ Len(cache) =< MaxCached
    BY <1>0, <2>1, McpBounds
  <2>4. /\ versions \in [Uris -> Nat] /\ reads \in [Uris -> Served!Read \cup {NoRead}]
        /\ epoch \in Nat /\ nextId \in Nat /\ nextId # 0 /\ connection \in Phases /\ reading \in BOOLEAN
    <3>1. versions \in [Uris -> Nat] /\ reads \in [Uris -> Served!Read \cup {NoRead}]
      BY <1>0
    <3>2. connection \in Phases /\ reading \in BOOLEAN
      BY <1>0 DEF Phases
    <3>3. epoch \in Nat /\ nextId \in Nat /\ nextId # 0
      BY <1>0
    <3> QED
      BY <3>1, <3>2, <3>3
  <2> QED
    BY <1>0, <2>1, <2>2, <2>3, <2>4 DEF McpTyped
<1>2. Grown /\ ShutInv
  BY <1>0 DEF Grown, ShutInv
<1>3. IdInv /\ WaitInv /\ TextInv /\ ToolInv /\ NoticeInv
  BY <1>0 DEF IdInv, Sole, OneAnswer, WaitInv, TextInv, ToolInv, NoticeInv
<1> QED
  BY <1>1, <1>2, <1>3 DEF McpInv

(* Every step of the MCP client keeps the invariant.                       *)
LEMMA McpStep ==
    ASSUME McpInv, Served!Next \/ UNCHANGED mcpVars
    PROVE  McpInv'
<1>1. CASE UNCHANGED mcpVars
  <2>0. McpTyped /\ Grown /\ ShutInv /\ IdInv /\ WaitInv /\ ToolInv /\ NoticeInv /\ TextInv
    BY DEF McpInv
  <2>1. McpTyped' /\ Grown' /\ ShutInv'
    BY <1>1, <2>0 DEF McpTyped, Grown, ShutInv, mcpVars
  <2>2. IdInv' /\ NoticeInv' /\ WaitInv'
    BY <1>1, <2>0 DEF IdInv, Sole, OneAnswer, NoticeInv, WaitInv, Placed, mcpVars
  <2>3. TextInv'
    BY <1>1, <2>0 DEF TextInv, Good, Fresh, Served!Current, Served!Announced, mcpVars
  <2>4. ToolInv'
    BY <1>1, <2>0 DEF ToolInv, Known, After, Behind, mcpVars
  <2> QED
    BY <2>1, <2>2, <2>3, <2>4 DEF McpInv
<1>2. CASE Served!Reads
  <2>1. Served!ReadsAnswer \/ Served!ReadsNotice
    BY <1>2 DEF Served!Reads
  <2> QED
    BY <1>2, <2>1, ReadsAnswerKept, NoticeQueued, NoticeDropped
<1>3. CASE \E u \in Uris : \/ Served!TextChanges(u) \/ Served!ReadResource(u) \/ Served!ReadBegins(u)
                           \/ Served!Fetched(u) \/ Served!Subscribed(u) \/ Served!ReadFinished(u)
  BY <1>3, TextChangesKept, ReadResourceKept, ReadBeginsKept, FetchedKept, SubscribedKept, ReadFinishedKept
<1>4. CASE \/ Served!Start \/ Served!Initialized \/ Served!Listed \/ Served!Registers \/ Served!Close
  BY <1>4, ConnectKept, ServedInitializedKept, ListedKept, RegistersKept, CloseKept
<1>5. CASE \/ Served!Answers \/ Served!ToolsChange \/ Served!ResourceListChanges \/ Served!Dies
  BY <1>5, AnswersKept, ToolsChangeKept, ResourceListChangesKept, DiesKept
<1>6. CASE \/ Served!Disconnects \/ Served!Timeout \/ Served!HandlesUpdate \/ Served!RefreshBegins
           \/ Served!RefreshEnds
  BY <1>6, DisconnectsKept, TimeoutKept, HandlesUpdateKept, RefreshBeginsKept, RefreshEndsKept
<1> QED
  BY <1>1, <1>2, <1>3, <1>4, <1>5, <1>6 DEF Served!Next

(* It says what the properties do.                                         *)
LEMMA McpAnswers ==
    ASSUME McpInv
    PROVE  /\ Served!TypeOK /\ Served!CacheCurrentOrUnannounced
           /\ Served!ToolsCurrentOrGivenUp /\ Served!ClosedForgets
<1>0. /\ McpTyped /\ Grown /\ ShutInv /\ IdInv /\ WaitInv /\ ToolInv /\ NoticeInv /\ TextInv
      /\ DOMAIN tasks = 1 .. Len(tasks) /\ DOMAIN cache = 1 .. Len(cache)
      /\ DOMAIN stream = 1 .. Len(stream)
  BY DEF McpInv, McpTyped
<1>1. Served!TypeOK
  <2>1. \A p \in pending : p.id < nextId /\ p.owner \in {"start", "refresh", "read", "subscribe"}
    BY <1>0, McpFacts DEF IdInv, Askers
  <2>2. \A i \in DOMAIN tasks : tasks[i].notice \in Served!Notice
    BY <1>0, McpFacts
  <2>3. server \in [up : BOOLEAN, texts : [Uris -> Served!Versions], tools : Served!Versions, subs : SUBSET Uris]
    BY <1>0 DEF McpTyped, Texts
  <2> QED
    BY <1>0, <2>1, <2>2, <2>3 DEF McpTyped, Served!TypeOK, Texts, Phases
<1>2. Served!CacheCurrentOrUnannounced
  BY <1>0 DEF TextInv, Good, Served!CacheCurrentOrUnannounced
<1>3. Served!ToolsCurrentOrGivenUp
  BY <1>0 DEF ToolInv, Known, After, Behind, Served!ToolsCurrentOrGivenUp
<1>4. Served!ClosedForgets
  BY <1>0 DEF ShutInv, Served!ClosedForgets
<1> QED
  BY <1>1, <1>2, <1>3, <1>4

-----------------------------------------------------------------------------
(* One of the three runs in a behaviour, and the others never move.        *)
ClientsInv ==
    /\ part = "mcp" => McpInv
    /\ part = "lsp" => LspInv
    /\ part = "shell" => ShellInv

(* Every step of the run keeps the invariant of what runs, ...             *)
LEMMA ClientsKept ==
    ASSUME ClientsInv, [ClientsNext]_<<part, mcpVars, lspVars, shellVars>>
    PROVE  ClientsInv'
<1>1. part' = part /\ (part = "mcp" \/ part = "lsp" \/ part = "shell" \/ UNCHANGED <<mcpVars, lspVars, shellVars>>)
  BY DEF ClientsNext
<1>2. ASSUME part = "mcp" PROVE McpInv'
  <2>1. Served!Next \/ UNCHANGED mcpVars
    BY <1>2 DEF ClientsNext
  <2> QED
    BY <1>2, <2>1, McpStep DEF ClientsInv
<1>3. ASSUME part = "lsp" PROVE LspInv'
  <2>1. Language!Next \/ UNCHANGED lspVars
    BY <1>3 DEF ClientsNext
  <2> QED
    BY <1>3, <2>1, LspStep DEF ClientsInv
<1>4. ASSUME part = "shell" PROVE ShellInv'
  <2>1. Commanded!Next \/ UNCHANGED shellVars
    BY <1>4 DEF ClientsNext
  <2> QED
    BY <1>4, <2>1, ShellStep DEF ClientsInv
<1> QED
  BY <1>1, <1>2, <1>3, <1>4 DEF ClientsInv

(* ... which therefore always holds.                                       *)
LEMMA ClientsInvHolds == ClientsSpec => []ClientsInv
<1>1. ClientsInit => ClientsInv
  <2> SUFFICES ASSUME ClientsInit PROVE ClientsInv
    OBVIOUS
  <2>1. CASE part = "mcp" /\ Served!Init
    BY <2>1, McpStart DEF ClientsInv
  <2>2. CASE part = "lsp" /\ Language!Init
    BY <2>2, LspStart DEF ClientsInv
  <2>3. CASE part = "shell" /\ Commanded!Init
    BY <2>3, ShellStart DEF ClientsInv
  <2> QED
    BY <2>1, <2>2, <2>3 DEF ClientsInit
<1>2. ClientsInv /\ [ClientsNext]_<<part, mcpVars, lspVars, shellVars>> => ClientsInv'
  BY ClientsKept
<1> QED
  BY <1>1, <1>2, PTL DEF ClientsSpec

(* However texts and tools of an MCP server change, answers and notices    *)
(* cross, requests time out and servers die: what the client has cached    *)
(* and registered is the server's, or the word of the change is on its     *)
(* way, was never sent or was given up (McpClient._handle_notification).   *)
THEOREM ServerStateCurrentHolds == ClientsSpec => []ServerStateCurrent
<1>1. ClientsInv => ServerStateCurrent
  BY McpAnswers DEF ClientsInv, ServerStateCurrent
<1> QED
  BY <1>1, ClientsInvHolds, PTL

(* However diagnoses of one document overlap, time out and are cancelled,  *)
(* a caller is told of its own text, and the server is told of the         *)
(* document in the order of its versions (LspManager._diagnose_document).  *)
THEOREM DiagnosticsOfOwnTextHolds == ClientsSpec => []DiagnosticsOfOwnText
<1>1. ClientsInv => DiagnosticsOfOwnText
  BY LspAnswers DEF ClientsInv, DiagnosticsOfOwnText
<1> QED
  BY <1>1, ClientsInvHolds, PTL

(* However calls, expiries, looks at idle sessions and the shutdown        *)
(* interleave, no shell process is forgotten, no running command is        *)
(* pruned and no command reads another's output (ShellSessionManager).     *)
THEOREM ShellsAccountedHolds == ClientsSpec => []ShellsAccounted
<1>1. ClientsInv => ShellsAccounted
  BY ShellAnswers DEF ClientsInv, ShellsAccounted
<1> QED
  BY <1>1, ClientsInvHolds, PTL

(* A closed MCP connection, a closed LSP client and a closed registry of   *)
(* shells leave nothing behind (McpClient._close_once, LspClient.close,    *)
(* ShellSessionManager.close).                                             *)
THEOREM ClosedIsOverHolds == ClientsSpec => []ClosedIsOver
<1>1. ClientsInv => ClosedIsOver
  BY McpAnswers, LspAnswers, ShellAnswers DEF ClientsInv, ClosedIsOver
<1> QED
  BY <1>1, ClientsInvHolds, PTL
=============================================================================
