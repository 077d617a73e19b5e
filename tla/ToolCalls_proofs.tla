--------------------------- MODULE ToolCalls_proofs ---------------------------
(***************************************************************************)
(* Theorems about ToolCalls for any batches, any number of calls, users    *)
(* and disturbances.  The inductive invariant IInv is a conjunction; each  *)
(* part has a lemma that names the parts it rests on:                      *)
(*   Placed, Held       who waits where, and who holds the asyncio locks   *)
(*   OpsInv             the transitions and the manager's lifecycle lock   *)
(*   Alone              who owns a server's gate is alone in it            *)
(*   Clients, Consents  what calls in a gate know of their server          *)
(*   BankKnown, Prompts the browser's page, and why a prompt is shown      *)
(*   Workers, Closing   handlers that outlive their calls, and close()     *)
(* The cases of Next are treated once, in lemmas that say what a step does *)
(* to a part of the state (OwnSteps, SharingStep, OwningStep, ClientStep,  *)
(* EpochStep, ApprovedStep, BrowserStep, StoppedStep); the invariants      *)
(* follow from these.                                                      *)
(***************************************************************************)
EXTENDS ToolCalls, TLAPS

(* The kinds of the calls do not change.                                   *)
LEMMA KindKept == ASSUME [Next]_vars PROVE kind' = kind
BY DEF Next, vars, callVars, consentVars, Progress, CallStep, Answer, Transition, EnterClosed,
   Enter, PassGate, BrowserLocked, ApprovalRecheck, MutationLocked, Approve, Reject, Refuse,
      HandlerEnds, Unwind, LeftoverEnds, Timeout, GiveUp, CancelBatch, EndBatch, Close,
         CloseCancels, CloseForgets, Operate, LifecycleLocked, TakeDown, Stop, StartUp,
            StartFails, Restore

(* What the kind of a call says about it.                                  *)
LEMMA ServerFacts ==
  ASSUME kind \in [Calls -> Kinds], NEW c \in Calls
  PROVE  /\ Server(c) \in {"docs", "chrome", "none"}
         /\ Remote(c) <=> Server(c) # "none"
         /\ Remote(c) => Server(c) \in Servers
         /\ Chrome(c) <=> Server(c) = "chrome"
         /\ kind[c] = "click" => Chrome(c)
         /\ Navigates(c) => Chrome(c)
         /\ Chrome(c) => Governed(c) /\ ~Mutates(c)
         /\ Remote(c) => Governed(c) /\ ~Mutates(c)
         /\ kind[c] = "connect" => ~Remote(c) /\ ~Mutates(c)
BY DEF Server, Remote, Chrome, Navigates, Governed, Mutates, Kinds, Servers

-----------------------------------------------------------------------------
(* Types.                                                                  *)
OpType == [at : {"idle", "lock", "gate", "stopping", "starting", "restoring"},
           what : {"restart", "disable", "connect"}, server : Servers, had : BOOLEAN]
PcType == {"queued", "gate", "prompt", "handler", "over"} \cup Locks

(* The empty operation is an operation.                                    *)
LEMMA IdleType == Idle \in OpType
BY DEF Idle, OpType, Servers

(* Types hold at the start, ...                                            *)
LEMMA TypeInit == Init => TypeOK
<1> SUFFICES ASSUME Init PROVE TypeOK
  OBVIOUS
<1>1. op \in [Actors -> OpType]
  BY IdleType DEF Init
<1>2. kind \in Batches /\ disturbances \in 0..MaxDisturbances
  BY ToolCallsAssumption DEF Init
<1> QED BY <1>1, <1>2 DEF Init, TypeOK, OpType, Locks, Servers

(* ... when a call ends, ...                                               *)
LEMMA EndType ==
  ASSUME TypeOK, NEW c \in Calls, End(c)
  PROVE  /\ pc' \in [Calls -> PcType] /\ lock' \in [Locks -> Calls \cup {NoOne}]
         /\ resolved' \in [Calls -> Nat] /\ consent' \in [Calls -> Nat]
         /\ prompted' \subseteq Calls
BY DEF TypeOK, End, Released, PcType

(* ... or is refused, ...                                                  *)
LEMMA RefuseType == ASSUME TypeOK, NEW c \in Calls, Refuse(c) PROVE TypeOK'
<1>1. End(c)
  BY DEF Refuse, Finish
<1>2. answer' \in [Calls -> {"none", "result", "timeout", "canceled", "closed"}]
  BY DEF Refuse, Finish, TypeOK
<1> QED BY <1>1, <1>2, EndType DEF Refuse, TypeOK, PcType, serverVars, clientVars, browserVars,
     registryVars

(* ... whatever stage comes next, ...                                      *)
LEMMA StageType ==
  ASSUME NEW c
  PROVE  /\ AfterApproval(c) \in PcType /\ AfterBrowser(c) \in PcType
         /\ AfterGate(c) \in PcType
BY DEF AfterApproval, AfterBrowser, AfterGate, PcType, Locks

(* ... when it goes on, ...                                                *)
LEMMA ProceedType ==
  ASSUME TypeOK, NEW c \in Calls, NEW stage \in PcType, Proceed(c, stage)
  PROVE  /\ pc' \in [Calls -> PcType] /\ working' \subseteq Calls
         /\ op' \in [Actors -> OpType]
<1>1. [Idle EXCEPT !.at = "lock", !.what = "connect"] \in OpType
  BY DEF Idle, OpType, Servers
<1>2. op \in [Actors -> OpType] /\ pc \in [Calls -> PcType]
  BY DEF TypeOK, OpType, PcType
<1> QED BY <1>1, <1>2 DEF Proceed, TypeOK, Actors

(* ... takes or leaves a lock, ...                                         *)
LEMMA LockType ==
  ASSUME TypeOK, NEW l \in Locks, NEW c \in Calls
  PROVE  /\ Taken(l, c) \in [Locks -> Calls \cup {NoOne}]
         /\ ApprovalLeft(c) \in [Locks -> Calls \cup {NoOne}]
BY DEF TypeOK, Taken, ApprovalLeft

(* ... when a lifecycle operation leaves, ...                              *)
LEMMA LeaveType ==
  ASSUME TypeOK, NEW p \in Actors, Leave(p)
  PROVE  op' \in [Actors -> OpType] /\ lifecycle' \in Actors \cup {NoOne}
BY IdleType DEF TypeOK, Leave, OpType

(* ... when calls are stopped together, ...                                *)
LEMMA StopAllType ==
  ASSUME TypeOK, NEW why \in {"batch", "close"}, StopAll(why)
  PROVE  cause' \in [Calls -> {"none", "timeout", "batch", "close"}]
BY DEF TypeOK, StopAll

(* ... and when something disturbs them.                                   *)
LEMMA DisturbType ==
  ASSUME TypeOK, Disturb PROVE disturbances' \in 0..MaxDisturbances
BY ToolCallsAssumption DEF TypeOK, Disturb

(* What an operation is about.                                             *)
LEMMA OpServer ==
  ASSUME TypeOK, NEW p \in Actors
  PROVE  op[p].server \in Servers /\ op[p].what \in {"restart", "disable", "connect"}
BY DEF TypeOK

(* A call's epoch is a number.                                             *)
LEMMA EpochType == ASSUME TypeOK, NEW c \in Calls PROVE Epoch(c) \in Nat
BY DEF TypeOK, Epoch, Remote

(* Types after a connection, ...                                           *)
LEMMA ConnectType ==
  ASSUME TypeOK, NEW s \in Servers, Connect(s)
  PROVE  /\ client' \in [Servers -> Nat] /\ published' \in [Servers -> Nat]
         /\ started' \in Nat /\ page' \in {"blank", "bank", "open"}
BY DEF TypeOK, Connect

(* ... and after an operation commits.                                     *)
LEMMA CommitType ==
  ASSUME TypeOK, NEW p \in Actors, Commit(p)
  PROVE  /\ op' \in [Actors -> OpType] /\ lifecycle' \in Actors \cup {NoOne}
         /\ approved' \in [ApprovalKeys -> Nat] /\ epoch' \in [Servers -> Nat]
         /\ url' \in {"none", "bank", "open"} /\ uncertain' \in BOOLEAN
<1>1. op' \in [Actors -> OpType] /\ lifecycle' \in Actors \cup {NoOne}
  BY LeaveType DEF Commit
<1>2. approved' \in [ApprovalKeys -> Nat]
  BY DEF Commit, ClearApprovals, TypeOK
<1>3. epoch' \in [Servers -> Nat]
  BY OpServer DEF Commit, TypeOK
<1>4. url' \in {"none", "bank", "open"} /\ uncertain' \in BOOLEAN
  BY Zenon DEF Commit, TypeOK
<1> QED BY <1>1, <1>2, <1>3, <1>4

(* A call has a kind.                                                      *)
LEMMA KindType == TypeOK => kind \in [Calls -> Kinds]
BY ToolCallsAssumption DEF TypeOK

(* The approvals a call needs are approvals there are.                     *)
LEMMA KeysType ==
  ASSUME TypeOK, NEW c \in Calls, Governed(c) PROVE Keys(c) \subseteq ApprovalKeys
BY KindType DEF Governed, Keys, Tool, Navigates, Server, Servers, ApprovalKeys, Kinds

(* An abandoned operation is an operation.                                 *)
LEMMA UnwindOp ==
  ASSUME TypeOK, NEW p \in Actors PROVE Abandoned(op[p]) \in OpType
<1>1. op[p] \in OpType
  BY DEF TypeOK, OpType
<1> QED BY <1>1, IdleType DEF Abandoned, OpType

(* Calls wait only where their kind takes them.                            *)
Placed ==
  \A c \in Calls : /\ pc[c] = "gate" => Remote(c)
                   /\ pc[c] = "browser" => Chrome(c)
                   /\ pc[c] \in {"approval", "prompt"} => Governed(c)
                   /\ pc[c] = "mutation" => Mutates(c)

(* Every step keeps the types.                                             *)
LEMMA TypeStep == TypeOK /\ Placed /\ [Next]_vars => TypeOK'
<1> SUFFICES ASSUME TypeOK, Placed, [Next]_vars PROVE TypeOK'
  OBVIOUS
<1> USE DEF OpType, PcType, Locks, consentVars, clientVars, serverVars, callVars,
            browserVars, registryVars
<1>1. ASSUME NEW c \in Calls, EnterClosed(c) PROVE TypeOK'
  BY <1>1 DEF EnterClosed, TypeOK
<1>2. ASSUME NEW c \in Calls, Enter(c) PROVE TypeOK'
  BY <1>2, RefuseType, StageType, ProceedType DEF Enter, TypeOK
<1>3. ASSUME NEW c \in Calls, PassGate(c) PROVE TypeOK'
  <2>1. CASE Refuse(c)
    BY <2>1, RefuseType
  <2>2. CASE ~Refuse(c)
    <3>1. /\ pc[c] = "gate" /\ published[Server(c)] # 0 /\ Proceed(c, AfterGate(c))
          /\ resolved' = [resolved EXCEPT ![c] = published[Server(c)]]
          /\ UNCHANGED <<kind, answer, cause, consent, prompted, lock, approved,
                         clientVars, lifecycle, browserVars, registryVars>>
      BY <1>3, <2>2 DEF PassGate
    <3>2. AfterGate(c) \in PcType
      BY StageType
    <3>3. /\ pc' \in [Calls -> PcType] /\ working' \subseteq Calls /\ op' \in [Actors -> OpType]
      BY <3>1, <3>2, ProceedType
    <3>4. resolved' \in [Calls -> Nat]
      BY <3>1 DEF Placed, Remote, TypeOK
    <3> QED BY <3>1, <3>3, <3>4 DEF TypeOK
  <2> QED BY <2>1, <2>2
<1>4. ASSUME NEW c \in Calls, BrowserLocked(c) PROVE TypeOK'
  BY <1>4, StageType, ProceedType, LockType DEF BrowserLocked, TypeOK
<1>5. ASSUME NEW c \in Calls, ApprovalRecheck(c) PROVE TypeOK'
  <2>1. CASE Refuse(c)
    BY <2>1, RefuseType
  <2>2. CASE pc' = [pc EXCEPT ![c] = "prompt"] /\ lock' = Taken("approval", c)
             /\ UNCHANGED <<kind, answer, cause, consentVars, working, approved,
                            serverVars, browserVars, registryVars>>
    BY <2>2, LockType DEF TypeOK
  <2>3. ASSUME NEW k \in Remembered(c), consent' = [consent EXCEPT ![c] = approved[k]],
               Proceed(c, AfterApproval(c)), lock' = ApprovalLeft(c),
               UNCHANGED <<kind, answer, cause, resolved, prompted, approved,
                           clientVars, lifecycle, browserVars, registryVars>>
        PROVE TypeOK'
    <3>1. /\ pc' \in [Calls -> PcType] /\ working' \subseteq Calls /\ op' \in [Actors -> OpType]
      BY <2>3, StageType, ProceedType
    <3>2. lock' \in [Locks -> Calls \cup {NoOne}]
      BY <2>3, LockType DEF Locks
    <3>3. approved[k] \in Nat
      BY <1>5, <2>3, KeysType DEF ApprovalRecheck, Placed, Remembered, TypeOK
    <3>4. consent' \in [Calls -> Nat]
      BY <2>3, <3>3 DEF TypeOK
    <3> QED BY <2>3, <3>1, <3>2, <3>4 DEF TypeOK
  <2> QED BY <1>5, <2>1, <2>2, <2>3 DEF ApprovalRecheck
<1>6. ASSUME NEW c \in Calls, MutationLocked(c) PROVE TypeOK'
  BY <1>6, RefuseType, ProceedType, LockType DEF MutationLocked, TypeOK
<1>7. ASSUME NEW c \in Calls, Answer(c) PROVE TypeOK'
  <2>1. CASE Reject(c)
    BY <2>1, RefuseType DEF Reject
  <2>2. ASSUME NEW keys, Approve(c, keys) PROVE TypeOK'
    <3>1. /\ pc' \in [Calls -> PcType] /\ working' \subseteq Calls /\ op' \in [Actors -> OpType]
      BY <2>2, StageType, ProceedType DEF Approve
    <3>2. lock' \in [Locks -> Calls \cup {NoOne}]
      BY <2>2, LockType DEF Locks, Approve
    <3>3. approved' \in [ApprovalKeys -> Nat] /\ consent' \in [Calls -> Nat]
      BY <2>2, EpochType DEF Approve, TypeOK
    <3>4. prompted' \subseteq Calls
      BY <2>2 DEF Approve, TypeOK
    <3> QED BY <2>2, <3>1, <3>2, <3>3, <3>4 DEF Approve, TypeOK
  <2> QED BY <1>7, <2>1, <2>2 DEF Answer
<1>8. ASSUME NEW c \in Calls, HandlerEnds(c) PROVE TypeOK'
  BY <1>8, EndType DEF HandlerEnds, Finish, Navigates, Kinds, TypeOK
<1>9. ASSUME NEW c \in Calls, Unwind(c) PROVE TypeOK'
  <2>1. /\ pc' \in [Calls -> PcType] /\ lock' \in [Locks -> Calls \cup {NoOne}]
        /\ resolved' \in [Calls -> Nat] /\ consent' \in [Calls -> Nat] /\ prompted' \subseteq Calls
    BY <1>9, EndType DEF Unwind
  <2>2. c \in Actors /\ op \in [Actors -> OpType]
    BY DEF Actors, TypeOK
  <2>3. op' \in [Actors -> OpType]
    BY <1>9, <2>2, UnwindOp DEF Unwind
  <2>4. uncertain' \in BOOLEAN
    BY <1>9, Zenon DEF Unwind, UncertainAfterStop, TypeOK
  <2>5. page' \in {"blank", "bank", "open"}
    BY <1>9 DEF Unwind, Navigates, TypeOK
  <2>6. working' \subseteq Calls /\ lifecycle' \in Actors \cup {NoOne}
    BY <1>9 DEF Unwind, TypeOK
  <2> QED BY <1>9, <2>1, <2>3, <2>4, <2>5, <2>6 DEF Unwind, TypeOK
<1>10. ASSUME NEW c \in Calls, LeftoverEnds(c) PROVE TypeOK'
  BY <1>10 DEF LeftoverEnds, TypeOK
<1>11. ASSUME NEW c \in Calls, Timeout(c) PROVE TypeOK'
  BY <1>11 DEF Timeout, TypeOK
<1>12. ASSUME NEW c \in Calls, GiveUp(c) PROVE TypeOK'
  BY <1>12 DEF GiveUp, Verdict, TypeOK
<1>13. CASE CancelBatch
  BY <1>13, StopAllType, DisturbType DEF CancelBatch, TypeOK
<1>14. CASE EndBatch
  BY <1>14 DEF EndBatch, TypeOK
<1>15. CASE Close
  BY <1>15, DisturbType DEF Close, TypeOK
<1>16. CASE CloseCancels
  BY <1>16, StopAllType DEF CloseCancels, TypeOK
<1>17. CASE CloseForgets
  BY <1>17 DEF CloseForgets, TypeOK
<1>18. ASSUME NEW p \in Actors, LifecycleLocked(p) PROVE TypeOK'
  BY <1>18, LeaveType DEF LifecycleLocked, TypeOK
<1>19. ASSUME NEW p \in Actors, TakeDown(p) PROVE TypeOK'
  <2>1. op[p].server \in Servers /\ op[p] \in OpType
    BY DEF TypeOK
  <2>2. [op[p] EXCEPT !.had = client[op[p].server] # 0, !.at = "stopping"] \in OpType
    BY <2>1
  <2>3. op' \in [Actors -> OpType]
    BY <1>19, <2>2 DEF TakeDown, TypeOK
  <2>4. client' \in [Servers -> Nat] /\ published' \in [Servers -> Nat]
    BY <1>19, <2>1 DEF TakeDown, TypeOK
  <2> QED BY <1>19, <2>3, <2>4 DEF TakeDown, TypeOK
<1>20. ASSUME NEW p \in Actors, Stop(p) PROVE TypeOK'
  <2>1. CASE Commit(p)
    BY <1>20, <2>1, CommitType DEF Stop, TypeOK
  <2>2. CASE op' = [op EXCEPT ![p].at = "starting"]
             /\ UNCHANGED <<approved, epoch, lifecycle, url, uncertain>>
    <3>1. op' \in [Actors -> OpType]
      BY <2>2 DEF TypeOK
    <3> QED BY <1>20, <2>2, <3>1 DEF Stop, TypeOK
  <2> QED BY <1>20, <2>1, <2>2 DEF Stop
<1>21. ASSUME NEW p \in Actors, StartUp(p) PROVE TypeOK'
  BY <1>21, ConnectType, CommitType, OpServer DEF StartUp, TypeOK
<1>22. ASSUME NEW p \in Actors, StartFails(p) PROVE TypeOK'
  BY <1>22, LeaveType DEF StartFails, TypeOK
<1>23. ASSUME NEW p \in Actors, Restore(p) PROVE TypeOK'
  BY <1>23, LeaveType, ConnectType, OpServer DEF Restore, TypeOK
<1>24. ASSUME NEW p \in Operators, NEW what \in {"restart", "disable"}, NEW s \in Concerned,
   Operate(p, what, s) PROVE TypeOK'
  <2>1. s \in Servers
    BY DEF Concerned
  <2>2. [at |-> "lock", what |-> what, server |-> s, had |-> FALSE] \in OpType
    BY <2>1
  <2>3. op' \in [Actors -> OpType] /\ disturbances' \in 0..MaxDisturbances
    BY <1>24, <2>2, DisturbType DEF Operate, TypeOK
  <2> QED BY <1>24, <2>3 DEF Operate, TypeOK
<1>25. CASE UNCHANGED vars
  BY <1>25 DEF vars, TypeOK
<1> QED
  BY <1>1, <1>2, <1>3, <1>4, <1>5, <1>6, <1>7, <1>8, <1>9, <1>10, <1>11, <1>12, <1>13, <1>14,
     <1>15, <1>16, <1>17, <1>18, <1>19, <1>20, <1>21, <1>22, <1>23, <1>24, <1>25 DEF Next,
        Progress, CallStep, Transition
-----------------------------------------------------------------------------
(* The asyncio locks.                                                      *)
Held ==
  \A c \in Calls :
    /\ lock["browser"] = c <=> Chrome(c) /\ pc[c] \in {"approval", "prompt", "handler"}
    /\ lock["approval"] = c <=> pc[c] = "prompt"
    /\ lock["mutation"] = c <=> Mutates(c) /\ pc[c] = "handler"

(* The steps that concern no call's place and none of its locks.           *)
LEMMA QuietSteps ==
  ASSUME \/ \E c \in Calls : LeftoverEnds(c) \/ Timeout(c) \/ GiveUp(c)
         \/ EndBatch \/ Close \/ CloseCancels \/ CloseForgets
         \/ \E p \in Actors : Transition(p)
         \/ \E p \in Operators, what \in {"restart", "disable"}, s \in Concerned : Operate(p,
            what, s)
         \/ UNCHANGED vars
  PROVE  UNCHANGED <<pc, lock, kind>>
BY DEF LeftoverEnds, Timeout, GiveUp, EndBatch, Close, CloseCancels, CloseForgets, Transition,
       LifecycleLocked, TakeDown, Stop, StartUp, StartFails, Restore, Operate, vars, callVars

(* Every step keeps calls at their stage and locks with their holders.     *)
LEMMA HeldStep == TypeOK /\ Placed /\ Held /\ [Next]_vars => Placed' /\ Held'
<1> SUFFICES ASSUME TypeOK, Placed, Held, [Next]_vars PROVE Placed' /\ Held'
  OBVIOUS
<1> DEFINE kinds(c) == /\ Chrome(c)' <=> Chrome(c)
                       /\ Mutates(c)' <=> Mutates(c)
                       /\ Remote(c)' <=> Remote(c)
                       /\ Governed(c)' <=> Governed(c)
<1>k. \A c \in Calls : kinds(c)
  BY KindKept DEF Chrome, Mutates, Remote, Governed, Server
<1>f. \A c \in Calls : /\ Chrome(c) => Remote(c) /\ Governed(c) /\ ~Mutates(c)
                       /\ Remote(c) => Governed(c) /\ ~Mutates(c)
  BY ServerFacts, KindType
<1>t. /\ pc \in [Calls -> PcType] /\ lock \in [Locks -> Calls \cup {NoOne}]
      /\ NoOne \notin Calls
  BY ToolCallsAssumption DEF TypeOK, PcType
<1> HIDE DEF kinds
<1> USE DEF PcType, Locks
<1>1. ASSUME NEW c \in Calls, EnterClosed(c) PROVE Placed' /\ Held'
  BY <1>1, <1>k, <1>f, <1>t DEF EnterClosed, Proceed, End, Released, Taken, ApprovalLeft, Free,
     AfterGate, AfterBrowser, AfterApproval, kinds, Placed, Held
<1>2. ASSUME NEW c \in Calls, Enter(c) PROVE Placed' /\ Held'
  BY <1>2, <1>k, <1>f, <1>t DEF Enter, Refuse, Finish, Proceed, End, Released, Taken,
     ApprovalLeft, Free, AfterGate, AfterBrowser, AfterApproval, kinds, Placed, Held
<1>3. ASSUME NEW c \in Calls, PassGate(c) PROVE Placed' /\ Held'
  BY <1>3, <1>k, <1>f, <1>t DEF PassGate, Refuse, Finish, Proceed, End, Released, Taken,
     ApprovalLeft, Free, AfterGate, AfterBrowser, AfterApproval, kinds, Placed, Held
<1>4. ASSUME NEW c \in Calls, BrowserLocked(c) PROVE Placed' /\ Held'
  BY <1>4, <1>k, <1>f, <1>t DEF BrowserLocked, Proceed, End, Released, Taken, ApprovalLeft,
     Free, AfterGate, AfterBrowser, AfterApproval, kinds, Placed, Held
<1>5. ASSUME NEW c \in Calls, ApprovalRecheck(c) PROVE Placed' /\ Held'
  BY <1>5, <1>k, <1>f, <1>t DEF ApprovalRecheck, Refuse, Finish, Proceed, End, Released, Taken,
     ApprovalLeft, Free, AfterGate, AfterBrowser, AfterApproval, kinds, Placed, Held
<1>6. ASSUME NEW c \in Calls, MutationLocked(c) PROVE Placed' /\ Held'
  BY <1>6, <1>k, <1>f, <1>t DEF MutationLocked, Refuse, Finish, Proceed, End, Released, Taken,
     ApprovalLeft, Free, AfterGate, AfterBrowser, AfterApproval, kinds, Placed, Held
<1>7. ASSUME NEW c \in Calls, Answer(c) PROVE Placed' /\ Held'
  BY <1>7, <1>k, <1>f, <1>t DEF Answer, Approve, Reject, Refuse, Finish, Proceed, End,
     Released, Taken, ApprovalLeft, Free, AfterGate, AfterBrowser, AfterApproval, kinds,
        Placed, Held
<1>8. ASSUME NEW c \in Calls, HandlerEnds(c) PROVE Placed' /\ Held'
  BY <1>8, <1>k, <1>f, <1>t DEF HandlerEnds, Finish, Proceed, End, Released, Taken,
     ApprovalLeft, Free, AfterGate, AfterBrowser, AfterApproval, kinds, Placed, Held
<1>9. ASSUME NEW c \in Calls, Unwind(c) PROVE Placed' /\ Held'
  BY <1>9, <1>k, <1>f, <1>t DEF Unwind, Proceed, End, Released, Taken, ApprovalLeft, Free,
     AfterGate, AfterBrowser, AfterApproval, kinds, Placed, Held
<1>10. CASE CancelBatch
  BY <1>10, <1>k, <1>f, <1>t DEF CancelBatch, Proceed, End, Released, Taken, ApprovalLeft,
     Free, AfterGate, AfterBrowser, AfterApproval, kinds, Placed, Held
<1>11. CASE UNCHANGED <<pc, lock, kind>>
  BY <1>11, <1>k DEF kinds, Placed, Held
<1> QED BY <1>1, <1>2, <1>3, <1>4, <1>5, <1>6, <1>7, <1>8, <1>9, <1>10, <1>11, QuietSteps
     DEF Next, Progress, CallStep
-----------------------------------------------------------------------------
(* Who has a transition under way, and the manager's lifecycle lock.       *)
OpsPlaced ==
  /\ \A p \in Actors : op[p].at = "idle" => op[p] = Idle
  /\ \A p \in Actors : op[p].what = "connect" => op[p].server = "chrome"
  /\ \A c \in Calls : op[c] # Idle => pc[c] \in {"handler", "over"} /\ op[c].what = "connect"

LifecycleHeld == \A p \in Actors : lifecycle = p <=> op[p].at \notin {"idle", "lock"}

OpsInv == OpsPlaced /\ LifecycleHeld

(* Every step keeps what an operation needs to be under way.               *)
LEMMA OpsStep == TypeOK /\ OpsInv /\ [Next]_vars => OpsInv'
<1> SUFFICES ASSUME TypeOK, OpsInv, [Next]_vars PROVE OpsInv'
  OBVIOUS
<1>t. /\ op \in [Actors -> OpType] /\ pc \in [Calls -> PcType] /\ Calls \subseteq Actors
      /\ Operators \subseteq Actors /\ lifecycle \in Actors \cup {NoOne}
      /\ NoOne \notin Actors /\ Idle \in OpType /\ Idle.at = "idle"
      /\ Idle.what = "restart" /\ Calls \cap Operators = {}
  BY ToolCallsAssumption, IdleType DEF TypeOK, PcType, OpType, Actors, Idle
<1>p. ASSUME NEW c \in Calls, NEW stage \in PcType, Proceed(c, stage),
             pc[c] \notin {"handler", "over"},
             UNCHANGED lifecycle
      PROVE  OpsInv'
  <2>1. CASE UNCHANGED op
    BY <1>p, <1>t, <2>1 DEF Proceed, OpsInv, OpsPlaced, LifecycleHeld
  <2>2. CASE stage = "handler" /\ kind[c] = "connect"
    <3> DEFINE new == [Idle EXCEPT !.at = "lock", !.what = "connect"]
    <3>1. new.at = "lock" /\ new.what = "connect" /\ new.server = "chrome"
      BY DEF Idle
    <3>2. op' = [op EXCEPT ![c] = new] /\ pc' = [pc EXCEPT ![c] = "handler"]
      BY <1>p, <2>2 DEF Proceed
    <3> HIDE DEF new
    <3> QED BY <1>p, <1>t, <3>1, <3>2 DEF OpsInv, OpsPlaced, LifecycleHeld
  <2> QED BY <1>p, <2>1, <2>2 DEF Proceed
<1>e. ASSUME NEW c \in Calls, pc' = [pc EXCEPT ![c] = "over"], UNCHANGED <<op, lifecycle>>
      PROVE  OpsInv'
  BY <1>e, <1>t DEF OpsInv, OpsPlaced, LifecycleHeld
<1>r. ASSUME NEW c \in Calls, Refuse(c) PROVE OpsInv'
  BY <1>r, <1>e DEF Refuse, Finish, End, serverVars
<1>s. ASSUME UNCHANGED <<pc, op, lifecycle>> PROVE OpsInv'
  BY <1>s DEF OpsInv, OpsPlaced, LifecycleHeld
<1>l. ASSUME NEW p \in Actors, Leave(p), UNCHANGED pc PROVE OpsInv'
  BY <1>l, <1>t DEF Leave, OpsInv, OpsPlaced, LifecycleHeld
<1>m. ASSUME NEW p \in Actors, op[p].at \notin {"idle", "lock"}, NEW o \in OpType,
             op' = [op EXCEPT ![p] = o], o.at \notin {"idle", "lock"}, o.what = op[p].what,
             o.server = op[p].server, UNCHANGED <<pc, lifecycle>>
      PROVE  OpsInv'
  BY <1>m, <1>t DEF OpsInv, OpsPlaced, LifecycleHeld
<1> USE StageType
<1>1. ASSUME NEW c \in Calls, CallStep(c) PROVE OpsInv'
  <2>1. CASE EnterClosed(c)
    BY <2>1, <1>e DEF EnterClosed, serverVars
  <2>2. CASE Enter(c)
    BY <2>2, <1>p, <1>r DEF Enter, PcType
  <2>3. CASE PassGate(c)
    BY <2>3, <1>p, <1>r DEF PassGate
  <2>4. CASE BrowserLocked(c)
    BY <2>4, <1>p DEF BrowserLocked
  <2>5. CASE ApprovalRecheck(c)
    <3>1. CASE pc' = [pc EXCEPT ![c] = "prompt"] /\ UNCHANGED serverVars
      BY <2>5, <3>1, <1>t DEF ApprovalRecheck, serverVars, OpsInv, OpsPlaced, LifecycleHeld
    <3> QED BY <2>5, <3>1, <1>p, <1>r DEF ApprovalRecheck
  <2>6. CASE MutationLocked(c)
    BY <2>6, <1>p, <1>r DEF MutationLocked, PcType
  <2> QED BY <1>1, <2>1, <2>2, <2>3, <2>4, <2>5, <2>6 DEF CallStep
<1>2. ASSUME NEW c \in Calls, Answer(c) PROVE OpsInv'
  BY <1>2, <1>p, <1>r DEF Answer, Approve, Reject
<1>3. ASSUME NEW c \in Calls, HandlerEnds(c) PROVE OpsInv'
  BY <1>3, <1>e DEF HandlerEnds, Finish, End, serverVars
<1>4. ASSUME NEW c \in Calls, Unwind(c) PROVE OpsInv'
  <2> DEFINE o == Abandoned(op[c])
  <2>1. o \in OpType /\ (o = Idle \/ (o.at = "restoring" /\ o.what = op[c].what
                                     /\ o.server = op[c].server
                                     /\ op[c].at \in {"stopping", "starting"}))
    BY <1>t, IdleType DEF Abandoned, OpType
  <2>2. /\ op' = [op EXCEPT ![c] = o] /\ pc' = [pc EXCEPT ![c] = "over"]
        /\ lifecycle' = IF lifecycle = c /\ op'[c] = Idle THEN NoOne ELSE lifecycle
    BY <1>4 DEF Unwind, End
  <2>3. op'[c] = o
    BY <1>t, <2>2
  <2> HIDE DEF o
  <2> QED BY <1>t, <2>1, <2>2, <2>3 DEF OpsInv, OpsPlaced, LifecycleHeld
<1>5. ASSUME NEW p \in Actors, Transition(p) PROVE OpsInv'
  <2> op[p] \in OpType
    BY <1>t
  <2>1. CASE LifecycleLocked(p)
    <3>1. CASE op' = [op EXCEPT ![p].at = "gate"] /\ lifecycle' = p /\ lifecycle = NoOne
                 /\ op[p].at = "lock" /\ UNCHANGED pc
      BY <3>1, <1>t DEF OpsInv, OpsPlaced, LifecycleHeld, OpType
    <3> QED BY <2>1, <3>1, <1>l DEF LifecycleLocked, Transit, callVars
  <2>2. CASE TakeDown(p)
    <3> DEFINE o == [op[p] EXCEPT !.had = client[op[p].server] # 0, !.at = "stopping"]
    <3>1. o \in OpType /\ o.at = "stopping" /\ o.what = op[p].what /\ o.server = op[p].server
      BY DEF OpType
    <3>2. op' = [op EXCEPT ![p] = o] /\ op[p].at = "gate" /\ UNCHANGED <<pc, lifecycle>>
      BY <2>2 DEF TakeDown, Transit, callVars
    <3> HIDE DEF o
    <3> QED BY <3>1, <3>2, <1>m
  <2>3. CASE Stop(p)
    <3>1. CASE op' = [op EXCEPT ![p].at = "starting"] /\ UNCHANGED <<pc, lifecycle>>
                 /\ op[p].at = "stopping"
      BY <3>1, <1>m DEF OpType
    <3> QED BY <2>3, <3>1, <1>l DEF Stop, Transit, Commit, callVars
  <2>4. CASE StartUp(p)
    BY <2>4, <1>l DEF StartUp, Commit, callVars
  <2>5. CASE StartFails(p)
    <3>1. CASE op' = [op EXCEPT ![p].at = "restoring"] /\ UNCHANGED <<pc, lifecycle>>
                 /\ op[p].at = "starting"
      BY <3>1, <1>m DEF OpType
    <3> QED BY <2>5, <3>1, <1>l DEF StartFails, Transit, callVars
  <2>6. CASE Restore(p)
    BY <2>6, <1>l DEF Restore, callVars
  <2> QED BY <1>5, <2>1, <2>2, <2>3, <2>4, <2>5, <2>6 DEF Transition
<1>6. ASSUME NEW p \in Operators, NEW what \in {"restart", "disable"}, NEW s \in Concerned,
             Operate(p, what, s)
      PROVE  OpsInv'
  <2> DEFINE o == [at |-> "lock", what |-> what, server |-> s, had |-> FALSE]
  <2>1. o.at = "lock" /\ o.what # "connect"
    OBVIOUS
  <2>2. op' = [op EXCEPT ![p] = o] /\ op[p] = Idle /\ UNCHANGED <<pc, lifecycle>>
    BY <1>6 DEF Operate, callVars
  <2> HIDE DEF o
  <2> QED BY <1>t, <2>1, <2>2 DEF OpsInv, OpsPlaced, LifecycleHeld
<1>7. CASE CancelBatch
  BY <1>7, <1>t DEF CancelBatch, serverVars, OpsInv, OpsPlaced, LifecycleHeld
<1>8. ASSUME \/ \E c \in Calls : LeftoverEnds(c) \/ Timeout(c) \/ GiveUp(c)
             \/ EndBatch \/ Close \/ CloseCancels \/ CloseForgets \/ UNCHANGED vars
      PROVE  OpsInv'
  BY <1>8, <1>s DEF LeftoverEnds, Timeout, GiveUp, EndBatch, Close, CloseCancels, CloseForgets,
                    vars, callVars, serverVars
<1> QED BY <1>1, <1>2, <1>3, <1>4, <1>5, <1>6, <1>7, <1>8 DEF Next, Progress
-----------------------------------------------------------------------------
(* What concerns a call changes only in its own steps.                     *)
Own(c) == <<pc[c], resolved[c], consent[c], c \in prompted>>
OwnStep(c) == CallStep(c) \/ Answer(c) \/ HandlerEnds(c) \/ Unwind(c)

(* Only a call's own steps, or its batch, change what is its own.          *)
LEMMA OwnSteps ==
  ASSUME TypeOK, [Next]_vars, NEW c \in Calls, ~OwnStep(c)
  PROVE  \/ Own(c)' = Own(c)
         \/ CancelBatch /\ pc[c] = "queued" /\ pc'[c] = "over"
<1>t. /\ pc \in [Calls -> PcType] /\ resolved \in [Calls -> Nat] /\ consent \in [Calls -> Nat]
  BY DEF TypeOK, PcType
<1> USE DEF Own
<1>1. ASSUME NEW d \in Calls, d # c, OwnStep(d) PROVE Own(c)' = Own(c)
  <2>1. CASE EnterClosed(d)
    BY <1>t, <1>1, <2>1 DEF EnterClosed, consentVars
  <2>2. CASE Enter(d)
    BY <1>t, <1>1, <2>2 DEF Enter, Proceed, Refuse, Finish, End, consentVars
  <2>3. CASE PassGate(d)
    BY <1>t, <1>1, <2>3 DEF PassGate, Proceed, Refuse, Finish, End, consentVars
  <2>4. CASE BrowserLocked(d)
    BY <1>t, <1>1, <2>4 DEF BrowserLocked, Proceed, consentVars
  <2>5. CASE ApprovalRecheck(d)
    BY <1>t, <1>1, <2>5 DEF ApprovalRecheck, Proceed, Refuse, Finish, End, consentVars
  <2>6. CASE MutationLocked(d)
    BY <1>t, <1>1, <2>6 DEF MutationLocked, Proceed, Refuse, Finish, End, consentVars
  <2>7. CASE Answer(d)
    BY <1>t, <1>1, <2>7 DEF Answer, Approve, Reject, Proceed, Refuse, Finish, End, consentVars
  <2>8. CASE HandlerEnds(d)
    BY <1>t, <1>1, <2>8 DEF HandlerEnds, Finish, End, consentVars
  <2>9. CASE Unwind(d)
    BY <1>t, <1>1, <2>9 DEF Unwind, End, consentVars
  <2> QED BY <1>1, <2>1, <2>2, <2>3, <2>4, <2>5, <2>6, <2>7, <2>8, <2>9 DEF OwnStep, CallStep
<1>2. CASE CancelBatch
  BY <1>t, <1>2 DEF CancelBatch, consentVars
<1>3. ASSUME \/ \E d \in Calls : LeftoverEnds(d) \/ Timeout(d) \/ GiveUp(d)
             \/ EndBatch \/ Close \/ CloseCancels \/ CloseForgets
             \/ \E p \in Actors : Transition(p)
             \/ \E p \in Operators, what \in {"restart", "disable"},
                s \in Concerned : Operate(p, what, s)
             \/ UNCHANGED vars
      PROVE  UNCHANGED <<pc, resolved, consent, prompted>>
  BY <1>3 DEF LeftoverEnds, Timeout, GiveUp, EndBatch, Close, CloseCancels, CloseForgets,
     Transition,
       LifecycleLocked, TakeDown, Stop, StartUp, StartFails, Restore, Operate, vars, callVars,
          consentVars
<1> QED BY <1>1, <1>2, <1>3 DEF Next, Progress, OwnStep

(* Into a gate leads only PassGate.                                        *)
LEMMA SharingStep ==
  ASSUME TypeOK, [Next]_vars, NEW s \in Servers, NEW c \in Sharing(s)'
  PROVE  \/ c \in Sharing(s) /\ Server(c) = s /\ pc[c] \notin {"queued", "over", "gate"}
         \/ PassGate(c) /\ Server(c) = s /\ pc[c] = "gate"
<1>1. c \in Calls /\ Server(c) = s /\ pc'[c] \notin {"queued", "over", "gate"} /\ Remote(c)
  BY KindKept DEF Sharing, Alive, Server, Remote
<1>2. CASE pc[c] \notin {"queued", "over", "gate"}
  BY <1>1, <1>2 DEF Sharing, Alive
<1>3. CASE pc[c] \in {"queued", "over", "gate"}
  <2>1. pc'[c] # pc[c] /\ OwnStep(c)
    BY <1>1, <1>3, OwnSteps DEF Own
  <2>2. PassGate(c)
    BY <1>1, <1>3, <2>1 DEF OwnStep, CallStep, EnterClosed, Enter, BrowserLocked,
       ApprovalRecheck, MutationLocked,
        Answer, Approve, Reject, HandlerEnds, Unwind, End, Proceed, TypeOK, Alive
  <2> QED BY <1>1, <2>2 DEF PassGate
<1> QED BY <1>2, <1>3

(* A transition comes to own a server's gate by TakeDown.                  *)
LEMMA OwningStep ==
  ASSUME TypeOK, OpsInv, [Next]_vars, NEW s \in Servers, NEW p \in Owning(s)'
  PROVE  p \in Owning(s) \/ (TakeDown(p) /\ op[p].server = s)
<1>t. op \in [Actors -> OpType] /\ Calls \subseteq Actors /\ Operators \subseteq Actors
  BY DEF TypeOK, OpType, Actors
<1>o. p \in Actors /\ op'[p].server = s /\ op'[p].at \in {"stopping", "starting", "restoring"}
  BY DEF Owning
<1>u. op'[p] = op[p] => p \in Owning(s)
  BY <1>o DEF Owning
<1>p. ASSUME NEW c \in Calls, NEW stage, Proceed(c, stage) PROVE op'[p] = op[p]
  <2>1. [Idle EXCEPT !.at = "lock", !.what = "connect"].at = "lock"
    BY DEF Idle
  <2> QED BY <1>t, <1>o, <1>p, <2>1 DEF Proceed
<1>r. ASSUME NEW c \in Calls, Refuse(c) PROVE op' = op
  BY <1>r DEF Refuse, serverVars
<1>l. ASSUME NEW q \in Actors, Leave(q) PROVE op'[p] = op[p]
  BY <1>l, <1>t, <1>o DEF Leave, Idle
<1>m. ASSUME NEW q \in Actors, NEW o \in OpType, op' = [op EXCEPT ![q] = o],
             o.server = op[q].server, op[q].at \in {"stopping", "starting", "restoring"}
      PROVE  p \in Owning(s)
  BY <1>m, <1>t, <1>o DEF Owning
<1>1. ASSUME NEW c \in Calls, CallStep(c) \/ Answer(c) \/ HandlerEnds(c) PROVE op'[p] = op[p]
  <2>1. CASE EnterClosed(c) \/ HandlerEnds(c)
    BY <2>1 DEF EnterClosed, HandlerEnds, serverVars
  <2>2. CASE Enter(c) \/ PassGate(c) \/ BrowserLocked(c)
    BY <2>2, <1>p, <1>r DEF Enter, PassGate, BrowserLocked
  <2>3. CASE ApprovalRecheck(c)
    BY <2>3, <1>p, <1>r DEF ApprovalRecheck, serverVars
  <2>4. CASE MutationLocked(c) \/ Answer(c)
    BY <2>4, <1>p, <1>r DEF MutationLocked, Answer, Approve, Reject
  <2> QED BY <1>1, <2>1, <2>2, <2>3, <2>4 DEF CallStep
<1>2. ASSUME NEW c \in Calls, Unwind(c) PROVE p \in Owning(s)
  <2> DEFINE o == Abandoned(op[c])
  <2>1. o \in OpType /\ (o = Idle \/ (o.server = op[c].server /\ op[c].at \in {"stopping", "starting"}))
    BY <1>t, IdleType DEF Abandoned, OpType
  <2>2. op' = [op EXCEPT ![c] = o]
    BY <1>2 DEF Unwind
  <2>3. Idle.at = "idle"
    BY DEF Idle
  <2> HIDE DEF o
  <2>4. CASE o = Idle
    BY <1>t, <1>o, <1>u, <2>2, <2>3, <2>4
  <2> QED BY <1>t, <2>1, <2>2, <2>4, <1>m
<1>3. ASSUME NEW q \in Actors, Transition(q)
   PROVE p \in Owning(s) \/ (TakeDown(p) /\ op[p].server = s)
  <2> op[q] \in OpType
    BY <1>t
  <2>1. CASE LifecycleLocked(q)
    <3>1. CASE op' = [op EXCEPT ![q].at = "gate"]
      BY <1>t, <1>o, <1>u, <3>1 DEF OpType
    <3> QED BY <2>1, <3>1, <1>l, <1>u DEF LifecycleLocked
  <2>2. CASE TakeDown(q)
    <3> DEFINE o == [op[q] EXCEPT !.had = client[op[q].server] # 0, !.at = "stopping"]
    <3>1. o.server = op[q].server /\ op' = [op EXCEPT ![q] = o]
      BY <2>2 DEF TakeDown, OpType
    <3> HIDE DEF o
    <3> QED BY <1>t, <1>o, <1>u, <2>2, <3>1
  <2>3. CASE Stop(q)
    <3>1. CASE op' = [op EXCEPT ![q].at = "starting"]
      BY <2>3, <3>1, <1>m DEF Stop, Transit, OpType
    <3> QED BY <2>3, <3>1, <1>l, <1>u DEF Stop, Commit
  <2>4. CASE StartUp(q) \/ Restore(q)
    BY <2>4, <1>l, <1>u DEF StartUp, Restore, Commit
  <2>5. CASE StartFails(q)
    <3>1. CASE op' = [op EXCEPT ![q].at = "restoring"]
      BY <2>5, <3>1, <1>m DEF StartFails, Transit, OpType
    <3> QED BY <2>5, <3>1, <1>l, <1>u DEF StartFails
  <2> QED BY <1>3, <2>1, <2>2, <2>3, <2>4, <2>5 DEF Transition
<1>4. ASSUME NEW q \in Operators, NEW what \in {"restart", "disable"}, NEW t \in Concerned,
             Operate(q, what, t)
      PROVE  op'[p] = op[p]
  BY <1>4, <1>t, <1>o DEF Operate
<1>5. ASSUME \/ \E c \in Calls : LeftoverEnds(c) \/ Timeout(c) \/ GiveUp(c)
             \/ CancelBatch \/ EndBatch \/ Close \/ CloseCancels \/ CloseForgets
             \/ UNCHANGED vars
      PROVE  op' = op
  BY <1>5 DEF LeftoverEnds, Timeout, GiveUp, CancelBatch, EndBatch, Close, CloseCancels,
     CloseForgets,
              vars, serverVars
<1> QED BY <1>u, <1>1, <1>2, <1>3, <1>4, <1>5 DEF Next, Progress

Alone == \A s \in Servers : Owning(s) # {} => Sharing(s) = {}

(* Every step keeps calls and transitions of a server apart.               *)
LEMMA AloneStep == TypeOK /\ OpsInv /\ Alone /\ [Next]_vars => Alone'
<1> SUFFICES ASSUME TypeOK, OpsInv, Alone, [Next]_vars, NEW s \in Servers,
                    NEW p \in Owning(s)', NEW c \in Sharing(s)'
             PROVE  FALSE
  BY DEF Alone
<1>1. c \in Sharing(s) => Owning(s) = {}
  BY DEF Alone
<1>2. PassGate(c) /\ Server(c) = s => Owning(s) = {} /\ Waiting(s) = {}
  BY DEF PassGate, Admitted
<1>3. TakeDown(p) /\ op[p].server = s => Sharing(s) = {} /\ p \in Waiting(s)
  BY DEF TakeDown, Transit, Waiting, Owning
<1> QED BY <1>1, <1>2, <1>3, SharingStep, OwningStep
-----------------------------------------------------------------------------
(* Clients and their tools are replaced only while nobody is in the gate.  *)
LEMMA ClientStep ==
  ASSUME TypeOK, OpsInv, Alone, [Next]_vars, NEW s \in Servers, published[s] \in {0, client[s]}
  PROVE  \/ client'[s] = client[s] /\ published'[s] \in {published[s], 0}
         \/ /\ Sharing(s) = {} /\ Waiting(s) \cup Owning(s) # {}
            /\ published'[s] \in {0, client'[s]}
<1>t. /\ client \in [Servers -> Nat] /\ published \in [Servers -> Nat]
      /\ \A p \in Actors : op[p].server \in Servers
  BY OpServer DEF TypeOK
<1>a. ASSUME NEW p \in Actors, op[p].server = s,
             op[p].at \in {"stopping", "starting", "restoring"}
      PROVE  Sharing(s) = {} /\ Owning(s) # {}
  BY <1>a DEF Alone, Owning
<1>c. ASSUME NEW t \in Servers, Connect(t)
      PROVE  IF t = s THEN published'[s] = client'[s]
                      ELSE client'[s] = client[s] /\ published'[s] = published[s]
  BY <1>t, <1>c DEF Connect
<1>1. ASSUME NEW p \in Actors, Transition(p)
      PROVE \/ client'[s] = client[s] /\ published'[s] = published[s]
            \/ /\ Sharing(s) = {} /\ Waiting(s) \cup Owning(s) # {}
               /\ published'[s] \in {0, client'[s]}
  <2>1. CASE LifecycleLocked(p) \/ StartFails(p) \/ Stop(p)
    BY <2>1 DEF LifecycleLocked, StartFails, Stop, clientVars
  <2>2. CASE TakeDown(p)
    BY <2>2, <1>t DEF TakeDown, Transit, Waiting
  <2>3. CASE StartUp(p)
    BY <2>3, <1>t, <1>a, <1>c DEF StartUp, Transit
  <2>4. CASE Restore(p)
    BY <2>4, <1>t, <1>a, <1>c DEF Restore, Transit
  <2> QED BY <1>1, <2>1, <2>2, <2>3, <2>4 DEF Transition
<1>2. ASSUME NEW c \in Calls, OwnStep(c) PROVE UNCHANGED <<client, published>>
  BY <1>2 DEF OwnStep, CallStep, EnterClosed, Enter, PassGate, BrowserLocked, ApprovalRecheck,
     MutationLocked,
     Answer, Approve, Reject, Refuse, HandlerEnds, Unwind, serverVars, clientVars
<1>3. CASE CloseForgets
  BY <1>3, <1>t DEF CloseForgets
<1>4. ASSUME \/ \E c \in Calls : LeftoverEnds(c) \/ Timeout(c) \/ GiveUp(c)
             \/ CancelBatch \/ EndBatch \/ Close \/ CloseCancels
             \/ \E p \in Operators, what \in {"restart", "disable"},
                t \in Concerned : Operate(p, what, t)
             \/ UNCHANGED vars
      PROVE  UNCHANGED <<client, published>>
  BY <1>4 DEF LeftoverEnds, Timeout, GiveUp, CancelBatch, EndBatch, Close, CloseCancels,
     Operate,
              vars, serverVars, clientVars
<1> QED BY <1>1, <1>2, <1>3, <1>4 DEF Next, Progress, OwnStep

Clients ==
  \A s \in Servers : /\ published[s] \in {0, client[s]}
                     /\ \A c \in Sharing(s) : resolved[c] = client[s]

(* Every step keeps published clients the connected ones.                  *)
LEMMA ClientsStep == TypeOK /\ OpsInv /\ Alone /\ Clients /\ [Next]_vars => Clients'
<1> SUFFICES ASSUME TypeOK, OpsInv, Alone, Clients, [Next]_vars, NEW s \in Servers
             PROVE  /\ published'[s] \in {0, client'[s]}
                    /\ \A c \in Sharing(s)' : resolved'[c] = client'[s]
  BY DEF Clients
<1>1. published[s] \in {0, client[s]} /\ \A c \in Sharing(s) : resolved[c] = client[s]
  BY DEF Clients
<1>2. ASSUME NEW c \in Sharing(s)' PROVE resolved'[c] = client'[s]
  <2>1. c \in Calls /\ pc'[c] # "over"
    BY DEF Sharing, Alive
  <2>2. CASE c \in Sharing(s) /\ pc[c] \notin {"queued", "over", "gate"}
    <3>1. client'[s] = client[s]
      BY <1>1, <2>2, ClientStep
    <3>2. ASSUME OwnStep(c) PROVE resolved'[c] = resolved[c]
      <4>1. ~Refuse(c)
        BY <2>1 DEF Refuse, Finish, End, TypeOK
      <4>2. CASE BrowserLocked(c) \/ ApprovalRecheck(c) \/ MutationLocked(c) \/ Answer(c)
        BY <4>1, <4>2 DEF BrowserLocked, ApprovalRecheck, MutationLocked, Answer, Approve,
           Reject, consentVars
      <4>3. CASE EnterClosed(c) \/ Enter(c) \/ PassGate(c)
        BY <2>2, <4>3 DEF EnterClosed, Enter, PassGate
      <4>4. CASE HandlerEnds(c) \/ Unwind(c)
        BY <2>1, <4>4 DEF HandlerEnds, Unwind, Finish, End, TypeOK
      <4> QED BY <3>2, <4>2, <4>3, <4>4 DEF OwnStep, CallStep
    <3> QED BY <1>1, <2>1, <2>2, <3>1, <3>2, OwnSteps DEF Own
  <2>3. CASE PassGate(c) /\ Server(c) = s /\ pc[c] = "gate"
    <3>1. Owning(s) = {} /\ Waiting(s) = {}
      BY <2>3 DEF PassGate, Admitted
    <3>2. client'[s] = client[s]
      BY <1>1, <3>1, ClientStep
    <3>3. resolved'[c] = published[s] /\ published[s] # 0
      BY <2>1, <2>3 DEF PassGate, Refuse, Finish, End, TypeOK
    <3> QED BY <1>1, <3>2, <3>3
  <2> QED BY <2>2, <2>3, SharingStep
<1> QED BY <1>1, <1>2, ClientStep
-----------------------------------------------------------------------------
(* Approvals: all that is remembered of a server and its tools was given   *)
(* in the server's present epoch.                                          *)
KeysOf(s) == {s} \cup (IF s = "chrome" THEN {"navigate", "click"} ELSE {"tool"})

Consents ==
  \A s \in Servers : /\ \A k \in KeysOf(s) : approved[k] \in {0, epoch[s]}
                     /\ \A c \in Sharing(s) : pc[c] = "handler" => consent[c] = epoch[s]

(* A server's approvals are its own.                                       *)
LEMMA KeysFacts ==
  ASSUME TypeOK, NEW s \in Servers
  PROVE  /\ KeysOf(s) \subseteq ApprovalKeys
         /\ \A t \in Servers : t # s => KeysOf(s) \cap KeysOf(t) = {}
         /\ \A c \in Calls : Server(c) = s => Keys(c) \subseteq KeysOf(s)
         /\ \A c \in Calls : {Tool(c), Server(c)} \cap KeysOf(s) # {} => Server(c) = s
BY KindType DEF KeysOf, ApprovalKeys, Servers, Keys, Tool, Navigates, Server, Kinds

(* A new epoch comes with no call under way and no approval left.          *)
LEMMA EpochStep ==
  ASSUME TypeOK, OpsInv, Alone, [Next]_vars, NEW s \in Servers
  PROVE  \/ epoch'[s] = epoch[s]
         \/ Sharing(s) = {} /\ Owning(s) # {} /\ \A k \in KeysOf(s) : approved'[k] = 0
<1>t. /\ epoch \in [Servers -> Nat] /\ approved \in [ApprovalKeys -> Nat]
      /\ \A p \in Actors : op[p].server \in Servers
  BY OpServer DEF TypeOK
<1>1. ASSUME NEW p \in Actors, Commit(p), op[p].at \in {"stopping", "starting"}
      PROVE  \/ epoch'[s] = epoch[s]
             \/ Sharing(s) = {} /\ Owning(s) # {} /\ \A k \in KeysOf(s) : approved'[k] = 0
  <2>1. CASE op[p].server # s
    BY <1>1, <1>t, <2>1 DEF Commit
  <2>2. CASE op[p].server = s
    <3>1. p \in Owning(s)
      BY <1>1, <2>2 DEF Owning
    <3>2. \A k \in KeysOf(s) : approved'[k] = 0
      BY <1>1, <1>t, <2>2, KeysFacts DEF Commit, ClearApprovals, KeysOf
    <3> QED BY <3>1, <3>2 DEF Alone
  <2> QED BY <2>1, <2>2
<1>2. ASSUME NEW p \in Actors, Transition(p)
      PROVE  epoch' = epoch \/ (Commit(p) /\ op[p].at \in {"stopping", "starting"})
  BY <1>2 DEF Transition, LifecycleLocked, TakeDown, Stop, StartUp, StartFails, Restore,
     Transit, clientVars
<1>3. ASSUME NEW c \in Calls, OwnStep(c) PROVE epoch' = epoch
  BY <1>3 DEF OwnStep, CallStep, EnterClosed, Enter, PassGate, BrowserLocked, ApprovalRecheck,
     MutationLocked,
     Answer, Approve, Reject, Refuse, HandlerEnds, Unwind, serverVars, clientVars
<1>4. ASSUME \/ \E c \in Calls : LeftoverEnds(c) \/ Timeout(c) \/ GiveUp(c)
             \/ CancelBatch \/ EndBatch \/ Close \/ CloseCancels \/ CloseForgets
             \/ \E p \in Operators, what \in {"restart", "disable"},
                t \in Concerned : Operate(p, what, t)
             \/ UNCHANGED vars
      PROVE  epoch' = epoch
  BY <1>4 DEF LeftoverEnds, Timeout, GiveUp, CancelBatch, EndBatch, Close, CloseCancels,
     CloseForgets, Operate,
              vars, serverVars, clientVars
<1> QED BY <1>1, <1>2, <1>3, <1>4 DEF Next, Progress, OwnStep

(* What becomes of the remembered approvals.                               *)
LEMMA ApprovedStep ==
  ASSUME TypeOK, [Next]_vars, NEW k \in ApprovalKeys
  PROVE  \/ approved'[k] \in {approved[k], 0}
         \/ \E c \in Calls : /\ pc[c] = "prompt" /\ Answer(c) /\ ~ForcesApproval(c)
                             /\ k \in {Tool(c), Server(c)} /\ approved'[k] = Epoch(c)
<1>t. approved \in [ApprovalKeys -> Nat]
  BY DEF TypeOK
<1>1. ASSUME NEW c \in Calls, Answer(c)
      PROVE  \/ approved'[k] = approved[k]
             \/ /\ pc[c] = "prompt" /\ Answer(c) /\ ~ForcesApproval(c)
                /\ k \in {Tool(c), Server(c)} /\ approved'[k] = Epoch(c)
  BY <1>t, <1>1 DEF Answer, Approve, Reject, Refuse
<1>2. ASSUME NEW p \in Actors, Transition(p) PROVE approved'[k] \in {approved[k], 0}
  BY <1>t, <1>2 DEF Transition, LifecycleLocked, TakeDown, Stop, StartUp, StartFails, Restore,
     Commit,
     ClearApprovals
<1>3. ASSUME NEW c \in Calls, CallStep(c) \/ HandlerEnds(c) \/ Unwind(c)
   PROVE approved' = approved
  BY <1>3 DEF CallStep, EnterClosed, Enter, PassGate, BrowserLocked, ApprovalRecheck,
     MutationLocked,
     Refuse, HandlerEnds, Unwind
<1>4. ASSUME \/ \E c \in Calls : LeftoverEnds(c) \/ Timeout(c) \/ GiveUp(c)
             \/ CancelBatch \/ EndBatch \/ Close \/ CloseCancels \/ CloseForgets
             \/ \E p \in Operators, what \in {"restart", "disable"},
                t \in Concerned : Operate(p, what, t)
             \/ UNCHANGED vars
      PROVE  approved' = approved
  BY <1>4 DEF LeftoverEnds, Timeout, GiveUp, CancelBatch, EndBatch, Close, CloseCancels,
     CloseForgets, Operate,
              vars
<1> QED BY <1>1, <1>2, <1>3, <1>4 DEF Next, Progress

(* Every step keeps consents those of the epoch.                           *)
LEMMA ConsentsStep ==
  TypeOK /\ Placed /\ OpsInv /\ Alone /\ Consents /\ [Next]_vars => Consents'
<1> SUFFICES ASSUME TypeOK, Placed, OpsInv, Alone, Consents, [Next]_vars, NEW s \in Servers
             PROVE  /\ \A k \in KeysOf(s) : approved'[k] \in {0, epoch'[s]}
                    /\ \A c \in Sharing(s)' : pc'[c] = "handler" => consent'[c] = epoch'[s]
  BY DEF Consents
<1>1. /\ \A k \in KeysOf(s) : approved[k] \in {0, epoch[s]}
      /\ \A c \in Sharing(s) : pc[c] = "handler" => consent[c] = epoch[s]
  BY DEF Consents
<1>2. ASSUME NEW k \in KeysOf(s) PROVE approved'[k] \in {0, epoch'[s]}
  <2>1. CASE epoch'[s] = epoch[s]
    <3>1. ASSUME NEW c \in Calls, k \in {Tool(c), Server(c)} PROVE Epoch(c) = epoch[s]
      BY <3>1, KeysFacts DEF Epoch, Remote
    <3> QED BY <1>1, <2>1, <3>1, KeysFacts, ApprovedStep
  <2> QED BY <2>1, EpochStep
<1>3. ASSUME NEW c \in Sharing(s)', pc'[c] = "handler" PROVE consent'[c] = epoch'[s]
  <2>1. c \in Calls /\ kind \in [Calls -> Kinds]
    BY KindType DEF Sharing, Alive
  <2>2. CASE c \in Sharing(s) /\ Server(c) = s /\ pc[c] \notin {"queued", "over", "gate"}
    <3>1. epoch'[s] = epoch[s]
      BY <2>2, EpochStep
    <3>2. Remote(c) /\ ~Mutates(c) /\ Epoch(c) = epoch[s] /\ Keys(c) \subseteq KeysOf(s) /\ Governed(c)
      BY <2>1, <2>2, ServerFacts, KeysFacts DEF Remote, Epoch
    <3>3. CASE OwnStep(c)
      <4>1. CASE ApprovalRecheck(c)
        <5>1. PICK k \in Remembered(c) : consent' = [consent EXCEPT ![c] = approved[k]]
          BY <1>3, <2>1, <2>2, <4>1 DEF ApprovalRecheck, Refuse, Finish, End, TypeOK
        <5>2. approved[k] = epoch[s]
          BY <1>1, <3>2 DEF Remembered
        <5> QED BY <2>1, <3>1, <5>1, <5>2 DEF TypeOK
      <4>2. CASE Answer(c)
        BY <1>3, <2>1, <3>1, <3>2, <4>2 DEF Answer, Approve, Reject, Refuse, Finish, End, TypeOK
      <4>3. CASE BrowserLocked(c)
        BY <1>3, <2>1, <3>2, <4>3 DEF BrowserLocked, Proceed, AfterBrowser, TypeOK
      <4>4. CASE MutationLocked(c)
        BY <2>1, <3>2, <4>4 DEF MutationLocked, Placed
      <4>5. CASE EnterClosed(c) \/ Enter(c) \/ PassGate(c)
        BY <2>2, <4>5 DEF EnterClosed, Enter, PassGate
      <4>6. CASE HandlerEnds(c) \/ Unwind(c)
        BY <1>3, <2>1, <4>6 DEF HandlerEnds, Unwind, Finish, End, TypeOK
      <4> QED BY <3>3, <4>1, <4>2, <4>3, <4>4, <4>5, <4>6 DEF OwnStep, CallStep
    <3> QED BY <1>1, <1>3, <2>1, <2>2, <3>1, <3>3, OwnSteps DEF Own
  <2>3. CASE PassGate(c) /\ Server(c) = s
    BY <1>3, <2>1, <2>3, ServerFacts DEF PassGate, Refuse, Finish, End, Proceed, AfterGate,
       AfterBrowser, Remote, TypeOK
  <2> QED BY <2>2, <2>3, SharingStep
<1> QED BY <1>2, <1>3
-----------------------------------------------------------------------------
(* The browser's session and the page it shows.                            *)
BankKnown == page = "bank" => uncertain \/ url = "bank"

Reconnected(p) ==
  /\ StartUp(p) /\ Owning("chrome") # {}
  /\ url' = "none" /\ uncertain' = FALSE /\ page' = "blank"

(* What a step may do to the page and to what is known of it.              *)
LEMMA BrowserStep ==
  ASSUME TypeOK, OpsInv, [Next]_vars
  PROVE  \/ UNCHANGED browserVars
         \/ \E c \in Calls : /\ HandlerEnds(c) /\ Navigates(c) /\ pc[c] = "handler"
                             /\ url' = kind[c] /\ page' = kind[c]
         \/ \E c \in Calls : /\ Unwind(c) /\ UNCHANGED url /\ uncertain' = UncertainAfterStop(c)
                             /\ page' = page \/ (Navigates(c) /\ pc[c] = "handler")
         \/ \E p \in Actors : /\ Transition(p) /\ page' \in {page, "blank"}
                              /\ UNCHANGED <<url, uncertain>> \/ Reconnected(p)
<1>1. ASSUME NEW c \in Calls, HandlerEnds(c)
      PROVE  \/ UNCHANGED browserVars
             \/ /\ HandlerEnds(c) /\ Navigates(c) /\ pc[c] = "handler"
                /\ url' = kind[c] /\ page' = kind[c]
  BY <1>1 DEF HandlerEnds
<1>2. ASSUME NEW c \in Calls, Unwind(c)
      PROVE  /\ Unwind(c) /\ UNCHANGED url /\ uncertain' = UncertainAfterStop(c)
             /\ page' = page \/ (Navigates(c) /\ pc[c] = "handler")
  BY <1>2 DEF Unwind
<1>3. ASSUME NEW p \in Actors, Transition(p)
      PROVE  /\ Transition(p) /\ page' \in {page, "blank"}
             /\ UNCHANGED <<url, uncertain>> \/ Reconnected(p)
  <2>1. CASE LifecycleLocked(p) \/ TakeDown(p) \/ StartFails(p)
    BY <1>3, <2>1 DEF LifecycleLocked, TakeDown, StartFails, browserVars
  <2>2. CASE Stop(p)
    BY <1>3, <2>2 DEF Stop, Commit
  <2>3. CASE Restore(p)
    BY <1>3, <2>3 DEF Restore, Connect
  <2>4. CASE StartUp(p)
    <3>1. op[p].what = "connect" => op[p].server = "chrome" /\ p \in Owning("chrome")
      BY <2>4 DEF OpsInv, OpsPlaced, StartUp, Transit, Owning
    <3> QED BY <1>3, <2>4, <3>1 DEF StartUp, Connect, Commit, Reconnected
  <2> QED BY <1>3, <2>1, <2>2, <2>3, <2>4 DEF Transition
<1>4. ASSUME NEW c \in Calls, CallStep(c) \/ Answer(c) PROVE UNCHANGED browserVars
  BY <1>4 DEF CallStep, EnterClosed, Enter, PassGate, BrowserLocked, ApprovalRecheck,
     MutationLocked,
     Answer, Approve, Reject, Refuse
<1>5. ASSUME \/ \E c \in Calls : LeftoverEnds(c) \/ Timeout(c) \/ GiveUp(c)
             \/ CancelBatch \/ EndBatch \/ Close \/ CloseCancels \/ CloseForgets
             \/ \E p \in Operators, what \in {"restart", "disable"},
                t \in Concerned : Operate(p, what, t)
             \/ UNCHANGED vars
      PROVE  UNCHANGED browserVars
  BY <1>5 DEF LeftoverEnds, Timeout, GiveUp, CancelBatch, EndBatch, Close, CloseCancels,
     CloseForgets, Operate,
              vars
<1> QED BY <1>1, <1>2, <1>3, <1>4, <1>5 DEF Next, Progress

(* Every step keeps the bank's page known, or the page in doubt.           *)
LEMMA BankStep == TypeOK /\ OpsInv /\ BankKnown /\ [Next]_vars => BankKnown'
<1> SUFFICES ASSUME TypeOK, OpsInv, BankKnown, [Next]_vars, page' = "bank"
             PROVE  uncertain' \/ url' = "bank"
  BY DEF BankKnown
<1>1. ASSUME NEW c \in Calls, uncertain' = UncertainAfterStop(c), Unwind(c), UNCHANGED url,
             page' = page \/ (Navigates(c) /\ pc[c] = "handler")
      PROVE  uncertain' \/ url' = "bank"
  <2>1. Navigates(c) => Chrome(c)
    BY KindType, ServerFacts
  <2> QED BY <1>1, <2>1, Zenon DEF UncertainAfterStop, BankKnown
<1> QED BY <1>1, BrowserStep DEF BankKnown, browserVars, Reconnected

(* The only way into a handler of Chrome leads through an approval under   *)
(* the browser lock.                                                       *)
LEMMA ClickStep ==
  TypeOK /\ Placed /\ Held /\ OpsInv /\ BankKnown /\ SensitiveWritesPrompted /\ [Next]_vars
    => SensitiveWritesPrompted'
<1> SUFFICES ASSUME TypeOK, Placed, Held, OpsInv, BankKnown, SensitiveWritesPrompted,
   [Next]_vars,
                    NEW c \in Calls, pc'[c] = "handler", kind'[c] = "click", page' = "bank"
             PROVE  c \in prompted'
  BY DEF SensitiveWritesPrompted
<1>k. kind[c] = "click" /\ Chrome(c) /\ Governed(c) /\ ~Mutates(c) /\ Remote(c) /\ ~Navigates(c)
  BY KindKept, KindType, ServerFacts DEF Chrome, Remote, Servers, Navigates
<1>1. CASE pc[c] = "handler"
  <2>1. ~OwnStep(c)
    BY <1>1 DEF OwnStep, CallStep, EnterClosed, Enter, PassGate, BrowserLocked,
       ApprovalRecheck, MutationLocked,
       Answer, Approve, Reject, HandlerEnds, Unwind, Finish, End, TypeOK
  <2>2. Own(c)' = Own(c)
    BY <1>1, <2>1, OwnSteps
  <2>3. page = "bank"
    <3>1. ASSUME NEW d \in Calls, Navigates(d), pc[d] = "handler" PROVE FALSE
      <4>1. Chrome(d)
        BY <3>1, KindType, ServerFacts
      <4>2. lock["browser"] = c /\ lock["browser"] = d
        BY <1>1, <1>k, <3>1, <4>1 DEF Held
      <4> QED BY <1>k, <3>1, <4>2
    <3> QED BY <3>1, BrowserStep DEF browserVars, Reconnected
  <2> QED BY <1>1, <1>k, <2>2, <2>3 DEF Own, SensitiveWritesPrompted
<1>2. CASE pc[c] # "handler"
  <2>1. OwnStep(c)
    BY <1>2, OwnSteps DEF Own
  <2>2. CASE EnterClosed(c) \/ Enter(c) \/ PassGate(c) \/ BrowserLocked(c)
    BY <1>k, <2>2 DEF EnterClosed, Enter, PassGate, BrowserLocked, Refuse, Finish, End,
       Proceed, AfterGate,
       AfterBrowser, TypeOK
  <2>3. CASE ApprovalRecheck(c)
    <3>1. ~ForcesApproval(c) /\ UNCHANGED browserVars
      BY <2>3 DEF ApprovalRecheck, NeedsApproval, Refuse, Finish, End, TypeOK
    <3>2. page = "bank" /\ ~(uncertain \/ url = "bank")
      BY <1>k, <3>1, Zenon DEF ForcesApproval, browserVars
    <3> QED BY <3>2, Zenon DEF BankKnown
  <2>4. CASE MutationLocked(c)
    BY <1>k, <2>4 DEF MutationLocked, Placed
  <2>5. CASE Answer(c)
    BY <2>5 DEF Answer, Approve, Reject, Refuse, Finish, End, TypeOK
  <2>6. CASE HandlerEnds(c) \/ Unwind(c)
    BY <2>6 DEF HandlerEnds, Unwind, Finish, End, TypeOK
  <2> QED BY <2>1, <2>2, <2>3, <2>4, <2>5, <2>6 DEF OwnStep, CallStep
<1> QED BY <1>1, <1>2
-----------------------------------------------------------------------------
(* A prompt stays needed.                                                  *)
Prompts == \A c \in Calls : pc[c] = "prompt" => NeedsApproval(c)

(* Every step leaves a prompt only to a call that still needs the          *)
(* approval.                                                               *)
LEMMA PromptsStep ==
  TypeOK /\ Placed /\ Held /\ OpsInv /\ Alone /\ Prompts /\ [Next]_vars => Prompts'
<1> SUFFICES ASSUME TypeOK, Placed, Held, OpsInv, Alone, Prompts, [Next]_vars,
                    NEW c \in Calls, pc'[c] = "prompt"
             PROVE  NeedsApproval(c)'
  BY DEF Prompts
<1>k. UNCHANGED <<Keys(c), Server(c)>> /\ kind' = kind
  BY KindKept DEF Keys, Tool, Navigates, Server
<1>1. CASE pc[c] = "prompt"
  <2>g. Governed(c) /\ NeedsApproval(c) /\ Keys(c) \subseteq ApprovalKeys
    BY <1>1, KeysType DEF Placed, Prompts
  <2>1. CASE ForcesApproval(c)
    <3>1. Chrome(c) /\ c \in Sharing("chrome") /\ lock["browser"] = c
      BY <1>1, <2>1, KindType, ServerFacts DEF ForcesApproval, Held, Sharing, Alive, Chrome
    <3>2. ASSUME NEW d \in Calls, Navigates(d), pc[d] = "handler" PROVE FALSE
      <4>1. Chrome(d)
        BY <3>2, KindType, ServerFacts
      <4> QED BY <1>1, <3>1, <3>2, <4>1 DEF Held
    <3>3. ASSUME NEW p \in Actors, Reconnected(p) PROVE FALSE
      BY <3>1, <3>3 DEF Reconnected, Alone, Servers
    <3>4. (uncertain' \/ url' = "bank") /\ kind[c] = "click"
      <4>1. CASE UNCHANGED <<url, uncertain>>
        BY <2>1, <4>1, Zenon DEF ForcesApproval
      <4>2. ASSUME NEW d \in Calls, UNCHANGED url, uncertain' = UncertainAfterStop(d)
            PROVE  (uncertain' \/ url' = "bank") /\ kind[c] = "click"
        BY <2>1, <4>2, Zenon DEF ForcesApproval, UncertainAfterStop
      <4> QED BY <3>2, <3>3, <4>1, <4>2, BrowserStep DEF browserVars
    <3> QED BY <1>k, <3>4, Zenon DEF NeedsApproval, ForcesApproval
  <2>2. CASE Remembered(c) = {}
    <3>1. ASSUME NEW k \in Keys(c) PROVE approved'[k] = 0
      <4>1. approved[k] = 0
        BY <2>2, <3>1 DEF Remembered
      <4>2. ASSUME NEW d \in Calls, pc[d] = "prompt", Answer(d) PROVE FALSE
        <5>1. d = c
          BY <1>1, <4>2 DEF Held
        <5> QED BY <4>2, <5>1 DEF Answer, Approve, Reject, Refuse, Finish, End, Proceed,
             AfterApproval, TypeOK
      <4> QED BY <2>g, <4>1, <4>2, ApprovedStep
    <3> QED BY <1>k, <3>1 DEF NeedsApproval, Remembered
  <2> QED BY <2>g, <2>1, <2>2 DEF NeedsApproval
<1>2. CASE pc[c] # "prompt"
  <2>1. OwnStep(c)
    BY <1>2, OwnSteps DEF Own
  <2>2. ApprovalRecheck(c)
    BY <1>2, <2>1 DEF OwnStep, CallStep, EnterClosed, Enter, PassGate, BrowserLocked,
       MutationLocked,
       Answer, Approve, Reject, HandlerEnds, Unwind, Refuse, Finish, End, Proceed, AfterGate,
          AfterBrowser,
       AfterApproval, TypeOK
  <2>3. NeedsApproval(c) /\ UNCHANGED <<approved, browserVars>>
    BY <2>2 DEF ApprovalRecheck, Refuse, Finish, End, Proceed, AfterApproval, TypeOK
  <2>4. (ForcesApproval(c)' <=> ForcesApproval(c)) /\ Remembered(c)' = Remembered(c)
    BY <1>k, <2>3 DEF ForcesApproval, Remembered, browserVars
  <2> QED BY <2>3, <2>4 DEF NeedsApproval
<1> QED BY <1>1, <1>2
-----------------------------------------------------------------------------
(* A task that was stopped stays stopped.                                  *)
LEMMA StoppedStep ==
  ASSUME TypeOK, [Next]_vars, NEW c \in Calls
  PROVE  Stopped(c) => Stopped(c)'
<1>1. \/ UNCHANGED cause \/ StopAll("batch") \/ StopAll("close")
      \/ \E d \in Calls : cause' = [cause EXCEPT ![d] = "timeout"]
  BY DEF Next, Progress, CallStep, EnterClosed, Enter, PassGate, BrowserLocked,
     ApprovalRecheck, MutationLocked,
     Answer, Approve, Reject, Refuse, HandlerEnds, Unwind, LeftoverEnds, Timeout, GiveUp,
        CancelBatch, EndBatch,
     Close, CloseCancels, CloseForgets, Transition, LifecycleLocked, TakeDown, Stop, StartUp,
        StartFails, Restore,
     Operate, vars, callVars
<1> QED BY <1>1 DEF Stopped, StopAll, TypeOK

(* Handlers run in calls that are at their handler, or that were stopped.  *)
Workers == \A c \in working : pc[c] = "handler" \/ (pc[c] = "over" /\ Stopped(c))

(* Every step leaves workers only to handlers that run or were stopped.    *)
LEMMA WorkersStep == TypeOK /\ Workers /\ [Next]_vars => Workers'
<1> SUFFICES ASSUME TypeOK, Workers, [Next]_vars, NEW c \in working'
             PROVE  pc'[c] = "handler" \/ (pc'[c] = "over" /\ Stopped(c)')
  BY DEF Workers
<1>t. pc \in [Calls -> PcType] /\ working \subseteq Calls
  BY DEF TypeOK, PcType
<1>n. \/ working' \subseteq working
      \/ \E d \in Calls, stage \in PcType : Proceed(d, stage) /\ pc[d] \notin {"over", "handler"}
  BY StageType DEF Next, Progress, CallStep, EnterClosed, Enter, PassGate, BrowserLocked,
     ApprovalRecheck, MutationLocked,
     Answer, Approve, Reject, Refuse, HandlerEnds, Unwind, LeftoverEnds, Timeout, GiveUp,
        CancelBatch, EndBatch,
     Close, CloseCancels, CloseForgets, Transition, LifecycleLocked, TakeDown, Stop, StartUp,
        StartFails, Restore,
     Operate, vars, callVars, PcType
<1>1. CASE c \in working
  <2>1. c \in Calls /\ (pc[c] = "handler" \/ (pc[c] = "over" /\ Stopped(c)))
    BY <1>t, <1>1 DEF Workers
  <2>2. CASE OwnStep(c)
    <3>1. CASE HandlerEnds(c)
      BY <3>1 DEF HandlerEnds
    <3>2. CASE Unwind(c)
      BY <2>1, <3>2, StoppedStep DEF Unwind, End, TypeOK
    <3> QED BY <2>1, <2>2, <3>1, <3>2 DEF OwnStep, CallStep, EnterClosed, Enter, PassGate,
         BrowserLocked,
               ApprovalRecheck, MutationLocked, Answer, Approve, Reject
  <2> QED BY <2>1, <2>2, OwnSteps, StoppedStep DEF Own
<1>2. CASE c \notin working
  BY <1>t, <1>n, <1>2 DEF Proceed
<1> QED BY <1>1, <1>2

(* close() first stops all tasks and then forgets the tools.               *)
Closing ==
  /\ closing \in {"canceling", "closed"} => \A c \in Alive : Stopped(c)
  /\ closing = "closed" => \A s \in Servers : published[s] = 0

(* After every step of a close, its calls are stopped and no client is     *)
(* published.                                                              *)
LEMMA ClosingStep ==
  TypeOK /\ OpsInv /\ Alone /\ Clients /\ Closing /\ [Next]_vars => Closing'
<1> SUFFICES ASSUME TypeOK, OpsInv, Alone, Clients, Closing, [Next]_vars PROVE Closing'
  OBVIOUS
<1>1. \/ closing' = closing \/ Close \/ CloseCancels \/ CloseForgets
  BY DEF Next, Progress, CallStep, EnterClosed, Enter, PassGate, BrowserLocked,
     ApprovalRecheck, MutationLocked,
     Answer, Approve, Reject, Refuse, HandlerEnds, Unwind, LeftoverEnds, Timeout, GiveUp,
        CancelBatch, EndBatch,
     Transition, LifecycleLocked, TakeDown, Stop, StartUp, StartFails, Restore,
     Operate, vars, registryVars
<1>2. ASSUME NEW c \in Alive'
   PROVE c \in Alive \/ (Enter(c) /\ closing = "open" /\ closing' = "open")
  <2>1. c \in Calls /\ pc'[c] \notin {"queued", "over"}
    BY DEF Alive
  <2>2. CASE pc[c] = "queued" /\ OwnStep(c)
    BY <2>1, <2>2 DEF OwnStep, CallStep, EnterClosed, Enter, PassGate, BrowserLocked,
       ApprovalRecheck,
       MutationLocked, Answer, Approve, Reject, HandlerEnds, Unwind, Alive, Refuse, Finish,
          End, registryVars, TypeOK
  <2>3. CASE pc[c] = "over" /\ OwnStep(c)
    BY <2>3 DEF OwnStep, CallStep, EnterClosed, Enter, PassGate, BrowserLocked, ApprovalRecheck,
       MutationLocked, Answer, Approve, Reject, HandlerEnds, Unwind, Alive
  <2> QED BY <2>1, <2>2, <2>3, OwnSteps DEF Own, Alive
<1>3. Alive \subseteq Calls /\ closing \in {"open", "closing", "canceling", "closed"}
  BY DEF Alive, TypeOK
<1>4. closing' \in {"canceling", "closed"} => \A c \in Alive' : Stopped(c)'
  <2>1. CASE closing' = closing
    BY <1>2, <1>3, <2>1, StoppedStep DEF Closing
  <2>2. CASE Close
    BY <2>2 DEF Close
  <2>3. CASE CloseCancels
    BY <1>2, <1>3, <2>3 DEF CloseCancels, StopAll, Stopped, TypeOK, Alive
  <2>4. CASE CloseForgets
    BY <1>2, <1>3, <2>4, StoppedStep DEF CloseForgets, Closing
  <2> QED BY <1>1, <2>1, <2>2, <2>3, <2>4
<1>5. ASSUME closing' = "closed", NEW s \in Servers PROVE published'[s] = 0
  <2>1. CASE closing = "closed"
    <3>1. published[s] = 0
      BY <2>1 DEF Closing
    <3>2. ASSUME NEW p \in Actors, Transition(p) PROVE published'[s] = 0
      BY <2>1, <3>1, <3>2, OpServer DEF Transition, LifecycleLocked, TakeDown, Stop, StartUp,
         StartFails, Restore,
         Connect, Registers, clientVars, TypeOK
    <3>3. ASSUME NEW c \in Calls, OwnStep(c) PROVE published' = published
      BY <3>3 DEF OwnStep, CallStep, EnterClosed, Enter, PassGate, BrowserLocked,
         ApprovalRecheck, MutationLocked,
         Answer, Approve, Reject, Refuse, HandlerEnds, Unwind, serverVars, clientVars
    <3>4. ASSUME \/ \E c \in Calls : LeftoverEnds(c) \/ Timeout(c) \/ GiveUp(c)
                 \/ CancelBatch \/ EndBatch \/ Close \/ CloseCancels
                 \/ \E p \in Operators, what \in {"restart", "disable"},
                    t \in Concerned : Operate(p, what, t)
                 \/ UNCHANGED vars
          PROVE  published' = published
      BY <3>4 DEF LeftoverEnds, Timeout, GiveUp, CancelBatch, EndBatch, Close, CloseCancels,
         Operate,
         vars, serverVars, clientVars
    <3> QED BY <2>1, <3>1, <3>2, <3>3, <3>4 DEF Next, Progress, OwnStep, CloseForgets
  <2>2. CASE closing # "closed"
    BY <1>1, <1>5, <2>2 DEF Close, CloseCancels, CloseForgets
  <2> QED BY <2>1, <2>2
<1> QED BY <1>4, <1>5 DEF Closing
-----------------------------------------------------------------------------
(* The inductive invariant.                                                *)
IInv ==
  /\ TypeOK /\ Placed /\ Held /\ OpsInv /\ Alone /\ Clients /\ Consents
  /\ BankKnown /\ SensitiveWritesPrompted /\ Prompts /\ Workers /\ Closing

(* The invariant at the start, ...                                         *)
LEMMA InitIInv == Init => IInv
<1> SUFFICES ASSUME Init PROVE IInv
  OBVIOUS
<1>1. TypeOK
  BY TypeInit
<1>2. \A c \in Calls : pc[c] = "queued"
  BY DEF Init
<1>3. \A p \in Actors : op[p] = Idle
  BY DEF Init
<1>4. Idle.at = "idle" /\ Idle.what = "restart"
  BY DEF Idle
<1>5. \A l \in Locks : lock[l] = NoOne
  BY DEF Init
<1>6. NoOne \notin Calls \cup Operators /\ lifecycle = NoOne
  BY ToolCallsAssumption DEF Init
<1>7. Placed /\ Held
  BY <1>2, <1>5, <1>6 DEF Placed, Held, Locks
<1>8. OpsInv /\ Alone
  BY <1>2, <1>3, <1>4, <1>6 DEF OpsInv, OpsPlaced, LifecycleHeld, Alone, Owning, Actors
<1>9. Clients /\ Consents
  BY <1>2, KeysFacts, <1>1 DEF Init, Clients, Consents, Sharing, Alive
<1>10. BankKnown /\ SensitiveWritesPrompted /\ Prompts /\ Workers /\ Closing
  BY <1>2 DEF Init, BankKnown, SensitiveWritesPrompted, Prompts, Workers, Closing
<1> QED BY <1>1, <1>7, <1>8, <1>9, <1>10 DEF IInv

(* ... after every step, ...                                               *)
LEMMA IInvStep == IInv /\ [Next]_vars => IInv'
BY TypeStep, HeldStep, OpsStep, AloneStep, ClientsStep, ConsentsStep, BankStep, ClickStep,
   PromptsStep, WorkersStep,
   ClosingStep DEF IInv

(* ... and so always.                                                      *)
LEMMA Inductive == Spec => []IInv
BY InitIInv, IInvStep, PTL DEF Spec

(* The variables have their types.                                         *)
THEOREM TypeCorrect == Spec => []TypeOK
<1>1. IInv => TypeOK
  BY DEF IInv
<1> QED BY <1>1, Inductive, PTL

(* However a call ends - result, refusal, timeout, cancellation, close() - *)
(* it leaves no lock behind, and a transition none of the manager          *)
(* (registry.py:124-143, 463, 475, 554-570).                               *)
THEOREM LocksAreLeft == Spec => []LocksLeft
<1>1. IInv => LocksLeft
  BY DEF IInv, Held, OpsInv, LifecycleHeld, LocksLeft
<1> QED BY <1>1, Inductive, PTL

(* A handler runs under an approval given to its server as it is, and      *)
(* talks to the connected client, whatever commands interleave             *)
(* (registry.py:343-354, mcp/commands.py:130-135).                         *)
THEOREM ConsentStaysCurrent == Spec => []ConsentIsCurrent
<1>1. IInv => ConsentIsCurrent
  <2> SUFFICES ASSUME IInv, NEW c \in Calls, pc[c] = "handler", Remote(c)
               PROVE  consent[c] = epoch[Server(c)] /\ resolved[c] = client[Server(c)]
    BY DEF ConsentIsCurrent
  <2>1. Server(c) \in Servers /\ c \in Sharing(Server(c))
    BY DEF Remote, Sharing, Alive
  <2> QED BY <2>1 DEF IInv, Clients, Consents
<1> QED BY <1>1, Inductive, PTL

(* A click on a sensitive page was approved by a prompt of its own,        *)
(* whatever was canceled or navigated before (browser.py:239-287,          *)
(* registry.py:492, 530-545).                                              *)
THEOREM SensitiveWritesArePrompted == Spec => []SensitiveWritesPrompted
<1>1. IInv => SensitiveWritesPrompted
  BY DEF IInv
<1> QED BY <1>1, Inductive, PTL

(* There is one prompt at a time, and it stays needed                      *)
(* (registry.py:376-396).                                                  *)
THEOREM PromptsStayNeeded == Spec => []PromptsNeeded
<1>1. IInv => PromptsNeeded
  BY DEF IInv, Prompts, Held, PromptsNeeded
<1> QED BY <1>1, Inductive, PTL

(* A closed registry publishes nothing and starts nothing                  *)
(* (registry.py:248, 326, 1504-1522).                                      *)
THEOREM ClosedStaysClosed == Spec => []ClosedIsFinal
<1>1. IInv => ClosedIsFinal
  BY DEF IInv, Closing, ClosedIsFinal
<1> QED BY <1>1, Inductive, PTL

(* Two mutations work on the workspace at once only after one of their     *)
(* calls was stopped (registry.py:464-475).                                *)
THEOREM MutationsOverlapOnlyAfterStop == Spec => []OverlapOnlyAfterStop
<1>1. IInv => OverlapOnlyAfterStop
  <2> SUFFICES ASSUME IInv, NEW c \in working, NEW d \in working, c # d, Mutates(c), Mutates(d),
                      ~Stopped(c), ~Stopped(d)
               PROVE  FALSE
    BY DEF OverlapOnlyAfterStop
  <2>1. c \in Calls /\ d \in Calls /\ pc[c] = "handler" /\ pc[d] = "handler"
    BY DEF IInv, TypeOK, Workers
  <2> QED BY <2>1 DEF IInv, Held
<1> QED BY <1>1, Inductive, PTL
=============================================================================
