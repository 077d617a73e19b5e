--------------------------- MODULE MCServer_proofs ---------------------------
(***************************************************************************)
(* Proofs about what the web server keeps: the money (Billing), the        *)
(* accounts and their mail codes (Accounts), the messages of a channel     *)
(* (Channel) and the events of a thread (EventFeed).  MCServer runs one of *)
(* them in each behaviour; here each one's properties are proved of        *)
(* ServerSpec for every value of its constants, from an inductive          *)
(* invariant of its own: MoneyInv, UsersInv and CodesInv, ChatInv, FeedInv.*)
(***************************************************************************)
EXTENDS MCServer, Integers, Sequences, FiniteSetTheorems, WellFoundedInduction, TLAPS

-----------------------------------------------------------------------------
(* A set of numbers has a least one, and one with a bound a greatest.      *)
LEMMA LeastOf ==
    ASSUME NEW S \in SUBSET Nat, S # {}
    PROVE  \E x \in S : \A y \in S : x =< y
<1>1. \E x \in S : \A y \in S : ~(<<y, x>> \in OpToRel(<, Nat))
  BY NatLessThanWellFounded, WFMin
<1>2. PICK x \in S : \A y \in S : ~(<<y, x>> \in OpToRel(<, Nat))
  BY <1>1
<1>3. \A y \in S : ~(y < x)
  BY <1>2 DEF OpToRel
<1>. QED
  BY <1>3

(* A bounded set of numbers has a greatest one.                            *)
LEMMA GreatestOf ==
    ASSUME NEW N \in Nat, NEW S \in SUBSET (0..N), S # {}
    PROVE  \E x \in S : \A y \in S : x >= y
<1> DEFINE T == {u \in Nat : \A y \in S : u >= y}
<1>1. N \in T
  OBVIOUS
<1>2. T \subseteq Nat /\ T # {}
  BY <1>1
<1>3. PICK u \in T : \A v \in T : u =< v
  <2> HIDE DEF T
  <2>. QED
    BY <1>2, LeastOf
<1>4. CASE u \in S
  BY <1>4
<1>5. CASE u \notin S
  <2>1. \A y \in S : u > y
    BY <1>5
  <2>2. u > 0
    <3>1. PICK y \in S : TRUE
      OBVIOUS
    <3>. QED
      BY <2>1, <3>1
  <2>3. u - 1 \in T
    BY <2>1, <2>2
  <2>. QED
    BY <1>3, <2>3
<1>. QED
  BY <1>4, <1>5

-----------------------------------------------------------------------------
(*                     Quotas and the ledger (Billing)                      *)

(* Where a turn's agent can be.                                            *)
TurnType ==
    {Money!Out} \cup [at : {"admitted"}]
    \cup [at : {"ready", "calling"}, key : {"platform", "mine", "blank"}, model : Models,
          billed : BOOLEAN]

(* A balance is reset in a month at most once, and not again before the    *)
(* next: the period says in which it was.                                  *)
OnceAMonth ==
    /\ resets.period <= month
    /\ resetCount \in [1..MaxMonth -> {0, 1}]
    /\ \A m \in 1..MaxMonth : resetCount[m] = 1 => m <= resets.period

(* Without a key of the user's own, every model that could be used is one  *)
(* the administrators offered.                                             *)
OfferedOnly ==
    /\ platform \in offered
    /\ stored.key = "none" => {stored.model, preset} \subseteq offered \cup {Money!NoModel}

MoneyInv ==
    /\ Money!TypeOK /\ turn \in [Turns -> TurnType]
    /\ base \in [amount : Int, from : Int]
    /\ OnceAMonth /\ OfferedOnly
    /\ Money!LedgerTellsBalance /\ Money!OverdraftBounded /\ Money!PlatformKeyKept

(* Finiteness and size are the same in the module and here.                *)
LEMMA MoneySame ==
    /\ \A S : Money!IsFiniteSet(S) <=> IsFiniteSet(S)
    /\ \A S : Money!Cardinality(S) = Cardinality(S)
<1>1. \A S : Money!IsFiniteSet(S) <=> IsFiniteSet(S)
  BY DEF Money!IsFiniteSet, IsFiniteSet
<1>2. \A S : Money!Cardinality(S) = Cardinality(S)
  BY DEF Money!Cardinality, Cardinality
<1>. QED
  BY <1>1, <1>2

(* What the turns have under way is a part of what they could.             *)
LEMMA UnderWayFacts ==
    ASSUME Money!BillingAssumption
    PROVE  /\ Cardinality(Turns) \in Nat
           /\ Cardinality(Money!UnderWay) \in 0..Cardinality(Turns)
           /\ Cardinality(Money!UnderWay') \in 0..Cardinality(Turns)
           /\ \A t \in Turns : t \notin Money!UnderWay => Cardinality(Money!UnderWay) < Cardinality(Turns)
<1>1. IsFiniteSet(Turns) /\ Money!UnderWay \in SUBSET Turns /\ Money!UnderWay' \in SUBSET Turns
  BY MoneySame DEF Money!BillingAssumption, Money!UnderWay
<1>2. Cardinality(Turns) \in Nat
  BY <1>1, FS_CardinalityType
<1>3. /\ Cardinality(Money!UnderWay) \in Nat /\ Cardinality(Money!UnderWay) <= Cardinality(Turns)
      /\ Cardinality(Money!UnderWay') \in Nat /\ Cardinality(Money!UnderWay') <= Cardinality(Turns)
  BY <1>1, <1>2, FS_Subset, FS_CardinalityType
<1>4. \A t \in Turns : t \notin Money!UnderWay => Cardinality(Money!UnderWay) # Cardinality(Turns)
  BY <1>1, FS_Subset
<1>. QED
  BY <1>2, <1>3, <1>4

(* A call that begins or ends changes what is under way by one.            *)
LEMMA UnderWayMoves ==
    ASSUME Money!BillingAssumption, NEW t \in Turns, Money!UnderWay \ {t} = Money!UnderWay' \ {t}
    PROVE  /\ t \in Money!UnderWay /\ t \notin Money!UnderWay'
              => Cardinality(Money!UnderWay') = Cardinality(Money!UnderWay) - 1
           /\ t \notin Money!UnderWay /\ t \in Money!UnderWay'
              => Cardinality(Money!UnderWay') = Cardinality(Money!UnderWay) + 1
           /\ (t \in Money!UnderWay <=> t \in Money!UnderWay') => Money!UnderWay' = Money!UnderWay
<1> DEFINE U == Money!UnderWay
           V == Money!UnderWay'
<1>1. IsFiniteSet(U) /\ IsFiniteSet(V)
  BY FS_Subset, MoneySame DEF Money!BillingAssumption, Money!UnderWay
<1>2. t \in U /\ t \notin V => V = U \ {t}
  OBVIOUS
<1>3. t \notin U /\ t \in V => V = U \cup {t}
  OBVIOUS
<1>4. (t \in U <=> t \in V) => V = U
  OBVIOUS
<1> HIDE DEF U, V
<1>5. t \in U /\ t \notin V => Cardinality(V) = Cardinality(U) - 1
  BY <1>1, <1>2, FS_RemoveElement
<1>6. t \notin U /\ t \in V => Cardinality(V) = Cardinality(U) + 1
  BY <1>1, <1>3, FS_AddElement
<1>. QED
  BY <1>4, <1>5, <1>6 DEF U, V

(* What may be overdrawn: by each turn once.                               *)
LEMMA Products ==
    /\ \A c, n \in Nat : c * n \in Nat
    /\ \A c, m, n \in Nat : m <= n => c * m <= c * n
    /\ \A c, n \in Nat : c * (n + 1) = c * n + c
<1>1. \A c, n \in Nat : c * n \in Nat
  OBVIOUS
<1>2. \A c, n \in Nat : c * (n + 1) = c * n + c
  OBVIOUS
<1>3. ASSUME NEW c \in Nat, NEW m \in Nat, NEW n \in Nat, m <= n PROVE c * m <= c * n
  <2>1. PICK k \in Nat : n = m + k
    <3>1. n - m \in Nat /\ n = m + (n - m)
      BY <1>3
    <3>. QED
      BY <3>1
  <2>2. c * (m + k) = c * m + c * k
    OBVIOUS
  <2>3. c * k \in Nat /\ c * m \in Nat
    BY <1>1
  <2>. QED
    BY <2>1, <2>2, <2>3
<1>. QED
  BY <1>1, <1>2, <1>3

(* A balance that was just written, or that somebody found positive, is    *)
(* not overdrawn.                                                          *)
LEMMA NotOverdrawn ==
    ASSUME Money!BillingAssumption, quota'.balance \in Int, base'.amount \in Int,
           quota'.balance = base'.amount \/ quota'.balance > 0
    PROVE  Money!OverdraftBounded'
<1>1. quota'.balance >= Money!Least(base.amount, 1)'
  BY DEF Money!Least
<1>2. Cardinality(Turns) \in Nat /\ Cardinality(Money!UnderWay') \in 0..Cardinality(Turns)
  BY UnderWayFacts
<1>3. Cardinality(Turns) - Cardinality(Money!UnderWay') \in Nat
  BY <1>2
<1>4. MaxCost * (Cardinality(Turns) - Cardinality(Money!UnderWay')) \in Nat
  BY <1>3, Products DEF Money!BillingAssumption
<1>5. Money!Least(base.amount, 1)' \in Int
  BY DEF Money!Least
<1>6. \A a, l \in Int, n \in Nat : a >= l => a >= l - n
  OBVIOUS
<1>7. quota'.balance >= Money!Least(base.amount, 1)'
                     - MaxCost * (Cardinality(Turns) - Cardinality(Money!UnderWay'))
  BY <1>1, <1>4, <1>5, <1>6
<1>. QED
  BY <1>7, MoneySame DEF Money!OverdraftBounded

(* No more calls under way than before, and no other balance.              *)
LEMMA OverdraftKept ==
    ASSUME Money!BillingAssumption, Money!OverdraftBounded, quota.balance \in Int,
           base.amount \in Int,
           UNCHANGED <<quota, base>>, Money!UnderWay' \subseteq Money!UnderWay
    PROVE  Money!OverdraftBounded'
<1> DEFINE n == Cardinality(Turns)
           u == Cardinality(Money!UnderWay)
           v == Cardinality(Money!UnderWay')
           l == Money!Least(base.amount, 1)
<1>1. n \in Nat /\ u \in 0..n /\ v \in 0..n
  BY UnderWayFacts
<1>2. v <= u
  <2>1. IsFiniteSet(Money!UnderWay)
    BY FS_Subset, MoneySame DEF Money!BillingAssumption, Money!UnderWay
  <2>. QED
    BY <2>1, FS_Subset
<1>3. l \in Int
  BY DEF Money!Least
<1>4. quota.balance >= l - MaxCost * (n - u)
  BY MoneySame DEF Money!OverdraftBounded
<1> HIDE DEF n, u, v, l
<1>5. n - u \in Nat /\ n - v \in Nat /\ n - u <= n - v
  BY <1>1, <1>2
<1>6. MaxCost * (n - u) <= MaxCost * (n - v)
      /\ MaxCost * (n - u) \in Nat /\ MaxCost * (n - v) \in Nat
  BY <1>5, Products DEF Money!BillingAssumption
<1>7. \A a, b \in Int, x, y \in Nat : a >= b - x /\ x <= y => a >= b - y
  OBVIOUS
<1>8. quota.balance >= l - MaxCost * (n - v)
  BY <1>3, <1>4, <1>6, <1>7
<1>9. Money!Least(base.amount, 1)' = l
  BY DEF l, Money!Least
<1>. QED
  BY <1>8, <1>9, MoneySame DEF Money!OverdraftBounded, n, v

(* At first nothing is charged, stored or offered.                         *)
LEMMA MoneyInit == Money!Init => MoneyInv
<1> SUFFICES ASSUME Money!Init PROVE MoneyInv
  OBVIOUS
<1> USE DEF Money!Init
<1>1. Money!BillingAssumption /\ MaxMonth \in Nat \ {0} /\ MaxCalls \in Nat /\ MaxChanges \in Nat
      /\ Grant \in Nat
  BY ServerAssumption DEF Money!BillingAssumption
<1>2. \A t \in Turns : turn[t].at = "out"
  BY DEF Money!Out
<1>3. Money!TypeOK
  BY <1>1, <1>2 DEF Money!TypeOK, Money!NoModel
<1>4. turn \in [Turns -> TurnType]
  BY DEF TurnType
<1>5. base \in [amount : Int, from : Int] /\ quota.balance = Grant /\ base.amount = Grant
  BY <1>1
<1>6. OnceAMonth
  BY <1>1 DEF OnceAMonth
<1>7. OfferedOnly
  BY DEF OfferedOnly, Money!NoModel
<1>8. Money!LedgerTellsBalance
  BY <1>1 DEF Money!LedgerTellsBalance
<1>9. Money!UnderWay = {}
  BY <1>2 DEF Money!UnderWay
<1>10. Money!OverdraftBounded
  <2>1. Cardinality(Turns) \in Nat /\ Cardinality({}) = 0
    BY <1>1, UnderWayFacts, FS_EmptySet
  <2>2. Grant >= Money!Least(Grant, 1) /\ Money!Least(Grant, 1) \in Int
    BY <1>1 DEF Money!Least
  <2>3. Cardinality(Turns) - 0 \in Nat
    BY <2>1
  <2>4. MaxCost * (Cardinality(Turns) - 0) \in Nat
    BY <1>1, <2>3, Products DEF Money!BillingAssumption
  <2>5. \A a, l \in Int, n \in Nat : a >= l => a >= l - n
    OBVIOUS
  <2>6. Grant >= Money!Least(Grant, 1) - MaxCost * (Cardinality(Turns) - 0)
    BY <1>1, <2>2, <2>4, <2>5
  <2>. QED
    BY <1>5, <1>9, <2>1, <2>6, MoneySame DEF Money!OverdraftBounded
<1>11. Money!PlatformKeyKept
  BY <1>2 DEF Money!PlatformKeyKept
<1>. QED
  BY <1>3, <1>4, <1>5, <1>6, <1>7, <1>8, <1>10, <1>11 DEF MoneyInv

(* The user's own settings, from the page or a preset.                     *)
LEMMA SettingsOffered ==
    ASSUME MoneyInv, Money!UpdateConfig \/ Money!SavePreset \/ Money!ApplyPreset
    PROVE  MoneyInv'
<1> USE DEF MoneyInv
<1>1. UNCHANGED <<month, calls, quota, ledger, resets, base, resetCount, platform, offered, turn>>
  BY DEF Money!UpdateConfig, Money!SavePreset, Money!ApplyPreset, Money!money
<1>2. changes' \in 0..MaxChanges
  BY ServerAssumption
     DEF Money!UpdateConfig, Money!SavePreset, Money!ApplyPreset, Money!TypeOK,
         Money!BillingAssumption
<1>3. Money!EffectiveModel \in Models
  BY DEF Money!EffectiveModel, Money!TypeOK
<1>4. /\ stored' \in [key : {"none", "mine", "blank"}, model : Models \cup {Money!NoModel}]
      /\ preset' \in Models \cup {Money!NoModel}
      /\ stored'.key = "none" => {stored'.model, preset'} \subseteq offered \cup {Money!NoModel}
  <2>1. stored.key = "none" => Money!EffectiveModel \in offered
    BY DEF OfferedOnly, Money!EffectiveModel
  <2>2. CASE Money!UpdateConfig
    <3>1. PICK model \in Models \cup {Money!EffectiveModel}, key \in {"none", "mine", "blank"} :
            /\ model # Money!EffectiveModel => Money!MayUse(model, key)
            /\ stored' = [key |-> Money!NewKey(key), model |-> model]
      BY <2>2 DEF Money!UpdateConfig
    <3>2. preset' = preset
      BY <2>2 DEF Money!UpdateConfig
    <3>3. Money!NewKey(key) \in {"none", "mine", "blank"}
      BY DEF Money!NewKey, Money!TypeOK
    <3>4. Money!NewKey(key) = "none" => stored.key = "none" /\ key = "none"
      BY DEF Money!NewKey
    <3>5. Money!NewKey(key) = "none" => model \in offered
      BY <2>1, <3>1, <3>4 DEF Money!MayUse, Money!Personal, OfferedOnly
    <3>6. stored'.key = Money!NewKey(key) /\ stored'.model = model
      BY <3>1
    <3>7. stored' \in [key : {"none", "mine", "blank"}, model : Models \cup {Money!NoModel}]
      BY <1>3, <3>1, <3>3
    <3>. QED
      BY <3>2, <3>4, <3>5, <3>6, <3>7 DEF OfferedOnly, Money!TypeOK
  <2>3. CASE Money!SavePreset
    <3>1. preset' = Money!EffectiveModel /\ stored' = stored
      BY <2>3 DEF Money!SavePreset
    <3>. QED
      BY <1>3, <2>1, <3>1 DEF OfferedOnly, Money!TypeOK
  <2>4. CASE Money!ApplyPreset
    <3>1. preset' = preset /\ stored' = [stored EXCEPT !.model = preset]
      BY <2>4 DEF Money!ApplyPreset
    <3>2. stored' \in [key : {"none", "mine", "blank"}, model : Models \cup {Money!NoModel}]
          /\ stored'.key = stored.key /\ stored'.model = preset
      BY <3>1 DEF Money!TypeOK
    <3>. QED
      BY <3>1, <3>2 DEF OfferedOnly, Money!TypeOK
  <2>. QED
    BY <2>2, <2>3, <2>4
<1>5. Money!TypeOK' /\ turn' \in [Turns -> TurnType] /\ base' \in [amount : Int, from : Int]
  BY <1>1, <1>2, <1>4 DEF Money!TypeOK
<1>6. OnceAMonth' /\ OfferedOnly'
  BY <1>1, <1>4 DEF OnceAMonth, OfferedOnly
<1>7. Money!LedgerTellsBalance' /\ Money!PlatformKeyKept'
  BY <1>1 DEF Money!LedgerTellsBalance, Money!PlatformKeyKept
<1>8. Money!OverdraftBounded'
  BY <1>1 DEF Money!OverdraftBounded, Money!UnderWay
<1>. QED
  BY <1>5, <1>6, <1>7, <1>8

(* A monthly reset, or none: the balance is the amount last written, less  *)
(* what was charged since.                                                 *)
LEMMA ResetFacts ==
    ASSUME MoneyInv, Money!Reset, UNCHANGED <<month, ledger>>
    PROVE  /\ quota' \in [balance : Int, monthly : Nat]
           /\ resets' \in [enabled : BOOLEAN, period : 0..MaxMonth]
           /\ base' \in [amount : Int, from : Int]
           /\ OnceAMonth' /\ Money!LedgerTellsBalance'
           /\ UNCHANGED <<quota, base>> \/ quota'.balance = base'.amount
<1> USE DEF MoneyInv
<1>0. /\ quota \in [balance : Int, monthly : Nat] /\ quota.monthly \in Int /\ month \in 1..MaxMonth
      /\ resets \in [enabled : BOOLEAN, period : 0..MaxMonth] /\ ledger \in Nat
      /\ resetCount \in [1..MaxMonth -> {0, 1}] /\ MaxMonth \in Nat
  BY ServerAssumption DEF Money!TypeOK, OnceAMonth, Money!BillingAssumption
<1>1. CASE Money!Due
  <2>1. /\ quota' = [quota EXCEPT !.balance = quota.monthly]
        /\ resets' = [resets EXCEPT !.period = month]
        /\ base' = [amount |-> quota.monthly, from |-> ledger]
        /\ resetCount' = [resetCount EXCEPT ![month] = @ + 1]
    BY <1>1 DEF Money!Reset
  <2>2. resets.period < month
    BY <1>1 DEF Money!Due
  <2>3. resetCount[month] = 0
    BY <1>0, <2>2 DEF OnceAMonth
  <2>4. resetCount' \in [1..MaxMonth -> {0, 1}]
    BY <1>0, <2>1, <2>3
  <2>5. resets' \in [enabled : BOOLEAN, period : 0..MaxMonth] /\ resets'.period = month
    BY <1>0, <2>1
  <2>6. \A m \in 1..MaxMonth : resetCount'[m] = 1 => m <= month
    BY <1>0, <2>1, <2>2 DEF OnceAMonth
  <2>7. OnceAMonth'
    BY <1>0, <2>4, <2>5, <2>6 DEF OnceAMonth
  <2>8. quota' \in [balance : Int, monthly : Nat] /\ quota'.balance = quota.monthly
        /\ base' \in [amount : Int, from : Int]
        /\ base'.amount = quota.monthly /\ base'.from = ledger
    BY <1>0, <2>1
  <2>9. quota'.balance = base'.amount - (ledger' - base'.from)
    BY <1>0, <2>8
  <2>10. Money!LedgerTellsBalance'
    BY <2>4, <2>9 DEF Money!LedgerTellsBalance
  <2>. QED
    BY <2>5, <2>7, <2>8, <2>10
<1>2. CASE ~Money!Due
  BY <1>0, <1>2 DEF Money!Reset, OnceAMonth, Money!LedgerTellsBalance
<1>. QED
  BY <1>1, <1>2

(* What the amounts do not touch.                                          *)
LEMMA MoneyOnly ==
    ASSUME MoneyInv, UNCHANGED <<changes, platform, stored, preset, offered>>,
           calls' \in 0..MaxCalls, month' \in 1..MaxMonth,
           quota' \in [balance : Int, monthly : Nat], ledger' \in Nat,
           resets' \in [enabled : BOOLEAN, period : 0..MaxMonth],
           base' \in [amount : Int, from : Int],
           turn' \in [Turns -> TurnType],
           OnceAMonth', Money!LedgerTellsBalance', Money!OverdraftBounded',
           Money!PlatformKeyKept'
    PROVE  MoneyInv'
<1>1. \A t \in Turns : turn'[t].at \in {"ready", "calling"} =>
           /\ turn'[t].key \in {"platform", "mine", "blank"}
           /\ turn'[t].model \in Models
  <2> SUFFICES ASSUME NEW t \in Turns, turn'[t].at \in {"ready", "calling"}
               PROVE  /\ turn'[t].key \in {"platform", "mine", "blank"}
                      /\ turn'[t].model \in Models
    OBVIOUS
  <2>. QED
    BY DEF TurnType, Money!Out
<1>2. Money!TypeOK'
  BY <1>1 DEF MoneyInv, Money!TypeOK
<1>. QED
  BY <1>2 DEF MoneyInv, OfferedOnly

(* An agent that is not calling has no key to use yet, or the one it was   *)
(* built with.                                                             *)
LEMMA KeyKept ==
    ASSUME MoneyInv, offered \subseteq offered',
           \A t \in Turns :
             turn'[t].at \in {"ready", "calling"} /\ turn'[t].key = "platform" =>
               \/ /\ turn[t].at \in {"ready", "calling"} /\ turn[t].key = "platform"
                  /\ turn'[t].model = turn[t].model /\ turn'[t].billed = turn[t].billed
               \/ turn'[t].model \in offered' /\ turn'[t].billed
    PROVE  Money!PlatformKeyKept'
BY DEF MoneyInv, Money!PlatformKeyKept

(* Time, and what administrators do.                                       *)
LEMMA AdministratorsKeep ==
    ASSUME MoneyInv,
           \/ Money!PlatformChanges \/ Money!MonthPasses
           \/ Money!SetMonthlyReset \/ Money!SetQuota
    PROVE  MoneyInv'
<1> USE DEF MoneyInv
<1>0. /\ Money!BillingAssumption /\ MaxMonth \in Nat /\ MaxChanges \in Nat /\ Grant \in Nat
      /\ month \in 1..MaxMonth /\ changes \in 0..MaxChanges /\ ledger \in Nat
      /\ quota \in [balance : Int, monthly : Nat]
      /\ resets \in [enabled : BOOLEAN, period : 0..MaxMonth]
      /\ resetCount \in [1..MaxMonth -> {0, 1}]
  BY ServerAssumption DEF Money!TypeOK, OnceAMonth, Money!BillingAssumption
<1>1. changes < MaxChanges /\ changes' = changes + 1 => changes' \in 0..MaxChanges
  BY <1>0
<1>2. CASE Money!PlatformChanges
  <2>1. /\ changes' \in 0..MaxChanges /\ platform' \in Models /\ offered' = offered \cup {platform'}
        /\ turn' = [t \in Turns |-> Money!Out]
        /\ UNCHANGED <<month, calls, quota, ledger, resets, base, resetCount, stored, preset>>
    BY <1>1, <1>2 DEF Money!PlatformChanges, Money!money
  <2>2. turn' \in [Turns -> TurnType] /\ \A t \in Turns : turn'[t].at = "out"
    BY <2>1 DEF TurnType, Money!Out
  <2>3. Money!TypeOK'
    BY <2>1, <2>2 DEF Money!TypeOK
  <2>4. OnceAMonth' /\ OfferedOnly' /\ Money!LedgerTellsBalance'
    BY <2>1 DEF OnceAMonth, OfferedOnly, Money!LedgerTellsBalance
  <2>5. Money!UnderWay' = {}
    BY <2>2 DEF Money!UnderWay
  <2>6. Money!OverdraftBounded'
    BY <1>0, <2>1, <2>5, OverdraftKept
  <2>7. Money!PlatformKeyKept'
    BY <2>2 DEF Money!PlatformKeyKept
  <2>. QED
    BY <2>1, <2>2, <2>3, <2>4, <2>6, <2>7
<1>3. CASE Money!MonthPasses
  <2>1. /\ month < MaxMonth /\ month' = month + 1
        /\ UNCHANGED <<calls, changes, quota, ledger, resets, base, resetCount,
                       platform, stored, preset, offered, turn>>
    BY <1>3 DEF Money!MonthPasses, Money!money, Money!settings
  <2>2. month' \in 1..MaxMonth /\ resets.period <= month'
    BY <1>0, <2>1 DEF OnceAMonth
  <2>3. Money!TypeOK' /\ OnceAMonth'
    BY <2>1, <2>2 DEF Money!TypeOK, OnceAMonth
  <2>4. OfferedOnly' /\ Money!LedgerTellsBalance' /\ Money!PlatformKeyKept'
    BY <2>1 DEF OfferedOnly, Money!LedgerTellsBalance, Money!PlatformKeyKept
  <2>5. Money!OverdraftBounded'
    BY <2>1 DEF Money!OverdraftBounded, Money!UnderWay
  <2>. QED
    BY <2>1, <2>3, <2>4, <2>5
<1>4. CASE Money!SetMonthlyReset
  <2>1. PICK on \in BOOLEAN :
          resets' = [enabled |-> on, period |-> IF on THEN month ELSE resets.period]
    BY <1>4 DEF Money!SetMonthlyReset
  <2>2. /\ changes' \in 0..MaxChanges
        /\ UNCHANGED <<month, calls, quota, ledger, base, resetCount,
                       platform, stored, preset, offered, turn>>
    BY <1>1, <1>4 DEF Money!SetMonthlyReset, Money!settings
  <2>3. resets' \in [enabled : BOOLEAN, period : 0..MaxMonth]
        /\ resets'.period \in {month, resets.period} /\ resets'.period >= resets.period
        /\ resets'.period <= month
    BY <1>0, <2>1 DEF OnceAMonth
  <2>4. Money!TypeOK'
    BY <2>2, <2>3 DEF Money!TypeOK
  <2>5. OnceAMonth'
    BY <1>0, <2>2, <2>3 DEF OnceAMonth
  <2>6. OfferedOnly' /\ Money!LedgerTellsBalance' /\ Money!PlatformKeyKept'
    BY <2>2 DEF OfferedOnly, Money!LedgerTellsBalance, Money!PlatformKeyKept
  <2>7. Money!OverdraftBounded'
    BY <2>2 DEF Money!OverdraftBounded, Money!UnderWay
  <2>. QED
    BY <2>2, <2>4, <2>5, <2>6, <2>7
<1>5. CASE Money!SetQuota
  <2>1. PICK b \in -1..Grant, m \in {0, Grant} : Money!Written(b, m)
    BY <1>5 DEF Money!SetQuota
  <2>2. /\ changes' \in 0..MaxChanges
        /\ UNCHANGED <<month, calls, ledger, platform, stored, preset, offered, turn>>
    BY <1>1, <1>5 DEF Money!SetQuota, Money!settings
  <2>3. PICK a \in Int : /\ quota' = [balance |-> a, monthly |-> m]
                        /\ base' = [amount |-> a, from |-> ledger]
    <3>1. b \in Int /\ m \in Int
      BY <1>0
    <3>. QED
      BY <2>1, <3>1 DEF Money!Written
  <2>4. /\ m \in Nat /\ quota' \in [balance : Int, monthly : Nat] /\ quota'.balance = base'.amount
        /\ base' \in [amount : Int, from : Int]
        /\ quota'.balance = base'.amount - (ledger' - base'.from)
    BY <1>0, <2>2, <2>3
  <2>5. /\ resets' \in [enabled : BOOLEAN, period : 0..MaxMonth]
        /\ resetCount' \in [1..MaxMonth -> {0, 1}]
        /\ resets'.period <= month
        /\ \A k \in 1..MaxMonth : resetCount'[k] = 1 => k <= resets'.period
    <3>1. CASE Money!Due
      <4>1. /\ resets' = [resets EXCEPT !.period = month]
            /\ resetCount' = [resetCount EXCEPT ![month] = @ + 1]
            /\ resets.period < month
        BY <2>1, <3>1 DEF Money!Written, Money!Due
      <4>2. resetCount[month] = 0
        BY <1>0, <4>1 DEF OnceAMonth
      <4>3. resetCount' \in [1..MaxMonth -> {0, 1}]
        BY <1>0, <4>1, <4>2
      <4>4. resets' \in [enabled : BOOLEAN, period : 0..MaxMonth] /\ resets'.period = month
        <5>1. month \in 0..MaxMonth
          BY <1>0
        <5>2. resets \in [enabled : BOOLEAN, period : 0..MaxMonth]
          BY <1>0
        <5>. QED
          BY <4>1, <5>1, <5>2
      <4>5. \A k \in 1..MaxMonth : resetCount'[k] = 1 => k <= month
        BY <1>0, <4>1 DEF OnceAMonth
      <4>. QED
        BY <1>0, <4>3, <4>4, <4>5
    <3>2. CASE ~Money!Due
      BY <1>0, <2>1, <3>2 DEF Money!Written, OnceAMonth
    <3>. QED
      BY <3>1, <3>2
  <2>6. OnceAMonth'
    BY <2>2, <2>5 DEF OnceAMonth
  <2>7. Money!LedgerTellsBalance'
    <3>1. \A k \in 1..MaxMonth : resetCount'[k] <= 1
      BY <2>5
    <3>. QED
      BY <2>4, <3>1 DEF Money!LedgerTellsBalance
  <2>8. Money!OverdraftBounded'
    BY <1>0, <2>4, NotOverdrawn
  <2>9. Money!TypeOK'
    BY <2>2, <2>4, <2>5 DEF Money!TypeOK
  <2>10. OfferedOnly' /\ Money!PlatformKeyKept'
    BY <2>2 DEF OfferedOnly, Money!PlatformKeyKept
  <2>. QED
    BY <2>2, <2>4, <2>6, <2>7, <2>8, <2>9, <2>10
<1>. QED
  BY <1>2, <1>3, <1>4, <1>5

(* A turn's steps: one agent moves.                                        *)
LEMMA TurnPays ==
    ASSUME MoneyInv, NEW t \in Turns,
           \/ Money!Admits(t) \/ Money!Builds(t) \/ Money!Calls(t)
           \/ Money!Responds(t) \/ Money!Ends(t)
    PROVE  MoneyInv'
<1> USE DEF MoneyInv
<1>0. /\ Money!BillingAssumption /\ MaxCalls \in Nat /\ MaxCost \in Nat
      /\ calls \in 0..MaxCalls /\ ledger \in Nat /\ month \in 1..MaxMonth
      /\ quota \in [balance : Int, monthly : Nat] /\ base \in [amount : Int, from : Int]
      /\ resets \in [enabled : BOOLEAN, period : 0..MaxMonth]
      /\ quota.balance \in Int /\ base.amount \in Int
  BY ServerAssumption DEF Money!TypeOK, Money!BillingAssumption
<1>1. UNCHANGED <<month, changes, platform, stored, preset, offered>>
  BY DEF Money!Admits, Money!Builds, Money!Calls, Money!Responds, Money!Ends, Money!settings
<1>2. calls' \in 0..MaxCalls
  BY <1>0 DEF Money!Admits, Money!Builds, Money!Calls, Money!Responds, Money!Ends
<1>3. ASSUME UNCHANGED <<quota, ledger, resets, base, resetCount>>
      PROVE  /\ quota' \in [balance : Int, monthly : Nat] /\ ledger' \in Nat
             /\ resets' \in [enabled : BOOLEAN, period : 0..MaxMonth]
             /\ base' \in [amount : Int, from : Int]
             /\ OnceAMonth' /\ Money!LedgerTellsBalance'
             /\ UNCHANGED <<quota, base>>
  BY <1>0, <1>1, <1>3 DEF OnceAMonth, Money!LedgerTellsBalance
<1>4. ASSUME NEW x \in TurnType, turn' = [turn EXCEPT ![t] = x]
      PROVE  /\ turn' \in [Turns -> TurnType] /\ turn'[t] = x
             /\ \A u \in Turns \ {t} : turn'[u] = turn[u]
             /\ Money!UnderWay \ {t} = Money!UnderWay' \ {t}
             /\ t \in Money!UnderWay <=> turn[t].at = "calling" /\ turn[t].billed
             /\ t \in Money!UnderWay' <=> x.at = "calling" /\ x.billed
  BY <1>4 DEF Money!UnderWay
<1>5. CASE Money!Admits(t)
  <2>1. PICK x \in {[at |-> "admitted"], Money!Out} : turn' = [turn EXCEPT ![t] = x]
    BY <1>5 DEF Money!Admits
  <2>2. x \in TurnType /\ x.at \notin {"ready", "calling"}
    BY DEF TurnType, Money!Out
  <2>3. /\ turn' \in [Turns -> TurnType] /\ turn'[t] = x
        /\ \A u \in Turns \ {t} : turn'[u] = turn[u]
        /\ Money!UnderWay' \subseteq Money!UnderWay
    BY <1>4, <2>1, <2>2
  <2>4. Money!PlatformKeyKept'
    BY <1>1, <2>2, <2>3, KeyKept
  <2>5. Money!Reset \/ UNCHANGED <<quota, resets, base, resetCount>>
    BY <1>5 DEF Money!Admits
  <2>6. UNCHANGED <<month, ledger>>
    BY <1>5 DEF Money!Admits
  <2>7. /\ quota' \in [balance : Int, monthly : Nat] /\ ledger' \in Nat
        /\ resets' \in [enabled : BOOLEAN, period : 0..MaxMonth]
        /\ base' \in [amount : Int, from : Int]
        /\ OnceAMonth' /\ Money!LedgerTellsBalance'
        /\ UNCHANGED <<quota, base>> \/ quota'.balance = base'.amount
    BY <1>0, <1>3, <2>5, <2>6, ResetFacts
  <2>8. Money!OverdraftBounded'
    <3>1. CASE UNCHANGED <<quota, base>>
      BY <1>0, <2>3, <3>1, OverdraftKept
    <3>2. CASE quota'.balance = base'.amount
      BY <1>0, <2>7, <3>2, NotOverdrawn
    <3>. QED
      BY <2>7, <3>1, <3>2
  <2>. QED
    BY <1>1, <1>2, <2>3, <2>4, <2>7, <2>8, <1>0, MoneyOnly
<1>6. CASE Money!Builds(t)
  <2> DEFINE x == [at |-> "ready", key |-> Money!EffectiveKey, model |-> Money!EffectiveModel,
                   billed |-> ~Money!Personal(stored.key)]
  <2>1. turn' = [turn EXCEPT ![t] = x] /\ UNCHANGED <<quota, ledger, resets, base, resetCount>>
    BY <1>6 DEF Money!Builds, Money!money
  <2>2. stored.key \in {"none", "mine", "blank"} /\ Money!EffectiveModel \in Models
    BY DEF Money!TypeOK, Money!EffectiveModel
  <2>3. x \in TurnType
    BY <2>2 DEF TurnType, Money!EffectiveKey, Money!Personal
  <2>4. x.key = "platform" => x.model \in offered /\ x.billed
    BY <2>2 DEF OfferedOnly, Money!EffectiveKey, Money!EffectiveModel, Money!Personal
  <2>5. x.at = "ready"
    OBVIOUS
  <2> HIDE DEF x
  <2>6. /\ turn' \in [Turns -> TurnType] /\ turn'[t] = x
        /\ \A u \in Turns \ {t} : turn'[u] = turn[u]
        /\ Money!UnderWay' \subseteq Money!UnderWay
    BY <1>4, <2>1, <2>3, <2>5
  <2>7. Money!PlatformKeyKept'
    BY <1>1, <2>4, <2>6, KeyKept
  <2>8. Money!OverdraftBounded'
    BY <1>0, <2>1, <2>6, OverdraftKept
  <2>. QED
    BY <1>0, <1>1, <1>2, <1>3, <2>1, <2>6, <2>7, <2>8, MoneyOnly
<1>7. CASE Money!Calls(t)
  <2> DEFINE on == [turn[t] EXCEPT !.at = "calling"]
  <2>1. turn[t].at = "ready" /\ turn[t] \in TurnType
    BY <1>7 DEF Money!Calls
  <2>2. on \in TurnType /\ on.at = "calling" /\ on.key = turn[t].key
        /\ on.model = turn[t].model /\ on.billed = turn[t].billed /\ on.billed \in BOOLEAN
    BY <2>1 DEF TurnType, Money!Out
  <2>3. Money!Out \in TurnType /\ Money!Out.at = "out"
    BY DEF TurnType, Money!Out
  <2>4. /\ turn' = [turn EXCEPT ![t] = on] \/ turn' = [turn EXCEPT ![t] = Money!Out]
        /\ UNCHANGED ledger
    BY <1>7 DEF Money!Calls
  <2>5. turn' = [turn EXCEPT ![t] = on] /\ on.billed => quota'.balance > 0
    <3>1. ASSUME turn[t].billed, ~Money!Affords PROVE turn' # [turn EXCEPT ![t] = on]
      <4>1. turn' = [turn EXCEPT ![t] = Money!Out]
        BY <1>7, <3>1 DEF Money!Calls
      <4>. QED
        BY <2>2, <2>3, <4>1, <1>4
    <3>. QED
      BY <2>2, <3>1 DEF Money!Affords
  <2>6. Money!Reset \/ UNCHANGED <<quota, resets, base, resetCount>>
    BY <1>7 DEF Money!Calls
  <2>7. /\ quota' \in [balance : Int, monthly : Nat] /\ ledger' \in Nat
        /\ resets' \in [enabled : BOOLEAN, period : 0..MaxMonth]
        /\ base' \in [amount : Int, from : Int]
        /\ OnceAMonth' /\ Money!LedgerTellsBalance'
        /\ UNCHANGED <<quota, base>> \/ quota'.balance = base'.amount
    BY <1>0, <1>1, <1>3, <2>4, <2>6, ResetFacts
  <2>8. quota'.balance \in Int /\ base'.amount \in Int
    BY <2>7
  <2> HIDE DEF on
  <2>9. CASE turn' = [turn EXCEPT ![t] = on]
    <3>1. /\ turn' \in [Turns -> TurnType] /\ turn'[t] = on
          /\ \A u \in Turns \ {t} : turn'[u] = turn[u]
          /\ ~on.billed => Money!UnderWay' \subseteq Money!UnderWay
      BY <1>4, <2>2, <2>9
    <3>2. Money!PlatformKeyKept'
      BY <1>1, <2>1, <2>2, <3>1, KeyKept
    <3>3. Money!OverdraftBounded'
      <4>1. CASE on.billed \/ quota'.balance = base'.amount
        BY <1>0, <2>5, <2>8, <2>9, <4>1, NotOverdrawn
      <4>2. CASE ~on.billed /\ UNCHANGED <<quota, base>>
        BY <1>0, <3>1, <4>2, OverdraftKept
      <4>. QED
        BY <2>7, <4>1, <4>2
    <3>. QED
      BY <1>0, <1>1, <1>2, <2>7, <3>1, <3>2, <3>3, MoneyOnly
  <2>10. CASE turn' = [turn EXCEPT ![t] = Money!Out]
    <3>1. /\ turn' \in [Turns -> TurnType] /\ turn'[t] = Money!Out
          /\ \A u \in Turns \ {t} : turn'[u] = turn[u]
          /\ Money!UnderWay' \subseteq Money!UnderWay
      BY <1>4, <2>3, <2>10
    <3>2. Money!PlatformKeyKept'
      BY <1>1, <2>3, <3>1, KeyKept
    <3>3. Money!OverdraftBounded'
      <4>1. CASE quota'.balance = base'.amount
        BY <1>0, <2>8, <4>1, NotOverdrawn
      <4>2. CASE UNCHANGED <<quota, base>>
        BY <1>0, <3>1, <4>2, OverdraftKept
      <4>. QED
        BY <2>7, <4>1, <4>2
    <3>. QED
      BY <1>0, <1>1, <1>2, <2>7, <3>1, <3>2, <3>3, MoneyOnly
  <2>. QED
    BY <2>4, <2>9, <2>10
<1>8. CASE Money!Responds(t)
  <2> DEFINE back == [turn[t] EXCEPT !.at = "ready"]
  <2>1. turn[t].at = "calling" /\ turn[t] \in TurnType
    BY <1>8 DEF Money!Responds
  <2>2. back \in TurnType /\ back.at = "ready" /\ back.key = turn[t].key
        /\ back.model = turn[t].model /\ back.billed = turn[t].billed
    BY <2>1 DEF TurnType, Money!Out
  <2>3. turn' = [turn EXCEPT ![t] = back] /\ UNCHANGED <<resets, base, resetCount>>
    BY <1>8 DEF Money!Responds
  <2> HIDE DEF back
  <2>4. /\ turn' \in [Turns -> TurnType] /\ turn'[t] = back
        /\ \A u \in Turns \ {t} : turn'[u] = turn[u]
        /\ Money!UnderWay \ {t} = Money!UnderWay' \ {t}
        /\ t \in Money!UnderWay <=> turn[t].billed
        /\ t \notin Money!UnderWay'
    BY <1>4, <2>1, <2>2, <2>3
  <2>5. Money!PlatformKeyKept'
    BY <1>1, <2>1, <2>2, <2>4, KeyKept
  <2>6. CASE UNCHANGED <<ledger, quota>>
    <3>1. Money!UnderWay' \subseteq Money!UnderWay
      BY <2>4
    <3>2. Money!OverdraftBounded'
      BY <1>0, <2>3, <2>6, <3>1, OverdraftKept
    <3>. QED
      BY <1>0, <1>1, <1>2, <1>3, <2>3, <2>4, <2>5, <2>6, <3>2, MoneyOnly
  <2>7. CASE turn[t].billed /\ ~UNCHANGED <<ledger, quota>>
    <3>1. PICK cost \in 0..MaxCost : Money!Charge(cost)
      BY <1>8, <2>7 DEF Money!Responds
    <3>2. cost \in Nat /\ cost <= MaxCost
      BY <1>0
    <3>3. /\ ledger' = ledger + cost /\ quota' = [quota EXCEPT !.balance = @ - cost]
          /\ quota'.balance = quota.balance - cost
      BY <1>0, <3>1 DEF Money!Charge
    <3>4. quota' \in [balance : Int, monthly : Nat] /\ ledger' \in Nat
      <4>1. quota.balance - cost \in Int
        BY <1>0, <3>2
      <4>. QED
        BY <1>0, <3>2, <3>3, <4>1
    <3>5. Money!LedgerTellsBalance' /\ OnceAMonth'
      <4>1. base.from \in Int /\ quota.balance = base.amount - (ledger - base.from)
        BY <1>0 DEF Money!LedgerTellsBalance
      <4>2. quota.balance - cost = base.amount - ((ledger + cost) - base.from)
        BY <1>0, <3>2, <4>1
      <4>3. quota'.balance = base'.amount - (ledger' - base'.from)
        <5>1. base' = base
          BY <2>3
        <5>2. quota'.balance = quota.balance - cost /\ ledger' = ledger + cost
          BY <3>3
        <5>. QED
          BY <4>2, <5>1, <5>2
      <4>4. \A m \in 1..MaxMonth : resetCount'[m] <= 1
        BY <2>3 DEF Money!LedgerTellsBalance
      <4>5. OnceAMonth'
        BY <1>1, <2>3 DEF OnceAMonth
      <4>. QED
        BY <4>3, <4>4, <4>5 DEF Money!LedgerTellsBalance
    <3>6. Cardinality(Money!UnderWay') = Cardinality(Money!UnderWay) - 1
      BY <1>0, <2>4, <2>7, UnderWayMoves
    <3>7. Money!OverdraftBounded'
      <4> DEFINE n == Cardinality(Turns)
                 u == Cardinality(Money!UnderWay)
                 l == Money!Least(base.amount, 1)
      <4>1. n \in Nat /\ u \in 0..n
        BY <1>0, UnderWayFacts
      <4>2. l \in Int
        BY <1>0 DEF Money!Least
      <4>3. quota.balance >= l - MaxCost * (n - u)
        BY MoneySame DEF Money!OverdraftBounded
      <4>4. Cardinality(Money!UnderWay') = u - 1
        BY <3>6
      <4>5. l' = l
        BY <2>3 DEF Money!Least
      <4> HIDE DEF n, u, l
      <4>6. n - u \in Nat /\ n - (u - 1) = (n - u) + 1
        BY <4>1
      <4>7. MaxCost * (n - (u - 1)) = MaxCost * (n - u) + MaxCost /\ MaxCost * (n - u) \in Nat
        BY <1>0, <4>6, Products
      <4>8. \A a, b \in Int, c, x, m \in Nat : a >= b - x /\ c <= m => a - c >= b - (x + m)
        OBVIOUS
      <4>9. quota.balance - cost >= l - MaxCost * (n - (u - 1))
        BY <1>0, <3>2, <4>2, <4>3, <4>7, <4>8
      <4>10. quota'.balance >= l' - MaxCost * (n - Cardinality(Money!UnderWay'))
        BY <3>3, <4>4, <4>5, <4>9
      <4>. QED
        BY <4>10, MoneySame DEF Money!OverdraftBounded, n, l
    <3>. QED
      BY <1>0, <1>1, <1>2, <2>3, <2>4, <2>5, <3>4, <3>5, <3>7, MoneyOnly
  <2>. QED
    BY <1>8, <2>6, <2>7 DEF Money!Responds
<1>9. CASE Money!Ends(t)
  <2>1. turn' = [turn EXCEPT ![t] = Money!Out] /\ UNCHANGED <<quota, ledger, resets, base, resetCount>>
    BY <1>9 DEF Money!Ends, Money!money
  <2>2. Money!Out \in TurnType /\ Money!Out.at = "out"
    BY DEF TurnType, Money!Out
  <2>3. /\ turn' \in [Turns -> TurnType] /\ turn'[t] = Money!Out
        /\ \A u \in Turns \ {t} : turn'[u] = turn[u]
        /\ Money!UnderWay' \subseteq Money!UnderWay
    BY <1>4, <2>1, <2>2
  <2>4. Money!PlatformKeyKept'
    BY <1>1, <2>2, <2>3, KeyKept
  <2>5. Money!OverdraftBounded'
    BY <1>0, <2>1, <2>3, OverdraftKept
  <2>. QED
    BY <1>0, <1>1, <1>2, <1>3, <2>1, <2>3, <2>4, <2>5, MoneyOnly
<1>. QED
  BY <1>5, <1>6, <1>7, <1>8, <1>9

(* Every step keeps all of it.                                             *)
LEMMA MoneyStep == MoneyInv /\ [Money!Next]_billingVars => MoneyInv'
<1> SUFFICES ASSUME MoneyInv, [Money!Next]_billingVars PROVE MoneyInv'
  OBVIOUS
<1>1. CASE UNCHANGED billingVars
  BY <1>1
     DEF billingVars, MoneyInv, Money!TypeOK, OnceAMonth, OfferedOnly, Money!LedgerTellsBalance,
         Money!OverdraftBounded, Money!UnderWay, Money!PlatformKeyKept
<1>. QED
  BY <1>1, SettingsOffered, AdministratorsKeep, TurnPays DEF Money!Next

(* A balance is explained by the ledger and overdrawn by the calls under   *)
(* way only, and the platform's key is used for models an administrator    *)
(* chose, for any number of turns, models, amounts and months (billing.py, *)
(* web_app.py PUT /v1/config).                                             *)
THEOREM MoneyAccountedHolds == ServerSpec => []MoneyAccounted
<1> DEFINE Inv == part = "billing" => MoneyInv
<1>1. ServerInit => Inv
  BY MoneyInit DEF ServerInit
<1>2. Inv /\ [ServerNext]_serverVars => Inv'
  <2> SUFFICES ASSUME Inv, [ServerNext]_serverVars, part' = "billing" PROVE MoneyInv'
    OBVIOUS
  <2>1. CASE part = "billing" /\ Money!Next
    BY <2>1, MoneyStep
  <2>2. CASE UNCHANGED <<part, billingVars>>
    BY <2>2, MoneyStep
  <2>. QED
    BY <2>1, <2>2 DEF ServerNext, serverVars
<1>3. Inv => MoneyAccounted
  BY DEF MoneyInv, MoneyAccounted
<1>. QED
  BY <1>1, <1>2, <1>3, PTL DEF ServerSpec
-----------------------------------------------------------------------------
(*                   Accounts, sessions and codes (Accounts)                *)

UserType ==
    [id : 0..MaxIds, version : Nat, admin : BOOLEAN, secret : 0..MaxPasswords, temporary : BOOLEAN]

(* An id belongs to one account for ever, and a session of an account that *)
(* is at its version knows its password.                                   *)
UsersInv ==
    /\ users \in [Emails -> UserType \cup {Nothing}]
    /\ nextId \in 1..MaxIds /\ passwords \in 0..MaxPasswords
    /\ tokens \subseteq [id : 0..MaxIds, version : Nat, secret : 0..MaxPasswords]
    /\ \A e \in Emails : users[e] # Nothing => users[e].id < nextId
    /\ \A d, e \in Emails :
         users[d] # Nothing /\ users[e] # Nothing /\ users[d].id = users[e].id => d = e
    /\ \A t \in tokens : t.id < nextId
    /\ \A t \in tokens, e \in Emails :
         users[e] # Nothing /\ users[e].id = t.id =>
           /\ t.version <= users[e].version
           /\ t.version = users[e].version => t.secret = users[e].secret
    /\ Web!AdministratorLeft

EntryType == [code : 0..MaxCodes - 1, expires : Nat, attempts : 0..MaxAttempts - 1]

Fresh(c) == spent[c].uses = 0 /\ spent[c].guesses = 0

(* A code is to be drawn, in one mail, kept once, or gone; what was        *)
(* guessed at it is counted where it is kept.                              *)
CodesInv ==
    /\ now \in 0..MaxTime /\ nextCode \in 0..MaxCodes
    /\ sending \subseteq [key : Web!Keys, code : 0..MaxCodes - 1, at : 0..MaxTime]
    /\ pending \in [Web!Keys -> EntryType \cup {Nothing}]
    /\ spent \in [0..MaxCodes - 1 -> [guesses : Nat, uses : Nat]]
    /\ \A c \in 0..MaxCodes - 1 : c >= nextCode => Fresh(c)
    /\ \A m \in sending : m.code < nextCode /\ Fresh(m.code)
    /\ \A m, n \in sending : m.code = n.code => m = n
    /\ \A k \in Web!Keys : pending[k] # Nothing =>
         /\ pending[k].code < nextCode
         /\ spent[pending[k].code].uses = 0
         /\ spent[pending[k].code].guesses = pending[k].attempts
         /\ \A m \in sending : m.code # pending[k].code
    /\ \A j, k \in Web!Keys :
         pending[j] # Nothing /\ pending[k] # Nothing /\ pending[j].code = pending[k].code => j = k
    /\ Web!CodesBounded

(* The constants.                                                          *)
LEMMA WebConstants ==
    /\ Root \in Emails /\ MaxAttempts \in Nat \ {0} /\ TTL \in Nat
    /\ MaxIds \in Nat \ {0} /\ MaxCodes \in Nat /\ MaxTime \in Nat /\ MaxPasswords \in Nat
    /\ Nothing \notin UserType
<1>1. Web!AccountsAssumption
  BY ServerAssumption
<1>2. MaxIds \in Nat /\ MaxPasswords \in Nat
  BY <1>1 DEF Web!AccountsAssumption
<1>3. UserType \subseteq [id : Nat, version : Nat, admin : BOOLEAN, secret : Nat, temporary : BOOLEAN]
  BY <1>2 DEF UserType
<1>. QED
  BY <1>1, <1>3 DEF Web!AccountsAssumption

(* At first there is the first administrator.                              *)
LEMMA UsersInit == Web!Init => UsersInv
<1> SUFFICES ASSUME Web!Init PROVE UsersInv
  OBVIOUS
<1> USE DEF Web!Init
<1> DEFINE root == Web!Account(0, TRUE, 0, FALSE)
<1>1. root \in UserType /\ root.id = 0 /\ root.admin = TRUE /\ root # Nothing
  <2>1. 0 \in 0..MaxIds /\ 0 \in 0..MaxPasswords
    BY WebConstants
  <2>2. root \in UserType /\ root.id = 0 /\ root.admin = TRUE
    BY <2>1 DEF UserType, Web!Account
  <2>. QED
    BY <2>2, WebConstants
<1>2. users = [e \in Emails |-> IF e = Root THEN root ELSE Nothing]
  OBVIOUS
<1> HIDE DEF root
<1>3. Web!AdministratorLeft
  BY <1>1, <1>2, WebConstants DEF Web!AdministratorLeft
<1>4. 1 \in 1..MaxIds /\ 0 \in 0..MaxPasswords
  BY WebConstants
<1>5. users \in [Emails -> UserType \cup {Nothing}]
      /\ \A e \in Emails : users[e] # Nothing => e = Root /\ users[e].id = 0
  BY <1>1, <1>2
<1>6. tokens = {} /\ nextId = 1 /\ passwords = 0
  OBVIOUS
<1>7. \A e \in Emails : users[e] # Nothing => users[e].id < nextId
  <2>1. 0 < 1
    OBVIOUS
  <2> HIDE DEF Web!Init
  <2>. QED
    BY <1>5, <1>6, <2>1
<1>8. \A d, e \in Emails :
        users[d] # Nothing /\ users[e] # Nothing /\ users[d].id = users[e].id => d = e
  BY <1>5
<1> HIDE DEF Web!Init
<1>. QED
  BY <1>3, <1>4, <1>5, <1>6, <1>7, <1>8 DEF UsersInv

(* No code is drawn yet.                                                   *)
LEMMA CodesInit == Web!Init => CodesInv
<1> SUFFICES ASSUME Web!Init PROVE CodesInv
  OBVIOUS
<1> USE DEF Web!Init
<1>1. spent \in [0..MaxCodes - 1 -> [guesses : Nat, uses : Nat]]
      /\ \A c \in 0..MaxCodes - 1 : spent[c].guesses = 0 /\ spent[c].uses = 0
  OBVIOUS
<1>2. Web!CodesBounded
  BY <1>1, WebConstants DEF Web!CodesBounded
<1>. QED
  BY <1>1, <1>2, WebConstants DEF CodesInv, Fresh

(* A password chosen for an account: its sessions end.                     *)
LEMMA ChangedKeeps ==
    ASSUME UsersInv, NEW e \in Emails, users[e] # Nothing, NEW temporary \in BOOLEAN,
           Web!Changed(e, temporary), UNCHANGED tokens
    PROVE  UsersInv'
<1> DEFINE u == [users[e] EXCEPT !.version = Web!RaisedVersion(users[e]),
                                 !.secret = passwords', !.temporary = temporary]
<1>1. users[e] \in UserType /\ passwords \in 0..MaxPasswords /\ MaxPasswords \in Nat
  BY WebConstants DEF UsersInv
<1>2. passwords' \in 0..MaxPasswords /\ nextId' = nextId
  BY <1>1 DEF Web!Changed, Web!NewPassword
<1>3. users' = [users EXCEPT ![e] = u]
  BY DEF Web!Changed
<1>4. users[e].version \in Nat /\ users[e].version + 1 \in Nat
  BY <1>1 DEF UserType
<1>5. u \in UserType /\ u.id = users[e].id /\ u.version = users[e].version + 1
      /\ u.admin = users[e].admin
  BY <1>1, <1>2, <1>4 DEF UserType, Web!RaisedVersion
<1> HIDE DEF u
<1>6. users' \in [Emails -> UserType \cup {Nothing}] /\ users'[e] = u /\ u # Nothing
      /\ \A d \in Emails \ {e} : users'[d] = users[d]
  BY <1>3, <1>5, WebConstants DEF UsersInv
<1>7. \A d \in Emails : /\ users'[d] # Nothing <=> users[d] # Nothing
                        /\ users[d] # Nothing => users'[d].id = users[d].id
                        /\ users[d] # Nothing => users'[d].admin = users[d].admin
  BY <1>5, <1>6
<1>8. Web!AdministratorLeft'
  BY <1>7 DEF UsersInv, Web!AdministratorLeft
<1>9. \A t \in tokens', d \in Emails :
         users'[d] # Nothing /\ users'[d].id = t.id =>
           /\ t.version <= users'[d].version
           /\ t.version = users'[d].version => t.secret = users'[d].secret
  <2> SUFFICES ASSUME NEW t \in tokens, NEW d \in Emails, users'[d] # Nothing, users'[d].id = t.id
               PROVE  /\ t.version <= users'[d].version
                      /\ t.version = users'[d].version => t.secret = users'[d].secret
    OBVIOUS
  <2>1. t.version \in Nat /\ t.version <= users[d].version
        /\ (t.version = users[d].version => t.secret = users[d].secret)
    BY <1>7 DEF UsersInv
  <2>2. CASE d = e
    <3>1. users'[d].version = users[e].version + 1
      BY <1>5, <1>6, <2>2
    <3>. QED
      BY <1>4, <2>1, <2>2, <3>1
  <2>3. CASE d # e
    BY <1>6, <2>1, <2>3
  <2>. QED
    BY <2>2, <2>3
<1>. QED
  BY <1>2, <1>6, <1>7, <1>8, <1>9 DEF UsersInv

(* A new account has an id nobody had.                                     *)
LEMMA CreatedKeeps ==
    ASSUME UsersInv, NEW e \in Emails, NEW admin \in BOOLEAN, NEW temporary \in BOOLEAN,
           Web!Created(e, admin, temporary), UNCHANGED tokens
    PROVE  UsersInv'
<1> DEFINE u == Web!Account(nextId, admin, passwords', temporary)
<1>1. /\ passwords \in 0..MaxPasswords /\ MaxPasswords \in Nat /\ MaxIds \in Nat
      /\ nextId \in 1..MaxIds /\ users[e] = Nothing /\ nextId < MaxIds
  BY WebConstants DEF UsersInv, Web!Created
<1>2. passwords' \in 0..MaxPasswords /\ nextId' = nextId + 1 /\ nextId' \in 1..MaxIds
  BY <1>1 DEF Web!Created, Web!NewPassword
<1>3. users' = [users EXCEPT ![e] = u]
  BY DEF Web!Created, Web!FreshId
<1>4. u \in UserType /\ u.id = nextId
  BY <1>1, <1>2 DEF UserType, Web!Account
<1> HIDE DEF u
<1>5. users' \in [Emails -> UserType \cup {Nothing}] /\ users'[e] = u
      /\ \A d \in Emails \ {e} : users'[d] = users[d]
  BY <1>3, <1>4 DEF UsersInv
<1>6. \A d \in Emails : users[d] # Nothing => users[d].id \in Nat /\ users[d].id < nextId
                                             /\ users'[d] = users[d]
  BY <1>1, <1>5 DEF UsersInv, UserType
<1>7. \A t \in tokens : t.id \in Nat /\ t.id < nextId
  BY DEF UsersInv
<1>8. Web!AdministratorLeft'
  BY <1>6 DEF UsersInv, Web!AdministratorLeft
<1>9. \A d \in Emails : users'[d] # Nothing => users'[d].id < nextId'
  BY <1>1, <1>2, <1>4, <1>5, <1>6
<1>10. \A d \in Emails \ {e} : users'[d] # Nothing => users'[d].id # nextId
  BY <1>1, <1>5, <1>6
<1>11. \A d, f \in Emails :
         users'[d] # Nothing /\ users'[f] # Nothing /\ users'[d].id = users'[f].id => d = f
  <2> SUFFICES ASSUME NEW d \in Emails, NEW f \in Emails, users'[d] # Nothing,
                      users'[f] # Nothing, users'[d].id = users'[f].id
               PROVE  d = f
    OBVIOUS
  <2>1. CASE d # e /\ f # e
    BY <1>5, <2>1 DEF UsersInv
  <2>2. CASE d = e \/ f = e
    BY <1>4, <1>5, <1>10, <2>2
  <2>. QED
    BY <2>1, <2>2
<1>12. \A t \in tokens : t.id < nextId'
  BY <1>1, <1>2, <1>7
<1>13. \A t \in tokens, d \in Emails :
         users'[d] # Nothing /\ users'[d].id = t.id =>
           /\ t.version <= users'[d].version
           /\ t.version = users'[d].version => t.secret = users'[d].secret
  <2> SUFFICES ASSUME NEW t \in tokens, NEW d \in Emails, users'[d] # Nothing, users'[d].id = t.id
               PROVE  /\ t.version <= users'[d].version
                      /\ t.version = users'[d].version => t.secret = users'[d].secret
    OBVIOUS
  <2>1. d # e
    BY <1>1, <1>4, <1>5, <1>7
  <2>. QED
    BY <1>5, <2>1 DEF UsersInv
<1>. QED
  BY <1>2, <1>5, <1>8, <1>9, <1>11, <1>12, <1>13 DEF UsersInv

(* A login of an account that exists.                                      *)
LEMMA LoginKeeps ==
    ASSUME UsersInv, NEW e \in Emails, Web!Login(e)
    PROVE  UsersInv'
<1> DEFINE u == [id |-> users[e].id, version |-> users[e].version, secret |-> users[e].secret]
<1>1. users[e] # Nothing /\ tokens' = tokens \cup {u} /\ UNCHANGED <<users, nextId, passwords>>
  BY DEF Web!Login
<1>2. users[e] \in UserType
  BY <1>1 DEF UsersInv
<1>3. u \in [id : 0..MaxIds, version : Nat, secret : 0..MaxPasswords]
      /\ u.id = users[e].id /\ u.version = users[e].version /\ u.secret = users[e].secret
  BY <1>2 DEF UserType
<1> HIDE DEF u
<1>4. u.id < nextId
  BY <1>1, <1>3 DEF UsersInv
<1>5. \A d \in Emails : users[d] # Nothing /\ users[d].id = u.id => d = e
  BY <1>1, <1>3 DEF UsersInv
<1>6. \A d \in Emails : users[d] # Nothing /\ users[d].id = u.id =>
           /\ u.version <= users[d].version
           /\ u.version = users[d].version => u.secret = users[d].secret
  <2>1. users[e].version \in Nat
    BY <1>2 DEF UserType
  <2>. QED
    BY <1>3, <1>5, <2>1
<1>7. Web!AdministratorLeft'
  BY <1>1 DEF UsersInv, Web!AdministratorLeft
<1>8. tokens' \subseteq [id : 0..MaxIds, version : Nat, secret : 0..MaxPasswords]
  BY <1>1, <1>3 DEF UsersInv
<1>9. \A t \in tokens' : t = u \/ t \in tokens
  BY <1>1
<1>. QED
  BY <1>1, <1>4, <1>6, <1>7, <1>8, <1>9 DEF UsersInv

(* An administrator deletes somebody else.                                 *)
LEMMA DeleteKeeps ==
    ASSUME UsersInv, NEW t \in tokens, NEW a \in Emails, NEW e \in Emails,
           Web!AdminDeletes(t, a, e)
    PROVE  UsersInv'
<1>1. /\ a # e /\ users[a] # Nothing /\ users[a].admin
      /\ users' = [users EXCEPT ![e] = Nothing] /\ UNCHANGED <<nextId, tokens, passwords>>
  BY DEF Web!AdminDeletes, Web!MayDelete, Web!Admin, Web!Accepted
<1>2. users' \in [Emails -> UserType \cup {Nothing}]
      /\ \A d \in Emails : users'[d] # Nothing => d # e /\ users'[d] = users[d]
  BY <1>1 DEF UsersInv
<1>3. users'[a] = users[a]
  BY <1>1 DEF UsersInv
<1>4. Web!AdministratorLeft'
  BY <1>1, <1>3 DEF Web!AdministratorLeft
<1>. QED
  BY <1>1, <1>2, <1>4 DEF UsersInv

(* What the steps of the mails leave alone.                                *)
LEMMA UsersKept ==
    ASSUME UsersInv, UNCHANGED <<users, nextId, tokens, passwords>>
    PROVE  UsersInv'
BY DEF UsersInv, Web!AdministratorLeft

(* And what the steps of the accounts leave alone.                        *)
LEMMA CodesKept ==
    ASSUME CodesInv, UNCHANGED <<sending, pending, nextCode, spent>>, now' \in 0..MaxTime
    PROVE  CodesInv'
BY DEF CodesInv, Web!CodesBounded, Fresh

(* A mail is being sent with a new code.                                   *)
LEMMA IssueKeeps ==
    ASSUME CodesInv, NEW k \in Web!Keys, Web!Issue(k)
    PROVE  CodesInv'
<1> DEFINE m == [key |-> k, code |-> nextCode, at |-> now]
<1>1. /\ nextCode < MaxCodes /\ nextCode' = nextCode + 1 /\ sending' = sending \cup {m}
      /\ UNCHANGED <<now, pending, spent>>
  BY DEF Web!Issue
<1>2. nextCode \in 0..MaxCodes - 1 /\ nextCode' \in 0..MaxCodes /\ MaxCodes \in Nat
      /\ now \in 0..MaxTime
  BY <1>1, WebConstants DEF CodesInv
<1>3. m \in [key : Web!Keys, code : 0..MaxCodes - 1, at : 0..MaxTime] /\ m.code = nextCode
  BY <1>2
<1> HIDE DEF m
<1>4. \A n \in sending : n.code \in Nat /\ n.code < nextCode /\ Fresh(n.code)
  BY DEF CodesInv
<1>5. Fresh(nextCode)
  BY <1>2 DEF CodesInv
<1>6. \A n \in sending' : n = m \/ (n \in sending /\ n.code < nextCode)
  BY <1>1, <1>4
<1>7. \A n \in sending' : n.code < nextCode' /\ Fresh(n.code)
  BY <1>1, <1>2, <1>3, <1>4, <1>5, <1>6
<1>8. \A n, o \in sending' : n.code = o.code => n = o
  BY <1>2, <1>3, <1>6 DEF CodesInv
<1>9. ASSUME NEW j \in Web!Keys, pending[j] # Nothing
      PROVE  /\ pending[j].code < nextCode'
             /\ spent[pending[j].code].uses = 0
             /\ spent[pending[j].code].guesses = pending[j].attempts
             /\ \A n \in sending' : n.code # pending[j].code
  <2>1. /\ pending[j].code < nextCode
        /\ spent[pending[j].code].uses = 0
        /\ spent[pending[j].code].guesses = pending[j].attempts
        /\ \A n \in sending : n.code # pending[j].code
    BY <1>9 DEF CodesInv
  <2>2. pending[j].code \in Nat
    BY <1>9, <1>2 DEF CodesInv, EntryType
  <2>. QED
    BY <1>1, <1>2, <1>3, <1>6, <2>1, <2>2
<1>10. \A c \in 0..MaxCodes - 1 : c >= nextCode' => Fresh(c)
  BY <1>1, <1>2 DEF CodesInv
<1>11. Web!CodesBounded'
  BY <1>1 DEF CodesInv, Web!CodesBounded
<1>12. sending' \subseteq [key : Web!Keys, code : 0..MaxCodes - 1, at : 0..MaxTime]
  BY <1>1, <1>3 DEF CodesInv
<1>. QED
  BY <1>1, <1>2, <1>7, <1>8, <1>9, <1>10, <1>11, <1>12 DEF CodesInv, Fresh

(* A mail is sent, and its code kept, or not.                              *)
LEMMA SentKeeps ==
    ASSUME CodesInv, NEW m \in sending, Web!Sent(m) \/ Web!SendFails(m)
    PROVE  CodesInv'
<1>1. sending' = sending \ {m} /\ UNCHANGED <<now, nextCode, spent>>
  BY DEF Web!Sent, Web!SendFails
<1>2. Web!CodesBounded'
  BY <1>1 DEF CodesInv, Web!CodesBounded
<1>3. CASE Web!SendFails(m)
  <2>1. pending' = pending
    BY <1>3 DEF Web!SendFails
  <2>. QED
    BY <1>1, <1>2, <2>1 DEF CodesInv, Fresh
<1>4. CASE Web!Sent(m)
  <2> DEFINE k == m.key
             x == [code |-> m.code, expires |-> m.at + TTL, attempts |-> 0]
  <2>1. pending' = [pending EXCEPT ![k] = x]
    BY <1>4 DEF Web!Sent
  <2>2. m \in [key : Web!Keys, code : 0..MaxCodes - 1, at : 0..MaxTime] /\ MaxTime \in Nat
    BY WebConstants DEF CodesInv
  <2>3. m.at + TTL \in Nat /\ 0 \in 0..MaxAttempts - 1
    BY <2>2, WebConstants
  <2>4. k \in Web!Keys /\ x \in EntryType /\ x.code = m.code /\ x.attempts = 0
    BY <2>2, <2>3 DEF EntryType
  <2> HIDE DEF k, x
  <2>5. pending' \in [Web!Keys -> EntryType \cup {Nothing}] /\ pending'[k] = x
        /\ \A j \in Web!Keys \ {k} : pending'[j] = pending[j]
    BY <2>1, <2>4 DEF CodesInv
  <2>6. m.code < nextCode /\ Fresh(m.code) /\ \A n \in sending' : n.code # m.code
    BY <1>1 DEF CodesInv
  <2>7. ASSUME NEW j \in Web!Keys, pending'[j] # Nothing
        PROVE  /\ pending'[j].code < nextCode
               /\ spent[pending'[j].code].uses = 0
               /\ spent[pending'[j].code].guesses = pending'[j].attempts
               /\ \A n \in sending' : n.code # pending'[j].code
    <3>1. CASE j = k
      BY <2>4, <2>5, <2>6, <3>1 DEF Fresh
    <3>2. CASE j # k
      BY <1>1, <2>5, <2>7, <3>2 DEF CodesInv
    <3>. QED
      BY <3>1, <3>2
  <2>8. \A j \in Web!Keys \ {k} : pending'[j] # Nothing => pending'[j].code # m.code
    BY <2>5 DEF CodesInv
  <2>9. \A i, j \in Web!Keys :
          pending'[i] # Nothing /\ pending'[j] # Nothing /\ pending'[i].code = pending'[j].code
            => i = j
    <3> SUFFICES ASSUME NEW i \in Web!Keys, NEW j \in Web!Keys, pending'[i] # Nothing,
                        pending'[j] # Nothing, pending'[i].code = pending'[j].code
                 PROVE  i = j
      OBVIOUS
    <3>1. CASE i = k \/ j = k
      BY <2>4, <2>5, <2>8, <3>1
    <3>2. CASE i # k /\ j # k
      BY <2>5, <3>2 DEF CodesInv
    <3>. QED
      BY <3>1, <3>2
  <2>10. \A n \in sending' : n.code < nextCode /\ Fresh(n.code)
    BY <1>1 DEF CodesInv
  <2>11. \A n, o \in sending' : n.code = o.code => n = o
    BY <1>1 DEF CodesInv
  <2>12. sending' \subseteq [key : Web!Keys, code : 0..MaxCodes - 1, at : 0..MaxTime]
    BY <1>1 DEF CodesInv
  <2>13. \A c \in 0..MaxCodes - 1 : c >= nextCode => Fresh(c)
    BY DEF CodesInv
  <2>14. /\ now \in 0..MaxTime /\ nextCode \in 0..MaxCodes
         /\ spent \in [0..MaxCodes - 1 -> [guesses : Nat, uses : Nat]]
    BY DEF CodesInv
  <2>. QED
    BY <1>1, <1>2, <2>5, <2>7, <2>9, <2>10, <2>11, <2>12, <2>13, <2>14 DEF CodesInv, Fresh
<1>. QED
  BY <1>3, <1>4

(* A guess: an entry goes, or counts one more wrong guess at its code.     *)
LEMMA GuessKeeps ==
    ASSUME CodesInv, NEW k \in Web!Keys, Web!RightGuess(k) \/ Web!WrongGuess(k),
           UNCHANGED <<sending, nextCode, now>>
    PROVE  CodesInv'
<1> DEFINE c == pending[k].code
           e == pending[k]
<1>1. e # Nothing /\ e \in EntryType
  BY DEF Web!RightGuess, Web!WrongGuess, Web!Usable, CodesInv
<1>2. /\ c \in 0..MaxCodes - 1 /\ e.attempts \in 0..MaxAttempts - 1 /\ MaxAttempts \in Nat \ {0}
      /\ c < nextCode /\ spent[c].uses = 0 /\ spent[c].guesses = e.attempts
      /\ \A m \in sending : m.code # c
      /\ \A j \in Web!Keys : j # k /\ pending[j] # Nothing => pending[j].code # c
  BY <1>1, WebConstants DEF CodesInv, EntryType
<1>3. \A g \in Nat, u \in 0..1 :
        /\ pending' = [pending EXCEPT ![k] = Nothing]
        /\ spent' = [spent EXCEPT ![c] = [guesses |-> g, uses |-> u]]
        /\ g <= MaxAttempts
        /\ u = 1 => g < MaxAttempts
        => CodesInv'
  <2> SUFFICES ASSUME NEW g \in Nat, NEW u \in 0..1,
                      pending' = [pending EXCEPT ![k] = Nothing],
                      spent' = [spent EXCEPT ![c] = [guesses |-> g, uses |-> u]],
                      g <= MaxAttempts, u = 1 => g < MaxAttempts
               PROVE  CodesInv'
    OBVIOUS
  <2>1. /\ spent' \in [0..MaxCodes - 1 -> [guesses : Nat, uses : Nat]]
        /\ spent'[c].guesses = g /\ spent'[c].uses = u
        /\ \A d \in 0..MaxCodes - 1 : d # c => spent'[d] = spent[d]
    BY <1>2 DEF CodesInv
  <2>2. Web!CodesBounded'
    <3>1. DOMAIN spent' = 0..MaxCodes - 1 /\ DOMAIN spent = 0..MaxCodes - 1
      BY <2>1 DEF CodesInv
    <3> SUFFICES ASSUME NEW d \in 0..MaxCodes - 1
                 PROVE  /\ spent'[d].uses <= 1 /\ spent'[d].guesses <= MaxAttempts
                        /\ spent'[d].uses = 1 => spent'[d].guesses < MaxAttempts
      BY <3>1 DEF Web!CodesBounded
    <3>2. CASE d = c
      BY <2>1, <3>2
    <3>3. CASE d # c
      BY <2>1, <3>1, <3>3 DEF CodesInv, Web!CodesBounded
    <3>. QED
      BY <3>2, <3>3
  <2>3. /\ pending' \in [Web!Keys -> EntryType \cup {Nothing}]
        /\ \A j \in Web!Keys : pending'[j] # Nothing => j # k /\ pending'[j] = pending[j]
    BY DEF CodesInv
  <2>4. ASSUME NEW j \in Web!Keys, pending'[j] # Nothing
        PROVE  /\ pending'[j].code < nextCode
               /\ spent'[pending'[j].code].uses = 0
               /\ spent'[pending'[j].code].guesses = pending'[j].attempts
               /\ \A m \in sending : m.code # pending'[j].code
    <3>1. j # k /\ pending'[j] = pending[j] /\ pending[j].code # c
      BY <1>2, <2>3, <2>4
    <3>2. pending[j].code \in 0..MaxCodes - 1
      BY <2>4, <3>1 DEF CodesInv, EntryType
    <3>3. /\ pending[j].code < nextCode
          /\ spent[pending[j].code].uses = 0
          /\ spent[pending[j].code].guesses = pending[j].attempts
          /\ \A m \in sending : m.code # pending[j].code
      BY <2>4, <3>1 DEF CodesInv
    <3>. QED
      BY <2>1, <3>1, <3>2, <3>3
  <2>5. \A i, j \in Web!Keys :
          pending'[i] # Nothing /\ pending'[j] # Nothing /\ pending'[i].code = pending'[j].code
            => i = j
    BY <2>3 DEF CodesInv
  <2>6. \A m \in sending : m.code \in 0..MaxCodes - 1 /\ m.code # c
    BY <1>2 DEF CodesInv
  <2>7. \A m \in sending' : m.code < nextCode' /\ Fresh(m.code)'
    BY <2>1, <2>6 DEF CodesInv, Fresh
  <2>8. \A d \in 0..MaxCodes - 1 : d >= nextCode' => Fresh(d)'
    <3>1. nextCode \in Nat
      BY WebConstants DEF CodesInv
    <3>2. \A d \in 0..MaxCodes - 1 : d >= nextCode => d # c
      BY <1>2, <3>1
    <3>. QED
      BY <2>1, <3>2 DEF CodesInv, Fresh
  <2>. QED
    BY <2>1, <2>2, <2>3, <2>4, <2>5, <2>7, <2>8 DEF CodesInv
<1>4. spent[c] \in [guesses : Nat, uses : Nat]
  BY <1>2 DEF CodesInv
<1>5. spent[c] = [guesses |-> e.attempts, uses |-> 0]
  BY <1>2, <1>4
<1>6. e.attempts \in Nat /\ e.attempts < MaxAttempts /\ e.attempts + 1 \in Nat
      /\ e.attempts + 1 <= MaxAttempts /\ e.attempts <= MaxAttempts
      /\ 0 \in 0..1 /\ 1 \in 0..1 /\ 0 # 1
  BY <1>2
<1>7. CASE Web!RightGuess(k)
  <2>1. pending' = [pending EXCEPT ![k] = Nothing]
    BY <1>7 DEF Web!RightGuess, Web!TakenCode
  <2>2. spent' = [spent EXCEPT ![c] = [guesses |-> e.attempts, uses |-> 1]]
    <3>1. spent' = [spent EXCEPT ![c].uses = @ + 1]
      BY <1>7 DEF Web!RightGuess
    <3>2. [spent[c] EXCEPT !.uses = @ + 1] = [guesses |-> e.attempts, uses |-> 1]
      BY <1>5
    <3>. QED
      BY <3>1, <3>2
  <2>. QED
    BY <1>3, <1>6, <2>1, <2>2
<1>8. CASE Web!WrongGuess(k) /\ ~Web!Usable(k)
  <2>1. pending' = [pending EXCEPT ![k] = Nothing] /\ spent' = spent
    BY <1>8 DEF Web!WrongGuess
  <2>2. spent' = [spent EXCEPT ![c] = [guesses |-> e.attempts, uses |-> 0]]
    BY <1>5, <2>1 DEF CodesInv
  <2>. QED
    BY <1>3, <1>6, <2>1, <2>2
<1>9. CASE Web!WrongGuess(k) /\ Web!Usable(k)
  <2>1. /\ pending' = [pending EXCEPT ![k] = Web!Guessed(e)]
        /\ spent' = [spent EXCEPT ![c].guesses = @ + 1]
    BY <1>9 DEF Web!WrongGuess
  <2>2. spent' = [spent EXCEPT ![c] = [guesses |-> e.attempts + 1, uses |-> 0]]
    <3>1. [spent[c] EXCEPT !.guesses = @ + 1] = [guesses |-> e.attempts + 1, uses |-> 0]
      BY <1>5
    <3>. QED
      BY <2>1, <3>1
  <2>3. CASE e.attempts + 1 >= MaxAttempts
    <3>1. pending' = [pending EXCEPT ![k] = Nothing]
      BY <2>1, <2>3 DEF Web!Guessed
    <3>. QED
      BY <1>3, <1>6, <2>2, <3>1
  <2>4. CASE ~(e.attempts + 1 >= MaxAttempts)
    <3> DEFINE x == [e EXCEPT !.attempts = @ + 1]
    <3>1. pending' = [pending EXCEPT ![k] = x]
      BY <2>1, <2>4 DEF Web!Guessed
    <3>2. e.attempts + 1 \in 0..MaxAttempts - 1
      BY <1>2, <1>6, <2>4
    <3>3. x \in EntryType /\ x.code = c /\ x.attempts = e.attempts + 1
      BY <1>1, <3>2 DEF EntryType
    <3> HIDE DEF x
    <3>4. /\ pending' \in [Web!Keys -> EntryType \cup {Nothing}] /\ pending'[k] = x
          /\ \A j \in Web!Keys \ {k} : pending'[j] = pending[j]
      BY <3>1, <3>3 DEF CodesInv
    <3>5. /\ spent' \in [0..MaxCodes - 1 -> [guesses : Nat, uses : Nat]]
          /\ spent'[c].guesses = e.attempts + 1 /\ spent'[c].uses = 0
          /\ \A d \in 0..MaxCodes - 1 : d # c => spent'[d] = spent[d]
      BY <1>2, <1>6, <2>2 DEF CodesInv
    <3>6. Web!CodesBounded'
      <4>1. DOMAIN spent' = 0..MaxCodes - 1 /\ DOMAIN spent = 0..MaxCodes - 1
        BY <3>5 DEF CodesInv
      <4> SUFFICES ASSUME NEW d \in 0..MaxCodes - 1
                   PROVE  /\ spent'[d].uses <= 1 /\ spent'[d].guesses <= MaxAttempts
                          /\ spent'[d].uses = 1 => spent'[d].guesses < MaxAttempts
        BY <4>1 DEF Web!CodesBounded
      <4>2. CASE d = c
        BY <1>6, <3>5, <4>2
      <4>3. CASE d # c
        BY <3>5, <4>1, <4>3 DEF CodesInv, Web!CodesBounded
      <4>. QED
        BY <4>2, <4>3
    <3>7. ASSUME NEW j \in Web!Keys, pending'[j] # Nothing
          PROVE  /\ pending'[j].code < nextCode
                 /\ spent'[pending'[j].code].uses = 0
                 /\ spent'[pending'[j].code].guesses = pending'[j].attempts
                 /\ \A m \in sending : m.code # pending'[j].code
      <4>1. CASE j = k
        BY <1>2, <3>3, <3>4, <3>5, <4>1
      <4>2. CASE j # k
        <5>1. pending'[j] = pending[j] /\ pending[j].code # c
          BY <1>2, <3>4, <3>7, <4>2
        <5>2. pending[j].code \in 0..MaxCodes - 1
          BY <3>7, <5>1 DEF CodesInv, EntryType
        <5>3. /\ pending[j].code < nextCode
              /\ spent[pending[j].code].uses = 0
              /\ spent[pending[j].code].guesses = pending[j].attempts
              /\ \A m \in sending : m.code # pending[j].code
          BY <3>7, <5>1 DEF CodesInv
        <5>. QED
          BY <3>5, <5>1, <5>2, <5>3
      <4>. QED
        BY <4>1, <4>2
    <3>8. \A j \in Web!Keys : pending'[j] # Nothing => pending[j] # Nothing
                                                      /\ pending'[j].code = pending[j].code
      BY <1>1, <3>3, <3>4
    <3>9. \A i, j \in Web!Keys :
            pending'[i] # Nothing /\ pending'[j] # Nothing /\ pending'[i].code = pending'[j].code
              => i = j
      BY <3>8 DEF CodesInv
    <3>10. \A m \in sending : m.code \in 0..MaxCodes - 1 /\ m.code # c
      BY <1>2 DEF CodesInv
    <3>11. \A m \in sending' : m.code < nextCode' /\ Fresh(m.code)'
      BY <3>5, <3>10 DEF CodesInv, Fresh
    <3>12. \A d \in 0..MaxCodes - 1 : d >= nextCode' => Fresh(d)'
      <4>1. nextCode \in Nat
        BY WebConstants DEF CodesInv
      <4>2. \A d \in 0..MaxCodes - 1 : d >= nextCode => d # c
        BY <1>2, <4>1
      <4>. QED
        BY <3>5, <4>2 DEF CodesInv, Fresh
    <3>. QED
      BY <3>4, <3>5, <3>6, <3>7, <3>9, <3>11, <3>12 DEF CodesInv
  <2>. QED
    BY <2>3, <2>4
<1>. QED
  BY <1>7, <1>8, <1>9

(* Every step keeps both.                                                  *)
LEMMA WebStep ==
    UsersInv /\ CodesInv /\ [Web!Next]_accountsVars => UsersInv' /\ CodesInv'
<1> SUFFICES ASSUME UsersInv, CodesInv, [Web!Next]_accountsVars
             PROVE  UsersInv' /\ CodesInv'
  OBVIOUS
<1>0. now \in 0..MaxTime /\ MaxTime \in Nat
  BY WebConstants DEF CodesInv
<1>1. ASSUME NEW k \in Web!Keys, Web!Issue(k) PROVE UsersInv' /\ CodesInv'
  BY <1>1, IssueKeeps, UsersKept DEF Web!Issue
<1>2. ASSUME NEW m \in sending, Web!Sent(m) \/ Web!SendFails(m) PROVE UsersInv' /\ CodesInv'
  BY <1>2, SentKeeps, UsersKept DEF Web!Sent, Web!SendFails
<1>3. CASE Web!Tick
  <2>1. now' \in 0..MaxTime
    BY <1>0, <1>3 DEF Web!Tick
  <2>. QED
    BY <1>3, <2>1, CodesKept, UsersKept DEF Web!Tick, Web!mail
<1>4. ASSUME NEW e \in Emails, Web!Register(e) PROVE UsersInv' /\ CodesInv'
  <2>1. <<e, "register">> \in Web!Keys
    BY DEF Web!Keys, Web!Purposes
  <2>2. CodesInv'
    BY <1>4, <2>1, GuessKeeps DEF Web!Register
  <2>3. UNCHANGED tokens /\ (Web!Created(e, FALSE, FALSE) \/ Web!Refused)
    BY <1>4 DEF Web!Register
  <2>4. UsersInv'
    BY <2>3, CreatedKeeps, UsersKept DEF Web!Refused
  <2>. QED
    BY <2>2, <2>4
<1>5. ASSUME NEW e \in Emails, Web!ResetOwn(e) PROVE UsersInv' /\ CodesInv'
  <2>1. <<e, "reset">> \in Web!Keys
    BY DEF Web!Keys, Web!Purposes
  <2>2. CodesInv'
    BY <1>5, <2>1, GuessKeeps DEF Web!ResetOwn
  <2>3. UNCHANGED tokens /\ users[e] # Nothing /\ (Web!Changed(e, FALSE) \/ Web!Refused)
    BY <1>5 DEF Web!ResetOwn
  <2>4. UsersInv'
    BY <2>3, ChangedKeeps, UsersKept DEF Web!Refused
  <2>. QED
    BY <2>2, <2>4
<1>6. ASSUME NEW e \in Emails, Web!Login(e) PROVE UsersInv' /\ CodesInv'
  <2>1. CodesInv'
    BY <1>0, <1>6, CodesKept DEF Web!Login, Web!mail
  <2>. QED
    BY <1>6, <2>1, LoginKeeps
<1>7. ASSUME NEW t \in tokens, NEW e \in Emails, Web!ChangeOwn(t, e) PROVE UsersInv' /\ CodesInv'
  <2>1. CodesInv'
    BY <1>0, <1>7, CodesKept DEF Web!ChangeOwn, Web!mail
  <2>2. users[e] # Nothing /\ Web!Changed(e, FALSE) /\ UNCHANGED tokens
    BY <1>7 DEF Web!ChangeOwn, Web!Accepted
  <2>. QED
    BY <2>1, <2>2, ChangedKeeps
<1>8. ASSUME NEW t \in tokens, NEW a \in Emails, NEW e \in Emails, Web!AdminCreates(t, a, e)
      PROVE  UsersInv' /\ CodesInv'
  <2>1. CodesInv'
    BY <1>0, <1>8, CodesKept DEF Web!AdminCreates, Web!mail
  <2>2. PICK admin \in BOOLEAN : Web!Created(e, admin, TRUE)
    BY <1>8 DEF Web!AdminCreates
  <2>3. UNCHANGED tokens
    BY <1>8 DEF Web!AdminCreates
  <2>. QED
    BY <2>1, <2>2, <2>3, CreatedKeeps
<1>9. ASSUME NEW t \in tokens, NEW a \in Emails, NEW e \in Emails, Web!AdminResets(t, a, e)
      PROVE  UsersInv' /\ CodesInv'
  <2>1. CodesInv'
    BY <1>0, <1>9, CodesKept DEF Web!AdminResets, Web!mail
  <2>2. users[e] # Nothing /\ Web!Changed(e, TRUE) /\ UNCHANGED tokens
    BY <1>9 DEF Web!AdminResets
  <2>. QED
    BY <2>1, <2>2, ChangedKeeps
<1>10. ASSUME NEW t \in tokens, NEW a \in Emails, NEW e \in Emails, Web!AdminDeletes(t, a, e)
       PROVE  UsersInv' /\ CodesInv'
  <2>1. CodesInv'
    BY <1>0, <1>10, CodesKept DEF Web!AdminDeletes, Web!mail
  <2>. QED
    BY <1>10, <2>1, DeleteKeeps
<1>11. CASE UNCHANGED accountsVars
  BY <1>0, <1>11, CodesKept, UsersKept DEF accountsVars
<1>. QED
  BY <1>1, <1>2, <1>3, <1>4, <1>5, <1>6, <1>7, <1>8, <1>9, <1>10, <1>11 DEF Web!Next

(* No session outlives its password or its account, some administrator is  *)
(* left, and a code is used once and guessed at a bounded number of times, *)
(* for any number of addresses, mails, sessions and changes (web_auth.py,  *)
(* mail.py, web_app.py).                                                   *)
THEOREM AccountsKeptHolds == ServerSpec => []AccountsKept
<1> DEFINE Inv == part = "accounts" => UsersInv /\ CodesInv
<1>1. ServerInit => Inv
  BY UsersInit, CodesInit DEF ServerInit
<1>2. Inv /\ [ServerNext]_serverVars => Inv'
  <2> SUFFICES ASSUME Inv, [ServerNext]_serverVars, part' = "accounts" PROVE UsersInv' /\ CodesInv'
    OBVIOUS
  <2>1. CASE part = "accounts" /\ Web!Next
    BY <2>1, WebStep
  <2>2. CASE UNCHANGED <<part, accountsVars>>
    BY <2>2, WebStep
  <2>. QED
    BY <2>1, <2>2 DEF ServerNext, serverVars
<1>3. Inv => AccountsKept
  <2> SUFFICES ASSUME UsersInv, CodesInv
               PROVE  Web!TypeOK /\ Web!SessionsEnd /\ Web!AdministratorLeft /\ Web!CodesBounded
    BY DEF AccountsKept
  <2>1. Web!TypeOK
    BY DEF Web!TypeOK, UsersInv, CodesInv, UserType, EntryType
  <2>2. Web!SessionsEnd
    BY DEF Web!SessionsEnd, Web!Accepted, UsersInv
  <2>. QED
    BY <2>1, <2>2 DEF UsersInv, CodesInv
<1>. QED
  BY <1>1, <1>2, <1>3, PTL DEF ServerSpec
-----------------------------------------------------------------------------
(* The messages of a channel: what the store has of them, which turn runs  *)
(* for which, and in whose hands a claimed one is.                         *)

(* The service's messages, the inbox and the cursor.                       *)
StoreInv ==
    /\ posted \in Seq(Chat!Kinds) /\ Len(posted) \in 0..MaxMessages /\ cursor \in 0..Len(posted)
    /\ inbox \in [Chat!Messages -> {"absent", "pending"} \cup (Chat!Statuses \ {"none"})]
    /\ Chat!NothingLost

(* A task inside its turn has that turn's row running, so that a busy      *)
(* thread is one with a task in it or with a row its task left behind; a   *)
(* turn without a key is only for a message whose own turn came to nothing.*)
TurnRuns(c) ==
    IF keyless[c] THEN retried[active[c]] = "running" ELSE keyed[active[c]] = "running"
TurnsInv ==
    /\ keyed \in [Chat!Messages -> Chat!Statuses] /\ retried \in [Chat!Messages -> Chat!Statuses]
    /\ completions \in [Chat!Messages -> Nat]
    /\ active \in [Slots -> 0..MaxMessages] /\ keyless \in [Slots -> BOOLEAN]
    /\ pc \in [Slots -> {"none", "begin", "run", "asks", "send", "error", "clear"}]
    /\ \A c \in Slots : pc[c] # "none" <=> active[c] # 0
    /\ \A c \in Slots : pc[c] \in {"run", "asks"} => TurnRuns(c)
    /\ \A m \in Chat!Messages :
         /\ keyed[m] \in {"none", "running"} => completions[m] = 0 /\ retried[m] = "none"
         /\ keyed[m] = "completed" => completions[m] = 1 /\ retried[m] = "none"
    /\ Chat!OneTurnAtATime

(* The hub, and what each channel holds. An open question of a channel     *)
(* that runs is one its task waits for.                                    *)
HandsInv ==
    /\ enabled \in BOOLEAN /\ up \in BOOLEAN /\ bound \in Slots \cup {Nobody}
    /\ refreshing \subseteq Slots \cup {Nobody}
    /\ state \in [Slots -> {"off", "run", "stopping"}]
    /\ queue \in [Slots -> Seq(Chat!Messages)] /\ \A c \in Slots : Len(queue[c]) <= MaxQueue
    /\ handling \in [Slots -> 0..MaxMessages] /\ asks \in [Slots -> {"none", "open", "stuck"}]
    /\ \A c \in Slots : state[c] = "off" => pc[c] = "none" /\ asks[c] = "none"
    /\ \A c \in Slots : state[c] = "run" /\ asks[c] = "open" => pc[c] = "asks"

ChatInv == StoreInv /\ TurnsInv /\ HandsInv /\ Chat!ClaimedIsHeld

(* The constants.                                                          *)
LEMMA ChatConstants ==
    /\ Nobody \notin Slots /\ MaxQueue \in Nat /\ MaxMessages \in Nat
    /\ Chat!Messages = 1..MaxMessages /\ 0 \notin Chat!Messages
BY ServerAssumption DEF Chat!ChannelAssumption, Chat!Messages

(* What an append and a tail hold.                                         *)
LEMMA AppendHolds ==
    ASSUME NEW S, NEW q \in Seq(S), NEW m \in S
    PROVE  /\ Append(q, m) \in Seq(S) /\ Len(Append(q, m)) = Len(q) + 1
           /\ \A i \in DOMAIN q : i \in DOMAIN Append(q, m) /\ Append(q, m)[i] = q[i]
           /\ Len(q) + 1 \in DOMAIN Append(q, m) /\ Append(q, m)[Len(q) + 1] = m
OBVIOUS

(* What is in a queue is at its head or in its tail.                       *)
LEMMA TailHolds ==
    ASSUME NEW S, NEW q \in Seq(S), q # << >>
    PROVE  /\ Head(q) \in S /\ Tail(q) \in Seq(S) /\ Len(Tail(q)) <= Len(q)
           /\ \A i \in DOMAIN q : \/ q[i] = Head(q)
                                  \/ i - 1 \in DOMAIN Tail(q) /\ Tail(q)[i - 1] = q[i]
OBVIOUS

(* The message that is claimed is one that waits.                          *)
LEMMA OldestPending ==
    ASSUME StoreInv, Chat!Pending # {}
    PROVE  Chat!Min(Chat!Pending) \in Chat!Messages /\ inbox[Chat!Min(Chat!Pending)] = "pending"
<1> DEFINE P == Chat!Pending
<1>1. P \subseteq Nat /\ P # {}
  BY ChatConstants DEF Chat!Pending
<1> HIDE DEF P
<1>3. \E x \in P : \A y \in P : x =< y
  BY <1>1, LeastOf
<1>4. Chat!Min(P) \in P
  BY <1>3 DEF Chat!Min
<1>. QED
  BY <1>4 DEF P, Chat!Pending

(* At first the chat is empty and no channel runs.                         *)
LEMMA ChatInit == Chat!Init => ChatInv
<1> SUFFICES ASSUME Chat!Init PROVE ChatInv
  OBVIOUS
<1> USE DEF Chat!Init
<1>1. 0 \in 0..MaxMessages
  BY ChatConstants
<1>2. StoreInv
  BY <1>1, ChatConstants DEF StoreInv, Chat!NothingLost, Chat!Statuses, Chat!Kinds
<1>3. TurnsInv
  BY <1>1 DEF TurnsInv, TurnRuns, Chat!OneTurnAtATime, Chat!Statuses
<1>4. HandsInv
  <2>1. << >> \in Seq(Chat!Messages) /\ Len(<< >>) <= MaxQueue
    BY ChatConstants
  <2>2. \A c \in Slots : queue[c] = << >>
    OBVIOUS
  <2>. QED
    BY <1>1, <2>1, <2>2 DEF HandsInv
<1>5. Chat!ClaimedIsHeld
  BY DEF Chat!ClaimedIsHeld
<1>. QED
  BY <1>2, <1>3, <1>4, <1>5 DEF ChatInv

(* A row is finished or claimed, or all that were claimed are requeued.    *)
LEMMA StoreKeeps ==
    ASSUME StoreInv, UNCHANGED <<posted, cursor>>,
           \/ inbox' = inbox
           \/ inbox' = Chat!Requeued
           \/ \E m \in 0..MaxMessages, s \in Chat!Statuses \ {"none"} :
                inbox' = [inbox EXCEPT ![m] = s]
    PROVE  StoreInv'
<1>1. /\ inbox' \in [Chat!Messages -> {"absent", "pending"} \cup (Chat!Statuses \ {"none"})]
      /\ \A m \in Chat!Messages : inbox'[m] = "absent" => inbox[m] = "absent"
  <2>1. CASE inbox' = inbox
    BY <2>1 DEF StoreInv
  <2>2. CASE inbox' = Chat!Requeued
    BY <2>2 DEF StoreInv, Chat!Requeued
  <2>3. CASE \E m \in 0..MaxMessages, s \in Chat!Statuses \ {"none"} :
               inbox' = [inbox EXCEPT ![m] = s]
    BY <2>3 DEF StoreInv, Chat!Statuses
  <2>. QED
    BY <2>1, <2>2, <2>3
<1>2. 1..cursor \subseteq Chat!Messages
  BY ChatConstants DEF StoreInv
<1>. QED
  BY <1>1, <1>2 DEF StoreInv, Chat!NothingLost

(* The inbox has what the cursor has passed.                               *)
LEMMA StoreStep == ASSUME ChatInv, Chat!Next PROVE StoreInv'
<1> USE DEF ChatInv
<1>1. active \in [Slots -> 0..MaxMessages] /\ handling \in [Slots -> 0..MaxMessages]
  BY DEF TurnsInv, HandsInv
<1>2. {"running", "completed", "failed", "canceled"} \subseteq Chat!Statuses \ {"none"}
  BY DEF Chat!Statuses
<1>3. CASE Chat!Posts
  <2>1. PICK k \in Chat!Kinds : posted' = Append(posted, k)
    BY <1>3 DEF Chat!Posts
  <2>2. Len(posted') = Len(posted) + 1 /\ posted' \in Seq(Chat!Kinds)
    BY <2>1 DEF StoreInv
  <2>3. Len(posted') \in 0..MaxMessages /\ cursor \in 0..Len(posted')
    BY <1>3, <2>2, ChatConstants DEF StoreInv, Chat!Posts
  <2>. QED
    BY <1>3, <2>2, <2>3 DEF StoreInv, Chat!Posts, Chat!NothingLost
<1>4. CASE \E c \in Slots : Chat!Polls(c)
  <2>1. PICK c \in Slots : Chat!Polls(c)
    BY <1>4
  <2>2. PICK first \in {1, cursor + 1} : inbox' = Chat!Saved(c, first, Len(posted))
    BY <2>1 DEF Chat!Polls
  <2>3. \A m \in 1..Len(posted) : m \in first..Len(posted) \/ m \in 1..cursor
    BY <2>2, ChatConstants DEF StoreInv
  <2>4. 1..Len(posted) \subseteq Chat!Messages
    BY ChatConstants DEF StoreInv
  <2>5. /\ inbox' \in [Chat!Messages -> {"absent", "pending"} \cup (Chat!Statuses \ {"none"})]
        /\ \A m \in Chat!Messages : inbox'[m] = "absent" =>
             m \notin first..Len(posted) /\ inbox[m] = "absent"
    BY <2>2 DEF StoreInv, Chat!Saved
  <2>6. cursor' = Len(posted) /\ posted' = posted
    BY <2>1 DEF Chat!Polls
  <2>7. cursor' \in 0..Len(posted)
    BY <2>6 DEF StoreInv
  <2>8. Chat!NothingLost'
    BY <2>3, <2>4, <2>5, <2>6 DEF Chat!NothingLost, StoreInv
  <2>. QED
    BY <2>5, <2>6, <2>7, <2>8 DEF StoreInv
<1>5. CASE \E c \in Slots : Chat!Claims(c)
  <2>1. PICK c \in Slots : Chat!Claims(c)
    BY <1>5
  <2>2. Chat!Min(Chat!Pending) \in 0..MaxMessages
    BY <2>1, OldestPending, ChatConstants DEF Chat!Claims
  <2>3. UNCHANGED <<posted, cursor>>
        /\ inbox' = [inbox EXCEPT ![Chat!Min(Chat!Pending)] = "running"]
    BY <2>1 DEF Chat!Claims, Chat!Finish
  <2>. QED
    BY <1>2, <2>2, <2>3, StoreKeeps
<1>6. CASE \E c \in Slots : Chat!Replies(c)
  BY <1>1, <1>2, <1>6, StoreKeeps DEF Chat!Replies, Chat!Finish
<1>7. CASE \E c \in Slots : Chat!Clears(c)
  BY <1>1, <1>2, <1>7, StoreKeeps DEF Chat!Clears, Chat!Ends, Chat!Leaves, Chat!Finish
<1>8. CASE \E c \in Slots : Chat!AgentCanceled(c) \/ Chat!SendsAnswer(c) \/ Chat!SendsError(c)
  BY <1>1, <1>2, <1>8, StoreKeeps
     DEF Chat!AgentCanceled, Chat!SendsAnswer, Chat!SendsError, Chat!Ends, Chat!Finish
<1>9. CASE \E c \in Slots : Chat!Unwinds(c)
  <2>1. PICK c \in Slots : Chat!Unwinds(c)
    BY <1>9
  <2>2. pc[c] \in {"begin", "clear", "run", "asks", "send", "error"} \/ pc[c] = "none"
    BY DEF TurnsInv
  <2>3. UNCHANGED <<posted, cursor>>
    BY <2>1 DEF Chat!Unwinds
  <2>4. CASE pc[c] \in {"begin", "clear"}
    BY <2>1, <2>3, <2>4, StoreKeeps DEF Chat!Unwinds, Chat!Leaves
  <2>5. CASE pc[c] \in {"run", "asks"}
    BY <1>1, <1>2, <2>1, <2>3, <2>5, StoreKeeps DEF Chat!Unwinds, Chat!Ends, Chat!Finish
  <2>6. CASE pc[c] \in {"send", "error"}
    BY <1>1, <1>2, <2>1, <2>3, <2>6, StoreKeeps DEF Chat!Unwinds, Chat!Ends, Chat!Finish
  <2>7. CASE pc[c] = "none"
    BY <2>1, <2>7 DEF Chat!Unwinds, TurnsInv
  <2>. QED
    BY <2>2, <2>4, <2>5, <2>6, <2>7
<1>10. CASE Chat!RefreshEnds \/ Chat!Boot
  <2>1. UNCHANGED <<posted, cursor>> /\ (inbox' = inbox \/ inbox' = Chat!Requeued)
    BY <1>10 DEF Chat!RefreshEnds, Chat!Boot, Chat!Starts
  <2>. QED
    BY <2>1, StoreKeeps
<1>11. ASSUME UNCHANGED Chat!store PROVE StoreInv'
  BY <1>11, StoreKeeps DEF Chat!store
<1>12. CASE Chat!Refresh \/ Chat!WorkspaceRemoved \/ Chat!Crash
  BY <1>11, <1>12 DEF Chat!Refresh, Chat!WorkspaceRemoved, Chat!Crash
<1>13. CASE \E c \in Slots : Chat!ReplyFails(c) \/ Chat!StartsNext(c) \/ Chat!Reserves(c)
                             \/ Chat!AgentAnswers(c) \/ Chat!AgentFails(c)
  BY <1>11, <1>13
     DEF Chat!ReplyFails, Chat!StartsNext, Chat!Reserves, Chat!AgentAnswers, Chat!AgentFails
<1>14. CASE \E c \in Slots : Chat!Asks(c) \/ Chat!AskEnds(c) \/ Chat!Stopped(c)
  BY <1>11, <1>14 DEF Chat!Asks, Chat!AskEnds, Chat!Stopped
<1>. QED
  BY <1>3, <1>4, <1>5, <1>6, <1>7, <1>8, <1>9, <1>10, <1>12, <1>13, <1>14 DEF Chat!Next

(* A turn's row changes only where its task is, or with the task.          *)
LEMMA TurnMoves ==
    ASSUME TurnsInv, NEW c \in Slots, pc[c] \in {"run", "asks"},
           NEW s \in {"completed", "failed", "canceled"}, Chat!TurnIs(c, s)
    PROVE  /\ active[c] \in Chat!Messages
           /\ keyed' \in [Chat!Messages -> Chat!Statuses]
           /\ retried' \in [Chat!Messages -> Chat!Statuses]
           /\ \A m \in Chat!Messages : m # active[c] => keyed'[m] = keyed[m] /\ retried'[m] = retried[m]
           /\ \/ keyed'[active[c]] = s /\ keyed[active[c]] = "running"
                                       /\ retried'[active[c]] = "none"
              \/ keyed'[active[c]] = keyed[active[c]] /\ keyed[active[c]] \in {"failed", "canceled"}
<1>1. active[c] \in Chat!Messages /\ s \in Chat!Statuses
  BY ChatConstants DEF TurnsInv, Chat!Statuses
<1>2. CASE keyless[c]
  <2>1. retried[active[c]] = "running"
    BY <1>2 DEF TurnsInv, TurnRuns
  <2>2. keyed[active[c]] \in {"failed", "canceled"}
    BY <1>1, <2>1 DEF TurnsInv, Chat!Statuses
  <2>. QED
    BY <1>1, <1>2, <2>2 DEF TurnsInv, Chat!TurnIs
<1>3. CASE ~keyless[c]
  <2>1. keyed[active[c]] = "running"
    BY <1>3 DEF TurnsInv, TurnRuns
  <2>2. retried[active[c]] = "none"
    BY <1>1, <2>1 DEF TurnsInv
  <2>. QED
    BY <1>1, <1>3, <2>1, <2>2 DEF TurnsInv, Chat!TurnIs
<1>. QED
  BY <1>2, <1>3

(* A task that leaves its turn, or that was in none, disturbs no other.    *)
LEMMA TaskEnds ==
    ASSUME TurnsInv, NEW c \in Slots,
           active' = [active EXCEPT ![c] = 0], pc' = [pc EXCEPT ![c] = "none"],
           keyless' = keyless \/ keyless' = [keyless EXCEPT ![c] = FALSE],
           UNCHANGED completions,
           \/ UNCHANGED <<keyed, retried>>
           \/ /\ pc[c] \in {"run", "asks"}
              /\ Chat!TurnIs(c, "canceled")
    PROVE  TurnsInv'
<1>1. /\ active' \in [Slots -> 0..MaxMessages] /\ keyless' \in [Slots -> BOOLEAN]
      /\ pc' \in [Slots -> {"none", "begin", "run", "asks", "send", "error", "clear"}]
      /\ active'[c] = 0 /\ pc'[c] = "none"
      /\ \A d \in Slots : d # c => active'[d] = active[d] /\ pc'[d] = pc[d]
                                                        /\ keyless'[d] = keyless[d]
  <2>1. 0 \in 0..MaxMessages
    BY ChatConstants
  <2>2. /\ keyless' \in [Slots -> BOOLEAN]
        /\ \A d \in Slots : d # c => keyless'[d] = keyless[d]
    BY DEF TurnsInv
  <2>. QED
    BY <2>1, <2>2 DEF TurnsInv
<1>2. \A d \in Slots : pc'[d] # "none" <=> active'[d] # 0
  BY <1>1 DEF TurnsInv
<1>3. \A d, e \in Slots : pc'[d] \in {"run", "asks"} /\ pc'[e] \in {"run", "asks"} => d = e
  BY <1>1 DEF TurnsInv, Chat!OneTurnAtATime
<1>4. \A d \in Slots : pc'[d] \in {"run", "asks"} =>
        d # c /\ pc[d] \in {"run", "asks"} /\ pc[c] \notin {"run", "asks"}
  BY <1>1 DEF TurnsInv, Chat!OneTurnAtATime
<1>5. CASE UNCHANGED <<keyed, retried>>
  <2>1. \A d \in Slots : pc'[d] \in {"run", "asks"} => TurnRuns(d)'
    BY <1>1, <1>4, <1>5 DEF TurnsInv, TurnRuns
  <2>. QED
    BY <1>1, <1>2, <1>3, <1>5, <2>1 DEF TurnsInv, Chat!OneTurnAtATime
<1>6. CASE pc[c] \in {"run", "asks"} /\ Chat!TurnIs(c, "canceled")
  <2>1. \A d \in Slots : pc'[d] \notin {"run", "asks"}
    BY <1>4, <1>6
  <2>2. /\ active[c] \in Chat!Messages
        /\ keyed' \in [Chat!Messages -> Chat!Statuses]
        /\ retried' \in [Chat!Messages -> Chat!Statuses]
        /\ \A m \in Chat!Messages : m # active[c] => keyed'[m] = keyed[m] /\ retried'[m] = retried[m]
        /\ \/ keyed'[active[c]] = "canceled"
           \/ keyed'[active[c]] = keyed[active[c]] /\ keyed[active[c]] \in {"failed", "canceled"}
    BY <1>6, TurnMoves
  <2>3. \A m \in Chat!Messages :
          /\ keyed'[m] \in {"none", "running"} => completions'[m] = 0 /\ retried'[m] = "none"
          /\ keyed'[m] = "completed" => completions'[m] = 1 /\ retried'[m] = "none"
    BY <2>2 DEF TurnsInv
  <2>. QED
    BY <1>1, <1>2, <1>3, <2>1, <2>2, <2>3 DEF TurnsInv, Chat!OneTurnAtATime
<1>. QED
  BY <1>5, <1>6

(* Turns run one at a time, and a completed one is not run again.          *)
LEMMA TurnsStep == ASSUME ChatInv, Chat!Next PROVE TurnsInv'
<1> USE DEF ChatInv
<1>1. ASSUME UNCHANGED <<keyed, retried, completions, active, pc, keyless>> PROVE TurnsInv'
  BY <1>1 DEF TurnsInv, TurnRuns, Chat!OneTurnAtATime
<1>2. ASSUME NEW c \in Slots, pc[c] \in {"begin", "run", "asks", "send", "error", "clear"},
             NEW v \in {"begin", "run", "asks", "send", "error", "clear"},
             pc' = [pc EXCEPT ![c] = v],
             v \in {"run", "asks"} => pc[c] \in {"run", "asks"},
             UNCHANGED <<keyed, retried, completions, active, keyless>>
      PROVE  TurnsInv'
  <2>1. /\ pc' \in [Slots -> {"none", "begin", "run", "asks", "send", "error", "clear"}]
        /\ pc'[c] = v /\ \A d \in Slots : d # c => pc'[d] = pc[d]
    BY <1>2 DEF TurnsInv
  <2>2. \A d \in Slots : pc'[d] \in {"run", "asks"} => pc[d] \in {"run", "asks"}
    BY <1>2, <2>1
  <2>3. \A d \in Slots : pc'[d] # "none" <=> active'[d] # 0
    BY <1>2, <2>1 DEF TurnsInv
  <2>4. \A d \in Slots : pc'[d] \in {"run", "asks"} => TurnRuns(d)'
    BY <1>2, <2>2 DEF TurnsInv, TurnRuns
  <2>. QED
    BY <1>2, <2>1, <2>2, <2>3, <2>4 DEF TurnsInv, Chat!OneTurnAtATime
<1>3. CASE \E c \in Slots : Chat!Claims(c)
  <2>1. PICK c \in Slots : Chat!Claims(c)
    BY <1>3
  <2>2. UNCHANGED <<keyed, retried, completions, active, keyless>>
    BY <2>1 DEF Chat!Claims, Chat!runtime, Chat!history
  <2>3. CASE pc' = pc
    BY <1>1, <2>2, <2>3
  <2>4. CASE pc' = [pc EXCEPT ![c] = "run"] /\ asks[c] = "open"
    <3>1. pc[c] = "asks"
      BY <2>1, <2>4 DEF Chat!Claims, HandsInv
    <3>. QED
      BY <1>2, <2>2, <2>4, <3>1
  <2>. QED
    BY <2>1, <2>3, <2>4 DEF Chat!Claims, Chat!Obeys
<1>4. CASE \E c \in Slots : Chat!StartsNext(c)
  <2>1. PICK c \in Slots : Chat!StartsNext(c)
    BY <1>4
  <2>2. active[c] = 0 /\ pc[c] = "none" /\ Head(queue[c]) \in Chat!Messages
    BY <2>1 DEF Chat!StartsNext, TurnsInv, HandsInv
  <2>3. PICK v \in {"clear", "begin"} : pc' = [pc EXCEPT ![c] = v]
    BY <2>1 DEF Chat!StartsNext
  <2>4. /\ active' = [active EXCEPT ![c] = Head(queue[c])]
        /\ UNCHANGED <<keyed, retried, completions, keyless>>
    BY <2>1 DEF Chat!StartsNext, Chat!runtime, Chat!history
  <2>5. /\ active' \in [Slots -> 0..MaxMessages] /\ active'[c] # 0 /\ pc'[c] = v
        /\ pc' \in [Slots -> {"none", "begin", "run", "asks", "send", "error", "clear"}]
        /\ \A d \in Slots : d # c => active'[d] = active[d] /\ pc'[d] = pc[d]
    BY <2>2, <2>3, <2>4, ChatConstants DEF TurnsInv
  <2>6. \A d \in Slots : pc'[d] \in {"run", "asks"} => d # c /\ pc[d] \in {"run", "asks"}
    BY <2>5
  <2>7. \A d \in Slots : pc'[d] # "none" <=> active'[d] # 0
    BY <2>5 DEF TurnsInv
  <2>8. \A d \in Slots : pc'[d] \in {"run", "asks"} => TurnRuns(d)'
    BY <2>4, <2>5, <2>6 DEF TurnsInv, TurnRuns
  <2>. QED
    BY <2>4, <2>5, <2>6, <2>7, <2>8 DEF TurnsInv, Chat!OneTurnAtATime
<1>5. CASE \E c \in Slots : Chat!Clears(c)
  <2>1. PICK c \in Slots : Chat!Clears(c)
    BY <1>5
  <2>2. /\ active' = [active EXCEPT ![c] = 0] /\ pc' = [pc EXCEPT ![c] = "none"]
        /\ keyless' = keyless \/ keyless' = [keyless EXCEPT ![c] = FALSE]
    BY <2>1 DEF Chat!Clears, Chat!Ends, Chat!Leaves
  <2>3. CASE Chat!ThreadBusy
    BY <2>1, <2>2, <2>3, TaskEnds DEF Chat!Clears, Chat!runtime
  <2>4. CASE ~Chat!ThreadBusy
    <3>1. /\ completions' = [m \in Chat!Messages |-> 0]
          /\ keyed' = [m \in Chat!Messages |-> "none"]
          /\ retried' = [m \in Chat!Messages |-> "none"]
      BY <2>1, <2>4 DEF Chat!Clears
    <3>2. \A d \in Slots : pc[d] \notin {"run", "asks"}
      <4> SUFFICES ASSUME NEW d \in Slots, pc[d] \in {"run", "asks"} PROVE FALSE
        OBVIOUS
      <4>1. active[d] \in Chat!Messages
        BY ChatConstants DEF TurnsInv
      <4>2. keyed[active[d]] = "running" \/ retried[active[d]] = "running"
        BY DEF TurnsInv, TurnRuns
      <4>. QED
        BY <2>4, <4>1, <4>2 DEF Chat!ThreadBusy
    <3>3. /\ active' \in [Slots -> 0..MaxMessages] /\ keyless' \in [Slots -> BOOLEAN]
          /\ pc' \in [Slots -> {"none", "begin", "run", "asks", "send", "error", "clear"}]
          /\ \A d \in Slots : pc'[d] # "none" <=> active'[d] # 0
          /\ \A d \in Slots : pc'[d] \notin {"run", "asks"}
      <4>1. 0 \in 0..MaxMessages
        BY ChatConstants
      <4>2. keyless' \in [Slots -> BOOLEAN]
        BY <2>2 DEF TurnsInv
      <4>. QED
        BY <2>2, <3>2, <4>1, <4>2 DEF TurnsInv
    <3>. QED
      BY <3>1, <3>3 DEF TurnsInv, Chat!OneTurnAtATime, Chat!Statuses
  <2>. QED
    BY <2>3, <2>4
<1>6. CASE \E c \in Slots : Chat!Reserves(c)
  <2>1. PICK c \in Slots : Chat!Reserves(c)
    BY <1>6
  <2>2. active[c] \in Chat!Messages /\ pc[c] = "begin"
    BY <2>1, ChatConstants DEF Chat!Reserves, TurnsInv
  <2>3. UNCHANGED <<completions, active>>
    BY <2>1 DEF Chat!Reserves, Chat!history
  <2>4. CASE Chat!Answered(active[c]) \/ Chat!ThreadBusy
    <3>1. PICK v \in {"send", "error"} : pc' = [pc EXCEPT ![c] = v]
      BY <2>1, <2>4 DEF Chat!Reserves
    <3>2. UNCHANGED <<keyed, retried, keyless>>
      BY <2>1, <2>4 DEF Chat!Reserves, Chat!runtime
    <3>. QED
      BY <1>2, <2>2, <2>3, <3>1, <3>2
  <2>5. CASE ~Chat!Answered(active[c]) /\ ~Chat!ThreadBusy
    <3>1. /\ pc' = [pc EXCEPT ![c] = "run"]
          /\ keyless' = [keyless EXCEPT ![c] = keyed[active[c]] # "none"]
          /\ IF keyed[active[c]] = "none"
             THEN keyed' = [keyed EXCEPT ![active[c]] = "running"] /\ UNCHANGED retried
             ELSE retried' = [retried EXCEPT ![active[c]] = "running"] /\ UNCHANGED keyed
      BY <2>1, <2>5 DEF Chat!Reserves
    <3>2. \A d \in Slots : pc[d] \notin {"run", "asks"}
      <4> SUFFICES ASSUME NEW d \in Slots, pc[d] \in {"run", "asks"} PROVE FALSE
        OBVIOUS
      <4>1. active[d] \in Chat!Messages
        BY ChatConstants DEF TurnsInv
      <4>2. keyed[active[d]] = "running" \/ retried[active[d]] = "running"
        BY DEF TurnsInv, TurnRuns
      <4>. QED
        BY <2>5, <4>1, <4>2 DEF Chat!ThreadBusy
    <3>3. /\ keyless' \in [Slots -> BOOLEAN] /\ keyless'[c] = (keyed[active[c]] # "none")
          /\ pc' \in [Slots -> {"none", "begin", "run", "asks", "send", "error", "clear"}]
          /\ \A d \in Slots : pc'[d] # "none" <=> active'[d] # 0
          /\ \A d \in Slots : pc'[d] \in {"run", "asks"} => d = c
      BY <2>2, <2>3, <3>1, <3>2 DEF TurnsInv
    <3>4. keyed[active[c]] \notin {"running", "completed"}
      BY <2>2, <2>5 DEF Chat!ThreadBusy, Chat!Answered
    <3>5. CASE keyed[active[c]] = "none"
      <4>1. /\ keyed' \in [Chat!Messages -> Chat!Statuses] /\ keyed'[active[c]] = "running"
            /\ \A m \in Chat!Messages : m # active[c] => keyed'[m] = keyed[m]
            /\ retried' = retried
        BY <2>2, <3>1, <3>5 DEF TurnsInv, Chat!Statuses
      <4>2. TurnRuns(c)'
        BY <2>3, <3>3, <3>5, <4>1 DEF TurnRuns
      <4>. QED
        BY <2>2, <2>3, <3>3, <3>5, <4>1, <4>2 DEF TurnsInv, Chat!OneTurnAtATime
    <3>6. CASE keyed[active[c]] # "none"
      <4>1. /\ retried' \in [Chat!Messages -> Chat!Statuses] /\ retried'[active[c]] = "running"
            /\ \A m \in Chat!Messages : m # active[c] => retried'[m] = retried[m]
            /\ keyed' = keyed
        BY <2>2, <3>1, <3>6 DEF TurnsInv, Chat!Statuses
      <4>2. TurnRuns(c)'
        BY <2>3, <3>3, <3>6, <4>1 DEF TurnRuns
      <4>3. \A m \in Chat!Messages :
              /\ keyed'[m] \in {"none", "running"} => completions'[m] = 0 /\ retried'[m] = "none"
              /\ keyed'[m] = "completed" => completions'[m] = 1 /\ retried'[m] = "none"
        BY <2>3, <3>4, <3>6, <4>1 DEF TurnsInv
      <4>. QED
        BY <2>3, <3>3, <4>1, <4>2, <4>3 DEF TurnsInv, Chat!OneTurnAtATime
    <3>. QED
      BY <3>5, <3>6
  <2>. QED
    BY <2>4, <2>5
<1>7. CASE \E c \in Slots : Chat!AgentAnswers(c) \/ Chat!AgentFails(c)
  <2>1. PICK c \in Slots : Chat!AgentAnswers(c) \/ Chat!AgentFails(c)
    BY <1>7
  <2>2. PICK s \in {"completed", "failed"}, v \in {"send", "error"} :
          /\ Chat!TurnIs(c, s) /\ pc' = [pc EXCEPT ![c] = v] /\ pc[c] = "run"
          /\ UNCHANGED <<active, keyless>>
          /\ \/ s = "completed" /\ completions' = [completions EXCEPT ![active[c]] = @ + 1]
             \/ s = "failed" /\ completions' = completions
    BY <2>1 DEF Chat!AgentAnswers, Chat!AgentFails, Chat!history
  <2>3. /\ active[c] \in Chat!Messages
        /\ keyed' \in [Chat!Messages -> Chat!Statuses]
        /\ retried' \in [Chat!Messages -> Chat!Statuses]
        /\ \A m \in Chat!Messages : m # active[c] => keyed'[m] = keyed[m] /\ retried'[m] = retried[m]
        /\ \/ keyed'[active[c]] = s /\ keyed[active[c]] = "running" /\ retried'[active[c]] = "none"
           \/ keyed'[active[c]] = keyed[active[c]] /\ keyed[active[c]] \in {"failed", "canceled"}
    BY <2>2, TurnMoves
  <2>4. /\ pc' \in [Slots -> {"none", "begin", "run", "asks", "send", "error", "clear"}]
        /\ pc'[c] = v /\ \A d \in Slots : d # c => pc'[d] = pc[d]
    BY <2>2 DEF TurnsInv
  <2>5. \A d \in Slots : pc'[d] \notin {"run", "asks"}
    BY <2>2, <2>4 DEF TurnsInv, Chat!OneTurnAtATime
  <2>6. \A d \in Slots : pc'[d] # "none" <=> active'[d] # 0
    BY <2>2, <2>4 DEF TurnsInv
  <2>7. /\ completions' \in [Chat!Messages -> Nat]
        /\ \A m \in Chat!Messages : m # active[c] => completions'[m] = completions[m]
        /\ s = "completed" => completions'[active[c]] = completions[active[c]] + 1
        /\ s = "failed" => completions'[active[c]] = completions[active[c]]
    BY <2>2, <2>3 DEF TurnsInv
  <2>8. \A m \in Chat!Messages :
          /\ keyed'[m] \in {"none", "running"} => completions'[m] = 0 /\ retried'[m] = "none"
          /\ keyed'[m] = "completed" => completions'[m] = 1 /\ retried'[m] = "none"
    BY <2>3, <2>7 DEF TurnsInv
  <2>. QED
    BY <2>2, <2>3, <2>4, <2>5, <2>6, <2>7, <2>8 DEF TurnsInv, Chat!OneTurnAtATime
<1>8. CASE \E c \in Slots : Chat!AgentCanceled(c)
  BY <1>8, TaskEnds DEF Chat!AgentCanceled, Chat!Ends
<1>9. CASE \E c \in Slots : Chat!Asks(c) \/ Chat!AskEnds(c)
  <2>1. PICK c \in Slots : Chat!Asks(c) \/ Chat!AskEnds(c)
    BY <1>9
  <2>2. UNCHANGED <<keyed, retried, completions, active, keyless>> /\ pc[c] \in {"run", "asks"}
    BY <2>1 DEF Chat!Asks, Chat!AskEnds, Chat!runtime, Chat!history
  <2>3. pc' = pc \/ \E v \in {"run", "asks"} : pc' = [pc EXCEPT ![c] = v]
    BY <2>1 DEF Chat!Asks, Chat!AskEnds
  <2>. QED
    BY <1>1, <1>2, <2>2, <2>3
<1>10. CASE \E c \in Slots : Chat!SendsAnswer(c)
  <2>1. PICK c \in Slots : Chat!SendsAnswer(c)
    BY <1>10
  <2>2. UNCHANGED <<keyed, retried, completions>> /\ pc[c] = "send"
    BY <2>1 DEF Chat!SendsAnswer, Chat!runtime
  <2>3. CASE Chat!Ends(c, "completed")
    BY <2>2, <2>3, TaskEnds DEF Chat!Ends
  <2>4. CASE pc' = [pc EXCEPT ![c] = "error"] /\ UNCHANGED <<active, keyless>>
    BY <1>2, <2>2, <2>4
  <2>. QED
    BY <2>1, <2>3, <2>4 DEF Chat!SendsAnswer
<1>11. CASE \E c \in Slots : Chat!SendsError(c)
  BY <1>11, TaskEnds DEF Chat!SendsError, Chat!Ends, Chat!runtime
<1>12. CASE \E c \in Slots : Chat!Unwinds(c)
  <2>1. PICK c \in Slots : Chat!Unwinds(c)
    BY <1>12
  <2>2. /\ active[c] # 0 /\ UNCHANGED completions
        /\ pc[c] \in {"begin", "clear", "run", "asks", "send", "error"}
    BY <2>1 DEF Chat!Unwinds, TurnsInv
  <2>3. /\ active' = [active EXCEPT ![c] = 0] /\ pc' = [pc EXCEPT ![c] = "none"]
        /\ keyless' = keyless \/ keyless' = [keyless EXCEPT ![c] = FALSE]
        /\ \/ UNCHANGED <<keyed, retried>>
           \/ pc[c] \in {"run", "asks"} /\ Chat!TurnIs(c, "canceled")
    <3>1. CASE pc[c] \in {"begin", "clear"}
      BY <2>1, <3>1 DEF Chat!Unwinds, Chat!Leaves, Chat!runtime
    <3>2. CASE pc[c] \in {"run", "asks"}
      BY <2>1, <3>2 DEF Chat!Unwinds, Chat!Ends, Chat!runtime
    <3>3. CASE pc[c] = "send"
      BY <2>1, <3>3 DEF Chat!Unwinds, Chat!Ends, Chat!runtime
    <3>4. CASE pc[c] = "error"
      BY <2>1, <3>4 DEF Chat!Unwinds, Chat!Ends, Chat!runtime
    <3>. QED
      BY <2>2, <3>1, <3>2, <3>3, <3>4
  <2>. QED
    BY <2>2, <2>3, TaskEnds
<1>13. CASE Chat!Crash
  <2>1. /\ active' = [c \in Slots |-> 0] /\ pc' = [c \in Slots |-> "none"]
        /\ keyless' = [c \in Slots |-> FALSE] /\ completions' = completions
        /\ keyed' = Chat!Recovered(keyed) /\ retried' = Chat!Recovered(retried)
    BY <1>13 DEF Chat!Crash, Chat!history
  <2>2. /\ keyed' \in [Chat!Messages -> Chat!Statuses]
        /\ \A m \in Chat!Messages : keyed'[m] = IF keyed[m] = "running" THEN "failed" ELSE keyed[m]
    BY <2>1 DEF Chat!Recovered, Chat!Statuses, TurnsInv
  <2>3. /\ retried' \in [Chat!Messages -> Chat!Statuses]
        /\ \A m \in Chat!Messages : retried[m] # "running" => retried'[m] = retried[m]
    BY <2>1 DEF Chat!Recovered, Chat!Statuses, TurnsInv
  <2>4. \A m \in Chat!Messages :
          /\ keyed'[m] \in {"none", "running"} => completions'[m] = 0 /\ retried'[m] = "none"
          /\ keyed'[m] = "completed" => completions'[m] = 1 /\ retried'[m] = "none"
    BY <2>1, <2>2, <2>3 DEF TurnsInv
  <2>5. 0 \in 0..MaxMessages
    BY ChatConstants
  <2>6. /\ active' \in [Slots -> 0..MaxMessages] /\ keyless' \in [Slots -> BOOLEAN]
        /\ pc' \in [Slots -> {"none", "begin", "run", "asks", "send", "error", "clear"}]
        /\ \A d \in Slots : pc'[d] = "none" /\ active'[d] = 0
    BY <2>1, <2>5
  <2>. QED
    BY <2>1, <2>2, <2>3, <2>4, <2>6 DEF TurnsInv, Chat!OneTurnAtATime
<1>14. CASE Chat!Posts \/ Chat!Refresh \/ Chat!WorkspaceRemoved
  BY <1>1, <1>14
     DEF Chat!Posts, Chat!Refresh, Chat!WorkspaceRemoved, Chat!runtime, Chat!task, Chat!history
<1>15. CASE Chat!RefreshEnds \/ Chat!Boot
  BY <1>1, <1>15 DEF Chat!RefreshEnds, Chat!Boot, Chat!runtime, Chat!task
<1>16. CASE \E c \in Slots : Chat!Polls(c) \/ Chat!Replies(c) \/ Chat!ReplyFails(c)
                             \/ Chat!Stopped(c)
  BY <1>1, <1>16
     DEF Chat!Polls, Chat!Replies, Chat!ReplyFails, Chat!Stopped, Chat!runtime, Chat!task,
         Chat!history
<1>. QED
  BY <1>3, <1>4, <1>5, <1>6, <1>7, <1>8, <1>9, <1>10, <1>11, <1>12, <1>13, <1>14, <1>15, <1>16
     DEF Chat!Next

(* The hub's and the channels' own state.                                  *)
LEMMA HandsStep == ASSUME ChatInv, Chat!Next PROVE HandsInv'
<1> USE DEF ChatInv
<1> DEFINE HubTyped == /\ enabled \in BOOLEAN /\ up \in BOOLEAN /\ bound \in Slots \cup {Nobody}
                       /\ refreshing \subseteq Slots \cup {Nobody}
           Quiet(d) == /\ state[d] = "off" => pc[d] = "none" /\ asks[d] = "none"
                       /\ state[d] = "run" /\ asks[d] = "open" => pc[d] = "asks"
<1>0. /\ pc \in [Slots -> {"none", "begin", "run", "asks", "send", "error", "clear"}]
      /\ asks \in [Slots -> {"none", "open", "stuck"}]
      /\ state \in [Slots -> {"off", "run", "stopping"}]
      /\ handling \in [Slots -> 0..MaxMessages] /\ queue \in [Slots -> Seq(Chat!Messages)]
      /\ \A d \in Slots : Quiet(d) /\ Len(queue[d]) <= MaxQueue
      /\ 0 \in 0..MaxMessages /\ HubTyped
  BY ChatConstants DEF TurnsInv, HandsInv
<1>1. ASSUME UNCHANGED Chat!hub, UNCHANGED <<state, queue, handling>>,
             NEW c \in Slots,
             NEW v \in {"none", "begin", "run", "asks", "send", "error", "clear"},
             NEW a \in {"none", "open", "stuck"},
             pc' = [pc EXCEPT ![c] = v], asks' = [asks EXCEPT ![c] = a],
             \/ state[c] = "run" /\ (a = "open" => v = "asks")
             \/ state[c] = "stopping"
      PROVE  HandsInv'
  <2>1. pc'[c] = v /\ asks'[c] = a /\ \A d \in Slots \ {c} : pc'[d] = pc[d] /\ asks'[d] = asks[d]
    BY <1>0, <1>1
  <2>2. asks' \in [Slots -> {"none", "open", "stuck"}]
    BY <1>0, <1>1
  <2>3. \A d \in Slots : Quiet(d)'
    BY <1>0, <1>1, <2>1
  <2>. QED
    BY <1>0, <1>1, <2>2, <2>3 DEF HandsInv, Chat!hub
<1>2. ASSUME UNCHANGED <<state, pc, asks>>, HubTyped',
             queue' \in [Slots -> Seq(Chat!Messages)], \A c \in Slots : Len(queue'[c]) <= MaxQueue,
             handling' \in [Slots -> 0..MaxMessages]
      PROVE  HandsInv'
  <2>1. \A d \in Slots : Quiet(d)'
    BY <1>0, <1>2
  <2>. QED
    BY <1>0, <1>2, <2>1 DEF HandsInv
<1>3. CASE \E c \in Slots : Chat!Claims(c)
  <2>1. PICK c \in Slots : Chat!Claims(c)
    BY <1>3
  <2> DEFINE m == Chat!Min(Chat!Pending)
  <2>2. m \in Chat!Messages /\ m \in 0..MaxMessages
    BY <2>1, OldestPending, ChatConstants DEF Chat!Claims
  <2>3. UNCHANGED Chat!hub /\ UNCHANGED state /\ state[c] = "run" /\ Len(queue[c]) < MaxQueue
    BY <2>1 DEF Chat!Claims
  <2> HIDE DEF m
  <2>4. CASE queue' = [queue EXCEPT ![c] = Append(@, m)]
             /\ UNCHANGED <<handling, asks, pc>>
    <3>1. Append(queue[c], m) \in Seq(Chat!Messages) /\ Len(Append(queue[c], m)) <= MaxQueue
      BY <1>0, <2>2, <2>3, ChatConstants
    <3>2. /\ queue' \in [Slots -> Seq(Chat!Messages)]
          /\ \A d \in Slots : Len(queue'[d]) <= MaxQueue
      BY <1>0, <2>4, <3>1
    <3>. QED
      BY <1>0, <1>2, <2>3, <2>4, <3>2 DEF Chat!hub
  <2>5. CASE handling' = [handling EXCEPT ![c] = m] /\ UNCHANGED queue /\ UNCHANGED <<asks, pc>>
    <3>1. handling' \in [Slots -> 0..MaxMessages]
      BY <1>0, <2>2, <2>5
    <3>. QED
      BY <1>0, <1>2, <2>3, <2>5, <3>1 DEF Chat!hub
  <2>6. CASE handling' = [handling EXCEPT ![c] = m] /\ UNCHANGED queue
             /\ asks' = [asks EXCEPT ![c] = "none"] /\ pc' = [pc EXCEPT ![c] = "run"]
    <3>1. handling' \in [Slots -> 0..MaxMessages]
      BY <1>0, <2>2, <2>6
    <3>2. asks' \in [Slots -> {"none", "open", "stuck"}]
      BY <1>0, <2>6
    <3>3. \A d \in Slots : Quiet(d)'
      BY <1>0, <2>3, <2>6
    <3>. QED
      BY <1>0, <2>3, <2>6, <3>1, <3>2, <3>3 DEF HandsInv, Chat!hub
  <2>. QED
    BY <2>1, <2>4, <2>5, <2>6 DEF Chat!Claims, Chat!Obeys, m
<1>4. CASE \E c \in Slots : Chat!Replies(c)
  <2>1. PICK c \in Slots : Chat!Replies(c)
    BY <1>4
  <2>2. handling' \in [Slots -> 0..MaxMessages]
    BY <1>0, <2>1 DEF Chat!Replies
  <2>. QED
    BY <1>0, <1>2, <2>1, <2>2 DEF Chat!Replies, Chat!hub, Chat!task
<1>5. CASE \E c \in Slots : Chat!ReplyFails(c)
  <2>1. PICK c \in Slots : Chat!ReplyFails(c)
    BY <1>5
  <2>2. state' = [state EXCEPT ![c] = "stopping"] /\ UNCHANGED <<pc, asks, queue, handling>>
        /\ UNCHANGED Chat!hub
    BY <2>1 DEF Chat!ReplyFails, Chat!task
  <2>3. state' \in [Slots -> {"off", "run", "stopping"}] /\ \A d \in Slots : Quiet(d)'
    BY <1>0, <2>2
  <2>. QED
    BY <1>0, <2>2, <2>3 DEF HandsInv, Chat!hub
<1>6. CASE \E c \in Slots : Chat!StartsNext(c)
  <2>1. PICK c \in Slots : Chat!StartsNext(c)
    BY <1>6
  <2>2. PICK v \in {"clear", "begin"} : pc' = [pc EXCEPT ![c] = v]
    BY <2>1 DEF Chat!StartsNext
  <2>3. /\ UNCHANGED Chat!hub /\ UNCHANGED <<state, handling, asks>>
        /\ queue' = [queue EXCEPT ![c] = Tail(@)] /\ queue[c] # << >>
        /\ state[c] = "run" /\ pc[c] = "none"
    BY <2>1 DEF Chat!StartsNext, TurnsInv
  <2>4. Tail(queue[c]) \in Seq(Chat!Messages) /\ Len(Tail(queue[c])) <= MaxQueue
    <3>1. queue[c] \in Seq(Chat!Messages) /\ Len(queue[c]) <= MaxQueue
      BY <1>0
    <3>2. Tail(queue[c]) \in Seq(Chat!Messages) /\ Len(Tail(queue[c])) <= Len(queue[c])
      BY <2>3, <3>1, TailHolds
    <3>. QED
      BY <3>1, <3>2, ChatConstants
  <2>5. queue' \in [Slots -> Seq(Chat!Messages)] /\ \A d \in Slots : Len(queue'[d]) <= MaxQueue
    BY <1>0, <2>3, <2>4
  <2>6. \A d \in Slots : Quiet(d)'
    BY <1>0, <2>2, <2>3
  <2>. QED
    BY <1>0, <2>3, <2>5, <2>6 DEF HandsInv, Chat!hub
<1>7. ASSUME NEW c \in Slots, state[c] # "off",
             Chat!Clears(c) \/ Chat!Reserves(c) \/ Chat!AgentAnswers(c) \/ Chat!AgentFails(c)
             \/ Chat!AgentCanceled(c) \/ Chat!SendsAnswer(c) \/ Chat!SendsError(c)
             \/ Chat!Unwinds(c)
      PROVE  HandsInv'
  <2>1. /\ UNCHANGED Chat!hub /\ UNCHANGED <<state, queue, handling, asks>>
        /\ pc[c] # "asks" \/ state[c] = "stopping"
    <3>1. CASE Chat!Clears(c) \/ Chat!Reserves(c) \/ Chat!AgentAnswers(c) \/ Chat!AgentFails(c)
      BY <3>1 DEF Chat!Clears, Chat!Reserves, Chat!AgentAnswers, Chat!AgentFails, Chat!channel
    <3>2. CASE Chat!AgentCanceled(c) \/ Chat!SendsAnswer(c) \/ Chat!SendsError(c)
               \/ Chat!Unwinds(c)
      BY <3>2 DEF Chat!AgentCanceled, Chat!SendsAnswer, Chat!SendsError, Chat!Unwinds, Chat!channel
    <3>. QED
      BY <1>7, <3>1, <3>2
  <2>2. \E v \in {"none", "run", "send", "error"} : pc' = [pc EXCEPT ![c] = v]
    <3>1. CASE Chat!Clears(c) \/ Chat!Reserves(c) \/ Chat!AgentAnswers(c) \/ Chat!AgentFails(c)
      BY <3>1 DEF Chat!Clears, Chat!Reserves, Chat!AgentAnswers, Chat!AgentFails, Chat!Ends,
                  Chat!Leaves
    <3>2. CASE Chat!AgentCanceled(c) \/ Chat!SendsAnswer(c) \/ Chat!SendsError(c)
      BY <3>2 DEF Chat!AgentCanceled, Chat!SendsAnswer, Chat!SendsError, Chat!Ends
    <3>3. CASE Chat!Unwinds(c)
      <4>1. pc[c] \in {"begin", "clear", "run", "asks", "send", "error"}
        BY <3>3 DEF Chat!Unwinds, TurnsInv
      <4>2. CASE pc[c] \in {"begin", "clear"}
        BY <3>3, <4>2 DEF Chat!Unwinds, Chat!Leaves
      <4>3. CASE pc[c] \in {"run", "asks"}
        BY <3>3, <4>3 DEF Chat!Unwinds, Chat!Ends
      <4>4. CASE pc[c] = "send"
        BY <3>3, <4>4 DEF Chat!Unwinds, Chat!Ends
      <4>5. CASE pc[c] = "error"
        BY <3>3, <4>5 DEF Chat!Unwinds, Chat!Ends
      <4>. QED
        BY <4>1, <4>2, <4>3, <4>4, <4>5
    <3>. QED
      BY <1>7, <3>1, <3>2, <3>3
  <2>3. state[c] = "run" => asks[c] # "open"
    BY <1>0, <2>1
  <2>4. asks' = [asks EXCEPT ![c] = asks[c]] /\ asks[c] \in {"none", "open", "stuck"}
    BY <1>0, <2>1
  <2>5. state[c] \in {"run", "stopping"}
    BY <1>0, <1>7
  <2>. QED
    BY <1>1, <2>1, <2>2, <2>3, <2>4, <2>5
<1>8. CASE \E c \in Slots :
             Chat!Clears(c) \/ Chat!Reserves(c) \/ Chat!AgentAnswers(c) \/ Chat!AgentFails(c)
             \/ Chat!AgentCanceled(c) \/ Chat!SendsAnswer(c) \/ Chat!SendsError(c)
             \/ Chat!Unwinds(c)
  <2>1. PICK c \in Slots :
             Chat!Clears(c) \/ Chat!Reserves(c) \/ Chat!AgentAnswers(c) \/ Chat!AgentFails(c)
             \/ Chat!AgentCanceled(c) \/ Chat!SendsAnswer(c) \/ Chat!SendsError(c)
             \/ Chat!Unwinds(c)
    BY <1>8
  <2>2. state[c] # "off"
    BY <2>1 DEF Chat!Clears, Chat!Reserves, Chat!AgentAnswers, Chat!AgentFails,
         Chat!AgentCanceled, Chat!SendsAnswer, Chat!SendsError, Chat!Unwinds
  <2>. QED
    BY <1>7, <2>1, <2>2
<1>9. CASE \E c \in Slots : Chat!Asks(c) \/ Chat!AskEnds(c)
  <2>1. PICK c \in Slots : Chat!Asks(c) \/ Chat!AskEnds(c)
    BY <1>9
  <2>2. UNCHANGED Chat!hub /\ UNCHANGED <<state, queue, handling>> /\ state[c] = "run"
    BY <2>1 DEF Chat!Asks, Chat!AskEnds
  <2>3. PICK v \in {"run", "asks"}, a \in {"none", "open", "stuck"} :
          /\ pc' = [pc EXCEPT ![c] = v] /\ asks' = [asks EXCEPT ![c] = a]
          /\ a = "open" => v = "asks"
    <3>1. CASE pc' = pc
      BY <1>0, <2>1, <3>1 DEF Chat!Asks, Chat!AskEnds
    <3>2. CASE pc' # pc
      BY <2>1, <3>2 DEF Chat!Asks, Chat!AskEnds
    <3>. QED
      BY <3>1, <3>2
  <2>. QED
    BY <1>1, <2>2, <2>3
<1>10. CASE \E c \in Slots : Chat!Stopped(c)
  <2>1. PICK c \in Slots : Chat!Stopped(c)
    BY <1>10
  <2>2. /\ state' = [state EXCEPT ![c] = "off"] /\ queue' = [queue EXCEPT ![c] = << >>]
        /\ handling' = [handling EXCEPT ![c] = 0] /\ asks' = [asks EXCEPT ![c] = "none"]
        /\ pc' = pc /\ pc[c] = "none" /\ HubTyped'
    BY <1>0, <2>1 DEF Chat!Stopped, Chat!Blank, Chat!task, TurnsInv
  <2>3. << >> \in Seq(Chat!Messages) /\ Len(<< >>) <= MaxQueue
    BY ChatConstants
  <2>4. queue' \in [Slots -> Seq(Chat!Messages)] /\ \A d \in Slots : Len(queue'[d]) <= MaxQueue
    BY <1>0, <2>2, <2>3
  <2>5. /\ state' \in [Slots -> {"off", "run", "stopping"}]
        /\ handling' \in [Slots -> 0..MaxMessages] /\ asks' \in [Slots -> {"none", "open", "stuck"}]
        /\ \A d \in Slots : Quiet(d)'
    BY <1>0, <2>2
  <2>. QED
    BY <2>2, <2>4, <2>5 DEF HandsInv
<1>11. CASE Chat!Refresh
  <2>1. /\ UNCHANGED <<pc, asks, queue, handling>> /\ HubTyped'
        /\ \/ state' = state
           \/ state' = [state EXCEPT ![bound] = "stopping"]
    BY <1>0, <1>11 DEF Chat!Refresh, Chat!task
  <2>2. state' \in [Slots -> {"off", "run", "stopping"}] /\ \A d \in Slots : Quiet(d)'
    BY <1>0, <2>1
  <2>. QED
    BY <1>0, <2>1, <2>2 DEF HandsInv
<1>12. CASE Chat!RefreshEnds \/ Chat!Boot
  <2>1. /\ UNCHANGED <<pc, asks, queue, handling>> /\ HubTyped'
        /\ \/ state' = state
           \/ \E c \in Slots : state[c] = "off" /\ state' = [state EXCEPT ![c] = "run"]
    <3>1. CASE Chat!RefreshEnds
      BY <1>0, <3>1 DEF Chat!RefreshEnds, Chat!Starts, Chat!task
    <3>2. CASE Chat!Boot
      BY <1>0, <3>2 DEF Chat!Boot, Chat!Starts, Chat!task
    <3>. QED
      BY <1>12, <3>1, <3>2
  <2>2. state' \in [Slots -> {"off", "run", "stopping"}] /\ \A d \in Slots : Quiet(d)'
    BY <1>0, <2>1
  <2>. QED
    BY <1>0, <2>1, <2>2 DEF HandsInv
<1>13. CASE Chat!Crash
  <2>1. << >> \in Seq(Chat!Messages) /\ Len(<< >>) <= MaxQueue
    BY ChatConstants
  <2>2. /\ queue' \in [Slots -> Seq(Chat!Messages)]
        /\ \A d \in Slots : Len(queue'[d]) <= MaxQueue
    BY <1>13, <2>1 DEF Chat!Crash
  <2>3. /\ state' \in [Slots -> {"off", "run", "stopping"}]
        /\ handling' \in [Slots -> 0..MaxMessages] /\ asks' \in [Slots -> {"none", "open", "stuck"}]
        /\ \A d \in Slots : Quiet(d)'
    BY <1>0, <1>13 DEF Chat!Crash
  <2>4. HubTyped'
    BY <1>0, <1>13 DEF Chat!Crash
  <2>. QED
    BY <2>2, <2>3, <2>4 DEF HandsInv
<1>14. CASE Chat!Posts \/ Chat!WorkspaceRemoved \/ \E c \in Slots : Chat!Polls(c)
  <2>1. UNCHANGED <<state, pc, asks, queue, handling>> /\ HubTyped'
    BY <1>0, <1>14
       DEF Chat!Posts, Chat!WorkspaceRemoved, Chat!Polls, Chat!task, Chat!channel, Chat!hub
  <2>. QED
    BY <1>0, <1>2, <2>1
<1>. QED
  BY <1>3, <1>4, <1>5, <1>6, <1>8, <1>9, <1>10, <1>11, <1>12, <1>13, <1>14 DEF Chat!Next

(* What is held stays held, or is given up for a reason.                   *)
InHands(m) ==
    \E c \in Slots : \/ m \in {handling[c], active[c]}
                     \/ \E i \in DOMAIN queue[c] : queue[c][i] = m

(* Messages stay held when those at work stay in hands, or are given up.   *)
LEMMA HeldKeeps ==
    ASSUME Chat!ClaimedIsHeld,
           bound' # Nobody => bound # Nobody,
           \A m \in Chat!Messages :
             inbox'[m] = "running" =>
               \/ m \in abandoned' \/ InHands(m)'
               \/ /\ inbox[m] = "running"
                  /\ m \in abandoned => m \in abandoned'
                  /\ InHands(m) => InHands(m)' \/ m \in abandoned'
    PROVE  Chat!ClaimedIsHeld'
BY DEF Chat!ClaimedIsHeld, InHands

(* A claimed message is in somebody's hands.                               *)
LEMMA HeldStep == ASSUME ChatInv, Chat!Next PROVE Chat!ClaimedIsHeld'
<1> USE DEF ChatInv
<1>0. /\ active \in [Slots -> 0..MaxMessages] /\ handling \in [Slots -> 0..MaxMessages]
      /\ queue \in [Slots -> Seq(Chat!Messages)]
      /\ inbox \in [Chat!Messages -> {"absent", "pending"} \cup (Chat!Statuses \ {"none"})]
      /\ 0 \notin Chat!Messages
  BY ChatConstants DEF StoreInv, TurnsInv, HandsInv
<1>1. ASSUME UNCHANGED <<bound, inbox, active, handling, queue, abandoned>>
      PROVE  Chat!ClaimedIsHeld'
  BY <1>1 DEF Chat!ClaimedIsHeld
<1>2. CASE \E c \in Slots : Chat!Polls(c)
  <2>1. PICK c \in Slots : Chat!Polls(c)
    BY <1>2
  <2>2. UNCHANGED <<bound, active, handling, queue, abandoned>>
        /\ \A m \in Chat!Messages : inbox'[m] = "running" => inbox[m] = "running"
    BY <2>1 DEF Chat!Polls, Chat!Saved, Chat!hub, Chat!task, Chat!channel, Chat!history
  <2>. QED
    BY <2>2 DEF Chat!ClaimedIsHeld
<1>3. CASE \E c \in Slots : Chat!Claims(c)
  <2>1. PICK c \in Slots : Chat!Claims(c)
    BY <1>3
  <2>2. PICK n \in Chat!Messages :
          /\ inbox' = [inbox EXCEPT ![n] = "running"]
          /\ \/ queue' = [queue EXCEPT ![c] = Append(@, n)] /\ handling' = handling
             \/ handling' = [handling EXCEPT ![c] = n] /\ queue' = queue
    BY <2>1, OldestPending DEF Chat!Claims, Chat!Finish
  <2>3. UNCHANGED <<bound, active, abandoned>> /\ handling[c] = 0
    BY <2>1 DEF Chat!Claims, Chat!hub, Chat!history
  <2>5. \A m \in Chat!Messages : inbox'[m] = "running" => m = n \/ inbox[m] = "running"
    BY <1>0, <2>2
  <2>6. CASE queue' = [queue EXCEPT ![c] = Append(@, n)] /\ handling' = handling
    <3>1. queue'[c] = Append(queue[c], n) /\ \A d \in Slots \ {c} : queue'[d] = queue[d]
      BY <1>0, <2>6
    <3>2. queue[c] \in Seq(Chat!Messages)
      BY <1>0
    <3>3. /\ \A i \in DOMAIN queue[c] : i \in DOMAIN queue'[c] /\ queue'[c][i] = queue[c][i]
          /\ Len(queue[c]) + 1 \in DOMAIN queue'[c] /\ queue'[c][Len(queue[c]) + 1] = n
      BY <2>2, <3>1, <3>2, AppendHolds
    <3>4. InHands(n)'
      BY <3>3 DEF InHands
    <3>5. \A m \in Chat!Messages : InHands(m) => InHands(m)'
      BY <2>3, <2>6, <3>1, <3>3 DEF InHands
    <3>. QED
      BY <2>3, <2>5, <3>4, <3>5, HeldKeeps
  <2>7. CASE handling' = [handling EXCEPT ![c] = n] /\ queue' = queue
    <3>1. handling'[c] = n /\ \A d \in Slots \ {c} : handling'[d] = handling[d]
      BY <1>0, <2>7
    <3>2. InHands(n)'
      BY <3>1 DEF InHands
    <3>3. \A m \in Chat!Messages : InHands(m) => InHands(m)'
      BY <1>0, <2>3, <2>7, <3>1 DEF InHands
    <3>. QED
      BY <2>3, <2>5, <3>2, <3>3, HeldKeeps
  <2>. QED
    BY <2>2, <2>6, <2>7
<1>4. CASE \E c \in Slots : Chat!Replies(c)
  <2>1. PICK c \in Slots : Chat!Replies(c)
    BY <1>4
  <2>2. /\ UNCHANGED <<bound, active, abandoned, queue>>
        /\ inbox' = [inbox EXCEPT ![handling[c]] = "completed"]
        /\ handling' = [handling EXCEPT ![c] = 0]
    BY <2>1 DEF Chat!Replies, Chat!Finish, Chat!hub, Chat!history, Chat!task
  <2>3. \A m \in Chat!Messages : inbox'[m] = "running" => inbox[m] = "running" /\ m # handling[c]
    BY <1>0, <2>2
  <2>4. \A d \in Slots \ {c} : handling'[d] = handling[d]
    BY <1>0, <2>2
  <2>5. \A m \in Chat!Messages : m # handling[c] /\ InHands(m) => InHands(m)'
    BY <2>2, <2>4 DEF InHands
  <2>. QED
    BY <2>2, <2>3, <2>5, HeldKeeps
<1>5. CASE \E c \in Slots : Chat!ReplyFails(c)
  <2>1. UNCHANGED <<bound, inbox, active, handling, queue>> /\ abandoned \subseteq abandoned'
    BY <1>5 DEF Chat!ReplyFails, Chat!store, Chat!hub, Chat!task
  <2>. QED
    BY <2>1 DEF Chat!ClaimedIsHeld
<1>6. CASE \E c \in Slots : Chat!StartsNext(c)
  <2>1. PICK c \in Slots : Chat!StartsNext(c)
    BY <1>6
  <2>2. /\ UNCHANGED <<bound, inbox, handling, abandoned>> /\ active[c] = 0 /\ queue[c] # << >>
        /\ active' = [active EXCEPT ![c] = Head(queue[c])]
        /\ queue' = [queue EXCEPT ![c] = Tail(@)]
    BY <2>1 DEF Chat!StartsNext, Chat!store, Chat!hub, Chat!history
  <2>3. queue[c] \in Seq(Chat!Messages)
    BY <1>0
  <2>4. \A i \in DOMAIN queue[c] : \/ queue[c][i] = Head(queue[c])
                                   \/ /\ i - 1 \in DOMAIN Tail(queue[c])
                                      /\ Tail(queue[c])[i - 1] = queue[c][i]
    BY <2>2, <2>3, TailHolds
  <2>5. /\ active'[c] = Head(queue[c]) /\ queue'[c] = Tail(queue[c])
        /\ \A d \in Slots \ {c} : active'[d] = active[d] /\ queue'[d] = queue[d]
    BY <1>0, <2>2
  <2>6. ASSUME NEW m \in Chat!Messages, NEW d \in Slots,
               \/ m \in {handling[d], active[d]}
               \/ \E i \in DOMAIN queue[d] : queue[d][i] = m
        PROVE  \/ m \in {handling'[d], active'[d]}
               \/ \E i \in DOMAIN queue'[d] : queue'[d][i] = m
    <3>1. CASE d # c
      BY <2>2, <2>5, <2>6, <3>1
    <3>2. CASE d = c /\ m \in {handling[d], active[d]}
      BY <1>0, <2>2, <3>2
    <3>3. CASE d = c /\ \E i \in DOMAIN queue[d] : queue[d][i] = m
      BY <2>4, <2>5, <3>3
    <3>. QED
      BY <2>6, <3>1, <3>2, <3>3
  <2>7. \A m \in Chat!Messages : InHands(m) => InHands(m)'
    BY <2>6 DEF InHands
  <2>. QED
    BY <2>2, <2>7, HeldKeeps
<1>7. ASSUME NEW c \in Slots, UNCHANGED <<bound, handling, queue>>,
             Chat!Leaves(c) \/ \E s \in {"completed", "failed", "canceled"} : Chat!Ends(c, s)
      PROVE  Chat!ClaimedIsHeld'
  <2>1. active' = [active EXCEPT ![c] = 0]
    BY <1>7 DEF Chat!Leaves, Chat!Ends
  <2>2. \A d \in Slots \ {c} : active'[d] = active[d]
    BY <1>0, <2>1
  <2>3. \A m \in Chat!Messages : m # active[c] /\ InHands(m) => InHands(m)'
    BY <1>7, <2>2 DEF InHands
  <2>4. CASE Chat!Leaves(c)
    <3>1. inbox' = inbox /\ abandoned' = abandoned \cup {active[c]}
      BY <2>4 DEF Chat!Leaves
    <3>. QED
      BY <1>7, <2>3, <3>1, HeldKeeps
  <2>5. CASE \E s \in {"completed", "failed", "canceled"} : Chat!Ends(c, s)
    <3>1. PICK s \in {"completed", "failed", "canceled"} :
            inbox' = [inbox EXCEPT ![active[c]] = s] /\ abandoned' = abandoned
      BY <2>5 DEF Chat!Ends, Chat!Finish
    <3>2. \A m \in Chat!Messages : inbox'[m] = "running" => inbox[m] = "running" /\ m # active[c]
      BY <1>0, <3>1
    <3>. QED
      BY <1>7, <2>3, <3>1, <3>2, HeldKeeps
  <2>. QED
    BY <1>7, <2>4, <2>5
<1>8. CASE \E c \in Slots : Chat!Clears(c) \/ Chat!AgentCanceled(c) \/ Chat!SendsError(c)
  <2>1. PICK c \in Slots : Chat!Clears(c) \/ Chat!AgentCanceled(c) \/ Chat!SendsError(c)
    BY <1>8
  <2>2. UNCHANGED <<bound, handling, queue>>
    BY <2>1 DEF Chat!Clears, Chat!AgentCanceled, Chat!SendsError, Chat!hub, Chat!channel
  <2>3. Chat!Leaves(c) \/ \E s \in {"completed", "failed", "canceled"} : Chat!Ends(c, s)
    BY <2>1 DEF Chat!Clears, Chat!AgentCanceled, Chat!SendsError
  <2>. QED
    BY <1>7, <2>2, <2>3
<1>9. CASE \E c \in Slots : Chat!SendsAnswer(c)
  <2>1. PICK c \in Slots : Chat!SendsAnswer(c)
    BY <1>9
  <2>2. UNCHANGED <<bound, handling, queue>>
    BY <2>1 DEF Chat!SendsAnswer, Chat!hub, Chat!channel
  <2>3. Chat!Ends(c, "completed") \/ UNCHANGED <<inbox, active, abandoned>>
    BY <2>1 DEF Chat!SendsAnswer
  <2>. QED
    BY <1>1, <1>7, <2>2, <2>3
<1>10. CASE \E c \in Slots : Chat!Unwinds(c)
  <2>1. PICK c \in Slots : Chat!Unwinds(c)
    BY <1>10
  <2>2. UNCHANGED <<bound, handling, queue>>
    BY <2>1 DEF Chat!Unwinds, Chat!hub, Chat!channel
  <2>3. Chat!Leaves(c) \/ \E s \in {"completed", "failed", "canceled"} : Chat!Ends(c, s)
    <3>1. pc[c] \in {"begin", "clear", "run", "asks", "send", "error"}
      BY <2>1 DEF Chat!Unwinds, TurnsInv
    <3>2. CASE pc[c] \in {"begin", "clear"}
      BY <2>1, <3>2 DEF Chat!Unwinds
    <3>3. CASE pc[c] \in {"run", "asks"}
      BY <2>1, <3>3 DEF Chat!Unwinds
    <3>4. CASE pc[c] = "send"
      BY <2>1, <3>4 DEF Chat!Unwinds
    <3>5. CASE pc[c] = "error"
      BY <2>1, <3>5 DEF Chat!Unwinds
    <3>. QED
      BY <3>1, <3>2, <3>3, <3>4, <3>5
  <2>. QED
    BY <1>7, <2>2, <2>3
<1>11. CASE \E c \in Slots : Chat!Stopped(c)
  <2>1. PICK c \in Slots : Chat!Stopped(c)
    BY <1>11
  <2>2. /\ inbox' = inbox /\ active' = active /\ (bound' # Nobody => bound # Nobody)
        /\ queue' = [queue EXCEPT ![c] = << >>] /\ handling' = [handling EXCEPT ![c] = 0]
        /\ abandoned' = abandoned
                          \cup {m \in Chat!Messages : \E i \in DOMAIN queue[c] : queue[c][i] = m}
                          \cup ({handling[c]} \ {0})
    BY <2>1 DEF Chat!Stopped, Chat!Blank, Chat!store, Chat!task
  <2>3. \A d \in Slots \ {c} : queue'[d] = queue[d] /\ handling'[d] = handling[d]
    BY <1>0, <2>2
  <2>4. \A m \in Chat!Messages : InHands(m) => InHands(m)' \/ m \in abandoned'
    BY <1>0, <2>2, <2>3 DEF InHands
  <2>. QED
    BY <2>2, <2>4, HeldKeeps
<1>12. CASE Chat!RefreshEnds \/ Chat!Boot
  <2>1. UNCHANGED <<active, handling, queue>> /\ Chat!Starts
    BY <1>12 DEF Chat!RefreshEnds, Chat!Boot, Chat!task
  <2>2. CASE UNCHANGED <<bound, inbox, abandoned>>
    BY <1>1, <2>1, <2>2
  <2>3. CASE inbox' = Chat!Requeued
    BY <2>3 DEF Chat!Requeued, Chat!ClaimedIsHeld
  <2>. QED
    BY <2>1, <2>2, <2>3 DEF Chat!Starts
<1>13. CASE Chat!Refresh \/ Chat!Crash
  BY <1>13 DEF Chat!Refresh, Chat!Crash, Chat!ClaimedIsHeld
<1>14. CASE Chat!Posts \/ Chat!WorkspaceRemoved
  BY <1>1, <1>14
     DEF Chat!Posts, Chat!WorkspaceRemoved, Chat!store, Chat!hub, Chat!task, Chat!channel,
         Chat!history
<1>15. CASE \E c \in Slots : Chat!Reserves(c) \/ Chat!AgentAnswers(c) \/ Chat!AgentFails(c)
                             \/ Chat!Asks(c) \/ Chat!AskEnds(c)
  BY <1>1, <1>15
     DEF Chat!Reserves, Chat!AgentAnswers, Chat!AgentFails, Chat!Asks, Chat!AskEnds, Chat!store,
         Chat!hub, Chat!channel, Chat!history
<1>. QED
  BY <1>2, <1>3, <1>4, <1>5, <1>6, <1>8, <1>9, <1>10, <1>11, <1>12, <1>13, <1>14, <1>15
     DEF Chat!Next

(* What the service will not send again is stored, a claimed message is in *)
(* somebody's hands, a message whose turn was completed is not run again,  *)
(* and the turns of a thread run one at a time (ChannelStore,              *)
(* WechatChannel._process, WechatHub.refresh).                             *)
THEOREM MessagesKeptHolds == ServerSpec => []MessagesKept
<1> DEFINE Inv == part = "channel" => ChatInv
<1>1. ServerInit => Inv
  BY ChatInit DEF ServerInit
<1>2. Inv /\ [ServerNext]_serverVars => Inv'
  <2> SUFFICES ASSUME part = "channel" => ChatInv, [ServerNext]_serverVars, part' = "channel"
               PROVE  ChatInv'
    OBVIOUS
  <2>1. CASE part = "channel" /\ Chat!Next
    BY <2>1, StoreStep, TurnsStep, HandsStep, HeldStep DEF ChatInv
  <2>2. CASE UNCHANGED <<part, channelVars>>
    BY <2>2 DEF channelVars, ChatInv, StoreInv, TurnsInv, TurnRuns, HandsInv, Chat!NothingLost,
                Chat!OneTurnAtATime, Chat!ClaimedIsHeld
  <2>. QED
    BY <2>1, <2>2 DEF ServerNext, serverVars
<1>3. Inv => MessagesKept
  BY DEF ChatInv, StoreInv, TurnsInv, HandsInv, MessagesKept, Chat!TypeOK, Chat!CompletedRunsOnce
<1>. QED
  BY <1>1, <1>2, <1>3, PTL DEF ServerSpec
-----------------------------------------------------------------------------
(* The events of a thread and who reads them.                              *)

(* The constants.                                                          *)
LEMMA FeedConstants ==
    /\ IsFiniteSet(Clients) /\ Keep \in Nat /\ Keep >= 2 /\ PageCap \in Nat \ {0}
    /\ MaxRows \in Nat \ {0}
BY ServerAssumption DEF Feed!EventFeedAssumption, Feed!IsFiniteSet, IsFiniteSet

(* Size is the same in the module and here.                                *)
LEMMA FeedSame == \A S : Feed!Cardinality(S) = Cardinality(S)
BY DEF Feed!Cardinality, Cardinality, Feed!IsFiniteSet, IsFiniteSet

(* Sets of sequence numbers are finite.                                    *)
LEMMA SmallSets ==
    ASSUME NEW N \in Nat, NEW S \in SUBSET (0..N)
    PROVE  IsFiniteSet(S) /\ Cardinality(S) \in Nat /\ S \subseteq Nat
<1>1. IsFiniteSet(0..N)
  BY FS_Interval
<1>2. IsFiniteSet(S)
  BY <1>1, FS_Subset
<1>. QED
  BY <1>2, FS_CardinalityType

(* The last of some events, and the first.                                 *)
LEMMA MaxFacts ==
    ASSUME NEW N \in Nat, NEW S \in SUBSET (0..N), S # {}
    PROVE  Feed!Max(S) \in S /\ \A y \in S : y <= Feed!Max(S)
<1>1. \E x \in S : \A y \in S : x >= y
  BY GreatestOf
<1>2. Feed!Max(S) \in S /\ \A y \in S : Feed!Max(S) >= y
  BY <1>1 DEF Feed!Max
<1>. QED
  BY <1>2

(* The least number of a set, as Send takes it.                            *)
LEMMA MinFacts ==
    ASSUME NEW S \in SUBSET Nat, S # {}
    PROVE  Feed!Min(S) \in S /\ \A y \in S : Feed!Min(S) <= y
<1>1. \E x \in S : \A y \in S : x =< y
  BY LeastOf
<1>. QED
  BY <1>1 DEF Feed!Min

(* Later events have more events before them.                              *)
Before(S, n) == {m \in S : m < n}

(* A later number has more before it.                                      *)
LEMMA BeforeGrows ==
    ASSUME NEW N \in Nat, NEW S \in SUBSET (0..N), NEW n \in S, NEW m \in S, m < n
    PROVE  /\ Cardinality(Before(S, m)) \in Nat /\ Cardinality(Before(S, n)) \in Nat
           /\ Cardinality(Before(S, m)) < Cardinality(Before(S, n))
<1>1. IsFiniteSet(Before(S, m)) /\ IsFiniteSet(Before(S, n))
      /\ Cardinality(Before(S, m)) \in Nat /\ Cardinality(Before(S, n)) \in Nat
  BY SmallSets DEF Before
<1>2. Before(S, m) \subseteq Before(S, n) /\ m \in Before(S, n) /\ m \notin Before(S, m)
  <2>1. S \subseteq Nat
    OBVIOUS
  <2>2. \A x, y, z \in Nat : x < y /\ y < z => x < z
    OBVIOUS
  <2>3. m \in Nat /\ ~(m < m)
    BY <2>1
  <2>. QED
    BY <2>1, <2>2, <2>3 DEF Before
<1>3. Cardinality(Before(S, m)) <= Cardinality(Before(S, n))
      /\ Cardinality(Before(S, m)) # Cardinality(Before(S, n))
  BY <1>1, <1>2, FS_Subset
<1>. QED
  BY <1>1, <1>3

(* There is the sequence of some events in their order.                    *)
LEMMA InOrderFacts ==
    ASSUME NEW N \in Nat, NEW S \in SUBSET (1..N)
    PROVE  /\ Feed!InOrder(S) \in Seq(1..N)
           /\ \A i, j \in DOMAIN Feed!InOrder(S) :
                i < j => Feed!InOrder(S)[i] < Feed!InOrder(S)[j]
           /\ {Feed!InOrder(S)[i] : i \in DOMAIN Feed!InOrder(S)} = S
<1> DEFINE k == Cardinality(S)
           rank == [n \in S |-> Cardinality(Before(S, n)) + 1]
           Sorted(q) == \A i, j \in 1..k : i < j => q[i] < q[j]
<1>0. S \in SUBSET (0..N)
  OBVIOUS
<1>1. IsFiniteSet(S) /\ k \in Nat /\ S \subseteq Nat
  BY <1>0, SmallSets
<1>2. IsFiniteSet(1..k) /\ Cardinality(1..k) = k
  BY <1>1, FS_Interval
<1>3. \A n \in S : Cardinality(Before(S, n)) \in Nat /\ Cardinality(Before(S, n)) < k
  <2> SUFFICES ASSUME NEW n \in S
               PROVE  Cardinality(Before(S, n)) \in Nat /\ Cardinality(Before(S, n)) < k
    OBVIOUS
  <2>1. Before(S, n) \subseteq S /\ n \notin Before(S, n)
    BY <1>1 DEF Before
  <2>2. Cardinality(Before(S, n)) <= k /\ Cardinality(Before(S, n)) # k
    BY <1>1, <2>1, FS_Subset
  <2>3. Cardinality(Before(S, n)) \in Nat
    BY <1>0, <2>1, SmallSets
  <2>. QED
    BY <1>1, <2>2, <2>3
<1>4. rank \in [S -> 1..k]
  BY <1>1, <1>3
<1>5. \A m, n \in S : m < n => rank[m] < rank[n]
  <2> SUFFICES ASSUME NEW m \in S, NEW n \in S, m < n PROVE rank[m] < rank[n]
    OBVIOUS
  <2>1. /\ Cardinality(Before(S, m)) \in Nat /\ Cardinality(Before(S, n)) \in Nat
        /\ Cardinality(Before(S, m)) < Cardinality(Before(S, n))
    BY <1>0, BeforeGrows
  <2>. QED
    BY <2>1
<1> HIDE DEF k, rank
<1>6. \A m, n \in S : rank[m] = rank[n] => m = n
  <2> SUFFICES ASSUME NEW m \in S, NEW n \in S, rank[m] = rank[n], m # n PROVE FALSE
    OBVIOUS
  <2>1. rank[m] \in Nat /\ rank[n] \in Nat /\ (m < n \/ n < m)
    BY <1>1, <1>4
  <2>. QED
    BY <1>5, <2>1
<1>7. \A i \in 1..k : \E n \in S : rank[n] = i
  <2>1. rank \in Injection(S, 1..k)
    BY <1>4, <1>6 DEF Injection, IsInjective
  <2>2. Cardinality(S) = Cardinality(1..k)
    BY <1>2 DEF k
  <2>3. rank \in Surjection(S, 1..k)
    BY <1>2, <2>1, <2>2, FS_Injection
  <2>. QED
    BY <2>3 DEF Surjection
<1>8. \E q \in [1..k -> S] : Sorted(q)
  <2> DEFINE q == [i \in 1..k |-> CHOOSE n \in S : rank[n] = i]
  <2>1. \A i \in 1..k : q[i] \in S /\ rank[q[i]] = i
    BY <1>7
  <2>2. q \in [1..k -> S]
    BY <2>1
  <2>3. ASSUME NEW i \in 1..k, NEW j \in 1..k, i < j PROVE q[i] < q[j]
    <3> HIDE DEF q
    <3>1. q[i] \in Nat /\ q[j] \in Nat /\ rank[q[i]] < rank[q[j]]
      BY <1>1, <2>1, <2>3
    <3>2. ~(q[j] < q[i]) /\ q[i] # q[j]
      BY <1>1, <1>5, <2>1, <3>1
    <3>. QED
      BY <3>1, <3>2
  <2>. QED
    BY <2>2, <2>3
<1> DEFINE q == Feed!InOrder(S)
<1>9. q \in [1..k -> S] /\ Sorted(q)
  <2>1. Feed!Cardinality(S) = k
    BY FeedSame DEF k
  <2>. QED
    BY <1>8, <2>1 DEF Feed!InOrder
<1> HIDE DEF q
<1>10. q \in Seq(1..N) /\ DOMAIN q = 1..k
  <2>1. q \in [1..k -> 1..N]
    BY <1>9
  <2>. QED
    BY <1>1, <2>1
<1>11. \A i, j \in 1..k : q[i] = q[j] => i = j
  <2> SUFFICES ASSUME NEW i \in 1..k, NEW j \in 1..k, q[i] = q[j], i # j PROVE FALSE
    OBVIOUS
  <2>1. i < j \/ j < i
    OBVIOUS
  <2>2. q[i] \in Nat /\ q[j] \in Nat
    BY <1>1, <1>9
  <2>3. q[i] < q[j] \/ q[j] < q[i]
    BY <1>9, <2>1
  <2>. QED
    BY <2>2, <2>3
<1>12. q \in Surjection(1..k, S)
  <2>1. q \in Injection(1..k, S)
    BY <1>9, <1>11 DEF Injection, IsInjective
  <2>2. Cardinality(1..k) = Cardinality(S)
    BY <1>2 DEF k
  <2>. QED
    BY <1>1, <2>1, <2>2, FS_Injection
<1>13. {q[i] : i \in 1..k} = S
  BY <1>9, <1>12 DEF Surjection
<1>. QED
  BY <1>9, <1>10, <1>13 DEF q

(* What is received after what a client has is in order and is all.        *)
LEMMA Joined ==
    ASSUME NEW N \in Nat, NEW s \in Seq(1..N), NEW t \in Seq(1..N),
           \A i, j \in DOMAIN s : i < j => s[i] < s[j],
           \A i, j \in DOMAIN t : i < j => t[i] < t[j],
           \A i \in DOMAIN s, j \in DOMAIN t : s[i] < t[j]
    PROVE  /\ s \o t \in Seq(1..N)
           /\ \A i, j \in DOMAIN (s \o t) : i < j => (s \o t)[i] < (s \o t)[j]
           /\ {(s \o t)[i] : i \in DOMAIN (s \o t)}
                = {s[i] : i \in DOMAIN s} \cup {t[i] : i \in DOMAIN t}
<1>1. /\ s \o t \in Seq(1..N) /\ Len(s \o t) = Len(s) + Len(t)
      /\ Len(s) \in Nat /\ Len(t) \in Nat
      /\ DOMAIN s = 1..Len(s) /\ DOMAIN t = 1..Len(t) /\ DOMAIN (s \o t) = 1..Len(s) + Len(t)
  OBVIOUS
<1>2. \A i \in 1..Len(s) + Len(t) :
        \/ i \in DOMAIN s /\ (s \o t)[i] = s[i]
        \/ i - Len(s) \in DOMAIN t /\ (s \o t)[i] = t[i - Len(s)] /\ i > Len(s)
  BY <1>1
<1>3. \A i \in DOMAIN s : i \in 1..Len(s) + Len(t) /\ (s \o t)[i] = s[i]
  BY <1>1
<1>4. \A i \in DOMAIN t : i + Len(s) \in 1..Len(s) + Len(t) /\ (s \o t)[i + Len(s)] = t[i]
  BY <1>1
<1>5. ASSUME NEW i \in 1..Len(s) + Len(t), NEW j \in 1..Len(s) + Len(t), i < j
      PROVE  (s \o t)[i] < (s \o t)[j]
  <2>1. CASE i \in DOMAIN s /\ (s \o t)[i] = s[i] /\ j \in DOMAIN s /\ (s \o t)[j] = s[j]
    BY <1>5, <2>1
  <2>2. CASE /\ i \in DOMAIN s /\ (s \o t)[i] = s[i]
             /\ j - Len(s) \in DOMAIN t /\ (s \o t)[j] = t[j - Len(s)]
    BY <2>2
  <2>3. CASE /\ i - Len(s) \in DOMAIN t /\ (s \o t)[i] = t[i - Len(s)]
             /\ j - Len(s) \in DOMAIN t /\ (s \o t)[j] = t[j - Len(s)]
    <3>1. i - Len(s) < j - Len(s)
      BY <1>1, <1>5
    <3>. QED
      BY <2>3, <3>1
  <2>4. CASE i > Len(s) /\ j \in DOMAIN s
    BY <1>1, <1>5, <2>4
  <2>. QED
    BY <1>2, <2>1, <2>2, <2>3, <2>4
<1>6. {(s \o t)[i] : i \in 1..Len(s) + Len(t)}
        = {s[i] : i \in DOMAIN s} \cup {t[i] : i \in DOMAIN t}
  <2>1. \A i \in 1..Len(s) + Len(t) :
          (s \o t)[i] \in {s[j] : j \in DOMAIN s} \cup {t[j] : j \in DOMAIN t}
    BY <1>2
  <2>2. \A i \in DOMAIN s : s[i] \in {(s \o t)[j] : j \in 1..Len(s) + Len(t)}
    BY <1>3
  <2>3. \A i \in DOMAIN t : t[i] \in {(s \o t)[j] : j \in 1..Len(s) + Len(t)}
    BY <1>4
  <2>. QED
    BY <2>1, <2>2, <2>3
<1>. QED
  BY <1>1, <1>5, <1>6

(* The first k events of some: all before one of them is among them, there *)
(* are none only where there are none at all, and when k take all of the   *)
(* first k + 1, then these are all.                                        *)
Firsts(S, k) == {n \in S : Cardinality(Before(S, n)) < k}

(* With a number, all before it are among the first k.                     *)
LEMMA FirstsClosed ==
    ASSUME NEW N \in Nat, NEW S \in SUBSET (0..N), NEW k \in Nat,
           NEW n \in Firsts(S, k), NEW m \in S, m < n
    PROVE  m \in Firsts(S, k)
<1>1. n \in S /\ Cardinality(Before(S, n)) < k
  BY DEF Firsts
<1>2. /\ Cardinality(Before(S, m)) \in Nat /\ Cardinality(Before(S, n)) \in Nat
      /\ Cardinality(Before(S, m)) < Cardinality(Before(S, n))
  BY <1>1, BeforeGrows
<1>. QED
  BY <1>1, <1>2 DEF Firsts

(* Only of an empty set there is no first.                                 *)
LEMMA FirstsSome ==
    ASSUME NEW N \in Nat, NEW S \in SUBSET (0..N), NEW k \in Nat, k > 0, Firsts(S, k) = {}
    PROVE  S = {}
<1> SUFFICES ASSUME S # {} PROVE FALSE
  OBVIOUS
<1>1. PICK x \in S : \A y \in S : x =< y
  BY LeastOf
<1>2. Before(S, x) = {}
  <2>1. S \subseteq Nat
    OBVIOUS
  <2>2. \A y \in S : ~(y < x)
    BY <1>1, <2>1
  <2>. QED
    BY <2>2 DEF Before
<1>3. x \in Firsts(S, k)
  BY <1>2, FS_EmptySet DEF Firsts
<1>. QED
  BY <1>3

(* A page that one more row did not lengthen is all there is.              *)
LEMMA FirstsAll ==
    ASSUME NEW N \in Nat, NEW S \in SUBSET (0..N), NEW k \in Nat,
           Firsts(Firsts(S, k + 1), k) = Firsts(S, k + 1)
    PROVE  Firsts(S, k + 1) = S
<1> DEFINE F == Firsts(S, k + 1)
           rest == S \ F
<1>1. F \subseteq S
  BY DEF Firsts
<1> SUFFICES ASSUME rest # {} PROVE FALSE
  BY <1>1
<1>2. PICK n \in rest : \A y \in rest : n =< y
  <2>1. rest \in SUBSET Nat
    BY SmallSets
  <2> HIDE DEF rest
  <2>. QED
    BY <2>1, LeastOf
<1> DEFINE B == Before(S, n)
<1>3. B \subseteq F /\ B \in SUBSET (0..N)
  <2>1. S \subseteq Nat
    BY SmallSets
  <2>2. \A m \in S : m < n => m \notin rest
    BY <1>2, <2>1
  <2> HIDE DEF F
  <2>. QED
    BY <1>2, <2>2 DEF Before
<1>4. IsFiniteSet(B) /\ Cardinality(B) \in Nat
  BY <1>3, SmallSets
<1>5. Cardinality(B) >= k + 1
  BY <1>2, <1>4 DEF Firsts
<1> HIDE DEF B, F
<1>6. B # {}
  BY <1>4, <1>5, FS_EmptySet
<1>7. PICK x \in B : \A y \in B : x >= y
  BY <1>3, <1>6, GreatestOf
<1>8. B \ {x} \subseteq Before(F, x)
  BY <1>3, <1>7 DEF Before
<1>9. Cardinality(B \ {x}) = Cardinality(B) - 1
  BY <1>4, FS_RemoveElement
<1>10. IsFiniteSet(Before(F, x)) /\ Cardinality(Before(F, x)) \in Nat
  <2>1. Before(F, x) \in SUBSET (0..N)
    BY <1>1 DEF Before
  <2>. QED
    BY <2>1, SmallSets
<1>11. Cardinality(B \ {x}) <= Cardinality(Before(F, x))
  BY <1>8, <1>10, FS_Subset
<1>12. Cardinality(Before(F, x)) >= k
  BY <1>4, <1>5, <1>9, <1>10, <1>11
<1>13. x \in F /\ x \in Firsts(F, k)
  BY <1>3 DEF F
<1>. QED
  BY <1>10, <1>12, <1>13 DEF Firsts

(* What is kept of the log when an event is added.                         *)
LEMMA PrunedFacts ==
    ASSUME NEW N \in Nat, NEW S \in SUBSET (0..N), Cardinality(S) <= Keep + 1
    PROVE  Feed!Pruned(S) \subseteq S /\ Cardinality(Feed!Pruned(S)) <= Keep
<1>1. IsFiniteSet(S) /\ Cardinality(S) \in Nat
  BY SmallSets
<1>2. Feed!Pruned(S) = {n \in S : Cardinality({m \in S : m > n}) < Keep}
  BY FeedSame DEF Feed!Pruned
<1>3. Feed!Pruned(S) \subseteq S
  BY <1>2
<1>4. Cardinality(Feed!Pruned(S)) <= Cardinality(S) /\ Cardinality(Feed!Pruned(S)) \in Nat
  BY <1>1, <1>3, FS_Subset, FS_CardinalityType
<1>5. CASE Cardinality(S) <= Keep
  BY <1>1, <1>3, <1>4, <1>5, FeedConstants
<1>6. CASE Cardinality(S) = Keep + 1
  <2>1. S # {}
    BY <1>6, FeedConstants, FS_EmptySet
  <2>2. PICK x \in S : \A y \in S : x =< y
    BY <2>1, LeastOf
  <2>3. {m \in S : m > x} = S \ {x}
    <3>1. S \subseteq Nat
      BY SmallSets
    <3>2. \A m \in S : m > x <=> m # x
      BY <2>2, <3>1
    <3>. QED
      BY <3>2
  <2>4. Cardinality(S \ {x}) = Keep /\ IsFiniteSet(S \ {x})
    <3>1. Cardinality(S \ {x}) = Cardinality(S) - 1 /\ IsFiniteSet(S \ {x})
      BY <1>1, FS_RemoveElement
    <3>. QED
      BY <1>6, <3>1, FeedConstants
  <2>5. Feed!Pruned(S) \subseteq S \ {x}
    BY <1>2, <2>3, <2>4, FeedConstants
  <2>. QED
    BY <1>3, <2>4, <2>5, FS_Subset
<1>. QED
  BY <1>1, <1>5, <1>6, FeedConstants

(* What is stored and what goes on: a turn that runs, and every row, needs *)
(* the thread.                                                             *)
StoredInv ==
    /\ last \in 1..MaxRows /\ log \subseteq 1..last /\ Cardinality(log) <= Keep
    /\ signalled \subseteq 1..last
    /\ exists \in BOOLEAN /\ running \in BOOLEAN /\ executing \in 0..last
    /\ titling \in BOOLEAN /\ signal \in BOOLEAN /\ inline \in BOOLEAN
    /\ Feed!DeletedStaysEmpty

(* What a client received is in order and complete as far as it goes; what *)
(* its stream has read comes next; and it waits, or is about to, with      *)
(* nothing it was told of unread, unless another stream may have cleared   *)
(* the signal.                                                             *)
Complete(c) ==
    /\ \A i, j \in DOMAIN got[c] : i < j => got[c][i] < got[c][j]
    /\ {n \in log : n <= Feed!Cursor(c) \/ n <= caught[c]} \subseteq Feed!Received(c)
Sleeps(c) ==
    /\ stream[c] = "wait" /\ Feed!Unread(c) # {} => ~inline /\ Cardinality(Clients) > 1
    /\ stream[c] = "arm" => ~inline
    /\ stream[c] = "arm" /\ Feed!Unread(c) # {} => signal \/ Cardinality(Clients) > 1
ReadsNext(c) ==
    /\ stream[c] = "send" <=> batch[c] # {}
    /\ \A b \in batch[c] : /\ b > Feed!Cursor(c)
                           /\ \A n \in log : n > Feed!Cursor(c) /\ n < b => n \in batch[c]
Follows(c) ==
    /\ Feed!Received(c) \subseteq 1..last /\ batch[c] \subseteq 1..last /\ caught[c] <= last
    /\ Complete(c) /\ Sleeps(c) /\ ReadsNext(c)

FollowTyped ==
    /\ stream \in [Clients -> {"off", "check", "send", "arm", "wait"}]
    /\ batch \in [Clients -> SUBSET (1..MaxRows)]
    /\ got \in [Clients -> Seq(1..MaxRows)]
    /\ caught \in [Clients -> 0..MaxRows]

FeedInv == StoredInv /\ FollowTyped /\ \A c \in Clients : Follows(c)

(* The last event a client received.                                       *)
LEMMA CursorFacts ==
    ASSUME NEW R \in SUBSET (1..MaxRows)
    PROVE  /\ Feed!Max(R \cup {0}) \in 0..MaxRows /\ Feed!Max(R \cup {0}) \in R \cup {0}
           /\ \A y \in R : y <= Feed!Max(R \cup {0})
<1>1. MaxRows \in Nat /\ R \cup {0} \in SUBSET (0..MaxRows) /\ R \cup {0} # {}
  BY FeedConstants
<1> DEFINE S == R \cup {0}
<1> HIDE DEF S
<1>2. Feed!Max(S) \in S /\ \A y \in S : y <= Feed!Max(S)
  BY <1>1, MaxFacts DEF S
<1>. QED
  BY <1>1, <1>2 DEF S

(* At first the thread has its first event and nobody reads.               *)
LEMMA FeedInit == Feed!Init => FeedInv
<1> SUFFICES ASSUME Feed!Init PROVE FeedInv
  OBVIOUS
<1> USE DEF Feed!Init
<1>1. 1 \in 1..MaxRows /\ 0 \in 0..MaxRows /\ << >> \in Seq(1..MaxRows)
  BY FeedConstants
<1>2. StoredInv
  <2>1. Cardinality({1}) = 1
    BY FS_Singleton
  <2>2. Cardinality(log) <= Keep
    BY <2>1, FeedConstants
  <2>3. last \in 1..MaxRows /\ log \subseteq 1..last /\ executing \in 0..last
    BY <1>1
  <2>. QED
    BY <2>2, <2>3 DEF StoredInv, Feed!DeletedStaysEmpty
<1>3. FollowTyped
  BY <1>1 DEF FollowTyped
<1>4. ASSUME NEW c \in Clients PROVE Follows(c)
  <2>1. got[c] = << >> /\ batch[c] = {} /\ caught[c] = 0 /\ stream[c] = "off" /\ last = 1
        /\ log = {1}
    OBVIOUS
  <2>2. Feed!Received(c) = {}
    BY <2>1 DEF Feed!Received
  <2>3. Feed!Cursor(c) = 0
    <3>1. Feed!Max({} \cup {0}) \in {} \cup {0}
      BY CursorFacts
    <3>. QED
      BY <2>2, <3>1 DEF Feed!Cursor
  <2> HIDE DEF Feed!Init
  <2>. QED
    BY <2>1, <2>2, <2>3 DEF Follows, Complete, Sleeps, ReadsNext
<1>. QED
  BY <1>2, <1>3, <1>4 DEF FeedInv

(* A row is added: the newest are kept.                                    *)
LEMMA AddedKeeps ==
    ASSUME StoredInv, Feed!Added
    PROVE  /\ last' = last + 1 /\ last' \in 1..MaxRows /\ log' \subseteq log \cup {last'}
           /\ log' \subseteq 1..last' /\ Cardinality(log') <= Keep
<1>1. last' = last + 1 /\ last < MaxRows /\ log' = Feed!Pruned(log \cup {last + 1})
  BY DEF Feed!Added
<1>2. last' \in 1..MaxRows /\ last' \in Nat
  BY <1>1, FeedConstants DEF StoredInv
<1> DEFINE S == log \cup {last + 1}
<1>3. log \in SUBSET (0..last') /\ S \in SUBSET (0..last') /\ S \subseteq 1..last'
  BY <1>1, <1>2 DEF StoredInv
<1>4. Cardinality(S) <= Keep + 1
  <2>1. IsFiniteSet(log) /\ Cardinality(log) \in Nat
    BY <1>2, <1>3, SmallSets
  <2>2. Cardinality(S) <= Cardinality(log) + 1 /\ Cardinality(S) \in Nat
    BY <2>1, FS_AddElement
  <2>. QED
    BY <2>1, <2>2, FeedConstants DEF StoredInv
<1> HIDE DEF S
<1>5. Feed!Pruned(S) \subseteq S /\ Cardinality(Feed!Pruned(S)) <= Keep
  BY <1>2, <1>3, <1>4, PrunedFacts
<1>. QED
  BY <1>1, <1>2, <1>3, <1>5 DEF S

(* What the writers do to the store.                                       *)
LEMMA WriterStores ==
    ASSUME StoredInv,
           \/ Feed!StartTurn \/ Feed!Emit \/ Feed!EndTurn \/ Feed!CancelTurn \/ Feed!Title
           \/ Feed!Elsewhere \/ Feed!DeleteThread \/ Feed!ClearThread
    PROVE  /\ StoredInv'
           /\ \/ UNCHANGED <<log, last>>
              \/ last' = last + 1 /\ log' \subseteq log \cup {last'}
              \/ last' = last /\ log' = {}
           /\ Feed!Notify \/ Feed!Unheard
<1>1. ASSUME Feed!Added, exists, exists' = exists, running' \in BOOLEAN,
             executing' \in 0..executing + 1, titling' \in BOOLEAN, Feed!Notify \/ Feed!Unheard
      PROVE  StoredInv' /\ last' = last + 1 /\ log' \subseteq log \cup {last'}
  <2>1. /\ last' = last + 1 /\ last' \in 1..MaxRows /\ log' \subseteq log \cup {last'}
        /\ log' \subseteq 1..last' /\ Cardinality(log') <= Keep
    BY <1>1, AddedKeeps
  <2>2. signal' \in BOOLEAN /\ signalled' \subseteq 1..last' /\ inline' \in BOOLEAN
    <3>1. CASE Feed!Notify
      BY <2>1, <3>1 DEF Feed!Notify, StoredInv
    <3>2. CASE Feed!Unheard
      BY <2>1, <3>2 DEF Feed!Unheard, StoredInv
    <3>. QED
      BY <1>1, <3>1, <3>2
  <2>3. executing' \in 0..last'
    BY <1>1, <2>1 DEF StoredInv
  <2>4. Feed!DeletedStaysEmpty' /\ exists' \in BOOLEAN
    BY <1>1 DEF Feed!DeletedStaysEmpty, StoredInv
  <2>. QED
    BY <1>1, <2>1, <2>2, <2>3, <2>4 DEF StoredInv
<1>2. ASSUME last' = last, log' \in {log, {}}, exists' \in BOOLEAN, running' \in BOOLEAN,
             executing' \in 0..executing, titling' \in BOOLEAN, Feed!Notify \/ Feed!Unheard,
             ~exists' => log' = {} /\ ~running'
      PROVE  StoredInv'
  <2>1. signal' \in BOOLEAN /\ signalled' \subseteq 1..last' /\ inline' \in BOOLEAN
    BY <1>2 DEF Feed!Notify, Feed!Unheard, StoredInv
  <2>2. executing' \in 0..last' /\ Cardinality(log') <= Keep /\ log' \subseteq 1..last'
    <3>1. executing' \in 0..last'
      BY <1>2 DEF StoredInv
    <3>2. Cardinality({}) <= Keep
      BY FeedConstants, FS_EmptySet
    <3>. QED
      BY <1>2, <3>1, <3>2 DEF StoredInv
  <2>. QED
    BY <1>2, <2>1, <2>2 DEF StoredInv, Feed!DeletedStaysEmpty
<1>3. executing \in Nat /\ executing \in 0..executing /\ executing \in 0..executing + 1
      /\ exists \in BOOLEAN /\ running \in BOOLEAN /\ titling \in BOOLEAN
      /\ (running => exists) /\ (~exists => log = {})
  BY DEF StoredInv, Feed!DeletedStaysEmpty
<1>4. CASE Feed!StartTurn
  <2>1. executing' \in 0..executing + 1
    BY <1>3, <1>4 DEF Feed!StartTurn
  <2>. QED
    BY <1>1, <1>3, <1>4, <2>1 DEF Feed!StartTurn
<1>5. CASE Feed!Emit
  BY <1>1, <1>3, <1>5 DEF Feed!Emit, Feed!writers
<1>6. CASE Feed!EndTurn
  <2>1. executing' \in 0..executing + 1 /\ executing' \in 0..executing
    BY <1>3, <1>6 DEF Feed!EndTurn
  <2>2. CASE running /\ running' = FALSE /\ Feed!Added
    BY <1>1, <1>3, <1>6, <2>1, <2>2 DEF Feed!EndTurn
  <2>3. CASE UNCHANGED <<running, log, last>>
    BY <1>2, <1>3, <1>6, <2>1, <2>3 DEF Feed!EndTurn
  <2>. QED
    BY <1>6, <2>2, <2>3 DEF Feed!EndTurn
<1>7. CASE Feed!CancelTurn
  BY <1>1, <1>3, <1>7 DEF Feed!CancelTurn
<1>8. CASE Feed!Title
  <2>1. CASE exists /\ Feed!Added /\ Feed!Notify
    BY <1>1, <1>3, <1>8, <2>1 DEF Feed!Title
  <2>2. CASE UNCHANGED <<log, last>> /\ Feed!Unheard
    BY <1>2, <1>3, <1>8, <2>2 DEF Feed!Title
  <2>. QED
    BY <1>8, <2>1, <2>2 DEF Feed!Title
<1>9. CASE Feed!Elsewhere
  BY <1>1, <1>3, <1>9 DEF Feed!Elsewhere, Feed!writers
<1>10. CASE Feed!DeleteThread
  BY <1>2, <1>3, <1>10 DEF Feed!DeleteThread
<1>11. CASE Feed!ClearThread
  BY <1>2, <1>3, <1>11 DEF Feed!ClearThread, Feed!writers
<1>. QED
  BY <1>4, <1>5, <1>6, <1>7, <1>8, <1>9, <1>10, <1>11

(* And what that means to the readers: a new row comes after all they      *)
(* have, and one that is told of wakes them.                               *)
LEMMA WriterKeeps ==
    ASSUME FeedInv,
           \/ UNCHANGED <<log, last>>
           \/ last' = last + 1 /\ log' \subseteq log \cup {last'}
           \/ last' = last /\ log' = {},
           Feed!Notify \/ Feed!Unheard
    PROVE  FollowTyped' /\ \A c \in Clients : Follows(c)'
<1>1. /\ UNCHANGED <<batch, got, caught, inline>>
      /\ \A c \in Clients : \/ stream'[c] = stream[c]
                            \/ stream[c] = "wait" /\ stream'[c] = "check"
      /\ stream' \in [Clients -> {"off", "check", "send", "arm", "wait"}]
  <2>1. stream \in [Clients -> {"off", "check", "send", "arm", "wait"}]
    BY DEF FeedInv, FollowTyped
  <2>2. CASE Feed!Notify
    BY <2>1, <2>2 DEF Feed!Notify, Feed!readers
  <2>3. CASE Feed!Unheard
    BY <2>1, <2>3 DEF Feed!Unheard, Feed!readers
  <2>. QED
    BY <2>2, <2>3
<1>2. FollowTyped'
  BY <1>1 DEF FeedInv, FollowTyped
<1>3. ASSUME NEW c \in Clients PROVE Follows(c)'
  <2>0. Follows(c) /\ last \in Nat /\ last' \in Nat /\ last <= last'
        /\ log \subseteq 1..last /\ signalled \subseteq 1..last
    BY DEF FeedInv, StoredInv
  <2>1. /\ Feed!Received(c)' = Feed!Received(c) /\ Feed!Cursor(c)' = Feed!Cursor(c)
        /\ got'[c] = got[c] /\ batch'[c] = batch[c] /\ caught'[c] = caught[c]
    BY <1>1 DEF Feed!Cursor, Feed!Received
  <2>2. \A n \in log' : n \in log \/ n > last
    BY <2>0
  <2>3. Feed!Cursor(c) <= last /\ Feed!Cursor(c) \in Nat /\ caught[c] \in Nat /\ caught[c] <= last
    <3>1. /\ Feed!Received(c) \in SUBSET (1..MaxRows) /\ Feed!Received(c) \subseteq 1..last
          /\ caught[c] \in Nat /\ caught[c] <= last
      <4>1. Feed!Received(c) \subseteq 1..last /\ caught[c] <= last
        BY <2>0 DEF Follows
      <4>2. 1..last \subseteq 1..MaxRows /\ caught[c] \in Nat
        BY FeedConstants DEF FeedInv, StoredInv, FollowTyped
      <4>. QED
        BY <4>1, <4>2
    <3>. QED
      BY <2>0, <3>1, CursorFacts DEF Feed!Cursor
  <2>4. 1..last \subseteq 1..last'
    BY <2>0
  <2>5. Complete(c)'
    <3>1. ASSUME NEW n \in log', n <= Feed!Cursor(c) \/ n <= caught[c]
          PROVE  n \in Feed!Received(c)
      <4>1. n \in log
        BY <2>0, <2>2, <2>3, <3>1
      <4>. QED
        BY <2>0, <3>1, <4>1 DEF Follows, Complete
    <3>. QED
      BY <2>0, <2>1, <3>1 DEF Follows, Complete
  <2>6. ReadsNext(c)'
    <3>1. stream'[c] = "send" <=> batch'[c] # {}
      BY <1>1, <2>0, <2>1 DEF Follows, ReadsNext
    <3>2. ASSUME NEW b \in batch[c], NEW n \in log', n > Feed!Cursor(c), n < b
          PROVE  n \in batch[c]
      <4>1. b \in 1..last
        BY <2>0 DEF Follows
      <4>2. n \in log
        BY <2>0, <2>2, <3>2, <4>1
      <4>. QED
        BY <2>0, <3>2, <4>2 DEF Follows, ReadsNext
    <3>3. \A b \in batch[c] : b > Feed!Cursor(c)
      BY <2>0 DEF Follows, ReadsNext
    <3>. QED
      BY <2>1, <3>1, <3>2, <3>3 DEF ReadsNext
  <2>7. Sleeps(c)'
    <3>1. stream'[c] = "arm" => ~inline'
      BY <1>1, <2>0 DEF Follows, Sleeps
    <3>2. CASE Feed!Notify
      <4>1. signal' = TRUE /\ stream'[c] # "wait"
        BY <1>1, <3>2 DEF Feed!Notify, FeedInv, FollowTyped
      <4>. QED
        BY <3>1, <4>1 DEF Sleeps
    <3>3. CASE Feed!Unheard
      <4>1. signal' = signal /\ stream' = stream /\ signalled' = signalled
        BY <3>3 DEF Feed!Unheard
      <4>2. Feed!Unread(c)' \subseteq Feed!Unread(c)
        BY <2>0, <2>1, <2>2, <4>1 DEF Feed!Unread
      <4>3. Sleeps(c)
        BY <2>0 DEF Follows
      <4>4. Feed!Unread(c)' # {} => Feed!Unread(c) # {}
        BY <4>2
      <4>. QED
        BY <1>1, <4>1, <4>3, <4>4 DEF Sleeps
    <3>. QED
      BY <3>2, <3>3
  <2>. QED
    BY <2>0, <2>1, <2>3, <2>4, <2>5, <2>6, <2>7 DEF Follows
<1>. QED
  BY <1>2, <1>3

(* One reader's step is nothing to another, except that it may clear the   *)
(* signal.                                                                 *)
LEMMA OthersFollow ==
    ASSUME NEW d \in Clients, Follows(d),
           UNCHANGED <<log, last, signalled, inline>>,
           stream'[d] = stream[d], batch'[d] = batch[d], got'[d] = got[d], caught'[d] = caught[d],
           signal' = signal \/ Cardinality(Clients) > 1
    PROVE  Follows(d)'
<1>1. Feed!Received(d)' = Feed!Received(d)
  BY DEF Feed!Received
<1>2. Feed!Cursor(d)' = Feed!Cursor(d)
  BY <1>1 DEF Feed!Cursor
<1>3. Feed!Unread(d)' = Feed!Unread(d)
  BY <1>2 DEF Feed!Unread
<1>4. Complete(d)' /\ ReadsNext(d)'
  BY <1>1, <1>2 DEF Follows, Complete, ReadsNext
<1>5. Sleeps(d)'
  BY <1>3 DEF Follows, Sleeps
<1>. QED
  BY <1>1, <1>4, <1>5 DEF Follows

(* Two different clients are more than one.                                *)
LEMMA MoreClients ==
    ASSUME NEW c \in Clients, NEW d \in Clients, c # d
    PROVE  Cardinality(Clients) > 1
<1>1. IsFiniteSet({c}) /\ Cardinality({c}) = 1
  BY FS_Singleton
<1>2. Cardinality({c} \cup {d}) = 2
  BY <1>1, FS_AddElement
<1>3. Cardinality({c} \cup {d}) <= Cardinality(Clients)
  BY FeedConstants, FS_Subset
<1>4. Cardinality(Clients) \in Nat
  BY FeedConstants, FS_CardinalityType
<1>. QED
  BY <1>2, <1>3, <1>4

(* A page or a stream reads the first events after the cursor.             *)
LEMMA AfterFacts ==
    ASSUME FeedInv, NEW c \in Clients, NEW limit \in 1..PageCap + 1
    PROVE  LET later == {n \in log : n > Feed!Cursor(c)}
           IN  /\ Feed!After(Feed!Cursor(c), limit) = Firsts(later, limit)
               /\ later \in SUBSET (0..last) /\ last \in Nat
<1> DEFINE later == {n \in log : n > Feed!Cursor(c)}
<1>1. later \in SUBSET (0..last) /\ last \in Nat
  <2>1. log \subseteq 1..last /\ last \in Nat
    BY FeedConstants DEF FeedInv, StoredInv
  <2>2. 1..last \subseteq 0..last
    BY <2>1
  <2>. QED
    BY <2>1, <2>2
<1>2. Feed!Capped(limit) = limit
  BY FeedConstants DEF Feed!Capped
<1>3. Feed!After(Feed!Cursor(c), limit)
        = {n \in later : Cardinality({m \in later : m < n}) < limit}
  BY <1>2, FeedSame DEF Feed!After
<1>4. Firsts(later, limit) = {n \in later : Cardinality({m \in later : m < n}) < limit}
  BY DEF Firsts, Before
<1>. QED
  BY <1>1, <1>3, <1>4

(* What is known of a client's cursor.                                     *)
LEMMA ClientFacts ==
    ASSUME FeedInv, NEW c \in Clients
    PROVE  /\ Follows(c) /\ last \in Nat /\ log \subseteq 1..last /\ last <= MaxRows
           /\ Feed!Received(c) \subseteq 1..last /\ Feed!Received(c) \in SUBSET (1..MaxRows)
           /\ Feed!Cursor(c) \in Nat /\ Feed!Cursor(c) <= last
           /\ \A n \in Feed!Received(c) : n <= Feed!Cursor(c)
           /\ got[c] \in Seq(1..MaxRows) /\ caught[c] \in Nat /\ caught[c] <= last
<1>1. /\ Follows(c) /\ last \in Nat /\ log \subseteq 1..last /\ last <= MaxRows
      /\ got[c] \in Seq(1..MaxRows) /\ caught[c] \in Nat
  BY FeedConstants DEF FeedInv, StoredInv, FollowTyped
<1>2. Feed!Received(c) \subseteq 1..last /\ caught[c] <= last
  BY <1>1 DEF Follows
<1>3. Feed!Received(c) \in SUBSET (1..MaxRows)
  BY <1>1, <1>2, FeedConstants
<1>4. /\ Feed!Cursor(c) \in 0..MaxRows /\ Feed!Cursor(c) \in Feed!Received(c) \cup {0}
      /\ \A n \in Feed!Received(c) : n <= Feed!Cursor(c)
  BY <1>3, CursorFacts DEF Feed!Cursor
<1>5. Feed!Cursor(c) \in Nat /\ Feed!Cursor(c) <= last
  BY <1>1, <1>2, <1>4
<1>. QED
  BY <1>1, <1>2, <1>3, <1>4, <1>5

(* Some events, in order, that come next after the cursor.                 *)
ComeNext(c, E, q) ==
    /\ E \subseteq 1..last /\ q \in Seq(1..MaxRows) /\ {q[i] : i \in DOMAIN q} = E
    /\ \A i, j \in DOMAIN q : i < j => q[i] < q[j]
    /\ \A n \in E : n > Feed!Cursor(c)
    /\ \A n \in E, m \in log : m > Feed!Cursor(c) /\ m < n => m \in E

(* Events are received in their order, all there are after the cursor up   *)
(* to the last of them.                                                    *)
LEMMA Receives ==
    ASSUME FeedInv, NEW c \in Clients, NEW E, NEW q, ComeNext(c, E, q),
           got' = [got EXCEPT ![c] = @ \o q], UNCHANGED <<log, last>>
    PROVE  /\ got' \in [Clients -> Seq(1..MaxRows)]
           /\ \A d \in Clients \ {c} : got'[d] = got[d]
           /\ \A i, j \in DOMAIN got'[c] : i < j => got'[c][i] < got'[c][j]
           /\ Feed!Received(c)' = Feed!Received(c) \cup E
           /\ Feed!Received(c)' \subseteq 1..last'
           /\ Feed!Cursor(c)' \in Nat /\ Feed!Cursor(c)' >= Feed!Cursor(c)
           /\ \A n \in E : n <= Feed!Cursor(c)'
           /\ Feed!Cursor(c)' \in E \/ Feed!Cursor(c)' = Feed!Cursor(c)
           /\ \A n \in log : n <= Feed!Cursor(c)' => n \in Feed!Received(c)'
<1> USE DEF ComeNext
<1>0. /\ Follows(c) /\ last \in Nat /\ log \subseteq 1..last /\ last <= MaxRows
      /\ Feed!Received(c) \subseteq 1..last /\ Feed!Received(c) \in SUBSET (1..MaxRows)
      /\ Feed!Cursor(c) \in Nat /\ Feed!Cursor(c) <= last
      /\ \A n \in Feed!Received(c) : n <= Feed!Cursor(c)
      /\ got[c] \in Seq(1..MaxRows) /\ got \in [Clients -> Seq(1..MaxRows)]
  BY ClientFacts DEF FeedInv, FollowTyped
<1>1. Feed!Received(c) = {got[c][i] : i \in DOMAIN got[c]}
  BY DEF Feed!Received
<1>2. /\ got[c] \o q \in Seq(1..MaxRows)
      /\ \A i, j \in DOMAIN (got[c] \o q) : i < j => (got[c] \o q)[i] < (got[c] \o q)[j]
      /\ {(got[c] \o q)[i] : i \in DOMAIN (got[c] \o q)} = Feed!Received(c) \cup E
  <2>1. \A i \in DOMAIN got[c], j \in DOMAIN q : got[c][i] < q[j]
    <3> SUFFICES ASSUME NEW i \in DOMAIN got[c], NEW j \in DOMAIN q PROVE got[c][i] < q[j]
      OBVIOUS
    <3>1. got[c][i] \in Feed!Received(c) /\ q[j] \in E
      BY <1>1
    <3>2. got[c][i] <= Feed!Cursor(c) /\ q[j] > Feed!Cursor(c)
      BY <1>0, <3>1
    <3>3. got[c][i] \in Nat /\ q[j] \in Nat
      <4>1. E \subseteq Nat /\ Feed!Received(c) \subseteq Nat
        BY <1>0
      <4>. QED
        BY <3>1, <4>1
    <3>. QED
      BY <1>0, <3>2, <3>3
  <2>2. \A i, j \in DOMAIN got[c] : i < j => got[c][i] < got[c][j]
    BY <1>0 DEF Follows, Complete
  <2>3. /\ got[c] \o q \in Seq(1..MaxRows)
        /\ \A i, j \in DOMAIN (got[c] \o q) : i < j => (got[c] \o q)[i] < (got[c] \o q)[j]
        /\ {(got[c] \o q)[i] : i \in DOMAIN (got[c] \o q)}
             = {got[c][i] : i \in DOMAIN got[c]} \cup {q[i] : i \in DOMAIN q}
    <3>1. MaxRows \in Nat
      BY FeedConstants
    <3>. QED
      BY <1>0, <2>1, <2>2, <3>1, Joined
  <2>. QED
    BY <1>1, <2>3
<1>3. got'[c] = got[c] \o q /\ got' \in [Clients -> Seq(1..MaxRows)]
      /\ \A d \in Clients \ {c} : got'[d] = got[d]
  BY <1>0, <1>2
<1>4. Feed!Received(c)' = Feed!Received(c) \cup E
  BY <1>2, <1>3 DEF Feed!Received
<1> DEFINE R == Feed!Received(c) \cup E
<1>5. R \in SUBSET (1..MaxRows) /\ R \subseteq 1..last
  <2>1. E \subseteq 1..last /\ 1..last \subseteq 1..MaxRows
    BY <1>0, FeedConstants
  <2>. QED
    BY <1>0, <2>1
<1>6. Feed!Cursor(c)' = Feed!Max(R \cup {0})
  BY <1>4 DEF Feed!Cursor
<1> HIDE DEF R
<1>7. /\ Feed!Cursor(c)' \in Nat /\ Feed!Cursor(c)' \in R \cup {0}
      /\ \A n \in R : n <= Feed!Cursor(c)'
  <2>1. Feed!Cursor(c)' \in 0..MaxRows /\ Feed!Cursor(c)' \in R \cup {0}
        /\ \A n \in R : n <= Feed!Cursor(c)'
    BY <1>5, <1>6, CursorFacts
  <2>. QED
    BY <2>1
<1>8. Feed!Cursor(c)' >= Feed!Cursor(c)
  <2>1. Feed!Cursor(c) \in Feed!Received(c) \cup {0}
    BY <1>0, CursorFacts DEF Feed!Cursor
  <2>. QED
    BY <1>0, <1>7, <2>1 DEF R
<1>9. Feed!Cursor(c)' \in E \/ Feed!Cursor(c)' = Feed!Cursor(c)
  BY <1>0, <1>7, <1>8 DEF R
<1>10. ASSUME NEW n \in log, n <= Feed!Cursor(c)' PROVE n \in R
  <2>1. CASE n <= Feed!Cursor(c)
    BY <1>0, <2>1 DEF R, Follows, Complete
  <2>2. CASE n > Feed!Cursor(c)
    <3>1. Feed!Cursor(c)' \in E /\ n \in Nat
      BY <1>0, <1>7, <1>9, <1>10, <2>2
    <3>2. n = Feed!Cursor(c)' \/ n < Feed!Cursor(c)'
      BY <1>7, <1>10, <3>1
    <3>. QED
      BY <2>2, <3>1, <3>2 DEF R
  <2>. QED
    BY <1>0, <2>1, <2>2
<1>. QED
  BY <1>2, <1>3, <1>4, <1>5, <1>7, <1>8, <1>9, <1>10 DEF R

(* A page, and whether it told the end.                                    *)
LEMMA PageKeeps ==
    ASSUME FeedInv, NEW c \in Clients, NEW limit \in 1..PageCap, NEW fit \in 1..PageCap,
           Feed!Page(c, limit, fit)
    PROVE  FollowTyped' /\ \A d \in Clients : Follows(d)'
<1> DEFINE later == {n \in log : n > Feed!Cursor(c)}
           selected == Firsts(later, limit + 1)
           asked == Firsts(selected, limit)
           sent == Firsts(asked, fit)
           more == selected # asked \/ sent # asked
<1>0. /\ Follows(c) /\ last \in Nat /\ log \subseteq 1..last /\ last <= MaxRows
      /\ Feed!Cursor(c) \in Nat /\ Feed!Cursor(c) <= last
      /\ caught[c] \in Nat /\ caught[c] <= last /\ caught \in [Clients -> 0..MaxRows]
  BY ClientFacts DEF FeedInv, FollowTyped
<1>1. limit + 1 \in 1..PageCap + 1 /\ limit \in Nat /\ fit \in Nat /\ limit + 1 \in Nat
  BY FeedConstants
<1>2. /\ Feed!After(Feed!Cursor(c), limit + 1) = selected
      /\ later \in SUBSET (0..last)
  BY <1>1, AfterFacts
<1>3. selected \subseteq later /\ asked \subseteq selected /\ sent \subseteq asked
  BY DEF Firsts
<1>4. /\ asked = {n \in selected : Cardinality({m \in selected : m < n}) < limit}
      /\ sent = {n \in asked : Cardinality({m \in asked : m < n}) < fit}
  BY DEF Firsts, Before
<1>5. /\ got' = [got EXCEPT ![c] = @ \o Feed!InOrder(sent)]
      /\ caught' = [caught EXCEPT ![c] = IF more THEN @ ELSE last]
      /\ stream[c] = "off"
      /\ UNCHANGED <<log, last, signal, signalled, inline, stream, batch>>
  <2>. HIDE DEF later
  <2>. QED
    BY <1>2, <1>4, FeedSame DEF Feed!Page
<1>6. \A n \in sent, m \in later : m < n => m \in sent
  <2> SUFFICES ASSUME NEW n \in sent, NEW m \in later, m < n PROVE m \in sent
    OBVIOUS
  <2> HIDE DEF later, selected, asked, sent
  <2>1. n \in asked /\ n \in selected
    BY <1>3
  <2>2. m \in selected
    BY <1>0, <1>1, <1>2, <2>1, FirstsClosed DEF selected
  <2>3. m \in asked
    <3>1. selected \in SUBSET (0..last)
      BY <1>2, <1>3
    <3>. QED
      BY <1>0, <1>1, <2>1, <2>2, <3>1, FirstsClosed DEF asked
  <2>4. asked \in SUBSET (0..last)
    BY <1>2, <1>3
  <2>. QED
    BY <1>0, <1>1, <2>3, <2>4, FirstsClosed DEF sent
<1>7. ~more => sent = later
  <2> SUFFICES ASSUME selected = asked, sent = asked PROVE sent = later
    OBVIOUS
  <2>1. Firsts(Firsts(later, limit + 1), limit) = Firsts(later, limit + 1)
    OBVIOUS
  <2> HIDE DEF later
  <2>2. Firsts(later, limit + 1) = later
    BY <1>0, <1>1, <1>2, <2>1, FirstsAll
  <2>. QED
    BY <2>2
<1>8. /\ sent \subseteq log /\ sent \subseteq 1..last /\ \A n \in sent : n > Feed!Cursor(c)
      /\ \A n \in sent, m \in log : m > Feed!Cursor(c) /\ m < n => m \in sent
  BY <1>0, <1>3, <1>6
<1> DEFINE q == Feed!InOrder(sent)
<1>9. /\ q \in Seq(1..MaxRows) /\ {q[i] : i \in DOMAIN q} = sent
      /\ \A i, j \in DOMAIN q : i < j => q[i] < q[j]
  <2>1. sent \in SUBSET (1..MaxRows) /\ MaxRows \in Nat
    <3>1. 1..last \subseteq 1..MaxRows
      BY <1>0, FeedConstants
    <3>. QED
      BY <1>0, <1>8, <3>1, FeedConstants
  <2> HIDE DEF sent
  <2>. QED
    BY <2>1, InOrderFacts
<1> HIDE DEF q, sent, more
<1>10. /\ got' \in [Clients -> Seq(1..MaxRows)]
       /\ \A d \in Clients \ {c} : got'[d] = got[d]
       /\ \A i, j \in DOMAIN got'[c] : i < j => got'[c][i] < got'[c][j]
       /\ Feed!Received(c)' = Feed!Received(c) \cup sent
       /\ Feed!Received(c)' \subseteq 1..last'
       /\ Feed!Cursor(c)' \in Nat
       /\ \A n \in log : n <= Feed!Cursor(c)' => n \in Feed!Received(c)'
  <2>1. got' = [got EXCEPT ![c] = @ \o q] /\ UNCHANGED <<log, last>>
    BY <1>5 DEF q
  <2>. QED
    <3> HIDE DEF later, selected, asked
    <3>1. PICK E, r : E = sent /\ r = q
      OBVIOUS
    <3>2. ComeNext(c, E, r)
      BY <1>8, <1>9, <3>1 DEF ComeNext
    <3>3. /\ got' \in [Clients -> Seq(1..MaxRows)]
          /\ \A d \in Clients \ {c} : got'[d] = got[d]
          /\ \A i, j \in DOMAIN got'[c] : i < j => got'[c][i] < got'[c][j]
          /\ Feed!Received(c)' = Feed!Received(c) \cup E
          /\ Feed!Received(c)' \subseteq 1..last'
          /\ Feed!Cursor(c)' \in Nat
          /\ \A n \in log : n <= Feed!Cursor(c)' => n \in Feed!Received(c)'
      BY <2>1, <3>1, <3>2, Receives
    <3>. QED
      BY <3>1, <3>3
<1>11. /\ caught' \in [Clients -> 0..MaxRows]
       /\ \A d \in Clients \ {c} : caught'[d] = caught[d]
       /\ caught'[c] = IF more THEN caught[c] ELSE last
  <2>1. last \in 0..MaxRows
    BY <1>0, FeedConstants
  <2>. QED
    BY <1>0, <1>5, <2>1
<1>12. \A n \in log : n <= caught'[c] => n \in Feed!Received(c)'
  <2> SUFFICES ASSUME NEW n \in log, n <= caught'[c] PROVE n \in Feed!Received(c)'
    OBVIOUS
  <2>1. CASE more
    <3>1. n \in Feed!Received(c)
      BY <1>0, <1>11, <2>1 DEF Follows, Complete
    <3>. QED
      BY <1>10, <3>1
  <2>2. CASE ~more
    <3>1. CASE n <= Feed!Cursor(c)
      <4>1. n \in Feed!Received(c)
        BY <1>0, <3>1 DEF Follows, Complete
      <4>. QED
        BY <1>10, <4>1
    <3>2. CASE n > Feed!Cursor(c)
      <4>1. n \in later
        BY <3>2
      <4>. QED
        BY <1>7, <1>10, <2>2, <4>1
    <3>. QED
      BY <1>0, <3>1, <3>2
  <2>. QED
    BY <2>1, <2>2
<1>13. Follows(c)'
  <2>1. Complete(c)'
    BY <1>5, <1>10, <1>12 DEF Complete
  <2>2. batch[c] = {} /\ batch'[c] = {} /\ stream'[c] = "off"
    BY <1>0, <1>5 DEF Follows, ReadsNext
  <2>3. Sleeps(c)' /\ ReadsNext(c)'
    BY <2>2 DEF Sleeps, ReadsNext
  <2>4. caught'[c] <= last'
    BY <1>0, <1>5, <1>11
  <2>. QED
    BY <1>10, <2>1, <2>2, <2>3, <2>4 DEF Follows
<1>14. ASSUME NEW d \in Clients, d # c PROVE Follows(d)'
  <2>1. Follows(d) /\ d \in Clients \ {c}
    BY <1>14 DEF FeedInv
  <2>. QED
    BY <1>5, <1>10, <1>11, <2>1, OthersFollow
<1>15. FollowTyped'
  BY <1>5, <1>10, <1>11 DEF FeedInv, FollowTyped
<1>. QED
  BY <1>13, <1>14, <1>15

(* One round of a stream: it clears the signal, then reads.                *)
LEMMA ReadKeeps ==
    ASSUME FeedInv, NEW c \in Clients, NEW limit \in 1..PageCap, Feed!Read(c, limit)
    PROVE  FollowTyped' /\ \A d \in Clients : Follows(d)'
<1> DEFINE later == {n \in log : n > Feed!Cursor(c)}
           read == Firsts(later, limit)
<1>0. /\ Follows(c) /\ last \in Nat /\ log \subseteq 1..last /\ last <= MaxRows
      /\ Feed!Cursor(c) \in Nat
  BY ClientFacts
<1>1. limit \in 1..PageCap + 1 /\ limit \in Nat /\ limit > 0
  BY FeedConstants
<1>2. /\ Feed!After(Feed!Cursor(c), limit) = read
      /\ later \in SUBSET (0..last)
  BY <1>1, AfterFacts
<1>3. read \subseteq later /\ read \subseteq log
  BY DEF Firsts
<1>4. \A n \in read, m \in later : m < n => m \in read
  <2> HIDE DEF later
  <2>. QED
    BY <1>0, <1>1, <1>2, FirstsClosed
<1>5. read = {} => later = {}
  <2> HIDE DEF later
  <2>. QED
    BY <1>0, <1>1, <1>2, FirstsSome
<1>6. \A n \in log : n > Feed!Cursor(c) => n \in later
  OBVIOUS
<1>7. \A n \in later : n > Feed!Cursor(c)
  OBVIOUS
<1> HIDE DEF read, later
<1>8. /\ batch' = [batch EXCEPT ![c] = read] /\ signal' = FALSE
      /\ stream' = [stream EXCEPT ![c] = IF read # {} THEN "send"
                                         ELSE IF inline THEN "wait" ELSE "arm"]
      /\ UNCHANGED <<log, last, signalled, inline, got, caught>>
  BY <1>2 DEF Feed!Read
<1>9. /\ batch' \in [Clients -> SUBSET (1..MaxRows)] /\ batch'[c] = read
      /\ \A d \in Clients \ {c} : batch'[d] = batch[d]
  <2>1. read \in SUBSET (1..MaxRows)
    BY <1>0, <1>3, FeedConstants
  <2>. QED
    BY <1>8, <2>1 DEF FeedInv, FollowTyped
<1>10. /\ stream' \in [Clients -> {"off", "check", "send", "arm", "wait"}]
       /\ stream'[c] = IF read # {} THEN "send" ELSE IF inline THEN "wait" ELSE "arm"
       /\ \A d \in Clients \ {c} : stream'[d] = stream[d]
  BY <1>8 DEF FeedInv, FollowTyped
<1>11. /\ Feed!Received(c)' = Feed!Received(c) /\ Feed!Cursor(c)' = Feed!Cursor(c)
  BY <1>8 DEF Feed!Cursor, Feed!Received
<1>12. Follows(c)'
  <2>1. Complete(c)'
    BY <1>0, <1>8, <1>11 DEF Follows, Complete
  <2>2. ReadsNext(c)'
    BY <1>3, <1>4, <1>6, <1>7, <1>8, <1>9, <1>10, <1>11 DEF ReadsNext
  <2>3. read = {} => Feed!Unread(c)' = {}
    BY <1>5, <1>6, <1>8, <1>11 DEF Feed!Unread
  <2>4. Sleeps(c)'
    BY <1>8, <1>10, <2>3 DEF Sleeps
  <2>. QED
    BY <1>0, <1>3, <1>8, <1>9, <1>11, <2>1, <2>2, <2>4 DEF Follows
<1>13. ASSUME NEW d \in Clients, d # c PROVE Follows(d)'
  <2>1. Follows(d) /\ d \in Clients \ {c} /\ Cardinality(Clients) > 1
    BY <1>13, MoreClients DEF FeedInv
  <2>. QED
    BY <1>8, <1>9, <1>10, <2>1, OthersFollow
<1>14. FollowTyped'
  BY <1>8, <1>9, <1>10 DEF FeedInv, FollowTyped
<1>. QED
  BY <1>12, <1>13, <1>14

(* An event that was read is sent.                                         *)
LEMMA SendKeeps ==
    ASSUME FeedInv, NEW c \in Clients, Feed!Send(c)
    PROVE  FollowTyped' /\ \A d \in Clients : Follows(d)'
<1>0. /\ Follows(c) /\ last \in Nat /\ log \subseteq 1..last /\ last <= MaxRows
      /\ Feed!Cursor(c) \in Nat /\ Feed!Received(c) \subseteq 1..last
  BY ClientFacts
<1>1. batch[c] \subseteq Nat /\ batch[c] # {} /\ batch[c] \subseteq 1..last
  BY <1>0 DEF Feed!Send, Follows, ReadsNext
<1>2. PICK n \in batch[c] : n = Feed!Min(batch[c]) /\ \A m \in batch[c] : n <= m
  BY <1>1, MinFacts
<1>3. /\ got' = [got EXCEPT ![c] = @ \o <<n>>]
      /\ batch' = [batch EXCEPT ![c] = @ \ {n}]
      /\ stream' = [stream EXCEPT ![c] = IF batch[c] = {n} THEN "check" ELSE "send"]
      /\ UNCHANGED <<log, last, signal, signalled, inline, caught>>
  BY <1>2 DEF Feed!Send
<1>4. /\ <<n>> \in Seq(1..MaxRows) /\ {<<n>>[i] : i \in DOMAIN <<n>>} = {n}
      /\ \A i, j \in DOMAIN <<n>> : i < j => <<n>>[i] < <<n>>[j]
  <2>1. n \in 1..MaxRows
    BY <1>0, <1>1, FeedConstants
  <2>. QED
    BY <2>1
<1>5. /\ \A b \in batch[c] : b > Feed!Cursor(c)
      /\ \A b \in batch[c], m \in log : m > Feed!Cursor(c) /\ m < b => m \in batch[c]
  BY <1>0 DEF Follows, ReadsNext
<1>6. \A m \in log : m > Feed!Cursor(c) /\ m < n => FALSE
  BY <1>0, <1>1, <1>2, <1>5
<1>7. /\ got' \in [Clients -> Seq(1..MaxRows)]
      /\ \A d \in Clients \ {c} : got'[d] = got[d]
      /\ \A i, j \in DOMAIN got'[c] : i < j => got'[c][i] < got'[c][j]
      /\ Feed!Received(c)' = Feed!Received(c) \cup {n}
      /\ Feed!Received(c)' \subseteq 1..last'
      /\ Feed!Cursor(c)' \in Nat /\ n <= Feed!Cursor(c)'
      /\ Feed!Cursor(c)' = n \/ Feed!Cursor(c)' = Feed!Cursor(c)
      /\ \A m \in log : m <= Feed!Cursor(c)' => m \in Feed!Received(c)'
  <2> DEFINE E == {n}
             q == <<n>>
  <2>1. ComeNext(c, E, q)
    BY <1>1, <1>4, <1>5, <1>6 DEF ComeNext
  <2>3. got' = [got EXCEPT ![c] = @ \o q] /\ UNCHANGED <<log, last>>
    BY <1>3
  <2>4. n \in E /\ \A e \in E : e = n
    OBVIOUS
  <2>5. Feed!Received(c) \cup E = Feed!Received(c) \cup {n}
    OBVIOUS
  <2> HIDE DEF E, q
  <2>. QED
    BY <2>1, <2>3, <2>4, <2>5, Receives
<1>8. Feed!Cursor(c)' = n
  <2>1. n > Feed!Cursor(c)
    BY <1>5
  <2>. QED
    BY <1>0, <1>1, <1>7, <2>1
<1>9. /\ batch' \in [Clients -> SUBSET (1..MaxRows)] /\ batch'[c] = batch[c] \ {n}
      /\ \A d \in Clients \ {c} : batch'[d] = batch[d]
      /\ stream' \in [Clients -> {"off", "check", "send", "arm", "wait"}]
      /\ stream'[c] = IF batch[c] = {n} THEN "check" ELSE "send"
      /\ \A d \in Clients \ {c} : stream'[d] = stream[d]
  BY <1>3 DEF FeedInv, FollowTyped
<1>10. Follows(c)'
  <2>1. Complete(c)'
    BY <1>0, <1>3, <1>7 DEF Follows, Complete
  <2>2. ReadsNext(c)'
    <3>1. stream'[c] = "send" <=> batch'[c] # {}
      BY <1>1, <1>9
    <3>2. \A b \in batch'[c] : b > n
      BY <1>1, <1>2, <1>9
    <3>3. ASSUME NEW b \in batch'[c], NEW m \in log, m > n, m < b PROVE m \in batch'[c]
      <4>1. n > Feed!Cursor(c) /\ b \in batch[c]
        BY <1>5, <1>9
      <4>2. m > Feed!Cursor(c) /\ m # n
        BY <1>0, <1>1, <3>3, <4>1
      <4>. QED
        BY <1>5, <1>9, <3>3, <4>1, <4>2
    <3>. QED
      BY <1>3, <1>8, <3>1, <3>2, <3>3 DEF ReadsNext
  <2>3. Sleeps(c)'
    BY <1>9 DEF Sleeps
  <2>. QED
    BY <1>0, <1>1, <1>3, <1>7, <1>9, <2>1, <2>2, <2>3 DEF Follows
<1>11. ASSUME NEW d \in Clients, d # c PROVE Follows(d)'
  <2>1. Follows(d) /\ d \in Clients \ {c}
    BY <1>11 DEF FeedInv
  <2>. QED
    BY <1>3, <1>7, <1>9, <2>1, OthersFollow
<1>12. FollowTyped'
  BY <1>3, <1>7, <1>9 DEF FeedInv, FollowTyped
<1>. QED
  BY <1>10, <1>11, <1>12

(* The steps in which a stream only begins, waits, wakes or breaks.        *)
LEMMA StreamMoves ==
    ASSUME FeedInv, NEW c \in Clients,
           Feed!Follow(c) \/ Feed!Arm(c) \/ Feed!Heartbeat(c) \/ Feed!Disconnect(c)
    PROVE  FollowTyped' /\ \A d \in Clients : Follows(d)'
<1>0. Follows(c) /\ stream \in [Clients -> {"off", "check", "send", "arm", "wait"}]
      /\ batch \in [Clients -> SUBSET (1..MaxRows)]
  BY DEF FeedInv, FollowTyped
<1>1. /\ UNCHANGED <<log, last, signal, signalled, inline, got, caught>>
      /\ \A d \in Clients \ {c} : stream'[d] = stream[d] /\ batch'[d] = batch[d]
      /\ stream' \in [Clients -> {"off", "check", "send", "arm", "wait"}]
      /\ batch' \in [Clients -> SUBSET (1..MaxRows)]
      /\ stream'[c] # "arm" /\ stream'[c] # "send"
      /\ stream'[c] = "wait" => stream[c] = "arm" /\ ~signal
      /\ batch'[c] = {}
  <2>1. CASE Feed!Follow(c)
    BY <1>0, <2>1 DEF Feed!Follow, Feed!readers, Follows, ReadsNext
  <2>2. CASE Feed!Arm(c)
    BY <1>0, <2>2 DEF Feed!Arm, Feed!readers, Follows, ReadsNext
  <2>3. CASE Feed!Heartbeat(c)
    BY <1>0, <2>3 DEF Feed!Heartbeat, Feed!readers, Follows, ReadsNext
  <2>4. CASE Feed!Disconnect(c)
    BY <1>0, <2>4 DEF Feed!Disconnect
  <2>. QED
    BY <2>1, <2>2, <2>3, <2>4
<1>2. Feed!Received(c)' = Feed!Received(c) /\ Feed!Cursor(c)' = Feed!Cursor(c)
  BY <1>1 DEF Feed!Cursor, Feed!Received
<1>3. Feed!Unread(c)' = Feed!Unread(c)
  BY <1>1, <1>2 DEF Feed!Unread
<1>4. Follows(c)'
  <2>1. Complete(c)'
    BY <1>0, <1>1, <1>2 DEF Follows, Complete
  <2>2. Sleeps(c)'
    BY <1>0, <1>1, <1>3 DEF Follows, Sleeps
  <2>3. ReadsNext(c)'
    BY <1>1 DEF ReadsNext
  <2>. QED
    BY <1>0, <1>1, <1>2, <2>1, <2>2, <2>3 DEF Follows
<1>5. ASSUME NEW d \in Clients, d # c PROVE Follows(d)'
  <2>1. Follows(d) /\ d \in Clients \ {c}
    BY <1>5 DEF FeedInv
  <2>. QED
    BY <1>1, <2>1, OthersFollow
<1>6. FollowTyped'
  BY <1>1 DEF FeedInv, FollowTyped
<1>. QED
  BY <1>4, <1>5, <1>6

(* Every step keeps all of it.                                             *)
LEMMA FeedStep == FeedInv /\ [Feed!Next]_feedVars => FeedInv'
<1> SUFFICES ASSUME FeedInv, [Feed!Next]_feedVars PROVE FeedInv'
  OBVIOUS
<1>1. CASE \/ Feed!StartTurn \/ Feed!Emit \/ Feed!EndTurn \/ Feed!CancelTurn \/ Feed!Title
           \/ Feed!Elsewhere \/ Feed!DeleteThread \/ Feed!ClearThread
  <2>1. StoredInv
    BY DEF FeedInv
  <2>2. /\ StoredInv'
        /\ \/ UNCHANGED <<log, last>>
           \/ last' = last + 1 /\ log' \subseteq log \cup {last'}
           \/ last' = last /\ log' = {}
        /\ Feed!Notify \/ Feed!Unheard
    BY <1>1, <2>1, WriterStores
  <2>3. FollowTyped' /\ \A c \in Clients : Follows(c)'
    BY <2>2, WriterKeeps
  <2>. QED
    BY <2>2, <2>3 DEF FeedInv
<1>2. ASSUME NEW c \in Clients,
             \/ \E limit, fit \in 1..PageCap : Feed!Page(c, limit, fit)
             \/ \E limit \in 1..PageCap : Feed!Read(c, limit)
             \/ Feed!Follow(c) \/ Feed!Arm(c) \/ Feed!Send(c) \/ Feed!Heartbeat(c)
             \/ Feed!Disconnect(c)
      PROVE  FeedInv'
  <2>1. StoredInv'
    <3>1. UNCHANGED <<log, last, exists, running, executing, titling, signalled, inline>>
          /\ signal' \in {signal, FALSE}
      BY <1>2 DEF Feed!Page, Feed!Read, Feed!Follow, Feed!Arm, Feed!Send, Feed!Heartbeat,
                  Feed!Disconnect, Feed!writers
    <3>. QED
      BY <3>1 DEF FeedInv, StoredInv, Feed!DeletedStaysEmpty
  <2>2. FollowTyped' /\ \A d \in Clients : Follows(d)'
    BY <1>2, PageKeeps, ReadKeeps, SendKeeps, StreamMoves
  <2>. QED
    BY <2>1, <2>2 DEF FeedInv
<1>3. CASE UNCHANGED feedVars
  <2>1. \A c \in Clients :
          /\ Feed!Received(c)' = Feed!Received(c) /\ Feed!Cursor(c)' = Feed!Cursor(c)
          /\ Feed!Unread(c)' = Feed!Unread(c)
    BY <1>3 DEF feedVars, Feed!Received, Feed!Cursor, Feed!Unread
  <2>2. \A c \in Clients : Follows(c)'
    BY <1>3, <2>1 DEF feedVars, FeedInv, Follows, Complete, Sleeps, ReadsNext
  <2>. QED
    BY <1>3, <2>2 DEF feedVars, FeedInv, StoredInv, FollowTyped, Feed!DeletedStaysEmpty
<1>. QED
  BY <1>1, <1>2, <1>3 DEF Feed!Next

(* A client of a thread's events misses none that is stored before the     *)
(* last it received or the end a page told it of, and gets none twice; no  *)
(* stream sleeps on events it was told of, except behind another stream;   *)
(* and a deleted thread stays empty (_follow_runtime_events,               *)
(* GET .../events).                                                        *)
THEOREM FeedCompleteHolds == ServerSpec => []FeedComplete
<1> DEFINE Inv == part = "feed" => FeedInv
<1>1. ServerInit => Inv
  BY FeedInit DEF ServerInit
<1>2. Inv /\ [ServerNext]_serverVars => Inv'
  <2> SUFFICES ASSUME part = "feed" => FeedInv, [ServerNext]_serverVars, part' = "feed"
               PROVE  FeedInv'
    OBVIOUS
  <2>1. part = "feed" /\ [Feed!Next]_feedVars
    BY DEF ServerNext, serverVars
  <2>. QED
    BY <2>1, FeedStep
<1>3. Inv => FeedComplete
  <2> SUFFICES ASSUME FeedInv PROVE Feed!TypeOK /\ Feed!NothingSkipped
                                    /\ Feed!NobodySleepsOnNews /\ Feed!DeletedStaysEmpty
    BY DEF FeedComplete
  <2>1. Feed!TypeOK
    <3>1. /\ last \in 0..MaxRows /\ log \subseteq 1..MaxRows /\ signalled \subseteq 1..MaxRows
          /\ executing \in 0..MaxRows
      BY FeedConstants DEF FeedInv, StoredInv
    <3>. QED
      BY <3>1, FeedSame DEF FeedInv, StoredInv, FollowTyped, Feed!TypeOK
  <2>2. Feed!NothingSkipped
    BY DEF FeedInv, Follows, Complete, Feed!NothingSkipped
  <2>3. Feed!NobodySleepsOnNews
    BY FeedSame DEF FeedInv, Follows, Sleeps, Feed!NobodySleepsOnNews
  <2>. QED
    BY <2>1, <2>2, <2>3 DEF FeedInv, StoredInv
<1>. QED
  BY <1>1, <1>2, <1>3, PTL DEF ServerSpec
=============================================================================
