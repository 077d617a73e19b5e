------------------------------ MODULE Billing ------------------------------
(***************************************************************************)
(* The web server's quota and ledger (billing.py), the model settings a     *)
(* user may store (web_app.py /v1/config), and the turns whose model calls  *)
(* they admit and charge (configure_billing; agent/core.py).  One user with *)
(* several turns at once, one provider; an amount is a small integer.  A    *)
(* call is admitted while the balance is positive and charged when its      *)
(* response is accepted, so that calls under way may overdraw the balance.  *)
(***************************************************************************)
EXTENDS Integers, FiniteSets

CONSTANTS Turns,
          Models,           \* model names a user may type or an administrator configure
          Grant,            \* DEFAULT_BALANCE_UNITS
          MaxCost,          \* bound: the cost of one call
          MaxMonth, MaxCalls, MaxChanges   \* bounds: months, calls, administrators' changes
BillingAssumption ==
    /\ IsFiniteSet(Turns) /\ Grant \in Nat /\ MaxCost \in Nat
    /\ MaxMonth \in Nat \ {0} /\ MaxCalls \in Nat /\ MaxChanges \in Nat

VARIABLES month, calls, changes,
          quota,       \* user_quotas: the balance and the monthly amount
          ledger,      \* usage_ledger: the sum of its costs
          resets,      \* billing_settings: enabled, and the period of the last reset
          platform,    \* the administrator's model for the provider
          stored,      \* the user's stored configuration
          preset,      \* the user's saved preset
          turn,        \* each turn's agent
          base,        \* observer: the amount last written over the balance, the ledger then
          offered,     \* observer: the models administrators have configured
          resetCount   \* observer: how often each month the balances were reset

vars == <<month, calls, changes, quota, ledger, resets, platform, stored, preset, turn,
          base, offered, resetCount>>
money == <<quota, ledger, resets, base, resetCount>>
settings == <<platform, stored, preset, offered>>

NoModel == "none"
Out == [at |-> "out"]

Init ==
    /\ month = 1 /\ calls = 0 /\ changes = 0
    /\ quota = [balance |-> Grant, monthly |-> Grant]
    /\ ledger = 0
    /\ resets = [enabled |-> FALSE, period |-> 0]
    /\ platform \in Models
    /\ stored = [key |-> "none", model |-> NoModel]
    /\ preset = NoModel
    /\ turn = [t \in Turns |-> Out]
    /\ base = [amount |-> Grant, from |-> 0]
    /\ offered = {platform}
    /\ resetCount = [m \in 1..MaxMonth |-> 0]

-----------------------------------------------------------------------------
\* _effective_user_config: the stored values go over the platform's
EffectiveModel == IF stored.model = NoModel THEN platform ELSE stored.model
EffectiveKey == IF stored.key = "none" THEN "platform" ELSE stored.key
\* _has_personal_provider_key: a blank key is none
Personal(key) == key = "mine"

\* PUT /v1/config: with the platform's key only the platform's model may be
\* set; every save writes the effective model down.
MayUse(model, key) ==
    Personal(stored.key) \/ key # "none" \/ model = platform

NewKey(key) == IF key = "none" THEN stored.key ELSE key
UpdateConfig ==
    /\ changes < MaxChanges
    /\ changes' = changes + 1
    /\ \E model \in Models \cup {EffectiveModel}, key \in {"none", "mine", "blank"} :
          /\ model # EffectiveModel => MayUse(model, key)
          /\ stored' = [key |-> NewKey(key), model |-> model]
    /\ UNCHANGED <<month, calls, money, platform, preset, offered, turn>>

SavePreset ==
    /\ changes < MaxChanges
    /\ changes' = changes + 1
    /\ preset' = EffectiveModel
    /\ UNCHANGED <<month, calls, money, platform, stored, offered, turn>>

ApplyPreset ==
    /\ preset # NoModel
    /\ stored' = [stored EXCEPT !.model = preset]
    /\ UNCHANGED <<month, calls, changes, money, platform, preset, offered, turn>>

\* The administrator edits the configuration and restarts the server: no turn
\* outlives it.
PlatformChanges ==
    /\ changes < MaxChanges
    /\ changes' = changes + 1
    /\ platform' \in Models
    /\ offered' = offered \cup {platform'}
    /\ turn' = [t \in Turns |-> Out]
    /\ UNCHANGED <<month, calls, money, stored, preset>>

-----------------------------------------------------------------------------
\* apply_monthly_reset, one transaction: at most once for a period
Due == resets.enabled /\ resets.period < month
Reset ==
    IF Due
    THEN /\ quota' = [quota EXCEPT !.balance = quota.monthly]
         /\ resets' = [resets EXCEPT !.period = month]
         /\ base' = [amount |-> quota.monthly, from |-> ledger]
         /\ resetCount' = [resetCount EXCEPT ![month] = @ + 1]
    ELSE UNCHANGED <<quota, resets, base, resetCount>>

MonthPasses ==
    /\ month < MaxMonth
    /\ month' = month + 1
    /\ UNCHANGED <<calls, changes, money, settings, turn>>

SetMonthlyReset == \E on \in BOOLEAN :
    /\ changes < MaxChanges
    /\ changes' = changes + 1
    /\ resets' = [enabled |-> on, period |-> IF on THEN month ELSE resets.period]
    /\ UNCHANGED <<month, calls, quota, ledger, base, resetCount, settings, turn>>

\* PUT /admin/users/{id}/quota: the balance is written, and the quota read back,
\* which resets it when that is due
Written(b, m) ==
    /\ quota' = [balance |-> IF Due THEN m ELSE b, monthly |-> m]
    /\ base' = [amount |-> IF Due THEN m ELSE b, from |-> ledger]
    /\ resets' = IF Due THEN [resets EXCEPT !.period = month] ELSE resets
    /\ resetCount' = IF Due THEN [resetCount EXCEPT ![month] = @ + 1] ELSE resetCount
SetQuota == \E b \in -1..Grant, m \in {0, Grant} :
    /\ changes < MaxChanges
    /\ changes' = changes + 1
    /\ Written(b, m)
    /\ UNCHANGED <<month, calls, ledger, settings, turn>>

-----------------------------------------------------------------------------
\* what quota() returned is positive
AffordsAny == TRUE
Affords == quota'.balance > 0

\* POST .../turns refuses a turn without a balance, unless the user's own key
\* will be used
Admits(t) ==
    /\ turn[t] = Out
    /\ IF Personal(stored.key) THEN UNCHANGED <<quota, resets, base, resetCount>> ELSE Reset
    /\ turn' = [turn EXCEPT ![t] = IF Personal(stored.key) \/ Affords
                                   THEN [at |-> "admitted"] ELSE Out]
    /\ UNCHANGED <<month, calls, changes, ledger, settings>>

\* the turn's agent, and configure_billing
Builds(t) ==
    /\ turn[t].at = "admitted"
    /\ turn' = [turn EXCEPT ![t] = [at |-> "ready", key |-> EffectiveKey,
                                    model |-> EffectiveModel, billed |-> ~Personal(stored.key)]]
    /\ UNCHANGED <<month, calls, changes, money, settings>>

\* ensure_quota, before each model call
Calls(t) ==
    /\ turn[t].at = "ready"
    /\ calls < MaxCalls
    /\ calls' = calls + 1
    /\ IF turn[t].billed
       THEN /\ Reset
            /\ turn' = [turn EXCEPT ![t] = IF Affords THEN [@ EXCEPT !.at = "calling"] ELSE Out]
       ELSE /\ turn' = [turn EXCEPT ![t].at = "calling"]
            /\ UNCHANGED <<quota, resets, base, resetCount>>
    /\ UNCHANGED <<month, changes, ledger, settings>>

\* charge: the ledger and the balance in one transaction
Charge(cost) ==
    /\ ledger' = ledger + cost
    /\ quota' = [quota EXCEPT !.balance = @ - cost]

Responds(t) ==
    /\ turn[t].at = "calling"
    /\ turn' = [turn EXCEPT ![t].at = "ready"]
    /\ IF turn[t].billed THEN \E cost \in 0..MaxCost : Charge(cost)
                         ELSE UNCHANGED <<ledger, quota>>
    /\ UNCHANGED <<month, calls, changes, resets, base, resetCount, settings>>

\* The turn ends, fails, or is cancelled: a response it no longer wants is not
\* charged.
Ends(t) ==
    /\ turn[t] # Out
    /\ turn' = [turn EXCEPT ![t] = Out]
    /\ UNCHANGED <<month, calls, changes, money, settings>>

Next ==
    \/ UpdateConfig \/ SavePreset \/ ApplyPreset \/ PlatformChanges
    \/ MonthPasses \/ SetMonthlyReset \/ SetQuota
    \/ \E t \in Turns : Admits(t) \/ Builds(t) \/ Calls(t) \/ Responds(t) \/ Ends(t)

Spec == Init /\ [][Next]_vars

-----------------------------------------------------------------------------
TypeOK ==
    /\ month \in 1..MaxMonth /\ calls \in 0..MaxCalls /\ changes \in 0..MaxChanges
    /\ quota \in [balance : Int, monthly : Nat]
    /\ ledger \in Nat
    /\ resets \in [enabled : BOOLEAN, period : 0..MaxMonth]
    /\ platform \in Models /\ offered \subseteq Models
    /\ stored \in [key : {"none", "mine", "blank"}, model : Models \cup {NoModel}]
    /\ preset \in Models \cup {NoModel}
    /\ \A t \in Turns : turn[t].at \in {"ready", "calling"} =>
           /\ turn[t].key \in {"platform", "mine", "blank"}
           /\ turn[t].model \in Models

UnderWay == {t \in Turns : turn[t].at = "calling" /\ turn[t].billed}

(***************************************************************************)
(* The balance is what the ledger says: the amount last written, by an     *)
(* administrator or a monthly reset, less what was charged since; and a    *)
(* month resets it at most once, whoever reads the quota first.            *)
(***************************************************************************)
LedgerTellsBalance ==
    /\ quota.balance = base.amount - (ledger - base.from)
    /\ \A m \in 1..MaxMonth : resetCount[m] <= 1

(***************************************************************************)
(* The balance is overdrawn by the calls that were under way together and  *)
(* no others: each of the turns by one call.                               *)
(***************************************************************************)
Least(a, b) == IF a < b THEN a ELSE b
OverdraftBounded ==
    quota.balance >= Least(base.amount, 1)
                     - MaxCost * (Cardinality(Turns) - Cardinality(UnderWay))

(***************************************************************************)
(* A call made with the platform's key asks for a model that an            *)
(* administrator has offered, and is charged; whatever was stored, applied *)
(* from a preset or changed between the turn's admission and its calls.    *)
(***************************************************************************)
PlatformKeyKept == \A t \in Turns :
    turn[t].at \in {"ready", "calling"} /\ turn[t].key = "platform" =>
        turn[t].model \in offered /\ turn[t].billed
=============================================================================
