------------------------------ MODULE MCServer ------------------------------
(* Instance for TLC of what the web server keeps beside its turns: the     *)
(* messages of a WeChat channel (Channel), the accounts and mail codes     *)
(* (Accounts), quotas and stored configurations (Billing), and the events  *)
(* its clients follow (EventFeed). They share no state: one of them runs   *)
(* in each behaviour and the others are Off. Channel objects, and clients, *)
(* are interchangeable.                                                    *)
EXTENDS Naturals, FiniteSets, TLC

CONSTANTS Off,   \* the state of what does not run
          Slots, Nobody, MaxQueue, MaxMessages, MaxEvents,
          Emails, Root, Nothing,
          MaxAttempts, TTL, Resend, MaxIds, MaxCodes, MaxTime, MaxTokens, MaxPasswords,
          Turns, Models, Grant, MaxCost, MaxMonth, MaxCalls, MaxChanges,
          Clients, Keep, PageCap, MaxRows

VARIABLES part,   \* what runs
    posted, cursor, inbox, keyed, retried, enabled, up, bound, refreshing, state, paused,
    queue, handling, active, pc, keyless, canceled, asks, events, abandoned, completions,
    users, nextId, tokens, now, sending, pending, lastSent, nextCode, passwords, spent,
    month, calls, changes, quota, ledger, resets, platform, stored, preset, turn, base,
    offered, resetCount,
    log, last, exists, running, executing, titling, signal, signalled, inline, stream,
    batch, got, caught

Chat == INSTANCE Channel
Web == INSTANCE Accounts WITH MaxChanges <- MaxPasswords, changes <- passwords
Money == INSTANCE Billing
Feed == INSTANCE EventFeed WITH MaxEvents <- MaxRows

channelVars == <<posted, cursor, inbox, keyed, retried, enabled, up, bound, refreshing, state,
                  paused, queue, handling, active, pc, keyless, canceled, asks, events,
                  abandoned, completions>>
accountsVars == <<users, nextId, tokens, now, sending, pending, lastSent, nextCode,
                   passwords, spent>>
billingVars == <<month, calls, changes, quota, ledger, resets, platform, stored, preset,
                  turn, base, offered, resetCount>>
feedVars == <<log, last, exists, running, executing, titling, signal, signalled,
              inline, stream, batch, got, caught>>

ASSUME ServerAssumption ==
    /\ Chat!ChannelAssumption /\ Web!AccountsAssumption /\ Money!BillingAssumption
    /\ Feed!EventFeedAssumption

ChannelOff ==
    /\ posted = Off /\ cursor = Off /\ inbox = Off /\ keyed = Off /\ retried = Off
    /\ enabled = Off /\ up = Off /\ bound = Off /\ refreshing = Off /\ state = Off
    /\ paused = Off /\ queue = Off /\ handling = Off /\ active = Off /\ pc = Off
    /\ keyless = Off /\ canceled = Off /\ asks = Off /\ events = Off /\ abandoned = Off
    /\ completions = Off
AccountsOff ==
    /\ users = Off /\ nextId = Off /\ tokens = Off /\ now = Off /\ sending = Off
    /\ pending = Off /\ lastSent = Off /\ nextCode = Off /\ passwords = Off /\ spent = Off
BillingOff ==
    /\ month = Off /\ calls = Off /\ changes = Off /\ quota = Off /\ ledger = Off
    /\ resets = Off /\ platform = Off /\ stored = Off /\ preset = Off /\ turn = Off
    /\ base = Off /\ offered = Off /\ resetCount = Off
FeedOff ==
    /\ log = Off /\ last = Off /\ exists = Off /\ running = Off /\ executing = Off
    /\ titling = Off /\ signal = Off /\ signalled = Off /\ inline = Off /\ stream = Off
    /\ batch = Off /\ got = Off /\ caught = Off

ServerInit ==
    \/ part = "channel" /\ Chat!Init /\ AccountsOff /\ BillingOff /\ FeedOff
    \/ part = "accounts" /\ Web!Init /\ ChannelOff /\ BillingOff /\ FeedOff
    \/ part = "billing" /\ Money!Init /\ ChannelOff /\ AccountsOff /\ FeedOff
    \/ part = "feed" /\ Feed!Init /\ ChannelOff /\ AccountsOff /\ BillingOff

ServerNext ==
    \/ part = "channel" /\ Chat!Next /\ UNCHANGED <<part, accountsVars, billingVars, feedVars>>
    \/ part = "accounts" /\ Web!Next /\ UNCHANGED <<part, channelVars, billingVars, feedVars>>
    \/ part = "billing" /\ Money!Next /\ UNCHANGED <<part, channelVars, accountsVars, feedVars>>
    \/ part = "feed" /\ Feed!Next /\ UNCHANGED <<part, channelVars, accountsVars, billingVars>>

serverVars == <<part, channelVars, accountsVars, billingVars, feedVars>>

ServerSpec == ServerInit /\ [][ServerNext]_serverVars

Symmetric == Permutations(Slots)

(* What the service will not send again is stored, a claimed message is in *)
(* somebody's hands, and one whose turn was completed under its key is     *)
(* never given to the agent again; a thread's turns run one at a time,     *)
(* also while channels are replaced (ChannelStore, WechatChannel._process, *)
(* WechatHub.refresh).                                                     *)
MessagesKept ==
    part = "channel" =>
        /\ Chat!TypeOK /\ Chat!NothingLost /\ Chat!ClaimedIsHeld
        /\ Chat!CompletedRunsOnce /\ Chat!OneTurnAtATime

(* No session outlives the password or the account it was opened for, some *)
(* administrator is left, and a mail code is used once and guessed at a    *)
(* bounded number of times (get_current_user, MailCodeService.verify).     *)
AccountsKept ==
    part = "accounts" =>
        /\ Web!TypeOK /\ Web!SessionsEnd /\ Web!AdministratorLeft /\ Web!CodesBounded

(* A client of a thread's events misses none that is stored, over pages,   *)
(* streams and broken connections, and no stream sleeps on news            *)
(* (_follow_runtime_events, GET .../events).                               *)
FeedComplete ==
    part = "feed" =>
        /\ Feed!TypeOK /\ Feed!NothingSkipped /\ Feed!NobodySleepsOnNews
        /\ Feed!DeletedStaysEmpty

(* The ledger explains every balance, which calls under way overdraw by    *)
(* their own cost only, and the platform's key is used only for models its *)
(* administrator chose (billing.py, PUT /v1/config).                       *)
MoneyAccounted ==
    part = "billing" =>
        Money!TypeOK /\ Money!LedgerTellsBalance /\ Money!OverdraftBounded /\ Money!PlatformKeyKept
=============================================================================
