------------------------------ MODULE Accounts ------------------------------
(***************************************************************************)
(* Web accounts, their sessions and the codes mailed to register and to    *)
(* reset a password (web_auth.py, mail.py, web_app.py /auth and /admin).   *)
(* An account has a fresh id and a version that every change of password   *)
(* raises; a session token carries both.  A code is kept once its mail is  *)
(* sent, which the event loop waits for, is good for one use, and goes     *)
(* after MaxAttempts wrong guesses or when its time is over.               *)
(***************************************************************************)
EXTENDS Naturals, FiniteSets

CONSTANTS Emails, Root,     \* Root is the address of the first administrator
          Nothing,          \* no account, no code, no time
          MaxAttempts, TTL, Resend,          \* the code's limits, in ticks
          MaxIds, MaxCodes, MaxTime, MaxTokens, MaxChanges   \* bounds
AccountsAssumption ==
    /\ Root \in Emails /\ MaxAttempts \in Nat \ {0} /\ TTL \in Nat /\ Resend \in Nat
    /\ {MaxIds, MaxCodes, MaxTime, MaxTokens, MaxChanges} \subseteq Nat /\ MaxIds > 0
    /\ Nothing \notin [id : Nat, version : Nat, admin : BOOLEAN, secret : Nat,
                       temporary : BOOLEAN]

VARIABLES users,       \* the users table, by address
          nextId,      \* the ids handed out
          tokens,      \* the session tokens handed out
          now,
          sending,     \* mails being sent
          pending,     \* MailCodeService._pending
          lastSent,    \* MailCodeService._last_sent
          nextCode,    \* the codes drawn
          changes,     \* the passwords chosen
          spent        \* observer: what became of each code

vars == <<users, nextId, tokens, now, sending, pending, lastSent, nextCode, changes, spent>>
mail == <<sending, pending, lastSent, nextCode>>

Purposes == {"register", "reset"}
Keys == Emails \X Purposes
\* "secret" stands for the password in force: a new one is never an old one
Account(id, admin, secret, temporary) ==
    [id |-> id, version |-> 0, admin |-> admin, secret |-> secret, temporary |-> temporary]

Init ==
    /\ users = [e \in Emails |-> IF e = Root THEN Account(0, TRUE, 0, FALSE) ELSE Nothing]
    /\ nextId = 1
    /\ tokens = {}
    /\ now = 0
    /\ sending = {}
    /\ pending = [k \in Keys |-> Nothing]
    /\ lastSent = [k \in Keys |-> Nothing]
    /\ nextCode = 0
    /\ changes = 0
    /\ spent = [c \in 0..MaxCodes - 1 |-> [guesses |-> 0, uses |-> 0]]

-----------------------------------------------------------------------------
\* POST /auth/email/code, and issue() up to its await
Issue(k) ==
    /\ nextCode < MaxCodes
    /\ k[2] = "register" <=> users[k[1]] = Nothing
    /\ lastSent[k] # Nothing => now - lastSent[k] >= Resend
    /\ nextCode' = nextCode + 1
    /\ sending' = sending \cup {[key |-> k, code |-> nextCode, at |-> now]}
    /\ UNCHANGED <<users, nextId, tokens, now, pending, lastSent, changes, spent>>

\* the mail is sent: a code sent before for the same purpose is replaced
Sent(m) ==
    /\ m \in sending
    /\ sending' = sending \ {m}
    /\ lastSent' = [lastSent EXCEPT ![m.key] = m.at]
    /\ pending' = [pending EXCEPT ![m.key] =
                      [code |-> m.code, expires |-> m.at + TTL, attempts |-> 0]]
    /\ UNCHANGED <<users, nextId, tokens, now, nextCode, changes, spent>>

SendFails(m) ==
    /\ m \in sending
    /\ sending' = sending \ {m}
    /\ UNCHANGED <<users, nextId, tokens, now, pending, lastSent, nextCode, changes, spent>>

Tick ==
    /\ now < MaxTime
    /\ now' = now + 1
    /\ UNCHANGED <<users, nextId, tokens, mail, changes, spent>>

\* verify(): a code that is right, one whose time is over, and one guess too
\* many take the entry away
Usable(k) == pending[k] # Nothing /\ now < pending[k].expires

GuessedForgiving(entry) == entry
Guessed(entry) == IF entry.attempts + 1 >= MaxAttempts THEN Nothing
                  ELSE [entry EXCEPT !.attempts = @ + 1]

WrongGuess(k) ==
    /\ pending[k] # Nothing
    /\ IF Usable(k)
       THEN /\ pending' = [pending EXCEPT ![k] = Guessed(@)]
            /\ spent' = [spent EXCEPT ![pending[k].code].guesses = @ + 1]
       ELSE /\ pending' = [pending EXCEPT ![k] = Nothing]
            /\ UNCHANGED spent

TakenCode(k) == [pending EXCEPT ![k] = Nothing]
RightGuess(k) ==
    /\ Usable(k)
    /\ pending' = TakenCode(k)
    /\ spent' = [spent EXCEPT ![pending[k].code].uses = @ + 1]

-----------------------------------------------------------------------------
NewPassword == changes < MaxChanges /\ changes' = changes + 1

\* create_user, with an id never used before
FreshId == nextId
Created(e, admin, temporary) ==
    /\ users[e] = Nothing
    /\ nextId < MaxIds
    /\ NewPassword
    /\ users' = [users EXCEPT ![e] = Account(FreshId, admin, changes', temporary)]
    /\ nextId' = nextId + 1

\* update_password
RaisedVersion(u) == u.version + 1
Changed(e, temporary) ==
    /\ NewPassword
    /\ users' = [users EXCEPT ![e] = [@ EXCEPT !.version = RaisedVersion(users[e]),
                                     !.secret = changes', !.temporary = temporary]]
    /\ UNCHANGED nextId

\* A password the store refuses leaves the account alone; the code is used up.
Refused == UNCHANGED <<users, nextId, changes>>

Register(e) ==
    /\ users[e] = Nothing
    /\ \/ RightGuess(<<e, "register">>) /\ (Created(e, FALSE, FALSE) \/ Refused)
       \/ WrongGuess(<<e, "register">>) /\ Refused
    /\ UNCHANGED <<tokens, now, sending, lastSent, nextCode>>

ResetOwn(e) ==
    /\ users[e] # Nothing
    /\ \/ RightGuess(<<e, "reset">>) /\ (Changed(e, FALSE) \/ Refused)
       \/ WrongGuess(<<e, "reset">>) /\ Refused
    /\ UNCHANGED <<tokens, now, sending, lastSent, nextCode>>

Login(e) ==
    /\ users[e] # Nothing
    /\ Cardinality(tokens) < MaxTokens
    /\ tokens' = tokens \cup {[id |-> users[e].id, version |-> users[e].version,
                              secret |-> users[e].secret]}
    /\ UNCHANGED <<users, nextId, now, mail, changes, spent>>

\* get_current_user: the account with the token's id, at the token's version
Accepted(t, e) == users[e] # Nothing /\ users[e].id = t.id /\ users[e].version = t.version

\* require_admin: by the account as it is now; a temporary password only
\* changes itself
Admin(t, e) == Accepted(t, e) /\ users[e].admin /\ ~users[e].temporary

ChangeOwn(t, e) ==
    /\ Accepted(t, e)
    /\ Changed(e, FALSE)
    /\ UNCHANGED <<tokens, now, mail, spent>>

AdminCreates(t, a, e) ==
    /\ Admin(t, a)
    /\ \E admin \in BOOLEAN : Created(e, admin, TRUE)
    /\ UNCHANGED <<tokens, now, mail, spent>>

AdminResets(t, a, e) ==
    /\ Admin(t, a)
    /\ users[e] # Nothing
    /\ Changed(e, TRUE)
    /\ UNCHANGED <<tokens, now, mail, spent>>

MayDelete(a, e) == a # e
AdminDeletes(t, a, e) ==
    /\ Admin(t, a)
    /\ users[e] # Nothing
    /\ MayDelete(a, e)
    /\ users' = [users EXCEPT ![e] = Nothing]
    /\ UNCHANGED <<nextId, tokens, now, mail, changes, spent>>

Next ==
    \/ \E k \in Keys : Issue(k)
    \/ \E m \in sending : Sent(m) \/ SendFails(m)
    \/ Tick
    \/ \E e \in Emails : Register(e) \/ ResetOwn(e) \/ Login(e)
    \/ \E t \in tokens, e \in Emails : ChangeOwn(t, e)
    \/ \E t \in tokens, a, e \in Emails :
           AdminCreates(t, a, e) \/ AdminResets(t, a, e) \/ AdminDeletes(t, a, e)

Spec == Init /\ [][Next]_vars

-----------------------------------------------------------------------------
TypeOK ==
    /\ \A e \in Emails : users[e] # Nothing =>
           users[e] \in [id : 0..MaxIds, version : Nat, admin : BOOLEAN,
                        secret : 0..MaxChanges, temporary : BOOLEAN]
    /\ nextId \in 1..MaxIds
    /\ tokens \subseteq [id : 0..MaxIds, version : Nat, secret : 0..MaxChanges]
    /\ now \in 0..MaxTime /\ nextCode \in 0..MaxCodes /\ changes \in 0..MaxChanges
    /\ sending \subseteq [key : Keys, code : 0..MaxCodes - 1, at : 0..MaxTime]
    /\ \A k \in Keys : pending[k] # Nothing =>
           pending[k] \in [code : 0..MaxCodes - 1, expires : Nat, attempts : 0..MaxAttempts - 1]

(***************************************************************************)
(* A session lasts no longer than the password it was opened with: no      *)
(* token is accepted after a change or a reset of the password, or by an   *)
(* account registered again under the address of a deleted one.            *)
(***************************************************************************)
SessionsEnd == \A t \in tokens, e \in Emails : Accepted(t, e) => users[e].secret = t.secret

(***************************************************************************)
(* Each code is good for one use, and only while fewer than MaxAttempts    *)
(* guesses at it were wrong, however many mails were under way at once.    *)
(***************************************************************************)
CodesBounded == \A c \in DOMAIN spent :
    /\ spent[c].uses <= 1
    /\ spent[c].guesses <= MaxAttempts
    /\ spent[c].uses = 1 => spent[c].guesses < MaxAttempts

(***************************************************************************)
(* Some administrator is left, whatever administrators do to each other.   *)
(***************************************************************************)
AdministratorLeft == \E e \in Emails : users[e] # Nothing /\ users[e].admin
=============================================================================
