----------------------------- MODULE Accounts -----------------------------
(***************************************************************************)
(* Accounts and credentials: AuthService with the dependencies of          *)
(* app/api/deps.py that authenticate a request.                            *)
(*                                                                         *)
(* A request that changes rows is cut at its await points: it reads what   *)
(* it needs (the address is free; the credential is accepted) and commits  *)
(* later, when the rows may have changed. Logging in and refreshing leave  *)
(* no row changed and are one step. A wrong password raises after it has   *)
(* counted the attempt, so get_session rolls the count back and nothing of *)
(* it is left: it takes no step, and failed_login_attempts stays 0.        *)
(***************************************************************************)
EXTENDS Integers

CONSTANTS
    Emails,         \* spellings of e-mail addresses; an account is named by the stored one
    Lower,          \* the spelling in lower case
    Strip,          \* the spelling without blanks around it
    Keys,           \* ids of API keys, each unguessable
    NoKey,          \* no API key: the request carries a bearer token
    NoOwner,        \* no account
    Handlers,       \* concurrent requests
    Endpoints,      \* the scopes that the endpoints in play require
    NoScope,        \* the endpoint requires an account and no scope
    AccessTTL,      \* settings.access_token_ttl_seconds
    RefreshTTL,     \* settings.refresh_token_ttl_seconds
    MaxTime         \* bound: the clock stops here

ASSUME LowerAssumption ==
    /\ Lower \in [Emails -> Emails]
    /\ \A e \in Emails : Lower[Lower[e]] = Lower[e]
ASSUME StripAssumption ==
    /\ Strip \in [Emails -> Emails]
    /\ \A e \in Emails : Strip[Strip[e]] = Strip[e] /\ Strip[Lower[e]] = Lower[Strip[e]]
ASSUME NoKeyAssumption == NoKey \notin Keys
ASSUME NoOwnerAssumption == NoOwner \notin Emails
ASSUME TTLAssumption == AccessTTL \in Nat /\ RefreshTTL \in Nat
ASSUME ScopeAssumption == NoScope \notin Endpoints
ASSUME TimeAssumption == MaxTime \in Nat

VARIABLES
    now,        \* the clock
    accounts,   \* committed rows of table users, per stored spelling
    active,     \* is_active of the account
    role,       \* its role
    keys,       \* table api_keys
    tokens,     \* the tokens that were issued
    seen,       \* when the account last logged in or refreshed
    pc,         \* where each request is
    user,       \* the account it adds or acts for
    via,        \* the API key that authenticated it, or NoKey
    stamp,      \* when it was authenticated
    target,     \* the key it revokes
    scope       \* the scope its endpoint requires, or NoScope

session == <<pc, user, via, stamp, target, scope>>
vars == <<now, accounts, active, role, keys, tokens, seen,
          pc, user, via, stamp, target, scope>>

Times == 0 .. MaxTime
KeyRow == [owner : Emails \cup {NoOwner}, revoked : BOOLEAN, used : Times]

Role == {"admin", "merchant", "viewer"}
Scope == {"payments:read", "payments:write", "refunds:write", "providers:manage", "admin:all"}
Token == [user : Emails, type : {"access", "refresh"}, exp : Nat]

Init ==
    /\ now = 0
    /\ accounts = [e \in Emails |-> 0]
    /\ active = [e \in Emails |-> TRUE]
    /\ role = [e \in Emails |-> "merchant"]
    /\ keys = [k \in Keys |-> [owner |-> NoOwner, revoked |-> FALSE, used |-> 0]]
    /\ tokens = {}
    /\ seen = [e \in Emails |-> 0]
    /\ pc = [h \in Handlers |-> "idle"]
    /\ user = [h \in Handlers |-> NoOwner]
    /\ via = [h \in Handlers |-> NoKey]
    /\ stamp = [h \in Handlers |-> 0]
    /\ target = [h \in Handlers |-> NoKey]
    /\ scope = [h \in Handlers |-> NoScope]

(* The session of h is closed. *)
Finish(h) ==
    /\ pc' = [pc EXCEPT ![h] = "idle"]
    /\ user' = [user EXCEPT ![h] = NoOwner]
    /\ via' = [via EXCEPT ![h] = NoKey]
    /\ stamp' = [stamp EXCEPT ![h] = 0]
    /\ target' = [target EXCEPT ![h] = NoKey]
    /\ scope' = [scope EXCEPT ![h] = NoScope]

-----------------------------------------------------------------------------
(* Registration, and the script that seeds an administrator *)

(* register and authenticate, before they look anything up. *)
Normalised(e) == Strip[Lower[e]]

(* email_exists compares with the stored spelling, in lower case. *)
EmailExists(e) == accounts[Lower[e]] > 0

(* The row that h is going to insert. *)
Adds(h, e, step) ==
    /\ pc[h] = "idle"
    /\ pc' = [pc EXCEPT ![h] = step]
    /\ user' = [user EXCEPT ![h] = e]
    /\ UNCHANGED <<now, accounts, active, role, keys, tokens, seen, via, stamp, target, scope>>

RegisterCheck(h, e) ==
    /\ ~EmailExists(Normalised(e))
    /\ Adds(h, Normalised(e), "registering")

(* scripts/seed.py, _seed: like the endpoint it checks before it inserts,   *)
(* and stores the address as it was given.                                  *)
SeedCheck(h, e) == ~EmailExists(e) /\ Adds(h, e, "seeding")

(* Mutant of EmailTaken: the column is not unique. *)
EmailNeverTaken(e) == FALSE

(* The unique constraint on users.email, which compares spellings. *)
EmailTaken(e) == accounts[e] > 0

AddUser(h, r) ==
    /\ ~EmailTaken(user[h])
    /\ accounts' = [accounts EXCEPT ![user[h]] = @ + 1]
    /\ role' = [role EXCEPT ![user[h]] = r]
    /\ Finish(h)
    /\ UNCHANGED <<now, active, keys, tokens, seen>>

RegisterCommit(h) == pc[h] = "registering" /\ AddUser(h, "merchant")

SeedCommit(h) == pc[h] = "seeding" /\ AddUser(h, "admin")

(* IntegrityError is not handled: a rollback and an answer of 500. *)
RegisterFails(h) ==
    /\ pc[h] \in {"registering", "seeding"}
    /\ EmailTaken(user[h])
    /\ Finish(h)
    /\ UNCHANGED <<now, accounts, active, role, keys, tokens, seen>>

-----------------------------------------------------------------------------
(* Roles and scopes *)

ScopesForRole(r) ==
    CASE r = "admin"    -> Scope
      [] r = "merchant" -> Scope \ {"admin:all"}
      [] r = "viewer"   -> {"payments:read"}

(* admin:all is a wildcard. *)
HasScope(granted, required) == "admin:all" \in granted \/ required \in granted

(* The account has the scope in the role it has now. *)
Holds(e, s) == HasScope(ScopesForRole(role[e]), s)

(* require_scope, of an endpoint that requires one. *)
RequireScope(e, s) == s = NoScope \/ Holds(e, s)

-----------------------------------------------------------------------------
(* Tokens *)

(* user is not None and user.is_active *)
Exists(e) == accounts[e] > 0 /\ active[e]

(* Mutant of Decodes: the type claim is not compared. *)
DecodesAnyType(t, type) == now < t.exp

(* TokenService.decode: a token this service signed, not expired, of the    *)
(* expected type.                                                           *)
Decodes(t, type) == now < t.exp /\ t.type = type

(* issue_tokens. Nothing reads the scopes that an access token carries, so  *)
(* they are left out.                                                       *)
Issue(e) ==
    /\ tokens' = tokens \cup {[user |-> e, type |-> "access", exp |-> now + AccessTTL],
                              [user |-> e, type |-> "refresh", exp |-> now + RefreshTTL]}
    /\ seen' = [seen EXCEPT ![e] = now]
    /\ UNCHANGED <<now, accounts, active, role, keys, session>>

(* Mutant of Login: the row is looked up as the address was typed. *)
LoginAsTyped(e) == Exists(e) /\ Issue(e)

(* The right password of an account that is not locked; get_by_email looks  *)
(* for the normalised address, whatever the spelling that was typed.        *)
Login(e) ==
    LET found == Lower[Normalised(e)]
    IN  Exists(found) /\ Issue(found)

Refresh(e) ==
    /\ \E t \in tokens : t.user = e /\ Decodes(t, "refresh")
    /\ Exists(e)
    /\ Issue(e)

-----------------------------------------------------------------------------
(* get_current_user and require_scope *)

Authenticated(h, e, k, s) ==
    /\ pc[h] = "idle"
    /\ pc' = [pc EXCEPT ![h] = "acting"]
    /\ user' = [user EXCEPT ![h] = e]
    /\ via' = [via EXCEPT ![h] = k]
    /\ stamp' = [stamp EXCEPT ![h] = now]
    /\ scope' = [scope EXCEPT ![h] = s]
    /\ UNCHANGED <<now, accounts, active, role, keys, tokens, seen, target>>

(* user_from_access_token *)
WithToken(h, s) ==
    \E t \in tokens : /\ Decodes(t, "access")
                      /\ Exists(t.user)
                      /\ RequireScope(t.user, s)
                      /\ Authenticated(h, t.user, NoKey, s)

(* Mutant of KeyAccepted: revoked_at and is_active are not looked at. *)
KeyFound(k) == keys[k].owner # NoOwner

KeyAccepted(k) == keys[k].owner # NoOwner /\ ~keys[k].revoked

(* Mutant of WithKey: scopes are a matter of tokens. *)
WithKeyUnscoped(h, s) ==
    \E k \in Keys : /\ KeyAccepted(k)
                    /\ Exists(keys[k].owner)
                    /\ Authenticated(h, keys[k].owner, k, s)

(* authenticate_api_key *)
WithKey(h, s) ==
    \E k \in Keys : /\ KeyAccepted(k)
                    /\ Exists(keys[k].owner)
                    /\ RequireScope(keys[k].owner, s)
                    /\ Authenticated(h, keys[k].owner, k, s)

-----------------------------------------------------------------------------
(* What an authenticated request does, and the commit of get_session *)

(* Mutant of Used: the UPDATE writes the whole row as it was read. *)
UsedWholeRow(h, rows) ==
    IF via[h] = NoKey THEN rows
    ELSE [rows EXCEPT ![via[h]].used = stamp[h], ![via[h]].revoked = FALSE]

(* The UPDATE of the key that authenticated the request: last_used_at only. *)
Used(h, rows) == IF via[h] = NoKey THEN rows ELSE [rows EXCEPT ![via[h]].used = stamp[h]]

(* generate_api_key: a key that no row holds. *)
Fresh(k) == keys[k].owner = NoOwner

(* create_api_key *)
CreateKey(h) ==
    /\ pc[h] = "acting"
    /\ scope[h] = NoScope
    /\ \E k \in Keys :
          /\ Fresh(k)
          /\ keys' = [Used(h, keys) EXCEPT ![k].owner = user[h]]
    /\ Finish(h)
    /\ UNCHANGED <<now, accounts, active, role, tokens, seen>>

(* revoke_api_key finds a key of the user; it may be revoked already. *)
FindKey(h, k) ==
    /\ pc[h] = "acting"
    /\ scope[h] = NoScope
    /\ keys[k].owner = user[h]
    /\ pc' = [pc EXCEPT ![h] = "revoking"]
    /\ target' = [target EXCEPT ![h] = k]
    /\ UNCHANGED <<now, accounts, active, role, keys, tokens, seen, user, via, stamp, scope>>

RevokeKey(h) ==
    /\ pc[h] = "revoking"
    /\ keys' = [Used(h, keys) EXCEPT ![target[h]].revoked = TRUE]
    /\ Finish(h)
    /\ UNCHANGED <<now, accounts, active, role, tokens, seen>>

(* Any other request: nothing of this module changes but last_used_at. *)
CommitUse(h) ==
    /\ pc[h] = "acting"
    /\ keys' = Used(h, keys)
    /\ Finish(h)
    /\ UNCHANGED <<now, accounts, active, role, tokens, seen>>

(* An error or a crash: the session is rolled back. *)
Rollback(h) ==
    /\ pc[h] # "idle"
    /\ Finish(h)
    /\ UNCHANGED <<now, accounts, active, role, keys, tokens, seen>>

-----------------------------------------------------------------------------
(* The environment: time, and an operator who deactivates accounts and      *)
(* changes roles                                                            *)

Tick ==
    /\ now < MaxTime
    /\ now' = now + 1
    /\ UNCHANGED <<accounts, active, role, keys, tokens, seen, session>>

Deactivate(e) ==
    /\ Exists(e)
    /\ active' = [active EXCEPT ![e] = FALSE]
    /\ UNCHANGED <<now, accounts, role, keys, tokens, seen, session>>

SetRole(e, r) ==
    /\ Exists(e)
    /\ role' = [role EXCEPT ![e] = r]
    /\ UNCHANGED <<now, accounts, active, keys, tokens, seen, session>>

Registration(h) ==
    \/ \E e \in Emails : RegisterCheck(h, e) \/ SeedCheck(h, e)
    \/ RegisterCommit(h) \/ SeedCommit(h) \/ RegisterFails(h)

Action(h) == \/ \E s \in Endpoints \cup {NoScope} : WithToken(h, s) \/ WithKey(h, s)
             \/ CreateKey(h)
             \/ (\E k \in Keys : FindKey(h, k))
             \/ RevokeKey(h) \/ CommitUse(h) \/ Rollback(h)

Next ==
    \/ \E h \in Handlers : Registration(h) \/ Action(h)
    \/ \E e \in Emails : Login(e) \/ Refresh(e) \/ Deactivate(e)
    \/ \E e \in Emails, r \in Role : SetRole(e, r)
    \/ Tick

Spec == Init /\ [][Next]_vars

-----------------------------------------------------------------------------
(* Properties *)

(* Every variable has its type. *)
TypeOK ==
    /\ now \in Times
    /\ accounts \in [Emails -> Nat]
    /\ active \in [Emails -> BOOLEAN]
    /\ role \in [Emails -> Role]
    /\ keys \in [Keys -> KeyRow]
    /\ tokens \subseteq Token
    /\ seen \in [Emails -> Times]
    /\ pc \in [Handlers -> {"idle", "registering", "seeding", "acting", "revoking"}]
    /\ user \in [Handlers -> Emails \cup {NoOwner}]
    /\ via \in [Handlers -> Keys \cup {NoKey}]
    /\ stamp \in [Handlers -> Times]
    /\ target \in [Handlers -> Keys \cup {NoKey}]
    /\ scope \in [Handlers -> Endpoints \cup {NoScope}]

(* The accounts that credentials were ever given for. *)
Credentialed == {t.user : t \in tokens} \cup ({keys[k].owner : k \in Keys} \ {NoOwner})

(* However registrations and seeding race, a spelling is stored once. An    *)
(* address may get a second row, seeded under another spelling, but all the *)
(* credentials for it are of one account, whatever spellings were typed to  *)
(* register and to log in.                                                  *)
OneAccountPerAddress ==
    /\ \A e \in Emails : accounts[e] =< 1
    /\ \A d, e \in Credentialed : Normalised(d) = Normalised(e) => d = e

(* A revocation is final: requests that read the key before it was revoked  *)
(* and commit later write last_used_at and nothing else.                    *)
RevokedForGood ==
    [][\A k \in Keys : keys[k].revoked => keys'[k].revoked]_vars

(* The requests in progress for account e, and those under key k. *)
ActingFor(e) == {h \in Handlers : pc[h] \in {"acting", "revoking"} /\ user[h] = e}
ActingWith(k) == {h \in ActingFor(keys[k].owner) : via[h] = k}

(* Once a key is revoked or an account deactivated, only requests that were *)
(* already in progress still act with it; they run out and none is added,   *)
(* whatever tokens are still unexpired.                                     *)
AccessRunsOut ==
    [][/\ \A k \in Keys : keys[k].revoked => ActingWith(k)' \subseteq ActingWith(k)
       /\ \A e \in Emails : ~active[e] => ActingFor(e)' \subseteq ActingFor(e)]_vars

(* The requests in progress for account e at endpoints that require s. *)
ActingIn(e, s) == {h \in ActingFor(e) : scope[h] = s}

(* A change of role takes effect at once: whatever its tokens were issued   *)
(* with and its keys created under, an account whose role lacks a scope has *)
(* only the requests left that entered before the change.                   *)
DemotionRunsOut ==
    [][\A e \in Emails, s \in Endpoints :
          ~Holds(e, s) => ActingIn(e, s)' \subseteq ActingIn(e, s)]_vars

(* Bearer tokens give access only within AccessTTL of a login or a refresh; *)
(* a refresh token, which lives longer, does not stand in for one.          *)
IdleSessionEnds ==
    \A h \in Handlers :
        pc[h] \in {"acting", "revoking"} /\ via[h] = NoKey =>
            stamp[h] < seen[user[h]] + AccessTTL
=============================================================================
