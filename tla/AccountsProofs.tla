-------------------------- MODULE AccountsProofs --------------------------
(***************************************************************************)
(* Theorems about accounts and credentials, for any addresses and          *)
(* spellings of them, any number of keys and concurrent requests and any   *)
(* token lifetimes.                                                        *)
(***************************************************************************)
EXTENDS Accounts, TLAPS

USE NoKeyAssumption, NoOwnerAssumption, TTLAssumption, TimeAssumption, ScopeAssumption

(* The steps of a check for a free address. *)
Steps == {"registering", "seeding"}

Acting(h) == pc[h] \in {"acting", "revoking"}

(* An access token expires within AccessTTL of the last time its account    *)
(* was seen, which is not in the future.                                    *)
TokenInv ==
    /\ \A e \in Emails : seen[e] =< now
    /\ \A t \in tokens : t.type = "access" => t.exp =< seen[t.user] + AccessTTL

(* A request acts for an account, a request that revokes has found a key of *)
(* that account, and no key is revoked before it exists.                    *)
SessionInv ==
    /\ \A h \in Handlers :
          /\ pc[h] # "idle" => user[h] \in Emails
          /\ pc[h] = "revoking" => target[h] \in Keys /\ keys[target[h]].owner = user[h]
          /\ Acting(h) /\ via[h] # NoKey => keys[via[h]].owner = user[h]
    /\ \A k \in Keys : keys[k].revoked => keys[k].owner # NoOwner

(* A spelling is stored once. *)
OneRow == \A e \in Emails : accounts[e] =< 1

(* Credentials are of accounts that are stored as they are looked up, and   *)
(* so is the account of every request.                                      *)
Normal(e) == Normalised(e) = e
NormalInv ==
    /\ \A t \in tokens : Normal(t.user)
    /\ \A k \in Keys : keys[k].owner # NoOwner => Normal(keys[k].owner)
    /\ \A h \in Handlers : Acting(h) => Normal(user[h])

AccountsInv ==
    /\ TypeOK
    /\ OneRow
    /\ NormalInv
    /\ TokenInv
    /\ IdleSessionEnds
    /\ SessionInv

(* The invariant holds before the first registration. *)
LEMMA AccountsInit == Init => AccountsInv
  BY DEF Init, AccountsInv, TypeOK, KeyRow, Times, Token, Role, OneRow, NormalInv, TokenInv,
         IdleSessionEnds, SessionInv, Acting

(* The row that a login looks for is stored as it is looked up. *)
LEMMA FoundIsNormal ==
  ASSUME NEW e \in Emails
  PROVE  /\ Normalised(e) \in Emails
         /\ Lower[Normalised(e)] \in Emails
         /\ Normal(Lower[Normalised(e)])
<1>1. Normalised(e) \in Emails /\ Lower[Normalised(e)] = Normalised(e)
  BY LowerAssumption, StripAssumption DEF Normalised
<1>2. Strip[Normalised(e)] = Normalised(e)
  BY LowerAssumption, StripAssumption DEF Normalised
<1> QED
  BY <1>1, <1>2 DEF Normal, Normalised

(* The credentials for an address are all of one account. *)
LEMMA OneAddress == AccountsInv => OneAccountPerAddress
<1> SUFFICES ASSUME AccountsInv PROVE OneAccountPerAddress
  OBVIOUS
<1>1. ASSUME NEW e \in Credentialed PROVE Normal(e)
  <2>1. CASE \E t \in tokens : e = t.user
    BY <2>1 DEF AccountsInv, NormalInv
  <2>2. CASE \E k \in Keys : e = keys[k].owner /\ e # NoOwner
    BY <2>2 DEF AccountsInv, NormalInv
  <2> QED
    BY <2>1, <2>2 DEF Credentialed
<1> QED
  BY <1>1 DEF AccountsInv, OneRow, OneAccountPerAddress, Normal

(* What the UPDATE of last_used_at leaves alone: the row's owner and its    *)
(* revocation.                                                              *)
LEMMA UsedKeeps ==
  ASSUME TypeOK, NEW h \in Handlers
  PROVE  /\ Used(h, keys) \in [Keys -> KeyRow]
         /\ \A k \in Keys : /\ Used(h, keys)[k].owner = keys[k].owner
                            /\ Used(h, keys)[k].revoked = keys[k].revoked
  BY DEF TypeOK, Used, KeyRow

(* Every step keeps every variable in its type. *)
LEMMA NextTypes == AccountsInv /\ [Next]_vars => TypeOK'
<1> SUFFICES ASSUME AccountsInv, [Next]_vars PROVE TypeOK'
  OBVIOUS
<1> USE DEF AccountsInv, TypeOK, Times, Token
<1>1. ASSUME NEW h \in Handlers, NEW e \in Emails, NEW step \in Steps, Adds(h, e, step)
      PROVE  TypeOK'
  BY <1>1 DEF Adds, Steps
<1>2. ASSUME NEW h \in Handlers, RegisterCommit(h) \/ SeedCommit(h) PROVE TypeOK'
  BY <1>2, SMTT(30) DEF RegisterCommit, SeedCommit, AddUser, Finish, SessionInv, Role
<1>3. ASSUME NEW h \in Handlers, RegisterFails(h) PROVE TypeOK'
  BY <1>3 DEF RegisterFails, Finish
<1>4. ASSUME NEW e \in Emails, Issue(e) PROVE TypeOK'
  BY <1>4 DEF Issue, session
<1>5. ASSUME NEW h \in Handlers, NEW e \in Emails, NEW k \in Keys \cup {NoKey},
             NEW s \in Endpoints \cup {NoScope}, Authenticated(h, e, k, s)
      PROVE  TypeOK'
  BY <1>5 DEF Authenticated
<1>6. ASSUME NEW h \in Handlers, CreateKey(h) PROVE TypeOK'
  <2>1. PICK k \in Keys : keys' = [Used(h, keys) EXCEPT ![k].owner = user[h]]
    BY <1>6 DEF CreateKey
  <2>2. keys' \in [Keys -> KeyRow]
    <3> DEFINE rows == Used(h, keys)
    <3>1. rows \in [Keys -> KeyRow]
      BY UsedKeeps
    <3>2. user[h] \in Emails
      BY <1>6 DEF CreateKey, SessionInv
    <3>3. keys' = [rows EXCEPT ![k].owner = user[h]]
      BY <2>1
    <3> HIDE DEF rows
    <3> QED
      BY <3>1, <3>2, <3>3 DEF KeyRow
  <2> QED
    BY <1>6, <2>2 DEF CreateKey, Finish
<1>7. ASSUME NEW h \in Handlers, NEW k \in Keys, FindKey(h, k) PROVE TypeOK'
  BY <1>7 DEF FindKey
<1>8. ASSUME NEW h \in Handlers, RevokeKey(h) PROVE TypeOK'
  <2>1. keys' \in [Keys -> KeyRow]
    <3> DEFINE rows == Used(h, keys)
    <3>1. rows \in [Keys -> KeyRow]
      BY UsedKeeps
    <3>2. keys' = [rows EXCEPT ![target[h]].revoked = TRUE]
      BY <1>8 DEF RevokeKey
    <3> HIDE DEF rows
    <3> QED
      BY <3>1, <3>2, ZenonT(40) DEF KeyRow
  <2> QED
    BY <1>8, <2>1 DEF RevokeKey, Finish
<1>9. ASSUME NEW h \in Handlers, CommitUse(h) PROVE TypeOK'
  <2>1. keys' \in [Keys -> KeyRow]
    BY <1>9, UsedKeeps DEF CommitUse
  <2> QED
    BY <1>9, <2>1 DEF CommitUse, Finish
<1>10. ASSUME NEW h \in Handlers, Rollback(h) PROVE TypeOK'
  BY <1>10 DEF Rollback, Finish
<1>11. CASE Tick
  BY <1>11 DEF Tick, session
<1>12. ASSUME NEW e \in Emails, Deactivate(e) PROVE TypeOK'
  BY <1>12 DEF Deactivate, session
<1>13. ASSUME NEW h \in Handlers, NEW s \in Endpoints \cup {NoScope}, WithKey(h, s)
       PROVE  TypeOK'
  <2>1. PICK k \in Keys : KeyAccepted(k) /\ Authenticated(h, keys[k].owner, k, s)
    BY <1>13 DEF WithKey
  <2>2. keys[k].owner \in Emails
    BY <2>1 DEF KeyAccepted, KeyRow
  <2> QED
    BY <1>5, <2>1, <2>2
<1>14. ASSUME NEW h \in Handlers, NEW s \in Endpoints \cup {NoScope}, WithToken(h, s)
       PROVE  TypeOK'
  <2>1. PICK t \in tokens : Authenticated(h, t.user, NoKey, s)
    BY <1>14 DEF WithToken
  <2>2. t.user \in Emails
    OBVIOUS
  <2> QED
    BY <1>5, <2>1, <2>2
<1>15. CASE UNCHANGED vars
  BY <1>15 DEF vars
<1>16. ASSUME NEW e \in Emails, NEW r \in Role, SetRole(e, r) PROVE TypeOK'
  BY <1>16 DEF SetRole, session
<1> QED
  BY <1>1, <1>2, <1>3, <1>4, <1>6, <1>7, <1>8, <1>9, <1>10, <1>11, <1>12,
     <1>13, <1>14, <1>15, <1>16, FoundIsNormal
     DEF Steps, Next, Registration, RegisterCheck, SeedCheck, Action, Login, Refresh

(* A key never changes its owner, is never reinstated, and is not revoked   *)
(* before it exists, whichever requests commit in between.                  *)
KeysStep ==
    \A k \in Keys : /\ keys[k].revoked => keys'[k].revoked
                    /\ keys[k].owner # NoOwner => keys'[k].owner = keys[k].owner
                    /\ keys'[k].revoked => keys'[k].owner # NoOwner

(* Every step treats the keys as KeysStep says.                             *)
LEMMA NextKeys == AccountsInv /\ [Next]_vars => KeysStep
<1> SUFFICES ASSUME AccountsInv, [Next]_vars PROVE KeysStep
  OBVIOUS
<1>1. TypeOK /\ SessionInv
  BY DEF AccountsInv
<1>2. CASE UNCHANGED keys
  BY <1>1, <1>2 DEF KeysStep, SessionInv
<1>3. ASSUME NEW h \in Handlers, CreateKey(h) PROVE KeysStep
  <2> DEFINE rows == Used(h, keys)
  <2>1. PICK k \in Keys : /\ keys[k].owner = NoOwner
                         /\ keys' = [rows EXCEPT ![k].owner = user[h]]
    BY <1>3 DEF CreateKey, Fresh
  <2>2. user[h] \in Emails
    BY <1>1, <1>3 DEF CreateKey, SessionInv
  <2>3. /\ rows \in [Keys -> KeyRow]
        /\ \A x \in Keys : rows[x].owner = keys[x].owner /\ rows[x].revoked = keys[x].revoked
    BY <1>1, UsedKeeps
  <2> HIDE DEF rows
  <2>4. keys'[k].owner = user[h] /\ keys'[k].revoked = keys[k].revoked
    BY <2>1, <2>3 DEF KeyRow
  <2>5. \A x \in Keys \ {k} : keys'[x].owner = keys[x].owner /\ keys'[x].revoked = keys[x].revoked
    BY <2>1, <2>3 DEF KeyRow
  <2> QED
    BY <1>1, <2>1, <2>2, <2>4, <2>5 DEF KeysStep, SessionInv
<1>4. ASSUME NEW h \in Handlers, RevokeKey(h) PROVE KeysStep
  <2> DEFINE rows == Used(h, keys)
  <2>1. keys' = [rows EXCEPT ![target[h]].revoked = TRUE]
    BY <1>4 DEF RevokeKey
  <2>2. /\ user[h] \in Emails
        /\ target[h] \in Keys
        /\ keys[target[h]].owner = user[h]
    BY <1>1, <1>4 DEF RevokeKey, SessionInv
  <2>3. /\ rows \in [Keys -> KeyRow]
        /\ \A x \in Keys : rows[x].owner = keys[x].owner /\ rows[x].revoked = keys[x].revoked
    BY <1>1, UsedKeeps
  <2> HIDE DEF rows
  <2>4. \A x \in Keys : keys'[x].owner = keys[x].owner
    BY <2>1, <2>3 DEF KeyRow
  <2>5. \A x \in Keys \ {target[h]} : keys'[x].revoked = keys[x].revoked
    BY <2>1, <2>3 DEF KeyRow
  <2>6. keys'[target[h]].revoked
    BY <2>1, <2>2, <2>3 DEF KeyRow
  <2> QED
    BY <1>1, <2>2, <2>4, <2>5, <2>6 DEF KeysStep, SessionInv
<1>5. ASSUME NEW h \in Handlers, CommitUse(h) PROVE KeysStep
  BY <1>1, <1>5, UsedKeeps DEF CommitUse, KeysStep, SessionInv
<1> QED
  BY <1>2, <1>3, <1>4, <1>5
     DEF Steps, Next, Registration, Action, RegisterCheck, SeedCheck, Adds, RegisterCommit,
         SeedCommit, AddUser, RegisterFails, Login, Refresh, Issue, WithToken, WithKey,
         Authenticated, FindKey, Rollback, Tick, Deactivate, SetRole, vars

(* Every step gives credentials to accounts with a normalised address only: *)
(* a login finds no other, and a key is created and a token refreshed by    *)
(* who has a credential already.                                            *)
LEMMA NextNormal == AccountsInv /\ [Next]_vars => NormalInv'
<1> SUFFICES ASSUME AccountsInv, [Next]_vars PROVE NormalInv'
  OBVIOUS
<1>1. TypeOK /\ SessionInv /\ NormalInv /\ KeysStep
  BY NextKeys DEF AccountsInv
<1>2. ASSUME UNCHANGED <<tokens, keys>>,
             \A h \in Handlers : Acting(h)' => (Acting(h) /\ user'[h] = user[h]) \/ Normal(user'[h])
      PROVE  NormalInv'
  BY <1>1, <1>2 DEF NormalInv, Normal, Normalised
<1>3. ASSUME NEW e \in Emails, Normal(e), Issue(e) PROVE NormalInv'
  <2>1. UNCHANGED <<keys, pc, user>>
    BY <1>3 DEF Issue, session
  <2>2. \A t \in tokens' : t \in tokens \/ t.user = e
    BY <1>3 DEF Issue
  <2> QED
    BY <1>1, <1>3, <2>1, <2>2 DEF NormalInv, Normal, Normalised, Acting
<1>4. ASSUME NEW h \in Handlers, CreateKey(h) \/ RevokeKey(h) \/ CommitUse(h)
      PROVE  NormalInv'
  <2>1. Acting(h) /\ UNCHANGED tokens /\ Finish(h)
    BY <1>4 DEF CreateKey, RevokeKey, CommitUse, Acting
  <2>2. \A k \in Keys : keys'[k].owner = keys[k].owner \/ keys'[k].owner = user[h]
    <3> DEFINE old == Used(h, keys)
    <3>1. /\ old \in [Keys -> KeyRow]
          /\ \A k \in Keys : old[k].owner = keys[k].owner
      BY <1>1, UsedKeeps
    <3>2. CASE keys' = old
      BY <3>1, <3>2
    <3>3. CASE \E k \in Keys : keys' = [old EXCEPT ![k].owner = user[h]]
      <4>1. PICK k \in Keys : keys' = [old EXCEPT ![k].owner = user[h]]
        BY <3>3
      <4> HIDE DEF old
      <4> QED
        BY <3>1, <4>1 DEF KeyRow
    <3>4. CASE keys' = [old EXCEPT ![target[h]].revoked = TRUE]
      <4> HIDE DEF old
      <4> QED
        BY <3>1, <3>4 DEF KeyRow
    <3> QED
      BY <1>4, <3>2, <3>3, <3>4 DEF CreateKey, RevokeKey, CommitUse
  <2>3. \A g \in Handlers : Acting(g)' => Acting(g) /\ user'[g] = user[g]
    BY <1>1, <2>1 DEF Finish, TypeOK, Acting
  <2>4. Normal(user[h])
    BY <1>1, <2>1 DEF NormalInv
  <2> QED
    BY <1>1, <2>1, <2>2, <2>3, <2>4 DEF NormalInv, Normal, Normalised
<1>5. ASSUME NEW h \in Handlers, NEW e \in Emails, NEW step \in Steps, Adds(h, e, step)
      PROVE  NormalInv'
  <2>1. \A g \in Handlers : Acting(g)' => Acting(g) /\ user'[g] = user[g]
    BY <1>1, <1>5 DEF Adds, Steps, TypeOK, Acting
  <2> QED
    BY <1>2, <1>5, <2>1 DEF Adds
<1>6. ASSUME NEW h \in Handlers, NEW s \in Endpoints \cup {NoScope}, WithToken(h, s)
      PROVE  NormalInv'
  <2>1. PICK t \in tokens : Authenticated(h, t.user, NoKey, s)
    BY <1>6 DEF WithToken
  <2>2. Normal(t.user)
    BY <1>1 DEF NormalInv
  <2>3. \A g \in Handlers : Acting(g)' => (Acting(g) /\ user'[g] = user[g]) \/ Normal(user'[g])
    BY <1>1, <2>1, <2>2 DEF Authenticated, TypeOK, Acting
  <2> QED
    BY <1>2, <2>1, <2>3 DEF Authenticated
<1>7. ASSUME NEW h \in Handlers, NEW s \in Endpoints \cup {NoScope}, WithKey(h, s)
      PROVE  NormalInv'
  <2>1. PICK k \in Keys : KeyAccepted(k) /\ Authenticated(h, keys[k].owner, k, s)
    BY <1>7 DEF WithKey
  <2>2. Normal(keys[k].owner)
    BY <1>1, <2>1 DEF NormalInv, KeyAccepted
  <2>3. \A g \in Handlers : Acting(g)' => (Acting(g) /\ user'[g] = user[g]) \/ Normal(user'[g])
    BY <1>1, <2>1, <2>2 DEF Authenticated, TypeOK, Acting
  <2> QED
    BY <1>2, <2>1, <2>3 DEF Authenticated
<1>8. ASSUME NEW h \in Handlers, NEW k \in Keys, FindKey(h, k) PROVE NormalInv'
  <2>1. \A g \in Handlers : Acting(g)' => Acting(g) /\ user'[g] = user[g]
    BY <1>1, <1>8 DEF FindKey, TypeOK, Acting
  <2> QED
    BY <1>2, <1>8, <2>1 DEF FindKey
<1>9. ASSUME NEW h \in Handlers, Finish(h), UNCHANGED <<tokens, keys>> PROVE NormalInv'
  <2>1. \A g \in Handlers : Acting(g)' => Acting(g) /\ user'[g] = user[g]
    BY <1>1, <1>9 DEF Finish, TypeOK, Acting
  <2> QED
    BY <1>2, <1>9, <2>1
<1>10. ASSUME UNCHANGED <<tokens, keys, pc, user>> PROVE NormalInv'
  BY <1>2, <1>10 DEF Acting
<1>11. ASSUME NEW e \in Emails, Login(e) PROVE NormalInv'
  BY <1>3, <1>11, FoundIsNormal DEF Login
<1>12. ASSUME NEW e \in Emails, Refresh(e) PROVE NormalInv'
  <2>1. Normal(e)
    BY <1>1, <1>12 DEF Refresh, NormalInv
  <2> QED
    BY <1>3, <1>12, <2>1 DEF Refresh
<1>13. ASSUME NEW h \in Handlers, Registration(h) PROVE NormalInv'
  BY <1>5, <1>9, <1>13, FoundIsNormal
     DEF Registration, RegisterCheck, SeedCheck, Steps, RegisterCommit, SeedCommit, AddUser,
         RegisterFails
<1>14. ASSUME NEW h \in Handlers, Action(h) PROVE NormalInv'
  BY <1>4, <1>6, <1>7, <1>8, <1>9, <1>14 DEF Action, Rollback
<1> QED
  BY <1>10, <1>11, <1>12, <1>13, <1>14 DEF Next, Tick, Deactivate, SetRole, session, vars

(* Every step keeps what the invariant says of addresses, tokens and        *)
(* requests.                                                                *)
LEMMA NextAccounts == AccountsInv /\ [Next]_vars => AccountsInv'
<1> SUFFICES ASSUME AccountsInv, [Next]_vars PROVE AccountsInv'
  OBVIOUS
<1>1. TypeOK' /\ KeysStep
  BY NextTypes, NextKeys
<1>2. OneRow'
  <2>1. CASE UNCHANGED accounts
    BY <2>1 DEF AccountsInv, OneRow
  <2>2. ASSUME NEW h \in Handlers, RegisterCommit(h) \/ SeedCommit(h) PROVE OneRow'
    <3>1. /\ accounts \in [Emails -> Nat]
          /\ ~(accounts[user[h]] > 0)
          /\ accounts' = [accounts EXCEPT ![user[h]] = @ + 1]
      BY <2>2 DEF AccountsInv, TypeOK, RegisterCommit, SeedCommit, AddUser, EmailTaken
    <3> QED
      BY <3>1 DEF AccountsInv, OneRow
  <2> QED
    BY <2>1, <2>2, ZenonT(40)
       DEF Steps, Next, Registration, Action, RegisterCheck, SeedCheck, Adds, RegisterFails,
           Login, Refresh, Issue, WithToken, WithKey, Authenticated, CreateKey, FindKey,
           RevokeKey, CommitUse, Rollback, Tick, Deactivate, SetRole, vars
<1>3. TokenInv' /\ (\A e \in Emails : seen'[e] >= seen[e])
  <2>1. ASSUME NEW e \in Emails, Issue(e)
        PROVE  TokenInv' /\ (\A x \in Emails : seen'[x] >= seen[x])
    BY <2>1 DEF AccountsInv, TypeOK, TokenInv, Issue, Token, Times
  <2>2. CASE Tick
    BY <2>2 DEF AccountsInv, TypeOK, TokenInv, Tick, Times, Token
  <2>3. CASE UNCHANGED <<now, tokens, seen>>
    BY <2>3 DEF AccountsInv, TypeOK, TokenInv, Times
  <2>4. ASSUME NEW e \in Emails, Login(e) \/ Refresh(e)
        PROVE  TokenInv' /\ (\A x \in Emails : seen'[x] >= seen[x])
    BY <2>1, <2>4, FoundIsNormal DEF Login, Refresh
  <2>5. ASSUME NEW h \in Handlers, Registration(h) \/ Action(h)
        PROVE  UNCHANGED <<now, tokens, seen>>
    BY <2>5, ZenonT(40)
       DEF Registration, RegisterCheck, SeedCheck, Adds, RegisterCommit, SeedCommit, AddUser,
           RegisterFails, Action, WithToken, WithKey, Authenticated, CreateKey, FindKey,
           RevokeKey, CommitUse, Rollback
  <2> QED
    BY <2>2, <2>3, <2>4, <2>5 DEF Next, Deactivate, SetRole, vars
<1>4. IdleSessionEnds' /\ SessionInv'
  <2> USE DEF AccountsInv
  <2>1. CASE UNCHANGED session
    BY <1>1, <1>3, <2>1 DEF session, TypeOK, IdleSessionEnds, SessionInv, KeysStep, Acting, Times
  <2>2. ASSUME NEW h \in Handlers, Finish(h) PROVE IdleSessionEnds' /\ SessionInv'
    BY <1>1, <1>3, <2>2 DEF Finish, TypeOK, IdleSessionEnds, SessionInv, KeysStep, Acting, Times
  <2>3. ASSUME NEW h \in Handlers, NEW e \in Emails, NEW step \in Steps, Adds(h, e, step)
        PROVE  IdleSessionEnds' /\ SessionInv'
    BY <1>1, <2>3 DEF Steps, Adds, TypeOK, IdleSessionEnds, SessionInv, KeysStep, Acting, Times
  <2>4. ASSUME NEW h \in Handlers, NEW k \in Keys, FindKey(h, k)
        PROVE  IdleSessionEnds' /\ SessionInv'
    BY <1>1, <2>4 DEF FindKey, TypeOK, IdleSessionEnds, SessionInv, KeysStep, Acting, Times
  <2>5. ASSUME NEW h \in Handlers, NEW s \in Endpoints \cup {NoScope}, WithKey(h, s)
        PROVE  IdleSessionEnds' /\ SessionInv'
    <3>1. PICK k \in Keys : KeyAccepted(k) /\ Authenticated(h, keys[k].owner, k, s)
      BY <2>5 DEF WithKey
    <3>2. keys[k].owner \in Emails
      BY <3>1 DEF KeyAccepted, TypeOK, KeyRow
    <3> QED
      BY <3>1, <3>2 DEF Authenticated, TypeOK, IdleSessionEnds, SessionInv, Acting
  <2>6. ASSUME NEW h \in Handlers, NEW s \in Endpoints \cup {NoScope}, WithToken(h, s)
        PROVE  IdleSessionEnds' /\ SessionInv'
    <3>1. PICK t \in tokens : Decodes(t, "access") /\ Authenticated(h, t.user, NoKey, s)
      BY <2>6 DEF WithToken
    <3>2. t.user \in Emails /\ t.exp \in Nat
      BY DEF TypeOK, Token
    <3>3. now < seen[t.user] + AccessTTL
      BY <3>1, <3>2 DEF Decodes, TokenInv, TypeOK, Times
    <3> QED
      BY <3>1, <3>2, <3>3 DEF Authenticated, TypeOK, IdleSessionEnds, SessionInv, Acting
  <2> QED
    BY <2>1, <2>2, <2>3, <2>4, <2>5, <2>6, FoundIsNormal
       DEF Steps, Next, Registration, Action, RegisterCheck, SeedCheck, RegisterCommit,
           SeedCommit, AddUser, RegisterFails, Login, Refresh,
           Issue, CreateKey, RevokeKey, CommitUse, Rollback, Tick, Deactivate, SetRole,
           vars, session
<1>5. NormalInv'
  BY NextNormal
<1> QED
  BY <1>1, <1>2, <1>3, <1>4, <1>5 DEF AccountsInv

(* The invariant of accounts and credentials holds in every reachable       *)
(* state.                                                                   *)
THEOREM AccountsInvariant == Spec => []AccountsInv
  BY AccountsInit, NextAccounts, PTL DEF Spec

(* The unique constraint stores a spelling once, and the lower-casing of    *)
(* logins leaves all credentials for an address with one account, for any   *)
(* number of concurrent registrations and any spellings.                    *)
THEOREM OneAccount == Spec => []OneAccountPerAddress
  BY OneAddress, AccountsInvariant, PTL

(* A refresh token never serves as an access token, so access by token ends *)
(* AccessTTL after the last login or refresh.                               *)
THEOREM SessionsEnd == Spec => []IdleSessionEnds
<1>1. AccountsInv => IdleSessionEnds
  BY DEF AccountsInv
<1> QED
  BY <1>1, AccountsInvariant, PTL

(* A revoked key stays revoked, whatever requests that read it before       *)
(* commit afterwards.                                                       *)
THEOREM RevocationIsFinal == Spec => RevokedForGood
<1>1. AccountsInv /\ [Next]_vars =>
        [\A k \in Keys : keys[k].revoked => keys'[k].revoked]_vars
  BY NextKeys DEF KeysStep
<1> QED
  BY <1>1, AccountsInvariant, PTL DEF Spec, RevokedForGood

(* Requests that act under a key or for an account become fewer once the    *)
(* key is revoked or the account deactivated, and those in a scope once the *)
(* account's role lacks it.                                                 *)
LEMMA NextActing ==
  AccountsInv /\ [Next]_vars =>
    /\ \A k \in Keys : keys[k].revoked => ActingWith(k)' \subseteq ActingWith(k)
    /\ \A e \in Emails : ~active[e] => ActingFor(e)' \subseteq ActingFor(e)
    /\ \A e \in Emails, s \in Endpoints : ~Holds(e, s) => ActingIn(e, s)' \subseteq ActingIn(e, s)
<1> SUFFICES ASSUME AccountsInv, [Next]_vars
             PROVE  /\ \A k \in Keys : keys[k].revoked => ActingWith(k)' \subseteq ActingWith(k)
                    /\ \A e \in Emails : ~active[e] => ActingFor(e)' \subseteq ActingFor(e)
                    /\ \A e \in Emails, s \in Endpoints :
                          ~Holds(e, s) => ActingIn(e, s)' \subseteq ActingIn(e, s)
  OBVIOUS
<1> DEFINE Stays(g) == /\ Acting(g)
                       /\ user'[g] = user[g] /\ via'[g] = via[g] /\ scope'[g] = scope[g]
           Joins(g) == Acting(g)' /\ ~Stays(g)
           Entitled(g) == /\ active[user'[g]]
                          /\ via'[g] # NoKey => ~keys[via'[g]].revoked
                          /\ scope'[g] # NoScope => Holds(user'[g], scope'[g])
<1>1. ASSUME NEW g \in Handlers, Joins(g)
      PROVE  Entitled(g)
  <2>1. ASSUME NEW h \in Handlers, NEW s \in Endpoints \cup {NoScope}, WithToken(h, s)
        PROVE  Entitled(g)
    <3>1. PICK t \in tokens : /\ Exists(t.user)
                              /\ RequireScope(t.user, s)
                              /\ Authenticated(h, t.user, NoKey, s)
      BY <2>1 DEF WithToken
    <3> QED
      BY <1>1, <3>1 DEF Authenticated, Exists, RequireScope, AccountsInv, TypeOK, Acting
  <2>2. ASSUME NEW h \in Handlers, NEW s \in Endpoints \cup {NoScope}, WithKey(h, s)
        PROVE  Entitled(g)
    <3>1. PICK k \in Keys : /\ KeyAccepted(k)
                            /\ Exists(keys[k].owner)
                            /\ RequireScope(keys[k].owner, s)
                            /\ Authenticated(h, keys[k].owner, k, s)
      BY <2>2 DEF WithKey
    <3> QED
      BY <1>1, <3>1 DEF Authenticated, Exists, RequireScope, KeyAccepted, AccountsInv, TypeOK, Acting
  <2>3. ASSUME NEW h \in Handlers, Finish(h) PROVE FALSE
    BY <1>1, <2>3 DEF Finish, AccountsInv, TypeOK, Acting
  <2>4. ASSUME NEW h \in Handlers, NEW e \in Emails, NEW step \in Steps, Adds(h, e, step)
        PROVE  FALSE
    BY <1>1, <2>4 DEF Steps, Adds, AccountsInv, TypeOK, Acting
  <2>5. ASSUME NEW h \in Handlers, NEW k \in Keys, FindKey(h, k) PROVE FALSE
    BY <1>1, <2>5 DEF FindKey, AccountsInv, TypeOK, Acting
  <2>6. ASSUME UNCHANGED session PROVE FALSE
    BY <1>1, <2>6 DEF session, Acting
  <2> QED
    BY <2>1, <2>2, <2>3, <2>4, <2>5, <2>6, FoundIsNormal
       DEF Steps, Next, Registration, Action, RegisterCheck, SeedCheck, RegisterCommit,
           SeedCommit, AddUser, RegisterFails, Login, Refresh,
           Issue, CreateKey, RevokeKey, CommitUse, Rollback, Tick, Deactivate, SetRole,
           vars, session
<1> HIDE DEF Joins
<1>2. \A g \in Handlers : Acting(g)' => Joins(g) \/ Stays(g)
  BY DEF Joins
<1>3. \A k \in Keys : keys[k].revoked => keys'[k].owner = keys[k].owner
  BY NextKeys DEF KeysStep, AccountsInv, SessionInv
<1>4. ASSUME NEW k \in Keys, keys[k].revoked PROVE ActingWith(k)' \subseteq ActingWith(k)
  BY <1>1, <1>2, <1>3, <1>4 DEF ActingWith, ActingFor, Acting
<1>5. ASSUME NEW e \in Emails, ~active[e] PROVE ActingFor(e)' \subseteq ActingFor(e)
  BY <1>1, <1>2, <1>5 DEF ActingFor, Acting
<1>6. ASSUME NEW e \in Emails, NEW s \in Endpoints, ~Holds(e, s)
      PROVE  ActingIn(e, s)' \subseteq ActingIn(e, s)
  BY <1>1, <1>2, <1>6 DEF ActingIn, ActingFor, Acting
<1> QED
  BY <1>4, <1>5, <1>6

(* Revoking a key or deactivating an account leaves only the requests that  *)
(* were in progress, for any number of requests, keys and live tokens.      *)
THEOREM AccessIsFinite == Spec => AccessRunsOut
  BY NextActing, AccountsInvariant, PTL DEF Spec, AccessRunsOut

(* A demotion leaves only the requests in a lost scope that were already in *)
(* progress, for any number of requests, keys and live tokens.              *)
THEOREM DemotionIsFinal == Spec => DemotionRunsOut
  BY NextActing, AccountsInvariant, PTL DEF Spec, DemotionRunsOut
=============================================================================
