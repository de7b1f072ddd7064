------------------------- MODULE CredentialsProofs -------------------------
(***************************************************************************)
(* Theorems about provider credentials, for any number of tenants, keys,   *)
(* rows, processes and requests.                                           *)
(***************************************************************************)
EXTENDS Credentials, TLAPS

(* An operator seals a tenant's own secrets for that tenant; copying a row  *)
(* to another owner does not change what it was sealed for.                 *)
SealedInv == \A r \in Rows : table[r] # None => table[r].token.secret.owner = table[r].token.aad

(* No production process runs on the default key. *)
ReadyInv ==
    \A p \in Processes : process[p] # None /\ process[p].production =>
        \A i \in KeyIds : process[p].box.keys[i] # DefaultKey

(* A request with an adapter belongs to a running process, whose key opened *)
(* the token for the request's owner.                                       *)
AdapterInv ==
    /\ \A h \in Handlers : adapter[h] # None => process[adapter[h].process] # None
    /\ \A h \in Carrying :
          LET t == adapter[h].token IN
              /\ t.secret.owner = t.aad
              /\ t.aad = adapter[h].owner
              /\ process[adapter[h].process].box.keys[t.kid] = t.key

CredentialsInv == TypeOK /\ SealedInv /\ ReadyInv /\ AdapterInv

(* The invariant holds in an empty deployment. *)
LEMMA CredentialsInit == Init => CredentialsInv
  BY DEF Init, CredentialsInv, TypeOK, SealedInv, ReadyInv, AdapterInv, Carrying

(* Starting a process keeps the invariant: assert_production_ready.         *)
LEMMA StartKeeps ==
  ASSUME CredentialsInv, NEW p \in Processes, StartProcess(p)
  PROVE  CredentialsInv'
<1>1. PICK production \in BOOLEAN, hardened \in BOOLEAN, key \in MasterKeys :
        /\ process[p] = None
        /\ ProductionReady(production, key, hardened)
        /\ process' = [process EXCEPT ![p] = [production |-> production, box |-> FromSingleKey(key)]]
        /\ UNCHANGED <<table, adapter>>
  BY DEF StartProcess
<1>2. /\ FromSingleKey(key) \in Box
      /\ \A i \in KeyIds : FromSingleKey(key).keys[i] = key
  BY DEF FromSingleKey, Box, KeyIds
<1>3. TypeOK'
  BY <1>1, <1>2 DEF CredentialsInv, TypeOK, Process
<1>4. SealedInv'
  BY <1>1 DEF CredentialsInv, SealedInv
<1>5. ReadyInv'
  BY <1>1, <1>2 DEF CredentialsInv, TypeOK, ReadyInv, ProductionReady
<1>6. AdapterInv'
  <2>1. \A h \in Handlers : adapter[h] # None => adapter[h].process # p
    BY <1>1 DEF CredentialsInv, AdapterInv
  <2>2. \A h \in Handlers : adapter[h] # None =>
          adapter[h].process \in Processes /\ process'[adapter[h].process] = process[adapter[h].process]
    BY <1>1, <2>1 DEF CredentialsInv, TypeOK, Adapter
  <2> QED
    BY <1>1, <2>2 DEF CredentialsInv, AdapterInv, Carrying
<1> QED
  BY <1>3, <1>4, <1>5, <1>6 DEF CredentialsInv

(* Stopping a process takes its requests with it.                           *)
LEMMA StopKeeps ==
  ASSUME CredentialsInv, NEW p \in Processes, StopProcess(p)
  PROVE  CredentialsInv'
<1>1. TypeOK' /\ SealedInv' /\ ReadyInv'
  BY DEF CredentialsInv, StopProcess, TypeOK, SealedInv, ReadyInv
<1>2. \A h \in Handlers : adapter'[h] # None => adapter'[h] = adapter[h] /\ adapter[h].process # p
  BY DEF StopProcess
<1>3. \A h \in Handlers : adapter'[h] # None =>
        process'[adapter[h].process] = process[adapter[h].process]
  BY <1>2 DEF CredentialsInv, TypeOK, Adapter, StopProcess
<1> QED
  BY <1>1, <1>2, <1>3 DEF CredentialsInv, AdapterInv, Carrying

(* A request is given an adapter only with its owner's secret, opened by    *)
(* its own process.                                                         *)
LEMMA RequestKeeps ==
  ASSUME CredentialsInv, NEW h \in Handlers, NEW p \in Processes, NEW o \in Owners,
         NEW pr \in Providers,
         GetProvider(h, p, o, pr) \/ Fallback(h, p, o) \/ EndRequest(h)
  PROVE  CredentialsInv'
<1> USE DEF CredentialsInv
<1>1. CASE GetProvider(h, p, o, pr)
  <2>1. PICK r \in Rows : /\ Configured(o, pr) = {r}
                          /\ Decrypts(process[p].box, table[r].token, o)
                          /\ Give(h, p, o, pr, table[r].token)
    BY <1>1 DEF GetProvider
  <2>2. process[p] # None /\ table[r] # None
    BY <1>1, <2>1 DEF GetProvider, Configured
  <2>3. table[r].token \in Token
    BY <2>2 DEF TypeOK, Row
  <2>4. TypeOK'
    BY <2>1, <2>3 DEF TypeOK, Give, Adapter
  <2>5. AdapterInv'
    BY <2>1, <2>2, <2>3 DEF TypeOK, Give, Adapter, AdapterInv, Carrying, Decrypts, SealedInv
  <2> QED
    BY <2>1, <2>4, <2>5 DEF Give, SealedInv, ReadyInv
<1>2. CASE Fallback(h, p, o)
  <2>1. process[p] # None /\ Give(h, p, o, "mock", None)
    BY <1>2 DEF Fallback
  <2>2. TypeOK'
    BY <2>1 DEF TypeOK, Give, Adapter, Providers
  <2>3. AdapterInv'
    BY <2>1 DEF TypeOK, Give, AdapterInv, Carrying
  <2> QED
    BY <2>1, <2>2, <2>3 DEF Give, SealedInv, ReadyInv
<1>3. CASE EndRequest(h)
  BY <1>3 DEF EndRequest, TypeOK, SealedInv, ReadyInv, AdapterInv, Carrying
<1> QED
  BY <1>1, <1>2, <1>3

(* Whatever the operator does to the table, a token names the tenant it was *)
(* sealed for.                                                              *)
LEMMA OperatorKeeps ==
  ASSUME CredentialsInv, Operator
  PROVE  CredentialsInv'
<1> USE DEF CredentialsInv
<1>1. UNCHANGED <<process, adapter>> /\ TypeOK' /\ SealedInv'
  <2>1. ASSUME NEW r \in Rows, NEW o \in Owners, NEW pr \in Providers, NEW v \in Versions,
               NEW key \in MasterKeys, StoreSecret(r, o, pr, v, key)
        PROVE  UNCHANGED <<process, adapter>> /\ TypeOK' /\ SealedInv'
    <3> DEFINE t == Encrypt(FromSingleKey(key), [owner |-> o, version |-> v], o)
    <3>1. t \in Token /\ t.secret.owner = t.aad
      BY DEF Encrypt, FromSingleKey, Token, Secret, KeyIds
    <3>2. table' = [table EXCEPT ![r] = [owner |-> o, provider |-> pr, active |-> TRUE,
                                         token |-> t]]
      BY <2>1 DEF StoreSecret
    <3> HIDE DEF t
    <3> QED
      BY <2>1, <3>1, <3>2 DEF StoreSecret, TypeOK, SealedInv, Row
  <2>2. ASSUME NEW r \in Rows, NEW s \in Rows, NEW o \in Owners, CopyRow(r, s, o)
        PROVE  UNCHANGED <<process, adapter>> /\ TypeOK' /\ SealedInv'
    <3> DEFINE copy == [table[r] EXCEPT !.owner = o, !.active = TRUE]
    <3>1. table[r] # None /\ table[r] \in Row
      BY <2>2 DEF CopyRow, TypeOK
    <3>2. copy \in Row /\ copy.token = table[r].token
      BY <3>1 DEF Row
    <3>3. table' = [table EXCEPT ![s] = copy]
      BY <2>2 DEF CopyRow
    <3> HIDE DEF copy
    <3> QED
      BY <2>2, <3>1, <3>2, <3>3 DEF CopyRow, TypeOK, SealedInv
  <2>3. ASSUME NEW r \in Rows, Disable(r)
        PROVE  UNCHANGED <<process, adapter>> /\ TypeOK' /\ SealedInv'
    BY <2>3, ZenonT(40) DEF Disable, TypeOK, SealedInv, Row
  <2> QED
    BY <2>1, <2>2, <2>3 DEF Operator
<1> QED
  BY <1>1 DEF ReadyInv, AdapterInv, Carrying

(* Every step keeps the invariant. *)
LEMMA NextCredentials == CredentialsInv /\ [Next]_vars => CredentialsInv'
<1> SUFFICES ASSUME CredentialsInv, [Next]_vars PROVE CredentialsInv'
  OBVIOUS
<1>1. CASE UNCHANGED vars
  BY <1>1 DEF vars, CredentialsInv, TypeOK, SealedInv, ReadyInv, AdapterInv, Carrying
<1>2. ASSUME NEW h \in Handlers, EndRequest(h) PROVE CredentialsInv'
  BY <1>2 DEF CredentialsInv, EndRequest, TypeOK, SealedInv, ReadyInv, AdapterInv, Carrying
<1>3. ASSUME NEW h \in Handlers, NEW p \in Processes, NEW o \in Owners, Fallback(h, p, o)
      PROVE  CredentialsInv'
  BY <1>3, RequestKeeps DEF Providers
<1> QED
  BY <1>1, <1>2, <1>3, StartKeeps, StopKeeps, RequestKeeps, OperatorKeeps DEF Next

(* Tokens, processes and adapters agree in every reachable state.           *)
THEOREM CredentialsInvariant == Spec => []CredentialsInv
  BY CredentialsInit, NextCredentials, PTL DEF Spec

(* No request carries the secret of a tenant it does not act for, however   *)
(* the rows of provider_configs are moved.                                  *)
THEOREM SecretsStay == Spec => []SecretsStayWithOwner
<1>1. CredentialsInv => SecretsStayWithOwner
  BY DEF CredentialsInv, AdapterInv, SecretsStayWithOwner
<1> QED
  BY <1>1, CredentialsInvariant, PTL

(* What was sealed under the default key is out of reach of a production    *)
(* process, whichever processes run beside it on the same rows.             *)
THEOREM DefaultKeyUseless == Spec => []ProductionNeverDefault
<1>1. CredentialsInv => ProductionNeverDefault
  BY DEF CredentialsInv, TypeOK, Adapter, Token, AdapterInv, ReadyInv, Carrying,
         ProductionNeverDefault
<1> QED
  BY <1>1, CredentialsInvariant, PTL

(* A withdrawn secret is taken up by no further request.                    *)
THEOREM WithdrawalIsFinal == Spec => WithdrawnRunsOut
<1>1. ASSUME CredentialsInv, [Next]_vars, NEW o \in Owners, NEW s \in Secret, ~InUse(o, s)
      PROVE  CarryingSecret(o, s)' \subseteq CarryingSecret(o, s)
  <2>1. ASSUME NEW h \in Handlers, NEW p \in Processes, NEW w \in Owners, NEW pr \in Providers,
               GetProvider(h, p, w, pr)
        PROVE  CarryingSecret(o, s)' \subseteq CarryingSecret(o, s)
    <3>1. PICK r \in Rows : Configured(w, pr) = {r} /\ Give(h, p, w, pr, table[r].token)
      BY <2>1 DEF GetProvider
    <3>2. table[r] # None /\ table[r].owner = w /\ table[r].active
      BY <3>1 DEF Configured
    <3>3. ~(w = o /\ table[r].token.secret = s)
      BY <1>1, <3>2 DEF InUse
    <3> QED
      BY <1>1, <3>1, <3>3 DEF Give, CredentialsInv, TypeOK, CarryingSecret, Carrying
  <2>2. ASSUME NEW h \in Handlers, NEW p \in Processes, NEW w \in Owners, Fallback(h, p, w)
        PROVE  CarryingSecret(o, s)' \subseteq CarryingSecret(o, s)
    BY <1>1, <2>2 DEF Fallback, Give, CredentialsInv, TypeOK, CarryingSecret, Carrying
  <2>3. ASSUME NEW h \in Handlers, EndRequest(h)
        PROVE  CarryingSecret(o, s)' \subseteq CarryingSecret(o, s)
    BY <1>1, <2>3 DEF EndRequest, CredentialsInv, TypeOK, CarryingSecret, Carrying
  <2>4. ASSUME NEW p \in Processes, StopProcess(p)
        PROVE  CarryingSecret(o, s)' \subseteq CarryingSecret(o, s)
    BY <2>4 DEF StopProcess, CarryingSecret, Carrying
  <2>5. ASSUME UNCHANGED adapter PROVE CarryingSecret(o, s)' \subseteq CarryingSecret(o, s)
    BY <2>5 DEF CarryingSecret, Carrying
  <2> QED
    BY <1>1, <2>1, <2>2, <2>3, <2>4, <2>5
       DEF Next, StartProcess, Operator, StoreSecret, CopyRow, Disable, vars
<1>2. CredentialsInv /\ [Next]_vars =>
        [\A o \in Owners, s \in Secret :
            ~InUse(o, s) => CarryingSecret(o, s)' \subseteq CarryingSecret(o, s)]_vars
  BY <1>1
<1> QED
  BY <1>2, CredentialsInvariant, PTL DEF Spec, WithdrawnRunsOut
=============================================================================
