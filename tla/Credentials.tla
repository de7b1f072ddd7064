---------------------------- MODULE Credentials ----------------------------
(***************************************************************************)
(* Provider credentials at rest: SecretBox, table provider_configs, and    *)
(* GatewayManager.get_provider, which opens a tenant's secret for every    *)
(* request, in processes that start and stop with settings of their own.   *)
(*                                                                         *)
(* Nothing in the repository writes provider_configs: an operator does, at *)
(* any time and in any order, with a SecretBox of some master key and the  *)
(* owner's id as aad, which is what get_provider passes to decrypt. Rows   *)
(* may also be copied from one owner to another and from one deployment's  *)
(* database to another.                                                    *)
(***************************************************************************)
EXTENDS Integers, FiniteSets

CONSTANTS
    Owners,         \* tenants
    Versions,       \* the secrets each tenant has had, by number
    MasterKeys,     \* 32-byte keys, among them the default
    DefaultKey,     \* secret_encryption_key when it is not set: 32 zero bytes
    Rows,           \* rows the table may come to hold
    Processes,      \* server processes on one database
    Handlers,       \* concurrent requests
    None            \* no row, no process, no request

ASSUME DefaultAssumption == DefaultKey \in MasterKeys

VARIABLES
    table,      \* provider_configs
    process,    \* the settings of each running process
    adapter     \* the adapter each request in progress was given

vars == <<table, process, adapter>>

Providers == {"mock", "stripe"}
KeyIds == {"primary"}
Secret == [owner : Owners, version : Versions]
Token == [kid : KeyIds, key : MasterKeys, aad : Owners, secret : Secret]
Row == [owner : Owners, provider : Providers, token : Token, active : BOOLEAN]
Box == [keys : [KeyIds -> MasterKeys], active : KeyIds]
Process == [production : BOOLEAN, box : Box]

(* What get_provider returns: the adapter's secret is that of a row's       *)
(* token, or the public one of the simulator (token None).                  *)
Adapter == [process : Processes, owner : Owners, provider : Providers,
            token : Token \cup {None}]

Init ==
    /\ table = [r \in Rows |-> None]
    /\ process = [p \in Processes |-> None]
    /\ adapter = [h \in Handlers |-> None]

-----------------------------------------------------------------------------
(* SecretBox *)

FromSingleKey(key) == [keys |-> [i \in KeyIds |-> key], active |-> "primary"]

Encrypt(box, secret, aad) ==
    [kid |-> box.active, key |-> box.keys[box.active], aad |-> aad, secret |-> secret]

(* Mutant of Decrypts: the tenant is not authenticated with the secret. *)
DecryptsWithoutAad(box, token, aad) ==
    token.kid \in DOMAIN box.keys /\ box.keys[token.kid] = token.key

(* decrypt succeeds: the key id is known and the tag verifies under its key *)
(* and the aad. Otherwise it raises DecryptionError.                        *)
Decrypts(box, token, aad) ==
    /\ token.kid \in DOMAIN box.keys
    /\ box.keys[token.kid] = token.key
    /\ token.aad = aad

-----------------------------------------------------------------------------
(* Processes *)

(* Mutant of ProductionReady: the key is not compared with the default. *)
NotDebugging(production, key, hardened) == production => hardened

(* assert_production_ready; hardened: no default JWT secret, no debug mode, *)
(* no wildcard origin.                                                      *)
ProductionReady(production, key, hardened) ==
    production => hardened /\ key # DefaultKey

(* create_app *)
StartProcess(p) ==
    \E production, hardened \in BOOLEAN, key \in MasterKeys :
        /\ process[p] = None
        /\ ProductionReady(production, key, hardened)
        /\ process' = [process EXCEPT ![p] = [production |-> production,
                                              box |-> FromSingleKey(key)]]
        /\ UNCHANGED <<table, adapter>>

(* The end of lifespan, or a crash: the requests of the process are gone. *)
StopProcess(p) ==
    /\ process[p] # None
    /\ process' = [process EXCEPT ![p] = None]
    /\ adapter' = [h \in Handlers |->
                      IF adapter[h] # None /\ adapter[h].process = p THEN None ELSE adapter[h]]
    /\ UNCHANGED table

-----------------------------------------------------------------------------
(* Requests *)

(* Mutant of Configured: is_active is not looked at. *)
AnyConfigured(o, pr) ==
    {r \in Rows : table[r] # None /\ table[r].owner = o /\ table[r].provider = pr}

(* The rows that get_active selects. *)
Configured(o, pr) ==
    {r \in Rows : /\ table[r] # None
                  /\ table[r].owner = o
                  /\ table[r].provider = pr
                  /\ table[r].active}

Give(h, p, o, pr, token) ==
    /\ adapter' = [adapter EXCEPT ![h] = [process |-> p, owner |-> o,
                                          provider |-> pr, token |-> token]]
    /\ UNCHANGED <<table, process>>

(* get_provider finds one row and opens it. *)
GetProvider(h, p, o, pr) ==
    /\ adapter[h] = None
    /\ process[p] # None
    /\ \E r \in Rows :
          /\ Configured(o, pr) = {r}
          /\ Decrypts(process[p].box, table[r].token, o)
          /\ Give(h, p, o, pr, table[r].token)

(* get_provider finds none and the provider is the mock: its public secret, *)
(* whatever the environment. Any other case raises (NotFoundError, two rows *)
(* in scalar_one_or_none, DecryptionError) and leaves nothing behind.       *)
Fallback(h, p, o) ==
    /\ adapter[h] = None
    /\ process[p] # None
    /\ Configured(o, "mock") = {}
    /\ Give(h, p, o, "mock", None)

EndRequest(h) ==
    /\ adapter[h] # None
    /\ adapter' = [adapter EXCEPT ![h] = None]
    /\ UNCHANGED <<table, process>>

-----------------------------------------------------------------------------
(* The operator *)

StoreSecret(r, o, pr, v, key) ==
    /\ table[r] = None
    /\ table' = [table EXCEPT ![r] =
          [owner |-> o, provider |-> pr, active |-> TRUE,
           token |-> Encrypt(FromSingleKey(key), [owner |-> o, version |-> v], o)]]
    /\ UNCHANGED <<process, adapter>>

CopyRow(r, s, o) ==
    /\ table[r] # None
    /\ table[s] = None
    /\ table' = [table EXCEPT ![s] = [table[r] EXCEPT !.owner = o, !.active = TRUE]]
    /\ UNCHANGED <<process, adapter>>

Disable(r) ==
    /\ table[r] # None
    /\ table[r].active
    /\ table' = [table EXCEPT ![r].active = FALSE]
    /\ UNCHANGED <<process, adapter>>

Operator ==
    \/ \E r \in Rows, o \in Owners, pr \in Providers, v \in Versions, key \in MasterKeys :
          StoreSecret(r, o, pr, v, key)
    \/ \E r, s \in Rows, o \in Owners : CopyRow(r, s, o)
    \/ \E r \in Rows : Disable(r)

Next ==
    \/ \E p \in Processes : StartProcess(p) \/ StopProcess(p)
    \/ \E h \in Handlers, p \in Processes, o \in Owners, pr \in Providers :
          GetProvider(h, p, o, pr)
    \/ \E h \in Handlers, p \in Processes, o \in Owners : Fallback(h, p, o)
    \/ \E h \in Handlers : EndRequest(h)
    \/ Operator

Spec == Init /\ [][Next]_vars

-----------------------------------------------------------------------------
(* Properties *)

(* Every variable has its type. *)
TypeOK ==
    /\ table \in [Rows -> Row \cup {None}]
    /\ process \in [Processes -> Process \cup {None}]
    /\ adapter \in [Handlers -> Adapter \cup {None}]

(* The requests whose adapter carries a secret that was stored. *)
Carrying == {h \in Handlers : adapter[h] # None /\ adapter[h].token # None}

(* However rows are copied, replaced and disabled, a request of one tenant  *)
(* never carries the secret of another.                                     *)
SecretsStayWithOwner == \A h \in Carrying : adapter[h].token.secret.owner = adapter[h].owner

(* A row sealed under the published default key, by a development process   *)
(* or an operator who set no key, is never of use to a production process.  *)
ProductionNeverDefault ==
    \A h \in Carrying :
        process[adapter[h].process].production => adapter[h].token.key # DefaultKey

(* Requests that act for owner o with secret s. *)
CarryingSecret(o, s) ==
    {h \in Carrying : adapter[h].owner = o /\ adapter[h].token.secret = s}

(* Secret s is in an active row of owner o. *)
InUse(o, s) == \E r \in Rows : /\ table[r] # None
                               /\ table[r].owner = o
                               /\ table[r].active
                               /\ table[r].token.secret = s

(* A secret that was withdrawn is used to the end by the requests that have *)
(* it already, and no request takes it up again: nothing caches an adapter. *)
WithdrawnRunsOut ==
    [][\A o \in Owners, s \in Secret :
          ~InUse(o, s) => CarryingSecret(o, s)' \subseteq CarryingSecret(o, s)]_vars
=============================================================================
