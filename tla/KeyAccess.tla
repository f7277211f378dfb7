------------------------------ MODULE KeyAccess ------------------------------
(***************************************************************************)
(* API keys of one account: the portal's key store (keys-table.ts) behind  *)
(* its routes (app/api/keys), and the gateway that lets a request in with  *)
(* the secret of a key (auth.py, user_resolver.py).                        *)
(*                                                                         *)
(* A key is spread over three tables: the row the portal shows (ApiKeys),  *)
(* its subscription (GwSubscriptions) and the hash the gateway looks up    *)
(* (GwApiKeys); Redis holds the gateway's caches.  The writes of one call  *)
(* are issued together (Promise.all), so they land in any order and any of *)
(* them may fail alone.  Every call to a table or to Redis is a step;      *)
(* requests interleave.  The limit of a key is the subject of KeyLimits:   *)
(* here a change of it only writes the subscription's row.                 *)
(***************************************************************************)
EXTENDS Integers, FiniteSets

CONSTANTS
    KeyIds,         \* subscription ids that may be generated
    Secrets,        \* key values that may be generated
    Requests,       \* portal requests in flight at a time
    Callers,        \* gateway requests being authenticated at a time
    None,
    TTL,            \* ticks a cached entry lives (CACHE_TTL, one hour)
    MaxKeys,        \* config.maxKeys
    MaxCalls,       \* bound: calls to the portal
    MaxFaults       \* bound: writes that fail

ASSUME TTLAssumption == TTL \in Nat \ {0}
ASSUME NoneAssumption == None \notin KeyIds \cup Secrets
ASSUME BoundsAssumption == MaxKeys \in Nat /\ MaxCalls \in Nat /\ MaxFaults \in Nat

VARIABLES
    apiKeys,        \* ApiKeys: the secret shown for a key, None: no row
    gwSubs,         \* GwSubscriptions: the keys that have a row
    gwApiKeys,      \* GwApiKeys: the secrets whose hash has a row
    issuedFor,      \* sub_id a secret was generated for
    hashCache,      \* apikey:{hash}:sub_id, ticks left
    userCache,      \* sub:{id}:user_id, ticks left
    request,        \* what each portal request is doing
    caller,         \* what each gateway request is doing
    goneFor,        \* history: ticks since a hash row was deleted, -1: not deleted
    contended,      \* history: the operations that overlapped another on a key
    broken,         \* history: keys a write of which has failed
    calls,          \* calls made so far
    faults          \* writes failed so far

tables   == <<apiKeys, gwSubs, gwApiKeys, issuedFor, goneFor>>
caches   == <<hashCache, userCache>>
history  == <<contended, broken, calls, faults>>
vars     == <<tables, caches, request, caller, history>>

Forgotten == -1

Free     == [op |-> "none", key |-> None, old |-> None, new |-> None,
             todo |-> {}, failed |-> {}]
Ops      == {"none", "create", "rotate", "delete", "quota"}
Writes   == {"row", "sub", "newHash", "oldHash"}
Request  == [op : Ops, key : KeyIds \cup {None}, old : Secrets \cup {None},
             new : Secrets \cup {None}, todo : SUBSET Writes, failed : SUBSET Writes]
Caller   == [at : {"out", "table", "fill", "resolve", "in"},
             secret : Secrets \cup {None}]
Outside  == [at |-> "out", secret |-> None]

-----------------------------------------------------------------------------
\* Every variable has its type.
TypeOK ==
    /\ apiKeys \in [KeyIds -> Secrets \cup {None}]
    /\ gwSubs \in SUBSET KeyIds
    /\ gwApiKeys \in SUBSET Secrets
    /\ issuedFor \in [Secrets -> KeyIds \cup {None}]
    /\ hashCache \in [Secrets -> 0 .. TTL]
    /\ userCache \in [KeyIds -> 0 .. TTL]
    /\ request \in [Requests -> Request]
    /\ caller \in [Callers -> Caller]
    /\ goneFor \in [Secrets -> -1 .. TTL]
    /\ contended \in [KeyIds -> SUBSET Ops]
    /\ broken \in SUBSET KeyIds
    /\ calls \in 0 .. MaxCalls
    /\ faults \in 0 .. MaxFaults

Init ==
    /\ apiKeys = [k \in KeyIds |-> None]
    /\ gwSubs = {}
    /\ gwApiKeys = {}
    /\ issuedFor = [s \in Secrets |-> None]
    /\ hashCache = [s \in Secrets |-> 0]
    /\ userCache = [k \in KeyIds |-> 0]
    /\ request = [r \in Requests |-> Free]
    /\ caller = [c \in Callers |-> Outside]
    /\ goneFor = [s \in Secrets |-> Forgotten]
    /\ contended = [k \in KeyIds |-> {}]
    /\ broken = {}
    /\ calls = 0
    /\ faults = 0

-----------------------------------------------------------------------------
(* Portal: a request reads, then sends its writes.                         *)

\* keys.list: the keys of the account that have a row.
Listed == {k \in KeyIds : apiKeys[k] # None}

\* randomUUID: an id and a secret nobody has had.
FreshId(k)     == \A s \in Secrets : issuedFor[s] # k
FreshSecret(s) == issuedFor[s] = None

WorkingOn(k) == {request[r].op : r \in {q \in Requests : request[q].key = k}}
Busy(k)      == WorkingOn(k) # {}

\* The request goes to work on the key.
Begin(r, job) ==
    /\ request[r].op = "none"
    /\ calls < MaxCalls
    /\ calls' = calls + 1
    /\ request' = [request EXCEPT ![r] = job]
    /\ contended' = IF Busy(job.key)
                    THEN [contended EXCEPT ![job.key] = @ \cup WorkingOn(job.key) \cup {job.op}]
                    ELSE contended
    /\ UNCHANGED <<apiKeys, gwSubs, gwApiKeys, goneFor, caches, caller, broken, faults>>

\* The check of the route: the keys listed against config.maxKeys.
BelowLimit == Cardinality(Listed) < MaxKeys

\* TableKeyStore.create: an id, a secret, and a row in each table.
Creation(k, s) ==
    [Free EXCEPT !.op = "create", !.key = k, !.new = s,
                 !.todo = {"row", "sub", "newHash"}]

\* POST /api/keys: list, check the limit, generate.  (The name is checked
\* against the same list; names are the subject of KeysPage.)
CreateKey(r, k, s) ==
    /\ BelowLimit
    /\ FreshId(k)
    /\ FreshSecret(s)
    /\ issuedFor' = [issuedFor EXCEPT ![s] = k]
    /\ Begin(r, Creation(k, s))

\* assertKeyOwned: the key is one of those listed.
Owned(k) == k \in Listed

\* Mutant: rotate leaves the old hash in the table.
RotateKeepingOld(k, s) ==
    [Free EXCEPT !.op = "rotate", !.key = k, !.old = apiKeys[k], !.new = s,
                 !.todo = {"row", "newHash"}]

\* TableKeyStore.rotate: the row is read, its hash will go.
Rotation(k, s) ==
    [Free EXCEPT !.op = "rotate", !.key = k, !.old = apiKeys[k], !.new = s,
                 !.todo = {"row", "newHash", "oldHash"}]

\* POST /api/keys/[id]/rotate.
RotateKey(r, k, s) ==
    /\ Owned(k)
    /\ FreshSecret(s)
    /\ issuedFor' = [issuedFor EXCEPT ![s] = k]
    /\ Begin(r, Rotation(k, s))

\* TableKeyStore.delete: the row is read, and all three rows will go.
Deletion(k) ==
    [Free EXCEPT !.op = "delete", !.key = k, !.old = apiKeys[k],
                 !.todo = {"row", "sub", "oldHash"}]

\* DELETE /api/keys/[id].
DeleteKey(r, k) ==
    /\ Owned(k)
    /\ Begin(r, Deletion(k))
    /\ UNCHANGED issuedFor

\* TableKeyStore.setQuota: one row to write.
QuotaChange(k) ==
    [Free EXCEPT !.op = "quota", !.key = k, !.todo = {"sub"}]

\* POST /api/keys/[id]/quota: the subscription is read first, and there must
\* be one.
SetQuota(r, k) ==
    /\ Owned(k)
    /\ k \in gwSubs
    /\ Begin(r, QuotaChange(k))
    /\ UNCHANGED issuedFor

-----------------------------------------------------------------------------
(* Portal: the writes of a request, in any order.                          *)

Withdrawn(s) ==
    /\ gwApiKeys' = gwApiKeys \ {s}
    /\ goneFor' = IF s \in gwApiKeys THEN [goneFor EXCEPT ![s] = 0] ELSE goneFor

\* deleteEntity throws when there is no such row; for the two gateway tables
\* the code ignores that.
Missing(r, w) ==
    w = "row" /\ request[r].op = "delete" /\ apiKeys[request[r].key] = None

\* Mutant: the hash deleted is that of the row as it is by then.
WriteTableRereading(j, w) ==
    \/ /\ w = "row"
       /\ apiKeys' = [apiKeys EXCEPT ![j.key] = j.new]
       /\ UNCHANGED <<gwSubs, gwApiKeys, goneFor>>
    \/ /\ w = "sub"
       /\ gwSubs' = IF j.op = "delete" THEN gwSubs \ {j.key} ELSE gwSubs \cup {j.key}
       /\ UNCHANGED <<apiKeys, gwApiKeys, goneFor>>
    \/ /\ w = "newHash"
       /\ gwApiKeys' = gwApiKeys \cup {j.new}
       /\ UNCHANGED <<apiKeys, gwSubs, goneFor>>
    \/ /\ w = "oldHash"
       /\ Withdrawn(apiKeys[j.key])
       /\ UNCHANGED <<apiKeys, gwSubs>>

\* What one write does to its table.
WriteTable(j, w) ==
    \/ /\ w = "row"
       /\ apiKeys' = [apiKeys EXCEPT ![j.key] = j.new]
       /\ UNCHANGED <<gwSubs, gwApiKeys, goneFor>>
    \/ /\ w = "sub"
       /\ gwSubs' = IF j.op = "delete" THEN gwSubs \ {j.key} ELSE gwSubs \cup {j.key}
       /\ UNCHANGED <<apiKeys, gwApiKeys, goneFor>>
    \/ /\ w = "newHash"
       /\ gwApiKeys' = gwApiKeys \cup {j.new}
       /\ UNCHANGED <<apiKeys, gwSubs, goneFor>>
    \/ /\ w = "oldHash"
       /\ Withdrawn(j.old)
       /\ UNCHANGED <<apiKeys, gwSubs>>

\* A write lands.  After the last one a create is answered, and the others
\* turn to Redis, unless a write has failed.
Write(r) ==
    \E w \in request[r].todo :
        /\ ~Missing(r, w)
        /\ WriteTable(request[r], w)
        /\ request' = [request EXCEPT ![r].todo = @ \ {w}]
        /\ UNCHANGED <<issuedFor, caches, caller, history>>

\* A failed deletion from the gateway's tables is swallowed (.catch); any
\* other failure rejects the call, whose other writes are under way all the
\* same.
Swallowed(j, w) == w = "oldHash" \/ (w = "sub" /\ j.op = "delete")

\* A write is answered with an error; the table may have done it or not.
WriteFails(r) ==
    \E w \in request[r].todo :
        /\ \/ /\ Missing(r, w)
              /\ UNCHANGED <<apiKeys, gwSubs, gwApiKeys, goneFor, faults>>
           \/ /\ faults < MaxFaults
              /\ faults' = faults + 1
              /\ \/ WriteTable(request[r], w)
                 \/ UNCHANGED <<apiKeys, gwSubs, gwApiKeys, goneFor>>
        /\ request' = [request EXCEPT
               ![r].todo = @ \ {w},
               ![r].failed = IF Swallowed(request[r], w) THEN @ ELSE @ \cup {w}]
        /\ broken' = broken \cup {request[r].key}
        /\ UNCHANGED <<issuedFor, caches, caller, contended, calls>>

\* Redis: rotate and delete drop the cache entry of the old hash, unless a
\* write has failed, and the call is over.
TellRedis(r) ==
    LET j == request[r] IN
    /\ j.op # "none" /\ j.todo = {}
    /\ request' = [request EXCEPT ![r] = Free]
    /\ hashCache' = IF j.op \in {"rotate", "delete"} /\ j.failed = {}
                    THEN [hashCache EXCEPT ![j.old] = 0] ELSE hashCache
    /\ UNCHANGED <<tables, userCache, caller, history>>

\* Redis cannot be reached: the tables keep what was written.
RedisFails(r) ==
    /\ request[r].op \in {"rotate", "delete"} /\ request[r].todo = {}
    /\ faults < MaxFaults
    /\ faults' = faults + 1
    /\ broken' = broken \cup {request[r].key}
    /\ request' = [request EXCEPT ![r] = Free]
    /\ UNCHANGED <<tables, caches, caller, contended, calls>>

-----------------------------------------------------------------------------
(* Gateway: a request is authenticated.                                    *)

GoTo(c, where) == caller' = [caller EXCEPT ![c].at = where]

\* Mutant: an entry that is read lives on for another hour.
ReadCacheRenewing(c, s) ==
    /\ caller[c].at = "out"
    /\ ~FreshSecret(s)
    /\ caller' = [caller EXCEPT ![c] =
           [at |-> IF hashCache[s] > 0 THEN "resolve" ELSE "table", secret |-> s]]
    /\ hashCache' = IF hashCache[s] > 0 THEN [hashCache EXCEPT ![s] = TTL] ELSE hashCache
    /\ UNCHANGED <<tables, userCache, request, history>>

\* resolve_api_key: the cached subscription, or a look at the table.
ReadCache(c, s) ==
    /\ caller[c].at = "out"
    /\ ~FreshSecret(s)
    /\ caller' = [caller EXCEPT ![c] =
           [at |-> IF hashCache[s] > 0 THEN "resolve" ELSE "table", secret |-> s]]
    /\ UNCHANGED <<tables, caches, request, history>>

ReadTable(c) ==
    /\ caller[c].at = "table"
    /\ caller' = IF caller[c].secret \in gwApiKeys
                 THEN [caller EXCEPT ![c].at = "fill"]
                 ELSE [caller EXCEPT ![c] = Outside]
    /\ UNCHANGED <<tables, caches, request, history>>

\* What was read is cached, whatever has happened to the row meanwhile.
FillCache(c) ==
    /\ caller[c].at = "fill"
    /\ hashCache' = [hashCache EXCEPT ![caller[c].secret] = TTL]
    /\ GoTo(c, "resolve")
    /\ UNCHANGED <<tables, userCache, request, history>>

\* _get_user_id, cache-aside: without a subscription the key is unknown.
ResolveUser(c) ==
    LET k == issuedFor[caller[c].secret]
        known == userCache[k] > 0 \/ k \in gwSubs
    IN  /\ caller[c].at = "resolve"
        /\ caller' = IF known THEN [caller EXCEPT ![c].at = "in"]
                              ELSE [caller EXCEPT ![c] = Outside]
        /\ userCache' = IF known /\ userCache[k] = 0
                        THEN [userCache EXCEPT ![k] = TTL] ELSE userCache
        /\ UNCHANGED <<tables, hashCache, request, history>>

\* The answer has gone out.
Depart(c) ==
    /\ caller[c].at = "in"
    /\ caller' = [caller EXCEPT ![c] = Outside]
    /\ UNCHANGED <<tables, caches, request, history>>

\* Time passes: a tick is far longer than an authentication takes.
Tick ==
    /\ \A c \in Callers : caller[c].at = "out"
    /\ hashCache' = [s \in Secrets |-> IF hashCache[s] > 0 THEN hashCache[s] - 1 ELSE 0]
    /\ userCache' = [k \in KeyIds |-> IF userCache[k] > 0 THEN userCache[k] - 1 ELSE 0]
    /\ goneFor' = [s \in Secrets |->
                      IF goneFor[s] \in 0 .. TTL - 1 THEN goneFor[s] + 1 ELSE goneFor[s]]
    /\ UNCHANGED <<apiKeys, gwSubs, gwApiKeys, issuedFor, request, caller, history>>

Next ==
    \/ \E r \in Requests :
          \/ \E k \in KeyIds, s \in Secrets : CreateKey(r, k, s) \/ RotateKey(r, k, s)
          \/ \E k \in KeyIds : DeleteKey(r, k) \/ SetQuota(r, k)
          \/ Write(r) \/ WriteFails(r)
          \/ TellRedis(r) \/ RedisFails(r)
    \/ \E c \in Callers :
          \/ \E s \in Secrets : ReadCache(c, s)
          \/ ReadTable(c) \/ FillCache(c) \/ ResolveUser(c) \/ Depart(c)
    \/ Tick

Spec == Init /\ [][Next]_vars

-----------------------------------------------------------------------------
(* Properties.                                                             *)

\* The promise: how the store's state says where a secret stands.
Standing(s) == IF s \in gwApiKeys THEN "honoured"
               ELSE IF goneFor[s] = Forgotten THEN "unissued" ELSE "withdrawn"

Promise == INSTANCE KeyPromise WITH
    Grace    <- TTL,
    NoSecret <- None,
    standing <- [s \in Secrets |-> Standing(s)],
    since    <- [s \in Secrets |-> IF goneFor[s] = Forgotten THEN 0 ELSE goneFor[s]],
    letIn    <- [c \in Callers |-> IF caller[c].at = "in" THEN caller[c].secret ELSE None]

\* The store keeps KeyPromise: a secret whose hash was deleted from GwApiKeys
\* is let in for less than TTL after that, however the gateway's look at the
\* table, its cache entry and the portal's DEL of that entry interleave, and
\* whatever writes fail.
KeepsPromise == Promise!Spec

Settled(k) == ~Busy(k) /\ k \notin broken

\* The secret the portal shows is one the gateway lets in, even after
\* rotations that overlapped: each of them deletes only the hash of the
\* secret it read.  Only a deletion that overlaps another call, or a failed
\* write, can leave a shown key that does not work.
ShownKeyWorks ==
    \A k \in Listed :
        Settled(k) /\ "delete" \notin contended[k]
            => apiKeys[k] \in gwApiKeys /\ k \in gwSubs

\* No secret but the one shown is let in for a key, and none after its
\* deletion, unless calls on the key overlapped or a write failed: two
\* overlapping rotations leave two secrets of which the portal shows one.
OnlyShownKeyWorks ==
    \A k \in KeyIds :
        Settled(k) /\ contended[k] = {}
            => {s \in gwApiKeys : issuedFor[s] = k} \subseteq {apiKeys[k]}

=============================================================================
