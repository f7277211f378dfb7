--------------------------- MODULE KeyAccessProofs ---------------------------
(* Proofs about KeyAccess, for any keys, secrets, requests, callers, TTL   *)
(* and bounds: type correctness, that the store keeps KeyPromise, and what *)
(* the portal shows of a key on which nobody works: its secret is let in,  *)
(* and no other is.                                                        *)
EXTENDS KeyAccess, TLAPS

-----------------------------------------------------------------------------
(* The inductive invariant.                                                *)

\* The hash row of its new secret is one the request has still to write.
Unwritten(r) == "newHash" \in request[r].todo

\* A hash row is written once: until then nobody knows the secret.
WrittenOnce ==
    /\ \A r \in Requests : Unwritten(r) =>
          /\ request[r].new \in Secrets
          /\ issuedFor[request[r].new] # None
          /\ request[r].new \notin gwApiKeys
          /\ goneFor[request[r].new] = Forgotten
    /\ \A r, q \in Requests :
          Unwritten(r) /\ Unwritten(q) /\ r # q => request[r].new # request[q].new

\* A request at work has a key to work on.
WorkHasKey ==
    \A r \in Requests :
        /\ request[r].op = "none" => request[r].todo = {}
        /\ request[r].op # "none" => request[r].key \in KeyIds

\* A secret not generated yet has no hash row and never had one.
FreshIsUnknown ==
    \A s \in Secrets : FreshSecret(s) => s \notin gwApiKeys /\ goneFor[s] = Forgotten

\* A hash row that is there has not been deleted: it never comes back.
DeletedForGood == \A s \in gwApiKeys : goneFor[s] = Forgotten

\* What a cache entry has left and the time since the deletion fit in TTL.
CacheWithinTTL ==
    \A s \in Secrets : hashCache[s] > 0 =>
        \/ s \in gwApiKeys
        \/ goneFor[s] >= 0 /\ hashCache[s] + goneFor[s] <= TTL

\* What a caller has read may be out of date by less than TTL.
CallersWithinTTL ==
    \A c \in Callers :
        /\ caller[c].at # "out" => caller[c].secret \in Secrets
        /\ caller[c].at = "fill" =>
              caller[c].secret \in gwApiKeys \/ goneFor[caller[c].secret] = 0
        /\ caller[c].at = "resolve" =>
              \/ caller[c].secret \in gwApiKeys
              \/ goneFor[caller[c].secret] \in 0 .. TTL - 1

IInv ==
    /\ TypeOK
    /\ WorkHasKey
    /\ WrittenOnce
    /\ FreshIsUnknown
    /\ DeletedForGood
    /\ CacheWithinTTL
    /\ CallersWithinTTL

-----------------------------------------------------------------------------
(* Type correctness.                                                       *)

\* The marks of the model are no keys and no secrets.
LEMMA Constants ==
    /\ TTL \in Nat /\ TTL >= 1 /\ MaxFaults \in Nat /\ MaxCalls \in Nat
    /\ None \notin KeyIds /\ None \notin Secrets
    /\ Forgotten = -1
  BY TTLAssumption, NoneAssumption, BoundsAssumption DEF Forgotten

\* The initial state is well typed.
LEMMA TypeInit == Init => TypeOK
  BY Constants DEF Init, TypeOK, Free, Outside, Request, Caller, Ops, Writes

\* Work on a key keeps what requests and their overlaps are made of.
LEMMA TypeBegin ==
    ASSUME TypeOK, NEW r \in Requests, NEW job \in Request, job.key \in KeyIds, Begin(r, job)
    PROVE  /\ request' \in [Requests -> Request]
           /\ contended' \in [KeyIds -> SUBSET Ops]
           /\ calls' \in 0 .. MaxCalls
  <1>1. WorkingOn(job.key) \subseteq Ops
    BY DEF WorkingOn, TypeOK, Request
  <1>2. job.op \in Ops
    BY DEF Request
  <1> QED BY <1>1, <1>2, Constants DEF Begin, TypeOK

\* Each of the four calls begins with a well-formed request.
LEMMA TypeCalls ==
    ASSUME TypeOK, NEW r \in Requests, NEW k \in KeyIds,
           \/ \E s \in Secrets : CreateKey(r, k, s) \/ RotateKey(r, k, s)
           \/ DeleteKey(r, k)
           \/ SetQuota(r, k)
    PROVE  TypeOK'
  <1>1. \E job \in Request : job.key = k /\ Begin(r, job)
    <2>1. ASSUME NEW s \in Secrets, CreateKey(r, k, s)
          PROVE  \E job \in Request : job.key = k /\ Begin(r, job)
      <3>1. Creation(k, s) \in Request /\ Creation(k, s).key = k
        BY DEF Creation, Free, Request, Ops, Writes
      <3> QED BY <2>1, <3>1 DEF CreateKey
    <2>2. ASSUME NEW s \in Secrets, RotateKey(r, k, s)
          PROVE  \E job \in Request : job.key = k /\ Begin(r, job)
      <3>1. Rotation(k, s) \in Request /\ Rotation(k, s).key = k
        BY DEF Rotation, Free, Request, Ops, Writes, TypeOK
      <3> QED BY <2>2, <3>1 DEF RotateKey
    <2>3. ASSUME DeleteKey(r, k)
          PROVE  \E job \in Request : job.key = k /\ Begin(r, job)
      <3>1. Deletion(k) \in Request /\ Deletion(k).key = k
        BY DEF Deletion, Free, Request, Ops, Writes, TypeOK
      <3> QED BY <2>3, <3>1 DEF DeleteKey
    <2>4. ASSUME SetQuota(r, k)
          PROVE  \E job \in Request : job.key = k /\ Begin(r, job)
      <3>1. QuotaChange(k) \in Request /\ QuotaChange(k).key = k
        BY DEF QuotaChange, Free, Request, Ops, Writes
      <3> QED BY <2>4, <3>1 DEF SetQuota
    <2> QED BY <2>1, <2>2, <2>3, <2>4
  <1>2. issuedFor' \in [Secrets -> KeyIds \cup {None}]
    BY DEF TypeOK, CreateKey, RotateKey, DeleteKey, SetQuota
  <1>3. PICK job \in Request : job.key = k /\ Begin(r, job)
    BY <1>1
  <1>4. /\ request' \in [Requests -> Request]
        /\ contended' \in [KeyIds -> SUBSET Ops]
        /\ calls' \in 0 .. MaxCalls
    BY <1>3, TypeBegin
  <1> QED BY <1>2, <1>3, <1>4 DEF TypeOK, Begin, caches

\* A write keeps the types of the tables.
LEMMA TypeWrite ==
    ASSUME TypeOK, NEW j \in Request, NEW w, WriteTable(j, w),
           w = "newHash" => j.new \in Secrets, j.key \in KeyIds
    PROVE  /\ apiKeys' \in [KeyIds -> Secrets \cup {None}]
           /\ gwSubs' \in SUBSET KeyIds
           /\ gwApiKeys' \in SUBSET Secrets
           /\ goneFor' \in [Secrets -> -1 .. TTL]
  <1>1. CASE w = "row"
    BY <1>1 DEF TypeOK, WriteTable, Request
  <1>2. CASE w = "sub"
    BY <1>2 DEF TypeOK, WriteTable, Request
  <1>3. CASE w = "newHash"
    BY <1>3 DEF TypeOK, WriteTable, Request
  <1>4. CASE w = "oldHash"
    BY <1>4, Constants DEF TypeOK, WriteTable, Withdrawn
  <1> QED BY <1>1, <1>2, <1>3, <1>4 DEF WriteTable

\* A write, landed or failed, keeps the types.
LEMMA TypeWrites ==
    ASSUME TypeOK, WorkHasKey, WrittenOnce, NEW r \in Requests, Write(r) \/ WriteFails(r)
    PROVE  TypeOK'
  <1>1. PICK w \in request[r].todo :
           /\ \/ WriteTable(request[r], w)
              \/ UNCHANGED <<apiKeys, gwSubs, gwApiKeys, goneFor>>
           /\ \/ request' = [request EXCEPT ![r].todo = @ \ {w}]
              \/ request' = [request EXCEPT
                     ![r].todo = @ \ {w},
                     ![r].failed = IF Swallowed(request[r], w) THEN @ ELSE @ \cup {w}]
           /\ broken' = broken \/ broken' = broken \cup {request[r].key}
           /\ faults' = faults \/ (faults < MaxFaults /\ faults' = faults + 1)
           /\ UNCHANGED <<issuedFor, caches, caller, contended, calls>>
    BY DEF Write, WriteFails, history
  <1>2. request[r] \in Request /\ w \in Writes
    BY DEF TypeOK, Request
  <1>3. (w = "newHash" => request[r].new \in Secrets) /\ request[r].key \in KeyIds
    BY DEF WrittenOnce, Unwritten, WorkHasKey
  <1>4. /\ apiKeys' \in [KeyIds -> Secrets \cup {None}]
        /\ gwSubs' \in SUBSET KeyIds
        /\ gwApiKeys' \in SUBSET Secrets
        /\ goneFor' \in [Secrets -> -1 .. TTL]
    <2>1. CASE WriteTable(request[r], w)
      BY <1>2, <1>3, <2>1, TypeWrite
    <2>2. CASE UNCHANGED <<apiKeys, gwSubs, gwApiKeys, goneFor>>
      BY <2>2 DEF TypeOK
    <2> QED BY <1>1, <2>1, <2>2
  <1>5. request' \in [Requests -> Request]
    BY <1>1, <1>2 DEF TypeOK, Request
  <1>6. broken' \in SUBSET KeyIds
    BY <1>1 DEF TypeOK, WorkHasKey
  <1>7. faults' \in 0 .. MaxFaults
    BY <1>1, Constants DEF TypeOK
  <1> QED BY <1>1, <1>4, <1>5, <1>6, <1>7 DEF TypeOK, caches

\* The other steps keep the types.
LEMMA TypeOthers ==
    ASSUME TypeOK, WorkHasKey, CallersWithinTTL,
           \/ \E r \in Requests : TellRedis(r) \/ RedisFails(r)
           \/ \E c \in Callers :
                 \/ \E s \in Secrets : ReadCache(c, s)
                 \/ ReadTable(c) \/ FillCache(c) \/ ResolveUser(c) \/ Depart(c)
           \/ Tick
           \/ UNCHANGED vars
    PROVE  TypeOK'
  <1> USE Constants
  <1>1. ASSUME NEW r \in Requests, TellRedis(r) PROVE TypeOK'
    <2>1. request' \in [Requests -> Request]
      BY <1>1 DEF TellRedis, TypeOK, Free, Request, Ops, Writes
    <2>2. hashCache' \in [Secrets -> 0 .. TTL]
      <3>1. hashCache' = hashCache \/ hashCache' = [hashCache EXCEPT ![request[r].old] = 0]
        BY <1>1 DEF TellRedis
      <3> QED BY <3>1 DEF TypeOK
    <2> QED BY <1>1, <2>1, <2>2 DEF TellRedis, TypeOK, tables, caches, history
  <1>2. ASSUME NEW r \in Requests, RedisFails(r) PROVE TypeOK'
    <2>1. request' \in [Requests -> Request]
      BY <1>2 DEF RedisFails, TypeOK, Free, Request, Ops, Writes
    <2>2. broken' \in SUBSET KeyIds /\ faults' \in 0 .. MaxFaults
      BY <1>2 DEF RedisFails, TypeOK, WorkHasKey
    <2> QED BY <1>2, <2>1, <2>2 DEF RedisFails, TypeOK, tables, caches
  <1>3. ASSUME NEW c \in Callers,
               \/ \E s \in Secrets : ReadCache(c, s)
               \/ ReadTable(c) \/ FillCache(c) \/ ResolveUser(c) \/ Depart(c)
        PROVE  TypeOK'
    <2>1. caller' \in [Callers -> Caller]
      BY <1>3 DEF ReadCache, ReadTable, FillCache, ResolveUser, Depart, GoTo, TypeOK, Caller, Outside
    <2>2. hashCache' \in [Secrets -> 0 .. TTL]
      BY <1>3 DEF ReadCache, ReadTable, FillCache, ResolveUser, Depart, TypeOK, caches
    <2>3. userCache' \in [KeyIds -> 0 .. TTL]
      BY <1>3 DEF ReadCache, ReadTable, FillCache, ResolveUser, Depart, TypeOK, caches
    <2>4. UNCHANGED <<tables, request, history>>
      BY <1>3 DEF ReadCache, ReadTable, FillCache, ResolveUser, Depart, caches
    <2> QED BY <2>1, <2>2, <2>3, <2>4 DEF TypeOK, tables, history
  <1>4. CASE Tick
    <2>1. hashCache' \in [Secrets -> 0 .. TTL] /\ userCache' \in [KeyIds -> 0 .. TTL]
      BY <1>4 DEF Tick, TypeOK
    <2>2. goneFor' \in [Secrets -> -1 .. TTL]
      BY <1>4 DEF Tick, TypeOK
    <2> QED BY <1>4, <2>1, <2>2 DEF Tick, TypeOK, history
  <1>5. CASE UNCHANGED vars
    BY <1>5 DEF vars, TypeOK, tables, caches, history
  <1> QED BY <1>1, <1>2, <1>3, <1>4, <1>5

\* Every step keeps the types.
LEMMA TypeNext == IInv /\ [Next]_vars => TypeOK'
  BY TypeCalls, TypeWrites, TypeOthers DEF IInv, Next

-----------------------------------------------------------------------------
(* The rest of the invariant.                                              *)

\* The parts of the invariant hold at the start.
LEMMA IInvInit == Init => IInv
  BY TypeInit, Constants DEF Init, IInv, WorkHasKey, WrittenOnce, Unwritten, FreshIsUnknown,
     FreshSecret, DeletedForGood, CacheWithinTTL, CallersWithinTTL, Free, Outside

\* A request begins: its secret, if it has one, is fresh.
LEMMA InvBegin ==
    ASSUME IInv, NEW r \in Requests, NEW k \in KeyIds,
           \/ \E s \in Secrets : CreateKey(r, k, s) \/ RotateKey(r, k, s)
           \/ DeleteKey(r, k)
           \/ SetQuota(r, k)
    PROVE  WorkHasKey' /\ WrittenOnce' /\ FreshIsUnknown' /\ DeletedForGood'
           /\ CacheWithinTTL' /\ CallersWithinTTL'
  <1> DEFINE Begun(job) ==
             /\ request' = [request EXCEPT ![r] = job]
             /\ job.key = k /\ job.op # "none"
             /\ \/ /\ "newHash" \notin job.todo
                   /\ issuedFor' = issuedFor
                \/ \E s \in Secrets : /\ job.new = s
                                      /\ FreshSecret(s)
                                      /\ issuedFor' = [issuedFor EXCEPT ![s] = k]
  <1>1. UNCHANGED <<gwApiKeys, goneFor, hashCache, caller>> /\ \E job : Begun(job)
    <2>1. ASSUME NEW s \in Secrets, CreateKey(r, k, s) PROVE \E job : Begun(job)
      <3>1. /\ Creation(k, s).key = k /\ Creation(k, s).op # "none"
            /\ Creation(k, s).new = s
        BY DEF Creation, Free
      <3>2. Begun(Creation(k, s))
        BY <2>1, <3>1 DEF CreateKey, Begin
      <3> QED BY <3>2
    <2>2. ASSUME NEW s \in Secrets, RotateKey(r, k, s) PROVE \E job : Begun(job)
      <3>1. /\ Rotation(k, s).key = k /\ Rotation(k, s).op # "none"
            /\ Rotation(k, s).new = s
        BY DEF Rotation, Free
      <3>2. Begun(Rotation(k, s))
        BY <2>2, <3>1 DEF RotateKey, Begin
      <3> QED BY <3>2
    <2>3. ASSUME DeleteKey(r, k) PROVE \E job : Begun(job)
      <3>1. /\ Deletion(k).key = k /\ Deletion(k).op # "none"
            /\ "newHash" \notin Deletion(k).todo
        BY DEF Deletion, Free
      <3>2. Begun(Deletion(k))
        BY <2>3, <3>1 DEF DeleteKey, Begin
      <3> QED BY <3>2
    <2>4. ASSUME SetQuota(r, k) PROVE \E job : Begun(job)
      <3>1. /\ QuotaChange(k).key = k /\ QuotaChange(k).op # "none"
            /\ "newHash" \notin QuotaChange(k).todo
        BY DEF QuotaChange, Free
      <3>2. Begun(QuotaChange(k))
        BY <2>4, <3>1 DEF SetQuota, Begin
      <3> QED BY <3>2
    <2>5. UNCHANGED <<gwApiKeys, goneFor, hashCache, caller>>
      BY DEF CreateKey, RotateKey, DeleteKey, SetQuota, Begin, caches
    <2> QED BY <2>1, <2>2, <2>3, <2>4, <2>5
  <1>2. PICK job : Begun(job)
    BY <1>1
  <1>3. \A q \in Requests : request'[q] = IF q = r THEN job ELSE request[q]
    BY <1>2 DEF IInv, TypeOK
  <1>4. WorkHasKey'
    BY <1>2, <1>3 DEF IInv, WorkHasKey
  <1>5. \A s \in Secrets : FreshSecret(s)' => FreshSecret(s)
    BY <1>2, Constants DEF IInv, TypeOK, FreshSecret
  <1>6. FreshIsUnknown' /\ DeletedForGood' /\ CacheWithinTTL' /\ CallersWithinTTL'
    BY <1>1, <1>5 DEF IInv, FreshIsUnknown, DeletedForGood, CacheWithinTTL, CallersWithinTTL
  <1>7. WrittenOnce'
    <2>1. CASE "newHash" \notin job.todo /\ issuedFor' = issuedFor
      BY <1>1, <1>3, <2>1 DEF IInv, WrittenOnce, Unwritten
    <2>2. ASSUME NEW s \in Secrets, job.new = s, FreshSecret(s),
                 issuedFor' = [issuedFor EXCEPT ![s] = k]
          PROVE  WrittenOnce'
      <3>1. s \notin gwApiKeys /\ goneFor[s] = Forgotten /\ issuedFor'[s] # None
        BY <2>2, Constants DEF IInv, TypeOK, FreshIsUnknown
      <3>2. \A q \in Requests : Unwritten(q) => request[q].new # s /\ issuedFor'[request[q].new] # None
        BY <2>2, Constants DEF IInv, TypeOK, WrittenOnce, FreshSecret
      <3> QED BY <1>1, <1>3, <2>2, <3>1, <3>2 DEF IInv, WrittenOnce, Unwritten
    <2> QED BY <1>2, <2>1, <2>2
  <1> QED BY <1>4, <1>6, <1>7

\* A write changes nothing but the hash it is about.
LEMMA InvWrites ==
    ASSUME IInv, NEW r \in Requests, Write(r) \/ WriteFails(r)
    PROVE  WorkHasKey' /\ WrittenOnce' /\ FreshIsUnknown' /\ DeletedForGood'
           /\ CacheWithinTTL' /\ CallersWithinTTL'
  <1> USE Constants
  <1> DEFINE j == request[r]
             Wrote(w) ==
                 \/ /\ UNCHANGED <<gwApiKeys, goneFor>>
                 \/ /\ w = "newHash"
                    /\ gwApiKeys' = gwApiKeys \cup {j.new} /\ UNCHANGED goneFor
                 \/ Withdrawn(j.old)
  <1>1. PICK w \in j.todo :
           /\ Wrote(w)
           /\ \/ request' = [request EXCEPT ![r].todo = @ \ {w}]
              \/ request' = [request EXCEPT
                     ![r].todo = @ \ {w},
                     ![r].failed = IF Swallowed(request[r], w) THEN @ ELSE @ \cup {w}]
           /\ UNCHANGED <<issuedFor, caches, caller>>
    BY DEF Write, WriteFails, WriteTable
  <1>2. \A q \in Requests : /\ request'[q].op = request[q].op
                            /\ request'[q].key = request[q].key
                            /\ request'[q].new = request[q].new
                            /\ request'[q].todo = IF q = r THEN j.todo \ {w} ELSE request[q].todo
    <2>1. request \in [Requests -> Request]
      BY DEF IInv, TypeOK
    <2>2. CASE request' = [request EXCEPT ![r].todo = @ \ {w}]
      BY <2>1, <2>2 DEF Request
    <2>3. CASE request' = [request EXCEPT
                   ![r].todo = @ \ {w},
                   ![r].failed = IF Swallowed(request[r], w) THEN @ ELSE @ \cup {w}]
      BY <2>1, <2>3 DEF Request
    <2> QED BY <1>1, <2>2, <2>3
  <1>3. WorkHasKey'
    BY <1>2 DEF IInv, WorkHasKey
  <1>4. WrittenOnce' /\ FreshIsUnknown' /\ DeletedForGood'
    <2>1. CASE UNCHANGED <<gwApiKeys, goneFor>>
      BY <1>1, <1>2, <2>1 DEF IInv, WrittenOnce, Unwritten, FreshIsUnknown, FreshSecret, DeletedForGood
    <2>2. CASE w = "newHash" /\ gwApiKeys' = gwApiKeys \cup {j.new} /\ UNCHANGED goneFor
      <3>1. /\ j.new \in Secrets /\ ~FreshSecret(j.new) /\ goneFor[j.new] = Forgotten
            /\ \A q \in Requests : q # r /\ Unwritten(q) => request[q].new # j.new
        BY <1>1, <2>2 DEF IInv, WrittenOnce, Unwritten, FreshSecret
      <3>2. \A q \in Requests : Unwritten(q)' => q # r /\ Unwritten(q)
        BY <1>2, <2>2 DEF Unwritten
      <3> QED BY <1>1, <1>2, <2>2, <3>1, <3>2
              DEF IInv, WrittenOnce, FreshIsUnknown, FreshSecret, DeletedForGood
    <2>3. CASE Withdrawn(j.old)
      <3>1. /\ gwApiKeys' \subseteq gwApiKeys
            /\ \A s \in Secrets : s \notin gwApiKeys => goneFor'[s] = goneFor[s]
            /\ \A s \in gwApiKeys' : goneFor'[s] = goneFor[s]
        BY <2>3 DEF Withdrawn, IInv, TypeOK
      <3>2. \A q \in Requests : Unwritten(q)' => Unwritten(q)
        BY <1>2 DEF Unwritten
      <3>3. WrittenOnce'
        BY <1>1, <1>2, <3>1, <3>2 DEF IInv, WrittenOnce
      <3>4. FreshIsUnknown' /\ DeletedForGood'
        BY <1>1, <3>1 DEF IInv, TypeOK, FreshIsUnknown, FreshSecret, DeletedForGood
      <3> QED BY <3>3, <3>4
    <2> QED BY <1>1, <2>1, <2>2, <2>3
  <1>5. \A s \in Secrets :
           \/ s \in gwApiKeys'
           \/ s \notin gwApiKeys /\ goneFor'[s] = goneFor[s]
           \/ s \in gwApiKeys /\ goneFor'[s] = 0
    <2>1. CASE UNCHANGED <<gwApiKeys, goneFor>>
      BY <2>1
    <2>2. CASE w = "newHash" /\ gwApiKeys' = gwApiKeys \cup {j.new} /\ UNCHANGED goneFor
      BY <2>2
    <2>3. CASE Withdrawn(j.old)
      BY <2>3 DEF Withdrawn, IInv, TypeOK
    <2> QED BY <1>1, <2>1, <2>2, <2>3
  <1>6. CacheWithinTTL'
    <2> SUFFICES ASSUME NEW s \in Secrets, hashCache'[s] > 0
                 PROVE  \/ s \in gwApiKeys'
                        \/ goneFor'[s] >= 0 /\ hashCache'[s] + goneFor'[s] <= TTL
      BY DEF CacheWithinTTL
    <2>1. hashCache' = hashCache /\ hashCache[s] \in 0 .. TTL
      BY <1>1 DEF IInv, TypeOK, caches
    <2> QED BY <1>5, <2>1 DEF IInv, CacheWithinTTL
  <1>7. CallersWithinTTL'
    <2> SUFFICES ASSUME NEW c \in Callers
                 PROVE  /\ caller[c].at # "out" => caller[c].secret \in Secrets
                        /\ caller[c].at = "fill" =>
                              caller[c].secret \in gwApiKeys' \/ goneFor'[caller[c].secret] = 0
                        /\ caller[c].at = "resolve" =>
                              \/ caller[c].secret \in gwApiKeys'
                              \/ goneFor'[caller[c].secret] \in 0 .. TTL - 1
      BY <1>1 DEF CallersWithinTTL
    <2> QED BY <1>5 DEF IInv, CallersWithinTTL
  <1> QED BY <1>3, <1>4, <1>6, <1>7

\* Redis and the gateway: the caches stay within TTL.
LEMMA InvOthers ==
    ASSUME IInv,
           \/ \E r \in Requests : TellRedis(r) \/ RedisFails(r)
           \/ \E c \in Callers :
                 \/ \E s \in Secrets : ReadCache(c, s)
                 \/ ReadTable(c) \/ FillCache(c) \/ ResolveUser(c) \/ Depart(c)
           \/ Tick
           \/ UNCHANGED vars
    PROVE  WorkHasKey' /\ WrittenOnce' /\ FreshIsUnknown' /\ DeletedForGood'
           /\ CacheWithinTTL' /\ CallersWithinTTL'
  <1> USE Constants
  <1>1. ASSUME NEW r \in Requests, TellRedis(r) \/ RedisFails(r)
        PROVE  WorkHasKey' /\ WrittenOnce' /\ FreshIsUnknown' /\ DeletedForGood'
               /\ CacheWithinTTL' /\ CallersWithinTTL'
    <2>1. /\ request' = [request EXCEPT ![r] = Free]
          /\ hashCache' = hashCache \/ hashCache' = [hashCache EXCEPT ![request[r].old] = 0]
          /\ UNCHANGED <<tables, caller>>
      BY <1>1 DEF TellRedis, RedisFails, caches
    <2>2. WorkHasKey' /\ WrittenOnce'
      BY <2>1 DEF IInv, TypeOK, WorkHasKey, WrittenOnce, Unwritten, Free, tables
    <2>3. FreshIsUnknown' /\ DeletedForGood' /\ CallersWithinTTL'
      BY <2>1 DEF IInv, FreshIsUnknown, FreshSecret, DeletedForGood, CallersWithinTTL, tables
    <2>4. CacheWithinTTL'
      BY <2>1 DEF IInv, TypeOK, CacheWithinTTL, tables
    <2> QED BY <2>2, <2>3, <2>4
  <1>2. ASSUME NEW c \in Callers,
               \/ \E s \in Secrets : ReadCache(c, s)
               \/ ReadTable(c) \/ FillCache(c) \/ ResolveUser(c) \/ Depart(c)
        PROVE  WorkHasKey' /\ WrittenOnce' /\ FreshIsUnknown' /\ DeletedForGood'
               /\ CacheWithinTTL' /\ CallersWithinTTL'
    <2>1. UNCHANGED <<tables, request>>
      BY <1>2 DEF ReadCache, ReadTable, FillCache, ResolveUser, Depart
    <2>2. WorkHasKey' /\ WrittenOnce' /\ FreshIsUnknown' /\ DeletedForGood'
      BY <2>1 DEF IInv, WorkHasKey, WrittenOnce, Unwritten, FreshIsUnknown, FreshSecret,
                  DeletedForGood, tables
    <2>3. CacheWithinTTL' /\ CallersWithinTTL'
      <3>1. ASSUME NEW s \in Secrets, ReadCache(c, s) PROVE CacheWithinTTL' /\ CallersWithinTTL'
        BY <2>1, <3>1 DEF ReadCache, IInv, TypeOK, CacheWithinTTL, CallersWithinTTL, tables, caches
      <3>2. CASE ReadTable(c)
        BY <2>1, <3>2 DEF ReadTable, Outside, IInv, TypeOK, CacheWithinTTL, CallersWithinTTL, tables, caches
      <3>3. CASE FillCache(c)
        BY <2>1, <3>3 DEF FillCache, GoTo, IInv, TypeOK, Caller, CacheWithinTTL, CallersWithinTTL, tables, caches
      <3>4. CASE ResolveUser(c) \/ Depart(c)
        <4>1. /\ hashCache' = hashCache
              /\ \/ caller[c].at # "out" /\ caller' = [caller EXCEPT ![c].at = "in"]
                 \/ caller' = [caller EXCEPT ![c] = Outside]
          BY <3>4 DEF ResolveUser, Depart, caches
        <4>2. CacheWithinTTL'
          BY <2>1, <4>1 DEF IInv, CacheWithinTTL, tables
        <4>3. CallersWithinTTL'
          BY <2>1, <4>1 DEF IInv, TypeOK, Caller, Outside, CallersWithinTTL, tables
        <4> QED BY <4>2, <4>3
      <3> QED BY <1>2, <3>1, <3>2, <3>3, <3>4
    <2> QED BY <2>2, <2>3
  <1>3. CASE Tick
    <2>1. WorkHasKey' /\ WrittenOnce' /\ FreshIsUnknown' /\ DeletedForGood'
      <3>1. \A s \in Secrets : goneFor[s] = Forgotten => goneFor'[s] = Forgotten
        BY <1>3 DEF Tick
      <3> QED BY <1>3, <3>1 DEF Tick, IInv, TypeOK, WorkHasKey, WrittenOnce, Unwritten,
                                 FreshIsUnknown, FreshSecret, DeletedForGood
    <2>2. CacheWithinTTL'
      BY <1>3 DEF Tick, IInv, TypeOK, CacheWithinTTL
    <2>3. CallersWithinTTL'
      BY <1>3 DEF Tick, IInv, CallersWithinTTL
    <2> QED BY <2>1, <2>2, <2>3
  <1>4. CASE UNCHANGED vars
    BY <1>4 DEF vars, tables, caches, history, IInv, WorkHasKey, WrittenOnce, Unwritten,
                FreshIsUnknown, FreshSecret, DeletedForGood, CacheWithinTTL, CallersWithinTTL
  <1> QED BY <1>1, <1>2, <1>3, <1>4

\* Every step keeps the invariant.
LEMMA IInvNext == IInv /\ [Next]_vars => IInv'
  <1> SUFFICES ASSUME IInv, [Next]_vars PROVE IInv'
    OBVIOUS
  <1>1. TypeOK'
    BY TypeNext
  <1> QED BY <1>1, InvBegin, InvWrites, InvOthers DEF Next, IInv

\* The invariant holds in every behaviour.
LEMMA Invariance == Spec => []IInv
  BY IInvInit, IInvNext, PTL DEF Spec

\* Every variable keeps its type, whatever requests, callers and faults.
THEOREM TypeCorrect == Spec => []TypeOK
  <1>1. IInv => TypeOK
    BY DEF IInv
  <1> QED BY <1>1, Invariance, PTL

-----------------------------------------------------------------------------
(* KeyAccess implements KeyPromise.                                        *)

\* The initial state is one of the promise.
LEMMA PromiseInit == Init => Promise!Init
  BY DEF Init, Promise!Init, Standing, Outside

\* A step that leaves the hash rows alone, and the callers let in, is none
\* of the promise's.
LEMMA PromiseStutter ==
    ASSUME UNCHANGED <<gwApiKeys, goneFor>>,
           \A c \in Callers : /\ (caller[c].at = "in") <=> (caller'[c].at = "in")
                              /\ caller[c].at = "in" => caller'[c].secret = caller[c].secret
    PROVE  UNCHANGED Promise!vars
  BY DEF Promise!vars, Standing

\* A write issues a secret, withdraws one or does neither.
LEMMA PromiseWrite ==
    ASSUME IInv, NEW r \in Requests, Write(r) \/ WriteFails(r)
    PROVE  [Promise!Next]_(Promise!vars)
  <1> USE Constants
  <1> DEFINE j == request[r]
  <1>1. UNCHANGED caller
    BY DEF Write, WriteFails
  <1>2. \/ UNCHANGED <<gwApiKeys, goneFor>>
        \/ /\ "newHash" \in j.todo
           /\ gwApiKeys' = gwApiKeys \cup {j.new} /\ UNCHANGED goneFor
        \/ Withdrawn(j.old)
    BY DEF Write, WriteFails, WriteTable
  <1>3. CASE UNCHANGED <<gwApiKeys, goneFor>>
    BY <1>1, <1>3, PromiseStutter
  <1>4. CASE "newHash" \in j.todo /\ gwApiKeys' = gwApiKeys \cup {j.new} /\ UNCHANGED goneFor
    <2>1. j.new \in Secrets /\ j.new \notin gwApiKeys /\ goneFor[j.new] = Forgotten
      BY <1>4 DEF IInv, WrittenOnce, Unwritten
    <2>2. Promise!Issue(j.new)
      BY <1>1, <1>4, <2>1 DEF Promise!Issue, Standing
    <2> QED BY <2>1, <2>2 DEF Promise!Next
  <1>5. CASE Withdrawn(j.old)
    <2>1. CASE j.old \in gwApiKeys
      <3>1. j.old \in Secrets /\ goneFor[j.old] = Forgotten
        BY <2>1 DEF IInv, TypeOK, DeletedForGood
      <3>2. gwApiKeys' = gwApiKeys \ {j.old} /\ goneFor' = [goneFor EXCEPT ![j.old] = 0]
        BY <1>5, <2>1 DEF Withdrawn
      <3>3. \A s \in Secrets : goneFor'[s] = IF s = j.old THEN 0 ELSE goneFor[s]
        BY <3>1, <3>2 DEF IInv, TypeOK
      <3>4. Promise!Withdraw(j.old)
        BY <1>1, <2>1, <3>1, <3>2, <3>3 DEF Promise!Withdraw, Standing
      <3> QED BY <3>1, <3>4 DEF Promise!Next
    <2>2. CASE j.old \notin gwApiKeys
      BY <1>1, <1>5, <2>2, PromiseStutter DEF Withdrawn
    <2> QED BY <2>1, <2>2
  <1> QED BY <1>2, <1>3, <1>4, <1>5

\* A caller is let in with a secret that stands, or stood less than TTL ago.
LEMMA PromiseResolve ==
    ASSUME IInv, NEW c \in Callers, ResolveUser(c)
    PROVE  [Promise!Next]_(Promise!vars)
  <1> USE Constants
  <1> DEFINE s == caller[c].secret
  <1>1. /\ UNCHANGED <<gwApiKeys, goneFor>>
        /\ caller[c].at = "resolve"
        /\ \/ caller' = [caller EXCEPT ![c].at = "in"]
           \/ caller' = [caller EXCEPT ![c] = Outside]
    BY DEF ResolveUser, tables
  <1>2. caller \in [Callers -> Caller]
    BY DEF IInv, TypeOK
  <1>3. CASE caller' = [caller EXCEPT ![c].at = "in"]
    <2>1. s \in Secrets
      BY <1>1 DEF IInv, CallersWithinTTL
    <2>2. \/ s \in gwApiKeys
          \/ s \notin gwApiKeys /\ goneFor[s] # Forgotten /\ goneFor[s] < TTL
      BY <1>1 DEF IInv, CallersWithinTTL
    <2>3. \A d \in Callers : /\ caller'[d].at = IF d = c THEN "in" ELSE caller[d].at
                             /\ caller'[d].secret = caller[d].secret
      BY <1>2, <1>3 DEF Caller
    <2>4. PICK q \in Secrets : q = s
      BY <2>1
    <2>5. Promise!LetIn(c, q)
      BY <1>1, <2>2, <2>3, <2>4 DEF Promise!LetIn, Standing
    <2> QED BY <2>5 DEF Promise!Next
  <1>4. CASE caller' = [caller EXCEPT ![c] = Outside]
    BY <1>1, <1>2, <1>4, PromiseStutter DEF Outside
  <1> QED BY <1>1, <1>3, <1>4

\* A caller that was let in leaves.
LEMMA PromiseDepart ==
    ASSUME IInv, NEW c \in Callers, Depart(c)
    PROVE  Promise!Next
  <1>1. /\ UNCHANGED <<gwApiKeys, goneFor>>
        /\ \A d \in Callers : caller'[d] = IF d = c THEN Outside ELSE caller[d]
    BY DEF Depart, tables, IInv, TypeOK
  <1>2. \A d \in Callers :
           (IF caller'[d].at = "in" THEN caller'[d].secret ELSE None)
             = IF d = c THEN None ELSE IF caller[d].at = "in" THEN caller[d].secret ELSE None
    BY <1>1 DEF Outside
  <1>3. Promise!Leave(c)
    BY <1>1, <1>2 DEF Promise!Leave, Standing
  <1> QED BY <1>3 DEF Promise!Next

\* A tick is one of the promise's.
LEMMA PromiseTick == ASSUME IInv, Tick PROVE Promise!Next
  <1> USE Constants
  <1>1. UNCHANGED <<gwApiKeys, caller>>
    BY DEF Tick
  <1>2. \A s \in Secrets : /\ goneFor[s] \in -1 .. TTL
                           /\ s \in gwApiKeys => goneFor[s] = Forgotten
    BY DEF IInv, TypeOK, DeletedForGood
  <1>3. \A s \in Secrets :
           goneFor'[s] = IF goneFor[s] \in 0 .. TTL - 1 THEN goneFor[s] + 1 ELSE goneFor[s]
    BY DEF Tick
  <1>4. \A s \in Secrets : Standing(s)' = Standing(s)
    BY <1>1, <1>2, <1>3 DEF Standing
  <1>5. \A s \in Secrets :
           (IF goneFor'[s] = Forgotten THEN 0 ELSE goneFor'[s])
             = LET n == IF goneFor[s] = Forgotten THEN 0 ELSE goneFor[s]
               IN  IF Standing(s) = "withdrawn" /\ n < TTL THEN n + 1 ELSE n
    BY <1>2, <1>3 DEF Standing
  <1>6. Promise!Pass
    BY <1>1, <1>4, <1>5 DEF Promise!Pass
  <1> QED BY <1>6 DEF Promise!Next

\* Every step of the store is a step of the promise, or none.
LEMMA PromiseStep == IInv /\ [Next]_vars => [Promise!Next]_(Promise!vars)
  <1> SUFFICES ASSUME IInv, [Next]_vars PROVE [Promise!Next]_(Promise!vars)
    OBVIOUS
  <1>1. ASSUME NEW r \in Requests, NEW k \in KeyIds,
               \/ \E s \in Secrets : CreateKey(r, k, s) \/ RotateKey(r, k, s)
               \/ DeleteKey(r, k)
               \/ SetQuota(r, k)
        PROVE  [Promise!Next]_(Promise!vars)
    <2>1. UNCHANGED <<gwApiKeys, goneFor, caller>>
      BY <1>1 DEF CreateKey, RotateKey, DeleteKey, SetQuota, Begin
    <2> QED BY <2>1, PromiseStutter
  <1>2. ASSUME NEW r \in Requests, TellRedis(r) \/ RedisFails(r)
        PROVE  [Promise!Next]_(Promise!vars)
    <2>1. UNCHANGED <<gwApiKeys, goneFor, caller>>
      BY <1>2 DEF TellRedis, RedisFails, tables
    <2> QED BY <2>1, PromiseStutter
  <1>3. ASSUME NEW c \in Callers, (\E s \in Secrets : ReadCache(c, s)) \/ ReadTable(c) \/ FillCache(c)
        PROVE  [Promise!Next]_(Promise!vars)
    <2>1. /\ UNCHANGED <<gwApiKeys, goneFor>>
          /\ caller[c].at # "in"
          /\ \/ \E d \in Caller : d.at # "in" /\ caller' = [caller EXCEPT ![c] = d]
             \/ \E p \in {"fill", "resolve"} : caller' = [caller EXCEPT ![c].at = p]
      BY <1>3 DEF ReadCache, ReadTable, FillCache, GoTo, Outside, Caller, tables
    <2>2. caller \in [Callers -> Caller]
      BY DEF IInv, TypeOK
    <2>3. \A d \in Callers : /\ (caller[d].at = "in") <=> (caller'[d].at = "in")
                             /\ caller[d].at = "in" => caller'[d].secret = caller[d].secret
      BY <2>1, <2>2 DEF Caller
    <2> QED BY <2>1, <2>3, PromiseStutter
  <1>4. CASE UNCHANGED vars
    <2>1. UNCHANGED <<gwApiKeys, goneFor, caller>>
      BY <1>4 DEF vars, tables
    <2> QED BY <2>1, PromiseStutter
  <1> QED BY <1>1, <1>2, <1>3, <1>4, PromiseWrite, PromiseResolve, PromiseDepart, PromiseTick DEF Next

\* The key store keeps the promise: no secret is let in TTL or more after
\* its hash was deleted, for any number of keys, calls, callers and faults.
THEOREM Refinement == Spec => KeepsPromise
  <1>1. Init => Promise!Init
    BY PromiseInit
  <1>2. IInv /\ [Next]_vars => [Promise!Next]_(Promise!vars)
    BY PromiseStep
  <1> QED BY <1>1, <1>2, Invariance, PTL DEF Spec, KeepsPromise, Promise!Spec

-----------------------------------------------------------------------------
(* The tables of a key: what the rows of an idle key say of each other.    *)

\* A free request slot holds nothing.
IdleIsFree == \A r \in Requests : request[r].op = "none" => request[r] = Free

\* What each operation has in hand.
Shape ==
    \A r \in Requests :
        LET j == request[r] IN
        /\ j.op = "create" => /\ j.old = None /\ j.new # None
                              /\ j.todo \subseteq {"row", "sub", "newHash"}
        /\ j.op = "rotate" => /\ j.old # None /\ j.new # None
                              /\ j.todo \subseteq {"row", "newHash", "oldHash"}
        /\ j.op = "delete" => /\ j.old # None /\ j.new = None
                              /\ j.todo \subseteq {"row", "sub", "oldHash"}
        /\ j.op = "quota"  => j.old = None /\ j.new = None /\ j.todo \subseteq {"sub"}

\* A key is only ever given secrets that were generated for it.
SecretsOfKeys ==
    /\ \A k \in KeyIds : apiKeys[k] # None => issuedFor[apiKeys[k]] = k
    /\ \A r \in Requests :
          /\ request[r].old # None => issuedFor[request[r].old] = request[r].key
          /\ request[r].new # None => issuedFor[request[r].new] = request[r].key

\* Requests that work on one key at the same time are on record.
Overlaps ==
    \A r, q \in Requests :
        r # q /\ request[r].key = request[q].key /\ request[r].op # "none"
            => {request[r].op, request[q].op} \subseteq contended[request[r].key]

\* An id not generated yet is unknown to every table and request.
FreshKeyUnused ==
    \A k \in KeyIds : FreshId(k) =>
        /\ apiKeys[k] = None /\ k \notin gwSubs
        /\ \A r \in Requests : request[r].key # k

\* A new secret belongs to one request, and until that request has written
\* its row nobody has read it.
NewSecretsUnseen ==
    \A r \in Requests : request[r].new # None =>
        /\ request[r].old # request[r].new
        /\ \A q \in Requests : r # q => request[q].new # request[r].new
        /\ "row" \in request[r].todo =>
              /\ apiKeys[request[r].key] # request[r].new
              /\ \A q \in Requests : request[q].old # request[r].new

\* Until its row is written, a key is known to its creation only.
CreatedAlone ==
    \A r \in Requests : request[r].op = "create" /\ "row" \in request[r].todo =>
        /\ apiKeys[request[r].key] = None
        /\ \A q \in Requests : q # r => request[q].key # request[r].key

\* No write on the key failed, and no deletion overlapped another call.
Sound(k) == k \notin broken /\ "delete" \notin contended[k]

\* The row of a new secret comes with its hash, and with a subscription.
RowBringsHash ==
    \A r \in Requests :
        LET j == request[r] IN
        "row" \in j.todo /\ j.new # None /\ j.key \notin broken =>
            /\ j.new \in gwApiKeys \/ "newHash" \in j.todo
            /\ j.op = "create" => j.key \in gwSubs \/ "sub" \in j.todo

\* Who has read the secret that is shown will still replace it.
ReplacesShown ==
    \A r \in Requests :
        LET j == request[r] IN
        j.old # None /\ Sound(j.key) /\ apiKeys[j.key] = j.old => "row" \in j.todo

\* A deletion that has removed the row leaves the key without one.
DeletedIsGone ==
    \A r \in Requests :
        LET j == request[r] IN
        j.op = "delete" /\ Sound(j.key) /\ "row" \notin j.todo => apiKeys[j.key] = None

\* A key that is rotated, or gets another quota, has its row.
ReworkedIsListed ==
    \A r \in Requests :
        request[r].op \in {"rotate", "quota"} /\ Sound(request[r].key)
            => apiKeys[request[r].key] # None

\* The secret that is shown has its hash, or is about to, or is about to go.
ShownHasHash ==
    \A k \in Listed : Sound(k) =>
        \/ apiKeys[k] \in gwApiKeys
        \/ \E r \in Requests :
              /\ request[r].key = k
              /\ \/ request[r].new = apiKeys[k] /\ "newHash" \in request[r].todo
                 \/ request[r].old = apiKeys[k] /\ "row" \in request[r].todo

\* So has its subscription.
ShownHasSub ==
    \A k \in Listed : Sound(k) =>
        \/ k \in gwSubs
        \/ \E r \in Requests :
              /\ request[r].key = k
              /\ \/ request[r].op = "create" /\ "sub" \in request[r].todo
                 \/ request[r].op = "delete" /\ "row" \in request[r].todo

\* No write on the key failed, and no call overlapped another.
Quiet(k) == k \notin broken /\ contended[k] = {}

\* The row of a key that one call works on is that call's doing.
RowFollows ==
    \A r \in Requests :
        LET j == request[r] IN
        j.op \in {"create", "rotate", "delete"} /\ Quiet(j.key) =>
            /\ apiKeys[j.key] = IF "row" \in j.todo THEN j.old ELSE j.new
            /\ j.old \in gwApiKeys => "oldHash" \in j.todo

\* A hash of the key is that of the secret that is shown, or is about to go,
\* or is about to be shown.
HashesFollow ==
    \A k \in KeyIds : Quiet(k) =>
        \A s \in gwApiKeys : issuedFor[s] = k =>
            \/ s = apiKeys[k]
            \/ \E r \in Requests :
                  /\ request[r].key = k
                  /\ \/ s = request[r].old /\ "oldHash" \in request[r].todo
                     \/ s = request[r].new /\ "row" \in request[r].todo

RequestsInv ==
    /\ IdleIsFree
    /\ Shape
    /\ SecretsOfKeys
    /\ Overlaps
    /\ FreshKeyUnused
    /\ NewSecretsUnseen
    /\ CreatedAlone

KeysInv ==
    /\ RequestsInv
    /\ RowBringsHash
    /\ ReplacesShown
    /\ DeletedIsGone
    /\ ReworkedIsListed
    /\ ShownHasHash
    /\ ShownHasSub
    /\ RowFollows
    /\ HashesFollow

-----------------------------------------------------------------------------
(* What the steps do to requests and tables.                               *)

\* A call on a key begins, with a job in hand.
Begun(r, k, job) ==
    /\ request[r].op = "none" /\ job.op # "none" /\ job.key = k
    /\ job \in Request
    /\ \A q \in Requests : request'[q] = IF q = r THEN job ELSE request[q]
    /\ \A q \in Requests : request[q].key = k => {request[q].op, job.op} \subseteq contended'[k]
    /\ \A l \in KeyIds : contended[l] \subseteq contended'[l]
    /\ UNCHANGED <<apiKeys, gwSubs, gwApiKeys, broken>>

\* It is one of the four.
Creates(k, job) ==
    /\ job.op = "create" /\ job.old = None
    /\ job.todo = {"row", "sub", "newHash"}
    /\ job.new \in Secrets /\ FreshSecret(job.new) /\ FreshId(k)
    /\ \A s \in Secrets : issuedFor'[s] = IF s = job.new THEN k ELSE issuedFor[s]

Rotates(k, job) ==
    /\ job.op = "rotate" /\ job.old = apiKeys[k] /\ apiKeys[k] # None
    /\ job.todo = {"row", "newHash", "oldHash"}
    /\ job.new \in Secrets /\ FreshSecret(job.new)
    /\ \A s \in Secrets : issuedFor'[s] = IF s = job.new THEN k ELSE issuedFor[s]

Deletes(k, job) ==
    /\ job.op = "delete" /\ job.old = apiKeys[k] /\ apiKeys[k] # None /\ job.new = None
    /\ job.todo = {"row", "sub", "oldHash"}
    /\ issuedFor' = issuedFor

ChangesQuota(k, job) ==
    /\ job.op = "quota" /\ job.old = None /\ job.new = None /\ apiKeys[k] # None
    /\ k \in gwSubs /\ job.todo = {"sub"}
    /\ issuedFor' = issuedFor

\* Every call begins so.
LEMMA CallBegins ==
    ASSUME TypeOK, NEW r \in Requests, NEW k \in KeyIds,
           \/ \E s \in Secrets : CreateKey(r, k, s) \/ RotateKey(r, k, s)
           \/ DeleteKey(r, k)
           \/ SetQuota(r, k)
    PROVE  \E job : /\ Begun(r, k, job)
                    /\ Creates(k, job) \/ Rotates(k, job) \/ Deletes(k, job) \/ ChangesQuota(k, job)
  <1>1. ASSUME NEW job \in Request, Begin(r, job), job.key = k, job.op # "none"
        PROVE  Begun(r, k, job)
    <2>1. \A q \in Requests : request'[q] = IF q = r THEN job ELSE request[q]
      BY <1>1 DEF Begin, TypeOK
    <2>2. WorkingOn(k) = {request[q].op : q \in {p \in Requests : request[p].key = k}}
      BY DEF WorkingOn
    <2>3. \A q \in Requests : request[q].key = k => request[q].op \in WorkingOn(k)
      BY <2>2
    <2>4. contended' = IF WorkingOn(k) # {}
                       THEN [contended EXCEPT ![k] = @ \cup WorkingOn(k) \cup {job.op}]
                       ELSE contended
      BY <1>1 DEF Begin, Busy
    <2>5. contended \in [KeyIds -> SUBSET Ops]
      BY DEF TypeOK
    <2>6. \A q \in Requests : request[q].key = k => {request[q].op, job.op} \subseteq contended'[k]
      BY <2>3, <2>4, <2>5
    <2>7. \A l \in KeyIds : contended[l] \subseteq contended'[l]
      BY <2>4, <2>5
    <2>8. UNCHANGED <<apiKeys, gwSubs, gwApiKeys, broken>> /\ request[r].op = "none"
      BY <1>1 DEF Begin, caches
    <2> QED BY <1>1, <2>1, <2>6, <2>7, <2>8 DEF Begun
  <1>2. ASSUME NEW s \in Secrets, CreateKey(r, k, s)
        PROVE  Begun(r, k, Creation(k, s)) /\ Creates(k, Creation(k, s))
    <2>1. /\ Creation(k, s) \in Request
          /\ Creation(k, s).key = k /\ Creation(k, s).op = "create"
          /\ Creation(k, s).old = None
          /\ Creation(k, s).new = s /\ Creation(k, s).todo = {"row", "sub", "newHash"}
      BY DEF Creation, Free, Request, Ops, Writes
    <2>2. Begun(r, k, Creation(k, s))
      BY <1>1, <1>2, <2>1 DEF CreateKey
    <2> QED BY <1>2, <2>1, <2>2 DEF CreateKey, Creates, TypeOK
  <1>3. ASSUME NEW s \in Secrets, RotateKey(r, k, s)
        PROVE  Begun(r, k, Rotation(k, s)) /\ Rotates(k, Rotation(k, s))
    <2>1. /\ Rotation(k, s) \in Request
          /\ Rotation(k, s).key = k /\ Rotation(k, s).op = "rotate"
          /\ Rotation(k, s).old = apiKeys[k]
          /\ Rotation(k, s).new = s /\ Rotation(k, s).todo = {"row", "newHash", "oldHash"}
      BY DEF Rotation, Free, Request, Ops, Writes, TypeOK
    <2>2. Begun(r, k, Rotation(k, s))
      BY <1>1, <1>3, <2>1 DEF RotateKey
    <2> QED BY <1>3, <2>1, <2>2 DEF RotateKey, Rotates, Owned, Listed, TypeOK
  <1>4. ASSUME DeleteKey(r, k)
        PROVE  Begun(r, k, Deletion(k)) /\ Deletes(k, Deletion(k))
    <2>1. /\ Deletion(k) \in Request
          /\ Deletion(k).key = k /\ Deletion(k).op = "delete"
          /\ Deletion(k).old = apiKeys[k] /\ Deletion(k).new = None
          /\ Deletion(k).todo = {"row", "sub", "oldHash"}
      BY DEF Deletion, Free, Request, Ops, Writes, TypeOK
    <2>2. Begun(r, k, Deletion(k))
      BY <1>1, <1>4, <2>1 DEF DeleteKey
    <2> QED BY <1>4, <2>1, <2>2 DEF DeleteKey, Deletes, Owned, Listed
  <1>5. ASSUME SetQuota(r, k)
        PROVE  Begun(r, k, QuotaChange(k)) /\ ChangesQuota(k, QuotaChange(k))
    <2>1. /\ QuotaChange(k) \in Request
          /\ QuotaChange(k).key = k /\ QuotaChange(k).op = "quota"
          /\ QuotaChange(k).old = None /\ QuotaChange(k).new = None
          /\ QuotaChange(k).todo = {"sub"}
      BY DEF QuotaChange, Free, Request, Ops, Writes
    <2>2. Begun(r, k, QuotaChange(k))
      BY <1>1, <1>5, <2>1 DEF SetQuota
    <2> QED BY <1>5, <2>1, <2>2 DEF SetQuota, ChangesQuota, Owned, Listed
  <1> QED BY <1>2, <1>3, <1>4, <1>5

\* What a write of a request does.
Effect(j, w) ==
    \/ /\ w = "row"
       /\ \A k \in KeyIds : apiKeys'[k] = IF k = j.key THEN j.new ELSE apiKeys[k]
       /\ UNCHANGED <<gwSubs, gwApiKeys>>
    \/ /\ w = "sub"
       /\ \A k \in KeyIds :
             k \in gwSubs' <=> IF k # j.key THEN k \in gwSubs ELSE j.op # "delete"
       /\ UNCHANGED <<apiKeys, gwApiKeys>>
    \/ /\ w = "newHash" /\ gwApiKeys' = gwApiKeys \cup {j.new}
       /\ UNCHANGED <<apiKeys, gwSubs>>
    \/ /\ w = "oldHash" /\ gwApiKeys' = gwApiKeys \ {j.old}
       /\ UNCHANGED <<apiKeys, gwSubs>>
    \/ /\ j.key \in broken'
       /\ UNCHANGED <<apiKeys, gwSubs, gwApiKeys>>

\* It is no longer to do; if it failed, the key is broken.
Wrote(r, w) ==
    /\ w \in request[r].todo /\ request[r].key \in KeyIds /\ request[r].op # "none"
    /\ \A q \in Requests :
          /\ request'[q].op = request[q].op /\ request'[q].key = request[q].key
          /\ request'[q].old = request[q].old /\ request'[q].new = request[q].new
          /\ request'[q].todo = IF q = r THEN request[q].todo \ {w} ELSE request[q].todo
          /\ q # r => request'[q] = request[q]
    /\ broken \subseteq broken'
    /\ UNCHANGED <<issuedFor, contended>>
    /\ Effect(request[r], w)

\* Every write, landed or failed, is so.
LEMMA WriteLands ==
    ASSUME TypeOK, WorkHasKey, NEW r \in Requests, Write(r) \/ WriteFails(r)
    PROVE  \E w : Wrote(r, w)
  <1> DEFINE j == request[r]
  <1>1. PICK w \in j.todo :
           /\ WriteTable(j, w) \/ (j.key \in broken' /\ UNCHANGED <<apiKeys, gwSubs, gwApiKeys>>)
           /\ \/ request' = [request EXCEPT ![r].todo = @ \ {w}]
              \/ /\ j.key \in broken'
                 /\ request' = [request EXCEPT
                       ![r].todo = @ \ {w},
                       ![r].failed = IF Swallowed(request[r], w) THEN @ ELSE @ \cup {w}]
           /\ broken \subseteq broken'
           /\ UNCHANGED <<issuedFor, contended>>
    BY DEF Write, WriteFails, history, caches
  <1>2. j \in Request /\ j.key \in KeyIds /\ j.op # "none"
    BY <1>1 DEF TypeOK, WorkHasKey
  <1>3. Effect(j, w)
    BY <1>1, <1>2 DEF WriteTable, Withdrawn, Effect, TypeOK
  <1>4. \A q \in Requests :
          /\ request'[q].op = request[q].op /\ request'[q].key = request[q].key
          /\ request'[q].old = request[q].old /\ request'[q].new = request[q].new
          /\ request'[q].todo = IF q = r THEN request[q].todo \ {w} ELSE request[q].todo
          /\ q # r => request'[q] = request[q]
    <2>1. request \in [Requests -> Request]
      BY DEF TypeOK
    <2>2. CASE request' = [request EXCEPT ![r].todo = @ \ {w}]
      <3>1. request'[r] = [request[r] EXCEPT !.todo = @ \ {w}]
        BY <2>1, <2>2
      <3>2. \A q \in Requests : q # r => request'[q] = request[q]
        BY <2>1, <2>2
      <3> QED BY <1>2, <3>1, <3>2 DEF Request
    <2>3. CASE /\ j.key \in broken'
               /\ request' = [request EXCEPT
                     ![r].todo = @ \ {w},
                     ![r].failed = IF Swallowed(request[r], w) THEN @ ELSE @ \cup {w}]
      BY <2>1, <2>3 DEF Request
    <2> QED BY <1>1, <2>2, <2>3
  <1> QED BY <1>1, <1>2, <1>3, <1>4 DEF Wrote

\* A call is over.
Ended(r) ==
    /\ request[r].op # "none" /\ request[r].todo = {}
    /\ \A q \in Requests : request'[q] = IF q = r THEN Free ELSE request[q]
    /\ broken \subseteq broken'
    /\ UNCHANGED <<apiKeys, gwSubs, gwApiKeys, issuedFor, contended>>

\* Every call ends so.
LEMMA CallEnds ==
    ASSUME TypeOK, WorkHasKey, NEW r \in Requests, TellRedis(r) \/ RedisFails(r)
    PROVE  Ended(r)
  <1>1. CASE TellRedis(r)
    BY <1>1 DEF TellRedis, Ended, TypeOK, WorkHasKey, tables, caches, history
  <1>2. CASE RedisFails(r)
    BY <1>2 DEF RedisFails, Ended, TypeOK, WorkHasKey, tables, caches, history
  <1> QED BY <1>1, <1>2

\* The gateway and time leave requests and tables alone.
LEMMA OthersLeaveKeys ==
    ASSUME \/ \E c \in Callers :
                 \/ \E s \in Secrets : ReadCache(c, s)
                 \/ ReadTable(c) \/ FillCache(c) \/ ResolveUser(c) \/ Depart(c)
           \/ Tick
           \/ UNCHANGED vars
    PROVE  UNCHANGED <<apiKeys, gwSubs, gwApiKeys, issuedFor, request, contended, broken>>
  BY DEF ReadCache, ReadTable, FillCache, ResolveUser, Depart, Tick, vars, tables, caches, history

-----------------------------------------------------------------------------
(* The requests.                                                           *)

\* At first there is no key and no request.
LEMMA KeysInit == Init => KeysInv
  BY Constants DEF Init, KeysInv, RequestsInv, IdleIsFree, Shape, SecretsOfKeys, Overlaps,
     FreshKeyUnused, NewSecretsUnseen, CreatedAlone, RowBringsHash, ReplacesShown,
     DeletedIsGone, ReworkedIsListed, ShownHasHash, ShownHasSub, RowFollows, HashesFollow,
     Sound, Quiet, Free, Listed

\* A call that begins keeps what is known of the requests.
LEMMA RequestsBegin ==
    ASSUME TypeOK, WorkHasKey, RequestsInv, NEW r \in Requests, NEW k \in KeyIds, NEW job,
           Begun(r, k, job),
           Creates(k, job) \/ Rotates(k, job) \/ Deletes(k, job) \/ ChangesQuota(k, job)
    PROVE  RequestsInv'
  <1> USE Constants
  <1>1. IdleIsFree'
    BY DEF RequestsInv, IdleIsFree, Begun
  <1>2. Shape'
    BY DEF RequestsInv, Shape, Begun, Creates, Rotates, Deletes, ChangesQuota
  <1>3. /\ request[r].old = None /\ request[r].new = None /\ request[r].key = None
        /\ request[r].todo = {}
    BY DEF RequestsInv, IdleIsFree, Begun, Free
  <1>4. /\ \A l \in KeyIds : apiKeys[l] # None => apiKeys[l] \in Secrets
        /\ \A q \in Requests : /\ request[q].old # None => request[q].old \in Secrets
                               /\ request[q].new # None => request[q].new \in Secrets
                               /\ request[q].key \in KeyIds \cup {None}
        /\ \A s \in Secrets : issuedFor[s] \in KeyIds \cup {None}
    BY DEF TypeOK, Request
  <1>5. SecretsOfKeys'
    <2>1. CASE issuedFor' = issuedFor /\ (Deletes(k, job) \/ ChangesQuota(k, job))
      BY <2>1, <1>4 DEF RequestsInv, SecretsOfKeys, Begun, Deletes, ChangesQuota
    <2>2. CASE Creates(k, job) \/ Rotates(k, job)
      <3>1. /\ job.new \in Secrets /\ issuedFor[job.new] = None
            /\ \A s \in Secrets : issuedFor'[s] = IF s = job.new THEN k ELSE issuedFor[s]
            /\ job.old = None \/ (job.old = apiKeys[k] /\ apiKeys[k] # None)
        BY <2>2 DEF Creates, Rotates, FreshSecret
      <3>2. \A s \in Secrets : issuedFor[s] # None => issuedFor'[s] = issuedFor[s]
        BY <3>1
      <3>3. \A q \in Requests : request[q].old # None \/ request[q].new # None => request[q].key # None
        BY DEF RequestsInv, IdleIsFree, Free, WorkHasKey
      <3> QED BY <3>1, <3>2, <3>3, <1>4 DEF RequestsInv, SecretsOfKeys, Begun
    <2> QED BY <2>1, <2>2 DEF Deletes, ChangesQuota
  <1>6. Overlaps'
    <2>1. \A q \in Requests : request[q].op # "none" => request[q].key \in KeyIds
      BY DEF WorkHasKey
    <2>2. \A q \in Requests : request[q].op = "none" => request[q].key = None
      BY DEF RequestsInv, IdleIsFree, Free
    <2> QED BY <2>1, <2>2 DEF RequestsInv, Overlaps, Begun
  <1>7. FreshKeyUnused'
    <2>1. \A l \in KeyIds : FreshId(l)' => FreshId(l) /\ l # k
      <3>1. \A l \in KeyIds : FreshId(l)' => FreshId(l)
        BY <1>4 DEF Creates, Rotates, Deletes, ChangesQuota, FreshId, FreshSecret
      <3>2. ~FreshId(k)'
        BY <1>4 DEF Creates, Rotates, Deletes, ChangesQuota, FreshId, RequestsInv, SecretsOfKeys, FreshSecret
      <3> QED BY <3>1, <3>2
    <2> QED BY <2>1 DEF RequestsInv, FreshKeyUnused, Begun
  <1>9. NewSecretsUnseen'
    <2>1. \A q \in Requests : request[q].new # None => issuedFor[request[q].new] # None
      BY DEF RequestsInv, SecretsOfKeys, IdleIsFree, Free, WorkHasKey
    <2>2. \A q \in Requests : request[q].old # None => issuedFor[request[q].old] # None
      BY DEF RequestsInv, SecretsOfKeys, IdleIsFree, Free, WorkHasKey
    <2>3. apiKeys[k] # None => issuedFor[apiKeys[k]] = k
      BY DEF RequestsInv, SecretsOfKeys
    <2>4. job.new # None => job.new \in Secrets /\ issuedFor[job.new] = None
      BY DEF Creates, Rotates, Deletes, ChangesQuota, FreshSecret
    <2>5. job.old = None \/ (job.old = apiKeys[k] /\ apiKeys[k] # None)
      BY DEF Creates, Rotates, Deletes, ChangesQuota
    <2>6. /\ \A q \in Requests : request'[q] = IF q = r THEN job ELSE request[q]
          /\ apiKeys' = apiKeys /\ job.key = k
      BY DEF Begun
    <2>7. ASSUME NEW q \in Requests, q # r, request[q].new # None
          PROVE  /\ request[q].new # job.new
                 /\ "row" \in request[q].todo => job.old # request[q].new
      <3>1. issuedFor[request[q].new] = request[q].key
        BY <2>7 DEF RequestsInv, SecretsOfKeys
      <3>2. "row" \in request[q].todo => apiKeys[request[q].key] # request[q].new
        BY <2>7 DEF RequestsInv, NewSecretsUnseen
      <3> QED BY <2>1, <2>3, <2>4, <2>5, <2>7, <3>1, <3>2
    <2>8. job.new # None =>
             /\ job.old # job.new /\ apiKeys[k] # job.new
             /\ \A q \in Requests : request[q].old # job.new /\ request[q].new # job.new
      BY <2>1, <2>2, <2>3, <2>4, <2>5, <1>4
    <2> QED BY <2>6, <2>7, <2>8 DEF RequestsInv, NewSecretsUnseen
  <1>10. CreatedAlone'
    BY <1>3 DEF RequestsInv, CreatedAlone, FreshKeyUnused, Begun, Creates, Rotates, Deletes, ChangesQuota
  <1> QED BY <1>1, <1>2, <1>5, <1>6, <1>7, <1>9, <1>10 DEF RequestsInv

\* So does a write.
LEMMA RequestsWrite ==
    ASSUME TypeOK, WorkHasKey, RequestsInv, NEW r \in Requests, NEW w, Wrote(r, w)
    PROVE  RequestsInv'
  <1> USE Constants
  <1>1. IdleIsFree'
    BY DEF RequestsInv, IdleIsFree, Wrote
  <1>2. Shape'
    <2> SUFFICES ASSUME NEW q \in Requests
                 PROVE  LET j == request'[q] IN
                        /\ j.op = "create" => /\ j.old = None /\ j.new # None
                                              /\ j.todo \subseteq {"row", "sub", "newHash"}
                        /\ j.op = "rotate" => /\ j.old # None /\ j.new # None
                                              /\ j.todo \subseteq {"row", "newHash", "oldHash"}
                        /\ j.op = "delete" => /\ j.old # None /\ j.new = None
                                              /\ j.todo \subseteq {"row", "sub", "oldHash"}
                        /\ j.op = "quota"  => j.old = None /\ j.new = None /\ j.todo \subseteq {"sub"}
      BY DEF Shape
    <2>1. /\ request'[q].op = request[q].op /\ request'[q].old = request[q].old
          /\ request'[q].new = request[q].new
          /\ request'[q].todo \subseteq request[q].todo
      BY DEF Wrote
    <2> QED BY <2>1 DEF RequestsInv, Shape
  <1>5. SecretsOfKeys'
    <2>1. \A k \in KeyIds :
             apiKeys'[k] = apiKeys[k] \/ (k = request[r].key /\ apiKeys'[k] = request[r].new)
      BY DEF Wrote, Effect
    <2>2. /\ issuedFor' = issuedFor
          /\ \A q \in Requests : /\ request'[q].old = request[q].old
                                  /\ request'[q].new = request[q].new
                                  /\ request'[q].key = request[q].key
      BY DEF Wrote
    <2>3. \A k \in KeyIds : apiKeys'[k] # None => issuedFor[apiKeys'[k]] = k
      BY <2>1 DEF RequestsInv, SecretsOfKeys
    <2> QED BY <2>2, <2>3 DEF RequestsInv, SecretsOfKeys
  <1>6. Overlaps'
    <2>1. \A p, q \in Requests : request'[p].key = request'[q].key /\ request'[p].op # "none"
             => /\ request[p].key = request[q].key /\ request[p].op # "none"
                /\ request'[p].op = request[p].op /\ request'[q].op = request[q].op
                /\ contended'[request'[p].key] = contended[request[p].key]
      BY DEF Wrote
    <2> QED BY <2>1 DEF RequestsInv, Overlaps
  <1>7. FreshKeyUnused'
    <2>1. ~FreshId(request[r].key)
      BY DEF RequestsInv, FreshKeyUnused, Wrote
    <2>2. \A k \in KeyIds : FreshId(k)' => FreshId(k) /\ k # request[r].key
      BY <2>1 DEF FreshId, Wrote
    <2>3. \A k \in KeyIds : k # request[r].key =>
             apiKeys'[k] = apiKeys[k] /\ (k \in gwSubs' <=> k \in gwSubs)
      BY DEF Wrote, Effect
    <2>4. \A q \in Requests : request'[q].key = request[q].key
      BY DEF Wrote
    <2> QED BY <2>2, <2>3, <2>4 DEF RequestsInv, FreshKeyUnused
  <1>9. NewSecretsUnseen'
    <2>1. /\ \A q \in Requests : /\ request'[q].old = request[q].old
                                  /\ request'[q].new = request[q].new
                                  /\ request'[q].key = request[q].key
                                  /\ request'[q].todo \subseteq request[q].todo
          /\ request'[r].todo = request[r].todo \ {w} /\ w \in request[r].todo
      BY DEF Wrote
    <2>2. \/ apiKeys' = apiKeys
          \/ /\ w = "row"
             /\ \A k \in KeyIds : apiKeys'[k] = IF k = request[r].key THEN request[r].new ELSE apiKeys[k]
      BY DEF Wrote, Effect
    <2>3. ASSUME NEW q \in Requests, request[q].new # None, "row" \in request'[q].todo
          PROVE  apiKeys'[request[q].key] # request[q].new
      <3>1. /\ apiKeys[request[q].key] # request[q].new
            /\ q # r => request[r].new # request[q].new
        BY <2>1, <2>3 DEF RequestsInv, NewSecretsUnseen
      <3>2. request[q].key \in KeyIds
        BY <2>3 DEF RequestsInv, IdleIsFree, Free, WorkHasKey
      <3> QED BY <2>1, <2>2, <2>3, <3>1, <3>2
    <2> QED BY <2>1, <2>3 DEF RequestsInv, NewSecretsUnseen
  <1>10. CreatedAlone'
    <2>1. \A q \in Requests : /\ request'[q].op = request[q].op
                              /\ request'[q].key = request[q].key
                              /\ request'[q].todo = IF q = r THEN request[q].todo \ {w} ELSE request[q].todo
      BY DEF Wrote
    <2>2. \A k \in KeyIds : (k = request[r].key /\ w = "row") \/ apiKeys'[k] = apiKeys[k]
      BY DEF Wrote, Effect
    <2>3. \A q \in Requests : request[q].op = "create" => request[q].key \in KeyIds
      BY DEF WorkHasKey
    <2>4. ASSUME NEW q \in Requests, request'[q].op = "create", "row" \in request'[q].todo
          PROVE  /\ apiKeys'[request'[q].key] = None
                 /\ \A p \in Requests : p # q => request'[p].key # request'[q].key
      <3>1. /\ apiKeys[request[q].key] = None
            /\ \A p \in Requests : p # q => request[p].key # request[q].key
        BY <2>1, <2>4 DEF RequestsInv, CreatedAlone
      <3>2. ~(request[q].key = request[r].key /\ w = "row")
        BY <2>1, <2>4, <3>1
      <3> QED BY <2>1, <2>2, <2>3, <2>4, <3>1, <3>2
    <2> QED BY <2>4 DEF CreatedAlone
  <1> QED BY <1>1, <1>2, <1>5, <1>6, <1>7, <1>9, <1>10 DEF RequestsInv

\* So does the end of a call.
LEMMA RequestsEnd ==
    ASSUME TypeOK, WorkHasKey, RequestsInv, NEW r \in Requests, Ended(r)
    PROVE  RequestsInv'
  <1> USE Constants
  <1>1. IdleIsFree'
    BY DEF RequestsInv, IdleIsFree, Ended
  <1>2. Shape'
    BY DEF RequestsInv, Shape, Ended, Free
  <1>5. SecretsOfKeys'
    BY DEF RequestsInv, SecretsOfKeys, Ended, Free
  <1>6. Overlaps'
    <2>1. \A p, q \in Requests : request'[p].key = request'[q].key /\ request'[p].op # "none"
             => request'[p] = request[p] /\ request'[q] = request[q]
      BY DEF Ended, Free, WorkHasKey
    <2> QED BY <2>1 DEF RequestsInv, Overlaps, Ended
  <1>7. FreshKeyUnused'
    BY DEF RequestsInv, FreshKeyUnused, FreshId, Ended, Free
  <1>9. NewSecretsUnseen'
    BY DEF RequestsInv, NewSecretsUnseen, Ended, Free
  <1>10. CreatedAlone'
    <2>1. \A q \in Requests : request'[q].op = "create" => request'[q] = request[q] /\ request[q].key \in KeyIds
      BY DEF Ended, Free, WorkHasKey
    <2>2. \A q \in Requests : request'[q] = request[q] \/ request'[q].key = None
      BY DEF Ended, Free
    <2>3. apiKeys' = apiKeys
      BY DEF Ended
    <2> QED BY <2>1, <2>2, <2>3 DEF RequestsInv, CreatedAlone
  <1> QED BY <1>1, <1>2, <1>5, <1>6, <1>7, <1>9, <1>10 DEF RequestsInv

-----------------------------------------------------------------------------
(* The secrets that are shown, and the hashes there are.                   *)

\* What was sound or quiet after a step was so before.
LEMMA RecordsGrow ==
    ASSUME TypeOK, broken \subseteq broken',
           \A k \in KeyIds : contended[k] \subseteq contended'[k],
           NEW k \in KeyIds
    PROVE  (Sound(k)' => Sound(k)) /\ (Quiet(k)' => Quiet(k))
  BY DEF Sound, Quiet

\* A call that begins changes no row: it will replace what it has read.
LEMMA ShownBegin ==
    ASSUME IInv, KeysInv, NEW r \in Requests, NEW k \in KeyIds, NEW job,
           Begun(r, k, job),
           Creates(k, job) \/ Rotates(k, job) \/ Deletes(k, job) \/ ChangesQuota(k, job)
    PROVE  /\ RowBringsHash' /\ ReplacesShown' /\ DeletedIsGone' /\ ReworkedIsListed'
           /\ ShownHasHash' /\ ShownHasSub' /\ RowFollows' /\ HashesFollow'
  <1> USE Constants
  <1>1. /\ TypeOK /\ WorkHasKey /\ FreshIsUnknown
        /\ UNCHANGED <<apiKeys, gwSubs, gwApiKeys>>
        /\ job.key = k /\ job.op # "none"
        /\ \A q \in Requests : request'[q] = IF q = r THEN job ELSE request[q]
    BY DEF IInv, Begun
  <1>2. request[r].key = None /\ request[r].todo = {}
    BY DEF KeysInv, RequestsInv, IdleIsFree, Begun, Free
  <1>3. \A l \in KeyIds : /\ Sound(l)' => Sound(l)
                          /\ Quiet(l)' => Quiet(l)
    BY <1>1, RecordsGrow DEF Begun
  <1>4. \A q \in Requests : request[q].op # "none" => request[q].key \in KeyIds
    BY <1>1 DEF WorkHasKey
  <1>5. \A q \in Requests : request[q].op = "none" => request[q] = Free
    BY DEF KeysInv, RequestsInv, IdleIsFree
  <1>6. job.old = None \/ ("row" \in job.todo /\ job.old = apiKeys[k])
    BY DEF Creates, Rotates, Deletes, ChangesQuota
  <1>7. RowBringsHash'
    BY <1>1, <1>4 DEF KeysInv, RowBringsHash, Begun, Creates, Rotates, Deletes, ChangesQuota
  <1>8. ReplacesShown'
    <2> SUFFICES ASSUME NEW q \in Requests, request'[q].old # None, Sound(request[q].key)',
                        apiKeys[request'[q].key] = request'[q].old
                 PROVE  "row" \in request'[q].todo
      BY <1>1 DEF ReplacesShown
    <2> QED BY <1>1, <1>3, <1>4, <1>5, <1>6 DEF KeysInv, ReplacesShown, Free
  <1>9. DeletedIsGone'
    <2> SUFFICES ASSUME NEW q \in Requests, request'[q].op = "delete", Sound(request[q].key)',
                        "row" \notin request'[q].todo
                 PROVE  apiKeys[request'[q].key] = None
      BY <1>1 DEF DeletedIsGone
    <2> QED BY <1>1, <1>3, <1>4 DEF KeysInv, DeletedIsGone, Creates, Rotates, Deletes, ChangesQuota
  <1>10. ShownHasHash'
    BY <1>1, <1>2, <1>3 DEF KeysInv, ShownHasHash, Listed
  <1>11. ShownHasSub'
    BY <1>1, <1>2, <1>3 DEF KeysInv, ShownHasSub, Listed
  <1>12. RowFollows'
    <2> SUFFICES ASSUME NEW q \in Requests, request'[q].op \in {"create", "rotate", "delete"},
                        Quiet(request[q].key)'
                 PROVE  /\ apiKeys[request'[q].key] = IF "row" \in request'[q].todo
                                                      THEN request'[q].old ELSE request'[q].new
                        /\ request'[q].old \in gwApiKeys => "oldHash" \in request'[q].todo
      BY <1>1 DEF RowFollows
    <2>1. CASE q = r
      <3>1. FreshId(k) => apiKeys[k] = None
        BY DEF KeysInv, RequestsInv, FreshKeyUnused
      <3>2. None \notin gwApiKeys
        BY <1>1 DEF TypeOK
      <3> QED BY <1>1, <2>1, <3>1, <3>2 DEF Creates, Rotates, Deletes, ChangesQuota
    <2>2. CASE q # r
      BY <1>1, <1>3, <1>4, <2>2 DEF KeysInv, RowFollows
    <2> QED BY <2>1, <2>2
  <1>13. HashesFollow'
    <2>1. \A s \in gwApiKeys : issuedFor'[s] = issuedFor[s]
      BY <1>1 DEF TypeOK, FreshIsUnknown, Creates, Rotates, Deletes, ChangesQuota
    <2> QED BY <1>1, <1>2, <1>3, <2>1 DEF KeysInv, HashesFollow
  <1>15. ReworkedIsListed'
    BY <1>1, <1>3, <1>4 DEF KeysInv, ReworkedIsListed, Creates, Rotates, Deletes, ChangesQuota
  <1> QED BY <1>7, <1>8, <1>9, <1>10, <1>11, <1>12, <1>13, <1>15

\* A write: the hash of a new secret and its row land in either order, and a
\* hash goes only with the row that shows its secret.
LEMMA ShownWrite ==
    ASSUME IInv, KeysInv, NEW r \in Requests, NEW w, Wrote(r, w)
    PROVE  /\ RowBringsHash' /\ ReplacesShown' /\ DeletedIsGone' /\ ReworkedIsListed'
           /\ ShownHasHash' /\ ShownHasSub'
  <1> USE Constants
  <1> DEFINE j == request[r]
  <1>1. /\ TypeOK /\ WorkHasKey
        /\ w \in j.todo /\ j.key \in KeyIds /\ j.op # "none"
        /\ \A q \in Requests :
              /\ request'[q].op = request[q].op /\ request'[q].key = request[q].key
              /\ request'[q].old = request[q].old /\ request'[q].new = request[q].new
              /\ request'[q].todo = IF q = r THEN request[q].todo \ {w} ELSE request[q].todo
        /\ Effect(j, w)
    BY DEF IInv, Wrote
  <1>2. /\ \A k \in KeyIds : /\ Sound(k)' => Sound(k)
                             /\ Quiet(k)' => Quiet(k)
        /\ broken \subseteq broken'
    BY <1>1, RecordsGrow DEF Wrote
  <1>3. \A q \in Requests : request[q].op # "none" => request[q].key \in KeyIds
    BY <1>1 DEF WorkHasKey
  <1>4. \A q \in Requests : request[q].op = "none" =>
           request[q].old = None /\ request[q].new = None /\ request[q].todo = {}
    BY DEF KeysInv, RequestsInv, IdleIsFree, Free
  <1>5. \A q \in Requests :
           /\ request[q].old # None => issuedFor[request[q].old] = request[q].key
           /\ request[q].new # None => issuedFor[request[q].new] = request[q].key
    BY DEF KeysInv, RequestsInv, SecretsOfKeys
  <1>6. \A k \in KeyIds : apiKeys[k] # None => issuedFor[apiKeys[k]] = k
    BY DEF KeysInv, RequestsInv, SecretsOfKeys
  <1>7. \A q \in Requests : q # r /\ request[q].key = j.key /\ "delete" \notin contended[j.key]
           => request[q].op # "delete" /\ j.op # "delete"
    BY <1>1 DEF KeysInv, RequestsInv, Overlaps
  <1>8. RowBringsHash'
    <2> SUFFICES ASSUME NEW q \in Requests, "row" \in request'[q].todo, request[q].new # None,
                        request[q].key \notin broken'
                 PROVE  /\ request[q].new \in gwApiKeys' \/ "newHash" \in request'[q].todo
                        /\ request[q].op = "create" =>
                              request[q].key \in gwSubs' \/ "sub" \in request'[q].todo
      BY <1>1 DEF RowBringsHash
    <2>1. /\ "row" \in request[q].todo /\ request[q].key \notin broken /\ request[q].op # "none"
          /\ request[q].key \in KeyIds
      BY <1>1, <1>2, <1>3, <1>4
    <2>2. /\ request[q].new \in gwApiKeys \/ "newHash" \in request[q].todo
          /\ request[q].op = "create" => request[q].key \in gwSubs \/ "sub" \in request[q].todo
      BY <2>1 DEF KeysInv, RowBringsHash
    <2>3. j.old # request[q].new
      BY <2>1 DEF KeysInv, RequestsInv, NewSecretsUnseen
    <2>4. request[q].new \in gwApiKeys' \/ "newHash" \in request'[q].todo
      BY <1>1, <2>2, <2>3 DEF Effect
    <2>5. ASSUME request[q].op = "create"
          PROVE  request[q].key \in gwSubs' \/ "sub" \in request'[q].todo
      <3>1. q = r \/ request[q].key # j.key
        BY <2>1, <2>5 DEF KeysInv, RequestsInv, CreatedAlone
      <3>3. CASE q = r
        <4>1. CASE w = "sub"
          <5>1. j.key \in gwSubs'
            BY <1>1, <2>5, <3>3, <4>1 DEF Effect, Sound
          <5> QED BY <3>3, <5>1
        <4>2. CASE w # "sub"
          <5>1. j.key \in gwSubs' <=> j.key \in gwSubs
            BY <1>1, <4>2 DEF Effect
          <5>2. "sub" \in request[r].todo => "sub" \in request'[r].todo
            BY <1>1, <4>2
          <5> QED BY <2>2, <2>5, <3>3, <5>1, <5>2
        <4> QED BY <4>1, <4>2
      <3>4. CASE request[q].key # j.key
        <4>1. request[q].key \in gwSubs' <=> request[q].key \in gwSubs
          BY <1>1, <2>1, <3>4 DEF Effect
        <4> QED BY <1>1, <2>2, <2>5, <3>4, <4>1
      <3> QED BY <3>1, <3>3, <3>4
    <2> QED BY <2>4, <2>5
  <1>9. ReplacesShown'
    <2> SUFFICES ASSUME NEW q \in Requests, request[q].old # None, Sound(request[q].key)',
                        apiKeys'[request[q].key] = request[q].old
                 PROVE  "row" \in request'[q].todo
      BY <1>1 DEF ReplacesShown
    <2>1. request[q].key \in KeyIds /\ Sound(request[q].key)
      BY <1>1, <1>2, <1>3, <1>4
    <2>2. CASE apiKeys'[request[q].key] = apiKeys[request[q].key]
      <3>1. "row" \in request[q].todo
        BY <2>1, <2>2 DEF KeysInv, ReplacesShown
      <3>2. ~(q = r /\ w = "row")
        <4> SUFFICES ASSUME q = r, w = "row" PROVE FALSE
          OBVIOUS
        <4>1. j.old # j.new
          <5>1. CASE j.new = None
            BY <5>1
          <5>2. CASE j.new # None
            BY <5>2 DEF KeysInv, RequestsInv, NewSecretsUnseen
          <5> QED BY <5>1, <5>2
        <4> QED BY <1>1, <2>1, <4>1 DEF Effect, Sound
      <3> QED BY <1>1, <3>1, <3>2
    <2>3. CASE apiKeys'[request[q].key] # apiKeys[request[q].key]
      <3>1. w = "row" /\ request[q].old = j.new
        BY <1>1, <2>1, <2>3 DEF Effect
      <3> QED BY <1>1, <3>1 DEF KeysInv, RequestsInv, NewSecretsUnseen
    <2> QED BY <2>2, <2>3
  <1>10. DeletedIsGone'
    <2> SUFFICES ASSUME NEW q \in Requests, request[q].op = "delete", Sound(request[q].key)',
                        "row" \notin request'[q].todo
                 PROVE  apiKeys'[request[q].key] = None
      BY <1>1 DEF DeletedIsGone
    <2>1. request[q].key \in KeyIds /\ Sound(request[q].key)
      BY <1>1, <1>2, <1>3
    <2>2. q = r \/ request[q].key # j.key
      BY <1>7, <2>1 DEF Sound
    <2>3. j.op = "delete" => j.new = None
      BY DEF KeysInv, RequestsInv, Shape
    <2>4. "row" \notin request[q].todo => apiKeys[request[q].key] = None
      BY <2>1 DEF KeysInv, DeletedIsGone
    <2> QED BY <1>1, <2>1, <2>2, <2>3, <2>4 DEF Effect, Sound
  <1>11. ShownHasHash'
    <2> SUFFICES ASSUME NEW k \in KeyIds, apiKeys'[k] # None, Sound(k)'
                 PROVE  \/ apiKeys'[k] \in gwApiKeys'
                        \/ \E q \in Requests :
                              /\ request'[q].key = k
                              /\ \/ request'[q].new = apiKeys'[k] /\ "newHash" \in request'[q].todo
                                 \/ request'[q].old = apiKeys'[k] /\ "row" \in request'[q].todo
      BY DEF ShownHasHash, Listed
    <2>1. CASE w = "row" /\ k = j.key /\ apiKeys'[k] = j.new
      <3>1. j.new \in gwApiKeys \/ "newHash" \in j.todo
        BY <1>1, <1>2, <2>1 DEF KeysInv, RowBringsHash, Sound
      <3> QED BY <1>1, <2>1, <3>1 DEF Effect
    <2>2. CASE apiKeys'[k] = apiKeys[k] /\ ~(w = "row" /\ k = j.key)
      <3>1. \/ apiKeys[k] \in gwApiKeys
            \/ \E q \in Requests :
                  /\ request[q].key = k
                  /\ \/ request[q].new = apiKeys[k] /\ "newHash" \in request[q].todo
                     \/ request[q].old = apiKeys[k] /\ "row" \in request[q].todo
        BY <1>2, <2>2 DEF KeysInv, ShownHasHash, Listed
      <3>2. CASE apiKeys[k] \in gwApiKeys
        <4>1. CASE apiKeys[k] \in gwApiKeys'
          BY <2>2, <4>1
        <4>2. CASE apiKeys[k] \notin gwApiKeys'
          <5>1. w = "oldHash" /\ apiKeys[k] = j.old
            BY <1>1, <3>2, <4>2 DEF Effect
          <5>2. j.key = k /\ j.old # None
            BY <1>5, <1>6, <2>2, <5>1
          <5>3. "row" \in j.todo
            BY <1>2, <5>1, <5>2 DEF KeysInv, ReplacesShown
          <5> QED BY <1>1, <2>2, <5>1, <5>2, <5>3
        <4> QED BY <4>1, <4>2
      <3>3. ASSUME NEW q \in Requests, request[q].key = k,
                   request[q].new = apiKeys[k], "newHash" \in request[q].todo
            PROVE  \/ apiKeys[k] \in gwApiKeys'
                   \/ "newHash" \in request'[q].todo
        BY <1>1, <3>3 DEF Effect, Sound
      <3>4. ASSUME NEW q \in Requests, request[q].key = k,
                   request[q].old = apiKeys[k], "row" \in request[q].todo
            PROVE  "row" \in request'[q].todo
        BY <1>1, <2>2, <3>4
      <3> QED BY <1>1, <2>2, <3>1, <3>2, <3>3, <3>4
    <2> QED BY <1>1, <2>1, <2>2 DEF Effect, Sound
  <1>12. ShownHasSub'
    <2> SUFFICES ASSUME NEW k \in KeyIds, apiKeys'[k] # None, Sound(k)'
                 PROVE  \/ k \in gwSubs'
                        \/ \E q \in Requests :
                              /\ request'[q].key = k
                              /\ \/ request'[q].op = "create" /\ "sub" \in request'[q].todo
                                 \/ request'[q].op = "delete" /\ "row" \in request'[q].todo
      BY DEF ShownHasSub, Listed
    <2>1. CASE k = j.key /\ w = "row" /\ j.op = "create"
      <3>1. k \in gwSubs \/ "sub" \in j.todo
        <4>1. j.new # None
          BY <2>1 DEF KeysInv, RequestsInv, Shape
        <4> QED BY <1>1, <1>2, <2>1, <4>1 DEF KeysInv, RowBringsHash, Sound
      <3> QED BY <1>1, <2>1, <3>1 DEF Effect
    <2>2. CASE ~(k = j.key /\ w = "row" /\ j.op = "create")
      <3>1. /\ apiKeys[k] # None
            /\ ~(k = j.key /\ w = "row" /\ j.op = "delete")
        <4>1. CASE k = j.key /\ w = "row"
          <5>1. j.op # "delete"
            <6>1. j.op = "delete" => j.new = None
              BY DEF KeysInv, RequestsInv, Shape
            <6> QED BY <1>1, <4>1, <6>1 DEF Effect, Sound
          <5>2. j.op = "rotate"
            BY <1>1, <2>2, <4>1, <5>1 DEF KeysInv, RequestsInv, Shape, TypeOK, Request, Ops
          <5> QED BY <1>2, <4>1, <5>1, <5>2 DEF KeysInv, ReworkedIsListed
        <4>2. CASE ~(k = j.key /\ w = "row")
          BY <1>1, <4>2 DEF Effect
        <4> QED BY <4>1, <4>2
      <3>2. \/ k \in gwSubs
            \/ \E q \in Requests :
                  /\ request[q].key = k
                  /\ \/ request[q].op = "create" /\ "sub" \in request[q].todo
                     \/ request[q].op = "delete" /\ "row" \in request[q].todo
        BY <1>2, <3>1 DEF KeysInv, ShownHasSub, Listed
      <3>3. CASE k \in gwSubs
        <4>1. CASE k \in gwSubs'
          BY <4>1
        <4>2. CASE k \notin gwSubs'
          <5>2. w = "sub" /\ k = j.key /\ j.op = "delete"
            BY <1>1, <3>3, <4>2 DEF Effect
          <5>3. "row" \in j.todo
            BY <1>2, <3>1, <5>2 DEF KeysInv, DeletedIsGone
          <5> QED BY <1>1, <5>2, <5>3
        <4> QED BY <4>1, <4>2
      <3>4. ASSUME NEW q \in Requests, request[q].key = k,
                   \/ request[q].op = "create" /\ "sub" \in request[q].todo
                   \/ request[q].op = "delete" /\ "row" \in request[q].todo
            PROVE  \/ k \in gwSubs'
                   \/ request'[q].op = "create" /\ "sub" \in request'[q].todo
                   \/ request'[q].op = "delete" /\ "row" \in request'[q].todo
        <4>1. CASE q = r /\ j.op = "create"
          <5>2. w = "sub" => k \in gwSubs'
            BY <1>1, <3>4, <4>1 DEF Effect, Sound
          <5>3. w # "sub" => "sub" \in request'[r].todo
            BY <1>1, <3>4, <4>1
          <5>4. request'[q].op = "create"
            BY <1>1, <4>1
          <5>5. CASE w = "sub"
            BY <5>2, <5>5
          <5>6. CASE w # "sub"
            BY <4>1, <5>3, <5>4, <5>6
          <5> QED BY <5>5, <5>6
        <4>3. CASE q = r /\ j.op # "create"
          <5>1. j.op = "delete" /\ "row" \in j.todo
            BY <3>4, <4>3
          <5>2. "row" \in request'[r].todo
            BY <1>1, <3>1, <3>4, <4>3, <5>1
          <5> QED BY <1>1, <4>3, <5>1, <5>2
        <4>2. CASE q # r
          BY <1>1, <3>4, <4>2
        <4> QED BY <4>1, <4>2, <4>3
      <3> QED BY <1>1, <3>2, <3>3, <3>4
    <2> QED BY <2>1, <2>2
  <1>13. ReworkedIsListed'
    <2> SUFFICES ASSUME NEW q \in Requests, request[q].op \in {"rotate", "quota"},
                        Sound(request[q].key)'
                 PROVE  apiKeys'[request[q].key] # None
      BY <1>1 DEF ReworkedIsListed
    <2>1. request[q].key \in KeyIds /\ Sound(request[q].key)
      BY <1>1, <1>2, <1>3
    <2>2. apiKeys[request[q].key] # None
      BY <2>1 DEF KeysInv, ReworkedIsListed
    <2>3. w = "row" /\ request[q].key = j.key => j.op # "delete"
      BY <1>7, <2>1 DEF Sound
    <2>4. w = "row" => j.op \in {"create", "rotate", "delete"}
      BY <1>1 DEF KeysInv, RequestsInv, Shape, TypeOK, Request, Ops
    <2>5. j.op \in {"create", "rotate"} => j.new # None
      BY DEF KeysInv, RequestsInv, Shape
    <2> QED BY <1>1, <2>1, <2>2, <2>3, <2>4, <2>5 DEF Effect
  <1> QED BY <1>8, <1>9, <1>10, <1>11, <1>12, <1>13

\* A write on a key that no other call works on: the hashes follow the row.
LEMMA OnlyShownWrite ==
    ASSUME IInv, KeysInv, NEW r \in Requests, NEW w, Wrote(r, w)
    PROVE  RowFollows' /\ HashesFollow'
  <1> USE Constants
  <1> DEFINE j == request[r]
  <1>1. /\ TypeOK /\ WorkHasKey
        /\ w \in j.todo /\ j.key \in KeyIds /\ j.op # "none"
        /\ \A q \in Requests :
              /\ request'[q].op = request[q].op /\ request'[q].key = request[q].key
              /\ request'[q].old = request[q].old /\ request'[q].new = request[q].new
              /\ request'[q].todo = IF q = r THEN request[q].todo \ {w} ELSE request[q].todo
        /\ Effect(j, w)
        /\ issuedFor' = issuedFor
    BY DEF IInv, Wrote
  <1>2. \A k \in KeyIds : Quiet(k)' => Quiet(k) /\ k \notin broken'
    BY <1>1, RecordsGrow DEF Wrote, Quiet
  <1>3. \A q \in Requests : request[q].op # "none" => request[q].key \in KeyIds
    BY <1>1 DEF WorkHasKey
  <1>4. \A q \in Requests :
           /\ request[q].old # None => issuedFor[request[q].old] = request[q].key
           /\ request[q].new # None => issuedFor[request[q].new] = request[q].key
    BY DEF KeysInv, RequestsInv, SecretsOfKeys
  <1>5. Quiet(j.key) => \A q \in Requests : q # r => request[q].key # j.key
    BY <1>1 DEF KeysInv, RequestsInv, Overlaps, Quiet
  <1>6. /\ w \in {"newHash", "row"} /\ j.op # "delete" => j.new # None
        /\ w = "newHash" => j.op \in {"create", "rotate"}
        /\ w \in {"row", "oldHash"} => j.op \in {"create", "rotate", "delete"}
    BY <1>1 DEF KeysInv, RequestsInv, Shape, TypeOK, Request, Ops
  <1>7. j.new # None => j.old # j.new
    BY DEF KeysInv, RequestsInv, NewSecretsUnseen
  <1>8. j.op \in {"create", "rotate", "delete"} /\ Quiet(j.key) =>
           /\ apiKeys[j.key] = IF "row" \in j.todo THEN j.old ELSE j.new
           /\ j.old \in gwApiKeys => "oldHash" \in j.todo
    BY DEF KeysInv, RowFollows
  <1>9. RowFollows'
    <2> SUFFICES ASSUME NEW q \in Requests, request[q].op \in {"create", "rotate", "delete"},
                        Quiet(request[q].key)'
                 PROVE  /\ apiKeys'[request[q].key] = IF "row" \in request'[q].todo
                                                      THEN request[q].old ELSE request[q].new
                        /\ request[q].old \in gwApiKeys' => "oldHash" \in request'[q].todo
      BY <1>1 DEF RowFollows
    <2>1. request[q].key \in KeyIds /\ Quiet(request[q].key) /\ request[q].key \notin broken'
      <3>1. request[q].key \in KeyIds
        BY <1>3
      <3> QED BY <1>1, <1>2, <3>1
    <2>2. /\ apiKeys[request[q].key] = IF "row" \in request[q].todo
                                       THEN request[q].old ELSE request[q].new
          /\ request[q].old \in gwApiKeys => "oldHash" \in request[q].todo
      BY <2>1 DEF KeysInv, RowFollows
    <2>3. CASE q # r
      <3>1. request[q].key # j.key
        BY <1>5, <2>1, <2>3
      <3>2. apiKeys'[request[q].key] = apiKeys[request[q].key]
        BY <1>1, <2>1, <3>1 DEF Effect
      <3>3. request[q].old \in gwApiKeys' => request[q].old \in gwApiKeys
        <4> SUFFICES ASSUME request[q].old \in gwApiKeys', request[q].old \notin gwApiKeys
                     PROVE  FALSE
          OBVIOUS
        <4>1. w = "newHash" /\ request[q].old = j.new
          BY <1>1 DEF Effect
        <4>2. j.new # None
          BY <1>6, <4>1
        <4> QED BY <1>4, <3>1, <4>1, <4>2
      <3> QED BY <1>1, <2>2, <2>3, <3>2, <3>3
    <2>4. CASE q = r
      <3>1. CASE w = "row"
        <4>1. apiKeys'[j.key] = j.new /\ gwApiKeys' = gwApiKeys
          BY <1>1, <2>1, <2>4, <3>1 DEF Effect
        <4> QED BY <1>1, <2>2, <2>4, <3>1, <4>1
      <3>2. CASE w = "newHash"
        <4>1. apiKeys' = apiKeys /\ gwApiKeys' = gwApiKeys \cup {j.new} /\ j.old # j.new
          BY <1>1, <1>6, <1>7, <2>1, <2>4, <3>2 DEF Effect
        <4> QED BY <1>1, <2>2, <2>4, <3>2, <4>1
      <3>3. CASE w = "oldHash"
        <4>1. apiKeys' = apiKeys /\ gwApiKeys' = gwApiKeys \ {j.old}
          BY <1>1, <2>1, <2>4, <3>3 DEF Effect
        <4> QED BY <1>1, <2>2, <2>4, <3>3, <4>1
      <3>4. CASE w \notin {"row", "newHash", "oldHash"}
        <4>1. apiKeys' = apiKeys /\ gwApiKeys' = gwApiKeys
          BY <1>1, <2>1, <2>4, <3>4 DEF Effect
        <4> QED BY <1>1, <2>2, <2>4, <3>4, <4>1
      <3> QED BY <3>1, <3>2, <3>3, <3>4
    <2> QED BY <2>3, <2>4
  <1>10. HashesFollow'
    <2> SUFFICES ASSUME NEW k \in KeyIds, Quiet(k)', NEW s \in gwApiKeys', issuedFor'[s] = k
                 PROVE  \/ s = apiKeys'[k]
                        \/ \E q \in Requests :
                              /\ request'[q].key = k
                              /\ \/ s = request'[q].old /\ "oldHash" \in request'[q].todo
                                 \/ s = request'[q].new /\ "row" \in request'[q].todo
      BY DEF HashesFollow
    <2>1. Quiet(k) /\ k \notin broken' /\ issuedFor[s] = k
      BY <1>1, <1>2
    <2>2. s \in gwApiKeys =>
             \/ s = apiKeys[k]
             \/ \E q \in Requests :
                   /\ request[q].key = k
                   /\ \/ s = request[q].old /\ "oldHash" \in request[q].todo
                      \/ s = request[q].new /\ "row" \in request[q].todo
      BY <2>1 DEF KeysInv, HashesFollow
    <2>3. s \notin gwApiKeys => w = "newHash" /\ s = j.new /\ k = j.key
      <3>1. s \notin gwApiKeys => w = "newHash" /\ s = j.new
        BY <1>1 DEF Effect
      <3> QED BY <1>4, <1>6, <2>1, <3>1
    <2>4. CASE k # j.key
      <3>1. apiKeys'[k] = apiKeys[k]
        BY <1>1, <2>4 DEF Effect
      <3>2. \A q \in Requests : request[q].key = k => request'[q].todo = request[q].todo
        BY <1>1, <2>4
      <3> QED BY <1>1, <2>2, <2>3, <2>4, <3>1, <3>2
    <2>5. CASE k = j.key /\ s \notin gwApiKeys
      <3>1. w = "newHash" /\ s = j.new
        BY <2>3, <2>5
      <3>2. s = apiKeys[k] \/ "row" \in j.todo
        BY <1>6, <1>8, <2>1, <2>5, <3>1
      <3>3. apiKeys' = apiKeys
        BY <1>1, <2>1, <2>5, <3>1 DEF Effect
      <3>4. "row" \in j.todo => "row" \in request'[r].todo
        BY <1>1, <3>1
      <3> QED BY <1>1, <2>5, <3>1, <3>2, <3>3, <3>4
    <2>6. CASE k = j.key /\ s \in gwApiKeys
      <3>1. \/ s = apiKeys[k]
            \/ s = j.old /\ "oldHash" \in j.todo
            \/ s = j.new /\ "row" \in j.todo
        BY <1>5, <2>1, <2>2, <2>6
      <3>2. CASE w = "row"
        <4>1. apiKeys'[k] = j.new
          BY <1>1, <2>1, <2>6, <3>2 DEF Effect
        <4>2. s = apiKeys[k] => s = j.old /\ "oldHash" \in j.todo
          BY <1>1, <1>6, <1>8, <2>1, <2>6, <3>2
        <4>3. "oldHash" \in j.todo => "oldHash" \in request'[r].todo
          BY <1>1, <3>2
        <4> QED BY <1>1, <2>6, <3>1, <4>1, <4>2, <4>3
      <3>3. CASE w # "row"
        <4>1. apiKeys' = apiKeys
          BY <1>1, <2>1, <2>6, <3>3 DEF Effect
        <4>2. "row" \in j.todo => "row" \in request'[r].todo
          BY <1>1, <3>3
        <4>3. s = j.old => w # "oldHash"
          BY <1>1, <2>1, <2>6 DEF Effect
        <4>4. s = j.old /\ "oldHash" \in j.todo => "oldHash" \in request'[r].todo
          BY <1>1, <4>3
        <4> QED BY <1>1, <2>6, <3>1, <4>1, <4>2, <4>4
      <3> QED BY <3>2, <3>3
    <2> QED BY <2>4, <2>5, <2>6
  <1> QED BY <1>9, <1>10

\* The end of a call: nothing was left to do.
LEMMA KeysEnd ==
    ASSUME IInv, KeysInv, NEW r \in Requests, Ended(r)
    PROVE  /\ RowBringsHash' /\ ReplacesShown' /\ DeletedIsGone' /\ ReworkedIsListed'
           /\ ShownHasHash' /\ ShownHasSub' /\ RowFollows' /\ HashesFollow'
  <1> USE Constants
  <1>1. /\ TypeOK /\ WorkHasKey
        /\ request[r].op # "none" /\ request[r].todo = {} /\ request[r].key \in KeyIds
        /\ \A q \in Requests : request'[q] = IF q = r THEN Free ELSE request[q]
        /\ UNCHANGED <<apiKeys, gwSubs, gwApiKeys, issuedFor, contended>>
    BY DEF IInv, Ended, WorkHasKey
  <1>2. /\ \A k \in KeyIds : /\ Sound(k)' => Sound(k)
                             /\ Quiet(k)' => Quiet(k)
        /\ broken \subseteq broken'
    BY <1>1, RecordsGrow DEF Ended
  <1>3. \A q \in Requests : request[q].op # "none" => request[q].key \in KeyIds
    BY <1>1 DEF WorkHasKey
  <1>4. \A q \in Requests : request[q].old # None \/ request[q].new # None \/ request[q].todo # {}
           => request[q].op # "none"
    BY DEF KeysInv, RequestsInv, IdleIsFree, Free
  <1>5. \A q \in Requests :
           request'[q].op # "none" \/ request'[q].old # None \/ request'[q].new # None
                 \/ request'[q].todo # {}
              => q # r /\ request'[q] = request[q] /\ request[q].key \in KeyIds
    BY <1>1, <1>3, <1>4 DEF Free
  <1>6. \A q \in Requests : request[q].todo # {} => q # r /\ request'[q] = request[q]
    BY <1>1
  <1>7. RowBringsHash'
    BY <1>1, <1>2, <1>5 DEF KeysInv, RowBringsHash
  <1>8. ReplacesShown'
    BY <1>1, <1>2, <1>5 DEF KeysInv, ReplacesShown
  <1>9. DeletedIsGone'
    BY <1>1, <1>2, <1>5 DEF KeysInv, DeletedIsGone
  <1>10. ReworkedIsListed'
    BY <1>1, <1>2, <1>5 DEF KeysInv, ReworkedIsListed
  <1>11. ShownHasHash'
    BY <1>1, <1>2, <1>6 DEF KeysInv, ShownHasHash, Listed
  <1>12. ShownHasSub'
    BY <1>1, <1>2, <1>6 DEF KeysInv, ShownHasSub, Listed
  <1>13. RowFollows'
    BY <1>1, <1>2, <1>5 DEF KeysInv, RowFollows
  <1>14. HashesFollow'
    BY <1>1, <1>2, <1>6 DEF KeysInv, HashesFollow
  <1> QED BY <1>7, <1>8, <1>9, <1>10, <1>11, <1>12, <1>13, <1>14

-----------------------------------------------------------------------------
(* What is shown works, and nothing else.                                  *)

\* Every step of a request, a caller or the clock keeps the keys' invariant.
LEMMA KeysNext == IInv /\ KeysInv /\ [Next]_vars => KeysInv'
  <1> SUFFICES ASSUME IInv, KeysInv, [Next]_vars PROVE KeysInv'
    OBVIOUS
  <1>1. TypeOK /\ WorkHasKey /\ RequestsInv
    BY DEF IInv, KeysInv
  <1>2. ASSUME NEW r \in Requests, NEW k \in KeyIds,
               \/ \E s \in Secrets : CreateKey(r, k, s) \/ RotateKey(r, k, s)
               \/ DeleteKey(r, k)
               \/ SetQuota(r, k)
        PROVE  KeysInv'
    <2>1. PICK job : /\ Begun(r, k, job)
                     /\ Creates(k, job) \/ Rotates(k, job) \/ Deletes(k, job) \/ ChangesQuota(k, job)
      BY <1>1, <1>2, CallBegins
    <2> QED BY <1>1, <2>1, RequestsBegin, ShownBegin DEF KeysInv
  <1>3. ASSUME NEW r \in Requests, Write(r) \/ WriteFails(r)
        PROVE  KeysInv'
    <2>1. PICK w : Wrote(r, w)
      BY <1>1, <1>3, WriteLands
    <2> QED BY <1>1, <2>1, RequestsWrite, ShownWrite, OnlyShownWrite DEF KeysInv
  <1>4. ASSUME NEW r \in Requests, TellRedis(r) \/ RedisFails(r)
        PROVE  KeysInv'
    <2>1. Ended(r)
      BY <1>1, <1>4, CallEnds
    <2> QED BY <1>1, <2>1, RequestsEnd, KeysEnd DEF KeysInv
  <1>5. ASSUME \/ \E c \in Callers :
                    \/ \E s \in Secrets : ReadCache(c, s)
                    \/ ReadTable(c) \/ FillCache(c) \/ ResolveUser(c) \/ Depart(c)
               \/ Tick
               \/ UNCHANGED vars
        PROVE  KeysInv'
    <2>1. UNCHANGED <<apiKeys, gwSubs, gwApiKeys, issuedFor, request, contended, broken>>
      BY <1>5, OthersLeaveKeys
    <2>2. RequestsInv'
      BY <1>1, <2>1 DEF RequestsInv, IdleIsFree, Shape, SecretsOfKeys, Overlaps, FreshKeyUnused,
         FreshId, NewSecretsUnseen, CreatedAlone
    <2>3. RowBringsHash' /\ ReplacesShown' /\ DeletedIsGone' /\ ReworkedIsListed'
      BY <2>1 DEF KeysInv, RowBringsHash, ReplacesShown, DeletedIsGone, ReworkedIsListed, Sound
    <2>4. ShownHasHash' /\ ShownHasSub'
      BY <2>1 DEF KeysInv, ShownHasHash, ShownHasSub, Sound, Listed
    <2>5. RowFollows' /\ HashesFollow'
      BY <2>1 DEF KeysInv, RowFollows, HashesFollow, Quiet
    <2> QED BY <2>2, <2>3, <2>4, <2>5 DEF KeysInv
  <1> QED BY <1>2, <1>3, <1>4, <1>5 DEF Next

\* It holds in every behaviour, beside the first invariant.
LEMMA KeysInvariance == Spec => []KeysInv
  <1> QED BY KeysInit, KeysNext, Invariance, PTL DEF Spec

\* On a key nobody works on, nothing is still to be written.
LEMMA IdleKey ==
    ASSUME NEW k, Settled(k)
    PROVE  k \notin broken /\ \A r \in Requests : request[r].key # k
  BY DEF Settled, Busy, WorkingOn

\* The secret the portal shows is one the gateway lets in, however many
\* rotations overlap and in whatever order their writes land.
THEOREM ShownWorks == Spec => []ShownKeyWorks
  <1>1. KeysInv => ShownKeyWorks
    BY IdleKey DEF KeysInv, ShownHasHash, ShownHasSub, Sound, ShownKeyWorks, Listed
  <1> QED BY <1>1, KeysInvariance, PTL

\* No other secret is let in for the key, and none after its deletion, if its
\* calls did not overlap.
THEOREM OnlyShownWorks == Spec => []OnlyShownKeyWorks
  <1>1. KeysInv => OnlyShownKeyWorks
    BY IdleKey DEF KeysInv, HashesFollow, Quiet, OnlyShownKeyWorks
  <1> QED BY <1>1, KeysInvariance, PTL

=============================================================================
