------------------------------ MODULE KeyLimits ------------------------------
(***************************************************************************)
(* The limit of one API key, from the portal's page to the gateway's check *)
(* (keys-table.ts, quota.py).  The table has it (GwSubscriptions); Redis   *)
(* has a copy, sub:{id}:quota:bytes, with two writers: setQuota overwrites *)
(* or deletes it after the table, and keeps no expiry; a check of the      *)
(* gateway that finds none looks into the table and puts there what it     *)
(* read, or "none", for CACHE_TTL.  Nothing orders the two.  Every call to *)
(* the table or to Redis is a step.                                        *)
(***************************************************************************)
EXTENDS Integers, FiniteSets

CONSTANTS
    Setters,        \* calls of setQuota in flight at a time
    Checkers,       \* gateway requests whose limit is checked at a time
    Limits,         \* the limits that are set, in bytes
    LimitTTL,       \* ticks the gateway's copy lives (CACHE_TTL, one hour)
    LimitUnit,      \* what a limit is rounded up to when it is shown (100 KB)
    MaxQuotaCalls   \* bound: calls of setQuota

ASSUME LimitsAssumption ==
    /\ Limits \subseteq Nat \ {0}
    /\ LimitTTL \in Nat \ {0} /\ LimitUnit \in Nat \ {0} /\ MaxQuotaCalls \in Nat

VARIABLES
    limitRow,       \* quota_bytes of the subscription
    limitCopy,      \* the copy in Redis and the ticks it has left
    setting,        \* what each call of setQuota is doing
    checking,       \* what each check is doing
    overtaken,      \* history: ticks since a call replaced each limit while a
                    \* check had it in hand; of none, also since one could not
                    \* read the table
    amiss,          \* history: no call that ran alone has succeeded since calls
                    \* overlapped, one failed, or the subscription went
    quotaCalls

limitVars == <<limitRow, limitCopy, setting, checking, overtaken, amiss, quotaCalls>>

NoLimit        == 0
NoSubscription == -1
Lasting        == LimitTTL + 1      \* a copy without expiry
LimitValues    == Limits \cup {NoLimit}
NoCopy         == [limit |-> NoLimit, left |-> 0]
NotSetting     == [at |-> "idle", limit |-> NoLimit, was |-> NoLimit, alone |-> FALSE]
NotChecking    == [at |-> "idle", limit |-> NoLimit]

\* _lookup_quota_from_table: no row, no quota and the sentinel are all no limit.
LimitOf(row) == IF row = NoSubscription THEN NoLimit ELSE row

LimitsInit ==
    /\ limitRow = NoLimit
    /\ limitCopy = NoCopy
    /\ setting = [s \in Setters |-> NotSetting]
    /\ checking = [c \in Checkers |-> NotChecking]
    /\ overtaken = [q \in LimitValues |-> LimitTTL]
    /\ amiss = FALSE
    /\ quotaCalls = 0

-----------------------------------------------------------------------------
(* The portal sets the limit.                                              *)

AtWorkOn(s) == setting[s].at # "idle"

\* Whoever is at work no longer is so alone.
Joined == [s \in Setters |-> [setting[s] EXCEPT !.alone = FALSE]]

\* setQuota has found the subscription.
BeginQuota(s, q) ==
    /\ setting[s] = NotSetting
    /\ limitRow # NoSubscription
    /\ quotaCalls < MaxQuotaCalls
    /\ quotaCalls' = quotaCalls + 1
    /\ LET others == {t \in Setters : AtWorkOn(t)} IN
       /\ setting' = [Joined EXCEPT ![s] =
              [at |-> "table", limit |-> q, was |-> NoLimit, alone |-> (others = {})]]
       /\ amiss' = (amiss \/ others # {})
    /\ UNCHANGED <<limitRow, limitCopy, checking, overtaken>>

\* The upsert, which puts the row there if it has gone meanwhile.
WriteLimit(s) ==
    /\ setting[s].at = "table"
    /\ limitRow' = setting[s].limit
    /\ setting' = [setting EXCEPT ![s].at = "redis", ![s].was = LimitOf(limitRow)]
    /\ UNCHANGED <<limitCopy, checking, overtaken, amiss, quotaCalls>>

\* The call is over, and amiss if it failed.
GiveUp(s) ==
    /\ setting' = [setting EXCEPT ![s] = NotSetting]
    /\ amiss' = TRUE
    /\ UNCHANGED <<checking, overtaken, quotaCalls>>

\* The upsert is answered with an error; the table may have done it or not.
WriteLimitFails(s) ==
    /\ setting[s].at = "table"
    /\ limitRow' \in {limitRow, setting[s].limit}
    /\ GiveUp(s)
    /\ UNCHANGED limitCopy

\* What checks have read and will put into Redis.
InHand == {checking[c].limit : c \in {d \in Checkers : checking[d].at = "fill"}}

\* The call succeeds, after checks that are under way.
Succeed(s) ==
    /\ setting' = [setting EXCEPT ![s] = NotSetting]
    /\ amiss' = (amiss /\ ~setting[s].alone)
    /\ overtaken' = [q \in LimitValues |-> IF q \in InHand THEN 0 ELSE overtaken[q]]
    /\ UNCHANGED <<limitRow, checking, quotaCalls>>

\* SET without an expiry, or DEL.
CopyOf(q) == IF q = NoLimit THEN NoCopy ELSE [limit |-> q, left |-> Lasting]

\* Mutant: the new limit goes to the table only.
CopyNothing(s) ==
    /\ setting[s].at = "redis"
    /\ Succeed(s)
    /\ UNCHANGED limitCopy

CopyLimit(s) ==
    /\ setting[s].at = "redis"
    /\ limitCopy' = CopyOf(setting[s].limit)
    /\ Succeed(s)

CopyLimitFails(s) ==
    /\ setting[s].at = "redis"
    /\ limitCopy' \in {limitCopy, CopyOf(setting[s].limit)}
    /\ GiveUp(s)
    /\ UNCHANGED limitRow

\* TableKeyStore.delete removes the subscription and leaves Redis its limit.
DropSubscription ==
    /\ limitRow # NoSubscription
    /\ limitRow' = NoSubscription
    /\ setting' = Joined
    /\ amiss' = TRUE
    /\ UNCHANGED <<limitCopy, checking, overtaken, quotaCalls>>

-----------------------------------------------------------------------------
(* The gateway checks a request against it: _check_key_quota.              *)

OnlyCheck == UNCHANGED <<limitRow, setting, amiss, quotaCalls>>

\* GET: the copy decides, or the table will.
LookUpLimit(c) ==
    /\ checking[c].at = "idle"
    /\ checking' = [checking EXCEPT ![c] =
           IF limitCopy.left > 0 THEN [at |-> "decided", limit |-> limitCopy.limit]
           ELSE [at |-> "table", limit |-> NoLimit]]
    /\ OnlyCheck /\ UNCHANGED <<limitCopy, overtaken>>

\* A row that cannot be read counts as one without a limit.
ReadLimit(c) ==
    /\ checking[c].at = "table"
    /\ \/ /\ checking' = [checking EXCEPT ![c] = [at |-> "fill", limit |-> LimitOf(limitRow)]]
          /\ UNCHANGED overtaken
       \/ /\ checking' = [checking EXCEPT ![c] = [at |-> "fill", limit |-> NoLimit]]
          /\ overtaken' = [overtaken EXCEPT ![NoLimit] = 0]
    /\ OnlyCheck /\ UNCHANGED limitCopy

\* SET with expiry, whatever the portal has written meanwhile.
FillLimit(c) ==
    /\ checking[c].at = "fill"
    /\ limitCopy' = [limit |-> checking[c].limit, left |-> LimitTTL]
    /\ checking' = [checking EXCEPT ![c].at = "decided"]
    /\ OnlyCheck /\ UNCHANGED overtaken

EndCheck(c) ==
    /\ checking[c].at = "decided"
    /\ checking' = [checking EXCEPT ![c] = NotChecking]
    /\ OnlyCheck /\ UNCHANGED <<limitCopy, overtaken>>

\* Redis loses the copy.
LoseCopy ==
    /\ limitCopy' = NoCopy
    /\ OnlyCheck /\ UNCHANGED <<checking, overtaken>>

\* Time passes: a tick is far longer than a check takes.
HourPasses ==
    /\ \A c \in Checkers : checking[c].at = "idle"
    /\ limitCopy' = CASE limitCopy.left = Lasting -> limitCopy
                      [] limitCopy.left \in 2 .. LimitTTL -> [limitCopy EXCEPT !.left = @ - 1]
                      [] OTHER -> NoCopy
    /\ overtaken' = [q \in LimitValues |->
           IF overtaken[q] < LimitTTL THEN overtaken[q] + 1 ELSE LimitTTL]
    /\ OnlyCheck /\ UNCHANGED checking

LimitsNext ==
    \/ \E s \in Setters :
          \/ \E q \in LimitValues : BeginQuota(s, q)
          \/ WriteLimit(s) \/ WriteLimitFails(s)
          \/ CopyLimit(s) \/ CopyLimitFails(s)
    \/ DropSubscription
    \/ \E c \in Checkers : LookUpLimit(c) \/ ReadLimit(c) \/ FillLimit(c) \/ EndCheck(c)
    \/ LoseCopy
    \/ HourPasses

-----------------------------------------------------------------------------
\* toBillableKB: what the page shows of a limit.
ShownLimit(q) == IF q = NoLimit THEN NoLimit
                 ELSE ((q + LimitUnit - 1) \div LimitUnit) * LimitUnit

\* A limit is in force while the table has it, and until the call that
\* replaces it is answered.
InForce(q) ==
    \/ q = LimitOf(limitRow)
    \/ \E s \in Setters : setting[s].at = "redis" /\ setting[s].was = q

\* No call is between table and Redis, and none has overtaken a check.
Undisturbed ==
    /\ \A s \in Setters : setting[s].at # "redis"
    /\ \A q \in LimitValues : overtaken[q] = LimitTTL

Decides(c) == checking[c].at # "decided" /\ checking'[c].at = "decided"

\* The gateway enforces the limit in force, from the answer to setQuota on:
\* though it caches what it reads, the portal overwrites its copy.  Only a
\* check that read the table before and fills Redis after may bring back the
\* former limit, or undo a DEL, and only for less than LimitTTL; as long may a
\* failed read stand for no limit.  Otherwise it is enforced as the page shows
\* it, but for the unit the page rounds it up to.  Calls of setQuota that
\* overlapped or failed, and a deletion of the subscription, may leave another
\* limit in Redis for good, until a call that runs alone succeeds.
LimitEnforced ==
    [][\A c \in Checkers : Decides(c) /\ ~amiss =>
          LET enforced == checking'[c].limit
              onPage   == ShownLimit(LimitOf(limitRow))
          IN  /\ InForce(enforced) \/ overtaken[enforced] < LimitTTL
              /\ Undisturbed =>
                    /\ (enforced = NoLimit) = (onPage = NoLimit)
                    /\ enforced <= onPage /\ onPage < enforced + LimitUnit]_limitVars
=============================================================================
