---------------------------- MODULE AccountFlags ----------------------------
(***************************************************************************)
(* The flags and settings of one account.  The portal keeps permissions    *)
(* and configuration in two append-only tables (user-permissions.ts,       *)
(* user-config.ts): a change reads the newest row, replaces a field and    *)
(* appends the whole row.  The changes come from the user's billing page,  *)
(* the admin's page and API, and Stripe's webhook.  The gateway            *)
(* (user_resolver.py) reads the newest rows through caches nobody clears.  *)
(*                                                                         *)
(* Every read and every append is a step; handlers interleave, fail        *)
(* between their steps, and Stripe delivers an event late, again, or out   *)
(* of order.                                                               *)
(***************************************************************************)
EXTENDS Integers, FiniteSets

CONSTANTS
    HandlerSlots,   \* portal handlers in flight at a time
    MaxUpdates,     \* bound: subscription updates of Stripe
    Caps,           \* caps that may be set, in units
    DefaultCap,     \* DEFAULT_ADMIN_CAP_UNITS
    None,
    BlockTTL,       \* BLOCKED_CACHE_TTL in ticks
    TTL,            \* CACHE_TTL in ticks
    MaxCalls        \* bound: handlers started, failures of them, gateway requests

ASSUME CapsAssumption == Caps \subseteq Nat /\ DefaultCap \in Nat /\ None \notin Nat
ASSUME TTLAssumption == BlockTTL \in Nat \ {0} /\ TTL \in Nat \ {0}
ASSUME BoundsAssumption == HandlerSlots \in Nat /\ MaxUpdates \in Nat /\ MaxCalls \in Nat

VARIABLES
    perms,          \* newest row of UserPermissions
    config,         \* newest row of UserConfig
    job,            \* the handlers
    status,         \* the subscription as Stripe has it now
    event,          \* each update: not sent yet, to be delivered, acknowledged
    linked,         \* exactly one GwBilling row has the customer's id
    settingsTab,    \* PaidUsageSettings in the user's browser
    adminTab,       \* AdminUserForm in the admin's
    blockCache,     \* user_blocked: the code, ticks left
    capCache,       \* user_config: the effective cap, ticks left
    caller,         \* a gateway request in resolve()
    chosen,         \* history: what was last appended for each field by its owner
    contended,      \* history: tables on which different changes overlapped
    codeAge,        \* history: ticks since the account was due each code, or the
                    \* gateway failed to read its flags and took it for a new one's
    capAge,         \* history: ticks since each cap was in force, or was taken to be
    calls

tables    == <<perms, config, chosen, contended>>
stripe    == <<status, event, linked>>
tabs      == <<settingsTab, adminTab>>
gateway   == <<blockCache, capCache, caller, codeAge, capAge>>
flagsVars == <<tables, job, stripe, tabs, gateway, calls>>

Handlers   == 1 .. HandlerSlots
Events     == 1 .. MaxUpdates
Fields     == {"blocked", "delinquent", "paid", "cap", "comp", "adminCap"}
CapValues  == Caps \cup {None}
Codes      == {"allowed", "account_blocked", "payment_overdue"}
Effective  == CapValues \cup {DefaultCap}
Idle       == [at |-> "idle", field |-> None, arg |-> None, read |-> None, event |-> None]
Outside    == [at |-> "out", code |-> "allowed", cap |-> None]
NoCode     == [code |-> "allowed", left |-> 0]
NoCap      == [cap |-> None, left |-> 0]
NewPerms   == [blocked |-> FALSE, delinquent |-> FALSE]
NewConfig  == [paid |-> FALSE, cap |-> None, comp |-> FALSE, adminCap |-> None]

\* The table a field is kept in.
Table(f)   == IF f \in {"blocked", "delinquent"} THEN "perms" ELSE "config"

\* Mutant: delinquent wins.
AccessCodeDelinquentFirst(row) == IF row.delinquent THEN "payment_overdue"
                                  ELSE IF row.blocked THEN "account_blocked" ELSE "allowed"

\* _access_block: blocked wins over delinquent.
AccessCode(row) == IF row.blocked THEN "account_blocked"
                   ELSE IF row.delinquent THEN "payment_overdue" ELSE "allowed"

\* AccountStatusBanner: what the dashboard says of the account.
Banner(row) == CASE row.blocked -> "account_blocked"
                 [] ~row.blocked /\ row.delinquent -> "payment_overdue"
                 [] OTHER -> "allowed"

\* _get_quota_config: the lower of the caps that are set; the admin's has a
\* default, except for a comp account.
EffectiveCap(row) ==
    LET admin == IF row.adminCap = None /\ ~row.comp THEN DefaultCap ELSE row.adminCap
        set   == {row.cap, admin} \ {None}
    IN  IF set = {} THEN None ELSE CHOOSE c \in set : \A d \in set : c <= d

FlagsInit ==
    /\ perms = NewPerms
    /\ config = NewConfig
    /\ job = [j \in Handlers |-> Idle]
    /\ status = "active"
    /\ event = [v \in Events |-> "unsent"]
    /\ linked \in BOOLEAN
    /\ settingsTab = [enabled |-> FALSE, busy |-> None]
    /\ adminTab = [blocked |-> FALSE, blocking |-> None, saving |-> None]
    /\ blockCache = NoCode
    /\ capCache = NoCap
    /\ caller = Outside
    /\ chosen = [f \in Fields |-> IF f \in {"cap", "adminCap"} THEN None ELSE FALSE]
    /\ contended = {}
    /\ codeAge = [c \in Codes |-> IF c = "allowed" THEN 0 ELSE BlockTTL]
    /\ capAge = [c \in Effective |-> IF c = DefaultCap THEN 0 ELSE TTL]
    /\ calls = 0

-----------------------------------------------------------------------------
(* A change: the handler reads the newest row, then appends its own.       *)

\* Two changes of one table overlap: harmless if both replace the same
\* field with a value they were given, a lost update otherwise.
Clashes(f) ==
    \E j \in Handlers :
        /\ job[j].at \in {"live", "read", "append"}
        /\ Table(job[j].field) = Table(f)
        /\ job[j].field # f \/ f = "delinquent"

\* A handler takes the first free slot, so that slots need no symmetry.
Start(j, f, arg, at, v) ==
    /\ job[j] = Idle /\ \A i \in 1 .. j - 1 : job[i] # Idle
    /\ calls < MaxCalls
    /\ calls' = calls + 1
    /\ job' = [job EXCEPT ![j] = [at |-> at, field |-> f, arg |-> arg, read |-> None, event |-> v]]
    /\ contended' = IF Clashes(f) THEN contended \cup {Table(f)} ELSE contended
    /\ UNCHANGED <<perms, config, chosen, stripe, gateway>>

\* getCurrentPermissions and getCurrentConfig: the fields of the newest row.
Permissions == [blocked |-> perms.blocked, delinquent |-> perms.delinquent]
Configuration ==
    [paid |-> config.paid, cap |-> config.cap, comp |-> config.comp, adminCap |-> config.adminCap]

\* getLatest.
ReadLatest(j) ==
    /\ job[j].at = "read"
    /\ job' = [job EXCEPT ![j].at = "append",
                          ![j].read = IF Table(job[j].field) = "perms" THEN Permissions ELSE Configuration]
    /\ UNCHANGED <<tables, stripe, tabs, gateway, calls>>

\* Mutant: the other field of the permissions is written as for a new user.
NewRowOfDefaults(j) ==
    [(IF Table(job[j].field) = "perms" THEN NewPerms ELSE job[j].read)
        EXCEPT ![job[j].field] = job[j].arg]

\* The row that was read with the field replaced.
NewRow(j) == [job[j].read EXCEPT ![job[j].field] = job[j].arg]

\* The account is due another code, or another cap comes into force.
Note(newPerms, newConfig) ==
    /\ codeAge' = [codeAge EXCEPT ![Banner(newPerms)] = 0]
    /\ capAge' = [capAge EXCEPT ![EffectiveCap(newConfig)] = 0]

\* appendPermissions, appendConfig: the appended row is the newest.
PermsAppended(j) == IF Table(job[j].field) = "perms" THEN NewRow(j) ELSE perms

ConfigAppended(j) == IF Table(job[j].field) = "config" THEN NewRow(j) ELSE config

\* The webhook has answered Stripe then; the other handlers answer a browser.
Appended(j) ==
    LET f == job[j].field IN
    /\ job[j].at = "append"
    /\ perms' = PermsAppended(j)
    /\ config' = ConfigAppended(j)
    /\ chosen' = [chosen EXCEPT ![f] = job[j].arg]
    /\ Note(perms', config')
    /\ IF f = "delinquent"
       THEN /\ job' = [job EXCEPT ![j] = Idle]
            /\ event' = [event EXCEPT ![job[j].event] = "acked"]
       ELSE /\ job' = [job EXCEPT ![j].at = "ok"]
            /\ UNCHANGED event
    /\ UNCHANGED <<contended, status, linked, tabs, blockCache, capCache, caller, calls>>

\* A call of the handler fails: the browser is told, Stripe will retry.
Fail(j) ==
    /\ job[j].at \in {"live", "read", "append"}
    /\ calls < MaxCalls
    /\ calls' = calls + 1
    /\ job' = [job EXCEPT ![j] = IF @.event # None THEN Idle ELSE [@ EXCEPT !.at = "failed"]]
    /\ UNCHANGED <<tables, stripe, tabs, gateway>>

-----------------------------------------------------------------------------
(* The user's billing settings.                                            *)

\* toggle: what the tab shows, turned over.
TogglePaid(j) ==
    /\ settingsTab.busy = None
    /\ settingsTab' = [settingsTab EXCEPT !.busy = j]
    /\ Start(j, "paid", ~settingsTab.enabled, "read", None)
    /\ UNCHANGED adminTab

SaveCap(j, cap) ==
    /\ settingsTab.busy = None
    /\ settingsTab' = [settingsTab EXCEPT !.busy = j]
    /\ Start(j, "cap", cap, "read", None)
    /\ UNCHANGED adminTab

\* The answer: the tab changes on success only, and is free again.
SettingsAnswered(j) ==
    /\ settingsTab.busy = j
    /\ job[j].at \in {"ok", "failed"}
    /\ settingsTab' =
           [enabled |-> IF job[j].at = "ok" /\ job[j].field = "paid"
                        THEN job[j].arg ELSE settingsTab.enabled,
            busy |-> None]
    /\ job' = [job EXCEPT ![j] = Idle]
    /\ UNCHANGED <<tables, stripe, adminTab, gateway, calls>>

\* The page is loaded anew.
LoadSettings ==
    /\ settingsTab.busy = None
    /\ settingsTab' = [settingsTab EXCEPT !.enabled = Configuration.paid]
    /\ UNCHANGED <<tables, job, stripe, adminTab, gateway, calls>>

-----------------------------------------------------------------------------
(* The admin's page and API.                                               *)

\* handleSave sends the whole form: the box as it was loaded, or ticked.
SaveForm(j, comp) ==
    /\ adminTab.saving = None
    /\ adminTab' = [adminTab EXCEPT !.saving = j]
    /\ Start(j, "comp", comp, "read", None)
    /\ UNCHANGED settingsTab

\* handleToggleBlock: the opposite of what the page shows.
ToggleBlock(j) ==
    /\ adminTab.blocking = None
    /\ adminTab' = [adminTab EXCEPT !.blocking = j]
    /\ Start(j, "blocked", ~adminTab.blocked, "read", None)
    /\ UNCHANGED settingsTab

\* POST .../update with a cap: the API takes it, the form has no field for it.
SetAdminCap(j, cap) ==
    /\ Start(j, "adminCap", cap, "read", None)
    /\ UNCHANGED tabs

\* The answer, whatever it says: router.refresh brings the new flags but
\* leaves the fields of the form.
AdminAnswered(j) ==
    /\ job[j].at \in {"ok", "failed"}
    /\ job[j].field \in {"comp", "blocked", "adminCap"}
    /\ job' = [job EXCEPT ![j] = Idle]
    /\ adminTab' =
           IF j \in {adminTab.saving, adminTab.blocking}
           THEN [adminTab EXCEPT !.blocked = perms.blocked,
                                 !.saving = IF @ = j THEN None ELSE @,
                                 !.blocking = IF @ = j THEN None ELSE @]
           ELSE adminTab
    /\ UNCHANGED <<tables, stripe, settingsTab, gateway, calls>>

LoadForm ==
    /\ adminTab.saving = None /\ adminTab.blocking = None
    /\ adminTab' = [adminTab EXCEPT !.blocked = Permissions.blocked]
    /\ UNCHANGED <<tables, job, stripe, settingsTab, gateway, calls>>

-----------------------------------------------------------------------------
(* Stripe and its webhook.                                                 *)

\* The subscription changes, and Stripe owes the portal an event.
Update(v, s) ==
    /\ event[v] = "unsent" /\ \A w \in 1 .. v - 1 : event[w] # "unsent"
    /\ status # s
    /\ status' = s
    /\ event' = [event EXCEPT ![v] = "pending"]
    /\ UNCHANGED <<tables, job, linked, tabs, gateway, calls>>

\* An event is delivered, perhaps again: a retry may meet the first delivery
\* still at work.  A customer of no user, or of two, is only reported.
Deliver(j, v) ==
    /\ event[v] # "unsent"
    /\ linked
    /\ Start(j, "delinquent", None, "live", v)
    /\ UNCHANGED tabs

DeliverUnlinked(v) ==
    /\ event[v] = "pending"
    /\ ~linked
    /\ calls < MaxCalls
    /\ calls' = calls + 1
    /\ event' = [event EXCEPT ![v] = "acked"]
    /\ UNCHANGED <<tables, job, status, linked, tabs, gateway>>

\* The live status decides, not the event's; one that is neither unpaid nor
\* active changes nothing.
FetchLive(j) ==
    /\ job[j].at = "live"
    /\ IF status \in {"unpaid", "active"}
       THEN /\ job' = [job EXCEPT ![j].at = "read", ![j].arg = (status = "unpaid")]
            /\ UNCHANGED event
       ELSE /\ job' = [job EXCEPT ![j] = Idle]
            /\ event' = [event EXCEPT ![job[j].event] = "acked"]
    /\ UNCHANGED <<tables, status, linked, tabs, gateway, calls>>

-----------------------------------------------------------------------------
(* The gateway resolves a request.                                         *)

OnlyGateway == UNCHANGED <<tables, job, stripe, tabs>>

Decide(code) == caller' = [caller EXCEPT !.at = IF code = "allowed" THEN "cap" ELSE "refused",
                                         !.code = code]

FetchCode(row) == caller' = [caller EXCEPT !.at = "fillBlock", !.code = AccessCode(row)]

\* _access_block: the cached code, or the newest row; a row that cannot be read
\* counts as one without flags.
CheckBlock ==
    /\ caller.at = "out"
    /\ calls < MaxCalls
    /\ calls' = calls + 1
    /\ \/ blockCache.left > 0 /\ Decide(blockCache.code) /\ UNCHANGED codeAge
       \/ blockCache.left = 0 /\ FetchCode(perms) /\ UNCHANGED codeAge
       \/ /\ blockCache.left = 0 /\ FetchCode(NewPerms)
          /\ codeAge' = [codeAge EXCEPT ![AccessCode(NewPerms)] = 0]
    /\ OnlyGateway /\ UNCHANGED <<blockCache, capCache, capAge>>

FillBlock ==
    /\ caller.at = "fillBlock"
    /\ blockCache' = [code |-> caller.code, left |-> BlockTTL]
    /\ Decide(caller.code)
    /\ OnlyGateway /\ UNCHANGED <<capCache, codeAge, capAge, calls>>

FetchCap(row) == caller' = [caller EXCEPT !.at = "fillCap", !.cap = EffectiveCap(row)]

\* _get_quota_config: the cached configuration, or the newest row; one that
\* cannot be read counts as none.
CheckCap ==
    /\ caller.at = "cap"
    /\ \/ /\ capCache.left > 0 /\ UNCHANGED capAge
          /\ caller' = [caller EXCEPT !.at = "in", !.cap = capCache.cap]
       \/ capCache.left = 0 /\ FetchCap(config) /\ UNCHANGED capAge
       \/ /\ capCache.left = 0 /\ FetchCap(NewConfig)
          /\ capAge' = [capAge EXCEPT ![EffectiveCap(NewConfig)] = 0]
    /\ OnlyGateway /\ UNCHANGED <<blockCache, capCache, codeAge, calls>>

FillCap ==
    /\ caller.at = "fillCap"
    /\ capCache' = [cap |-> caller.cap, left |-> TTL]
    /\ caller' = [caller EXCEPT !.at = "in"]
    /\ OnlyGateway /\ UNCHANGED <<blockCache, codeAge, capAge, calls>>

Depart ==
    /\ caller.at \in {"in", "refused"}
    /\ caller' = Outside
    /\ OnlyGateway /\ UNCHANGED <<blockCache, capCache, codeAge, capAge, calls>>

Older(age, limit) == IF age < limit THEN age + 1 ELSE limit

\* Time passes: a tick is far longer than a request takes.
Tick ==
    /\ caller = Outside
    /\ blockCache' = IF blockCache.left > 1 THEN [blockCache EXCEPT !.left = @ - 1] ELSE NoCode
    /\ capCache' = IF capCache.left > 1 THEN [capCache EXCEPT !.left = @ - 1] ELSE NoCap
    /\ codeAge' = [c \in Codes |-> IF c = Banner(perms) THEN 0 ELSE Older(codeAge[c], BlockTTL)]
    /\ capAge' = [c \in Effective |->
                     IF c = EffectiveCap(config) THEN 0 ELSE Older(capAge[c], TTL)]
    /\ UNCHANGED <<tables, job, stripe, tabs, caller, calls>>

FlagsNext ==
    \/ \E j \in Handlers :
          \/ ReadLatest(j) \/ Appended(j) \/ Fail(j) \/ FetchLive(j)
          \/ TogglePaid(j) \/ SettingsAnswered(j)
          \/ ToggleBlock(j) \/ AdminAnswered(j)
          \/ \E comp \in BOOLEAN : SaveForm(j, comp)
          \/ \E cap \in CapValues : SaveCap(j, cap) \/ SetAdminCap(j, cap)
          \/ \E v \in Events : Deliver(j, v)
    \/ \E v \in Events : DeliverUnlinked(v) \/ \E s \in {"active", "unpaid", "other"} : Update(v, s)
    \/ LoadSettings \/ LoadForm
    \/ CheckBlock \/ FillBlock \/ CheckCap \/ FillCap \/ Depart
    \/ Tick

-----------------------------------------------------------------------------
\* A request is let in or refused as the dashboard's banner would have said
\* at a time less than BLOCKED_CACHE_TTL ago, and under a cap in force less
\* than CACHE_TTL ago, with no one to clear the caches: the portal and the
\* gateway rank the two flags alike, and a late fill brings back nothing older.
\* A read that failed within that time may have let a blocked account in, or
\* put it under the default cap; it never refuses one that is not due that.
GatewayFresh ==
    /\ caller.at \in {"cap", "in", "refused"} => codeAge[caller.code] < BlockTTL
    /\ caller.at = "in" => capAge[caller.cap] < TTL

AtWork(t) ==
    \E j \in Handlers : job[j].at \in {"live", "read", "append"} /\ Table(job[j].field) = t

\* No change is lost: a field keeps what its owner last appended (the
\* admin his block and his cap, the user his switch, the webhook its flag),
\* and once every event of Stripe is acknowledged the flag says what Stripe
\* does.  Only changes of different fields that overlapped, or two deliveries
\* that did, may undo one another: each appends the row it read.
ChangesKept ==
    /\ "perms" \notin contended =>
          \A f \in {"blocked", "delinquent"} : perms[f] = chosen[f]
    /\ "config" \notin contended =>
          \A f \in {"paid", "cap", "comp", "adminCap"} : config[f] = chosen[f]
    /\ /\ linked /\ status # "other"
       /\ "perms" \notin contended /\ ~AtWork("perms")
       /\ \A v \in Events : event[v] # "pending"
       => perms.delinquent = (status = "unpaid")
=============================================================================
