------------------------------- MODULE Invoices -------------------------------
(***************************************************************************)
(* Who is shown whose invoices: the customer on the billing page, and the  *)
(* administrators, who look a user up in the list of users, open the row   *)
(* and ask for what the user was invoiced (admin-user-search, invoice-     *)
(* table, the spend route).  Both read Stripe through a cache in Redis     *)
(* (billing-stripe.ts).                                                    *)
(*                                                                         *)
(* The invoices of a customer are abstracted to whose they are and how     *)
(* many there are; they only become more.                                  *)
(***************************************************************************)
EXTENDS Integers, Sequences

CONSTANTS
    People,         \* the users
    Me,             \* the one whose billing page is looked at
    NoOne,
    InvoiceTTL,     \* CACHE_TTL, in ticks: 5 minutes
    ReaderSlots,    \* requests in flight at a time
    MaxBilled,      \* bound: invoices of a customer
    MaxReads        \* bound: requests

ASSUME PeopleAssumption == Me \in People /\ NoOne \notin People
ASSUME InvoicesAssumption ==
    ReaderSlots \in Nat /\ InvoiceTTL \in Nat \ {0} /\ MaxBilled \in Nat /\ MaxReads \in Nat

VARIABLES
    customers,      \* UserPermissions: the users that have a stripeCustomerId
    billed,         \* Stripe: the number of invoices of a user
    past,           \* history: billed, at the last ticks
    cache,          \* billing:<customer>:invoices in Redis: invoices, ticks left
    reading,        \* the requests: at, by, user, what was got, least it may be
    people,         \* the list of users: as "with" or "without" a customer
    unlisted,       \* the users the list being made still lacks
    matching,       \* the users that match the search
    open,           \* the row that is expanded
    spend,          \* its "Total invoiced"
    waiting,        \* its button says "Loading"
    table,          \* the invoices on the billing page
    reads

invoiceVars == <<customers, billed, past, cache, reading, people, unlisted, matching, open,
                 spend, waiting, table, reads>>

Readers  == 1 .. ReaderSlots

Nothing  == [of |-> NoOne, count |-> -1]        \* null: nothing is shown yet
Empty    == [of |-> NoOne, count |-> 0]         \* no invoices, $0.00
NoEntry  == [got |-> Nothing, left |-> 0]
NoReader == [at |-> "idle", by |-> "gone", user |-> NoOne, got |-> Nothing, least |-> 0]

InvoicesInit ==
    /\ customers = {}
    /\ billed = [u \in People |-> 0]
    /\ past = [u \in People |-> [i \in 1 .. InvoiceTTL |-> 0]]
    /\ cache = [u \in People |-> NoEntry]
    /\ reading = [r \in Readers |-> NoReader]
    /\ people = [u \in People |-> "unknown"]
    /\ unlisted = People
    /\ matching = People
    /\ open = NoOne
    /\ spend = Nothing
    /\ waiting = FALSE
    /\ table = Nothing
    /\ reads = 0

OnlyStripe == UNCHANGED <<cache, reading, people, unlisted, matching, open, spend, waiting, table, reads>>

\* The sign-up of a user gets to his customer.
Registered(u) ==
    /\ u \notin customers
    /\ customers' = customers \cup {u}
    /\ OnlyStripe /\ UNCHANGED <<billed, past>>

\* Stripe makes an invoice.
Billed(u) ==
    /\ u \in customers /\ billed[u] < MaxBilled
    /\ billed' = [billed EXCEPT ![u] = @ + 1]
    /\ OnlyStripe /\ UNCHANGED <<customers, past>>

\* Time passes; requests take less than a tick.
Pass ==
    /\ \A r \in Readers : reading[r].at = "idle"
    /\ past' = [u \in People |-> <<billed[u]>> \o SubSeq(past[u], 1, InvoiceTTL - 1)]
    /\ cache' = [u \in People |-> IF cache[u].left > 1 THEN [cache[u] EXCEPT !.left = @ - 1] ELSE NoEntry]
    /\ UNCHANGED <<customers, billed, reading, people, unlisted, matching, open, spend, waiting, table, reads>>

-----------------------------------------------------------------------------
(* getInvoices, through cached().                                          *)

OnlyServer == UNCHANGED <<customers, billed, past, people, unlisted, matching, open, spend, waiting, table>>

\* A request takes the first free slot, so that slots need no symmetry.
Ask(r, u, by) ==
    /\ reading[r].at = "idle" /\ \A q \in 1 .. r - 1 : reading[q].at # "idle"
    /\ reads < MaxReads
    /\ reads' = reads + 1
    /\ reading' = [reading EXCEPT ![r] = [at |-> "cache", by |-> by, user |-> u, got |-> Nothing,
                                          least |-> past[u][InvoiceTTL]]]

Found(r) ==
    LET hit == cache[reading[r].user]
    IN reading' = [reading EXCEPT ![r].at = IF hit = NoEntry THEN "stripe" ELSE "done",
                                  ![r].got = hit.got]

ReadCached(r) ==
    /\ reading[r].at = "cache"
    /\ Found(r)
    /\ OnlyServer /\ UNCHANGED <<cache, reads>>

\* _fetchInvoices.
FetchInvoices(r) ==
    /\ reading[r].at = "stripe"
    /\ reading' = [reading EXCEPT ![r].at = "fill",
                                  ![r].got = [of |-> reading[r].user, count |-> billed[reading[r].user]]]
    /\ OnlyServer /\ UNCHANGED <<cache, reads>>

FillCached(r) ==
    /\ reading[r].at = "fill"
    /\ cache' = [cache EXCEPT ![reading[r].user] = [got |-> reading[r].got, left |-> InvoiceTTL]]
    /\ reading' = [reading EXCEPT ![r].at = "done"]
    /\ OnlyServer /\ UNCHANGED reads

\* Redis or Stripe fails, be it after the invoices were got, or the connection is lost.
ReadFails(r) ==
    /\ reading[r].at \in {"cache", "stripe", "fill", "done"}
    /\ reading' = [reading EXCEPT ![r].at = "failed", ![r].got = Nothing]
    /\ OnlyServer /\ UNCHANGED <<cache, reads>>

-----------------------------------------------------------------------------
(* The list of users.  A row that is no longer in sight is unmounted, with *)
(* what it shows; an answer it waits for finds nobody.                     *)

\* Mutant: what the row shows is kept outside it, and late answers with it.
StillMounted == reading

Unmounted == [r \in Readers |-> IF reading[r].by = "row" THEN [reading[r] EXCEPT !.by = "gone"] ELSE reading[r]]

OnlyList == UNCHANGED <<customers, billed, past, cache, table, reads>>

\* The expanded row when other users match.
Rematched(found) ==
    IF (open \in found) = (open \in matching)
    THEN UNCHANGED <<reading, spend, waiting>>
    ELSE spend' = Nothing /\ waiting' = FALSE /\ reading' = Unmounted

\* getUserList: users, with their keys, jobs and permissions, one after the other.
ListUser(u) ==
    /\ u \in unlisted
    /\ people' = [people EXCEPT ![u] = IF u \in customers THEN "with" ELSE "without"]
    /\ unlisted' = unlisted \ {u}
    /\ OnlyList /\ UNCHANGED <<reading, matching, open, spend, waiting>>

Listed == unlisted = {}

\* The list is loaded anew.
Reload ==
    /\ Listed
    /\ people' = [u \in People |-> "unknown"] /\ unlisted' = People
    /\ matching' = People /\ open' = NoOne
    /\ spend' = Nothing /\ waiting' = FALSE /\ reading' = Unmounted
    /\ OnlyList

\* AdminUserSearch: something is typed; the expanded row may come and go by it.
Search(found) ==
    /\ Listed /\ found # matching
    /\ matching' = found
    /\ Rematched(found)
    /\ OnlyList /\ UNCHANGED <<people, unlisted, open>>

\* A click on a row expands it, instead of the one that was, or closes it.
Expand(u) ==
    /\ Listed /\ u \in matching
    /\ open' = IF open = u THEN NoOne ELSE u
    /\ spend' = Nothing /\ waiting' = FALSE /\ reading' = Unmounted
    /\ OnlyList /\ UNCHANGED <<people, unlisted, matching>>

CanFetch == Listed /\ open \in matching /\ spend = Nothing /\ ~waiting

\* fetchSpend, for a user without customer.
SpendNothing ==
    /\ CanFetch /\ people[open] = "without"
    /\ spend' = Empty
    /\ OnlyList /\ UNCHANGED <<people, unlisted, matching, open, waiting, reading>>

\* ... and with one.
FetchSpend(r) ==
    /\ CanFetch /\ people[open] = "with"
    /\ Ask(r, open, "row")
    /\ waiting' = TRUE
    /\ UNCHANGED <<customers, billed, past, cache, people, unlisted, matching, open, spend, table>>

\* A failure is shown as nothing invoiced: "totalInvoiced: 0", or setSpend(0).
TotalInvoiced(r) == IF reading[r].at = "done" THEN reading[r].got ELSE Empty

SpendAnswered(r) ==
    /\ reading[r].at \in {"done", "failed"} /\ reading[r].by # "page"
    /\ IF reading[r].by = "row" THEN spend' = TotalInvoiced(r) /\ waiting' = FALSE ELSE UNCHANGED <<spend, waiting>>
    /\ reading' = [reading EXCEPT ![r] = NoReader]
    /\ OnlyList /\ UNCHANGED <<people, unlisted, matching, open>>

-----------------------------------------------------------------------------
(* The billing page.                                                       *)

OnlyTable == UNCHANGED <<customers, billed, past, cache, people, unlisted, matching, open, spend, waiting>>

\* getBillingData: only a customer has invoices.
OpenInvoices(r) ==
    /\ table = Nothing /\ \A q \in Readers : reading[q].by # "page"
    /\ IF Me \in customers THEN Ask(r, Me, "page") /\ UNCHANGED table
                           ELSE table' = Empty /\ UNCHANGED <<reading, reads>>
    /\ OnlyTable

\* InvoiceTable; if the read failed there is an error page instead.
ShowTable(r) ==
    /\ reading[r].at \in {"done", "failed"} /\ reading[r].by = "page"
    /\ table' = reading[r].got
    /\ reading' = [reading EXCEPT ![r] = NoReader]
    /\ OnlyTable /\ UNCHANGED reads

CloseTable ==
    /\ table # Nothing
    /\ table' = Nothing
    /\ OnlyTable /\ UNCHANGED <<reading, reads>>

InvoicesNext ==
    \/ Pass \/ Reload \/ SpendNothing \/ CloseTable
    \/ \E u \in People : Registered(u) \/ Billed(u) \/ ListUser(u) \/ Expand(u)
    \/ \E found \in SUBSET People : Search(found)
    \/ \E r \in Readers :
          \/ ReadCached(r) \/ FetchInvoices(r) \/ FillCached(r) \/ ReadFails(r)
          \/ FetchSpend(r) \/ SpendAnswered(r) \/ OpenInvoices(r) \/ ShowTable(r)

-----------------------------------------------------------------------------
\* Invoices are the customer's own and not older than the five minutes of the
\* cache, whoever fills it and however reads overlap and fail; an amount is
\* shown in the row of the user it is about, through searches, other rows and
\* late answers, and the billing page shows its user's invoices.
InvoicesOwn ==
    /\ \A r \in Readers : reading[r].at = "done" =>
          reading[r].got.of = reading[r].user /\ reading[r].got.count >= reading[r].least
    /\ spend # Nothing => open \in matching /\ (spend = Empty \/ spend.of = open)
    /\ table.of \in {Me, NoOne}
=============================================================================
