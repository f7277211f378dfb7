------------------------------- MODULE SignUp -------------------------------
(***************************************************************************)
(* From an e-mail address to a working account: the sign-in form, the link *)
(* sent by mail and its rate limits (lib/auth/email.ts, rate-limit.ts), the*)
(* adapter Auth.js stores users and links with (auth-adapter.ts), the      *)
(* billing set up once for a new user (on-create-user.ts) and the          *)
(* configuration and first key set up by his first request                 *)
(* (ensure-user-setup.ts).                                                 *)
(*                                                                         *)
(* Every call to a table, to Stripe or to the mail service is a step; the  *)
(* clicks on links and the page requests interleave, any call may fail and *)
(* the portal may restart, which empties what it keeps in memory.          *)
(***************************************************************************)
EXTENDS Integers, FiniteSets

CONSTANTS
    Emails,         \* the addresses of people, all behind one IP address
    Links,          \* the tokens Auth.js may generate, one per request
    Users,          \* the ids createUser may generate
    Clicks,         \* sign-in callbacks in flight at a time
    Visits,         \* page or API requests in flight at a time
    None,
    EmailMax,       \* emailLimiter: 3 per window
    IpMax,          \* ipLimiter: 10 per window
    Window,         \* FIFTEEN_MINUTES, in ticks
    MaxClicks,      \* bound: clicks on links
    MaxVisits,      \* bound: page requests that find no setup in memory
    MaxFaults       \* bound: calls that fail, and restarts

ASSUME NoneAssumption == None \notin Emails \cup Links \cup Users
ASSUME LimitsAssumption == EmailMax \in Nat \ {0} /\ IpMax \in Nat \ {0} /\ Window \in Nat \ {0}
ASSUME BoundsAssumption == MaxClicks \in Nat /\ MaxVisits \in Nat /\ MaxFaults \in Nat
ASSUME LinksAssumption == IsFiniteSet(Links)

VARIABLES
    tab,            \* the sign-in page: view, and the request it waits for
    link,           \* what became of the mail and of the row of each request
    tokens,         \* VerificationTokens: the one link stored for an address
    emailLimiter,   \* entries of the limiter per address: count, ticks left
    ipLimiter,      \* the entry for the IP address
    click,          \* the callbacks
    emailRow,       \* Users, partition "email": the user of an address
    emailOf,        \* Users, partition "user": the address of a user
    account,        \* the other records written for a user
    stripe,         \* customers and subscriptions per address
    signedIn,       \* users somebody holds a session for
    visit,          \* requests inside ensureUserSetup
    configured,     \* UserConfig: users with a row
    keys,           \* keys of a user
    setupComplete,  \* the set in memory
    stored, spent,  \* history: links stored and links accepted per address
    disturbed,      \* history: addresses with a registration cut short or overlapped
    unsettled,      \* history: users with a setup cut short or overlapped
    firstKeys,      \* history: keys the setup made
    clicks, visits, faults

mail     == <<tab, link, emailLimiter, ipLimiter>>
identity == <<emailRow, emailOf, account, stripe, signedIn>>
setup    == <<visit, configured, keys, setupComplete, unsettled, firstKeys, visits>>
vars     == <<mail, tokens, click, identity, setup, stored, spent, disturbed, clicks, faults>>

Blank    == [view |-> "form", waits |-> None]
NoLink   == [email |-> None, mail |-> "none", row |-> "none"]
NoEntry  == [count |-> 0, left |-> 0]
NoClick  == [at |-> "idle", link |-> None, user |-> None]
NoVisit  == [at |-> "idle", user |-> None]
Nobody   == [customers |-> 0, subscriptions |-> 0]

Records  == {"key", "billing", "permissions"}
\* The steps that write a new account, in their order in the code.
Registering == {"user", "email", "key", "find", "enrol", "subscribe", "billing", "permissions"}

Init ==
    /\ tab = Blank
    /\ link = [l \in Links |-> NoLink]
    /\ tokens = [e \in Emails |-> None]
    /\ emailLimiter = [e \in Emails |-> NoEntry]
    /\ ipLimiter = NoEntry
    /\ click = [c \in Clicks |-> NoClick]
    /\ emailRow = [e \in Emails |-> None]
    /\ emailOf = [u \in Users |-> None]
    /\ account = [u \in Users |-> {}]
    /\ stripe = [e \in Emails |-> Nobody]
    /\ signedIn = {}
    /\ visit = [v \in Visits |-> NoVisit]
    /\ configured = {}
    /\ keys = [u \in Users |-> 0]
    /\ setupComplete = {}
    /\ stored = [e \in Emails |-> 0]
    /\ spent = [e \in Emails |-> 0]
    /\ disturbed = {}
    /\ unsettled = {}
    /\ firstKeys = [u \in Users |-> 0]
    /\ clicks = 0
    /\ visits = 0
    /\ faults = 0

Fault == faults < MaxFaults /\ faults' = faults + 1

-----------------------------------------------------------------------------
(* The sign-in page and the mail.                                          *)

\* The button is disabled while a request is awaited.
FormOpen == tab.view = "form" /\ tab.waits = None

\* handleSubmit: Auth.js generates a link, and mails and stores it at once.
Submit(e, l) ==
    /\ FormOpen
    /\ link[l] = NoLink
    /\ link' = [link EXCEPT ![l] = [email |-> e, mail |-> "todo", row |-> "todo"]]
    /\ tab' = [tab EXCEPT !.waits = l]
    /\ UNCHANGED <<tokens, emailLimiter, ipLimiter, click, identity, setup,
                   stored, spent, disturbed, clicks, faults>>

\* The limiter of one key: an entry lives for a window from its first
\* request, and counts the refused ones too.
Check(entry) ==
    IF entry.left > 0 THEN [entry EXCEPT !.count = @ + 1]
                      ELSE [count |-> 1, left |-> Window]

\* sendVerificationRequest: both limiters are asked, and both must allow it.
Allows(e) ==
    Check(emailLimiter[e]).count <= EmailMax /\ Check(ipLimiter).count <= IpMax

\* The mail of a request goes out, is refused by a limiter, or fails.
SendMail(l) ==
    LET e == link[l].email
        Deliver ==
            /\ Allows(e)
            /\ link' = [link EXCEPT ![l].mail = "sent"]
            /\ UNCHANGED faults
        Refuse ==
            /\ ~Allows(e)
            /\ link' = [link EXCEPT ![l].mail = "refused"]
            /\ UNCHANGED faults
        TransportError ==
            /\ Allows(e)
            /\ link' = [link EXCEPT ![l].mail = "refused"]
            /\ Fault
    IN /\ link[l].mail = "todo"
       /\ emailLimiter' = [emailLimiter EXCEPT ![e] = Check(@)]
       /\ ipLimiter' = Check(ipLimiter)
       /\ Deliver \/ Refuse \/ TransportError
       /\ UNCHANGED <<tab, tokens, click, identity, setup, stored, spent, disturbed, clicks>>

\* createVerificationToken: the row of the address is overwritten, whatever
\* becomes of the mail.
StoreLink(l) ==
    LET e == link[l].email IN
    /\ link[l].row = "todo"
    /\ \/ /\ tokens' = [tokens EXCEPT ![e] = l]
          /\ stored' = [stored EXCEPT ![e] = @ + 1]
          /\ link' = [link EXCEPT ![l].row = "stored"]
          /\ UNCHANGED faults
       \/ /\ link' = [link EXCEPT ![l].row = "lost"]
          /\ Fault
          /\ UNCHANGED <<tokens, stored>>
    /\ UNCHANGED <<tab, emailLimiter, ipLimiter, click, identity, setup, spent,
                   disturbed, clicks>>

\* The answer reaches the form.  Auth.js answers a failed request too, with
\* the error in the address it returns: ok may be true or false then.
Answer ==
    /\ tab.waits # None
    /\ LET outcome == link[tab.waits] IN
       /\ outcome.mail # "todo" /\ outcome.row # "todo"
       /\ \E ok \in BOOLEAN :
             /\ outcome.mail = "sent" /\ outcome.row = "stored" => ok
             /\ tab' = [view |-> IF ok THEN "sent" ELSE "form", waits |-> None]
    /\ UNCHANGED <<link, tokens, emailLimiter, ipLimiter, click, identity, setup,
                   stored, spent, disturbed, clicks, faults>>

\* The page is loaded again, the only way back from the "sent" view: its
\* button is given no onClick.
Reload ==
    /\ tab # Blank
    /\ tab' = Blank
    /\ UNCHANGED <<link, tokens, emailLimiter, ipLimiter, click, identity, setup,
                   stored, spent, disturbed, clicks, faults>>

-----------------------------------------------------------------------------
(* The callback: Auth.js accepts the link, then looks the user up or       *)
(* registers him, then issues the session.                                 *)

Email(c)    == link[click[c].link].email
Goto(c, at) == click' = [click EXCEPT ![c].at = at]
Finish(c)   == click' = [click EXCEPT ![c] = NoClick]
OnlyClick   == UNCHANGED <<mail, setup, stored, clicks>>

\* Somebody, or a mail scanner, opens a link that was mailed.
Click(c, l) ==
    /\ click[c].at = "idle"
    /\ clicks < MaxClicks
    /\ link[l].mail = "sent"
    /\ click' = [click EXCEPT ![c] = [at |-> "get", link |-> l, user |-> None]]
    /\ clicks' = clicks + 1
    /\ UNCHANGED <<mail, tokens, identity, setup, stored, spent, disturbed, faults>>

\* useVerificationToken reads the row of the address and compares.
GetLink(c) ==
    /\ click[c].at = "get"
    /\ IF tokens[Email(c)] = click[c].link THEN Goto(c, "delete") ELSE Finish(c)
    /\ OnlyClick /\ UNCHANGED <<tokens, identity, spent, disturbed, faults>>

\* Mutant: a row already gone counts as deleted.
DeleteLinkUnchecked(c) ==
    /\ click[c].at = "delete"
    /\ tokens' = [tokens EXCEPT ![Email(c)] = None]
    /\ spent' = [spent EXCEPT ![Email(c)] = @ + 1]
    /\ Goto(c, "lookup")
    /\ OnlyClick /\ UNCHANGED <<identity, disturbed, faults>>

\* ... and deletes the row, whichever link it holds by now; to delete a row
\* that is gone is an error, and refuses the link.
DeleteLink(c) ==
    LET e == Email(c) IN
    /\ click[c].at = "delete"
    /\ \/ /\ tokens[e] # None
          /\ spent' = [spent EXCEPT ![e] = @ + 1]
          /\ Goto(c, "lookup")
       \/ /\ tokens[e] = None
          /\ UNCHANGED spent
          /\ Finish(c)
    /\ tokens' = [tokens EXCEPT ![e] = None]
    /\ OnlyClick /\ UNCHANGED <<identity, disturbed, faults>>

\* The row is deleted but the answer is lost: the link is refused.
DeleteLinkUnanswered(c) ==
    /\ click[c].at = "delete"
    /\ tokens' = [tokens EXCEPT ![Email(c)] = None]
    /\ Fault
    /\ Finish(c)
    /\ OnlyClick /\ UNCHANGED <<identity, spent, disturbed>>

Unborn(u) == emailOf[u] = None /\ \A c \in Clicks : click[c].user # u

\* A registration of the address is under way.
BeingRegistered(e) == \E c \in Clicks : click[c].at \in Registering /\ Email(c) = e

\* getUserByEmail: no user is found if there is none, and on any error.
Lookup(c) ==
    LET e == Email(c)
        Known ==
            /\ emailRow[e] # None
            /\ click' = [click EXCEPT ![c].at = "verify", ![c].user = emailRow[e]]
            /\ disturbed' = IF BeingRegistered(e) THEN disturbed \cup {e} ELSE disturbed
            /\ UNCHANGED faults
        Register(u) == click' = [click EXCEPT ![c].at = "user", ![c].user = u]
        Unknown ==
            /\ emailRow[e] = None
            /\ disturbed' = IF BeingRegistered(e) THEN disturbed \cup {e} ELSE disturbed
            /\ UNCHANGED faults
        Unreadable ==
            /\ emailRow[e] # None
            /\ disturbed' = disturbed \cup {e}
            /\ Fault
    IN /\ click[c].at = "lookup"
       /\ \/ Known
          \/ (Unknown \/ Unreadable) /\ \E u \in Users : Unborn(u) /\ Register(u)
       /\ OnlyClick /\ UNCHANGED <<tokens, identity, spent>>

\* createUser: the user, then the address, then the encryption key.
PutUser(c) ==
    /\ click[c].at = "user"
    /\ emailOf' = [emailOf EXCEPT ![click[c].user] = Email(c)]
    /\ Goto(c, "email")
    /\ OnlyClick /\ UNCHANGED <<tokens, emailRow, account, stripe, signedIn, spent, disturbed, faults>>

PutEmail(c) ==
    /\ click[c].at = "email"
    /\ emailRow' = [emailRow EXCEPT ![Email(c)] = click[c].user]
    /\ Goto(c, "key")
    /\ OnlyClick /\ UNCHANGED <<tokens, emailOf, account, stripe, signedIn, spent, disturbed, faults>>

Record(c, what) == account' = [account EXCEPT ![click[c].user] = @ \cup {what}]

\* Mutant: the session is issued before the billing is set up.
PutKeyAndSignIn(c) ==
    /\ click[c].at = "key"
    /\ Record(c, "key")
    /\ signedIn' = signedIn \cup {click[c].user}
    /\ Goto(c, "find")
    /\ OnlyClick /\ UNCHANGED <<tokens, emailOf, emailRow, stripe, spent, disturbed, faults>>

PutKey(c) ==
    /\ click[c].at = "key"
    /\ Record(c, "key")
    /\ Goto(c, "find")
    /\ OnlyClick /\ UNCHANGED <<tokens, emailOf, emailRow, stripe, signedIn, spent, disturbed, faults>>

\* createCustomer: a customer with this address is used again, with the
\* subscription he has or without one.
FindCustomer(c) ==
    /\ click[c].at = "find"
    /\ Goto(c, IF stripe[Email(c)].customers > 0 THEN "billing" ELSE "enrol")
    /\ OnlyClick /\ UNCHANGED <<tokens, identity, spent, disturbed, faults>>

Enrol(c) ==
    /\ click[c].at = "enrol"
    /\ stripe' = [stripe EXCEPT ![Email(c)].customers = @ + 1]
    /\ Goto(c, "subscribe")
    /\ OnlyClick /\ UNCHANGED <<tokens, emailOf, emailRow, account, signedIn, spent, disturbed, faults>>

Subscribe(c) ==
    /\ click[c].at = "subscribe"
    /\ stripe' = [stripe EXCEPT ![Email(c)].subscriptions = @ + 1]
    /\ Goto(c, "billing")
    /\ OnlyClick /\ UNCHANGED <<tokens, emailOf, emailRow, account, signedIn, spent, disturbed, faults>>

\* onCreateUser: the billing row, then the first permissions.
PutBilling(c) ==
    /\ click[c].at = "billing"
    /\ Record(c, "billing")
    /\ Goto(c, "permissions")
    /\ OnlyClick /\ UNCHANGED <<tokens, emailOf, emailRow, stripe, signedIn, spent, disturbed, faults>>

\* The session follows the last step of a registration, or updateUser.
SignIn(c) == signedIn' = signedIn \cup {click[c].user} /\ Finish(c)

PutPermissions(c) ==
    /\ click[c].at = "permissions"
    /\ Record(c, "permissions")
    /\ SignIn(c)
    /\ OnlyClick /\ UNCHANGED <<tokens, emailOf, emailRow, stripe, spent, disturbed, faults>>

\* updateUser: the address is marked as verified.
Verify(c) ==
    /\ click[c].at = "verify"
    /\ SignIn(c)
    /\ OnlyClick /\ UNCHANGED <<tokens, emailOf, emailRow, account, stripe, spent, disturbed, faults>>

\* The addresses whose registration ends here if these callbacks stop.
CutShort(cs) == {Email(c) : c \in {d \in cs : click[d].at \in Registering}}

\* A call of a callback fails: nobody is signed in, nothing is undone and
\* nothing is tried again.
FailClick(c) ==
    /\ click[c].at # "idle"
    /\ Fault
    /\ disturbed' = disturbed \cup CutShort({c})
    /\ Finish(c)
    /\ OnlyClick /\ UNCHANGED <<tokens, identity, spent>>

-----------------------------------------------------------------------------
(* requireUser: the first request of a user sets him up.                   *)

SettingUp(u) == \E v \in Visits : visit[v].user = u /\ visit[v].at \in {"append", "list", "create"}
Advance(v, at) == visit' = [visit EXCEPT ![v].at = at]
Complete(v) ==
    /\ setupComplete' = setupComplete \cup {visit[v].user}
    /\ visit' = [visit EXCEPT ![v] = NoVisit]
OnlyVisit == UNCHANGED <<mail, tokens, click, identity, stored, spent, disturbed, clicks>>

\* A request of a user this process has not set up.
Visit(v, u) ==
    /\ visit[v].at = "idle"
    /\ visits < MaxVisits
    /\ u \in signedIn \ setupComplete
    /\ visit' = [visit EXCEPT ![v] = [at |-> "read", user |-> u]]
    /\ visits' = visits + 1
    /\ OnlyVisit /\ UNCHANGED <<configured, keys, setupComplete, unsettled, firstKeys, faults>>

\* Only a user without a configuration is new.
GetConfig(v) ==
    LET u == visit[v].user IN
    /\ visit[v].at = "read"
    /\ IF u \in configured
       THEN /\ Complete(v)
            /\ UNCHANGED unsettled
       ELSE /\ Advance(v, "append")
            /\ unsettled' = IF SettingUp(u) THEN unsettled \cup {u} ELSE unsettled
            /\ UNCHANGED setupComplete
    /\ OnlyVisit /\ UNCHANGED <<configured, keys, firstKeys, visits, faults>>

\* Mutant: the configuration is not written.
AppendConfigNot(v) ==
    /\ visit[v].at = "append"
    /\ Advance(v, "list")
    /\ OnlyVisit /\ UNCHANGED <<configured, keys, setupComplete, unsettled, firstKeys, visits, faults>>

AppendConfig(v) ==
    /\ visit[v].at = "append"
    /\ configured' = configured \cup {visit[v].user}
    /\ Advance(v, "list")
    /\ OnlyVisit /\ UNCHANGED <<keys, setupComplete, unsettled, firstKeys, visits, faults>>

ListKeys(v) ==
    /\ visit[v].at = "list"
    /\ IF keys[visit[v].user] = 0
       THEN Advance(v, "create") /\ UNCHANGED setupComplete
       ELSE Complete(v)
    /\ OnlyVisit /\ UNCHANGED <<configured, keys, unsettled, firstKeys, visits, faults>>

\* keys.create, with the name "my-first-key".
CreateFirstKey(v) ==
    LET u == visit[v].user IN
    /\ visit[v].at = "create"
    /\ keys' = [keys EXCEPT ![u] = @ + 1]
    /\ firstKeys' = [firstKeys EXCEPT ![u] = @ + 1]
    /\ Complete(v)
    /\ OnlyVisit /\ UNCHANGED <<configured, unsettled, visits, faults>>

\* A call of the setup fails: the request ends with an error.
FailVisit(v) ==
    /\ visit[v].at # "idle"
    /\ Fault
    /\ unsettled' = IF SettingUp(visit[v].user) THEN unsettled \cup {visit[v].user} ELSE unsettled
    /\ visit' = [visit EXCEPT ![v] = NoVisit]
    /\ OnlyVisit /\ UNCHANGED <<configured, keys, setupComplete, firstKeys, visits>>

\* The user deletes a key on the keys page.
DeleteKey(u) ==
    /\ keys[u] > 0
    /\ keys' = [keys EXCEPT ![u] = @ - 1]
    /\ OnlyVisit /\ UNCHANGED <<visit, configured, setupComplete, unsettled, firstKeys, visits, faults>>

-----------------------------------------------------------------------------
\* The portal restarts: what it was doing ends, what it remembers is gone.
Restart ==
    /\ Fault
    /\ link' = [l \in Links |->
                   [link[l] EXCEPT !.mail = IF @ = "todo" THEN "refused" ELSE @,
                                   !.row = IF @ = "todo" THEN "lost" ELSE @]]
    /\ click' = [c \in Clicks |-> NoClick]
    /\ visit' = [v \in Visits |-> NoVisit]
    /\ disturbed' = disturbed \cup CutShort(Clicks)
    /\ unsettled' = unsettled \cup {u \in Users : SettingUp(u)}
    /\ emailLimiter' = [e \in Emails |-> NoEntry]
    /\ ipLimiter' = NoEntry
    /\ setupComplete' = {}
    /\ UNCHANGED <<tab, tokens, identity, configured, keys, stored, spent, firstKeys, clicks, visits>>

Aged(entry) == [entry EXCEPT !.left = IF @ > 0 THEN @ - 1 ELSE 0]

\* A tick passes: entries of the limiters expire.
Tick ==
    /\ ipLimiter # NoEntry
    /\ emailLimiter' = [e \in Emails |-> Aged(emailLimiter[e])]
    /\ ipLimiter' = Aged(ipLimiter)
    /\ UNCHANGED <<tab, link, tokens, click, identity, setup, stored, spent, disturbed, clicks, faults>>

CallbackStep(c) ==
    \/ \E l \in Links : Click(c, l)
    \/ GetLink(c) \/ DeleteLink(c) \/ DeleteLinkUnanswered(c) \/ Lookup(c)
    \/ PutUser(c) \/ PutEmail(c) \/ PutKey(c)
    \/ FindCustomer(c) \/ Enrol(c) \/ Subscribe(c) \/ PutBilling(c) \/ PutPermissions(c)
    \/ Verify(c) \/ FailClick(c)

SetupStep(v) ==
    \/ \E u \in Users : Visit(v, u)
    \/ GetConfig(v) \/ AppendConfig(v) \/ ListKeys(v) \/ CreateFirstKey(v) \/ FailVisit(v)

Next ==
    \/ \E e \in Emails, l \in Links : Submit(e, l)
    \/ \E l \in Links : SendMail(l) \/ StoreLink(l)
    \/ Answer \/ Reload
    \/ \E c \in Clicks : CallbackStep(c)
    \/ \E v \in Visits : SetupStep(v)
    \/ \E u \in Users : DeleteKey(u)
    \/ Restart \/ Tick

Spec == Init /\ [][Next]_vars

-----------------------------------------------------------------------------
\* A link is good for one sign-in: no more links are accepted for an address
\* than were stored for it, with any number of clicks on each of them, and one
\* more is left only while a row is.  (Which link is accepted is another
\* matter: a second click on an old link may delete, and so use up, the row of
\* a newer one.)
LinksUsedOnce ==
    \A e \in Emails :
        spent[e] + (IF tokens[e] = None THEN 0 ELSE 1) <= stored[e]

\* Whoever is signed in has a whole account: the one user of his address, with
\* an encryption key, a billing row, permissions and one subscription of one
\* Stripe customer, unless a registration of the address was cut short, or a
\* second sign-in came while it was under way or could not read the row.
AccountWhole ==
    \A u \in signedIn :
        LET e == emailOf[u] IN
        e \notin disturbed =>
            /\ emailRow[e] = u
            /\ \A w \in Users \ {u} : emailOf[w] # e
            /\ account[u] = Records
            /\ stripe[e] = [customers |-> 1, subscriptions |-> 1]

\* The setup makes one first key for a user, through restarts and after he
\* deleted it; two only if first requests overlapped, none only if the setup
\* was cut short after the configuration was written.
OneFirstKey ==
    \A u \in Users \ unsettled :
        /\ firstKeys[u] <= 1
        /\ u \in configured /\ ~SettingUp(u) => firstKeys[u] = 1
=============================================================================
