---------------------------- MODULE SignUpProofs ----------------------------
(* Proofs about SignUp, for any addresses, links, users, callbacks, page   *)
(* requests, limits and faults.                                            *)
EXTENDS SignUp, TLAPS

-----------------------------------------------------------------------------
(* Type correctness.                                                       *)

Entering    == {"verify"} \cup Registering
ClickPhases == {"idle", "get", "delete", "lookup"} \cup Entering
VisitPhases == {"idle", "read", "append", "list", "create"}
Entry       == [count : Nat, left : Nat]
Request     == [email : Emails \cup {None},
                mail : {"none", "todo", "sent", "refused"},
                row : {"none", "todo", "stored", "lost"}]
Callback    == [at : ClickPhases, link : Links \cup {None}, user : Users \cup {None}]
PageRequest == [at : VisitPhases, user : Users \cup {None}]

MailOK ==
    /\ tab \in [view : {"form", "sent"}, waits : Links \cup {None}]
    /\ link \in [Links -> Request]
    /\ emailLimiter \in [Emails -> Entry]
    /\ ipLimiter \in Entry
    \* A request has an address.
    /\ \A l \in Links : link[l].mail # "none" \/ link[l].row # "none" => link[l].email \in Emails

TokensOK ==
    /\ tokens \in [Emails -> Links \cup {None}]
    /\ stored \in [Emails -> Nat]
    /\ spent \in [Emails -> Nat]

\* A callback works on a link that was mailed, and from the lookup on for a user.
ClickOK ==
    /\ click \in [Clicks -> Callback]
    /\ \A c \in Clicks :
          /\ click[c].at # "idle" => click[c].link \in Links /\ link[click[c].link].mail = "sent"
          /\ click[c].at \in Entering => click[c].user \in Users

IdentityOK ==
    /\ emailRow \in [Emails -> Users \cup {None}]
    /\ emailOf \in [Users -> Emails \cup {None}]
    /\ account \in [Users -> SUBSET Records]
    /\ stripe \in [Emails -> [customers : Nat, subscriptions : Nat]]
    /\ signedIn \subseteq Users
    /\ disturbed \subseteq Emails

SetupOK ==
    /\ visit \in [Visits -> PageRequest]
    /\ \A v \in Visits : visit[v].at # "idle" => visit[v].user \in Users
    /\ configured \subseteq Users
    /\ keys \in [Users -> Nat]
    /\ setupComplete \subseteq Users
    /\ unsettled \subseteq Users
    /\ firstKeys \in [Users -> Nat]

TypeOK == MailOK /\ TokensOK /\ ClickOK /\ IdentityOK /\ SetupOK

\* A callback's link keeps its address.
LEMMA EmailKnown ==
    ASSUME TypeOK, NEW c \in Clicks, click[c].at # "idle"
    PROVE  Email(c) \in Emails
  BY DEF TypeOK, MailOK, ClickOK, Email

\* The initial state is well typed.
LEMMA TypeInit == Init => TypeOK
  BY DEF Init, TypeOK, MailOK, TokensOK, ClickOK, IdentityOK, SetupOK, Blank, NoLink, NoEntry, NoClick,
     NoVisit, Nobody, Entry, Request, Callback, PageRequest, ClickPhases, VisitPhases, Entering, Registering

\* What the ways to move a callback do to it.
LEMMA GotoMoves ==
    ASSUME TypeOK, NEW c \in Clicks, click[c].at # "idle", NEW at \in ClickPhases, Goto(c, at)
    PROVE  /\ click' \in [Clicks -> Callback]
           /\ click'[c] = [at |-> at, link |-> click[c].link, user |-> click[c].user]
           /\ \A d \in Clicks : d # c => click'[d] = click[d]
  BY DEF Goto, TypeOK, ClickOK, Callback

\* ... and to let it go.
LEMMA FinishMoves ==
    ASSUME TypeOK, NEW c \in Clicks, Finish(c)
    PROVE  /\ click' \in [Clicks -> Callback]
           /\ click'[c] = NoClick
           /\ \A d \in Clicks : d # c => click'[d] = click[d]
  BY DEF Finish, NoClick, TypeOK, ClickOK, Callback, ClickPhases

\* The steps of the sign-in page, of the mail and of the clock never move a
\* callback, and never touch a mailed link.
LEMMA MailFrame ==
    ASSUME TypeOK,
           \/ \E e \in Emails, l \in Links : Submit(e, l)
           \/ \E l \in Links : SendMail(l) \/ StoreLink(l)
           \/ Answer \/ Reload \/ Tick
    PROVE  /\ MailOK'
           /\ \A l \in Links : link[l].mail = "sent" =>
                 link'[l].mail = "sent" /\ link'[l].email = link[l].email
           /\ UNCHANGED <<click, identity, setup, spent, disturbed>>
  <1>0. /\ tab \in [view : {"form", "sent"}, waits : Links \cup {None}]
        /\ link \in [Links -> Request] /\ emailLimiter \in [Emails -> Entry] /\ ipLimiter \in Entry
        /\ \A l \in Links : link[l].mail # "none" \/ link[l].row # "none" => link[l].email \in Emails
    BY DEF TypeOK, MailOK
  <1>c. \A en \in Entry : Check(en) \in Entry
    BY LimitsAssumption DEF Check, Entry
  <1>1. ASSUME NEW e \in Emails, NEW l \in Links, Submit(e, l)
        PROVE  /\ MailOK'
               /\ \A k \in Links : link[k].mail = "sent" =>
                     link'[k].mail = "sent" /\ link'[k].email = link[k].email
    <2>1. /\ \A k \in Links : k # l => link'[k] = link[k]
          /\ link'[l] = [email |-> e, mail |-> "todo", row |-> "todo"]
          /\ link[l].mail = "none"
          /\ link' \in [Links -> Request]
      BY <1>0, <1>1 DEF Submit, NoLink, Request
    <2>2. tab' \in [view : {"form", "sent"}, waits : Links \cup {None}]
      BY <1>0, <1>1 DEF Submit
    <2> QED BY <1>0, <1>1, <2>1, <2>2 DEF MailOK, Submit
  <1>2. ASSUME NEW l \in Links, SendMail(l)
        PROVE  /\ MailOK'
               /\ \A k \in Links : link[k].mail = "sent" =>
                     link'[k].mail = "sent" /\ link'[k].email = link[k].email
    <2>1. PICK m \in {"sent", "refused"} : link' = [link EXCEPT ![l].mail = m]
      BY <1>2 DEF SendMail
    <2>2. link[l].mail = "todo" /\ link[l].email \in Emails
      BY <1>0, <1>2 DEF SendMail
    <2>3. /\ \A k \in Links : k # l => link'[k] = link[k]
          /\ link'[l].email = link[l].email /\ link'[l].row = link[l].row /\ link'[l].mail = m
          /\ link' \in [Links -> Request]
      BY <1>0, <2>1 DEF Request
    <2>4. emailLimiter' \in [Emails -> Entry] /\ ipLimiter' \in Entry
      BY <1>0, <1>c, <1>2 DEF SendMail
    <2>5. tab' = tab
      BY <1>2 DEF SendMail
    <2> QED BY <1>0, <2>2, <2>3, <2>4, <2>5 DEF MailOK
  <1>3. ASSUME NEW l \in Links, StoreLink(l)
        PROVE  /\ MailOK'
               /\ \A k \in Links : link[k].mail = "sent" =>
                     link'[k].mail = "sent" /\ link'[k].email = link[k].email
    <2>1. PICK m \in {"stored", "lost"} : link' = [link EXCEPT ![l].row = m]
      BY <1>3 DEF StoreLink
    <2>2. link[l].row = "todo" /\ link[l].email \in Emails
      BY <1>0, <1>3 DEF StoreLink
    <2>3. /\ \A k \in Links : k # l => link'[k] = link[k]
          /\ link'[l].email = link[l].email /\ link'[l].mail = link[l].mail /\ link'[l].row = m
          /\ link' \in [Links -> Request]
      BY <1>0, <2>1 DEF Request
    <2>4. UNCHANGED <<tab, emailLimiter, ipLimiter>>
      BY <1>3 DEF StoreLink
    <2> QED BY <1>0, <2>2, <2>3, <2>4 DEF MailOK
  <1>4. CASE Answer \/ Reload
    BY <1>0, <1>4 DEF Answer, Reload, Blank, MailOK
  <1>5. CASE Tick
    BY <1>0, <1>5 DEF Tick, Aged, Entry, MailOK
  <1>6. UNCHANGED <<click, identity, setup, spent, disturbed>>
    BY DEF Submit, SendMail, StoreLink, Answer, Reload, Tick
  <1> QED BY <1>1, <1>2, <1>3, <1>4, <1>5, <1>6

\* A callback never touches a link's request, nor the setup of users.
LEMMA CallbackFrame ==
    ASSUME TypeOK, NEW c \in Clicks, CallbackStep(c)
    PROVE  /\ UNCHANGED <<mail, setup, stored>>
           /\ \A d \in Clicks : d # c => click'[d] = click[d]
           /\ click'[c].at # "idle" =>
                 /\ click[c].at # "idle" => click'[c].link = click[c].link
                 /\ click'[c].link \in Links /\ link[click'[c].link].mail = "sent"
           /\ ClickOK' /\ IdentityOK'
  <1>0. /\ click \in [Clicks -> Callback]
        /\ click[c].at # "idle" => click[c].link \in Links /\ link[click[c].link].mail = "sent"
        /\ click[c].at # "idle" => Email(c) \in Emails
        /\ click[c].at \in Entering => click[c].user \in Users
    BY EmailKnown DEF TypeOK, ClickOK
  <1>i. /\ emailRow \in [Emails -> Users \cup {None}]
        /\ emailOf \in [Users -> Emails \cup {None}]
        /\ account \in [Users -> SUBSET Records]
        /\ stripe \in [Emails -> [customers : Nat, subscriptions : Nat]]
        /\ signedIn \subseteq Users
        /\ disturbed \subseteq Emails
    BY DEF TypeOK, IdentityOK
  <1>1. UNCHANGED <<mail, setup, stored>>
    BY DEF CallbackStep, Click, GetLink, DeleteLink, DeleteLinkUnanswered, Lookup, PutUser, PutEmail, PutKey,
       FindCustomer, Enrol, Subscribe, PutBilling, PutPermissions, Verify, FailClick, OnlyClick
  <1> DEFINE Moved ==
           /\ click' \in [Clicks -> Callback]
           /\ \A d \in Clicks : d # c => click'[d] = click[d]
           /\ click'[c].at # "idle" =>
                 /\ click[c].at # "idle" => click'[c].link = click[c].link
                 /\ click'[c].link \in Links /\ link[click'[c].link].mail = "sent"
           /\ click'[c].at \in Entering => click'[c].user \in Users
  <1>2. ASSUME NEW l \in Links, Click(c, l) PROVE Moved /\ IdentityOK'
    <2>1. click' = [click EXCEPT ![c] = [at |-> "get", link |-> l, user |-> None]]
          /\ link[l].mail = "sent" /\ click[c].at = "idle"
      BY <1>2 DEF Click
    <2>2. Moved
      BY <1>0, <2>1 DEF Callback, ClickPhases, Entering, Registering
    <2>3. IdentityOK'
      BY <1>i, <1>2 DEF Click, identity, IdentityOK
    <2> QED BY <2>2, <2>3
  <1>3. ASSUME NEW at \in ClickPhases, Goto(c, at), click[c].at # "idle",
               at \in Entering => click[c].at \in Entering
        PROVE  Moved
    <2>1. /\ click' \in [Clicks -> Callback]
          /\ click'[c] = [at |-> at, link |-> click[c].link, user |-> click[c].user]
          /\ \A d \in Clicks : d # c => click'[d] = click[d]
      BY <1>3, GotoMoves
    <2>2. click'[c].at = at /\ click'[c].link = click[c].link /\ click'[c].user = click[c].user
      BY <2>1
    <2> QED BY <1>0, <1>3, <2>1, <2>2
  <1>4. ASSUME Finish(c) PROVE Moved
    BY <1>4, FinishMoves DEF NoClick, Entering, Registering
  <1>5. ASSUME GetLink(c) \/ DeleteLink(c) \/ DeleteLinkUnanswered(c) PROVE Moved /\ IdentityOK'
    <2>1. Moved
      BY <1>3, <1>4, <1>5 DEF GetLink, DeleteLink, DeleteLinkUnanswered, ClickPhases, Entering, Registering
    <2>2. IdentityOK'
      BY <1>i, <1>5 DEF GetLink, DeleteLink, DeleteLinkUnanswered, identity, IdentityOK
    <2> QED BY <2>1, <2>2
  <1>6. ASSUME Lookup(c) PROVE Moved /\ IdentityOK'
    <2>1. PICK at \in {"verify", "user"}, u \in Users :
             click' = [click EXCEPT ![c].at = at, ![c].user = u]
      BY <1>0, <1>i, <1>6 DEF Lookup
    <2>2. Moved
      BY <1>0, <1>6, <2>1 DEF Lookup, Callback, ClickPhases, Entering, Registering
    <2>3. disturbed' \in {disturbed, disturbed \cup {Email(c)}}
      BY <1>6 DEF Lookup
    <2>4. IdentityOK'
      BY <1>0, <1>i, <1>6, <2>3 DEF Lookup, identity, IdentityOK
    <2> QED BY <2>2, <2>4
  <1>7. ASSUME PutUser(c) \/ PutEmail(c) PROVE Moved /\ IdentityOK'
    <2>1. Moved
      BY <1>3, <1>7 DEF PutUser, PutEmail, ClickPhases, Entering, Registering
    <2>2. IdentityOK'
      BY <1>0, <1>i, <1>7 DEF PutUser, PutEmail, identity, IdentityOK, Entering, Registering
    <2> QED BY <2>1, <2>2
  <1>8. ASSUME PutKey(c) \/ PutBilling(c) PROVE Moved /\ IdentityOK'
    <2>1. Moved
      BY <1>3, <1>8 DEF PutKey, PutBilling, ClickPhases, Entering, Registering
    <2>2. IdentityOK'
      BY <1>0, <1>i, <1>8 DEF PutKey, PutBilling, Record, Records, IdentityOK, Entering, Registering
    <2> QED BY <2>1, <2>2
  <1>9. ASSUME FindCustomer(c) \/ Enrol(c) \/ Subscribe(c) PROVE Moved /\ IdentityOK'
    <2>1. Moved
      BY <1>3, <1>9 DEF FindCustomer, Enrol, Subscribe, ClickPhases, Entering, Registering
    <2>2. stripe' \in [Emails -> [customers : Nat, subscriptions : Nat]]
      BY <1>0, <1>i, <1>9 DEF FindCustomer, Enrol, Subscribe, identity
    <2>3. UNCHANGED <<emailRow, emailOf, account, signedIn, disturbed>>
      BY <1>9 DEF FindCustomer, Enrol, Subscribe, identity
    <2> QED BY <1>i, <2>1, <2>2, <2>3 DEF IdentityOK
  <1>10. ASSUME PutPermissions(c) \/ Verify(c) PROVE Moved /\ IdentityOK'
    <2>1. Moved
      BY <1>4, <1>10 DEF PutPermissions, Verify, SignIn
    <2>2. IdentityOK'
      BY <1>0, <1>i, <1>10 DEF PutPermissions, Verify, SignIn, Record, Records, IdentityOK, Entering, Registering
    <2> QED BY <2>1, <2>2
  <1>11. ASSUME FailClick(c) PROVE Moved /\ IdentityOK'
    <2>1. CutShort({c}) \subseteq Emails
      BY <1>0 DEF CutShort, Registering
    <2>2. Moved
      BY <1>4, <1>11 DEF FailClick
    <2>3. IdentityOK'
      BY <1>i, <1>11, <2>1 DEF FailClick, identity, IdentityOK
    <2> QED BY <2>2, <2>3
  <1>12. Moved /\ IdentityOK'
    BY <1>2, <1>5, <1>6, <1>7, <1>8, <1>9, <1>10, <1>11 DEF CallbackStep
  <1>13. ClickOK'
    <2>1. ASSUME NEW d \in Clicks
          PROVE  /\ click'[d].at # "idle" => click'[d].link \in Links /\ link'[click'[d].link].mail = "sent"
                 /\ click'[d].at \in Entering => click'[d].user \in Users
      BY <1>1, <1>12 DEF mail, TypeOK, ClickOK
    <2> QED BY <1>12, <2>1 DEF ClickOK
  <1> QED BY <1>1, <1>12, <1>13

\* Stored links and the history of links keep their types.
LEMMA TypeTokens ==
    ASSUME TypeOK, \/ \E l \in Links : StoreLink(l)
                   \/ \E c \in Clicks : CallbackStep(c)
    PROVE  TokensOK'
  <1>1. ASSUME NEW l \in Links, StoreLink(l) PROVE TokensOK'
    <2>1. link[l].email \in Emails
      BY <1>1 DEF StoreLink, TypeOK, MailOK
    <2> QED BY <1>1, <2>1 DEF StoreLink, TypeOK, TokensOK
  <1>2. ASSUME NEW c \in Clicks, CallbackStep(c) PROVE TokensOK'
    BY <1>2, EmailKnown DEF CallbackStep, Click, GetLink, DeleteLink, DeleteLinkUnanswered, Lookup, PutUser,
       PutEmail, PutKey, FindCustomer, Enrol, Subscribe, PutBilling, PutPermissions, Verify, FailClick,
       OnlyClick, TypeOK, TokensOK
  <1> QED BY <1>1, <1>2

\* The setup of users keeps its types and touches nothing else.
LEMMA TypeSetup ==
    ASSUME TypeOK,
           \/ \E v \in Visits : SetupStep(v)
           \/ \E u \in Users : DeleteKey(u)
    PROVE  SetupOK' /\ UNCHANGED <<mail, tokens, click, identity, stored, spent, disturbed>>
  <1>0. /\ visit \in [Visits -> PageRequest]
        /\ \A v \in Visits : visit[v].at # "idle" => visit[v].user \in Users
        /\ configured \subseteq Users /\ setupComplete \subseteq Users /\ unsettled \subseteq Users
        /\ keys \in [Users -> Nat] /\ firstKeys \in [Users -> Nat] /\ signedIn \subseteq Users
    BY DEF TypeOK, SetupOK, IdentityOK
  <1> DEFINE VisitOK == /\ visit' \in [Visits -> PageRequest]
                        /\ \A v \in Visits : visit'[v].at # "idle" => visit'[v].user \in Users
  <1>1. ASSUME NEW v \in Visits, NEW u \in Users, Visit(v, u) PROVE SetupOK'
    BY <1>0, <1>1 DEF Visit, SetupOK, PageRequest, VisitPhases
  <1>2. ASSUME NEW v \in Visits, visit[v].at # "idle", NEW at \in VisitPhases, Advance(v, at) PROVE VisitOK
    BY <1>0, <1>2 DEF Advance, PageRequest
  <1>3. ASSUME NEW v \in Visits, visit' = [visit EXCEPT ![v] = NoVisit] PROVE VisitOK
    BY <1>0, <1>3 DEF NoVisit, PageRequest, VisitPhases
  <1>4. ASSUME NEW v \in Visits, GetConfig(v) \/ AppendConfig(v) \/ ListKeys(v) PROVE SetupOK'
    <2>1. VisitOK
      BY <1>2, <1>3, <1>4 DEF GetConfig, AppendConfig, ListKeys, Complete, VisitPhases
    <2> QED BY <1>0, <1>4, <2>1 DEF GetConfig, AppendConfig, ListKeys, Complete, SetupOK
  <1>5. ASSUME NEW v \in Visits, CreateFirstKey(v) \/ FailVisit(v) PROVE SetupOK'
    <2>1. VisitOK
      BY <1>3, <1>5 DEF CreateFirstKey, FailVisit, Complete
    <2> QED BY <1>0, <1>5, <2>1 DEF CreateFirstKey, FailVisit, Complete, SetupOK
  <1>6. ASSUME NEW u \in Users, DeleteKey(u) PROVE SetupOK'
    BY <1>0, <1>6 DEF DeleteKey, SetupOK
  <1>7. UNCHANGED <<mail, tokens, click, identity, stored, spent, disturbed>>
    BY DEF SetupStep, Visit, GetConfig, AppendConfig, ListKeys, CreateFirstKey, FailVisit, DeleteKey, OnlyVisit
  <1> QED BY <1>1, <1>4, <1>5, <1>6, <1>7 DEF SetupStep

\* A restart ends requests, callbacks and visits, and forgets the limiters.
LEMMA TypeRestart == TypeOK /\ Restart => TypeOK'
  <1> SUFFICES ASSUME TypeOK, Restart PROVE TypeOK'
    OBVIOUS
  <1>1. CutShort(Clicks) \subseteq Emails
    BY EmailKnown DEF CutShort, Registering
  <1>2. MailOK'
    <2>1. link' \in [Links -> Request] /\ \A l \in Links : link'[l].email = link[l].email
      BY DEF Restart, TypeOK, MailOK, Request
    <2>2. \A l \in Links : (link'[l].mail # "none" => link[l].mail # "none")
                        /\ (link'[l].row # "none" => link[l].row # "none")
      BY DEF Restart, TypeOK, MailOK, Request
    <2> QED BY <2>1, <2>2 DEF Restart, NoEntry, Entry, TypeOK, MailOK
  <1>3. ClickOK'
    BY DEF Restart, NoClick, ClickOK, Callback, ClickPhases, Entering, Registering
  <1>4. SetupOK'
    BY DEF Restart, NoVisit, TypeOK, SetupOK, PageRequest, VisitPhases
  <1>5. IdentityOK' /\ TokensOK'
    BY <1>1 DEF Restart, identity, TypeOK, IdentityOK, TokensOK
  <1> QED BY <1>2, <1>3, <1>4, <1>5 DEF TypeOK

\* Every step keeps the types.
LEMMA TypeStep == TypeOK /\ [Next]_vars => TypeOK'
  <1> SUFFICES ASSUME TypeOK, [Next]_vars PROVE TypeOK'
    OBVIOUS
  <1>1. CASE UNCHANGED vars
    BY <1>1 DEF vars, mail, identity, setup, TypeOK, MailOK, TokensOK, ClickOK, IdentityOK, SetupOK
  <1>2. CASE \/ \E e \in Emails, l \in Links : Submit(e, l)
             \/ \E l \in Links : SendMail(l) \/ StoreLink(l)
             \/ Answer \/ Reload \/ Tick
    <2>1. ClickOK'
      BY <1>2, MailFrame DEF TypeOK, ClickOK
    <2>2. TokensOK'
      BY <1>2, TypeTokens DEF TypeOK, TokensOK, Submit, SendMail, Answer, Reload, Tick
    <2> QED BY <1>2, <2>1, <2>2, MailFrame DEF TypeOK, IdentityOK, SetupOK, identity, setup
  <1>3. CASE \E c \in Clicks : CallbackStep(c)
    BY <1>3, CallbackFrame, TypeTokens DEF mail, setup, TypeOK, MailOK, SetupOK
  <1>4. CASE (\E v \in Visits : SetupStep(v)) \/ (\E u \in Users : DeleteKey(u))
    BY <1>4, TypeSetup DEF mail, identity, TypeOK, MailOK, TokensOK, ClickOK, IdentityOK
  <1> QED BY <1>1, <1>2, <1>3, <1>4, TypeRestart DEF Next

\* Every variable keeps its type; a callback works on a mailed link and, from
\* the lookup on, for a user.
THEOREM SignUpTypeCorrect == Spec => []TypeOK
  BY TypeInit, TypeStep, PTL DEF Spec

-----------------------------------------------------------------------------
(* A link is good for one sign-in.                                         *)

\* Only the row of an address is exchanged for a sign-in, and it is deleted.
LEMMA LinksStep == TypeOK /\ LinksUsedOnce /\ [Next]_vars => LinksUsedOnce'
  <1> SUFFICES ASSUME TypeOK, LinksUsedOnce, [Next]_vars PROVE LinksUsedOnce'
    OBVIOUS
  <1>0. /\ tokens \in [Emails -> Links \cup {None}]
        /\ stored \in [Emails -> Nat] /\ spent \in [Emails -> Nat]
        /\ \A c \in Clicks : click[c].at # "idle" => Email(c) \in Emails
    BY EmailKnown DEF TypeOK, TokensOK
  <1>1. CASE UNCHANGED <<tokens, stored, spent>>
    BY <1>1 DEF LinksUsedOnce
  <1>2. ASSUME NEW l \in Links, StoreLink(l) PROVE LinksUsedOnce'
    <2>1. link[l].email \in Emails
      BY <1>2 DEF StoreLink, TypeOK, MailOK
    <2> QED BY <1>0, <1>2, <2>1, NoneAssumption DEF StoreLink, LinksUsedOnce
  <1>3. ASSUME NEW c \in Clicks, DeleteLink(c) \/ DeleteLinkUnanswered(c) PROVE LinksUsedOnce'
    BY <1>0, <1>3 DEF DeleteLink, DeleteLinkUnanswered, OnlyClick, LinksUsedOnce
  <1>4. ASSUME NEW c \in Clicks, CallbackStep(c), ~DeleteLink(c), ~DeleteLinkUnanswered(c)
        PROVE  UNCHANGED <<tokens, stored, spent>>
    BY <1>4 DEF CallbackStep, Click, GetLink, Lookup, PutUser, PutEmail, PutKey, FindCustomer, Enrol, Subscribe,
       PutBilling, PutPermissions, Verify, FailClick, OnlyClick
  <1>5. CASE (\E v \in Visits : SetupStep(v)) \/ (\E u \in Users : DeleteKey(u))
    BY <1>1, <1>5, TypeSetup
  <1>6. ASSUME \/ \E e \in Emails, l \in Links : Submit(e, l)
               \/ \E l \in Links : SendMail(l)
               \/ Answer \/ Reload \/ Restart \/ Tick \/ UNCHANGED vars
        PROVE  UNCHANGED <<tokens, stored, spent>>
    BY <1>6 DEF Submit, SendMail, Answer, Reload, Restart, Tick, vars
  <1> QED BY <1>1, <1>2, <1>3, <1>4, <1>5, <1>6 DEF Next

\* No more links are accepted for an address than were stored for it, however
\* many clicks, failures and restarts there are.
THEOREM LinksGoodForOnce == Spec => []LinksUsedOnce
  <1>1. Init => LinksUsedOnce
    BY DEF Init, LinksUsedOnce
  <1> QED BY <1>1, TypeInit, TypeStep, LinksStep, PTL DEF Spec

-----------------------------------------------------------------------------
(* One first key.                                                          *)

Writing(v, u) == visit[v].user = u /\ visit[v].at \in {"append", "list", "create"}

\* One request at a time sets a user up; it writes the configuration first,
\* and until its last step the user has no key.
SetUp(u) ==
    /\ \A v, w \in Visits : Writing(v, u) /\ Writing(w, u) => v = w
    /\ \A v \in Visits : Writing(v, u) => (u \in configured <=> visit[v].at # "append")
    /\ u \notin configured \/ SettingUp(u) => firstKeys[u] = 0 /\ keys[u] = 0
    /\ u \in configured /\ ~SettingUp(u) => firstKeys[u] = 1

SetupInv == \A u \in Users \ unsettled : SetUp(u)

\* A user whom no request starts or stops writing for, and whose records stay,
\* is set up as before.
LEMMA SetupFrame ==
    ASSUME NEW u, SetUp(u),
           \A v \in Visits : Writing(v, u)' <=> Writing(v, u),
           \A v \in Visits : Writing(v, u) => visit'[v] = visit[v],
           u \in configured' <=> u \in configured,
           keys'[u] = keys[u], firstKeys'[u] = firstKeys[u]
    PROVE  SetUp(u)'
  <1>1. SettingUp(u)' <=> SettingUp(u)
    BY DEF SettingUp, Writing
  <1> QED BY <1>1 DEF SetUp

\* The steps of a page request keep the setup of every user right.
LEMMA SetupKept ==
    ASSUME TypeOK, SetupInv, NEW v \in Visits, SetupStep(v)
    PROVE  SetupInv'
  <1>0. /\ visit \in [Visits -> PageRequest]
        /\ \A w \in Visits : visit[w].at # "idle" => visit[w].user \in Users
        /\ configured \subseteq Users /\ unsettled \subseteq Users
        /\ keys \in [Users -> Nat] /\ firstKeys \in [Users -> Nat]
        /\ None \notin Users
    BY NoneAssumption DEF TypeOK, SetupOK
  <1>1. unsettled \subseteq unsettled' /\ \A w \in Visits : w # v => visit'[w] = visit[w]
    BY <1>0 DEF SetupStep, Visit, GetConfig, AppendConfig, ListKeys, CreateFirstKey, FailVisit, Advance, Complete
  <1> SUFFICES ASSUME NEW u \in Users, u \notin unsettled' PROVE SetUp(u)'
    BY DEF SetupInv
  <1>2. SetUp(u)
    BY <1>1 DEF SetupInv
  <1>3. \A w \in Visits : Writing(w, u) => SettingUp(u)
    BY DEF Writing, SettingUp
  <1>4. \A w \in Visits : w # v => (Writing(w, u)' <=> Writing(w, u))
    BY <1>1 DEF Writing
  \* Steps for another user.
  <1>5. CASE visit[v].at # "idle" /\ visit[v].user # u
    <2>1. ~Writing(v, u) /\ ~Writing(v, u)'
      <3>1. visit' = [visit EXCEPT ![v] = NoVisit] \/ \E at \in VisitPhases : Advance(v, at)
        BY <1>5 DEF SetupStep, Visit, GetConfig, AppendConfig, ListKeys, CreateFirstKey, FailVisit, Complete,
           VisitPhases
      <3>2. visit'[v].user \in {visit[v].user, None}
        BY <1>0, <3>1 DEF Advance, NoVisit, PageRequest
      <3> QED BY <1>0, <1>5, <3>2 DEF Writing
    <2>2. (u \in configured' <=> u \in configured) /\ keys'[u] = keys[u] /\ firstKeys'[u] = firstKeys[u]
      BY <1>0, <1>5 DEF SetupStep, Visit, GetConfig, AppendConfig, ListKeys, CreateFirstKey, FailVisit
    <2> QED BY <1>1, <1>2, <1>4, <2>1, <2>2, SetupFrame
  <1>6. CASE visit[v].at = "idle"
    <2>1. ~Writing(v, u) /\ ~Writing(v, u)'
      BY <1>0, <1>6 DEF SetupStep, Visit, GetConfig, AppendConfig, ListKeys, CreateFirstKey, FailVisit, Writing
    <2>2. UNCHANGED <<configured, keys, firstKeys>>
      BY <1>6 DEF SetupStep, Visit, GetConfig, AppendConfig, ListKeys, CreateFirstKey, FailVisit
    <2> QED BY <1>1, <1>2, <1>4, <2>1, <2>2, SetupFrame
  \* Steps for this user.
  <1>7. CASE visit[v].at # "idle" /\ visit[v].user = u
    <2>1. CASE FailVisit(v)
      <3>1. ~SettingUp(u)
        BY <1>0, <1>7, <2>1 DEF FailVisit
      <3>2. ~Writing(v, u) /\ ~Writing(v, u)'
        BY <1>0, <1>3, <1>7, <2>1, <3>1 DEF FailVisit, NoVisit, Writing
      <3> QED BY <1>1, <1>2, <1>4, <2>1, <3>2, SetupFrame DEF FailVisit
    <2>2. CASE GetConfig(v) /\ u \in configured
      <3>1. ~Writing(v, u) /\ ~Writing(v, u)'
        BY <1>0, <1>7, <2>2 DEF GetConfig, Complete, NoVisit, Writing
      <3> QED BY <1>1, <1>2, <1>4, <2>2, <3>1, SetupFrame DEF GetConfig
    <2>3. CASE GetConfig(v) /\ u \notin configured
      <3>1. ~SettingUp(u) /\ visit' = [visit EXCEPT ![v].at = "append"] /\ UNCHANGED <<configured, keys, firstKeys>>
        BY <1>0, <1>7, <2>3 DEF GetConfig, Advance
      <3>2. \A w \in Visits : Writing(w, u)' => w = v
        BY <1>3, <1>4, <3>1
      <3>3. visit'[v].at = "append" /\ SettingUp(u)'
        BY <1>0, <1>7, <3>1 DEF SettingUp, PageRequest
      <3> QED BY <1>2, <2>3, <3>1, <3>2, <3>3 DEF SetUp
    <2>4. CASE AppendConfig(v) \/ ListKeys(v) \/ CreateFirstKey(v)
      <3>1. Writing(v, u) /\ SettingUp(u) /\ firstKeys[u] = 0 /\ keys[u] = 0
        BY <1>2, <1>3, <1>7, <2>4 DEF AppendConfig, ListKeys, CreateFirstKey, SetUp, Writing
      <3>2. \A w \in Visits : Writing(w, u)' => w = v
        BY <1>2, <1>4, <3>1 DEF SetUp
      <3>3. CASE AppendConfig(v) \/ ListKeys(v)
        <4>1. /\ visit'[v].at \in {"list", "create"} /\ visit'[v].user = u /\ u \in configured'
              /\ UNCHANGED <<keys, firstKeys>>
          BY <1>0, <1>2, <1>7, <3>1, <3>3 DEF AppendConfig, ListKeys, Advance, PageRequest, SetUp
        <4>2. SettingUp(u)'
          BY <4>1 DEF SettingUp
        <4> QED BY <3>1, <3>2, <4>1, <4>2 DEF SetUp
      <3>4. CASE CreateFirstKey(v)
        <4>1. visit'[v] = NoVisit /\ u \in configured' /\ firstKeys'[u] = 1
          BY <1>0, <1>2, <1>7, <3>1, <3>4 DEF CreateFirstKey, Complete, SetUp
        <4>2. \A w \in Visits : ~Writing(w, u)'
          BY <3>2, <4>1 DEF Writing, NoVisit
        <4>3. ~SettingUp(u)'
          BY <4>2 DEF SettingUp, Writing
        <4> QED BY <4>1, <4>2, <4>3 DEF SetUp
      <3> QED BY <2>4, <3>3, <3>4
    <2> QED BY <1>7, <2>1, <2>2, <2>3, <2>4 DEF SetupStep, Visit
  <1> QED BY <1>5, <1>6, <1>7

\* So does everything else: a key can be deleted only after the setup.
LEMMA SetupInvStep == TypeOK /\ SetupInv /\ [Next]_vars => SetupInv'
  <1> SUFFICES ASSUME TypeOK, SetupInv, [Next]_vars PROVE SetupInv'
    OBVIOUS
  <1>1. CASE UNCHANGED setup
    BY <1>1 DEF setup, SetupInv, SetUp, SettingUp, Writing
  <1>2. ASSUME NEW u \in Users, DeleteKey(u) PROVE SetupInv'
    <2>1. keys \in [Users -> Nat]
      BY DEF TypeOK, SetupOK
    <2> SUFFICES ASSUME NEW x \in Users, x \notin unsettled PROVE SetUp(x)'
      BY <1>2 DEF DeleteKey, SetupInv
    <2>2. SetUp(x)
      BY DEF SetupInv
    <2>3. CASE x # u
      BY <1>2, <2>1, <2>2, <2>3 DEF DeleteKey, SetUp, SettingUp, Writing
    <2>4. CASE x = u
      <3>1. x \in configured /\ ~SettingUp(x)
        BY <1>2, <2>2, <2>4 DEF DeleteKey, SetUp
      <3>2. UNCHANGED <<visit, configured, firstKeys>> /\ ~SettingUp(x)'
        BY <1>2, <3>1 DEF DeleteKey, SettingUp
      <3> QED BY <2>2, <3>1, <3>2 DEF SetUp, Writing
    <2> QED BY <2>3, <2>4
  <1>3. CASE Restart
    <2> SUFFICES ASSUME NEW x \in Users, x \notin unsettled' PROVE SetUp(x)'
      BY DEF SetupInv
    <2>1. SetUp(x) /\ ~SettingUp(x)
      BY <1>3 DEF Restart, SetupInv
    <2>2. UNCHANGED <<configured, keys, firstKeys>> /\ \A v \in Visits : visit'[v].at = "idle"
      BY <1>3 DEF Restart, NoVisit
    <2>3. ~SettingUp(x)' /\ \A v \in Visits : ~Writing(v, x)'
      BY <2>2 DEF SettingUp, Writing
    <2> QED BY <2>1, <2>2, <2>3 DEF SetUp
  <1>4. CASE UNCHANGED vars
    BY <1>1, <1>4 DEF vars
  <1> QED BY <1>1, <1>2, <1>3, <1>4, SetupKept, MailFrame, CallbackFrame DEF Next

\* The setup of a user that nothing cuts short and nothing overlaps makes one
\* first key, through restarts and deleted keys.
THEOREM OneFirstKeyMade == Spec => []OneFirstKey
  <1>1. Init => SetupInv
    BY DEF Init, NoVisit, SetupInv, SetUp, SettingUp, Writing
  <1>2. SetupInv => OneFirstKey
    BY DEF SetupInv, SetUp, OneFirstKey
  <1> QED BY <1>1, <1>2, TypeInit, TypeStep, SetupInvStep, PTL DEF Spec

-----------------------------------------------------------------------------
(* Whole accounts.                                                         *)

\* Nothing was ever written for the address.
Untouched(e) ==
    /\ emailRow[e] = None
    /\ \A u \in Users : emailOf[u] # e
    /\ stripe[e] = Nobody

\* Everything was, for one user.
Whole(e) ==
    /\ emailRow[e] \in Users
    /\ \A u \in Users : emailOf[u] = e <=> u = emailRow[e]
    /\ account[emailRow[e]] = Records
    /\ stripe[e] = [customers |-> 1, subscriptions |-> 1]

\* What a registration that nothing disturbs has written so far.
Stage(c, e, u) ==
    LET at == click[c].at IN
    /\ \A w \in Users : emailOf[w] = e => w = u
    /\ emailRow[e] = IF at \in {"user", "email"} THEN None ELSE u
    /\ account[u] = IF at \in {"user", "email", "key"} THEN {}
                    ELSE IF at = "permissions" THEN {"key", "billing"} ELSE {"key"}
    /\ stripe[e] = IF at \in {"billing", "permissions"} THEN [customers |-> 1, subscriptions |-> 1]
                   ELSE IF at = "subscribe" THEN [customers |-> 1, subscriptions |-> 0] ELSE Nobody

\* Users and addresses.
Owned ==
    /\ \A e \in Emails : emailRow[e] # None => emailOf[emailRow[e]] = e
    /\ \A u \in Users : emailOf[u] = None => account[u] = {} /\ u \notin signedIn

\* The callbacks know the address of the user they work for, once it is
\* written, and no two register the same user.
Knowing ==
    /\ \A c \in Clicks :
          /\ click[c].at = "user" => emailOf[click[c].user] = None
          /\ click[c].at \in Entering \ {"user"} => emailOf[click[c].user] = Email(c)
    /\ \A c, d \in Clicks :
          click[c].at \in Registering /\ click[d].at \in Registering /\ click[c].user = click[d].user
             => c = d

RegisteringFor(c, e) == click[c].at \in Registering /\ Email(c) = e

\* An address nobody disturbed is untouched, being registered or whole, and
\* nobody is let in while it is being registered.
Undisturbed ==
    \A e \in Emails \ disturbed :
        /\ \A c, d \in Clicks : RegisteringFor(c, e) /\ RegisteringFor(d, e) => c = d
        /\ \A c \in Clicks : RegisteringFor(c, e) => Stage(c, e, click[c].user)
        /\ ~BeingRegistered(e) => Untouched(e) \/ Whole(e)
        /\ BeingRegistered(e) =>
              /\ \A u \in signedIn : emailOf[u] # e
              /\ \A c \in Clicks : click[c].at = "verify" => Email(c) # e

AccountInv == Owned /\ Knowing /\ Undisturbed

\* Steps that write nothing of an account, move no callback that works for a
\* user, and disturb the address of every registration they end.
LEMMA AccountFrame ==
    ASSUME TypeOK, TypeOK', AccountInv,
           UNCHANGED identity, disturbed \subseteq disturbed',
           \A l \in Links : link[l].mail = "sent" => link'[l].email = link[l].email,
           \A c \in Clicks : \/ click'[c] = click[c]
                             \/ /\ click'[c].at \notin Entering
                                /\ click[c].at \in Registering => Email(c) \in disturbed'
    PROVE  AccountInv'
  <1>0. UNCHANGED <<emailRow, emailOf, account, stripe, signedIn>>
    BY DEF identity
  <1>1. ASSUME NEW c \in Clicks, click'[c].at \in Entering
        PROVE  click'[c] = click[c] /\ Email(c)' = Email(c)
    BY <1>1 DEF TypeOK, ClickOK, Email, Entering, Registering
  <1>2. ASSUME NEW e \in Emails, e \notin disturbed', NEW c \in Clicks
        PROVE  RegisteringFor(c, e)' <=> RegisteringFor(c, e)
    <2>1. CASE click'[c].at \in Registering
      BY <1>1, <2>1 DEF RegisteringFor, Entering
    <2>2. CASE click'[c].at \notin Registering
      BY <1>2, <2>2 DEF RegisteringFor, Entering
    <2> QED BY <2>1, <2>2
  <1>3. ASSUME NEW e \in Emails, e \notin disturbed'
        PROVE  BeingRegistered(e)' <=> BeingRegistered(e)
    BY <1>2, <1>3 DEF BeingRegistered, RegisteringFor
  <1>4. Owned'
    BY <1>0 DEF Owned, AccountInv
  <1>5. Knowing'
    <2>1. ASSUME NEW c \in Clicks
          PROVE  /\ click'[c].at = "user" => emailOf'[click'[c].user] = None
                 /\ click'[c].at \in Entering \ {"user"} => emailOf'[click'[c].user] = Email(c)'
      BY <1>0, <1>1 DEF Knowing, AccountInv, Entering, Registering
    <2>2. ASSUME NEW b \in Clicks, NEW d \in Clicks, click'[b].at \in Registering, click'[d].at \in Registering,
                 click'[b].user = click'[d].user
          PROVE  b = d
      BY <1>1, <2>2 DEF Knowing, AccountInv, Entering
    <2> QED BY <2>1, <2>2 DEF Knowing
  <1>6. Undisturbed'
    <2> SUFFICES ASSUME NEW e \in Emails, e \notin disturbed'
                 PROVE  /\ \A c, d \in Clicks : RegisteringFor(c, e)' /\ RegisteringFor(d, e)' => c = d
                        /\ \A c \in Clicks : RegisteringFor(c, e)' => Stage(c, e, click[c].user)'
                        /\ ~BeingRegistered(e)' => Untouched(e)' \/ Whole(e)'
                        /\ BeingRegistered(e)' =>
                              /\ \A u \in signedIn' : emailOf'[u] # e
                              /\ \A c \in Clicks : click'[c].at = "verify" => Email(c)' # e
      BY DEF Undisturbed
    <2>1. e \notin disturbed
      OBVIOUS
    <2>2. \A c, d \in Clicks : RegisteringFor(c, e)' /\ RegisteringFor(d, e)' => c = d
      BY <1>2, <2>1 DEF AccountInv, Undisturbed
    <2>3. ASSUME NEW c \in Clicks, RegisteringFor(c, e)' PROVE Stage(c, e, click[c].user)'
      <3>1. click'[c] = click[c] /\ Stage(c, e, click[c].user)
        BY <1>1, <1>2, <2>1, <2>3 DEF AccountInv, Undisturbed, RegisteringFor, Entering
      <3> QED BY <1>0, <3>1 DEF Stage
    <2>4. ~BeingRegistered(e)' => Untouched(e)' \/ Whole(e)'
      BY <1>0, <1>3, <2>1 DEF AccountInv, Undisturbed, Untouched, Whole
    <2>5. BeingRegistered(e)' =>
             /\ \A u \in signedIn' : emailOf'[u] # e
             /\ \A c \in Clicks : click'[c].at = "verify" => Email(c)' # e
      BY <1>0, <1>1, <1>3, <2>1 DEF AccountInv, Undisturbed, Entering
    <2> QED BY <2>2, <2>3, <2>4, <2>5
  <1> QED BY <1>4, <1>5, <1>6 DEF AccountInv

\* The lookup: a known user, or a new one for an address nothing was written
\* for, unless it disturbs the address.
LEMMA AccountLookup ==
    ASSUME TypeOK, TypeOK', AccountInv, NEW c \in Clicks, Lookup(c)
    PROVE  AccountInv'
  <1> DEFINE E == link[click[c].link].email
  <1>0. /\ click \in [Clicks -> Callback]
        /\ emailRow \in [Emails -> Users \cup {None}] /\ emailOf \in [Users -> Emails \cup {None}]
        /\ signedIn \subseteq Users
        /\ None \notin Users /\ None \notin Emails
    BY NoneAssumption DEF TypeOK, ClickOK, IdentityOK
  <1>1. /\ UNCHANGED <<emailRow, emailOf, account, stripe, signedIn>>
        /\ link' = link /\ disturbed \subseteq disturbed' /\ disturbed' \subseteq disturbed \cup {E}
        /\ BeingRegistered(E) => E \in disturbed'
        /\ click[c].at = "lookup" /\ E \in Emails
    BY EmailKnown DEF Lookup, Email, OnlyClick, mail, identity
  <1>2. PICK at \in {"verify", "user"}, u \in Users :
           /\ click' = [click EXCEPT ![c].at = at, ![c].user = u]
           /\ at = "verify" => u = emailRow[E]
           /\ at = "user" => Unborn(u) /\ (emailRow[E] = None \/ E \in disturbed')
    BY <1>0, <1>1 DEF Lookup, Email
  <1>3. /\ click'[c].at = at /\ click'[c].user = u /\ click'[c].link = click[c].link
        /\ \A d \in Clicks : d # c => click'[d] = click[d]
    BY <1>0, <1>2 DEF Callback
  <1>4. /\ Email(c) = E /\ \A d \in Clicks : Email(d)' = Email(d)
    BY <1>1, <1>3 DEF Email
  <1>5. /\ \A d \in Clicks : d # c => \A e : RegisteringFor(d, e)' <=> RegisteringFor(d, e)
        /\ \A e : ~RegisteringFor(c, e)
        /\ \A e : RegisteringFor(c, e)' <=> at = "user" /\ e = E
    BY <1>1, <1>3, <1>4 DEF RegisteringFor, Registering
  <1>6. Owned'
    BY <1>1 DEF Owned, AccountInv
  <1>7. Knowing'
    <2>1. at = "verify" => emailOf[u] = E
      BY <1>0, <1>1, <1>2 DEF AccountInv, Owned
    <2>2. at = "user" => emailOf[u] = None /\ \A d \in Clicks : click[d].user # u
      BY <1>2 DEF Unborn
    <2>3. ASSUME NEW d \in Clicks
          PROVE  /\ click'[d].at = "user" => emailOf'[click'[d].user] = None
                 /\ click'[d].at \in Entering \ {"user"} => emailOf'[click'[d].user] = Email(d)'
      BY <1>1, <1>2, <1>3, <1>4, <2>1, <2>2 DEF AccountInv, Knowing, Entering, Registering
    <2>4. ASSUME NEW b \in Clicks, NEW d \in Clicks, click'[b].at \in Registering, click'[d].at \in Registering,
                 click'[b].user = click'[d].user
          PROVE  b = d
      BY <1>3, <2>2, <2>4 DEF AccountInv, Knowing, Registering
    <2> QED BY <2>3, <2>4 DEF Knowing
  <1>8. Undisturbed'
    <2> SUFFICES ASSUME NEW e \in Emails, e \notin disturbed'
                 PROVE  /\ \A b, d \in Clicks : RegisteringFor(b, e)' /\ RegisteringFor(d, e)' => b = d
                        /\ \A d \in Clicks : RegisteringFor(d, e)' => Stage(d, e, click[d].user)'
                        /\ ~BeingRegistered(e)' => Untouched(e)' \/ Whole(e)'
                        /\ BeingRegistered(e)' =>
                              /\ \A w \in signedIn' : emailOf'[w] # e
                              /\ \A d \in Clicks : click'[d].at = "verify" => Email(d)' # e
      BY DEF Undisturbed
    <2>1. e \notin disturbed /\ (e = E => ~BeingRegistered(e))
      BY <1>1
    <2>2. BeingRegistered(e)' <=> BeingRegistered(e) \/ RegisteringFor(c, e)'
      BY <1>5 DEF BeingRegistered, RegisteringFor
    \* What an address that is looked up and taken for a new one is like.
    <2>3. ASSUME RegisteringFor(c, e)'
          PROVE  /\ ~BeingRegistered(e) /\ Untouched(e) /\ account[u] = {}
                 /\ \A d \in Clicks : d # c => ~RegisteringFor(d, e)
      <3>1. e = E /\ at = "user"
        BY <1>5, <2>3
      <3>2. ~BeingRegistered(e) /\ emailRow[e] = None
        BY <1>2, <2>1, <3>1
      <3>3. Untouched(e)
        BY <1>0, <2>1, <3>2 DEF AccountInv, Undisturbed, Whole
      <3>4. account[u] = {}
        BY <1>2, <3>1 DEF Unborn, AccountInv, Owned
      <3> QED BY <3>2, <3>3, <3>4 DEF BeingRegistered, RegisteringFor
    <2>4. \A b, d \in Clicks : RegisteringFor(b, e)' /\ RegisteringFor(d, e)' => b = d
      BY <1>5, <2>1, <2>3 DEF AccountInv, Undisturbed
    <2>5. ASSUME NEW d \in Clicks, RegisteringFor(d, e)' PROVE Stage(d, e, click[d].user)'
      <3>1. CASE d = c
        BY <1>1, <1>2, <1>3, <1>5, <2>3, <2>5, <3>1 DEF Stage, Untouched
      <3>2. CASE d # c
        <4>1. Stage(d, e, click[d].user) /\ click'[d] = click[d]
          BY <1>3, <1>5, <2>1, <2>5, <3>2 DEF AccountInv, Undisturbed
        <4> QED BY <1>1, <4>1 DEF Stage
      <3> QED BY <3>1, <3>2
    <2>6. ~BeingRegistered(e)' => Untouched(e)' \/ Whole(e)'
      BY <1>1, <2>1, <2>2 DEF AccountInv, Undisturbed, Untouched, Whole
    <2>7. ASSUME BeingRegistered(e)', NEW w \in signedIn' PROVE emailOf'[w] # e
      BY <1>0, <1>1, <2>1, <2>2, <2>3, <2>7 DEF AccountInv, Undisturbed, Untouched
    <2>8. ASSUME BeingRegistered(e)', NEW d \in Clicks, click'[d].at = "verify" PROVE Email(d)' # e
      <3>1. CASE d = c
        BY <1>3, <1>4, <1>5, <2>1, <2>2, <2>8, <3>1
      <3>2. CASE d # c
        <4>1. click[d].at = "verify" /\ click[d].user \in Users /\ emailOf[click[d].user] = Email(d)
          BY <1>3, <2>8, <3>2 DEF TypeOK, ClickOK, AccountInv, Knowing, Entering
        <4> QED BY <1>4, <2>1, <2>2, <2>3, <2>8, <4>1 DEF AccountInv, Undisturbed, Untouched
      <3> QED BY <3>1, <3>2
    <2> QED BY <2>4, <2>5, <2>6, <2>7, <2>8
  <1> QED BY <1>6, <1>7, <1>8 DEF AccountInv

\* The writing steps of a registration.
Writes(c) ==
    \/ PutUser(c) \/ PutEmail(c) \/ PutKey(c) \/ FindCustomer(c) \/ Enrol(c) \/ Subscribe(c)
    \/ PutBilling(c) \/ PutPermissions(c)

\* What they leave alone, and how far they take an undisturbed address.
LEMMA WritesFrame ==
    ASSUME TypeOK, AccountInv, NEW c \in Clicks, Writes(c), NEW e, e = Email(c), NEW u, u = click[c].user
    PROVE  /\ e \in Emails /\ u \in Users /\ click[c].at \in Registering
           /\ link' = link /\ disturbed' = disturbed
           /\ \A d \in Clicks : d # c => click'[d] = click[d]
           /\ \A x \in Emails : x # e => emailRow'[x] = emailRow[x] /\ stripe'[x] = stripe[x]
           /\ \A w \in Users : w # u => emailOf'[w] = emailOf[w] /\ account'[w] = account[w]
           /\ emailOf[u] \in {None, e} /\ emailOf'[u] = e
           /\ emailRow'[e] \in {emailRow[e], u}
           /\ signedIn \subseteq signedIn' /\ signedIn' \subseteq signedIn \cup {u}
           /\ \/ /\ click'[c].at \in Registering \ {"user"}
                 /\ click'[c].link = click[c].link /\ click'[c].user = u
                 /\ signedIn' = signedIn
                 /\ e \notin disturbed => Stage(c, e, u)'
              \/ /\ click'[c].at \notin Entering
                 /\ e \notin disturbed => Whole(e)'
  <1>0. /\ click \in [Clicks -> Callback]
        /\ emailRow \in [Emails -> Users \cup {None}] /\ emailOf \in [Users -> Emails \cup {None}]
        /\ account \in [Users -> SUBSET Records]
        /\ stripe \in [Emails -> [customers : Nat, subscriptions : Nat]]
        /\ signedIn \subseteq Users
        /\ None \notin Users /\ None \notin Emails
    BY NoneAssumption DEF TypeOK, ClickOK, IdentityOK
  <1>1. click[c].at \in Registering
    BY DEF Writes, PutUser, PutEmail, PutKey, FindCustomer, Enrol, Subscribe, PutBilling, PutPermissions,
       Registering
  <1>2. e \in Emails /\ u \in Users
    BY <1>1, EmailKnown DEF TypeOK, ClickOK, Entering, Registering
  <1>3. link' = link /\ disturbed' = disturbed
    BY DEF Writes, PutUser, PutEmail, PutKey, FindCustomer, Enrol, Subscribe, PutBilling, PutPermissions,
       OnlyClick, mail
  <1>4. \A d \in Clicks : d # c => click'[d] = click[d]
    BY <1>0 DEF Writes, PutUser, PutEmail, PutKey, FindCustomer, Enrol, Subscribe, PutBilling, PutPermissions,
       SignIn, Goto, Finish
  <1>5. \/ click[c].at = "user" /\ emailOf[u] = None
        \/ click[c].at # "user" /\ emailOf[u] = e
    BY <1>1 DEF AccountInv, Knowing, Entering
  <1>6. e \notin disturbed => Stage(c, e, u)
    BY <1>1, <1>2 DEF AccountInv, Undisturbed, RegisteringFor
  <1> DEFINE Rest ==
           /\ \A x \in Emails : x # e => emailRow'[x] = emailRow[x] /\ stripe'[x] = stripe[x]
           /\ \A w \in Users : w # u => emailOf'[w] = emailOf[w] /\ account'[w] = account[w]
           /\ emailOf'[u] = e
           /\ emailRow'[e] \in {emailRow[e], u}
           /\ signedIn \subseteq signedIn' /\ signedIn' \subseteq signedIn \cup {u}
  <1>7. Rest
    <2>1. CASE PutUser(c) \/ PutEmail(c)
      BY <1>0, <1>2, <1>5, <2>1 DEF PutUser, PutEmail
    <2>2. CASE PutKey(c) \/ PutBilling(c) \/ PutPermissions(c)
      BY <1>0, <1>2, <1>5, <2>2 DEF PutKey, PutBilling, PutPermissions, SignIn, Record
    <2>3. CASE FindCustomer(c) \/ Enrol(c) \/ Subscribe(c)
      BY <1>0, <1>2, <1>5, <2>3 DEF FindCustomer, Enrol, Subscribe, identity
    <2> QED BY <2>1, <2>2, <2>3 DEF Writes
  <1>8. CASE ~PutPermissions(c)
    <2>1. PICK at \in Registering \ {"user"} : Goto(c, at)
      BY <1>8 DEF Writes, PutUser, PutEmail, PutKey, FindCustomer, Enrol, Subscribe, PutBilling, Registering
    <2>2. click'[c].at = at /\ click'[c].link = click[c].link /\ click'[c].user = u
      BY <1>0, <2>1 DEF Goto, Callback
    <2>3. signedIn' = signedIn
      BY <1>8 DEF Writes, PutUser, PutEmail, PutKey, FindCustomer, Enrol, Subscribe, PutBilling, identity
    <2>4. ASSUME e \notin disturbed PROVE Stage(c, e, u)'
      <3>1. /\ \A w \in Users : emailOf[w] = e => w = u
            /\ emailRow[e] = IF click[c].at \in {"user", "email"} THEN None ELSE u
            /\ account[u] = IF click[c].at \in {"user", "email", "key"} THEN {}
                            ELSE IF click[c].at = "permissions" THEN {"key", "billing"} ELSE {"key"}
            /\ stripe[e] = IF click[c].at \in {"billing", "permissions"}
                           THEN [customers |-> 1, subscriptions |-> 1]
                           ELSE IF click[c].at = "subscribe" THEN [customers |-> 1, subscriptions |-> 0]
                           ELSE Nobody
        BY <1>6, <2>4 DEF Stage
      <3>2. \A w \in Users : emailOf'[w] = e => w = u
        BY <1>7, <3>1
      <3>3. CASE PutUser(c) \/ PutEmail(c)
        <4>1. click'[c].at = IF click[c].at = "user" THEN "email" ELSE "key"
          BY <1>0, <3>3 DEF PutUser, PutEmail, Goto, Callback
        <4>2. emailRow'[e] = IF click[c].at = "user" THEN emailRow[e] ELSE u
          BY <1>0, <1>2, <3>3 DEF PutUser, PutEmail
        <4>3. UNCHANGED <<account, stripe>>
          BY <3>3 DEF PutUser, PutEmail
        <4>4. click[c].at \in {"user", "email"}
          BY <3>3 DEF PutUser, PutEmail
        <4> QED BY <3>1, <3>2, <4>1, <4>2, <4>3, <4>4 DEF Stage
      <3>4. CASE PutKey(c) \/ PutBilling(c)
        <4>1. /\ click'[c].at = IF click[c].at = "key" THEN "find" ELSE "permissions"
              /\ click[c].at \in {"key", "billing"}
          BY <1>0, <3>4 DEF PutKey, PutBilling, Goto, Callback
        <4>2. account'[u] = account[u] \cup {click[c].at}
          BY <1>0, <1>2, <3>4 DEF PutKey, PutBilling, Record
        <4>3. UNCHANGED <<emailRow, stripe>>
          BY <3>4 DEF PutKey, PutBilling
        <4> QED BY <3>1, <3>2, <4>1, <4>2, <4>3 DEF Stage
      <3>5. CASE FindCustomer(c)
        <4>1. click'[c].at = "enrol"
          BY <1>0, <3>1, <3>5 DEF FindCustomer, Goto, Callback, Nobody
        <4>2. click[c].at = "find" /\ UNCHANGED <<emailRow, account, stripe>>
          BY <3>5 DEF FindCustomer, identity
        <4> QED BY <3>1, <3>2, <4>1, <4>2 DEF Stage
      <3>6. CASE Enrol(c) \/ Subscribe(c)
        <4>1. /\ click'[c].at = IF click[c].at = "enrol" THEN "subscribe" ELSE "billing"
              /\ click[c].at \in {"enrol", "subscribe"}
          BY <1>0, <3>6 DEF Enrol, Subscribe, Goto, Callback
        <4>2. stripe'[e] = IF click[c].at = "enrol"
                           THEN [customers |-> stripe[e].customers + 1, subscriptions |-> stripe[e].subscriptions]
                           ELSE [customers |-> stripe[e].customers, subscriptions |-> stripe[e].subscriptions + 1]
          BY <1>0, <1>2, <3>6 DEF Enrol, Subscribe
        <4>3. UNCHANGED <<emailRow, account>>
          BY <3>6 DEF Enrol, Subscribe
        <4> QED BY <3>1, <3>2, <4>1, <4>2, <4>3 DEF Stage, Nobody
      <3> QED BY <1>8, <3>3, <3>4, <3>5, <3>6 DEF Writes
    <2> QED BY <1>1, <1>2, <1>3, <1>4, <1>5, <1>7, <2>2, <2>3, <2>4
  <1>9. CASE PutPermissions(c)
    <2>1. click'[c].at = "idle"
      BY <1>0, <1>9 DEF PutPermissions, SignIn, Finish, NoClick
    <2>2. ASSUME e \notin disturbed PROVE Whole(e)'
      <3>1. /\ \A w \in Users : emailOf[w] = e => w = u
            /\ emailRow[e] = u /\ account[u] = {"key", "billing"}
            /\ stripe[e] = [customers |-> 1, subscriptions |-> 1]
        BY <1>6, <1>9, <2>2 DEF PutPermissions, Stage
      <3>2. emailRow'[e] = u /\ stripe'[e] = stripe[e] /\ account'[u] = account[u] \cup {"permissions"}
        BY <1>0, <1>2, <1>9, <3>1 DEF PutPermissions, Record
      <3>3. account'[u] = Records
        BY <3>1, <3>2 DEF Records
      <3>4. \A w \in Users : emailOf'[w] = e <=> w = u
        BY <1>7, <3>1
      <3> QED BY <1>2, <3>1, <3>2, <3>3, <3>4 DEF Whole
    <2> QED BY <1>1, <1>2, <1>3, <1>4, <1>5, <1>7, <2>1, <2>2 DEF Entering, Registering
  <1> QED BY <1>8, <1>9

\* So a registration takes its own address to the next stage, and no other.
LEMMA AccountWrites ==
    ASSUME TypeOK, TypeOK', AccountInv, NEW c \in Clicks, Writes(c)
    PROVE  AccountInv'
  <1>0. PICK e, u : e = Email(c) /\ u = click[c].user
    OBVIOUS
  <1>1. /\ e \in Emails /\ u \in Users /\ click[c].at \in Registering
        /\ link' = link /\ disturbed' = disturbed
        /\ \A d \in Clicks : d # c => click'[d] = click[d]
        /\ \A x \in Emails : x # e => emailRow'[x] = emailRow[x] /\ stripe'[x] = stripe[x]
        /\ \A w \in Users : w # u => emailOf'[w] = emailOf[w] /\ account'[w] = account[w]
        /\ emailOf[u] \in {None, e} /\ emailOf'[u] = e
        /\ emailRow'[e] \in {emailRow[e], u}
        /\ signedIn \subseteq signedIn' /\ signedIn' \subseteq signedIn \cup {u}
    BY <1>0, WritesFrame
  <1>2. \/ /\ click'[c].at \in Registering \ {"user"}
           /\ click'[c].link = click[c].link /\ click'[c].user = u
           /\ signedIn' = signedIn
           /\ e \notin disturbed => Stage(c, e, u)'
        \/ /\ click'[c].at \notin Entering
           /\ e \notin disturbed => Whole(e)'
    BY <1>0, WritesFrame
  <1>3. /\ emailRow \in [Emails -> Users \cup {None}] /\ emailOf \in [Users -> Emails \cup {None}]
        /\ signedIn \subseteq Users /\ None \notin Users /\ None \notin Emails
    BY NoneAssumption DEF TypeOK, IdentityOK
  <1>4. /\ \A d \in Clicks : d # c => Email(d)' = Email(d)
        /\ click'[c].at \in Entering => Email(c)' = e
    BY <1>0, <1>1, <1>2 DEF Email
  <1>5. /\ \A d \in Clicks : d # c => \A x : RegisteringFor(d, x)' <=> RegisteringFor(d, x)
        /\ RegisteringFor(c, e)
        /\ \A x : RegisteringFor(c, x)' => x = e
        /\ \A x : x # e => ~RegisteringFor(c, x)
    BY <1>0, <1>1, <1>2, <1>4 DEF RegisteringFor, Entering
  <1>6. \A d \in Clicks : d # c /\ click[d].at \in Registering => click[d].user # u
    BY <1>0, <1>1 DEF AccountInv, Knowing
  <1>7. Owned'
    <2>1. ASSUME NEW x \in Emails, emailRow'[x] # None PROVE emailOf'[emailRow'[x]] = x
      BY <1>1, <1>3, <2>1 DEF AccountInv, Owned
    <2>2. ASSUME NEW w \in Users, emailOf'[w] = None PROVE account'[w] = {} /\ w \notin signedIn'
      BY <1>1, <1>3, <2>2 DEF AccountInv, Owned
    <2> QED BY <2>1, <2>2 DEF Owned
  <1>8. Knowing'
    <2>1. ASSUME NEW d \in Clicks
          PROVE  /\ click'[d].at = "user" => emailOf'[click'[d].user] = None
                 /\ click'[d].at \in Entering \ {"user"} => emailOf'[click'[d].user] = Email(d)'
      <3>1. CASE d = c
        BY <1>1, <1>2, <1>4, <3>1 DEF Entering, Registering
      <3>2. CASE d # c
        <4>1. /\ click[d].at \in Entering => click[d].user \in Users
              /\ click[d].at = "user" => click[d].user # u
              /\ click[d].at \in Entering => Email(d) # None
          BY <1>3, <1>6, <3>2, EmailKnown DEF TypeOK, ClickOK, Registering, Entering
        <4> QED BY <1>1, <1>4, <3>2, <4>1 DEF AccountInv, Knowing, Entering, Registering
      <3> QED BY <3>1, <3>2
    <2>2. ASSUME NEW b \in Clicks, NEW d \in Clicks, click'[b].at \in Registering, click'[d].at \in Registering,
                 click'[b].user = click'[d].user
          PROVE  b = d
      BY <1>1, <1>2, <1>6, <2>2 DEF AccountInv, Knowing, Entering
    <2> QED BY <2>1, <2>2 DEF Knowing
  <1>9. Undisturbed'
    <2> SUFFICES ASSUME NEW x \in Emails, x \notin disturbed'
                 PROVE  /\ \A b, d \in Clicks : RegisteringFor(b, x)' /\ RegisteringFor(d, x)' => b = d
                        /\ \A d \in Clicks : RegisteringFor(d, x)' => Stage(d, x, click[d].user)'
                        /\ ~BeingRegistered(x)' => Untouched(x)' \/ Whole(x)'
                        /\ BeingRegistered(x)' =>
                              /\ \A w \in signedIn' : emailOf'[w] # x
                              /\ \A d \in Clicks : click'[d].at = "verify" => Email(d)' # x
      BY DEF Undisturbed
    <2>0. x \notin disturbed
      BY <1>1
    <2>1. CASE x = e
      <3>1. \A d \in Clicks : d # c => ~RegisteringFor(d, e)'
        BY <1>1, <1>5, <2>0, <2>1 DEF AccountInv, Undisturbed
      <3>2. BeingRegistered(e)
        BY <1>5 DEF BeingRegistered, RegisteringFor
      <3>3. CASE click'[c].at \in Registering \ {"user"}
        <4>1. /\ click'[c].user = u /\ Email(c)' = e
              /\ signedIn' = signedIn /\ Stage(c, e, u)' /\ BeingRegistered(e)'
          BY <1>2, <1>4, <2>0, <2>1, <3>3 DEF Entering, BeingRegistered
        <4>2. \A w \in Users : w \in signedIn => w # u
          BY <1>1, <1>3, <2>0, <2>1, <3>2 DEF AccountInv, Undisturbed, Owned
        <4>3. \A w \in signedIn' : emailOf'[w] # e
          BY <1>1, <1>3, <2>0, <2>1, <3>2, <4>1, <4>2 DEF AccountInv, Undisturbed
        <4>4. \A d \in Clicks : click'[d].at = "verify" => Email(d)' # e
          BY <1>1, <1>4, <2>0, <2>1, <3>2, <3>3 DEF AccountInv, Undisturbed, Registering
        <4>5. Stage(c, e, click[c].user)'
          BY <4>1 DEF Stage
        <4> QED BY <2>1, <3>1, <4>1, <4>3, <4>4, <4>5
      <3>4. CASE click'[c].at \notin Entering
        <4>1. Whole(e)' /\ ~RegisteringFor(c, e)'
          BY <1>2, <2>0, <2>1, <3>4 DEF Entering, RegisteringFor
        <4>2. ~BeingRegistered(e)'
          BY <3>1, <4>1 DEF BeingRegistered, RegisteringFor
        <4> QED BY <2>1, <3>1, <4>1, <4>2
      <3> QED BY <1>2, <3>3, <3>4
    <2>2. CASE x # e
      <3>1. \A d \in Clicks : RegisteringFor(d, x)' <=> RegisteringFor(d, x)
        BY <1>5, <2>2
      <3>2. BeingRegistered(x)' <=> BeingRegistered(x)
        BY <3>1 DEF BeingRegistered, RegisteringFor
      <3>3. /\ emailRow'[x] = emailRow[x] /\ stripe'[x] = stripe[x]
            /\ \A w \in Users : emailOf'[w] = x <=> emailOf[w] = x
        BY <1>1, <1>3, <2>2
      <3>4. \A b, d \in Clicks : RegisteringFor(b, x)' /\ RegisteringFor(d, x)' => b = d
        BY <2>0, <3>1 DEF AccountInv, Undisturbed
      <3>5. ASSUME NEW d \in Clicks, RegisteringFor(d, x)' PROVE Stage(d, x, click[d].user)'
        <4>1. d # c /\ click'[d] = click[d] /\ Stage(d, x, click[d].user) /\ click[d].at \in Registering
          BY <1>1, <1>5, <2>0, <2>2, <3>1, <3>5 DEF AccountInv, Undisturbed, RegisteringFor
        <4>2. click[d].user \in Users /\ click[d].user # u
          BY <1>6, <4>1 DEF TypeOK, ClickOK, Entering
        <4> QED BY <1>1, <3>3, <4>1, <4>2 DEF Stage
      <3>6. ~BeingRegistered(x)' => Untouched(x)' \/ Whole(x)'
        <4>1. Untouched(x) => Untouched(x)'
          BY <3>3 DEF Untouched
        <4>2. ASSUME Whole(x) PROVE Whole(x)'
          <5>1. emailRow[x] # u
            BY <1>1, <1>3, <2>2, <4>2 DEF Whole
          <5> QED BY <1>1, <3>3, <4>2, <5>1 DEF Whole
        <4> QED BY <2>0, <3>2, <4>1, <4>2 DEF AccountInv, Undisturbed
      <3>7. ASSUME BeingRegistered(x)'
            PROVE  /\ \A w \in signedIn' : emailOf'[w] # x
                   /\ \A d \in Clicks : click'[d].at = "verify" => Email(d)' # x
        BY <1>1, <1>2, <1>3, <1>4, <2>0, <2>2, <3>2, <3>3, <3>7 DEF AccountInv, Undisturbed, Entering, Registering
      <3> QED BY <3>4, <3>5, <3>6, <3>7
    <2> QED BY <2>1, <2>2
  <1> QED BY <1>7, <1>8, <1>9 DEF AccountInv

\* A known user is let in.
LEMMA AccountVerify ==
    ASSUME TypeOK, TypeOK', AccountInv, NEW c \in Clicks, Verify(c)
    PROVE  AccountInv'
  <1>1. /\ UNCHANGED <<link, emailRow, emailOf, account, stripe, disturbed>>
        /\ signedIn' = signedIn \cup {click[c].user}
        /\ click[c].at = "verify"
        /\ click'[c].at \notin Entering
        /\ \A d \in Clicks : d # c => click'[d] = click[d]
    BY DEF Verify, SignIn, Finish, OnlyClick, mail, NoClick, Entering, Registering, TypeOK, ClickOK
  <1>2. /\ click[c].user \in Users /\ emailOf[click[c].user] = Email(c) /\ Email(c) \in Emails
    BY <1>1, EmailKnown DEF TypeOK, ClickOK, AccountInv, Knowing, Entering
  <1>3. \A d \in Clicks : click'[d].at \in Entering => click'[d] = click[d] /\ Email(d)' = Email(d)
    BY <1>1 DEF Email
  <1>4. \A d \in Clicks : \A x : RegisteringFor(d, x)' <=> RegisteringFor(d, x)
    BY <1>1, <1>3 DEF RegisteringFor, Entering, Registering
  <1>5. \A x : BeingRegistered(x)' <=> BeingRegistered(x)
    BY <1>4 DEF BeingRegistered, RegisteringFor
  <1>6. Owned'
    BY <1>1, <1>2, NoneAssumption DEF AccountInv, Owned
  <1>7. Knowing'
    <2>1. ASSUME NEW d \in Clicks
          PROVE  /\ click'[d].at = "user" => emailOf'[click'[d].user] = None
                 /\ click'[d].at \in Entering \ {"user"} => emailOf'[click'[d].user] = Email(d)'
      BY <1>1, <1>3 DEF AccountInv, Knowing, Entering, Registering
    <2>2. ASSUME NEW b \in Clicks, NEW d \in Clicks, click'[b].at \in Registering, click'[d].at \in Registering,
                 click'[b].user = click'[d].user
          PROVE  b = d
      BY <1>3, <2>2 DEF AccountInv, Knowing, Entering
    <2> QED BY <2>1, <2>2 DEF Knowing
  <1>8. Undisturbed'
    <2> SUFFICES ASSUME NEW x \in Emails, x \notin disturbed'
                 PROVE  /\ \A b, d \in Clicks : RegisteringFor(b, x)' /\ RegisteringFor(d, x)' => b = d
                        /\ \A d \in Clicks : RegisteringFor(d, x)' => Stage(d, x, click[d].user)'
                        /\ ~BeingRegistered(x)' => Untouched(x)' \/ Whole(x)'
                        /\ BeingRegistered(x)' =>
                              /\ \A w \in signedIn' : emailOf'[w] # x
                              /\ \A d \in Clicks : click'[d].at = "verify" => Email(d)' # x
      BY DEF Undisturbed
    <2>0. x \notin disturbed
      BY <1>1
    <2>1. \A b, d \in Clicks : RegisteringFor(b, x)' /\ RegisteringFor(d, x)' => b = d
      BY <1>4, <2>0 DEF AccountInv, Undisturbed
    <2>2. ASSUME NEW d \in Clicks, RegisteringFor(d, x)' PROVE Stage(d, x, click[d].user)'
      <3>1. click'[d] = click[d] /\ Stage(d, x, click[d].user)
        BY <1>3, <1>4, <2>0, <2>2 DEF AccountInv, Undisturbed, RegisteringFor, Entering
      <3> QED BY <1>1, <3>1 DEF Stage
    <2>3. ~BeingRegistered(x)' => Untouched(x)' \/ Whole(x)'
      BY <1>1, <1>5, <2>0 DEF AccountInv, Undisturbed, Untouched, Whole
    <2>4. ASSUME BeingRegistered(x)'
          PROVE  /\ \A w \in signedIn' : emailOf'[w] # x
                 /\ \A d \in Clicks : click'[d].at = "verify" => Email(d)' # x
      BY <1>1, <1>2, <1>3, <1>5, <2>0, <2>4 DEF AccountInv, Undisturbed, Entering
    <2> QED BY <2>1, <2>2, <2>3, <2>4
  <1> QED BY <1>6, <1>7, <1>8 DEF AccountInv

\* All steps together.
LEMMA AccountStep == TypeOK /\ TypeOK' /\ AccountInv /\ [Next]_vars => AccountInv'
  <1> SUFFICES ASSUME TypeOK, TypeOK', AccountInv, [Next]_vars PROVE AccountInv'
    OBVIOUS
  <1>1. CASE UNCHANGED vars
    BY <1>1, AccountFrame DEF vars, mail
  <1>2. CASE \/ \E e \in Emails, l \in Links : Submit(e, l)
             \/ \E l \in Links : SendMail(l) \/ StoreLink(l)
             \/ Answer \/ Reload \/ Tick
    BY <1>2, MailFrame, AccountFrame
  <1>3. CASE (\E v \in Visits : SetupStep(v)) \/ (\E u \in Users : DeleteKey(u))
    BY <1>3, TypeSetup, AccountFrame DEF mail
  <1>4. CASE Restart
    <2>1. \A l \in Links : link'[l].email = link[l].email
      <3>1. \A l \in Links : link[l] \in Request
        BY DEF TypeOK, MailOK
      <3>2. link' = [l \in Links |-> [link[l] EXCEPT !.mail = IF @ = "todo" THEN "refused" ELSE @,
                                                   !.row = IF @ = "todo" THEN "lost" ELSE @]]
        BY <1>4 DEF Restart
      <3> QED BY <3>1, <3>2 DEF Request
    <2>2. \A c \in Clicks : click'[c].at \notin Entering /\ (click[c].at \in Registering => Email(c) \in disturbed')
      BY <1>4 DEF Restart, NoClick, CutShort, Entering, Registering
    <2> QED BY <1>4, <2>1, <2>2, AccountFrame DEF Restart
  <1>5. ASSUME NEW c \in Clicks, CallbackStep(c) PROVE AccountInv'
    <2>1. CASE Lookup(c)
      BY <2>1, AccountLookup
    <2>2. CASE Writes(c)
      BY <2>2, AccountWrites
    <2>3. CASE Verify(c)
      BY <2>3, AccountVerify
    <2>4. CASE \/ \E l \in Links : Click(c, l)
               \/ GetLink(c) \/ DeleteLink(c) \/ DeleteLinkUnanswered(c) \/ FailClick(c)
      <3>1. UNCHANGED identity /\ disturbed \subseteq disturbed' /\ link' = link
        BY <2>4 DEF Click, GetLink, DeleteLink, DeleteLinkUnanswered, FailClick, OnlyClick, mail
      <3>2. /\ \A d \in Clicks : d # c => click'[d] = click[d]
            /\ click'[c].at \notin Entering
        BY <2>4 DEF Click, GetLink, DeleteLink, DeleteLinkUnanswered, FailClick, Goto, Finish, NoClick,
           TypeOK, ClickOK, Callback, Entering, Registering
      <3>3. click[c].at \in Registering => Email(c) \in disturbed'
        BY <2>4 DEF Click, GetLink, DeleteLink, DeleteLinkUnanswered, FailClick, CutShort, Registering
      <3> QED BY <3>1, <3>2, <3>3, AccountFrame
    <2> QED BY <1>5, <2>1, <2>2, <2>3, <2>4 DEF CallbackStep, Writes
  <1> QED BY <1>1, <1>2, <1>3, <1>4, <1>5 DEF Next

\* Whoever is signed in has a whole account, the only one of his address,
\* unless its registration was cut short or overlapped.
THEOREM AccountsAreWhole == Spec => []AccountWhole
  <1>1. Init => AccountInv
    BY NoneAssumption DEF Init, NoClick, AccountInv, Owned, Knowing, Undisturbed, RegisteringFor, BeingRegistered,
       Untouched, Entering, Registering
  <1>2. TypeOK /\ AccountInv => AccountWhole
    <2> SUFFICES ASSUME TypeOK, AccountInv, NEW u \in signedIn, emailOf[u] \notin disturbed
                 PROVE  LET e == emailOf[u] IN
                        /\ emailRow[e] = u
                        /\ \A w \in Users \ {u} : emailOf[w] # e
                        /\ account[u] = Records
                        /\ stripe[e] = [customers |-> 1, subscriptions |-> 1]
      BY DEF AccountWhole
    <2>1. u \in Users /\ emailOf[u] \in Emails
      BY DEF TypeOK, IdentityOK, AccountInv, Owned
    <2>2. ~BeingRegistered(emailOf[u])
      BY <2>1 DEF AccountInv, Undisturbed
    <2>3. Whole(emailOf[u])
      BY <2>1, <2>2 DEF AccountInv, Undisturbed, Untouched
    <2> QED BY <2>1, <2>3 DEF Whole
  <1> QED BY <1>1, <1>2, TypeInit, TypeStep, AccountStep, PTL DEF Spec

=============================================================================
