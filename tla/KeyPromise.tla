----------------------------- MODULE KeyPromise -----------------------------
(***************************************************************************)
(* What the key store promises about the secret of an API key, however it  *)
(* is kept: a secret is issued at most once, it may be withdrawn (by a     *)
(* rotation or by the deletion of its key), and a request that comes with  *)
(* it is let in only while it is honoured or within Grace ticks after it   *)
(* was withdrawn, the time the gateway may still remember it.              *)
(***************************************************************************)
EXTENDS Integers

CONSTANTS
    Secrets,    \* the secrets there will ever be
    Callers,    \* gateway requests that present a secret
    Grace,      \* ticks a withdrawn secret may still be let in, a natural number
    NoSecret

VARIABLES
    standing,   \* unissued, honoured or withdrawn
    since,      \* ticks since it was withdrawn
    letIn       \* the secret a caller was last let in with

vars == <<standing, since, letIn>>

Init ==
    /\ standing = [s \in Secrets |-> "unissued"]
    /\ since = [s \in Secrets |-> 0]
    /\ letIn = [c \in Callers |-> NoSecret]

Issue(s) ==
    /\ standing[s] = "unissued"
    /\ standing' = [standing EXCEPT ![s] = "honoured"]
    /\ UNCHANGED <<since, letIn>>

Withdraw(s) ==
    /\ standing[s] = "honoured"
    /\ standing' = [standing EXCEPT ![s] = "withdrawn"]
    /\ UNCHANGED <<since, letIn>>

LetIn(c, s) ==
    /\ \/ standing[s] = "honoured"
       \/ standing[s] = "withdrawn" /\ since[s] < Grace
    /\ letIn' = [letIn EXCEPT ![c] = s]
    /\ UNCHANGED <<standing, since>>

\* The caller is gone, or turned away.
Leave(c) ==
    /\ letIn' = [letIn EXCEPT ![c] = NoSecret]
    /\ UNCHANGED <<standing, since>>

\* Time passes; what happened longer than Grace ago is not told apart.
Pass ==
    /\ since' = [s \in Secrets |->
                    IF standing[s] = "withdrawn" /\ since[s] < Grace
                    THEN since[s] + 1 ELSE since[s]]
    /\ UNCHANGED <<standing, letIn>>

Next ==
    \/ \E s \in Secrets : Issue(s) \/ Withdraw(s)
    \/ \E c \in Callers, s \in Secrets : LetIn(c, s)
    \/ \E c \in Callers : Leave(c)
    \/ Pass

Spec == Init /\ [][Next]_vars

=============================================================================
