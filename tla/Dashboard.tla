------------------------------ MODULE Dashboard ------------------------------
(***************************************************************************)
(* The portal as one tab of a browser shows it: the page of the API keys,  *)
(* of the jobs, or the trace viewer.  Each page has its own state, which   *)
(* goes when the tab shows another; so a behaviour is that of one page.    *)
(* What comes of a limit that the page of the keys sets is a behaviour of  *)
(* its own, with the tabs of a user and the requests of a key in flight.   *)
(***************************************************************************)
EXTENDS KeysPage, JobsPage, TraceView, KeyLimits

VARIABLE page       \* the page the tab shows, or "limit"

vars == <<keysVars, jobsVars, traceVars, limitVars, page>>

\* A page the tab does not show stays as it would begin for a new user.
KeysUntouched  == KeysInit /\ Kept(rows) = {}
JobsUntouched  == JobsInit /\ index = <<>>

Init ==
    /\ \/ page = "keys" /\ KeysInit /\ JobsUntouched
       \/ page = "jobs" /\ KeysUntouched /\ JobsInit
       \/ page \in {"trace", "limit"} /\ KeysUntouched /\ JobsUntouched
    /\ TraceInit /\ LimitsInit

Next ==
    /\ UNCHANGED page
    /\ \/ page = "keys" /\ KeysNext /\ UNCHANGED <<jobsVars, traceVars, limitVars>>
       \/ page = "jobs" /\ JobsNext /\ UNCHANGED <<keysVars, traceVars, limitVars>>
       \/ page = "trace" /\ TraceNext /\ UNCHANGED <<keysVars, jobsVars, limitVars>>
       \/ page = "limit" /\ LimitsNext /\ UNCHANGED <<keysVars, jobsVars, traceVars>>

\* Only the jobs page has something that happens of itself.
Spec == Init /\ [][Next]_vars /\ JobsFairness
==============================================================================
