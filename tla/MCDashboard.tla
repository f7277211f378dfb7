----------------------------- MODULE MCDashboard -----------------------------
(* An instance of Dashboard for TLC. *)
EXTENDS Dashboard

\* Thousands of megabytes to a gigabyte become two, so that 3 MB stands for 1500.
TypedTexts == {[value |-> None, unit |-> "GB"], [value |-> 0, unit |-> "MB"],
               [value |-> 3, unit |-> "MB"]}

\* Ids and names are interchangeable, so that it does not matter which key a user
\* begins with and what it is called, or, without one, which name comes first.
FirstKey(k) == k = CHOOSE id \in KeyIds : TRUE
FirstName   == CHOOSE name \in KeyNames : TRUE

MCInit ==
    /\ Init
    /\ \A k \in Kept(rows) : FirstKey(k) /\ rows[k].name = FirstName
    /\ Kept(rows) = {} => form.name = FirstName
MCSpec == MCInit /\ [][Next]_vars /\ JobsFairness
==============================================================================
