------------------------------- MODULE Billing -------------------------------
(***************************************************************************)
(* What the portal keeps and shows of an account, what it paid and what it *)
(* got: the flags and settings, the usage on the billing page, the         *)
(* invoices, the files of a result, and the administrators' overview.  The *)
(* pages share no state but what the gateway and Stripe keep, of which     *)
(* each module has the part its page reads or sets; so a behaviour is that *)
(* of one page.                                                            *)
(***************************************************************************)
EXTENDS AccountFlags, BillingPage, Invoices, ResultFiles, AdminOverview

VARIABLE subject    \* the page

billingVars ==
    <<flagsVars, usageVars, invoiceVars, resultVars, overviewVars, subject>>

Init ==
    /\ subject \in {"flags", "usage", "invoices", "results", "overview"}
    /\ FlagsInit /\ UsageInit /\ InvoicesInit /\ ResultInit /\ OverviewInit
    /\ subject # "flags" => linked
    /\ subject # "results" => document.kind = "image"

Next ==
    /\ UNCHANGED subject
    /\ \/ /\ subject = "flags" /\ FlagsNext
          /\ UNCHANGED <<usageVars, invoiceVars, resultVars, overviewVars>>
       \/ /\ subject = "usage" /\ UsageNext
          /\ UNCHANGED <<flagsVars, invoiceVars, resultVars, overviewVars>>
       \/ /\ subject = "invoices" /\ InvoicesNext
          /\ UNCHANGED <<flagsVars, usageVars, resultVars, overviewVars>>
       \/ /\ subject = "results" /\ ResultNext
          /\ UNCHANGED <<flagsVars, usageVars, invoiceVars, overviewVars>>
       \/ /\ subject = "overview" /\ OverviewNext
          /\ UNCHANGED <<flagsVars, usageVars, invoiceVars, resultVars>>

Spec == Init /\ [][Next]_billingVars
==============================================================================
