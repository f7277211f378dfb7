--------------------------- MODULE MCBillingPeriod ---------------------------
(* An instance of BillingPeriod for TLC: an anchor day that every month has,  *)
(* and the four that some months lack, from before a common year to the end   *)
(* of a leap year.                                                            *)
EXTENDS BillingPeriod

EdgeAnchors == {1, 28, 29, 30, 31}

=============================================================================
