------------------------------ MODULE MCBilling ------------------------------
(* An instance of Billing for TLC. *)
EXTENDS Billing

CONSTANTS k1, k2

\* The second key has the name the first had.
NameOfKey == [k \in Meters |-> "reports"]
\* Two jobs of one key, one of another.
KeyOfCharge  == [c \in Charges |-> IF c = 3 THEN k2 ELSE k1]
SizeOfCharge == [c \in Charges |-> IF c = 1 THEN 2 ELSE 1]
\* A document of one page for each path of the conversion; a legacy document
\* takes that of a PDF after its own.
OnePagers == {[kind |-> "text", pages |-> 1, text |-> TRUE],
              [kind |-> "image", pages |-> 1, text |-> FALSE],
              [kind |-> "legacy", pages |-> 1, text |-> FALSE]}
==============================================================================
