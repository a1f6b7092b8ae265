-------------------------- MODULE MCStakerCashback ---------------------------
(* Model-checking instance of StakerCashback: every order costs one NIM.     *)
EXTENDS StakerCashback

CONSTANT o1
MCPrice == [o \in Orders |-> 1]

Plain == [code |-> FALSE, test |-> FALSE, payable |-> TRUE]
PlainKind == {Plain}
TestKind == {[Plain EXCEPT !.test = TRUE]}
RealKinds == {Plain, [Plain EXCEPT !.code = TRUE], [Plain EXCEPT !.payable = FALSE]}
=============================================================================
