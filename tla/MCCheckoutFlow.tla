--------------------------- MODULE MCCheckoutFlow ---------------------------
(* Model values for CheckoutFlow: every sheet lives in the same tab. *)
EXTENDS CheckoutFlow

CONSTANTS f1, p1, p2

OneTab == [f \in Flows |-> "tab"]
BatchOrder == {{p1, p2}}
AnyOrder == {{p1}, {p1, p2}}

=============================================================================
