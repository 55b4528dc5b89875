-------------------------- MODULE MCPaymentService --------------------------
(***************************************************************************)
(* Small instances of PaymentService: the notifications are chosen so that *)
(* references collide in the ways the service has to tell apart.           *)
(***************************************************************************)
EXTENDS PaymentService, TLC

CONSTANTS r1, r2, k1, k2, d1, d2, NGN, USD

Paid(r, k, a, cur) ==
    [ref |-> r, customer |-> k, amount |-> a, currency |-> cur, settled |-> TRUE]

Pending(r, k, a, cur) == [Paid(r, k, a, cur) EXCEPT !.settled = FALSE]

\* A credit that completes its deployment; its reference used by another customer
\* for money that has not settled; and a second credit, in a currency the
\* deployment does not have.
Colliding == {Paid(r1, k1, 1, NGN), Pending(r1, k2, 1, NGN), Paid(r2, k1, 1, USD)}

\* Two credits of one customer, each enough to complete a deployment.
Completing == {Paid(r1, k1, 1, NGN), Paid(r2, k1, 1, NGN)}

\* One credit, in a currency its deployment does not have.
Foreign == {Paid(r1, k1, 1, USD)}

\* One notification, sent while it is pending and again when it is complete.
Settling == {Pending(r1, k1, 1, NGN), Paid(r1, k1, 1, NGN)}

AllNGN == [d \in Dep |-> NGN]

Symmetry == Permutations(Call)
=============================================================================
