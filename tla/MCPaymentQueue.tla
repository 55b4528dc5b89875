--------------------------- MODULE MCPaymentQueue ---------------------------
(***************************************************************************)
(* Small instances of PaymentQueue.                                        *)
(***************************************************************************)
EXTENDS PaymentQueue

CONSTANT w1

\* The second message is not a notification at all.
OneGarbled == [i \in Id |-> IF i = 2 THEN "garbled" ELSE "good"]

AllGood == [i \in Id |-> "good"]
=============================================================================
