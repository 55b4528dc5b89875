----------------------------- MODULE MCRepayment -----------------------------
(***************************************************************************)
(* Small instances of Repayment: terms that divide the principal and terms *)
(* that do not, a principal too small for its term, payments that are      *)
(* short, exact and more than what is owed.                                *)
(***************************************************************************)
EXTENDS Repayment

\* A registration for a start date that is still to come.
EarlyDay == -1
=============================================================================
