------------------------------- MODULE Ledger -------------------------------
(***************************************************************************)
(* What the service promises of its ledger: one row per transaction        *)
(* reference, written once and never changed, and a balance that moves in  *)
(* the same step as the row that explains it.  Sessions, locks, snapshots  *)
(* and rollbacks do not appear here; ApplyStatement has them and is shown  *)
(* to implement this specification.  Nor do callers, caches and queues:    *)
(* PaymentService has those, and implements it too.                        *)
(***************************************************************************)
EXTENDS Naturals

CONSTANTS Ref,      \* transaction references, the idempotency key
          Dep,      \* deployments
          Amount,   \* amounts a provider can credit
          NoRow,    \* a reference the ledger has no row for
          NoDep     \* the NULL deployment_id of an unmatched credit

VARIABLES entries,  \* entries[r]: the ledger's row for r, or NoRow
          balance   \* balance[d]: deployments.amount_paid

vars == <<entries, balance>>

Entry(outcome, d, a, before, after) ==
    [outcome |-> outcome, dep |-> d, amount |-> a,
     before |-> before, after |-> after]

Init == /\ entries = [r \in Ref |-> NoRow]
        /\ balance = [d \in Dep |-> 0]

\* Settled money reaches a deployment: the row and the balance move together.
Credit(r, d, a) ==
    /\ entries[r] = NoRow
    /\ entries' = [entries EXCEPT ![r] =
                     Entry("applied", d, a, balance[d], balance[d] + a)]
    /\ balance' = [balance EXCEPT ![d] = @ + a]

\* A notification that must not move money is filed, and moves none.
File(r, outcome, d, a) ==
    /\ entries[r] = NoRow
    /\ entries' = [entries EXCEPT ![r] = Entry(outcome, d, a, 0, 0)]
    /\ UNCHANGED balance

Next == \E r \in Ref, a \in Amount :
            \/ \E d \in Dep : Credit(r, d, a)
            \/ \E d \in Dep : File(r, "ignored", d, a)
            \/ File(r, "unmatched", NoDep, a)

Spec == Init /\ [][Next]_vars
=============================================================================
