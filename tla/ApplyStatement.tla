--------------------------- MODULE ApplyStatement ---------------------------
(***************************************************************************)
(* PaymentRepository.Apply and .Record against Postgres (READ COMMITTED,   *)
(* one autocommitted statement each), seen from the database: concurrent   *)
(* sessions run the statements in the steps other sessions can observe.    *)
(*                                                                         *)
(*   begun     the statement took its snapshot and the NOT EXISTS probe    *)
(*             (an uncorrelated subquery, evaluated once) found no row     *)
(*   moved     the UPDATE holds the deployment's row lock                  *)
(*   inserted  the INSERT holds the reference's entry in the primary key   *)
(*   replay    the statement wrote nothing; GetByReference comes next      *)
(*                                                                         *)
(* Nothing of a statement is visible to the others before it commits.      *)
(***************************************************************************)
EXTENDS Integers, FiniteSets, FiniteSetsExt, Functions

CONSTANTS Ref, Dep, Amount, NoRow, NoDep,
          Session,    \* connections of the pool
          Date,       \* transaction dates, as positive integers
          Principal   \* Principal[d]: what deployment d costs

ASSUME AmountAssumption    == Amount \subseteq Nat \ {0}
ASSUME DateAssumption      == Date \subseteq Nat \ {0}
ASSUME PrincipalAssumption == Principal \in [Dep -> Nat \ {0}]
ASSUME NoDepAssumption     == NoDep \notin Dep

VARIABLES payments,     \* payments[r]: the committed row of reference r
          deployments,  \* deployments[d]: the committed row of deployment d
          sess          \* sess[s]: the statement session s is running

vars == <<payments, deployments, sess>>

(***************************************************************************)
(* Rows.  last and completed stand for last_payment_at (0 is NULL) and     *)
(* completed_at IS NOT NULL.                                               *)
(***************************************************************************)
DeploymentRow == [paid: Nat, count: Nat, last: {0} \cup Date,
                  status: {"active", "completed"}, completed: BOOLEAN]

Outcome == {"applied", "unmatched", "ignored"}

PaymentRow == [outcome: Outcome, dep: Dep \cup {NoDep}, amount: Amount,
               date: Date, applied: Nat, excess: Nat, before: Nat, after: Nat]

ASSUME NoRowAssumption == NoRow \notin PaymentRow \cup DeploymentRow

ApplyCall == [op: {"apply"}, ref: Ref, dep: Dep, amount: Amount, date: Date]

RecordCall ==
    [op: {"ignored"}, ref: Ref, dep: Dep, amount: Amount, date: Date]
      \cup [op: {"unmatched"}, ref: Ref, dep: {NoDep}, amount: Amount, date: Date]

Call == ApplyCall \cup RecordCall

Idle == [pc |-> "idle"]

Running(pc, c, ret) == [pc |-> pc, call |-> c, ret |-> ret]

Statement ==
    {Idle} \cup [pc: {"begun", "replay"}, call: Call, ret: {NoRow}]
           \cup [pc: {"inserted"}, call: RecordCall, ret: {NoRow}]
           \cup [pc: {"moved", "inserted"}, call: ApplyCall, ret: DeploymentRow]

TypeOK ==
    /\ payments \in [Ref -> PaymentRow \cup {NoRow}]
    /\ deployments \in [Dep -> DeploymentRow]
    /\ sess \in [Session -> Statement]

Init ==
    /\ payments = [r \in Ref |-> NoRow]
    /\ deployments = [d \in Dep |-> [paid |-> 0, count |-> 0, last |-> 0,
                                     status |-> "active", completed |-> FALSE]]
    /\ sess = [s \in Session |-> Idle]

-----------------------------------------------------------------------------
(***************************************************************************)
(* The statement's arithmetic.                                             *)
(***************************************************************************)
Greatest(a, b) == IF a >= b THEN a ELSE b
Least(a, b)    == IF a <= b THEN a ELSE b

\* Mutant of Advance: last_payment_at overwritten instead of GREATEST.
AdvanceOverwritesDate(row, d, c) ==
    [paid      |-> row.paid + c.amount,
     count     |-> row.count + 1,
     last      |-> c.date,
     status    |-> IF row.paid + c.amount >= Principal[d] THEN "completed"
                                                          ELSE row.status,
     completed |-> row.paid + c.amount >= Principal[d] \/ row.completed]

\* CTE "moved": the row the UPDATE returns when it finds row in the table.
Advance(row, d, c) ==
    LET paid == row.paid + c.amount
        full == paid >= Principal[d]
    IN  [paid      |-> paid,
         count     |-> row.count + 1,
         last      |-> Greatest(row.last, c.date),
         status    |-> IF full THEN "completed" ELSE row.status,
         completed |-> full \/ row.completed]

\* Mutant of AppliedPart: the room is taken from the balance after the move.
AppliedPartAfterMove(principal, before, amount) ==
    Least(amount, Greatest(principal - (before + amount), 0))

\* CTE "split": the part of the credit that fits under the principal.
AppliedPart(principal, before, amount) ==
    Least(amount, Greatest(principal - before, 0))

\* CTE "recorded": the ledger row of an applied credit.
AppliedRow(c, ret) ==
    LET before  == ret.paid - c.amount
        applied == AppliedPart(Principal[c.dep], before, c.amount)
    IN  [outcome |-> "applied", dep |-> c.dep, amount |-> c.amount,
         date |-> c.date, applied |-> applied, excess |-> c.amount - applied,
         before |-> before, after |-> ret.paid]

\* Mutant of FiledRow: "queued" stored, the outcome that is never stored.
FiledRowQueued(c) ==
    [outcome |-> "queued", dep |-> c.dep, amount |-> c.amount, date |-> c.date,
     applied |-> 0, excess |-> 0, before |-> 0, after |-> 0]

\* Record's row: the notification, and no money.
FiledRow(c) ==
    [outcome |-> c.op, dep |-> c.dep, amount |-> c.amount, date |-> c.date,
     applied |-> 0, excess |-> 0, before |-> 0, after |-> 0]

RowOf(c, ret) == IF c.op = "apply" THEN AppliedRow(c, ret) ELSE FiledRow(c)

-----------------------------------------------------------------------------
(***************************************************************************)
(* Locks, read off the sessions that hold them.                            *)
(***************************************************************************)
HoldsRow(s, d) == /\ sess[s].pc \in {"moved", "inserted"}
                  /\ sess[s].call.op = "apply"
                  /\ sess[s].call.dep = d

\* Mutant of HoldsKey: the reference is reserved together with the row, so two
\* statements on two deployments wait for each other.
HoldsKeyEarly(s, r) == sess[s].pc \in {"moved", "inserted"} /\ sess[s].call.ref = r

HoldsKey(s, r) == sess[s].pc = "inserted" /\ sess[s].call.ref = r

\* Mutant of RowFree: a read-compute-write that takes no row lock.
RowFreeUnlocked(s, d) == TRUE

\* The UPDATE of s waits while another session holds the deployment's row.
RowFree(s, d) == \A t \in Session \ {s} : ~HoldsRow(t, d)

\* Mutant of KeyFree: uniqueness judged against committed rows only.
KeyFreeCommittedOnly(s, r) == TRUE

\* An INSERT of s waits until an uncommitted insert of the same key is decided.
KeyFree(s, r) == \A t \in Session \ {s} : ~HoldsKey(t, r)

\* The statement of s has reached its INSERT.
AtInsert(s) == \/ sess[s].pc = "moved"
               \/ sess[s].pc = "begun" /\ sess[s].call.op # "apply"

Becomes(s, st) == sess' = [sess EXCEPT ![s] = st]

-----------------------------------------------------------------------------
(***************************************************************************)
(* The steps of a statement.                                               *)
(***************************************************************************)

\* Apply starts: the probe is answered by the statement's snapshot.  When it
\* matches, the UPDATE finds nothing and the statement ends with no rows.
BeginApply(s, c) ==
    /\ sess[s].pc = "idle"
    /\ Becomes(s, Running(IF payments[c.ref] = NoRow THEN "begun" ELSE "replay",
                          c, NoRow))
    /\ UNCHANGED <<payments, deployments>>

BeginRecord(s, c) ==
    /\ sess[s].pc = "idle"
    /\ Becomes(s, Running("begun", c, NoRow))
    /\ UNCHANGED <<payments, deployments>>

\* The UPDATE locks the deployment's row and works on its latest committed
\* version; the probe is not evaluated again after the wait.
Move(s) ==
    /\ sess[s].pc = "begun"
    /\ sess[s].call.op = "apply"
    /\ LET c == sess[s].call
       IN  /\ RowFree(s, c.dep)
           /\ Becomes(s, Running("moved", c, Advance(deployments[c.dep], c.dep, c)))
    /\ UNCHANGED <<payments, deployments>>

\* Mutant of Insert: ON CONFLICT DO UPDATE, a used reference is written again.
InsertOverwrites(s) ==
    /\ AtInsert(s)
    /\ KeyFree(s, sess[s].call.ref)
    /\ Becomes(s, [sess[s] EXCEPT !.pc = "inserted"])
    /\ UNCHANGED <<payments, deployments>>

Insert(s) ==
    /\ AtInsert(s)
    /\ KeyFree(s, sess[s].call.ref)
    /\ payments[sess[s].call.ref] = NoRow
    /\ Becomes(s, [sess[s] EXCEPT !.pc = "inserted"])
    /\ UNCHANGED <<payments, deployments>>

\* Mutant of Conflict: the statement gives up on an insert that is undecided.
ConflictWithoutWait(s) ==
    /\ AtInsert(s)
    /\ ~KeyFree(s, sess[s].call.ref) \/ payments[sess[s].call.ref] # NoRow
    /\ Becomes(s, Running("replay", sess[s].call, NoRow))
    /\ UNCHANGED <<payments, deployments>>

\* The key is taken: 23505 rolls Apply's statement back, ON CONFLICT DO
\* NOTHING leaves Record's without a row.  Either way a lookup follows.
Conflict(s) ==
    /\ AtInsert(s)
    /\ KeyFree(s, sess[s].call.ref)
    /\ payments[sess[s].call.ref] # NoRow
    /\ Becomes(s, Running("replay", sess[s].call, NoRow))
    /\ UNCHANGED <<payments, deployments>>

Commit(s) ==
    /\ sess[s].pc = "inserted"
    /\ LET c == sess[s].call
       IN  /\ payments' = [payments EXCEPT ![c.ref] = RowOf(c, sess[s].ret)]
           /\ deployments' = IF c.op = "apply"
                             THEN [deployments EXCEPT ![c.dep] = sess[s].ret]
                             ELSE deployments
    /\ Becomes(s, Idle)

\* replay and Record read the row the statement collided with.
Lookup(s) ==
    /\ sess[s].pc = "replay"
    /\ Becomes(s, Idle)
    /\ UNCHANGED <<payments, deployments>>

\* Mutant of Abort: the balance update is a statement of its own and survives.
AbortKeepsBalance(s) ==
    /\ sess[s].pc # "idle"
    /\ deployments' = IF sess[s].pc = "moved"
                      THEN [deployments EXCEPT ![sess[s].call.dep] = sess[s].ret]
                      ELSE deployments
    /\ Becomes(s, Idle)
    /\ UNCHANGED payments

\* The caller's deadline, a lost connection or a database restart ends the
\* statement before its commit: nothing of it remains.
Abort(s) ==
    /\ sess[s].pc # "idle"
    /\ Becomes(s, Idle)
    /\ UNCHANGED <<payments, deployments>>

Step(s) == \/ \E c \in ApplyCall : BeginApply(s, c)
           \/ \E c \in RecordCall : BeginRecord(s, c)
           \/ Move(s)
           \/ Insert(s)
           \/ Conflict(s)
           \/ Commit(s)
           \/ Lookup(s)
           \/ Abort(s)

Next == \E s \in Session : Step(s)

Spec == Init /\ [][Next]_vars

\* Postgres runs a statement that is not waiting, and grants its locks in the
\* order they were asked for: a waiter is not passed over for ever.
Fairness == \A s \in Session : /\ SF_vars(Move(s))
                               /\ SF_vars(Insert(s))
                               /\ SF_vars(Conflict(s))
                               /\ WF_vars(Commit(s))
                               /\ WF_vars(Lookup(s))

FairSpec == Spec /\ Fairness

-----------------------------------------------------------------------------
(***************************************************************************)
(* Properties.                                                             *)
(***************************************************************************)

\* The references whose credit landed on deployment d.
AppliedTo(d) == {r \in Ref : /\ payments[r] # NoRow
                             /\ payments[r].outcome = "applied"
                             /\ payments[r].dep = d}

\* "The ledger can always re-derive it": every materialised column of a
\* deployment is the aggregate of the rows applied to it, in whatever order
\* racing statements committed them.
PositionIsDerivable ==
    \A d \in Dep :
        LET rows == AppliedTo(d)
            row  == deployments[d]
        IN  /\ row.paid = SumFunctionOnSet([r \in rows |-> payments[r].amount], rows)
            /\ row.count = Cardinality(rows)
            /\ row.last = Max({0} \cup {payments[r].date : r \in rows})
            /\ row.completed <=> row.paid >= Principal[d]
            /\ row.completed <=> row.status = "completed"

\* Of the money applied to a deployment, exactly the principal reduces the
\* debt and the rest is excess, however the credits raced for the last room.
DebtIsPaidOnce ==
    \A d \in Dep :
        SumFunctionOnSet([r \in AppliedTo(d) |-> payments[r].applied], AppliedTo(d))
            = Least(deployments[d].paid, Principal[d])

\* The balance_before/balance_after snapshots of a deployment's rows tile
\* [0, amount_paid]: they never overlap, each starts where another ended, and
\* one ends at the balance.  No update was lost and none counted twice.
WithinBalance ==
    \A r \in Ref : payments[r] # NoRow /\ payments[r].outcome = "applied" =>
        /\ payments[r].after = payments[r].before + payments[r].amount
        /\ payments[r].after <= deployments[payments[r].dep].paid

NoOverlap ==
    \A d \in Dep : \A r1, r2 \in AppliedTo(d) :
        r1 # r2 => \/ payments[r1].after <= payments[r2].before
                   \/ payments[r2].after <= payments[r1].before

NoGap ==
    \A d \in Dep :
        /\ deployments[d].paid # 0 =>
              \E r \in AppliedTo(d) : payments[r].after = deployments[d].paid
        /\ \A r \in AppliedTo(d) : payments[r].before # 0 =>
              \E q \in AppliedTo(d) : payments[q].after = payments[r].before

LedgerTiles == WithinBalance /\ NoOverlap /\ NoGap

\* From the UPDATE to the commit the deployment's committed row is the one the
\* UPDATE read, and from the INSERT to the commit the reference stays unused:
\* what the statement computed from them is still true when it is published.
LocksProtect ==
    \A s \in Session :
        /\ \A d \in Dep : HoldsRow(s, d) =>
              /\ RowFree(s, d)
              /\ sess[s].ret = Advance(deployments[d], d, sess[s].call)
        /\ \A r \in Ref : HoldsKey(s, r) =>
              /\ KeyFree(s, r)
              /\ payments[r] = NoRow

\* Whoever is told that a reference was used finds the row that used it, so
\* replay's "the deployment vanished" branch is not reached by a race.
ReplayFindsRow ==
    \A s \in Session : sess[s].pc = "replay" => payments[sess[s].call.ref] # NoRow

\* payments is append-only: a row, once committed, is neither changed nor lost.
AppendOnly ==
    [][\A r \in Ref : payments[r] # NoRow => payments'[r] = payments[r]]_vars

\* Every statement ends: the two locks it takes, the deployment's row and then
\* the reference's key, are never waited for in a circle.
StatementsEnd ==
    \A s \in Session : sess[s].pc # "idle" ~> sess[s].pc = "idle"

(***************************************************************************)
(* The abstract ledger this implements.                                    *)
(***************************************************************************)
EntryOf(row) ==
    IF row = NoRow THEN NoRow
    ELSE [outcome |-> row.outcome, dep |-> row.dep, amount |-> row.amount,
          before |-> row.before, after |-> row.after]

L == INSTANCE Ledger WITH entries <- [r \in Ref |-> EntryOf(payments[r])],
                          balance <- [d \in Dep |-> deployments[d].paid]

\* Each commit is one atomic step of the ledger, every other step is none.
LedgerSpec == L!Spec
=============================================================================
