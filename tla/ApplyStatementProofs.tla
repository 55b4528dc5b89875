------------------------ MODULE ApplyStatementProofs ------------------------
(***************************************************************************)
(* Proofs about ApplyStatement, for every set of references, deployments,  *)
(* sessions, amounts and dates and every principal.                        *)
(***************************************************************************)
EXTENDS ApplyStatement, SumTheorems, TLAPS

USE DEF Outcome

-----------------------------------------------------------------------------
(***************************************************************************)
(* The arithmetic of the statement stays inside its types.                 *)
(***************************************************************************)

\* The UPDATE turns a deployment row into a deployment row.
LEMMA AdvanceType ==
    ASSUME NEW d \in Dep, NEW row \in DeploymentRow, NEW c \in ApplyCall
    PROVE  /\ Advance(row, d, c) \in DeploymentRow
           /\ Advance(row, d, c).paid = row.paid + c.amount
<1>1. c.amount \in Nat /\ c.date \in Date /\ Date \subseteq Nat
  BY AmountAssumption, DateAssumption DEF ApplyCall
<1>2. /\ row.paid \in Nat /\ row.count \in Nat /\ row.last \in {0} \cup Date
      /\ row.status \in {"active", "completed"} /\ row.completed \in BOOLEAN
  BY DEF DeploymentRow
<1>3. Greatest(row.last, c.date) \in {0} \cup Date
  BY <1>1, <1>2 DEF Greatest
<1> DEFINE full == row.paid + c.amount >= Principal[d]
           done == full \/ row.completed
           st   == IF full THEN "completed" ELSE row.status
<1>4. row.paid + c.amount \in Nat /\ row.count + 1 \in Nat
  BY <1>1, <1>2
<1>5. Advance(row, d, c) = [paid |-> row.paid + c.amount, count |-> row.count + 1,
                            last |-> Greatest(row.last, c.date), status |-> st,
                            completed |-> done]
  BY Zenon DEF Advance
<1>6. done \in BOOLEAN /\ st \in {"active", "completed"}
  <2> HIDE DEF full
  <2> QED
    BY <1>2, Zenon
<1> HIDE DEF full, done, st
<1> QED
  BY <1>3, <1>4, <1>5, <1>6 DEF DeploymentRow

\* The split gives parts of the credit: neither part is negative and none of
\* the credit is lost.
LEMMA SplitBounds ==
    ASSUME NEW p \in Nat, NEW b \in Nat, NEW a \in Nat
    PROVE  /\ AppliedPart(p, b, a) \in Nat
           /\ a - AppliedPart(p, b, a) \in Nat
BY DEF AppliedPart, Least, Greatest

\* The row Apply inserts is a ledger row whose snapshots are the balance before
\* and after the credit.
LEMMA AppliedRowType ==
    ASSUME NEW c \in ApplyCall, NEW row \in DeploymentRow
    PROVE  LET r == AppliedRow(c, Advance(row, c.dep, c))
           IN  /\ r \in PaymentRow
               /\ r.outcome = "applied"
               /\ r.dep = c.dep
               /\ r.amount = c.amount
               /\ r.before = row.paid
               /\ r.after = row.paid + c.amount
               /\ r.date = c.date
               /\ r.applied = AppliedPart(Principal[c.dep], row.paid, c.amount)
<1> DEFINE ret == Advance(row, c.dep, c)
           r   == AppliedRow(c, ret)
<1>1. c.dep \in Dep /\ c.amount \in Nat /\ c.amount \in Amount /\ c.date \in Date
  BY AmountAssumption DEF ApplyCall
<1>2. row.paid \in Nat
  BY DEF DeploymentRow
<1>3. ret.paid = row.paid + c.amount
  BY <1>1, AdvanceType
<1>4. ret.paid - c.amount = row.paid
  BY <1>1, <1>2, <1>3
<1>5. Principal[c.dep] \in Nat
  BY <1>1, PrincipalAssumption
<1> DEFINE app == AppliedPart(Principal[c.dep], row.paid, c.amount)
<1>6. app \in Nat /\ c.amount - app \in Nat
  BY <1>1, <1>2, <1>5, SplitBounds
<1>7. r = [outcome |-> "applied", dep |-> c.dep, amount |-> c.amount,
           date |-> c.date, applied |-> app, excess |-> c.amount - app,
           before |-> row.paid, after |-> ret.paid]
  BY <1>4 DEF AppliedRow
<1>8. r \in PaymentRow
  <2> HIDE DEF app, ret, r
  <2> QED
    BY <1>1, <1>2, <1>3, <1>6, <1>7 DEF PaymentRow, Outcome
<1> QED
  <2>1. app = AppliedPart(Principal[c.dep], row.paid, c.amount)
    OBVIOUS
  <2> HIDE DEF app
  <2> QED
    BY <1>3, <1>7, <1>8, <2>1

\* The row Record inserts is a ledger row that is not "applied".
LEMMA FiledRowType ==
    ASSUME NEW c \in RecordCall
    PROVE  FiledRow(c) \in PaymentRow /\ FiledRow(c).outcome # "applied"
BY DEF RecordCall, FiledRow, PaymentRow, Outcome

-----------------------------------------------------------------------------
(***************************************************************************)
(* Types.                                                                  *)
(***************************************************************************)

\* The fields of a call.
LEMMA CallType ==
    /\ \A c \in Call : c.ref \in Ref /\ c.amount \in Amount /\ c.amount \in Nat
    /\ \A c \in Call : c.op = "apply" => c \in ApplyCall
    /\ \A c \in Call : c.op # "apply" => c \in RecordCall
    /\ \A c \in ApplyCall : c.op = "apply" /\ c.dep \in Dep
    /\ \A c \in RecordCall : c.op # "apply"
    /\ ApplyCall \subseteq Call
    /\ RecordCall \subseteq Call
BY AmountAssumption DEF Call, ApplyCall, RecordCall

\* What a session can be doing, by the value of its program counter.
LEMMA StatementType ==
    ASSUME NEW st \in Statement
    PROVE  /\ st.pc \in {"idle", "begun", "moved", "inserted", "replay"}
           /\ st.pc # "idle" => st.call \in Call
           /\ st.pc = "moved" => st.call \in ApplyCall
           /\ st.pc \in {"moved", "inserted"} /\ st.call.op = "apply"
                 => st.call \in ApplyCall /\ st.ret \in DeploymentRow
           /\ st.pc \in {"begun", "replay"} => st.ret = NoRow
           /\ st.pc = "inserted" /\ st.call.op # "apply" => st.ret = NoRow
<1>1. CASE st = Idle
  BY <1>1 DEF Idle
<1>2. CASE st \in [pc: {"begun", "replay"}, call: Call, ret: {NoRow}]
  BY <1>2
<1>3. CASE st \in [pc: {"inserted"}, call: RecordCall, ret: {NoRow}]
  BY <1>3, CallType
<1>4. CASE st \in [pc: {"moved", "inserted"}, call: ApplyCall, ret: DeploymentRow]
  BY <1>4, CallType
<1> QED
  BY <1>1, <1>2, <1>3, <1>4 DEF Statement

\* What the steps make of a session are statements.
LEMMA StatementForms ==
    /\ Idle \in Statement
    /\ \A c \in Call : /\ Running("begun", c, NoRow) \in Statement
                       /\ Running("replay", c, NoRow) \in Statement
    /\ \A c \in RecordCall : Running("inserted", c, NoRow) \in Statement
    /\ \A c \in ApplyCall, ret \in DeploymentRow :
           /\ Running("moved", c, ret) \in Statement
           /\ Running("inserted", c, ret) \in Statement
BY DEF Statement, Running

\* Insert keeps the statement and only advances its program counter.
LEMMA InsertForm ==
    ASSUME NEW st \in Statement, st.pc # "idle"
    PROVE  [st EXCEPT !.pc = "inserted"] = Running("inserted", st.call, st.ret)
<1>1. st # Idle
  BY DEF Idle
<1>2. st = [pc |-> st.pc, call |-> st.call, ret |-> st.ret]
  BY <1>1 DEF Statement
<1> QED
  BY <1>2 DEF Running

-----------------------------------------------------------------------------
(***************************************************************************)
(* What the locks buy: a commit publishes exactly the row and the balance  *)
(* that follow from the committed state it finds.                          *)
(***************************************************************************)

\* A commit of Apply publishes its row and moves only its deployment, from the
\* balance its row starts at to the one it ends at.
LEMMA CommitApplied ==
    ASSUME TypeOK, LocksProtect, NEW s \in Session, Commit(s),
           sess[s].call.op = "apply"
    PROVE  LET c   == sess[s].call
               row == RowOf(c, sess[s].ret)
               was == deployments[c.dep]
           IN  /\ c \in ApplyCall /\ c.ref \in Ref /\ c.dep \in Dep
               /\ c.amount \in Amount /\ c.amount \in Nat
               /\ was \in DeploymentRow /\ was.paid \in Nat
               /\ row \in PaymentRow
               /\ row.outcome = "applied" /\ row.dep = c.dep
               /\ row.amount = c.amount
               /\ row.before = was.paid /\ row.after = was.paid + c.amount
               /\ row.date = c.date
               /\ row.applied = AppliedPart(Principal[c.dep], was.paid, c.amount)
               /\ sess[s].ret = Advance(was, c.dep, c)
               /\ sess[s].ret.paid = was.paid + c.amount
               /\ payments[c.ref] = NoRow
               /\ payments' = [payments EXCEPT ![c.ref] = row]
               /\ deployments' = [deployments EXCEPT ![c.dep] = sess[s].ret]
<1> DEFINE c == sess[s].call
           was == deployments[c.dep]
<1>1. sess[s] \in Statement /\ sess[s].pc = "inserted"
  BY DEF Commit, TypeOK
<1>2. /\ c \in ApplyCall /\ c.ref \in Ref /\ c.dep \in Dep
      /\ c.amount \in Amount /\ c.amount \in Nat
  BY <1>1, StatementType, CallType
<1>3. was \in DeploymentRow /\ was.paid \in Nat
  BY <1>2 DEF TypeOK, DeploymentRow
<1>4. HoldsRow(s, c.dep) /\ HoldsKey(s, c.ref)
  BY <1>1 DEF HoldsRow, HoldsKey
<1>5. sess[s].ret = Advance(was, c.dep, c) /\ payments[c.ref] = NoRow
  BY <1>2, <1>4 DEF LocksProtect
<1>6. RowOf(c, sess[s].ret) = AppliedRow(c, Advance(was, c.dep, c))
  BY <1>5 DEF RowOf
<1>7. sess[s].ret.paid = was.paid + c.amount
  BY <1>2, <1>3, <1>5, AdvanceType
<1>8. /\ payments' = [payments EXCEPT ![c.ref] = RowOf(c, sess[s].ret)]
      /\ deployments' = [deployments EXCEPT ![c.dep] = sess[s].ret]
  BY DEF Commit
<1>9. LET r == AppliedRow(c, Advance(was, c.dep, c))
      IN  /\ r \in PaymentRow
          /\ r.outcome = "applied"
          /\ r.dep = c.dep
          /\ r.amount = c.amount
          /\ r.before = was.paid
          /\ r.after = was.paid + c.amount
          /\ r.date = c.date
          /\ r.applied = AppliedPart(Principal[c.dep], was.paid, c.amount)
  BY <1>2, <1>3, AppliedRowType
<1> HIDE DEF c, was
<1> QED
  BY <1>2, <1>3, <1>5, <1>6, <1>7, <1>8, <1>9 DEF c, was

\* A commit of Record publishes its row and moves no deployment.
LEMMA CommitFiled ==
    ASSUME TypeOK, LocksProtect, NEW s \in Session, Commit(s),
           sess[s].call.op # "apply"
    PROVE  LET c == sess[s].call
           IN  /\ c \in RecordCall /\ c.ref \in Ref /\ c.amount \in Amount
               /\ RowOf(c, sess[s].ret) = FiledRow(c)
               /\ FiledRow(c) \in PaymentRow /\ FiledRow(c).outcome # "applied"
               /\ payments[c.ref] = NoRow
               /\ payments' = [payments EXCEPT ![c.ref] = FiledRow(c)]
               /\ deployments' = deployments
<1> DEFINE c == sess[s].call
<1>1. sess[s] \in Statement /\ sess[s].pc = "inserted"
  BY DEF Commit, TypeOK
<1>2. c \in RecordCall /\ c.ref \in Ref /\ c.amount \in Amount
  BY <1>1, StatementType, CallType
<1>3. payments[c.ref] = NoRow
  BY <1>1, <1>2 DEF LocksProtect, HoldsKey
<1>4. RowOf(c, sess[s].ret) = FiledRow(c)
  BY DEF RowOf
<1> QED
  BY <1>2, <1>3, <1>4, FiledRowType DEF Commit

\* Only a commit changes the tables.
LEMMA OnlyCommitsPublish ==
    ASSUME [Next]_vars
    PROVE  \/ UNCHANGED <<payments, deployments>>
           \/ \E s \in Session : Commit(s)
BY DEF Next, Step, BeginApply, BeginRecord, Move, Insert, Conflict, Lookup,
       Abort, vars

-----------------------------------------------------------------------------
(***************************************************************************)
(* The inductive invariant, one conjunct at a time.  TypeOK alone is not   *)
(* inductive: balance_before is a natural number only because the row      *)
(* returned by the UPDATE has grown by the credit.                         *)
(***************************************************************************)

\* Every step keeps the types, given that the locks protect what was computed.
LEMMA TypeStep ==
    ASSUME TypeOK, LocksProtect, [Next]_vars
    PROVE  TypeOK'
<1>0. ASSUME NEW s \in Session, NEW st \in Statement, Becomes(s, st),
             UNCHANGED <<payments, deployments>>
      PROVE  TypeOK'
  BY <1>0 DEF TypeOK, Becomes
<1>1. ASSUME NEW s \in Session, NEW c \in ApplyCall, BeginApply(s, c)
      PROVE  TypeOK'
  <2>1. Running(IF payments[c.ref] = NoRow THEN "begun" ELSE "replay", c, NoRow)
          \in Statement
    BY StatementForms, CallType
  <2> QED
    BY <1>0, <1>1, <2>1 DEF BeginApply
<1>2. ASSUME NEW s \in Session, NEW c \in RecordCall, BeginRecord(s, c)
      PROVE  TypeOK'
  BY <1>0, <1>2, StatementForms, CallType DEF BeginRecord
<1>3. ASSUME NEW s \in Session, Move(s)
      PROVE  TypeOK'
  <2> DEFINE c == sess[s].call
  <2>1. c \in ApplyCall /\ c.dep \in Dep
    BY <1>3, StatementType, CallType DEF Move, TypeOK
  <2>2. Advance(deployments[c.dep], c.dep, c) \in DeploymentRow
    BY <2>1, AdvanceType DEF TypeOK
  <2> QED
    BY <1>0, <1>3, <2>1, <2>2, StatementForms DEF Move
<1>4. ASSUME NEW s \in Session, Insert(s)
      PROVE  TypeOK'
  <2>1. sess[s] \in Statement /\ sess[s].pc \in {"moved", "begun"}
    BY <1>4 DEF Insert, AtInsert, TypeOK
  <2>2. Running("inserted", sess[s].call, sess[s].ret) \in Statement
    BY <1>4, <2>1, StatementType, StatementForms, CallType DEF Insert, AtInsert
  <2> QED
    BY <1>0, <1>4, <2>1, <2>2, InsertForm DEF Insert
<1>5. ASSUME NEW s \in Session, Conflict(s)
      PROVE  TypeOK'
  <2>1. sess[s] \in Statement /\ sess[s].pc # "idle"
    BY <1>5 DEF Conflict, AtInsert, TypeOK
  <2> QED
    BY <1>0, <1>5, <2>1, StatementType, StatementForms DEF Conflict
<1>6. ASSUME NEW s \in Session, Commit(s)
      PROVE  TypeOK'
  <2> DEFINE c == sess[s].call
  <2>1. sess[s] \in Statement /\ sess[s].pc = "inserted" /\ c \in Call
    BY <1>6, StatementType DEF Commit, TypeOK
  <2>2. sess' \in [Session -> Statement]
    BY <1>6, StatementForms DEF Commit, Becomes, TypeOK
  <2>3. deployments' \in [Dep -> DeploymentRow]
    BY <1>6, <2>1, StatementType, CallType DEF Commit, TypeOK
  <2>4. RowOf(c, sess[s].ret) \in PaymentRow
    <3>1. CASE c.op = "apply"
      BY <1>6, <3>1, CommitApplied
    <3>2. CASE c.op # "apply"
      BY <2>1, <3>2, FiledRowType, CallType DEF RowOf
    <3> QED
      BY <3>1, <3>2
  <2> QED
    BY <1>6, <2>2, <2>3, <2>4 DEF Commit, TypeOK
<1>7. ASSUME NEW s \in Session, Lookup(s)
      PROVE  TypeOK'
  BY <1>0, <1>7, StatementForms DEF Lookup
<1>8. ASSUME NEW s \in Session, Abort(s)
      PROVE  TypeOK'
  BY <1>0, <1>8, StatementForms DEF Abort
<1>9. CASE UNCHANGED vars
  BY <1>9 DEF vars, TypeOK
<1> QED
  BY <1>1, <1>2, <1>3, <1>4, <1>5, <1>6, <1>7, <1>8, <1>9 DEF Next, Step

\* The locks of the other sessions are not touched by a step of session s.
LEMMA OthersKeepLocks ==
    ASSUME TypeOK, NEW s \in Session, NEW st, Becomes(s, st)
    PROVE  /\ sess'[s] = st
           /\ \A t \in Session \ {s} :
                 /\ sess'[t] = sess[t]
                 /\ \A d : HoldsRow(t, d)' = HoldsRow(t, d)
                 /\ \A r : HoldsKey(t, r)' = HoldsKey(t, r)
BY DEF Becomes, TypeOK, HoldsRow, HoldsKey

\* A session that holds nothing after its step leaves LocksProtect true, as
\* long as it publishes only what it had locked itself.
LEMMA ReleaseKeepsLocks ==
    ASSUME TypeOK, LocksProtect, NEW s \in Session, NEW st, Becomes(s, st),
           st.pc \notin {"moved", "inserted"},
           \A d \in Dep : deployments'[d] = deployments[d] \/ HoldsRow(s, d),
           \A r \in Ref : payments'[r] = payments[r] \/ HoldsKey(s, r)
    PROVE  LocksProtect'
<1>1. /\ \A d : ~HoldsRow(s, d)'
      /\ \A r : ~HoldsKey(s, r)'
  BY OthersKeepLocks DEF HoldsRow, HoldsKey
<1>2. ASSUME NEW t \in Session \ {s}, NEW d \in Dep, HoldsRow(t, d)'
      PROVE  /\ RowFree(t, d)'
             /\ sess'[t].ret = Advance(deployments'[d], d, sess'[t].call)
  <2>1. HoldsRow(t, d) /\ sess'[t] = sess[t]
    BY <1>2, OthersKeepLocks
  <2>2. RowFree(t, d) /\ sess[t].ret = Advance(deployments[d], d, sess[t].call)
    BY <2>1 DEF LocksProtect
  <2>3. ~HoldsRow(s, d)
    BY <2>2 DEF RowFree
  <2>4. deployments'[d] = deployments[d]
    BY <2>3
  <2>5. RowFree(t, d)'
    BY <1>1, <2>2, OthersKeepLocks DEF RowFree
  <2> QED
    BY <2>1, <2>2, <2>4, <2>5
<1>3. ASSUME NEW t \in Session \ {s}, NEW r \in Ref, HoldsKey(t, r)'
      PROVE  KeyFree(t, r)' /\ payments'[r] = NoRow
  <2>1. HoldsKey(t, r)
    BY <1>3, OthersKeepLocks
  <2>2. KeyFree(t, r) /\ payments[r] = NoRow
    BY <2>1 DEF LocksProtect
  <2>3. ~HoldsKey(s, r)
    BY <2>2 DEF KeyFree
  <2>4. KeyFree(t, r)'
    BY <1>1, <2>2, OthersKeepLocks DEF KeyFree
  <2> QED
    BY <2>2, <2>3, <2>4
<1> QED
  BY <1>1, <1>2, <1>3 DEF LocksProtect

\* Every step keeps what the locks protect.
LEMMA LocksStep ==
    ASSUME TypeOK, LocksProtect, [Next]_vars
    PROVE  LocksProtect'
<1>0. ASSUME NEW s \in Session, NEW st, Becomes(s, st),
             st.pc \notin {"moved", "inserted"},
             UNCHANGED <<payments, deployments>>
      PROVE  LocksProtect'
  BY <1>0, ReleaseKeepsLocks
<1>1. ASSUME NEW s \in Session, NEW c \in ApplyCall, BeginApply(s, c)
      PROVE  LocksProtect'
  BY <1>0, <1>1 DEF BeginApply, Running
<1>2. ASSUME NEW s \in Session, NEW c \in RecordCall, BeginRecord(s, c)
      PROVE  LocksProtect'
  BY <1>0, <1>2 DEF BeginRecord, Running
<1>3. ASSUME NEW s \in Session, Move(s)
      PROVE  LocksProtect'
  <2> DEFINE c  == sess[s].call
             st == Running("moved", c, Advance(deployments[c.dep], c.dep, c))
  <2>1. Becomes(s, st) /\ RowFree(s, c.dep) /\ UNCHANGED <<payments, deployments>>
    BY <1>3 DEF Move
  <2>2. /\ sess'[s] = st
        /\ \A t \in Session \ {s} :
              /\ sess'[t] = sess[t]
              /\ \A d : HoldsRow(t, d)' = HoldsRow(t, d)
              /\ \A r : HoldsKey(t, r)' = HoldsKey(t, r)
    BY <2>1, OthersKeepLocks
  <2>3. /\ st.pc = "moved" /\ st.call = c
        /\ st.ret = Advance(deployments[c.dep], c.dep, c)
    BY DEF Running
  <2>4. /\ \A r : ~HoldsKey(s, r)'
        /\ \A d : HoldsRow(s, d)' => d = c.dep
    BY <2>2, <2>3 DEF HoldsKey, HoldsRow
  <2> HIDE DEF st, c
  <2>5. ASSUME NEW d \in Dep, HoldsRow(s, d)'
        PROVE  RowFree(s, d)' /\ sess'[s].ret = Advance(deployments'[d], d, sess'[s].call)
    BY <2>1, <2>2, <2>3, <2>4, <2>5 DEF RowFree
  <2>6. ASSUME NEW t \in Session \ {s}, NEW d \in Dep, HoldsRow(t, d)'
        PROVE  RowFree(t, d)' /\ sess'[t].ret = Advance(deployments'[d], d, sess'[t].call)
    <3>1. HoldsRow(t, d) /\ sess'[t] = sess[t]
      BY <2>2, <2>6
    <3>2. RowFree(t, d) /\ sess[t].ret = Advance(deployments[d], d, sess[t].call)
      BY <3>1 DEF LocksProtect
    <3>3. ~HoldsRow(s, d)'
      BY <2>1, <2>4, <3>1 DEF RowFree
    <3> QED
      BY <2>1, <2>2, <3>1, <3>2, <3>3 DEF RowFree
  <2>7. ASSUME NEW t \in Session, NEW r \in Ref, HoldsKey(t, r)'
        PROVE  KeyFree(t, r)' /\ payments'[r] = NoRow
    <3>1. t # s /\ HoldsKey(t, r)
      BY <2>2, <2>4, <2>7
    <3>2. KeyFree(t, r) /\ payments[r] = NoRow
      BY <3>1 DEF LocksProtect
    <3> QED
      BY <2>1, <2>2, <2>4, <3>2 DEF KeyFree
  <2> QED
    BY <2>5, <2>6, <2>7 DEF LocksProtect
<1>4. ASSUME NEW s \in Session, Insert(s)
      PROVE  LocksProtect'
  <2> DEFINE c  == sess[s].call
             st == Running("inserted", c, sess[s].ret)
  <2>1. sess[s] \in Statement /\ sess[s].pc # "idle"
    BY <1>4 DEF Insert, AtInsert, TypeOK
  <2>2. /\ Becomes(s, st) /\ KeyFree(s, c.ref) /\ payments[c.ref] = NoRow
        /\ UNCHANGED <<payments, deployments>>
        /\ sess[s].pc = "moved" \/ c.op # "apply"
    BY <1>4, <2>1, InsertForm DEF Insert, AtInsert
  <2>3. /\ sess'[s] = st
        /\ \A t \in Session \ {s} :
              /\ sess'[t] = sess[t]
              /\ \A d : HoldsRow(t, d)' = HoldsRow(t, d)
              /\ \A r : HoldsKey(t, r)' = HoldsKey(t, r)
    BY <2>2, OthersKeepLocks
  <2>4. st.pc = "inserted" /\ st.call = c /\ st.ret = sess[s].ret
    BY DEF Running
  <2>5. /\ \A r : HoldsKey(s, r)' => r = c.ref
        /\ \A d : HoldsRow(s, d)' => HoldsRow(s, d)
    BY <2>2, <2>3, <2>4 DEF HoldsKey, HoldsRow
  <2>6. ASSUME NEW t \in Session, NEW d \in Dep, HoldsRow(t, d)'
        PROVE  RowFree(t, d)' /\ sess'[t].ret = Advance(deployments'[d], d, sess'[t].call)
    <3>1. HoldsRow(t, d) /\ sess'[t].ret = sess[t].ret /\ sess'[t].call = sess[t].call
      BY <2>3, <2>4, <2>5, <2>6
    <3>2. RowFree(t, d) /\ sess[t].ret = Advance(deployments[d], d, sess[t].call)
      BY <3>1 DEF LocksProtect
    <3>3. RowFree(t, d)'
      BY <2>3, <2>5, <3>2 DEF RowFree
    <3> QED
      BY <2>2, <3>1, <3>2, <3>3
  <2> HIDE DEF st, c
  <2>7. ASSUME NEW r \in Ref, HoldsKey(s, r)'
        PROVE  KeyFree(s, r)' /\ payments'[r] = NoRow
    BY <2>2, <2>3, <2>5, <2>7 DEF KeyFree
  <2>8. ASSUME NEW t \in Session \ {s}, NEW r \in Ref, HoldsKey(t, r)'
        PROVE  KeyFree(t, r)' /\ payments'[r] = NoRow
    <3>1. HoldsKey(t, r)
      BY <2>3, <2>8
    <3>2. KeyFree(t, r) /\ payments[r] = NoRow
      BY <3>1 DEF LocksProtect
    <3>3. ~HoldsKey(s, r)'
      BY <2>2, <2>5, <3>1 DEF KeyFree
    <3> QED
      BY <2>2, <2>3, <3>2, <3>3 DEF KeyFree
  <2> QED
    BY <2>6, <2>7, <2>8 DEF LocksProtect
<1>5. ASSUME NEW s \in Session, Conflict(s)
      PROVE  LocksProtect'
  BY <1>0, <1>5 DEF Conflict, Running
<1>6. ASSUME NEW s \in Session, Commit(s)
      PROVE  LocksProtect'
  <2> DEFINE c == sess[s].call
  <2>1. Becomes(s, Idle) /\ Idle.pc = "idle"
    BY <1>6 DEF Commit, Idle
  <2>2. \A r \in Ref : payments'[r] = payments[r] \/ HoldsKey(s, r)
    BY <1>6 DEF Commit, HoldsKey, TypeOK
  <2>3. \A d \in Dep : deployments'[d] = deployments[d] \/ HoldsRow(s, d)
    BY <1>6 DEF Commit, HoldsRow, TypeOK
  <2> QED
    BY <2>1, <2>2, <2>3, ReleaseKeepsLocks
<1>7. ASSUME NEW s \in Session, Lookup(s)
      PROVE  LocksProtect'
  BY <1>0, <1>7 DEF Lookup, Idle
<1>8. ASSUME NEW s \in Session, Abort(s)
      PROVE  LocksProtect'
  BY <1>0, <1>8 DEF Abort, Idle
<1>9. CASE UNCHANGED vars
  BY <1>9 DEF vars, LocksProtect, HoldsRow, HoldsKey, RowFree, KeyFree
<1> QED
  BY <1>1, <1>2, <1>3, <1>4, <1>5, <1>6, <1>7, <1>8, <1>9 DEF Next, Step

-----------------------------------------------------------------------------
(***************************************************************************)
(* The ledger.                                                             *)
(***************************************************************************)

\* Between commits nothing about the ledger can change.
LEMMA TilesFrame ==
    ASSUME LedgerTiles, UNCHANGED <<payments, deployments>>
    PROVE  LedgerTiles'
BY DEF LedgerTiles, WithinBalance, NoOverlap, NoGap, AppliedTo

\* Filing a row that is not "applied" adds no tile.
LEMMA TilesFiled ==
    ASSUME TypeOK, LocksProtect, LedgerTiles, NEW s \in Session, Commit(s),
           sess[s].call.op # "apply"
    PROVE  LedgerTiles'
<1> DEFINE c == sess[s].call
<1>1. /\ c.ref \in Ref /\ payments[c.ref] = NoRow
      /\ FiledRow(c).outcome # "applied"
      /\ payments' = [payments EXCEPT ![c.ref] = FiledRow(c)]
      /\ deployments' = deployments
  BY CommitFiled
<1>2. \A d : AppliedTo(d)' = AppliedTo(d)
  BY <1>1 DEF AppliedTo, TypeOK
<1>3. \A d : \A r \in AppliedTo(d) : payments'[r] = payments[r]
  BY <1>1 DEF AppliedTo, TypeOK
<1>4. \A r \in Ref : payments'[r] # NoRow /\ payments'[r].outcome = "applied"
        => payments'[r] = payments[r]
  BY <1>1 DEF TypeOK
<1> QED
  BY <1>1, <1>2, <1>3, <1>4 DEF LedgerTiles, WithinBalance, NoOverlap, NoGap

\* An applied row is laid on top of the tiles: it starts at the balance it
\* found and ends at the balance it leaves.
LEMMA TilesApplied ==
    ASSUME TypeOK, LocksProtect, LedgerTiles, NEW s \in Session, Commit(s),
           sess[s].call.op = "apply"
    PROVE  LedgerTiles'
<1>0. PICK c, d0, row, was, ret :
         /\ c = sess[s].call /\ ret = sess[s].ret /\ d0 = c.dep
         /\ row = RowOf(c, ret) /\ was = deployments[d0].paid
  OBVIOUS
<1>1. /\ c.ref \in Ref /\ d0 \in Dep /\ c.amount \in Nat /\ was \in Nat
      /\ row \in PaymentRow /\ row.outcome = "applied" /\ row.dep = d0
      /\ row.amount = c.amount /\ row.before = was /\ row.after = was + c.amount
      /\ ret.paid = was + c.amount
      /\ payments[c.ref] = NoRow
      /\ payments' = [payments EXCEPT ![c.ref] = row]
      /\ deployments' = [deployments EXCEPT ![d0] = ret]
  BY <1>0, CommitApplied
<1>2. row # NoRow
  BY <1>1, NoRowAssumption
<1>3. payments'[c.ref] = row /\ \A r \in Ref \ {c.ref} : payments'[r] = payments[r]
  BY <1>1 DEF TypeOK
<1>4. /\ deployments'[d0].paid = was + c.amount
      /\ \A d \in Dep \ {d0} : deployments'[d] = deployments[d]
      /\ deployments[d0].paid = was
  BY <1>0, <1>1 DEF TypeOK
<1>5. AppliedTo(d0)' = AppliedTo(d0) \cup {c.ref} /\ c.ref \notin AppliedTo(d0)
  BY <1>1, <1>2, <1>3 DEF AppliedTo
<1>6. \A d \in Dep \ {d0} : AppliedTo(d)' = AppliedTo(d) /\ c.ref \notin AppliedTo(d)
  BY <1>1, <1>2, <1>3 DEF AppliedTo
<1>7. \A d \in Dep : \A r \in AppliedTo(d) :
         /\ r \in Ref /\ r # c.ref /\ payments'[r] = payments[r]
         /\ payments[r] \in PaymentRow
         /\ payments[r].after <= deployments[d].paid
  BY <1>1, <1>3 DEF AppliedTo, LedgerTiles, WithinBalance, TypeOK
<1>8. \A d \in Dep : deployments[d].paid \in Nat
  BY DEF TypeOK, DeploymentRow
<1>9. \A r \in Ref : payments[r] # NoRow =>
         /\ payments[r].after \in Nat /\ payments[r].before \in Nat
         /\ payments[r].outcome = "applied" => payments[r].dep \in Dep \cup {NoDep}
  BY DEF TypeOK, PaymentRow
<1>10. WithinBalance'
  <2> SUFFICES ASSUME NEW r \in Ref, payments'[r] # NoRow,
                      payments'[r].outcome = "applied"
               PROVE  /\ payments'[r].after = payments'[r].before + payments'[r].amount
                      /\ payments'[r].after <= deployments'[payments'[r].dep].paid
    BY DEF WithinBalance
  <2>1. CASE r = c.ref
    BY <1>1, <1>3, <1>4, <2>1
  <2>2. CASE r # c.ref
    <3>1. /\ payments'[r] = payments[r]
          /\ payments[r].after = payments[r].before + payments[r].amount
          /\ payments[r].after <= deployments[payments[r].dep].paid
      BY <1>3, <2>2 DEF LedgerTiles, WithinBalance
    <3>2. CASE payments[r].dep = d0
      BY <1>1, <1>3, <1>4, <1>9, <2>2, <3>1, <3>2
    <3>3. CASE payments[r].dep # d0
      <4>1. deployments'[payments[r].dep] = deployments[payments[r].dep]
        BY <1>1, <3>3
      <4> QED
        BY <3>1, <4>1
    <3> QED
      BY <3>2, <3>3
  <2> QED
    BY <2>1, <2>2
<1>11. NoOverlap'
  <2> SUFFICES ASSUME NEW d \in Dep, NEW r1 \in AppliedTo(d)', NEW r2 \in AppliedTo(d)',
                      r1 # r2
               PROVE  \/ payments'[r1].after <= payments'[r2].before
                      \/ payments'[r2].after <= payments'[r1].before
    BY DEF NoOverlap
  <2>1. CASE r1 \in AppliedTo(d) /\ r2 \in AppliedTo(d)
    BY <1>7, <2>1 DEF LedgerTiles, NoOverlap
  <2>2. CASE r1 \in AppliedTo(d) /\ r2 \notin AppliedTo(d)
    <3>1. d = d0 /\ r2 = c.ref
      BY <1>5, <1>6, <2>2
    <3> QED
      BY <1>1, <1>3, <1>4, <1>7, <2>2, <3>1
  <2>3. CASE r1 \notin AppliedTo(d)
    <3>1. d = d0 /\ r1 = c.ref /\ r2 \in AppliedTo(d)
      BY <1>5, <1>6, <2>3
    <3> QED
      BY <1>1, <1>3, <1>4, <1>7, <3>1
  <2> QED
    BY <2>1, <2>2, <2>3
<1>12. NoGap'
  <2>1. ASSUME NEW d \in Dep \ {d0}
        PROVE  /\ deployments'[d].paid # 0 =>
                     \E r \in AppliedTo(d)' : payments'[r].after = deployments'[d].paid
               /\ \A r \in AppliedTo(d)' : payments'[r].before # 0 =>
                     \E q \in AppliedTo(d)' : payments'[q].after = payments'[r].before
    BY <1>4, <1>6, <1>7 DEF LedgerTiles, NoGap
  <2>2. \E r \in AppliedTo(d0)' : payments'[r].after = deployments'[d0].paid
    BY <1>1, <1>3, <1>4, <1>5
  <2>3. ASSUME NEW r \in AppliedTo(d0)', payments'[r].before # 0
        PROVE  \E q \in AppliedTo(d0)' : payments'[q].after = payments'[r].before
    <3>1. CASE r = c.ref
      <4>1. payments'[r].before = deployments[d0].paid
        BY <1>1, <1>3, <1>4, <3>1
      <4>2. PICK q \in AppliedTo(d0) : payments[q].after = deployments[d0].paid
        BY <1>1, <2>3, <4>1 DEF LedgerTiles, NoGap
      <4> QED
        BY <1>1, <1>5, <1>7, <4>1, <4>2
    <3>2. CASE r # c.ref
      <4>1. r \in AppliedTo(d0) /\ payments'[r] = payments[r]
        BY <1>1, <1>5, <1>7, <3>2
      <4>2. PICK q \in AppliedTo(d0) : payments[q].after = payments[r].before
        BY <1>1, <2>3, <4>1 DEF LedgerTiles, NoGap
      <4> QED
        BY <1>1, <1>5, <1>7, <4>1, <4>2
    <3> QED
      BY <3>1, <3>2
  <2> QED
    BY <1>1, <2>1, <2>2, <2>3 DEF NoGap
<1> QED
  BY <1>10, <1>11, <1>12 DEF LedgerTiles

\* Every step keeps the snapshots of the ledger tiling the balances.
LEMMA TilesStep ==
    ASSUME TypeOK, LocksProtect, LedgerTiles, [Next]_vars
    PROVE  LedgerTiles'
BY OnlyCommitsPublish, TilesFrame, TilesFiled, TilesApplied

-----------------------------------------------------------------------------
(***************************************************************************)
(* The materialised columns.                                               *)
(***************************************************************************)

\* The largest element of a set of numbers.
LEMMA MaxIs ==
    ASSUME NEW T, T \subseteq Nat, NEW m \in T, \A n \in T : n <= m
    PROVE  Max(T) = m
<1>1. \A y \in T : m >= y
  OBVIOUS
<1>2. ASSUME NEW x \in T, \A y \in T : x >= y
      PROVE  x = m
  <2>1. x >= m /\ x <= m /\ x \in Nat /\ m \in Nat
    BY <1>2
  <2> QED
    BY <2>1
<1> QED
  BY <1>1, <1>2, Zenon DEF Max

\* What a column of deployment d has of the rows applied to it.  last_payment_at
\* is described by its two properties, of which Max is made.
Derived(d) ==
    LET rows == AppliedTo(d)
        row  == deployments[d]
    IN  /\ IsFiniteSet(rows)
        /\ row.paid = SumFunctionOnSet([r \in rows |-> payments[r].amount], rows)
        /\ row.count = Cardinality(rows)
        /\ row.last \in {0} \cup {payments[r].date : r \in rows}
        /\ \A r \in rows : payments[r].date <= row.last
        /\ row.completed <=> row.paid >= Principal[d]
        /\ row.completed <=> row.status = "completed"
        /\ SumFunctionOnSet([r \in rows |-> payments[r].applied], rows)
              = Least(row.paid, Principal[d])

AllDerived == \A d \in Dep : Derived(d)

\* Rows and a deployment that stay keep what is derived from them.
LEMMA DerivedFrame ==
    ASSUME NEW d \in Dep, Derived(d), deployments'[d] = deployments[d],
           AppliedTo(d)' = AppliedTo(d),
           \A r \in AppliedTo(d) : payments'[r] = payments[r]
    PROVE  Derived(d)'
<1>1. /\ [r \in AppliedTo(d) |-> payments[r].amount]'
           = [r \in AppliedTo(d) |-> payments[r].amount]
      /\ [r \in AppliedTo(d) |-> payments[r].applied]'
           = [r \in AppliedTo(d) |-> payments[r].applied]
      /\ {payments[r].date : r \in AppliedTo(d)}'
           = {payments[r].date : r \in AppliedTo(d)}
  OBVIOUS
<1> QED
  BY <1>1 DEF Derived

\* A credit is added to every column of its deployment, and to no other.
LEMMA DerivedApplied ==
    ASSUME TypeOK, LocksProtect, AllDerived, NEW s \in Session, Commit(s),
           sess[s].call.op = "apply"
    PROVE  AllDerived'
<1>0. PICK c, d0, row, was, ret :
         /\ c = sess[s].call /\ ret = sess[s].ret /\ d0 = c.dep
         /\ row = RowOf(c, ret) /\ was = deployments[d0]
  OBVIOUS
<1>1. /\ c \in ApplyCall /\ c.ref \in Ref /\ d0 \in Dep /\ c.amount \in Nat
      /\ was \in DeploymentRow
      /\ row \in PaymentRow /\ row.outcome = "applied" /\ row.dep = d0
      /\ row.amount = c.amount /\ row.date = c.date
      /\ row.applied = AppliedPart(Principal[d0], was.paid, c.amount)
      /\ ret = Advance(was, d0, c)
      /\ payments[c.ref] = NoRow
      /\ payments' = [payments EXCEPT ![c.ref] = row]
      /\ deployments' = [deployments EXCEPT ![d0] = ret]
  BY <1>0, CommitApplied
<1>2. row # NoRow
  BY <1>1, NoRowAssumption
<1>3. payments'[c.ref] = row /\ \A r \in Ref \ {c.ref} : payments'[r] = payments[r]
  BY <1>1 DEF TypeOK
<1>4. AppliedTo(d0)' = AppliedTo(d0) \cup {c.ref} /\ c.ref \notin AppliedTo(d0)
  BY <1>1, <1>2, <1>3 DEF AppliedTo
<1>5. \A d \in Dep : \A r \in AppliedTo(d) :
         /\ payments'[r] = payments[r] /\ payments[r] \in PaymentRow
         /\ payments[r].amount \in Nat /\ payments[r].applied \in Nat
         /\ payments[r].date \in Nat
  BY <1>1, <1>3, AmountAssumption, DateAssumption DEF AppliedTo, TypeOK, PaymentRow
<1>6. ASSUME NEW d \in Dep \ {d0}
      PROVE  Derived(d)'
  <2>1. AppliedTo(d)' = AppliedTo(d) /\ deployments'[d] = deployments[d]
    BY <1>1, <1>2, <1>3 DEF AppliedTo
  <2> QED
    BY <1>5, <2>1, DerivedFrame DEF AllDerived
<1>7. Derived(d0)'
  <2> DEFINE S == AppliedTo(d0)
             p == Principal[d0]
  <2>1. IsFiniteSet(S) /\ IsFiniteSet(S \cup {c.ref})
        /\ Cardinality(S \cup {c.ref}) = Cardinality(S) + 1
    BY <1>1, <1>4, FS_AddElement DEF AllDerived, Derived
  <2>2. /\ was = deployments[d0] /\ deployments'[d0] = ret
        /\ was.paid \in Nat /\ was.count \in Nat /\ was.last \in Nat
        /\ c.date \in Nat /\ p \in Nat
    <3>1. was = deployments[d0] /\ deployments'[d0] = ret
      BY <1>0, <1>1 DEF TypeOK
    <3>2. c.date \in Nat /\ p \in Nat
      BY <1>1, DateAssumption, PrincipalAssumption DEF ApplyCall
    <3>3. was.paid \in Nat /\ was.count \in Nat /\ was.last \in Nat
      <4>1. was.paid \in Nat /\ was.count \in Nat /\ was.last \in {0} \cup Date
        BY <1>1 DEF DeploymentRow
      <4>2. \A n \in Date : n \in Nat
        BY DateAssumption
      <4>3. was.last \in {0} => was.last \in Nat
        OBVIOUS
      <4> QED
        BY <4>1, <4>2, <4>3
    <3> QED
      BY <3>1, <3>2, <3>3
  <2>3. /\ ret.paid = was.paid + c.amount /\ ret.count = was.count + 1
        /\ ret.last = Greatest(was.last, c.date)
        /\ ret.status = IF was.paid + c.amount >= p THEN "completed" ELSE was.status
        /\ ret.completed = (was.paid + c.amount >= p \/ was.completed)
    BY <1>1, Zenon DEF Advance
  <2>4. SumFunctionOnSet([r \in S \cup {c.ref} |-> payments'[r].amount], S \cup {c.ref})
          = was.paid + c.amount
    <3> DEFINE f == [r \in S |-> payments[r].amount]
               g == [r \in S \cup {c.ref} |-> payments'[r].amount]
    <3>1. g[c.ref] = c.amount /\ \A r \in S : f[r] \in Nat /\ g[r] = f[r]
      BY <1>1, <1>3, <1>5
    <3>2. SumFunctionOnSet(f, S) = was.paid
      BY <1>1, <2>2 DEF AllDerived, Derived
    <3> HIDE DEF f, g, S
    <3>3. SumFunctionOnSet(g, S \cup {c.ref}) = SumFunctionOnSet(f, S) + g[c.ref]
      BY <1>1, <1>4, <2>1, <3>1, SumGrows DEF S
    <3> QED
      BY <3>1, <3>2, <3>3 DEF g
  <2>5. SumFunctionOnSet([r \in S \cup {c.ref} |-> payments'[r].applied], S \cup {c.ref})
          = Least(was.paid + c.amount, p)
    <3> DEFINE f == [r \in S |-> payments[r].applied]
               g == [r \in S \cup {c.ref} |-> payments'[r].applied]
    <3>0. AppliedPart(p, was.paid, c.amount) \in Nat
      BY <1>1, <2>2, SplitBounds
    <3>1. /\ g[c.ref] = AppliedPart(p, was.paid, c.amount) /\ g[c.ref] \in Nat
          /\ \A r \in S : f[r] \in Nat /\ g[r] = f[r]
      BY <1>1, <1>3, <1>5, <3>0
    <3>2. SumFunctionOnSet(f, S) = Least(was.paid, p)
      BY <1>1, <2>2 DEF AllDerived, Derived
    <3> HIDE DEF f, g, S
    <3>3. SumFunctionOnSet(g, S \cup {c.ref}) = SumFunctionOnSet(f, S) + g[c.ref]
      BY <1>1, <1>4, <2>1, <3>1, SumGrows DEF S
    <3>4. Least(was.paid, p) + AppliedPart(p, was.paid, c.amount)
            = Least(was.paid + c.amount, p)
      BY <1>1, <2>2 DEF Least, Greatest, AppliedPart
    <3> QED
      BY <3>1, <3>2, <3>3, <3>4 DEF g
  <2>6. /\ ret.last \in {0} \cup {payments'[r].date : r \in S \cup {c.ref}}
        /\ \A r \in S \cup {c.ref} : payments'[r].date <= ret.last
    <3>1. /\ was.last \in {0} \cup {payments'[r].date : r \in S}
          /\ \A r \in S : payments'[r].date <= was.last /\ payments'[r].date \in Nat
      <4>1. /\ was.last \in {0} \cup {payments[r].date : r \in S}
            /\ \A r \in S : payments[r].date <= was.last
        BY <1>1, <2>2 DEF AllDerived, Derived
      <4>2. \A r \in S : payments'[r] = payments[r] /\ payments[r].date \in Nat
        BY <1>1, <1>5
      <4> HIDE DEF S
      <4> QED
        BY <4>1, <4>2
    <3>2. payments'[c.ref].date = c.date
      BY <1>1, <1>3
    <3> HIDE DEF S
    <3> QED
      BY <2>2, <2>3, <3>1, <3>2 DEF Greatest
  <2>7. /\ ret.completed <=> ret.paid >= p
        /\ ret.completed <=> ret.status = "completed"
    <3>1. /\ was.completed <=> was.paid >= p
          /\ was.completed <=> was.status = "completed"
      BY <1>1, <2>2 DEF AllDerived, Derived
    <3>2. was.paid >= p => was.paid + c.amount >= p
      BY <1>1, <2>2
    <3> DEFINE full == was.paid + c.amount >= p
    <3>3. /\ was.completed => full
          /\ ret.status = IF full THEN "completed" ELSE was.status
          /\ ret.completed <=> full \/ was.completed
          /\ ret.paid >= p <=> full
      BY <2>3, <3>1, <3>2, Zenon
    <3> HIDE DEF full
    <3> QED
      BY <3>1, <3>3, Zenon
  <2>8. ret.count = Cardinality(S \cup {c.ref})
    BY <1>1, <2>1, <2>2, <2>3 DEF AllDerived, Derived
  <2> QED
    BY <1>4, <2>1, <2>2, <2>3, <2>4, <2>5, <2>6, <2>7, <2>8 DEF Derived
<1> QED
  BY <1>6, <1>7 DEF AllDerived

\* Every step keeps the columns derivable.
LEMMA DerivedStep ==
    ASSUME TypeOK, LocksProtect, AllDerived, [Next]_vars
    PROVE  AllDerived'
<1>1. CASE UNCHANGED <<payments, deployments>>
  BY <1>1, DerivedFrame DEF AllDerived, AppliedTo
<1>2. ASSUME NEW s \in Session, Commit(s), sess[s].call.op # "apply"
      PROVE  AllDerived'
  <2> DEFINE c == sess[s].call
  <2>1. /\ c.ref \in Ref /\ payments[c.ref] = NoRow
        /\ FiledRow(c).outcome # "applied"
        /\ payments' = [payments EXCEPT ![c.ref] = FiledRow(c)]
        /\ deployments' = deployments
    BY <1>2, CommitFiled
  <2>2. \A d : /\ AppliedTo(d)' = AppliedTo(d)
               /\ \A r \in AppliedTo(d) : payments'[r] = payments[r]
    BY <2>1 DEF AppliedTo, TypeOK
  <2> QED
    BY <2>1, <2>2, DerivedFrame DEF AllDerived
<1> QED
  BY <1>1, <1>2, DerivedApplied, OnlyCommitsPublish

\* What is derived is what PositionIsDerivable and DebtIsPaidOnce say.
LEMMA DerivedSays ==
    ASSUME TypeOK, AllDerived
    PROVE  PositionIsDerivable /\ DebtIsPaidOnce
<1>1. ASSUME NEW d \in Dep
      PROVE  deployments[d].last = Max({0} \cup {payments[r].date : r \in AppliedTo(d)})
  <2> DEFINE dates == {payments[r].date : r \in AppliedTo(d)}
             last  == deployments[d].last
  <2>1. \A r \in AppliedTo(d) : payments[r].date \in Nat /\ payments[r].date <= last
    BY <1>1, DateAssumption DEF AllDerived, Derived, AppliedTo, TypeOK, PaymentRow
  <2>2. last \in {0} \cup dates /\ last \in Nat
    <3>1. last \in {0} \cup dates
      BY <1>1 DEF AllDerived, Derived
    <3> QED
      BY <2>1, <3>1
  <2>3. {0} \cup dates \subseteq Nat /\ \A n \in {0} \cup dates : n <= last
    BY <2>1, <2>2
  <2> HIDE DEF dates, last
  <2>4. last = Max({0} \cup dates)
    BY <2>2, <2>3, MaxIs
  <2> QED
    BY <2>4 DEF dates, last
<1> QED
  BY <1>1 DEF AllDerived, Derived, PositionIsDerivable, DebtIsPaidOnce

\* A committed row is never written again.
LEMMA RowsStay ==
    ASSUME TypeOK, LocksProtect, [Next]_vars
    PROVE  \A r \in Ref : payments[r] # NoRow => payments'[r] = payments[r]
<1>1. ASSUME NEW s \in Session, Commit(s), NEW r \in Ref, payments[r] # NoRow
      PROVE  payments'[r] = payments[r]
  <2>1. /\ payments[sess[s].call.ref] = NoRow
        /\ payments' = [payments EXCEPT ![sess[s].call.ref] =
                           RowOf(sess[s].call, sess[s].ret)]
    BY <1>1, CommitApplied, CommitFiled DEF Commit
  <2> QED
    BY <1>1, <2>1 DEF TypeOK
<1> QED
  BY <1>1, OnlyCommitsPublish

\* Every step keeps the row that a replaying statement looks for.
LEMMA ReplayStep ==
    ASSUME TypeOK, LocksProtect, ReplayFindsRow, [Next]_vars
    PROVE  ReplayFindsRow'
<1>0. ASSUME NEW s \in Session, NEW st, Becomes(s, st),
             st.pc = "replay" => payments'[st.call.ref] # NoRow
      PROVE  ReplayFindsRow'
  <2> SUFFICES ASSUME NEW t \in Session, sess'[t].pc = "replay"
               PROVE  payments'[sess'[t].call.ref] # NoRow
    BY DEF ReplayFindsRow
  <2>1. CASE t = s
    BY <1>0, <2>1, OthersKeepLocks
  <2>2. CASE t # s
    <3>1. sess'[t] = sess[t]
      BY <1>0, <2>2, OthersKeepLocks
    <3>2. payments[sess[t].call.ref] # NoRow /\ sess[t].call.ref \in Ref
      BY <3>1, StatementType, CallType DEF ReplayFindsRow, TypeOK
    <3> QED
      BY <3>1, <3>2, RowsStay
  <2> QED
    BY <2>1, <2>2
<1>1. ASSUME NEW s \in Session, NEW c \in ApplyCall, BeginApply(s, c)
      PROVE  ReplayFindsRow'
  <2> DEFINE st == Running(IF payments[c.ref] = NoRow THEN "begun" ELSE "replay", c, NoRow)
  <2>1. Becomes(s, st) /\ payments' = payments
    BY <1>1 DEF BeginApply
  <2>2. st.pc = "replay" => payments[st.call.ref] # NoRow
    BY DEF Running
  <2> HIDE DEF st
  <2> QED
    BY <1>0, <2>1, <2>2
<1>2. ASSUME NEW s \in Session, NEW c \in RecordCall, BeginRecord(s, c)
      PROVE  ReplayFindsRow'
  BY <1>0, <1>2 DEF BeginRecord, Running
<1>3. ASSUME NEW s \in Session, Move(s)
      PROVE  ReplayFindsRow'
  BY <1>0, <1>3 DEF Move, Running
<1>4. ASSUME NEW s \in Session, Insert(s)
      PROVE  ReplayFindsRow'
  <2>1. sess[s] \in Statement /\ sess[s].pc # "idle"
    BY <1>4 DEF Insert, AtInsert, TypeOK
  <2>2. Becomes(s, Running("inserted", sess[s].call, sess[s].ret))
    BY <1>4, <2>1, InsertForm DEF Insert
  <2> QED
    BY <1>0, <2>2 DEF Running
<1>5. ASSUME NEW s \in Session, Conflict(s)
      PROVE  ReplayFindsRow'
  BY <1>0, <1>5 DEF Conflict, Running
<1>6. ASSUME NEW s \in Session, Becomes(s, Idle)
      PROVE  ReplayFindsRow'
  BY <1>0, <1>6 DEF Idle
<1>7. CASE UNCHANGED vars
  BY <1>7 DEF vars, ReplayFindsRow
<1> QED
  BY <1>1, <1>2, <1>3, <1>4, <1>5, <1>6, <1>7
  DEF Next, Step, Commit, Lookup, Abort

-----------------------------------------------------------------------------
(***************************************************************************)
(* The theorems.                                                           *)
(***************************************************************************)

\* The inductive invariant.
IInv == TypeOK /\ LocksProtect /\ LedgerTiles /\ ReplayFindsRow /\ AllDerived

\* The empty ledger satisfies the inductive invariant.
LEMMA InitInv == Init => IInv
<1> SUFFICES ASSUME Init PROVE IInv
  OBVIOUS
<1>1. TypeOK
  BY StatementForms DEF Init, TypeOK, DeploymentRow
<1>2. \A s \in Session : sess[s].pc = "idle"
  BY DEF Init, Idle
<1>3. \A d : AppliedTo(d) = {}
  BY DEF Init, AppliedTo
<1>4. LedgerTiles
  BY <1>3 DEF Init, LedgerTiles, WithinBalance, NoOverlap, NoGap
<1>5. AllDerived
  <2> SUFFICES ASSUME NEW d \in Dep PROVE Derived(d)
    BY DEF AllDerived
  <2>1. /\ deployments[d] = [paid |-> 0, count |-> 0, last |-> 0,
                              status |-> "active", completed |-> FALSE]
        /\ Principal[d] \in Nat \ {0}
    BY PrincipalAssumption DEF Init
  <2>2. \A f : SumFunctionOnSet(f, AppliedTo(d)) = 0
    BY <1>3, SumOfNone
  <2>3. /\ ~(deployments[d].paid >= Principal[d])
        /\ Least(deployments[d].paid, Principal[d]) = 0
        /\ deployments[d].completed = FALSE /\ deployments[d].status # "completed"
        /\ deployments[d].paid = 0 /\ deployments[d].count = 0 /\ deployments[d].last = 0
    BY <2>1 DEF Least
  <2>4. {payments[r].date : r \in AppliedTo(d)} = {}
    BY <1>3
  <2> QED
    BY <1>3, <2>2, <2>3, <2>4, FS_EmptySet DEF Derived
<1> QED
  BY <1>1, <1>2, <1>4, <1>5 DEF IInv, LocksProtect, HoldsRow, HoldsKey, ReplayFindsRow

\* Every step keeps the inductive invariant.
LEMMA NextInv == IInv /\ [Next]_vars => IInv'
BY TypeStep, LocksStep, TilesStep, ReplayStep, DerivedStep DEF IInv

\* The inductive invariant holds throughout.
LEMMA Invariance == Spec => []IInv
BY InitInv, NextInv, PTL DEF Spec

\* The rows keep their types: in particular no balance, split or snapshot of
\* the ledger is ever negative.
THEOREM TypeInvariant == Spec => []TypeOK
<1>1. IInv => TypeOK
  BY DEF IInv
<1> QED
  BY <1>1, Invariance, PTL

\* applyPaymentQuery computes from rows nobody else can change before it
\* commits, although it takes no explicit lock.
THEOREM LocksInvariant == Spec => []LocksProtect
<1>1. IInv => LocksProtect
  BY DEF IInv
<1> QED
  BY <1>1, Invariance, PTL

\* The balance snapshots of a deployment's rows tile [0, amount_paid], for any
\* number of racing sessions: no lost update, no credit counted twice.
THEOREM TilesInvariant == Spec => []LedgerTiles
<1>1. IInv => LedgerTiles
  BY DEF IInv
<1> QED
  BY <1>1, Invariance, PTL

\* Every materialised column of a deployment is the aggregate of the rows applied
\* to it: the sum, the number, the latest date and whether the principal is reached.
THEOREM DerivableInvariant == Spec => []PositionIsDerivable
<1>1. IInv => PositionIsDerivable
  BY DerivedSays DEF IInv
<1> QED
  BY <1>1, Invariance, PTL

\* Of all the money applied to a deployment exactly the principal, or what has
\* come in of it, reduces the debt, in whatever order the credits raced.
THEOREM DebtInvariant == Spec => []DebtIsPaidOnce
<1>1. IInv => DebtIsPaidOnce
  BY DerivedSays DEF IInv
<1> QED
  BY <1>1, Invariance, PTL

\* replay and Record always find the row they collided with.
THEOREM ReplayInvariant == Spec => []ReplayFindsRow
<1>1. IInv => ReplayFindsRow
  BY DEF IInv
<1> QED
  BY <1>1, Invariance, PTL

\* No statement changes or removes a committed ledger row.
THEOREM LedgerAppendOnly == Spec => AppendOnly
<1>1. IInv /\ [Next]_vars =>
        [\A r \in Ref : payments[r] # NoRow => payments'[r] = payments[r]]_vars
  BY RowsStay DEF IInv
<1> QED
  BY <1>1, Invariance, PTL DEF Spec, AppendOnly

-----------------------------------------------------------------------------
(***************************************************************************)
(* Every commit is one atomic step of the abstract ledger.                 *)
(***************************************************************************)

\* Seen from the tables, a commit of Apply is a Credit of the abstract ledger.
LEMMA CommitAppliedIsCredit ==
    ASSUME IInv, NEW s \in Session, Commit(s), sess[s].call.op = "apply"
    PROVE  L!Next
<1>0. PICK c, row, ret : /\ c = sess[s].call /\ ret = sess[s].ret
                         /\ row = RowOf(c, ret)
  OBVIOUS
<1>1. /\ c.ref \in Ref /\ c.dep \in Dep /\ c.amount \in Amount
      /\ row \in PaymentRow
      /\ row.outcome = "applied" /\ row.dep = c.dep /\ row.amount = c.amount
      /\ row.before = deployments[c.dep].paid
      /\ row.after = deployments[c.dep].paid + c.amount
      /\ ret.paid = deployments[c.dep].paid + c.amount
      /\ payments[c.ref] = NoRow
      /\ payments' = [payments EXCEPT ![c.ref] = row]
      /\ deployments' = [deployments EXCEPT ![c.dep] = ret]
  BY <1>0, CommitApplied DEF IInv
<1>2. row # NoRow
  BY <1>1, NoRowAssumption
<1> DEFINE entries == [r \in Ref |-> EntryOf(payments[r])]
           balance == [d \in Dep |-> deployments[d].paid]
<1>3. entries[c.ref] = NoRow
  BY <1>1 DEF EntryOf
<1>4. balance' = [balance EXCEPT ![c.dep] = @ + c.amount]
  BY <1>1 DEF IInv, TypeOK
<1>5. EntryOf(row) = [outcome |-> "applied", dep |-> c.dep, amount |-> c.amount,
                      before |-> balance[c.dep],
                      after |-> balance[c.dep] + c.amount]
  BY <1>1, <1>2 DEF EntryOf
<1>6. entries' = [entries EXCEPT ![c.ref] = EntryOf(row)]
  <2>1. \A r \in Ref : payments'[r] = IF r = c.ref THEN row ELSE payments[r]
    BY <1>1 DEF IInv, TypeOK
  <2> QED
    BY <2>1
<1>7. L!Credit(c.ref, c.dep, c.amount)
  BY <1>3, <1>4, <1>5, <1>6 DEF L!Credit, L!Entry
<1> QED
  BY <1>1, <1>7 DEF L!Next

\* Seen from the tables, a commit of Record is a File of the abstract ledger.
LEMMA CommitFiledIsFile ==
    ASSUME IInv, NEW s \in Session, Commit(s), sess[s].call.op # "apply"
    PROVE  L!Next
<1>0. PICK c : c = sess[s].call
  OBVIOUS
<1>1. /\ c \in RecordCall /\ c.ref \in Ref /\ c.amount \in Amount
      /\ FiledRow(c) \in PaymentRow
      /\ payments[c.ref] = NoRow
      /\ payments' = [payments EXCEPT ![c.ref] = FiledRow(c)]
      /\ deployments' = deployments
  BY <1>0, CommitFiled DEF IInv
<1>2. FiledRow(c) # NoRow
  BY <1>1, NoRowAssumption
<1> DEFINE entries == [r \in Ref |-> EntryOf(payments[r])]
           balance == [d \in Dep |-> deployments[d].paid]
<1>3. entries[c.ref] = NoRow
  BY <1>1 DEF EntryOf
<1>4. balance' = balance
  BY <1>1
<1>5. EntryOf(FiledRow(c)) = [outcome |-> c.op, dep |-> c.dep, amount |-> c.amount,
                              before |-> 0, after |-> 0]
  BY <1>2 DEF EntryOf, FiledRow
<1>6. entries' = [entries EXCEPT ![c.ref] = EntryOf(FiledRow(c))]
  <2>1. \A r \in Ref : payments'[r] = IF r = c.ref THEN FiledRow(c) ELSE payments[r]
    BY <1>1 DEF IInv, TypeOK
  <2> QED
    BY <2>1
<1>7. L!File(c.ref, c.op, c.dep, c.amount)
  BY <1>3, <1>4, <1>5, <1>6 DEF L!File, L!Entry
<1>8. \/ c.op = "ignored" /\ c.dep \in Dep
      \/ c.op = "unmatched" /\ c.dep = NoDep
  BY <1>1 DEF RecordCall
<1> QED
  BY <1>1, <1>7, <1>8 DEF L!Next

\* ApplyStatement implements Ledger: whatever the sessions, snapshots and
\* locks do, an observer of the tables sees atomic credits and filings.
THEOREM ImplementsLedger == Spec => LedgerSpec
<1>1. Init => L!Init
  BY DEF Init, L!Init, EntryOf
<1>2. IInv /\ [Next]_vars => [L!Next]_L!vars
  <2> SUFFICES ASSUME IInv, [Next]_vars
               PROVE  [L!Next]_L!vars
    OBVIOUS
  <2>1. CASE UNCHANGED <<payments, deployments>>
    BY <2>1 DEF L!vars
  <2>2. CASE \E s \in Session : Commit(s)
    BY <2>2, CommitAppliedIsCredit, CommitFiledIsFile
  <2> QED
    BY <2>1, <2>2, OnlyCommitsPublish
<1> QED
  BY <1>1, <1>2, Invariance, PTL DEF Spec, LedgerSpec, L!Spec
=============================================================================
