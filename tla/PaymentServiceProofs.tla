------------------------ MODULE PaymentServiceProofs ------------------------
(***************************************************************************)
(* Proofs about PaymentService, for any calls, notifications, customers    *)
(* and deployments, with or without the queue.                             *)
(*                                                                         *)
(* The safety properties rest on one another: a cached result is a row of  *)
(* the ledger because the call that cached it holds that row, a call holds *)
(* it because rows are never changed, and the provider may be told to stop *)
(* after a cache hit because the cache repeats the ledger.  The inductive  *)
(* invariant takes them together, with what a call knows at each of its    *)
(* steps (Sound) and with one writer per row (OneWriter).                  *)
(***************************************************************************)
EXTENDS PaymentService, SumTheorems, TLAPS

-----------------------------------------------------------------------------
(***************************************************************************)
(* The inductive invariant.                                                *)
(***************************************************************************)

\* The call st knows the row of its reference: the committed one.
KnowsRow(st) == /\ st.n \in Notification
                /\ st.row # None
                /\ st.row = rows[st.n.ref]

\* Where a call may be, by kind, and what it has in hand there.
Placed(st) ==
    /\ st.pc # "done" => st.answer = "none"
    /\ st.pc # "done" /\ st.kind # "create" => st.n \in Notification
    /\ st.pc = "create" => st.kind = "create"
    /\ st.kind = "create" => st.pc \in {"done", "create", "fill"}
    /\ st.pc \in {"create", "fill", "apply"} => st.dep # None

\* Where the money of a call goes: to a deployment of its customer, and only
\* when it has settled.
Routed(st) ==
    /\ st.pc # "done" /\ st.kind # "create" /\ st.dep # None =>
          st.dep \in OwnedBy(st.n.customer)
    /\ st.pc = "fill" => deployments[st.dep] # None
    /\ st.pc = "apply" => st.n.settled

\* What the call says of the ledger.
Truthful(st) ==
    /\ st.pc \in {"cache", "reply"} => KnowsRow(st)
    /\ st.pc = "cache" => st.row.outcome = "applied"
    /\ st.fresh => KnowsRow(st) /\ st.pc \in {"cache", "reply", "done"}
    /\ ShowsRow(st.answer) =>
          /\ KnowsRow(st)
          /\ IF st.answer = "duplicate" THEN SameRequest(st.row, st.n)
             ELSE st.fresh /\ st.answer = st.row.outcome

Sound(st) == Placed(st) /\ Routed(st) /\ Truthful(st)

CallsSound == \A c \in Call : Sound(calls[c])

\* A row has one writer: two calls never both hold it as their own.
OneWriter ==
    \A c1, c2 \in Call :
        calls[c1].fresh /\ calls[c2].fresh /\ calls[c1].n.ref = calls[c2].n.ref
        => c1 = c2

\* Applied money is in a deployment, of its customer, and had settled.
CreditsSound ==
    \A r \in Ref : rows[r] # None /\ rows[r].outcome = "applied" =>
        /\ rows[r].settled
        /\ rows[r].dep \in OwnedBy(rows[r].customer)

\* A balance is the sum of finitely many credits.
BalancedAt(d) ==
    /\ IsFiniteSet(CreditsOf(d))
    /\ deployments[d] # None =>
          deployments[d].paid =
            SumFunctionOnSet([r \in CreditsOf(d) |-> rows[r].amount], CreditsOf(d))

Balanced == \A d \in Dep : BalancedAt(d)

IInv == /\ TypeOK
        /\ CallsSound
        /\ OneWriter
        /\ CachesRepeatDatabase
        /\ CreditsSound
        /\ Balanced
        /\ AcceptedIsKept

\* What is committed stays: rows as they are, deployments with their customer.
StoreGrows ==
    /\ \A r \in Ref : rows[r] # None => rows'[r] = rows[r]
    /\ \A d \in Dep : deployments[d] # None =>
          deployments'[d] # None /\ deployments'[d].customer = deployments[d].customer

\* The call moves on to a state that is sound afterwards.  If it holds the row as
\* its own there, it did before, or no call can: the row is new.
Moves(c) ==
    \E st \in CallState :
        /\ Goes(c, st)
        /\ Sound(st)'
        /\ st.fresh => \/ calls[c].fresh /\ st.n = calls[c].n
                       \/ rows[st.n.ref] = None

Step(c) == Arrive(c) \/ Work(c) \/ Fail(c)

-----------------------------------------------------------------------------
(***************************************************************************)
(* Notifications, rows and calls.                                          *)
(***************************************************************************)

LEMMA NoteType ==
    ASSUME NEW n \in Notification
    PROVE  /\ n.ref \in Ref /\ n.customer \in Customer /\ n.amount \in Nat \ {0}
           /\ n.amount \in Amount /\ n.currency \in Currency /\ n.settled \in BOOLEAN
           /\ n # None
<1>1. n \in [ref: Ref, customer: Customer, amount: Nat \ {0},
             currency: Currency, settled: BOOLEAN]
  BY NotificationAssumption
<1>2. n.amount \in Amount
  BY DEF Amount
<1> QED
  BY <1>1, <1>2, NoneAssumption

LEMMA AmountsAreNumbers == Amount \subseteq Nat
BY NoteType DEF Amount

LEMMA RowForType ==
    ASSUME NEW outcome \in {"applied", "unmatched", "ignored"}, NEW n \in Notification,
           NEW d \in Dep \cup {None}, NEW currency \in Currency,
           NEW before \in Nat, NEW after \in Nat
    PROVE  /\ RowFor(outcome, n, d, currency, before, after) \in Row
           /\ RowFor(outcome, n, d, currency, before, after) # None
<1>1. RowFor(outcome, n, d, currency, before, after) \in Row
  BY NoteType DEF RowFor, Row
<1> QED
  BY <1>1, NoneAssumption

\* The row of a credit.
LEMMA AppliedRow ==
    ASSUME NEW n \in Notification, NEW d \in Dep, NEW paid \in Nat, NEW row,
           row = RowFor("applied", n, d, DepCurrency[d], paid, paid + n.amount)
    PROVE  /\ row \in Row /\ row # None
           /\ row.outcome = "applied" /\ row.customer = n.customer /\ row.dep = d
           /\ row.amount = n.amount /\ row.settled = n.settled
           /\ row.before = paid /\ row.after = paid + n.amount
<1>1. DepCurrency[d] \in Currency /\ paid + n.amount \in Nat
  BY DepCurrencyAssumption, NoteType
<1>2. row \in Row /\ row # None
  BY <1>1, RowForType
<1> QED
  BY <1>2 DEF RowFor

LEMMA NewCallType ==
    ASSUME NEW kind \in {"http", "worker", "create"}, NEW pc \in Pc,
           NEW n \in Notification \cup {None}, NEW d \in Dep \cup {None}
    PROVE  NewCall(kind, pc, n, d) \in CallState
BY DEF NewCall, CallState, Answer

\* What a call knew before a step it knows after it.
LEMMA SoundFrame ==
    ASSUME TypeOK, StoreGrows, NEW st \in CallState, Sound(st)
    PROVE  Sound(st)'
<1>1. KnowsRow(st) => KnowsRow(st)'
  BY NoteType DEF KnowsRow, StoreGrows
<1>2. \A k \in Customer, d \in Dep : d \in OwnedBy(k) => d \in OwnedBy(k)'
  BY DEF StoreGrows, OwnedBy
<1>3. Placed(st)'
  BY DEF Sound, Placed
<1>4. Routed(st)'
  <2>1. st.pc # "done" /\ st.kind # "create" /\ st.dep # None =>
            st.dep \in OwnedBy(st.n.customer)'
    BY <1>2, NoteType DEF Sound, Routed, Placed, CallState
  <2>2. st.pc = "fill" => deployments'[st.dep] # None
    BY DEF Sound, Routed, Placed, CallState, StoreGrows
  <2> QED
    BY <2>1, <2>2 DEF Sound, Routed
<1>5. Truthful(st)'
  BY <1>1 DEF Sound, Truthful
<1> QED
  BY <1>3, <1>4, <1>5 DEF Sound

\* A call that moves on soundly leaves all calls sound, and a row one writer.
LEMMA MovesInv ==
    ASSUME TypeOK, CallsSound, OneWriter, StoreGrows, NEW c \in Call, Moves(c)
    PROVE  /\ calls' \in [Call -> CallState]
           /\ CallsSound'
           /\ OneWriter'
<1>1. PICK st \in CallState :
        /\ Goes(c, st)
        /\ Sound(st)'
        /\ st.fresh => \/ calls[c].fresh /\ st.n = calls[c].n
                       \/ rows[st.n.ref] = None
  BY DEF Moves
<1>2. calls' \in [Call -> CallState] /\ calls'[c] = st
      /\ \A x \in Call \ {c} : calls'[x] = calls[x]
  BY <1>1 DEF Goes, TypeOK
<1>3. CallsSound'
  <2>1. ASSUME NEW x \in Call, NEW t \in CallState, t = calls'[x], Sound(t)'
        PROVE  Sound(calls[x])'
    BY <2>1 DEF Sound, Placed, Routed, Truthful, KnowsRow
  <2>2. ASSUME NEW x \in Call \ {c}
        PROVE  Sound(calls[x])'
    <3>1. PICK t \in CallState : t = calls[x]
      BY DEF TypeOK
    <3>2. Sound(t)
      BY <3>1 DEF CallsSound
    <3>3. Sound(t)'
      BY <3>2, SoundFrame
    <3> QED
      BY <1>2, <2>1, <3>1, <3>3
  <2>3. Sound(calls[c])'
    BY <1>1, <1>2, <2>1
  <2> QED
    BY <2>2, <2>3 DEF CallsSound
<1>4. OneWriter'
  <2>1. \A x \in Call : calls[x].fresh =>
            calls[x].n \in Notification /\ rows[calls[x].n.ref] # None
    BY DEF CallsSound, Sound, Truthful, KnowsRow
  <2> SUFFICES ASSUME NEW x \in Call \ {c}, calls[x].fresh, st.fresh,
                      calls[x].n.ref = st.n.ref
               PROVE  FALSE
    BY <1>2 DEF OneWriter
  <2> QED
    BY <1>1, <2>1 DEF OneWriter
<1> QED
  BY <1>2, <1>3, <1>4

-----------------------------------------------------------------------------
(***************************************************************************)
(* Every step keeps what is committed, and moves its call on soundly.      *)
(***************************************************************************)

\* A call about to apply has settled money of its customer's deployment.
LEMMA ApplyRoutes ==
    ASSUME IInv, NEW c \in Call, At(c, "apply")
    PROVE  /\ Note(c) \in Notification
           /\ Note(c).settled
           /\ calls[c].dep \in Dep
           /\ deployments[calls[c].dep] # None
           /\ deployments[calls[c].dep].customer = Note(c).customer
           /\ deployments[calls[c].dep].paid \in Nat
<1>1. calls[c] \in CallState /\ Placed(calls[c]) /\ Routed(calls[c])
  BY DEF IInv, TypeOK, CallsSound, Sound
<1>2. /\ Note(c) \in Notification
      /\ Note(c).settled
      /\ calls[c].dep \in Dep
      /\ deployments[calls[c].dep] # None
      /\ deployments[calls[c].dep].customer = Note(c).customer
  BY <1>1 DEF At, Note, Placed, Routed, OwnedBy
<1>3. deployments[calls[c].dep] \in Deployment
  BY <1>2 DEF IInv, TypeOK
<1> QED
  BY <1>2, <1>3 DEF Deployment

LEMMA StepGrows ==
    ASSUME IInv, NEW c \in Call, Step(c)
    PROVE  StoreGrows
<1> USE DEF IInv, StoreGrows
<1>1. CASE UNCHANGED store
  BY <1>1 DEF store
<1>2. CASE Record(c)
  BY <1>2 DEF Record, TypeOK
<1>3. ASSUME Apply(c)
      PROVE  StoreGrows
  <2>0. At(c, "apply")
    BY <1>3 DEF Apply
  <2>1. CASE UNCHANGED store
    BY <2>1 DEF store
  <2>2. ASSUME ~UNCHANGED store
        PROVE  StoreGrows
    <3>1. PICK d \in Dep : d = calls[c].dep
      BY <2>0, ApplyRoutes
    <3>2. /\ rows[Note(c).ref] = None
          /\ rows' = [rows EXCEPT ![Note(c).ref] =
                        RowFor("applied", Note(c), d, DepCurrency[d], deployments[d].paid,
                               deployments[d].paid + Note(c).amount)]
          /\ deployments' = [deployments EXCEPT ![d].paid = @ + Note(c).amount]
      BY <1>3, <2>2, <3>1 DEF Apply
    <3>3. deployments[d] \in Deployment /\ Note(c).amount \in Nat
      BY <2>0, <3>1, ApplyRoutes, NoteType DEF TypeOK
    <3>4. /\ deployments'[d] = [deployments[d] EXCEPT !.paid = @ + Note(c).amount]
          /\ \A x \in Dep \ {d} : deployments'[x] = deployments[x]
      BY <3>2 DEF TypeOK
    <3>5. deployments'[d] \in Deployment
          /\ deployments'[d].customer = deployments[d].customer
      BY <3>3, <3>4 DEF Deployment
    <3>6. \A x \in Ref : rows[x] # None => rows'[x] = rows[x]
      BY <3>2 DEF TypeOK
    <3> QED
      BY <3>4, <3>5, <3>6, NoneAssumption
  <2> QED
    BY <1>3, <2>1, <2>2 DEF Apply
<1>4. ASSUME NEW k \in Customer, Create(c, k)
      PROVE  StoreGrows
  <2>1. deployments[calls[c].dep] = None \/ UNCHANGED deployments
    BY <1>4 DEF Create
  <2> QED
    BY <1>4, <2>1 DEF Create, TypeOK
<1>5. CASE Arrive(c) \/ Fail(c)
  BY <1>1, <1>5 DEF Arrive, Fail, Receive, Deliver, StartCreate
<1>6. CASE Work(c)
  BY <1>1, <1>2, <1>3, <1>4, <1>6
     DEF Work, LookupHit, LookupMiss, Enqueue, EnqueueFails, RouteCached, RouteMiss,
         RouteRead, RouteFails, FillRoute, CacheResult, Reply, FillCreated
<1> QED
  BY <1>5, <1>6 DEF Step

\* A call that ends is sound if it may say what it answers.
LEMMA EndsMoves ==
    ASSUME IInv, StoreGrows, NEW c \in Call, NEW answer \in Answer, Ends(c, answer),
           ShowsRow(answer) =>
               /\ KnowsRow(calls[c])
               /\ IF answer = "duplicate" THEN SameRequest(calls[c].row, calls[c].n)
                  ELSE calls[c].fresh /\ answer = calls[c].row.outcome
    PROVE  Moves(c)
<1> USE DEF IInv
<1>1. calls[c] \in CallState /\ Sound(calls[c])
  BY DEF TypeOK, CallsSound
<1>2. CASE ShowsRow(answer)
  <2>1. PICK st \in CallState :
          st = [calls[c] EXCEPT !.pc = "done", !.answer = answer]
    BY <1>1 DEF CallState, Pc
  <2>2. Goes(c, st)
    BY <1>2, <2>1 DEF Ends
  <2>3. /\ st.pc = "done" /\ st.answer = answer /\ st.fresh = calls[c].fresh
        /\ st.n = calls[c].n /\ st.row = calls[c].row
    BY <1>1, <2>1 DEF CallState
  <2>4. Sound(st)
    BY <1>1, <1>2, <2>3 DEF Sound, Placed, Routed, Truthful, KnowsRow
  <2>5. Sound(st)'
    BY <2>4, SoundFrame
  <2> QED
    BY <2>2, <2>3, <2>5 DEF Moves
<1>3. CASE ~ShowsRow(answer)
  <2>1. PICK st \in CallState :
          st = [NewCall(calls[c].kind, "done", Note(c), None) EXCEPT !.answer = answer]
    BY <1>1 DEF CallState, Pc, NewCall, Note, Answer
  <2>2. Goes(c, st)
    BY <1>3, <2>1 DEF Ends
  <2>3. st.pc = "done" /\ st.answer = answer /\ ~st.fresh /\ st.kind = calls[c].kind
    BY <2>1 DEF NewCall
  <2>4. Sound(st)
    BY <1>1, <1>3, <2>3 DEF Sound, Placed, Routed, Truthful
  <2>5. Sound(st)'
    BY <2>4, SoundFrame
  <2> QED
    BY <2>2, <2>3, <2>5 DEF Moves
<1> QED
  BY <1>2, <1>3

\* A call that writes no row moves on soundly if its next state is sound already.
LEMMA ContinuesMoves ==
    ASSUME IInv, StoreGrows, NEW c \in Call, NEW st \in CallState, Goes(c, st), Sound(st),
           st.fresh => calls[c].fresh /\ st.n = calls[c].n
    PROVE  Moves(c)
<1>1. Sound(st)'
  BY SoundFrame DEF IInv
<1> QED
  BY <1>1 DEF Moves

\* Arrivals start with nothing in hand.
LEMMA ArriveMoves ==
    ASSUME IInv, StoreGrows, NEW c \in Call, Arrive(c)
    PROVE  Moves(c)
<1>1. ASSUME NEW kind \in {"http", "worker", "create"},
             NEW pc \in {"lookup", "resolve", "create"},
             NEW n \in Notification \cup {None}, NEW d \in Dep \cup {None},
             Goes(c, NewCall(kind, pc, n, d)),
             kind # "create" => n \in Notification /\ pc # "create" /\ d = None,
             kind = "create" => pc = "create" /\ d # None
      PROVE  Moves(c)
  <2>1. PICK st \in CallState : st = NewCall(kind, pc, n, d)
    BY NewCallType DEF Pc
  <2>2. Sound(st) /\ ~st.fresh
    BY <1>1, <2>1 DEF Sound, Placed, Routed, Truthful, NewCall, ShowsRow
  <2> QED
    BY <1>1, <2>1, <2>2, ContinuesMoves
<1>2. ASSUME NEW n \in Notification, Receive(c, n)
      PROVE  Moves(c)
  BY <1>1, <1>2 DEF Receive
<1>3. ASSUME NEW n \in Notification, Deliver(c, n)
      PROVE  Moves(c)
  BY <1>1, <1>3 DEF Deliver
<1>4. ASSUME NEW d \in Dep, StartCreate(c, d)
      PROVE  Moves(c)
  BY <1>1, <1>4, NoneAssumption DEF StartCreate
<1> QED
  BY <1>2, <1>3, <1>4 DEF Arrive

\* Before the ledger nothing is known of it, but what a cache hit repeats.
LEMMA AcceptMoves ==
    ASSUME IInv, StoreGrows, NEW c \in Call,
           LookupHit(c) \/ LookupMiss(c) \/ Enqueue(c) \/ EnqueueFails(c)
    PROVE  Moves(c)
<1> USE DEF Note, At
<1>1. calls[c] \in CallState /\ Sound(calls[c])
  BY DEF IInv, TypeOK, CallsSound
<1>2. calls[c].n \in Notification
  BY <1>1 DEF LookupHit, LookupMiss, Enqueue, EnqueueFails, CallState, Sound, Placed
<1>3. CASE LookupHit(c)
  <2> DEFINE n == calls[c].n
             found == resultCache[n.ref]
             answer == CachedAnswer(found, n)
  <2>1. n.ref \in Ref /\ found # None /\ found = rows[n.ref]
    BY <1>2, <1>3, NoteType DEF LookupHit, IInv, CachesRepeatDatabase
  <2>2. found \in Row
    BY <2>1 DEF IInv, TypeOK
  <2>3. PICK st \in CallState :
          st = [calls[c] EXCEPT !.pc = "done", !.row = found, !.dep = found.dep,
                                !.answer = answer]
    BY <1>1, <2>2 DEF CallState, Row, Pc, CachedAnswer, Answer
  <2>4. /\ st.pc = "done" /\ st.row = found /\ st.answer = answer
        /\ st.kind = calls[c].kind /\ st.n = n /\ st.fresh = calls[c].fresh
    BY <1>1, <2>3 DEF CallState
  <2>5. ~calls[c].fresh
    BY <1>1, <1>3 DEF LookupHit, Sound, Truthful
  <2>6. answer \in {"duplicate", "conflict"}
        /\ (answer = "duplicate" => SameRequest(found, n))
    BY DEF CachedAnswer
  <2>7. Sound(st)
    BY <1>2, <2>1, <2>4, <2>5, <2>6
       DEF Sound, Placed, Routed, Truthful, KnowsRow, ShowsRow
  <2> QED
    BY <1>3, <2>3, <2>4, <2>5, <2>7, ContinuesMoves DEF LookupHit
<1>4. CASE Enqueue(c)
  BY <1>4, EndsMoves DEF Enqueue, ShowsRow, Answer
<1>5. ASSUME NEW pc \in {"enqueue", "resolve"},
             calls[c].pc \in {"lookup", "enqueue"},
             Goes(c, [calls[c] EXCEPT !.pc = pc])
      PROVE  Moves(c)
  <2>1. PICK st \in CallState : st = [calls[c] EXCEPT !.pc = pc]
    BY <1>1 DEF CallState, Pc
  <2>2. /\ st.pc = pc /\ st.kind = calls[c].kind /\ st.n = calls[c].n
        /\ st.fresh = calls[c].fresh /\ st.answer = calls[c].answer
        /\ st.dep = calls[c].dep
    BY <1>1, <2>1 DEF CallState
  <2>3. Sound(st)
    BY <1>1, <1>5, <2>2 DEF Sound, Placed, Routed, Truthful, ShowsRow
  <2> QED
    BY <1>5, <2>1, <2>2, <2>3, ContinuesMoves
<1>6. CASE LookupMiss(c)
  BY <1>5, <1>6 DEF LookupMiss
<1>7. CASE EnqueueFails(c)
  BY <1>5, <1>7 DEF EnqueueFails
<1> QED
  BY <1>3, <1>4, <1>6, <1>7

\* Routing finds a deployment of the customer, in the cache or in the database.
LEMMA RouteMoves ==
    ASSUME IInv, StoreGrows, NEW c \in Call,
           \/ RouteCached(c) \/ RouteMiss(c) \/ RouteRead(c) \/ RouteFails(c)
           \/ FillRoute(c)
    PROVE  Moves(c)
<1> USE DEF Note, At
<1>1. calls[c] \in CallState /\ Sound(calls[c])
  BY DEF IInv, TypeOK, CallsSound
<1>2. /\ calls[c].n \in Notification /\ calls[c].kind # "create"
      /\ calls[c].pc \in {"resolve", "route", "fill"}
  BY <1>1 DEF RouteCached, RouteMiss, RouteRead, RouteFails, FillRoute,
              CallState, Sound, Placed
<1>3. calls[c].n.customer \in Customer
  BY <1>2, NoteType
<1>4. \A d \in Dep : d \in OwnedBy(calls[c].n.customer) =>
          d # None /\ deployments[d] # None
  BY NoneAssumption DEF OwnedBy
<1>5. ASSUME NEW pc \in {"route", "fill", "apply", "record"}, NEW d \in Dep \cup {None},
             Goes(c, [calls[c] EXCEPT !.pc = pc, !.dep = d]),
             d # None => d \in OwnedBy(calls[c].n.customer),
             pc \in {"fill", "apply"} => d # None,
             pc = "apply" => calls[c].n.settled
      PROVE  Moves(c)
  <2>1. PICK st \in CallState : st = [calls[c] EXCEPT !.pc = pc, !.dep = d]
    BY <1>1 DEF CallState, Pc
  <2>2. /\ st.pc = pc /\ st.kind = calls[c].kind /\ st.n = calls[c].n
        /\ st.fresh = calls[c].fresh /\ st.answer = calls[c].answer
        /\ st.dep = d
    BY <1>1, <2>1 DEF CallState
  <2>3. Sound(st)
    BY <1>1, <1>2, <1>4, <1>5, <2>2 DEF Sound, Placed, Routed, Truthful, ShowsRow
  <2> QED
    BY <1>5, <2>1, <2>2, <2>3, ContinuesMoves
<1>6. ASSUME NEW pc \in {"route", "fill", "apply", "record"},
             Goes(c, [calls[c] EXCEPT !.pc = pc]),
             pc \in {"fill", "apply"} => calls[c].dep # None,
             pc = "apply" => calls[c].n.settled
      PROVE  Moves(c)
  <2>1. calls[c].dep \in Dep \cup {None}
        /\ [calls[c] EXCEPT !.pc = pc] = [calls[c] EXCEPT !.pc = pc, !.dep = calls[c].dep]
    BY <1>1 DEF CallState
  <2>2. calls[c].dep # None => calls[c].dep \in OwnedBy(calls[c].n.customer)
    BY <1>1, <1>2 DEF Sound, Routed
  <2> QED
    BY <1>5, <1>6, <2>1, <2>2
<1>7. CASE RouteCached(c)
  <2>1. refCache[calls[c].n.customer] \in OwnedBy(calls[c].n.customer)
        /\ refCache[calls[c].n.customer] \in Dep
    BY <1>3, <1>7 DEF RouteCached, IInv, CachesRepeatDatabase, TypeOK
  <2>2. AfterRouting(calls[c].n) \in {"apply", "record"}
        /\ (AfterRouting(calls[c].n) = "apply" => calls[c].n.settled)
    BY DEF AfterRouting
  <2> QED
    BY <1>4, <1>5, <1>7, <2>1, <2>2 DEF RouteCached
<1>8. CASE RouteMiss(c)
  BY <1>6, <1>8 DEF RouteMiss
<1>9. CASE RouteRead(c)
  <2>1. PICK d \in OpenOf(calls[c].n.customer) :
          Goes(c, [calls[c] EXCEPT !.pc = "fill", !.dep = d])
    BY <1>9 DEF RouteRead
  <2>2. d \in OwnedBy(calls[c].n.customer) /\ d \in Dep
    BY DEF OpenOf, OwnedBy
  <2> QED
    BY <1>4, <1>5, <2>1, <2>2
<1>10. CASE RouteFails(c)
  BY <1>6, <1>10 DEF RouteFails
<1>11. CASE FillRoute(c)
  <2>1. calls[c].dep # None
    BY <1>1, <1>11 DEF FillRoute, Sound, Placed
  <2>2. AfterRouting(calls[c].n) \in {"apply", "record"}
        /\ (AfterRouting(calls[c].n) = "apply" => calls[c].n.settled)
    BY DEF AfterRouting
  <2> QED
    BY <1>6, <1>11, <2>1, <2>2 DEF FillRoute
<1> QED
  BY <1>7, <1>8, <1>9, <1>10, <1>11

\* At the ledger a call finds the row of its reference or writes it.
LEMMA LedgerMoves ==
    ASSUME IInv, StoreGrows, NEW c \in Call, Record(c) \/ Apply(c)
    PROVE  Moves(c)
<1> USE DEF Note, At
<1>1. calls[c] \in CallState /\ Sound(calls[c])
  BY DEF IInv, TypeOK, CallsSound
<1>2. /\ calls[c].n \in Notification /\ calls[c].kind # "create"
      /\ calls[c].pc \in {"record", "apply"}
  BY <1>1 DEF Record, Apply, CallState, Sound, Placed
<1>3. calls[c].n.ref \in Ref /\ calls[c].n.currency \in Currency
  BY <1>2, NoteType
<1>4. ~calls[c].fresh /\ calls[c].answer = "none"
  BY <1>1, <1>2 DEF Sound, Truthful, Placed, CallState
<1>5. ASSUME NEW pc \in {"cache", "reply"}, NEW row \in Row, NEW fresh \in BOOLEAN,
             Goes(c, [calls[c] EXCEPT !.pc = pc, !.row = row, !.fresh = fresh]),
             row = rows'[calls[c].n.ref],
             pc = "cache" => row.outcome = "applied",
             fresh => rows[calls[c].n.ref] = None
      PROVE  Moves(c)
  <2>1. PICK st \in CallState :
          st = [calls[c] EXCEPT !.pc = pc, !.row = row, !.fresh = fresh]
    BY <1>1 DEF CallState, Pc
  <2>2. /\ st.pc = pc /\ st.kind = calls[c].kind /\ st.n = calls[c].n
        /\ st.row = row /\ st.fresh = fresh /\ st.answer = "none" /\ st.dep = calls[c].dep
    BY <1>1, <1>4, <2>1 DEF CallState
  <2>3. Placed(st)'
    BY <1>2, <2>2 DEF Placed
  <2>4. Routed(st)'
    <3>1. Routed(st) /\ Placed(st)
      BY <1>1, <1>2, <2>2 DEF Sound, Routed, Placed
    <3>2. st.dep # None => st.dep \in OwnedBy(st.n.customer)'
      BY <1>2, <2>2, <3>1, NoteType DEF Routed, OwnedBy, StoreGrows
    <3> QED
      BY <2>2, <3>2 DEF Routed
  <2>5. Truthful(st)'
    BY <1>2, <1>5, <2>2, NoneAssumption DEF Truthful, KnowsRow, ShowsRow
  <2>6. Sound(st)'
    BY <2>3, <2>4, <2>5 DEF Sound
  <2> QED
    BY <1>5, <2>1, <2>2, <2>6 DEF Moves
<1>6. CASE Record(c)
  <2> DEFINE n == calls[c].n
             d == calls[c].dep
             new == RowFor(IF d = None THEN "unmatched" ELSE "ignored", n, d,
                           n.currency, 0, 0)
             fresh == rows[n.ref] = None
  <2>1. new \in Row
    BY <1>1, <1>2, <1>3, RowForType DEF CallState
  <2>2. /\ rows' = IF fresh THEN [rows EXCEPT ![n.ref] = new] ELSE rows
        /\ Goes(c, [calls[c] EXCEPT !.pc = "reply", !.row = rows'[n.ref],
                                    !.fresh = fresh])
    BY <1>6 DEF Record
  <2>3. rows'[n.ref] \in Row /\ fresh \in BOOLEAN
    BY <1>3, <2>1, <2>2 DEF IInv, TypeOK
  <2> HIDE DEF fresh, new
  <2>4. PICK row \in Row, b \in BOOLEAN : row = rows'[n.ref] /\ b = fresh
    BY <2>3
  <2> QED
    BY <1>5, <2>2, <2>4 DEF fresh
<1>7. CASE Apply(c)
  <2> DEFINE n == calls[c].n
             d == calls[c].dep
             paid == deployments[d].paid
             new == RowFor("applied", n, d, DepCurrency[d], paid, paid + n.amount)
  <2>1. d \in Dep /\ paid \in Nat
    BY <1>7, ApplyRoutes DEF Apply
  <2>2. new \in Row /\ new.outcome = "applied"
    BY <1>2, <2>1, AppliedRow
  <2>3. CASE /\ rows[n.ref] = None
             /\ rows' = [rows EXCEPT ![n.ref] = new]
             /\ Goes(c, [calls[c] EXCEPT !.pc = "cache", !.row = new, !.fresh = TRUE])
    <3>1. rows'[n.ref] = new
      BY <1>3, <2>3 DEF IInv, TypeOK
    <3> HIDE DEF new
    <3> QED
      BY <1>5, <2>2, <2>3, <3>1
  <2>4. CASE /\ rows[n.ref] # None
             /\ Goes(c, [calls[c] EXCEPT !.pc = "reply", !.row = rows[n.ref]])
             /\ UNCHANGED store
    <3>1. rows'[n.ref] \in Row /\ rows'[n.ref] = rows[n.ref]
      BY <1>3, <2>4 DEF IInv, TypeOK, store
    <3>2. [calls[c] EXCEPT !.pc = "reply", !.row = rows[n.ref]] =
              [calls[c] EXCEPT !.pc = "reply", !.row = rows'[n.ref], !.fresh = FALSE]
      BY <1>1, <1>4, <3>1 DEF CallState
    <3> QED
      BY <1>5, <2>4, <3>1, <3>2
  <2> QED
    BY <1>7, <2>3, <2>4 DEF Apply
<1> QED
  BY <1>6, <1>7

\* Caching a result, answering and failing leave the call with what it knew.
LEMMA AnswerMoves ==
    ASSUME IInv, StoreGrows, NEW c \in Call, CacheResult(c) \/ Reply(c) \/ Fail(c)
    PROVE  Moves(c)
<1> USE DEF Note, At
<1>1. calls[c] \in CallState /\ Sound(calls[c])
  BY DEF IInv, TypeOK, CallsSound
<1>2. CASE CacheResult(c)
  <2>1. PICK st \in CallState : st = [calls[c] EXCEPT !.pc = "reply"]
    BY <1>1 DEF CallState, Pc
  <2>2. /\ st.pc = "reply" /\ st.kind = calls[c].kind /\ st.n = calls[c].n
        /\ st.row = calls[c].row /\ st.dep = calls[c].dep
        /\ st.fresh = calls[c].fresh /\ st.answer = calls[c].answer
    BY <1>1, <2>1 DEF CallState
  <2>3. Sound(st)
    BY <1>1, <1>2, <2>2
       DEF CacheResult, Sound, Placed, Routed, Truthful, KnowsRow, ShowsRow
  <2> QED
    BY <1>2, <2>1, <2>2, <2>3, ContinuesMoves DEF CacheResult
<1>3. CASE Reply(c)
  <2> DEFINE answer == Outcome(calls[c])
  <2>1. KnowsRow(calls[c])
    BY <1>1, <1>3 DEF Reply, Sound, Truthful
  <2>2. calls[c].row.outcome \in {"applied", "unmatched", "ignored"}
    BY <1>1, <2>1 DEF KnowsRow, CallState, Row
  <2>3. /\ answer \in Answer
        /\ IF answer = "duplicate" THEN SameRequest(calls[c].row, calls[c].n)
           ELSE ShowsRow(answer) => calls[c].fresh /\ answer = calls[c].row.outcome
    BY <2>2 DEF Outcome, Answer, ShowsRow
  <2>4. Ends(c, answer)
    BY <1>3 DEF Reply
  <2> HIDE DEF answer
  <2> QED
    BY <2>1, <2>3, <2>4, EndsMoves
<1>4. CASE Fail(c)
  BY <1>4, EndsMoves DEF Fail, ShowsRow, Answer
<1> QED
  BY <1>2, <1>3, <1>4

\* A deployment is there when its creator goes on to cache the route to it.
LEMMA CreateMoves ==
    ASSUME IInv, StoreGrows, NEW c \in Call,
           FillCreated(c) \/ \E k \in Customer : Create(c, k)
    PROVE  Moves(c)
<1> USE DEF Note, At
<1>1. calls[c] \in CallState /\ Sound(calls[c])
  BY DEF IInv, TypeOK, CallsSound
<1>2. CASE FillCreated(c)
  BY <1>2, EndsMoves DEF FillCreated, ShowsRow, Answer
<1>3. ASSUME NEW k \in Customer, Create(c, k)
      PROVE  Moves(c)
  <2> DEFINE d == calls[c].dep
  <2>1. d \in Dep /\ d # None /\ calls[c].kind = "create" /\ ~calls[c].fresh
        /\ calls[c].answer = "none" /\ calls[c].pc = "create"
    BY <1>1, <1>3 DEF Create, CallState, Sound, Placed, Truthful
  <2>2. CASE /\ deployments' = [deployments EXCEPT ![d] = [customer |-> k, paid |-> 0]]
             /\ Goes(c, [calls[c] EXCEPT !.pc = "fill"])
    <3>1. PICK st \in CallState : st = [calls[c] EXCEPT !.pc = "fill"]
      BY <1>1 DEF CallState, Pc
    <3>2. /\ st.pc = "fill" /\ st.kind = "create" /\ st.dep = d
          /\ ~st.fresh /\ st.answer = "none"
      BY <1>1, <2>1, <3>1 DEF CallState
    <3>3. deployments'[d] \in Deployment
      BY <2>1, <2>2 DEF IInv, TypeOK, Deployment
    <3>4. deployments'[d] # None
      BY <3>3, NoneAssumption
    <3>5. Sound(st)'
      BY <2>1, <3>2, <3>4 DEF Sound, Placed, Routed, Truthful, ShowsRow
    <3> QED
      BY <2>2, <3>1, <3>2, <3>5 DEF Moves
  <2>3. CASE Ends(c, "conflict")
    BY <2>3, EndsMoves DEF ShowsRow, Answer
  <2> QED
    BY <1>3, <2>2, <2>3 DEF Create
<1> QED
  BY <1>2, <1>3

LEMMA StepMoves ==
    ASSUME IInv, NEW c \in Call, Step(c)
    PROVE  StoreGrows /\ Moves(c)
<1>1. StoreGrows
  BY StepGrows
<1>2. Moves(c)
  BY <1>1, ArriveMoves, AcceptMoves, RouteMoves, LedgerMoves, AnswerMoves, CreateMoves
     DEF Step, Work
<1> QED
  BY <1>1, <1>2

-----------------------------------------------------------------------------
(***************************************************************************)
(* The caches, the queue and the money after a step.                       *)
(***************************************************************************)

\* A step that writes no cache leaves it repeating the database, which keeps what
\* it had.
LEMMA CachesFrame ==
    ASSUME IInv, StoreGrows
    PROVE  /\ \A r \in Ref : resultCache[r] # None =>
                  resultCache[r] = rows'[r] /\ rows'[r].outcome = "applied"
           /\ \A k \in Customer : refCache[k] # None => refCache[k] \in OwnedBy(k)'
BY DEF IInv, StoreGrows, CachesRepeatDatabase, OwnedBy

LEMMA CachesInv ==
    ASSUME IInv, StoreGrows, NEW c \in Call, Step(c)
    PROVE  CachesRepeatDatabase'
<1> USE DEF Note, At
<1>1. calls[c] \in CallState /\ Sound(calls[c])
  BY DEF IInv, TypeOK, CallsSound
<1>2. CASE UNCHANGED caches
  BY <1>2, CachesFrame DEF caches, CachesRepeatDatabase
<1>3. CASE CacheResult(c)
  <2> DEFINE n == calls[c].n
  <2>1. /\ n \in Notification /\ calls[c].row # None /\ calls[c].row = rows[n.ref]
        /\ calls[c].row.outcome = "applied"
    BY <1>1, <1>3 DEF CacheResult, Sound, Truthful, KnowsRow
  <2>2. /\ rows' = rows /\ refCache' = refCache
        /\ resultCache' \in {resultCache, [resultCache EXCEPT ![n.ref] = calls[c].row]}
    BY <1>3 DEF CacheResult, CachedRow, store
  <2>3. \A r \in Ref : resultCache'[r] = resultCache[r]
                       \/ (r = n.ref /\ resultCache'[r] = calls[c].row)
    BY <2>2 DEF IInv, TypeOK
  <2> QED
    BY <2>1, <2>2, <2>3, CachesFrame DEF CachesRepeatDatabase
<1>4. ASSUME NEW k \in Customer, NEW d \in Dep, d \in OwnedBy(k),
             UNCHANGED <<store, resultCache>>,
             refCache' \in {refCache, [refCache EXCEPT ![k] = d]}
      PROVE  CachesRepeatDatabase'
  <2>1. \A x \in Customer : refCache'[x] = refCache[x] \/ (x = k /\ refCache'[x] = d)
    BY <1>4 DEF IInv, TypeOK
  <2>2. d \in OwnedBy(k)'
    BY <1>4 DEF OwnedBy, store
  <2> QED
    BY <1>4, <2>1, <2>2, CachesFrame DEF CachesRepeatDatabase
<1>5. CASE FillRoute(c)
  <2>1. calls[c].n \in Notification /\ calls[c].dep \in Dep
        /\ calls[c].dep \in OwnedBy(calls[c].n.customer)
    BY <1>1, <1>5 DEF FillRoute, Sound, Placed, Routed, CallState
  <2> QED
    BY <1>4, <1>5, <2>1, NoteType DEF FillRoute
<1>6. CASE FillCreated(c)
  <2>1. calls[c].dep \in Dep /\ deployments[calls[c].dep] # None
    BY <1>1, <1>6 DEF FillCreated, Sound, Placed, Routed, CallState
  <2>2. deployments[calls[c].dep].customer \in Customer
    BY <2>1 DEF IInv, TypeOK, Deployment
  <2>3. calls[c].dep \in OwnedBy(deployments[calls[c].dep].customer)
    BY <2>1 DEF OwnedBy
  <2> QED
    BY <1>4, <1>6, <2>1, <2>2, <2>3 DEF FillCreated
<1>7. CASE Arrive(c) \/ Fail(c)
  BY <1>2, <1>7 DEF Arrive, Receive, Deliver, StartCreate, Fail
<1>8. CASE Work(c)
  BY <1>2, <1>3, <1>5, <1>6, <1>8
     DEF Work, LookupHit, LookupMiss, Enqueue, EnqueueFails, RouteCached, RouteMiss,
         RouteRead, RouteFails, Record, Apply, Reply, Create
<1> QED
  BY <1>7, <1>8 DEF Step

\* A balance that did not move is still the sum of credits that did not change.
LEMMA BalancedFrame ==
    ASSUME NEW d \in Dep, BalancedAt(d), deployments'[d] = deployments[d],
           CreditsOf(d)' = CreditsOf(d), \A r \in CreditsOf(d) : rows'[r] = rows[r]
    PROVE  BalancedAt(d)'
<1> DEFINE S == CreditsOf(d)
<1>1. [r \in S |-> rows'[r].amount] = [r \in S |-> rows[r].amount]
  OBVIOUS
<1>2. S' = S
  OBVIOUS
<1> HIDE DEF S
<1>3. BalancedAt(d)' <=> /\ IsFiniteSet(S)
                         /\ deployments'[d] # None =>
                              deployments'[d].paid =
                                SumFunctionOnSet([r \in S |-> rows'[r].amount], S)
  BY <1>2 DEF BalancedAt, S
<1> QED
  BY <1>1, <1>3 DEF BalancedAt, S

\* A row that is no credit of a deployment leaves its credits alone.
LEMMA CreditsFrame ==
    ASSUME NEW d \in Dep, NEW ref \in Ref,
           \A r \in Ref \ {ref} : rows'[r] = rows[r],
           rows[ref] = None,
           rows'[ref].outcome # "applied" \/ rows'[ref].dep # d
    PROVE  /\ CreditsOf(d)' = CreditsOf(d)
           /\ \A r \in CreditsOf(d) : rows'[r] = rows[r]
BY DEF CreditsOf

\* A credit is added to the balance of its deployment and to no other.
LEMMA ApplyBalanced ==
    ASSUME IInv, StoreGrows, NEW c \in Call, Apply(c)
    PROVE  CreditsSound' /\ Balanced'
<1> USE DEF Note
<1>1. PICK n \in Notification, d0 \in Dep : n = Note(c) /\ d0 = calls[c].dep
  BY ApplyRoutes DEF Apply
<1>2. /\ n.settled /\ deployments[d0] # None /\ deployments[d0].customer = n.customer
      /\ n.ref \in Ref /\ n.amount \in Nat /\ deployments[d0].paid \in Nat
  BY <1>1, ApplyRoutes, NoteType DEF Apply
<1>3. CASE UNCHANGED store
  <2>1. CreditsSound'
    BY <1>3 DEF IInv, CreditsSound, OwnedBy, store
  <2>2. ASSUME NEW d \in Dep PROVE BalancedAt(d)'
    BY <1>3, BalancedFrame DEF IInv, Balanced, CreditsOf, store
  <2> QED
    BY <2>1, <2>2 DEF Balanced
<1>4. ASSUME ~UNCHANGED store
      PROVE  CreditsSound' /\ Balanced'
  <2>1. PICK new : new = RowFor("applied", n, d0, DepCurrency[d0], deployments[d0].paid,
                           deployments[d0].paid + n.amount)
    OBVIOUS
  <2>2. /\ rows[n.ref] = None
        /\ rows' = [rows EXCEPT ![n.ref] = new]
        /\ deployments' = [deployments EXCEPT ![d0].paid = @ + n.amount]
    BY <1>1, <1>4, <2>1 DEF Apply
  <2>3. /\ new.outcome = "applied" /\ new.dep = d0 /\ new.amount = n.amount
        /\ new.settled /\ new.customer = n.customer /\ new # None
    BY <1>2, <2>1, AppliedRow
  <2>4. rows'[n.ref] = new /\ \A r \in Ref \ {n.ref} : rows'[r] = rows[r]
    BY <1>2, <2>2 DEF IInv, TypeOK
  <2>5. deployments[d0] \in Deployment /\ deployments'[d0].paid = deployments[d0].paid + n.amount
        /\ \A d \in Dep \ {d0} : deployments'[d] = deployments[d]
    BY <1>2, <2>2 DEF IInv, TypeOK, Deployment
  <2>6. CreditsSound'
    <3>1. ASSUME NEW r \in Ref, rows'[r] # None, rows'[r].outcome = "applied"
          PROVE  rows'[r].settled /\ rows'[r].dep \in Dep
                 /\ deployments[rows'[r].dep] # None
                 /\ deployments[rows'[r].dep].customer = rows'[r].customer
      BY <1>2, <2>3, <2>4, <3>1 DEF IInv, CreditsSound, OwnedBy
    <3> QED
      BY <3>1 DEF CreditsSound, OwnedBy, StoreGrows
  <2>7. ASSUME NEW d \in Dep \ {d0}
        PROVE  BalancedAt(d)'
    <3>1. /\ CreditsOf(d)' = CreditsOf(d)
          /\ \A r \in CreditsOf(d) : rows'[r] = rows[r]
      BY <1>2, <2>2, <2>3, <2>4, CreditsFrame
    <3> QED
      BY <2>5, <3>1, BalancedFrame DEF IInv, Balanced
  <2>8. BalancedAt(d0)'
    <3> DEFINE S == CreditsOf(d0)
               f == [r \in S |-> rows[r].amount]
               g == [r \in S \cup {n.ref} |-> rows'[r].amount]
    <3>1. n.ref \notin S /\ CreditsOf(d0)' = S \cup {n.ref}
      BY <1>2, <2>2, <2>3, <2>4 DEF CreditsOf
    <3>2. \A r \in S : rows'[r] = rows[r] /\ rows[r].amount \in Nat
      BY <2>2, <2>4, AmountsAreNumbers DEF CreditsOf, IInv, TypeOK, Row
    <3>3. IsFiniteSet(S) /\ IsFiniteSet(S \cup {n.ref})
          /\ SumFunctionOnSet(f, S) = deployments[d0].paid
      BY <1>2, FS_AddElement DEF IInv, Balanced, BalancedAt
    <3>4. g[n.ref] = n.amount /\ \A r \in S : f[r] \in Nat /\ g[r] = f[r]
      BY <2>3, <2>4, <3>2
    <3> HIDE DEF S, f, g
    <3>5. SumFunctionOnSet(g, S \cup {n.ref}) = SumFunctionOnSet(f, S) + g[n.ref]
      BY <1>2, <3>1, <3>3, <3>4, SumGrows
    <3>6. deployments'[d0].paid = SumFunctionOnSet(g, S \cup {n.ref})
      BY <2>5, <3>3, <3>4, <3>5
    <3> QED
      BY <3>1, <3>3, <3>6 DEF BalancedAt, g
  <2> QED
    BY <2>6, <2>7, <2>8 DEF Balanced
<1> QED
  BY <1>3, <1>4

\* A new deployment has no credits, and its balance is none.
LEMMA CreateBalanced ==
    ASSUME IInv, StoreGrows, NEW c \in Call, NEW k \in Customer, Create(c, k)
    PROVE  CreditsSound' /\ Balanced'
<1> DEFINE d0 == calls[c].dep
<1>1. rows' = rows
  BY DEF Create
<1>2. \A d \in Dep : CreditsOf(d)' = CreditsOf(d)
  BY <1>1 DEF CreditsOf
<1>3. CreditsSound'
  BY <1>1 DEF IInv, CreditsSound, OwnedBy, StoreGrows
<1>4. ASSUME NEW d \in Dep, deployments'[d] = deployments[d]
      PROVE  BalancedAt(d)'
  BY <1>1, <1>2, <1>4, BalancedFrame DEF IInv, Balanced
<1>5. ASSUME NEW d \in Dep, deployments'[d] # deployments[d]
      PROVE  BalancedAt(d)'
  <2>1. d = d0 /\ deployments[d] = None /\ deployments'[d].paid = 0
    BY <1>5 DEF Create, IInv, TypeOK
  <2>2. CreditsOf(d) = {}
    BY <2>1 DEF CreditsOf, IInv, CreditsSound, OwnedBy
  <2>3. CreditsOf(d)' = {}
    BY <1>2, <2>2
  <2>4. SumFunctionOnSet([r \in {} |-> rows'[r].amount], {}) = 0
    BY SumOfNone
  <2> QED
    BY <2>1, <2>3, <2>4, FS_EmptySet DEF BalancedAt
<1> QED
  BY <1>3, <1>4, <1>5 DEF Balanced

LEMMA MoneyInv ==
    ASSUME IInv, StoreGrows, NEW c \in Call, Step(c)
    PROVE  CreditsSound' /\ Balanced'
<1>1. CASE UNCHANGED store
  <2>1. CreditsSound'
    BY <1>1 DEF IInv, CreditsSound, OwnedBy, store
  <2>2. ASSUME NEW d \in Dep PROVE BalancedAt(d)'
    BY <1>1, BalancedFrame DEF IInv, Balanced, CreditsOf, store
  <2> QED
    BY <2>1, <2>2 DEF Balanced
<1>2. CASE Record(c)
  <2> DEFINE n == calls[c].n
             d == calls[c].dep
  <2>1. n.ref \in Ref /\ UNCHANGED deployments
    BY <1>2, NoteType DEF Record, At, IInv, CallsSound, Sound, Placed, TypeOK, CallState
  <2>2. rows[n.ref] = None
        => /\ rows'[n.ref].outcome # "applied"
           /\ \A r \in Ref \ {n.ref} : rows'[r] = rows[r]
    BY <1>2, <2>1 DEF Record, Note, IInv, TypeOK, RowFor
  <2>3. CASE rows[n.ref] = None
    <3>1. CreditsSound'
      BY <2>1, <2>2, <2>3 DEF IInv, CreditsSound, OwnedBy
    <3>2. ASSUME NEW x \in Dep PROVE BalancedAt(x)'
      <4>1. /\ CreditsOf(x)' = CreditsOf(x)
            /\ \A r \in CreditsOf(x) : rows'[r] = rows[r]
        BY <2>1, <2>2, <2>3, CreditsFrame
      <4> QED
        BY <2>1, <4>1, BalancedFrame DEF IInv, Balanced
    <3> QED
      BY <3>1, <3>2 DEF Balanced
  <2>4. CASE rows[n.ref] # None
    BY <1>1, <1>2, <2>4 DEF Record, Note, store
  <2> QED
    BY <2>3, <2>4
<1>3. CASE Arrive(c) \/ Fail(c)
  BY <1>1, <1>3 DEF Arrive, Receive, Deliver, StartCreate, Fail
<1>4. CASE Work(c)
  BY <1>1, <1>2, <1>4, ApplyBalanced, CreateBalanced
     DEF Work, LookupHit, LookupMiss, Enqueue, EnqueueFails, RouteCached, RouteMiss,
         RouteRead, RouteFails, FillRoute, CacheResult, Reply, FillCreated
<1> QED
  BY <1>3, <1>4 DEF Step

\* XADD puts n on the stream and leaves the others there, but for those with no room.
LEMMA AppendedKeeps ==
    ASSUME TypeOK, NEW n \in Notification, Appended(n)
    PROVE  /\ stream' \subseteq Notification /\ n \in stream'
           /\ room' \in [Notification -> 0..MaxLen]
           /\ \A m \in stream : m \in stream' \/ room'[m] = 0
           /\ \A m \in Notification : room[m] = 0 => m \in stream' \/ room'[m] = 0
<1>1. \A m \in Notification : room[m] \in 0..MaxLen
  BY DEF TypeOK
<1>2. /\ room' \in [Notification -> 0..MaxLen]
      /\ \A m \in Notification \ {n} : room[m] = 0 => room'[m] = 0
  BY <1>1, QueueAssumption DEF Appended
<1>3. PICK gone \in SUBSET {m \in stream \ {n} : room'[m] = 0} :
        stream' = (stream \ gone) \cup {n}
  BY DEF Appended
<1> QED
  BY <1>2, <1>3 DEF TypeOK

\* What is left of a notification outside the ledger.
InQueue(n) == n \in stream \cup dead \/ GoneWithQueue(n)

\* A notification the provider need not send again is in the ledger or on a stream,
\* or went with the queue.
LEMMA KeptInv ==
    ASSUME IInv, StoreGrows, NEW c \in Call, Step(c)
    PROVE  AcceptedIsKept'
<1> USE DEF Note, At
<1>1. calls[c] \in CallState /\ Sound(calls[c])
  BY DEF IInv, TypeOK, CallsSound
<1>2. \A n \in Notification : rows[n.ref] # None => rows'[n.ref] # None
  BY NoteType DEF StoreGrows
<1>3. ASSUME NEW n, outstanding \subseteq outstanding' \cup {n},
             n \in Notification \ outstanding' => rows[n.ref] # None \/ InQueue(n)',
             \A m \in Notification : InQueue(m) => InQueue(m)' \/ rows[m.ref] # None
      PROVE  AcceptedIsKept'
  BY <1>2, <1>3 DEF AcceptedIsKept, InQueue, IInv
<1>4. ASSUME UNCHANGED outstanding,
             \A m \in Notification : InQueue(m) => InQueue(m)' \/ rows[m.ref] # None
      PROVE  AcceptedIsKept'
  BY <1>2, <1>4 DEF AcceptedIsKept, InQueue, IInv
<1>5. UNCHANGED queue => \A m \in Notification : InQueue(m) => InQueue(m)'
  BY DEF InQueue, GoneWithQueue, queue
<1>6. ASSUME NEW n \in Notification, Appended(n), UNCHANGED dead
      PROVE  InQueue(n)' /\ \A m \in Notification : InQueue(m) => InQueue(m)'
  BY <1>6, AppendedKeeps DEF InQueue, GoneWithQueue, IInv
<1>7. CASE UNCHANGED outstanding /\ UNCHANGED queue
  BY <1>5, <1>4, <1>7
<1>8. CASE LookupHit(c)
  <2>1. calls[c].n \in Notification /\ rows[calls[c].n.ref] # None
    BY <1>1, <1>8, NoteType
       DEF LookupHit, Sound, Placed, CallState, IInv, CachesRepeatDatabase
  <2> QED
    BY <1>5, <1>3, <1>8, <2>1 DEF LookupHit
<1>9. CASE Enqueue(c)
  <2>1. calls[c].n \in Notification /\ Appended(calls[c].n) /\ UNCHANGED dead
    BY <1>1, <1>9 DEF Enqueue, Sound, Placed
  <2>2. outstanding \subseteq outstanding' \cup {calls[c].n}
    BY <1>9 DEF Enqueue, Ends
  <2>3. PICK n \in Notification : n = calls[c].n
    BY <2>1
  <2> QED
    BY <1>3, <1>6, <2>1, <2>2, <2>3
<1>10. CASE EnqueueFails(c)
  <2>1. /\ calls[c].n \in Notification
        /\ UNCHANGED outstanding /\ UNCHANGED dead
        /\ Appended(calls[c].n) \/ UNCHANGED <<stream, room>>
    BY <1>1, <1>10 DEF EnqueueFails, Sound, Placed
  <2> QED
    BY <1>5, <1>4, <1>6, <2>1 DEF queue
<1>11. CASE Reply(c)
  <2>1. rows[calls[c].n.ref] # None
    BY <1>1, <1>11 DEF Reply, Sound, Truthful, KnowsRow
  <2>2. UNCHANGED queue \/ \E answer : Settle(c, answer)
    BY <1>11 DEF Reply
  <2>3. \A m \in Notification : InQueue(m) => InQueue(m)' \/ rows[m.ref] # None
    BY <1>5, <2>1, <2>2 DEF Settle, InQueue, GoneWithQueue
  <2>4. outstanding \subseteq outstanding' \cup {calls[c].n}
    BY <1>11 DEF Reply, Ends
  <2> QED
    BY <1>3, <2>1, <2>3, <2>4
<1>12. CASE FillCreated(c)
  BY <1>5, <1>4, <1>12 DEF FillCreated, Ends
<1>13. ASSUME NEW k \in Customer, Create(c, k)
       PROVE  AcceptedIsKept'
  <2>1. calls[c].kind = "create"
    BY <1>1, <1>13 DEF Create, Sound, Placed
  <2> QED
    BY <1>5, <1>4, <1>13, <2>1 DEF Create, Ends
<1>14. CASE Fail(c)
  <2>1. UNCHANGED outstanding
    BY <1>14 DEF Fail, Ends
  <2>2. \A m \in Notification : InQueue(m) => InQueue(m)'
    BY <1>5, <1>14 DEF Fail, InQueue, GoneWithQueue
  <2> QED
    BY <1>4, <2>1, <2>2
<1>15. CASE Arrive(c)
  BY <1>7, <1>15 DEF Arrive, Receive, Deliver, StartCreate
<1>16. CASE Work(c)
  BY <1>7, <1>8, <1>9, <1>10, <1>11, <1>12, <1>13, <1>16
     DEF Work, LookupMiss, RouteCached, RouteMiss, RouteRead, RouteFails, FillRoute,
         Record, Apply, CacheResult
<1> QED
  BY <1>14, <1>15, <1>16 DEF Step

\* Rows and deployments keep their shape.
LEMMA StoreType ==
    ASSUME IInv, NEW c \in Call, Step(c)
    PROVE  /\ rows' \in [Ref -> Row \cup {None}]
           /\ deployments' \in [Dep -> Deployment \cup {None}]
<1> USE DEF Note, At
<1>1. calls[c] \in CallState /\ Sound(calls[c])
  BY DEF IInv, TypeOK, CallsSound
<1>2. CASE UNCHANGED store
  BY <1>2 DEF store, IInv, TypeOK
<1>3. CASE Record(c)
  <2> DEFINE n == calls[c].n
             d == calls[c].dep
             new == RowFor(IF d = None THEN "unmatched" ELSE "ignored", n, d,
                           n.currency, 0, 0)
  <2>1. n \in Notification /\ n.currency \in Currency
    BY <1>1, <1>3, NoteType DEF Record, Sound, Placed, CallState
  <2>2. new \in Row
    BY <1>1, <2>1, RowForType DEF CallState
  <2>3. deployments' = deployments /\ (rows' = [rows EXCEPT ![n.ref] = new] \/ rows' = rows)
    BY <1>3 DEF Record
  <2> HIDE DEF new
  <2> QED
    BY <2>2, <2>3 DEF IInv, TypeOK
<1>4. CASE Apply(c)
  <2> DEFINE n == calls[c].n
             d == calls[c].dep
             paid == deployments[d].paid
             new == RowFor("applied", n, d, DepCurrency[d], paid, paid + n.amount)
  <2>1. n \in Notification /\ d \in Dep /\ n.amount \in Nat /\ paid \in Nat
    BY <1>4, ApplyRoutes, NoteType DEF Apply
  <2>2. new \in Row
    BY <2>1, AppliedRow
  <2>3. deployments[d] \in Deployment
    BY <1>4, <2>1, ApplyRoutes DEF Apply, IInv, TypeOK
  <2>4. [deployments[d] EXCEPT !.paid = @ + n.amount] \in Deployment
    BY <2>1, <2>3 DEF Deployment
  <2>5. UNCHANGED store \/ (/\ rows' = [rows EXCEPT ![n.ref] = new]
                            /\ deployments' = [deployments EXCEPT ![d].paid = @ + n.amount])
    BY <1>4 DEF Apply
  <2> HIDE DEF new
  <2> QED
    BY <1>2, <2>2, <2>4, <2>5 DEF IInv, TypeOK
<1>5. ASSUME NEW k \in Customer, Create(c, k)
      PROVE  /\ rows' \in [Ref -> Row \cup {None}]
             /\ deployments' \in [Dep -> Deployment \cup {None}]
  <2>1. [customer |-> k, paid |-> 0] \in Deployment
    BY DEF Deployment
  <2> QED
    BY <1>5, <2>1 DEF Create, IInv, TypeOK
<1>6. CASE Arrive(c) \/ Fail(c)
  BY <1>2, <1>6 DEF Arrive, Receive, Deliver, StartCreate, Fail
<1>7. CASE Work(c)
  BY <1>2, <1>3, <1>4, <1>5, <1>7
     DEF Work, LookupHit, LookupMiss, Enqueue, EnqueueFails, RouteCached, RouteMiss,
         RouteRead, RouteFails, FillRoute, CacheResult, Reply, FillCreated
<1> QED
  BY <1>6, <1>7 DEF Step

\* So do the caches, the streams and what the provider still has to send.
LEMMA CachesType ==
    ASSUME IInv, NEW c \in Call, Step(c)
    PROVE  /\ refCache' \in [Customer -> Dep \cup {None}]
           /\ resultCache' \in [Ref -> Row \cup {None}]
           /\ stream' \subseteq Notification
           /\ dead' \subseteq Notification
           /\ room' \in [Notification -> 0..MaxLen]
           /\ outstanding' \subseteq Notification
<1> USE DEF Note, At, IInv, TypeOK
<1>1. calls[c] \in CallState /\ Sound(calls[c])
  BY DEF CallsSound
<1>2. calls[c].pc # "done" /\ calls[c].kind # "create" => calls[c].n \in Notification
  BY <1>1 DEF Sound, Placed
<1>3. /\ calls[c].dep \in Dep \cup {None}
      /\ calls[c].row \in Row \cup {None}
  BY <1>1 DEF CallState
<1>4. outstanding' \subseteq outstanding
  BY DEF Step, Arrive, Work, Receive, Deliver, StartCreate, LookupHit, LookupMiss, Enqueue,
         EnqueueFails, RouteCached, RouteMiss, RouteRead, RouteFails, FillRoute, Record,
         Apply, CacheResult, Reply, Create, FillCreated, Fail, Ends
<1>5. /\ stream' \subseteq Notification
      /\ dead' \subseteq Notification
      /\ room' \in [Notification -> 0..MaxLen]
  <2>1. CASE UNCHANGED queue
    BY <2>1 DEF queue
  <2>2. CASE Enqueue(c) \/ EnqueueFails(c)
    <3>1. /\ calls[c].n \in Notification
          /\ UNCHANGED dead
          /\ Appended(calls[c].n) \/ UNCHANGED <<stream, room>>
      BY <1>1, <2>2 DEF Enqueue, EnqueueFails, Sound, Placed
    <3> QED
      BY <3>1, AppendedKeeps
  <2>3. CASE Reply(c)
    <3>1. calls[c].kind = "worker" => calls[c].n \in Notification
      BY <1>2, <2>3 DEF Reply
    <3> QED
      BY <2>1, <2>3, <3>1 DEF Reply, Settle
  <2>4. CASE Fail(c)
    <3>1. calls[c].kind = "worker" => calls[c].n \in Notification
      BY <1>2, <2>4 DEF Fail, Running
    <3> QED
      BY <2>1, <2>4, <3>1 DEF Fail
  <2>5. CASE Arrive(c)
    BY <2>1, <2>5 DEF Arrive, Receive, Deliver, StartCreate
  <2> QED
    BY <2>1, <2>2, <2>3, <2>4, <2>5
       DEF Step, Work, LookupHit, LookupMiss, RouteCached, RouteMiss, RouteRead,
           RouteFails, FillRoute, Record, Apply, CacheResult, Create, FillCreated
<1>6. /\ refCache' \in [Customer -> Dep \cup {None}]
      /\ resultCache' \in [Ref -> Row \cup {None}]
  <2>1. CASE UNCHANGED caches
    BY <2>1 DEF caches
  <2>2. CASE FillRoute(c) \/ FillCreated(c)
    BY <1>3, <2>2 DEF FillRoute, FillCreated
  <2>3. CASE CacheResult(c)
    BY <1>3, <2>3 DEF CacheResult, CachedRow, store
  <2>4. CASE Arrive(c) \/ Fail(c)
    BY <2>1, <2>4 DEF Arrive, Receive, Deliver, StartCreate, Fail
  <2> QED
    BY <2>1, <2>2, <2>3, <2>4
       DEF Step, Work, LookupHit, LookupMiss, Enqueue, EnqueueFails, RouteCached,
           RouteMiss, RouteRead, RouteFails, Record, Apply, Reply, Create
<1> QED
  BY <1>4, <1>5, <1>6

\* A loss of Redis leaves nothing in the caches, and what was on a stream gone.
LEMMA LossInv ==
    ASSUME IInv, LoseData
    PROVE  IInv'
<1> USE DEF IInv, LoseData, store
<1>1. TypeOK'
  BY QueueAssumption DEF TypeOK
<1>2. CallsSound' /\ OneWriter'
  BY DEF CallsSound, Sound, Placed, Routed, Truthful, KnowsRow, OwnedBy, OneWriter
<1>3. CachesRepeatDatabase' /\ CreditsSound'
  BY DEF CachesRepeatDatabase, CreditsSound, OwnedBy
<1>4. ASSUME NEW d \in Dep PROVE BalancedAt(d)'
  BY BalancedFrame DEF Balanced, CreditsOf
<1>5. AcceptedIsKept'
  BY DEF AcceptedIsKept, GoneWithQueue
<1> QED
  BY <1>1, <1>2, <1>3, <1>4, <1>5 DEF Balanced

-----------------------------------------------------------------------------
(***************************************************************************)
(* The invariant.                                                          *)
(***************************************************************************)

LEMMA InitInv == Init => IInv
<1> SUFFICES ASSUME Init PROVE IInv
  OBVIOUS
<1> USE DEF Init
<1>1. /\ \A c \in Call : calls[c] = NewCall("http", "done", None, None)
      /\ NewCall("http", "done", None, None) \in CallState
  BY NewCallType DEF Pc
<1>2. TypeOK
  BY <1>1, QueueAssumption DEF TypeOK
<1>3. CallsSound /\ OneWriter
  BY <1>1 DEF CallsSound, Sound, Placed, Routed, Truthful, OneWriter, NewCall, ShowsRow
<1>4. CachesRepeatDatabase /\ CreditsSound /\ AcceptedIsKept
  BY DEF CachesRepeatDatabase, CreditsSound, AcceptedIsKept
<1>5. Balanced
  BY FS_EmptySet DEF Balanced, BalancedAt, CreditsOf
<1> QED
  BY <1>2, <1>3, <1>4, <1>5 DEF IInv

LEMMA NextInv == IInv /\ [Next]_vars => IInv'
<1> SUFFICES ASSUME IInv, [Next]_vars PROVE IInv'
  OBVIOUS
<1>1. ASSUME NEW c \in Call, Step(c)
      PROVE  IInv'
  <2>1. StoreGrows /\ Moves(c)
    BY <1>1, StepMoves
  <2>2. calls' \in [Call -> CallState] /\ CallsSound' /\ OneWriter'
    BY <2>1, MovesInv DEF IInv
  <2>3. TypeOK'
    BY <1>1, <2>2, StoreType, CachesType DEF TypeOK
  <2> QED
    BY <1>1, <2>1, <2>2, <2>3, CachesInv, MoneyInv, KeptInv DEF IInv
<1>2. CASE UNCHANGED vars
  <2> USE <1>2 DEF IInv, vars, store, caches, queue
  <2>1. TypeOK' /\ OneWriter' /\ AcceptedIsKept'
    BY DEF TypeOK, OneWriter, AcceptedIsKept, GoneWithQueue
  <2>2. CallsSound'
    BY DEF CallsSound, Sound, Placed, Routed, Truthful, KnowsRow, OwnedBy
  <2>3. CachesRepeatDatabase' /\ CreditsSound'
    BY DEF CachesRepeatDatabase, CreditsSound, OwnedBy
  <2>4. ASSUME NEW d \in Dep PROVE BalancedAt(d)'
    BY BalancedFrame DEF Balanced, CreditsOf
  <2>5. Balanced'
    BY <2>4 DEF Balanced
  <2> QED
    BY <2>1, <2>2, <2>3, <2>5
<1>3. CASE LoseData
  BY <1>3, LossInv
<1> QED
  BY <1>1, <1>2, <1>3 DEF Next, Step

\* What the steps of the calls keep holds in every behaviour.
THEOREM Invariant == Spec => []IInv
BY InitInv, NextInv, PTL DEF Spec

\* The state keeps its shape.
THEOREM TypeInvariant == Spec => []TypeOK
<1>1. IInv => TypeOK
  BY DEF IInv
<1> QED
  BY <1>1, Invariant, PTL

\* What any number of callers are told is what the ledger holds, for as long as
\* they remember it.
THEOREM AnswersInvariant == Spec => []AnswersMatchLedger
<1>1. IInv => AnswersMatchLedger
  BY DEF IInv, CallsSound, Sound, Truthful, KnowsRow, AnswersMatchLedger
<1> QED
  BY <1>1, Invariant, PTL

\* However many calls serve a reference, one at most is told that it was applied.
THEOREM ToldOnceInvariant == Spec => []AppliedToldOnce
<1>1. IInv => AppliedToldOnce
  <2> SUFFICES ASSUME IInv, NEW c \in Call, calls[c].answer = "applied"
               PROVE  calls[c].fresh
    BY DEF AppliedToldOnce, IInv, OneWriter
  <2> QED
    BY DEF IInv, CallsSound, Sound, Truthful, ShowsRow
<1> QED
  BY <1>1, Invariant, PTL

\* Neither cache says anything the database does not.
THEOREM CachesInvariant == Spec => []CachesRepeatDatabase
<1>1. IInv => CachesRepeatDatabase
  BY DEF IInv
<1> QED
  BY <1>1, Invariant, PTL

\* Every balance is the settled money of the deployment's own customer.
THEOREM BalanceInvariant == Spec => []BalanceIsOwnersMoney
<1>1. IInv => BalanceIsOwnersMoney
  <2> SUFFICES ASSUME IInv, NEW d \in Dep, deployments[d] # None
               PROVE  /\ deployments[d].paid =
                           SumFunctionOnSet([r \in CreditsOf(d) |-> rows[r].amount],
                                            CreditsOf(d))
                      /\ \A r \in CreditsOf(d) :
                            /\ rows[r].settled
                            /\ rows[r].customer = deployments[d].customer
    BY DEF BalanceIsOwnersMoney
  <2>1. \A r \in CreditsOf(d) : /\ rows[r].settled
                                /\ rows[r].customer = deployments[d].customer
    BY DEF CreditsOf, IInv, CreditsSound, OwnedBy
  <2> QED
    BY <2>1 DEF IInv, Balanced, BalancedAt
<1> QED
  BY <1>1, Invariant, PTL

\* No credit the provider was told to forget is dropped by the service: what neither
\* the ledger nor a stream has any more was trimmed off the stream, by MaxLen newer
\* entries, or lost with Redis's data.
THEOREM KeptInvariant == Spec => []AcceptedIsKept
<1>1. IInv => AcceptedIsKept
  BY DEF IInv
<1> QED
  BY <1>1, Invariant, PTL

\* No step, failed or not, changes a row that is there, takes a deployment away or
\* gives it to another customer.
THEOREM CommittedStays == Spec => [][StoreGrows]_vars
<1>1. IInv /\ [Next]_vars => [StoreGrows]_vars
  <2>1. LoseData => StoreGrows
    BY DEF LoseData, StoreGrows, store
  <2> QED
    BY <2>1, StepGrows DEF Next, Step
<1> QED
  BY <1>1, Invariant, PTL DEF Spec

-----------------------------------------------------------------------------
(***************************************************************************)
(* The abstract ledger.  Under the invariant a call that writes a row      *)
(* takes the ledger's step for it, and everything else leaves the ledger   *)
(* as it is.                                                               *)
(***************************************************************************)

\* A step that leaves the tables, or adds a deployment, is none of the ledger.
LEMMA LedgerFrame ==
    ASSUME \A r \in Ref : rows'[r] = rows[r],
           \A d \in Dep : BalanceOf(d)' = BalanceOf(d)
    PROVE  UNCHANGED L!vars
<1>1. UNCHANGED [r \in Ref |-> EntryOf(rows[r])]
  BY DEF EntryOf
<1>2. UNCHANGED [d \in Dep |-> BalanceOf(d)]
  OBVIOUS
<1> QED
  BY <1>1, <1>2 DEF L!vars

\* One row is written where there was none.
LEMMA EntryWritten ==
    ASSUME TypeOK, NEW ref \in Ref, NEW new, new # None, rows[ref] = None,
           rows' = [rows EXCEPT ![ref] = new], NEW entry,
           entry = L!Entry(new.outcome, new.dep, new.amount, new.before, new.after)
    PROVE  /\ [r \in Ref |-> EntryOf(rows[r])][ref] = None
           /\ [r \in Ref |-> EntryOf(rows[r])]' =
                 [[r \in Ref |-> EntryOf(rows[r])] EXCEPT ![ref] = entry]
BY DEF TypeOK, EntryOf, L!Entry

\* Apply is a Credit, or finds its row.
LEMMA ApplyIsCredit ==
    ASSUME IInv, NEW c \in Call, Apply(c)
    PROVE  L!Next \/ UNCHANGED L!vars
<1>1. PICK n \in Notification, d \in Dep, paid \in Nat :
        n = Note(c) /\ d = calls[c].dep /\ paid = deployments[d].paid
  BY ApplyRoutes DEF Apply
<1>2. /\ n.ref \in Ref /\ n.amount \in Amount /\ n.amount \in Nat
      /\ deployments[d] # None /\ deployments[d] \in Deployment
  BY <1>1, ApplyRoutes, NoteType DEF Apply, IInv, TypeOK
<1>3. CASE UNCHANGED store
  BY <1>3, LedgerFrame DEF store, BalanceOf
<1>4. CASE ~UNCHANGED store
  <2>1. PICK new : new = RowFor("applied", n, d, DepCurrency[d], paid, paid + n.amount)
    OBVIOUS
  <2>2. /\ rows[n.ref] = None
        /\ rows' = [rows EXCEPT ![n.ref] = new]
        /\ deployments' = [deployments EXCEPT ![d].paid = @ + n.amount]
    BY <1>1, <1>4, <2>1 DEF Apply, Note
  <2>3. /\ new # None /\ new.outcome = "applied" /\ new.dep = d /\ new.amount = n.amount
        /\ new.before = paid /\ new.after = paid + n.amount
    BY <2>1, AppliedRow
  <2>4. BalanceOf(d) = paid /\ BalanceOf(d)' = paid + n.amount
        /\ \A x \in Dep \ {d} : BalanceOf(x)' = BalanceOf(x)
    <3>1. /\ deployments'[d].paid = paid + n.amount /\ deployments'[d] \in Deployment
          /\ \A x \in Dep \ {d} : deployments'[x] = deployments[x]
      BY <1>1, <1>2, <2>2 DEF IInv, TypeOK, Deployment
    <3> QED
      BY <1>1, <1>2, <3>1, NoneAssumption DEF BalanceOf
  <2>5. [x \in Dep |-> BalanceOf(x)]' =
            [[x \in Dep |-> BalanceOf(x)] EXCEPT ![d] = @ + n.amount]
    BY <2>4
  <2>6. PICK entry : entry = L!Entry("applied", d, n.amount, paid, paid + n.amount)
    OBVIOUS
  <2>7. entry = L!Entry(new.outcome, new.dep, new.amount, new.before, new.after)
    BY <2>6, <2>3
  <2>8. /\ [r \in Ref |-> EntryOf(rows[r])][n.ref] = None
        /\ [r \in Ref |-> EntryOf(rows[r])]' =
              [[r \in Ref |-> EntryOf(rows[r])] EXCEPT ![n.ref] = entry]
    BY <1>2, <2>2, <2>3, <2>7, EntryWritten DEF IInv
  <2>9. [x \in Dep |-> BalanceOf(x)][d] = paid
    BY <2>4
  <2>10. L!Credit(n.ref, d, n.amount)
    BY <2>5, <2>8, <2>9, <2>6 DEF L!Credit
  <2> QED
    BY <1>2, <2>10 DEF L!Next
<1> QED
  BY <1>3, <1>4

\* Record is a File, of routed money that has not settled or of money that could
\* not be routed, or finds its row.
LEMMA RecordIsFile ==
    ASSUME IInv, NEW c \in Call, Record(c)
    PROVE  L!Next \/ UNCHANGED L!vars
<1>1. calls[c] \in CallState /\ Placed(calls[c])
  BY DEF IInv, TypeOK, CallsSound, Sound
<1>2. PICK n \in Notification, d \in Dep \cup {None} : n = Note(c) /\ d = calls[c].dep
  BY <1>1 DEF Record, At, Note, Placed, CallState
<1>3. n.ref \in Ref /\ n.amount \in Amount /\ n.currency \in Currency
  BY NoteType
<1>4. CASE rows[n.ref] # None
  BY <1>2, <1>4, LedgerFrame DEF Record, Note, BalanceOf
<1>5. CASE rows[n.ref] = None
  <2> DEFINE outcome == IF d = None THEN "unmatched" ELSE "ignored"
  <2>1. PICK new : new = RowFor(outcome, n, d, n.currency, 0, 0)
    OBVIOUS
  <2>2. rows' = [rows EXCEPT ![n.ref] = new] /\ UNCHANGED deployments
    BY <1>2, <1>5, <2>1 DEF Record, Note
  <2>3. /\ new # None /\ new.outcome = outcome /\ new.dep = d /\ new.amount = n.amount
        /\ new.before = 0 /\ new.after = 0
    <3>1. outcome \in {"applied", "unmatched", "ignored"}
      OBVIOUS
    <3>2. new # None
      BY <1>3, <2>1, <3>1, RowForType
    <3> QED
      BY <2>1, <3>2 DEF RowFor
  <2>4. UNCHANGED [x \in Dep |-> BalanceOf(x)]
    BY <2>2 DEF BalanceOf
  <2>5. PICK entry : entry = L!Entry(outcome, d, n.amount, 0, 0)
    OBVIOUS
  <2>6. entry = L!Entry(new.outcome, new.dep, new.amount, new.before, new.after)
    BY <2>5, <2>3
  <2>7. /\ [r \in Ref |-> EntryOf(rows[r])][n.ref] = None
        /\ [r \in Ref |-> EntryOf(rows[r])]' =
              [[r \in Ref |-> EntryOf(rows[r])] EXCEPT ![n.ref] = entry]
    BY <1>3, <1>5, <2>2, <2>3, <2>6, EntryWritten DEF IInv
  <2>8. L!File(n.ref, outcome, d, n.amount)
    BY <2>4, <2>7, <2>5 DEF L!File
  <2>9. CASE d = None
    BY <1>3, <2>8, <2>9 DEF L!Next
  <2>10. CASE d # None
    BY <1>3, <2>8, <2>10 DEF L!Next
  <2> QED
    BY <2>9, <2>10
<1> QED
  BY <1>4, <1>5

\* A deployment is created with no balance.
LEMMA CreateStutters ==
    ASSUME IInv, NEW c \in Call, NEW k \in Customer, Create(c, k)
    PROVE  UNCHANGED L!vars
<1>1. \A d \in Dep : BalanceOf(d)' = BalanceOf(d)
  <2> SUFFICES ASSUME NEW d \in Dep, deployments'[d] # deployments[d]
               PROVE  BalanceOf(d)' = BalanceOf(d)
    BY DEF BalanceOf
  <2>1. deployments[d] = None /\ deployments'[d].paid = 0
    BY DEF Create, IInv, TypeOK
  <2> QED
    BY <2>1 DEF BalanceOf
<1> QED
  BY <1>1, LedgerFrame DEF Create

\* Whatever the callers, the caches, the queue and the failures around it do, the
\* ledger they share takes the steps of the abstract ledger: one row per reference,
\* written once, and a balance that moves with the row that explains it, from what
\* the row says it was before to what it says it is after.
THEOREM ServiceIsLedger == Spec => LedgerSpec
<1>1. Init => L!Init
  BY DEF Init, L!Init, EntryOf, BalanceOf
<1>2. IInv /\ [Next]_vars => [L!Next]_L!vars
  <2> SUFFICES ASSUME IInv, [Next]_vars
               PROVE  L!Next \/ UNCHANGED L!vars
    OBVIOUS
  <2>1. CASE UNCHANGED store
    BY <2>1, LedgerFrame DEF store, BalanceOf
  <2>2. ASSUME NEW c \in Call, Step(c)
        PROVE  L!Next \/ UNCHANGED L!vars
    <3>1. CASE Arrive(c) \/ Fail(c)
      BY <2>1, <3>1 DEF Arrive, Receive, Deliver, StartCreate, Fail
    <3>2. CASE Work(c)
      BY <2>1, <3>2, ApplyIsCredit, RecordIsFile, CreateStutters
         DEF Work, LookupHit, LookupMiss, Enqueue, EnqueueFails, RouteCached, RouteMiss,
             RouteRead, RouteFails, FillRoute, CacheResult, Reply, FillCreated
    <3> QED
      BY <2>2, <3>1, <3>2 DEF Step
  <2>3. CASE LoseData \/ UNCHANGED vars
    BY <2>1, <2>3 DEF LoseData, vars
  <2> QED
    BY <2>2, <2>3 DEF Next, Step
<1> QED
  BY <1>1, <1>2, Invariant, PTL DEF Spec, LedgerSpec, L!Spec
=============================================================================
