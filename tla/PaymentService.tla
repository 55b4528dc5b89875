--------------------------- MODULE PaymentService ---------------------------
(***************************************************************************)
(* The payment and deployment services around the ledger: what the         *)
(* goroutines of one or several replicas do between the cache, the queue   *)
(* and the database when notifications arrive, are repeated, overlap and   *)
(* fail half way.  One step is one call to Redis or Postgres, with the     *)
(* computation that follows it.                                            *)
(*                                                                         *)
(* Apply and Record are atomic here: ApplyStatement shows that they are.   *)
(* A cache read may miss whatever is stored (expiry, eviction, error) and  *)
(* a cache write may be lost: the cache is best effort.                    *)
(***************************************************************************)
EXTENDS Integers, FiniteSets, Functions

CONSTANTS
    Call,           \* goroutines: webhook requests, queue workers, creations
    Notification,   \* what the provider sends, see NotificationAssumption
    Ref, Customer, Dep, Currency,
    Principal,      \* what every deployment costs
    DepCurrency,    \* DepCurrency[d]: the currency deployment d is created in
    QueueEnabled,   \* QUEUE_ENABLED
    MaxLen,         \* QUEUE_MAX_LEN: what XADD keeps of the stream at least
    None            \* nil: no row, no deployment, nothing cached

ASSUME NotificationAssumption ==
    Notification \subseteq [ref: Ref, customer: Customer, amount: Nat \ {0},
                            currency: Currency, settled: BOOLEAN]
ASSUME PrincipalAssumption   == Principal \in Nat \ {0}
ASSUME DepCurrencyAssumption == DepCurrency \in [Dep -> Currency]
ASSUME QueueAssumption       == QueueEnabled \in BOOLEAN /\ MaxLen \in Nat \ {0}

VARIABLES
    rows,         \* rows[r]: the ledger's row of reference r
    deployments,  \* deployments[d]: its customer and amount_paid, once created
    refCache,     \* refCache[k]: the deployment customer k routes to
    resultCache,  \* resultCache[r]: the row in the cached result of r
    stream,       \* notifications on the queue and not acknowledged
    dead,         \* notifications on the dead-letter stream
    room,         \* room[n]: entries that may follow n's newest one before XADD
                  \* may drop it; 0 as well once Redis has lost it
    calls,        \* calls[c]: what goroutine c is doing
    outstanding   \* notifications the provider still has to deliver

store  == <<rows, deployments>>
caches == <<refCache, resultCache>>
queue  == <<stream, dead, room>>
vars   == <<store, caches, queue, calls, outstanding>>

Amount == {n.amount : n \in Notification}

Row == [outcome: {"applied", "unmatched", "ignored"}, customer: Customer,
        dep: Dep \cup {None}, amount: Amount, currency: Currency,
        settled: BOOLEAN, before: Nat, after: Nat]

\* A deployment, as far as the payments need it.
Deployment == [customer: Customer, paid: Nat]

ASSUME NoneAssumption == None \notin Row \cup Deployment \cup Dep \cup Notification

Answer == {"none", "applied", "duplicate", "unmatched", "ignored", "queued",
           "created", "conflict", "error"}

Pc == {"done", "lookup", "enqueue", "resolve", "route", "fill", "create",
       "record", "apply", "cache", "reply"}

(***************************************************************************)
(* A goroutine: dep is where it routed the money, row the ledger row it    *)
(* holds and fresh says that its own statement wrote it.  A finished one   *)
(* keeps its answer until the goroutine serves something else, with the    *)
(* routing and the row if the answer shows them.                           *)
(***************************************************************************)
CallState == [kind: {"http", "worker", "create"}, pc: Pc,
              n: Notification \cup {None}, dep: Dep \cup {None},
              row: Row \cup {None}, fresh: BOOLEAN, answer: Answer]

NewCall(kind, pc, n, d) ==
    [kind |-> kind, pc |-> pc, n |-> n, dep |-> d, row |-> None,
     fresh |-> FALSE, answer |-> "none"]

TypeOK ==
    /\ rows \in [Ref -> Row \cup {None}]
    /\ deployments \in [Dep -> Deployment \cup {None}]
    /\ refCache \in [Customer -> Dep \cup {None}]
    /\ resultCache \in [Ref -> Row \cup {None}]
    /\ stream \subseteq Notification
    /\ dead \subseteq Notification
    /\ room \in [Notification -> 0..MaxLen]
    /\ calls \in [Call -> CallState]
    /\ outstanding \subseteq Notification

Init ==
    /\ rows = [r \in Ref |-> None]
    /\ deployments = [d \in Dep |-> None]
    /\ refCache = [k \in Customer |-> None]
    /\ resultCache = [r \in Ref |-> None]
    /\ stream = {}
    /\ dead = {}
    /\ room = [n \in Notification |-> MaxLen]
    /\ calls = [c \in Call |-> NewCall("http", "done", None, None)]
    /\ outstanding = Notification

-----------------------------------------------------------------------------
(***************************************************************************)
(* Deployments.                                                            *)
(***************************************************************************)

\* Every credit that reaches the principal completes the deployment, and
\* nothing else in the code changes its status (PositionIsDerivable).
Open(d) == deployments[d] # None /\ deployments[d].paid < Principal

OwnedBy(k) == {d \in Dep : deployments[d] # None /\ deployments[d].customer = k}

\* GetByCustomerID orders the open deployment first.  Resolve refuses the
\* others, so which of those it would return makes no difference.
OpenOf(k) == {d \in OwnedBy(k) : Open(d)}

(***************************************************************************)
(* Requests and rows.                                                      *)
(***************************************************************************)

\* The reference was used for the same customer, amount and currency.  The
\* provider's status is not compared.
SameRequest(row, n) ==
    /\ row.customer = n.customer
    /\ row.amount = n.amount
    /\ row.currency = n.currency

\* Mutant of RowFor: an outcome that is never stored.
RowForQueued(outcome, n, d, currency, before, after) ==
    [outcome |-> IF outcome = "unmatched" THEN "queued" ELSE outcome,
     customer |-> n.customer, dep |-> d, amount |-> n.amount, currency |-> currency,
     settled |-> n.settled, before |-> before, after |-> after]

\* Mutant of RowFor: the balance before is the one the UPDATE returned.
RowForMoved(outcome, n, d, currency, before, after) ==
    [outcome |-> outcome, customer |-> n.customer, dep |-> d, amount |-> n.amount,
     currency |-> currency, settled |-> n.settled, before |-> after, after |-> after]

RowFor(outcome, n, d, currency, before, after) ==
    [outcome |-> outcome, customer |-> n.customer, dep |-> d, amount |-> n.amount,
     currency |-> currency, settled |-> n.settled, before |-> before, after |-> after]

Note(c) == calls[c].n

Goes(c, st) == calls' = [calls EXCEPT ![c] = st]

At(c, pc) == calls[c].pc = pc

Running(c) == calls[c].pc # "done"

ShowsRow(answer) == answer \in {"applied", "unmatched", "ignored", "duplicate"}

\* The goroutine ends with this answer.  The provider stops retrying a
\* notification once it gets any answer but a 5xx.
Ends(c, answer) ==
    /\ Goes(c, IF ShowsRow(answer)
               THEN [calls[c] EXCEPT !.pc = "done", !.answer = answer]
               ELSE [NewCall(calls[c].kind, "done", Note(c), None)
                       EXCEPT !.answer = answer])
    /\ outstanding' = IF calls[c].kind = "http" /\ answer # "error"
                      THEN outstanding \ {Note(c)}
                      ELSE outstanding

-----------------------------------------------------------------------------
(***************************************************************************)
(* Work arrives.                                                           *)
(***************************************************************************)

\* The provider sends a notification, for the first time or again.
Receive(c, n) ==
    /\ At(c, "done")
    /\ Goes(c, NewCall("http", "lookup", n, None))
    /\ UNCHANGED <<store, caches, queue, outstanding>>

\* A worker is handed a message that is not acknowledged, perhaps not for the
\* first time, perhaps while another worker has it.
Deliver(c, n) ==
    /\ At(c, "done")
    /\ n \in stream
    /\ Goes(c, NewCall("worker", "resolve", n, None))
    /\ UNCHANGED <<store, caches, queue, outstanding>>

\* An operator registers a deployment.
StartCreate(c, d) ==
    /\ At(c, "done")
    /\ deployments[d] = None
    /\ Goes(c, NewCall("create", "create", None, d))
    /\ UNCHANGED <<store, caches, queue, outstanding>>

-----------------------------------------------------------------------------
(***************************************************************************)
(* Accept.                                                                 *)
(***************************************************************************)

\* Mutant of CachedAnswer: the cache is a hole in the conflict check.
CachedAnswerUnchecked(row, n) == "duplicate"

CachedAnswer(row, n) == IF SameRequest(row, n) THEN "duplicate" ELSE "conflict"

\* GetResult answers a settled reference, after the same conflict check as the
\* database path.
LookupHit(c) ==
    /\ At(c, "lookup")
    /\ resultCache[Note(c).ref] # None
    /\ LET row == resultCache[Note(c).ref]
       IN  /\ Goes(c, [calls[c] EXCEPT !.pc = "done", !.row = row, !.dep = row.dep,
                                  !.answer = CachedAnswer(row, Note(c))])
           /\ outstanding' = outstanding \ {Note(c)}
    /\ UNCHANGED <<store, caches, queue>>

LookupMiss(c) ==
    /\ At(c, "lookup")
    /\ Goes(c, [calls[c] EXCEPT !.pc = IF QueueEnabled THEN "enqueue" ELSE "resolve"])
    /\ UNCHANGED <<store, caches, queue, outstanding>>

\* XADD MAXLEN ~: the notification is appended, and any entry with MaxLen newer
\* ones may go, whether or not a worker has read it.  (Redis drops older entries
\* first, which makes no difference to what may be left of one notification.)
Appended(n) ==
    /\ room' = [m \in Notification |->
                   IF m = n THEN MaxLen
                   ELSE IF m \in stream /\ room[m] > 0 THEN room[m] - 1
                   ELSE room[m]]
    /\ \E gone \in SUBSET {m \in stream \ {n} : room'[m] = 0} :
          stream' = (stream \ gone) \cup {n}

\* Mutant of Enqueue: the answer does not wait for XADD.
EnqueueUnconfirmed(c) ==
    /\ At(c, "enqueue")
    /\ Appended(Note(c)) \/ UNCHANGED <<stream, room>>
    /\ Ends(c, "queued")
    /\ UNCHANGED <<store, caches, dead>>

\* XADD, then 202.
Enqueue(c) ==
    /\ At(c, "enqueue")
    /\ Appended(Note(c))
    /\ Ends(c, "queued")
    /\ UNCHANGED <<store, caches, dead>>

\* A credit is not refused because the broker is down: it is applied inline.
\* A timed-out XADD may have reached the stream all the same.
EnqueueFails(c) ==
    /\ At(c, "enqueue")
    /\ Appended(Note(c)) \/ UNCHANGED <<stream, room>>
    /\ Goes(c, [calls[c] EXCEPT !.pc = "resolve"])
    /\ UNCHANGED <<store, caches, dead, outstanding>>

-----------------------------------------------------------------------------
(***************************************************************************)
(* Process: routing.                                                       *)
(***************************************************************************)

\* Mutant of AfterRouting: the provider's status is not looked at.
AfterRoutingAny(n) == "apply"

\* Routed money is applied when it has settled and filed as ignored when not.
AfterRouting(n) == IF n.settled THEN "apply" ELSE "record"

\* GetRef: a cached route is used as it is.
RouteCached(c) ==
    /\ At(c, "resolve")
    /\ refCache[Note(c).customer] # None
    /\ Goes(c, [calls[c] EXCEPT !.pc = AfterRouting(Note(c)),
                                !.dep = refCache[Note(c).customer]])
    /\ UNCHANGED <<store, caches, queue, outstanding>>

RouteMiss(c) ==
    /\ At(c, "resolve")
    /\ Goes(c, [calls[c] EXCEPT !.pc = "route"])
    /\ UNCHANGED <<store, caches, queue, outstanding>>

\* GetByCustomerID found an open deployment; it is cached in a step of its own.
RouteRead(c) ==
    /\ At(c, "route")
    /\ \E d \in OpenOf(Note(c).customer) :
          Goes(c, [calls[c] EXCEPT !.pc = "fill", !.dep = d])
    /\ UNCHANGED <<store, caches, queue, outstanding>>

\* Mutant of RouteFails: a routing failure is returned like any other 4xx.
RouteFailsUnfiled(c) ==
    /\ At(c, "route")
    /\ OpenOf(Note(c).customer) = {}
    /\ Ends(c, "conflict")
    /\ UNCHANGED <<store, caches, queue>>

\* ErrNotFound and ErrNoOpenDeployment are routing failures: the money is
\* filed as unmatched.
RouteFails(c) ==
    /\ At(c, "route")
    /\ OpenOf(Note(c).customer) = {}
    /\ Goes(c, [calls[c] EXCEPT !.pc = "record"])
    /\ UNCHANGED <<store, caches, queue, outstanding>>

\* SetRef, by Resolve on its way to the ledger.
FillRoute(c) ==
    /\ At(c, "fill")
    /\ calls[c].kind # "create"
    /\ refCache' \in {refCache, [refCache EXCEPT ![Note(c).customer] = calls[c].dep]}
    /\ Goes(c, [calls[c] EXCEPT !.pc = AfterRouting(Note(c))])
    /\ UNCHANGED <<store, resultCache, queue, outstanding>>

-----------------------------------------------------------------------------
(***************************************************************************)
(* Process: the ledger.                                                    *)
(***************************************************************************)

\* Record files the notification, or finds the row its reference already has.
Record(c) ==
    /\ At(c, "record")
    /\ LET n     == Note(c)
           d     == calls[c].dep
           new   == RowFor(IF d = None THEN "unmatched" ELSE "ignored", n, d,
                           n.currency, 0, 0)
           fresh == rows[n.ref] = None
       IN  /\ rows' = IF fresh THEN [rows EXCEPT ![n.ref] = new] ELSE rows
           /\ Goes(c, [calls[c] EXCEPT !.pc = "reply", !.row = rows'[n.ref],
                                       !.fresh = fresh])
    /\ UNCHANGED <<deployments, caches, queue, outstanding>>

\* Apply moves the balance of the deployment the routing chose, whatever its
\* status is by now, and the row takes the deployment's currency; or it finds
\* the row its reference already has.
Apply(c) ==
    /\ At(c, "apply")
    /\ LET n    == Note(c)
           d    == calls[c].dep
           paid == deployments[d].paid
           new  == RowFor("applied", n, d, DepCurrency[d], paid, paid + n.amount)
       IN  \/ /\ rows[n.ref] = None
              /\ rows' = [rows EXCEPT ![n.ref] = new]
              /\ deployments' = [deployments EXCEPT ![d].paid = @ + n.amount]
              /\ Goes(c, [calls[c] EXCEPT !.pc = "cache", !.row = new, !.fresh = TRUE])
           \/ /\ rows[n.ref] # None
              /\ Goes(c, [calls[c] EXCEPT !.pc = "reply", !.row = rows[n.ref]])
              /\ UNCHANGED store
    /\ UNCHANGED <<caches, queue, outstanding>>

\* Mutant of CachedRow: the currency the provider sent, not the deployment's.
CachedRowAsSent(c) == [calls[c].row EXCEPT !.currency = Note(c).currency]

\* The payment inside the cached result.
CachedRow(c) == calls[c].row

\* SetResult, only by the call that moved the money.
CacheResult(c) ==
    /\ At(c, "cache")
    /\ resultCache' \in {resultCache,
                         [resultCache EXCEPT ![Note(c).ref] = CachedRow(c)]}
    /\ Goes(c, [calls[c] EXCEPT !.pc = "reply"])
    /\ UNCHANGED <<store, refCache, queue, outstanding>>

\* Mutant of Outcome: a replay repeats the first answer.
OutcomeRepeated(st) ==
    IF st.fresh \/ SameRequest(st.row, st.n) THEN st.row.outcome ELSE "conflict"

\* What Process returns for the row it holds.
Outcome(st) ==
    IF st.fresh THEN st.row.outcome
    ELSE IF SameRequest(st.row, st.n) THEN "duplicate" ELSE "conflict"

\* A worker acknowledges what is settled and dead-letters a conflict first;
\* the acknowledgement, or the dead letter, may be lost.
Settle(c, answer) ==
    \/ UNCHANGED queue
    \/ /\ dead' = IF answer = "conflict" THEN dead \cup {Note(c)} ELSE dead
       /\ stream' \in {stream, stream \ {Note(c)}}
       /\ UNCHANGED room

Reply(c) ==
    /\ At(c, "reply")
    /\ LET answer == Outcome(calls[c])
       IN  /\ Ends(c, answer)
           /\ IF calls[c].kind = "worker" THEN Settle(c, answer) ELSE UNCHANGED queue
    /\ UNCHANGED <<store, caches>>

-----------------------------------------------------------------------------
(***************************************************************************)
(* Create.                                                                 *)
(***************************************************************************)

\* The partial unique index admits one open deployment per customer.
Create(c, k) ==
    /\ At(c, "create")
    /\ LET d == calls[c].dep
       IN  \/ /\ OpenOf(k) = {}
              /\ deployments[d] = None
              /\ deployments' = [deployments EXCEPT ![d] = [customer |-> k, paid |-> 0]]
              /\ Goes(c, [calls[c] EXCEPT !.pc = "fill"])
              /\ UNCHANGED outstanding
           \/ /\ OpenOf(k) # {} \/ deployments[d] # None
              /\ Ends(c, "conflict")
              /\ UNCHANGED deployments
    /\ UNCHANGED <<rows, caches, queue>>

\* SetRef, by Create.
FillCreated(c) ==
    /\ At(c, "fill")
    /\ calls[c].kind = "create"
    /\ LET d == calls[c].dep
       IN  refCache' \in {refCache,
                          [refCache EXCEPT ![deployments[d].customer] = d]}
    /\ Ends(c, "created")
    /\ UNCHANGED <<store, resultCache, queue>>

-----------------------------------------------------------------------------
(***************************************************************************)
(* Failure: a database error, a deadline, a lost connection or a dead      *)
(* replica ends the call wherever it is, before or after its commit.  The  *)
(* provider sees a 5xx or nothing; a worker's message stays pending, or is *)
(* dead-lettered when that was its last attempt.                           *)
(***************************************************************************)
Fail(c) ==
    /\ Running(c)
    /\ Ends(c, "error")
    /\ \/ UNCHANGED queue
       \/ /\ calls[c].kind = "worker"
          /\ dead' = dead \cup {Note(c)}
          /\ stream' \in {stream, stream \ {Note(c)}}
          /\ UNCHANGED room
    /\ UNCHANGED <<store, caches>>

\* Redis comes back without its data: both streams and the caches are empty.  What
\* goroutines have in memory is not lost.
LoseData ==
    /\ room' = [n \in Notification |-> IF n \in stream \cup dead THEN 0 ELSE room[n]]
    /\ stream' = {} /\ dead' = {}
    /\ refCache' = [k \in Customer |-> None]
    /\ resultCache' = [r \in Ref |-> None]
    /\ UNCHANGED <<store, calls, outstanding>>

Arrive(c) == \/ \E n \in Notification : Receive(c, n) \/ Deliver(c, n)
             \/ \E d \in Dep : StartCreate(c, d)

\* One step of a call that does not fail.
Work(c) == \/ LookupHit(c) \/ LookupMiss(c)
           \/ Enqueue(c) \/ EnqueueFails(c)
           \/ RouteCached(c) \/ RouteMiss(c) \/ RouteRead(c) \/ RouteFails(c)
           \/ FillRoute(c)
           \/ Record(c) \/ Apply(c) \/ CacheResult(c) \/ Reply(c)
           \/ \E k \in Customer : Create(c, k)
           \/ FillCreated(c)

Next == \/ \E c \in Call : Arrive(c) \/ Work(c) \/ Fail(c)
        \/ LoseData

Spec == Init /\ [][Next]_vars

\* Every operation has a deadline, so a call moves on or fails.
Fairness == \A c \in Call : WF_vars(Work(c) \/ Fail(c))

FairSpec == Spec /\ Fairness

\* Those around the service do not give n up: the provider repeats what it has no
\* final answer for, workers come back to what is not acknowledged (behind a loss,
\* when a restart has made their group again), and failures do not hit every
\* attempt: a step that n keeps reaching is taken at last.
For(n, A(_)) == \E c \in Call : Note(c) = n /\ A(c)

Persists(n) ==
    /\ SF_vars(n \in outstanding /\ \E c \in Call : Receive(c, n))
    /\ SF_vars(\E c \in Call : Deliver(c, n))
    /\ SF_vars(For(n, LookupMiss))
    /\ SF_vars(For(n, Enqueue))
    /\ SF_vars(For(n, RouteMiss))
    /\ SF_vars(For(n, RouteRead) \/ For(n, RouteFails))
    /\ SF_vars(For(n, FillRoute))
    /\ SF_vars(For(n, Record))
    /\ SF_vars(For(n, Apply))

-----------------------------------------------------------------------------
(***************************************************************************)
(* Properties.                                                             *)
(***************************************************************************)

\* Redis may have dropped n or has lost it: MaxLen entries followed its newest one,
\* or the data went while n was on a stream.
GoneWithQueue(n) == room[n] = 0

\* Once the provider has been told to stop retrying, the ledger has the reference,
\* or the notification is on one of the two streams.  The service promises no more
\* than Redis keeps: the exceptions are a notification with MaxLen newer entries
\* behind its own and one that was on a stream when the data went.
AcceptedIsKept ==
    \A n \in Notification \ outstanding :
        \/ rows[n.ref] # None
        \/ n \in stream \cup dead
        \/ GoneWithQueue(n)

\* What a caller is told is what the ledger holds, now and ever after: the row
\* behind an answer is the stored one, a first answer names its outcome, and a
\* replay is never somebody else's (the result cache included).
AnswersMatchLedger ==
    \A c \in Call : LET st == calls[c] IN
        ShowsRow(st.answer) =>
            /\ st.row = rows[st.n.ref]
            /\ IF st.answer = "duplicate" THEN SameRequest(st.row, st.n)
                                          ELSE st.answer = st.row.outcome

\* However often a notification is sent, redelivered or retried after a failure
\* behind its commit, one caller at most is told that its credit was applied.  (That
\* the others are told what is in the ledger is AnswersMatchLedger.)
AppliedToldOnce ==
    \A c1, c2 \in Call :
        /\ calls[c1].answer = "applied"
        /\ calls[c2].answer = "applied"
        /\ calls[c1].n.ref = calls[c2].n.ref
        => c1 = c2

\* Both caches only repeat the database: a cached result is the settled row of
\* its reference, and a cached route leads to a deployment of that customer.
CachesRepeatDatabase ==
    /\ \A r \in Ref : resultCache[r] # None =>
          resultCache[r] = rows[r] /\ rows[r].outcome = "applied"
    /\ \A k \in Customer : refCache[k] # None => refCache[k] \in OwnedBy(k)

CreditsOf(d) == {r \in Ref : /\ rows[r] # None
                             /\ rows[r].outcome = "applied"
                             /\ rows[r].dep = d}

\* A balance is the settled money of the deployment's own customer and nothing
\* else, whichever cache the routing came from.
BalanceIsOwnersMoney ==
    \A d \in Dep : deployments[d] # None =>
        /\ deployments[d].paid =
              SumFunctionOnSet([r \in CreditsOf(d) |-> rows[r].amount], CreditsOf(d))
        /\ \A r \in CreditsOf(d) : /\ rows[r].settled
                                   /\ rows[r].customer = deployments[d].customer

\* Every notification that is not given up ends in the ledger, or aside on the
\* dead-letter stream after its last attempt.  One that Redis dropped or lost after
\* the provider was told to stop comes back to nobody: it is excepted.
EveryNotificationIsFiled ==
    \A n \in Notification :
        Persists(n) => <>(\/ rows[n.ref] # None
                          \/ n \in dead
                          \/ n \notin outstanding /\ GoneWithQueue(n))

(***************************************************************************)
(* The abstract ledger.                                                    *)
(***************************************************************************)
EntryOf(row) ==
    IF row = None THEN None
    ELSE [outcome |-> row.outcome, dep |-> row.dep, amount |-> row.amount,
          before |-> row.before, after |-> row.after]

BalanceOf(d) == IF deployments[d] = None THEN 0 ELSE deployments[d].paid

L == INSTANCE Ledger WITH entries <- [r \in Ref |-> EntryOf(rows[r])],
                          balance <- [d \in Dep |-> BalanceOf(d)],
                          NoRow <- None, NoDep <- None

\* Whatever the callers, caches, queues and failures around it do, the ledger they
\* share takes the atomic steps that the statements of ApplyStatement implement.
LedgerSpec == L!Spec

(***************************************************************************)
(* What the documentation says and the code does not do.                   *)
(***************************************************************************)

\* "Money can only be applied to a deployment still accepting repayments."
MoneyReachesOpenDeployments ==
    [][\A d \in Dep :
          deployments[d] # None /\ deployments'[d] # deployments[d] => Open(d)]_vars

\* "200 applied, or a replay of an already-applied notification": the handler
\* answers 200 to applied and to duplicate.
OkMeansMoved ==
    \A c \in Call : calls[c].answer \in {"applied", "duplicate"} =>
                        calls[c].row.outcome = "applied"

\* "Identical notification, sent again: 200 duplicate": a conflict needs a
\* second request that uses the reference.
IdenticalIsNoConflict ==
    \A c \in Call : calls[c].kind = "http" /\ calls[c].answer = "conflict" =>
        \E m \in Notification \ {Note(c)} : m.ref = Note(c).ref
=============================================================================
