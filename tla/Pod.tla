-------------------------------- MODULE Pod --------------------------------
(***************************************************************************)
(* One process of the service seen from its resources: the middleware a    *)
(* request passes, the semaphore that sheds load, and the order in which a *)
(* terminating process drains its requests, stops its workers and closes   *)
(* what both of them use.                                                  *)
(*                                                                         *)
(* What a request or a worker does with the ledger is PaymentService's and *)
(* PaymentQueue's; here it is work that ends, fails or panics.  Deadlines  *)
(* are steps that may come at any time.                                    *)
(***************************************************************************)
EXTENDS Integers, FiniteSets

CONSTANTS
    Payer,    \* connections that send POST /api/v1/payments
    Other,    \* connections of the operator's routes: no shedding, no timeout
    Worker,   \* queue workers and the reclaimer; none when the queue is off
    Ceiling   \* HTTP_MAX_INFLIGHT_PAYMENTS

ASSUME ConnAssumption    == Payer \cap Other = {} /\ IsFiniteSet(Payer)
ASSUME CeilingAssumption == Ceiling \in Nat \ {0}

VARIABLES
    pc,       \* pc[c]: where the request on connection c is
    slots,    \* len(admission)
    gauge,    \* the PaymentsInflight gauge
    worker,   \* worker[w]: between two batches, handling one, or stopped
    hook,     \* the OnStop hook that is running
    drained,  \* Shutdown has returned nil
    closed    \* what OnStop hooks have closed

vars == <<pc, slots, gauge, worker, hook, drained, closed>>

Conn == Payer \cup Other

Pc == {"idle", "body", "sign", "admit", "handler", "work", "unwind"}

\* The process runs and, once told to stop, runs its OnStop hooks: in the
\* reverse of the order in which the constructors appended them.
Hook == {"running", "server", "workers", "cache", "pool", "exited"}

TypeOK ==
    /\ pc \in [Conn -> Pc]
    /\ slots \in 0 .. Ceiling
    /\ gauge \in 0 .. Cardinality(Payer)
    /\ worker \in [Worker -> {"ready", "busy", "stopped"}]
    /\ hook \in Hook
    /\ drained \in BOOLEAN
    /\ closed \subseteq {"queue", "cache", "pool"}

\* A process whose OnStart hooks have run.
Init ==
    /\ pc = [c \in Conn |-> "idle"]
    /\ slots = 0
    /\ gauge = 0
    /\ worker = [w \in Worker |-> "ready"]
    /\ hook = "running"
    /\ drained = FALSE
    /\ closed = {}

Up == hook # "exited"

\* Connection c is at `from` and goes on to `to`.
Step(c, from, to) ==
    /\ Up
    /\ pc[c] = from
    /\ pc' = [pc EXCEPT ![c] = to]

process == <<worker, hook, drained, closed>>

-----------------------------------------------------------------------------
(***************************************************************************)
(* The middleware, outermost first.                                        *)
(***************************************************************************)

\* The listener is open until Shutdown closes it.
Connect(c) ==
    /\ hook = "running"
    /\ Step(c, "idle", "body")
    /\ UNCHANGED <<slots, gauge, process>>

\* Body reads everything before the signature and the admission of a payment.
ReadBody(c) ==
    /\ Step(c, "body", IF c \in Payer THEN "sign" ELSE "handler")
    /\ UNCHANGED <<slots, gauge, process>>

\* Too long, or not read within the server's ReadTimeout: 400.
BodyFails(c) ==
    /\ Step(c, "body", "idle")
    /\ UNCHANGED <<slots, gauge, process>>

\* The signature is missing or wrong: 401.
Unsigned(c) ==
    /\ Step(c, "sign", "idle")
    /\ UNCHANGED <<slots, gauge, process>>

Signature(c) ==
    /\ Step(c, "sign", "admit")
    /\ UNCHANGED <<slots, gauge, process>>

Admit(c) ==
    /\ slots < Ceiling
    /\ Step(c, "admit", "handler")
    /\ slots' = slots + 1
    /\ UNCHANGED <<gauge, process>>

\* The channel is full: 429, without waiting.
Shed(c) ==
    /\ slots = Ceiling
    /\ Step(c, "admit", "idle")
    /\ UNCHANGED <<slots, gauge, process>>

\* Mutant of Decline: the early return does not pass the release.
DeclineKeepsSlot(c) ==
    /\ Step(c, "handler", "idle")
    /\ UNCHANGED <<slots, gauge, process>>

\* The handler cannot parse the request: 400.
Decline(c) ==
    /\ Step(c, "handler", "unwind")
    /\ UNCHANGED <<slots, gauge, process>>

\* Execute counts itself in and, deferred, out again.
Begin(c) ==
    /\ Step(c, "handler", "work")
    /\ gauge' = IF c \in Payer THEN gauge + 1 ELSE gauge
    /\ UNCHANGED <<slots, process>>

CountedOut(c) == gauge' = IF c \in Payer THEN gauge - 1 ELSE gauge

Released(c) == slots' = IF c \in Payer THEN slots - 1 ELSE slots

\* The work ends, with a result, an error or its deadline, and is answered.
Finish(c) ==
    /\ Step(c, "work", "unwind")
    /\ CountedOut(c)
    /\ UNCHANGED <<slots, process>>

\* Mutant of Panic: the slot is given back behind the call, not deferred.
PanicKeepsSlot(c) ==
    /\ Step(c, "work", "idle")
    /\ CountedOut(c)
    /\ UNCHANGED <<slots, process>>

\* Mutant of Panic: the gauge is counted out behind the call, not deferred.
PanicKeepsGauge(c) ==
    /\ Step(c, "work", "idle")
    /\ Released(c)
    /\ UNCHANGED <<gauge, process>>

\* The work panics: the deferred calls run on the way to Recovery's 500.
Panic(c) ==
    /\ Step(c, "work", "idle")
    /\ CountedOut(c)
    /\ Released(c)
    /\ UNCHANGED process

\* The answer is written; now LoadShedding's deferred call runs.
Unwind(c) ==
    /\ Step(c, "unwind", "idle")
    /\ Released(c)
    /\ UNCHANGED <<gauge, process>>

Serve(c) == \/ ReadBody(c) \/ BodyFails(c) \/ Unsigned(c) \/ Signature(c)
            \/ Admit(c) \/ Shed(c) \/ Decline(c) \/ Begin(c)
            \/ Finish(c) \/ Panic(c) \/ Unwind(c)

-----------------------------------------------------------------------------
(***************************************************************************)
(* Workers.  Their context is cancelled by the second OnStop hook.         *)
(***************************************************************************)

requests == <<pc, slots, gauge>>

Cancelled == hook \notin {"running", "server"}

\* XREADGROUP or XAUTOCLAIM returns a batch, perhaps after the cancellation.
Take(w) ==
    /\ Up
    /\ worker[w] = "ready"
    /\ worker' = [worker EXCEPT ![w] = "busy"]
    /\ UNCHANGED <<requests, hook, drained, closed>>

\* The batch is handled, and what was not acknowledged stays pending.  A cancelled
\* worker does not read another.
Done(w) ==
    /\ Up
    /\ worker[w] = "busy"
    /\ worker' = [worker EXCEPT ![w] = IF Cancelled THEN "stopped" ELSE "ready"]
    /\ UNCHANGED <<requests, hook, drained, closed>>

\* A worker that waits for messages sees the cancellation.
Leave(w) ==
    /\ Up
    /\ Cancelled
    /\ worker[w] = "ready"
    /\ worker' = [worker EXCEPT ![w] = "stopped"]
    /\ UNCHANGED <<requests, hook, drained, closed>>

-----------------------------------------------------------------------------
(***************************************************************************)
(* The stop.                                                               *)
(***************************************************************************)

\* Mutant of Following: the workers' hook is appended before the pools'.
FollowingPoolsFirst(h) ==
    [running |-> "server", server |-> "cache", cache |-> "pool",
     pool |-> "workers", workers |-> "exited"][h]

\* Constructors append in the order of the dependencies: the pool, the cache,
\* then the workers, which need both, then the server.
Following(h) ==
    [running |-> "server", server |-> "workers", workers |-> "cache",
     cache |-> "pool", pool |-> "exited"][h]

Ran(h) == hook = h /\ hook' = Following(h)

\* SIGTERM: Shutdown closes the listener and waits.
Terminate ==
    /\ Ran("running")
    /\ UNCHANGED <<requests, worker, drained, closed>>

Drained ==
    /\ Ran("server")
    /\ \A c \in Conn : pc[c] = "idle"
    /\ drained' = TRUE
    /\ UNCHANGED <<requests, worker, closed>>

\* Mutant of DrainExpires: Shutdown is given no deadline.
DrainUnbounded == FALSE

\* HTTP_SHUTDOWN_TIMEOUT: the hook returns an error, the requests go on.
DrainExpires ==
    /\ Ran("server")
    /\ UNCHANGED <<requests, worker, drained, closed>>

\* cancel(), wg.Wait(), then the queue's own Redis client is closed.
WorkersStopped ==
    /\ Ran("workers")
    /\ \A w \in Worker : worker[w] = "stopped"
    /\ closed' = closed \cup {"queue"}
    /\ UNCHANGED <<requests, worker, drained>>

Close(h) ==
    /\ Ran(h)
    /\ closed' = closed \cup {h}
    /\ UNCHANGED <<requests, worker, drained>>

\* The stop takes longer than the framework allows, a worker panics (nothing
\* recovers there) or the process is killed.
Die ==
    /\ Up
    /\ hook' = "exited"
    /\ UNCHANGED <<requests, worker, drained, closed>>

Stop == \/ Drained \/ DrainExpires \/ WorkersStopped
        \/ \E h \in {"cache", "pool"} : Close(h)

Next == \/ \E c \in Conn : Connect(c) \/ Serve(c)
        \/ \E w \in Worker : Take(w) \/ Done(w) \/ Leave(w)
        \/ Terminate \/ Stop \/ Die

Spec == Init /\ [][Next]_vars

\* A payment has its Timeout and a message its ProcessTimeout; hooks run.  The
\* operator's requests have no deadline: nothing is assumed of them.
Fairness ==
    /\ \A c \in Payer : WF_vars(Serve(c))
    /\ \A w \in Worker : WF_vars(Done(w)) /\ WF_vars(Leave(w))
    /\ WF_vars(Stop)

FairSpec == Spec /\ Fairness

-----------------------------------------------------------------------------
(***************************************************************************)
(* Properties.                                                             *)
(***************************************************************************)

Inside == {"handler", "work", "unwind"}

\* The semaphore holds one slot for every payment between its admission and its
\* return, and the gauge counts those at work, whichever way a request ends: a
\* slot that leaks is capacity lost until the pod restarts.
SlotsMatchHolders ==
    /\ slots = Cardinality({c \in Payer : pc[c] \in Inside})
    /\ gauge = Cardinality({c \in Payer : pc[c] = "work"})

\* Nothing is closed under its users: the workers have stopped before anything
\* is closed, and so have all requests if the server was drained.
UsersLeaveFirst ==
    closed # {} =>
        /\ \A w \in Worker : worker[w] = "stopped"
        /\ drained => \A c \in Conn : pc[c] = "idle"

\* Shedding is not for ever: a full semaphore has room again.
CapacityReturns == slots = Ceiling ~> slots < Ceiling \/ ~Up

\* A process that was told to stop does, even if an operator's request hangs.
StopEnds == hook = "server" ~> ~Up
=============================================================================
