----------------------------- MODULE PodProofs -----------------------------
(***************************************************************************)
(* Proofs about Pod, for every number of connections, workers and slots.   *)
(***************************************************************************)
EXTENDS Pod, FiniteSetTheorems, TLAPS

\* How far the stop has come, and who may still be at work by then.
StopOrder ==
    /\ drained => /\ hook \notin {"running", "server"}
                  /\ \A c \in Conn : pc[c] = "idle"
    /\ closed # {} => hook \in {"cache", "pool", "exited"}
    /\ hook \in {"cache", "pool"} \/ closed # {} =>
          \A w \in Worker : worker[w] = "stopped"

\* Only payments are signed and admitted: without this a request of the operator
\* could take a slot it never gives back.
OthersPass == \A c \in Conn \ Payer : pc[c] \notin {"sign", "admit"}

IInv == TypeOK /\ SlotsMatchHolders /\ OthersPass /\ StopOrder

-----------------------------------------------------------------------------
(***************************************************************************)
(* Counting the payments that are at one of some places.                   *)
(***************************************************************************)

Among(p, S) == {x \in Payer : p[x] \in S}

\* A count is at most the number of payments.
LEMMA CountBounds ==
    ASSUME NEW p, NEW S
    PROVE  /\ IsFiniteSet(Among(p, S))
           /\ Cardinality(Among(p, S)) \in Nat
           /\ Cardinality(Among(p, S)) <= Cardinality(Payer)
           /\ Cardinality(Payer) \in Nat
<1>1. Among(p, S) \in SUBSET Payer /\ IsFiniteSet(Payer)
  BY ConnAssumption DEF Among
<1> QED
  BY <1>1, FS_Subset, FS_CardinalityType

\* One request moves: the count of the places S stays, or changes by one.
LEMMA MoveCounts ==
    ASSUME NEW p, NEW q, NEW c, NEW to, NEW S,
           \A x \in Payer : q[x] = IF x = c THEN to ELSE p[x]
    PROVE  /\ c \notin Payer \/ (p[c] \in S <=> to \in S) =>
                 Cardinality(Among(q, S)) = Cardinality(Among(p, S))
           /\ c \in Payer /\ p[c] \notin S /\ to \in S =>
                 Cardinality(Among(q, S)) = Cardinality(Among(p, S)) + 1
           /\ c \in Payer /\ p[c] \in S /\ to \notin S =>
                 Cardinality(Among(q, S)) = Cardinality(Among(p, S)) - 1
<1>1. \A x \in Payer : q[x] = IF x = c THEN to ELSE p[x]
  OBVIOUS
<1>2. ASSUME c \notin Payer \/ (p[c] \in S <=> to \in S)
      PROVE  Among(q, S) = Among(p, S)
  BY <1>1, <1>2 DEF Among
<1>3. ASSUME c \in Payer, p[c] \notin S, to \in S
      PROVE  Cardinality(Among(q, S)) = Cardinality(Among(p, S)) + 1
  <2>1. Among(q, S) = Among(p, S) \cup {c} /\ c \notin Among(p, S)
    BY <1>1, <1>3 DEF Among
  <2> QED
    BY <2>1, CountBounds, FS_AddElement
<1>4. ASSUME c \in Payer, p[c] \in S, to \notin S
      PROVE  Cardinality(Among(q, S)) = Cardinality(Among(p, S)) - 1
  <2>1. Among(q, S) = Among(p, S) \ {c} /\ c \in Among(p, S)
    BY <1>1, <1>4 DEF Among
  <2> QED
    BY <2>1, CountBounds, FS_RemoveElement
<1> QED
  BY <1>2, <1>3, <1>4

\* The invariant in terms of the two counts.
LEMMA Counted ==
    SlotsMatchHolders <=> /\ slots = Cardinality(Among(pc, Inside))
                          /\ gauge = Cardinality(Among(pc, {"work"}))
<1>1. {c \in Payer : pc[c] = "work"} = Among(pc, {"work"})
  BY DEF Among
<1>2. {c \in Payer : pc[c] \in Inside} = Among(pc, Inside)
  BY DEF Among
<1> QED
  BY <1>1, <1>2 DEF SlotsMatchHolders

\* The same in the next state.
LEMMA CountedNext ==
    SlotsMatchHolders' <=> /\ slots' = Cardinality(Among(pc', Inside))
                           /\ gauge' = Cardinality(Among(pc', {"work"}))
<1>1. {c \in Payer : pc'[c] = "work"} = Among(pc', {"work"})
  BY DEF Among
<1>2. {c \in Payer : pc'[c] \in Inside} = Among(pc', Inside)
  BY DEF Among
<1> QED
  BY <1>1, <1>2 DEF SlotsMatchHolders

-----------------------------------------------------------------------------
(***************************************************************************)
(* Requests.                                                               *)
(***************************************************************************)

\* What every step of a request does: it moves, takes a slot only when there is
\* room, and moves slot and gauge with it.
Moves(c, from, to) ==
    /\ Step(c, from, to)
    /\ from \in Pc /\ to \in Pc
    /\ c \notin Payer => to \notin {"sign", "admit"}
    /\ from = "idle" => hook = "running"
    /\ slots' = IF c \notin Payer \/ (from \in Inside <=> to \in Inside)
                THEN slots ELSE IF to \in Inside THEN slots + 1 ELSE slots - 1
    /\ gauge' = IF c \notin Payer \/ (from = "work" <=> to = "work")
                THEN gauge ELSE IF to = "work" THEN gauge + 1 ELSE gauge - 1
    /\ slots' > slots => slots < Ceiling
    /\ UNCHANGED process

\* Every action of a request is such a move.
LEMMA RequestMoves ==
    ASSUME IInv, NEW c \in Conn, Connect(c) \/ Serve(c)
    PROVE  \E from, to \in Pc : Moves(c, from, to)
<1> USE DEF Moves, Step, Pc, Inside
<1>0. slots \in Nat /\ gauge \in Nat /\ Ceiling \in Nat
  BY CeilingAssumption DEF IInv, TypeOK, SlotsMatchHolders
<1>a. c \notin Payer => pc[c] \notin {"sign", "admit"}
  BY DEF IInv, OthersPass
<1>1. CASE Connect(c)
  <2>1. Moves(c, "idle", "body")
    BY <1>0, <1>1 DEF Connect
  <2> QED
    BY <2>1
<1>2. CASE ReadBody(c)
  <2>1. CASE c \in Payer
    <3>1. Moves(c, "body", "sign")
      BY <1>0, <1>2, <2>1 DEF ReadBody
    <3> QED
      BY <3>1
  <2>2. CASE c \notin Payer
    <3>1. Moves(c, "body", "handler")
      BY <1>0, <1>2, <2>2 DEF ReadBody
    <3> QED
      BY <3>1
  <2> QED
    BY <2>1, <2>2
<1>3. CASE BodyFails(c)
  <2>1. Moves(c, "body", "idle")
    BY <1>0, <1>3 DEF BodyFails
  <2> QED
    BY <2>1
<1>4. CASE Unsigned(c)
  <2>1. Moves(c, "sign", "idle")
    BY <1>0, <1>4 DEF Unsigned
  <2> QED
    BY <2>1
<1>5. CASE Signature(c)
  <2>1. Moves(c, "sign", "admit")
    BY <1>0, <1>a, <1>5 DEF Signature
  <2> QED
    BY <2>1
<1>6. CASE Admit(c)
  <2>1. Moves(c, "admit", "handler")
    BY <1>0, <1>a, <1>6 DEF Admit
  <2> QED
    BY <2>1
<1>7. CASE Shed(c)
  <2>1. Moves(c, "admit", "idle")
    BY <1>0, <1>7 DEF Shed
  <2> QED
    BY <2>1
<1>8. CASE Decline(c)
  <2>1. Moves(c, "handler", "unwind")
    BY <1>0, <1>8 DEF Decline
  <2> QED
    BY <2>1
<1>9. CASE Begin(c)
  <2>1. Moves(c, "handler", "work")
    BY <1>0, <1>9 DEF Begin
  <2> QED
    BY <2>1
<1>10. CASE Finish(c)
  <2>1. Moves(c, "work", "unwind")
    BY <1>0, <1>10 DEF Finish, CountedOut
  <2> QED
    BY <2>1
<1>11. CASE Panic(c)
  <2>1. Moves(c, "work", "idle")
    BY <1>0, <1>11 DEF Panic, CountedOut, Released
  <2> QED
    BY <2>1
<1>12. CASE Unwind(c)
  <2>1. Moves(c, "unwind", "idle")
    BY <1>0, <1>12 DEF Unwind, Released
  <2> QED
    BY <2>1
<1> QED
  BY <1>1, <1>2, <1>3, <1>4, <1>5, <1>6, <1>7, <1>8, <1>9, <1>10, <1>11, <1>12
     DEF Serve

\* A request's step preserves the invariant.
LEMMA RequestInvariant ==
    ASSUME IInv, NEW c \in Conn, Connect(c) \/ Serve(c)
    PROVE  IInv'
<1>1. PICK from \in Pc, to \in Pc : Moves(c, from, to)
  BY RequestMoves
<1>2. /\ pc \in [Conn -> Pc] /\ pc[c] = from /\ pc' = [pc EXCEPT ![c] = to]
      /\ slots \in Nat /\ gauge \in Nat /\ slots <= Ceiling /\ Ceiling \in Nat
      /\ UNCHANGED process
  BY <1>1, CeilingAssumption DEF Moves, Step, IInv, TypeOK
<1> DEFINE Count(S) == Cardinality(Among(pc, S))
           After(S) == Cardinality(Among(pc', S))
<1>b. ASSUME NEW S
      PROVE  After(S) = IF c \notin Payer \/ (from \in S <=> to \in S) THEN Count(S)
                       ELSE IF to \in S THEN Count(S) + 1 ELSE Count(S) - 1
  <2>1. pc[c] = from /\ \A x \in Payer : pc'[x] = IF x = c THEN to ELSE pc[x]
    BY <1>2 DEF Conn
  <2>2. /\ c \notin Payer \/ (pc[c] \in S <=> to \in S) => After(S) = Count(S)
        /\ c \in Payer /\ pc[c] \notin S /\ to \in S => After(S) = Count(S) + 1
        /\ c \in Payer /\ pc[c] \in S /\ to \notin S => After(S) = Count(S) - 1
    BY <2>1, MoveCounts
  <2> HIDE DEF After, Count
  <2> QED
    BY <2>1, <2>2
<1>3. slots' = After(Inside)
  <2>1. slots = Count(Inside)
    BY Counted DEF IInv
  <2> QED
    BY <1>1, <1>b, <2>1 DEF Moves
<1>4. gauge' = After({"work"})
  <2>1. gauge = Count({"work"})
    BY Counted DEF IInv
  <2>2. \A x : x \in {"work"} <=> x = "work"
    OBVIOUS
  <2>3. After({"work"}) = IF c \notin Payer \/ (from = "work" <=> to = "work")
                         THEN Count({"work"})
                         ELSE IF to = "work" THEN Count({"work"}) + 1
                                             ELSE Count({"work"}) - 1
    BY <1>b, <2>2
  <2> QED
    BY <1>1, <2>1, <2>3 DEF Moves
<1>5. slots' \in 0 .. Ceiling
  <2>1. slots' \in Nat /\ slots' <= slots + 1
    BY <1>1, <1>2, <1>3, CountBounds DEF Moves
  <2> QED
    BY <1>1, <1>2, <2>1 DEF Moves
<1>6. gauge' \in 0 .. Cardinality(Payer)
  BY <1>4, CountBounds
<1>7. TypeOK'
  BY <1>1, <1>2, <1>5, <1>6 DEF IInv, TypeOK, process
<1>8. SlotsMatchHolders'
  BY <1>3, <1>4, CountedNext
<1>9. OthersPass'
  BY <1>1, <1>2 DEF IInv, OthersPass, Moves
<1>10. StopOrder'
  <2>1. ~drained
    BY <1>1 DEF IInv, StopOrder, Moves, Step
  <2> QED
    BY <1>2, <2>1 DEF IInv, StopOrder, process
<1> QED
  BY <1>7, <1>8, <1>9, <1>10 DEF IInv

-----------------------------------------------------------------------------
(***************************************************************************)
(* Workers and hooks.                                                      *)
(***************************************************************************)

\* Nothing a worker or a hook does touches the requests.
LEMMA RequestsKept ==
    ASSUME IInv, UNCHANGED requests
    PROVE  SlotsMatchHolders' /\ OthersPass'
BY DEF IInv, requests, SlotsMatchHolders, OthersPass

\* A worker that has stopped stays so: it never touches what has been closed.
LEMMA WorkerInvariant ==
    ASSUME IInv, NEW w \in Worker, Take(w) \/ Done(w) \/ Leave(w)
    PROVE  IInv'
<1>1. /\ UNCHANGED <<requests, hook, drained, closed>>
      /\ worker[w] # "stopped"
      /\ \E st \in {"ready", "busy", "stopped"} : worker' = [worker EXCEPT ![w] = st]
  BY DEF Take, Done, Leave
<1>2. TypeOK'
  BY <1>1 DEF IInv, TypeOK, requests
<1>3. StopOrder'
  BY <1>1 DEF IInv, StopOrder, requests
<1> QED
  BY <1>1, <1>2, <1>3, RequestsKept DEF IInv

\* A hook runs only behind the one before it.
LEMMA HookInvariant ==
    ASSUME IInv, Terminate \/ Stop \/ Die
    PROVE  IInv'
<1>1. UNCHANGED <<requests, worker>>
  BY DEF Terminate, Stop, Drained, DrainExpires, WorkersStopped, Close, Die
<1>2. TypeOK'
  <2>1. /\ hook \in Hook /\ drained \in BOOLEAN
        /\ closed \subseteq {"queue", "cache", "pool"}
    BY DEF IInv, TypeOK
  <2>2. hook' \in Hook
    BY <2>1 DEF Hook, Terminate, Stop, Drained, DrainExpires, WorkersStopped,
                Close, Die, Ran, Following
  <2>3. drained' \in {drained, TRUE}
    BY DEF Terminate, Stop, Drained, DrainExpires, WorkersStopped, Close, Die
  <2>4. closed' \subseteq closed \cup {"queue", "cache", "pool"}
    BY DEF Terminate, Stop, Drained, DrainExpires, WorkersStopped, Close, Die
  <2> QED
    BY <1>1, <2>1, <2>2, <2>3, <2>4 DEF IInv, TypeOK, requests
<1>3. StopOrder'
  <2> USE <1>1 DEF IInv, StopOrder, requests, Ran, Following
  <2>1. CASE Terminate
    BY <2>1 DEF Terminate
  <2>2. CASE Drained
    BY <2>2 DEF Drained
  <2>3. CASE DrainExpires
    BY <2>3 DEF DrainExpires
  <2>4. CASE WorkersStopped
    BY <2>4 DEF WorkersStopped
  <2>5. CASE Close("cache")
    BY <2>5 DEF Close
  <2>6. CASE Close("pool")
    BY <2>6 DEF Close
  <2>7. CASE Die
    BY <2>7 DEF Die
  <2> QED
    BY <2>1, <2>2, <2>3, <2>4, <2>5, <2>6, <2>7 DEF Stop
<1> QED
  BY <1>1, <1>2, <1>3, RequestsKept DEF IInv

-----------------------------------------------------------------------------
(***************************************************************************)
(* The theorems.                                                           *)
(***************************************************************************)

\* The strengthened invariant holds in a process that has just started.
LEMMA Start == Init => IInv
<1> SUFFICES ASSUME Init PROVE IInv
  OBVIOUS
<1>1. Among(pc, Inside) = {} /\ Among(pc, {"work"}) = {}
  BY DEF Init, Among, Inside, Conn
<1>2. SlotsMatchHolders
  BY <1>1, FS_EmptySet, Counted DEF Init
<1>3. 0 \in 0 .. Cardinality(Payer) /\ 0 \in 0 .. Ceiling
  BY CountBounds, CeilingAssumption
<1>4. TypeOK
  BY <1>3 DEF Init, TypeOK, Pc, Hook
<1>5. OthersPass /\ StopOrder
  BY DEF Init, OthersPass, StopOrder
<1> QED
  BY <1>2, <1>4, <1>5 DEF IInv

\* It is inductive.
LEMMA Inductive == IInv /\ [Next]_vars => IInv'
<1> SUFFICES ASSUME IInv, [Next]_vars PROVE IInv'
  OBVIOUS
<1>1. CASE UNCHANGED vars
  <2>1. UNCHANGED requests
    BY <1>1 DEF vars, requests
  <2>2. TypeOK' /\ StopOrder'
    BY <1>1 DEF vars, IInv, TypeOK, StopOrder
  <2> QED
    BY <2>1, <2>2, RequestsKept DEF IInv
<1>2. CASE \E c \in Conn : Connect(c) \/ Serve(c)
  BY <1>2, RequestInvariant
<1>3. CASE \E w \in Worker : Take(w) \/ Done(w) \/ Leave(w)
  BY <1>3, WorkerInvariant
<1>4. CASE Terminate \/ Stop \/ Die
  BY <1>4, HookInvariant
<1> QED
  BY <1>1, <1>2, <1>3, <1>4 DEF Next

\* So it holds always.
LEMMA Invariance == Spec => []IInv
BY Start, Inductive, PTL DEF Spec

\* Every state of a pod is well typed; in particular no more payments than the
\* ceiling are ever admitted.
THEOREM PodTypes == Spec => []TypeOK
<1>1. IInv => TypeOK
  BY DEF IInv
<1> QED
  BY <1>1, Invariance, PTL

\* No slot leaks and none is given back twice, for any ceiling and any number of
\* connections, whichever way requests end: the semaphore holds one slot for
\* every payment that is inside.
THEOREM SlotsInvariant == Spec => []SlotsMatchHolders
<1>1. IInv => SlotsMatchHolders
  BY DEF IInv
<1> QED
  BY <1>1, Invariance, PTL

\* Nothing is closed under a worker, nor under a request unless the drain ran
\* out of time.
THEOREM StopInvariant == Spec => []UsersLeaveFirst
<1>1. IInv => UsersLeaveFirst
  BY DEF IInv, StopOrder, UsersLeaveFirst
<1> QED
  BY <1>1, Invariance, PTL
=============================================================================
