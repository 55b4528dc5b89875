------------------------- MODULE PaymentQueueProofs -------------------------
(***************************************************************************)
(* Proofs about PaymentQueue, for every number of messages, workers,       *)
(* attempts, restarts and losses, and every batch and stream length.       *)
(***************************************************************************)
EXTENDS PaymentQueue, FiniteSetTheorems, WellFoundedInduction, TLAPS

\* What is true of a consumer with messages in memory: it acknowledges only what
\* was dealt with or what Redis has lost; it was handed what it has, as often as
\* it believes; and a good message it is about to give up has had all attempts.
Sound(c) ==
    /\ step[c] = "ack" => Message(c) \in filed \cup dead \/ Message(c) <= gone
    /\ \A i \in hands[c] : handed[i] >= 1
    /\ hands[c] # {} => attempt[c] <= handed[Message(c)]
    /\ step[c] = "bury" /\ Kind[Message(c)] = "good" =>
          handed[Message(c)] = MaxAttempts

\* A stream that lost old entries by trimming is at least MaxLen long, and
\* without the group nothing is delivered or pending.
StreamSound ==
    /\ first > gone + 1 => last - first + 1 >= MaxLen
    /\ ~grouped => cursor = 0 /\ pending = {}

IInv == /\ TypeOK /\ StreamSound /\ (\A c \in Consumer : Sound(c))
        /\ GivenUpLast /\ RecentCreditsKept

-----------------------------------------------------------------------------
(***************************************************************************)
(* Least elements.                                                         *)
(***************************************************************************)
Below == OpToRel(<, Nat)

LEMMA BelowIsLess == \A x, y \in Nat : <<x, y>> \in Below <=> x < y
BY DEF Below, OpToRel

\* A set of numbers with an element has a least one.
LEMMA MinIsLeast ==
    ASSUME NEW S \in SUBSET Nat, S # {}
    PROVE  Min(S) \in S /\ \A x \in S : Min(S) <= x
<1>1. IsWellFoundedOn(Below, Nat)
  BY NatLessThanWellFounded DEF Below
<1>2. PICK m \in S : \A y \in S : ~(<<y, m>> \in Below)
  BY <1>1, WFMin
<1>3. ASSUME NEW y \in S PROVE m <= y
  <2>1. ~(y < m)
    BY <1>2, BelowIsLess
  <2>2. y \in Nat /\ m \in Nat
    BY <1>2
  <2> QED
    BY <2>1, <2>2
<1> QED
  BY <1>2, <1>3, Zenon DEF Min

\* Of two numbers.
LEMMA MinOfTwo ==
    ASSUME NEW a \in Int, NEW b \in Int
    PROVE  Min({a, b}) = IF a <= b THEN a ELSE b
BY DEF Min

LEMMA MaxOfTwo ==
    ASSUME NEW a \in Int, NEW b \in Int
    PROVE  Max({a, b}) = IF a <= b THEN b ELSE a
BY DEF Max

\* A consumer that does something has a message to do it with.
LEMMA HasMessage ==
    ASSUME TypeOK, NEW c \in Consumer, hands[c] # {}
    PROVE  Message(c) \in hands[c] /\ Message(c) \in 1..last /\ Message(c) \in Id
<1>1. hands[c] \in SUBSET (1..last) /\ last \in 0..Messages /\ Messages \in Nat
  BY QueueAssumption DEF TypeOK
<1>2. hands[c] \in SUBSET Nat
  BY <1>1
<1> QED
  BY <1>1, <1>2, MinIsLeast DEF Message, Id

-----------------------------------------------------------------------------
(***************************************************************************)
(* Types.                                                                  *)
(***************************************************************************)
LEMMA InitTypeOK == Init => TypeOK
BY QueueAssumption DEF Init, TypeOK, Id, Consumer

\* What Takes leaves in memory.
LEMMA TakesTypes ==
    ASSUME TypeOK, NEW c \in Consumer, NEW batch \in SUBSET (1..last), Takes(c, batch)
    PROVE  /\ hands' \in [Consumer -> SUBSET (1..last)]
           /\ step' \in [Consumer -> {"ready", "count", "handle", "bury", "ack"}]
           /\ \A d \in Consumer : (step'[d] = "ready") <=> (hands'[d] = {})
           /\ attempt' \in [Consumer -> 1..MaxAttempts]
BY QueueAssumption DEF TypeOK, Takes, FirstStep

LEMMA DropsTypes ==
    ASSUME TypeOK, NEW c \in Consumer, hands[c] # {}, Drops(c)
    PROVE  /\ hands' \in [Consumer -> SUBSET (1..last)]
           /\ step' \in [Consumer -> {"ready", "count", "handle", "bury", "ack"}]
           /\ \A d \in Consumer : (step'[d] = "ready") <=> (hands'[d] = {})
           /\ attempt' \in [Consumer -> 1..MaxAttempts]
           /\ scan' = scan
<1>1. Message(c) \in hands[c]
  BY HasMessage
<1>2. (hands[c] = {Message(c)}) <=> (hands[c] \ {Message(c)} = {})
  BY <1>1
<1> HIDE DEF Message
<1> QED
  BY <1>2, QueueAssumption DEF TypeOK, Drops, FirstStep

LEMMA GoesTypes ==
    ASSUME TypeOK, NEW c \in Consumer, hands[c] # {},
           NEW s \in {"count", "handle", "bury", "ack"}, Goes(c, s)
    PROVE  /\ hands' \in [Consumer -> SUBSET (1..last)]
           /\ step' \in [Consumer -> {"ready", "count", "handle", "bury", "ack"}]
           /\ \A d \in Consumer : (step'[d] = "ready") <=> (hands'[d] = {})
           /\ scan' = scan
BY DEF TypeOK, Goes

LEMMA HandOutTypes ==
    ASSUME TypeOK, NEW S, HandOut(S)
    PROVE  /\ handed' \in [Id -> 0..MaxAttempts]
           /\ \A i \in Id : /\ handed'[i] >= handed[i]
                            /\ i \in S => handed'[i] >= 1
                            /\ handed[i] = MaxAttempts => handed'[i] = MaxAttempts
<1>1. \A i \in Id : handed[i] \in 0..MaxAttempts
  BY DEF TypeOK
<1> QED
  BY <1>1, QueueAssumption DEF HandOut

\* Read takes an interval of the stream.
LEMMA ReadTypes ==
    ASSUME TypeOK, NEW w \in Worker, Read(w)
    PROVE  TypeOK'
<1> DEFINE low == Max({first, cursor + 1})
           high == Min({last, low + BatchSize - 1})
<1>1. low \in Kept /\ high \in Kept
  BY DEF Read
<1>2. cursor' = high /\ pending' = pending \cup low..high /\ HandOut(low..high)
      /\ Takes(w, low..high)
  BY DEF Read
<1>3. w \in Consumer
  BY DEF Consumer
<1>4. /\ last \in Nat /\ first \in Nat \ {0} /\ cursor \in 0..last /\ gone \in 0..last
      /\ first \in (gone + 1)..(last + 1) /\ last <= Messages /\ BatchSize \in Nat \ {0}
  BY QueueAssumption DEF TypeOK
<1>5. low = IF first <= cursor + 1 THEN cursor + 1 ELSE first
  BY <1>4, MaxOfTwo
<1>6. low \in Nat /\ low <= last
  BY <1>1, <1>4, <1>5 DEF Kept
<1> HIDE DEF low
<1>7. high = IF last <= low + BatchSize - 1 THEN last ELSE low + BatchSize - 1
  BY <1>4, <1>6, MinOfTwo
<1> HIDE DEF high
<1>8. /\ high \in low..last /\ low > cursor /\ low > gone
  BY <1>4, <1>5, <1>6, <1>7
<1>9. low..high \in SUBSET (1..last)
  BY <1>4, <1>6, <1>8
<1>10. /\ hands' \in [Consumer -> SUBSET (1..last)]
       /\ step' \in [Consumer -> {"ready", "count", "handle", "bury", "ack"}]
       /\ \A d \in Consumer : (step'[d] = "ready") <=> (hands'[d] = {})
       /\ attempt' \in [Consumer -> 1..MaxAttempts]
  BY <1>2, <1>3, <1>9, TakesTypes
<1>11. handed' \in [Id -> 0..MaxAttempts]
  BY <1>2, HandOutTypes
<1>12. cursor' \in 0..last /\ pending' \subseteq (gone + 1)..cursor' /\ idle \subseteq pending'
  <2>1. cursor' = high /\ pending' = pending \cup low..high /\ high \in low..last
        /\ low > cursor /\ low > gone
    BY <1>2, <1>8
  <2>2. pending \subseteq (gone + 1)..cursor /\ idle \subseteq pending
    BY DEF TypeOK
  <2>3. low..high \subseteq (gone + 1)..high /\ (gone + 1)..cursor \subseteq (gone + 1)..high
    BY <1>4, <1>6, <2>1
  <2> QED
    BY <1>4, <1>6, <2>1, <2>2, <2>3
<1>13. UNCHANGED <<last, first, grouped, idle, scan, filed, dead, gone, restarts, losses>>
  BY DEF Read, results, faults
<1> QED
  BY <1>10, <1>11, <1>12, <1>13 DEF TypeOK

\* What a scan has seen is pending, so its cursor stays in the stream.
LEMMA ClaimTypes ==
    ASSUME TypeOK, Claim
    PROVE  TypeOK'
<1> DEFINE hits == {i \in pending : i >= scan /\ (i \in idle \/ i \notin Kept)}
           seen == FirstOf(hits, BatchSize)
<1>1. /\ pending' = pending \ (seen \ Kept)
      /\ idle' = idle \ seen
      /\ HandOut(seen \cap Kept)
      /\ Takes(Reclaimer, seen \cap Kept)
      /\ scan' = IF grouped THEN NextScan(seen) ELSE scan
      /\ UNCHANGED <<last, first, grouped, cursor, filed, dead, gone, restarts, losses>>
  BY DEF Claim, results, faults
<1>2. seen \subseteq pending
  BY DEF FirstOf
<1> HIDE DEF seen
<1>3. /\ pending \subseteq (gone + 1)..cursor /\ cursor \in 0..last /\ gone \in 0..last
      /\ last \in 0..Messages /\ Messages \in Nat /\ scan \in 0..Messages
  BY QueueAssumption DEF TypeOK
<1>4. pending \in SUBSET (1..last) /\ seen \cap Kept \in SUBSET (1..last)
  <2>1. (gone + 1)..cursor \subseteq 1..last
    BY <1>3
  <2> QED
    BY <1>2, <1>3, <2>1
<1>5. NextScan(seen) \in 0..Messages
  <2> DEFINE rest == {i \in pending : \A j \in seen : i > j}
  <2>1. rest \in SUBSET Nat /\ rest \subseteq 0..Messages
    <3>1. rest \subseteq pending
      OBVIOUS
    <3> HIDE DEF rest
    <3>2. 1..last \subseteq Nat /\ 1..last \subseteq 0..Messages
      BY <1>3
    <3> QED
      BY <1>4, <3>1, <3>2
  <2>2. rest # {} => Min(rest) \in 0..Messages
    BY <2>1, MinIsLeast
  <2>3. NextScan(seen) = IF Cardinality(seen) < BatchSize \/ rest = {} THEN 0 ELSE Min(rest)
    BY DEF NextScan
  <2> HIDE DEF rest
  <2> QED
    BY <1>3, <2>2, <2>3
<1>6. Reclaimer \in Consumer
  BY DEF Consumer
<1>7. /\ hands' \in [Consumer -> SUBSET (1..last)]
      /\ step' \in [Consumer -> {"ready", "count", "handle", "bury", "ack"}]
      /\ \A d \in Consumer : (step'[d] = "ready") <=> (hands'[d] = {})
      /\ attempt' \in [Consumer -> 1..MaxAttempts]
  BY <1>1, <1>4, <1>6, TakesTypes
<1>8. handed' \in [Id -> 0..MaxAttempts]
  BY <1>1, HandOutTypes
<1>9. idle' \subseteq pending' /\ pending' \subseteq (gone + 1)..cursor /\ scan' \in 0..Messages
  BY <1>1, <1>3, <1>5 DEF TypeOK
<1> QED
  BY <1>1, <1>7, <1>8, <1>9 DEF TypeOK

LEMMA HandleTypes ==
    ASSUME TypeOK, NEW c \in Consumer, Sound(c), Handle(c)
    PROVE  TypeOK'
<1>1. hands[c] # {}
  BY DEF TypeOK, Handle, Count, CountFails, Processed, Refused, Transient, Bury,
         BuryFails, Ack, AckFails
<1>2. Message(c) \in Id /\ Message(c) \in 1..last
  BY <1>1, HasMessage
<1>20. handed[Message(c)] \in 1..MaxAttempts
  BY <1>1, <1>2, HasMessage, QueueAssumption DEF TypeOK, Sound
<1> HIDE DEF Message
<1>3. CASE Count(c)
  <2>1. Goes(c, "handle") /\ UNCHANGED <<redis, results, faults>>
    BY <1>3 DEF Count
  <2>2. attempt' \in [Consumer -> 1..MaxAttempts]
    BY <1>20, <1>3, QueueAssumption DEF Count, TypeOK
  <2> QED
    BY <1>1, <2>1, <2>2, GoesTypes DEF TypeOK, redis, results, faults
<1>4. CASE CountFails(c)
  BY <1>1, <1>4, GoesTypes DEF CountFails, TypeOK, redis, results, faults
<1>5. CASE Processed(c)
  BY <1>1, <1>2, <1>5, GoesTypes DEF Processed, TypeOK, redis, results, faults
<1>6. CASE Refused(c)
  BY <1>1, <1>6, GoesTypes DEF Refused, TypeOK, redis, results, faults
<1>7. CASE Transient(c)
  <2>1. filed' \subseteq 1..last
    BY <1>2, <1>7 DEF Transient, TypeOK
  <2>2. UNCHANGED <<redis, dead, faults>>
    BY <1>7 DEF Transient
  <2>3. CASE LastAttempt(c)
    BY <1>1, <1>7, <2>1, <2>2, <2>3, GoesTypes DEF Transient, TypeOK, redis, faults
  <2>4. CASE ~LastAttempt(c)
    BY <1>1, <1>7, <2>1, <2>2, <2>4, DropsTypes DEF Transient, TypeOK, redis, faults
  <2> QED
    BY <2>3, <2>4
<1>8. CASE Bury(c)
  BY <1>1, <1>2, <1>8, GoesTypes DEF Bury, TypeOK, redis, results, faults
<1>9. CASE BuryFails(c)
  BY <1>1, <1>9, DropsTypes DEF BuryFails, TypeOK, redis, results, faults
<1>10. CASE Ack(c)
  BY <1>1, <1>10, DropsTypes DEF Ack, TypeOK, results, faults
<1>11. CASE AckFails(c)
  BY <1>1, <1>11, DropsTypes DEF AckFails, TypeOK, redis, results, faults
<1> QED
  BY <1>3, <1>4, <1>5, <1>6, <1>7, <1>8, <1>9, <1>10, <1>11 DEF Handle

LEMMA StepTypes ==
    ASSUME TypeOK, StreamSound, \A c \in Consumer : Sound(c), [Next]_vars
    PROVE  TypeOK'
<1>1. CASE Enqueue
  BY <1>1, QueueAssumption DEF Enqueue, TypeOK, consumers, results, faults
<1>2. ASSUME NEW w \in Worker, Read(w) PROVE TypeOK'
  BY <1>2, ReadTypes
<1>3. CASE Claim
  BY <1>3, ClaimTypes
<1>4. ASSUME NEW i \in Id, Age(i) PROVE TypeOK'
  BY <1>4 DEF Age, TypeOK, consumers, results, faults
<1>5. ASSUME NEW c \in Consumer, Handle(c) PROVE TypeOK'
  BY <1>5, HandleTypes
<1>6. CASE Restart
  <2>1. /\ hands' = [c \in Consumer |-> {}] /\ step' = [c \in Consumer |-> "ready"]
        /\ attempt' = [c \in Consumer |-> 1] /\ scan' = 0 /\ grouped' = TRUE
        /\ cursor' = IF grouped THEN cursor ELSE 0
    BY <1>6 DEF Restart, GroupStart
  <2>2. UNCHANGED <<last, first, pending, idle, handed, filed, dead, gone, losses>>
    BY <1>6 DEF Restart, results
  <2>3. restarts' \in 0..MaxRestarts
    BY <1>6, QueueAssumption DEF Restart, TypeOK
  <2>4. cursor' = cursor \/ (cursor' = 0 /\ pending = {})
    <3>1. CASE grouped
      BY <2>1, <3>1
    <3>2. CASE ~grouped
      BY <2>1, <3>2 DEF StreamSound
    <3> QED
      BY <3>1, <3>2
  <2>5. cursor' \in 0..last /\ pending' \subseteq (gone + 1)..cursor'
    <3>1. /\ last \in Nat /\ cursor \in 0..last /\ pending \subseteq (gone + 1)..cursor
          /\ pending' = pending
      BY <2>2, QueueAssumption DEF TypeOK
    <3>2. CASE cursor' = cursor
      BY <3>1, <3>2
    <3>3. CASE cursor' = 0 /\ pending = {}
      BY <3>1, <3>3
    <3> QED
      BY <2>4, <3>2, <3>3
  <2> QED
    BY <2>1, <2>2, <2>3, <2>5, QueueAssumption DEF TypeOK
<1>7. CASE LoseData
  <2>1. /\ last \in Nat /\ losses' \in 0..MaxLosses
        /\ gone' = last /\ first' = last + 1 /\ cursor' = 0 /\ grouped' = FALSE
        /\ pending' = {} /\ idle' = {} /\ dead' = {}
    BY <1>7, QueueAssumption DEF LoseData, TypeOK
  <2>2. UNCHANGED <<last, handed, hands, step, attempt, scan, filed, restarts>>
    BY <1>7 DEF LoseData, consumers
  <2>3. gone' \in 0..last /\ first' \in (gone' + 1)..(last + 1) /\ cursor' \in 0..last
    BY <2>1
  <2> QED
    BY <2>1, <2>2, <2>3 DEF TypeOK
<1>8. CASE UNCHANGED vars
  BY <1>8 DEF vars, redis, consumers, results, faults, TypeOK
<1> QED
  BY <1>1, <1>2, <1>3, <1>4, <1>5, <1>6, <1>7, <1>8 DEF Next

-----------------------------------------------------------------------------
(***************************************************************************)
(* The consumers.                                                          *)
(***************************************************************************)

\* Hand-outs only grow, and what was dealt with stays dealt with, unless Redis
\* loses it.
Onward == /\ \A i \in Id : handed'[i] \in 0..MaxAttempts /\ handed'[i] >= handed[i]
          /\ \/ filed \cup dead \subseteq filed' \cup dead' /\ gone' = gone
             \/ gone' = last

\* A consumer that does nothing stays sound, whatever the others do.
LEMMA OthersSound ==
    ASSUME TypeOK, NEW c \in Consumer, Sound(c), Onward,
           hands'[c] = hands[c], step'[c] = step[c], attempt'[c] = attempt[c]
    PROVE  Sound(c)'
<1>1. Message(c)' = Message(c)
  BY DEF Message
<1>2. CASE hands[c] = {}
  BY <1>2 DEF Sound, TypeOK
<1>3. CASE hands[c] # {}
  <2>1. Message(c) \in hands[c] /\ Message(c) \in 1..last /\ Message(c) \in Id
    BY <1>3, HasMessage
  <2>2. hands[c] \subseteq Id /\ last \in Nat
    BY QueueAssumption DEF TypeOK, Id
  <2>3. handed[Message(c)] \in 0..MaxAttempts /\ attempt[c] \in Nat /\ MaxAttempts \in Nat
    BY <2>1, QueueAssumption DEF TypeOK
  <2>4. \A i \in hands[c] : handed[i] \in Nat /\ handed'[i] \in Nat /\ handed'[i] >= handed[i]
    BY <2>2, QueueAssumption DEF TypeOK, Onward
  <2>5. step[c] = "ack" =>
            Message(c) \in filed' \cup dead' \/ Message(c) <= gone'
    BY <2>1, <2>2 DEF Sound, Onward
  <2>6. \A i \in hands[c] : handed'[i] >= 1
    BY <2>4 DEF Sound
  <2>7. attempt[c] <= handed'[Message(c)]
    BY <1>3, <2>1, <2>3, <2>4 DEF Sound
  <2>8. step[c] = "bury" /\ Kind[Message(c)] = "good" =>
            handed'[Message(c)] = MaxAttempts
    BY <2>1, <2>3, QueueAssumption DEF Sound, Onward
  <2> QED
    BY <1>1, <2>5, <2>6, <2>7, <2>8 DEF Sound
<1> QED
  BY <1>2, <1>3

\* A consumer that takes messages it was handed out starts sound.
LEMMA TakerSound ==
    ASSUME TypeOK, NEW c \in Consumer, NEW batch \in SUBSET (1..last), Takes(c, batch),
           \A i \in batch : handed'[i] >= 1
    PROVE  Sound(c)'
<1>1. hands'[c] = batch /\ attempt'[c] = 1 /\ step'[c] \notin {"ack", "bury"}
  BY DEF TypeOK, Takes, FirstStep
<1>2. batch # {} => Min(batch) \in batch
  <2>1. batch \in SUBSET Nat
    BY QueueAssumption DEF TypeOK
  <2> QED
    BY <2>1, MinIsLeast
<1> QED
  BY <1>1, <1>2 DEF Sound, Message

LEMMA DropperSound ==
    ASSUME TypeOK, NEW c \in Consumer, Sound(c), Drops(c), handed' = handed
    PROVE  Sound(c)'
<1> DEFINE rest == hands[c] \ {Message(c)}
<1>1. hands'[c] = rest /\ attempt'[c] = 1 /\ step'[c] \notin {"ack", "bury"}
  BY DEF TypeOK, Drops, FirstStep
<1>2. rest # {} => Min(rest) \in rest
  <2>1. rest \in SUBSET Nat
    BY QueueAssumption DEF TypeOK
  <2> HIDE DEF rest
  <2> QED
    BY <2>1, MinIsLeast
<1>3. \A i \in rest : handed'[i] >= 1
  BY DEF Sound
<1> HIDE DEF rest
<1> QED
  BY <1>1, <1>2, <1>3 DEF Sound, Message

\* One consumer acts: it is enough to look at that one.
LEMMA OneActs ==
    ASSUME TypeOK, \A d \in Consumer : Sound(d), Onward, NEW c \in Consumer,
           \A d \in Consumer \ {c} : /\ hands'[d] = hands[d]
                                     /\ step'[d] = step[d]
                                     /\ attempt'[d] = attempt[d],
           Sound(c)'
    PROVE  \A d \in Consumer : Sound(d)'
<1>1. ASSUME NEW d \in Consumer, d # c PROVE Sound(d)'
  BY <1>1, OthersSound
<1> QED
  BY <1>1

LEMMA HandleSound ==
    ASSUME TypeOK, \A d \in Consumer : Sound(d), NEW c \in Consumer, Handle(c)
    PROVE  \A d \in Consumer : Sound(d)'
<1>1. hands[c] # {}
  BY DEF TypeOK, Handle, Count, CountFails, Processed, Refused, Transient, Bury,
         BuryFails, Ack, AckFails
<1>2. Message(c) \in hands[c] /\ Message(c) \in Id
  BY <1>1, HasMessage
<1>3. handed' = handed /\ gone' = gone /\ filed \cup dead \subseteq filed' \cup dead'
  BY DEF Handle, Count, CountFails, Processed, Refused, Transient, Bury,
         BuryFails, Ack, AckFails, redis, results, faults
<1>4. Onward
  BY <1>3, QueueAssumption DEF Onward, TypeOK
<1>5. ASSUME Drops(c) PROVE \A d \in Consumer : Sound(d)'
  <2>1. \A d \in Consumer \ {c} : /\ hands'[d] = hands[d]
                                  /\ step'[d] = step[d]
                                  /\ attempt'[d] = attempt[d]
    BY <1>5 DEF Drops, TypeOK
  <2> QED
    BY <1>3, <1>4, <1>5, <2>1, DropperSound, OneActs
<1>6. ASSUME NEW s \in {"count", "handle", "bury", "ack"}, Goes(c, s),
             attempt' = attempt \/ s = "handle",
             \A d \in Consumer \ {c} : attempt'[d] = attempt[d],
             attempt'[c] <= handed[Message(c)],
             s = "ack" => Message(c) \in filed' \cup dead',
             s = "bury" /\ Kind[Message(c)] = "good" => handed[Message(c)] = MaxAttempts
      PROVE  \A d \in Consumer : Sound(d)'
  <2>1. hands' = hands /\ step'[c] = s
    BY <1>6 DEF Goes, TypeOK
  <2>2. \A d \in Consumer \ {c} : hands'[d] = hands[d] /\ step'[d] = step[d]
    BY <1>6 DEF Goes, TypeOK
  <2>3. Message(c)' = Message(c)
    BY <2>1 DEF Message
  <2>4. \A i \in hands[c] : handed[i] >= 1
    BY DEF Sound
  <2> HIDE DEF Message
  <2>5. Sound(c)'
    BY <1>3, <1>6, <2>1, <2>3, <2>4 DEF Sound
  <2> QED
    BY <1>4, <1>6, <2>2, <2>5, OneActs
<1> HIDE DEF Message
<1>7. attempt[c] <= handed[Message(c)] /\ handed[Message(c)] \in 0..MaxAttempts
      /\ handed[Message(c)] >= 1 /\ MaxAttempts \in Nat /\ attempt[c] \in Nat
  BY <1>1, <1>2, QueueAssumption DEF Sound, TypeOK
<1>8. CASE Count(c)
  <2>1. attempt'[c] <= handed[Message(c)]
    BY <1>7, <1>8 DEF Count, TypeOK
  <2>2. \A d \in Consumer \ {c} : attempt'[d] = attempt[d]
    BY <1>8 DEF Count, TypeOK
  <2> QED
    BY <1>6, <1>8, <2>1, <2>2 DEF Count
<1>9. CASE CountFails(c)
  BY <1>6, <1>7, <1>9 DEF CountFails
<1>10. CASE Processed(c)
  BY <1>6, <1>7, <1>10 DEF Processed
<1>11. CASE Refused(c)
  BY <1>6, <1>7, <1>11 DEF Refused
<1>12. CASE Transient(c)
  <2>1. CASE LastAttempt(c)
    <3>1. handed[Message(c)] = MaxAttempts
      BY <1>7, <2>1 DEF LastAttempt
    <3> QED
      BY <1>6, <1>7, <1>12, <2>1, <3>1 DEF Transient
  <2>2. CASE ~LastAttempt(c)
    BY <1>5, <1>12, <2>2 DEF Transient
  <2> QED
    BY <2>1, <2>2
<1>13. CASE Bury(c)
  BY <1>6, <1>7, <1>13 DEF Bury
<1>14. CASE BuryFails(c)
  BY <1>5, <1>14 DEF BuryFails
<1>15. CASE Ack(c)
  BY <1>5, <1>15 DEF Ack
<1>16. CASE AckFails(c)
  BY <1>5, <1>16 DEF AckFails
<1> QED
  BY <1>8, <1>9, <1>10, <1>11, <1>12, <1>13, <1>14, <1>15, <1>16 DEF Handle
LEMMA StepSound ==
    ASSUME TypeOK, \A c \in Consumer : Sound(c), [Next]_vars
    PROVE  \A c \in Consumer : Sound(c)'
<1>1. ASSUME handed' = handed, gone' = gone, filed \cup dead \subseteq filed' \cup dead'
      PROVE  Onward
  BY <1>1, QueueAssumption DEF Onward, TypeOK
<1>2. ASSUME Onward, UNCHANGED consumers
      PROVE  \A c \in Consumer : Sound(c)'
  BY <1>2, OthersSound DEF consumers
<1>3. CASE Enqueue
  BY <1>1, <1>2, <1>3 DEF Enqueue, results, faults
<1>4. ASSUME NEW w \in Worker, Read(w)
      PROVE  \A c \in Consumer : Sound(c)'
  <2>1. PICK low, high \in Kept : HandOut(low..high) /\ Takes(w, low..high)
    BY <1>4 DEF Read
  <2>2. low..high \in SUBSET (1..last) /\ low..high \subseteq Id
    BY <2>1, QueueAssumption DEF TypeOK, Kept, Id
  <2>3. Onward
    BY <1>4, <2>1, HandOutTypes DEF Onward, Read, results, faults
  <2>4. w \in Consumer /\ Sound(w)'
    <3>1. \A i \in low..high : handed'[i] >= 1
      BY <2>1, <2>2, HandOutTypes
    <3> QED
      BY <2>1, <2>2, <3>1, TakerSound DEF Consumer
  <2>5. \A d \in Consumer \ {w} : /\ hands'[d] = hands[d]
                                  /\ step'[d] = step[d]
                                  /\ attempt'[d] = attempt[d]
    BY <2>1 DEF Takes, TypeOK
  <2> QED
    BY <2>3, <2>4, <2>5, OneActs
<1>5. CASE Claim
  <2>1. PICK seen \in SUBSET pending :
            HandOut(seen \cap Kept) /\ Takes(Reclaimer, seen \cap Kept)
    <3>1. ASSUME NEW S, NEW n PROVE FirstOf(S, n) \subseteq S
      BY DEF FirstOf
    <3> QED
      BY <1>5, <3>1 DEF Claim
  <2>2. seen \cap Kept \in SUBSET (1..last) /\ seen \cap Kept \subseteq Id
    <3>1. Kept \subseteq 1..last /\ 1..last \subseteq Id
      BY QueueAssumption DEF TypeOK, Kept, Id
    <3> QED
      BY <3>1
  <2>3. Onward
    BY <1>5, <2>1, HandOutTypes DEF Onward, Claim, results, faults
  <2>4. Reclaimer \in Consumer /\ Sound(Reclaimer)'
    <3>1. \A i \in seen \cap Kept : handed'[i] >= 1
      BY <2>1, <2>2, HandOutTypes
    <3> QED
      BY <2>1, <2>2, <3>1, TakerSound DEF Consumer
  <2>5. \A d \in Consumer \ {Reclaimer} : /\ hands'[d] = hands[d]
                                          /\ step'[d] = step[d]
                                          /\ attempt'[d] = attempt[d]
    BY <2>1 DEF Takes, TypeOK
  <2> QED
    BY <2>3, <2>4, <2>5, OneActs
<1>6. ASSUME NEW i \in Id, Age(i)
      PROVE  \A c \in Consumer : Sound(c)'
  BY <1>1, <1>2, <1>6 DEF Age, results, faults
<1>7. ASSUME NEW c \in Consumer, Handle(c)
      PROVE  \A d \in Consumer : Sound(d)'
  BY <1>7, HandleSound
<1>8. CASE Restart
  <2>1. \A c \in Consumer : hands'[c] = {} /\ step'[c] = "ready"
    BY <1>8 DEF Restart
  <2> QED
    BY <2>1 DEF Sound
<1>9. CASE LoseData
  <2>1. Onward
    BY <1>9, QueueAssumption DEF Onward, LoseData, TypeOK
  <2> QED
    BY <1>2, <1>9, <2>1 DEF LoseData
<1>10. CASE UNCHANGED vars
  BY <1>1, <1>2, <1>10 DEF vars, redis, results, faults
<1> QED
  BY <1>3, <1>4, <1>5, <1>6, <1>7, <1>8, <1>9, <1>10 DEF Next

-----------------------------------------------------------------------------
(***************************************************************************)
(* The stream.                                                             *)
(***************************************************************************)

\* The numbers the stream is made of.
LEMMA Numbers ==
    ASSUME TypeOK
    PROVE  /\ last \in Nat /\ gone \in Nat /\ cursor \in Nat /\ MaxLen \in Nat \ {0}
           /\ gone <= last /\ cursor <= last
           /\ first \in Nat /\ gone < first /\ first <= last + 1
           /\ \A i \in pending : i \in Nat /\ gone < i /\ i <= cursor
BY QueueAssumption DEF TypeOK

LEMMA StepStream ==
    ASSUME TypeOK, StreamSound, [Next]_vars
    PROVE  StreamSound'
<1>1. CASE Enqueue
  BY <1>1, Numbers DEF Enqueue, Trimmed, StreamSound, faults
<1>2. ASSUME NEW w \in Worker, Read(w) PROVE StreamSound'
  BY <1>2 DEF Read, StreamSound, faults
<1>3. CASE Claim
  BY <1>3 DEF Claim, StreamSound, faults
<1>4. ASSUME NEW i \in Id, Age(i) PROVE StreamSound'
  BY <1>4 DEF Age, StreamSound, faults
<1>5. ASSUME NEW c \in Consumer, Handle(c) PROVE StreamSound'
  <2>1. CASE Ack(c)
    BY <2>1 DEF Ack, StreamSound, faults
  <2>2. CASE ~Ack(c)
    <3>1. UNCHANGED <<redis, faults>>
      BY <1>5, <2>2 DEF Handle, Count, CountFails, Processed, Refused, Transient,
         Bury, BuryFails, AckFails
    <3> QED
      BY <3>1 DEF redis, faults, StreamSound
  <2> QED
    BY <2>1, <2>2
<1>6. CASE Restart
  BY <1>6 DEF Restart, StreamSound
<1>7. CASE LoseData
  BY <1>7, Numbers DEF LoseData, StreamSound
<1>8. CASE UNCHANGED vars
  BY <1>8 DEF vars, redis, faults, StreamSound
<1> QED
  BY <1>1, <1>2, <1>3, <1>4, <1>5, <1>6, <1>7, <1>8 DEF Next

LEMMA StepGivenUp ==
    ASSUME TypeOK, \A c \in Consumer : Sound(c), GivenUpLast, [Next]_vars
    PROVE  GivenUpLast'
<1>1. dead \subseteq Id
  BY QueueAssumption DEF TypeOK, Id
<1>2. ASSUME dead' \subseteq dead, \A i \in Id : handed[i] = MaxAttempts => handed'[i] = MaxAttempts
      PROVE  GivenUpLast'
  BY <1>1, <1>2 DEF GivenUpLast
<1>3. CASE Enqueue
  BY <1>2, <1>3 DEF Enqueue, results
<1>4. ASSUME NEW w \in Worker, Read(w) PROVE GivenUpLast'
  BY <1>2, <1>4, HandOutTypes DEF Read, results
<1>5. CASE Claim
  BY <1>2, <1>5, HandOutTypes DEF Claim, results
<1>6. ASSUME NEW i \in Id, Age(i) PROVE GivenUpLast'
  BY <1>2, <1>6 DEF Age, results
<1>7. ASSUME NEW c \in Consumer, Handle(c) PROVE GivenUpLast'
  <2>1. handed' = handed
    BY <1>7 DEF Handle, Count, CountFails, Processed, Refused, Transient, Bury,
       BuryFails, Ack, AckFails, redis
  <2>2. CASE Bury(c)
    BY <2>1, <2>2 DEF Bury, Sound, GivenUpLast
  <2>3. CASE ~Bury(c)
    <3>1. dead' = dead
      BY <1>7, <2>3 DEF Handle, Count, CountFails, Processed, Refused, Transient,
         BuryFails, Ack, AckFails, results
    <3> QED
      BY <1>2, <2>1, <3>1
  <2> QED
    BY <2>2, <2>3
<1>8. CASE Restart
  BY <1>2, <1>8 DEF Restart, results
<1>9. CASE LoseData
  BY <1>2, <1>9 DEF LoseData
<1>10. CASE UNCHANGED vars
  BY <1>2, <1>10 DEF vars, redis, results
<1> QED
  BY <1>3, <1>4, <1>5, <1>6, <1>7, <1>8, <1>9, <1>10 DEF Next

\* What trimming removed is old.
LEMMA TrimmedIsOld ==
    ASSUME TypeOK, StreamSound, NEW i \in Int, i > gone, i <= last, i \notin Kept
    PROVE  i + MaxLen <= last
BY Numbers DEF StreamSound, Kept
\* What is added, read, dropped or lost: the newest MaxLen messages stay.
LEMMA StepKept ==
    ASSUME TypeOK, StreamSound, \A c \in Consumer : Sound(c), RecentCreditsKept, [Next]_vars
    PROVE  RecentCreditsKept'
<1>1. ASSUME last' = last, gone' = gone,
             \A i \in (gone + 1)..last : IsKept(i) /\ i + MaxLen > last => IsKept(i)'
      PROVE  RecentCreditsKept'
  BY <1>1 DEF RecentCreditsKept
<1>2. CASE Enqueue
  <2>1. ASSUME NEW i \in (gone + 1)..(last + 1), i + MaxLen > last + 1
        PROVE  i \in filed \cup dead \cup pending \/ (i \in first'..(last + 1) /\ i > cursor)
    <3>1. first' <= i
      <4>1. \/ first' = first
            \/ first' \in first..(last + 1) /\ (last + 1) - first' + 1 >= MaxLen
        BY <1>2 DEF Enqueue, Trimmed
      <4>2. CASE first' = first
        <5>1. first > gone + 1 => last - first + 1 >= MaxLen
          BY DEF StreamSound
        <5> QED
          BY <2>1, <4>2, <5>1, Numbers
      <4>3. CASE first' \in first..(last + 1) /\ (last + 1) - first' + 1 >= MaxLen
        BY <2>1, <4>3, Numbers
      <4> QED
        BY <4>1, <4>2, <4>3
    <3>2. CASE i = last + 1
      BY <3>1, <3>2, Numbers
    <3>3. CASE i <= last
      <4>1. IsKept(i)
        BY <2>1, <3>3, Numbers DEF RecentCreditsKept
      <4> QED
        BY <2>1, <3>1, <3>3, <4>1, Numbers DEF IsKept, Unread, Kept
    <3> QED
      BY <2>1, <3>2, <3>3, Numbers
  <2>2. /\ last' = last + 1 /\ gone' = gone
        /\ UNCHANGED <<filed, dead, pending, cursor>>
    BY <1>2 DEF Enqueue, results, faults
  <2> QED
    BY <2>1, <2>2 DEF RecentCreditsKept, IsKept, Unread, Kept
<1>3. ASSUME NEW w \in Worker, Read(w) PROVE RecentCreditsKept'
  <2>1. PICK low, high \in Kept : /\ low = Max({first, cursor + 1})
                                  /\ cursor' = high
                                  /\ pending' = pending \cup low..high
    BY <1>3 DEF Read
  <2>2. low <= cursor + 1 \/ low <= first
    BY <2>1, Numbers, MaxOfTwo
  <2>3. UNCHANGED <<last, first, filed, dead, gone>>
    BY <1>3 DEF Read, results, faults
  <2>4. \A i \in Unread : i \in pending' \/ i > cursor'
    BY <2>1, <2>2, Numbers DEF Unread, Kept
  <2>5. pending \subseteq pending' /\ Kept' = Kept
    BY <2>1, <2>3 DEF Kept
  <2>6. \A i \in (gone + 1)..last : IsKept(i) => IsKept(i)'
    BY <2>3, <2>4, <2>5 DEF IsKept, Unread
  <2> QED
    BY <1>1, <2>3, <2>6
<1>4. CASE Claim
  <2>1. PICK S : pending' = pending \ (S \ Kept)
    BY <1>4 DEF Claim
  <2>2. UNCHANGED <<last, first, cursor, filed, dead, gone>>
    BY <1>4 DEF Claim, results, faults
  <2>3. ASSUME NEW i \in (gone + 1)..last, i + MaxLen > last
        PROVE  i \in Kept
    BY <2>3, TrimmedIsOld, Numbers
  <2>4. \A i \in (gone + 1)..last : IsKept(i) /\ i + MaxLen > last => IsKept(i)'
    BY <2>1, <2>2, <2>3 DEF IsKept, Unread, Kept
  <2> QED
    BY <1>1, <2>2, <2>4
<1>5. ASSUME NEW i \in Id, Age(i) PROVE RecentCreditsKept'
  BY <1>5 DEF Age, results, faults, RecentCreditsKept, IsKept, Unread, Kept
<1>6. ASSUME NEW c \in Consumer, Handle(c) PROVE RecentCreditsKept'
  <2>1. /\ UNCHANGED <<last, first, cursor, gone>>
        /\ filed \subseteq filed' /\ dead \subseteq dead'
    BY <1>6 DEF Handle, Count, CountFails, Processed, Refused, Transient, Bury,
       BuryFails, Ack, AckFails, redis, results, faults
  <2>2. \A i \in (gone + 1)..last : i \in pending => i \in pending' \cup filed' \cup dead'
    <3>1. CASE Ack(c)
      <4>1. Message(c) \in filed \cup dead \/ Message(c) <= gone
        BY <3>1 DEF Ack, Sound
      <4>2. pending' = pending \ {Message(c)}
        BY <3>1 DEF Ack
      <4> HIDE DEF Message
      <4>3. \A i \in (gone + 1)..last : ~(i <= gone)
        BY Numbers
      <4> QED
        BY <2>1, <4>1, <4>2, <4>3
    <3>2. CASE ~Ack(c)
      BY <1>6, <3>2 DEF Handle, Count, CountFails, Processed, Refused, Transient,
         Bury, BuryFails, AckFails, redis
    <3> QED
      BY <3>1, <3>2
  <2>3. Unread' = Unread
    BY <2>1 DEF Unread, Kept
  <2>4. \A i \in (gone + 1)..last : IsKept(i) => IsKept(i)'
    BY <2>1, <2>2, <2>3 DEF IsKept
  <2> QED
    BY <1>1, <2>1, <2>4
<1>7. CASE Restart
  <2>1. UNCHANGED <<last, first, pending, filed, dead, gone>>
    BY <1>7 DEF Restart, results
  <2>2. cursor' <= cursor
    BY <1>7, Numbers DEF Restart, GroupStart
  <2>3. cursor' \in Nat /\ cursor \in Nat
    BY <1>7, Numbers DEF Restart, GroupStart
  <2>4. Unread \subseteq Unread'
    BY <2>1, <2>2, <2>3, Numbers DEF Unread, Kept
  <2>5. \A i \in (gone + 1)..last : IsKept(i) => IsKept(i)'
    BY <2>1, <2>4 DEF IsKept
  <2> QED
    BY <1>1, <2>1, <2>5
<1>8. CASE LoseData
  <2>1. (gone' + 1)..last' = {}
    BY <1>8, Numbers DEF LoseData
  <2> QED
    BY <2>1 DEF RecentCreditsKept
<1>9. CASE UNCHANGED vars
  BY <1>9 DEF vars, redis, results, faults, RecentCreditsKept, IsKept, Unread, Kept
<1> QED
  BY <1>2, <1>3, <1>4, <1>5, <1>6, <1>7, <1>8, <1>9 DEF Next

-----------------------------------------------------------------------------
(***************************************************************************)
(* Theorems.                                                               *)
(***************************************************************************)
LEMMA InitIInv == Init => IInv
<1> SUFFICES ASSUME Init PROVE IInv
  OBVIOUS
<1>1. StreamSound
  BY DEF Init, StreamSound
<1>2. \A c \in Consumer : Sound(c)
  BY DEF Init, Sound
<1>3. GivenUpLast
  BY DEF Init, GivenUpLast
<1>4. RecentCreditsKept
  BY DEF Init, RecentCreditsKept
<1> QED
  BY <1>1, <1>2, <1>3, <1>4, InitTypeOK DEF IInv

LEMMA StepIInv == IInv /\ [Next]_vars => IInv'
BY StepTypes, StepSound, StepStream, StepGivenUp, StepKept DEF IInv

\* For every instance: the invariant the results below rest on, see IInv.
THEOREM Inductive == Spec => []IInv
BY InitIInv, StepIInv, PTL DEF Spec

\* For every instance the queue keeps its shape: in particular nothing is
\* pending that was not delivered or went with the stream, and no consumer is
\* in the middle of a message it does not have.
THEOREM TypeCorrect == Spec => []TypeOK
<1>1. IInv => TypeOK
  BY DEF IInv
<1> QED
  BY <1>1, Inductive, PTL

\* For every batch size, stream length and number of workers, crashes and lost
\* streams: the newest MaxLen credits of a stream are in the ledger, on the
\* dead-letter stream, pending or unread.
THEOREM CreditsKept == Spec => []RecentCreditsKept
<1>1. IInv => RecentCreditsKept
  BY DEF IInv
<1> QED
  BY <1>1, Inductive, PTL

\* However many workers and crashes: a good message is dead-lettered only after
\* it was handed out MaxAttempts times.
THEOREM GoodGivenUpLast == Spec => []GivenUpLast
<1>1. IInv => GivenUpLast
  BY DEF IInv
<1> QED
  BY <1>1, Inductive, PTL
-----------------------------------------------------------------------------
(***************************************************************************)
(* The queue is an inbox.                                                  *)
(***************************************************************************)
Waiting == pending \cup Unread

LEMMA InitInbox == Init => I!Init
BY DEF Init, I!Init, Unread, Kept

\* What of the queue an inbox has.
LEMMA InboxStutters ==
    ASSUME UNCHANGED <<last, filed, dead, gone>>, Waiting' = Waiting
    PROVE  UNCHANGED I!vars
BY DEF I!vars, Waiting

LEMMA EnqueueAccepts ==
    ASSUME TypeOK, Enqueue
    PROVE  I!Accept
<1>1. /\ last < Messages /\ last' = last + 1
      /\ UNCHANGED <<pending, cursor, filed, dead, gone>>
  BY DEF Enqueue, results, faults
<1>2. \/ first' = first
      \/ first' \in first..(last + 1) /\ (last + 1) - first' + 1 >= MaxLen
  BY DEF Enqueue, Trimmed
<1>3. first' >= first /\ first' \in Nat
  BY <1>2, Numbers
<1>4. Waiting' \subseteq Waiting \cup {last + 1}
  BY <1>1, <1>3, Numbers DEF Waiting, Unread, Kept
<1>5. ASSUME NEW i \in (Waiting \cup {last + 1}) \ Waiting'
      PROVE  i + MaxLen <= last + 1
  <2>1. i \in Kept \cup {last + 1} /\ i > cursor /\ i \notin first'..(last + 1)
    BY <1>1, <1>5, Numbers DEF Waiting, Unread, Kept
  <2>2. i \in Nat /\ first <= i /\ i <= last + 1
    BY <2>1, Numbers DEF Kept
  <2> QED
    BY <1>2, <2>1, <2>2, Numbers
<1> QED
  BY <1>1, <1>4, <1>5 DEF I!Accept, I!Surplus, Waiting

LEMMA ReadStutters ==
    ASSUME TypeOK, NEW w \in Worker, Read(w)
    PROVE  UNCHANGED I!vars
<1>1. PICK low, high \in Kept : /\ low = Max({first, cursor + 1})
                                /\ high = Min({last, low + BatchSize - 1})
                                /\ cursor' = high
                                /\ pending' = pending \cup low..high
  BY DEF Read
<1>2. UNCHANGED <<last, first, filed, dead, gone>>
  BY DEF Read, results, faults
<1>3. /\ low = IF first <= cursor + 1 THEN cursor + 1 ELSE first
      /\ low \in Nat /\ high \in Nat /\ high <= last /\ first <= low
  BY <1>1, Numbers, MaxOfTwo DEF Kept
<1>4. low <= high
  <2>1. low <= last /\ BatchSize \in Nat \ {0}
    BY <1>3, Numbers, QueueAssumption DEF Kept
  <2>2. high = IF last <= low + BatchSize - 1 THEN last ELSE low + BatchSize - 1
    <3>1. last \in Int /\ low + BatchSize - 1 \in Int
      BY <1>3, <2>1, Numbers
    <3>2. Min({last, low + BatchSize - 1})
              = IF last <= low + BatchSize - 1 THEN last ELSE low + BatchSize - 1
      BY <3>1, MinOfTwo
    <3> QED
      BY <1>1, <3>2
  <2> QED
    BY <1>3, <2>1, <2>2, Numbers
<1>5. Unread = low..high \cup {i \in Kept : i > high}
  BY <1>3, <1>4, Numbers DEF Unread, Kept
<1>6. Unread' = {i \in Kept : i > high}
  BY <1>1, <1>2 DEF Unread, Kept
<1>7. Waiting' = Waiting
  BY <1>1, <1>5, <1>6 DEF Waiting
<1> QED
  BY <1>2, <1>7, InboxStutters

LEMMA ClaimDrops ==
    ASSUME TypeOK, StreamSound, Claim
    PROVE  I!Drop
<1>1. PICK S : pending' = pending \ (S \ Kept)
  BY DEF Claim
<1>2. UNCHANGED <<last, first, cursor, filed, dead, gone>>
  BY DEF Claim, results, faults
<1>3. Waiting' \subseteq Waiting
  BY <1>1, <1>2 DEF Waiting, Unread, Kept
<1>4. ASSUME NEW i \in Waiting \ Waiting' PROVE i + MaxLen <= last
  <2>1. i \in pending /\ i \notin Kept
    BY <1>1, <1>2, <1>4 DEF Waiting, Unread, Kept
  <2> QED
    BY <2>1, TrimmedIsOld, Numbers
<1> QED
  BY <1>2, <1>3, <1>4 DEF I!Drop, I!Surplus, Waiting

LEMMA AckForgets ==
    ASSUME TypeOK, NEW c \in Consumer, Sound(c), Ack(c)
    PROVE  (\E i \in 1..last : I!Forget(i)) \/ UNCHANGED I!vars
<1>1. Message(c) \in 1..last
  BY HasMessage DEF Ack, TypeOK
<1>2. Message(c) \in filed \cup dead \/ Message(c) <= gone
  BY DEF Ack, Sound
<1>3. /\ pending' = pending \ {Message(c)}
      /\ UNCHANGED <<last, first, cursor, filed, dead, gone>>
  BY DEF Ack, results, faults
<1> HIDE DEF Message
<1>4. Unread' = Unread
  BY <1>3 DEF Unread, Kept
<1>5. CASE Message(c) \in pending
  <2>1. ~(Message(c) <= gone) /\ Message(c) \notin Unread
    BY <1>5, Numbers DEF Unread
  <2>2. Waiting' = Waiting \ {Message(c)}
    BY <1>3, <1>4, <2>1 DEF Waiting
  <2>3. I!Forget(Message(c))
    BY <1>2, <1>3, <2>1, <2>2 DEF I!Forget, Waiting
  <2> QED
    BY <1>1, <2>3
<1>6. CASE Message(c) \notin pending
  <2>1. Waiting' = Waiting
    BY <1>3, <1>4, <1>6 DEF Waiting
  <2> QED
    BY <1>3, <2>1, InboxStutters
<1> QED
  BY <1>5, <1>6

LEMMA HandleIsInbox ==
    ASSUME TypeOK, NEW c \in Consumer, Sound(c), Handle(c)
    PROVE  [I!Next]_(I!vars)
<1>1. Message(c) \in 1..last
  BY HasMessage DEF TypeOK, Handle, Count, CountFails, Processed, Refused, Transient,
     Bury, BuryFails, Ack, AckFails
<1> HIDE DEF Message
<1>2. CASE Ack(c)
  BY <1>2, AckForgets DEF I!Next
<1>3. CASE ~Ack(c)
  <2>1. UNCHANGED <<redis, faults>>
    BY <1>3 DEF Handle, Count, CountFails, Processed, Refused, Transient, Bury,
       BuryFails, AckFails
  <2>2. last' = last /\ gone' = gone /\ Waiting' = Waiting
    BY <2>1 DEF redis, faults, Waiting, Unread, Kept
  <2>3. \/ UNCHANGED <<filed, dead>>
        \/ filed' = filed \cup {Message(c)} /\ dead' = dead
        \/ filed' = filed /\ dead' = dead \cup {Message(c)}
    BY <1>3 DEF Handle, Count, CountFails, Processed, Refused, Transient, Bury,
       BuryFails, AckFails, results
  <2>4. CASE UNCHANGED <<filed, dead>>
    BY <2>2, <2>4, InboxStutters
  <2>5. CASE filed' = filed \cup {Message(c)} /\ dead' = dead
    <3>1. I!File(Message(c))
      BY <2>2, <2>5 DEF I!File, Waiting
    <3> QED
      BY <1>1, <3>1 DEF I!Next
  <2>6. CASE filed' = filed /\ dead' = dead \cup {Message(c)}
    <3>1. I!PutAside(Message(c))
      BY <2>2, <2>6 DEF I!PutAside, Waiting
    <3> QED
      BY <1>1, <3>1 DEF I!Next
  <2> QED
    BY <2>3, <2>4, <2>5, <2>6
<1> QED
  BY <1>2, <1>3

LEMMA StepInbox ==
    ASSUME IInv, [Next]_vars
    PROVE  [I!Next]_(I!vars)
<1> USE DEF IInv
<1>1. CASE Enqueue
  BY <1>1, EnqueueAccepts DEF I!Next
<1>2. ASSUME NEW w \in Worker, Read(w) PROVE [I!Next]_(I!vars)
  BY <1>2, ReadStutters
<1>3. CASE Claim
  BY <1>3, ClaimDrops DEF I!Next
<1>4. ASSUME NEW i \in Id, Age(i) PROVE [I!Next]_(I!vars)
  BY <1>4, InboxStutters DEF Age, results, faults, Waiting, Unread, Kept
<1>5. ASSUME NEW c \in Consumer, Handle(c) PROVE [I!Next]_(I!vars)
  BY <1>5, HandleIsInbox
<1>6. CASE Restart
  <2>1. cursor' = cursor
    BY <1>6 DEF Restart, GroupStart, StreamSound
  <2>2. UNCHANGED <<last, first, pending, filed, dead, gone>>
    BY <1>6 DEF Restart, results
  <2> QED
    BY <2>1, <2>2, InboxStutters DEF Waiting, Unread, Kept
<1>7. CASE LoseData
  <2>1. /\ last' = last /\ gone' = last /\ filed' = filed
        /\ pending' = {} /\ dead' = {} /\ first' = last + 1
    BY <1>7 DEF LoseData
  <2>2. Unread' = {}
    BY <2>1, Numbers DEF Unread, Kept
  <2> QED
    BY <2>1, <2>2 DEF I!Next, I!Break
<1>8. CASE UNCHANGED vars
  BY <1>8, InboxStutters DEF vars, redis, results, faults, Waiting, Unread, Kept
<1> QED
  BY <1>1, <1>2, <1>3, <1>4, <1>5, <1>6, <1>7, <1>8 DEF Next

\* For every instance the stream, its group, the workers and the reclaimer are
\* together an inbox that forgets a message only after it was dealt with.
THEOREM QueueIsInbox == Spec => InboxSpec
<1>1. IInv /\ [Next]_vars => [I!Next]_(I!vars)
  BY StepInbox
<1> QED
  BY <1>1, InitInbox, Inductive, PTL DEF Spec, InboxSpec, I!Spec
=============================================================================
