---------------------------- MODULE PaymentQueue ----------------------------
(***************************************************************************)
(* The Redis stream between the webhook and the ledger: the producer, the  *)
(* consumer group, the worker pool, the reclaimer and the dead-letter      *)
(* stream of one replica.  One step is one command sent to Redis or one    *)
(* call of payments.Process.                                               *)
(*                                                                         *)
(* Messages are numbered in stream order, and the stream holds an interval *)
(* of them.  Time is not modelled: a message that is not acknowledged can  *)
(* always have been pending for ClaimMinIdle, because it waits for the     *)
(* rest of its worker's batch, one ProcessTimeout at a time.               *)
(***************************************************************************)
EXTENDS Integers, FiniteSets, FiniteSetsExt

CONSTANTS
    Messages,      \* number of messages the provider's credits become
    Kind,          \* Kind[i]: "good", or "conflict" or "garbled" for ever
    Worker,        \* the consumers that read new messages
    Reclaimer,     \* the consumer that takes over idle ones
    BatchSize,     \* QUEUE_BATCH_SIZE
    MaxAttempts,   \* QUEUE_MAX_ATTEMPTS
    MaxLen,        \* QUEUE_MAX_LEN
    MaxRestarts,   \* bound: restarts of the process in one behaviour
    MaxLosses      \* bound: times Redis comes back empty

Id == 1..Messages

ASSUME QueueAssumption ==
    /\ {Messages, BatchSize, MaxAttempts, MaxLen} \subseteq Nat \ {0}
    /\ {MaxRestarts, MaxLosses} \subseteq Nat
    /\ Kind \in [Id -> {"good", "conflict", "garbled"}]
    /\ Reclaimer \notin Worker

Consumer == Worker \cup {Reclaimer}

VARIABLES
    last,      \* the last message added to the stream
    first,     \* the oldest message the stream still holds, last + 1 if none
    grouped,   \* the consumer group exists
    cursor,    \* the group's last-delivered message
    pending,   \* the group's pending entries: delivered, not acknowledged
    idle,      \* those of them that are idle for ClaimMinIdle
    handed,    \* handed[i]: how often i was handed out, up to MaxAttempts
    hands,     \* hands[c]: the messages consumer c has in memory
    step,      \* step[c]: what c does with the first of them
    attempt,   \* attempt[c]: which attempt c takes this for
    scan,      \* the reclaimer's cursor
    filed,     \* messages whose notification is in the ledger
    dead,      \* messages on the dead-letter stream
    gone,      \* the messages up to this one were on a stream Redis lost
    restarts,
    losses

redis     == <<last, first, grouped, cursor, pending, idle, handed>>
consumers == <<hands, step, attempt, scan>>
results   == <<filed, dead>>
faults    == <<gone, restarts, losses>>
vars      == <<redis, consumers, results, faults>>

TypeOK ==
    /\ last \in 0..Messages
    /\ gone \in 0..last
    /\ first \in (gone + 1)..(last + 1)
    /\ grouped \in BOOLEAN
    /\ cursor \in 0..last
    /\ pending \subseteq (gone + 1)..cursor
    /\ idle \subseteq pending
    /\ handed \in [Id -> 0..MaxAttempts]
    /\ hands \in [Consumer -> SUBSET (1..last)]
    /\ step \in [Consumer -> {"ready", "count", "handle", "bury", "ack"}]
    /\ \A c \in Consumer : (step[c] = "ready") <=> (hands[c] = {})
    /\ attempt \in [Consumer -> 1..MaxAttempts]
    /\ scan \in 0..Messages
    /\ filed \subseteq 1..last
    /\ dead \subseteq 1..last
    /\ restarts \in 0..MaxRestarts
    /\ losses \in 0..MaxLosses

\* The group is there from the start: StartWorkers creates it.
Init ==
    /\ last = 0 /\ first = 1 /\ grouped = TRUE /\ cursor = 0
    /\ pending = {} /\ idle = {} /\ handed = [i \in Id |-> 0]
    /\ hands = [c \in Consumer |-> {}]
    /\ step = [c \in Consumer |-> "ready"]
    /\ attempt = [c \in Consumer |-> 1]
    /\ scan = 0
    /\ filed = {} /\ dead = {}
    /\ gone = 0 /\ restarts = 0 /\ losses = 0

-----------------------------------------------------------------------------
(***************************************************************************)
(* Producer.                                                               *)
(***************************************************************************)

\* Mutant of Trimmed: one entry more than MAXLEN allows is dropped.
TrimmedShort(f, l) == l - f + 2 >= MaxLen

\* MAXLEN ~: a stream that holds f..l may have been trimmed to that.
Trimmed(f, l) == l - f + 1 >= MaxLen

\* Enqueue adds with MAXLEN ~: Redis may drop the oldest messages, read or
\* not, as long as MaxLen are left.  XADD makes the stream if there is none,
\* but not its group.
Enqueue ==
    /\ last < Messages
    /\ last' = last + 1
    /\ first' \in {first} \cup {f \in first..(last + 1) : Trimmed(f, last + 1)}
    /\ UNCHANGED <<grouped, cursor, pending, idle, handed, consumers, results, faults>>

-----------------------------------------------------------------------------
(***************************************************************************)
(* Taking messages.                                                        *)
(***************************************************************************)
Kept == first..last

\* The n smallest elements of S.
FirstOf(S, n) == {i \in S : Cardinality({j \in S : j < i}) < n}

\* Where c starts with a message: the reclaimer asks for its deliveries first.
FirstStep(c) == IF c = Reclaimer THEN "count" ELSE "handle"

\* Mutant of Takes: the first message is handled without asking for one.
TakesBlindly(c, batch) ==
    /\ hands' = [hands EXCEPT ![c] = batch]
    /\ step' = [step EXCEPT ![c] = FirstStep(c)]
    /\ attempt' = [attempt EXCEPT ![c] = 1]

\* c has a batch in memory, and goes through it in stream order.
Takes(c, batch) ==
    /\ hands' = [hands EXCEPT ![c] = batch]
    /\ step' = [step EXCEPT ![c] = IF batch = {} THEN "ready" ELSE FirstStep(c)]
    /\ attempt' = [attempt EXCEPT ![c] = 1]

\* One more hand-out, counted up to MaxAttempts.
HandOut(S) ==
    handed' = [i \in Id |-> IF i \in S /\ handed[i] < MaxAttempts
                            THEN handed[i] + 1 ELSE handed[i]]

\* XREADGROUP ">": the next messages nobody was given.  Without the group it
\* is an error, and run tries again.
Read(w) ==
    /\ step[w] = "ready"
    /\ grouped
    /\ \E low, high \in Kept :
          /\ low = Max({first, cursor + 1})
          /\ high = Min({last, low + BatchSize - 1})
          /\ cursor' = high
          /\ pending' = pending \cup low..high
          /\ HandOut(low..high)
          /\ Takes(w, low..high)
    /\ UNCHANGED <<last, first, grouped, idle, scan, results, faults>>

\* Mutant of NextScan: the cursor only ever moves forward.
NextScanForward(seen) ==
    IF seen = {} THEN scan ELSE Min({Messages, Max(seen) + 1})

\* The next pending entry after a full batch; 0-0 at the end of the list.
NextScan(seen) ==
    LET rest == {i \in pending : \A j \in seen : i > j}
    IN  IF Cardinality(seen) < BatchSize \/ rest = {} THEN 0 ELSE Min(rest)

\* XAUTOCLAIM from the reclaimer's cursor: entries the stream no longer holds
\* leave the pending list, idle ones change hands, and the scan goes on after
\* BatchSize of either, or starts again at the end.  Without the group it is an
\* error that changes nothing.
Claim ==
    /\ step[Reclaimer] = "ready"
    /\ LET hits  == {i \in pending : i >= scan /\ (i \in idle \/ i \notin Kept)}
           seen  == FirstOf(hits, BatchSize)
       IN  /\ pending' = pending \ (seen \ Kept)
           /\ idle' = idle \ seen
           /\ HandOut(seen \cap Kept)
           /\ Takes(Reclaimer, seen \cap Kept)
           /\ scan' = IF grouped THEN NextScan(seen) ELSE scan
    /\ UNCHANGED <<last, first, grouped, cursor, results, faults>>

\* A pending message reaches ClaimMinIdle, its worker alive or not.
Age(i) ==
    /\ i \in pending \ idle
    /\ idle' = idle \cup {i}
    /\ UNCHANGED <<last, first, grouped, cursor, pending, handed,
                   consumers, results, faults>>

-----------------------------------------------------------------------------
(***************************************************************************)
(* Handling the first message in hand.                                     *)
(***************************************************************************)
Message(c) == Min(hands[c])

Goes(c, s) == step' = [step EXCEPT ![c] = s] /\ UNCHANGED <<hands, scan>>

\* c is done with this message, whatever became of it.
Drops(c) ==
    /\ hands' = [hands EXCEPT ![c] = @ \ {Message(c)}]
    /\ step' = [step EXCEPT ![c] = IF hands[c] = {Message(c)} THEN "ready"
                                   ELSE FirstStep(c)]
    /\ attempt' = [attempt EXCEPT ![c] = 1]
    /\ UNCHANGED scan

\* XPENDING: the hand-outs of the message.
Count(c) ==
    /\ step[c] = "count"
    /\ grouped
    /\ attempt' = [attempt EXCEPT ![c] = IF Message(c) \in pending
                                         THEN handed[Message(c)] ELSE 1]
    /\ Goes(c, "handle")
    /\ UNCHANGED <<redis, results, faults>>

\* An unanswered XPENDING counts as a first attempt.
CountFails(c) ==
    /\ step[c] = "count"
    /\ Goes(c, "handle")
    /\ UNCHANGED <<redis, attempt, results, faults>>

\* Process succeeded: the notification is in the ledger.
Processed(c) ==
    /\ step[c] = "handle"
    /\ Kind[Message(c)] = "good"
    /\ filed' = filed \cup {Message(c)}
    /\ Goes(c, "ack")
    /\ UNCHANGED <<redis, attempt, dead, faults>>

\* The message cannot be decoded, or Process answers a 4xx.
Refused(c) ==
    /\ step[c] = "handle"
    /\ Kind[Message(c)] # "good"
    /\ Goes(c, "bury")
    /\ UNCHANGED <<redis, attempt, results, faults>>

\* Mutant of LastAttempt: off by one.
LastAttemptEarly(c) == attempt[c] + 1 >= MaxAttempts

LastAttempt(c) == attempt[c] >= MaxAttempts

\* Process failed and may have committed.  The message stays pending, unless
\* this was its last attempt.
Transient(c) ==
    /\ step[c] = "handle"
    /\ Kind[Message(c)] # "garbled"
    /\ filed' \in {filed, IF Kind[Message(c)] = "good"
                          THEN filed \cup {Message(c)} ELSE filed}
    /\ IF LastAttempt(c)
       THEN Goes(c, "bury") /\ UNCHANGED attempt
       ELSE Drops(c)
    /\ UNCHANGED <<redis, dead, faults>>

\* deadLetter writes the message aside, then acknowledges it.
Bury(c) ==
    /\ step[c] = "bury"
    /\ dead' = dead \cup {Message(c)}
    /\ Goes(c, "ack")
    /\ UNCHANGED <<redis, attempt, filed, faults>>

\* Mutant of BuryFails: acknowledged although the dead letter was not written.
BuryFailsAcked(c) ==
    /\ step[c] = "bury"
    /\ Goes(c, "ack")
    /\ UNCHANGED <<redis, attempt, results, faults>>

\* The dead letter cannot be written: better visibly stuck than dropped.
BuryFails(c) ==
    /\ step[c] = "bury"
    /\ Drops(c)
    /\ UNCHANGED <<redis, results, faults>>

\* XACK, whoever the message was handed to since.
Ack(c) ==
    /\ step[c] = "ack"
    /\ pending' = pending \ {Message(c)}
    /\ idle' = idle \ {Message(c)}
    /\ Drops(c)
    /\ UNCHANGED <<last, first, grouped, cursor, handed, results, faults>>

AckFails(c) ==
    /\ step[c] = "ack"
    /\ Drops(c)
    /\ UNCHANGED <<redis, results, faults>>

-----------------------------------------------------------------------------
(***************************************************************************)
(* Crashes.                                                                *)
(***************************************************************************)

\* Mutant of GroupStart: a new group is made at the end of the stream.
GroupStartAtEnd == last

\* Where the group ensureGroup makes begins to read: "0", the oldest message.
GroupStart == 0

\* The process stops, in order or not, and starts again: what the consumers
\* had in memory is gone, and ensureGroup makes the group if there is none.
\* After OnStop cancels the context, the rest of a batch fails to process and
\* to be dead-lettered, which changes nothing.
Restart ==
    /\ restarts < MaxRestarts
    /\ restarts' = restarts + 1
    /\ grouped' = TRUE
    /\ cursor' = IF grouped THEN cursor ELSE GroupStart
    /\ hands' = [c \in Consumer |-> {}]
    /\ step' = [c \in Consumer |-> "ready"]
    /\ attempt' = [c \in Consumer |-> 1]
    /\ scan' = 0
    /\ UNCHANGED <<last, first, pending, idle, handed, results, gone, losses>>

\* Redis loses its data (a restart without persistence), the stream with its
\* group and the dead letters, while the process goes on.
LoseData ==
    /\ losses < MaxLosses
    /\ losses' = losses + 1
    /\ gone' = last
    /\ first' = last + 1
    /\ grouped' = FALSE
    /\ cursor' = 0
    /\ pending' = {} /\ idle' = {} /\ dead' = {}
    /\ UNCHANGED <<last, handed, consumers, filed, restarts>>

Handle(c) == \/ Count(c) \/ CountFails(c)
             \/ Processed(c) \/ Refused(c) \/ Transient(c)
             \/ Bury(c) \/ BuryFails(c)
             \/ Ack(c) \/ AckFails(c)

Next == \/ Enqueue
        \/ \E w \in Worker : Read(w)
        \/ Claim
        \/ \E i \in Id : Age(i)
        \/ \E c \in Consumer : Handle(c)
        \/ Restart
        \/ LoseData

Spec == Init /\ [][Next]_vars

\* Consumers and the reclaimer's ticker run; time passes; and Redis does not
\* fail every single time it is asked to count, to bury or to acknowledge.
\* Nothing is assumed about Process: it may fail for ever.
Fairness ==
    /\ \A w \in Worker : WF_vars(Read(w))
    /\ WF_vars(Claim)
    /\ \A i \in Id : WF_vars(Age(i))
    /\ \A c \in Consumer : /\ WF_vars(Handle(c))
                           /\ SF_vars(Bury(c))
                           /\ SF_vars(Ack(c))
    /\ SF_vars(Count(Reclaimer))

FairSpec == Spec /\ Fairness

-----------------------------------------------------------------------------
(***************************************************************************)
(* Properties.                                                             *)
(***************************************************************************)
Unread == {i \in Kept : i > cursor}

\* What becomes of a credit the stream has accepted: it is in the ledger, on
\* the dead-letter stream, pending, or still to be read.
IsKept(i) == i \in filed \cup dead \cup pending \cup Unread

\* The newest MaxLen credits are kept.  Trimming, crashes, lost
\* acknowledgements, failed dead letters, two consumers on one message and a
\* group that had to be made anew cost a redelivery, never one of them; only
\* Redis itself can lose them.
RecentCreditsKept ==
    \A i \in (gone + 1)..last : i + MaxLen > last => IsKept(i)

\* Only a message that was handed out MaxAttempts times, or that can never be
\* processed, is given up.  An attempt is a hand-out, as in the code: those that end
\* in a crash or in a robbed worker's hand use attempts up like one that failed.  A
\* stale count, an unanswered XPENDING or a restart never adds to them.
GivenUpLast ==
    \A i \in dead : Kind[i] = "good" => handed[i] = MaxAttempts

\* Every message is retired in the end, poison included: read, and pending no
\* longer.  Messages that come after a loss of the stream wait for a restart,
\* which makes the group again.
EveryMessageRetires ==
    \A i \in Id : i <= last /\ grouped ~>
        \/ i <= cursor /\ i \notin pending
        \/ i <= gone
        \/ ~grouped

(***************************************************************************)
(* The abstract inbox this implements: what is in it is pending or unread. *)
(***************************************************************************)
I == INSTANCE Inbox WITH accepted <- last, lost <- gone,
                         waiting <- pending \cup Unread

\* However the stream, its group and its consumers interleave, together they
\* are an inbox: see there.
InboxSpec == I!Spec

(***************************************************************************)
(* What the documentation says and the code does not do.                   *)
(***************************************************************************)

\* "A credit that reached this service is never dropped."
NoCreditLost == \A i \in 1..last : IsKept(i)
=============================================================================
