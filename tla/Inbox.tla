-------------------------------- MODULE Inbox --------------------------------
(***************************************************************************)
(* What the queue promises to those who put credits into it, whatever it   *)
(* is made of: a message waits until it has been dealt with, in the ledger *)
(* or aside, and only then is it forgotten.  It may be dealt with several  *)
(* times and in any order.  With more than Capacity newer messages in      *)
(* front of it, it may be dropped.                                         *)
(***************************************************************************)
EXTENDS Integers

CONSTANTS Messages, MaxLen

VARIABLES accepted,   \* how many messages were accepted; they are numbered
          waiting,    \* those it still has to hand out, for the first time or again
          filed,      \* those that reached the ledger
          dead,       \* those put aside
          lost        \* those up to this one went with a broken inbox

vars == <<accepted, waiting, filed, dead, lost>>

Init == accepted = 0 /\ waiting = {} /\ filed = {} /\ dead = {} /\ lost = 0

\* A message that MaxLen newer ones may push out.
Surplus(i, n) == i + MaxLen <= n

\* A new message, which may push out old ones.
Accept ==
    /\ accepted < Messages
    /\ accepted' = accepted + 1
    /\ waiting' \subseteq waiting \cup {accepted + 1}
    /\ \A i \in (waiting \cup {accepted + 1}) \ waiting' : Surplus(i, accepted + 1)
    /\ UNCHANGED <<filed, dead, lost>>

\* The rest of a surplus is noticed later.
Drop ==
    /\ waiting' \subseteq waiting
    /\ \A i \in waiting \ waiting' : Surplus(i, accepted)
    /\ UNCHANGED <<accepted, filed, dead, lost>>

File(i) ==
    /\ filed' = filed \cup {i}
    /\ UNCHANGED <<accepted, waiting, dead, lost>>

PutAside(i) ==
    /\ dead' = dead \cup {i}
    /\ UNCHANGED <<accepted, waiting, filed, lost>>

\* Only a message that was dealt with is forgotten.
Forget(i) ==
    /\ i \in filed \cup dead
    /\ waiting' = waiting \ {i}
    /\ UNCHANGED <<accepted, filed, dead, lost>>

\* The inbox breaks, with all that was in it and beside it.
Break ==
    /\ lost' = accepted
    /\ waiting' = {} /\ dead' = {}
    /\ UNCHANGED <<accepted, filed>>

Next == \/ Accept \/ Drop \/ Break
        \/ \E i \in 1..accepted : File(i) \/ PutAside(i) \/ Forget(i)

Spec == Init /\ [][Next]_vars
==============================================================================
