------------------------------- MODULE Intake -------------------------------
(***************************************************************************)
(* What becomes of the content of a request on its way in and back out:    *)
(* from the settings the service starts with, through the validation of    *)
(* notifications and registrations, the queue's encoding, the columns of   *)
(* the two tables and the comparison with an earlier row, to the amount an *)
(* answer prints.  One request or message at a time: PaymentService and    *)
(* ApplyStatement have what runs concurrently, and the caches.             *)
(*                                                                         *)
(* A text is its word and how it is dressed: with blanks around it, or in  *)
(* lower case where the code ignores case.                                 *)
(***************************************************************************)
EXTENDS Money

CONSTANTS
    Environment,    \* what New can find in the environment, see Load
    Notification,   \* what the provider sends, see Validate
    Registration,   \* what operators send, see Terms
    Length,         \* Length[w]: the length of word w
    MaxLen,         \* QUEUE_MAX_LEN: what XADD keeps of the stream at least
    MaxQueued,      \* bound: messages on the queue at once
    MaxAside,       \* bound: messages on the dead-letter stream
    MaxDeployments, \* bound: deployments registered
    None            \* nil

Text == [word: DOMAIN Length, dressed: BOOLEAN]

Absent == [word |-> "", dressed |-> FALSE]

\* storable says that Postgres takes the request's texts, and a notification's whole
\* body as JSONB: no \u0000, no number beyond NUMERIC, and in the body no invalid
\* UTF-8 (of which encoding/json makes replacement characters in the texts).  means
\* is what the sender of a notification has in mind, None if it keeps to no agreed
\* format.  The code never sees it.
ASSUME IntakeAssumption ==
    /\ {MaxQueued, MaxAside, MaxDeployments} \subseteq Nat
    /\ MaxLen \in Nat \ {0}
    /\ Length[""] = 0
    /\ \A env \in Environment : env.principal \in Seq(STRING) /\ env.term \in Int
    /\ \A n \in Notification : /\ {n.customer, n.ref, n.currency, n.status} \subseteq Text
                              /\ n.amount \in Seq(STRING)
                              /\ n.storable \in BOOLEAN
    /\ \A r \in Registration : /\ {r.customer, r.currency} \subseteq Text
                              /\ r.principal \in Seq(STRING)
                              /\ r.storable \in BOOLEAN
    /\ \A n \in Notification :
          n.means # None => n.means.amount.exp \in -ColumnScale..0
    /\ Notification \cap Registration = {} /\ None \notin Notification \cup Registration

VARIABLES
    settings,     \* the service's configuration, None while it is down
    deployments,  \* the deployments table
    ledger,       \* the payments table
    stream,       \* entries of the queue: an encoded notification (note), and room
                  \* for so many entries behind it before XADD may drop it
    dead,         \* the notifications on the dead-letter stream
    promised,     \* an entry that was answered "queued": some provider keeps it in
                  \* mind, and it ages as on the stream
    last          \* the last answer: to what, which, the amount it prints

tables == <<deployments, ledger>>
queue  == <<stream, dead, promised>>
vars   == <<settings, tables, queue, last>>

TypeOK ==
    /\ settings # None => settings.term > 0 /\ settings.principal.coef > 0
    /\ \A d \in deployments : /\ d.principal.coef > 0 /\ d.principal.exp = -ColumnScale
                              /\ d.paid.coef >= 0 /\ d.paid.exp = -ColumnScale
                              /\ d.term \in 1..520
    /\ \A row \in ledger : /\ row.amount.coef > 0 /\ row.amount.exp = -ColumnScale
                           /\ row.outcome \in {"applied", "unmatched", "ignored"}
    /\ \A r1, r2 \in ledger : r1.ref = r2.ref => r1 = r2
    /\ \A d1, d2 \in deployments : d1.id = d2.id => d1 = d2
    /\ \A m \in stream : m.room \in 0..MaxLen

NoAnswer == [to |-> None, answer |-> "none", shown |-> <<>>, in |-> ""]

Init == /\ settings = None
        /\ deployments = {} /\ ledger = {}
        /\ stream = {} /\ dead = {} /\ promised = None
        /\ last = NoAnswer

\* The client has read its answer.
Done == /\ last # NoAnswer
        /\ last' = NoAnswer
        /\ UNCHANGED <<settings, tables, queue>>

Answers(to, answer) == last' = [to |-> to, answer |-> answer, shown |-> <<>>, in |-> ""]

\* The answer prints an amount, and the currency it is in.
Prints(to, answer, amount, currency) ==
    last' = [to |-> to, answer |-> answer,
             shown |-> Format(amount, currency), in |-> currency.code]

-----------------------------------------------------------------------------
(***************************************************************************)
(* Settings.                                                               *)
(***************************************************************************)

Ports == 0..65535

\* Validate: what is checked beyond the form of each setting.
ValidSettings(env) ==
    /\ env.port \in Ports /\ env.conns > 0 /\ env.inflight > 0 /\ env.term > 0
    /\ (env.queue /\ env.redis) => env.workers > 0 /\ env.batch > 0
    /\ env.production => env.secret

Settings(env, principal) ==
    [currency |-> Lookup(env.currency.word), principal |-> principal.amount,
     term |-> env.term, zone |-> env.zone, queue |-> env.queue /\ env.redis]

\* Mutant of Load: the default principal need not be positive.
LoadAnyPrincipal(env) ==
    LET principal == Parse(env.principal, Lookup(env.currency.word))
    IN  IF env.complete /\ principal.error = "none" /\ ValidSettings(env)
        THEN Settings(env, principal) ELSE None

\* New: the settings, if all are there and well-formed (env.complete: numbers,
\* durations, the name of the time zone), and valid together.
Load(env) ==
    LET principal == ParsePositive(env.principal, Lookup(env.currency.word))
    IN  IF env.complete /\ principal.error = "none" /\ ValidSettings(env)
        THEN Settings(env, principal) ELSE None

\* The service starts with these settings, or does not.
Start(env) ==
    /\ settings = None
    /\ settings' = Load(env)
    /\ UNCHANGED <<tables, queue, last>>

-----------------------------------------------------------------------------
(***************************************************************************)
(* Registrations.                                                          *)
(***************************************************************************)
maxTermWeeks == 520

InColumn(w, size) == Length[w] <= size

Open(d) == ~AtLeast(d.paid, d.principal)

OpenOf(customer) == {d \in deployments : d.customer = customer /\ Open(d)}

\* What a registration leaves out is filled in.  The principal is read in the
\* currency the request names, and a default one is taken over as it is.
NamedBy(r) == IF r.currency = Absent THEN settings.currency ELSE Lookup(r.currency.word)

Terms(r) ==
    LET named  == NamedBy(r)
        parsed == ParsePositive(r.principal, named)
    IN  [valid     |-> r.principal = <<>> \/ parsed.error = "none",
         currency  |-> IF named.code = "" THEN settings.currency ELSE named,
         principal |-> IF r.principal = <<>> THEN settings.principal ELSE parsed.amount,
         term      |-> IF r.term = 0 THEN settings.term ELSE r.term]

ValidTerms(r) ==
    /\ r.customer.word # ""
    /\ r.start
    /\ Terms(r).valid /\ Terms(r).principal.coef > 0
    /\ Terms(r).term \in 1..maxTermWeeks

FitsDeployment(r) ==
    /\ r.storable
    /\ InColumn(r.customer.word, 64) /\ InColumn(r.asset, 64)
    /\ InColumn(r.type, 32) /\ InColumn(r.account, 32)
    /\ InColumn(Terms(r).currency.code, 8)
    /\ FitsColumn(Terms(r).principal)

\* The two unique indexes: one open deployment per customer, and one deployment
\* per virtual account, settled ones included.
Taken(r) ==
    \/ OpenOf(r.customer.word) # {}
    \/ \E d \in deployments : d.account = r.account /\ d.account # ""

NewDeployment(r) ==
    [id |-> Cardinality(deployments) + 1, customer |-> r.customer.word,
     account |-> r.account, currency |-> Terms(r).currency.code,
     principal |-> Column(Terms(r).principal), paid |-> Column(Nothing),
     term |-> Terms(r).term]

\* An operator registers a deployment.  Either index reports the same conflict.
Register(r) ==
    /\ settings # None /\ last = NoAnswer
    /\ Cardinality(deployments) < MaxDeployments
    /\ \/ /\ ~ValidTerms(r)
          /\ Answers(r, "invalid") /\ UNCHANGED deployments
       \/ /\ ValidTerms(r) /\ ~FitsDeployment(r)
          /\ Answers(r, "error") /\ UNCHANGED deployments
       \/ /\ ValidTerms(r) /\ FitsDeployment(r) /\ Taken(r)
          /\ Answers(r, "conflict") /\ UNCHANGED deployments
       \/ /\ ValidTerms(r) /\ FitsDeployment(r) /\ ~Taken(r)
          /\ deployments' = deployments \cup {NewDeployment(r)}
          /\ Prints(r, "created", Column(Terms(r).principal), Terms(r).currency)
    /\ UNCHANGED <<settings, ledger, queue>>

-----------------------------------------------------------------------------
(***************************************************************************)
(* Notifications.                                                          *)
(***************************************************************************)
minReferenceLength == 6
maxReferenceLength == 128
maxCustomerIDLen   == 64

successStatuses == {"COMPLETE", "COMPLETED", "SUCCESS", "SUCCESSFUL"}

IsSuccessful(status) == status \in successStatuses

\* Mutant of ParseTransactionDate: a time without a zone is taken for UTC.
ParseTransactionDateUTC(stamp) ==
    stamp.clock - (IF stamp.offset = None THEN 0 ELSE stamp.offset)

\* A time without a zone is in the provider's.
ParseTransactionDate(stamp) ==
    stamp.clock - (IF stamp.offset = None THEN settings.zone ELSE stamp.offset)

CurrencyOf(n) == IF n.currency.word = "" THEN settings.currency ELSE Lookup(n.currency.word)

AmountOf(n) == ParsePositive(n.amount, CurrencyOf(n))

Valid(n) ==
    /\ Length[n.customer.word] \in 1..maxCustomerIDLen
    /\ Length[n.ref.word] \in minReferenceLength..maxReferenceLength
    /\ AmountOf(n).error = "none"
    /\ n.status.word # ""
    /\ n.date # None

Validate(n) ==
    [customer |-> n.customer.word, ref |-> n.ref.word, currency |-> CurrencyOf(n),
     amount |-> AmountOf(n).amount, status |-> n.status.word,
     date |-> ParseTransactionDate(n.date), raw |-> n]

RowOf(v, outcome, currency) ==
    [customer |-> v.customer, ref |-> v.ref, currency |-> currency.code,
     amount |-> Column(v.amount), status |-> v.status, date |-> v.date,
     outcome |-> outcome]

\* What the row's values are coerced to.  (The bytes of the texts and raw_payload are
\* refused before that, see Process.)
FitsRow(row) ==
    /\ InColumn(row.customer, 64) /\ InColumn(row.ref, 128)
    /\ InColumn(row.currency, 8) /\ InColumn(row.status, 32)
    /\ FitsColumn(row.amount)

\* Mutant of SameAmount: the two decimals are compared as they are written.
SameAmountWritten(a, b) == a = b

SameAmount(a, b) == Equal(a, b)

SameRequest(row, v) ==
    /\ row.customer = v.customer
    /\ SameAmount(row.amount, v.amount)
    /\ row.currency = v.currency.code

Used(ref) == \E row \in ledger : row.ref = ref

Replay(v) ==
    /\ \E row \in ledger :
          /\ row.ref = v.ref
          /\ IF SameRequest(row, v)
             THEN Prints(v.raw, "duplicate", row.amount, Lookup(row.currency))
             ELSE Answers(v.raw, "conflict")
    /\ UNCHANGED tables

\* Record, with the values coerced to their columns before the key is probed.
Record(v, outcome) ==
    LET row == RowOf(v, outcome, v.currency)
    IN  \/ /\ ~FitsRow(row)
           /\ Answers(v.raw, "error") /\ UNCHANGED tables
        \/ /\ FitsRow(row) /\ Used(v.ref)
           /\ Replay(v)
        \/ /\ FitsRow(row) /\ ~Used(v.ref)
           /\ ledger' = ledger \cup {row}
           /\ Prints(v.raw, outcome, row.amount, v.currency)
           /\ UNCHANGED deployments

\* Apply, which takes the deployment's currency and probes the key first.
Apply(v, d) ==
    LET row  == RowOf(v, "applied", Lookup(d.currency))
        paid == Plus(d.paid, v.amount)
    IN  \/ /\ Used(v.ref)
           /\ Replay(v)
        \/ /\ ~Used(v.ref) /\ ~(FitsRow(row) /\ FitsColumn(paid))
           /\ Answers(v.raw, "error") /\ UNCHANGED tables
        \/ /\ ~Used(v.ref) /\ FitsRow(row) /\ FitsColumn(paid)
           /\ ledger' = ledger \cup {row}
           /\ deployments' = (deployments \ {d}) \cup {[d EXCEPT !.paid = Column(paid)]}
           /\ Prints(v.raw, "applied", v.amount, Lookup(d.currency))

\* The statements' parameters, the body for raw_payload among them, are converted
\* before either statement looks at a table.
Process(v) ==
    \/ /\ ~v.raw.storable
       /\ Answers(v.raw, "error") /\ UNCHANGED tables
    \/ /\ v.raw.storable /\ OpenOf(v.customer) = {}
       /\ Record(v, "unmatched")
    \/ /\ v.raw.storable
       /\ \E d \in OpenOf(v.customer) :
             IF IsSuccessful(v.status) THEN Apply(v, d) ELSE Record(v, "ignored")

\* The JSON of a validated notification.
Encode(v) == [v EXCEPT !.amount = Plain(@)]

\* An entry with one more behind it.
Aged(m) == [m EXCEPT !.room = IF @ > 0 THEN @ - 1 ELSE 0]

Entry(v) == [note |-> v, room |-> MaxLen]

\* XADD MAXLEN ~: entries that have no room may go, read or not.
Enqueue(v) ==
    \E gone \in SUBSET {m \in {Aged(e) : e \in stream} : m.room = 0} :
        /\ stream' = ({Aged(e) : e \in stream} \ gone) \cup {Entry(v)}
        /\ Cardinality(stream') <= MaxQueued

\* Some provider's promise is made now, or it ages with the stream and is off when
\* Redis need not keep it any more.
Promise(v) ==
    promised' \in IF promised = None THEN {None, Entry(v)}
                  ELSE IF promised.room > 1 THEN {Aged(promised)}
                  ELSE {None}

\* Accept.  A broker that is down makes it inline, as without a queue.
Accept(n) ==
    /\ settings # None /\ last = NoAnswer
    /\ \/ /\ ~Valid(n)
          /\ Answers(n, "invalid")
          /\ UNCHANGED <<tables, queue>>
       \/ /\ Valid(n) /\ settings.queue
          /\ Enqueue(Encode(Validate(n)))
          /\ Promise(Encode(Validate(n)))
          /\ Prints(n, "queued", Validate(n).amount, Validate(n).currency)
          /\ UNCHANGED <<tables, dead>>
       \/ /\ Valid(n)
          /\ Process(Validate(n))
          /\ UNCHANGED queue
    /\ UNCHANGED settings

\* Mutant of Aside: a conflict is acknowledged like a duplicate.
AsideErrors(answer) == answer = "error"

\* Answers a message is put aside for: at once, or after its last attempt.
Aside(answer) == answer \in {"conflict", "error"}

\* A worker takes a message.  If Process failed it may stay for a next attempt.
\* Nobody reads what a worker's Process answers.
Work(m) ==
    /\ m \in stream /\ last = NoAnswer /\ Cardinality(dead) < MaxAside
    /\ Process(m.note)
    /\ \/ /\ stream' = stream \ {m}
          /\ dead' = IF Aside(last'.answer) THEN dead \cup {m.note} ELSE dead
       \/ last'.answer = "error" /\ UNCHANGED <<stream, dead>>
    /\ UNCHANGED <<settings, promised>>

\* Redis comes back without its data, and the promise is off.
LoseData ==
    /\ stream' = {} /\ dead' = {} /\ promised' = None
    /\ UNCHANGED <<settings, tables, last>>

Next == \/ \E env \in Environment : Start(env)
        \/ \E r \in Registration : Register(r)
        \/ \E n \in Notification : Accept(n)
        \/ \E m \in stream : Work(m)
        \/ LoseData
        \/ Done

Spec == Init /\ [][Next]_vars

-----------------------------------------------------------------------------
(***************************************************************************)
(* Properties.                                                             *)
(***************************************************************************)
ToNotification == last.to \in Notification
ToRegistration == last.to \in Registration

\* The amount in mind, and its currency: what is left out is the default.
Meant(to) ==
    IF to.means = None
    THEN [amount |-> settings.principal, currency |-> settings.currency.code]
    ELSE [amount   |-> to.means.amount,
          currency |-> IF to.means.currency = "" THEN settings.currency.code
                       ELSE to.means.currency]

\* What the code reads in a notification is what its sender had in mind.
ReadAsMeant(n) ==
    /\ Validate(n).customer = n.means.customer /\ Validate(n).ref = n.means.ref
    /\ Equal(Validate(n).amount, n.means.amount)
    /\ Validate(n).currency.code = Meant(n).currency
    /\ Validate(n).date = n.means.date
    /\ IsSuccessful(Validate(n).status) = n.means.settled

\* A notification is refused as malformed exactly if it keeps to no agreed
\* format, whatever its spelling (signs, separators, a code or a symbol before
\* the amount, the decimals its currency has, blanks, case, a zone or none), and
\* otherwise read as it was meant.  So is the principal of a registration.  (But for
\* a sign behind the point: no format has ".+5", and the code takes it for 0.05.)
AcceptsTheContract ==
    /\ ToNotification => /\ last.answer = "invalid" <=> last.to.means = None
                         /\ last.to.means # None => ReadAsMeant(last.to)
    /\ ToRegistration /\ last.answer # "invalid" =>
           Equal(Terms(last.to).principal, Meant(last.to).amount)

\* Every row of the ledger says what some sender meant, whichever way it came:
\* read from text, through the queue's JSON, and into the columns.
LedgerIsMeant ==
    \A row \in ledger : \E n \in Notification :
        /\ n.means # None
        /\ row.ref = n.means.ref /\ row.customer = n.means.customer
        /\ Equal(row.amount, n.means.amount) /\ row.date = n.means.date
        /\ row.outcome = "applied" => n.means.settled
        /\ row.outcome = "ignored" => ~n.means.settled
        /\ row.outcome # "applied" => row.currency = Meant(n).currency

\* A reference that was used is answered by what the sender means, not by how it
\* is spelled: "10.50" in a request, 10.5 on the queue and 10.500 in the column
\* are one amount.
SpellingsAgree ==
    last.answer \in {"duplicate", "conflict"} /\ ToNotification =>
        \E row \in ledger :
            /\ row.ref = last.to.means.ref
            /\ last.answer = "duplicate" <=>
                 /\ row.customer = last.to.means.customer
                 /\ Equal(row.amount, last.to.means.amount)
                 /\ row.currency = Meant(last.to).currency

\* A notification that was answered "queued" is on one of the streams, or its own
\* credit is in the ledger, for as long as Redis has to keep it: until MaxLen newer
\* entries are behind it, or the data are lost.  The reference may have been used
\* before: only the worker finds out, when the sender is gone, and must put the
\* message aside.
PromisedIsKept ==
    promised # None =>
        \/ promised.note \in {m.note : m \in stream} \cup dead
        \/ \E row \in ledger :
              /\ row.ref = promised.note.ref /\ row.customer = promised.note.customer
              /\ Equal(row.amount, promised.note.amount)
              /\ row.outcome # "applied" => row.currency = promised.note.currency.code

\* The amount the code read in a request, and the currency it read it in.
AmountRead(to) == IF to \in Notification THEN AmountOf(to).amount ELSE Terms(to).principal

ReadIn(to) ==
    IF to \in Notification THEN CurrencyOf(to)
    ELSE IF to.principal = <<>> THEN settings.currency ELSE NamedBy(to)

\* An amount that is printed in the currency it was read in reads back as that
\* amount, to the last minor unit.  (A credit in another currency than its
\* deployment's takes the deployment's decimals, a default principal those of the
\* currency the registration names, and a principal beside a blank currency those
\* of the default: these may be rounded.  A code that is all digits would be trimmed
\* off the amount: a code is one element of a text here, so the condition names the
\* codes of one digit.)
PrintedReadsBack ==
    LET read == Parse(last.shown, Lookup(last.in))
    IN  /\ last.shown # <<>>
        /\ last.in = ReadIn(last.to).code /\ last.in \notin ToSet(Digits)
        => read.error = "none" /\ Equal(read.amount, AmountRead(last.to))

\* A notification that passed validation is refused by the database only for what
\* nothing checks: a body that JSONB does not take, a currency code or a status
\* longer than its column, or a balance that outgrows its own.  A registration only
\* for texts that Postgres does not take or that are longer than their columns.  The
\* amount and the other texts are checked early enough.
OnlyUncheckedFails ==
    last.answer = "error" =>
        \/ /\ ToNotification
           /\ \/ ~last.to.storable
              \/ ~InColumn(CurrencyOf(last.to).code, 8)
              \/ ~InColumn(last.to.status.word, 32)
              \/ \E d \in OpenOf(last.to.customer.word) :
                    ~FitsColumn(Plus(d.paid, AmountOf(last.to).amount))
        \/ /\ ToRegistration
           /\ \/ ~last.to.storable
              \/ ~InColumn(last.to.customer.word, 64) \/ ~InColumn(last.to.asset, 64)
              \/ ~InColumn(last.to.type, 32) \/ ~InColumn(last.to.account, 32)
              \/ ~InColumn(Terms(last.to).currency.code, 8)

\* Settings the service starts with are good for a registration that names a
\* customer and leaves the terms to them, if the term is one the domain takes.
StandardTermsRegister ==
    ToRegistration =>
        \/ last.to.currency # Absent \/ last.to.principal # <<>> \/ last.to.term # 0
        \/ last.to.customer.word = "" \/ ~last.to.start
        \/ settings.term > maxTermWeeks
        \/ last.answer # "invalid"
=============================================================================
