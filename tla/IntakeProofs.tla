---------------------------- MODULE IntakeProofs -----------------------------
(***************************************************************************)
(* Theorems about Intake, for any environments, notifications and          *)
(* registrations: what the tables hold is well-formed, a credit that was   *)
(* answered "queued" is kept while Redis has to keep it, settings that     *)
(* boot are good for a registration, the database refuses only what        *)
(* nothing checks before, and what is printed reads back.  If what is read *)
(* is what was meant, so is what is stored, and so are the answers to      *)
(* repeats.                                                                *)
(***************************************************************************)
EXTENDS Intake, MoneyProofs

-----------------------------------------------------------------------------
(***************************************************************************)
(* The inductive invariant.                                                *)
(***************************************************************************)

\* The default principal was read like a credit.
SettingsSound ==
    settings # None => /\ settings.term \in Nat \ {0}
                       /\ Credit(settings.principal) /\ ~TooLarge(settings.principal)
                       /\ ~TooPrecise(settings.principal, settings.currency)
                       /\ settings.currency = Lookup(settings.currency.code)
                       /\ settings.currency.scale \in 0..3

\* A row of deployments, with the columns it has.
DeploymentSound(d) ==
    /\ d = [id |-> d.id, customer |-> d.customer, account |-> d.account,
            currency |-> d.currency, principal |-> d.principal, paid |-> d.paid,
            term |-> d.term]
    /\ d.id \in 1..Cardinality(deployments)
    /\ d.principal.coef \in Nat \ {0} /\ d.principal.exp = -ColumnScale
    /\ d.paid.coef \in Nat /\ d.paid.exp = -ColumnScale
    /\ d.term \in 1..520 /\ InColumn(d.currency, 8)

\* Each has an id of its own, counted from 1.
DeploymentsSound ==
    /\ IsFiniteSet(deployments)
    /\ \A d \in deployments : DeploymentSound(d)
    /\ \A d1, d2 \in deployments : d1.id = d2.id => d1 = d2

\* The rows of payments, one per reference.
LedgerSound ==
    /\ \A row \in ledger : /\ row.amount.coef \in Nat \ {0}
                           /\ row.amount.exp = -ColumnScale
                           /\ row.outcome \in {"applied", "unmatched", "ignored"}
    /\ \A r1, r2 \in ledger : r1.ref = r2.ref => r1 = r2

\* v is what a valid notification was read as, the amount perhaps spelled anew.
Read(v) ==
    /\ v.raw \in Notification /\ Valid(v.raw)
    /\ v.customer = v.raw.customer.word /\ v.ref = v.raw.ref.word
    /\ v.currency = CurrencyOf(v.raw) /\ v.status = v.raw.status.word
    /\ v.date = ParseTransactionDate(v.raw.date)
    /\ Credit(v.amount) /\ Equal(v.amount, AmountOf(v.raw).amount)

\* An entry of the stream.
EntrySound(m) == m = [note |-> m.note, room |-> m.room] /\ m.room \in 0..MaxLen

\* So is what waits on the stream, for the settings do not change.
StreamSound == \A m \in stream : EntrySound(m) /\ Read(m.note)

\* Nothing was answered, queued or stored before the service had settings.
DownIsIdle == settings = None => last = NoAnswer /\ stream = {} /\ ledger = {}

\* The row is v's own credit: what PromisedIsKept asks for.
RowKept(row, v) ==
    /\ row.ref = v.ref /\ row.customer = v.customer
    /\ Equal(row.amount, v.amount)
    /\ row.outcome # "applied" => row.currency = v.currency.code

\* Why PromisedIsKept holds: a promise that is on has room left, and so has the very
\* entry it is about, while that is on the stream.
PromiseSound ==
    promised # None =>
        /\ EntrySound(promised) /\ promised.room > 0
        /\ \/ promised \in stream \/ promised.note \in dead
           \/ \E row \in ledger : RowKept(row, promised.note)

\* PromiseSound needs LedgerSound and StreamSound: what a worker stores equals
\* what was promised only because both are credits.
IInv == /\ SettingsSound /\ DeploymentsSound /\ LedgerSound /\ StreamSound
        /\ DownIsIdle /\ PromiseSound /\ StandardTermsRegister

\* The types are part of it.
LEMMA TypesFollow ==
    ASSUME IInv
    PROVE  TypeOK
<1>1. settings # None => settings.term > 0 /\ settings.principal.coef > 0
  BY DEF IInv, SettingsSound, Credit
<1>2. \A d \in deployments :
         /\ d.principal.coef > 0 /\ d.principal.exp = -ColumnScale
         /\ d.paid.coef >= 0 /\ d.paid.exp = -ColumnScale
         /\ d.term \in 1..520
  BY DEF IInv, DeploymentsSound, DeploymentSound
<1>3. \A row \in ledger : row.amount.coef > 0
  BY DEF IInv, LedgerSound
<1> QED
  BY <1>1, <1>2, <1>3
  DEF TypeOK, IInv, DeploymentsSound, LedgerSound, StreamSound, EntrySound

\* It holds at the start.
LEMMA InitInv == Init => IInv
<1> SUFFICES ASSUME Init PROVE IInv
  OBVIOUS
<1>1. DeploymentsSound
  BY FS_EmptySet DEF Init, DeploymentsSound
<1>2. StandardTermsRegister
  BY IntakeAssumption DEF Init, StandardTermsRegister, ToRegistration, NoAnswer
<1> QED
  BY <1>1, <1>2 DEF Init, IInv, SettingsSound, LedgerSound, StreamSound, DownIsIdle,
                    PromiseSound

-----------------------------------------------------------------------------
(***************************************************************************)
(* Settings and registrations.                                             *)
(***************************************************************************)

\* Load takes only settings that are sound.
LEMMA DefaultsLoad ==
    ASSUME NEW env \in Environment, Load(env) # None
    PROVE  /\ Load(env).term \in Nat \ {0}
           /\ Credit(Load(env).principal) /\ ~TooLarge(Load(env).principal)
           /\ ~TooPrecise(Load(env).principal, Load(env).currency)
           /\ Load(env).currency = Lookup(Load(env).currency.code)
           /\ Load(env).currency.scale \in 0..3
<1> DEFINE principal == ParsePositive(env.principal, Lookup(env.currency.word))
<1>1. principal.error = "none" /\ ValidSettings(env) /\ Load(env) = Settings(env, principal)
  BY DEF Load
<1>2. Lookup(env.currency.word).scale \in 0..3
  BY LookupScale
<1>3. /\ Credit(principal.amount) /\ ~TooLarge(principal.amount)
      /\ ~TooPrecise(principal.amount, Lookup(env.currency.word))
  BY <1>1, <1>2, IntakeAssumption, CreditRead
<1>4. env.term \in Nat \ {0}
  <2>1. env.term \in Int
    BY IntakeAssumption
  <2>2. ValidSettings(env)
    BY <1>1
  <2>3. env.term > 0
    BY <2>2 DEF ValidSettings
  <2> QED
    BY <2>1, <2>3
<1>5. Lookup(env.currency.word) = Lookup(Lookup(env.currency.word).code)
  BY LookupCode
<1> QED
  BY <1>1, <1>2, <1>3, <1>4, <1>5 DEF Settings

\* The principal of valid terms is a credit, whether named or the default.
LEMMA TermsAreCredit ==
    ASSUME SettingsSound, settings # None, NEW r \in Registration, ValidTerms(r)
    PROVE  /\ Credit(Terms(r).principal) /\ ~TooLarge(Terms(r).principal)
           /\ ~TooPrecise(Terms(r).principal, ReadIn(r))
           /\ Terms(r).currency = Lookup(Terms(r).currency.code)
           /\ ReadIn(r) = Lookup(ReadIn(r).code)
<1> DEFINE parsed == ParsePositive(r.principal, NamedBy(r))
<1>1. /\ Terms(r).valid <=> (r.principal = <<>> \/ parsed.error = "none")
      /\ Terms(r).principal = IF r.principal = <<>> THEN settings.principal
                              ELSE parsed.amount
      /\ Terms(r).currency = IF NamedBy(r).code = "" THEN settings.currency ELSE NamedBy(r)
  BY DEF Terms
<1>2. NamedBy(r) = Lookup(NamedBy(r).code)
  BY LookupCode DEF NamedBy, SettingsSound
<1>3. NamedBy(r).scale \in 0..3
  BY <1>2, LookupScale
<1>4. r.principal = <<>> \/ parsed.error = "none"
  BY <1>1 DEF ValidTerms
<1>5. parsed.error = "none" => /\ Credit(parsed.amount) /\ ~TooLarge(parsed.amount)
                               /\ ~TooPrecise(parsed.amount, NamedBy(r))
  BY <1>3, IntakeAssumption, CreditRead
<1> HIDE DEF parsed
<1>6. ReadIn(r) = IF r.principal = <<>> THEN settings.currency ELSE NamedBy(r)
  BY IntakeAssumption DEF ReadIn
<1> QED
  BY <1>1, <1>2, <1>4, <1>5, <1>6 DEF SettingsSound

\* Sound settings are valid terms, unless the default term is too long.
LEMMA DefaultsInRange ==
    ASSUME SettingsSound, settings # None
    PROVE  /\ settings.principal.coef > 0
           /\ settings.term \in 1..maxTermWeeks \/ settings.term > maxTermWeeks
<1>1. PICK t \in Nat \ {0} : t = settings.term
  BY DEF SettingsSound
<1>2. PICK c \in Nat \ {0} : c = settings.principal.coef
  BY DEF SettingsSound, Credit
<1>3. t \in 1..520 \/ t > 520
  OBVIOUS
<1> QED
  BY <1>1, <1>2, <1>3 DEF maxTermWeeks

\* The balance a deployment starts with.
LEMMA NothingInColumn == Column(Nothing).coef = 0 /\ Column(Nothing).exp = -ColumnScale
<1>1. PICK k \in 0..6 : k = ColumnScale + 0
  BY ScaleAssumption
<1>2. PICK p \in Nat : p = 10^k
  BY PowerType
<1>3. 0 * p = 0
  OBVIOUS
<1>4. Units(Nothing, ColumnScale) = 0
  BY <1>1, <1>2, <1>3 DEF Units, Nothing, Decimal
<1> QED
  BY <1>4 DEF Column, Decimal

\* The amount of a valid notification is a credit, in a currency by its code.
LEMMA NotificationIsCredit ==
    ASSUME SettingsSound, settings # None, NEW n \in Notification, Valid(n)
    PROVE  /\ Credit(AmountOf(n).amount) /\ ~TooLarge(AmountOf(n).amount)
           /\ ~TooPrecise(AmountOf(n).amount, CurrencyOf(n))
           /\ CurrencyOf(n) = Lookup(CurrencyOf(n).code)
<1>1. CurrencyOf(n) = Lookup(CurrencyOf(n).code)
  BY LookupCode DEF CurrencyOf, SettingsSound
<1>2. CurrencyOf(n).scale \in 0..3
  BY <1>1, LookupScale
<1>3. n.amount \in Seq(STRING)
  BY IntakeAssumption
<1>4. AmountOf(n).error = "none"
  BY DEF Valid
<1> QED
  BY <1>1, <1>2, <1>3, <1>4, CreditRead DEF AmountOf

\* What is read in a notification depends on the settings only.
LEMMA SettingsStay ==
    ASSUME UNCHANGED settings, NEW to
    PROVE  /\ CurrencyOf(to)' = CurrencyOf(to) /\ AmountOf(to)' = AmountOf(to)
           /\ Valid(to)' <=> Valid(to)
           /\ Validate(to)' = Validate(to) /\ Meant(to)' = Meant(to)
           /\ Terms(to)' = Terms(to) /\ NamedBy(to)' = NamedBy(to)
           /\ Read(to)' <=> Read(to)
<1>1. CurrencyOf(to)' = CurrencyOf(to) /\ NamedBy(to)' = NamedBy(to) /\ Meant(to)' = Meant(to)
  BY DEF CurrencyOf, NamedBy, Meant
<1>2. AmountOf(to)' = AmountOf(to) /\ Terms(to)' = Terms(to)
  BY <1>1 DEF AmountOf, Terms
<1>3. (Valid(to)' <=> Valid(to)) /\ Validate(to)' = Validate(to)
  BY <1>1, <1>2 DEF Valid, Validate, ParseTransactionDate
<1>4. Read(to)' <=> Read(to)
  BY DEF Read, Valid, AmountOf, CurrencyOf, ParseTransactionDate
<1> QED
  BY <1>1, <1>2, <1>3, <1>4

\* A validated notification is read from itself, and so is its JSON.
LEMMA ValidatedIsRead ==
    ASSUME SettingsSound, settings # None, NEW n \in Notification, Valid(n)
    PROVE  Read(Validate(n)) /\ Read(Encode(Validate(n)))
<1> DEFINE v == Validate(n)
           w == Encode(Validate(n))
<1>1. Credit(AmountOf(n).amount)
  BY NotificationIsCredit
<1>2. /\ v.raw = n /\ v.customer = n.customer.word /\ v.ref = n.ref.word
      /\ v.currency = CurrencyOf(n) /\ v.status = n.status.word
      /\ v.date = ParseTransactionDate(n.date) /\ v.amount = AmountOf(n).amount
  BY DEF Validate
<1>3. /\ w.raw = n /\ w.customer = n.customer.word /\ w.ref = n.ref.word
      /\ w.currency = CurrencyOf(n) /\ w.status = n.status.word
      /\ w.date = ParseTransactionDate(n.date) /\ w.amount = Plain(AmountOf(n).amount)
  BY DEF Validate, Encode
<1> HIDE DEF v, w
<1>4. Equal(v.amount, AmountOf(n).amount)
  BY <1>2 DEF Equal
<1>5. Read(v)
  BY <1>1, <1>2, <1>4 DEF Read
<1>6. Credit(w.amount) /\ Equal(w.amount, AmountOf(n).amount)
  BY <1>1, <1>3, PlainOfCredit
<1>7. Read(w)
  BY <1>3, <1>6 DEF Read
<1> QED
  BY <1>5, <1>7 DEF v, w

\* A registration adds a sound row, with an id none has.
LEMMA RegisteredSound ==
    ASSUME IInv, settings # None, NEW r \in Registration, ValidTerms(r), FitsDeployment(r),
           deployments' = deployments \cup {NewDeployment(r)}
    PROVE  DeploymentsSound'
<1> DEFINE n == Cardinality(deployments)
<1>0. PICK d : d = NewDeployment(r)
  OBVIOUS
<1>1. IsFiniteSet(deployments) /\ n \in Nat
  BY FS_CardinalityType DEF IInv, DeploymentsSound
<1>2. \A e \in deployments : e.id \in 1..n
  BY DEF IInv, DeploymentsSound, DeploymentSound
<1>3. d.id = n + 1 /\ d \notin deployments
  BY <1>0, <1>1, <1>2 DEF NewDeployment
<1>4. IsFiniteSet(deployments') /\ Cardinality(deployments') = n + 1
  BY <1>0, <1>1, <1>3, FS_AddElement
<1>5. DeploymentSound(d)'
  <2>1. Credit(Terms(r).principal)
    BY TermsAreCredit DEF IInv
  <2>2. /\ Column(Terms(r).principal).coef \in Nat \ {0}
        /\ Column(Terms(r).principal).exp = -ColumnScale
    BY <2>1, ColumnOfCredit
  <2>3. Terms(r).term \in 1..520
    BY DEF ValidTerms, maxTermWeeks
  <2>4. n + 1 \in 1..(n + 1)
    BY <1>1
  <2>5. d = [id |-> n + 1, customer |-> r.customer.word, account |-> r.account,
             currency |-> Terms(r).currency.code, principal |-> Column(Terms(r).principal),
             paid |-> Column(Nothing), term |-> Terms(r).term]
    BY <1>0 DEF NewDeployment
  <2>6. d = [id |-> d.id, customer |-> d.customer, account |-> d.account,
             currency |-> d.currency, principal |-> d.principal, paid |-> d.paid,
             term |-> d.term]
    BY <2>5
  <2>7. /\ d.id = n + 1 /\ d.principal = Column(Terms(r).principal)
        /\ d.paid = Column(Nothing) /\ d.term = Terms(r).term
        /\ d.currency = Terms(r).currency.code
    BY <2>5
  <2>8. d.paid.coef \in Nat /\ d.paid.exp = -ColumnScale
    BY <2>7, NothingInColumn
  <2>9. d.id \in 1..Cardinality(deployments')
    BY <1>4, <2>4, <2>7
  <2> QED
    BY <2>2, <2>3, <2>6, <2>7, <2>8, <2>9 DEF DeploymentSound, FitsDeployment
<1>6. ASSUME NEW e \in deployments
      PROVE  DeploymentSound(e)' /\ e.id # d.id
  <2>1. DeploymentSound(e)
    BY DEF IInv, DeploymentsSound
  <2>2. e.id \in 1..(n + 1) /\ e.id # n + 1
    BY <1>1, <1>2
  <2> QED
    BY <1>3, <1>4, <2>1, <2>2 DEF DeploymentSound
<1>7. deployments' = deployments \cup {d}
  BY <1>0
<1>8. \A e \in deployments' : DeploymentSound(e)'
  BY <1>5, <1>6, <1>7
<1>9. \A d1, d2 \in deployments' : d1.id = d2.id => d1 = d2
  BY <1>6, <1>7 DEF IInv, DeploymentsSound
<1> QED
  BY <1>4, <1>8, <1>9 DEF DeploymentsSound

-----------------------------------------------------------------------------
(***************************************************************************)
(* Process.                                                                *)
(***************************************************************************)

\* A credit moves one balance and touches no other row.
LEMMA CreditedSound ==
    ASSUME DeploymentsSound, NEW d \in deployments, NEW amount, Credit(amount),
           deployments' = (deployments \ {d})
                             \cup {[d EXCEPT !.paid = Column(Plus(d.paid, amount))]}
    PROVE  DeploymentsSound'
<1> DEFINE paid == Column(Plus(d.paid, amount))
           c == [d EXCEPT !.paid = paid]
           n == Cardinality(deployments)
<1>1. IsFiniteSet(deployments) /\ n \in Nat /\ DeploymentSound(d)
  BY FS_CardinalityType DEF DeploymentsSound
<1>2. paid.coef \in Nat /\ paid.exp = -ColumnScale
  <2>1. d.paid.coef \in Nat /\ d.paid.exp = -ColumnScale
    BY <1>1 DEF DeploymentSound
  <2>2. Column(amount).coef \in Nat
    BY ColumnOfCredit
  <2> QED
    BY <2>1, <2>2, BalanceWithCredit
<1> HIDE DEF paid
<1>3. c = [id |-> d.id, customer |-> d.customer, account |-> d.account,
           currency |-> d.currency, principal |-> d.principal, paid |-> paid,
           term |-> d.term]
  BY <1>1 DEF DeploymentSound
<1> HIDE DEF c
<1>4. deployments' = (deployments \ {d}) \cup {c}
  BY DEF c, paid
<1>5. \A e \in deployments : e.id = c.id => e = d
  BY <1>3 DEF DeploymentsSound
<1>6. IsFiniteSet(deployments') /\ Cardinality(deployments') = n
  <2>1. c \notin deployments \ {d}
    BY <1>5
  <2>2. IsFiniteSet(deployments \ {d}) /\ Cardinality(deployments \ {d}) = n - 1
    BY <1>1, FS_RemoveElement
  <2>3. Cardinality((deployments \ {d}) \cup {c}) = (n - 1) + 1
        /\ IsFiniteSet((deployments \ {d}) \cup {c})
    BY <2>1, <2>2, FS_AddElement
  <2> QED
    BY <1>1, <1>4, <2>3
<1>7. DeploymentSound(c)'
  <2>1. /\ c.id = d.id /\ c.principal = d.principal /\ c.paid = paid /\ c.term = d.term
        /\ c.currency = d.currency
        /\ c = [id |-> c.id, customer |-> c.customer, account |-> c.account,
                currency |-> c.currency, principal |-> c.principal, paid |-> c.paid,
                term |-> c.term]
    BY <1>3
  <2> QED
    BY <1>1, <1>2, <1>6, <2>1 DEF DeploymentSound
<1>8. \A e \in deployments : DeploymentSound(e)'
  BY <1>6 DEF DeploymentsSound, DeploymentSound
<1> QED
  BY <1>4, <1>5, <1>6, <1>7, <1>8 DEF DeploymentsSound

\* A new row is sound, and its own credit.
LEMMA RowSound ==
    ASSUME LedgerSound, NEW v, Credit(v.amount), ~Used(v.ref),
           NEW currency, NEW outcome \in {"applied", "unmatched", "ignored"},
           outcome # "applied" => currency = v.currency,
           ledger' = ledger \cup {RowOf(v, outcome, currency)}
    PROVE  LedgerSound' /\ \E row \in ledger' : RowKept(row, v)
<1> DEFINE row == RowOf(v, outcome, currency)
<1>1. /\ row.ref = v.ref /\ row.customer = v.customer /\ row.currency = currency.code
      /\ row.amount = Column(v.amount) /\ row.outcome = outcome
  BY DEF RowOf
<1> HIDE DEF row
<1>2. ledger' = ledger \cup {row}
  BY DEF row
<1>3. /\ Column(v.amount).coef \in Nat \ {0} /\ Column(v.amount).exp = -ColumnScale
      /\ Equal(Column(v.amount), v.amount)
  BY ColumnOfCredit
<1>4. \A old \in ledger : old.ref # row.ref
  BY <1>1 DEF Used
<1>5. LedgerSound'
  BY <1>1, <1>2, <1>3, <1>4 DEF LedgerSound
<1>6. RowKept(row, v)
  BY <1>1, <1>3 DEF RowKept
<1> QED
  BY <1>2, <1>5, <1>6

\* Whatever branch it takes, Process keeps the tables sound, loses no row, and
\* ends in one of two ways: the message is put aside, or its credit is stored.
LEMMA ProcessSound ==
    ASSUME DeploymentsSound, LedgerSound, NEW v, Credit(v.amount), Process(v)
    PROVE  /\ DeploymentsSound' /\ LedgerSound' /\ ledger \subseteq ledger'
           /\ last'.to = v.raw
           /\ Aside(last'.answer) \/ \E row \in ledger' : RowKept(row, v)
<1> DEFINE Goal == /\ DeploymentsSound' /\ LedgerSound' /\ ledger \subseteq ledger'
                   /\ last'.to = v.raw
                   /\ Aside(last'.answer) \/ \E row \in ledger' : RowKept(row, v)
<1>1. ASSUME UNCHANGED tables
      PROVE  DeploymentsSound' /\ LedgerSound' /\ ledger' = ledger
  BY <1>1 DEF tables, DeploymentsSound, DeploymentSound, LedgerSound
<1>2. ASSUME Answers(v.raw, "error"), UNCHANGED tables
      PROVE  Goal
  <2>1. last'.to = v.raw /\ last'.answer = "error"
    BY <1>2 DEF Answers
  <2> QED
    BY <1>1, <1>2, <2>1 DEF Aside
<1>3. ASSUME Replay(v)
      PROVE  Goal
  <2>1. PICK row \in ledger :
           /\ row.ref = v.ref
           /\ IF SameRequest(row, v)
              THEN Prints(v.raw, "duplicate", row.amount, Lookup(row.currency))
              ELSE Answers(v.raw, "conflict")
    BY <1>3 DEF Replay
  <2>2. DeploymentsSound' /\ LedgerSound' /\ ledger' = ledger
    BY <1>1, <1>3 DEF Replay
  <2>3. CASE SameRequest(row, v)
    <3>1. last'.to = v.raw
      BY <2>1, <2>3 DEF Prints
    <3>2. RowKept(row, v)
      BY <2>1, <2>3 DEF SameRequest, SameAmount, RowKept
    <3> QED
      BY <2>2, <3>1, <3>2
  <2>4. CASE ~SameRequest(row, v)
    <3>1. Answers(v.raw, "conflict")
      BY <2>1, <2>4
    <3>2. last'.to = v.raw /\ last'.answer = "conflict"
      BY <3>1 DEF Answers
    <3> QED
      BY <2>2, <3>2 DEF Aside
  <2> QED
    BY <2>3, <2>4
<1>4. ASSUME NEW outcome \in {"unmatched", "ignored"}, Record(v, outcome)
      PROVE  Goal
  <2> DEFINE row == RowOf(v, outcome, v.currency)
  <2>1. CASE Answers(v.raw, "error") /\ UNCHANGED tables
    BY <1>2, <2>1
  <2>2. CASE Replay(v)
    BY <1>3, <2>2
  <2>3. CASE /\ ~Used(v.ref) /\ ledger' = ledger \cup {row}
             /\ Prints(v.raw, outcome, row.amount, v.currency)
             /\ UNCHANGED deployments
    <3>1. last'.to = v.raw
      BY <2>3 DEF Prints
    <3>2. DeploymentsSound'
      BY <2>3 DEF DeploymentsSound, DeploymentSound
    <3>3. LedgerSound' /\ \E r \in ledger' : RowKept(r, v)
      BY <2>3, RowSound
    <3> QED
      BY <2>3, <3>1, <3>2, <3>3
  <2> QED
    BY <1>4, <2>1, <2>2, <2>3 DEF Record
<1>5. ASSUME NEW d \in deployments, Apply(v, d)
      PROVE  Goal
  <2> DEFINE row == RowOf(v, "applied", Lookup(d.currency))
             paid == Plus(d.paid, v.amount)
  <2>1. CASE Answers(v.raw, "error") /\ UNCHANGED tables
    BY <1>2, <2>1
  <2>2. CASE Replay(v)
    BY <1>3, <2>2
  <2>3. CASE /\ ~Used(v.ref) /\ ledger' = ledger \cup {row}
             /\ deployments' = (deployments \ {d}) \cup {[d EXCEPT !.paid = Column(paid)]}
             /\ Prints(v.raw, "applied", v.amount, Lookup(d.currency))
    <3>1. last'.to = v.raw
      BY <2>3 DEF Prints
    <3>2. DeploymentsSound'
      BY <2>3, CreditedSound
    <3>3. LedgerSound' /\ \E r \in ledger' : RowKept(r, v)
      BY <2>3, RowSound
    <3> QED
      BY <2>3, <3>1, <3>2, <3>3
  <2> QED
    BY <1>5, <2>1, <2>2, <2>3 DEF Apply
<1> HIDE DEF Goal
<1>6. Goal
  <2>1. OpenOf(v.customer) \subseteq deployments
    BY DEF OpenOf
  <2> QED
    BY <1>2, <1>4, <1>5, <2>1 DEF Process
<1> QED
  BY <1>6 DEF Goal

-----------------------------------------------------------------------------
(***************************************************************************)
(* The steps.                                                              *)
(***************************************************************************)

\* An answer to the provider says nothing of registrations.
LEMMA ToSender ==
    ASSUME NEW n \in Notification, last'.to = n
    PROVE  StandardTermsRegister'
BY IntakeAssumption DEF StandardTermsRegister, ToRegistration

\* A promise is kept while nothing is taken from the streams or the ledger.
LEMMA PromiseStays ==
    ASSUME PromiseSound, promised' = promised, ledger \subseteq ledger',
           stream \subseteq stream', dead \subseteq dead'
    PROVE  PromiseSound'
BY DEF PromiseSound, EntrySound

\* The service starts.
LEMMA StartInv ==
    ASSUME IInv, NEW env \in Environment, Start(env)
    PROVE  IInv'
<1>1. SettingsSound'
  BY DefaultsLoad DEF Start, SettingsSound
<1>2. last = NoAnswer /\ stream = {}
  BY DEF IInv, DownIsIdle, Start
<1>3. StandardTermsRegister'
  BY <1>2, IntakeAssumption DEF Start, StandardTermsRegister, ToRegistration, NoAnswer
<1>4. PromiseSound'
  BY PromiseStays DEF IInv, Start, tables, queue
<1> QED
  BY <1>1, <1>2, <1>3, <1>4
  DEF IInv, Start, tables, queue, DeploymentsSound, DeploymentSound, LedgerSound,
      StreamSound, DownIsIdle

\* A deployment is registered, or refused.
LEMMA RegisterInv ==
    ASSUME IInv, NEW r \in Registration, Register(r)
    PROVE  IInv'
<1>1. settings # None /\ UNCHANGED <<settings, ledger, stream, dead, promised>>
  BY DEF Register, queue
<1>2. SettingsSound' /\ LedgerSound' /\ StreamSound' /\ DownIsIdle'
  BY <1>1, SettingsStay DEF IInv, SettingsSound, LedgerSound, StreamSound, DownIsIdle
<1>3. PromiseSound'
  BY <1>1, PromiseStays DEF IInv
<1>4. DeploymentsSound'
  <2>1. CASE UNCHANGED deployments
    BY <2>1 DEF IInv, DeploymentsSound, DeploymentSound
  <2>2. CASE /\ ValidTerms(r) /\ FitsDeployment(r)
             /\ deployments' = deployments \cup {NewDeployment(r)}
    BY <1>1, <2>2, RegisteredSound
  <2> QED
    BY <2>1, <2>2 DEF Register
<1>5. last'.to = r /\ (last'.answer = "invalid" => ~ValidTerms(r))
  <2>1. CASE ~ValidTerms(r) /\ Answers(r, "invalid")
    BY <2>1 DEF Answers
  <2>2. CASE Answers(r, "error")
    BY <2>2 DEF Answers
  <2>3. CASE Answers(r, "conflict")
    BY <2>3 DEF Answers
  <2>4. CASE Prints(r, "created", Column(Terms(r).principal), Terms(r).currency)
    BY <2>4 DEF Prints
  <2> QED
    BY <2>1, <2>2, <2>3, <2>4 DEF Register
<1>6. settings.principal.coef > 0
      /\ (settings.term \in 1..maxTermWeeks \/ settings.term > maxTermWeeks)
  BY <1>1, DefaultsInRange DEF IInv
<1>7. StandardTermsRegister'
  <2> SUFFICES ASSUME r.currency = Absent, r.principal = <<>>, r.term = 0,
                      r.customer.word # "", r.start, ~(settings.term > maxTermWeeks)
               PROVE  ValidTerms(r)
    BY <1>1, <1>5 DEF StandardTermsRegister
  <2>1. Terms(r).valid /\ Terms(r).principal = settings.principal /\ Terms(r).term = settings.term
    BY DEF Terms
  <2> QED
    BY <1>6, <2>1 DEF ValidTerms
<1> QED
  BY <1>2, <1>3, <1>4, <1>7 DEF IInv

\* XADD: what has room ages, and so does the promise about it.
LEMMA EnqueueSound ==
    ASSUME StreamSound, PromiseSound, NEW v, Read(v), Enqueue(v), Promise(v),
           UNCHANGED <<settings, ledger, dead>>
    PROVE  StreamSound' /\ PromiseSound'
<1>1. PICK gone \in SUBSET {m \in {Aged(e) : e \in stream} : m.room = 0} :
         stream' = ({Aged(e) : e \in stream} \ gone) \cup {Entry(v)}
  BY DEF Enqueue
<1>0. MaxLen \in Nat \ {0}
  BY IntakeAssumption
<1>2. EntrySound(Entry(v)) /\ Entry(v).note = v /\ Entry(v).room > 0
  <2>1. PICK e : e = [note |-> v, room |-> MaxLen]
    OBVIOUS
  <2>2. e = Entry(v)
    BY <2>1 DEF Entry
  <2>3. e.note = v /\ e.room = MaxLen /\ e = [note |-> e.note, room |-> e.room]
    BY <2>1
  <2> QED
    BY <1>0, <2>2, <2>3 DEF EntrySound
<1>3. ASSUME NEW e, EntrySound(e)
      PROVE  /\ EntrySound(Aged(e)) /\ Aged(e).note = e.note
             /\ e.room > 1 => Aged(e).room > 0
  <2>1. e = [note |-> e.note, room |-> e.room] /\ e.room \in 0..MaxLen /\ MaxLen \in Nat
    BY <1>0, <1>3 DEF EntrySound
  <2>2. Aged(e) = [note |-> e.note, room |-> IF e.room > 0 THEN e.room - 1 ELSE 0]
    BY <2>1 DEF Aged
  <2>3. Aged(e).note = e.note /\ Aged(e).room = IF e.room > 0 THEN e.room - 1 ELSE 0
    BY <2>2
  <2> QED
    BY <2>1, <2>2, <2>3 DEF EntrySound
<1>4. StreamSound'
  <2> SUFFICES ASSUME NEW m \in stream'
               PROVE  EntrySound(m) /\ Read(m.note)'
    BY DEF StreamSound, EntrySound
  <2>1. CASE m = Entry(v)
    BY <1>2, <2>1, SettingsStay
  <2>2. ASSUME NEW e \in stream, m = Aged(e)
        PROVE  EntrySound(m) /\ Read(m.note)'
    BY <1>3, <2>2, SettingsStay DEF StreamSound
  <2> QED
    BY <1>1, <2>1, <2>2
<1>5. PromiseSound'
  <2>1. CASE promised' = None
    BY <2>1 DEF PromiseSound
  <2>2. CASE promised' = Entry(v)
    BY <1>1, <1>2, <2>2 DEF PromiseSound, EntrySound
  <2>3. CASE promised # None /\ promised.room > 1 /\ promised' = Aged(promised)
    <3>1. /\ EntrySound(promised') /\ promised'.room > 0 /\ promised'.note = promised.note
      BY <1>3, <2>3 DEF PromiseSound
    <3>2. promised \in stream => promised' \in stream'
      BY <1>1, <2>3, <3>1
    <3> QED
      BY <2>3, <3>1, <3>2 DEF PromiseSound, EntrySound
  <2> QED
    BY <2>1, <2>2, <2>3 DEF Promise
<1> QED
  BY <1>4, <1>5

\* A notification is refused, queued or processed.
LEMMA AcceptInv ==
    ASSUME IInv, NEW n \in Notification, Accept(n)
    PROVE  IInv'
<1>1. settings # None /\ settings' = settings
  BY DEF Accept
<1>2. SettingsSound' /\ DownIsIdle'
  BY <1>1 DEF IInv, SettingsSound, DownIsIdle
<1>3. CASE Answers(n, "invalid") /\ UNCHANGED <<tables, queue>>
  <2>1. last'.to = n
    BY <1>3 DEF Answers
  <2>2. StandardTermsRegister' /\ PromiseSound'
    BY <1>3, <2>1, ToSender, PromiseStays DEF IInv, tables, queue
  <2> QED
    BY <1>1, <1>2, <1>3, <2>2, SettingsStay
    DEF IInv, tables, queue, DeploymentsSound, DeploymentSound, LedgerSound, StreamSound
<1>4. CASE /\ Valid(n)
           /\ Enqueue(Encode(Validate(n))) /\ Promise(Encode(Validate(n)))
           /\ Prints(n, "queued", Validate(n).amount, Validate(n).currency)
           /\ UNCHANGED <<tables, dead>>
  <2>1. PICK v : v = Encode(Validate(n))
    OBVIOUS
  <2>2. Read(v)
    BY <1>1, <1>4, <2>1, ValidatedIsRead DEF IInv
  <2>3. StreamSound' /\ PromiseSound'
    BY <1>1, <1>4, <2>1, <2>2, EnqueueSound DEF IInv, tables
  <2>4. last'.to = n
    BY <1>4 DEF Prints
  <2> QED
    BY <1>2, <1>4, <2>3, <2>4, ToSender
    DEF IInv, tables, DeploymentsSound, DeploymentSound, LedgerSound
<1>5. CASE Valid(n) /\ Process(Validate(n)) /\ UNCHANGED queue
  <2>1. PICK v : v = Validate(n)
    OBVIOUS
  <2>2. v.raw = n /\ Read(v)
    BY <1>1, <1>5, <2>1, ValidatedIsRead DEF IInv, Validate
  <2>3. Credit(v.amount)
    BY <2>2 DEF Read
  <2>4. Process(v)
    BY <1>5, <2>1
  <2>5. DeploymentsSound' /\ LedgerSound' /\ ledger \subseteq ledger' /\ last'.to = n
    BY <2>2, <2>3, <2>4, ProcessSound DEF IInv
  <2>6. PromiseSound' /\ StreamSound'
    BY <1>1, <1>5, <2>5, PromiseStays, SettingsStay DEF IInv, queue, StreamSound
  <2> QED
    BY <1>2, <2>5, <2>6, ToSender DEF IInv
<1> QED
  BY <1>3, <1>4, <1>5 DEF Accept

\* A worker processes a message: the one step of the service that takes something
\* off a stream.
LEMMA WorkInv ==
    ASSUME IInv, NEW m \in stream, Work(m)
    PROVE  IInv'
<1>1. settings' = settings /\ promised' = promised /\ Process(m.note)
  BY DEF Work
<1>2. m.note.raw \in Notification /\ Credit(m.note.amount) /\ settings # None
  BY DEF IInv, StreamSound, DownIsIdle, Read
<1>3. /\ DeploymentsSound' /\ LedgerSound' /\ ledger \subseteq ledger'
      /\ last'.to = m.note.raw
      /\ Aside(last'.answer) \/ \E row \in ledger' : RowKept(row, m.note)
  BY <1>1, <1>2, ProcessSound DEF IInv
<1>4. SettingsSound' /\ DownIsIdle' /\ StandardTermsRegister'
  BY <1>1, <1>2, <1>3, ToSender DEF IInv, SettingsSound, DownIsIdle
<1>5. CASE UNCHANGED <<stream, dead>>
  <2>1. PromiseSound'
    BY <1>1, <1>3, <1>5, PromiseStays DEF IInv
  <2> QED
    BY <1>1, <1>3, <1>4, <1>5, <2>1, SettingsStay DEF IInv, StreamSound, EntrySound
<1>6. CASE /\ stream' = stream \ {m}
           /\ dead' = IF Aside(last'.answer) THEN dead \cup {m.note} ELSE dead
  <2>1. StreamSound'
    BY <1>1, <1>6, SettingsStay DEF IInv, StreamSound, EntrySound
  <2>2. PromiseSound'
    <3>1. CASE promised # m
      BY <1>1, <1>3, <1>6, <3>1 DEF IInv, PromiseSound, EntrySound
    <3>2. CASE promised = m
      <4>1. m.note \in dead' \/ \E row \in ledger' : RowKept(row, m.note)
        BY <1>3, <1>6
      <4> QED
        BY <1>1, <3>2, <4>1 DEF IInv, PromiseSound, EntrySound
    <3> QED
      BY <3>1, <3>2
  <2> QED
    BY <1>3, <1>4, <2>1, <2>2 DEF IInv
<1> QED
  BY <1>5, <1>6 DEF Work

\* Redis is empty, and the promise off.
LEMMA LossInv ==
    ASSUME IInv, LoseData
    PROVE  IInv'
<1>1. UNCHANGED <<settings, deployments, ledger, last>>
  BY DEF LoseData, tables
<1>2. StreamSound' /\ PromiseSound'
  BY DEF LoseData, StreamSound, PromiseSound
<1>3. DownIsIdle'
  BY <1>1 DEF IInv, DownIsIdle, LoseData, NoAnswer
<1>4. StandardTermsRegister'
  BY <1>1 DEF IInv, StandardTermsRegister, ToRegistration
<1> QED
  BY <1>1, <1>2, <1>3, <1>4
  DEF IInv, SettingsSound, DeploymentsSound, DeploymentSound, LedgerSound

\* The client goes.
LEMMA DoneInv ==
    ASSUME IInv, Done
    PROVE  IInv'
<1>1. last' = NoAnswer /\ UNCHANGED <<settings, deployments, ledger, stream, dead, promised>>
  BY DEF Done, tables, queue
<1>2. StandardTermsRegister'
  BY <1>1, IntakeAssumption DEF StandardTermsRegister, ToRegistration, NoAnswer
<1>3. PromiseSound'
  BY <1>1, PromiseStays DEF IInv
<1>4. DownIsIdle'
  BY <1>1 DEF IInv, DownIsIdle, NoAnswer
<1> QED
  BY <1>1, <1>2, <1>3, <1>4, SettingsStay
  DEF IInv, SettingsSound, DeploymentsSound, DeploymentSound, LedgerSound, StreamSound

\* Every step keeps the invariant.
LEMMA NextInv == IInv /\ [Next]_vars => IInv'
<1> SUFFICES ASSUME IInv, [Next]_vars PROVE IInv'
  OBVIOUS
<1>1. CASE UNCHANGED vars
  <2>1. UNCHANGED <<settings, deployments, ledger, stream, dead, promised, last>>
    BY <1>1 DEF vars, tables, queue
  <2>2. StandardTermsRegister'
    BY <2>1 DEF IInv, StandardTermsRegister, ToRegistration
  <2>3. PromiseSound'
    BY <2>1, PromiseStays DEF IInv
  <2>4. DeploymentsSound' /\ LedgerSound'
    BY <2>1 DEF IInv, DeploymentsSound, DeploymentSound, LedgerSound
  <2> QED
    BY <2>1, <2>2, <2>3, <2>4, SettingsStay
    DEF IInv, SettingsSound, StreamSound, DownIsIdle, NoAnswer
<1> QED
  BY <1>1, StartInv, RegisterInv, AcceptInv, WorkInv, LossInv, DoneInv DEF Next

-----------------------------------------------------------------------------
(***************************************************************************)
(* What is answered.                                                       *)
(***************************************************************************)

\* What a notification may fail for.
Refused(v) ==
    \/ ~v.raw.storable
    \/ ~InColumn(v.currency.code, 8) \/ ~InColumn(v.status, 32)
    \/ \E d \in OpenOf(v.customer) : ~FitsColumn(Plus(d.paid, v.amount))

\* The ways Process ends, besides a replay.
Fails(v) == Refused(v) /\ Answers(v.raw, "error") /\ UNCHANGED tables

Stores(v, outcome, currency) ==
    /\ ledger' = ledger \cup {RowOf(v, outcome, currency)}
    /\ \E amount \in {v.amount, Column(v.amount)} : Prints(v.raw, outcome, amount, currency)
    /\ currency = Lookup(currency.code)
    /\ outcome \in {"applied", "unmatched", "ignored"}
    /\ outcome = "applied" => IsSuccessful(v.status)
    /\ outcome = "ignored" => ~IsSuccessful(v.status)
    /\ outcome # "applied" => currency = v.currency

\* A row of v's has room for what validation lets through, but for two texts.
LEMMA RowFits ==
    ASSUME SettingsSound, settings # None, NEW v, Read(v), NEW outcome, NEW currency,
           InColumn(currency.code, 8), InColumn(v.status, 32)
    PROVE  FitsRow(RowOf(v, outcome, currency))
<1> DEFINE row == RowOf(v, outcome, currency)
           a == AmountOf(v.raw).amount
<1>1. /\ row.customer = v.customer /\ row.ref = v.ref /\ row.currency = currency.code
      /\ row.status = v.status /\ row.amount = Column(v.amount)
  BY DEF RowOf
<1> HIDE DEF row
<1>2. InColumn(v.customer, 64) /\ InColumn(v.ref, 128)
  <2>1. /\ Length[v.raw.customer.word] \in 1..64 /\ Length[v.raw.ref.word] \in 6..128
        /\ v.customer = v.raw.customer.word /\ v.ref = v.raw.ref.word
    BY DEF Read, Valid, maxCustomerIDLen, minReferenceLength, maxReferenceLength
  <2>2. Length[v.raw.customer.word] <= 64 /\ Length[v.raw.ref.word] <= 128
    BY <2>1
  <2> QED
    BY <2>1, <2>2 DEF InColumn
<1>3. FitsColumn(row.amount)
  <2>1. Credit(a) /\ ~TooLarge(a) /\ Credit(v.amount) /\ Equal(v.amount, a)
    BY NotificationIsCredit DEF Read
  <2> HIDE DEF a
  <2>2. Kept(a) /\ Kept(v.amount) /\ Kept(row.amount)
    BY <1>1, <2>1, ColumnOfCredit, ScaleAssumption DEF Credit, Kept
  <2>3. Equal(row.amount, v.amount)
    BY <1>1, <2>1, ColumnOfCredit
  <2>4. Equal(row.amount, a)
    BY <2>1, <2>2, <2>3, KeptAgree DEF Kept
  <2> QED
    BY <2>1, <2>2, <2>4, ReadFits
<1> QED
  BY <1>1, <1>2, <1>3 DEF FitsRow, row

\* Process fails for what nothing checked, or replays, or stores.
LEMMA ProcessEnds ==
    ASSUME IInv, settings # None, NEW v, Read(v), Process(v)
    PROVE  Fails(v) \/ Replay(v) \/ \E outcome, currency : Stores(v, outcome, currency)
<1>1. ASSUME NEW outcome \in {"unmatched", "ignored"}, Record(v, outcome),
             outcome = "ignored" => ~IsSuccessful(v.status)
      PROVE  Fails(v) \/ Replay(v) \/ Stores(v, outcome, v.currency)
  <2> DEFINE row == RowOf(v, outcome, v.currency)
  <2>1. CASE ~FitsRow(row) /\ Answers(v.raw, "error") /\ UNCHANGED tables
    <3>1. Refused(v)
      BY <2>1, RowFits DEF IInv, Refused
    <3> QED
      BY <2>1, <3>1 DEF Fails
  <2>2. CASE Replay(v)
    BY <2>2
  <2>3. CASE ledger' = ledger \cup {row} /\ Prints(v.raw, outcome, row.amount, v.currency)
    <3>1. row.amount = Column(v.amount)
      BY DEF RowOf
    <3>2. v.currency = Lookup(v.currency.code)
      BY NotificationIsCredit DEF Read, IInv
    <3> QED
      BY <1>1, <2>3, <3>1, <3>2 DEF Stores
  <2> QED
    BY <1>1, <2>1, <2>2, <2>3 DEF Record
<1>2. ASSUME NEW d \in OpenOf(v.customer), Apply(v, d), IsSuccessful(v.status)
      PROVE  Fails(v) \/ Replay(v) \/ Stores(v, "applied", Lookup(d.currency))
  <2> DEFINE row  == RowOf(v, "applied", Lookup(d.currency))
             paid == Plus(d.paid, v.amount)
  <2>1. CASE ~(FitsRow(row) /\ FitsColumn(paid)) /\ Answers(v.raw, "error") /\ UNCHANGED tables
    <3>1. InColumn(Lookup(d.currency).code, 8)
      BY LookupCode DEF IInv, DeploymentsSound, DeploymentSound, OpenOf
    <3>2. Refused(v)
      BY <2>1, <3>1, RowFits DEF IInv, Refused
    <3> QED
      BY <2>1, <3>2 DEF Fails
  <2>2. CASE Replay(v)
    BY <2>2
  <2>3. CASE /\ ledger' = ledger \cup {row}
             /\ Prints(v.raw, "applied", v.amount, Lookup(d.currency))
    <3>1. Lookup(d.currency) = Lookup(Lookup(d.currency).code)
      BY LookupCode
    <3> QED
      BY <1>2, <2>3, <3>1 DEF Stores
  <2> QED
    BY <1>2, <2>1, <2>2, <2>3 DEF Apply
<1>3. ASSUME ~v.raw.storable, Answers(v.raw, "error"), UNCHANGED tables
      PROVE  Fails(v)
  BY <1>3 DEF Fails, Refused
<1> QED
  BY <1>1, <1>2, <1>3 DEF Process

\* What a step does to the answer and the ledger.
LEMMA StepAnswers ==
    ASSUME IInv, [Next]_vars
    PROVE  \/ UNCHANGED <<tables, last>> /\ (UNCHANGED settings \/ (last = NoAnswer /\ ledger = {}))
           \/ settings' = settings /\ last' = NoAnswer /\ UNCHANGED tables
           \/ \E r \in Registration : Register(r)
           \/ \E n \in Notification :
                 /\ settings' = settings /\ UNCHANGED tables /\ settings # None
                 /\ \/ Answers(n, "invalid")
                    \/ Valid(n) /\ Prints(n, "queued", AmountOf(n).amount, CurrencyOf(n))
           \/ \E v : settings' = settings /\ settings # None /\ Read(v) /\ Process(v)
<1>1. CASE UNCHANGED vars
  BY <1>1 DEF vars
<1>2. ASSUME NEW env \in Environment, Start(env)
      PROVE  UNCHANGED <<tables, last>> /\ last = NoAnswer /\ ledger = {}
  BY <1>2 DEF Start, IInv, DownIsIdle
<1>3. CASE Done
  BY <1>3 DEF Done
<1>4. ASSUME NEW n \in Notification, Accept(n)
      PROVE  \/ /\ settings' = settings /\ UNCHANGED tables /\ settings # None
                /\ \/ Answers(n, "invalid")
                   \/ Valid(n) /\ Prints(n, "queued", AmountOf(n).amount, CurrencyOf(n))
             \/ settings' = settings /\ settings # None /\ Read(Validate(n)) /\ Process(Validate(n))
  <2>1. settings # None /\ settings' = settings
    BY <1>4 DEF Accept
  <2>2. CASE Answers(n, "invalid") /\ UNCHANGED tables
    BY <2>1, <2>2
  <2>3. CASE /\ Valid(n) /\ UNCHANGED tables
             /\ Prints(n, "queued", Validate(n).amount, Validate(n).currency)
    BY <2>1, <2>3 DEF Validate
  <2>4. CASE Valid(n) /\ Process(Validate(n))
    BY <2>1, <2>4, ValidatedIsRead DEF IInv
  <2> QED
    BY <1>4, <2>2, <2>3, <2>4 DEF Accept
<1>5. ASSUME NEW m \in stream, Work(m)
      PROVE  settings' = settings /\ settings # None /\ Read(m.note) /\ Process(m.note)
  BY <1>5 DEF Work, IInv, StreamSound, DownIsIdle
<1>6. CASE LoseData
  BY <1>6 DEF LoseData
<1> QED
  BY <1>1, <1>2, <1>3, <1>4, <1>5, <1>6 DEF Next

\* Where there is no answer, none is printed.
LEMMA NoAnswerIs == NoAnswer.answer = "none" /\ NoAnswer.shown = <<>>
<1>1. PICK none : none = ""
  OBVIOUS
<1>2. NoAnswer = [to |-> None, answer |-> "none", shown |-> <<>>, in |-> none]
  BY <1>1, Zenon DEF NoAnswer
<1> QED
  BY <1>2

\* An answer is to whom it says, and says what it says.
LEMMA AnswersIs ==
    ASSUME NEW to, NEW answer, Answers(to, answer)
    PROVE  last'.to = to /\ last'.answer = answer /\ last'.shown = <<>>
<1>1. PICK none : none = ""
  OBVIOUS
<1>2. last' = [to |-> to, answer |-> answer, shown |-> <<>>, in |-> none]
  BY <1>1, Zenon DEF Answers
<1> QED
  BY <1>2

\* So is one that prints an amount.
LEMMA PrintsIs ==
    ASSUME NEW to, NEW answer, NEW amount, NEW currency, Prints(to, answer, amount, currency)
    PROVE  /\ last'.to = to /\ last'.answer = answer
           /\ last'.shown = Format(amount, currency) /\ last'.in = currency.code
BY DEF Prints

\* A replay is one of two answers, and compares the rows by what they say.
LEMMA ReplayIs ==
    ASSUME NEW v, Replay(v)
    PROVE  /\ UNCHANGED tables /\ last'.to = v.raw
           /\ \E row \in ledger :
                 /\ row.ref = v.ref
                 /\ \/ /\ last'.answer = "duplicate" /\ SameRequest(row, v)
                       /\ last'.shown = Format(row.amount, Lookup(row.currency))
                       /\ last'.in = row.currency
                    \/ last'.answer = "conflict" /\ ~SameRequest(row, v) /\ last'.shown = <<>>
<1>1. PICK row \in ledger :
         /\ row.ref = v.ref
         /\ IF SameRequest(row, v)
            THEN Prints(v.raw, "duplicate", row.amount, Lookup(row.currency))
            ELSE Answers(v.raw, "conflict")
  BY DEF Replay
<1>2. CASE SameRequest(row, v)
  <2>1. Prints(v.raw, "duplicate", row.amount, Lookup(row.currency))
    BY <1>1, <1>2
  <2> QED
    BY <1>1, <1>2, <2>1, PrintsIs, LookupCode DEF Replay
<1>3. CASE ~SameRequest(row, v)
  <2>1. Answers(v.raw, "conflict")
    BY <1>1, <1>3
  <2> QED
    BY <1>1, <1>3, <2>1, AnswersIs DEF Replay
<1> QED
  BY <1>2, <1>3

\* A step fails only for what nothing checked.
LEMMA UncheckedStep ==
    ASSUME IInv, OnlyUncheckedFails, [Next]_vars
    PROVE  OnlyUncheckedFails'
<1>1. CASE UNCHANGED <<tables, last>> /\ UNCHANGED settings
  BY <1>1, SettingsStay
  DEF OnlyUncheckedFails, tables, ToNotification, ToRegistration, OpenOf, Open
<1>2. CASE last' = NoAnswer
  BY <1>2, NoAnswerIs DEF OnlyUncheckedFails
<1>3. ASSUME NEW r \in Registration, Register(r)
      PROVE  OnlyUncheckedFails'
  <2>1. settings # None /\ settings' = settings
    BY <1>3 DEF Register
  <2>2. last'.to = r /\ (last'.answer = "error" => ValidTerms(r) /\ ~FitsDeployment(r))
    <3>1. CASE ~ValidTerms(r) /\ Answers(r, "invalid")
      BY <3>1, AnswersIs
    <3>2. CASE ValidTerms(r) /\ ~FitsDeployment(r) /\ Answers(r, "error")
      BY <3>2, AnswersIs
    <3>3. CASE Answers(r, "conflict")
      BY <3>3, AnswersIs
    <3>4. CASE Prints(r, "created", Column(Terms(r).principal), Terms(r).currency)
      BY <3>4, PrintsIs
    <3> QED
      BY <1>3, <3>1, <3>2, <3>3, <3>4 DEF Register
  <2>3. ValidTerms(r) => FitsColumn(Terms(r).principal)
    <3> SUFFICES ASSUME ValidTerms(r) PROVE FitsColumn(Terms(r).principal)
      OBVIOUS
    <3>1. Credit(Terms(r).principal) /\ ~TooLarge(Terms(r).principal)
      BY <2>1, TermsAreCredit DEF IInv
    <3>2. Kept(Terms(r).principal)
      BY <3>1, ScaleAssumption DEF Credit, Kept
    <3> QED
      BY <3>1, <3>2, ReadFits DEF Equal
  <2>4. Terms(r)' = Terms(r)
    BY <2>1, SettingsStay
  <2> QED
    BY <2>2, <2>3, <2>4 DEF OnlyUncheckedFails, ToRegistration, FitsDeployment, InColumn
<1>4. ASSUME NEW n \in Notification,
             \/ Answers(n, "invalid")
             \/ Prints(n, "queued", AmountOf(n).amount, CurrencyOf(n))
      PROVE  OnlyUncheckedFails'
  <2>1. last'.answer \in {"invalid", "queued"}
    BY <1>4, AnswersIs, PrintsIs
  <2> QED
    BY <2>1 DEF OnlyUncheckedFails
<1>5. ASSUME NEW v, settings' = settings, settings # None, Read(v), Process(v)
      PROVE  OnlyUncheckedFails'
  <2>1. ASSUME Fails(v)
        PROVE  OnlyUncheckedFails'
    <3>1. last'.to = v.raw /\ deployments' = deployments /\ v.raw \in Notification
      BY <1>5, <2>1, AnswersIs DEF Fails, tables, Read
    <3>2. \A d \in OpenOf(v.customer) : Plus(d.paid, v.amount) = Plus(d.paid, AmountOf(v.raw).amount)
      <4> SUFFICES ASSUME NEW d \in deployments
                   PROVE  Plus(d.paid, v.amount) = Plus(d.paid, AmountOf(v.raw).amount)
        BY DEF OpenOf
      <4>1. d.paid.exp \in -ColumnScale..0
        BY ScaleAssumption DEF IInv, DeploymentsSound, DeploymentSound
      <4>2. /\ v.amount.exp \in -ColumnScale..0
            /\ AmountOf(v.raw).amount.exp \in -ColumnScale..0
        BY <1>5, NotificationIsCredit, ScaleAssumption DEF IInv, Read, Credit
      <4>3. Units(v.amount, ColumnScale) = Units(AmountOf(v.raw).amount, ColumnScale)
        BY <1>5, <4>2, KeptAgree DEF Read
      <4> QED
        BY <4>1, <4>2, <4>3, KeptAgree
    <3>3. \/ ~v.raw.storable
          \/ ~InColumn(CurrencyOf(v.raw).code, 8) \/ ~InColumn(v.raw.status.word, 32)
          \/ \E d \in OpenOf(v.raw.customer.word) :
                ~FitsColumn(Plus(d.paid, AmountOf(v.raw).amount))
      BY <1>5, <2>1, <3>2 DEF Fails, Refused, Read
    <3>4. /\ CurrencyOf(v.raw)' = CurrencyOf(v.raw) /\ AmountOf(v.raw)' = AmountOf(v.raw)
          /\ OpenOf(v.raw.customer.word)' = OpenOf(v.raw.customer.word)
      BY <1>5, <3>1, SettingsStay DEF OpenOf, Open
    <3> QED
      BY <3>1, <3>3, <3>4 DEF OnlyUncheckedFails, ToNotification, InColumn
  <2>2. ASSUME Replay(v)
        PROVE  OnlyUncheckedFails'
    BY <2>2, ReplayIs DEF OnlyUncheckedFails
  <2>3. ASSUME NEW outcome, NEW currency, Stores(v, outcome, currency)
        PROVE  OnlyUncheckedFails'
    <3>1. last'.answer \in {"applied", "unmatched", "ignored"}
      BY <2>3, PrintsIs DEF Stores
    <3> QED
      BY <3>1 DEF OnlyUncheckedFails
  <2> QED
    BY <1>5, <2>1, <2>2, <2>3, ProcessEnds
<1> QED
  BY <1>1, <1>2, <1>3, <1>4, <1>5, StepAnswers

\* What was read of a request, and is printed with the decimals it was read with,
\* reads back.
LEMMA PrintsBack ==
    ASSUME UNCHANGED settings, NEW to, last'.to = to,
           NEW amount, Kept(amount), Equal(amount, AmountRead(to)),
           NEW code, last'.in = code, last'.shown = Format(amount, Lookup(code)),
           Credit(AmountRead(to)), ~TooLarge(AmountRead(to)),
           ~TooPrecise(AmountRead(to), ReadIn(to)), ReadIn(to) = Lookup(ReadIn(to).code)
    PROVE  PrintedReadsBack'
<1>1. AmountRead(to)' = AmountRead(to) /\ ReadIn(to)' = ReadIn(to)
  BY SettingsStay DEF AmountRead, ReadIn
<1> SUFFICES ASSUME code = ReadIn(to).code, code \notin ToSet(Digits)
             PROVE  LET read == Parse(Format(amount, Lookup(code)), Lookup(code))
                    IN  read.error = "none" /\ Equal(read.amount, AmountRead(to))
  BY <1>1 DEF PrintedReadsBack
<1>2. ~TooPrecise(AmountRead(to), Lookup(code))
  OBVIOUS
<1> QED
  BY <1>2, PrintedIsRead

\* What a step prints reads back.
LEMMA PrintedStep ==
    ASSUME IInv, PrintedReadsBack, [Next]_vars
    PROVE  PrintedReadsBack'
<1>1. CASE UNCHANGED <<tables, last>> /\ UNCHANGED settings
  BY <1>1 DEF PrintedReadsBack, AmountRead, ReadIn, AmountOf, CurrencyOf, Terms, NamedBy
<1>2. ASSUME last'.shown = <<>>
      PROVE  PrintedReadsBack'
  BY <1>2 DEF PrintedReadsBack
<1>3. last' = NoAnswer => last'.shown = <<>>
  BY NoAnswerIs
<1>4. ASSUME NEW r \in Registration, Register(r)
      PROVE  PrintedReadsBack'
  <2>1. settings # None /\ settings' = settings
    BY <1>4 DEF Register
  <2>2. CASE Answers(r, "invalid") \/ Answers(r, "error") \/ Answers(r, "conflict")
    BY <1>2, <2>2, AnswersIs
  <2>3. CASE ValidTerms(r) /\ Prints(r, "created", Column(Terms(r).principal), Terms(r).currency)
    <3> DEFINE p == Terms(r).principal
               code == Terms(r).currency.code
    <3>1. /\ Credit(p) /\ ~TooLarge(p) /\ ~TooPrecise(p, ReadIn(r))
          /\ Terms(r).currency = Lookup(code) /\ ReadIn(r) = Lookup(ReadIn(r).code)
      BY <2>1, <2>3, TermsAreCredit DEF IInv
    <3>2. AmountRead(r) = p
      BY IntakeAssumption DEF AmountRead
    <3> HIDE DEF p
    <3>3. Kept(Column(p)) /\ Equal(Column(p), p)
      BY <3>1, ColumnOfCredit, ScaleAssumption DEF Kept
    <3>4. last'.to = r /\ last'.in = code /\ last'.shown = Format(Column(p), Lookup(code))
      BY <2>3, <3>1, PrintsIs DEF p
    <3> HIDE DEF code
    <3> QED
      BY <2>1, <3>1, <3>2, <3>3, <3>4, PrintsBack
  <2> QED
    BY <1>4, <2>2, <2>3 DEF Register
<1>5. ASSUME NEW n \in Notification, Valid(n), settings # None
      PROVE  /\ AmountRead(n) = AmountOf(n).amount /\ ReadIn(n) = CurrencyOf(n)
             /\ Credit(AmountRead(n)) /\ ~TooLarge(AmountRead(n))
             /\ ~TooPrecise(AmountRead(n), ReadIn(n)) /\ ReadIn(n) = Lookup(ReadIn(n).code)
  BY <1>5, NotificationIsCredit DEF IInv, AmountRead, ReadIn
<1>6. ASSUME NEW n \in Notification, settings' = settings, settings # None,
             \/ Answers(n, "invalid")
             \/ Valid(n) /\ Prints(n, "queued", AmountOf(n).amount, CurrencyOf(n))
      PROVE  PrintedReadsBack'
  <2>1. CASE Answers(n, "invalid")
    BY <1>2, <2>1, AnswersIs
  <2>2. CASE Valid(n) /\ Prints(n, "queued", AmountOf(n).amount, CurrencyOf(n))
    <3> DEFINE a == AmountRead(n)
               code == ReadIn(n).code
    <3>1. Kept(a) /\ Equal(a, a)
      BY <1>5, <1>6, <2>2, ScaleAssumption DEF Kept, Credit, Equal
    <3>2. last'.to = n /\ last'.in = code /\ last'.shown = Format(a, Lookup(code))
      BY <1>5, <1>6, <2>2, PrintsIs
    <3> HIDE DEF a, code
    <3> QED
      BY <1>5, <1>6, <2>2, <3>1, <3>2, PrintsBack DEF a
  <2> QED
    BY <1>6, <2>1, <2>2
<1>7. ASSUME NEW v, settings' = settings, settings # None, Read(v), Process(v)
      PROVE  PrintedReadsBack'
  <2> DEFINE n == v.raw
             b == AmountRead(n)
  <2>1. n \in Notification /\ Valid(n) /\ Credit(v.amount) /\ Equal(v.amount, AmountOf(n).amount)
    BY <1>7 DEF Read
  <2>2. /\ b = AmountOf(n).amount /\ Credit(b) /\ ~TooLarge(b)
        /\ ~TooPrecise(b, ReadIn(n)) /\ ReadIn(n) = Lookup(ReadIn(n).code)
    BY <1>5, <1>7, <2>1
  <2> HIDE DEF b, n
  <2>3. ASSUME NEW a, Kept(a), Equal(a, v.amount)
        PROVE  Equal(a, b)
    <3>1. v.amount.exp \in -ColumnScale..0 /\ b.exp \in -ColumnScale..0
      BY <2>1, <2>2, ScaleAssumption DEF Credit
    <3> QED
      BY <2>1, <2>2, <2>3, <3>1, KeptAgree DEF Kept
  <2>4. ASSUME NEW a, Kept(a), Equal(a, v.amount), NEW code,
               last'.to = n, last'.in = code, last'.shown = Format(a, Lookup(code))
        PROVE  PrintedReadsBack'
    BY <1>7, <2>2, <2>3, <2>4, PrintsBack DEF b
  <2>5. ASSUME Fails(v)
        PROVE  PrintedReadsBack'
    BY <1>2, <2>5, AnswersIs DEF Fails
  <2>6. ASSUME Replay(v)
        PROVE  PrintedReadsBack'
    <3>1. PICK row \in ledger :
             \/ /\ SameRequest(row, v) /\ last'.shown = Format(row.amount, Lookup(row.currency))
                /\ last'.in = row.currency
             \/ last'.shown = <<>>
      BY <2>6, ReplayIs
    <3>2. last'.to = n
      BY <2>6, ReplayIs DEF n
    <3>3. Kept(row.amount)
      BY ScaleAssumption DEF IInv, LedgerSound, Kept
    <3>4. SameRequest(row, v) => Equal(row.amount, v.amount)
      BY DEF SameRequest, SameAmount
    <3> QED
      BY <1>2, <2>4, <3>1, <3>2, <3>3, <3>4
  <2>7. ASSUME NEW outcome, NEW currency, Stores(v, outcome, currency)
        PROVE  PrintedReadsBack'
    <3>1. PICK a \in {v.amount, Column(v.amount)} : Prints(v.raw, outcome, a, currency)
      BY <2>7 DEF Stores
    <3>2. /\ last'.to = n /\ last'.in = currency.code
          /\ last'.shown = Format(a, Lookup(currency.code))
      BY <2>7, <3>1, PrintsIs DEF Stores, n
    <3>3. Kept(a) /\ Equal(a, v.amount)
      BY <2>1, <3>1, ColumnOfCredit, ScaleAssumption DEF Kept, Credit, Equal
    <3> QED
      BY <2>4, <3>2, <3>3
  <2> QED
    BY <1>7, <2>5, <2>6, <2>7, ProcessEnds
<1>8. CASE UNCHANGED <<tables, last>> /\ last = NoAnswer
  <2>1. last' = NoAnswer
    BY <1>8
  <2> QED
    BY <1>2, <1>3, <2>1
<1> QED
  BY <1>1, <1>2, <1>3, <1>4, <1>6, <1>7, <1>8, StepAnswers

-----------------------------------------------------------------------------
(***************************************************************************)
(* What was meant.  Senders keep to the contract if their notifications    *)
(* are read as they mean them: AcceptsTheContract says so of the one last  *)
(* answered.  From there on it is the code that keeps it.                  *)
(***************************************************************************)

\* What is processed says what its sender meant.
LEMMA MeantIs ==
    ASSUME SettingsSound, settings # None, UNCHANGED settings, AcceptsTheContract',
           NEW v, Read(v), last'.to = v.raw, last'.answer # "invalid"
    PROVE  LET m == v.raw.means IN
           /\ m # None /\ v.customer = m.customer /\ v.ref = m.ref
           /\ v.currency.code = Meant(v.raw).currency /\ v.date = m.date
           /\ IsSuccessful(v.status) = m.settled
           /\ \A a : a.exp \in -ColumnScale..0 =>
                        (Equal(a, v.amount) <=> Equal(a, m.amount))
<1> DEFINE n == v.raw
           m == n.means
           b == AmountOf(n).amount
<1>1. n \in Notification /\ Valid(n) /\ last'.to = n
  BY DEF Read
<1>2. m # None /\ ReadAsMeant(n)'
  BY <1>1 DEF AcceptsTheContract, ToNotification
<1>3. ReadAsMeant(n)
  BY <1>2, SettingsStay DEF ReadAsMeant, IsSuccessful, successStatuses
<1>4. /\ Validate(n).customer = v.customer /\ Validate(n).ref = v.ref
      /\ Validate(n).amount = b /\ Validate(n).currency = v.currency
      /\ Validate(n).date = v.date /\ Validate(n).status = v.status
  BY DEF Read, Validate
<1>5. /\ v.customer = m.customer /\ v.ref = m.ref
      /\ v.currency.code = Meant(n).currency /\ v.date = m.date
      /\ IsSuccessful(v.status) = m.settled /\ Equal(b, m.amount)
  BY <1>3, <1>4 DEF ReadAsMeant
<1>6. /\ m.amount.exp \in -ColumnScale..0 /\ v.amount.exp \in -ColumnScale..0
      /\ b.exp \in -ColumnScale..0 /\ Equal(v.amount, b)
  <2>1. m.amount.exp \in -ColumnScale..0
    BY <1>1, <1>2, IntakeAssumption
  <2>2. Credit(v.amount) /\ Credit(b) /\ Equal(v.amount, b)
    BY <1>1, NotificationIsCredit DEF Read
  <2> HIDE DEF b, m, n
  <2>3. v.amount.exp \in -ColumnScale..0 /\ b.exp \in -ColumnScale..0
    BY <2>2, ScaleAssumption DEF Credit
  <2> QED
    BY <2>1, <2>2, <2>3
<1> HIDE DEF b, m, n
<1>7. ASSUME NEW a, a.exp \in -ColumnScale..0
      PROVE  Equal(a, v.amount) <=> Equal(a, m.amount)
  BY <1>5, <1>6, <1>7, KeptAgree
<1> QED
  BY <1>2, <1>5, <1>7 DEF m, n

\* A repeat is answered by what its sender meant.
LEMMA SpellingStep ==
    ASSUME IInv, SpellingsAgree, [Next]_vars, AcceptsTheContract'
    PROVE  SpellingsAgree'
<1>1. CASE UNCHANGED <<tables, last>> /\ UNCHANGED settings
  BY <1>1, SettingsStay DEF SpellingsAgree, ToNotification, tables, Meant
<1>2. CASE last' = NoAnswer
  BY <1>2, NoAnswerIs DEF SpellingsAgree
<1>3. ASSUME NEW r \in Registration, Register(r)
      PROVE  SpellingsAgree'
  <2>1. last'.to = r
    <3>1. CASE Answers(r, "invalid") \/ Answers(r, "error") \/ Answers(r, "conflict")
      BY <3>1, AnswersIs
    <3>2. CASE Prints(r, "created", Column(Terms(r).principal), Terms(r).currency)
      BY <3>2, PrintsIs
    <3> QED
      BY <1>3, <3>1, <3>2 DEF Register
  <2> QED
    BY <2>1, IntakeAssumption DEF SpellingsAgree, ToNotification
<1>4. ASSUME NEW n \in Notification,
             \/ Answers(n, "invalid")
             \/ Prints(n, "queued", AmountOf(n).amount, CurrencyOf(n))
      PROVE  SpellingsAgree'
  <2>1. last'.answer \in {"invalid", "queued"}
    BY <1>4, AnswersIs, PrintsIs
  <2> QED
    BY <2>1 DEF SpellingsAgree
<1>5. ASSUME NEW v, settings' = settings, settings # None, Read(v), Process(v)
      PROVE  SpellingsAgree'
  <2>1. ASSUME Fails(v)
        PROVE  SpellingsAgree'
    BY <2>1, AnswersIs DEF Fails, SpellingsAgree
  <2>2. ASSUME NEW outcome, NEW currency, Stores(v, outcome, currency)
        PROVE  SpellingsAgree'
    <3>1. last'.answer \in {"applied", "unmatched", "ignored"}
      BY <2>2, PrintsIs DEF Stores
    <3> QED
      BY <3>1 DEF SpellingsAgree
  <2>3. ASSUME Replay(v)
        PROVE  SpellingsAgree'
    <3> DEFINE m == v.raw.means
    <3>1. PICK row \in ledger :
             /\ row.ref = v.ref
             /\ \/ last'.answer = "duplicate" /\ SameRequest(row, v)
                \/ last'.answer = "conflict" /\ ~SameRequest(row, v)
      BY <2>3, ReplayIs
    <3>2. last'.to = v.raw /\ last'.answer # "invalid" /\ ledger' = ledger
      BY <2>3, <3>1, ReplayIs DEF tables
    <3>3. /\ v.customer = m.customer /\ v.ref = m.ref
          /\ v.currency.code = Meant(v.raw).currency
          /\ row.amount.exp \in -ColumnScale..0 =>
                (Equal(row.amount, v.amount) <=> Equal(row.amount, m.amount))
      BY <1>5, <3>2, MeantIs DEF IInv
    <3>4. row.amount.exp \in -ColumnScale..0
      BY ScaleAssumption DEF IInv, LedgerSound
    <3> HIDE DEF m
    <3>5. SameRequest(row, v) <=> /\ row.customer = m.customer
                                  /\ Equal(row.amount, m.amount)
                                  /\ row.currency = Meant(v.raw).currency
      BY <3>3, <3>4 DEF SameRequest, SameAmount
    <3>6. Meant(v.raw)' = Meant(v.raw)
      BY <1>5, SettingsStay
    <3> QED
      BY <3>1, <3>2, <3>3, <3>5, <3>6 DEF SpellingsAgree, m
  <2> QED
    BY <1>5, <2>1, <2>2, <2>3, ProcessEnds
<1>6. CASE UNCHANGED <<tables, last>> /\ last = NoAnswer
  BY <1>2, <1>6
<1> QED
  BY <1>1, <1>2, <1>3, <1>4, <1>5, <1>6, StepAnswers

\* The row says what the sender of n meant.
SaysWhat(row, n) ==
    /\ n.means # None
    /\ row.ref = n.means.ref /\ row.customer = n.means.customer
    /\ Equal(row.amount, n.means.amount) /\ row.date = n.means.date
    /\ row.outcome = "applied" => n.means.settled
    /\ row.outcome = "ignored" => ~n.means.settled
    /\ row.outcome # "applied" => row.currency = Meant(n).currency

\* A row that is stored says what its sender meant.
LEMMA LedgerStep ==
    ASSUME IInv, LedgerIsMeant, [Next]_vars, AcceptsTheContract'
    PROVE  LedgerIsMeant'
<1>1. ASSUME UNCHANGED settings, NEW row \in ledger
      PROVE  \E n \in Notification : SaysWhat(row, n)'
  <2>1. PICK n \in Notification : SaysWhat(row, n)
    BY DEF LedgerIsMeant, SaysWhat
  <2>2. SaysWhat(row, n)'
    BY <1>1, <2>1, SettingsStay DEF SaysWhat
  <2> QED
    BY <2>2
<1>2. ASSUME UNCHANGED settings, ledger' = ledger
      PROVE  LedgerIsMeant'
  BY <1>1, <1>2 DEF LedgerIsMeant, SaysWhat
<1>3. ASSUME ledger = {}, ledger' = ledger
      PROVE  LedgerIsMeant'
  BY <1>3 DEF LedgerIsMeant
<1>4. ASSUME NEW v, settings' = settings, settings # None, Read(v), Process(v)
      PROVE  LedgerIsMeant'
  <2>1. ASSUME Fails(v) \/ Replay(v)
        PROVE  LedgerIsMeant'
    BY <1>2, <1>4, <2>1, ReplayIs DEF Fails, tables
  <2>2. ASSUME NEW outcome, NEW currency, Stores(v, outcome, currency)
        PROVE  LedgerIsMeant'
    <3> DEFINE n == v.raw
    <3>1. PICK row : row = RowOf(v, outcome, currency)
      OBVIOUS
    <3>2. /\ row.customer = v.customer /\ row.ref = v.ref /\ row.currency = currency.code
          /\ row.amount = Column(v.amount) /\ row.date = v.date /\ row.outcome = outcome
      BY <3>1 DEF RowOf
    <3>3. last'.to = n /\ last'.answer # "invalid"
      BY <2>2, PrintsIs DEF Stores
    <3>4. /\ n.means # None /\ v.customer = n.means.customer /\ v.ref = n.means.ref
          /\ v.currency.code = Meant(n).currency /\ v.date = n.means.date
          /\ IsSuccessful(v.status) = n.means.settled
          /\ row.amount.exp \in -ColumnScale..0 =>
                (Equal(row.amount, v.amount) <=> Equal(row.amount, n.means.amount))
      BY <1>4, <3>3, MeantIs DEF IInv
    <3>5. row.amount.exp \in -ColumnScale..0 /\ Equal(row.amount, v.amount)
      BY <1>4, <3>2, ColumnOfCredit, ScaleAssumption DEF Read
    <3>6. n \in Notification
      BY <1>4 DEF Read
    <3> HIDE DEF n
    <3>7. SaysWhat(row, n)
      BY <2>2, <3>2, <3>4, <3>5 DEF SaysWhat, Stores
    <3>8. SaysWhat(row, n)'
      BY <1>4, <3>7, SettingsStay DEF SaysWhat
    <3>9. ledger' = ledger \cup {row}
      BY <2>2, <3>1 DEF Stores
    <3>10. \A x \in ledger' : \E y \in Notification : SaysWhat(x, y)'
      BY <1>1, <1>4, <3>6, <3>8, <3>9
    <3> QED
      BY <3>10 DEF LedgerIsMeant, SaysWhat
  <2> QED
    BY <1>4, <2>1, <2>2, ProcessEnds
<1> QED
  BY <1>2, <1>3, <1>4, StepAnswers DEF tables, Register

-----------------------------------------------------------------------------
(***************************************************************************)
(* The theorems.                                                           *)
(***************************************************************************)

\* The invariant holds in every behaviour.
THEOREM Invariant == Spec => []IInv
BY InitInv, NextInv, PTL DEF Spec

\* Tables and settings hold what their columns and checks say: positive amounts in
\* a column's units, terms in range, one row per reference, ids used once.
THEOREM TypeInvariant == Spec => []TypeOK
BY Invariant, TypesFollow, PTL

\* A notification that was answered "queued" is on one of the streams, or its own
\* credit is in the ledger, until MaxLen newer entries are behind it or Redis has
\* lost its data: the worker puts aside what it cannot store.
THEOREM PromiseInvariant == Spec => []PromisedIsKept
<1>1. IInv => PromisedIsKept
  BY DEF IInv, PromiseSound, PromisedIsKept, RowKept
<1> QED
  BY <1>1, Invariant, PTL

\* Settings the service starts with are good for a registration that leaves the
\* terms to them, unless the default term is longer than a deployment may be.
THEOREM RegistrationInvariant == Spec => []StandardTermsRegister
<1>1. IInv => StandardTermsRegister
  BY DEF IInv
<1> QED
  BY <1>1, Invariant, PTL

\* The database refuses what passed validation only for what nothing checks: a text
\* or a body that Postgres does not take, a currency, a status or a name longer than
\* its column, or a balance that outgrows its own.
THEOREM ColumnsInvariant == Spec => []OnlyUncheckedFails
<1>1. Init => OnlyUncheckedFails
  BY NoAnswerIs DEF Init, OnlyUncheckedFails
<1> QED
  BY <1>1, UncheckedStep, Invariant, PTL DEF Spec

\* An amount that is printed in the currency it was read in reads back as it was
\* read, through the queue, the columns and the answer to a repeat.
THEOREM PrintedInvariant == Spec => []PrintedReadsBack
<1>1. Init => PrintedReadsBack
  BY NoAnswerIs DEF Init, PrintedReadsBack
<1> QED
  BY <1>1, PrintedStep, Invariant, PTL DEF Spec

\* If senders keep to the contract, every row of the ledger says what one of them
\* meant: nothing between reading and storing changes it.
THEOREM LedgerMeant == Spec /\ []AcceptsTheContract => []LedgerIsMeant
<1>1. Init => LedgerIsMeant
  BY DEF Init, LedgerIsMeant
<1> QED
  BY <1>1, LedgerStep, Invariant, PTL DEF Spec

\* If senders keep to the contract, a reference that was used is answered by what
\* is meant, not by how it is spelled.
THEOREM SpellingsMeant == Spec /\ []AcceptsTheContract => []SpellingsAgree
<1>1. Init => SpellingsAgree
  BY NoAnswerIs DEF Init, SpellingsAgree
<1> QED
  BY <1>1, SpellingStep, Invariant, PTL DEF Spec
==============================================================================
