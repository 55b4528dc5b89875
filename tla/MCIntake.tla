------------------------------ MODULE MCIntake ------------------------------
(***************************************************************************)
(* A small instance of Intake: four digits before the point, and each      *)
(* amount, name, status and date in several spellings.                     *)
(***************************************************************************)
EXTENDS Intake, TLC

Word(w)    == [word |-> w, dressed |-> FALSE]
Dressed(w) == [word |-> w, dressed |-> TRUE]

MCLength ==
    [w \in {"ada", "bike", "NGN", "KWD", "JPY"} |-> 4]
    @@ [w \in {"ref-001", "ref-002", "COMPLETE", "PENDING"} |-> 7]
    @@ ("" :> 0 @@ "ref" :> 3 @@ "TICKERCOIN" :> 10 @@ "long status" :> 33
        @@ "account" :> 10 @@ "long name" :> 65)

(***************************************************************************)
(* Environments: a sound one, with a queue that may fail, and what Load    *)
(* refuses.  The last has no broker, so no queue, and default terms that   *)
(* no registration can use, see StandardTermsRegister.                     *)
(***************************************************************************)
Inline ==
    [complete |-> TRUE, currency |-> Word("NGN"), principal |-> <<"1", "0", "0", ".", "5">>,
     term |-> 50, zone |-> 1, port |-> 8080, conns |-> 10, inflight |-> 10, redis |-> FALSE,
     queue |-> FALSE, workers |-> 0, batch |-> 0, production |-> FALSE, secret |-> FALSE]

Queued == [Inline EXCEPT !.redis = TRUE, !.queue = TRUE, !.workers = 2, !.batch = 8]

MCEnvironment ==
    {Queued,
     [Inline EXCEPT !.complete = FALSE],
     [Inline EXCEPT !.principal = <<"0">>],
     [Inline EXCEPT !.principal = <<"1", ".", "0", "0", "5">>],
     [Inline EXCEPT !.term = 0],
     [Inline EXCEPT !.port = 65536],
     [Inline EXCEPT !.production = TRUE],
     [Queued EXCEPT !.workers = 0],
     [Inline EXCEPT !.currency = Dressed("KWD"), !.term = 521,
                     !.queue = TRUE]}

(***************************************************************************)
(* Notifications.                                                          *)
(***************************************************************************)
AdaPays(ref, amount, date, currency, settled) ==
    [customer |-> "ada", ref |-> ref, amount |-> amount, date |-> date,
     currency |-> currency, settled |-> settled]

\* Ada's ten and a half, at 5 UTC, in the default currency or in naira.
First == AdaPays("ref-001", Decimal(105, -1), 5, "", TRUE)

Plainly ==
    [customer |-> Word("ada"), ref |-> Word("ref-001"), currency |-> Absent,
     amount |-> <<"1", "0", ".", "5">>, status |-> Word("COMPLETE"), storable |-> TRUE,
     date |-> [clock |-> 6, offset |-> None], means |-> First]

Good ==
    {Plainly,
     [Plainly EXCEPT !.customer = Dressed("ada"), !.ref = Dressed("ref-001"),
                     !.currency = Dressed("NGN"), !.status = Dressed("COMPLETE"),
                     !.amount = <<"naira", "0", "1", "0", " ", ".", "5", "0">>,
                     !.date = [clock |-> 3, offset |-> -2],
                     !.means = [First EXCEPT !.currency = "NGN"]],
     \* another reference for three credits, the first not settled at first
     [Plainly EXCEPT !.ref = Word("ref-002"), !.status = Word("PENDING"),
                     !.amount = <<"+", "1", ",", "0", "5", "0", ".">>,
                     !.means = AdaPays("ref-002", Decimal(1050, 0), 5, "", FALSE)],
     [Plainly EXCEPT !.ref = Word("ref-002"), !.currency = Word("NGN"),
                     !.amount = <<"NGN", "1", "0", "5", "0", ".", "0", "0">>,
                     !.means = AdaPays("ref-002", Decimal(1050, 0), 5, "NGN", TRUE)],
     [Plainly EXCEPT !.ref = Word("ref-002"), !.currency = Word("KWD"),
                     !.amount = <<"KWD", "KD", ".", "2", "3", "4">>,
                     !.means = AdaPays("ref-002", Decimal(234, -3), 5, "KWD", TRUE)],
     [Plainly EXCEPT !.ref = Word("ref-002"), !.currency = Word("TICKERCOIN"),
                     !.amount = <<"9", "9", "9", "9", ".", "9">>,
                     !.means = AdaPays("ref-002", Decimal(99999, -1), 5, "TICKERCOIN", TRUE)],
     [Plainly EXCEPT !.status = Word("long status"),
                     !.means = AdaPays("ref-001", Decimal(105, -1), 5, "", FALSE)],
     \* with \u0000 in a field that nobody reads
     [Plainly EXCEPT !.storable = FALSE]}

Malformed ==
    {[Plainly EXCEPT !.amount = amount, !.currency = Word("NGN"), !.means = None] :
        amount \in {<<".">>, <<"0", ".", "0">>, <<"-", "5">>, <<"$", "5">>,
                    <<"1", ".", "0", "0", "0">>, <<"1", "0", "0", "0", "0">>,
                    <<"1", ".", "0", ".", "5">>}}
    \cup {[Plainly EXCEPT !.ref = Word("ref"), !.means = None],
          [Plainly EXCEPT !.customer = Dressed(""), !.means = None],
          [Plainly EXCEPT !.customer = Word("long name"), !.means = None],
          [Plainly EXCEPT !.status = Dressed(""), !.means = None],
          [Plainly EXCEPT !.date = None, !.means = None]}

MCNotification == Good \cup Malformed

(***************************************************************************)
(* Registrations.                                                          *)
(***************************************************************************)
Standard ==
    [customer |-> Word("ada"), currency |-> Absent, asset |-> "", type |-> "bike",
     account |-> "account", principal |-> <<>>, term |-> 0, start |-> TRUE,
     storable |-> TRUE, means |-> None]

MCRegistration ==
    {Standard,
     [Standard EXCEPT !.customer = Dressed("ada"), !.account = "", !.currency = Dressed("KWD"),
                      !.principal = <<"K", "1", ".", "5">>, !.means = None],
     [Standard EXCEPT !.account = "", !.currency = Dressed("KWD"),
                      !.principal = <<"KD", "1", ".", "2", "3", "4">>, !.term = 520,
                      !.means = [amount |-> Decimal(1234, -3), currency |-> "KWD"]],
     [Standard EXCEPT !.currency = Dressed(""), !.account = "", !.principal = <<"1", "0">>,
                      !.means = [amount |-> Decimal(10, 0), currency |-> ""]],
     [Standard EXCEPT !.currency = Word("JPY")],
     [Standard EXCEPT !.term = 521],
     [Standard EXCEPT !.start = FALSE],
     [Standard EXCEPT !.storable = FALSE],
     [Standard EXCEPT !.customer = Dressed("")],
     [Standard EXCEPT !.principal = <<"0">>],
     [Standard EXCEPT !.customer = Word("long name"), !.account = ""]}
=============================================================================
