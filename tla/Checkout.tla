------------------------------ MODULE Checkout ------------------------------
(***************************************************************************)
(* Ordering a payment: the payment page of apps/web-landing, which orders  *)
(* one with its quote on display and polls it for a minute, and POST       *)
(* /transactions (transactions.controller.ts, transactions.service.ts),    *)
(* which answers a request with a known idempotency key from the record    *)
(* kept for that key.  What becomes of a row afterwards is told by         *)
(* TransactionProcessor; here it only moves on, as RowMoves says.  The     *)
(* page of apps/web orders through a route the API does not have and is    *)
(* always refused.                                                         *)
(***************************************************************************)
EXTENDS RowMoves

CONSTANTS
    Requests,       \* requests to POST /transactions; a row goes by its request
    PageRequests,   \* those the page sends, always without a key
    Keys,           \* values of x-idempotency-key
    KeyOf,          \* the key of every other request
    NoRequest       \* no request, no row

VARIABLES
    handler,        \* what the handler of each request does next
    row,            \* transactions.status of the row a request made
    settled,        \* the rows that have been COMPLETED at some time
    given,          \* the row a request was answered with
    record,         \* api_idempotency_keys: the answer kept for each key
    screen,         \* the page's `step'
    order,          \* the request the page waits for
    overdue         \* a minute has passed since the page began to poll

checkoutVars == <<handler, row, settled, given, record, screen, order, overdue>>

Keyed == Requests \ PageRequests

\* What is known of the constants.
ASSUME CheckoutAssumption ==
    /\ PageRequests \subseteq Requests
    /\ KeyOf \in [Keyed -> Keys]
    /\ NoRequest \notin Requests

HandlerStage == {"idle", "lookup", "create", "log", "reward", "keep", "respond",
                 "answered", "failed"}

\* "confirming" and "left" are the code's "quote" and "enter" with the request
\* on its way (`busy', which disables both "Pay" and "Get quote").
Screen == {"enter", "quote", "confirming", "left", "processing", "done", "error"}
Ordering == {"confirming", "left"}

CheckoutTypeOK ==
    /\ handler \in [Requests -> HandlerStage]
    /\ row \in [Requests -> RowStatus]
    /\ settled \subseteq Requests
    /\ given \in [Requests -> Requests \cup {NoRequest}]
    /\ record \in [Keys -> Requests \cup {NoRequest}]
    /\ screen \in Screen
    /\ order \in PageRequests \cup {NoRequest}
    /\ overdue \in BOOLEAN

CheckoutInit ==
    /\ handler = [q \in Requests |-> "idle"]
    /\ row = [q \in Requests |-> "Absent"]
    /\ settled = {}
    /\ given = [q \in Requests |-> NoRequest]
    /\ record = [k \in Keys |-> NoRequest]
    /\ screen = "enter"
    /\ order = NoRequest
    /\ overdue = FALSE

pageOnly == <<screen, order, overdue>>

OrderGoto(q, s) == handler' = [handler EXCEPT ![q] = s]

Answer(q, r) ==
    /\ OrderGoto(q, "answered")
    /\ given' = [given EXCEPT ![q] = r]

-----------------------------------------------------------------------------
(* The handler.                                                            *)

ReceiveOrder(q) ==
    /\ q \in Keyed
    /\ handler[q] = "idle"
    /\ OrderGoto(q, "lookup")
    /\ UNCHANGED <<row, settled, given, record, pageOnly>>

Lookup(q) ==
    /\ handler[q] = "lookup"
    /\ LET kept == record[KeyOf[q]]
       IN IF kept # NoRequest
          THEN Answer(q, kept)
          ELSE OrderGoto(q, "create") /\ UNCHANGED given
    /\ UNCHANGED <<row, settled, record, pageOnly>>

\* The merchant is not approved, the wallet somebody else's, the code inactive
\* or the address missing; or the row is inserted.  The quote is made anew and
\* cannot fail: rates that cannot be fetched are the last ones or constants.
createTransaction(q) ==
    /\ handler[q] = "create"
    /\ \/ OrderGoto(q, "failed") /\ UNCHANGED row
       \/ OrderGoto(q, "log") /\ row' = [row EXCEPT ![q] = "CREATED"]
    /\ UNCHANGED <<settled, given, record, pageOnly>>

logCreated(q) ==
    /\ handler[q] = "log"
    /\ OrderGoto(q, "reward")
    /\ UNCHANGED <<row, settled, given, record, pageOnly>>

\* Mutant of createReward: the answer is kept after it has been given.
AnswerFirst(q) ==
    /\ handler[q] = "reward"
    /\ OrderGoto(q, "respond")
    /\ UNCHANGED <<row, settled, given, record, pageOnly>>

createReward(q) ==
    /\ handler[q] = "reward"
    /\ OrderGoto(q, IF q \in Keyed THEN "keep" ELSE "respond")
    /\ UNCHANGED <<row, settled, given, record, pageOnly>>

\* upsert with an empty update: the first answer kept stays.
keep(q) ==
    /\ handler[q] = "keep"
    /\ record' = [record EXCEPT ![KeyOf[q]] = IF @ = NoRequest THEN q ELSE @]
    /\ OrderGoto(q, "respond")
    /\ UNCHANGED <<row, settled, given, pageOnly>>

respond(q) ==
    /\ handler[q] = "respond"
    /\ Answer(q, q)
    /\ UNCHANGED <<row, settled, record, pageOnly>>

\* An await throws or the process goes down: the row may be there all the same.
ThrowOrder(q) ==
    /\ handler[q] \in {"lookup", "log", "reward", "keep", "respond"}
    /\ OrderGoto(q, "failed")
    /\ UNCHANGED <<row, settled, given, record, pageOnly>>

\* The processor, or whoever cancels or fails a payment, moves the row.
Proceed(q, status) ==
    /\ MayBecome(row[q], status)
    /\ row' = [row EXCEPT ![q] = status]
    /\ settled' = IF status = "COMPLETED" THEN settled \cup {q} ELSE settled
    /\ UNCHANGED <<handler, given, record, pageOnly>>

-----------------------------------------------------------------------------
(* The page.                                                               *)

Show(s) == screen' = s

resolveAndQuote ==
    /\ screen = "enter"
    /\ Show("quote")
    /\ UNCHANGED <<handler, row, settled, given, record, order, overdue>>

confirmPay(q) ==
    /\ screen = "quote"
    /\ q \in PageRequests /\ handler[q] = "idle"
    /\ OrderGoto(q, "create")
    /\ Show("confirming")
    /\ order' = q
    /\ UNCHANGED <<row, settled, given, record, overdue>>

\* The answer, or an error of the API, of the network or after ten seconds:
\* the request may still be at work then.  A user who has cancelled meanwhile is
\* brought back by it.
Confirmed ==
    /\ screen \in Ordering
    /\ \/ handler[order] = "answered" /\ Show("processing")
       \/ Show("error")
    /\ overdue' = FALSE
    /\ UNCHANGED <<handler, row, settled, given, record, order>>

\* Mutants of pollTransaction: no row is given up, any final row is a success.
PollForever ==
    /\ screen = "processing"
    /\ CASE row[given[order]] = "COMPLETED" -> Show("done")
         [] row[given[order]] \in {"FAILED", "CANCELLED"} -> Show("error")
         [] OTHER -> Show("processing")
    /\ UNCHANGED <<handler, row, settled, given, record, order, overdue>>

PollUntilFinal ==
    /\ screen = "processing"
    /\ CASE row[given[order]] \in {"COMPLETED", "FAILED", "CANCELLED"} -> Show("done")
         [] OTHER -> Show(IF overdue THEN "error" ELSE "processing")
    /\ UNCHANGED <<handler, row, settled, given, record, order, overdue>>

\* One reading of the row; the timer ends with the page's `processing'.
pollTransaction ==
    /\ screen = "processing"
    /\ CASE row[given[order]] = "COMPLETED" -> Show("done")
         [] row[given[order]] \in {"FAILED", "CANCELLED"} -> Show("error")
         [] OTHER -> Show(IF overdue THEN "error" ELSE "processing")
    /\ UNCHANGED <<handler, row, settled, given, record, order, overdue>>

\* A reading that fails is repeated, but not after the minute.
PollFails ==
    /\ screen = "processing"
    /\ overdue
    /\ Show("error")
    /\ UNCHANGED <<handler, row, settled, given, record, order, overdue>>

Overdue ==
    /\ screen = "processing"
    /\ overdue' = TRUE
    /\ UNCHANGED <<handler, row, settled, given, record, screen, order>>

\* "Cancel" stays enabled while the request is on its way: the page forgets the
\* quote, the request goes on.
reset ==
    /\ \/ screen = "confirming" /\ Show("left") /\ UNCHANGED order
       \/ screen \in {"quote", "done", "error"} /\ Show("enter") /\ order' = NoRequest
    /\ UNCHANGED <<handler, row, settled, given, record, overdue>>

-----------------------------------------------------------------------------
Handle(q) ==
    Lookup(q) \/ createTransaction(q) \/ logCreated(q) \/ createReward(q) \/ keep(q) \/ respond(q)
    \/ ThrowOrder(q)

Page ==
    \/ resolveAndQuote \/ Confirmed \/ pollTransaction \/ PollFails \/ Overdue \/ reset
    \/ \E q \in PageRequests : confirmPay(q)

CheckoutNext ==
    \/ \E q \in Requests : ReceiveOrder(q) \/ Handle(q)
    \/ \E q \in Requests, status \in RowStatus : Proceed(q, status)
    \/ Page

CheckoutSpec == CheckoutInit /\ [][CheckoutNext]_checkoutVars

\* The browser's timers fire: a request ends after ten seconds and the page
\* goes on polling while a minute passes.
PageFairness ==
    WF_checkoutVars(Confirmed) /\ WF_checkoutVars(pollTransaction) /\ WF_checkoutVars(Overdue)

-----------------------------------------------------------------------------
\* A request that is looked up when another with its key has been answered
\* orders nothing and gets what is kept for the key: a client that repeats an
\* answered request does not pay twice (requests that overlap do, and so does
\* one repeated after a failure between the insert and the upsert).
AnsweredIsNotRepeated ==
    [][\A p, q \in Keyed :
          /\ KeyOf[p] = KeyOf[q]
          /\ handler[q] = "answered"
          /\ handler[p] = "lookup"
          => handler'[p] # "create" /\ record'[KeyOf[q]] = record[KeyOf[q]]]_checkoutVars

\* The page says "done" of a payment that has been completed, whatever it gave
\* up, ordered again or cancelled before and whoever writes the row since.
DoneMeansPaid == screen = "done" => order \in settled

\* A payment the user has confirmed leaves the page's waiting screens: it is
\* shown to be done, to have failed or to be overdue, and so is one whose quote
\* the user cancelled when the request was on its way.
WaitingEnds == screen \in Ordering \cup {"processing"} ~> screen \in {"done", "error"}
=============================================================================
