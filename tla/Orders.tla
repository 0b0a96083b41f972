------------------------------- MODULE Orders -------------------------------
(***************************************************************************)
(* The leads component (OrdersService): bookings of fleets, their          *)
(* approval, their invoices at the payment gateway and their ledger rows,  *)
(* composed with the surveys component that owns the two requests of every *)
(* order.                                                                  *)
(*                                                                         *)
(* A Worker serves one request of the orders controller, a Job one run of  *)
(* pgCallback.  Nothing runs in a database transaction, so a handler is    *)
(* cut at every await that reads or writes shared state.  What it read     *)
(* earlier is in handler[w].row and is written back by the last save.      *)
(*                                                                         *)
(* The payment gateway and the ledger are outside the repository: they are *)
(* modelled from the calls the service makes.  A total stands for the      *)
(* priced items, which Prices has; StatusCounts has the cached counts.     *)
(* Mails are left out.                                                     *)
(***************************************************************************)
EXTENDS Surveys, Integers

CONSTANTS
  Fleet, Customer,
  Day,           \* start dates, in days
  Duration,      \* lengths of a booking; the DTO has a maximum, no minimum
  Today,
  Total,         \* grand totals, each standing for one list of priced items
  Invoice,       \* identities of the gateway's invoices
  Worker,        \* requests the orders controller serves at the same time
  Job,           \* runs of pgCallback at the same time
  Ops,           \* the operations the environment uses, see Operation
  PgMoves        \* the payment states the gateway reaches

Operation == {"create_customer", "create_admin", "update", "accept", "reject", "remove"}
PgStatus == {"unpaid", "partially paid", "paid", "overdue"}

ASSUME OrderConstants ==
  /\ Day \subseteq Int /\ Duration \subseteq Int /\ Today \in Int /\ Total \subseteq Nat
  /\ None \notin Invoice
  /\ Ops \subseteq Operation
  /\ PgMoves \subseteq PgStatus \ {"unpaid"}

VARIABLES
  orders,        \* the leads table; the key is the invoice number as well
  statusLog,     \* the status of the latest order_status_logs row
  ledger,        \* the ledger row of an order
  invoices,      \* the gateway's invoices
  callbacks,     \* pgCallback calls that wait for their ten seconds
  handler,       \* what each worker holds between two awaits
  job            \* what each run of pgCallback holds between two awaits

orderVars == <<orders, statusLog, ledger, invoices, callbacks, handler, job>>
vars == <<surveyVars, orderVars>>

-----------------------------------------------------------------------------
(* Rows and handlers *)

ApprovalStatus == {"pending", "accepted", "rejected"}
PaymentStatus == {"pending", "partially_paid", "done", "failed"}

OrderDto == [fleet : Fleet, start : Day, duration : Duration,
             customer : Customer, total : Total]

OrderRow == [fleet : Fleet, start : Day, duration : Duration,
             customer : Customer, total : Total,
             status : ApprovalStatus, payment : PaymentStatus,
             external : Invoice \cup {None}]

LedgerRow == [total : Total, payment : PaymentStatus]

\* settled: the invoice has been paid in full at some time.
InvoiceRow == [number : Order, customer : Customer, total : Total,
               status : PgStatus, settled : BOOLEAN, live : BOOLEAN]

Phase == {"idle",
          "create", "insert", "create_ledger",
          "update", "delete_invoice", "new_invoice", "change_invoice",
          "log_status", "update_ledger", "save",
          "reject", "log_reject",
          "remove", "remove_invoice", "remove_order", "remove_requests", "remove_ledger"}

Handler == [phase : Phase, order : Order \cup {None}, dto : OrderDto \cup {None},
            accept : BOOLEAN, row : OrderRow \cup {None}, retry : 0..3]

IdleHandler == [phase |-> "idle", order |-> None, dto |-> None,
                accept |-> FALSE, row |-> None, retry |-> 0]

JobState == [phase : {"idle", "lookup", "apply", "ledger"},
             invoice : Invoice \cup {None}, number : Order \cup {None},
             seen : PgStatus \cup {None},
             order : Order \cup {None}, row : OrderRow \cup {None}]

IdleJob == [phase |-> "idle", invoice |-> None, number |-> None,
            seen |-> None, order |-> None, row |-> None]

Callback == [invoice : Invoice, number : Order \cup {None}]

ASSUME NoneIsNoRow == None \notin OrderRow \cup LedgerRow \cup InvoiceRow

\* Variant: the status is left to the column's default, which is none.
NewRowWithoutStatus(dto, status) ==
  [fleet |-> dto.fleet, start |-> dto.start, duration |-> dto.duration,
   customer |-> dto.customer, total |-> dto.total,
   status |-> None, payment |-> "pending", external |-> None]

NewRow(dto, status) ==
  [fleet |-> dto.fleet, start |-> dto.start, duration |-> dto.duration,
   customer |-> dto.customer, total |-> dto.total,
   status |-> status, payment |-> "pending", external |-> None]

\* The columns update assigns from the DTO; status, payment and invoice stay
\* what the handler read or got.
WithDto(row, dto) ==
  [row EXCEPT !.fleet = dto.fleet, !.start = dto.start, !.duration = dto.duration,
              !.customer = dto.customer, !.total = dto.total]

Init ==
  /\ SurveysInit
  /\ orders = [o \in Order |-> None]
  /\ statusLog = [o \in Order |-> None]
  /\ ledger = [o \in Order |-> None]
  /\ invoices = [i \in Invoice |-> None]
  /\ callbacks = {}
  /\ handler = [w \in Worker |-> IdleHandler]
  /\ job = [j \in Job |-> IdleJob]

Become(w, h) == handler' = [handler EXCEPT ![w] = h]
Proceed(w, phase) == handler' = [handler EXCEPT ![w].phase = phase]
Return(w) == Become(w, IdleHandler)

-----------------------------------------------------------------------------
(* Fleet availability *)

\* Variant: the end of the requested period is compared with the start only.
StartsWithin(s1, d1, s2, d2) == s1 >= s2 /\ s1 < s2 + d2

Overlap(s1, d1, s2, d2) == s1 < s2 + d2 /\ s1 + d1 > s2

\* The orders the query counts: the left join leaves deleted requests out, and
\* the condition on the joined status drops an order without a pick-up request.
Blocks(o) ==
  /\ o \in leads
  /\ orders[o].status # "rejected"
  /\ \E s \in Survey : /\ Live(s) /\ surveys[s].order = o
                       /\ surveys[s].type = "pick_up" /\ surveys[s].status # "done"

\* Variant: only bookings that start on the same day are in the way.
AvailableSameStart(o, dto) ==
  \A b \in Order \ {o} :
    Blocks(b) => ~(orders[b].fleet = dto.fleet /\ orders[b].start = dto.start)

\* Variant: an order without an id is compared as well, and no row differs from null.
AvailableToNew(o, dto) ==
  o # None =>
    \A b \in Order \ {o} :
      Blocks(b) => ~(/\ orders[b].fleet = dto.fleet
                     /\ Overlap(orders[b].start, orders[b].duration, dto.start, dto.duration))

\* The fleet is free for the order o, or for a new order when o is None.
Available(o, dto) ==
  \A b \in Order \ {o} :
    Blocks(b) => ~(/\ orders[b].fleet = dto.fleet
                   /\ Overlap(orders[b].start, orders[b].duration, dto.start, dto.duration))

-----------------------------------------------------------------------------
(* Payment gateway *)

PgCreate(i, o, dto) ==
  /\ invoices[i] = None
  /\ i = FirstOf({free \in Invoice : invoices[free] = None})
  /\ invoices' = [invoices EXCEPT ![i] =
       [number |-> o, customer |-> dto.customer, total |-> dto.total,
        status |-> "unpaid", settled |-> FALSE, live |-> TRUE]]

PgDelete(i) == invoices' = [invoices EXCEPT ![i].live = FALSE]

PgLive(i) == i # None /\ invoices[i] # None /\ invoices[i].live

\* A larger total leaves a paid invoice partially paid.
PgUpdate(i, dto) ==
  invoices' = [invoices EXCEPT
    ![i].customer = dto.customer,
    ![i].total = dto.total,
    ![i].status = IF @ = "paid" /\ dto.total > invoices[i].total THEN "partially paid" ELSE @]

PgNext(status) ==
  CASE status = "unpaid"         -> {"partially paid", "paid", "overdue"}
    [] status = "partially paid" -> {"paid", "overdue"}
    [] status = "overdue"        -> {"paid"}
    [] status = "paid"           -> {}

\* The gateway reports every change to both callback endpoints: one call has
\* the invoice and its number, the other the invoice only.
PgStatusChange(i, status) ==
  /\ invoices[i] # None
  /\ invoices[i].live
  /\ status \in PgMoves \cap PgNext(invoices[i].status)
  /\ invoices' = [invoices EXCEPT ![i].status = status,
                                  ![i].settled = @ \/ status = "paid"]
  /\ callbacks' = callbacks \cup {[invoice |-> i, number |-> invoices[i].number],
                                  [invoice |-> i, number |-> None]}
  /\ UNCHANGED <<surveyVars, orders, statusLog, ledger, handler, job>>

-----------------------------------------------------------------------------
(* createCustomerOrder, createAdminOrder, createOrder *)

\* Invoice numbers are taken to be new (they are drawn at random per second).
FreshNumber(o) ==
  /\ orders[o] = None
  /\ \A w \in Worker : handler[w].order # o
  /\ \A i \in Invoice : invoices[i] # None => invoices[i].number # o

CreateOrder(w, dto, admin) ==
  /\ (IF admin THEN "create_admin" ELSE "create_customer") \in Ops
  /\ handler[w] = IdleHandler
  /\ Available(None, dto)
  /\ dto.start >= Today
  /\ Become(w, [IdleHandler EXCEPT !.phase = IF admin THEN "create" ELSE "insert",
                                   !.dto = dto,
                                   !.row = NewRow(dto, IF admin THEN "accepted" ELSE "pending")])
  /\ UNCHANGED <<surveyVars, orders, statusLog, ledger, invoices, callbacks, job>>

CreateInvoice(w) ==
  /\ handler[w].phase = "create"
  /\ \E o \in Order, i \in Invoice :
       /\ FreshNumber(o)
       /\ PgCreate(i, o, handler[w].dto)
       /\ Become(w, [handler[w] EXCEPT !.phase = "insert", !.order = o, !.row.external = i])
  /\ UNCHANGED <<surveyVars, orders, statusLog, ledger, callbacks, job>>

\* Any error is taken for the one that is worth a retry (the condition assigns
\* the message).  The call may have reached the gateway all the same.  A retry
\* draws a new number and checks the fleet no more.
CreateInvoiceFails(w) ==
  /\ "gateway" \in Failures
  /\ handler[w].phase = "create"
  /\ \/ UNCHANGED invoices
     \/ \E o \in Order, i \in Invoice : FreshNumber(o) /\ PgCreate(i, o, handler[w].dto)
  /\ \/ /\ handler[w].retry >= 3
        /\ Return(w)
     \/ /\ handler[w].retry < 3
        /\ handler' = [handler EXCEPT ![w].retry = @ + 1]
  /\ UNCHANGED <<surveyVars, orders, statusLog, ledger, callbacks, job>>

\* Variant: the number is drawn again when the order is saved.
RedrawnNumber(w, o) == FreshNumber(o)

\* The number is the one the invoice was made with, if there is an invoice.
SavedNumber(w, o) ==
  IF handler[w].order = None THEN FreshNumber(o) ELSE o = handler[w].order

InsertOrder(w) ==
  /\ handler[w].phase = "insert"
  /\ \E o \in Order, deliverer, collector \in RequestDriver :
       /\ SavedNumber(w, o)
       /\ InsertRequests(o, deliverer, collector)
       /\ leads' = leads \cup {o}
       /\ orders' = [orders EXCEPT ![o] = handler[w].row]
       /\ statusLog' = [statusLog EXCEPT ![o] = handler[w].row.status]
       /\ Become(w, [handler[w] EXCEPT !.phase = "create_ledger", !.order = o])
  /\ UNCHANGED <<surveyLogs, notified, call, ledger, invoices, callbacks, job>>

LedgerOf(row) == [total |-> row.total, payment |-> row.payment]

CreateLedger(w) ==
  /\ handler[w].phase = "create_ledger"
  /\ ledger' = [ledger EXCEPT ![handler[w].order] = LedgerOf(handler[w].row)]
  /\ Return(w)
  /\ UNCHANGED <<surveyVars, orders, statusLog, invoices, callbacks, job>>

-----------------------------------------------------------------------------
(* update, with which accept is the same *)

UpdateRead(w, o, accept) ==
  /\ (IF accept THEN "accept" ELSE "update") \in Ops
  /\ handler[w] = IdleHandler
  /\ o \in leads
  /\ Become(w, [IdleHandler EXCEPT !.phase = "update", !.order = o, !.accept = accept,
                                   !.row = orders[o]])
  /\ UNCHANGED <<surveyVars, orders, statusLog, ledger, invoices, callbacks, job>>

\* Variant: the total is not looked at.
DurationChanged(row, dto) == row.duration # dto.duration

ItemsChanged(row, dto) == row.total # dto.total \/ row.duration # dto.duration

AfterInvoice(accept) == IF accept THEN "log_status" ELSE "update_ledger"

AfterCheck(row, dto, accept) ==
  IF row.external = None THEN "new_invoice"
  ELSE IF ItemsChanged(row, dto) /\ dto.customer = row.customer THEN "change_invoice"
  ELSE IF dto.customer # row.customer THEN "delete_invoice"
  ELSE AfterInvoice(accept)

\* The request ends here when the fleet is taken or when the items of an order
\* that has an invoice get cheaper.
UpdateCheck(w, dto) ==
  /\ handler[w].phase = "update"
  /\ LET h == handler[w]
         next == AfterCheck(h.row, dto, h.accept) IN
       IF Available(h.order, dto) /\ ~(next = "change_invoice" /\ dto.total < h.row.total)
         THEN Become(w, [h EXCEPT !.phase = next, !.dto = dto])
         ELSE Return(w)
  /\ UNCHANGED <<surveyVars, orders, statusLog, ledger, invoices, callbacks, job>>

UpdateDeleteInvoice(w) ==
  /\ handler[w].phase = "delete_invoice"
  /\ PgLive(handler[w].row.external)
  /\ PgDelete(handler[w].row.external)
  /\ Proceed(w, "new_invoice")
  /\ UNCHANGED <<surveyVars, orders, statusLog, ledger, callbacks, job>>

UpdateNewInvoice(w) ==
  /\ handler[w].phase = "new_invoice"
  /\ \E i \in Invoice :
       /\ PgCreate(i, handler[w].order, handler[w].dto)
       /\ Become(w, [handler[w] EXCEPT !.phase = AfterInvoice(handler[w].accept),
                                       !.row.external = i])
  /\ UNCHANGED <<surveyVars, orders, statusLog, ledger, callbacks, job>>

\* The service calls pgCallback itself and does not wait for it.
UpdateInvoice(w) ==
  /\ handler[w].phase = "change_invoice"
  /\ PgLive(handler[w].row.external)
  /\ PgUpdate(handler[w].row.external, handler[w].dto)
  /\ callbacks' = callbacks \cup {[invoice |-> handler[w].row.external,
                                   number |-> handler[w].order]}
  /\ Proceed(w, AfterInvoice(handler[w].accept))
  /\ UNCHANGED <<surveyVars, orders, statusLog, ledger, job>>

\* The gateway no longer has the invoice: the request ends with its error.
UpdateInvoiceGone(w) ==
  /\ handler[w].phase \in {"delete_invoice", "change_invoice"}
  /\ ~PgLive(handler[w].row.external)
  /\ Return(w)
  /\ UNCHANGED <<surveyVars, orders, statusLog, ledger, invoices, callbacks, job>>

UpdateLogStatus(w) ==
  /\ handler[w].phase = "log_status"
  /\ statusLog' = [statusLog EXCEPT ![handler[w].order] = "accepted"]
  /\ Become(w, [handler[w] EXCEPT !.phase = "update_ledger", !.row.status = "accepted"])
  /\ UNCHANGED <<surveyVars, orders, ledger, invoices, callbacks, job>>

\* Variant: the ledger row is not touched.
LedgerKept(o, row) == ledger

\* updateByOrder changes the ledger row of the order, when it has one.
LedgerUpdated(o, row) ==
  IF ledger[o] = None THEN ledger ELSE [ledger EXCEPT ![o] = LedgerOf(row)]

UpdateLedger(w) ==
  /\ handler[w].phase = "update_ledger"
  /\ ledger' = LedgerUpdated(handler[w].order, WithDto(handler[w].row, handler[w].dto))
  /\ Proceed(w, "save")
  /\ UNCHANGED <<surveyVars, orders, statusLog, invoices, callbacks, job>>

\* Variant: only what the request changes is written.
SavedAssignedOnly(o, row, dto) ==
  [WithDto(orders[o], dto) EXCEPT !.external = row.external]

\* The entity is saved whole: every column that differs from the row is written.
Saved(o, row, dto) == WithDto(row, dto)

UpdateSave(w) ==
  /\ handler[w].phase = "save"
  /\ orders' = [orders EXCEPT ![handler[w].order] =
                  Saved(handler[w].order, handler[w].row, handler[w].dto)]
  /\ Return(w)
  /\ UNCHANGED <<surveyVars, statusLog, ledger, invoices, callbacks, job>>

-----------------------------------------------------------------------------
(* reject *)

Undecided(status) == status = "pending"

RejectRead(w, o) ==
  /\ "reject" \in Ops
  /\ handler[w] = IdleHandler
  /\ o \in leads
  /\ Undecided(orders[o].status)
  /\ Become(w, [IdleHandler EXCEPT !.phase = "reject", !.order = o])
  /\ UNCHANGED <<surveyVars, orders, statusLog, ledger, invoices, callbacks, job>>

RejectWrite(w) ==
  /\ handler[w].phase = "reject"
  /\ orders' = [orders EXCEPT ![handler[w].order].status = "rejected"]
  /\ Proceed(w, "log_reject")
  /\ UNCHANGED <<surveyVars, statusLog, ledger, invoices, callbacks, job>>

RejectLog(w) ==
  /\ handler[w].phase = "log_reject"
  /\ statusLog' = [statusLog EXCEPT ![handler[w].order] = "rejected"]
  /\ Return(w)
  /\ UNCHANGED <<surveyVars, orders, ledger, invoices, callbacks, job>>

-----------------------------------------------------------------------------
(* remove *)

RemoveRead(w, o) ==
  /\ "remove" \in Ops
  /\ handler[w] = IdleHandler
  /\ o \in leads
  /\ Become(w, [IdleHandler EXCEPT !.phase = "remove", !.order = o, !.row = orders[o]])
  /\ UNCHANGED <<surveyVars, orders, statusLog, ledger, invoices, callbacks, job>>

PaidAtGateway(i) == PgLive(i) /\ invoices[i].status = "paid"

\* An invoice the gateway does not have is no obstacle (its error is swallowed).
RemoveGetInvoice(w) ==
  /\ handler[w].phase = "remove"
  /\ LET i == handler[w].row.external IN
       \/ PaidAtGateway(i) /\ Return(w)
       \/ ~PaidAtGateway(i) /\ Proceed(w, IF PgLive(i) THEN "remove_invoice" ELSE "remove_order")
  /\ UNCHANGED <<surveyVars, orders, statusLog, ledger, invoices, callbacks, job>>

RemoveInvoice(w) ==
  /\ handler[w].phase = "remove_invoice"
  /\ PgDelete(handler[w].row.external)
  /\ Proceed(w, "remove_order")
  /\ UNCHANGED <<surveyVars, orders, statusLog, ledger, callbacks, job>>

RemoveOrder(w) ==
  /\ handler[w].phase = "remove_order"
  /\ leads' = leads \ {handler[w].order}
  /\ Proceed(w, "remove_requests")
  /\ UNCHANGED <<surveys, surveyLogs, notified, call,
                 orders, statusLog, ledger, invoices, callbacks, job>>

\* Variant: the requests of the order are kept.
RequestsKept(o) == surveys

\* Variant: the rows are deleted rather than marked.
RequestsErased(o) ==
  [s \in Survey |-> IF Live(s) /\ surveys[s].order = o THEN AbsentRow ELSE surveys[s]]

RequestsRemoved(o) == SoftDeleteRequests(o)

RemoveRequests(w) ==
  /\ handler[w].phase = "remove_requests"
  /\ surveys' = RequestsRemoved(handler[w].order)
  /\ Proceed(w, "remove_ledger")
  /\ UNCHANGED <<leads, surveyLogs, notified, call,
                 orders, statusLog, ledger, invoices, callbacks, job>>

RemoveLedger(w) ==
  /\ handler[w].phase = "remove_ledger"
  /\ ledger' = [ledger EXCEPT ![handler[w].order] = None]
  /\ Return(w)
  /\ UNCHANGED <<surveyVars, orders, statusLog, invoices, callbacks, job>>

\* A database or gateway error, or the process stops, between two awaits.
HandlerFails(w) ==
  /\ "handler" \in Failures
  /\ handler[w] # IdleHandler
  /\ Return(w)
  /\ UNCHANGED <<surveyVars, orders, statusLog, ledger, invoices, callbacks, job>>

-----------------------------------------------------------------------------
(* pgCallback *)

BecomeJob(j, state) == job' = [job EXCEPT ![j] = state]

\* After its delay the call asks the gateway for the invoice.
CallbackFetch(j, cb) ==
  /\ job[j] = IdleJob
  /\ cb \in callbacks
  /\ callbacks' = callbacks \ {cb}
  /\ IF PgLive(cb.invoice)
       THEN BecomeJob(j, [IdleJob EXCEPT !.phase = "lookup", !.invoice = cb.invoice,
                            !.number = cb.number, !.seen = invoices[cb.invoice].status])
       ELSE UNCHANGED job
  /\ UNCHANGED <<surveyVars, orders, statusLog, ledger, invoices, handler>>

\* Variant: a call without a number leaves the condition out.
FoundByNumberOnly(invoice, number) == {o \in leads : number # None => o = number}

\* The live order with the number or, when the call has none, with the invoice.
Found(invoice, number) ==
  {o \in leads : IF number # None THEN o = number ELSE orders[o].external = invoice}

CallbackLookup(j) ==
  /\ job[j].phase = "lookup"
  /\ LET found == Found(job[j].invoice, job[j].number) IN
       \/ \E o \in found :
            BecomeJob(j, [job[j] EXCEPT !.phase = "apply", !.order = o, !.row = orders[o]])
       \/ found = {} /\ BecomeJob(j, IdleJob)        \* order.id of null
  /\ UNCHANGED <<surveyVars, orders, statusLog, ledger, invoices, callbacks, handler>>

Payment(seen, payment) ==
  CASE seen = "partially paid" -> "partially_paid"
    [] seen = "paid"           -> "done"
    [] seen = "overdue"        -> "failed"
    [] seen = "unpaid"         -> payment

PaymentWritten(seen, payment) ==
  seen \in {"partially paid", "overdue"} \/ (seen = "paid" /\ payment # "done")

\* update writes the payment column and nothing else, of a deleted row as well.
CallbackApply(j) ==
  /\ job[j].phase = "apply"
  /\ LET payment == Payment(job[j].seen, job[j].row.payment) IN
       /\ orders' = IF PaymentWritten(job[j].seen, job[j].row.payment)
                      THEN [orders EXCEPT ![job[j].order].payment = payment]
                      ELSE orders
       /\ BecomeJob(j, [job[j] EXCEPT !.phase = "ledger", !.row.payment = payment])
  /\ UNCHANGED <<surveyVars, statusLog, ledger, invoices, callbacks, handler>>

CallbackLedger(j) ==
  /\ job[j].phase = "ledger"
  /\ ledger' = LedgerUpdated(job[j].order, job[j].row)
  /\ BecomeJob(j, IdleJob)
  /\ UNCHANGED <<surveyVars, orders, statusLog, invoices, callbacks, handler>>

CallbackFails(j) ==
  /\ "callback" \in Failures
  /\ job[j] # IdleJob
  /\ BecomeJob(j, IdleJob)
  /\ UNCHANGED <<surveyVars, orders, statusLog, ledger, invoices, callbacks, handler>>

\* The call never reaches the service, or the service stops during the delay.
CallbackLost(cb) ==
  /\ "callback" \in Failures
  /\ cb \in callbacks
  /\ callbacks' = callbacks \ {cb}
  /\ UNCHANGED <<surveyVars, orders, statusLog, ledger, invoices, handler, job>>

-----------------------------------------------------------------------------
(* The system *)

HandlerStarts(w) ==
  \/ \E dto \in OrderDto, admin \in BOOLEAN : CreateOrder(w, dto, admin)
  \/ \E o \in Order :
       \/ \E accept \in BOOLEAN : UpdateRead(w, o, accept)
       \/ RejectRead(w, o)
       \/ RemoveRead(w, o)

HandlerGoesOn(w) ==
  \/ CreateInvoice(w) \/ InsertOrder(w) \/ CreateLedger(w)
  \/ \E dto \in OrderDto : UpdateCheck(w, dto)
  \/ UpdateDeleteInvoice(w) \/ UpdateNewInvoice(w) \/ UpdateInvoice(w) \/ UpdateInvoiceGone(w)
  \/ UpdateLogStatus(w) \/ UpdateLedger(w) \/ UpdateSave(w)
  \/ RejectWrite(w) \/ RejectLog(w)
  \/ RemoveGetInvoice(w) \/ RemoveInvoice(w) \/ RemoveOrder(w)
  \/ RemoveRequests(w) \/ RemoveLedger(w)

JobGoesOn(j) == CallbackLookup(j) \/ CallbackApply(j) \/ CallbackLedger(j)

SurveyStep == ControllerNext /\ UNCHANGED orderVars

Next ==
  \/ \E w \in Worker :
       HandlerStarts(w) \/ HandlerGoesOn(w) \/ CreateInvoiceFails(w) \/ HandlerFails(w)
  \/ \E j \in Job :
       (\E cb \in callbacks : CallbackFetch(j, cb)) \/ JobGoesOn(j) \/ CallbackFails(j)
  \/ \E cb \in callbacks : CallbackLost(cb)
  \/ \E i \in Invoice, status \in PgMoves : PgStatusChange(i, status)
  \/ SurveyStep

Spec == Init /\ [][Next]_vars

-----------------------------------------------------------------------------
(* Environments: what the service leaves to its callers, spelled out *)

\* A handler that has found its fleet free and has not saved its order yet.
Claiming(w) ==
  handler[w].phase \in {"create", "insert", "delete_invoice", "new_invoice", "change_invoice",
                       "log_status", "update_ledger", "save"}

Conflict(a, b) ==
  a.fleet = b.fleet /\ Overlap(a.start, a.duration, b.start, b.duration)

\* Nothing keeps two claims apart between the check and the save.
NoRivalClaims ==
  \A v, w \in Worker :
    /\ v # w /\ Claiming(v) /\ Claiming(w)
    /\ handler[v].order # handler[w].order \/ handler[v].order = None
    => ~Conflict(handler[v].dto, handler[w].dto)

\* Requests are not re-typed, and two logs of one request do not race.
SurveysSettled ==
  \A s \in Survey :
    /\ surveys[s].state # "absent" => surveys'[s].type = surveys[s].type
    /\ surveys[s].status = "done" => surveys'[s].status = "done"

DisciplinedNext == Next /\ NoRivalClaims' /\ SurveysSettled
DisciplinedSpec == Init /\ [][DisciplinedNext]_vars

\* The handlers, jobs and calls that are between two awaits.
Running ==
  ({"worker"} \X {w \in Worker : handler[w].phase # "idle"})
    \cup ({"job"} \X {j \in Job : job[j].phase # "idle"})
    \cup ({"caller"} \X {c \in Caller : call[c].phase # "idle"})

\* The service does one thing at a time.
OneAtATime == \A p, q \in Running' : p = q
SerialNext == Next /\ OneAtATime
SerialSpec == Init /\ [][SerialNext]_vars

-----------------------------------------------------------------------------
(* Properties *)

TypeOK ==
  /\ SurveysTypeOK
  /\ orders \in [Order -> OrderRow \cup {None}]
  /\ statusLog \in [Order -> ApprovalStatus \cup {None}]
  /\ ledger \in [Order -> LedgerRow \cup {None}]
  /\ invoices \in [Invoice -> InvoiceRow \cup {None}]
  /\ callbacks \subseteq Callback
  /\ handler \in [Worker -> Handler]
  /\ job \in [Job -> JobState]

Booking(o) ==
  [fleet |-> orders[o].fleet, start |-> orders[o].start, duration |-> orders[o].duration]

\* The booking each order holds in the calendar.
booked == [o \in Order |-> IF Blocks(o) THEN Booking(o) ELSE None]

\* The refinement mapping: the calendar books what the orders hold.
Calendar == INSTANCE FleetCalendar
              WITH Order <- Order, Fleet <- Fleet, Day <- Day, Duration <- Duration,
                   None <- None, booked <- booked

\* No fleet is promised to two orders for the same day, over the creations,
\* updates, approvals, rejections and removals of concurrent handlers, as long
\* as no two handlers claim the same days at the same time ("Check if fleet is
\* already booked", leads.service.ts:825, in every create, update and accept).
NoDoubleBooking == Calendar!NoDoubleBooking

\* Every step on the orders and their surveys is a booking of free days, a
\* release of a booking, or no change of the calendar (same assumptions).
BookingsAreACalendar == Calendar!Spec

\* The orders keep to what the surveys component takes its environment to do:
\* an order comes with one request of each type and comes once, its requests go
\* only after it, and nothing else writes a survey's row, over all handlers,
\* callbacks and failures.  So what holds of Surveys holds of its rows here.
SurveysAreServed == SurveysSpec

AtRestAll == Running = {}

\* With nothing running, the gateway and the orders agree: the invoice of a
\* live order is open and has its number, its customer and its total, and an
\* open invoice is the one some live order points to (none is left behind by a
\* change of customer, a price change or a removal).
InvoicesMatchOrders ==
  AtRestAll =>
    /\ \A o \in leads : orders[o].external # None =>
         LET i == invoices[orders[o].external] IN
           /\ i # None /\ i.live
           /\ i.number = o /\ i.customer = orders[o].customer /\ i.total = orders[o].total
    /\ \A i \in Invoice : invoices[i] # None /\ invoices[i].live =>
         \E o \in leads : orders[o].external = i

\* With nothing running, the ledger has one row per live order, with its total
\* and its payment status (update writes the ledger before the order,
\* pgCallback after it).
LedgerMatchesOrders ==
  AtRestAll =>
    \A o \in Order :
      IF o \in leads THEN ledger[o] = LedgerOf(orders[o]) ELSE ledger[o] = None

\* With nothing running, the latest status log of an order is its status
\* (update logs before the save, reject after the update).
LogTellsStatus == AtRestAll => \A o \in leads : statusLog[o] = orders[o].status

\* With nothing running, a request that is left belongs to a live order (the four
\* steps of OrdersService.remove).
RequestsFollowOrder ==
  AtRestAll =>
    \A s \in Survey : Live(s) /\ surveys[s].order # None => surveys[s].order \in leads

\* "Order already accepted/rejected." (leads.service.ts:566): an accepted order is
\* not rejected any more.
AcceptedNeverRejected ==
  [][\A o \in leads : orders[o].status = "accepted" => orders'[o].status = "accepted"]_vars

Settled(o) ==
  \E i \in Invoice : invoices[i] # None /\ invoices[i].number = o /\ invoices[i].settled

\* An order, or its ledger row, says paid only if an invoice with its number
\* was paid in full, over late, lost, repeated and reordered callbacks, stale
\* saves, retries and failures.
DonePaid ==
  \A o \in Order :
    /\ orders[o] # None /\ orders[o].payment = "done" => Settled(o)
    /\ ledger[o] # None /\ ledger[o].payment = "done" => Settled(o)

\* The invoice an order points to was made for that order, also when handlers
\* race or fail half way.
ExternalBelongs ==
  \A o \in Order :
    orders[o] # None /\ orders[o].external # None =>
      /\ invoices[orders[o].external] # None
      /\ invoices[orders[o].external].number = o

\* "And not done, if done then it's already finished, so the count is 0"
\* (leads.service.ts:830): every order whose pick-up is not done counts.
Unfinished(o) ==
  /\ o \in leads
  /\ orders[o].status # "rejected"
  /\ ~\E s \in Survey : /\ surveys[s].state # "absent" /\ surveys[s].order = o
                        /\ surveys[s].type = "pick_up" /\ surveys[s].status = "done"

UnfinishedOrdersCount ==
  \A o, p \in Order :
    o # p /\ Unfinished(o) /\ Unfinished(p) => ~Conflict(orders[o], orders[p])

\* "Order already paid, cannot be updated." (leads.service.ts:799): a paid
\* invoice is not deleted.
PaidInvoiceIsKept ==
  [][\A i \in Invoice : PaidAtGateway(i) => invoices'[i].live]_vars
=============================================================================
