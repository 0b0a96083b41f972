---------------------------- MODULE OrdersProofs ----------------------------
(***************************************************************************)
(* Types of the leads component, for any number of workers, jobs and       *)
(* callers and with every failure; and the surveys component inside it:    *)
(* what the orders do to its rows is what Surveys takes them to do, so its *)
(* theorems hold in the whole system.                                      *)
(***************************************************************************)
EXTENDS Orders, SurveysProofs

-----------------------------------------------------------------------------
(* The invariant *)

\* The tables of the leads component and of the systems outside.
TablesTyped ==
  /\ orders \in [Order -> OrderRow \cup {None}]
  /\ statusLog \in [Order -> ApprovalStatus \cup {None}]
  /\ ledger \in [Order -> LedgerRow \cup {None}]
  /\ invoices \in [Invoice -> InvoiceRow \cup {None}]
  /\ callbacks \subseteq Callback

ClaimPhase == {"create", "insert", "delete_invoice", "new_invoice", "change_invoice",
               "log_status", "update_ledger", "save"}

\* What a handler holds fits its phase and the rows of the tables.
Fits(h, rows, bills) ==
  /\ h.phase \in ClaimPhase => h.dto \in OrderDto
  /\ h.phase \notin {"idle", "reject", "log_reject"} => h.row \in OrderRow
  /\ h.phase \notin {"idle", "create", "insert"} =>
       h.order \in Order /\ rows[h.order] \in OrderRow
  /\ h.phase = "remove_invoice" =>
       h.row.external \in Invoice /\ bills[h.row.external] \in InvoiceRow

JobFits(state, rows) ==
  /\ state.phase # "idle" => state.invoice \in Invoice /\ state.seen \in PgStatus
  /\ state.phase \in {"apply", "ledger"} =>
       state.order \in Order /\ rows[state.order] \in OrderRow /\ state.row \in OrderRow

LeadsSaved == \A o \in leads : orders[o] \in OrderRow

OrdersInv ==
  /\ SurveysInv
  /\ TablesTyped
  /\ handler \in [Worker -> Handler]
  /\ job \in [Job -> JobState]
  /\ LeadsSaved
  /\ \A w \in Worker : Fits(handler[w], orders, invoices)
  /\ \A j \in Job : JobFits(job[j], orders)

\* Rows are changed but never taken away.
RowsStay ==
  /\ \A o \in Order : orders[o] \in OrderRow => orders'[o] \in OrderRow
  /\ \A i \in Invoice : invoices[i] \in InvoiceRow => invoices'[i] \in InvoiceRow

\* The idle handler and job are handlers and jobs.
LEMMA IdleTypes ==
  /\ IdleHandler \in Handler /\ IdleHandler.phase = "idle"
  /\ IdleJob \in JobState /\ IdleJob.phase = "idle"
BY DEF IdleHandler, Handler, Phase, IdleJob, JobState

\* A step of one handler keeps the invariant when the tables keep their rows
\* and what the handler holds next fits them.
LEMMA HandlerMoves ==
  ASSUME OrdersInv, RowsStay, TablesTyped', SurveysInv', LeadsSaved',
         NEW w \in Worker, NEW h \in Handler, Fits(h, orders', invoices'),
         handler' = [handler EXCEPT ![w] = h], job' = job
  PROVE  OrdersInv'
<1>1. handler' \in [Worker -> Handler] /\ job' \in [Job -> JobState]
  BY DEF OrdersInv
<1>2. ASSUME NEW v \in Worker PROVE Fits(handler'[v], orders', invoices')
  <2>1. CASE v = w
    BY <2>1 DEF OrdersInv
  <2>2. CASE v # w
    BY <2>2 DEF OrdersInv, RowsStay, Fits
  <2> QED
    BY <2>1, <2>2
<1>3. ASSUME NEW j \in Job PROVE JobFits(job'[j], orders')
  BY DEF OrdersInv, RowsStay, JobFits
<1> QED
  BY <1>1, <1>2, <1>3 DEF OrdersInv

\* The same for a step of one job.
LEMMA JobMoves ==
  ASSUME OrdersInv, RowsStay, TablesTyped', SurveysInv', LeadsSaved',
         NEW j \in Job, NEW state \in JobState, JobFits(state, orders'),
         job' = [job EXCEPT ![j] = state], handler' = handler
  PROVE  OrdersInv'
<1>1. handler' \in [Worker -> Handler] /\ job' \in [Job -> JobState]
  BY DEF OrdersInv
<1>2. ASSUME NEW k \in Job PROVE JobFits(job'[k], orders')
  <2>1. CASE k = j
    BY <2>1 DEF OrdersInv
  <2>2. CASE k # j
    BY <2>2 DEF OrdersInv, RowsStay, JobFits
  <2> QED
    BY <2>1, <2>2
<1>3. ASSUME NEW v \in Worker PROVE Fits(handler'[v], orders', invoices')
  BY DEF OrdersInv, RowsStay, Fits
<1> QED
  BY <1>1, <1>2, <1>3 DEF OrdersInv

\* Nothing but the tables outside moves.
LEMMA TablesMove ==
  ASSUME OrdersInv, RowsStay, TablesTyped', SurveysInv', LeadsSaved',
         handler' = handler, job' = job
  PROVE  OrdersInv'
BY DEF OrdersInv, RowsStay, Fits, JobFits

\* The steps of a worker change what that worker holds and nothing else.
LEMMA OneHandlerMoves ==
  ASSUME NEW w \in Worker,
         HandlerStarts(w) \/ HandlerGoesOn(w) \/ CreateInvoiceFails(w) \/ HandlerFails(w)
  PROVE  \E g : handler' = [handler EXCEPT ![w] = g]
<1>1. ASSUME NEW g, Become(w, g) PROVE \E h : handler' = [handler EXCEPT ![w] = h]
  BY <1>1 DEF Become
<1>2. ASSUME NEW phase, Proceed(w, phase) PROVE \E h : handler' = [handler EXCEPT ![w] = h]
  BY <1>2 DEF Proceed
<1>3. ASSUME Return(w) PROVE \E h : handler' = [handler EXCEPT ![w] = h]
  BY <1>1, <1>3 DEF Return
<1>4. ASSUME HandlerStarts(w) PROVE \E h : handler' = [handler EXCEPT ![w] = h]
  BY <1>1, <1>4 DEF HandlerStarts, CreateOrder, UpdateRead, RejectRead, RemoveRead
<1>5. ASSUME CreateInvoice(w) \/ CreateInvoiceFails(w) \/ InsertOrder(w) \/ CreateLedger(w)
             \/ HandlerFails(w)
      PROVE  \E h : handler' = [handler EXCEPT ![w] = h]
  BY <1>1, <1>3, <1>5
  DEF CreateInvoice, CreateInvoiceFails, InsertOrder, CreateLedger, HandlerFails
<1>6. ASSUME \/ \E dto \in OrderDto : UpdateCheck(w, dto)
             \/ UpdateDeleteInvoice(w) \/ UpdateNewInvoice(w) \/ UpdateInvoice(w)
             \/ UpdateInvoiceGone(w) \/ UpdateLogStatus(w) \/ UpdateLedger(w) \/ UpdateSave(w)
      PROVE  \E h : handler' = [handler EXCEPT ![w] = h]
  BY <1>1, <1>2, <1>3, <1>6
  DEF UpdateCheck, UpdateDeleteInvoice, UpdateNewInvoice, UpdateInvoice, UpdateInvoiceGone,
      UpdateLogStatus, UpdateLedger, UpdateSave
<1>7. ASSUME \/ RejectWrite(w) \/ RejectLog(w) \/ RemoveGetInvoice(w) \/ RemoveInvoice(w)
             \/ RemoveOrder(w) \/ RemoveRequests(w) \/ RemoveLedger(w)
      PROVE  \E h : handler' = [handler EXCEPT ![w] = h]
  BY <1>2, <1>3, <1>7
  DEF RejectWrite, RejectLog, RemoveGetInvoice, RemoveInvoice, RemoveOrder, RemoveRequests,
      RemoveLedger
<1> QED
  BY <1>4, <1>5, <1>6, <1>7 DEF HandlerGoesOn

\* The other workers wait.
LEMMA OthersWait ==
  ASSUME OrdersInv, NEW w \in Worker,
         HandlerStarts(w) \/ HandlerGoesOn(w) \/ CreateInvoiceFails(w) \/ HandlerFails(w)
  PROVE  \A v \in Worker \ {w} : handler'[v] = handler[v]
<1>1. PICK g : handler' = [handler EXCEPT ![w] = g]
  BY OneHandlerMoves
<1> QED
  BY <1>1 DEF OrdersInv

\* Surveys and leads that do not move keep what was true of them.
LEMMA SurveysStay ==
  ASSUME OrdersInv, UNCHANGED surveyVars
  PROVE  SurveysInv' /\ leads' = leads
BY DEF OrdersInv, SurveysInv, SurveysTypeOK, CallsFit, surveyVars

\* A new invoice is a row of the gateway; the others stay.
LEMMA NewInvoice ==
  ASSUME invoices \in [Invoice -> InvoiceRow \cup {None}],
         NEW i \in Invoice, NEW o \in Order, NEW dto \in OrderDto, PgCreate(i, o, dto)
  PROVE  /\ invoices' \in [Invoice -> InvoiceRow \cup {None}]
         /\ \A k \in Invoice : invoices[k] \in InvoiceRow => invoices'[k] \in InvoiceRow
BY DEF PgCreate, InvoiceRow, OrderDto, PgStatus

-----------------------------------------------------------------------------
(* Each action keeps the invariant *)

\* The first steps: what the handler reads comes from the DTO or the tables.
LEMMA StartTypes ==
  ASSUME OrdersInv, NEW w \in Worker, HandlerStarts(w)
  PROVE  OrdersInv'
<1> USE DEF OrdersInv
<1>1. ASSUME UNCHANGED <<surveyVars, orders, statusLog, ledger, invoices, callbacks, job>>
      PROVE  RowsStay /\ TablesTyped' /\ SurveysInv' /\ LeadsSaved' /\ job' = job
  BY <1>1, SurveysStay DEF RowsStay, TablesTyped, LeadsSaved
<1>2. ASSUME NEW dto \in OrderDto, NEW admin \in BOOLEAN, CreateOrder(w, dto, admin)
      PROVE  OrdersInv'
  <2> DEFINE phase == IF admin THEN "create" ELSE "insert"
             row == NewRow(dto, IF admin THEN "accepted" ELSE "pending")
             h == [IdleHandler EXCEPT !.phase = phase, !.dto = dto, !.row = row]
  <2>1. row \in OrderRow
    BY DEF NewRow, OrderRow, OrderDto, ApprovalStatus, PaymentStatus
  <2>2. h \in Handler
    BY <2>1, IdleTypes DEF Handler, Phase
  <2>3. h.dto = dto /\ h.row = row /\ h.phase \in {"create", "insert"}
    BY DEF IdleHandler
  <2>4. handler' = [handler EXCEPT ![w] = h]
    BY <1>2 DEF CreateOrder, Become
  <2> HIDE DEF row, h
  <2>5. Fits(h, orders', invoices')
    BY <2>1, <2>3 DEF Fits
  <2> QED
    BY <1>1, <1>2, <2>2, <2>4, <2>5, HandlerMoves DEF CreateOrder
<1>3. ASSUME NEW o \in Order, NEW accept \in BOOLEAN, UpdateRead(w, o, accept)
      PROVE  OrdersInv'
  <2> DEFINE h == [IdleHandler EXCEPT !.phase = "update", !.order = o, !.accept = accept,
                                      !.row = orders[o]]
  <2>1. orders[o] \in OrderRow
    BY <1>3 DEF UpdateRead, LeadsSaved
  <2>2. h \in Handler
    BY <2>1, IdleTypes DEF Handler, Phase
  <2>3. h.row = orders[o] /\ h.phase = "update" /\ h.order = o
    BY DEF IdleHandler
  <2>4. handler' = [handler EXCEPT ![w] = h] /\ orders' = orders
    BY <1>3 DEF UpdateRead, Become
  <2> HIDE DEF h
  <2>5. Fits(h, orders', invoices')
    BY <2>1, <2>3, <2>4 DEF Fits, ClaimPhase
  <2> QED
    BY <1>1, <1>3, <2>2, <2>4, <2>5, HandlerMoves DEF UpdateRead
<1>4. ASSUME NEW o \in Order, RejectRead(w, o)
      PROVE  OrdersInv'
  <2> DEFINE h == [IdleHandler EXCEPT !.phase = "reject", !.order = o]
  <2>1. orders[o] \in OrderRow
    BY <1>4 DEF RejectRead, LeadsSaved
  <2>2. h \in Handler
    BY IdleTypes DEF Handler, Phase
  <2>3. h.phase = "reject" /\ h.order = o
    BY DEF IdleHandler
  <2>4. handler' = [handler EXCEPT ![w] = h] /\ orders' = orders
    BY <1>4 DEF RejectRead, Become
  <2> HIDE DEF h
  <2>5. Fits(h, orders', invoices')
    BY <2>1, <2>3, <2>4 DEF Fits, ClaimPhase
  <2> QED
    BY <1>1, <1>4, <2>2, <2>4, <2>5, HandlerMoves DEF RejectRead
<1>5. ASSUME NEW o \in Order, RemoveRead(w, o)
      PROVE  OrdersInv'
  <2> DEFINE h == [IdleHandler EXCEPT !.phase = "remove", !.order = o, !.row = orders[o]]
  <2>1. orders[o] \in OrderRow
    BY <1>5 DEF RemoveRead, LeadsSaved
  <2>2. h \in Handler
    BY <2>1, IdleTypes DEF Handler, Phase
  <2>3. h.row = orders[o] /\ h.phase = "remove" /\ h.order = o
    BY DEF IdleHandler
  <2>4. handler' = [handler EXCEPT ![w] = h] /\ orders' = orders
    BY <1>5 DEF RemoveRead, Become
  <2> HIDE DEF h
  <2>5. Fits(h, orders', invoices')
    BY <2>1, <2>3, <2>4 DEF Fits, ClaimPhase
  <2> QED
    BY <1>1, <1>5, <2>2, <2>4, <2>5, HandlerMoves DEF RemoveRead
<1> QED
  BY <1>2, <1>3, <1>4, <1>5 DEF HandlerStarts

\* createOrder: the invoice, the rows, the ledger.
LEMMA CreateTypes ==
  ASSUME OrdersInv, NEW w \in Worker,
         CreateInvoice(w) \/ CreateInvoiceFails(w) \/ InsertOrder(w) \/ CreateLedger(w)
  PROVE  OrdersInv'
<1> USE DEF OrdersInv
<1> DEFINE h0 == handler[w]
<1>0. h0 \in Handler /\ Fits(h0, orders, invoices)
  OBVIOUS
<1>1. CASE CreateInvoice(w)
  <2>1. PICK o \in Order, i \in Invoice :
          /\ PgCreate(i, o, h0.dto)
          /\ handler' = [handler EXCEPT ![w] =
                           [h0 EXCEPT !.phase = "insert", !.order = o, !.row.external = i]]
    BY <1>1 DEF CreateInvoice, Become
  <2> DEFINE h == [h0 EXCEPT !.phase = "insert", !.order = o, !.row.external = i]
  <2>2. h0.phase = "create" /\ h0.dto \in OrderDto /\ h0.row \in OrderRow
    BY <1>0, <1>1 DEF CreateInvoice, Fits, ClaimPhase
  <2>3. [h0.row EXCEPT !.external = i] \in OrderRow
    BY <2>2 DEF OrderRow
  <2>4. h \in Handler /\ h.phase = "insert" /\ h.dto = h0.dto /\ h.row \in OrderRow
    BY <1>0, <2>2, <2>3 DEF Handler, Phase
  <2> HIDE DEF h
  <2>5. Fits(h, orders', invoices')
    BY <2>2, <2>4 DEF Fits
  <2>6. RowsStay /\ TablesTyped'
    BY <1>1, <2>1, <2>2, NewInvoice DEF CreateInvoice, RowsStay, TablesTyped
  <2>7. SurveysInv' /\ LeadsSaved' /\ job' = job
    BY <1>1, SurveysStay DEF CreateInvoice, LeadsSaved
  <2> QED
    BY <2>1, <2>4, <2>5, <2>6, <2>7, HandlerMoves DEF h
<1>2. CASE CreateInvoiceFails(w)
  <2>2. h0.phase = "create" /\ h0.dto \in OrderDto /\ h0.row \in OrderRow
    BY <1>0, <1>2 DEF CreateInvoiceFails, Fits, ClaimPhase
  <2>3. RowsStay /\ TablesTyped'
    BY <1>2, <2>2, NewInvoice DEF CreateInvoiceFails, RowsStay, TablesTyped
  <2>4. SurveysInv' /\ LeadsSaved' /\ job' = job /\ orders' = orders
    BY <1>2, SurveysStay DEF CreateInvoiceFails, LeadsSaved
  <2>5. CASE Return(w)
    BY <2>3, <2>4, <2>5, IdleTypes, HandlerMoves DEF Return, Become, Fits, ClaimPhase
  <2>6. CASE h0.retry < 3 /\ handler' = [handler EXCEPT ![w].retry = @ + 1]
    <3> DEFINE h == [h0 EXCEPT !.retry = @ + 1]
    <3>1. h \in Handler /\ h.phase = "create" /\ h.dto = h0.dto /\ h.row = h0.row
      BY <1>0, <2>2, <2>6 DEF Handler
    <3>2. handler' = [handler EXCEPT ![w] = h]
      BY <2>6
    <3> HIDE DEF h
    <3>3. Fits(h, orders', invoices')
      BY <2>2, <3>1 DEF Fits
    <3> QED
      BY <2>3, <2>4, <3>1, <3>2, <3>3, HandlerMoves
  <2> QED
    BY <1>2, <2>5, <2>6 DEF CreateInvoiceFails
<1>3. CASE InsertOrder(w)
  <2>1. h0.phase = "insert" /\ h0.row \in OrderRow
    BY <1>0, <1>3 DEF InsertOrder, Fits
  <2>2. PICK o \in Order, d \in RequestDriver, e \in RequestDriver :
          /\ InsertRequests(o, d, e)
          /\ leads' = leads \cup {o}
          /\ orders' = [orders EXCEPT ![o] = h0.row]
          /\ statusLog' = [statusLog EXCEPT ![o] = h0.row.status]
          /\ handler' = [handler EXCEPT ![w] = [h0 EXCEPT !.phase = "create_ledger", !.order = o]]
    BY <1>3 DEF InsertOrder, Become
  <2> DEFINE h == [h0 EXCEPT !.phase = "create_ledger", !.order = o]
  <2>3. h \in Handler /\ h.phase = "create_ledger" /\ h.order = o /\ h.row = h0.row
    BY <1>0 DEF Handler, Phase
  <2> HIDE DEF h
  <2>4. h0.row.status \in ApprovalStatus
    BY <2>1 DEF OrderRow
  <2>5. RowsStay /\ TablesTyped' /\ LeadsSaved' /\ job' = job
    <3>1. /\ orders \in [Order -> OrderRow \cup {None}]
          /\ statusLog \in [Order -> ApprovalStatus \cup {None}]
      BY DEF TablesTyped
    <3>2. RowsStay
      BY <1>3, <2>1, <2>2, <3>1 DEF InsertOrder, RowsStay
    <3>3. TablesTyped'
      BY <1>3, <2>1, <2>2, <2>4, <3>1 DEF InsertOrder, TablesTyped
    <3>4. LeadsSaved'
      BY <2>1, <2>2, <3>1 DEF LeadsSaved, SurveysInv, SurveysTypeOK
    <3> QED
      BY <1>3, <3>2, <3>3, <3>4 DEF InsertOrder
  <2>6. SurveysInv'
    BY <1>3, <2>2, InsertRequestsTypes DEF InsertOrder, SurveysInv, SurveysTypeOK, CallsFit
  <2>7. Fits(h, orders', invoices')
    BY <2>1, <2>2, <2>3 DEF Fits, ClaimPhase, TablesTyped
  <2> QED
    BY <2>2, <2>3, <2>5, <2>6, <2>7, HandlerMoves DEF h
<1>4. CASE CreateLedger(w)
  <2>1. h0.row \in OrderRow /\ h0.order \in Order
    BY <1>0, <1>4 DEF CreateLedger, Fits
  <2>2. LedgerOf(h0.row) \in LedgerRow
    BY <2>1 DEF LedgerOf, LedgerRow, OrderRow
  <2>3. RowsStay /\ TablesTyped' /\ SurveysInv' /\ LeadsSaved' /\ job' = job
    BY <1>4, <2>1, <2>2, SurveysStay DEF CreateLedger, RowsStay, TablesTyped, LeadsSaved
  <2> QED
    BY <1>4, <2>3, IdleTypes, HandlerMoves DEF CreateLedger, Return, Become, Fits, ClaimPhase
<1> QED
  BY <1>1, <1>2, <1>3, <1>4

\* A handler that goes to another phase, or ends, and leaves what it holds.
LEMMA ProceedTypes ==
  ASSUME OrdersInv, RowsStay, TablesTyped', SurveysInv', LeadsSaved', job' = job,
         NEW w \in Worker, NEW phase \in Phase, Proceed(w, phase),
         Fits([handler[w] EXCEPT !.phase = phase], orders', invoices')
  PROVE  OrdersInv'
<1>1. [handler[w] EXCEPT !.phase = phase] \in Handler
  BY DEF OrdersInv, Handler
<1>2. handler' = [handler EXCEPT ![w] = [handler[w] EXCEPT !.phase = phase]]
  BY DEF Proceed
<1> QED
  BY <1>1, <1>2, HandlerMoves

\* A handler that ends.
LEMMA ReturnTypes ==
  ASSUME OrdersInv, RowsStay, TablesTyped', SurveysInv', LeadsSaved', job' = job,
         NEW w \in Worker, Return(w)
  PROVE  OrdersInv'
BY IdleTypes, HandlerMoves DEF Return, Become, Fits, ClaimPhase

\* Only the handlers move: the tables keep their types and rows.
LEMMA TablesStay ==
  ASSUME OrdersInv, UNCHANGED <<surveyVars, orders, statusLog, ledger, invoices, callbacks>>
  PROVE  RowsStay /\ TablesTyped' /\ SurveysInv' /\ LeadsSaved'
BY SurveysStay DEF OrdersInv, RowsStay, TablesTyped, LeadsSaved

\* The columns of the DTO make a row of a row.
LEMMA WithDtoTypes ==
  ASSUME NEW row \in OrderRow, NEW dto \in OrderDto
  PROVE  WithDto(row, dto) \in OrderRow /\ LedgerOf(WithDto(row, dto)) \in LedgerRow
<1>1. WithDto(row, dto) \in OrderRow
  BY DEF WithDto, OrderRow, OrderDto
<1>2. ASSUME NEW r \in OrderRow PROVE LedgerOf(r) \in LedgerRow
  BY DEF LedgerOf, LedgerRow, OrderRow
<1> QED
  BY <1>1, <1>2

\* updateByOrder writes a row where there is one.
LEMMA LedgerTypes ==
  ASSUME ledger \in [Order -> LedgerRow \cup {None}], NEW o \in Order, NEW row,
         LedgerOf(row) \in LedgerRow
  PROVE  LedgerUpdated(o, row) \in [Order -> LedgerRow \cup {None}]
BY DEF LedgerUpdated

\* update and accept up to the invoice: the check, and the calls to the gateway.
LEMMA UpdateInvoiceTypes ==
  ASSUME OrdersInv, NEW w \in Worker,
         \/ \E dto \in OrderDto : UpdateCheck(w, dto)
         \/ UpdateDeleteInvoice(w) \/ UpdateNewInvoice(w)
         \/ UpdateInvoice(w) \/ UpdateInvoiceGone(w)
  PROVE  OrdersInv'
<1> USE DEF OrdersInv
<1> DEFINE h0 == handler[w]
           i0 == h0.row.external
<1>0. h0 \in Handler /\ Fits(h0, orders, invoices)
  OBVIOUS
<1>1. ASSUME NEW dto \in OrderDto, UpdateCheck(w, dto)
      PROVE  OrdersInv'
  <2> DEFINE next == AfterCheck(h0.row, dto, h0.accept)
             h == [h0 EXCEPT !.phase = next, !.dto = dto]
  <2>1. h0.row \in OrderRow /\ h0.order \in Order /\ orders[h0.order] \in OrderRow
    BY <1>0, <1>1 DEF UpdateCheck, Fits
  <2>2. next \in {"new_invoice", "change_invoice", "delete_invoice", "log_status", "update_ledger"}
    BY DEF AfterCheck, AfterInvoice
  <2>3. RowsStay /\ TablesTyped' /\ SurveysInv' /\ LeadsSaved' /\ job' = job /\ orders' = orders
    BY <1>1, TablesStay DEF UpdateCheck
  <2>4. CASE Return(w)
    BY <2>3, <2>4, ReturnTypes
  <2>5. CASE handler' = [handler EXCEPT ![w] = h]
    <3> HIDE DEF next
    <3>1. h \in Handler /\ h.phase = next /\ h.dto = dto /\ h.row = h0.row /\ h.order = h0.order
      BY <1>0, <2>2 DEF Handler, Phase
    <3> HIDE DEF h
    <3>2. Fits(h, orders', invoices')
      BY <2>1, <2>2, <2>3, <3>1 DEF Fits
    <3> QED
      BY <2>3, <2>5, <3>1, <3>2, HandlerMoves
  <2> QED
    BY <1>1, <2>4, <2>5 DEF UpdateCheck, Become
<1>2. CASE UpdateDeleteInvoice(w)
  <2>1. i0 \in Invoice /\ invoices[i0] \in InvoiceRow
    BY <1>0, <1>2 DEF UpdateDeleteInvoice, PgLive, Fits, OrderRow, TablesTyped
  <2>2. RowsStay /\ TablesTyped'
    BY <1>2, <2>1 DEF UpdateDeleteInvoice, PgDelete, RowsStay, TablesTyped, InvoiceRow
  <2>3. SurveysInv' /\ LeadsSaved' /\ job' = job /\ orders' = orders
    BY <1>2, SurveysStay DEF UpdateDeleteInvoice, LeadsSaved
  <2>4. Fits([h0 EXCEPT !.phase = "new_invoice"], orders', invoices')
    BY <1>0, <1>2, <2>3 DEF UpdateDeleteInvoice, Fits, ClaimPhase, Handler
  <2> QED
    BY <1>2, <2>2, <2>3, <2>4, ProceedTypes DEF UpdateDeleteInvoice, Phase
<1>3. CASE UpdateNewInvoice(w)
  <2>1. h0.dto \in OrderDto /\ h0.row \in OrderRow /\ h0.order \in Order /\ orders[h0.order] \in OrderRow
    BY <1>0, <1>3 DEF UpdateNewInvoice, Fits, ClaimPhase
  <2>2. PICK i \in Invoice :
          /\ PgCreate(i, h0.order, h0.dto)
          /\ handler' = [handler EXCEPT ![w] = [h0 EXCEPT !.phase = AfterInvoice(h0.accept),
                                                         !.row.external = i]]
    BY <1>3 DEF UpdateNewInvoice, Become
  <2> DEFINE phase == AfterInvoice(h0.accept)
             h == [h0 EXCEPT !.phase = phase, !.row.external = i]
  <2>3. phase \in {"log_status", "update_ledger"}
    BY DEF AfterInvoice
  <2>4. [h0.row EXCEPT !.external = i] \in OrderRow
    BY <2>1 DEF OrderRow
  <2> HIDE DEF phase
  <2>5. /\ h \in Handler /\ h.phase = phase /\ h.dto = h0.dto /\ h.order = h0.order
        /\ h.row \in OrderRow
    BY <1>0, <2>1, <2>3, <2>4 DEF Handler, Phase
  <2>6. RowsStay /\ TablesTyped'
    BY <1>3, <2>1, <2>2, NewInvoice DEF UpdateNewInvoice, RowsStay, TablesTyped
  <2>7. SurveysInv' /\ LeadsSaved' /\ job' = job /\ orders' = orders
    BY <1>3, SurveysStay DEF UpdateNewInvoice, LeadsSaved
  <2>8. handler' = [handler EXCEPT ![w] = h]
    BY <2>2 DEF phase
  <2> HIDE DEF h
  <2>9. Fits(h, orders', invoices')
    BY <2>1, <2>3, <2>5, <2>7 DEF Fits
  <2> QED
    BY <2>5, <2>6, <2>7, <2>8, <2>9, HandlerMoves
<1>4. CASE UpdateInvoice(w)
  <2>1. /\ h0.dto \in OrderDto /\ h0.row \in OrderRow /\ h0.order \in Order
        /\ orders[h0.order] \in OrderRow /\ i0 \in Invoice /\ invoices[i0] \in InvoiceRow
    BY <1>0, <1>4 DEF UpdateInvoice, Fits, ClaimPhase, PgLive, OrderRow, TablesTyped
  <2>2. invoices' \in [Invoice -> InvoiceRow \cup {None}]
        /\ \A k \in Invoice : invoices[k] \in InvoiceRow => invoices'[k] \in InvoiceRow
    <3> DEFINE row == [invoices[i0] EXCEPT
                 !.customer = h0.dto.customer, !.total = h0.dto.total,
                 !.status = IF @ = "paid" /\ h0.dto.total > invoices[i0].total
                              THEN "partially paid" ELSE @]
    <3>1. row \in InvoiceRow
      BY <2>1 DEF InvoiceRow, OrderDto, PgStatus
    <3>2. invoices' = [invoices EXCEPT ![i0] = row]
      BY <1>4, <2>1 DEF UpdateInvoice, PgUpdate
    <3> HIDE DEF row
    <3> QED
      BY <2>1, <3>1, <3>2 DEF TablesTyped
  <2>3. callbacks' \subseteq Callback
    BY <1>4, <2>1 DEF UpdateInvoice, TablesTyped, Callback
  <2>4. RowsStay /\ TablesTyped' /\ SurveysInv' /\ LeadsSaved' /\ job' = job /\ orders' = orders
    BY <1>4, <2>2, <2>3, SurveysStay DEF UpdateInvoice, RowsStay, TablesTyped, LeadsSaved
  <2>5. AfterInvoice(h0.accept) \in {"log_status", "update_ledger"}
    BY DEF AfterInvoice
  <2>6. Fits([h0 EXCEPT !.phase = AfterInvoice(h0.accept)], orders', invoices')
    BY <1>0, <2>1, <2>4, <2>5 DEF Fits, ClaimPhase, Handler
  <2> QED
    BY <1>4, <2>4, <2>5, <2>6, ProceedTypes DEF UpdateInvoice, Phase
<1>5. CASE UpdateInvoiceGone(w)
  BY <1>5, TablesStay, ReturnTypes DEF UpdateInvoiceGone
<1> QED
  BY <1>1, <1>2, <1>3, <1>4, <1>5

\* update and accept after the invoice: the log, the ledger, the row.
LEMMA UpdateSaveTypes ==
  ASSUME OrdersInv, NEW w \in Worker, UpdateLogStatus(w) \/ UpdateLedger(w) \/ UpdateSave(w)
  PROVE  OrdersInv'
<1> USE DEF OrdersInv
<1> DEFINE h0 == handler[w]
<1>0. /\ h0 \in Handler /\ h0.dto \in OrderDto /\ h0.row \in OrderRow
      /\ h0.order \in Order /\ orders[h0.order] \in OrderRow
  BY DEF UpdateLogStatus, UpdateLedger, UpdateSave, Fits, ClaimPhase
<1>1. CASE UpdateLogStatus(w)
  <2> DEFINE h == [h0 EXCEPT !.phase = "update_ledger", !.row.status = "accepted"]
  <2>1. [h0.row EXCEPT !.status = "accepted"] \in OrderRow
    BY <1>0 DEF OrderRow, ApprovalStatus
  <2>2. /\ h \in Handler /\ h.phase = "update_ledger" /\ h.dto = h0.dto /\ h.order = h0.order
        /\ h.row \in OrderRow
    BY <1>0, <2>1 DEF Handler, Phase
  <2>3. RowsStay /\ TablesTyped' /\ SurveysInv' /\ LeadsSaved' /\ job' = job /\ orders' = orders
    BY <1>0, <1>1, SurveysStay
    DEF UpdateLogStatus, RowsStay, TablesTyped, LeadsSaved, ApprovalStatus
  <2>4. handler' = [handler EXCEPT ![w] = h]
    BY <1>1 DEF UpdateLogStatus, Become
  <2> HIDE DEF h
  <2>5. Fits(h, orders', invoices')
    BY <1>0, <2>2, <2>3 DEF Fits
  <2> QED
    BY <2>2, <2>3, <2>4, <2>5, HandlerMoves
<1>2. CASE UpdateLedger(w)
  <2>1. ledger' \in [Order -> LedgerRow \cup {None}]
    BY <1>0, <1>2, WithDtoTypes, LedgerTypes DEF UpdateLedger, TablesTyped
  <2>2. RowsStay /\ TablesTyped' /\ SurveysInv' /\ LeadsSaved' /\ job' = job /\ orders' = orders
    BY <1>2, <2>1, SurveysStay DEF UpdateLedger, RowsStay, TablesTyped, LeadsSaved
  <2>3. Fits([h0 EXCEPT !.phase = "save"], orders', invoices')
    BY <1>0, <2>2 DEF Fits, Handler
  <2> QED
    BY <1>2, <2>2, <2>3, ProceedTypes DEF UpdateLedger, Phase
<1>3. CASE UpdateSave(w)
  <2>1. Saved(h0.order, h0.row, h0.dto) \in OrderRow
    BY <1>0, WithDtoTypes DEF Saved
  <2>2. RowsStay /\ TablesTyped' /\ SurveysInv' /\ LeadsSaved' /\ job' = job
    BY <1>0, <1>3, <2>1, SurveysStay DEF UpdateSave, RowsStay, TablesTyped, LeadsSaved
  <2> QED
    BY <1>3, <2>2, ReturnTypes DEF UpdateSave
<1> QED
  BY <1>1, <1>2, <1>3

\* A row whose status or payment is written stays a row.
LEMMA ColumnTypes ==
  ASSUME NEW row \in OrderRow
  PROVE  /\ [row EXCEPT !.status = "rejected"] \in OrderRow
         /\ \A p \in PaymentStatus : [row EXCEPT !.payment = p] \in OrderRow
BY DEF OrderRow, ApprovalStatus

\* reject
LEMMA RejectTypes ==
  ASSUME OrdersInv, NEW w \in Worker, RejectWrite(w) \/ RejectLog(w)
  PROVE  OrdersInv'
<1> USE DEF OrdersInv
<1> DEFINE h0 == handler[w]
<1>0. h0 \in Handler /\ h0.order \in Order /\ orders[h0.order] \in OrderRow
  BY DEF RejectWrite, RejectLog, Fits
<1>1. CASE RejectWrite(w)
  <2>1. orders' = [orders EXCEPT ![h0.order] = [orders[h0.order] EXCEPT !.status = "rejected"]]
    BY <1>1 DEF RejectWrite
  <2>2. RowsStay /\ TablesTyped' /\ SurveysInv' /\ LeadsSaved' /\ job' = job
    BY <1>0, <1>1, <2>1, ColumnTypes, SurveysStay DEF RejectWrite, RowsStay, TablesTyped, LeadsSaved
  <2>3. Fits([h0 EXCEPT !.phase = "log_reject"], orders', invoices')
    BY <1>0, <2>2 DEF Fits, ClaimPhase, RowsStay, Handler
  <2> QED
    BY <1>1, <2>2, <2>3, ProceedTypes DEF RejectWrite, Phase
<1>2. CASE RejectLog(w)
  <2>1. RowsStay /\ TablesTyped' /\ SurveysInv' /\ LeadsSaved' /\ job' = job
    BY <1>0, <1>2, SurveysStay DEF RejectLog, RowsStay, TablesTyped, LeadsSaved, ApprovalStatus
  <2> QED
    BY <1>2, <2>1, ReturnTypes DEF RejectLog
<1> QED
  BY <1>1, <1>2

\* remove
LEMMA RemoveTypes ==
  ASSUME OrdersInv, NEW w \in Worker,
         \/ RemoveGetInvoice(w) \/ RemoveInvoice(w) \/ RemoveOrder(w)
         \/ RemoveRequests(w) \/ RemoveLedger(w)
  PROVE  OrdersInv'
<1> USE DEF OrdersInv
<1> DEFINE h0 == handler[w]
           i0 == h0.row.external
<1>0. /\ h0 \in Handler /\ h0.row \in OrderRow /\ h0.order \in Order
      /\ orders[h0.order] \in OrderRow
  BY DEF RemoveGetInvoice, RemoveInvoice, RemoveOrder, RemoveRequests, RemoveLedger, Fits
<1>1. CASE RemoveGetInvoice(w)
  <2>1. RowsStay /\ TablesTyped' /\ SurveysInv' /\ LeadsSaved' /\ job' = job
        /\ orders' = orders /\ invoices' = invoices
    BY <1>1, TablesStay DEF RemoveGetInvoice
  <2>2. CASE Return(w)
    BY <2>1, <2>2, ReturnTypes
  <2>3. CASE Proceed(w, IF PgLive(i0) THEN "remove_invoice" ELSE "remove_order")
    <3>1. PgLive(i0) => i0 \in Invoice /\ invoices[i0] \in InvoiceRow
      BY <1>0 DEF PgLive, OrderRow, TablesTyped
    <3>2. CASE PgLive(i0)
      <4>1. Fits([h0 EXCEPT !.phase = "remove_invoice"], orders', invoices')
        BY <1>0, <2>1, <3>1, <3>2 DEF Fits, ClaimPhase, Handler
      <4> QED
        BY <2>1, <2>3, <3>2, <4>1, ProceedTypes DEF Phase
    <3>3. CASE ~PgLive(i0)
      <4>1. Fits([h0 EXCEPT !.phase = "remove_order"], orders', invoices')
        BY <1>0, <2>1 DEF Fits, ClaimPhase, Handler
      <4> QED
        BY <2>1, <2>3, <3>3, <4>1, ProceedTypes DEF Phase
    <3> QED
      BY <3>2, <3>3
  <2> QED
    BY <1>1, <2>2, <2>3 DEF RemoveGetInvoice
<1>2. CASE RemoveInvoice(w)
  <2>1. i0 \in Invoice /\ invoices[i0] \in InvoiceRow
    BY <1>2 DEF RemoveInvoice, Fits
  <2>2. RowsStay /\ TablesTyped'
    BY <1>2, <2>1 DEF RemoveInvoice, PgDelete, RowsStay, TablesTyped, InvoiceRow
  <2>3. SurveysInv' /\ LeadsSaved' /\ job' = job /\ orders' = orders
    BY <1>2, SurveysStay DEF RemoveInvoice, LeadsSaved
  <2>4. Fits([h0 EXCEPT !.phase = "remove_order"], orders', invoices')
    BY <1>0, <2>3 DEF Fits, ClaimPhase, Handler
  <2> QED
    BY <1>2, <2>2, <2>3, <2>4, ProceedTypes DEF RemoveInvoice, Phase
<1>3. CASE RemoveOrder(w)
  <2>1. RowsStay /\ TablesTyped' /\ SurveysInv' /\ LeadsSaved' /\ job' = job /\ orders' = orders
    BY <1>3 DEF RemoveOrder, RowsStay, TablesTyped, LeadsSaved, SurveysInv, SurveysTypeOK, CallsFit
  <2>2. Fits([h0 EXCEPT !.phase = "remove_requests"], orders', invoices')
    BY <1>0, <2>1 DEF Fits, ClaimPhase, Handler
  <2> QED
    BY <1>3, <2>1, <2>2, ProceedTypes DEF RemoveOrder, Phase
<1>4. CASE RemoveRequests(w)
  <2>1. SurveysInv'
    BY <1>4, SoftDeleteTypes DEF RemoveRequests, RequestsRemoved, SurveysInv, SurveysTypeOK, CallsFit
  <2>2. RowsStay /\ TablesTyped' /\ LeadsSaved' /\ job' = job /\ orders' = orders
    BY <1>4 DEF RemoveRequests, RowsStay, TablesTyped, LeadsSaved
  <2>3. Fits([h0 EXCEPT !.phase = "remove_ledger"], orders', invoices')
    BY <1>0, <2>2 DEF Fits, ClaimPhase, Handler
  <2> QED
    BY <1>4, <2>1, <2>2, <2>3, ProceedTypes DEF RemoveRequests, Phase
<1>5. CASE RemoveLedger(w)
  <2>1. RowsStay /\ TablesTyped' /\ SurveysInv' /\ LeadsSaved' /\ job' = job
    BY <1>0, <1>5, SurveysStay DEF RemoveLedger, RowsStay, TablesTyped, LeadsSaved
  <2> QED
    BY <1>5, <2>1, ReturnTypes DEF RemoveLedger
<1> QED
  BY <1>1, <1>2, <1>3, <1>4, <1>5

\* pgCallback
LEMMA JobTypes ==
  ASSUME OrdersInv, NEW j \in Job,
         \/ \E cb \in callbacks : CallbackFetch(j, cb)
         \/ JobGoesOn(j) \/ CallbackFails(j)
  PROVE  OrdersInv'
<1> USE DEF OrdersInv
<1> DEFINE s0 == job[j]
<1>0. s0 \in JobState /\ JobFits(s0, orders)
  OBVIOUS
<1>1. ASSUME NEW cb \in callbacks, CallbackFetch(j, cb)
      PROVE  OrdersInv'
  <2>1. cb \in Callback
    BY DEF TablesTyped
  <2>2. RowsStay /\ TablesTyped' /\ SurveysInv' /\ LeadsSaved' /\ handler' = handler
    BY <1>1, SurveysStay DEF CallbackFetch, RowsStay, TablesTyped, LeadsSaved
  <2>3. CASE PgLive(cb.invoice)
    <3> DEFINE s == [IdleJob EXCEPT !.phase = "lookup", !.invoice = cb.invoice,
                        !.number = cb.number, !.seen = invoices[cb.invoice].status]
    <3>1. /\ cb.invoice \in Invoice /\ cb.number \in Order \cup {None}
          /\ invoices[cb.invoice].status \in PgStatus
      BY <2>1, <2>3 DEF Callback, PgLive, TablesTyped, InvoiceRow
    <3>2. /\ s \in JobState /\ s.phase = "lookup" /\ s.invoice = cb.invoice
          /\ s.seen = invoices[cb.invoice].status
      BY <3>1 DEF IdleJob, JobState
    <3>3. job' = [job EXCEPT ![j] = s]
      BY <1>1, <2>3 DEF CallbackFetch, BecomeJob
    <3> HIDE DEF s
    <3> QED
      BY <2>2, <3>1, <3>2, <3>3, JobMoves DEF JobFits
  <2>4. CASE ~PgLive(cb.invoice)
    BY <1>1, <2>2, <2>4, TablesMove DEF CallbackFetch
  <2> QED
    BY <2>3, <2>4
<1>2. CASE CallbackLookup(j)
  <2>1. RowsStay /\ TablesTyped' /\ SurveysInv' /\ LeadsSaved' /\ handler' = handler /\ orders' = orders
    BY <1>2, TablesStay DEF CallbackLookup
  <2>2. ASSUME NEW o \in Found(s0.invoice, s0.number),
               BecomeJob(j, [s0 EXCEPT !.phase = "apply", !.order = o, !.row = orders[o]])
        PROVE  OrdersInv'
    <3> DEFINE s == [s0 EXCEPT !.phase = "apply", !.order = o, !.row = orders[o]]
    <3>1. o \in Order /\ orders[o] \in OrderRow
      BY DEF Found, LeadsSaved, SurveysInv, SurveysTypeOK
    <3>2. s0.invoice \in Invoice /\ s0.seen \in PgStatus
      BY <1>0, <1>2 DEF CallbackLookup, JobFits
    <3>3. /\ s \in JobState /\ s.invoice = s0.invoice /\ s.seen = s0.seen
          /\ s.order = o /\ s.row = orders[o]
      BY <1>0, <3>1 DEF JobState
    <3>4. job' = [job EXCEPT ![j] = s]
      BY <2>2 DEF BecomeJob
    <3> HIDE DEF s
    <3> QED
      BY <2>1, <3>1, <3>2, <3>3, <3>4, JobMoves DEF JobFits
  <2>3. CASE BecomeJob(j, IdleJob)
    BY <2>1, <2>3, IdleTypes, JobMoves DEF BecomeJob, JobFits
  <2> QED
    BY <1>2, <2>2, <2>3 DEF CallbackLookup
<1>3. CASE CallbackApply(j)
  <2> DEFINE payment == Payment(s0.seen, s0.row.payment)
             s == [s0 EXCEPT !.phase = "ledger", !.row.payment = payment]
  <2>1. /\ s0.order \in Order /\ orders[s0.order] \in OrderRow /\ s0.row \in OrderRow
        /\ s0.invoice \in Invoice /\ s0.seen \in PgStatus
    BY <1>0, <1>3 DEF CallbackApply, JobFits
  <2>2. payment \in PaymentStatus
    BY <2>1 DEF Payment, PgStatus, PaymentStatus, OrderRow
  <2>3. \/ orders' = [orders EXCEPT ![s0.order] = [orders[s0.order] EXCEPT !.payment = payment]]
        \/ orders' = orders
    BY <1>3 DEF CallbackApply
  <2>4. job' = [job EXCEPT ![j] = s]
    BY <1>3 DEF CallbackApply, BecomeJob
  <2> HIDE DEF payment
  <2>5. [s0.row EXCEPT !.payment = payment] \in OrderRow
        /\ [orders[s0.order] EXCEPT !.payment = payment] \in OrderRow
    BY <2>1, <2>2, ColumnTypes
  <2>6. RowsStay /\ TablesTyped' /\ SurveysInv' /\ LeadsSaved' /\ handler' = handler
    BY <1>3, <2>1, <2>3, <2>5, SurveysStay DEF CallbackApply, RowsStay, TablesTyped, LeadsSaved
  <2>7. /\ s \in JobState /\ s.invoice = s0.invoice /\ s.seen = s0.seen
        /\ s.order = s0.order /\ s.row \in OrderRow
    BY <1>0, <2>1, <2>5 DEF JobState
  <2> HIDE DEF s
  <2> QED
    BY <2>1, <2>4, <2>6, <2>7, JobMoves DEF JobFits, RowsStay
<1>4. CASE CallbackLedger(j)
  <2>1. s0.order \in Order /\ s0.row \in OrderRow
    BY <1>0, <1>4 DEF CallbackLedger, JobFits
  <2>2. LedgerOf(s0.row) \in LedgerRow
    BY <2>1 DEF LedgerOf, LedgerRow, OrderRow
  <2>3. ledger' \in [Order -> LedgerRow \cup {None}]
    BY <1>4, <2>1, <2>2, LedgerTypes DEF CallbackLedger, TablesTyped
  <2>4. RowsStay /\ TablesTyped' /\ SurveysInv' /\ LeadsSaved' /\ handler' = handler
    BY <1>4, <2>3, SurveysStay DEF CallbackLedger, RowsStay, TablesTyped, LeadsSaved
  <2> QED
    BY <1>4, <2>4, IdleTypes, JobMoves DEF CallbackLedger, BecomeJob, JobFits
<1>5. CASE CallbackFails(j)
  <2>1. RowsStay /\ TablesTyped' /\ SurveysInv' /\ LeadsSaved' /\ handler' = handler
    BY <1>5, TablesStay DEF CallbackFails
  <2> QED
    BY <1>5, <2>1, IdleTypes, JobMoves DEF CallbackFails, BecomeJob, JobFits
<1> QED
  BY <1>1, <1>2, <1>3, <1>4, <1>5 DEF JobGoesOn

\* What happens outside: payments at the gateway and lost calls.
LEMMA OutsideTypes ==
  ASSUME OrdersInv,
         \/ \E cb \in callbacks : CallbackLost(cb)
         \/ \E i \in Invoice, status \in PgMoves : PgStatusChange(i, status)
  PROVE  OrdersInv'
<1> USE DEF OrdersInv
<1>1. ASSUME NEW cb \in callbacks, CallbackLost(cb)
      PROVE  OrdersInv'
  <2>1. RowsStay /\ TablesTyped' /\ SurveysInv' /\ LeadsSaved'
    BY <1>1, SurveysStay DEF CallbackLost, RowsStay, TablesTyped, LeadsSaved
  <2> QED
    BY <1>1, <2>1, TablesMove DEF CallbackLost
<1>2. ASSUME NEW i \in Invoice, NEW status \in PgMoves, PgStatusChange(i, status)
      PROVE  OrdersInv'
  <2>1. invoices[i] \in InvoiceRow /\ status \in PgStatus
    BY <1>2, OrderConstants DEF PgStatusChange, TablesTyped
  <2> DEFINE row == [invoices[i] EXCEPT !.status = status,
                                        !.settled = invoices[i].settled \/ status = "paid"]
  <2>2. row \in InvoiceRow
    BY <2>1 DEF InvoiceRow
  <2>3. invoices' = [invoices EXCEPT ![i] = row]
    BY <1>2, <2>1 DEF PgStatusChange
  <2> HIDE DEF row
  <2>4. invoices[i].number \in Order
    BY <2>1 DEF InvoiceRow
  <2>5. callbacks' \subseteq Callback
    BY <1>2, <2>4 DEF PgStatusChange, TablesTyped, Callback
  <2>6. RowsStay /\ TablesTyped' /\ SurveysInv' /\ LeadsSaved'
    BY <1>2, <2>1, <2>2, <2>3, <2>5, SurveysStay DEF PgStatusChange, RowsStay, TablesTyped, LeadsSaved
  <2> QED
    BY <1>2, <2>6, TablesMove DEF PgStatusChange
<1> QED
  BY <1>1, <1>2

\* A step of the surveys controller leaves the leads component alone.
LEMMA SurveyStepTypes ==
  ASSUME OrdersInv, SurveyStep
  PROVE  OrdersInv'
<1>1. SurveysInv'
  BY ControllerKeepsTypes DEF OrdersInv, SurveyStep
<1>2. leads' = leads
  BY DEF SurveyStep, ControllerNext, HandlerStep, SurveyCreate, SurveyUpdate, SurveyLog,
         SurveyCreateNotify, SurveyUpdateWrite, SurveyLogStatus, SurveyLogInsert, SurveyCallFails,
         SurveyRemove
<1>3. RowsStay /\ TablesTyped' /\ LeadsSaved' /\ handler' = handler /\ job' = job
  BY <1>2 DEF SurveyStep, orderVars, OrdersInv, RowsStay, TablesTyped, LeadsSaved
<1> QED
  BY <1>1, <1>3, TablesMove

\* Every step of the system keeps the invariant.
LEMMA OrdersInvStep ==
  ASSUME OrdersInv, [Next]_vars
  PROVE  OrdersInv'
<1>1. CASE UNCHANGED vars
  BY <1>1, SurveysStay
  DEF vars, orderVars, OrdersInv, TablesTyped, LeadsSaved, Fits, JobFits
<1>2. ASSUME NEW w \in Worker, HandlerStarts(w) \/ HandlerGoesOn(w)
      PROVE  OrdersInv'
  BY <1>2, StartTypes, CreateTypes, UpdateInvoiceTypes, UpdateSaveTypes, RejectTypes, RemoveTypes
  DEF HandlerGoesOn
<1>3. ASSUME NEW w \in Worker, HandlerFails(w)
      PROVE  OrdersInv'
  BY <1>3, TablesStay, ReturnTypes DEF HandlerFails
<1> QED
  BY <1>1, <1>2, <1>3, CreateTypes, JobTypes, OutsideTypes, SurveyStepTypes DEF Next

\* The invariant holds of the empty tables.
LEMMA OrdersInvInit ==
  ASSUME Init
  PROVE  OrdersInv
<1>1. SurveysInv
  BY SurveysInvInit DEF Init
<1>2. TablesTyped /\ LeadsSaved
  BY DEF Init, SurveysInit, TablesTyped, LeadsSaved
<1>3. /\ handler \in [Worker -> Handler] /\ \A w \in Worker : Fits(handler[w], orders, invoices)
      /\ job \in [Job -> JobState] /\ \A j \in Job : JobFits(job[j], orders)
  BY IdleTypes DEF Init, Fits, JobFits, ClaimPhase
<1> QED
  BY <1>1, <1>2, <1>3 DEF OrdersInv

\* All tables, handlers, jobs and waiting calls of the system keep their types,
\* whatever interleaves, fails or is lost, for all values of the constants.
THEOREM OrdersTypes == Spec => []TypeOK
<1>1. OrdersInv => TypeOK
  BY DEF OrdersInv, TablesTyped, SurveysInv, TypeOK
<1> QED
  BY <1>1, OrdersInvInit, OrdersInvStep, PTL DEF Spec

-----------------------------------------------------------------------------
(* The surveys component inside the leads component *)

\* Orders and surveys agree on which orders were ever saved, the number an
\* insertion has reserved is its own, and an order whose requests are about to
\* go is gone already.
ServedInv ==
  /\ OrdersInv
  /\ \A s \in Survey : surveys[s].order # None => orders[surveys[s].order] # None
  /\ \A w \in Worker : handler[w].phase = "insert" /\ handler[w].order # None =>
       /\ orders[handler[w].order] = None
       /\ \A v \in Worker : handler[v].order = handler[w].order => v = w
  /\ \A w \in Worker : handler[w].phase = "remove_requests" => handler[w].order \notin leads

\* No order is saved for the first time.
SameOrders == \A o \in Order : orders'[o] = None <=> orders[o] = None

\* No survey comes to an order or changes to another.
SameRequests ==
  \A s \in Survey : surveys'[s].order # None => surveys'[s].order = surveys[s].order

\* The order a handler takes up: its own, one that is saved, or a number that is
\* reserved for nobody.
TakesUp(h, g) ==
  \/ g.order = None
  \/ g.order = h.order /\ (g.phase = "insert" => h.phase = "insert")
  \/ g.order \in Order /\ orders[g.order] # None /\ g.phase # "insert"
  \/ g.order \in Order /\ orders[g.order] = None /\ \A v \in Worker : handler[v].order # g.order

\* What a request says of its order stays true when no order comes or goes.
LEMMA RequestsKnow ==
  ASSUME ServedInv, SameOrders, SameRequests
  PROVE  \A s \in Survey : surveys'[s].order # None => orders'[surveys'[s].order] # None
<1> SUFFICES ASSUME NEW s \in Survey, surveys'[s].order # None
             PROVE  orders'[surveys'[s].order] # None
  OBVIOUS
<1>1. PICK o : o = surveys'[s].order /\ o = surveys[s].order
  BY DEF SameRequests
<1>2. surveys[s] \in SurveyRow
  BY DEF ServedInv, OrdersInv, SurveysInv, SurveysTypeOK
<1>3. o \in Order /\ orders[o] # None
  BY <1>1, <1>2 DEF ServedInv, SurveyRow
<1> QED
  BY <1>1, <1>3 DEF SameOrders

\* A worker's step that saves no new order keeps ServedInv when the worker takes
\* up an order as above, and removes no requests of an order that is there.
LEMMA WorkerServes ==
  ASSUME ServedInv, OrdersInv', SameOrders, SameRequests, leads' \subseteq leads,
         NEW w \in Worker, \A v \in Worker \ {w} : handler'[v] = handler[v],
         TakesUp(handler[w], handler'[w]),
         handler'[w].phase = "remove_requests" => handler'[w].order \notin leads'
  PROVE  ServedInv'
<1> DEFINE h == handler'[w]
<1>1. ASSUME NEW v \in Worker PROVE handler[v] \in Handler /\ handler'[v] \in Handler
  BY DEF ServedInv, OrdersInv
<1>2. ASSUME NEW v \in Worker, handler'[v].phase = "insert", handler'[v].order # None
      PROVE  /\ orders'[handler'[v].order] = None
             /\ \A u \in Worker : handler'[u].order = handler'[v].order => u = v
  <2>1. CASE v # w
    <3>1. handler'[v] = handler[v] /\ orders[handler[v].order] = None
      BY <1>2, <2>1 DEF ServedInv
    <3>2. handler[v].order \in Order
      BY <1>1, <1>2, <3>1 DEF Handler
    <3>3. h.order # handler[v].order
      BY <1>2, <2>1, <3>1, <3>2 DEF ServedInv, TakesUp
    <3> QED
      BY <1>2, <3>1, <3>2, <3>3 DEF ServedInv, SameOrders
  <2>2. CASE v = w
    <3>1. h.order \in Order /\ orders[h.order] = None /\ h.phase = "insert"
      BY <1>1, <1>2, <2>2 DEF ServedInv, Handler, TakesUp
    <3>2. \A u \in Worker \ {w} : handler[u].order # h.order
      BY <1>2, <2>2, <3>1 DEF ServedInv, TakesUp
    <3> QED
      BY <2>2, <3>1, <3>2 DEF SameOrders
  <2> QED
    BY <2>1, <2>2
<1>3. ASSUME NEW v \in Worker, handler'[v].phase = "remove_requests"
      PROVE  handler'[v].order \notin leads'
  BY <1>3 DEF ServedInv
<1> QED
  BY <1>2, <1>3, RequestsKnow DEF ServedInv

\* Nobody's handler moves and no order is new.
LEMMA OthersServe ==
  ASSUME ServedInv, OrdersInv', SameOrders, SameRequests, leads' = leads, handler' = handler
  PROVE  ServedInv'
<1>1. ASSUME NEW w \in Worker, handler[w].phase = "insert", handler[w].order # None
      PROVE  orders'[handler[w].order] = None
  <2>1. handler[w].order \in Order
    BY <1>1 DEF Handler, ServedInv, OrdersInv
  <2> QED
    BY <1>1, <2>1 DEF ServedInv, SameOrders
<1> QED
  BY <1>1, RequestsKnow DEF ServedInv

\* A row that is written over leaves the same orders saved.
LEMMA RowsWritten ==
  ASSUME OrdersInv, NEW o \in Order, orders[o] \in OrderRow, NEW row,
         orders' = [orders EXCEPT ![o] = row], row \in OrderRow
  PROVE  SameOrders
BY NoneIsNoRow DEF SameOrders, OrdersInv, TablesTyped

\* Handlers that start, and steps of the gateway: a number is reserved, or an
\* order is taken up that is there.
LEMMA StartServes ==
  ASSUME ServedInv, OrdersInv', NEW w \in Worker,
         HandlerStarts(w) \/ CreateInvoice(w) \/ CreateInvoiceFails(w)
  PROVE  ServedInv' /\ UNCHANGED surveyVars
<1>0. handler \in [Worker -> Handler] /\ IdleHandler.order = None
      /\ \A o \in leads : o \in Order /\ orders[o] # None
  BY NoneIsNoRow DEF ServedInv, OrdersInv, LeadsSaved, SurveysInv, SurveysTypeOK, IdleHandler
<1>1. UNCHANGED surveyVars /\ orders' = orders
  BY DEF HandlerStarts, CreateOrder, UpdateRead, RejectRead, RemoveRead, CreateInvoice, CreateInvoiceFails
<1>2. SameOrders /\ SameRequests /\ leads' \subseteq leads
  BY <1>1 DEF SameOrders, SameRequests, surveyVars
<1>3. \A v \in Worker \ {w} : handler'[v] = handler[v]
  BY OthersWait DEF HandlerGoesOn, ServedInv
<1>4. TakesUp(handler[w], handler'[w]) /\ handler'[w].phase # "remove_requests"
  <2>1. ASSUME NEW dto \in OrderDto, NEW admin \in BOOLEAN, CreateOrder(w, dto, admin)
        PROVE  handler'[w].order = None /\ handler'[w].phase # "remove_requests"
    BY <1>0, <2>1 DEF CreateOrder, Become, IdleHandler
  <2>2. ASSUME NEW o \in Order,
               \/ \E accept \in BOOLEAN : UpdateRead(w, o, accept)
               \/ RejectRead(w, o) \/ RemoveRead(w, o)
        PROVE  /\ handler'[w].order = o /\ orders[o] # None
               /\ handler'[w].phase \in {"update", "reject", "remove"}
    BY <1>0, <2>2 DEF UpdateRead, RejectRead, RemoveRead, Become, IdleHandler
  <2>3. ASSUME CreateInvoice(w)
        PROVE  \E o \in Order : /\ handler'[w].order = o /\ orders[o] = None
                                /\ \A v \in Worker : handler[v].order # o
                                /\ handler'[w].phase = "insert"
    <3>1. PICK o \in Order, i \in Invoice :
            /\ FreshNumber(o)
            /\ handler'[w] = [handler[w] EXCEPT !.phase = "insert", !.order = o, !.row.external = i]
      BY <1>0, <2>3 DEF CreateInvoice, Become
    <3>2. handler'[w].order = o /\ handler'[w].phase = "insert"
      BY <1>0, <3>1 DEF Handler
    <3> QED
      BY <3>1, <3>2 DEF FreshNumber
  <2>4. ASSUME CreateInvoiceFails(w)
        PROVE  \/ handler'[w].order = None /\ handler'[w].phase # "remove_requests"
               \/ handler'[w].order = handler[w].order /\ handler'[w].phase = "create"
    <3>1. handler[w].phase = "create"
          /\ (handler'[w] = IdleHandler \/ handler'[w] = [handler[w] EXCEPT !.retry = @ + 1])
      BY <1>0, <2>4 DEF CreateInvoiceFails, Return, Become
    <3> QED
      BY <1>0, <3>1, IdleTypes DEF Handler
  <2> QED
    BY <2>1, <2>2, <2>3, <2>4 DEF HandlerStarts, TakesUp
<1> QED
  BY <1>1, <1>2, <1>3, <1>4, WorkerServes

\* A new order and its two requests are saved as Surveys says.
LEMMA InsertServes ==
  ASSUME ServedInv, OrdersInv', NEW w \in Worker, InsertOrder(w)
  PROVE  ServedInv' /\ ("lead" \in SurveyOps => LeadNext)
<1>0. handler \in [Worker -> Handler] /\ \A v \in Worker : handler[v] \in Handler
  BY DEF ServedInv, OrdersInv
<1>1. PICK o \in Order, d \in RequestDriver, e \in RequestDriver :
        /\ SavedNumber(w, o) /\ InsertRequests(o, d, e) /\ leads' = leads \cup {o}
        /\ orders' = [orders EXCEPT ![o] = handler[w].row]
        /\ handler' = [handler EXCEPT ![w] = [handler[w] EXCEPT !.phase = "create_ledger", !.order = o]]
  BY DEF InsertOrder, Become
<1>2. handler[w].phase = "insert" /\ handler[w].row \in OrderRow
  BY <1>0 DEF InsertOrder, ServedInv, OrdersInv, Fits
<1>3. orders[o] = None /\ \A v \in Worker \ {w} : handler[v].order # o
  <2>1. CASE handler[w].order = None
    BY <1>1, <2>1 DEF SavedNumber, FreshNumber
  <2>2. CASE handler[w].order # None
    BY <1>1, <1>2, <2>2 DEF SavedNumber, ServedInv
  <2> QED
    BY <2>1, <2>2
<1>4. /\ orders'[o] # None /\ \A p \in Order \ {o} : orders'[p] = orders[p]
      /\ handler'[w].phase = "create_ledger" /\ handler'[w].order = o
      /\ \A v \in Worker \ {w} : handler'[v] = handler[v]
  BY <1>0, <1>1, <1>2, NoneIsNoRow DEF ServedInv, OrdersInv, TablesTyped, Handler
<1>5. \A s \in Survey : surveys[s] \in SurveyRow
  BY DEF ServedInv, OrdersInv, SurveysInv, SurveysTypeOK
<1>6. \A s \in Survey : surveys'[s] = surveys[s] \/ surveys'[s].order = o
  <2>1. PICK r1 \in Survey, r2 \in Survey :
          surveys' = [surveys EXCEPT ![r1] = RequestRow(o, "delivery", d),
                                     ![r2] = RequestRow(o, "pick_up", e)]
    BY <1>1 DEF InsertRequests, Unused
  <2>2. ASSUME NEW type, NEW driver PROVE RequestRow(o, type, driver).order = o
    BY DEF RequestRow, AbsentRow
  <2> QED
    BY <2>1, <2>2 DEF ServedInv, OrdersInv, SurveysInv, SurveysTypeOK
<1>7. ASSUME NEW s \in Survey, surveys'[s].order # None
      PROVE  orders'[surveys'[s].order] # None
  BY <1>4, <1>5, <1>6, <1>7 DEF ServedInv, SurveyRow
<1>8. ASSUME NEW v \in Worker, handler'[v].phase = "insert", handler'[v].order # None
      PROVE  /\ orders'[handler'[v].order] = None
             /\ \A u \in Worker : handler'[u].order = handler'[v].order => u = v
  <2>1. v # w /\ handler'[v] = handler[v] /\ handler[v].order \in Order \ {o}
    BY <1>0, <1>3, <1>4, <1>8 DEF Handler
  <2> QED
    BY <1>4, <1>8, <2>1 DEF ServedInv
<1>9. ASSUME NEW v \in Worker, handler'[v].phase = "remove_requests"
      PROVE  handler'[v].order \notin leads'
  <2>1. v # w /\ handler'[v] = handler[v] /\ handler[v].order # o
    BY <1>3, <1>4, <1>9
  <2> QED
    BY <1>1, <1>9, <2>1 DEF ServedInv
<1>10. \A s \in Survey : surveys[s].order # o
  <2>1. o # None
    BY SurveyConstants
  <2> QED
    BY <1>3, <2>1 DEF ServedInv
<1>11. "lead" \in SurveyOps => LeadSaved(o, d, e)
  BY <1>1, <1>10 DEF LeadSaved, InsertOrder
<1> QED
  BY <1>7, <1>8, <1>9, <1>11 DEF ServedInv, LeadNext

\* The requests of an order go after the order, as Surveys says.
LEMMA RemoveServes ==
  ASSUME ServedInv, OrdersInv', NEW w \in Worker, RemoveOrder(w) \/ RemoveRequests(w)
  PROVE  ServedInv' /\ (LeadNext \/ UNCHANGED surveyVars)
<1>o. PICK o : o = handler[w].order
  OBVIOUS
<1>0. handler \in [Worker -> Handler] /\ handler[w] \in Handler /\ o \in Order
      /\ surveys \in [Survey -> SurveyRow]
  BY <1>o DEF ServedInv, OrdersInv, SurveysInv, SurveysTypeOK, Fits, RemoveOrder, RemoveRequests
<1>1. SameOrders /\ \A v \in Worker \ {w} : handler'[v] = handler[v]
  BY OthersWait DEF SameOrders, RemoveOrder, RemoveRequests, HandlerGoesOn, ServedInv
<1>2. handler'[w].order = o
      /\ handler'[w].phase = IF RemoveOrder(w) THEN "remove_requests" ELSE "remove_ledger"
  BY <1>o, <1>0 DEF RemoveOrder, RemoveRequests, Proceed, Handler
<1>3. TakesUp(handler[w], handler'[w])
  BY <1>o, <1>2 DEF TakesUp
<1>4. CASE RemoveOrder(w)
  <2>1. leads' = leads \ {o} /\ surveys' = surveys /\ UNCHANGED <<surveyLogs, notified, call>>
    BY <1>o, <1>4 DEF RemoveOrder
  <2>2. SameRequests
    BY <2>1 DEF SameRequests
  <2>3. ServedInv'
    BY <1>1, <1>2, <1>3, <2>1, <2>2, WorkerServes
  <2>4. LeadDeleted(o) \/ UNCHANGED surveyVars
    BY <2>1 DEF LeadDeleted, surveyVars
  <2> QED
    BY <1>0, <2>3, <2>4 DEF LeadNext
<1>5. CASE RemoveRequests(w)
  <2>1. leads' = leads /\ surveys' = SoftDeleteRequests(o) /\ UNCHANGED <<surveyLogs, notified, call>>
    BY <1>o, <1>5 DEF RemoveRequests, RequestsRemoved
  <2>2. o \notin leads
    BY <1>o, <1>5 DEF RemoveRequests, ServedInv
  <2>3. \A s \in Survey : /\ surveys'[s].order = surveys[s].order
                          /\ ~(Live(s) /\ surveys[s].order = o) => surveys'[s] = surveys[s]
    BY <1>0, <2>1 DEF SoftDeleteRequests, SurveyRow
  <2>4. SameRequests
    BY <2>3 DEF SameRequests
  <2>5. handler'[w].phase # "remove_requests"
    BY <1>2, <1>5 DEF RemoveOrder, RemoveRequests
  <2>6. ServedInv'
    BY <1>1, <1>3, <2>1, <2>4, <2>5, WorkerServes
  <2>7. CASE \E s \in Survey : Live(s) /\ surveys[s].order = o
    <3>1. RemoveByOrderId(o)
      BY <2>1 DEF RemoveByOrderId
    <3> QED
      BY <1>0, <2>2, <2>6, <2>7, <3>1 DEF LeadNext
  <2>8. CASE ~\E s \in Survey : Live(s) /\ surveys[s].order = o
    <3>1. surveys' = [s \in Survey |-> surveys[s]]
      BY <2>1, <2>8 DEF SoftDeleteRequests
    <3>2. surveys' = surveys
      BY <1>0, <3>1
    <3> QED
      BY <2>1, <2>6, <3>2 DEF surveyVars
  <2> QED
    BY <2>7, <2>8
<1> QED
  BY <1>4, <1>5

\* The other steps of a worker touch neither surveys nor what decides about them.
LEMMA GoingServes ==
  ASSUME ServedInv, OrdersInv', NEW w \in Worker,
         \/ CreateLedger(w) \/ (\E dto \in OrderDto : UpdateCheck(w, dto))
         \/ UpdateDeleteInvoice(w) \/ UpdateNewInvoice(w) \/ UpdateInvoice(w) \/ UpdateInvoiceGone(w)
         \/ UpdateLogStatus(w) \/ UpdateLedger(w) \/ UpdateSave(w)
         \/ RejectWrite(w) \/ RejectLog(w) \/ RemoveGetInvoice(w) \/ RemoveInvoice(w)
         \/ RemoveLedger(w) \/ HandlerFails(w)
  PROVE  ServedInv' /\ UNCHANGED surveyVars
<1>0. handler \in [Worker -> Handler] /\ handler[w] \in Handler
  BY DEF ServedInv, OrdersInv
<1>1. UNCHANGED surveyVars
  BY DEF CreateLedger, UpdateCheck, UpdateDeleteInvoice, UpdateNewInvoice, UpdateInvoice,
         UpdateInvoiceGone, UpdateLogStatus, UpdateLedger, UpdateSave, RejectWrite, RejectLog,
         RemoveGetInvoice, RemoveInvoice, RemoveLedger, HandlerFails
<1>2. SameRequests /\ leads' = leads
  BY <1>1 DEF SameRequests, surveyVars
<1>3. \A v \in Worker \ {w} : handler'[v] = handler[v]
  BY OthersWait DEF HandlerGoesOn, ServedInv
<1>4. SameOrders
  <2>1. CASE UpdateSave(w)
    <3>1. /\ handler[w].dto \in OrderDto /\ handler[w].row \in OrderRow
          /\ handler[w].order \in Order /\ orders[handler[w].order] \in OrderRow
      BY <2>1 DEF UpdateSave, ServedInv, OrdersInv, Fits, ClaimPhase
    <3>2. Saved(handler[w].order, handler[w].row, handler[w].dto) \in OrderRow
      BY <3>1, WithDtoTypes DEF Saved
    <3> QED
      BY <2>1, <3>1, <3>2, RowsWritten DEF UpdateSave, ServedInv
  <2>2. CASE RejectWrite(w)
    <3>1. handler[w].order \in Order /\ orders[handler[w].order] \in OrderRow
      BY <2>2 DEF RejectWrite, ServedInv, OrdersInv, Fits
    <3>2. orders' = [orders EXCEPT ![handler[w].order] =
                       [orders[handler[w].order] EXCEPT !.status = "rejected"]]
      BY <2>2 DEF RejectWrite
    <3> QED
      BY <3>1, <3>2, ColumnTypes, RowsWritten DEF ServedInv
  <2>3. CASE orders' = orders
    BY <2>3 DEF SameOrders
  <2> QED
    BY <2>1, <2>2, <2>3
    DEF CreateLedger, UpdateCheck, UpdateDeleteInvoice, UpdateNewInvoice, UpdateInvoice,
        UpdateInvoiceGone, UpdateLogStatus, UpdateLedger, RejectLog,
        RemoveGetInvoice, RemoveInvoice, RemoveLedger, HandlerFails
<1>5. /\ handler'[w].order \in {handler[w].order, None}
      /\ handler'[w].phase \notin {"insert", "remove_requests"}
  <2>1. IdleHandler.order = None /\ IdleHandler.phase = "idle"
    BY DEF IdleHandler
  <2>2. ASSUME NEW g \in {IdleHandler}, Become(w, g)
        PROVE  handler'[w].order = None /\ handler'[w].phase = "idle"
    BY <1>0, <2>1, <2>2 DEF Become
  <2>3. ASSUME NEW phase, Proceed(w, phase)
        PROVE  handler'[w].order = handler[w].order /\ handler'[w].phase = phase
    BY <1>0, <2>3 DEF Proceed, Handler
  <2>4. ASSUME NEW accept
        PROVE  AfterInvoice(accept) \in {"log_status", "update_ledger"}
    BY DEF AfterInvoice
  <2>5. CASE \E dto \in OrderDto : UpdateCheck(w, dto)
    <3>1. PICK dto \in OrderDto : UpdateCheck(w, dto)
      BY <2>5
    <3> DEFINE next == AfterCheck(handler[w].row, dto, handler[w].accept)
    <3>2. \/ Become(w, [handler[w] EXCEPT !.phase = next, !.dto = dto])
          \/ Return(w)
      BY <3>1 DEF UpdateCheck
    <3>3. next \notin {"insert", "remove_requests"}
      BY <2>4 DEF AfterCheck
    <3> HIDE DEF next
    <3> QED
      BY <1>0, <2>2, <3>2, <3>3 DEF Become, Return, Handler
  <2>6. CASE UpdateNewInvoice(w)
    <3>1. PICK i \in Invoice :
            Become(w, [handler[w] EXCEPT !.phase = AfterInvoice(handler[w].accept), !.row.external = i])
      BY <2>6 DEF UpdateNewInvoice
    <3> QED
      BY <1>0, <2>4, <3>1 DEF Become, Handler
  <2>7. CASE UpdateLogStatus(w)
    BY <1>0, <2>7 DEF UpdateLogStatus, Become, Handler
  <2>8. CASE UpdateInvoice(w)
    BY <2>3, <2>4, <2>8 DEF UpdateInvoice
  <2>9. CASE \/ CreateLedger(w) \/ UpdateInvoiceGone(w) \/ UpdateSave(w) \/ RejectLog(w)
             \/ RemoveLedger(w) \/ HandlerFails(w)
    BY <2>2, <2>9
    DEF CreateLedger, UpdateInvoiceGone, UpdateSave, RejectLog, RemoveLedger, HandlerFails, Return
  <2>10. CASE \/ UpdateDeleteInvoice(w) \/ UpdateLedger(w) \/ RejectWrite(w) \/ RemoveInvoice(w)
    BY <2>3, <2>10 DEF UpdateDeleteInvoice, UpdateLedger, RejectWrite, RemoveInvoice
  <2>11. CASE RemoveGetInvoice(w)
    <3>1. Return(w) \/ Proceed(w, "remove_invoice") \/ Proceed(w, "remove_order")
      BY <2>11 DEF RemoveGetInvoice
    <3> QED
      BY <2>2, <2>3, <3>1 DEF Return
  <2> QED
    BY <2>5, <2>6, <2>7, <2>8, <2>9, <2>10, <2>11
<1>6. TakesUp(handler[w], handler'[w])
  BY <1>5 DEF TakesUp
<1> QED
  BY <1>1, <1>2, <1>3, <1>4, <1>5, <1>6, WorkerServes

\* pgCallback and the systems outside change neither surveys nor handlers.
LEMMA OutsideServes ==
  ASSUME ServedInv, OrdersInv',
         \/ \E j \in Job : \/ \E cb \in callbacks : CallbackFetch(j, cb)
                           \/ JobGoesOn(j) \/ CallbackFails(j)
         \/ \E cb \in callbacks : CallbackLost(cb)
         \/ \E i \in Invoice, status \in PgMoves : PgStatusChange(i, status)
  PROVE  ServedInv' /\ UNCHANGED surveyVars
<1>1. UNCHANGED surveyVars /\ handler' = handler
  BY DEF CallbackFetch, JobGoesOn, CallbackLookup, CallbackApply, CallbackLedger,
         CallbackFails, CallbackLost, PgStatusChange
<1>2. SameOrders
  <2>1. ASSUME NEW j \in Job, CallbackApply(j) PROVE SameOrders
    <3> DEFINE o == job[j].order
               payment == Payment(job[j].seen, job[j].row.payment)
    <3>1. /\ o \in Order /\ orders[o] \in OrderRow
          /\ job[j].row \in OrderRow /\ job[j].seen \in PgStatus
      BY <2>1 DEF CallbackApply, ServedInv, OrdersInv, JobFits
    <3>2. payment \in PaymentStatus
      BY <3>1 DEF Payment, PgStatus, PaymentStatus, OrderRow
    <3>3. orders' = orders \/ orders' = [orders EXCEPT ![o] = [orders[o] EXCEPT !.payment = payment]]
      BY <2>1 DEF CallbackApply
    <3> HIDE DEF o, payment
    <3>4. [orders[o] EXCEPT !.payment = payment] \in OrderRow
      BY <3>1, <3>2, ColumnTypes
    <3>5. CASE orders' = orders
      BY <3>5 DEF SameOrders
    <3> QED
      BY <3>1, <3>3, <3>4, <3>5, RowsWritten DEF ServedInv
  <2>2. CASE orders' = orders
    BY <2>2 DEF SameOrders
  <2> QED
    BY <2>1, <2>2 DEF CallbackFetch, JobGoesOn, CallbackLookup, CallbackLedger,
                      CallbackFails, CallbackLost, PgStatusChange
<1>3. SameRequests /\ leads' = leads
  BY <1>1 DEF SameRequests, surveyVars
<1> QED
  BY <1>1, <1>2, <1>3, OthersServe

\* A step of the surveys controller leaves every request with its order.
LEMMA ControllerServes ==
  ASSUME ServedInv, OrdersInv', SurveyStep
  PROVE  ServedInv' /\ ControllerNext
<1>1. handler' = handler /\ SameOrders
  BY DEF SurveyStep, orderVars, SameOrders
<1>2. SameRequests /\ leads' = leads
  BY ControllerKeepsOrders DEF SurveyStep, ServedInv, OrdersInv, SameRequests
<1> QED
  BY <1>1, <1>2, OthersServe DEF SurveyStep

\* Every step keeps ServedInv and is a step of Surveys.
LEMMA ServedStep ==
  ASSUME ServedInv, [Next]_vars
  PROVE  ServedInv' /\ ("lead" \in SurveyOps => [SurveysNext]_surveyVars)
<1>0. OrdersInv'
  BY OrdersInvStep DEF ServedInv
<1>1. CASE UNCHANGED vars
  BY <1>0, <1>1, OthersServe DEF vars, surveyVars, orderVars, SameOrders, SameRequests
<1>2. ASSUME NEW w \in Worker,
             HandlerStarts(w) \/ HandlerGoesOn(w) \/ CreateInvoiceFails(w) \/ HandlerFails(w)
      PROVE  ServedInv' /\ ("lead" \in SurveyOps => [SurveysNext]_surveyVars)
  <2>1. CASE HandlerStarts(w) \/ CreateInvoice(w) \/ CreateInvoiceFails(w)
    BY <1>0, <2>1, StartServes
  <2>2. CASE InsertOrder(w)
    BY <1>0, <2>2, InsertServes DEF SurveysNext
  <2>3. CASE RemoveOrder(w) \/ RemoveRequests(w)
    BY <1>0, <2>3, RemoveServes DEF SurveysNext
  <2>4. CASE \/ CreateLedger(w) \/ (\E dto \in OrderDto : UpdateCheck(w, dto))
             \/ UpdateDeleteInvoice(w) \/ UpdateNewInvoice(w) \/ UpdateInvoice(w)
             \/ UpdateInvoiceGone(w) \/ UpdateLogStatus(w) \/ UpdateLedger(w) \/ UpdateSave(w)
             \/ RejectWrite(w) \/ RejectLog(w) \/ RemoveGetInvoice(w) \/ RemoveInvoice(w)
             \/ RemoveLedger(w) \/ HandlerFails(w)
    BY <1>0, <2>4, GoingServes
  <2> QED
    BY <1>2, <2>1, <2>2, <2>3, <2>4 DEF HandlerGoesOn
<1>3. ASSUME \/ \E j \in Job : \/ \E cb \in callbacks : CallbackFetch(j, cb)
                               \/ JobGoesOn(j) \/ CallbackFails(j)
             \/ \E cb \in callbacks : CallbackLost(cb)
             \/ \E i \in Invoice, status \in PgMoves : PgStatusChange(i, status)
      PROVE  ServedInv' /\ ("lead" \in SurveyOps => [SurveysNext]_surveyVars)
  BY <1>0, <1>3, OutsideServes
<1>4. CASE SurveyStep
  BY <1>0, <1>4, ControllerServes DEF SurveysNext
<1> QED
  BY <1>1, <1>2, <1>3, <1>4 DEF Next

\* The empty tables agree.
LEMMA ServedInit ==
  ASSUME Init
  PROVE  ServedInv /\ SurveysInit
<1>1. OrdersInv /\ SurveysInit
  BY OrdersInvInit DEF Init
<1> QED
  BY <1>1 DEF Init, SurveysInit, ServedInv, AbsentRow, IdleHandler

\* Every behaviour of the orders, with any number of workers, jobs and callers
\* and with every failure, is one of the surveys component: the orders do to its
\* rows what Surveys says that orders do, in that order.
THEOREM SurveysServed == "lead" \in SurveyOps => (Spec => SurveysAreServed)
<1> SUFFICES ASSUME "lead" \in SurveyOps PROVE Spec => SurveysSpec
  BY DEF SurveysAreServed
<1>1. Init => ServedInv /\ SurveysInit
  BY ServedInit
<1>2. ServedInv /\ [Next]_vars => ServedInv' /\ [SurveysNext]_surveyVars
  BY ServedStep
<1> QED
  BY <1>1, <1>2, PTL DEF Spec, SurveysSpec

\* What the surveys component promises it keeps inside the whole system: whatever
\* the handlers of the orders do, and however many requests are served at once,
\* no request of an order that has both moves,
THEOREM RequestsCannotMoveForOrders ==
  "retype" \notin SurveyOps /\ "lead" \in SurveyOps => (Spec => []RequestsStandStill)
<1> SUFFICES ASSUME "retype" \notin SurveyOps, "lead" \in SurveyOps
             PROVE  Spec => []RequestsStandStill
  OBVIOUS
<1>1. Spec => SurveysSpec
  BY SurveysServed DEF SurveysAreServed
<1>2. SurveysSpec => []RequestsStandStill
  BY RequestsCannotMove
<1> QED
  BY <1>1, <1>2

\* and, with one request of the surveys service at a time, no survey goes back to
\* an earlier status.
THEOREM StatusMovesForwardForOrders ==
  OneCaller /\ "lead" \in SurveyOps => (Spec => StatusNeverGoesBack)
<1> SUFFICES ASSUME OneCaller, "lead" \in SurveyOps PROVE Spec => StatusNeverGoesBack
  OBVIOUS
<1>1. Spec => SurveysSpec
  BY SurveysServed DEF SurveysAreServed
<1>2. SurveysSpec => StatusNeverGoesBack
  BY StatusMovesForward
<1> QED
  BY <1>1, <1>2
=============================================================================
