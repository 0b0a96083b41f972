--------------------------- MODULE PaymentsProofs ---------------------------
(***************************************************************************)
(* What orders and ledger rows say of payments, for any number of workers  *)
(* and jobs, with callbacks lost, repeated and reordered and handlers that *)
(* fail or save what they read long ago.                                   *)
(***************************************************************************)
EXTENDS OrdersProofs

-----------------------------------------------------------------------------
(* The invariant.  Its parts take the invoices as a parameter, so that they   *)
(* can be said of the invoices before and after a step.                       *)

SettledIn(bills, o) ==
  \E i \in Invoice : bills[i] # None /\ bills[i].number = o /\ bills[i].settled

\* The row points to an invoice of the order o and is paid only if o is.
RowPays(row, o, bills) ==
  /\ row.external # None =>
       bills[row.external] # None /\ bills[row.external].number = o
  /\ row.payment = "done" => SettledIn(bills, o)

\* The copy a handler will save, with no invoice while it has no number.
HandlerPays(h, bills) ==
  /\ h.phase = "create" => h.order = None
  /\ h.phase \notin {"idle", "reject", "log_reject"} =>
       IF h.order = None THEN h.row.external = None /\ h.row.payment # "done"
                         ELSE RowPays(h.row, h.order, bills)

\* A job has seen what the gateway said of an invoice of the order it applies
\* that to.
JobPays(s, bills) ==
  /\ s.phase # "idle" =>
       /\ s.invoice # None /\ bills[s.invoice] # None
       /\ s.seen = "paid" => bills[s.invoice].settled
       /\ s.number # None => bills[s.invoice].number = s.number
  /\ s.phase \in {"apply", "ledger"} =>
       /\ bills[s.invoice].number = s.order
       /\ s.row.payment = "done" => SettledIn(bills, s.order)

CallbackPays(cb, bills) ==
  /\ bills[cb.invoice] # None
  /\ cb.number # None => bills[cb.invoice].number = cb.number

InvoicePays(bill) == bill # None /\ bill.status = "paid" => bill.settled

PayInv ==
  /\ OrdersInv
  /\ \A o \in Order : orders[o] # None => RowPays(orders[o], o, invoices)
  /\ \A o \in Order : ledger[o] # None /\ ledger[o].payment = "done" => SettledIn(invoices, o)
  /\ \A w \in Worker : HandlerPays(handler[w], invoices)
  /\ \A j \in Job : JobPays(job[j], invoices)
  /\ \A cb \in callbacks : CallbackPays(cb, invoices)
  /\ \A i \in Invoice : InvoicePays(invoices[i])

\* An invoice keeps its number, and stays settled once it is.
Grow ==
  \A i \in Invoice : invoices[i] # None =>
    /\ invoices'[i] # None /\ invoices'[i].number = invoices[i].number
    /\ invoices[i].settled => invoices'[i].settled

\* What is paid stays paid.
LEMMA SettledGrows ==
  ASSUME Grow, NEW o, SettledIn(invoices, o)
  PROVE  SettledIn(invoices', o)
BY DEF Grow, SettledIn

\* What fits the invoices fits them after they have grown.
LEMMA RowGrows ==
  ASSUME Grow, NEW row \in OrderRow, NEW o, RowPays(row, o, invoices)
  PROVE  RowPays(row, o, invoices')
<1>1. row.external # None => row.external \in Invoice
  BY DEF OrderRow
<1> QED
  BY <1>1, SettledGrows DEF RowPays, Grow

\* The same of handlers, jobs and callbacks.
LEMMA AllGrow ==
  ASSUME OrdersInv, Grow
  PROVE  /\ \A w \in Worker : HandlerPays(handler[w], invoices) => HandlerPays(handler[w], invoices')
         /\ \A j \in Job : JobPays(job[j], invoices) => JobPays(job[j], invoices')
         /\ \A cb \in callbacks : CallbackPays(cb, invoices) => CallbackPays(cb, invoices')
<1>1. ASSUME NEW w \in Worker, HandlerPays(handler[w], invoices)
      PROVE  HandlerPays(handler[w], invoices')
  <2>1. handler[w].phase \notin {"idle", "reject", "log_reject"} => handler[w].row \in OrderRow
    BY DEF OrdersInv, Fits
  <2> QED
    BY <1>1, <2>1, RowGrows DEF HandlerPays
<1>2. ASSUME NEW j \in Job, JobPays(job[j], invoices)
      PROVE  JobPays(job[j], invoices')
  <2>1. job[j].phase # "idle" => job[j].invoice \in Invoice
    BY DEF OrdersInv, JobFits
  <2> QED
    BY <1>2, <2>1, SettledGrows DEF JobPays, Grow
<1>3. ASSUME NEW cb \in callbacks, CallbackPays(cb, invoices)
      PROVE  CallbackPays(cb, invoices')
  BY <1>3 DEF OrdersInv, TablesTyped, Callback, CallbackPays, Grow
<1> QED
  BY <1>1, <1>2, <1>3

\* A step keeps the invariant when what it changes fits the invoices after it.
LEMMA PayStep ==
  ASSUME PayInv, OrdersInv', Grow,
         \A o \in Order : \/ orders'[o] = orders[o]
                          \/ RowPays(orders'[o], o, invoices'),
         \A o \in Order : \/ ledger'[o] = ledger[o]
                          \/ ledger'[o] = None
                          \/ ledger'[o].payment = "done" => SettledIn(invoices', o),
         \A w \in Worker : handler'[w] = handler[w] \/ HandlerPays(handler'[w], invoices'),
         \A j \in Job : job'[j] = job[j] \/ JobPays(job'[j], invoices'),
         \A cb \in callbacks' : cb \in callbacks \/ CallbackPays(cb, invoices'),
         \A i \in Invoice : InvoicePays(invoices'[i])
  PROVE  PayInv'
<1>1. \A o \in Order : orders'[o] # None => RowPays(orders'[o], o, invoices')
  <2>1. \A o \in Order : orders[o] # None => orders[o] \in OrderRow
    BY DEF PayInv, OrdersInv, TablesTyped
  <2> QED
    BY <2>1, RowGrows DEF PayInv
<1>2. \A o \in Order : ledger'[o] # None /\ ledger'[o].payment = "done" => SettledIn(invoices', o)
  BY SettledGrows DEF PayInv
<1>3. /\ \A w \in Worker : HandlerPays(handler'[w], invoices')
      /\ \A j \in Job : JobPays(job'[j], invoices')
      /\ \A cb \in callbacks' : CallbackPays(cb, invoices')
  BY AllGrow DEF PayInv
<1> QED
  BY <1>1, <1>2, <1>3 DEF PayInv

-----------------------------------------------------------------------------
(* Each action keeps the invariant *)

\* A handler moves and the tables of payments do not.
LEMMA StillPays ==
  ASSUME PayInv, OrdersInv', UNCHANGED <<orders, ledger, invoices, callbacks, job>>,
         NEW w \in Worker, NEW g, handler' = [handler EXCEPT ![w] = g], HandlerPays(g, invoices)
  PROVE  PayInv'
<1>1. Grow
  BY DEF Grow
<1>2. \A v \in Worker : handler'[v] = handler[v] \/ HandlerPays(handler'[v], invoices')
  BY DEF PayInv, OrdersInv
<1> QED
  BY <1>1, <1>2, PayStep DEF PayInv

\* A handler goes on with the copy it has, or without one, while a table moves.
LEMMA ProceedPays ==
  ASSUME OrdersInv, PayInv, NEW w \in Worker, NEW phase, Proceed(w, phase), phase # "create",
         \/ phase \in {"idle", "reject", "log_reject"}
         \/ handler[w].phase \notin {"idle", "reject", "log_reject"},
         Grow
  PROVE  \A v \in Worker : handler'[v] = handler[v] \/ HandlerPays(handler'[v], invoices')
<1>1. HandlerPays(handler[w], invoices')
  BY AllGrow DEF PayInv
<1>2. \A v \in Worker : handler'[v] = IF v = w THEN [handler[w] EXCEPT !.phase = phase]
                                              ELSE handler[v]
  BY DEF Proceed, OrdersInv
<1>3. LET g == [handler[w] EXCEPT !.phase = phase] IN
        g.phase = phase /\ g.order = handler[w].order /\ g.row = handler[w].row
  BY DEF OrdersInv, Handler
<1> QED
  BY <1>1, <1>2, <1>3 DEF HandlerPays

\* A handler that ends holds nothing.
LEMMA ReturnPays ==
  ASSUME OrdersInv, NEW w \in Worker, Return(w)
  PROVE  \A v \in Worker : handler'[v] = handler[v] \/ HandlerPays(handler'[v], invoices')
BY IdleTypes DEF Return, Become, HandlerPays, OrdersInv

\* A new invoice is unpaid and has the number it was made with.
LEMMA NewInvoicePays ==
  ASSUME PayInv, NEW i \in Invoice, NEW o \in Order, NEW dto \in OrderDto, PgCreate(i, o, dto)
  PROVE  /\ Grow /\ \A k \in Invoice : InvoicePays(invoices'[k])
         /\ invoices'[i] # None /\ invoices'[i].number = o
<1> DEFINE bill == [number |-> o, customer |-> dto.customer, total |-> dto.total,
                    status |-> "unpaid", settled |-> FALSE, live |-> TRUE]
<1>1. bill \in InvoiceRow /\ bill.status = "unpaid" /\ bill.number = o
  BY DEF InvoiceRow, OrderDto, PgStatus
<1>2. invoices' = [invoices EXCEPT ![i] = bill] /\ invoices[i] = None
  BY DEF PgCreate
<1> HIDE DEF bill
<1> QED
  BY <1>1, <1>2, NoneIsNoRow DEF PayInv, OrdersInv, TablesTyped, Grow, InvoicePays

\* A deleted invoice keeps its number and what was paid.
LEMMA DeletePays ==
  ASSUME PayInv, NEW i \in Invoice, invoices[i] \in InvoiceRow, PgDelete(i)
  PROVE  Grow /\ \A k \in Invoice : InvoicePays(invoices'[k])
<1> DEFINE bill == [invoices[i] EXCEPT !.live = FALSE]
<1>1. /\ bill \in InvoiceRow /\ bill.number = invoices[i].number
      /\ bill.settled = invoices[i].settled /\ bill.status = invoices[i].status
  BY DEF InvoiceRow
<1>2. invoices' = [invoices EXCEPT ![i] = bill]
  BY DEF PgDelete
<1> HIDE DEF bill
<1> QED
  BY <1>1, <1>2, NoneIsNoRow DEF PayInv, OrdersInv, TablesTyped, Grow, InvoicePays

\* So does an invoice whose customer and items change; a larger total can only
\* take the status back from paid.
LEMMA ChangePays ==
  ASSUME PayInv, NEW i \in Invoice, invoices[i] \in InvoiceRow, NEW dto \in OrderDto,
         PgUpdate(i, dto)
  PROVE  Grow /\ \A k \in Invoice : InvoicePays(invoices'[k])
<1> DEFINE bill == [invoices[i] EXCEPT
             !.customer = dto.customer, !.total = dto.total,
             !.status = IF @ = "paid" /\ dto.total > invoices[i].total
                          THEN "partially paid" ELSE @]
<1>1. /\ bill \in InvoiceRow /\ bill.number = invoices[i].number
      /\ bill.settled = invoices[i].settled
      /\ bill.status = "paid" => invoices[i].status = "paid"
  BY DEF InvoiceRow, OrderDto, PgStatus
<1>2. invoices' = [invoices EXCEPT ![i] = bill]
  BY DEF PgUpdate
<1> HIDE DEF bill
<1> QED
  BY <1>1, <1>2, NoneIsNoRow DEF PayInv, OrdersInv, TablesTyped, Grow, InvoicePays

\* updateByOrder says paid of an order only if the row it copies does.
LEMMA LedgerPays ==
  ASSUME PayInv, NEW o \in Order, NEW row, RowPays(row, o, invoices),
         ledger' = LedgerUpdated(o, row), invoices' = invoices
  PROVE  \A p \in Order : \/ ledger'[p] = ledger[p]
                          \/ ledger'[p].payment = "done" => SettledIn(invoices', p)
<1>1. LedgerOf(row).payment = row.payment
  BY DEF LedgerOf
<1> QED
  BY <1>1 DEF LedgerUpdated, RowPays, PayInv, OrdersInv, TablesTyped

\* The first steps copy a row or make a new one.
LEMMA StartPays ==
  ASSUME PayInv, OrdersInv', NEW w \in Worker, HandlerStarts(w)
  PROVE  PayInv'
<1>1. ASSUME NEW dto \in OrderDto, NEW admin \in BOOLEAN, CreateOrder(w, dto, admin)
      PROVE  PayInv'
  <2> DEFINE row == NewRow(dto, IF admin THEN "accepted" ELSE "pending")
             g == [IdleHandler EXCEPT !.phase = IF admin THEN "create" ELSE "insert",
                                      !.dto = dto, !.row = row]
  <2>1. row.external = None /\ row.payment # "done"
    BY DEF NewRow
  <2>2. g.row = row /\ g.order = None
    BY DEF IdleHandler
  <2>3. handler' = [handler EXCEPT ![w] = g]
    BY <1>1 DEF CreateOrder, Become
  <2> HIDE DEF row, g
  <2> QED
    BY <1>1, <2>1, <2>2, <2>3, StillPays DEF CreateOrder, HandlerPays
<1>2. ASSUME NEW o \in Order, NEW g, g.order = o, g.phase # "create",
             g.row = orders[o] \/ g.phase = "reject", o \in leads,
             handler' = [handler EXCEPT ![w] = g],
             UNCHANGED <<orders, ledger, invoices, callbacks, job>>
      PROVE  PayInv'
  <2>1. orders[o] # None /\ o # None
    BY <1>2, NoneIsNoRow, SurveyConstants DEF PayInv, OrdersInv, LeadsSaved
  <2> QED
    BY <1>2, <2>1, StillPays DEF HandlerPays, PayInv
<1>3. ASSUME NEW o \in Order, NEW accept \in BOOLEAN, UpdateRead(w, o, accept)
      PROVE  PayInv'
  <2> DEFINE g == [IdleHandler EXCEPT !.phase = "update", !.order = o, !.accept = accept,
                                      !.row = orders[o]]
  <2>1. g.order = o /\ g.row = orders[o] /\ g.phase # "create"
    BY DEF IdleHandler
  <2> QED
    BY <1>2, <1>3, <2>1 DEF UpdateRead, Become
<1>4. ASSUME NEW o \in Order, RejectRead(w, o)
      PROVE  PayInv'
  <2> DEFINE g == [IdleHandler EXCEPT !.phase = "reject", !.order = o]
  <2>1. g.order = o /\ g.phase = "reject"
    BY DEF IdleHandler
  <2> QED
    BY <1>2, <1>4, <2>1 DEF RejectRead, Become
<1>5. ASSUME NEW o \in Order, RemoveRead(w, o)
      PROVE  PayInv'
  <2> DEFINE g == [IdleHandler EXCEPT !.phase = "remove", !.order = o, !.row = orders[o]]
  <2>1. g.order = o /\ g.row = orders[o] /\ g.phase # "create"
    BY DEF IdleHandler
  <2> QED
    BY <1>2, <1>5, <2>1 DEF RemoveRead, Become
<1> QED
  BY <1>1, <1>3, <1>4, <1>5 DEF HandlerStarts

\* createOrder: the invoice gets the number the order is saved with.
LEMMA CreatePays ==
  ASSUME PayInv, OrdersInv', NEW w \in Worker,
         CreateInvoice(w) \/ CreateInvoiceFails(w) \/ InsertOrder(w) \/ CreateLedger(w)
  PROVE  PayInv'
<1> DEFINE h0 == handler[w]
<1>0. h0 \in Handler /\ Fits(h0, orders, invoices) /\ HandlerPays(h0, invoices) /\ None \notin Order
  BY SurveyConstants DEF PayInv, OrdersInv
<1>1. CASE CreateInvoice(w)
  <2>1. h0.phase = "create" /\ h0.dto \in OrderDto /\ h0.row \in OrderRow
    BY <1>0, <1>1 DEF CreateInvoice, Fits, ClaimPhase
  <2>2. PICK o \in Order, i \in Invoice :
          /\ FreshNumber(o)
          /\ PgCreate(i, o, h0.dto)
          /\ handler' = [handler EXCEPT ![w] =
                           [h0 EXCEPT !.phase = "insert", !.order = o, !.row.external = i]]
    BY <1>1 DEF CreateInvoice, Become
  <2> DEFINE g == [h0 EXCEPT !.phase = "insert", !.order = o, !.row.external = i]
  <2>3. /\ g.phase = "insert" /\ g.order = o
        /\ g.row.external = i /\ g.row.payment = h0.row.payment
    BY <1>0, <2>1 DEF Handler, OrderRow
  <2>4. /\ Grow /\ \A k \in Invoice : InvoicePays(invoices'[k])
        /\ invoices'[i] # None /\ invoices'[i].number = o
    BY <2>1, <2>2, NewInvoicePays
  <2>5. h0.row.payment # "done"
    BY <1>0, <2>1 DEF HandlerPays
  <2>6. handler' = [handler EXCEPT ![w] = g]
    BY <2>2
  <2> HIDE DEF g
  <2>7. HandlerPays(g, invoices')
    BY <1>0, <2>3, <2>4, <2>5 DEF HandlerPays, RowPays
  <2>8. \A v \in Worker : handler'[v] = handler[v] \/ HandlerPays(handler'[v], invoices')
    BY <2>6, <2>7 DEF PayInv, OrdersInv
  <2>9. UNCHANGED <<orders, ledger, callbacks, job>>
    BY <1>1 DEF CreateInvoice
  <2> QED
    BY <2>4, <2>8, <2>9, PayStep
<1>2. CASE CreateInvoiceFails(w)
  <2>1. h0.phase = "create" /\ h0.dto \in OrderDto
    BY <1>0, <1>2 DEF CreateInvoiceFails, Fits, ClaimPhase
  <2>2. Grow /\ \A k \in Invoice : InvoicePays(invoices'[k])
    <3>1. CASE UNCHANGED invoices
      BY <3>1 DEF Grow, PayInv
    <3> QED
      BY <1>2, <2>1, <3>1, NewInvoicePays DEF CreateInvoiceFails
  <2>3. ASSUME handler' = [handler EXCEPT ![w].retry = @ + 1]
        PROVE  \A v \in Worker : handler'[v] = handler[v] \/ HandlerPays(handler'[v], invoices')
    <3> DEFINE g == [h0 EXCEPT !.retry = @ + 1]
    <3>1. g.phase = h0.phase /\ g.order = h0.order /\ g.row = h0.row
      BY <1>0 DEF Handler
    <3>2. handler' = [handler EXCEPT ![w] = g]
      BY <2>3
    <3> HIDE DEF g
    <3>3. HandlerPays(h0, invoices')
      BY <2>2, AllGrow DEF PayInv
    <3>4. HandlerPays(g, invoices')
      BY <3>1, <3>3 DEF HandlerPays
    <3> QED
      BY <3>2, <3>4 DEF PayInv, OrdersInv
  <2>4. \A v \in Worker : handler'[v] = handler[v] \/ HandlerPays(handler'[v], invoices')
    BY <1>2, <2>3, ReturnPays DEF CreateInvoiceFails, PayInv
  <2> QED
    BY <1>2, <2>2, <2>4, PayStep DEF CreateInvoiceFails
<1>3. CASE InsertOrder(w)
  <2>1. h0.phase = "insert" /\ h0.row \in OrderRow
    BY <1>0, <1>3 DEF InsertOrder, Fits
  <2>2. PICK o \in Order :
          /\ SavedNumber(w, o)
          /\ orders' = [orders EXCEPT ![o] = h0.row]
          /\ handler' = [handler EXCEPT ![w] = [h0 EXCEPT !.phase = "create_ledger", !.order = o]]
    BY <1>3 DEF InsertOrder, Become
  <2> DEFINE g == [h0 EXCEPT !.phase = "create_ledger", !.order = o]
  <2>3. g.phase = "create_ledger" /\ g.order = o /\ g.row = h0.row
    BY <1>0 DEF Handler
  <2>4. handler' = [handler EXCEPT ![w] = g]
    BY <2>2
  <2> HIDE DEF g
  <2>5. RowPays(h0.row, o, invoices)
    BY <1>0, <2>1, <2>2 DEF HandlerPays, RowPays, SavedNumber
  <2>6. HandlerPays(g, invoices)
    BY <1>0, <2>3, <2>5 DEF HandlerPays
  <2>7. Grow /\ UNCHANGED <<ledger, invoices, callbacks, job>>
    BY <1>3 DEF InsertOrder, Grow
  <2>8. \A v \in Worker : handler'[v] = handler[v] \/ HandlerPays(handler'[v], invoices')
    BY <2>4, <2>6, <2>7 DEF PayInv, OrdersInv
  <2>9. \A p \in Order : orders'[p] = orders[p] \/ RowPays(orders'[p], p, invoices')
    BY <2>2, <2>5, <2>7 DEF PayInv, OrdersInv, TablesTyped
  <2> QED
    BY <2>7, <2>8, <2>9, PayStep DEF PayInv
<1>4. CASE CreateLedger(w)
  <2>1. RowPays(h0.row, h0.order, invoices) /\ h0.order \in Order
    BY <1>0, <1>4 DEF CreateLedger, Fits, HandlerPays
  <2>2. Grow /\ UNCHANGED <<orders, invoices, callbacks, job>>
    BY <1>4 DEF CreateLedger, Grow
  <2>3. LedgerOf(h0.row).payment = h0.row.payment
    BY DEF LedgerOf
  <2>4. \A p \in Order : \/ ledger'[p] = ledger[p]
                         \/ ledger'[p].payment = "done" => SettledIn(invoices', p)
    BY <1>4, <2>1, <2>2, <2>3 DEF CreateLedger, RowPays, PayInv, OrdersInv, TablesTyped
  <2> QED
    BY <1>4, <2>2, <2>4, ReturnPays, PayStep DEF CreateLedger, PayInv
<1> QED
  BY <1>1, <1>2, <1>3, <1>4

\* update and accept up to the invoice: a new invoice gets the number of the
\* order, an invoice that is changed or deleted keeps what was paid.
LEMMA UpdateInvoicePays ==
  ASSUME PayInv, OrdersInv', NEW w \in Worker,
         \/ \E dto \in OrderDto : UpdateCheck(w, dto)
         \/ UpdateDeleteInvoice(w) \/ UpdateNewInvoice(w)
         \/ UpdateInvoice(w) \/ UpdateInvoiceGone(w)
  PROVE  PayInv'
<1> DEFINE h0 == handler[w]
           i0 == h0.row.external
<1>0. h0 \in Handler /\ Fits(h0, orders, invoices) /\ HandlerPays(h0, invoices) /\ None \notin Order
  BY SurveyConstants DEF PayInv, OrdersInv
<1>a. h0.row \in OrderRow /\ h0.order \in Order /\ RowPays(h0.row, h0.order, invoices)
  BY <1>0 DEF UpdateCheck, UpdateDeleteInvoice, UpdateNewInvoice, UpdateInvoice,
              UpdateInvoiceGone, Fits, HandlerPays
<1>b. ASSUME Return(w), UNCHANGED <<orders, ledger, invoices, callbacks, job>>
      PROVE  PayInv'
  <2>1. Grow
    BY <1>b DEF Grow
  <2> QED
    BY <1>b, <2>1, ReturnPays, PayStep DEF PayInv
<1>1. ASSUME NEW dto \in OrderDto, UpdateCheck(w, dto)
      PROVE  PayInv'
  <2> DEFINE next == AfterCheck(h0.row, dto, h0.accept)
             g == [h0 EXCEPT !.phase = next, !.dto = dto]
  <2>1. next # "create"
    BY DEF AfterCheck, AfterInvoice
  <2>2. g.phase = next /\ g.order = h0.order /\ g.row = h0.row
    BY <1>0 DEF Handler
  <2>3. UNCHANGED <<orders, ledger, invoices, callbacks, job>>
    BY <1>1 DEF UpdateCheck
  <2>4. Return(w) \/ handler' = [handler EXCEPT ![w] = g]
    BY <1>1 DEF UpdateCheck, Become
  <2> HIDE DEF next, g
  <2>5. HandlerPays(g, invoices)
    BY <1>0, <1>a, <2>1, <2>2 DEF HandlerPays
  <2> QED
    BY <1>b, <2>3, <2>4, <2>5, StillPays
<1>2. CASE UpdateDeleteInvoice(w)
  <2>1. i0 \in Invoice /\ invoices[i0] \in InvoiceRow
    BY <1>2, <1>a DEF UpdateDeleteInvoice, PgLive, OrderRow, PayInv, OrdersInv, TablesTyped
  <2>2. Grow /\ \A k \in Invoice : InvoicePays(invoices'[k])
    BY <1>2, <2>1, DeletePays DEF UpdateDeleteInvoice
  <2>3. \A v \in Worker : handler'[v] = handler[v] \/ HandlerPays(handler'[v], invoices')
    BY <1>2, <2>2, ProceedPays DEF UpdateDeleteInvoice, PayInv
  <2> QED
    BY <1>2, <2>2, <2>3, PayStep DEF UpdateDeleteInvoice
<1>3. CASE UpdateNewInvoice(w)
  <2>1. h0.phase = "new_invoice" /\ h0.dto \in OrderDto
    BY <1>0, <1>3 DEF UpdateNewInvoice, Fits, ClaimPhase
  <2>2. PICK i \in Invoice :
          /\ PgCreate(i, h0.order, h0.dto)
          /\ handler' = [handler EXCEPT ![w] = [h0 EXCEPT !.phase = AfterInvoice(h0.accept),
                                                         !.row.external = i]]
    BY <1>3 DEF UpdateNewInvoice, Become
  <2> DEFINE g == [h0 EXCEPT !.phase = AfterInvoice(h0.accept), !.row.external = i]
  <2>3. /\ g.phase # "create" /\ g.order = h0.order
        /\ g.row.external = i /\ g.row.payment = h0.row.payment
    BY <1>0, <1>a DEF Handler, OrderRow, AfterInvoice
  <2>4. /\ Grow /\ \A k \in Invoice : InvoicePays(invoices'[k])
        /\ invoices'[i] # None /\ invoices'[i].number = h0.order
    BY <1>a, <2>1, <2>2, NewInvoicePays
  <2>5. handler' = [handler EXCEPT ![w] = g]
    BY <2>2
  <2> HIDE DEF g
  <2>6. h0.row.payment = "done" => SettledIn(invoices', h0.order)
    BY <1>a, <2>4, SettledGrows DEF RowPays
  <2>7. HandlerPays(g, invoices')
    BY <1>0, <1>a, <2>3, <2>4, <2>6 DEF HandlerPays, RowPays
  <2>8. \A v \in Worker : handler'[v] = handler[v] \/ HandlerPays(handler'[v], invoices')
    BY <2>5, <2>7 DEF PayInv, OrdersInv
  <2>9. UNCHANGED <<orders, ledger, callbacks, job>>
    BY <1>3 DEF UpdateNewInvoice
  <2> QED
    BY <2>4, <2>8, <2>9, PayStep
<1>4. CASE UpdateInvoice(w)
  <2>1. i0 \in Invoice /\ invoices[i0] \in InvoiceRow /\ i0 # None /\ h0.dto \in OrderDto
    BY <1>0, <1>4, <1>a
    DEF UpdateInvoice, PgLive, OrderRow, PayInv, OrdersInv, TablesTyped, Fits, ClaimPhase
  <2>2. Grow /\ \A k \in Invoice : InvoicePays(invoices'[k])
    BY <1>4, <2>1, ChangePays DEF UpdateInvoice
  <2>3. AfterInvoice(h0.accept) # "create"
    BY DEF AfterInvoice
  <2>4. \A v \in Worker : handler'[v] = handler[v] \/ HandlerPays(handler'[v], invoices')
    BY <1>4, <2>2, <2>3, ProceedPays DEF UpdateInvoice, PayInv
  <2>5. invoices'[i0] # None /\ invoices'[i0].number = h0.order
    BY <1>a, <2>1, <2>2 DEF RowPays, Grow
  <2>6. \A cb \in callbacks' : cb \in callbacks \/ CallbackPays(cb, invoices')
    BY <1>4, <2>5 DEF UpdateInvoice, CallbackPays
  <2>7. UNCHANGED <<orders, ledger, job>>
    BY <1>4 DEF UpdateInvoice
  <2> QED
    BY <2>2, <2>4, <2>6, <2>7, PayStep
<1>5. CASE UpdateInvoiceGone(w)
  BY <1>5, <1>b DEF UpdateInvoiceGone
<1> QED
  BY <1>1, <1>2, <1>3, <1>4, <1>5

\* update and accept after the invoice: the log, the ledger, the row.
LEMMA UpdateSavePays ==
  ASSUME PayInv, OrdersInv', NEW w \in Worker,
         UpdateLogStatus(w) \/ UpdateLedger(w) \/ UpdateSave(w)
  PROVE  PayInv'
<1> DEFINE h0 == handler[w]
           row == WithDto(h0.row, h0.dto)
<1>0. h0 \in Handler /\ Fits(h0, orders, invoices) /\ HandlerPays(h0, invoices) /\ None \notin Order
  BY SurveyConstants DEF PayInv, OrdersInv
<1>a. /\ h0.row \in OrderRow /\ h0.dto \in OrderDto /\ h0.order \in Order
      /\ RowPays(h0.row, h0.order, invoices)
  BY <1>0 DEF UpdateLogStatus, UpdateLedger, UpdateSave, Fits, ClaimPhase, HandlerPays
<1>b. row.external = h0.row.external /\ row.payment = h0.row.payment
  BY <1>a DEF WithDto, OrderRow
<1>c. RowPays(row, h0.order, invoices)
  BY <1>a, <1>b DEF RowPays
<1> HIDE DEF row
<1>1. CASE UpdateLogStatus(w)
  <2> DEFINE g == [h0 EXCEPT !.phase = "update_ledger", !.row.status = "accepted"]
  <2>1. /\ g.phase = "update_ledger" /\ g.order = h0.order
        /\ g.row.external = h0.row.external /\ g.row.payment = h0.row.payment
    BY <1>0, <1>a DEF Handler, OrderRow
  <2>2. handler' = [handler EXCEPT ![w] = g] /\ UNCHANGED <<orders, ledger, invoices, callbacks, job>>
    BY <1>1 DEF UpdateLogStatus, Become
  <2> HIDE DEF g
  <2>3. HandlerPays(g, invoices)
    BY <1>0, <1>a, <2>1 DEF HandlerPays, RowPays
  <2> QED
    BY <2>2, <2>3, StillPays
<1>2. CASE UpdateLedger(w)
  <2>1. Grow /\ UNCHANGED <<orders, invoices, callbacks, job>>
    BY <1>2 DEF UpdateLedger, Grow
  <2>2. ledger' = LedgerUpdated(h0.order, row) /\ Proceed(w, "save") /\ h0.phase = "update_ledger"
    BY <1>2 DEF UpdateLedger, row
  <2>3. \A p \in Order : \/ ledger'[p] = ledger[p]
                         \/ ledger'[p].payment = "done" => SettledIn(invoices', p)
    BY <1>a, <1>c, <2>1, <2>2, LedgerPays
  <2>4. \A v \in Worker : handler'[v] = handler[v] \/ HandlerPays(handler'[v], invoices')
    BY <2>1, <2>2, ProceedPays DEF PayInv
  <2> QED
    BY <2>1, <2>3, <2>4, PayStep DEF PayInv
<1>3. CASE UpdateSave(w)
  <2>1. Grow /\ UNCHANGED <<ledger, invoices, callbacks, job>>
    BY <1>3 DEF UpdateSave, Grow
  <2>2. orders' = [orders EXCEPT ![h0.order] = row]
    BY <1>3 DEF UpdateSave, Saved, row
  <2>3. \A p \in Order : orders'[p] = orders[p] \/ RowPays(orders'[p], p, invoices')
    BY <1>a, <1>c, <2>1, <2>2 DEF PayInv, OrdersInv, TablesTyped
  <2> QED
    BY <1>3, <2>1, <2>3, ReturnPays, PayStep DEF UpdateSave, PayInv
<1> QED
  BY <1>1, <1>2, <1>3

\* reject and remove: no payment is written, an invoice is deleted at most.
LEMMA EndPays ==
  ASSUME PayInv, OrdersInv', NEW w \in Worker,
         \/ RejectWrite(w) \/ RejectLog(w)
         \/ RemoveGetInvoice(w) \/ RemoveInvoice(w) \/ RemoveOrder(w)
         \/ RemoveRequests(w) \/ RemoveLedger(w)
  PROVE  PayInv'
<1> DEFINE h0 == handler[w]
<1>0. h0 \in Handler /\ Fits(h0, orders, invoices)
  BY DEF PayInv, OrdersInv
<1>a. ASSUME Grow, UNCHANGED <<orders, invoices, callbacks, job>>,
             \A p \in Order : ledger'[p] = ledger[p] \/ ledger'[p] = None,
             \/ Return(w)
             \/ Proceed(w, "log_reject")
             \/ /\ h0.phase \in {"remove", "remove_order", "remove_requests"}
                /\ \E phase \in {"remove_invoice", "remove_order", "remove_requests", "remove_ledger"} :
                     Proceed(w, phase)
      PROVE  PayInv'
  <2>1. \A v \in Worker : handler'[v] = handler[v] \/ HandlerPays(handler'[v], invoices')
    BY <1>a, ProceedPays, ReturnPays DEF PayInv
  <2> QED
    BY <1>a, <2>1, PayStep DEF PayInv
<1>1. CASE RejectWrite(w)
  <2>1. h0.order \in Order /\ orders[h0.order] \in OrderRow
    BY <1>0, <1>1 DEF RejectWrite, Fits
  <2> DEFINE row == [orders[h0.order] EXCEPT !.status = "rejected"]
  <2>2. row.external = orders[h0.order].external /\ row.payment = orders[h0.order].payment
    BY <2>1 DEF OrderRow
  <2>3. orders' = [orders EXCEPT ![h0.order] = row]
    BY <1>1 DEF RejectWrite
  <2> HIDE DEF row
  <2>4. Grow /\ UNCHANGED <<ledger, invoices, callbacks, job>>
    BY <1>1 DEF RejectWrite, Grow
  <2>5. RowPays(row, h0.order, invoices)
    BY <2>1, <2>2, NoneIsNoRow DEF PayInv, RowPays
  <2>6. \A p \in Order : orders'[p] = orders[p] \/ RowPays(orders'[p], p, invoices')
    BY <2>1, <2>3, <2>4, <2>5 DEF PayInv, OrdersInv, TablesTyped
  <2>7. \A v \in Worker : handler'[v] = handler[v] \/ HandlerPays(handler'[v], invoices')
    BY <1>1, <2>4, ProceedPays DEF RejectWrite, PayInv
  <2> QED
    BY <2>4, <2>6, <2>7, PayStep DEF PayInv
<1>2. CASE RejectLog(w)
  BY <1>2, <1>a DEF RejectLog, Grow
<1>3. CASE RemoveGetInvoice(w)
  <2>1. Grow /\ h0.phase = "remove" /\ UNCHANGED <<orders, ledger, invoices, callbacks, job>>
    BY <1>3 DEF RemoveGetInvoice, Grow
  <2>2. Return(w) \/ Proceed(w, "remove_invoice") \/ Proceed(w, "remove_order")
    BY <1>3 DEF RemoveGetInvoice
  <2> QED
    BY <1>a, <2>1, <2>2
<1>4. CASE RemoveInvoice(w)
  <2>1. h0.row.external \in Invoice /\ invoices[h0.row.external] \in InvoiceRow
    BY <1>0, <1>4 DEF RemoveInvoice, Fits
  <2>2. Grow /\ \A k \in Invoice : InvoicePays(invoices'[k])
    BY <1>4, <2>1, DeletePays DEF RemoveInvoice
  <2>3. \A v \in Worker : handler'[v] = handler[v] \/ HandlerPays(handler'[v], invoices')
    BY <1>4, <2>2, ProceedPays DEF RemoveInvoice, PayInv
  <2> QED
    BY <1>4, <2>2, <2>3, PayStep DEF RemoveInvoice
<1>5. CASE RemoveOrder(w)
  BY <1>5, <1>a DEF RemoveOrder, Grow
<1>6. CASE RemoveRequests(w)
  BY <1>6, <1>a DEF RemoveRequests, Grow
<1>7. CASE RemoveLedger(w)
  <2>1. \A p \in Order : ledger'[p] = ledger[p] \/ ledger'[p] = None
    BY <1>7 DEF RemoveLedger, PayInv, OrdersInv, TablesTyped
  <2> QED
    BY <1>7, <1>a, <2>1 DEF RemoveLedger, Grow
<1> QED
  BY <1>1, <1>2, <1>3, <1>4, <1>5, <1>6, <1>7

\* pgCallback: what it has seen at the gateway is of an invoice of the order it
\* writes to, whichever of its two endpoints was called.
LEMMA CallbackKeepsPays ==
  ASSUME PayInv, OrdersInv', NEW j \in Job,
         \/ \E cb \in callbacks : CallbackFetch(j, cb)
         \/ JobGoesOn(j) \/ CallbackFails(j)
  PROVE  PayInv'
<1> DEFINE s0 == job[j]
<1>0. s0 \in JobState /\ JobFits(s0, orders) /\ JobPays(s0, invoices)
  BY DEF PayInv, OrdersInv
<1>a. ASSUME UNCHANGED <<orders, ledger, invoices, handler>>, callbacks' \subseteq callbacks,
             NEW s, job' = [job EXCEPT ![j] = s], JobPays(s, invoices)
      PROVE  PayInv'
  <2>1. Grow
    BY <1>a DEF Grow
  <2>2. \A k \in Job : job'[k] = job[k] \/ JobPays(job'[k], invoices')
    BY <1>a DEF PayInv, OrdersInv
  <2> QED
    BY <1>a, <2>1, <2>2, PayStep DEF PayInv
<1>b. JobPays(IdleJob, invoices)
  BY IdleTypes DEF JobPays
<1>1. ASSUME NEW cb \in callbacks, CallbackFetch(j, cb)
      PROVE  PayInv'
  <2>1. /\ UNCHANGED <<orders, ledger, invoices, handler>>
        /\ callbacks' \subseteq callbacks
    BY <1>1 DEF CallbackFetch
  <2>2. CASE PgLive(cb.invoice)
    <3> DEFINE s == [IdleJob EXCEPT !.phase = "lookup", !.invoice = cb.invoice,
                        !.number = cb.number, !.seen = invoices[cb.invoice].status]
    <3>1. /\ s.phase = "lookup" /\ s.invoice = cb.invoice /\ s.number = cb.number
          /\ s.seen = invoices[cb.invoice].status
      BY DEF IdleJob
    <3>2. job' = [job EXCEPT ![j] = s]
      BY <1>1, <2>2 DEF CallbackFetch, BecomeJob
    <3> HIDE DEF s
    <3>3. cb.invoice \in Invoice /\ CallbackPays(cb, invoices)
      BY DEF PayInv, OrdersInv, TablesTyped, Callback
    <3>4. JobPays(s, invoices)
      BY <2>2, <3>1, <3>3 DEF PgLive, JobPays, CallbackPays, InvoicePays, PayInv
    <3> QED
      BY <1>a, <2>1, <3>2, <3>4
  <2>3. CASE ~PgLive(cb.invoice)
    <3>1. Grow /\ job' = job
      BY <1>1, <2>1, <2>3 DEF CallbackFetch, Grow
    <3> QED
      BY <2>1, <3>1, PayStep DEF PayInv
  <2> QED
    BY <2>2, <2>3
<1>2. CASE CallbackLookup(j)
  <2>1. /\ UNCHANGED <<orders, ledger, invoices, handler, callbacks>>
        /\ s0.phase = "lookup"
    BY <1>2 DEF CallbackLookup
  <2>2. ASSUME NEW o \in Found(s0.invoice, s0.number),
               BecomeJob(j, [s0 EXCEPT !.phase = "apply", !.order = o, !.row = orders[o]])
        PROVE  PayInv'
    <3> DEFINE s == [s0 EXCEPT !.phase = "apply", !.order = o, !.row = orders[o]]
    <3>1. /\ s.phase = "apply" /\ s.invoice = s0.invoice /\ s.number = s0.number
          /\ s.seen = s0.seen /\ s.order = o /\ s.row = orders[o]
      BY <1>0 DEF JobState
    <3>2. job' = [job EXCEPT ![j] = s]
      BY <2>2 DEF BecomeJob
    <3> HIDE DEF s
    <3>3. o \in Order /\ orders[o] # None
      BY NoneIsNoRow DEF Found, LeadsSaved, SurveysInv, SurveysTypeOK, PayInv, OrdersInv
    <3>4. RowPays(orders[o], o, invoices)
      BY <3>3 DEF PayInv
    <3>5. s0.invoice \in Invoice
      BY <1>0, <2>1 DEF JobFits
    <3>6. invoices[s0.invoice].number = o
      BY <1>0, <2>1, <3>4, <3>5 DEF JobPays, Found, RowPays
    <3>7. JobPays(s, invoices)
      BY <1>0, <2>1, <3>1, <3>4, <3>6 DEF JobPays, RowPays
    <3> QED
      BY <1>a, <2>1, <3>2, <3>7
  <2>3. CASE BecomeJob(j, IdleJob)
    BY <1>a, <1>b, <2>1, <2>3 DEF BecomeJob
  <2> QED
    BY <1>2, <2>2, <2>3 DEF CallbackLookup
<1>3. CASE CallbackApply(j)
  <2> DEFINE payment == Payment(s0.seen, s0.row.payment)
             s == [s0 EXCEPT !.phase = "ledger", !.row.payment = payment]
             row == [orders[s0.order] EXCEPT !.payment = payment]
  <2>1. /\ s0.order \in Order /\ orders[s0.order] \in OrderRow /\ s0.row \in OrderRow
        /\ s0.invoice \in Invoice /\ s0.seen \in PgStatus /\ s0.phase = "apply"
    BY <1>0, <1>3 DEF CallbackApply, JobFits
  <2>2. payment = "done" => SettledIn(invoices, s0.order)
    BY <1>0, <2>1 DEF Payment, PgStatus, JobPays, SettledIn
  <2>3. /\ s.phase = "ledger" /\ s.invoice = s0.invoice /\ s.number = s0.number
        /\ s.seen = s0.seen /\ s.order = s0.order /\ s.row.payment = payment
    BY <1>0, <2>1 DEF JobState, OrderRow
  <2>4. row.external = orders[s0.order].external /\ row.payment = payment
    BY <2>1 DEF OrderRow
  <2>5. job' = [job EXCEPT ![j] = s]
    BY <1>3 DEF CallbackApply, BecomeJob
  <2>6. orders' = [orders EXCEPT ![s0.order] = row] \/ orders' = orders
    BY <1>3 DEF CallbackApply
  <2> HIDE DEF payment, s, row
  <2>7. Grow /\ UNCHANGED <<ledger, invoices, handler, callbacks>>
    BY <1>3 DEF CallbackApply, Grow
  <2>8. RowPays(row, s0.order, invoices)
    BY <2>1, <2>2, <2>4, NoneIsNoRow DEF PayInv, RowPays
  <2>9. \A p \in Order : orders'[p] = orders[p] \/ RowPays(orders'[p], p, invoices')
    BY <2>1, <2>6, <2>7, <2>8 DEF PayInv, OrdersInv, TablesTyped
  <2>10. JobPays(s, invoices)
    BY <1>0, <2>1, <2>2, <2>3 DEF JobPays
  <2>11. \A k \in Job : job'[k] = job[k] \/ JobPays(job'[k], invoices')
    BY <2>5, <2>7, <2>10 DEF PayInv, OrdersInv
  <2> QED
    BY <2>7, <2>9, <2>11, PayStep DEF PayInv
<1>4. CASE CallbackLedger(j)
  <2>1. s0.order \in Order /\ s0.phase = "ledger"
    BY <1>0, <1>4 DEF CallbackLedger, JobFits
  <2>2. Grow /\ UNCHANGED <<orders, invoices, handler, callbacks>>
    BY <1>4 DEF CallbackLedger, Grow
  <2>3. LedgerOf(s0.row).payment = s0.row.payment
    BY DEF LedgerOf
  <2>4. \A p \in Order : \/ ledger'[p] = ledger[p]
                         \/ ledger'[p].payment = "done" => SettledIn(invoices', p)
    BY <1>0, <1>4, <2>1, <2>2, <2>3
    DEF CallbackLedger, LedgerUpdated, JobPays, PayInv, OrdersInv, TablesTyped
  <2>5. \A k \in Job : job'[k] = job[k] \/ JobPays(job'[k], invoices')
    BY <1>4, <1>b, <2>2 DEF CallbackLedger, BecomeJob, PayInv, OrdersInv
  <2> QED
    BY <2>2, <2>4, <2>5, PayStep DEF PayInv
<1>5. CASE CallbackFails(j)
  BY <1>5, <1>a, <1>b DEF CallbackFails, BecomeJob
<1> QED
  BY <1>1, <1>2, <1>3, <1>4, <1>5 DEF JobGoesOn

\* What happens outside: payments at the gateway and lost calls.
LEMMA OutsidePays ==
  ASSUME PayInv, OrdersInv',
         \/ \E cb \in callbacks : CallbackLost(cb)
         \/ \E i \in Invoice, status \in PgMoves : PgStatusChange(i, status)
  PROVE  PayInv'
<1>1. ASSUME NEW cb \in callbacks, CallbackLost(cb)
      PROVE  PayInv'
  BY <1>1, PayStep DEF CallbackLost, Grow, PayInv
<1>2. ASSUME NEW i \in Invoice, NEW status \in PgMoves, PgStatusChange(i, status)
      PROVE  PayInv'
  <2>1. invoices[i] \in InvoiceRow
    BY <1>2 DEF PgStatusChange, PayInv, OrdersInv, TablesTyped
  <2> DEFINE bill == [invoices[i] EXCEPT !.status = status,
                                         !.settled = invoices[i].settled \/ status = "paid"]
  <2>2. /\ bill.number = invoices[i].number /\ bill.status = status
        /\ bill.settled = (invoices[i].settled \/ status = "paid")
    BY <2>1 DEF InvoiceRow
  <2>3. invoices' = [invoices EXCEPT ![i] = bill]
    BY <1>2, <2>1 DEF PgStatusChange
  <2>4. bill # None
    BY <2>1, NoneIsNoRow, OrderConstants DEF InvoiceRow
  <2> HIDE DEF bill
  <2>5. Grow /\ (\A k \in Invoice : InvoicePays(invoices'[k]))
        /\ invoices'[i] # None /\ invoices'[i].number = invoices[i].number
    BY <2>2, <2>3, <2>4 DEF Grow, InvoicePays, PayInv, OrdersInv, TablesTyped
  <2>6. \A cb \in callbacks' : cb \in callbacks \/ CallbackPays(cb, invoices')
    <3>1. ASSUME NEW n \in {invoices[i].number, None}
          PROVE  CallbackPays([invoice |-> i, number |-> n], invoices')
      BY <2>5 DEF CallbackPays
    <3>2. callbacks' = callbacks \cup {[invoice |-> i, number |-> invoices[i].number],
                                      [invoice |-> i, number |-> None]}
      BY <1>2 DEF PgStatusChange
    <3> QED
      BY <3>1, <3>2
  <2>7. UNCHANGED <<orders, ledger, handler, job>>
    BY <1>2 DEF PgStatusChange
  <2> QED
    BY <2>5, <2>6, <2>7, PayStep DEF PayInv
<1> QED
  BY <1>1, <1>2

\* Every step of the system keeps the invariant.
LEMMA PayInvStep ==
  ASSUME PayInv, [Next]_vars
  PROVE  PayInv'
<1>1. OrdersInv'
  BY OrdersInvStep DEF PayInv
<1>2. CASE UNCHANGED orderVars
  BY <1>1, <1>2, PayStep DEF orderVars, Grow, PayInv
<1>3. ASSUME NEW w \in Worker, HandlerStarts(w) \/ HandlerGoesOn(w) \/ CreateInvoiceFails(w)
      PROVE  PayInv'
  BY <1>1, <1>3, StartPays, CreatePays, UpdateInvoicePays, UpdateSavePays, EndPays
  DEF HandlerGoesOn
<1>4. ASSUME NEW w \in Worker, HandlerFails(w)
      PROVE  PayInv'
  <2>1. Grow
    BY <1>4 DEF HandlerFails, Grow
  <2> QED
    BY <1>1, <1>4, <2>1, ReturnPays, PayStep DEF HandlerFails, PayInv
<1> QED
  BY <1>1, <1>2, <1>3, <1>4, CallbackKeepsPays, OutsidePays DEF Next, SurveyStep, vars

\* It holds of the empty tables.
LEMMA PayInvInit ==
  ASSUME Init
  PROVE  PayInv
BY OrdersInvInit, IdleTypes DEF Init, PayInv, HandlerPays, JobPays, InvoicePays

\* No order and no ledger row says paid unless an invoice of the order was paid
\* in full: for any number of workers and jobs, with callbacks lost, late and
\* out of order, failing handlers and saves of what was read long before.
THEOREM PaidMeansSettled == Spec => []DonePaid
<1>1. PayInv => DonePaid
  BY DEF PayInv, RowPays, SettledIn, DonePaid, Settled
<1> QED
  BY <1>1, PayInvInit, PayInvStep, PTL DEF Spec

\* An order never points to the invoice of another one, under the same
\* interleavings and failures.
THEOREM InvoiceIsOwn == Spec => []ExternalBelongs
<1>1. PayInv => ExternalBelongs
  BY DEF PayInv, RowPays, ExternalBelongs
<1> QED
  BY <1>1, PayInvInit, PayInvStep, PTL DEF Spec
=============================================================================
