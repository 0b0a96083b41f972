-------------------------- MODULE AgreementProofs --------------------------
(***************************************************************************)
(* What the tables say of an order when nothing runs.                      *)
(*                                                                         *)
(* Any number of requests at once, none cut short: no request of a removed *)
(* order is left.  One request of the orders controller at a time, with    *)
(* surveys, callbacks and the gateway in between: the latest status log is *)
(* the status.  One request or callback at a time: invoices and ledger     *)
(* rows agree with the orders.                                             *)
(***************************************************************************)
EXTENDS OrdersProofs

-----------------------------------------------------------------------------
(* What runs *)

\* Running has everything that is between two awaits.
LEMMA InRunning ==
  /\ \A w \in Worker : handler[w].phase # "idle" <=> <<"worker", w>> \in Running
  /\ \A j \in Job : job[j].phase # "idle" <=> <<"job", j>> \in Running
  /\ \A w \in Worker : handler'[w].phase # "idle" <=> <<"worker", w>> \in Running'
  /\ \A j \in Job : job'[j].phase # "idle" <=> <<"job", j>> \in Running'
BY DEF Running

-----------------------------------------------------------------------------
(* One worker *)

OneWorker == (\A v, w \in Worker : v = w) /\ "handler" \notin Failures

Updating == {"update", "delete_invoice", "new_invoice", "change_invoice",
             "log_status", "update_ledger", "save"}

\* Between the status log and the row, or the other way round.
Untold == {"update_ledger", "save", "log_reject"}

\* What the handler h holds is still so in the rows, the status logs and the
\* orders that are there.
Sound(h, rows, log, open) ==
  /\ h.phase \in Updating \cup {"reject", "log_reject"} => h.order \in open
  /\ h.phase \in Updating \ Untold => h.row.status = rows[h.order].status
  /\ h.phase \in {"update_ledger", "save"} =>
       /\ log[h.order] = h.row.status
       /\ h.row.status \in {rows[h.order].status, "accepted"}
  /\ h.phase = "reject" => rows[h.order].status = "pending"
  /\ h.phase = "log_reject" => rows[h.order].status = "rejected"
  /\ h.phase = "create" => h.order = None
  /\ h.phase = "insert" => h.order = None \/ rows[h.order] = None

\* The log of o is its status, unless h is in between.
LogAgrees(h, o, rows, log) == (h.order = o => h.phase \notin Untold) => log[o] = rows[o].status

DecisionsInv ==
  /\ OrdersInv
  /\ \A w \in Worker :
       /\ Sound(handler[w], orders, statusLog, leads)
       /\ \A o \in leads : LogAgrees(handler[w], o, orders, statusLog)
  /\ Worker = {} => \A o \in leads : statusLog[o] = orders[o].status

\* The step of the worker to g keeps the invariant if g is sound afterwards.
LEMMA DecisionMoves ==
  ASSUME OneWorker, DecisionsInv, OrdersInv', NEW w \in Worker, NEW g,
         handler' = [handler EXCEPT ![w] = g],
         Sound(g, orders', statusLog', leads'),
         \A o \in leads' : LogAgrees(g, o, orders', statusLog')
  PROVE  DecisionsInv'
<1>1. \A v \in Worker : handler'[v] = g
  BY DEF OneWorker, DecisionsInv, OrdersInv
<1> QED
  BY <1>1 DEF DecisionsInv

\* A step that writes no status moves the handler between phases in which the
\* log is told or stays untold.
LEMMA QuietDecision ==
  ASSUME OneWorker, DecisionsInv, OrdersInv', NEW w \in Worker, NEW g,
         handler' = [handler EXCEPT ![w] = g],
         UNCHANGED <<orders, statusLog, leads>>,
         Sound(g, orders, statusLog, leads),
         handler[w].phase \in Untold => g.phase \in Untold /\ g.order = handler[w].order
  PROVE  DecisionsInv'
<1>1. \A o \in leads' : LogAgrees(g, o, orders', statusLog')
  BY DEF DecisionsInv, LogAgrees
<1> QED
  BY <1>1, DecisionMoves

\* The handler ends in a phase in which the log is told.
LEMMA QuietReturn ==
  ASSUME OneWorker, DecisionsInv, OrdersInv', NEW w \in Worker, Return(w),
         UNCHANGED <<orders, statusLog, leads>>, handler[w].phase \notin Untold
  PROVE  DecisionsInv'
BY QuietDecision, IdleTypes DEF Return, Become, Sound, Updating

\* The handler proceeds without a change of what it holds.
LEMMA QuietProceed ==
  ASSUME OneWorker, DecisionsInv, OrdersInv', NEW w \in Worker, NEW phase, Proceed(w, phase),
         UNCHANGED <<orders, statusLog, leads>>,
         Sound([handler[w] EXCEPT !.phase = phase], orders, statusLog, leads),
         handler[w].phase \in Untold => phase \in Untold
  PROVE  DecisionsInv'
<1> DEFINE g == [handler[w] EXCEPT !.phase = phase]
<1>1. g.phase = phase /\ g.order = handler[w].order
  BY DEF DecisionsInv, OrdersInv, Handler
<1>2. handler' = [handler EXCEPT ![w] = g]
  BY DEF Proceed
<1>3. Sound(g, orders, statusLog, leads)
  OBVIOUS
<1> HIDE DEF g
<1> QED
  BY <1>1, <1>2, <1>3, QuietDecision

\* The first steps read what is there.
LEMMA StartDecides ==
  ASSUME OneWorker, DecisionsInv, OrdersInv', NEW w \in Worker, HandlerStarts(w)
  PROVE  DecisionsInv'
<1>0. UNCHANGED <<orders, statusLog, leads>> /\ handler[w].phase \notin Untold
  BY IdleTypes
  DEF HandlerStarts, CreateOrder, UpdateRead, RejectRead, RemoveRead, surveyVars, Untold
<1>1. ASSUME NEW dto \in OrderDto, NEW admin \in BOOLEAN, CreateOrder(w, dto, admin)
      PROVE  DecisionsInv'
  <2> DEFINE g == [IdleHandler EXCEPT !.phase = IF admin THEN "create" ELSE "insert",
                                      !.dto = dto,
                                      !.row = NewRow(dto, IF admin THEN "accepted" ELSE "pending")]
  <2>1. g.phase \in {"create", "insert"} /\ g.order = None
    BY DEF IdleHandler
  <2>2. handler' = [handler EXCEPT ![w] = g]
    BY <1>1 DEF CreateOrder, Become
  <2> HIDE DEF g
  <2>3. Sound(g, orders, statusLog, leads)
    BY <2>1 DEF Sound, Updating
  <2> QED
    BY <1>0, <2>2, <2>3, QuietDecision
<1>2. ASSUME NEW o \in Order, NEW accept \in BOOLEAN, UpdateRead(w, o, accept)
      PROVE  DecisionsInv'
  <2> DEFINE g == [IdleHandler EXCEPT !.phase = "update", !.order = o, !.accept = accept,
                                      !.row = orders[o]]
  <2>1. g.phase = "update" /\ g.order = o /\ g.row = orders[o]
    BY DEF IdleHandler
  <2>2. handler' = [handler EXCEPT ![w] = g] /\ o \in leads
    BY <1>2 DEF UpdateRead, Become
  <2> HIDE DEF g
  <2>3. Sound(g, orders, statusLog, leads)
    BY <2>1, <2>2 DEF Sound, Updating, Untold
  <2> QED
    BY <1>0, <2>2, <2>3, QuietDecision
<1>3. ASSUME NEW o \in Order, RejectRead(w, o)
      PROVE  DecisionsInv'
  <2> DEFINE g == [IdleHandler EXCEPT !.phase = "reject", !.order = o]
  <2>1. g.phase = "reject" /\ g.order = o
    BY DEF IdleHandler
  <2>2. handler' = [handler EXCEPT ![w] = g] /\ o \in leads /\ orders[o].status = "pending"
    BY <1>3 DEF RejectRead, Become, Undecided
  <2> HIDE DEF g
  <2>3. Sound(g, orders, statusLog, leads)
    BY <2>1, <2>2 DEF Sound, Updating, Untold
  <2> QED
    BY <1>0, <2>2, <2>3, QuietDecision
<1>4. ASSUME NEW o \in Order, RemoveRead(w, o)
      PROVE  DecisionsInv'
  <2> DEFINE g == [IdleHandler EXCEPT !.phase = "remove", !.order = o, !.row = orders[o]]
  <2>1. g.phase = "remove"
    BY DEF IdleHandler
  <2>2. handler' = [handler EXCEPT ![w] = g]
    BY <1>4 DEF RemoveRead, Become
  <2> HIDE DEF g
  <2>3. Sound(g, orders, statusLog, leads)
    BY <2>1 DEF Sound, Updating
  <2> QED
    BY <1>0, <2>2, <2>3, QuietDecision
<1> QED
  BY <1>1, <1>2, <1>3, <1>4 DEF HandlerStarts

\* A creation writes a row no order has yet, and its log with it.
LEMMA CreateDecides ==
  ASSUME OneWorker, DecisionsInv, OrdersInv', NEW w \in Worker,
         CreateInvoice(w) \/ CreateInvoiceFails(w) \/ InsertOrder(w) \/ CreateLedger(w)
  PROVE  DecisionsInv'
<1> DEFINE h0 == handler[w]
<1>0. h0 \in Handler /\ Fits(h0, orders, invoices) /\ Sound(h0, orders, statusLog, leads)
      /\ \A o \in leads : LogAgrees(h0, o, orders, statusLog)
  BY DEF DecisionsInv, OrdersInv
<1>1. CASE CreateInvoice(w)
  <2>1. PICK o \in Order, i \in Invoice :
          /\ FreshNumber(o)
          /\ handler' = [handler EXCEPT ![w] = [h0 EXCEPT !.phase = "insert", !.order = o,
                                                          !.row.external = i]]
    BY <1>1 DEF CreateInvoice, Become
  <2> DEFINE g == [h0 EXCEPT !.phase = "insert", !.order = o, !.row.external = i]
  <2>2. g.phase = "insert" /\ g.order = o
    BY <1>0 DEF Handler
  <2>3. handler' = [handler EXCEPT ![w] = g] /\ orders[o] = None
    BY <2>1 DEF FreshNumber
  <2>4. UNCHANGED <<orders, statusLog, leads>> /\ h0.phase \notin Untold
    BY <1>1 DEF CreateInvoice, surveyVars, Untold
  <2> HIDE DEF g
  <2>5. Sound(g, orders, statusLog, leads)
    BY <2>2, <2>3 DEF Sound, Updating
  <2> QED
    BY <2>3, <2>4, <2>5, QuietDecision
<1>2. CASE CreateInvoiceFails(w)
  <2>1. UNCHANGED <<orders, statusLog, leads>> /\ h0.phase = "create"
    BY <1>2 DEF CreateInvoiceFails, surveyVars
  <2>2. CASE Return(w)
    BY <2>1, <2>2, QuietReturn DEF Untold
  <2>3. CASE handler' = [handler EXCEPT ![w].retry = @ + 1]
    <3> DEFINE g == [h0 EXCEPT !.retry = @ + 1]
    <3>1. g.phase = "create" /\ g.order = h0.order
      BY <1>0, <2>1 DEF Handler
    <3>2. handler' = [handler EXCEPT ![w] = g]
      BY <2>3
    <3> HIDE DEF g
    <3>3. Sound(g, orders, statusLog, leads)
      BY <1>0, <2>1, <3>1 DEF Sound, Updating
    <3> QED
      BY <2>1, <3>2, <3>3, QuietDecision DEF Untold
  <2> QED
    BY <1>2, <2>2, <2>3 DEF CreateInvoiceFails
<1>3. CASE InsertOrder(w)
  <2>1. PICK o \in Order :
          /\ SavedNumber(w, o)
          /\ leads' = leads \cup {o}
          /\ orders' = [orders EXCEPT ![o] = h0.row]
          /\ statusLog' = [statusLog EXCEPT ![o] = h0.row.status]
          /\ handler' = [handler EXCEPT ![w] = [h0 EXCEPT !.phase = "create_ledger", !.order = o]]
    BY <1>3 DEF InsertOrder, Become
  <2>2. orders[o] = None
    BY <1>0, <1>3, <2>1 DEF InsertOrder, SavedNumber, FreshNumber, Sound
  <2> DEFINE g == [h0 EXCEPT !.phase = "create_ledger", !.order = o]
  <2>4. g.phase = "create_ledger" /\ h0.phase = "insert"
    BY <1>0, <1>3 DEF Handler, InsertOrder
  <2>5. handler' = [handler EXCEPT ![w] = g]
    BY <2>1
  <2> HIDE DEF g
  <2>6. orders'[o] = h0.row /\ statusLog'[o] = h0.row.status
        /\ \A p \in Order \ {o} : orders'[p] = orders[p] /\ statusLog'[p] = statusLog[p]
    BY <2>1 DEF DecisionsInv, OrdersInv, TablesTyped
  <2>7. leads \subseteq Order
    BY DEF DecisionsInv, OrdersInv, SurveysInv, SurveysTypeOK
  <2>8. \A p \in leads' : LogAgrees(g, p, orders', statusLog')
    BY <1>0, <2>1, <2>4, <2>6, <2>7 DEF LogAgrees, Untold
  <2>9. Sound(g, orders', statusLog', leads')
    BY <2>4 DEF Sound, Updating
  <2> QED
    BY <2>5, <2>8, <2>9, DecisionMoves
<1>4. CASE CreateLedger(w)
  BY <1>4, QuietReturn DEF CreateLedger, surveyVars, Untold
<1> QED
  BY <1>1, <1>2, <1>3, <1>4

\* update and accept before the save: the status read is the status there.
LEMMA UpdateDecides ==
  ASSUME OneWorker, DecisionsInv, OrdersInv', NEW w \in Worker,
         \/ \E dto \in OrderDto : UpdateCheck(w, dto)
         \/ UpdateDeleteInvoice(w) \/ UpdateNewInvoice(w) \/ UpdateInvoice(w)
         \/ UpdateInvoiceGone(w) \/ UpdateLedger(w)
  PROVE  DecisionsInv'
<1> DEFINE h0 == handler[w]
<1>0. h0 \in Handler /\ Fits(h0, orders, invoices) /\ Sound(h0, orders, statusLog, leads)
      /\ \A o \in leads : LogAgrees(h0, o, orders, statusLog)
  BY DEF DecisionsInv, OrdersInv
<1>u. UNCHANGED <<orders, statusLog, leads>>
  BY DEF UpdateCheck, UpdateDeleteInvoice, UpdateNewInvoice, UpdateInvoice, UpdateInvoiceGone,
         UpdateLedger, surveyVars
<1>m. ASSUME NEW g, g.order = h0.order, g.row.status = h0.row.status,
             h0.phase \in Updating \ Untold, g.phase \in Updating
      PROVE  Sound(g, orders, statusLog, leads)
  <2>1. h0.order \in leads /\ h0.row.status = orders[h0.order].status
        /\ statusLog[h0.order] = orders[h0.order].status
    BY <1>0, <1>m DEF Sound, LogAgrees
  <2> QED
    BY <1>m, <2>1 DEF Sound, Updating
<1>1. ASSUME NEW dto \in OrderDto, UpdateCheck(w, dto)
      PROVE  DecisionsInv'
  <2> DEFINE next == AfterCheck(h0.row, dto, h0.accept)
             g == [h0 EXCEPT !.phase = next, !.dto = dto]
  <2>1. h0.phase = "update" /\ next \in Updating
    BY <1>1 DEF UpdateCheck, AfterCheck, AfterInvoice, Updating
  <2>2. Return(w) \/ handler' = [handler EXCEPT ![w] = g]
    BY <1>1 DEF UpdateCheck, Become
  <2> HIDE DEF next
  <2>3. g.phase = next /\ g.order = h0.order /\ g.row = h0.row
    BY <1>0 DEF Handler
  <2> HIDE DEF g
  <2>4. Sound(g, orders, statusLog, leads) /\ h0.phase \notin Untold
    BY <1>m, <2>1, <2>3 DEF Updating, Untold
  <2> QED
    BY <1>u, <2>2, <2>4, QuietReturn, QuietDecision
<1>2. ASSUME NEW phase \in Updating, Proceed(w, phase), h0.phase \in Updating \ Untold
      PROVE  DecisionsInv'
  <2> DEFINE g == [h0 EXCEPT !.phase = phase]
  <2>1. g.phase = phase /\ g.order = h0.order /\ g.row = h0.row
    BY <1>0 DEF Handler
  <2>2. handler' = [handler EXCEPT ![w] = g]
    BY <1>2 DEF Proceed
  <2> HIDE DEF g
  <2>3. Sound(g, orders, statusLog, leads)
    BY <1>m, <1>2, <2>1
  <2> QED
    BY <1>u, <1>2, <2>2, <2>3, QuietDecision
<1>3. CASE UpdateDeleteInvoice(w)
  BY <1>2, <1>3 DEF UpdateDeleteInvoice, Updating, Untold
<1>4. CASE UpdateNewInvoice(w)
  <2>1. PICK i \in Invoice :
          handler' = [handler EXCEPT ![w] = [h0 EXCEPT !.phase = AfterInvoice(h0.accept),
                                                       !.row.external = i]]
    BY <1>4 DEF UpdateNewInvoice, Become
  <2> DEFINE phase == AfterInvoice(h0.accept)
             g == [h0 EXCEPT !.phase = phase, !.row.external = i]
  <2>2. phase \in Updating /\ h0.phase = "new_invoice"
    BY <1>4 DEF AfterInvoice, UpdateNewInvoice, Updating
  <2>3. h0.row \in OrderRow
    BY <1>0, <2>2 DEF Fits
  <2> HIDE DEF phase
  <2>4. g.phase = phase /\ g.order = h0.order /\ g.row.status = h0.row.status
    BY <1>0, <2>3 DEF Handler, OrderRow
  <2>5. handler' = [handler EXCEPT ![w] = g]
    BY <2>1 DEF phase
  <2> HIDE DEF g
  <2>6. Sound(g, orders, statusLog, leads) /\ h0.phase \notin Untold
    BY <1>m, <2>2, <2>4 DEF Updating, Untold
  <2> QED
    BY <1>u, <2>5, <2>6, QuietDecision
<1>5. CASE UpdateInvoice(w)
  BY <1>2, <1>5 DEF UpdateInvoice, AfterInvoice, Updating, Untold
<1>6. CASE UpdateInvoiceGone(w)
  BY <1>u, <1>6, QuietReturn DEF UpdateInvoiceGone, Untold
<1>7. CASE UpdateLedger(w)
  <2> DEFINE g == [h0 EXCEPT !.phase = "save"]
  <2>1. g.phase = "save" /\ g.order = h0.order /\ g.row = h0.row /\ h0.phase = "update_ledger"
    BY <1>0, <1>7 DEF Handler, UpdateLedger
  <2>2. handler' = [handler EXCEPT ![w] = g]
    BY <1>7 DEF UpdateLedger, Proceed
  <2> HIDE DEF g
  <2>3. Sound(g, orders, statusLog, leads)
    BY <1>0, <2>1 DEF Sound, Updating, Untold
  <2> QED
    BY <1>u, <2>1, <2>2, <2>3, QuietDecision DEF Untold
<1> QED
  BY <1>1, <1>3, <1>4, <1>5, <1>6, <1>7

\* The steps that write a status or its log.
LEMMA WriteDecides ==
  ASSUME OneWorker, DecisionsInv, OrdersInv', NEW w \in Worker,
         UpdateLogStatus(w) \/ UpdateSave(w) \/ RejectWrite(w) \/ RejectLog(w)
  PROVE  DecisionsInv'
<1> DEFINE h0 == handler[w]
<1>0. h0 \in Handler /\ Fits(h0, orders, invoices) /\ Sound(h0, orders, statusLog, leads)
      /\ \A o \in leads : LogAgrees(h0, o, orders, statusLog)
  BY DEF DecisionsInv, OrdersInv
<1>1. PICK o \in leads : o = h0.order
  BY <1>0 DEF UpdateLogStatus, UpdateSave, RejectWrite, RejectLog, Sound, Updating
<1>2. o \in Order /\ leads \subseteq Order /\ leads' = leads /\ orders[o] \in OrderRow
  BY DEF DecisionsInv, OrdersInv, LeadsSaved, SurveysInv, SurveysTypeOK,
         UpdateLogStatus, UpdateSave, RejectWrite, RejectLog, surveyVars
<1>3. CASE UpdateLogStatus(w)
  <2> DEFINE g == [h0 EXCEPT !.phase = "update_ledger", !.row.status = "accepted"]
  <2>1. h0.phase = "log_status" /\ h0.row \in OrderRow
    BY <1>0, <1>3 DEF UpdateLogStatus, Fits
  <2>2. g.phase = "update_ledger" /\ g.order = o /\ g.row.status = "accepted"
    BY <1>0, <1>1, <2>1 DEF Handler, OrderRow
  <2>3. handler' = [handler EXCEPT ![w] = g] /\ orders' = orders
    BY <1>3 DEF UpdateLogStatus, Become
  <2> HIDE DEF g
  <2>4. statusLog'[o] = "accepted" /\ \A p \in Order \ {o} : statusLog'[p] = statusLog[p]
    BY <1>1, <1>2, <1>3 DEF UpdateLogStatus, DecisionsInv, OrdersInv, TablesTyped
  <2>5. Sound(g, orders', statusLog', leads')
    BY <1>2, <2>2, <2>4 DEF Sound, Updating, Untold
  <2>6. \A p \in leads' : LogAgrees(g, p, orders', statusLog')
    BY <1>0, <1>1, <1>2, <2>2, <2>3, <2>4 DEF LogAgrees, Untold
  <2> QED
    BY <2>3, <2>5, <2>6, DecisionMoves
<1>4. CASE UpdateSave(w)
  <2>1. h0.phase = "save" /\ h0.row \in OrderRow
    BY <1>0, <1>4 DEF UpdateSave, Fits
  <2>2. orders'[o].status = h0.row.status /\ \A p \in Order \ {o} : orders'[p] = orders[p]
    <3>1. WithDto(h0.row, h0.dto).status = h0.row.status
      BY <2>1 DEF WithDto, OrderRow
    <3> QED
      BY <1>1, <1>2, <1>4, <3>1 DEF UpdateSave, Saved, DecisionsInv, OrdersInv, TablesTyped
  <2>3. statusLog' = statusLog /\ statusLog[o] = h0.row.status
        /\ h0.row.status \in {orders[o].status, "accepted"}
    BY <1>0, <1>1, <1>4, <2>1 DEF UpdateSave, Sound
  <2>4. handler' = [handler EXCEPT ![w] = IdleHandler]
    BY <1>4 DEF UpdateSave, Return, Become
  <2>5. Sound(IdleHandler, orders', statusLog', leads')
    BY IdleTypes DEF Sound, Updating
  <2>6. \A p \in leads' : LogAgrees(IdleHandler, p, orders', statusLog')
    BY <1>0, <1>1, <1>2, <2>2, <2>3 DEF LogAgrees
  <2> QED
    BY <2>4, <2>5, <2>6, DecisionMoves
<1>5. CASE RejectWrite(w)
  <2> DEFINE g == [h0 EXCEPT !.phase = "log_reject"]
  <2>1. g.phase = "log_reject" /\ g.order = o /\ orders[o].status = "pending"
    BY <1>0, <1>1, <1>5 DEF Handler, RejectWrite, Sound
  <2>2. handler' = [handler EXCEPT ![w] = g] /\ statusLog' = statusLog
    BY <1>5 DEF RejectWrite, Proceed
  <2> HIDE DEF g
  <2>3. orders'[o].status = "rejected" /\ \A p \in Order \ {o} : orders'[p] = orders[p]
    BY <1>1, <1>2, <1>5 DEF RejectWrite, DecisionsInv, OrdersInv, TablesTyped, OrderRow
  <2>4. Sound(g, orders', statusLog', leads')
    BY <1>2, <2>1, <2>3 DEF Sound, Updating, Untold
  <2>5. \A p \in leads' : LogAgrees(g, p, orders', statusLog')
    BY <1>0, <1>1, <1>2, <2>1, <2>2, <2>3 DEF LogAgrees, Untold
  <2> QED
    BY <2>2, <2>4, <2>5, DecisionMoves
<1>6. CASE RejectLog(w)
  <2>1. orders' = orders /\ orders[o].status = "rejected"
    BY <1>0, <1>1, <1>6 DEF RejectLog, Sound
  <2>2. statusLog'[o] = "rejected" /\ \A p \in Order \ {o} : statusLog'[p] = statusLog[p]
    BY <1>1, <1>2, <1>6 DEF RejectLog, DecisionsInv, OrdersInv, TablesTyped
  <2>3. handler' = [handler EXCEPT ![w] = IdleHandler]
    BY <1>6 DEF RejectLog, Return, Become
  <2>4. Sound(IdleHandler, orders', statusLog', leads')
    BY IdleTypes DEF Sound, Updating
  <2>5. \A p \in leads' : LogAgrees(IdleHandler, p, orders', statusLog')
    BY <1>0, <1>1, <1>2, <2>1, <2>2 DEF LogAgrees
  <2> QED
    BY <2>1, <2>3, <2>4, <2>5, DecisionMoves
<1> QED
  BY <1>3, <1>4, <1>5, <1>6

\* remove writes no status; it takes the order away.
LEMMA RemoveDecides ==
  ASSUME OneWorker, DecisionsInv, OrdersInv', NEW w \in Worker,
         \/ RemoveGetInvoice(w) \/ RemoveInvoice(w) \/ RemoveOrder(w)
         \/ RemoveRequests(w) \/ RemoveLedger(w)
  PROVE  DecisionsInv'
<1> DEFINE h0 == handler[w]
<1>0. h0 \in Handler /\ \A o \in leads : LogAgrees(h0, o, orders, statusLog)
  BY DEF DecisionsInv, OrdersInv
<1>1. /\ h0.phase \in {"remove", "remove_invoice", "remove_order", "remove_requests", "remove_ledger"}
      /\ orders' = orders /\ statusLog' = statusLog /\ leads' \subseteq leads
  BY DEF RemoveGetInvoice, RemoveInvoice, RemoveOrder, RemoveRequests, RemoveLedger, surveyVars
<1>2. \/ Return(w)
      \/ \E phase \in {"remove_invoice", "remove_order", "remove_requests", "remove_ledger"} :
           Proceed(w, phase)
  BY DEF RemoveGetInvoice, RemoveInvoice, RemoveOrder, RemoveRequests, RemoveLedger
<1>3. PICK g : /\ handler' = [handler EXCEPT ![w] = g]
               /\ g.phase \in {"idle", "remove_invoice", "remove_order", "remove_requests",
                               "remove_ledger"}
  <2>1. ASSUME NEW phase
        PROVE  [h0 EXCEPT !.phase = phase].phase = phase
    BY <1>0 DEF Handler
  <2> QED
    BY <1>2, <2>1, IdleTypes DEF Return, Become, Proceed
<1>4. Sound(g, orders', statusLog', leads')
  BY <1>3 DEF Sound, Updating
<1>5. \A o \in leads' : LogAgrees(g, o, orders', statusLog')
  BY <1>0, <1>1 DEF LogAgrees, Untold
<1> QED
  BY <1>1, <1>3, <1>4, <1>5, DecisionMoves

\* Jobs, the gateway, lost calls and surveys write no status.
LEMMA OutsideDecides ==
  ASSUME OneWorker, DecisionsInv, OrdersInv',
         \/ \E j \in Job : \/ \E cb \in callbacks : CallbackFetch(j, cb)
                           \/ JobGoesOn(j) \/ CallbackFails(j)
         \/ \E cb \in callbacks : CallbackLost(cb)
         \/ \E i \in Invoice, status \in PgMoves : PgStatusChange(i, status)
         \/ SurveyStep
         \/ UNCHANGED vars
  PROVE  DecisionsInv'
<1>1. leads' = leads /\ handler' = handler /\ statusLog' = statusLog
  BY DEF CallbackFetch, JobGoesOn, CallbackLookup, CallbackApply, CallbackLedger, CallbackFails,
         CallbackLost, PgStatusChange, surveyVars, vars, orderVars,
         SurveyStep, ControllerNext, HandlerStep, SurveyCreate, SurveyUpdate, SurveyLog,
         SurveyCreateNotify, SurveyUpdateWrite, SurveyLogStatus, SurveyLogInsert, SurveyCallFails,
         SurveyRemove
<1>2. \A p \in Order : IF orders[p] = None THEN orders'[p] = None
                                           ELSE orders'[p].status = orders[p].status
  <2>1. CASE orders' = orders
    BY <2>1
  <2>2. ASSUME NEW j \in Job, CallbackApply(j)
        PROVE  \A p \in Order : IF orders[p] = None THEN orders'[p] = None
                                                    ELSE orders'[p].status = orders[p].status
    <3>1. job[j].order \in Order /\ orders[job[j].order] \in OrderRow /\ None \notin OrderRow
      BY <2>2, NoneIsNoRow DEF CallbackApply, DecisionsInv, OrdersInv, JobFits
    <3>2. PICK payment : \/ orders' = [orders EXCEPT ![job[j].order].payment = payment]
                         \/ orders' = orders
      BY <2>2 DEF CallbackApply
    <3> QED
      BY <3>1, <3>2 DEF DecisionsInv, OrdersInv, TablesTyped, OrderRow
  <2> QED
    BY <2>1, <2>2 DEF CallbackFetch, JobGoesOn, CallbackLookup, CallbackLedger, CallbackFails,
                      CallbackLost, PgStatusChange, SurveyStep, vars, orderVars
<1>3. leads \subseteq Order /\ \A o \in leads : orders[o] # None
  BY NoneIsNoRow DEF DecisionsInv, OrdersInv, LeadsSaved, SurveysInv, SurveysTypeOK
<1>4. ASSUME NEW w \in Worker
      PROVE  /\ Sound(handler[w], orders', statusLog, leads)
             /\ \A o \in leads : LogAgrees(handler[w], o, orders', statusLog)
  <2> DEFINE h0 == handler[w]
  <2>1. Sound(h0, orders, statusLog, leads) /\ h0 \in Handler /\ Fits(h0, orders, invoices)
        /\ \A o \in leads : LogAgrees(h0, o, orders, statusLog)
    BY DEF DecisionsInv, OrdersInv
  <2>2. h0.order \in Order \cup {None}
    BY <2>1 DEF Handler
  <2> HIDE DEF h0
  <2>3. h0.phase \in Updating \cup {"reject", "log_reject"} =>
          orders'[h0.order].status = orders[h0.order].status
    BY <1>2, <1>3, <2>1 DEF Sound
  <2>4. h0.order = None \/ orders[h0.order] # None \/ orders'[h0.order] = None
    BY <1>2, <2>2
  <2>5. Sound(h0, orders', statusLog, leads)
    BY <2>1, <2>3, <2>4 DEF Sound, Updating, Untold
  <2>6. \A o \in leads : LogAgrees(h0, o, orders', statusLog)
    BY <1>2, <1>3, <2>1 DEF LogAgrees
  <2> QED
    BY <2>5, <2>6 DEF h0
<1> QED
  BY <1>1, <1>2, <1>3, <1>4 DEF DecisionsInv

\* Every step keeps the invariant.
LEMMA DecisionsStep ==
  ASSUME OneWorker, DecisionsInv, [Next]_vars
  PROVE  DecisionsInv'
<1>0. OrdersInv'
  BY OrdersInvStep DEF DecisionsInv
<1>1. ASSUME NEW w \in Worker, HandlerGoesOn(w)
      PROVE  DecisionsInv'
  BY <1>0, <1>1, CreateDecides, UpdateDecides, WriteDecides, RemoveDecides DEF HandlerGoesOn
<1>2. ASSUME NEW w \in Worker, HandlerFails(w)
      PROVE  DecisionsInv'
  BY <1>2 DEF HandlerFails, OneWorker
<1> QED
  BY <1>0, <1>1, <1>2, StartDecides, CreateDecides, OutsideDecides DEF Next

\* The invariant holds of the empty tables.
LEMMA DecisionsInit ==
  ASSUME Init
  PROVE  DecisionsInv
<1>1. leads = {} /\ \A w \in Worker : handler[w] = IdleHandler
  BY DEF Init, SurveysInit
<1> QED
  BY <1>1, OrdersInvInit, IdleTypes DEF DecisionsInv, Sound, Updating

\* One request of the orders controller at a time, with any survey, callback
\* and gateway steps in between: at rest the status log is the status.
THEOREM StatusIsLogged == OneWorker => (Spec => []LogTellsStatus)
<1> SUFFICES ASSUME OneWorker PROVE Spec => []LogTellsStatus
  OBVIOUS
<1>1. DecisionsInv /\ [Next]_vars => DecisionsInv'
  BY DecisionsStep
<1>2. DecisionsInv => LogTellsStatus
  <2> SUFFICES ASSUME DecisionsInv, AtRestAll, NEW o \in leads
               PROVE  statusLog[o] = orders[o].status
    BY DEF LogTellsStatus
  <2>1. \A w \in Worker : handler[w].phase = "idle"
    BY InRunning DEF AtRestAll
  <2> QED
    BY <2>1 DEF DecisionsInv, LogAgrees, Untold
<1> QED
  BY <1>1, <1>2, DecisionsInit, PTL DEF Spec

-----------------------------------------------------------------------------
(* Any number of workers *)

\* A handler that has removed the order o still has its requests to remove.
Removing(o) == \E w \in Worker : handler[w].phase = "remove_requests" /\ handler[w].order = o

RequestsInv ==
  /\ OrdersInv
  /\ \A s \in Survey : Live(s) /\ surveys[s].order # None =>
       surveys[s].order \in leads \/ Removing(surveys[s].order)

\* No request is left alone by a step that keeps the orders that are there and
\* the handlers that have requests to remove.
LEMMA RequestsStay ==
  ASSUME RequestsInv, OrdersInv', leads \subseteq leads',
         \A v \in Worker : handler[v].phase = "remove_requests" => handler'[v] = handler[v],
         \A s \in Survey : surveys'[s].state = "live" /\ surveys'[s].order # None =>
           \/ Live(s) /\ surveys'[s].order = surveys[s].order
           \/ surveys'[s].order \in leads'
  PROVE  RequestsInv'
<1>1. ASSUME NEW o, Removing(o) PROVE Removing(o)'
  BY <1>1 DEF Removing
<1>2. ASSUME NEW s \in Survey, surveys'[s].state = "live", surveys'[s].order # None
      PROVE  (surveys[s].order \in leads \/ Removing(surveys[s].order))'
  <2>1. PICK o : o = surveys'[s].order
    OBVIOUS
  <2>2. o \in leads' \/ Removing(o)'
    BY <1>1, <1>2, <2>1 DEF RequestsInv
  <2> QED
    BY <2>1, <2>2 DEF Removing
<1> QED
  BY <1>2 DEF RequestsInv, Live

\* A step of a worker that has no requests to remove and writes none.
LEMMA WorkerRequests ==
  ASSUME RequestsInv, OrdersInv', NEW w \in Worker, NEW g,
         handler' = [handler EXCEPT ![w] = g], handler[w].phase # "remove_requests",
         leads \subseteq leads', surveys' = surveys
  PROVE  RequestsInv'
<1>1. \A v \in Worker : handler[v].phase = "remove_requests" => handler'[v] = handler[v]
  BY DEF RequestsInv, OrdersInv
<1> QED
  BY <1>1, RequestsStay DEF Live

\* The two requests of a new order belong to it.
LEMMA InsertKeepsRequests ==
  ASSUME RequestsInv, OrdersInv', NEW w \in Worker, InsertOrder(w)
  PROVE  RequestsInv'
<1>1. PICK o \in Order, d \in RequestDriver, e \in RequestDriver :
        InsertRequests(o, d, e) /\ leads' = leads \cup {o}
  BY DEF InsertOrder
<1>2. \A s \in Survey : surveys'[s] = surveys[s] \/ surveys'[s].order = o
  <2>1. PICK r1 \in Survey, r2 \in Survey :
          surveys' = [surveys EXCEPT ![r1] = RequestRow(o, "delivery", d),
                                     ![r2] = RequestRow(o, "pick_up", e)]
    BY <1>1 DEF InsertRequests, Unused
  <2>2. ASSUME NEW type, NEW driver PROVE RequestRow(o, type, driver).order = o
    BY DEF RequestRow, AbsentRow
  <2> QED
    BY <2>1, <2>2 DEF RequestsInv, OrdersInv, SurveysInv, SurveysTypeOK
<1>3. \A s \in Survey : surveys'[s].state = "live" /\ surveys'[s].order # None =>
        (Live(s) /\ surveys'[s].order = surveys[s].order) \/ surveys'[s].order \in leads'
  BY <1>1, <1>2 DEF Live
<1>4. handler[w].phase # "remove_requests"
  BY DEF InsertOrder
<1>5. \A v \in Worker : handler[v].phase = "remove_requests" => handler'[v] = handler[v]
  BY <1>4, OneHandlerMoves DEF HandlerGoesOn, RequestsInv, OrdersInv
<1> QED
  BY <1>1, <1>3, <1>5, RequestsStay

\* An order is removed by a handler that goes on to its requests.
LEMMA RemoveKeepsRequests ==
  ASSUME RequestsInv, OrdersInv', NEW w \in Worker, RemoveOrder(w) \/ RemoveRequests(w)
  PROVE  RequestsInv'
<1>o. PICK o : o = handler[w].order
  OBVIOUS
<1>0. handler \in [Worker -> Handler] /\ handler[w] \in Handler
  BY DEF RequestsInv, OrdersInv
<1>1. PICK phase : Proceed(w, phase) /\ phase = IF RemoveOrder(w) THEN "remove_requests"
                                                                  ELSE "remove_ledger"
  BY DEF RemoveOrder, RemoveRequests
<1>2. handler'[w].phase = phase /\ handler'[w].order = o
      /\ \A v \in Worker \ {w} : handler'[v] = handler[v]
  BY <1>o, <1>0, <1>1 DEF Proceed, Handler
<1>3. ASSUME NEW p, Removing(p), p # o \/ RemoveOrder(w) PROVE Removing(p)'
  <2>1. PICK v \in Worker : handler[v].phase = "remove_requests" /\ handler[v].order = p
    BY <1>3 DEF Removing
  <2>2. v # w
    BY <1>o, <1>3, <2>1 DEF RemoveOrder
  <2> QED
    BY <1>2, <2>1, <2>2 DEF Removing
<1>4. CASE RemoveOrder(w)
  <2>1. leads' = leads \ {o} /\ surveys' = surveys
    BY <1>o, <1>4 DEF RemoveOrder
  <2>2. Removing(o)'
    BY <1>1, <1>2, <1>4 DEF Removing
  <2>3. ASSUME NEW s \in Survey, surveys'[s].state = "live", surveys'[s].order # None
        PROVE  (surveys[s].order \in leads \/ Removing(surveys[s].order))'
    <3>1. PICK p : p = surveys'[s].order /\ p = surveys[s].order
      BY <2>1
    <3>2. p \in leads \/ Removing(p)
      BY <2>1, <2>3, <3>1 DEF RequestsInv, Live
    <3>3. p \in leads' \/ Removing(p)'
      BY <1>3, <1>4, <2>1, <2>2, <3>2
    <3> QED
      BY <3>1, <3>3 DEF Removing
  <2> QED
    BY <2>3 DEF RequestsInv, Live
<1>5. CASE RemoveRequests(w)
  <2>1. leads' = leads /\ surveys' = SoftDeleteRequests(o)
    BY <1>o, <1>5 DEF RemoveRequests, RequestsRemoved
  <2>2. \A s \in Survey : surveys'[s].state = "live" =>
          surveys'[s] = surveys[s] /\ Live(s) /\ surveys[s].order # o
    <3>1. \A s \in Survey : [surveys[s] EXCEPT !.state = "deleted"].state = "deleted"
      BY DEF RequestsInv, OrdersInv, SurveysInv, SurveysTypeOK, SurveyRow
    <3> QED
      BY <2>1, <3>1 DEF SoftDeleteRequests, Live
  <2>3. ASSUME NEW s \in Survey, surveys'[s].state = "live", surveys'[s].order # None
        PROVE  (surveys[s].order \in leads \/ Removing(surveys[s].order))'
    <3>1. PICK p : p = surveys'[s].order /\ p = surveys[s].order
      BY <2>2, <2>3
    <3>2. p \in leads' \/ Removing(p)'
      BY <1>3, <2>1, <2>2, <2>3, <3>1 DEF RequestsInv
    <3> QED
      BY <3>1, <3>2 DEF Removing
  <2> QED
    BY <2>3 DEF RequestsInv, Live
<1> QED
  BY <1>4, <1>5

\* A step of the surveys controller makes no request and revives none.
LEMMA SurveyStepRequests ==
  ASSUME RequestsInv, OrdersInv', SurveyStep
  PROVE  RequestsInv'
<1>1. leads' = leads /\ handler' = handler
  BY ControllerKeepsOrders DEF SurveyStep, orderVars, RequestsInv, OrdersInv
<1>2. \A s \in Survey : surveys'[s].state = "live" /\ surveys'[s].order # None =>
        Live(s) /\ surveys'[s].order = surveys[s].order
  BY ControllerKeepsOrders DEF SurveyStep, RequestsInv, OrdersInv
<1> QED
  BY <1>1, <1>2, RequestsStay

\* Every step keeps the invariant, as long as no handler fails half way.
LEMMA RequestsStep ==
  ASSUME "handler" \notin Failures, RequestsInv, [Next]_vars
  PROVE  RequestsInv'
<1>0. OrdersInv'
  BY OrdersInvStep DEF RequestsInv
<1>1. CASE UNCHANGED vars
  BY <1>0, <1>1, RequestsStay DEF vars, surveyVars, orderVars, Live
<1>2. ASSUME NEW w \in Worker, HandlerStarts(w) \/ HandlerGoesOn(w) \/ CreateInvoiceFails(w)
      PROVE  RequestsInv'
  <2>1. CASE InsertOrder(w) \/ RemoveOrder(w) \/ RemoveRequests(w)
    BY <1>0, <2>1, InsertKeepsRequests, RemoveKeepsRequests
  <2>2. CASE HandlerStarts(w)
    <3>1. leads' = leads /\ surveys' = surveys /\ handler[w].phase # "remove_requests"
      BY <2>2, IdleTypes
      DEF HandlerStarts, CreateOrder, UpdateRead, RejectRead, RemoveRead, surveyVars
    <3> QED
      BY <1>0, <2>2, <3>1, OneHandlerMoves, WorkerRequests
  <2>3. CASE \/ CreateInvoice(w) \/ CreateInvoiceFails(w) \/ CreateLedger(w)
             \/ \E dto \in OrderDto : UpdateCheck(w, dto)
             \/ UpdateDeleteInvoice(w) \/ UpdateNewInvoice(w) \/ UpdateInvoice(w)
             \/ UpdateInvoiceGone(w) \/ UpdateLogStatus(w) \/ UpdateLedger(w) \/ UpdateSave(w)
             \/ RejectWrite(w) \/ RejectLog(w) \/ RemoveGetInvoice(w) \/ RemoveInvoice(w)
             \/ RemoveLedger(w)
    <3>1. leads' = leads /\ surveys' = surveys /\ handler[w].phase # "remove_requests"
      BY <2>3
      DEF CreateInvoice, CreateInvoiceFails, CreateLedger, UpdateCheck, UpdateDeleteInvoice,
          UpdateNewInvoice, UpdateInvoice, UpdateInvoiceGone, UpdateLogStatus, UpdateLedger,
          UpdateSave, RejectWrite, RejectLog, RemoveGetInvoice, RemoveInvoice, RemoveLedger,
          surveyVars
    <3> QED
      BY <1>0, <1>2, <3>1, OneHandlerMoves, WorkerRequests
  <2> QED
    BY <1>2, <2>1, <2>2, <2>3 DEF HandlerGoesOn
<1>3. ASSUME \/ \E j \in Job : \/ \E cb \in callbacks : CallbackFetch(j, cb)
                               \/ JobGoesOn(j) \/ CallbackFails(j)
             \/ \E cb \in callbacks : CallbackLost(cb)
             \/ \E i \in Invoice, status \in PgMoves : PgStatusChange(i, status)
      PROVE  RequestsInv'
  <2>1. leads' = leads /\ surveys' = surveys /\ handler' = handler
    BY <1>3 DEF CallbackFetch, JobGoesOn, CallbackLookup, CallbackApply, CallbackLedger,
                CallbackFails, CallbackLost, PgStatusChange, surveyVars
  <2> QED
    BY <1>0, <2>1, RequestsStay DEF Live
<1>4. CASE SurveyStep
  BY <1>0, <1>4, SurveyStepRequests
<1>5. ASSUME NEW w \in Worker PROVE ~HandlerFails(w)
  BY DEF HandlerFails
<1> QED
  BY <1>1, <1>2, <1>3, <1>4, <1>5 DEF Next

\* Any number of requests at once: when nothing runs, a request that is left
\* belongs to a live order, over every removal that was not cut short.
THEOREM RequestsFollow == "handler" \notin Failures => (Spec => []RequestsFollowOrder)
<1> SUFFICES ASSUME "handler" \notin Failures PROVE Spec => []RequestsFollowOrder
  OBVIOUS
<1>1. Init => RequestsInv
  BY OrdersInvInit DEF Init, SurveysInit, RequestsInv, Live, AbsentRow
<1>2. RequestsInv /\ [Next]_vars => RequestsInv'
  BY RequestsStep
<1>3. RequestsInv => RequestsFollowOrder
  <2> SUFFICES ASSUME RequestsInv, AtRestAll, NEW s \in Survey, Live(s), surveys[s].order # None
               PROVE  surveys[s].order \in leads
    BY DEF RequestsFollowOrder
  <2>1. ~Removing(surveys[s].order)
    BY InRunning DEF AtRestAll, Removing
  <2> QED
    BY <2>1 DEF RequestsInv
<1> QED
  BY <1>1, <1>2, <1>3, PTL DEF Spec

-----------------------------------------------------------------------------
(* One step at a time: invoices and ledger *)

\* bill is open and asks customer for the total of the order o.
BillFor(bill, o, customer, total) ==
  /\ bill \in InvoiceRow /\ bill.live
  /\ bill.number = o /\ bill.customer = customer /\ bill.total = total

\* But for the order o and the invoice i, open invoices and orders agree.
BillsAgree(o, i, rows, bills, open) ==
  /\ \A p \in open \ {o} : rows[p].external # None =>
       BillFor(bills[rows[p].external], p, rows[p].customer, rows[p].total)
  /\ \A k \in Invoice \ {i} : bills[k] # None /\ bills[k].live =>
       \E p \in open \ {o} : rows[p].external = k

\* But for the order o, the ledger has the rows of the orders.
LedgerAgrees(o, rows, books, open) ==
  \A p \in Order \ {o} : books[p] = IF p \in open THEN LedgerOf(rows[p]) ELSE None

\* The phases in which invoices, or the ledger, agree with every order, and those
\* in which the row that was read is still the row.
BillsDone == {"idle", "create", "create_ledger", "update", "delete_invoice", "change_invoice",
              "reject", "log_reject", "remove", "remove_invoice", "remove_requests",
              "remove_ledger"}
LedgerOff == {"save", "create_ledger", "remove_requests", "remove_ledger"}
RowRead == {"create_ledger", "update", "delete_invoice", "change_invoice", "new_invoice",
            "remove", "remove_invoice"}
Billed == {"log_status", "update_ledger", "save"}

\* What is so while the handler h runs and nothing else does.
Holds(h, rows, bills, books, open) ==
  /\ h.phase \notin LedgerOff => LedgerAgrees(None, rows, books, open)
  /\ h.phase \in LedgerOff => LedgerAgrees(h.order, rows, books, open)
  /\ h.phase \in BillsDone => BillsAgree(None, None, rows, bills, open)
  /\ h.phase \in {"new_invoice", "remove_order"} => BillsAgree(h.order, None, rows, bills, open)
  /\ h.phase \in RowRead => h.row = rows[h.order]
  /\ h.phase \in RowRead \cup Billed \cup {"reject", "log_reject", "remove_order"} => h.order \in open
  /\ h.phase \in {"remove_requests", "remove_ledger"} => h.order \in Order \ open
  /\ h.phase \in {"delete_invoice", "change_invoice", "remove_invoice"} => h.row.external # None
  /\ h.phase = "change_invoice" => h.dto.customer = h.row.customer
  /\ h.phase \in Billed =>
       /\ BillsAgree(h.order, h.row.external, rows, bills, open)
       /\ h.row.external \in Invoice
       /\ BillFor(bills[h.row.external], h.order, h.dto.customer, h.dto.total)
  /\ h.phase = "save" => books[h.order] = LedgerOf(WithDto(h.row, h.dto))
  /\ h.phase \in {"create", "insert"} =>
       /\ h.row.customer = h.dto.customer /\ h.row.total = h.dto.total
       /\ h.order = None => h.row.external = None /\ BillsAgree(None, None, rows, bills, open)
       /\ h.order # None =>
            /\ rows[h.order] = None /\ h.row.external \in Invoice
            /\ BillFor(bills[h.row.external], h.order, h.dto.customer, h.dto.total)
            /\ BillsAgree(None, h.row.external, rows, bills, open)
  /\ h.phase = "create" => h.order = None

\* What is so while the run of pgCallback does.
JobHolds(state, rows, bills, books, open) ==
  /\ BillsAgree(None, None, rows, bills, open)
  /\ state.phase # "ledger" => LedgerAgrees(None, rows, books, open)
  /\ state.phase = "ledger" => LedgerAgrees(state.order, rows, books, open)
                               /\ books[state.order] # None
  /\ state.phase \in {"apply", "ledger"} => state.order \in open /\ state.row = rows[state.order]

\* Neither a handler nor a job runs.
Quiet == (\A w \in Worker : handler[w].phase = "idle") /\ (\A j \in Job : job[j].phase = "idle")

SerialInv ==
  /\ OrdersInv
  /\ \A p, q \in Running : p = q
  /\ \A w \in Worker : handler[w].phase # "idle" =>
       Holds(handler[w], orders, invoices, ledger, leads)
  /\ \A j \in Job : job[j].phase # "idle" => JobHolds(job[j], orders, invoices, ledger, leads)
  /\ Quiet => Holds(IdleHandler, orders, invoices, ledger, leads)

Now(h) == Holds(h, orders, invoices, ledger, leads)
JobNow(state) == JobHolds(state, orders, invoices, ledger, leads)

Then(h) == Holds(h, orders', invoices', ledger', leads')
JobThen(state) == JobHolds(state, orders', invoices', ledger', leads')

\* An idle handler says nothing of its own.
LEMMA IdleHolds ==
  ASSUME NEW h, h.phase = "idle", NEW rows, NEW bills, NEW books, NEW open
  PROVE  Holds(h, rows, bills, books, open) <=>
           LedgerAgrees(None, rows, books, open) /\ BillsAgree(None, None, rows, bills, open)
BY DEF Holds, LedgerOff, BillsDone, RowRead, Billed

\* A worker that steps is alone: its handler holds.
LEMMA WorkerAlone ==
  ASSUME SerialInv, OneAtATime, NEW w \in Worker, NEW g, handler' = [handler EXCEPT ![w] = g],
         job' = job, handler[w].phase # "idle" \/ g.phase # "idle"
  PROVE  /\ Now(handler[w])
         /\ \A v \in Worker \ {w} : handler'[v].phase = "idle"
         /\ \A j \in Job : job'[j].phase = "idle"
<1>1. handler'[w] = g /\ \A v \in Worker \ {w} : handler'[v] = handler[v]
  BY DEF SerialInv, OrdersInv
<1>2. CASE handler[w].phase # "idle"
  BY <1>1, <1>2, InRunning DEF SerialInv, Now
<1>3. CASE handler[w].phase = "idle"
  <2>1. g.phase # "idle" /\ <<"worker", w>> \in Running'
    BY <1>1, <1>3, InRunning
  <2>2. /\ \A v \in Worker \ {w} : handler'[v].phase = "idle"
        /\ \A j \in Job : job'[j].phase = "idle"
    BY <2>1, InRunning DEF OneAtATime
  <2>3. Quiet
    BY <1>1, <1>3, <2>2 DEF Quiet
  <2> QED
    BY <1>3, <2>2, <2>3, IdleHolds, IdleTypes DEF SerialInv, Now
<1> QED
  BY <1>2, <1>3

\* If its next handler holds, so does the invariant.
LEMMA WorkerMoves ==
  ASSUME SerialInv, OrdersInv', OneAtATime, NEW w \in Worker, NEW g,
         handler' = [handler EXCEPT ![w] = g], job' = job,
         handler[w].phase # "idle" \/ g.phase # "idle", Then(g)
  PROVE  SerialInv'
<1>1. handler'[w] = g
  BY DEF SerialInv, OrdersInv
<1>2. /\ \A v \in Worker \ {w} : handler'[v].phase = "idle"
      /\ \A j \in Job : job'[j].phase = "idle"
  BY WorkerAlone
<1>3. ASSUME Quiet' PROVE Then(IdleHandler)
  <2>1. g.phase = "idle"
    BY <1>1, <1>3 DEF Quiet
  <2> QED
    BY <2>1, IdleHolds, IdleTypes DEF Then
<1> QED
  BY <1>1, <1>2, <1>3 DEF SerialInv, OneAtATime, Then

\* The same of the runs of pgCallback.
LEMMA JobAlone ==
  ASSUME SerialInv, OneAtATime, NEW j \in Job, NEW state, job' = [job EXCEPT ![j] = state],
         handler' = handler, job[j].phase # "idle" \/ state.phase # "idle"
  PROVE  /\ JobNow(job[j])
         /\ \A k \in Job \ {j} : job'[k].phase = "idle"
         /\ \A w \in Worker : handler'[w].phase = "idle"
<1>1. job'[j] = state /\ \A k \in Job \ {j} : job'[k] = job[k]
  BY DEF SerialInv, OrdersInv
<1>2. CASE job[j].phase # "idle"
  BY <1>1, <1>2, InRunning DEF SerialInv, JobNow
<1>3. CASE job[j].phase = "idle"
  <2>1. state.phase # "idle" /\ <<"job", j>> \in Running'
    BY <1>1, <1>3, InRunning
  <2>2. /\ \A k \in Job \ {j} : job'[k].phase = "idle"
        /\ \A w \in Worker : handler'[w].phase = "idle"
    BY <2>1, InRunning DEF OneAtATime
  <2>3. Quiet
    BY <1>1, <1>3, <2>2 DEF Quiet
  <2>4. Now(IdleHandler)
    BY <2>3 DEF SerialInv, Now
  <2> QED
    BY <1>3, <2>2, <2>4, IdleHolds, IdleTypes DEF Now, JobNow, JobHolds
<1> QED
  BY <1>2, <1>3

LEMMA JobStepsAlone ==
  ASSUME SerialInv, OrdersInv', OneAtATime, NEW j \in Job, NEW state,
         job' = [job EXCEPT ![j] = state], handler' = handler,
         job[j].phase # "idle" \/ state.phase # "idle", JobThen(state)
  PROVE  SerialInv'
<1>1. job'[j] = state
  BY DEF SerialInv, OrdersInv
<1>2. /\ \A k \in Job \ {j} : job'[k].phase = "idle"
      /\ \A w \in Worker : handler'[w].phase = "idle"
  BY JobAlone
<1>3. ASSUME Quiet' PROVE Then(IdleHandler)
  <2>1. state.phase = "idle"
    BY <1>1, <1>3 DEF Quiet
  <2> QED
    BY <2>1, IdleHolds, IdleTypes DEF Then, JobThen, JobHolds
<1> QED
  BY <1>1, <1>2, <1>3 DEF SerialInv, OneAtATime, JobThen, Then

\* The first steps write nothing.
LEMMA StartAgrees ==
  ASSUME SerialInv, OrdersInv', OneAtATime, NEW w \in Worker, HandlerStarts(w)
  PROVE  SerialInv'
<1>0. UNCHANGED <<orders, invoices, ledger, leads, job>> /\ handler[w] = IdleHandler
  BY DEF HandlerStarts, CreateOrder, UpdateRead, RejectRead, RemoveRead, surveyVars
<1>1. ASSUME NEW g, handler' = [handler EXCEPT ![w] = g], g.phase # "idle"
      PROVE  LedgerAgrees(None, orders, ledger, leads)
             /\ BillsAgree(None, None, orders, invoices, leads)
  BY <1>0, <1>1, WorkerAlone, IdleHolds, IdleTypes DEF Now
<1>2. ASSUME NEW dto \in OrderDto, NEW admin \in BOOLEAN, CreateOrder(w, dto, admin)
      PROVE  SerialInv'
  <2> DEFINE row == NewRow(dto, IF admin THEN "accepted" ELSE "pending")
             g == [IdleHandler EXCEPT !.phase = IF admin THEN "create" ELSE "insert",
                                      !.dto = dto, !.row = row]
  <2>1. row.customer = dto.customer /\ row.total = dto.total /\ row.external = None
    BY DEF NewRow
  <2>2. g.phase \in {"create", "insert"} /\ g.order = None /\ g.dto = dto /\ g.row = row
    BY DEF IdleHandler
  <2>3. handler' = [handler EXCEPT ![w] = g]
    BY <1>2 DEF CreateOrder, Become
  <2> HIDE DEF row, g
  <2>4. Then(g)
    BY <1>0, <1>1, <2>1, <2>2, <2>3
    DEF Then, Holds, LedgerOff, BillsDone, RowRead, Billed
  <2> QED
    BY <1>0, <2>2, <2>3, <2>4, WorkerMoves
<1>3. ASSUME NEW o \in Order, NEW accept \in BOOLEAN, UpdateRead(w, o, accept)
      PROVE  SerialInv'
  <2> DEFINE g == [IdleHandler EXCEPT !.phase = "update", !.order = o, !.accept = accept,
                                      !.row = orders[o]]
  <2>1. g.phase = "update" /\ g.order = o /\ g.row = orders[o]
    BY DEF IdleHandler
  <2>2. handler' = [handler EXCEPT ![w] = g] /\ o \in leads
    BY <1>3 DEF UpdateRead, Become
  <2> HIDE DEF g
  <2>3. Then(g)
    BY <1>0, <1>1, <2>1, <2>2 DEF Then, Holds, LedgerOff, BillsDone, RowRead, Billed
  <2> QED
    BY <1>0, <2>1, <2>2, <2>3, WorkerMoves
<1>4. ASSUME NEW o \in Order, RejectRead(w, o)
      PROVE  SerialInv'
  <2> DEFINE g == [IdleHandler EXCEPT !.phase = "reject", !.order = o]
  <2>1. g.phase = "reject" /\ g.order = o
    BY DEF IdleHandler
  <2>2. handler' = [handler EXCEPT ![w] = g] /\ o \in leads
    BY <1>4 DEF RejectRead, Become
  <2> HIDE DEF g
  <2>3. Then(g)
    BY <1>0, <1>1, <2>1, <2>2 DEF Then, Holds, LedgerOff, BillsDone, RowRead, Billed
  <2> QED
    BY <1>0, <2>1, <2>2, <2>3, WorkerMoves
<1>5. ASSUME NEW o \in Order, RemoveRead(w, o)
      PROVE  SerialInv'
  <2> DEFINE g == [IdleHandler EXCEPT !.phase = "remove", !.order = o, !.row = orders[o]]
  <2>1. g.phase = "remove" /\ g.order = o /\ g.row = orders[o]
    BY DEF IdleHandler
  <2>2. handler' = [handler EXCEPT ![w] = g] /\ o \in leads
    BY <1>5 DEF RemoveRead, Become
  <2> HIDE DEF g
  <2>3. Then(g)
    BY <1>0, <1>1, <2>1, <2>2 DEF Then, Holds, LedgerOff, BillsDone, RowRead, Billed
  <2> QED
    BY <1>0, <2>1, <2>2, <2>3, WorkerMoves
<1> QED
  BY <1>2, <1>3, <1>4, <1>5 DEF HandlerStarts

\* A handler that runs holds, and fits the tables.
LEMMA RunningHolds ==
  ASSUME SerialInv, NEW w \in Worker, handler[w].phase # "idle"
  PROVE  /\ Now(handler[w]) /\ handler[w] \in Handler /\ Fits(handler[w], orders, invoices)
         /\ leads \subseteq Order /\ None \notin Order
         /\ \A o \in leads : orders[o] \in OrderRow /\ orders[o] # None
BY SurveyConstants, NoneIsNoRow
DEF SerialInv, Now, OrdersInv, LeadsSaved, SurveysInv, SurveysTypeOK

\* An invoice made for the order o agrees with it, and the others as before.
LEMMA NewInvoiceAgrees ==
  ASSUME SerialInv, NEW i \in Invoice, NEW o \in Order, NEW dto \in OrderDto, PgCreate(i, o, dto),
         NEW p \in Order \cup {None}, BillsAgree(p, None, orders, invoices, leads)
  PROVE  /\ BillFor(invoices'[i], o, dto.customer, dto.total)
         /\ BillsAgree(p, i, orders, invoices', leads)
<1>1. invoices \in [Invoice -> InvoiceRow \cup {None}] /\ None \notin InvoiceRow
  BY NoneIsNoRow DEF SerialInv, OrdersInv, TablesTyped
<1>2. invoices'[i] = [number |-> o, customer |-> dto.customer, total |-> dto.total,
                      status |-> "unpaid", settled |-> FALSE, live |-> TRUE]
      /\ \A k \in Invoice \ {i} : invoices'[k] = invoices[k]
  BY <1>1 DEF PgCreate
<1>3. BillFor(invoices'[i], o, dto.customer, dto.total)
  BY <1>2 DEF BillFor, InvoiceRow, OrderDto, PgStatus
<1>4. ASSUME NEW q \in leads \ {p}, orders[q].external # None
      PROVE  invoices'[orders[q].external] = invoices[orders[q].external]
  <2>1. orders[q].external \in Invoice /\ invoices[orders[q].external] \in InvoiceRow
    BY <1>4 DEF BillsAgree, BillFor, SerialInv, OrdersInv, LeadsSaved, OrderRow
  <2> QED
    BY <1>1, <1>2, <2>1 DEF PgCreate
<1>5. BillsAgree(p, i, orders, invoices', leads)
  BY <1>2, <1>4, OrderConstants DEF BillsAgree
<1> QED
  BY <1>3, <1>5

\* The invoice, the order, the ledger row.
LEMMA CreateAgrees ==
  ASSUME SerialInv, OrdersInv', OneAtATime, NEW w \in Worker,
         CreateInvoice(w) \/ InsertOrder(w) \/ CreateLedger(w)
  PROVE  SerialInv'
<1> DEFINE h0 == handler[w]
<1>p. h0.phase \in {"create", "insert", "create_ledger"} /\ job' = job
  BY DEF CreateInvoice, InsertOrder, CreateLedger
<1>0. /\ Now(h0) /\ h0 \in Handler /\ Fits(h0, orders, invoices)
      /\ leads \subseteq Order /\ None \notin Order
      /\ \A o \in leads : orders[o] \in OrderRow /\ orders[o] # None
  BY <1>p, RunningHolds
<1>1. CASE CreateInvoice(w)
  <2>1. PICK o \in Order, i \in Invoice :
          /\ FreshNumber(o) /\ PgCreate(i, o, h0.dto)
          /\ handler' = [handler EXCEPT ![w] = [h0 EXCEPT !.phase = "insert", !.order = o,
                                                          !.row.external = i]]
    BY <1>1 DEF CreateInvoice, Become
  <2> DEFINE g == [h0 EXCEPT !.phase = "insert", !.order = o, !.row.external = i]
  <2>2. h0.phase = "create" /\ h0.dto \in OrderDto /\ h0.row \in OrderRow
    BY <1>0, <1>1 DEF CreateInvoice, Fits, ClaimPhase
  <2>3. /\ g.phase = "insert" /\ g.order = o /\ g.dto = h0.dto /\ g.row.external = i
        /\ g.row.customer = h0.row.customer /\ g.row.total = h0.row.total
    BY <1>0, <2>2 DEF Handler, OrderRow
  <2>4. handler' = [handler EXCEPT ![w] = g] /\ orders[o] = None
        /\ orders' = orders /\ leads' = leads /\ ledger' = ledger
    BY <1>1, <2>1 DEF FreshNumber, CreateInvoice, surveyVars
  <2> HIDE DEF g
  <2>5. /\ h0.row.customer = h0.dto.customer /\ h0.row.total = h0.dto.total
        /\ BillsAgree(None, None, orders, invoices, leads)
        /\ LedgerAgrees(None, orders, ledger, leads)
    BY <1>0, <2>2 DEF Now, Holds, LedgerOff
  <2>6. /\ BillFor(invoices'[i], o, h0.dto.customer, h0.dto.total)
        /\ BillsAgree(None, i, orders, invoices', leads)
    BY <2>1, <2>2, <2>5, NewInvoiceAgrees
  <2>7. Then(g)
    BY <1>0, <2>3, <2>4, <2>5, <2>6 DEF Then, Holds, LedgerOff, BillsDone, RowRead, Billed
  <2> QED
    BY <1>p, <2>3, <2>4, <2>7, WorkerMoves
<1>2. CASE InsertOrder(w)
  <2>1. PICK o \in Order :
          /\ SavedNumber(w, o)
          /\ leads' = leads \cup {o}
          /\ orders' = [orders EXCEPT ![o] = h0.row]
          /\ handler' = [handler EXCEPT ![w] = [h0 EXCEPT !.phase = "create_ledger", !.order = o]]
    BY <1>2 DEF InsertOrder, Become
  <2> DEFINE g == [h0 EXCEPT !.phase = "create_ledger", !.order = o]
             i == h0.row.external
  <2>2. h0.phase = "insert" /\ invoices' = invoices /\ ledger' = ledger
    BY <1>2 DEF InsertOrder
  <2>3. g.phase = "create_ledger" /\ g.order = o /\ g.row = h0.row
    BY <1>0 DEF Handler
  <2>4. handler' = [handler EXCEPT ![w] = g]
    BY <2>1
  <2> HIDE DEF g
  <2>5. /\ LedgerAgrees(None, orders, ledger, leads)
        /\ h0.row.customer = h0.dto.customer /\ h0.row.total = h0.dto.total
        /\ h0.order = None => i = None /\ BillsAgree(None, None, orders, invoices, leads)
        /\ h0.order # None =>
             /\ orders[h0.order] = None /\ i \in Invoice
             /\ BillFor(invoices[i], h0.order, h0.dto.customer, h0.dto.total)
             /\ BillsAgree(None, i, orders, invoices, leads)
    BY <1>0, <2>2 DEF Now, Holds, LedgerOff
  <2>6. orders[o] = None /\ o \notin leads
    BY <1>0, <2>1, <2>5 DEF SavedNumber, FreshNumber
  <2>7. orders'[o] = h0.row /\ \A q \in leads : orders'[q] = orders[q] /\ q # o
    BY <1>0, <2>1, <2>6 DEF SerialInv, OrdersInv, TablesTyped
  <2>8. LedgerAgrees(o, orders', ledger, leads')
    BY <1>0, <2>1, <2>5, <2>7 DEF LedgerAgrees
  <2>9. BillsAgree(None, None, orders', invoices, leads')
    <3>1. CASE h0.order = None
      BY <1>0, <2>1, <2>5, <2>7, <3>1 DEF BillsAgree
    <3>2. CASE h0.order # None
      <4>1. h0.order = o
        BY <2>1, <3>2 DEF SavedNumber
      <4> QED
        BY <1>0, <2>1, <2>5, <2>7, <3>2, <4>1 DEF BillsAgree
    <3> QED
      BY <3>1, <3>2
  <2>10. Then(g)
    BY <2>1, <2>2, <2>3, <2>7, <2>8, <2>9
    DEF Then, Holds, LedgerOff, BillsDone, RowRead, Billed
  <2> QED
    BY <1>p, <2>3, <2>4, <2>10, WorkerMoves
<1>3. CASE CreateLedger(w)
  <2>1. /\ ledger' = [ledger EXCEPT ![h0.order] = LedgerOf(h0.row)]
        /\ handler' = [handler EXCEPT ![w] = IdleHandler] /\ h0.phase = "create_ledger"
        /\ UNCHANGED <<leads, orders, invoices>>
    BY <1>3 DEF CreateLedger, Return, Become, surveyVars
  <2>2. /\ LedgerAgrees(h0.order, orders, ledger, leads)
        /\ BillsAgree(None, None, orders, invoices, leads)
        /\ h0.row = orders[h0.order] /\ h0.order \in leads
    BY <1>0, <2>1 DEF Now, Holds, LedgerOff, BillsDone, RowRead
  <2>3. LedgerAgrees(None, orders, ledger', leads)
    BY <1>0, <2>1, <2>2 DEF LedgerAgrees, SerialInv, OrdersInv, TablesTyped
  <2> QED
    BY <1>p, <2>1, <2>2, <2>3, IdleHolds, IdleTypes, WorkerMoves DEF Then
<1> QED
  BY <1>1, <1>2, <1>3

\* The invoice of the order o may change: nothing else depends on it.
LEMMA OwnBill ==
  ASSUME NEW rows, NEW bills, NEW more, NEW open, open \subseteq Order, None \notin Order,
         NEW o \in open, BillsAgree(None, None, rows, bills, open),
         \A k \in Invoice \ {rows[o].external} : more[k] = bills[k],
         \A p \in open : rows[p].external \in Invoice \cup {None}
  PROVE  BillsAgree(o, rows[o].external, rows, more, open)
<1>1. ASSUME NEW p \in open \ {o}, rows[p].external # None
      PROVE  BillFor(more[rows[p].external], p, rows[p].customer, rows[p].total)
  <2>1. BillFor(bills[rows[p].external], p, rows[p].customer, rows[p].total)
    BY <1>1 DEF BillsAgree
  <2>2. rows[p].external # rows[o].external
    BY <1>1, <2>1 DEF BillsAgree, BillFor
  <2> QED
    BY <1>1, <2>1, <2>2
<1>2. ASSUME NEW k \in Invoice \ {rows[o].external}, more[k] # None /\ more[k].live
      PROVE  \E p \in open \ {o} : rows[p].external = k
  BY <1>2, OrderConstants DEF BillsAgree
<1> QED
  BY <1>1, <1>2 DEF BillsAgree

\* The invoice of an order is open at the gateway, and no other order's.
LEMMA RunningBill ==
  ASSUME SerialInv, NEW o \in leads, BillsAgree(None, None, orders, invoices, leads)
  PROVE  /\ BillsAgree(o, orders[o].external, orders, invoices, leads)
         /\ orders[o].external # None =>
              /\ orders[o].external \in Invoice /\ PgLive(orders[o].external)
              /\ BillFor(invoices[orders[o].external], o, orders[o].customer, orders[o].total)
<1>1. /\ leads \subseteq Order /\ None \notin Order
      /\ \A p \in leads : orders[p].external \in Invoice \cup {None}
  BY SurveyConstants DEF SerialInv, OrdersInv, LeadsSaved, SurveysInv, SurveysTypeOK, OrderRow
<1>2. BillsAgree(o, orders[o].external, orders, invoices, leads)
  BY <1>1, OwnBill
<1>3. orders[o].external # None =>
        BillFor(invoices[orders[o].external], o, orders[o].customer, orders[o].total)
  BY <1>1 DEF BillsAgree
<1> QED
  BY <1>1, <1>2, <1>3, NoneIsNoRow DEF BillFor, PgLive

\* update up to the invoice.
LEMMA UpdateAgrees ==
  ASSUME SerialInv, OrdersInv', OneAtATime, NEW w \in Worker,
         \/ \E dto \in OrderDto : UpdateCheck(w, dto)
         \/ UpdateDeleteInvoice(w) \/ UpdateNewInvoice(w) \/ UpdateInvoice(w)
         \/ UpdateInvoiceGone(w)
  PROVE  SerialInv'
<1> DEFINE h0 == handler[w]
<1>p. /\ h0.phase \in {"update", "delete_invoice", "new_invoice", "change_invoice"}
      /\ UNCHANGED <<orders, ledger, leads, job>>
  BY DEF UpdateCheck, UpdateDeleteInvoice, UpdateNewInvoice, UpdateInvoice, UpdateInvoiceGone,
         surveyVars
<1>0. /\ Now(h0) /\ h0 \in Handler /\ Fits(h0, orders, invoices)
      /\ leads \subseteq Order /\ None \notin Order
      /\ \A o \in leads : orders[o] \in OrderRow /\ orders[o] # None
  BY <1>p, RunningHolds
<1>o. PICK o \in leads : o = h0.order
  BY <1>p, <1>0 DEF Now, Holds, RowRead
<1>a. /\ LedgerAgrees(None, orders, ledger, leads)
      /\ h0.row = orders[o] /\ h0.row \in OrderRow /\ o \in Order
      /\ h0.phase # "new_invoice" => BillsAgree(None, None, orders, invoices, leads)
  BY <1>p, <1>0, <1>o DEF Now, Holds, LedgerOff, BillsDone, RowRead
<1>b. h0.phase # "new_invoice" => BillsAgree(o, h0.row.external, orders, invoices, leads)
  BY <1>a, RunningBill
<1>t. invoices \in [Invoice -> InvoiceRow \cup {None}]
      /\ invoices' \in [Invoice -> InvoiceRow \cup {None}]
      /\ \A q \in leads : orders[q].external \in Invoice \cup {None}
  BY <1>0 DEF SerialInv, OrdersInv, TablesTyped, OrderRow
<1>1. ASSUME NEW dto \in OrderDto, UpdateCheck(w, dto)
      PROVE  SerialInv'
  <2> DEFINE next == AfterCheck(h0.row, dto, h0.accept)
             g == [h0 EXCEPT !.phase = next, !.dto = dto]
  <2>1. h0.phase = "update" /\ invoices' = invoices
    BY <1>1 DEF UpdateCheck
  <2>2. CASE handler' = [handler EXCEPT ![w] = IdleHandler]
    BY <1>p, <1>a, <2>1, <2>2, IdleHolds, IdleTypes, WorkerMoves DEF Then
  <2>3. CASE handler' = [handler EXCEPT ![w] = g]
    <3>1. g.phase = next /\ g.order = o /\ g.row = h0.row /\ g.dto = dto
      BY <1>0, <1>o DEF Handler
    <3> HIDE DEF g
    <3>2. CASE next = "new_invoice"
      <4>1. h0.row.external = None
        BY <3>2 DEF AfterCheck, AfterInvoice
      <4>2. Then(g)
        BY <1>p, <1>a, <1>b, <2>1, <3>1, <3>2, <4>1
        DEF Then, Holds, LedgerOff, BillsDone, RowRead, Billed
      <4> QED
        BY <1>p, <2>1, <2>3, <4>2, WorkerMoves
    <3>3. CASE next \in {"change_invoice", "delete_invoice"}
      <4>1. h0.row.external # None /\ (next = "change_invoice" => dto.customer = h0.row.customer)
        BY <3>3 DEF AfterCheck, AfterInvoice
      <4>2. Then(g)
        BY <1>p, <1>a, <1>b, <2>1, <3>1, <3>3, <4>1
        DEF Then, Holds, LedgerOff, BillsDone, RowRead, Billed
      <4> QED
        BY <1>p, <2>1, <2>3, <4>2, WorkerMoves
    <3>4. CASE next \in {"log_status", "update_ledger"}
      <4>1. /\ h0.row.external # None
            /\ dto.customer = h0.row.customer /\ dto.total = h0.row.total
        BY <3>4 DEF AfterCheck, AfterInvoice, ItemsChanged
      <4>2. /\ h0.row.external \in Invoice
            /\ BillFor(invoices[h0.row.external], o, dto.customer, dto.total)
        BY <1>a, <2>1, <4>1, RunningBill
      <4>3. Then(g)
        BY <1>p, <1>a, <1>b, <2>1, <3>1, <3>4, <4>1, <4>2
        DEF Then, Holds, LedgerOff, BillsDone, RowRead, Billed
      <4> QED
        BY <1>p, <2>1, <2>3, <4>3, WorkerMoves
    <3>5. next \in {"new_invoice", "change_invoice", "delete_invoice", "log_status",
                    "update_ledger"}
      BY DEF AfterCheck, AfterInvoice
    <3> QED
      BY <3>2, <3>3, <3>4, <3>5
  <2> QED
    BY <1>1, <2>2, <2>3 DEF UpdateCheck, Become, Return
<1>2. CASE UpdateDeleteInvoice(w)
  <2> DEFINE g == [h0 EXCEPT !.phase = "new_invoice"]
  <2>1. /\ h0.phase = "delete_invoice" /\ handler' = [handler EXCEPT ![w] = g]
        /\ PgDelete(h0.row.external) /\ PgLive(h0.row.external)
    BY <1>2 DEF UpdateDeleteInvoice, Proceed
  <2>2. g.phase = "new_invoice" /\ g.order = o /\ g.row = h0.row
    BY <1>0, <1>o DEF Handler
  <2> HIDE DEF g
  <2>3. /\ h0.row.external \in Invoice /\ invoices[h0.row.external] \in InvoiceRow
        /\ \A k \in Invoice \ {h0.row.external} : invoices'[k] = invoices[k]
        /\ ~invoices'[h0.row.external].live
    BY <1>a, <1>t, <2>1 DEF PgDelete, PgLive, InvoiceRow, OrderRow
  <2>4. BillsAgree(o, h0.row.external, orders, invoices', leads)
    BY <1>0, <1>a, <1>t, <2>1, <2>3, OwnBill
  <2>5. BillsAgree(o, None, orders, invoices', leads)
    BY <2>3, <2>4 DEF BillsAgree
  <2>6. Then(g)
    BY <1>p, <1>a, <2>2, <2>5 DEF Then, Holds, LedgerOff, BillsDone, RowRead, Billed
  <2> QED
    BY <1>p, <2>1, <2>6, WorkerMoves
<1>3. CASE UpdateNewInvoice(w)
  <2>1. PICK i \in Invoice :
          /\ PgCreate(i, o, h0.dto)
          /\ handler' = [handler EXCEPT ![w] =
                           [h0 EXCEPT !.phase = AfterInvoice(h0.accept), !.row.external = i]]
    BY <1>o, <1>3 DEF UpdateNewInvoice, Become
  <2> DEFINE g == [h0 EXCEPT !.phase = AfterInvoice(h0.accept), !.row.external = i]
  <2>2. h0.phase = "new_invoice" /\ h0.dto \in OrderDto
        /\ BillsAgree(o, None, orders, invoices, leads)
    BY <1>0, <1>o, <1>3 DEF UpdateNewInvoice, Fits, ClaimPhase, Now, Holds
  <2>3. /\ g.phase \in {"log_status", "update_ledger"} /\ g.order = o /\ g.dto = h0.dto
        /\ g.row.external = i
    BY <1>0, <1>a, <1>o DEF Handler, OrderRow, AfterInvoice
  <2>4. handler' = [handler EXCEPT ![w] = g]
    BY <2>1
  <2> HIDE DEF g
  <2>5. /\ BillFor(invoices'[i], o, h0.dto.customer, h0.dto.total)
        /\ BillsAgree(o, i, orders, invoices', leads)
    BY <1>a, <2>1, <2>2, NewInvoiceAgrees
  <2>6. Then(g)
    BY <1>p, <1>a, <2>3, <2>5 DEF Then, Holds, LedgerOff, BillsDone, RowRead, Billed
  <2> QED
    BY <1>p, <2>2, <2>4, <2>6, WorkerMoves
<1>4. CASE UpdateInvoice(w)
  <2> DEFINE g == [h0 EXCEPT !.phase = AfterInvoice(h0.accept)]
             i == h0.row.external
  <2>1. /\ h0.phase = "change_invoice" /\ handler' = [handler EXCEPT ![w] = g]
        /\ PgUpdate(i, h0.dto) /\ PgLive(i) /\ h0.dto \in OrderDto
    BY <1>0, <1>4 DEF UpdateInvoice, Proceed, Fits, ClaimPhase
  <2>2. /\ g.phase \in {"log_status", "update_ledger"} /\ g.order = o /\ g.dto = h0.dto
        /\ g.row = h0.row
    BY <1>0, <1>o DEF Handler, AfterInvoice
  <2> HIDE DEF g
  <2>3. i \in Invoice /\ invoices[i].number = o /\ invoices[i].live
        /\ invoices[i] \in InvoiceRow
    BY <1>a, <2>1, RunningBill DEF PgLive, BillFor
  <2>4. /\ \A k \in Invoice \ {i} : invoices'[k] = invoices[k]
        /\ invoices'[i].number = o /\ invoices'[i].live
        /\ invoices'[i].customer = h0.dto.customer /\ invoices'[i].total = h0.dto.total
        /\ invoices'[i] # None
    <3>1. PICK status \in PgStatus :
            invoices' = [invoices EXCEPT ![i].customer = h0.dto.customer,
                                         ![i].total = h0.dto.total, ![i].status = status]
      <4>1. invoices[i].status \in PgStatus /\ "partially paid" \in PgStatus
        BY <2>3 DEF InvoiceRow, PgStatus
      <4> QED
        BY <1>t, <2>1, <2>3, <4>1 DEF PgUpdate
    <3>2. PICK old \in InvoiceRow : old = invoices[i]
      BY <2>3
    <3>3. invoices'[i] = [old EXCEPT !.customer = h0.dto.customer, !.total = h0.dto.total,
                                     !.status = status]
          /\ \A k \in Invoice \ {i} : invoices'[k] = invoices[k]
      BY <1>t, <2>3, <3>1, <3>2
    <3>4. /\ invoices'[i].number = o /\ invoices'[i].live
          /\ invoices'[i].customer = h0.dto.customer /\ invoices'[i].total = h0.dto.total
      BY <2>3, <3>2, <3>3 DEF InvoiceRow
    <3>5. invoices'[i] \in InvoiceRow /\ None \notin InvoiceRow
      BY <2>1, <3>2, <3>3, NoneIsNoRow DEF InvoiceRow, OrderDto
    <3> QED
      BY <3>3, <3>4, <3>5
  <2>5. BillsAgree(o, i, orders, invoices', leads)
    BY <1>0, <1>a, <1>t, <2>1, <2>4, OwnBill
  <2>6. BillFor(invoices'[i], o, h0.dto.customer, h0.dto.total)
    BY <1>t, <2>3, <2>4 DEF BillFor
  <2>7. Then(g)
    BY <1>p, <1>a, <2>2, <2>3, <2>5, <2>6 DEF Then, Holds, LedgerOff, BillsDone, RowRead, Billed
  <2> QED
    BY <1>p, <2>1, <2>7, WorkerMoves
<1>5. CASE UpdateInvoiceGone(w)
  <2>1. h0.phase # "new_invoice" /\ handler' = [handler EXCEPT ![w] = IdleHandler]
        /\ invoices' = invoices
    BY <1>5 DEF UpdateInvoiceGone, Return, Become
  <2> QED
    BY <1>p, <1>a, <2>1, IdleHolds, IdleTypes, WorkerMoves DEF Then
<1> QED
  BY <1>1, <1>2, <1>3, <1>4, <1>5

\* The new row of the order o has the bill, or none; the ledger has the new row.
LEMMA OwnOrder ==
  ASSUME NEW rows, NEW more, NEW bills, NEW books, NEW open, open \subseteq Order,
         None \notin Order, NEW o \in open, \A p \in open \ {o} : more[p] = rows[p]
  PROVE  /\ LedgerAgrees(o, rows, books, open) => LedgerAgrees(o, more, books, open)
         /\ LedgerAgrees(o, rows, books, open) /\ books[o] = LedgerOf(more[o]) =>
              LedgerAgrees(None, more, books, open)
         /\ /\ BillsAgree(o, more[o].external, rows, bills, open)
            /\ more[o].external # None =>
                 BillFor(bills[more[o].external], o, more[o].customer, more[o].total)
            => BillsAgree(None, None, more, bills, open)
<1>1. LedgerAgrees(o, rows, books, open) => LedgerAgrees(o, more, books, open)
  BY DEF LedgerAgrees
<1>2. LedgerAgrees(o, rows, books, open) /\ books[o] = LedgerOf(more[o]) =>
        LedgerAgrees(None, more, books, open)
  BY DEF LedgerAgrees
<1>3. ASSUME BillsAgree(o, more[o].external, rows, bills, open),
             more[o].external # None =>
               BillFor(bills[more[o].external], o, more[o].customer, more[o].total)
      PROVE  BillsAgree(None, None, more, bills, open)
  <2>1. \A p \in open : more[p].external # None =>
          BillFor(bills[more[p].external], p, more[p].customer, more[p].total)
    BY <1>3 DEF BillsAgree
  <2>2. \A k \in Invoice : bills[k] # None /\ bills[k].live =>
          \E p \in open : more[p].external = k
    BY <1>3 DEF BillsAgree
  <2> QED
    BY <2>1, <2>2 DEF BillsAgree
<1> QED
  BY <1>1, <1>2, <1>3

\* update after the invoice: the log, the ledger, the row.
LEMMA SaveAgrees ==
  ASSUME SerialInv, OrdersInv', OneAtATime, NEW w \in Worker,
         UpdateLogStatus(w) \/ UpdateLedger(w) \/ UpdateSave(w)
  PROVE  SerialInv'
<1> DEFINE h0 == handler[w]
<1>p. h0.phase \in Billed /\ UNCHANGED <<invoices, leads, job>>
  BY DEF UpdateLogStatus, UpdateLedger, UpdateSave, surveyVars, Billed
<1>0. /\ Now(h0) /\ h0 \in Handler /\ Fits(h0, orders, invoices)
      /\ leads \subseteq Order /\ None \notin Order
      /\ \A o \in leads : orders[o] \in OrderRow /\ orders[o] # None
  BY <1>p, RunningHolds DEF Billed
<1>o. PICK o \in leads : o = h0.order
  BY <1>p, <1>0 DEF Now, Holds
<1>a. /\ o \in Order /\ orders[o] \in OrderRow
      /\ h0.row \in OrderRow /\ h0.row.external \in Invoice
      /\ BillsAgree(o, h0.row.external, orders, invoices, leads)
      /\ BillFor(invoices[h0.row.external], o, h0.dto.customer, h0.dto.total)
  BY <1>p, <1>0, <1>o DEF Now, Holds, Billed, Fits
<1>1. CASE UpdateLogStatus(w)
  <2> DEFINE g == [h0 EXCEPT !.phase = "update_ledger", !.row.status = "accepted"]
  <2>1. /\ h0.phase = "log_status" /\ handler' = [handler EXCEPT ![w] = g]
        /\ orders' = orders /\ ledger' = ledger
    BY <1>1 DEF UpdateLogStatus, Become
  <2>2. /\ g.phase = "update_ledger" /\ g.order = o /\ g.dto = h0.dto
        /\ g.row.external = h0.row.external
    BY <1>0, <1>a, <1>o DEF Handler, OrderRow
  <2> HIDE DEF g
  <2>3. LedgerAgrees(None, orders, ledger, leads)
    BY <1>0, <2>1 DEF Now, Holds, LedgerOff
  <2>4. Then(g)
    BY <1>p, <1>a, <2>1, <2>2, <2>3 DEF Then, Holds, LedgerOff, BillsDone, RowRead, Billed
  <2> QED
    BY <1>p, <2>1, <2>4, WorkerMoves
<1>2. CASE UpdateLedger(w)
  <2> DEFINE g == [h0 EXCEPT !.phase = "save"]
             row == WithDto(h0.row, h0.dto)
  <2>1. /\ h0.phase = "update_ledger" /\ handler' = [handler EXCEPT ![w] = g]
        /\ orders' = orders /\ ledger' = LedgerUpdated(o, row)
    BY <1>o, <1>2 DEF UpdateLedger, Proceed
  <2>2. g.phase = "save" /\ g.order = o /\ g.dto = h0.dto /\ g.row = h0.row
    BY <1>0, <1>o DEF Handler
  <2> HIDE DEF g
  <2>3. LedgerAgrees(None, orders, ledger, leads)
    BY <1>0, <2>1 DEF Now, Holds, LedgerOff
  <2>4. ledger[o] = LedgerOf(orders[o]) /\ LedgerOf(orders[o]) \in LedgerRow
    BY <1>0, <1>a, <2>3 DEF LedgerAgrees, LedgerOf, LedgerRow, OrderRow
  <2>5. ledger' = [ledger EXCEPT ![o] = LedgerOf(row)]
    BY <2>1, <2>4, NoneIsNoRow DEF LedgerUpdated
  <2> HIDE DEF row
  <2>6. LedgerAgrees(o, orders, ledger', leads) /\ ledger'[o] = LedgerOf(row)
    <3>1. ledger \in [Order -> LedgerRow \cup {None}]
      BY DEF SerialInv, OrdersInv, TablesTyped
    <3>2. ledger'[o] = LedgerOf(row) /\ \A p \in Order \ {o} : ledger'[p] = ledger[p]
      BY <1>a, <2>5, <3>1
    <3> QED
      BY <1>0, <1>a, <2>3, <3>2 DEF LedgerAgrees
  <2>7. Then(g)
    BY <1>p, <1>a, <2>1, <2>2, <2>6 DEF Then, Holds, LedgerOff, BillsDone, RowRead, Billed, row
  <2> QED
    BY <1>p, <2>1, <2>7, WorkerMoves DEF Billed
<1>3. CASE UpdateSave(w)
  <2> DEFINE row == WithDto(h0.row, h0.dto)
  <2>1. /\ h0.phase = "save" /\ handler' = [handler EXCEPT ![w] = IdleHandler]
        /\ orders' = [orders EXCEPT ![o] = row] /\ ledger' = ledger
    BY <1>o, <1>3 DEF UpdateSave, Saved, Return, Become
  <2>2. /\ row.external = h0.row.external
        /\ row.customer = h0.dto.customer /\ row.total = h0.dto.total
    BY <1>a DEF WithDto, OrderRow
  <2>3. LedgerAgrees(o, orders, ledger, leads) /\ ledger[o] = LedgerOf(row)
    BY <1>0, <1>o, <2>1 DEF Now, Holds, LedgerOff
  <2> HIDE DEF row
  <2>4. orders'[o] = row /\ \A p \in leads \ {o} : orders'[p] = orders[p]
    BY <1>0, <1>a, <2>1 DEF SerialInv, OrdersInv, TablesTyped
  <2>5. /\ LedgerAgrees(None, orders', ledger, leads)
        /\ BillsAgree(None, None, orders', invoices, leads)
    BY <1>0, <1>a, <2>2, <2>3, <2>4, OwnOrder
  <2> QED
    BY <1>p, <2>1, <2>5, IdleHolds, IdleTypes, WorkerMoves DEF Then
<1> QED
  BY <1>1, <1>2, <1>3

\* reject writes the status, which no invoice and no ledger row has.
LEMMA RejectAgrees ==
  ASSUME SerialInv, OrdersInv', OneAtATime, NEW w \in Worker, RejectWrite(w) \/ RejectLog(w)
  PROVE  SerialInv'
<1> DEFINE h0 == handler[w]
<1>p. h0.phase \in {"reject", "log_reject"} /\ UNCHANGED <<invoices, ledger, leads, job>>
  BY DEF RejectWrite, RejectLog, surveyVars
<1>0. /\ Now(h0) /\ h0 \in Handler
      /\ leads \subseteq Order /\ None \notin Order
      /\ \A o \in leads : orders[o] \in OrderRow /\ orders[o] # None
  BY <1>p, RunningHolds
<1>o. PICK o \in leads : o = h0.order
  BY <1>p, <1>0 DEF Now, Holds
<1>a. /\ LedgerAgrees(None, orders, ledger, leads)
      /\ BillsAgree(None, None, orders, invoices, leads)
  BY <1>p, <1>0 DEF Now, Holds, LedgerOff, BillsDone
<1>1. CASE RejectWrite(w)
  <2> DEFINE g == [h0 EXCEPT !.phase = "log_reject"]
  <2>1. handler' = [handler EXCEPT ![w] = g] /\ orders' = [orders EXCEPT ![o].status = "rejected"]
    BY <1>o, <1>1 DEF RejectWrite, Proceed
  <2>2. g.phase = "log_reject" /\ g.order = o
    BY <1>0, <1>o DEF Handler
  <2> HIDE DEF g
  <2>3. /\ \A p \in leads \ {o} : orders'[p] = orders[p]
        /\ orders'[o].external = orders[o].external
        /\ orders'[o].customer = orders[o].customer
        /\ orders'[o].total = orders[o].total /\ orders'[o].payment = orders[o].payment
    BY <1>0, <2>1 DEF SerialInv, OrdersInv, TablesTyped, OrderRow
  <2>4. LedgerAgrees(None, orders', ledger, leads)
    BY <1>a, <2>3 DEF LedgerAgrees, LedgerOf
  <2>5. BillsAgree(None, None, orders', invoices, leads)
    BY <1>0, <1>a, <2>3, OwnOrder, RunningBill
  <2>6. Then(g)
    BY <1>p, <2>2, <2>4, <2>5 DEF Then, Holds, LedgerOff, BillsDone, RowRead, Billed
  <2> QED
    BY <1>p, <2>1, <2>6, WorkerMoves
<1>2. CASE RejectLog(w)
  <2>1. handler' = [handler EXCEPT ![w] = IdleHandler] /\ orders' = orders
    BY <1>2 DEF RejectLog, Return, Become
  <2> QED
    BY <1>p, <1>a, <2>1, IdleHolds, IdleTypes, WorkerMoves DEF Then
<1> QED
  BY <1>1, <1>2

\* remove: the invoice, the order, its requests, the ledger row.
LEMMA RemoveAgrees ==
  ASSUME SerialInv, OrdersInv', OneAtATime, NEW w \in Worker,
         \/ RemoveGetInvoice(w) \/ RemoveInvoice(w) \/ RemoveOrder(w)
         \/ RemoveRequests(w) \/ RemoveLedger(w)
  PROVE  SerialInv'
<1> DEFINE h0 == handler[w]
<1>p. /\ h0.phase \in {"remove", "remove_invoice", "remove_order", "remove_requests", "remove_ledger"}
      /\ UNCHANGED <<orders, job>>
  BY DEF RemoveGetInvoice, RemoveInvoice, RemoveOrder, RemoveRequests, RemoveLedger
<1>0. /\ Now(h0) /\ h0 \in Handler /\ Fits(h0, orders, invoices)
      /\ leads \subseteq Order /\ None \notin Order
      /\ \A o \in leads : orders[o] \in OrderRow /\ orders[o] # None
  BY <1>p, RunningHolds
<1>o. PICK o \in Order : o = h0.order
  BY <1>p, <1>0 DEF Fits
<1>t. invoices \in [Invoice -> InvoiceRow \cup {None}]
      /\ \A q \in leads : orders[q].external \in Invoice \cup {None}
  BY <1>0 DEF SerialInv, OrdersInv, TablesTyped, OrderRow
<1>g. ASSUME NEW phase, phase # "idle", Proceed(w, phase)
      PROVE  \E g : /\ handler' = [handler EXCEPT ![w] = g] /\ g.phase = phase
                    /\ g.order = o /\ g.row = h0.row
  <2> DEFINE g == [h0 EXCEPT !.phase = phase]
  <2>1. g.phase = phase /\ g.order = o /\ g.row = h0.row
    BY <1>0, <1>o DEF Handler
  <2>2. handler' = [handler EXCEPT ![w] = g]
    BY <1>g DEF Proceed
  <2> HIDE DEF g
  <2> QED
    BY <2>1, <2>2
<1>1. CASE RemoveGetInvoice(w)
  <2>1. h0.phase = "remove" /\ UNCHANGED <<invoices, ledger, leads>>
    BY <1>1 DEF RemoveGetInvoice, surveyVars
  <2>2. /\ LedgerAgrees(None, orders, ledger, leads) /\ o \in leads
        /\ BillsAgree(None, None, orders, invoices, leads) /\ h0.row = orders[o]
    BY <1>0, <1>o, <2>1 DEF Now, Holds, LedgerOff, BillsDone, RowRead
  <2>3. CASE Return(w)
    BY <1>p, <2>1, <2>2, <2>3, IdleHolds, IdleTypes, WorkerMoves DEF Then, Return, Become
  <2>4. CASE Proceed(w, "remove_invoice") /\ PgLive(h0.row.external)
    <3>1. PICK g : /\ handler' = [handler EXCEPT ![w] = g] /\ g.phase = "remove_invoice"
                   /\ g.order = o /\ g.row = h0.row
      BY <1>g, <2>4
    <3>2. Then(g)
      BY <1>p, <2>1, <2>2, <2>4, <3>1
      DEF Then, Holds, LedgerOff, BillsDone, RowRead, Billed, PgLive
    <3> QED
      BY <1>p, <2>1, <3>1, <3>2, WorkerMoves
  <2>5. CASE Proceed(w, "remove_order") /\ ~PgLive(h0.row.external)
    <3>1. PICK g : /\ handler' = [handler EXCEPT ![w] = g] /\ g.phase = "remove_order"
                   /\ g.order = o /\ g.row = h0.row
      BY <1>g, <2>5
    <3>2. BillsAgree(o, None, orders, invoices, leads)
      BY <2>2, <2>5, RunningBill
    <3>3. Then(g)
      BY <1>p, <2>1, <2>2, <3>1, <3>2 DEF Then, Holds, LedgerOff, BillsDone, RowRead, Billed
    <3> QED
      BY <1>p, <2>1, <3>1, <3>3, WorkerMoves
  <2> QED
    BY <1>1, <2>3, <2>4, <2>5 DEF RemoveGetInvoice
<1>2. CASE RemoveInvoice(w)
  <2>1. /\ h0.phase = "remove_invoice" /\ UNCHANGED <<ledger, leads>>
        /\ PgDelete(h0.row.external) /\ Proceed(w, "remove_order")
    BY <1>2 DEF RemoveInvoice, surveyVars
  <2>2. /\ LedgerAgrees(None, orders, ledger, leads) /\ o \in leads
        /\ BillsAgree(None, None, orders, invoices, leads) /\ h0.row = orders[o]
        /\ h0.row.external \in Invoice /\ invoices[h0.row.external] \in InvoiceRow
    BY <1>0, <1>o, <2>1 DEF Now, Holds, LedgerOff, BillsDone, RowRead, Fits
  <2>3. PICK g : /\ handler' = [handler EXCEPT ![w] = g] /\ g.phase = "remove_order"
                 /\ g.order = o /\ g.row = h0.row
    BY <1>g, <2>1
  <2>4. /\ \A k \in Invoice \ {h0.row.external} : invoices'[k] = invoices[k]
        /\ ~invoices'[h0.row.external].live
    BY <1>t, <2>1, <2>2 DEF PgDelete, InvoiceRow
  <2>5. BillsAgree(o, h0.row.external, orders, invoices', leads)
    BY <1>0, <1>t, <2>2, <2>4, OwnBill
  <2>6. BillsAgree(o, None, orders, invoices', leads)
    BY <2>4, <2>5 DEF BillsAgree
  <2>7. Then(g)
    BY <1>p, <2>1, <2>2, <2>3, <2>6 DEF Then, Holds, LedgerOff, BillsDone, RowRead, Billed
  <2> QED
    BY <1>p, <2>1, <2>3, <2>7, WorkerMoves
<1>3. CASE RemoveOrder(w)
  <2>1. /\ h0.phase = "remove_order" /\ UNCHANGED <<invoices, ledger>>
        /\ leads' = leads \ {o} /\ Proceed(w, "remove_requests")
    BY <1>o, <1>3 DEF RemoveOrder
  <2>2. /\ LedgerAgrees(None, orders, ledger, leads)
        /\ BillsAgree(o, None, orders, invoices, leads)
    BY <1>0, <1>o, <2>1 DEF Now, Holds, LedgerOff
  <2>3. PICK g : /\ handler' = [handler EXCEPT ![w] = g] /\ g.phase = "remove_requests"
                 /\ g.order = o /\ g.row = h0.row
    BY <1>g, <2>1
  <2>4. LedgerAgrees(o, orders, ledger, leads')
    BY <2>1, <2>2, <1>0 DEF LedgerAgrees
  <2>5. BillsAgree(None, None, orders, invoices, leads')
    BY <1>0, <2>1, <2>2 DEF BillsAgree
  <2>6. Then(g)
    BY <1>p, <2>1, <2>3, <2>4, <2>5 DEF Then, Holds, LedgerOff, BillsDone, RowRead, Billed
  <2> QED
    BY <1>p, <2>1, <2>3, <2>6, WorkerMoves
<1>4. CASE RemoveRequests(w)
  <2>1. /\ h0.phase = "remove_requests" /\ UNCHANGED <<invoices, ledger, leads>>
        /\ Proceed(w, "remove_ledger")
    BY <1>4 DEF RemoveRequests
  <2>2. /\ LedgerAgrees(o, orders, ledger, leads) /\ o \in Order \ leads
        /\ BillsAgree(None, None, orders, invoices, leads)
    BY <1>0, <1>o, <2>1 DEF Now, Holds, LedgerOff, BillsDone
  <2>3. PICK g : /\ handler' = [handler EXCEPT ![w] = g] /\ g.phase = "remove_ledger"
                 /\ g.order = o /\ g.row = h0.row
    BY <1>g, <2>1
  <2>4. Then(g)
    BY <1>p, <2>1, <2>2, <2>3 DEF Then, Holds, LedgerOff, BillsDone, RowRead, Billed
  <2> QED
    BY <1>p, <2>1, <2>3, <2>4, WorkerMoves
<1>5. CASE RemoveLedger(w)
  <2>1. /\ h0.phase = "remove_ledger" /\ UNCHANGED <<invoices, leads>>
        /\ ledger' = [ledger EXCEPT ![o] = None]
        /\ handler' = [handler EXCEPT ![w] = IdleHandler]
    BY <1>o, <1>5 DEF RemoveLedger, Return, Become, surveyVars
  <2>2. /\ LedgerAgrees(o, orders, ledger, leads) /\ o \in Order \ leads
        /\ BillsAgree(None, None, orders, invoices, leads)
    BY <1>0, <1>o, <2>1 DEF Now, Holds, LedgerOff, BillsDone
  <2>3. LedgerAgrees(None, orders, ledger', leads)
    BY <1>0, <2>1, <2>2 DEF LedgerAgrees, SerialInv, OrdersInv, TablesTyped
  <2> QED
    BY <1>p, <2>1, <2>2, <2>3, IdleHolds, IdleTypes, WorkerMoves DEF Then
<1> QED
  BY <1>1, <1>2, <1>3, <1>4, <1>5

\* A step that leaves handlers, jobs and tables alone keeps the invariant.
LEMMA TablesAgree ==
  ASSUME SerialInv, OrdersInv', \A p, q \in Running' : p = q,
         UNCHANGED <<orders, invoices, ledger, leads, handler, job>>
  PROVE  SerialInv'
<1>1. Quiet' => Quiet
  BY DEF Quiet
<1>2. Quiet' => Holds(IdleHandler, orders, invoices, ledger, leads)
  BY <1>1 DEF SerialInv
<1> QED
  BY <1>2 DEF SerialInv

\* pgCallback: the invoice, the order, its payment status, the ledger row.
LEMMA JobAgrees ==
  ASSUME SerialInv, OrdersInv', OneAtATime, NEW j \in Job,
         (\E cb \in callbacks : CallbackFetch(j, cb)) \/ JobGoesOn(j)
  PROVE  SerialInv'
<1> DEFINE s0 == job[j]
<1>p. UNCHANGED <<invoices, leads, handler>>
  BY DEF CallbackFetch, JobGoesOn, CallbackLookup, CallbackApply, CallbackLedger, surveyVars
<1>0. /\ s0 \in JobState /\ JobFits(s0, orders)
      /\ leads \subseteq Order /\ None \notin Order
      /\ \A o \in leads : orders[o] \in OrderRow /\ orders[o] # None
  BY SurveyConstants, NoneIsNoRow
  DEF SerialInv, OrdersInv, LeadsSaved, SurveysInv, SurveysTypeOK
<1>i. IdleJob.phase = "idle"
  BY IdleTypes
<1>n. ASSUME s0.phase # "idle" PROVE JobNow(s0)
  BY <1>n DEF SerialInv, JobNow
<1>1. ASSUME NEW cb \in callbacks, CallbackFetch(j, cb)
      PROVE  SerialInv'
  <2>1. UNCHANGED <<orders, ledger>>
    BY <1>1 DEF CallbackFetch
  <2>2. CASE job' = job
    BY <1>p, <2>1, <2>2, TablesAgree DEF OneAtATime
  <2>3. CASE job' # job
    <3> DEFINE g == [IdleJob EXCEPT !.phase = "lookup", !.invoice = cb.invoice,
                       !.number = cb.number, !.seen = invoices[cb.invoice].status]
    <3>1. job' = [job EXCEPT ![j] = g]
      BY <1>1, <2>3 DEF CallbackFetch, BecomeJob
    <3>2. g.phase = "lookup"
      BY DEF IdleJob
    <3> HIDE DEF g
    <3>3. JobNow(s0) /\ s0.phase = "idle"
      BY <1>1, <1>p, <1>i, <3>1, <3>2, JobAlone DEF CallbackFetch
    <3>4. JobThen(g)
      BY <1>p, <2>1, <3>2, <3>3 DEF JobNow, JobThen, JobHolds
    <3> QED
      BY <1>p, <3>1, <3>2, <3>4, JobStepsAlone
  <2> QED
    BY <2>2, <2>3
<1>2. CASE CallbackLookup(j)
  <2>1. s0.phase = "lookup" /\ UNCHANGED <<orders, ledger>>
    BY <1>2 DEF CallbackLookup
  <2>2. JobNow(s0)
    BY <1>n, <2>1
  <2>3. CASE job' = [job EXCEPT ![j] = IdleJob]
    <3>1. JobThen(IdleJob)
      BY <1>p, <1>i, <2>1, <2>2 DEF JobNow, JobThen, JobHolds
    <3> QED
      BY <1>p, <2>1, <2>3, <3>1, JobStepsAlone
  <2>4. CASE job' # [job EXCEPT ![j] = IdleJob]
    <3>1. PICK o \in leads :
            job' = [job EXCEPT ![j] = [s0 EXCEPT !.phase = "apply", !.order = o, !.row = orders[o]]]
      BY <1>2, <2>4 DEF CallbackLookup, BecomeJob, Found
    <3> DEFINE g == [s0 EXCEPT !.phase = "apply", !.order = o, !.row = orders[o]]
    <3>2. g.phase = "apply" /\ g.order = o /\ g.row = orders[o]
      BY <1>0 DEF JobState
    <3>3. job' = [job EXCEPT ![j] = g]
      BY <3>1
    <3> HIDE DEF g
    <3>4. JobThen(g)
      BY <1>p, <2>1, <2>2, <3>2 DEF JobNow, JobThen, JobHolds
    <3> QED
      BY <1>p, <2>1, <3>3, <3>4, JobStepsAlone
  <2> QED
    BY <2>3, <2>4
<1>3. CASE CallbackApply(j)
  <2> DEFINE payment == Payment(s0.seen, s0.row.payment)
             g == [s0 EXCEPT !.phase = "ledger", !.row.payment = payment]
  <2>1. /\ s0.phase = "apply" /\ ledger' = ledger
        /\ orders' = IF PaymentWritten(s0.seen, s0.row.payment)
                       THEN [orders EXCEPT ![s0.order].payment = payment]
                       ELSE orders
        /\ job' = [job EXCEPT ![j] = g]
    BY <1>3 DEF CallbackApply, BecomeJob
  <2>2. /\ BillsAgree(None, None, orders, invoices, leads)
        /\ LedgerAgrees(None, orders, ledger, leads)
        /\ s0.order \in leads /\ s0.row = orders[s0.order] /\ s0.seen \in PgStatus
    BY <1>0, <1>n, <2>1 DEF JobNow, JobHolds, JobFits
  <2>3. PICK o \in leads : o = s0.order
    BY <2>2
  <2>4. PICK row \in OrderRow : row = s0.row /\ row = orders[o]
    BY <1>0, <2>2, <2>3
  <2>5. PICK status : status = Payment(s0.seen, s0.row.payment)
    OBVIOUS
  <2>6. ~PaymentWritten(s0.seen, s0.row.payment) => status = row.payment
    BY <2>2, <2>4, <2>5 DEF PaymentWritten, Payment, PgStatus
  <2>7. PICK new : new = [row EXCEPT !.payment = status]
    OBVIOUS
  <2>8. status = row.payment => new = row
    BY <2>7 DEF OrderRow
  <2>9. orders \in [Order -> OrderRow \cup {None}] /\ o \in Order
    BY <1>0 DEF SerialInv, OrdersInv, TablesTyped
  <2>10. orders'[o] = new /\ \A p \in leads \ {o} : orders'[p] = orders[p]
    BY <1>0, <2>1, <2>3, <2>4, <2>5, <2>6, <2>7, <2>8, <2>9
  <2>11. g.phase = "ledger" /\ g.order = o /\ g.row = new
    BY <1>0, <2>3, <2>4, <2>5, <2>7 DEF JobState
  <2>12. job' = [job EXCEPT ![j] = g]
    BY <2>1
  <2> HIDE DEF g, payment
  <2>13. /\ new.external = orders[o].external /\ new.customer = orders[o].customer
         /\ new.total = orders[o].total
    BY <2>4, <2>7 DEF OrderRow
  <2>14. BillsAgree(None, None, orders', invoices, leads)
    BY <1>0, <2>2, <2>10, <2>13, OwnOrder, RunningBill
  <2>15. LedgerAgrees(o, orders', ledger, leads) /\ ledger[o] # None
    <3>1. LedgerAgrees(o, orders, ledger, leads)
      BY <1>0, <2>2 DEF LedgerAgrees
    <3>2. ledger[o] = LedgerOf(row) /\ LedgerOf(row) \in LedgerRow
      BY <1>0, <2>2, <2>4, <2>9 DEF LedgerAgrees, LedgerOf, LedgerRow, OrderRow
    <3> QED
      BY <1>0, <2>10, <3>1, <3>2, OwnOrder, NoneIsNoRow
  <2>16. JobThen(g)
    BY <1>p, <2>1, <2>10, <2>11, <2>14, <2>15 DEF JobThen, JobHolds
  <2> QED
    BY <1>p, <2>1, <2>12, <2>16, JobStepsAlone
<1>4. CASE CallbackLedger(j)
  <2>1. /\ s0.phase = "ledger" /\ orders' = orders
        /\ ledger' = LedgerUpdated(s0.order, s0.row)
        /\ job' = [job EXCEPT ![j] = IdleJob]
    BY <1>4 DEF CallbackLedger, BecomeJob
  <2>2. /\ BillsAgree(None, None, orders, invoices, leads)
        /\ LedgerAgrees(s0.order, orders, ledger, leads) /\ ledger[s0.order] # None
        /\ s0.order \in leads /\ s0.row = orders[s0.order]
    BY <1>n, <2>1 DEF JobNow, JobHolds
  <2>3. PICK o \in leads : o = s0.order
    BY <2>2
  <2>4. ledger' = [ledger EXCEPT ![o] = LedgerOf(orders[o])]
    BY <2>1, <2>2, <2>3 DEF LedgerUpdated
  <2>5. /\ ledger'[o] = LedgerOf(orders[o])
        /\ \A p \in Order \ {o} : ledger'[p] = ledger[p]
    BY <1>0, <2>4 DEF SerialInv, OrdersInv, TablesTyped
  <2>6. LedgerAgrees(None, orders, ledger', leads)
    BY <1>0, <2>2, <2>3, <2>5 DEF LedgerAgrees
  <2>7. JobThen(IdleJob)
    BY <1>p, <1>i, <2>1, <2>2, <2>6 DEF JobThen, JobHolds
  <2> QED
    BY <1>p, <2>1, <2>7, JobStepsAlone
<1> QED
  BY <1>1, <1>2, <1>3, <1>4 DEF JobGoesOn

\* A payment is no column that orders and invoices share.
LEMMA GatewayAgrees ==
  ASSUME SerialInv, OrdersInv', OneAtATime, NEW i \in Invoice, NEW status \in PgMoves,
         PgStatusChange(i, status)
  PROVE  SerialInv'
<1>1. UNCHANGED <<orders, ledger, leads, handler, job>>
  BY DEF PgStatusChange, surveyVars
<1>2. /\ invoices \in [Invoice -> InvoiceRow \cup {None}]
      /\ invoices' \in [Invoice -> InvoiceRow \cup {None}]
  BY DEF SerialInv, OrdersInv, TablesTyped
<1>3. \A k \in Invoice :
        IF invoices[k] = None THEN invoices'[k] = None
        ELSE /\ invoices'[k] \in InvoiceRow
             /\ invoices'[k].live = invoices[k].live
             /\ invoices'[k].number = invoices[k].number
             /\ invoices'[k].customer = invoices[k].customer
             /\ invoices'[k].total = invoices[k].total
  <2>1. PICK settled \in BOOLEAN :
          invoices' = [invoices EXCEPT ![i].status = status, ![i].settled = settled]
    BY <1>2 DEF PgStatusChange, InvoiceRow
  <2>2. PICK old \in InvoiceRow : old = invoices[i]
    BY <1>2 DEF PgStatusChange
  <2>3. /\ invoices'[i] = [old EXCEPT !.status = status, !.settled = settled]
        /\ \A k \in Invoice \ {i} : invoices'[k] = invoices[k]
    BY <1>2, <2>1, <2>2
  <2>4. /\ invoices'[i] \in InvoiceRow
        /\ invoices'[i].live = old.live /\ invoices'[i].number = old.number
        /\ invoices'[i].customer = old.customer /\ invoices'[i].total = old.total
    <3>1. status \in PgStatus
      BY OrderConstants
    <3> QED
      BY <2>2, <2>3, <3>1 DEF InvoiceRow
  <2> TAKE k \in Invoice
  <2>5. CASE k = i
    BY <2>2, <2>4, <2>5, NoneIsNoRow
  <2>6. CASE k # i
    BY <1>2, <2>3, <2>6
  <2> QED
    BY <2>5, <2>6
<1>4. ASSUME NEW k \in Invoice, NEW o, NEW customer, NEW total,
             BillFor(invoices[k], o, customer, total)
      PROVE  BillFor(invoices'[k], o, customer, total)
  BY <1>3, <1>4, NoneIsNoRow DEF BillFor
<1>5. ASSUME NEW o, NEW k, BillsAgree(o, k, orders, invoices, leads)
      PROVE  BillsAgree(o, k, orders, invoices', leads)
  <2>1. \A p \in leads : orders[p].external \in Invoice \cup {None}
    BY DEF SerialInv, OrdersInv, LeadsSaved, OrderRow
  <2> QED
    BY <1>3, <1>4, <1>5, <2>1 DEF BillsAgree
<1>6. ASSUME NEW h, Holds(h, orders, invoices, ledger, leads)
      PROVE  Holds(h, orders, invoices', ledger, leads)
  BY <1>4, <1>5, <1>6 DEF Holds
<1>7. ASSUME NEW state, JobHolds(state, orders, invoices, ledger, leads)
      PROVE  JobHolds(state, orders, invoices', ledger, leads)
  BY <1>5, <1>7 DEF JobHolds
<1>8. Quiet' => Holds(IdleHandler, orders, invoices', ledger, leads)
  BY <1>1, <1>6 DEF SerialInv, Quiet
<1> QED
  BY <1>1, <1>6, <1>7, <1>8 DEF SerialInv, OneAtATime

\* Nothing that was begun is cut short.
NothingFails == Failures \cap {"handler", "callback", "gateway"} = {}

LEMMA SerialStep ==
  ASSUME NothingFails, SerialInv, [SerialNext]_vars
  PROVE  SerialInv'
<1>0. OrdersInv'
  BY OrdersInvStep DEF SerialInv, SerialNext
<1>1. CASE UNCHANGED vars
  <2>1. \A p, q \in Running' : p = q
    BY <1>1 DEF SerialInv, Running, vars, surveyVars, orderVars
  <2> QED
    BY <1>0, <1>1, <2>1, TablesAgree DEF vars, surveyVars, orderVars
<1>2. ASSUME Next, OneAtATime
      PROVE  SerialInv'
  <2>1. ASSUME NEW w \in Worker, HandlerStarts(w) \/ HandlerGoesOn(w)
        PROVE  SerialInv'
    BY <1>0, <1>2, <2>1, StartAgrees, CreateAgrees, UpdateAgrees, SaveAgrees, RejectAgrees,
       RemoveAgrees
    DEF HandlerGoesOn
  <2>2. ASSUME NEW j \in Job, (\E cb \in callbacks : CallbackFetch(j, cb)) \/ JobGoesOn(j)
        PROVE  SerialInv'
    BY <1>0, <1>2, <2>2, JobAgrees
  <2>3. CASE SurveyStep
    <3>1. UNCHANGED <<orders, invoices, ledger, leads, handler, job>>
      BY <2>3 DEF SurveyStep, ControllerNext, HandlerStep, SurveyCreate, SurveyUpdate, SurveyLog,
         SurveyCreateNotify, SurveyUpdateWrite, SurveyLogStatus, SurveyLogInsert, SurveyCallFails,
         SurveyRemove, orderVars
    <3> QED
      BY <1>0, <1>2, <3>1, TablesAgree DEF OneAtATime
  <2>4. /\ \A w \in Worker : ~CreateInvoiceFails(w) /\ ~HandlerFails(w)
        /\ \A j \in Job : ~CallbackFails(j)
        /\ \A cb \in callbacks : ~CallbackLost(cb)
    BY DEF NothingFails, CreateInvoiceFails, HandlerFails, CallbackFails, CallbackLost
  <2> QED
    BY <1>0, <1>2, <2>1, <2>2, <2>3, <2>4, GatewayAgrees DEF Next
<1> QED
  BY <1>1, <1>2 DEF SerialNext

LEMMA SerialInit ==
  ASSUME Init
  PROVE  SerialInv
<1>1. /\ \A w \in Worker : handler[w].phase = "idle"
      /\ \A j \in Job : job[j].phase = "idle"
      /\ \A c \in Caller : call[c].phase = "idle"
  BY IdleTypes DEF Init, SurveysInit, IdleCall
<1>2. Running = {}
  BY <1>1 DEF Running
<1>3. Holds(IdleHandler, orders, invoices, ledger, leads)
  BY IdleHolds, IdleTypes DEF Init, SurveysInit, LedgerAgrees, BillsAgree
<1> QED
  BY <1>1, <1>2, <1>3, OrdersInvInit DEF SerialInv

\* When nothing runs, invoices and ledger are what the invariant says of idle
\* handlers.
LEMMA AtRestAgrees ==
  ASSUME SerialInv, AtRestAll
  PROVE  InvoicesMatchOrders /\ LedgerMatchesOrders
<1>1. Quiet
  BY InRunning DEF AtRestAll, Quiet
<1>2. LedgerAgrees(None, orders, ledger, leads) /\ BillsAgree(None, None, orders, invoices, leads)
  BY <1>1, IdleHolds, IdleTypes DEF SerialInv
<1>3. leads \subseteq Order /\ None \notin Order
  BY SurveyConstants DEF SerialInv, OrdersInv, SurveysInv, SurveysTypeOK
<1>4. LedgerMatchesOrders
  BY <1>2, <1>3 DEF LedgerMatchesOrders, LedgerAgrees
<1>5. InvoicesMatchOrders
  BY <1>2, <1>3, OrderConstants, NoneIsNoRow DEF InvoicesMatchOrders, BillsAgree, BillFor
<1> QED
  BY <1>4, <1>5

\* One request or run of pgCallback after the other, none cut short: when none
\* runs, the gateway has one open invoice per order that points to one, with
\* its number, customer and total.
THEOREM InvoicesMatch == NothingFails => (SerialSpec => []InvoicesMatchOrders)
<1> SUFFICES ASSUME NothingFails PROVE SerialSpec => []InvoicesMatchOrders
  OBVIOUS
<1>1. SerialInv => InvoicesMatchOrders
  BY AtRestAgrees DEF InvoicesMatchOrders
<1>2. SerialInv /\ [SerialNext]_vars => SerialInv'
  BY SerialStep
<1> QED
  BY <1>1, <1>2, SerialInit, PTL DEF SerialSpec

\* Under the same assumptions the ledger has one row per live order, with its
\* total and its payment status.
THEOREM LedgerMatches == NothingFails => (SerialSpec => []LedgerMatchesOrders)
<1> SUFFICES ASSUME NothingFails PROVE SerialSpec => []LedgerMatchesOrders
  OBVIOUS
<1>1. SerialInv => LedgerMatchesOrders
  BY AtRestAgrees DEF LedgerMatchesOrders
<1>2. SerialInv /\ [SerialNext]_vars => SerialInv'
  BY SerialStep
<1> QED
  BY <1>1, <1>2, SerialInit, PTL DEF SerialSpec
=============================================================================
