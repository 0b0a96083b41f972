---------------------------- MODULE StatusCounts ----------------------------
(***************************************************************************)
(* The counts an admin's overview shows: orders per status and surveys per *)
(* status, each a query whose result typeorm keeps in a table until it     *)
(* expires or a handler of the leads or surveys service removes it.        *)
(*                                                                         *)
(* The services do not remove a result at the same place everywhere: some  *)
(* handlers write and then clear, some clear and then write, some never    *)
(* clear what they change.  The handlers are cut at every await between    *)
(* their writes and their clears; of the tables only what a count tells    *)
(* apart is kept.  Orders and Surveys model the handlers in full.          *)
(*                                                                         *)
(* The four queries share no state: a behaviour follows one of them.       *)
(***************************************************************************)
EXTENDS Naturals, FiniteSets, Sequences

CONSTANTS
  Order,         \* identities of orders
  Survey,        \* identities of standalone surveys
  Handler,       \* requests that write at the same time
  Reader,        \* requests that count at the same time
  None

OrderKey == {"pending", "on_progress", "done"}
Key == OrderKey \cup {"surveys"}

ASSUME CountConstants ==
  /\ IsFiniteSet(Order) /\ IsFiniteSet(Survey)
  /\ None \notin Order \cup Survey

VARIABLES
  status,        \* approval status of an order, "none" before and "deleted" after
  delivery,      \* status of an order's delivery, "none" before and "deleted" after
  pickup,        \* the same of its pick-up
  alone,         \* the same of a standalone survey
  query,         \* the query looked at
  cached,        \* its stored results
  missed,        \* history: a result was stored that no clear belongs to
  writer,        \* what each handler holds between two awaits
  reader         \* what each counting request holds between two awaits

tables == <<status, delivery, pickup, alone>>
countVars == <<tables, query, cached, missed, writer, reader>>

OrderState == {"none", "pending", "accepted", "rejected", "deleted"}
RequestState == {"none", "pending", "on_progress", "done", "deleted"}

-----------------------------------------------------------------------------
(* The queries *)

\* handleStatusFilter joins the pick-up inside: an order without a live one is
\* counted nowhere.
InStatus(o) ==
  /\ pickup[o] \in {"pending", "on_progress", "done"}
  /\ \/ query = "pending" /\ status[o] = "pending"
     \/ query = "on_progress" /\ status[o] = "accepted" /\ pickup[o] # "done"
     \/ query = "done" /\ status[o] = "accepted" /\ pickup[o] = "done"

SurveysIn(s) ==
  Cardinality({o \in Order : delivery[o] = s}) + Cardinality({o \in Order : pickup[o] = s})
    + Cardinality({r \in Survey : alone[r] = s})

\* The numbers the query answers with.
Count ==
  IF query = "surveys" THEN <<SurveysIn("pending"), SurveysIn("on_progress"), SurveysIn("done")>>
                     ELSE <<Cardinality({o \in Order : InStatus(o)})>>

-----------------------------------------------------------------------------
(* Handlers *)

WriterPhase ==
  {"idle", "insert", "update", "accept", "reject",
   "remove", "clear_requests", "remove_requests", "clear_orders",
   "delete_request", "log", "clear_surveys"}

\* table and row: the request a survey handler works on.
Target == ({"delivery", "pickup"} \X Order) \cup ({"alone"} \X Survey)

Writer == [phase : WriterPhase, order : Order \cup {None},
           status : {"pending", "accepted", "rejected", "on_progress", "done"},
           target : Target \cup {None}]

IdleWriter == [phase |-> "idle", order |-> None, status |-> "pending", target |-> None]

ReaderState == [phase : {"idle", "ask", "query", "store"}, found : BOOLEAN, answer : Seq(Nat)]

IdleReader == [phase |-> "idle", found |-> FALSE, answer |-> <<>>]

CountsInit ==
  /\ status = [o \in Order |-> "none"]
  /\ delivery = [o \in Order |-> "none"]
  /\ pickup = [o \in Order |-> "none"]
  /\ alone = [s \in Survey |-> "none"]
  /\ query \in Key
  /\ cached = {}
  /\ missed = FALSE
  /\ writer = [w \in Handler |-> IdleWriter]
  /\ reader = [r \in Reader |-> IdleReader]

WriterBecomes(w, state) == writer' = [writer EXCEPT ![w] = state]
WriterProceeds(w, phase) == writer' = [writer EXCEPT ![w].phase = phase]
WriterEnds(w) == WriterBecomes(w, IdleWriter)

\* A write whose handler does not clear the queries of keys afterwards.
NotClearedLater(keys) ==
  missed' = (missed \/ (query \in keys /\ cached # {} /\ Count' # Count))

\* queryResultCache.remove
Clear(keys) ==
  /\ cached' = IF query \in keys THEN {} ELSE cached
  /\ missed' = (missed /\ query \notin keys)

ClearedByOrders == OrderKey

-----------------------------------------------------------------------------
(* OrdersService *)

\* createOrder clears first and saves then; the surveys' counts, to which the
\* two requests add, are not cleared.
CreateOrderClear(w, o, approval) ==
  /\ writer[w] = IdleWriter
  /\ status[o] = "none"
  /\ \A v \in Handler : writer[v].order # o
  /\ Clear(ClearedByOrders)
  /\ WriterBecomes(w, [IdleWriter EXCEPT !.phase = "insert", !.order = o, !.status = approval])
  /\ UNCHANGED <<tables, query, reader>>

CreateOrderSave(w) ==
  /\ writer[w].phase = "insert"
  /\ LET o == writer[w].order IN
       /\ status' = [status EXCEPT ![o] = writer[w].status]
       /\ delivery' = [delivery EXCEPT ![o] = "pending"]
       /\ pickup' = [pickup EXCEPT ![o] = "pending"]
  /\ UNCHANGED <<alone, cached, query, reader>>
  /\ NotClearedLater(Key)
  /\ WriterEnds(w)

LiveOrder(o) == status[o] \in {"pending", "accepted", "rejected"}

\* Variant: the status column is saved empty.
WrittenEmpty(o, approval) == [status EXCEPT ![o] = None]

\* A row that is deleted stays so, whatever is saved to it.
Written(o, approval) ==
  [status EXCEPT ![o] = IF LiveOrder(o) THEN approval ELSE @]

\* The entity is saved with the status it was read with, or accepted.
UpdateOrder(w, o, accept) ==
  /\ writer[w] = IdleWriter
  /\ LiveOrder(o)
  /\ WriterBecomes(w, [IdleWriter EXCEPT !.phase = IF accept THEN "accept" ELSE "update",
                         !.order = o, !.status = IF accept THEN "accepted" ELSE status[o]])
  /\ UNCHANGED <<tables, cached, missed, query, reader>>

SaveUpdated(w) ==
  /\ writer[w].phase = "update"
  /\ status' = Written(writer[w].order, writer[w].status)
  /\ UNCHANGED <<delivery, pickup, alone, cached, query, reader>>
  /\ NotClearedLater(Key)
  /\ WriterEnds(w)

SaveAccepted(w) ==
  /\ writer[w].phase = "accept"
  /\ status' = Written(writer[w].order, "accepted")
  /\ UNCHANGED <<delivery, pickup, alone, cached, query, reader>>
  /\ NotClearedLater({"surveys"})
  /\ WriterProceeds(w, "clear_orders")

RejectOrder(w, o) ==
  /\ writer[w] = IdleWriter
  /\ status[o] = "pending"
  /\ WriterBecomes(w, [IdleWriter EXCEPT !.phase = "reject", !.order = o])
  /\ UNCHANGED <<tables, cached, missed, query, reader>>

\* Variant: a rejection leaves the counts alone.
AfterRejectionNothing == "idle"

AfterRejection == "clear_orders"

SaveRejected(w) ==
  /\ writer[w].phase = "reject"
  /\ status' = Written(writer[w].order, "rejected")
  /\ UNCHANGED <<delivery, pickup, alone, cached, query, reader>>
  /\ NotClearedLater({"surveys"})
  /\ WriterProceeds(w, AfterRejection)

RemoveOrder(w, o) ==
  /\ writer[w] = IdleWriter
  /\ LiveOrder(o)
  /\ WriterBecomes(w, [IdleWriter EXCEPT !.phase = "remove", !.order = o])
  /\ UNCHANGED <<tables, cached, missed, query, reader>>

DeleteOrder(w) ==
  /\ writer[w].phase = "remove"
  /\ status' = [status EXCEPT ![writer[w].order] = "deleted"]
  /\ UNCHANGED <<delivery, pickup, alone, cached, query, reader>>
  /\ NotClearedLater({"surveys"})
  /\ WriterProceeds(w, "clear_requests")

\* removeByOrderId clears the surveys' counts before it deletes the requests.
ClearRequests(w) ==
  /\ writer[w].phase = "clear_requests"
  /\ Clear({"surveys"})
  /\ WriterProceeds(w, "remove_requests")
  /\ UNCHANGED <<tables, query, reader>>

DeleteRequests(w) ==
  /\ writer[w].phase = "remove_requests"
  /\ delivery' = [delivery EXCEPT ![writer[w].order] = "deleted"]
  /\ pickup' = [pickup EXCEPT ![writer[w].order] = "deleted"]
  /\ UNCHANGED <<status, alone, cached, query, reader>>
  /\ NotClearedLater({"surveys"})
  /\ WriterProceeds(w, "clear_orders")

ClearOrders(w) ==
  /\ writer[w].phase = "clear_orders"
  /\ Clear(ClearedByOrders)
  /\ WriterEnds(w)
  /\ UNCHANGED <<tables, query, reader>>

\* Every run of pgCallback ends with a clear.
CallbackClears ==
  /\ \E o \in Order : status[o] # "none"
  /\ Clear(ClearedByOrders)
  /\ UNCHANGED <<tables, writer, query, reader>>

-----------------------------------------------------------------------------
(* SurveysService *)

StateOf(target) ==
  CASE target[1] = "delivery" -> delivery[target[2]]
    [] target[1] = "pickup"   -> pickup[target[2]]
    [] target[1] = "alone"    -> alone[target[2]]

LiveRequest(target) == StateOf(target) \in {"pending", "on_progress", "done"}

\* A request that is deleted stays so, whatever is written to it.
WriteRequest(target, state) ==
  LET next == IF LiveRequest(target) THEN state ELSE StateOf(target)
      of(table, column) == IF target[1] = table THEN [column EXCEPT ![target[2]] = next] ELSE column
  IN /\ delivery' = of("delivery", delivery)
     /\ pickup' = of("pickup", pickup)
     /\ alone' = of("alone", alone)

CreateSurvey(w, s) ==
  /\ writer[w] = IdleWriter
  /\ alone[s] = "none"
  /\ alone' = [alone EXCEPT ![s] = "pending"]
  /\ UNCHANGED <<status, delivery, pickup, cached, query, reader>>
  /\ NotClearedLater(OrderKey)
  /\ WriterProceeds(w, "clear_surveys")

RemoveSurveyClear(w, target) ==
  /\ writer[w] = IdleWriter
  /\ Clear({"surveys"})
  /\ WriterBecomes(w, [IdleWriter EXCEPT !.phase = "delete_request", !.target = target])
  /\ UNCHANGED <<tables, query, reader>>

RemoveSurvey(w) ==
  /\ writer[w].phase = "delete_request"
  /\ WriteRequest(writer[w].target, "deleted")
  /\ UNCHANGED <<status, cached, query, reader>>
  /\ NotClearedLater(Key)
  /\ WriterEnds(w)

\* While an order has both its requests, its delivery has to be done first.
MayMove(target) ==
  /\ StateOf(target) \in {"pending", "on_progress"}
  /\ target[1] # "alone" /\ LiveOrder(target[2]) =>
       LET d == delivery[target[2]]  p == pickup[target[2]] IN
         d # "deleted" /\ p # "deleted" => d = "done"

LogSurvey(w, target, state) ==
  /\ writer[w] = IdleWriter
  /\ MayMove(target)
  /\ state = "done" \/ (state = "on_progress" /\ StateOf(target) = "pending")
  /\ WriterBecomes(w, [IdleWriter EXCEPT !.phase = "log", !.target = target, !.status = state])
  /\ UNCHANGED <<tables, cached, missed, query, reader>>

\* The orders' counts, to which the pick-up belongs, are not cleared.
LogStatus(w) ==
  /\ writer[w].phase = "log"
  /\ WriteRequest(writer[w].target, writer[w].status)
  /\ UNCHANGED <<status, cached, query, reader>>
  /\ NotClearedLater(OrderKey)
  /\ WriterProceeds(w, "clear_surveys")

ClearSurveys(w) ==
  /\ writer[w].phase = "clear_surveys"
  /\ Clear({"surveys"})
  /\ WriterEnds(w)
  /\ UNCHANGED <<tables, query, reader>>

\* The phases that end with a clear of the query, once something has been written.
ClearsLater(state) ==
  IF query = "surveys" THEN state.phase = "clear_surveys"
                       ELSE state.phase \in {"clear_requests", "remove_requests", "clear_orders"}

\* A database error, or the process stops: what was to be cleared is not.
WriterFails(w) ==
  /\ writer[w] # IdleWriter
  /\ missed' = (missed \/ (ClearsLater(writer[w]) /\ cached # {}))
  /\ WriterEnds(w)
  /\ UNCHANGED <<tables, cached, query, reader>>

-----------------------------------------------------------------------------
(* getStatusCount of both services, and typeorm's result cache *)

Entry(answer, fresh) == [answer |-> answer, fresh |-> fresh]

ReaderBecomes(r, state) == reader' = [reader EXCEPT ![r] = state]

GetStatusCount(r) ==
  /\ reader[r] = IdleReader
  /\ ReaderBecomes(r, [IdleReader EXCEPT !.phase = "ask"])
  /\ UNCHANGED <<tables, query, cached, missed, writer>>

CacheHit(r) ==
  /\ reader[r].phase = "ask"
  /\ \E entry \in cached : entry.fresh
  /\ ReaderBecomes(r, IdleReader)
  /\ UNCHANGED <<tables, query, cached, missed, writer>>

\* found: there was a result, but it had expired.
CacheMiss(r) ==
  /\ reader[r].phase = "ask"
  /\ \/ cached = {} /\ ReaderBecomes(r, [reader[r] EXCEPT !.phase = "query"])
     \/ /\ \E entry \in cached : ~entry.fresh
        /\ ReaderBecomes(r, [reader[r] EXCEPT !.phase = "query", !.found = TRUE])
  /\ UNCHANGED <<tables, query, cached, missed, writer>>

QueryCount(r) ==
  /\ reader[r].phase = "query"
  /\ ReaderBecomes(r, [reader[r] EXCEPT !.phase = "store", !.answer = Count])
  /\ UNCHANGED <<tables, query, cached, missed, writer>>

\* A result that was found is updated, if it is still there; otherwise one is
\* inserted, beside those that others have inserted meanwhile.
Stored(found, entry) ==
  IF found THEN IF cached = {} THEN {} ELSE {entry} ELSE cached \cup {entry}

\* What was written since the query is missed, whether or not it was cleared.
StoreCount(r) ==
  /\ reader[r].phase = "store"
  /\ LET entry == Entry(reader[r].answer, TRUE) IN
       /\ cached' = Stored(reader[r].found, entry)
       /\ missed' = (missed \/ (entry \in cached' /\ entry.answer # Count))
  /\ ReaderBecomes(r, IdleReader)
  /\ UNCHANGED <<tables, query, writer>>

\* Variant: the results have no time to live.
KeptForGood(entry) == cached

Expired(entry) == (cached \ {entry}) \cup {Entry(entry.answer, FALSE)}

\* Each stored result has a time of its own: the time to live of one is over.
Expire ==
  /\ \E entry \in cached : entry.fresh /\ cached' = Expired(entry)
  /\ UNCHANGED <<tables, query, missed, writer, reader>>

-----------------------------------------------------------------------------

WriterStarts(w) ==
  \/ \E o \in Order :
       \/ \E approval \in {"pending", "accepted"} : CreateOrderClear(w, o, approval)
       \/ \E accept \in BOOLEAN : UpdateOrder(w, o, accept)
       \/ RejectOrder(w, o)
       \/ RemoveOrder(w, o)
  \/ \E s \in Survey : CreateSurvey(w, s)
  \/ \E target \in Target :
       RemoveSurveyClear(w, target) \/ \E state \in RequestState : LogSurvey(w, target, state)

WriterGoesOn(w) ==
  \/ CreateOrderSave(w) \/ SaveUpdated(w) \/ SaveAccepted(w) \/ SaveRejected(w)
  \/ DeleteOrder(w) \/ ClearRequests(w) \/ DeleteRequests(w) \/ ClearOrders(w)
  \/ RemoveSurvey(w) \/ LogStatus(w) \/ ClearSurveys(w)

ReaderGoesOn(r) ==
  \/ GetStatusCount(r) \/ CacheHit(r) \/ CacheMiss(r) \/ QueryCount(r) \/ StoreCount(r)

CountsNext ==
  \/ \E w \in Handler : WriterStarts(w) \/ WriterGoesOn(w) \/ WriterFails(w)
  \/ \E r \in Reader : ReaderGoesOn(r)
  \/ CallbackClears
  \/ Expire

CountsSpec == CountsInit /\ [][CountsNext]_countVars

\* Time passes; nothing else has to happen.
FairCountsSpec == CountsSpec /\ WF_countVars(Expire)

-----------------------------------------------------------------------------
(* Properties *)

CountsTypeOK ==
  /\ status \in [Order -> OrderState]
  /\ delivery \in [Order -> RequestState]
  /\ pickup \in [Order -> RequestState]
  /\ alone \in [Survey -> RequestState]
  /\ query \in Key
  /\ cached \in SUBSET [answer : Seq(Nat), fresh : BOOLEAN]
  /\ missed \in BOOLEAN
  /\ writer \in [Handler -> Writer]
  /\ reader \in [Reader -> ReaderState]

\* A stored count is wrong for a reason: a handler has yet to clear it, or it
\* was made before a write that no clear follows (a creation between its clear
\* and its save, the log or the removal of a pick-up, a query that a write
\* overtook, a failure).  Whatever interleaves, acceptances, rejections and
\* removals leave no other wrong count behind (clearOrderCachecount after the
\* write, leads.service.ts:539, 579, 613).
StaleForAReason ==
  \/ \A entry \in cached : entry.answer = Count
  \/ missed
  \/ \E w \in Handler : ClearsLater(writer[w])

\* Once nobody writes any more, the counts the overview shows become right and
\* stay so, also after failed handlers and queries that writes overtook: what
\* is wrong expires (ORDER_CACHE_TTL, leads.service.ts:627).
StaleCountsEnd ==
  <>[][UNCHANGED tables]_countVars =>
    <>[](\A entry \in cached : entry.fresh => entry.answer = Count)
=============================================================================
