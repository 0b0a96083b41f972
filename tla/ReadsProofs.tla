----------------------------- MODULE ReadsProofs -----------------------------
(***************************************************************************)
(* Proofs about what the readers of the service are given.  The stored     *)
(* counts: types, and that one is wrong only for a reason the model names, *)
(* for any number of orders, surveys, handlers and readers.  The pages of  *)
(* a list: types, and how many rows a walk through a changing list misses  *)
(* or repeats, for lists of any length, all limits and all changes.        *)
(***************************************************************************)
EXTENDS StatusCounts, Pages, FiniteSetTheorems, TLAPS

-----------------------------------------------------------------------------
(* Counts *)

\* A count is a sequence of numbers.
LEMMA CountIsNumbers == Count \in Seq(Nat)
<1>1. ASSUME NEW S, IsFiniteSet(S), NEW P \in SUBSET S
      PROVE  Cardinality(P) \in Nat
  BY <1>1, FS_Subset, FS_CardinalityType
<1>2. ASSUME NEW s
      PROVE  SurveysIn(s) \in Nat
  <2>1. Cardinality({o \in Order : delivery[o] = s}) \in Nat
    BY <1>1, CountConstants
  <2>2. Cardinality({o \in Order : pickup[o] = s}) \in Nat
    BY <1>1, CountConstants
  <2>3. Cardinality({r \in Survey : alone[r] = s}) \in Nat
    BY <1>1, CountConstants
  <2> QED
    BY <2>1, <2>2, <2>3 DEF SurveysIn
<1>3. Cardinality({o \in Order : InStatus(o)}) \in Nat
  BY <1>1, CountConstants
<1>4. SurveysIn("pending") \in Nat /\ SurveysIn("on_progress") \in Nat /\ SurveysIn("done") \in Nat
  BY <1>2
<1> QED
  BY <1>3, <1>4 DEF Count

\* A count depends on the tables and the query only.
LEMMA SameTablesSameCount ==
  ASSUME UNCHANGED tables, query' = query
  PROVE  Count' = Count
BY DEF tables, Count, SurveysIn, InStatus

-----------------------------------------------------------------------------
(* Types *)

\* What a handler holds fits what it is about to do.
WritersFit ==
  \A w \in Handler :
    /\ writer[w].phase \in {"delete_request", "log"} => writer[w].target \in Target
    /\ writer[w].phase \in {"insert", "update"} =>
         writer[w].status \in {"pending", "accepted", "rejected"}
    /\ writer[w].phase = "log" => writer[w].status \in {"on_progress", "done"}

CountsInv == CountsTypeOK /\ WritersFit

\* A request is written as one of its table's rows.
LEMMA WriteRequestTypes ==
  ASSUME CountsTypeOK, NEW target \in Target, NEW state \in RequestState,
         WriteRequest(target, state)
  PROVE  /\ delivery' \in [Order -> RequestState]
         /\ pickup' \in [Order -> RequestState]
         /\ alone' \in [Survey -> RequestState]
<1>1. \/ target[1] \in {"delivery", "pickup"} /\ target[2] \in Order
      \/ target[1] = "alone" /\ target[2] \in Survey
  BY DEF Target
<1>2. StateOf(target) \in RequestState
  BY <1>1 DEF StateOf, CountsTypeOK
<1> DEFINE next == IF LiveRequest(target) THEN state ELSE StateOf(target)
<1>3. next \in RequestState
  BY <1>2
<1>4. /\ delivery' = IF target[1] = "delivery" THEN [delivery EXCEPT ![target[2]] = next] ELSE delivery
      /\ pickup' = IF target[1] = "pickup" THEN [pickup EXCEPT ![target[2]] = next] ELSE pickup
      /\ alone' = IF target[1] = "alone" THEN [alone EXCEPT ![target[2]] = next] ELSE alone
  BY DEF WriteRequest
<1> HIDE DEF next
<1> QED
  BY <1>3, <1>4 DEF CountsTypeOK

\* A handler that starts.
LEMMA WriterStartsTypes ==
  ASSUME CountsInv, NEW w \in Handler, WriterStarts(w)
  PROVE  CountsInv'
<1> USE DEF CountsInv
<1>idle. IdleWriter \in Writer /\ IdleWriter.phase = "idle"
  BY DEF IdleWriter, Writer, WriterPhase
<1>1. ASSUME NEW o \in Order, NEW approval \in {"pending", "accepted"}, CreateOrderClear(w, o, approval)
      PROVE  CountsInv'
  <2> DEFINE h == [IdleWriter EXCEPT !.phase = "insert", !.order = o, !.status = approval]
  <2>1. h \in Writer /\ h.phase = "insert" /\ h.status \in {"pending", "accepted", "rejected"}
    BY <1>idle DEF IdleWriter, Writer, WriterPhase
  <2>2. writer' = [writer EXCEPT ![w] = h]
    BY <1>1 DEF CreateOrderClear, WriterBecomes
  <2> HIDE DEF h
  <2>3. cached' \in {{}, cached} /\ missed' \in BOOLEAN
    BY <1>1 DEF CreateOrderClear, Clear, CountsTypeOK
  <2>4. UNCHANGED <<tables, query, reader>>
    BY <1>1 DEF CreateOrderClear
  <2> QED
    BY <2>1, <2>2, <2>3, <2>4 DEF CountsTypeOK, WritersFit, tables
<1>2. ASSUME NEW o \in Order, NEW accept \in BOOLEAN, UpdateOrder(w, o, accept)
      PROVE  CountsInv'
  <2> DEFINE h == [IdleWriter EXCEPT !.phase = IF accept THEN "accept" ELSE "update", !.order = o,
                                     !.status = IF accept THEN "accepted" ELSE status[o]]
  <2>1. status[o] \in {"pending", "accepted", "rejected"}
    BY <1>2 DEF UpdateOrder, LiveOrder
  <2>2. h \in Writer /\ h.phase \in {"accept", "update"} /\ h.status \in {"pending", "accepted", "rejected"}
    BY <2>1 DEF IdleWriter, Writer, WriterPhase
  <2>3. writer' = [writer EXCEPT ![w] = h]
    BY <1>2 DEF UpdateOrder, WriterBecomes
  <2> HIDE DEF h
  <2> QED
    BY <1>2, <2>2, <2>3 DEF UpdateOrder, CountsTypeOK, WritersFit, tables
<1>3. ASSUME NEW o \in Order, RejectOrder(w, o) \/ RemoveOrder(w, o)
      PROVE  CountsInv'
  <2> DEFINE h1 == [IdleWriter EXCEPT !.phase = "reject", !.order = o]
             h2 == [IdleWriter EXCEPT !.phase = "remove", !.order = o]
  <2>1. h1 \in Writer /\ h2 \in Writer /\ h1.phase = "reject" /\ h2.phase = "remove"
    BY DEF IdleWriter, Writer, WriterPhase
  <2>2. writer' = [writer EXCEPT ![w] = h1] \/ writer' = [writer EXCEPT ![w] = h2]
    BY <1>3 DEF RejectOrder, RemoveOrder, WriterBecomes
  <2> HIDE DEF h1, h2
  <2> QED
    BY <1>3, <2>1, <2>2 DEF RejectOrder, RemoveOrder, CountsTypeOK, WritersFit, tables
<1>4. ASSUME NEW s \in Survey, CreateSurvey(w, s)
      PROVE  CountsInv'
  <2>1. writer[w].phase = "idle" /\ writer' = [writer EXCEPT ![w].phase = "clear_surveys"]
    BY <1>4, <1>idle DEF CreateSurvey, WriterProceeds
  <2>2. writer' \in [Handler -> Writer] /\ WritersFit'
    BY <2>1 DEF CountsTypeOK, Writer, WriterPhase, WritersFit
  <2>3. alone' \in [Survey -> RequestState] /\ missed' \in BOOLEAN
    BY <1>4 DEF CreateSurvey, NotClearedLater, CountsTypeOK, RequestState
  <2> QED
    BY <1>4, <2>2, <2>3 DEF CreateSurvey, CountsTypeOK
<1>5. ASSUME NEW target \in Target, RemoveSurveyClear(w, target)
      PROVE  CountsInv'
  <2> DEFINE h == [IdleWriter EXCEPT !.phase = "delete_request", !.target = target]
  <2>1. h \in Writer /\ h.phase = "delete_request" /\ h.target = target
    BY DEF IdleWriter, Writer, WriterPhase
  <2>2. writer' = [writer EXCEPT ![w] = h]
    BY <1>5 DEF RemoveSurveyClear, WriterBecomes
  <2> HIDE DEF h
  <2>3. cached' \in {{}, cached} /\ missed' \in BOOLEAN
    BY <1>5 DEF RemoveSurveyClear, Clear, CountsTypeOK
  <2>4. UNCHANGED <<tables, query, reader>>
    BY <1>5 DEF RemoveSurveyClear
  <2> QED
    BY <2>1, <2>2, <2>3, <2>4 DEF CountsTypeOK, WritersFit, tables
<1>6. ASSUME NEW target \in Target, NEW state \in RequestState, LogSurvey(w, target, state)
      PROVE  CountsInv'
  <2> DEFINE h == [IdleWriter EXCEPT !.phase = "log", !.target = target, !.status = state]
  <2>1. state \in {"done", "on_progress"}
    BY <1>6 DEF LogSurvey
  <2>2. h \in Writer /\ h.phase = "log" /\ h.target = target /\ h.status \in {"on_progress", "done"}
    BY <2>1 DEF IdleWriter, Writer, WriterPhase
  <2>3. writer' = [writer EXCEPT ![w] = h]
    BY <1>6 DEF LogSurvey, WriterBecomes
  <2> HIDE DEF h
  <2> QED
    BY <1>6, <2>2, <2>3 DEF LogSurvey, CountsTypeOK, WritersFit, tables
<1> QED
  BY <1>1, <1>2, <1>3, <1>4, <1>5, <1>6 DEF WriterStarts

\* A handler that proceeds to a phase without a row, or that ends, fits.
LEMMA WriterMovesTypes ==
  ASSUME CountsInv, NEW w \in Handler, NEW phase \in WriterPhase \ {"delete_request", "log", "insert", "update"},
         WriterProceeds(w, phase) \/ WriterEnds(w)
  PROVE  writer' \in [Handler -> Writer] /\ WritersFit'
<1>1. CASE WriterProceeds(w, phase)
  BY <1>1 DEF WriterProceeds, CountsInv, CountsTypeOK, WritersFit, Writer
<1>2. CASE WriterEnds(w)
  <2>1. IdleWriter \in Writer /\ IdleWriter.phase = "idle"
    BY DEF IdleWriter, Writer, WriterPhase
  <2>2. writer' = [writer EXCEPT ![w] = IdleWriter]
    BY <1>2 DEF WriterEnds, WriterBecomes
  <2> QED
    BY <2>1, <2>2 DEF CountsInv, CountsTypeOK, WritersFit
<1> QED
  BY <1>1, <1>2

\* A handler that goes on.
LEMMA WriterGoesOnTypes ==
  ASSUME CountsInv, NEW w \in Handler, WriterGoesOn(w)
  PROVE  CountsInv'
<1> USE DEF CountsInv
<1>m. ASSUME NEW phase \in {"idle", "clear_requests", "remove_requests", "clear_orders", "clear_surveys"},
             WriterProceeds(w, phase) \/ WriterEnds(w)
      PROVE  writer' \in [Handler -> Writer] /\ WritersFit'
  BY <1>m, WriterMovesTypes DEF WriterPhase
<1>n. ASSUME NEW keys, NotClearedLater(keys)
      PROVE  missed' \in BOOLEAN
  BY <1>n DEF NotClearedLater, CountsTypeOK
<1>c. ASSUME NEW keys, Clear(keys)
      PROVE  missed' \in BOOLEAN /\ cached' \in SUBSET [answer : Seq(Nat), fresh : BOOLEAN]
  BY <1>c DEF Clear, CountsTypeOK
<1>1. CASE CreateOrderSave(w)
  <2>1. writer[w].status \in OrderState
    BY <1>1 DEF CreateOrderSave, WritersFit, OrderState
  <2>2. /\ status' \in [Order -> OrderState] /\ delivery' \in [Order -> RequestState]
        /\ pickup' \in [Order -> RequestState]
    BY <1>1, <2>1 DEF CreateOrderSave, CountsTypeOK, RequestState
  <2> QED
    BY <1>1, <1>m, <1>n, <2>2 DEF CreateOrderSave, CountsTypeOK
<1>2. CASE SaveUpdated(w)
  <2>1. writer[w].status \in OrderState
    BY <1>2 DEF SaveUpdated, WritersFit, OrderState
  <2>2. status' \in [Order -> OrderState]
    BY <1>2, <2>1 DEF SaveUpdated, Written, CountsTypeOK
  <2> QED
    BY <1>2, <1>m, <1>n, <2>2 DEF SaveUpdated, CountsTypeOK
<1>3. CASE SaveAccepted(w)
  <2>1. status' \in [Order -> OrderState]
    BY <1>3 DEF SaveAccepted, Written, CountsTypeOK, OrderState
  <2> QED
    BY <1>3, <1>m, <1>n, <2>1 DEF SaveAccepted, CountsTypeOK
<1>4. CASE SaveRejected(w)
  <2>1. status' \in [Order -> OrderState]
    BY <1>4 DEF SaveRejected, Written, CountsTypeOK, OrderState
  <2> QED
    BY <1>4, <1>m, <1>n, <2>1 DEF SaveRejected, AfterRejection, CountsTypeOK
<1>5. CASE DeleteOrder(w)
  <2>1. status' \in [Order -> OrderState]
    BY <1>5 DEF DeleteOrder, CountsTypeOK, OrderState
  <2> QED
    BY <1>5, <1>m, <1>n, <2>1 DEF DeleteOrder, CountsTypeOK
<1>6. CASE ClearRequests(w)
  BY <1>6, <1>m, <1>c DEF ClearRequests, CountsTypeOK, tables
<1>7. CASE DeleteRequests(w)
  <2>1. delivery' \in [Order -> RequestState] /\ pickup' \in [Order -> RequestState]
    BY <1>7 DEF DeleteRequests, CountsTypeOK, RequestState
  <2> QED
    BY <1>7, <1>m, <1>n, <2>1 DEF DeleteRequests, CountsTypeOK
<1>8. CASE ClearOrders(w)
  BY <1>8, <1>m, <1>c DEF ClearOrders, CountsTypeOK, tables
<1>9. CASE RemoveSurvey(w)
  <2>1. writer[w].target \in Target /\ WriteRequest(writer[w].target, "deleted")
    BY <1>9 DEF RemoveSurvey, WritersFit
  <2>2. /\ delivery' \in [Order -> RequestState] /\ pickup' \in [Order -> RequestState]
        /\ alone' \in [Survey -> RequestState]
    BY <2>1, WriteRequestTypes DEF RequestState
  <2> QED
    BY <1>9, <1>m, <1>n, <2>2 DEF RemoveSurvey, CountsTypeOK
<1>10. CASE LogStatus(w)
  <2>1. writer[w].target \in Target /\ WriteRequest(writer[w].target, writer[w].status)
    BY <1>10 DEF LogStatus, WritersFit
  <2>2. CASE writer[w].status \in RequestState
    <3>1. /\ delivery' \in [Order -> RequestState] /\ pickup' \in [Order -> RequestState]
          /\ alone' \in [Survey -> RequestState]
      BY <2>1, <2>2, WriteRequestTypes
    <3> QED
      BY <1>10, <1>m, <1>n, <3>1 DEF LogStatus, CountsTypeOK
  <2>3. writer[w].status \in RequestState
    BY <1>10 DEF LogStatus, WritersFit, RequestState
  <2> QED
    BY <2>2, <2>3
<1>11. CASE ClearSurveys(w)
  BY <1>11, <1>m, <1>c DEF ClearSurveys, CountsTypeOK, tables
<1> QED
  BY <1>1, <1>2, <1>3, <1>4, <1>5, <1>6, <1>7, <1>8, <1>9, <1>10, <1>11 DEF WriterGoesOn

\* A reader, a failure, a callback, time.
LEMMA OthersTypes ==
  ASSUME CountsInv,
         \/ \E w \in Handler : WriterFails(w)
         \/ \E r \in Reader : ReaderGoesOn(r)
         \/ CallbackClears
         \/ Expire
  PROVE  CountsInv'
<1> USE DEF CountsInv
<1>idle. IdleReader \in ReaderState
  BY DEF IdleReader, ReaderState
<1>1. ASSUME NEW w \in Handler, WriterFails(w)
      PROVE  CountsInv'
  <2>1. writer' \in [Handler -> Writer] /\ WritersFit'
    BY <1>1, WriterMovesTypes DEF WriterFails, WriterPhase
  <2> QED
    BY <1>1, <2>1 DEF WriterFails, CountsTypeOK, tables
<1>2. ASSUME NEW r \in Reader, GetStatusCount(r) \/ CacheHit(r) \/ CacheMiss(r)
      PROVE  CountsInv'
  <2>1. reader' \in [Reader -> ReaderState]
    <3>1. [IdleReader EXCEPT !.phase = "ask"] \in ReaderState
      BY <1>idle DEF ReaderState
    <3>2. reader[r] \in ReaderState
      BY DEF CountsTypeOK
    <3>3. /\ [reader[r] EXCEPT !.phase = "query"] \in ReaderState
          /\ [reader[r] EXCEPT !.phase = "query", !.found = TRUE] \in ReaderState
      BY <3>2 DEF ReaderState
    <3> QED
      BY <1>2, <1>idle, <3>1, <3>3 DEF GetStatusCount, CacheHit, CacheMiss, ReaderBecomes, CountsTypeOK
  <2> QED
    BY <1>2, <2>1 DEF GetStatusCount, CacheHit, CacheMiss, CountsTypeOK, WritersFit, tables
<1>3. ASSUME NEW r \in Reader, QueryCount(r)
      PROVE  CountsInv'
  <2>1. reader[r] \in ReaderState
    BY DEF CountsTypeOK
  <2>2. [reader[r] EXCEPT !.phase = "store", !.answer = Count] \in ReaderState
    BY <2>1, CountIsNumbers DEF ReaderState
  <2> QED
    BY <1>3, <2>2 DEF QueryCount, ReaderBecomes, CountsTypeOK, WritersFit, tables
<1>4. ASSUME NEW r \in Reader, StoreCount(r)
      PROVE  CountsInv'
  <2>1. Entry(reader[r].answer, TRUE) \in [answer : Seq(Nat), fresh : BOOLEAN]
    BY DEF CountsTypeOK, ReaderState, Entry
  <2>2. cached' \in SUBSET [answer : Seq(Nat), fresh : BOOLEAN]
    BY <1>4, <2>1 DEF StoreCount, Stored, CountsTypeOK
  <2>3. missed' \in BOOLEAN
    BY <1>4 DEF StoreCount, CountsTypeOK
  <2> QED
    BY <1>4, <1>idle, <2>2, <2>3 DEF StoreCount, ReaderBecomes, CountsTypeOK, WritersFit, tables
<1>5. CASE CallbackClears
  <2>1. cached' \in {{}, cached} /\ missed' \in BOOLEAN
    BY <1>5 DEF CallbackClears, Clear, CountsTypeOK
  <2> QED
    BY <1>5, <2>1 DEF CallbackClears, CountsTypeOK, WritersFit, tables
<1>6. CASE Expire
  <2>1. cached' \in SUBSET [answer : Seq(Nat), fresh : BOOLEAN]
    <3>1. PICK entry \in cached : cached' = Expired(entry)
      BY <1>6 DEF Expire
    <3>2. Entry(entry.answer, FALSE) \in [answer : Seq(Nat), fresh : BOOLEAN]
      BY DEF CountsTypeOK, Entry
    <3> QED
      BY <3>1, <3>2 DEF Expired, CountsTypeOK
  <2> QED
    BY <1>6, <2>1 DEF Expire, CountsTypeOK, WritersFit, tables
<1> QED
  BY <1>1, <1>2, <1>3, <1>4, <1>5, <1>6 DEF ReaderGoesOn

\* The initial state has the types.
LEMMA CountsInvInit ==
  ASSUME CountsInit
  PROVE  CountsInv
<1>1. IdleWriter \in Writer /\ IdleWriter.phase = "idle" /\ IdleReader \in ReaderState
  BY DEF IdleWriter, Writer, WriterPhase, IdleReader, ReaderState
<1> QED
  BY <1>1 DEF CountsInit, CountsInv, CountsTypeOK, WritersFit, OrderState, RequestState

\* Every step keeps the types.
LEMMA CountsKeepTypes ==
  ASSUME CountsInv, [CountsNext]_countVars
  PROVE  CountsInv'
<1>1. CASE UNCHANGED countVars
  BY <1>1 DEF countVars, tables, CountsInv, CountsTypeOK, WritersFit
<1>2. CASE CountsNext
  BY <1>2, WriterStartsTypes, WriterGoesOnTypes, OthersTypes DEF CountsNext
<1> QED
  BY <1>1, <1>2

\* The tables, the stored results, the handlers and the readers have their
\* types in every reachable state, for any number of each.
THEOREM CountsTypes == CountsSpec => []CountsTypeOK
<1>1. CountsInv /\ [CountsNext]_countVars => CountsInv'
  BY CountsKeepTypes
<1>2. CountsInv => CountsTypeOK
  BY DEF CountsInv
<1> QED
  BY <1>1, <1>2, CountsInvInit, PTL DEF CountsSpec

-----------------------------------------------------------------------------
(* Stale counts *)

AllRight == \A entry \in cached : entry.answer = Count

\* A write after which the query is cleared, has been missed, or has its answer
\* unchanged.
LEMMA WritesAreAccounted ==
  ASSUME StaleForAReason, NEW w \in Handler, NEW keys, NotClearedLater(keys),
         cached' = cached, query' = query,
         query \in keys \/ Count' = Count \/ ClearsLater(writer'[w]),
         ClearsLater(writer[w]) => ClearsLater(writer'[w]),
         \A v \in Handler \ {w} : writer'[v] = writer[v]
  PROVE  StaleForAReason'
<1>1. CASE missed
  BY <1>1 DEF NotClearedLater, StaleForAReason
<1>2. CASE \E v \in Handler : ClearsLater(writer[v])
  <2>1. PICK v \in Handler : ClearsLater(writer[v])
    BY <1>2
  <2>2. ClearsLater(writer'[v])
    BY <2>1
  <2> QED
    BY <2>2 DEF StaleForAReason, ClearsLater
<1>3. CASE AllRight /\ query \in keys
  <2>1. CASE cached = {} \/ Count' = Count
    BY <1>3, <2>1 DEF StaleForAReason, AllRight
  <2>2. CASE cached # {} /\ Count' # Count
    BY <1>3, <2>2 DEF StaleForAReason, NotClearedLater
  <2> QED
    BY <2>1, <2>2
<1>4. CASE AllRight /\ Count' = Count
  BY <1>4 DEF StaleForAReason, AllRight
<1>5. CASE ClearsLater(writer'[w])
  BY <1>5 DEF StaleForAReason, ClearsLater
<1> QED
  BY <1>1, <1>2, <1>3, <1>4, <1>5 DEF StaleForAReason, AllRight

\* A clear leaves nothing of its queries, and the reasons of the others.
LEMMA ClearsAreSound ==
  ASSUME StaleForAReason, NEW keys, Clear(keys), UNCHANGED <<tables, query>>,
         query \notin keys =>
           \A v \in Handler : ClearsLater(writer[v]) => ClearsLater(writer'[v])
  PROVE  StaleForAReason'
<1>1. Count' = Count
  BY SameTablesSameCount DEF tables
<1>2. CASE query \in keys
  BY <1>2 DEF Clear, StaleForAReason
<1>3. CASE query \notin keys
  <2>1. cached' = cached /\ (missed => missed')
    BY <1>3 DEF Clear
  <2>2. \A v \in Handler : ClearsLater(writer[v]) => ClearsLater(writer[v])'
    BY <1>3 DEF ClearsLater
  <2> QED
    BY <1>1, <2>1, <2>2 DEF StaleForAReason
<1> QED
  BY <1>2, <1>3

\* A step that writes, stores and clears nothing.
LEMMA NothingStored ==
  ASSUME StaleForAReason, UNCHANGED <<tables, query, missed>>,
         \A entry \in cached' : \E old \in cached : entry.answer = old.answer,
         \A v \in Handler : ClearsLater(writer[v]) => ClearsLater(writer'[v])
  PROVE  StaleForAReason'
<1>1. Count' = Count
  BY SameTablesSameCount DEF tables
<1>2. \A v \in Handler : ClearsLater(writer[v]) => ClearsLater(writer[v])'
  BY DEF ClearsLater
<1> QED
  BY <1>1, <1>2 DEF StaleForAReason

\* The phases that only read or have cleared before they write.
Silent == {"idle", "insert", "update", "accept", "reject", "remove", "delete_request", "log"}

\* They are not among those that clear after a write.
LEMMA SilentClearNothing ==
  ASSUME NEW state, state.phase \in Silent
  PROVE  ~ClearsLater(state)
BY DEF Silent, ClearsLater

\* A handler's step moves one handler.
LEMMA OneWriterMoves ==
  ASSUME CountsTypeOK, NEW w \in Handler, NEW phase,
         WriterProceeds(w, phase) \/ (phase = "idle" /\ WriterEnds(w))
  PROVE  /\ writer'[w].phase = phase
         /\ \A v \in Handler \ {w} : writer'[v] = writer[v]
<1>1. CASE WriterProceeds(w, phase)
  BY <1>1 DEF WriterProceeds, CountsTypeOK, Writer
<1>2. CASE phase = "idle" /\ WriterEnds(w)
  <2>1. IdleWriter.phase = "idle"
    BY DEF IdleWriter
  <2> QED
    BY <1>2, <2>1 DEF WriterEnds, WriterBecomes, CountsTypeOK
<1> QED
  BY <1>1, <1>2

\* The steps of a handler that write.
LEMMA WritersStale ==
  ASSUME CountsInv, StaleForAReason, NEW w \in Handler,
         \/ CreateOrderSave(w) \/ SaveUpdated(w) \/ SaveAccepted(w) \/ SaveRejected(w)
         \/ DeleteOrder(w) \/ DeleteRequests(w) \/ RemoveSurvey(w) \/ LogStatus(w)
         \/ \E s \in Survey : CreateSurvey(w, s)
  PROVE  StaleForAReason'
<1> USE DEF CountsInv
<1>q. query \in Key /\ query' = query /\ cached' = cached
  BY DEF CountsTypeOK, CreateOrderSave, SaveUpdated, SaveAccepted, SaveRejected, DeleteOrder,
         DeleteRequests, RemoveSurvey, LogStatus, CreateSurvey
<1>1. ASSUME writer[w].phase \in Silent, NotClearedLater(Key), WriterEnds(w)
      PROVE  StaleForAReason'
  <2>1. \A v \in Handler \ {w} : writer'[v] = writer[v]
    BY <1>1, OneWriterMoves
  <2> QED
    BY <1>q, <1>1, <2>1, SilentClearNothing, WritesAreAccounted
<1>2. ASSUME writer[w].phase \in Silent \cup {"remove_requests"}, NotClearedLater({"surveys"}),
             NEW phase \in {"clear_requests", "clear_orders"}, WriterProceeds(w, phase)
      PROVE  StaleForAReason'
  <2>1. writer'[w].phase = phase /\ \A v \in Handler \ {w} : writer'[v] = writer[v]
    BY <1>2, OneWriterMoves
  <2>2. query \in {"surveys"} \/ ClearsLater(writer'[w])
    BY <1>2, <2>1 DEF ClearsLater
  <2>3. ClearsLater(writer[w]) => ClearsLater(writer'[w])
    BY <1>2, <2>1 DEF ClearsLater, Silent
  <2> QED
    BY <1>q, <1>2, <2>1, <2>2, <2>3, WritesAreAccounted
<1>3. ASSUME writer[w].phase \in Silent, NotClearedLater(OrderKey), WriterProceeds(w, "clear_surveys")
      PROVE  StaleForAReason'
  <2>1. writer'[w].phase = "clear_surveys" /\ \A v \in Handler \ {w} : writer'[v] = writer[v]
    BY <1>3, OneWriterMoves
  <2>2. query \in OrderKey \/ ClearsLater(writer'[w])
    BY <1>q, <2>1 DEF ClearsLater, Key
  <2> QED
    BY <1>q, <1>3, <2>1, <2>2, SilentClearNothing, WritesAreAccounted
<1>4. CASE CreateOrderSave(w) \/ SaveUpdated(w) \/ RemoveSurvey(w)
  BY <1>1, <1>4 DEF CreateOrderSave, SaveUpdated, RemoveSurvey, Silent
<1>5. CASE SaveAccepted(w) \/ SaveRejected(w) \/ DeleteOrder(w) \/ DeleteRequests(w)
  BY <1>2, <1>5 DEF SaveAccepted, SaveRejected, AfterRejection, DeleteOrder, DeleteRequests, Silent
<1>6. CASE LogStatus(w) \/ \E s \in Survey : CreateSurvey(w, s)
  <2>1. IdleWriter.phase = "idle"
    BY DEF IdleWriter
  <2> QED
    BY <1>3, <1>6, <2>1 DEF LogStatus, CreateSurvey, Silent
<1> QED
  BY <1>4, <1>5, <1>6

\* The steps that clear.
LEMMA ClearersStale ==
  ASSUME CountsInv, StaleForAReason,
         \/ \E w \in Handler :
              \/ ClearRequests(w) \/ ClearOrders(w) \/ ClearSurveys(w)
              \/ \E o \in Order, approval \in {"pending", "accepted"} : CreateOrderClear(w, o, approval)
              \/ \E target \in Target : RemoveSurveyClear(w, target)
         \/ CallbackClears
  PROVE  StaleForAReason'
<1> USE DEF CountsInv
<1>1. ASSUME NEW w \in Handler, ClearRequests(w)
      PROVE  StaleForAReason'
  <2>1. writer[w].phase = "clear_requests" /\ WriterProceeds(w, "remove_requests") /\ Clear({"surveys"})
        /\ UNCHANGED <<tables, query>>
    BY <1>1 DEF ClearRequests
  <2>2. writer'[w].phase = "remove_requests" /\ \A v \in Handler \ {w} : writer'[v] = writer[v]
    BY <2>1, OneWriterMoves
  <2>3. \A v \in Handler : ClearsLater(writer[v]) => ClearsLater(writer'[v])
    BY <2>1, <2>2 DEF ClearsLater
  <2> QED
    BY <2>1, <2>3, ClearsAreSound
<1>2. ASSUME NEW w \in Handler, ClearOrders(w)
      PROVE  StaleForAReason'
  <2>1. writer[w].phase = "clear_orders" /\ WriterEnds(w) /\ Clear(OrderKey) /\ UNCHANGED <<tables, query>>
    BY <1>2 DEF ClearOrders, ClearedByOrders
  <2>2. \A v \in Handler \ {w} : writer'[v] = writer[v]
    BY <2>1, OneWriterMoves
  <2>3. query \notin OrderKey => \A v \in Handler : ClearsLater(writer[v]) => ClearsLater(writer'[v])
    BY <2>1, <2>2 DEF ClearsLater, Key, CountsTypeOK
  <2> QED
    BY <2>1, <2>3, ClearsAreSound
<1>3. ASSUME NEW w \in Handler, ClearSurveys(w)
      PROVE  StaleForAReason'
  <2>1. writer[w].phase = "clear_surveys" /\ WriterEnds(w) /\ Clear({"surveys"}) /\ UNCHANGED <<tables, query>>
    BY <1>3 DEF ClearSurveys
  <2>2. \A v \in Handler \ {w} : writer'[v] = writer[v]
    BY <2>1, OneWriterMoves
  <2>3. query \notin {"surveys"} => \A v \in Handler : ClearsLater(writer[v]) => ClearsLater(writer'[v])
    BY <2>1, <2>2 DEF ClearsLater
  <2> QED
    BY <2>1, <2>3, ClearsAreSound
<1>4. ASSUME NEW w \in Handler, NEW keys, writer[w] = IdleWriter, Clear(keys),
             UNCHANGED <<tables, query>>, NEW h, WriterBecomes(w, h)
      PROVE  StaleForAReason'
  <2>1. ~ClearsLater(writer[w])
    BY <1>4 DEF IdleWriter, ClearsLater
  <2>2. \A v \in Handler : ClearsLater(writer[v]) => ClearsLater(writer'[v])
    BY <1>4, <2>1 DEF WriterBecomes, CountsTypeOK
  <2> QED
    BY <1>4, <2>2, ClearsAreSound
<1>5. ASSUME NEW w \in Handler, NEW o \in Order, NEW approval, CreateOrderClear(w, o, approval)
      PROVE  StaleForAReason'
  BY <1>4, <1>5 DEF CreateOrderClear
<1>6. ASSUME NEW w \in Handler, NEW target \in Target, RemoveSurveyClear(w, target)
      PROVE  StaleForAReason'
  BY <1>4, <1>6 DEF RemoveSurveyClear
<1>7. CASE CallbackClears
  BY <1>7, ClearsAreSound DEF CallbackClears
<1> QED
  BY <1>1, <1>2, <1>3, <1>5, <1>6, <1>7

\* Readers, beginnings of handlers, failures and time.
LEMMA OthersStale ==
  ASSUME CountsInv, StaleForAReason,
         \/ \E w \in Handler :
              \/ \E o \in Order, accept \in BOOLEAN : UpdateOrder(w, o, accept)
              \/ \E o \in Order : RejectOrder(w, o) \/ RemoveOrder(w, o)
              \/ \E target \in Target, state \in RequestState : LogSurvey(w, target, state)
              \/ WriterFails(w)
         \/ \E r \in Reader : ReaderGoesOn(r)
         \/ Expire
  PROVE  StaleForAReason'
<1> USE DEF CountsInv
<1>1. ASSUME NEW w \in Handler, NEW h, writer[w] = IdleWriter, WriterBecomes(w, h),
             UNCHANGED <<tables, cached, missed, query>>
      PROVE  StaleForAReason'
  <2>1. ~ClearsLater(writer[w])
    BY <1>1 DEF IdleWriter, ClearsLater
  <2>2. \A v \in Handler : ClearsLater(writer[v]) => ClearsLater(writer'[v])
    BY <1>1, <2>1 DEF WriterBecomes, CountsTypeOK
  <2>3. \A entry \in cached' : \E old \in cached : entry.answer = old.answer
    BY <1>1
  <2> QED
    BY <1>1, <2>2, <2>3, NothingStored
<1>2. ASSUME NEW w \in Handler,
             \/ \E o \in Order, accept \in BOOLEAN : UpdateOrder(w, o, accept)
             \/ \E o \in Order : RejectOrder(w, o) \/ RemoveOrder(w, o)
             \/ \E target \in Target, state \in RequestState : LogSurvey(w, target, state)
      PROVE  StaleForAReason'
  <2>1. /\ writer[w] = IdleWriter /\ UNCHANGED <<tables, cached, missed, query>>
        /\ \E h : WriterBecomes(w, h)
    BY <1>2 DEF UpdateOrder, RejectOrder, RemoveOrder, LogSurvey
  <2> QED
    BY <1>1, <2>1
<1>3. ASSUME NEW w \in Handler, WriterFails(w)
      PROVE  StaleForAReason'
  <2>1. /\ UNCHANGED <<tables, cached, query>> /\ WriterEnds(w)
        /\ missed' = (missed \/ (ClearsLater(writer[w]) /\ cached # {}))
    BY <1>3 DEF WriterFails
  <2>2. \A v \in Handler \ {w} : writer'[v] = writer[v]
    BY <2>1, OneWriterMoves
  <2>3. Count' = Count
    BY <2>1, SameTablesSameCount DEF tables
  <2>4. CASE cached = {} \/ missed \/ ClearsLater(writer[w])
    BY <2>1, <2>4 DEF StaleForAReason
  <2>5. CASE \E v \in Handler \ {w} : ClearsLater(writer[v])
    <3>1. \E v \in Handler : ClearsLater(writer[v])'
      BY <2>1, <2>2, <2>5 DEF ClearsLater
    <3> QED
      BY <3>1 DEF StaleForAReason
  <2>6. CASE AllRight
    BY <2>1, <2>3, <2>6 DEF StaleForAReason, AllRight
  <2> QED
    BY <2>4, <2>5, <2>6 DEF StaleForAReason, AllRight
<1>4. ASSUME NEW r \in Reader, GetStatusCount(r) \/ CacheHit(r) \/ CacheMiss(r) \/ QueryCount(r)
      PROVE  StaleForAReason'
  <2>1. UNCHANGED <<tables, query, missed, cached, writer>>
    BY <1>4 DEF GetStatusCount, CacheHit, CacheMiss, QueryCount
  <2> QED
    BY <2>1, NothingStored
<1>5. ASSUME NEW r \in Reader, StoreCount(r)
      PROVE  StaleForAReason'
  <2> DEFINE entry == Entry(reader[r].answer, TRUE)
  <2>1. /\ UNCHANGED <<tables, query, writer>>
        /\ cached' \subseteq cached \cup {entry}
        /\ missed' = (missed \/ (entry \in cached' /\ entry.answer # Count))
    BY <1>5 DEF StoreCount, Stored
  <2> HIDE DEF entry
  <2>2. Count' = Count
    BY <2>1, SameTablesSameCount DEF tables
  <2>3. CASE missed \/ (entry \in cached' /\ entry.answer # Count)
    BY <2>1, <2>3 DEF StaleForAReason
  <2>4. CASE \E v \in Handler : ClearsLater(writer[v])
    <3>1. \E v \in Handler : ClearsLater(writer[v])'
      BY <2>1, <2>4 DEF ClearsLater
    <3> QED
      BY <3>1 DEF StaleForAReason
  <2>5. CASE AllRight /\ ~(entry \in cached' /\ entry.answer # Count)
    BY <2>1, <2>2, <2>5 DEF StaleForAReason, AllRight
  <2> QED
    BY <2>3, <2>4, <2>5 DEF StaleForAReason, AllRight
<1>6. CASE Expire
  <2>1. UNCHANGED <<tables, query, missed, writer>>
    BY <1>6 DEF Expire
  <2>2. \A entry \in cached' : \E old \in cached : entry.answer = old.answer
    <3>1. PICK entry \in cached : cached' = Expired(entry)
      BY <1>6 DEF Expire
    <3>2. Entry(entry.answer, FALSE).answer = entry.answer
      BY DEF Entry
    <3> QED
      BY <3>1, <3>2 DEF Expired
  <2> QED
    BY <2>1, <2>2, NothingStored
<1> QED
  BY <1>2, <1>3, <1>4, <1>5, <1>6 DEF ReaderGoesOn

\* For any number of orders, surveys, handlers and readers a stored count is
\* wrong only while a handler has yet to clear it or when a write that nothing
\* clears has been missed.
THEOREM StaleCountsHaveAReason == CountsSpec => []StaleForAReason
<1>1. CountsInv /\ StaleForAReason /\ [CountsNext]_countVars => StaleForAReason'
  <2> SUFFICES ASSUME CountsInv, StaleForAReason, [CountsNext]_countVars
               PROVE  StaleForAReason'
    OBVIOUS
  <2>1. CASE UNCHANGED countVars
    BY <2>1, NothingStored DEF countVars
  <2>2. CASE CountsNext
    BY <2>2, WritersStale, ClearersStale, OthersStale DEF CountsNext, WriterStarts, WriterGoesOn
  <2> QED
    BY <2>1, <2>2
<1>2. CountsInit => StaleForAReason
  BY DEF CountsInit, StaleForAReason
<1>3. CountsInv /\ [CountsNext]_countVars => CountsInv'
  BY CountsKeepTypes
<1> QED
  BY <1>1, <1>2, <1>3, CountsInvInit, PTL DEF CountsSpec

-----------------------------------------------------------------------------
(* Positions in a list *)

\* The position of a row in a list S of rows.
Position(S, r) == Cardinality({s \in S : s <= r})

\* A position is at least 1 for a row of the list, and at most its length.
LEMMA PositionType ==
  ASSUME NEW S \in SUBSET Int, IsFiniteSet(S), NEW r \in Int
  PROVE  /\ Position(S, r) \in Nat
         /\ Cardinality(S) \in Nat
         /\ Position(S, r) <= Cardinality(S)
         /\ r \in S => Position(S, r) >= 1
<1> DEFINE P == {s \in S : s <= r}
<1>1. IsFiniteSet(P) /\ Cardinality(P) <= Cardinality(S)
  <2>1. P \in SUBSET S
    OBVIOUS
  <2> QED
    BY <2>1, FS_Subset
<1>2. Cardinality(P) \in Nat /\ Cardinality(S) \in Nat
  BY <1>1, FS_CardinalityType
<1>3. ASSUME r \in S
      PROVE  Cardinality(P) # 0
  <2>1. r \in P
    BY <1>3
  <2> QED
    BY <1>1, <2>1, FS_EmptySet
<1> QED
  BY <1>1, <1>2, <1>3 DEF Position

\* Of two rows of a list, the later has the higher position.
LEMMA PositionsGrow ==
  ASSUME NEW S \in SUBSET Int, IsFiniteSet(S), NEW q \in S, NEW r \in S, q < r
  PROVE  Position(S, q) < Position(S, r)
<1> DEFINE P == {s \in S : s <= q}
           Q == {s \in S : s <= r}
<1>1. IsFiniteSet(Q)
  <2>1. Q \in SUBSET S
    OBVIOUS
  <2> QED
    BY <2>1, FS_Subset
<1>2. P \in SUBSET Q /\ r \in Q /\ r \notin P
  <2>1. q \in Int /\ r \in Int /\ \A s \in S : s \in Int
    OBVIOUS
  <2>2. \A s \in S : s <= q => s <= r
    BY <2>1
  <2>3. r <= r /\ ~(r <= q)
    BY <2>1
  <2> QED
    BY <2>2, <2>3
<1>3. Cardinality(P) <= Cardinality(Q) /\ Cardinality(P) # Cardinality(Q)
  <2> HIDE DEF P, Q
  <2> QED
    BY <1>1, <1>2, FS_Subset
<1>4. Position(S, q) \in Nat /\ Position(S, r) \in Nat
  BY PositionType
<1> QED
  BY <1>3, <1>4 DEF Position

\* A row that enters the list moves the rows after it, and itself, by one.
LEMMA PositionsEnter ==
  ASSUME NEW S \in SUBSET Int, IsFiniteSet(S), NEW x \in Int, x \notin S, NEW r \in Int
  PROVE  Position(S \cup {x}, r) = IF x <= r THEN Position(S, r) + 1 ELSE Position(S, r)
<1> DEFINE P == {s \in S : s <= r}
           Q == {s \in S \cup {x} : s <= r}
<1>1. IsFiniteSet(P)
  <2>1. P \in SUBSET S
    OBVIOUS
  <2> QED
    BY <2>1, FS_Subset
<1>2. x \notin P /\ Q = IF x <= r THEN P \cup {x} ELSE P
  OBVIOUS
<1>3. Cardinality(Q) = IF x <= r THEN Cardinality(P) + 1 ELSE Cardinality(P)
  <2> HIDE DEF P, Q
  <2> QED
    BY <1>1, <1>2, FS_AddElement
<1> QED
  BY <1>3 DEF Position

\* A row that leaves it moves them back.
LEMMA PositionsLeave ==
  ASSUME NEW S \in SUBSET Int, IsFiniteSet(S), NEW x \in S, NEW r \in Int
  PROVE  Position(S \ {x}, r) = IF x <= r THEN Position(S, r) - 1 ELSE Position(S, r)
<1>1. IsFiniteSet(S \ {x}) /\ x \notin S \ {x} /\ S = (S \ {x}) \cup {x}
  BY FS_RemoveElement
<1>2. Position(S, r) = IF x <= r THEN Position(S \ {x}, r) + 1 ELSE Position(S \ {x}, r)
  <2> DEFINE T == S \ {x}
  <2>1. x \in Int /\ T \in SUBSET Int /\ IsFiniteSet(T) /\ x \notin T /\ S = T \cup {x}
    BY <1>1
  <2> HIDE DEF T
  <2>2. Position(T \cup {x}, r) = IF x <= r THEN Position(T, r) + 1 ELSE Position(T, r)
    BY <2>1, PositionsEnter
  <2> QED
    BY <2>1, <2>2 DEF T
<1>3. Position(S \ {x}, r) \in Nat
  BY <1>1, PositionType
<1> QED
  BY <1>2, <1>3

\* A set that has at most one element another has not is larger by at most one.
LEMMA OneMore ==
  ASSUME NEW S, IsFiniteSet(S), NEW T, \A a, b \in T \ S : a = b
  PROVE  /\ IsFiniteSet(T)
         /\ Cardinality(S) \in Nat /\ Cardinality(T) \in Nat
         /\ Cardinality(T) <= Cardinality(S) + 1
<1>1. CASE T \subseteq S
  BY <1>1, FS_Subset, FS_CardinalityType
<1>2. CASE ~(T \subseteq S)
  <2>1. PICK y \in T : y \notin S
    BY <1>2
  <2>2. T \subseteq S \cup {y}
    BY <2>1
  <2>3. IsFiniteSet(S \cup {y}) /\ Cardinality(S \cup {y}) = Cardinality(S) + 1
    BY <2>1, FS_AddElement
  <2> QED
    BY <2>2, <2>3, FS_Subset, FS_CardinalityType
<1> QED
  BY <1>1, <1>2

\* As many pages as PaginationHelper counts hold all rows, and no fewer would do.
LEMMA PagesAreFull ==
  ASSUME NEW n \in Nat, NEW l \in Nat, l >= 1
  PROVE  /\ TotalPage(n, l) \in Nat
         /\ TotalPage(n, l) <= n
         /\ \A p \in Nat : TotalPage(n, l) <= p => n <= p * l
<1> DEFINE t == (n + l - 1) \div l
<1>1. t \in Int /\ t * l <= n + l - 1 /\ n + l - 1 < t * l + l
  OBVIOUS
<1> HIDE DEF t
<1>2. t \in Nat
  <2>1. ASSUME t < 0
        PROVE  FALSE
    <3>1. (0 - 1 - t) * l >= 0
      BY <1>1, <2>1
    <3>2. (0 - 1 - t) * l = 0 - l - t * l
      BY <1>1
    <3> QED
      BY <1>1, <3>1, <3>2
  <2> QED
    BY <1>1, <2>1
<1>3. t <= n
  <2>1. ASSUME t > n
        PROVE  FALSE
    <3>1. (t - n - 1) * l >= 0 /\ n * (l - 1) >= 0
      BY <1>2, <2>1
    <3>2. (t - n - 1) * l = t * l - n * l - l /\ n * (l - 1) = n * l - n
      BY <1>2
    <3> QED
      BY <1>1, <3>1, <3>2
  <2> QED
    BY <1>2, <2>1
<1>4. ASSUME NEW p \in Nat, t <= p
      PROVE  n <= p * l
  <2>1. (p - t) * l >= 0
    BY <1>2, <1>4
  <2>2. (p - t) * l = p * l - t * l
    BY <1>2
  <2> QED
    BY <1>1, <1>2, <2>1, <2>2
<1> QED
  BY <1>2, <1>3, <1>4 DEF t, TotalPage

-----------------------------------------------------------------------------
(* What a walk has behind it and ahead of it *)

\* How many positions of the list the pages that were read reach to.
Reach ==
  CASE walk.phase = "idle"              -> 0
    [] walk.phase = "items"             -> Offset(walk.page, walk.limit)
    [] walk.phase \in {"count", "done"} -> Offset(walk.page, walk.limit) + walk.limit

\* Rows that were there all the time, are not read and will not be.
Behind == {r \in stayed \ seen : Position(rows, r) <= Reach}

\* Rows that were read and will be read again.
Ahead == {r \in rows \cap seen : Position(rows, r) > Reach}

\* The rows a walk will miss are at most those that left, and those it was or
\* will be given twice at most those that entered; a walk that is over has the
\* whole list behind it.
PagesInv ==
  /\ PagesTypeOK
  /\ walk.phase = "idle" => seen = {} /\ repeated = 0 /\ entered = 0 /\ left = 0
  /\ walk.phase # "idle" =>
       /\ walk.page >= 1 /\ walk.limit \in Limit
       /\ Cardinality(Behind) <= left
  /\ repeated + Cardinality(Ahead) <= entered
  /\ walk.phase = "done" => Cardinality(rows) <= Reach

\* The sets are finite and the numbers are numbers.
LEMMA WalksAreFinite ==
  ASSUME PagesTypeOK, walk.phase # "idle" => walk.limit \in Limit
  PROVE  /\ rows \in SUBSET Int /\ IsFiniteSet(rows)
         /\ IsFiniteSet(Behind) /\ Cardinality(Behind) \in Nat
         /\ IsFiniteSet(Ahead) /\ Cardinality(Ahead) \in Nat
         /\ walk.page \in Nat /\ walk.limit \in Nat
         /\ Reach \in Int
<1>1. rows \in SUBSET Int /\ IsFiniteSet(rows)
  BY PageConstants, FS_Subset DEF PagesTypeOK
<1>2. Behind \in SUBSET rows /\ Ahead \in SUBSET rows
  BY DEF Behind, Ahead, PagesTypeOK
<1>3. walk \in Walks /\ Cardinality(Row) \in Nat
  BY PageConstants, FS_CardinalityType DEF PagesTypeOK
<1>4. walk.page \in Nat /\ walk.limit \in Nat
  <2>1. walk.page \in 0..Cardinality(Row) + 1 /\ walk.limit \in Limit \cup {0}
    BY <1>3 DEF Walks
  <2>2. \A l \in Limit \cup {0} : l \in Nat
    BY PageConstants
  <2>3. walk.limit \in Nat
    BY <2>1, <2>2
  <2>4. \A n \in Nat : 0..n + 1 \subseteq Nat
    OBVIOUS
  <2>5. walk.page \in Nat
    BY <1>3, <2>1, <2>4
  <2> QED
    BY <2>3, <2>5
<1>5. Reach \in Int
  BY <1>3, <1>4 DEF Walks, Reach, Offset
<1> QED
  BY <1>1, <1>2, <1>4, <1>5, FS_Subset, FS_CardinalityType

-----------------------------------------------------------------------------
(* Each step *)

\* The types, whatever else holds.
LEMMA PagesKeepTypes ==
  ASSUME PagesTypeOK, PagesNext,
         walk.phase # "idle" => walk.page >= 1 /\ walk.limit \in Limit,
         IsFiniteSet(rows), rows \in SUBSET Int
  PROVE  PagesTypeOK'
<1>1. rows \subseteq Row /\ seen \subseteq Row /\ stayed \subseteq rows
      /\ entered \in Nat /\ left \in Nat /\ repeated \in Nat /\ walk \in Walks
  BY DEF PagesTypeOK
<1>2. ASSUME NEW r \in Row, EnterList(r)
      PROVE  PagesTypeOK'
  BY <1>1, <1>2 DEF EnterList, PagesTypeOK
<1>3. ASSUME NEW r \in Row, LeaveList(r)
      PROVE  PagesTypeOK'
  BY <1>1, <1>3 DEF LeaveList, PagesTypeOK
<1>4. Cardinality(Row) \in Nat
  BY PageConstants, FS_CardinalityType
<1>5. ASSUME NEW limit \in Limit, StartWalk(limit)
      PROVE  PagesTypeOK'
  <2>1. walk' \in Walks
    BY <1>4, <1>5 DEF StartWalk, Walks
  <2> QED
    BY <1>1, <1>5, <2>1 DEF StartWalk, PagesTypeOK
<1>6. ASSUME GetItems
      PROVE  PagesTypeOK'
  <2> DEFINE items == Items(walk.page, walk.limit)
  <2>1. items \in SUBSET rows
    BY DEF Items
  <2>2. walk' \in Walks
    BY <1>1, <1>6 DEF GetItems, Walks
  <2>3. Cardinality(items \cap seen) \in Nat
    <3>1. items \cap seen \in SUBSET rows
      BY <2>1
    <3> QED
      BY <3>1, FS_Subset, FS_CardinalityType
  <2>4. seen' = seen \cup items /\ repeated' = repeated + Cardinality(items \cap seen)
        /\ UNCHANGED <<rows, stayed, entered, left>>
    BY <1>6 DEF GetItems
  <2> HIDE DEF items
  <2> QED
    BY <1>1, <2>1, <2>2, <2>3, <2>4 DEF PagesTypeOK
<1>7. ASSUME GetCount
      PROVE  PagesTypeOK'
  <2>1. walk.page \in Nat /\ walk.limit \in Nat /\ walk.limit >= 1 /\ walk.page >= 1
    <3>1. walk.limit \in Limit /\ walk.page >= 1
      BY <1>7 DEF GetCount
    <3>2. \A l \in Limit : l \in Nat /\ l >= 1
      BY PageConstants
    <3> QED
      BY <1>1, <1>4, <3>1, <3>2 DEF Walks
  <2>2. Cardinality(rows) \in Nat /\ Cardinality(rows) <= Cardinality(Row)
    BY <1>1, PageConstants, FS_Subset, FS_CardinalityType
  <2>3. walk' \in Walks
    <3>1. CASE NoNextPage(walk.page, TotalPage(Cardinality(rows), walk.limit))
      BY <1>1, <1>7, <3>1 DEF GetCount, Walks
    <3>2. CASE ~NoNextPage(walk.page, TotalPage(Cardinality(rows), walk.limit))
      <4> DEFINE n == Cardinality(rows)
                 t == TotalPage(n, walk.limit)
      <4>1. t \in Nat /\ t <= n
        <5>1. n \in Nat
          BY <2>2
        <5> HIDE DEF n
        <5> QED
          BY <2>1, <5>1, PagesAreFull
      <4>2. walk.page < t
        <5>1. ~(walk.page = t \/ t = 0 \/ walk.page > t)
          BY <3>2 DEF NoNextPage
        <5> HIDE DEF t
        <5> QED
          BY <2>1, <4>1, <5>1
      <4>3. walk.page + 1 \in 0..Cardinality(Row) + 1
        <5> HIDE DEF t
        <5> QED
          BY <1>4, <2>1, <2>2, <4>1, <4>2
      <4> QED
        BY <1>1, <1>7, <3>2, <4>3 DEF GetCount, Walks
    <3> QED
      BY <3>1, <3>2
  <2> QED
    BY <1>1, <1>7, <2>3 DEF GetCount, PagesTypeOK
<1> QED
  BY <1>2, <1>3, <1>5, <1>6, <1>7 DEF PagesNext

\* What PagesInv gives of the current state.
LEMMA WalkFacts ==
  ASSUME PagesInv
  PROVE  /\ rows \in SUBSET Int /\ IsFiniteSet(rows)
         /\ IsFiniteSet(Behind) /\ Cardinality(Behind) \in Nat
         /\ IsFiniteSet(Ahead) /\ Cardinality(Ahead) \in Nat
         /\ walk.page \in Nat /\ walk.limit \in Nat
         /\ Reach \in Int
         /\ stayed \subseteq rows
         /\ entered \in Nat /\ left \in Nat /\ repeated \in Nat
         /\ walk.phase \in {"idle", "items", "count", "done"}
<1>1. PagesTypeOK /\ (walk.phase # "idle" => walk.limit \in Limit)
  BY DEF PagesInv
<1> QED
  BY <1>1, WalksAreFinite DEF PagesTypeOK, Walks

\* A row that enters is in nobody's way, but moves at most one row that was read
\* into the pages to come, or is itself such a row.
LEMMA EnterKeepsInv ==
  ASSUME PagesInv, NEW x \in Row, EnterList(x), PagesTypeOK'
  PROVE  PagesInv'
<1>1. /\ x \in Int /\ x \notin rows /\ rows' = rows \cup {x}
      /\ UNCHANGED <<walk, seen, stayed, left, repeated>>
      /\ walk.phase # "done"
  BY PageConstants DEF EnterList, MayChange, Walking
<1>2. \A r \in Int : Position(rows', r) = IF x <= r THEN Position(rows, r) + 1 ELSE Position(rows, r)
  BY <1>1, WalkFacts, PositionsEnter
<1>3. Reach' = Reach
  BY <1>1 DEF Reach, Offset
<1>4. \A r \in Int : Position(rows, r) \in Nat
  BY WalkFacts, PositionType
<1>5. Behind' \in SUBSET Behind
  <2> SUFFICES ASSUME NEW r \in Behind'
               PROVE  r \in Behind
    OBVIOUS
  <2>1. r \in stayed \ seen /\ r \in Int /\ Position(rows', r) <= Reach
    BY <1>1, <1>3, WalkFacts DEF Behind
  <2>2. Position(rows, r) <= Reach
    BY <1>2, <1>4, <2>1, WalkFacts
  <2> QED
    BY <2>1, <2>2 DEF Behind
<1>6. Cardinality(Behind') <= Cardinality(Behind)
  BY <1>5, WalkFacts, FS_Subset
<1>7. \A a, b \in Ahead' \ Ahead : a = b
  <2>1. ASSUME NEW a \in Ahead' \ Ahead, NEW b \in Ahead' \ Ahead, a < b
        PROVE  FALSE
    <3>1. /\ rows' \in SUBSET Int /\ IsFiniteSet(rows')
          /\ a \in rows' /\ b \in rows' /\ a \in seen /\ b \in seen
          /\ Position(rows', a) > Reach /\ Position(rows', b) > Reach
      BY <1>1, <1>3, WalkFacts, FS_AddElement DEF Ahead
    <3>2. a \in Int /\ b \in Int
      BY <3>1
    <3>3. \A c \in {a, b} : c # x => c \in rows /\ Position(rows, c) = Reach /\ x <= c
      <4> SUFFICES ASSUME NEW c \in {a, b}, c # x
                   PROVE  c \in rows /\ Position(rows, c) = Reach /\ x <= c
        OBVIOUS
      <4>1. c \in rows /\ c \in seen /\ c \in Int /\ Position(rows', c) > Reach
        BY <1>1, <3>1, <3>2
      <4>2. ~(Position(rows, c) > Reach)
        BY <4>1 DEF Ahead
      <4> QED
        BY <1>1, <1>2, <1>4, <4>1, <4>2, WalkFacts
    <3>4. b # x
      BY <2>1, <3>2, <3>3
    <3>5. a = x
      <4> SUFFICES ASSUME a # x PROVE FALSE
        OBVIOUS
      <4>1. Position(rows, a) < Position(rows, b)
        BY <2>1, <3>3, <3>4, WalkFacts, PositionsGrow
      <4> QED
        BY <3>2, <3>3, <3>4, <1>4, <4>1
    <3>6. Position(rows', a) < Position(rows', b)
      BY <2>1, <3>1, PositionsGrow
    <3>7. Position(rows', b) = Position(rows, b) + 1 /\ Position(rows, b) = Reach
      BY <1>2, <3>2, <3>3, <3>4
    <3>8. Position(rows', a) \in Nat
      BY <3>1, <3>2, PositionType
    <3> QED
      BY <3>1, <3>6, <3>7, <3>8, WalkFacts
  <2>2. \A a \in Ahead' : a \in Int
    BY <1>1, WalkFacts DEF Ahead
  <2> QED
    BY <2>1, <2>2
<1>8. Cardinality(Ahead') \in Nat /\ Cardinality(Ahead') <= Cardinality(Ahead) + 1
  BY <1>7, WalkFacts, OneMore
<1>9. repeated + Cardinality(Ahead') <= entered'
  <2>1. CASE walk.phase = "idle"
    <3>1. Ahead' = {}
      BY <1>1, <2>1 DEF Ahead, PagesInv
    <3> QED
      BY <2>1, <3>1, FS_EmptySet DEF EnterList, Walking, PagesInv
  <2>2. CASE walk.phase # "idle"
    <3>1. entered' = entered + 1
      BY <1>1, <2>2, WalkFacts DEF EnterList, Walking
    <3> QED
      BY <1>8, <3>1, WalkFacts DEF PagesInv
  <2> QED
    BY <2>1, <2>2
<1>10. entered' = 0 \/ walk.phase # "idle"
  BY DEF EnterList, Walking
<1>11. Cardinality(Behind') \in Nat
  BY <1>5, WalkFacts, FS_Subset, FS_CardinalityType
<1>12. walk.phase # "idle" => Cardinality(Behind') <= left
  BY <1>6, <1>11, WalkFacts DEF PagesInv
<1> QED
  BY <1>1, <1>9, <1>10, <1>12 DEF PagesInv

\* A row that leaves brings no row that was read into the pages to come, and at
\* most one that was not read into those that were.
LEMMA LeaveKeepsInv ==
  ASSUME PagesInv, NEW x \in Row, LeaveList(x), PagesTypeOK'
  PROVE  PagesInv'
<1>1. /\ x \in Int /\ x \in rows /\ rows' = rows \ {x} /\ stayed' = stayed \ {x}
      /\ UNCHANGED <<walk, seen, entered, repeated>>
      /\ walk.phase # "done"
  BY PageConstants DEF LeaveList, MayChange, Walking
<1>2. \A r \in Int : Position(rows', r) = IF x <= r THEN Position(rows, r) - 1 ELSE Position(rows, r)
  BY <1>1, WalkFacts, PositionsLeave
<1>3. Reach' = Reach
  BY <1>1 DEF Reach, Offset
<1>4. \A r \in Int : Position(rows, r) \in Nat
  BY WalkFacts, PositionType
<1>5. Ahead' \in SUBSET Ahead
  <2> SUFFICES ASSUME NEW r \in Ahead'
               PROVE  r \in Ahead
    OBVIOUS
  <2>1. r \in rows \cap seen /\ r \in Int /\ Position(rows', r) > Reach
    BY <1>1, <1>3, WalkFacts DEF Ahead
  <2>2. Position(rows, r) > Reach
    BY <1>2, <1>4, <2>1, WalkFacts
  <2> QED
    BY <2>1, <2>2 DEF Ahead
<1>6. Cardinality(Ahead') \in Nat /\ Cardinality(Ahead') <= Cardinality(Ahead)
  BY <1>5, WalkFacts, FS_Subset, FS_CardinalityType
<1>7. \A a, b \in Behind' \ Behind : a = b
  <2>1. ASSUME NEW a \in Behind' \ Behind, NEW b \in Behind' \ Behind, a < b
        PROVE  FALSE
    <3>1. \A c \in {a, b} : c \in rows /\ c \in Int /\ Position(rows, c) = Reach + 1
      <4> SUFFICES ASSUME NEW c \in {a, b}
                   PROVE  c \in rows /\ c \in Int /\ Position(rows, c) = Reach + 1
        OBVIOUS
      <4>1. c \in stayed \ seen /\ c \in rows /\ c \in Int /\ Position(rows', c) <= Reach
        BY <1>1, <1>3, WalkFacts DEF Behind
      <4>2. ~(Position(rows, c) <= Reach)
        BY <4>1 DEF Behind
      <4> QED
        BY <1>2, <1>4, <4>1, <4>2, WalkFacts
    <3>2. Position(rows, a) < Position(rows, b)
      BY <2>1, <3>1, WalkFacts, PositionsGrow
    <3> QED
      BY <3>1, <3>2, WalkFacts
  <2>2. \A a \in Behind' : a \in Int
    BY <1>1, WalkFacts DEF Behind
  <2> QED
    BY <2>1, <2>2
<1>8. Cardinality(Behind') \in Nat /\ Cardinality(Behind') <= Cardinality(Behind) + 1
  BY <1>7, WalkFacts, OneMore
<1>9. walk.phase # "idle" => Cardinality(Behind') <= left'
  <2> SUFFICES ASSUME walk.phase # "idle" PROVE Cardinality(Behind') <= left'
    OBVIOUS
  <2>1. left' = left + 1
    BY <1>1, WalkFacts DEF LeaveList, Walking
  <2> QED
    BY <1>8, <2>1, WalkFacts DEF PagesInv
<1>10. left' = 0 \/ walk.phase # "idle"
  BY DEF LeaveList, Walking
<1>11. repeated' + Cardinality(Ahead') <= entered'
  BY <1>1, <1>6, WalkFacts DEF PagesInv
<1> QED
  BY <1>1, <1>9, <1>10, <1>11 DEF PagesInv

\* A walk begins with nothing behind it.
LEMMA StartKeepsInv ==
  ASSUME PagesInv, NEW limit \in Limit, StartWalk(limit), PagesTypeOK'
  PROVE  PagesInv'
<1>1. /\ walk.phase = "idle" /\ walk' = [phase |-> "items", page |-> 1, limit |-> limit]
      /\ stayed' = rows /\ UNCHANGED <<rows, seen, entered, left, repeated>>
      /\ seen = {} /\ repeated = 0 /\ entered = 0 /\ left = 0
  BY DEF StartWalk, PagesInv
<1>2. limit \in Nat
  BY PageConstants
<1>3. Reach' = 0
  BY <1>1, <1>2 DEF Reach, Offset
<1>4. Behind' = {}
  <2> SUFFICES ASSUME NEW r \in Behind'
               PROVE  FALSE
    OBVIOUS
  <2>1. r \in rows /\ r \in Int /\ Position(rows, r) <= 0
    BY <1>1, <1>3, WalkFacts DEF Behind
  <2> QED
    BY <2>1, WalkFacts, PositionType
<1>5. Ahead' = {}
  BY <1>1 DEF Ahead
<1> QED
  BY <1>1, <1>4, <1>5, FS_EmptySet DEF PagesInv

\* A page takes its rows out of what is behind the walk and, if they were read
\* before, out of what is ahead of it.
LEMMA ItemsKeepInv ==
  ASSUME PagesInv, GetItems, PagesTypeOK'
  PROVE  PagesInv'
<1> DEFINE items == Items(walk.page, walk.limit)
<1>1. /\ walk.phase = "items" /\ walk' = [walk EXCEPT !.phase = "count"]
      /\ seen' = seen \cup items /\ repeated' = repeated + Cardinality(items \cap seen)
      /\ UNCHANGED <<rows, stayed, entered, left>>
  BY DEF GetItems
<1>2. walk \in Walks
  BY DEF PagesInv, PagesTypeOK
<1>3. walk'.phase = "count" /\ walk'.page = walk.page /\ walk'.limit = walk.limit
  BY <1>1, <1>2 DEF Walks
<1>4. Reach = Offset(walk.page, walk.limit) /\ Reach' = Reach + walk.limit
  BY <1>1, <1>3 DEF Reach, Offset
<1>5. \A r \in rows : r \in items <=> Reach < Position(rows, r) /\ Position(rows, r) <= Reach + walk.limit
  BY <1>4 DEF Items, Rank, Position
<1>6. items \in SUBSET rows
  BY DEF Items
<1> HIDE DEF items
<1>7. \A r \in Int : Position(rows, r) \in Nat
  BY WalkFacts, PositionType
<1>8. Behind' \in SUBSET Behind
  <2> SUFFICES ASSUME NEW r \in Behind'
               PROVE  r \in Behind
    OBVIOUS
  <2>1. r \in stayed \ seen /\ r \notin items /\ r \in rows /\ r \in Int
        /\ Position(rows, r) <= Reach + walk.limit
    BY <1>1, <1>4, WalkFacts DEF Behind
  <2>2. Position(rows, r) <= Reach
    BY <1>5, <1>7, <2>1, WalkFacts
  <2> QED
    BY <2>1, <2>2 DEF Behind
<1>9. Cardinality(Behind') \in Nat /\ Cardinality(Behind') <= Cardinality(Behind)
  BY <1>8, WalkFacts, FS_Subset, FS_CardinalityType
<1>10. Ahead = Ahead' \cup (items \cap seen) /\ Ahead' \cap (items \cap seen) = {}
  <2>1. \A r \in rows : r \in Ahead' <=> r \in seen \cup items /\ Position(rows, r) > Reach + walk.limit
    BY <1>1, <1>4 DEF Ahead
  <2>2. \A r \in rows : r \in Ahead <=> r \in seen /\ Position(rows, r) > Reach
    BY DEF Ahead
  <2>3. \A r \in rows : r \in Int /\ Position(rows, r) \in Nat
    BY <1>7, WalkFacts
  <2>4. \A r \in rows : /\ r \in Ahead <=> r \in Ahead' \/ r \in items \cap seen
                       /\ ~(r \in Ahead' /\ r \in items \cap seen)
    BY <1>5, <2>1, <2>2, <2>3, WalkFacts
  <2>5. Ahead \subseteq rows /\ Ahead' \subseteq rows
    BY <1>1 DEF Ahead
  <2> QED
    BY <1>6, <2>4, <2>5
<1>11. /\ Cardinality(Ahead') \in Nat /\ Cardinality(items \cap seen) \in Nat
       /\ Cardinality(Ahead) = Cardinality(Ahead') + Cardinality(items \cap seen)
  <2> DEFINE A == Ahead'
             B == items \cap seen
  <2>1. A \in SUBSET Ahead /\ B \in SUBSET Ahead /\ Ahead = A \cup B /\ A \cap B = {}
    BY <1>10
  <2> HIDE DEF A, B
  <2>2. IsFiniteSet(A) /\ IsFiniteSet(B)
    BY <2>1, WalkFacts, FS_Subset
  <2>3. Cardinality(A) \in Nat /\ Cardinality(B) \in Nat /\ Cardinality(A \cap B) = 0
    BY <2>1, <2>2, FS_CardinalityType, FS_EmptySet
  <2>4. Cardinality(Ahead) = Cardinality(A) + Cardinality(B) - Cardinality(A \cap B)
    BY <2>1, <2>2, FS_Union
  <2> QED
    BY <2>3, <2>4 DEF A, B
<1>12. repeated' + Cardinality(Ahead') <= entered'
  BY <1>1, <1>11, WalkFacts DEF PagesInv
<1>13. walk.page >= 1 /\ walk.limit \in Limit /\ Cardinality(Behind') <= left
  BY <1>1, <1>9, WalkFacts DEF PagesInv
<1> QED
  BY <1>1, <1>3, <1>12, <1>13 DEF PagesInv

\* The next page begins where this one ends, and without one nothing is left.
LEMMA CountKeepsInv ==
  ASSUME PagesInv, GetCount, PagesTypeOK'
  PROVE  PagesInv'
<1>1. walk.phase = "count" /\ UNCHANGED <<rows, seen, stayed, entered, left, repeated>>
  BY DEF GetCount
<1>2. /\ walk \in Walks /\ walk.page >= 1 /\ walk.limit \in Limit
      /\ walk.limit \in Nat /\ walk.limit >= 1
  BY <1>1, PageConstants, WalkFacts DEF PagesInv, PagesTypeOK
<1>3. Reach = Offset(walk.page, walk.limit) + walk.limit
  BY <1>1 DEF Reach
<1>4. walk.page \in Nat /\ Reach = walk.page * walk.limit
  BY <1>2, <1>3, WalkFacts DEF Offset
<1> DEFINE none == NoNextPage(walk.page, TotalPage(Cardinality(rows), walk.limit))
<1>5. CASE none
  <2>1. walk'.phase = "done" /\ walk'.page = walk.page /\ walk'.limit = walk.limit
    BY <1>2, <1>5 DEF GetCount, Walks
  <2>2. Reach' = Reach
    BY <1>3, <2>1 DEF Reach, Offset
  <2>3. Behind' = Behind /\ Ahead' = Ahead
    BY <1>1, <2>2 DEF Behind, Ahead
  <2>4. Cardinality(rows) <= Reach
    <3> DEFINE n == Cardinality(rows)
               t == TotalPage(n, walk.limit)
    <3>1. n \in Nat
      BY WalkFacts, FS_CardinalityType
    <3> HIDE DEF n
    <3>2. t \in Nat /\ \A p \in Nat : t <= p => n <= p * walk.limit
      BY <1>2, <3>1, PagesAreFull
    <3>3. walk.page = t \/ t = 0 \/ walk.page > t
      BY <1>5 DEF NoNextPage, n
    <3> HIDE DEF t
    <3>4. t <= walk.page
      BY <1>2, <1>4, <3>2, <3>3
    <3> QED
      BY <1>4, <3>2, <3>4 DEF n
  <2> QED
    BY <1>1, <1>2, <2>1, <2>2, <2>3, <2>4 DEF PagesInv
<1>6. CASE ~none
  <2>1. walk'.phase = "items" /\ walk'.page = walk.page + 1 /\ walk'.limit = walk.limit
    BY <1>2, <1>6 DEF GetCount, Walks
  <2>2. Reach' = Offset(walk.page + 1, walk.limit)
    BY <2>1 DEF Reach, Offset
  <2>3. Reach' = Reach
    BY <1>2, <1>4, <2>2 DEF Offset
  <2>4. Behind' = Behind /\ Ahead' = Ahead
    BY <1>1, <2>3 DEF Behind, Ahead
  <2> QED
    BY <1>1, <1>2, <1>4, <2>1, <2>4 DEF PagesInv
<1> QED
  BY <1>5, <1>6

LEMMA PagesStart == PagesInit => PagesInv
<1> SUFFICES ASSUME PagesInit PROVE PagesInv
  OBVIOUS
<1>1. PagesTypeOK
  <2>1. Cardinality(Row) \in Nat
    BY PageConstants, FS_CardinalityType
  <2> QED
    BY <2>1 DEF PagesInit, PagesTypeOK, Walks
<1>2. Ahead = {} /\ walk.phase = "idle"
  BY DEF PagesInit, Ahead
<1> QED
  BY <1>1, <1>2, FS_EmptySet DEF PagesInit, PagesInv

LEMMA PagesStep == PagesInv /\ [PagesNext]_pageVars => PagesInv'
<1> SUFFICES ASSUME PagesInv, [PagesNext]_pageVars PROVE PagesInv'
  OBVIOUS
<1>1. CASE UNCHANGED pageVars
  <2>1. UNCHANGED <<Behind, Ahead, Reach>>
    BY <1>1 DEF pageVars, Behind, Ahead, Reach, Offset
  <2> QED
    BY <1>1, <2>1 DEF pageVars, PagesInv, PagesTypeOK
<1>2. CASE PagesNext
  <2>1. PagesTypeOK'
    BY <1>2, WalkFacts, PagesKeepTypes DEF PagesInv
  <2> QED
    BY <1>2, <2>1, EnterKeepsInv, LeaveKeepsInv, StartKeepsInv, ItemsKeepInv, CountKeepsInv
    DEF PagesNext
<1> QED
  BY <1>1, <1>2

\* For all lists, limits and changes, a walk never asks for a page more than one
\* beyond the number of rows there may be: the bound in GetItems cuts off nothing.
THEOREM PagesTypes == PagesSpec => []PagesTypeOK
<1>1. PagesInv => PagesTypeOK
  BY DEF PagesInv
<1> QED
  BY <1>1, PagesStart, PagesStep, PTL DEF PagesSpec

\* For all lists, limits and changes, a walk misses at most one row for each row
\* that left the list.
THEOREM WalksMissLittle == PagesSpec => []MissedAtMostLeft
<1>1. PagesInv => MissedAtMostLeft
  <2> SUFFICES ASSUME PagesInv, walk.phase = "done"
               PROVE  Cardinality(stayed \ seen) <= left
    BY DEF MissedAtMostLeft
  <2>1. \A r \in rows : Position(rows, r) <= Reach
    <3> SUFFICES ASSUME NEW r \in rows PROVE Position(rows, r) <= Reach
      OBVIOUS
    <3>1. r \in Int
      BY WalkFacts
    <3>2. Cardinality(rows) <= Reach
      BY DEF PagesInv
    <3>3. Position(rows, r) \in Nat /\ Cardinality(rows) \in Nat /\ Position(rows, r) <= Cardinality(rows)
      BY <3>1, WalkFacts, PositionType
    <3> QED
      BY <3>2, <3>3, WalkFacts
  <2>2. stayed \ seen = Behind
    BY <2>1, WalkFacts DEF Behind
  <2> QED
    BY <2>2 DEF PagesInv
<1> QED
  BY <1>1, PagesStart, PagesStep, PTL DEF PagesSpec

\* And is given a row twice at most once for each row that entered it.
THEOREM WalksRepeatLittle == PagesSpec => []RepeatedAtMostEntered
<1>1. PagesInv => RepeatedAtMostEntered
  BY WalkFacts DEF PagesInv, RepeatedAtMostEntered
<1> QED
  BY <1>1, PagesStart, PagesStep, PTL DEF PagesSpec
=============================================================================
