--------------------------- MODULE BookingsProofs ---------------------------
(***************************************************************************)
(* The bookings of the leads component are a calendar, for any number of   *)
(* workers, jobs and callers and with every failure, as long as no two     *)
(* handlers claim the same days at the same time (DisciplinedSpec); and an *)
(* unfinished order is overlooked only if its pick-up request is removed.  *)
(***************************************************************************)
EXTENDS OrdersProofs

-----------------------------------------------------------------------------
(* The calendar *)

\* Bookings that do not overlap in the query's sense have no day in common.
LEMMA NoCommonDay ==
  ASSUME NEW s1 \in Int, NEW d1 \in Int, NEW s2 \in Int, NEW d2 \in Int, ~Overlap(s1, d1, s2, d2)
  PROVE  (s1 .. (s1 + d1 - 1)) \cap (s2 .. (s2 + d2 - 1)) = {}
BY DEF Overlap

\* The same booking before and after a step.
SameBooking(p) ==
  /\ orders'[p].fleet = orders[p].fleet
  /\ orders'[p].start = orders[p].start
  /\ orders'[p].duration = orders[p].duration

\* No order gets a booking or another one.
Shrink == \A p \in Order : Blocks(p)' => Blocks(p) /\ SameBooking(p)

\* Only the order o may lose its booking.
OnlyReleases(o) == \A p \in Order \ {o} : Blocks(p) => Blocks(p)'

\* Bookings of one fleet do not overlap in the query's sense, which goes further
\* than the calendar's: it counts the lengths that are no days as well.
Apart == \A p, q \in Order : p # q /\ Blocks(p) /\ Blocks(q) => ~Conflict(orders[p], orders[q])

\* A step of the calendar that keeps the bookings apart.
BookingStep == [Calendar!Next]_booked /\ (Apart => Apart')

\* A step that takes no booking is a release or no step of the calendar.
LEMMA ShrinkStep ==
  ASSUME Shrink, NEW o, OnlyReleases(o)
  PROVE  BookingStep
<1>0. Apart => Apart'
  BY DEF Shrink, SameBooking, Apart, Conflict
<1>1. CASE \A p \in Order : Blocks(p) => Blocks(p)'
  BY <1>0, <1>1 DEF Shrink, SameBooking, booked, Booking, BookingStep
<1>2. CASE ~\A p \in Order : Blocks(p) => Blocks(p)'
  <2>1. o \in Order /\ ~Blocks(o)'
    BY <1>2 DEF OnlyReleases
  <2>2. booked' = [booked EXCEPT ![o] = None]
    BY <2>1 DEF Shrink, OnlyReleases, SameBooking, booked, Booking
  <2> QED
    BY <1>0, <2>1, <2>2 DEF Calendar!Next, Calendar!Release, BookingStep
<1> QED
  BY <1>1, <1>2

\* A step that moves the booking of o only, to days no other order has, is a
\* step of the calendar.
LEMMA BookStep ==
  ASSUME OrdersInv, OrdersInv', NEW o \in Order,
         \A p \in Order \ {o} : (Blocks(p)' <=> Blocks(p)) /\ orders'[p] = orders[p],
         \A p \in Order \ {o} : Blocks(p) => ~Conflict(orders[p], orders'[o])
  PROVE  BookingStep
<1>0. Apart => Apart'
  <2> SUFFICES ASSUME Apart, NEW p \in Order, NEW q \in Order, p # q, Blocks(p)', Blocks(q)'
               PROVE  ~Conflict(orders'[p], orders'[q])
    BY DEF Apart
  <2>1. /\ orders'[p].start \in Int /\ orders'[p].duration \in Int
        /\ orders'[q].start \in Int /\ orders'[q].duration \in Int
    BY OrderConstants DEF OrdersInv, LeadsSaved, Blocks, OrderRow
  <2>2. CASE p # o /\ q # o
    BY <2>2 DEF Apart
  <2>3. CASE q = o
    BY <2>3
  <2>4. CASE p = o
    <3>1. ~Conflict(orders'[q], orders'[p])
      BY <2>4
    <3> QED
      BY <2>1, <3>1 DEF Conflict, Overlap
  <2> QED
    BY <2>2, <2>3, <2>4
<1>1. CASE Blocks(o)'
  <2>1. \A p \in Order : Blocks(p)' => orders'[p] \in OrderRow
    BY DEF OrdersInv, LeadsSaved, Blocks
  <2>2. Booking(o)' \in Calendar!Booking
    BY <1>1, <2>1 DEF Booking, Calendar!Booking, OrderRow
  <2>3. booked' = [booked EXCEPT ![o] = Booking(o)']
    BY <1>1 DEF booked, Booking
  <2>4. ASSUME NEW p \in Order \ {o}, booked[p] # None
        PROVE  ~Calendar!Clash(booked[p], Booking(o)')
    <3>1. Blocks(p) /\ Blocks(p)' /\ booked[p] = Booking(p)'
      BY <2>4 DEF booked, Booking
    <3>2. ~Conflict(orders'[p], orders'[o])
      BY <3>1
    <3>3. ~Calendar!Clash(Booking(p)', Booking(o)')
      <4>1. /\ orders'[o].start \in Int /\ orders'[o].duration \in Int
            /\ orders'[p].start \in Int /\ orders'[p].duration \in Int
        BY <1>1, <2>1, <3>1, OrderConstants DEF OrderRow
      <4> QED
        BY <3>2, <4>1, NoCommonDay DEF Conflict, Calendar!Clash, Calendar!Days, Booking
    <3> QED
      BY <3>1, <3>3
  <2> QED
    BY <1>0, <2>2, <2>3, <2>4 DEF Calendar!Next, Calendar!Book, BookingStep
<1>2. CASE ~Blocks(o)'
  <2>1. booked' = [booked EXCEPT ![o] = None]
    BY <1>2 DEF booked, Booking
  <2> QED
    BY <1>0, <2>1 DEF Calendar!Next, Calendar!Release, BookingStep
<1> QED
  BY <1>1, <1>2

-----------------------------------------------------------------------------
(* The invariant: what a handler claims is free *)

\* The days of h's DTO are held by no order but its own.
Free(h) == \A b \in Order \ {h.order} : Blocks(b) => ~Conflict(orders[b], h.dto)

ClaimSafe == \A w \in Worker : Claiming(w) => Free(handler[w])

\* A creation books what its DTO asks for, and has no number before the invoice.
Clean(h) ==
  /\ h.phase \in {"create", "insert"} =>
       /\ h.row.fleet = h.dto.fleet /\ h.row.start = h.dto.start
       /\ h.row.duration = h.dto.duration
  /\ h.phase = "create" => h.order = None

BookingInv ==
  /\ OrdersInv
  /\ NoRivalClaims
  /\ ClaimSafe
  /\ \A w \in Worker : Clean(handler[w])

\* A claim is held, from h to g: the same days for the same order.
Held(h, g) ==
  g.phase \in ClaimPhase =>
    h.phase \in ClaimPhase /\ g.dto = h.dto /\ (g.order = h.order \/ h.order = None)

\* The phases of a claim are those of Claiming.
LEMMA ClaimingPhase == \A w \in Worker : Claiming(w) <=> handler[w].phase \in ClaimPhase
BY DEF Claiming, ClaimPhase

\* A free period stays free when no booking is taken or moved.
LEMMA FreeStays ==
  ASSUME Shrink, NEW h, NEW g, Free(h), g.dto = h.dto, g.order = h.order \/ h.order = None
  PROVE  \A b \in Order \ {g.order} : Blocks(b)' => ~Conflict(orders'[b], g.dto)
<1>1. None \notin Order
  BY SurveyConstants
<1> QED
  BY <1>1 DEF Shrink, SameBooking, Free, Conflict

\* A step that takes no booking keeps the invariant if each handler holds its
\* claim or has just found its days free.
LEMMA QuietStep ==
  ASSUME BookingInv, OrdersInv', NoRivalClaims', Shrink,
         \A w \in Worker : Clean(handler'[w]),
         \A w \in Worker : \/ Held(handler[w], handler'[w])
                           \/ Free(handler'[w])
  PROVE  BookingInv'
<1>1. ASSUME NEW w \in Worker, handler'[w].phase \in ClaimPhase
      PROVE  \A b \in Order \ {handler'[w].order} :
               Blocks(b)' => ~Conflict(orders'[b], handler'[w].dto)
  <2>1. CASE Held(handler[w], handler'[w])
    BY <1>1, <2>1, FreeStays, ClaimingPhase DEF Held, BookingInv, ClaimSafe
  <2>2. CASE Free(handler'[w])
    BY <2>2, FreeStays
  <2> QED
    BY <2>1, <2>2
<1>2. ClaimSafe'
  BY <1>1 DEF ClaimSafe, Claiming, ClaimPhase, Free
<1> QED
  BY <1>2 DEF BookingInv

\* The step of a handler that books o for the days it claimed.
LEMMA LoudStep ==
  ASSUME BookingInv, OrdersInv', NoRivalClaims',
         NEW w \in Worker, NEW o \in Order, Claiming(w), handler[w].order \in {o, None},
         \A p \in Order \ {o} : (Blocks(p)' <=> Blocks(p)) /\ orders'[p] = orders[p],
         /\ orders'[o].fleet = handler[w].dto.fleet /\ orders'[o].start = handler[w].dto.start
         /\ orders'[o].duration = handler[w].dto.duration,
         handler'[w].phase \in {"idle", "create_ledger"},
         \A v \in Worker \ {w} : handler'[v] = handler[v]
  PROVE  BookingInv' /\ BookingStep
<1>1. \A x : Conflict(x, orders'[o]) <=> Conflict(x, handler[w].dto)
  BY DEF Conflict
<1>2. \A x : Conflict(orders'[o], x) <=> Conflict(handler[w].dto, x)
  BY DEF Conflict
<1>3. None \notin Order
  BY SurveyConstants
<1>4. BookingStep
  <2>1. \A p \in Order \ {o} : Blocks(p) => ~Conflict(orders[p], orders'[o])
    BY <1>1, <1>3 DEF BookingInv, ClaimSafe, Free
  <2> QED
    BY <2>1, BookStep DEF BookingInv
<1>5. ASSUME NEW v \in Worker, handler'[v].phase \in ClaimPhase,
             NEW b \in Order \ {handler'[v].order}, Blocks(b)'
      PROVE  ~Conflict(orders'[b], handler'[v].dto)
  <2>1. v # w /\ handler'[v] = handler[v] /\ Claiming(v)
    BY <1>5, ClaimingPhase DEF ClaimPhase
  <2>2. CASE b = o
    <3>1. handler[w].order # handler[v].order \/ handler[w].order = None
      BY <1>5, <2>1, <2>2
    <3>2. ~Conflict(handler[w].dto, handler[v].dto)
      BY <2>1, <3>1 DEF BookingInv, NoRivalClaims
    <3> QED
      BY <1>2, <2>1, <2>2, <3>2
  <2>3. CASE b # o
    BY <1>5, <2>1, <2>3 DEF BookingInv, ClaimSafe, Free
  <2> QED
    BY <2>2, <2>3
<1>6. ClaimSafe'
  BY <1>5 DEF ClaimSafe, Claiming, ClaimPhase, Free
<1>7. \A v \in Worker : Clean(handler'[v])
  BY DEF BookingInv, Clean
<1> QED
  BY <1>4, <1>6, <1>7 DEF BookingInv

\* A handler moves, the bookings do not.
LEMMA StillStep ==
  ASSUME BookingInv, OrdersInv', NoRivalClaims', UNCHANGED <<leads, surveys, orders>>,
         NEW w \in Worker, NEW g, handler' = [handler EXCEPT ![w] = g],
         Clean(g), Held(handler[w], g) \/ Free(g)
  PROVE  BookingInv' /\ BookingStep
<1>1. \A p \in Order : (Blocks(p)' <=> Blocks(p)) /\ SameBooking(p)
  BY DEF Blocks, Live, SameBooking
<1>2. Shrink /\ OnlyReleases(None)
  BY <1>1 DEF Shrink, OnlyReleases
<1>3. ASSUME NEW v \in Worker
      PROVE  Clean(handler'[v]) /\ (Held(handler[v], handler'[v]) \/ Free(handler'[v]))
  <2>1. CASE v = w
    BY <2>1 DEF BookingInv, OrdersInv
  <2>2. CASE v # w
    BY <2>2 DEF BookingInv, OrdersInv, Held
  <2> QED
    BY <2>1, <2>2
<1> QED
  BY <1>2, <1>3, QuietStep, ShrinkStep

\* A handler that no longer claims, or goes on with its claim.
LEMMA ReturnStill ==
  ASSUME BookingInv, OrdersInv', NoRivalClaims', UNCHANGED <<leads, surveys, orders>>,
         NEW w \in Worker, Return(w)
  PROVE  BookingInv' /\ BookingStep
BY StillStep, IdleTypes DEF Return, Become, Clean, Held, ClaimPhase

\* The next phase of a claim, or a phase outside of claims.
LEMMA ProceedStill ==
  ASSUME BookingInv, OrdersInv', NoRivalClaims', UNCHANGED <<leads, surveys, orders>>,
         NEW w \in Worker, NEW phase, Proceed(w, phase), phase \notin {"create", "insert"},
         phase \in ClaimPhase => Claiming(w)
  PROVE  BookingInv' /\ BookingStep
<1> DEFINE g == [handler[w] EXCEPT !.phase = phase]
<1>1. g.phase = phase /\ g.dto = handler[w].dto /\ g.order = handler[w].order
  BY DEF BookingInv, OrdersInv, Handler
<1>2. handler' = [handler EXCEPT ![w] = g]
  BY DEF Proceed
<1> HIDE DEF g
<1>3. Clean(g) /\ Held(handler[w], g)
  BY <1>1, ClaimingPhase DEF Clean, Held
<1> QED
  BY <1>2, <1>3, StillStep

\* The first steps: a creation finds its days free.
LEMMA StartBookings ==
  ASSUME BookingInv, OrdersInv', NoRivalClaims', NEW w \in Worker, HandlerStarts(w)
  PROVE  BookingInv' /\ BookingStep
<1>1. ASSUME NEW dto \in OrderDto, NEW admin \in BOOLEAN, CreateOrder(w, dto, admin)
      PROVE  BookingInv' /\ BookingStep
  <2> DEFINE row == NewRow(dto, IF admin THEN "accepted" ELSE "pending")
             g == [IdleHandler EXCEPT !.phase = IF admin THEN "create" ELSE "insert",
                                      !.dto = dto, !.row = row]
  <2>1. row.fleet = dto.fleet /\ row.start = dto.start /\ row.duration = dto.duration
    BY DEF NewRow
  <2>2. g.dto = dto /\ g.row = row /\ g.order = None
    BY DEF IdleHandler
  <2>3. handler' = [handler EXCEPT ![w] = g] /\ UNCHANGED <<leads, surveys, orders>>
    BY <1>1 DEF CreateOrder, Become, surveyVars
  <2>4. Available(None, dto)
    BY <1>1 DEF CreateOrder
  <2> HIDE DEF row, g
  <2>5. Clean(g) /\ Free(g)
    BY <2>1, <2>2, <2>4 DEF Clean, Free, Available, Conflict
  <2> QED
    BY <2>3, <2>5, StillStep
<1>2. ASSUME NEW o \in Order,
             \/ \E accept \in BOOLEAN : UpdateRead(w, o, accept)
             \/ RejectRead(w, o) \/ RemoveRead(w, o)
      PROVE  BookingInv' /\ BookingStep
  <2> DEFINE updating(accept) ==
               [IdleHandler EXCEPT !.phase = "update", !.order = o, !.accept = accept,
                                   !.row = orders[o]]
             rejecting == [IdleHandler EXCEPT !.phase = "reject", !.order = o]
             removing == [IdleHandler EXCEPT !.phase = "remove", !.order = o, !.row = orders[o]]
  <2>a. /\ \A accept \in BOOLEAN : updating(accept).phase = "update"
        /\ rejecting.phase = "reject" /\ removing.phase = "remove"
    BY DEF IdleHandler
  <2>b. \/ \E accept \in BOOLEAN : handler' = [handler EXCEPT ![w] = updating(accept)]
        \/ handler' = [handler EXCEPT ![w] = rejecting]
        \/ handler' = [handler EXCEPT ![w] = removing]
    BY <1>2 DEF UpdateRead, RejectRead, RemoveRead, Become
  <2> HIDE DEF updating, rejecting, removing
  <2>1. PICK g : handler' = [handler EXCEPT ![w] = g] /\ g.phase \in {"update", "reject", "remove"}
    BY <2>a, <2>b
  <2>2. UNCHANGED <<leads, surveys, orders>>
    BY <1>2 DEF UpdateRead, RejectRead, RemoveRead, surveyVars
  <2>3. Clean(g) /\ Held(handler[w], g)
    BY <2>1 DEF Clean, Held, ClaimPhase
  <2> QED
    BY <2>1, <2>2, <2>3, StillStep
<1> QED
  BY <1>1, <1>2 DEF HandlerStarts

\* createOrder: the claim of a creation lasts until its order is saved.
LEMMA CreateBookings ==
  ASSUME BookingInv, OrdersInv', NoRivalClaims', NEW w \in Worker,
         CreateInvoice(w) \/ CreateInvoiceFails(w) \/ InsertOrder(w) \/ CreateLedger(w)
  PROVE  BookingInv' /\ BookingStep
<1> DEFINE h0 == handler[w]
<1>0. h0 \in Handler /\ Fits(h0, orders, invoices) /\ Clean(h0)
  BY DEF BookingInv, OrdersInv
<1>1. CASE CreateInvoice(w)
  <2>1. PICK o \in Order, i \in Invoice :
          handler' = [handler EXCEPT ![w] =
                        [h0 EXCEPT !.phase = "insert", !.order = o, !.row.external = i]]
    BY <1>1 DEF CreateInvoice, Become
  <2> DEFINE g == [h0 EXCEPT !.phase = "insert", !.order = o, !.row.external = i]
  <2>2. h0.phase = "create" /\ h0.row \in OrderRow
    BY <1>0, <1>1 DEF CreateInvoice, Fits
  <2>3. /\ g.phase = "insert" /\ g.dto = h0.dto
        /\ g.row.fleet = h0.row.fleet /\ g.row.start = h0.row.start
        /\ g.row.duration = h0.row.duration
    BY <1>0, <2>2 DEF Handler, OrderRow
  <2> HIDE DEF g
  <2>4. Clean(g) /\ Held(h0, g)
    BY <1>0, <2>2, <2>3 DEF Clean, Held, ClaimPhase
  <2>5. UNCHANGED <<leads, surveys, orders>>
    BY <1>1 DEF CreateInvoice, surveyVars
  <2> QED
    BY <2>1, <2>4, <2>5, StillStep DEF g
<1>2. CASE CreateInvoiceFails(w)
  <2>1. UNCHANGED <<leads, surveys, orders>>
    BY <1>2 DEF CreateInvoiceFails, surveyVars
  <2>2. CASE Return(w)
    BY <2>1, <2>2, ReturnStill
  <2>3. CASE handler' = [handler EXCEPT ![w].retry = @ + 1]
    <3> DEFINE g == [h0 EXCEPT !.retry = @ + 1]
    <3>1. g.phase = h0.phase /\ g.dto = h0.dto /\ g.row = h0.row /\ g.order = h0.order
      BY <1>0 DEF Handler
    <3>2. handler' = [handler EXCEPT ![w] = g]
      BY <2>3
    <3> HIDE DEF g
    <3>3. Clean(g) /\ Held(h0, g)
      BY <1>0, <3>1 DEF Clean, Held
    <3> QED
      BY <2>1, <3>2, <3>3, StillStep
  <2> QED
    BY <1>2, <2>2, <2>3 DEF CreateInvoiceFails
<1>3. CASE InsertOrder(w)
  <2>1. PICK o \in Order, d \in RequestDriver, e \in RequestDriver :
          /\ SavedNumber(w, o)
          /\ InsertRequests(o, d, e)
          /\ leads' = leads \cup {o}
          /\ orders' = [orders EXCEPT ![o] = h0.row]
          /\ handler' = [handler EXCEPT ![w] = [h0 EXCEPT !.phase = "create_ledger", !.order = o]]
    BY <1>3 DEF InsertOrder, Become
  <2>2. h0.phase = "insert" /\ h0.order \in {o, None} /\ Claiming(w)
    BY <1>3, <2>1 DEF InsertOrder, SavedNumber, Claiming
  <2>3. \A p \in Order \ {o} : (Blocks(p)' <=> Blocks(p)) /\ orders'[p] = orders[p]
    <3>1. PICK r1 \in Unused, r2 \in Unused :
            surveys' = [surveys EXCEPT ![r1] = RequestRow(o, "delivery", d),
                                       ![r2] = RequestRow(o, "pick_up", e)]
      BY <2>1 DEF InsertRequests
    <3>2. RequestRow(o, "delivery", d).order = o /\ RequestRow(o, "pick_up", e).order = o
      BY DEF RequestRow, AbsentRow
    <3>3. /\ r1 \in Survey /\ r2 \in Survey /\ ~Live(r1) /\ ~Live(r2)
          /\ surveys'[r1].order = o /\ surveys'[r2].order = o
          /\ \A s \in Survey \ {r1, r2} : surveys'[s] = surveys[s]
      BY <3>1, <3>2 DEF Unused, Live, BookingInv, OrdersInv, SurveysInv, SurveysTypeOK
    <3>4. \A p \in Order \ {o} : orders'[p] = orders[p] /\ (p \in leads' <=> p \in leads)
      BY <2>1 DEF BookingInv, OrdersInv, TablesTyped
    <3> QED
      BY <3>3, <3>4 DEF Blocks, Live
  <2>4. /\ orders'[o].fleet = h0.dto.fleet /\ orders'[o].start = h0.dto.start
        /\ orders'[o].duration = h0.dto.duration
    BY <1>0, <2>1, <2>2 DEF Clean, BookingInv, OrdersInv, TablesTyped
  <2>5. handler'[w].phase = "create_ledger" /\ \A v \in Worker \ {w} : handler'[v] = handler[v]
    BY <1>0, <2>1 DEF BookingInv, OrdersInv, Handler
  <2> QED
    BY <2>2, <2>3, <2>4, <2>5, LoudStep
<1>4. CASE CreateLedger(w)
  BY <1>4, ReturnStill DEF CreateLedger, surveyVars
<1> QED
  BY <1>1, <1>2, <1>3, <1>4

\* update and accept: found free, held over the calls to the gateway, saved.
LEMMA UpdateBookings ==
  ASSUME BookingInv, OrdersInv', NoRivalClaims', NEW w \in Worker,
         \/ \E dto \in OrderDto : UpdateCheck(w, dto)
         \/ UpdateDeleteInvoice(w) \/ UpdateNewInvoice(w) \/ UpdateInvoice(w)
         \/ UpdateInvoiceGone(w) \/ UpdateLogStatus(w) \/ UpdateLedger(w) \/ UpdateSave(w)
  PROVE  BookingInv' /\ BookingStep
<1> DEFINE h0 == handler[w]
<1>0. h0 \in Handler /\ Fits(h0, orders, invoices)
  BY DEF BookingInv, OrdersInv
<1>1. ASSUME NEW dto \in OrderDto, UpdateCheck(w, dto)
      PROVE  BookingInv' /\ BookingStep
  <2> DEFINE next == AfterCheck(h0.row, dto, h0.accept)
             g == [h0 EXCEPT !.phase = next, !.dto = dto]
  <2>1. UNCHANGED <<leads, surveys, orders>>
    BY <1>1 DEF UpdateCheck, surveyVars
  <2>2. CASE Return(w)
    BY <2>1, <2>2, ReturnStill
  <2>3. CASE Available(h0.order, dto) /\ handler' = [handler EXCEPT ![w] = g]
    <3>1. next \notin {"create", "insert"}
      BY DEF AfterCheck, AfterInvoice
    <3> HIDE DEF next
    <3>2. g.phase = next /\ g.dto = dto /\ g.order = h0.order
      BY <1>0 DEF Handler
    <3> HIDE DEF g
    <3>3. Clean(g) /\ Free(g)
      BY <2>3, <3>1, <3>2 DEF Clean, Free, Available, Conflict
    <3> QED
      BY <2>1, <2>3, <3>3, StillStep
  <2> QED
    BY <1>1, <2>2, <2>3 DEF UpdateCheck, Become
<1>2. CASE UpdateDeleteInvoice(w)
  BY <1>2, ProceedStill DEF UpdateDeleteInvoice, surveyVars, Claiming
<1>3. CASE UpdateNewInvoice(w)
  <2>1. PICK i \in Invoice :
          handler' = [handler EXCEPT ![w] = [h0 EXCEPT !.phase = AfterInvoice(h0.accept),
                                                       !.row.external = i]]
    BY <1>3 DEF UpdateNewInvoice, Become
  <2> DEFINE phase == AfterInvoice(h0.accept)
             g == [h0 EXCEPT !.phase = phase, !.row.external = i]
  <2>2. phase \in {"log_status", "update_ledger"} /\ h0.phase = "new_invoice"
    BY <1>3 DEF AfterInvoice, UpdateNewInvoice
  <2> HIDE DEF phase
  <2>3. g.phase = phase /\ g.dto = h0.dto /\ g.order = h0.order
    BY <1>0 DEF Handler
  <2>4. handler' = [handler EXCEPT ![w] = g] /\ UNCHANGED <<leads, surveys, orders>>
    BY <1>3, <2>1 DEF UpdateNewInvoice, surveyVars, phase
  <2> HIDE DEF g
  <2>5. Clean(g) /\ Held(h0, g)
    BY <2>2, <2>3 DEF Clean, Held, ClaimPhase
  <2> QED
    BY <2>4, <2>5, StillStep
<1>4. CASE UpdateInvoice(w)
  BY <1>4, ProceedStill DEF UpdateInvoice, AfterInvoice, surveyVars, Claiming
<1>5. CASE UpdateInvoiceGone(w)
  BY <1>5, ReturnStill DEF UpdateInvoiceGone, surveyVars
<1>6. CASE UpdateLogStatus(w)
  <2> DEFINE g == [h0 EXCEPT !.phase = "update_ledger", !.row.status = "accepted"]
  <2>1. g.phase = "update_ledger" /\ g.dto = h0.dto /\ g.order = h0.order
    BY <1>0 DEF Handler
  <2>2. /\ handler' = [handler EXCEPT ![w] = g] /\ UNCHANGED <<leads, surveys, orders>>
        /\ h0.phase = "log_status"
    BY <1>6 DEF UpdateLogStatus, Become, surveyVars
  <2> HIDE DEF g
  <2>3. Clean(g) /\ Held(h0, g)
    BY <2>1, <2>2 DEF Clean, Held, ClaimPhase
  <2> QED
    BY <2>2, <2>3, StillStep
<1>7. CASE UpdateLedger(w)
  BY <1>7, ProceedStill DEF UpdateLedger, surveyVars, Claiming
<1>8. CASE UpdateSave(w)
  <2>1. /\ h0.order \in Order /\ h0.row \in OrderRow /\ h0.phase = "save" /\ Claiming(w)
    BY <1>0, <1>8 DEF UpdateSave, Fits, Claiming
  <2>2. /\ orders' = [orders EXCEPT ![h0.order] = WithDto(h0.row, h0.dto)]
        /\ leads' = leads /\ surveys' = surveys
    BY <1>8 DEF UpdateSave, Saved, surveyVars
  <2>3. \A p \in Order \ {h0.order} : (Blocks(p)' <=> Blocks(p)) /\ orders'[p] = orders[p]
    <3>1. \A p \in Order \ {h0.order} : orders'[p] = orders[p]
      BY <2>2 DEF BookingInv, OrdersInv, TablesTyped
    <3> QED
      BY <2>2, <3>1 DEF Blocks, Live
  <2>4. /\ orders'[h0.order].fleet = h0.dto.fleet /\ orders'[h0.order].start = h0.dto.start
        /\ orders'[h0.order].duration = h0.dto.duration
    <3>1. orders'[h0.order] = WithDto(h0.row, h0.dto)
      BY <2>1, <2>2 DEF BookingInv, OrdersInv, TablesTyped
    <3> QED
      BY <2>1, <3>1 DEF WithDto, OrderRow
  <2>5. handler'[w].phase = "idle" /\ \A v \in Worker \ {w} : handler'[v] = handler[v]
    BY <1>8, IdleTypes DEF UpdateSave, Return, Become, BookingInv, OrdersInv
  <2> QED
    BY <2>1, <2>3, <2>4, <2>5, LoudStep
<1> QED
  BY <1>1, <1>2, <1>3, <1>4, <1>5, <1>6, <1>7, <1>8

\* A handler outside of a claim gives a booking back.
LEMMA ReleaseStep ==
  ASSUME BookingInv, OrdersInv', NoRivalClaims', Shrink,
         NEW w \in Worker, NEW o, OnlyReleases(o),
         NEW phase, Proceed(w, phase), phase \notin ClaimPhase
  PROVE  BookingInv' /\ BookingStep
<1>1. \A v \in Worker : handler'[v] = IF v = w THEN [handler[w] EXCEPT !.phase = phase]
                                              ELSE handler[v]
  BY DEF Proceed, BookingInv, OrdersInv
<1>2. handler'[w].phase = phase
  BY <1>1 DEF BookingInv, OrdersInv, Handler
<1>3. \A v \in Worker : Clean(handler'[v]) /\ Held(handler[v], handler'[v])
  BY <1>1, <1>2 DEF BookingInv, Clean, Held, ClaimPhase
<1> QED
  BY <1>3, QuietStep, ShrinkStep

\* reject
LEMMA RejectBookings ==
  ASSUME BookingInv, OrdersInv', NoRivalClaims', NEW w \in Worker, RejectWrite(w) \/ RejectLog(w)
  PROVE  BookingInv' /\ BookingStep
<1>1. CASE RejectWrite(w)
  <2>1. PICK o \in Order : o = handler[w].order /\ orders[o] \in OrderRow
    BY <1>1 DEF RejectWrite, BookingInv, OrdersInv, Fits
  <2>2. /\ leads' = leads /\ surveys' = surveys /\ orders'[o].status = "rejected"
        /\ \A p \in Order \ {o} : orders'[p] = orders[p]
    BY <1>1, <2>1 DEF RejectWrite, surveyVars, BookingInv, OrdersInv, TablesTyped, OrderRow
  <2>3. \A p \in Order \ {o} : (Blocks(p)' <=> Blocks(p)) /\ SameBooking(p)
    BY <2>2 DEF Blocks, Live, SameBooking
  <2>4. ~Blocks(o)'
    BY <2>2 DEF Blocks
  <2>5. Shrink /\ OnlyReleases(o)
    BY <2>3, <2>4 DEF Shrink, OnlyReleases
  <2> QED
    BY <1>1, <2>5, ReleaseStep DEF RejectWrite, ClaimPhase
<1>2. CASE RejectLog(w)
  BY <1>2, ReturnStill DEF RejectLog, surveyVars
<1> QED
  BY <1>1, <1>2

\* remove
LEMMA RemoveBookings ==
  ASSUME BookingInv, OrdersInv', NoRivalClaims', NEW w \in Worker,
         \/ RemoveGetInvoice(w) \/ RemoveInvoice(w) \/ RemoveOrder(w)
         \/ RemoveRequests(w) \/ RemoveLedger(w)
  PROVE  BookingInv' /\ BookingStep
<1> DEFINE o == handler[w].order
<1>1. CASE RemoveGetInvoice(w)
  <2>1. UNCHANGED <<leads, surveys, orders>>
    BY <1>1 DEF RemoveGetInvoice, surveyVars
  <2>2. \/ Return(w)
        \/ \E phase \in {"remove_invoice", "remove_order"} : Proceed(w, phase)
    BY <1>1 DEF RemoveGetInvoice
  <2> QED
    BY <2>1, <2>2, ReturnStill, ProceedStill DEF ClaimPhase
<1>2. CASE RemoveInvoice(w)
  BY <1>2, ProceedStill DEF RemoveInvoice, surveyVars, ClaimPhase
<1>3. CASE RemoveOrder(w)
  <2>1. leads' = leads \ {o} /\ surveys' = surveys /\ orders' = orders
    BY <1>3 DEF RemoveOrder
  <2> HIDE DEF o
  <2>2. Shrink /\ OnlyReleases(o)
    BY <2>1 DEF Shrink, OnlyReleases, SameBooking, Blocks, Live
  <2> QED
    BY <1>3, <2>2, ReleaseStep DEF RemoveOrder, ClaimPhase
<1>4. CASE RemoveRequests(w)
  <2>1. leads' = leads /\ surveys' = SoftDeleteRequests(o) /\ orders' = orders
    BY <1>4 DEF RemoveRequests, RequestsRemoved
  <2> HIDE DEF o
  <2>2. \A s \in Survey :
          /\ surveys[s].order # o => surveys'[s] = surveys[s]
          /\ surveys'[s].state = "live" => surveys'[s] = surveys[s]
    <3>1. \A s \in Survey : [surveys[s] EXCEPT !.state = "deleted"].state = "deleted"
      BY DEF BookingInv, OrdersInv, SurveysInv, SurveysTypeOK, SurveyRow
    <3> QED
      BY <2>1, <3>1 DEF SoftDeleteRequests
  <2>3. Shrink /\ OnlyReleases(o)
    BY <2>1, <2>2 DEF Shrink, OnlyReleases, SameBooking, Blocks, Live
  <2> QED
    BY <1>4, <2>3, ReleaseStep DEF RemoveRequests, ClaimPhase
<1>5. CASE RemoveLedger(w)
  BY <1>5, ReturnStill DEF RemoveLedger, surveyVars
<1> QED
  BY <1>1, <1>2, <1>3, <1>4, <1>5

\* Jobs, the gateway and lost calls move no handler and no booking.
LEMMA OutsideBookings ==
  ASSUME BookingInv, OrdersInv', NoRivalClaims',
         \/ \E j \in Job : \/ \E cb \in callbacks : CallbackFetch(j, cb)
                           \/ JobGoesOn(j) \/ CallbackFails(j)
         \/ \E cb \in callbacks : CallbackLost(cb)
         \/ \E i \in Invoice, status \in PgMoves : PgStatusChange(i, status)
  PROVE  BookingInv' /\ BookingStep
<1>1. leads' = leads /\ surveys' = surveys /\ handler' = handler
  BY DEF CallbackFetch, JobGoesOn, CallbackLookup, CallbackApply, CallbackLedger, CallbackFails,
         CallbackLost, PgStatusChange, surveyVars
<1>2. \A p \in Order : p \in leads => SameBooking(p) /\ orders'[p].status = orders[p].status
  <2>1. CASE orders' = orders
    BY <2>1 DEF SameBooking
  <2>2. ASSUME NEW j \in Job, CallbackApply(j)
        PROVE  \A p \in Order : p \in leads =>
                 SameBooking(p) /\ orders'[p].status = orders[p].status
    <3>1. job[j].order \in Order /\ orders[job[j].order] \in OrderRow
      BY <2>2 DEF CallbackApply, BookingInv, OrdersInv, JobFits
    <3>2. PICK payment : \/ orders' = [orders EXCEPT ![job[j].order].payment = payment]
                         \/ orders' = orders
      BY <2>2 DEF CallbackApply
    <3> QED
      BY <3>1, <3>2 DEF SameBooking, BookingInv, OrdersInv, TablesTyped, LeadsSaved, OrderRow
  <2> QED
    BY <2>1, <2>2 DEF CallbackFetch, JobGoesOn, CallbackLookup, CallbackLedger, CallbackFails,
                      CallbackLost, PgStatusChange
<1>3. Shrink /\ OnlyReleases(None)
  BY <1>1, <1>2 DEF Shrink, OnlyReleases, Blocks, Live
<1>4. \A v \in Worker : Clean(handler'[v]) /\ Held(handler[v], handler'[v])
  BY <1>1 DEF BookingInv, Held
<1> QED
  BY <1>3, <1>4, QuietStep, ShrinkStep

\* The survey a step of the surveys controller touches.
Touched(s) ==
  /\ \A r \in Survey \ {s} : surveys'[r] = surveys[r]
  /\ \/ ~Live(s) /\ surveys'[s].order = None
     \/ /\ surveys'[s].order = surveys[s].order
        /\ surveys'[s].state = "live" =>
             /\ Live(s) /\ surveys'[s].type = surveys[s].type
             /\ surveys[s].status = "done" => surveys'[s].status = "done"

\* A step of the surveys controller touches one survey at most.
LEMMA ControllerTouches ==
  ASSUME SurveysInv, ControllerNext, SurveysSettled, Survey # {}
  PROVE  \E s \in Survey : Touched(s)
<1> USE DEF SurveysInv, SurveysTypeOK
<1>1. CASE surveys' = surveys
  BY <1>1 DEF Touched, Live
<1>2. ASSUME NEW c \in Caller, NEW type \in SurveyType, NEW d \in Driver, NEW t \in Start,
             SurveyCreate(c, type, d, t)
      PROVE  \E s \in Survey : Touched(s)
  <2> DEFINE row == [AbsentRow EXCEPT !.state = "live", !.type = type, !.driver = d, !.start = t]
  <2>1. PICK s \in Survey : surveys[s].state = "absent" /\ surveys' = [surveys EXCEPT ![s] = row]
    BY <1>2 DEF SurveyCreate
  <2>2. row.order = None
    BY DEF AbsentRow
  <2> HIDE DEF row
  <2> QED
    BY <2>1, <2>2 DEF Touched, Live
<1>3. ASSUME NEW c \in Caller, SurveyUpdateWrite(c)
      PROVE  \E s \in Survey : Touched(s)
  <2>1. PICK s \in Survey : s = call[c].survey
    BY <1>3 DEF SurveyUpdateWrite, CallsFit
  <2>2. surveys' = [surveys EXCEPT ![s] = Updated(surveys[s], call[c].dto)]
    BY <1>3, <2>1 DEF SurveyUpdateWrite
  <2>3. ASSUME NEW row \in SurveyRow, NEW dto
        PROVE  Updated(row, dto).state = row.state /\ Updated(row, dto).order = row.order
    BY DEF Updated, SurveyRow
  <2>4. Touched(s)
    BY <2>2, <2>3 DEF Touched, Live, SurveysSettled
  <2> QED
    BY <2>4
<1>4. ASSUME NEW c \in Caller, SurveyLogStatus(c)
      PROVE  \E s \in Survey : Touched(s)
  <2>1. PICK s \in Survey : s = call[c].survey
    BY <1>4 DEF SurveyLogStatus, CallsFit
  <2>2. PICK status : surveys' = [surveys EXCEPT ![s].status = status]
    BY <1>4, <2>1 DEF SurveyLogStatus
  <2>3. Touched(s)
    BY <2>2 DEF Touched, Live, SurveysSettled, SurveyRow
  <2> QED
    BY <2>3
<1>5. ASSUME NEW s \in Survey, SurveyRemove(s)
      PROVE  \E r \in Survey : Touched(r)
  BY <1>5 DEF SurveyRemove, Touched, Live, SurveyRow
<1> QED
  BY <1>1, <1>2, <1>3, <1>4, <1>5
  DEF ControllerNext, HandlerStep, SurveyUpdate, SurveyLog, SurveyCreateNotify, SurveyLogInsert,
      SurveyCallFails

\* A survey step gives at most one booking back and takes none.
LEMMA SurveyBookings ==
  ASSUME BookingInv, OrdersInv', NoRivalClaims', SurveyStep, SurveysSettled
  PROVE  BookingInv' /\ BookingStep
<1>1. leads' = leads
  BY DEF SurveyStep, ControllerNext, HandlerStep, SurveyCreate, SurveyUpdate, SurveyLog,
         SurveyCreateNotify, SurveyUpdateWrite, SurveyLogStatus, SurveyLogInsert, SurveyCallFails,
         SurveyRemove
<1>2. orders' = orders /\ handler' = handler
  BY DEF SurveyStep, orderVars
<1>3. None \notin Order
  BY SurveyConstants
<1>4. \E o : Shrink /\ OnlyReleases(o)
  <2>1. CASE Survey = {}
    BY <1>1, <1>2, <2>1 DEF Shrink, OnlyReleases, SameBooking, Blocks
  <2>2. CASE Survey # {}
    <3>1. PICK s \in Survey : Touched(s)
      BY <2>2, ControllerTouches DEF SurveyStep, BookingInv, OrdersInv
    <3>2. PICK o : o = surveys[s].order
      OBVIOUS
    <3>3. \A p \in Order : Blocks(p)' => Blocks(p)
      BY <1>1, <1>2, <1>3, <3>1 DEF Touched, Blocks, Live
    <3>4. \A p \in Order \ {o} : Blocks(p) => Blocks(p)'
      BY <1>1, <1>2, <3>1, <3>2 DEF Touched, Blocks, Live
    <3> QED
      BY <1>2, <3>3, <3>4 DEF Shrink, OnlyReleases, SameBooking
  <2> QED
    BY <2>1, <2>2
<1>5. \A v \in Worker : Clean(handler'[v]) /\ Held(handler[v], handler'[v])
  BY <1>2 DEF BookingInv, Held
<1> QED
  BY <1>4, <1>5, QuietStep, ShrinkStep

-----------------------------------------------------------------------------
(* The theorems *)

\* Every disciplined step keeps the invariant and is a step of the calendar.
LEMMA DisciplinedStep ==
  ASSUME BookingInv, [DisciplinedNext]_vars
  PROVE  BookingInv' /\ BookingStep
<1>1. CASE UNCHANGED vars
  <2>1. OrdersInv'
    BY <1>1, OrdersInvStep DEF BookingInv
  <2>2. UNCHANGED <<leads, surveys, orders, handler>>
    BY <1>1 DEF vars, surveyVars, orderVars
  <2>3. Shrink /\ OnlyReleases(None)
    BY <2>2 DEF Shrink, OnlyReleases, SameBooking, Blocks, Live
  <2>4. NoRivalClaims' /\ \A v \in Worker : Clean(handler'[v]) /\ Held(handler[v], handler'[v])
    BY <2>2 DEF BookingInv, NoRivalClaims, Claiming, Held
  <2> QED
    BY <2>1, <2>3, <2>4, QuietStep, ShrinkStep
<1>2. CASE DisciplinedNext
  <2>1. OrdersInv' /\ NoRivalClaims' /\ SurveysSettled /\ Next
    BY <1>2, OrdersInvStep DEF DisciplinedNext, BookingInv
  <2>2. ASSUME NEW w \in Worker, HandlerGoesOn(w)
        PROVE  BookingInv' /\ BookingStep
    BY <2>1, <2>2, CreateBookings, UpdateBookings, RejectBookings, RemoveBookings DEF HandlerGoesOn
  <2>3. ASSUME NEW w \in Worker, HandlerFails(w)
        PROVE  BookingInv' /\ BookingStep
    BY <2>1, <2>3, ReturnStill DEF HandlerFails, surveyVars
  <2>4. CASE SurveyStep
    BY <2>1, <2>4, SurveyBookings
  <2> QED
    BY <2>1, <2>2, <2>3, <2>4, StartBookings, CreateBookings, OutsideBookings DEF Next
<1> QED
  BY <1>1, <1>2

\* The invariant holds of the empty tables, which are an empty calendar.
LEMMA DisciplinedInit ==
  ASSUME Init
  PROVE  BookingInv /\ Calendar!Init
<1>1. OrdersInv
  BY OrdersInvInit
<1>2. \A w \in Worker : ~Claiming(w) /\ Clean(handler[w])
  BY DEF Init, Claiming, Clean, IdleHandler
<1>3. Calendar!Init
  BY DEF Init, SurveysInit, Calendar!Init, booked, Blocks
<1> QED
  BY <1>1, <1>2, <1>3 DEF BookingInv, NoRivalClaims, ClaimSafe

\* The handlers of the service, with all their steps and failures, implement
\* the calendar: each step books free days, gives days back or does neither.
THEOREM BookingsRefine == DisciplinedSpec => BookingsAreACalendar
<1>1. Init => BookingInv /\ Calendar!Init
  BY DisciplinedInit
<1>2. BookingInv /\ [DisciplinedNext]_vars => BookingInv' /\ [Calendar!Next]_booked
  BY DisciplinedStep DEF BookingStep
<1> QED
  BY <1>1, <1>2, PTL DEF DisciplinedSpec, BookingsAreACalendar, Calendar!Spec

\* What an order holds is a booking.
CalendarTyped == booked \in [Order -> Calendar!Booking \cup {None}]

\* The calendar keeps its promise: a booking of free days leaves no fleet with
\* two orders on one day.
THEOREM CalendarKeepsApart == Calendar!Spec => []Calendar!NoDoubleBooking
<1>1. Calendar!Init => CalendarTyped /\ Calendar!NoDoubleBooking
  BY DEF Calendar!Init, CalendarTyped, Calendar!NoDoubleBooking
<1>2. CalendarTyped /\ Calendar!NoDoubleBooking /\ [Calendar!Next]_booked
        => CalendarTyped' /\ Calendar!NoDoubleBooking'
  <2> SUFFICES ASSUME CalendarTyped, Calendar!NoDoubleBooking, [Calendar!Next]_booked
               PROVE  CalendarTyped' /\ Calendar!NoDoubleBooking'
    OBVIOUS
  <2>1. CASE UNCHANGED booked
    BY <2>1 DEF CalendarTyped, Calendar!NoDoubleBooking
  <2>2. ASSUME NEW o \in Order, Calendar!Release(o)
        PROVE  CalendarTyped' /\ Calendar!NoDoubleBooking'
    BY <2>2 DEF Calendar!Release, CalendarTyped, Calendar!NoDoubleBooking
  <2>3. ASSUME NEW o \in Order, NEW b \in Calendar!Booking, Calendar!Book(o, b)
        PROVE  CalendarTyped' /\ Calendar!NoDoubleBooking'
    <3>1. CalendarTyped'
      BY <2>3 DEF Calendar!Book, CalendarTyped
    <3>2. ASSUME NEW p \in Order, NEW q \in Order, p # q, booked'[p] # None, booked'[q] # None
          PROVE  ~Calendar!Clash(booked'[p], booked'[q])
      <4>1. \A x, y : Calendar!Clash(x, y) => Calendar!Clash(y, x)
        BY DEF Calendar!Clash
      <4>2. CASE p = o
        BY <2>3, <3>2, <4>1, <4>2 DEF Calendar!Book, CalendarTyped
      <4>3. CASE q = o
        BY <2>3, <3>2, <4>3 DEF Calendar!Book, CalendarTyped
      <4>4. CASE p # o /\ q # o
        BY <2>3, <3>2, <4>4 DEF Calendar!Book, CalendarTyped, Calendar!NoDoubleBooking
      <4> QED
        BY <4>2, <4>3, <4>4
    <3> QED
      BY <3>1, <3>2 DEF Calendar!NoDoubleBooking
  <2> QED
    BY <2>1, <2>2, <2>3 DEF Calendar!Next
<1> QED
  BY <1>1, <1>2, PTL DEF Calendar!Spec

\* No fleet is promised to two orders for one day, for any number of fleets,
\* orders, concurrent handlers and failures.
THEOREM NoFleetBookedTwice == DisciplinedSpec => []NoDoubleBooking
BY BookingsRefine, CalendarKeepsApart, PTL DEF BookingsAreACalendar, NoDoubleBooking

-----------------------------------------------------------------------------
(* Why an unfinished order is overlooked *)

\* The pick-up of every order is there.
PickUpsStay ==
  \A o \in leads : \E s \in Survey :
    Live(s) /\ surveys[s].order = o /\ surveys[s].type = "pick_up"

\* A pick-up that is there stays when its row does.
LEMMA PickUpsKept ==
  ASSUME PickUpsStay, leads' \subseteq leads,
         \A s \in Survey : Live(s) /\ surveys[s].order \in leads' =>
           /\ surveys'[s].state = "live" /\ surveys'[s].order = surveys[s].order
           /\ surveys'[s].type = surveys[s].type
  PROVE  PickUpsStay'
BY DEF PickUpsStay, Live

\* As long as no request is removed on its own, every order keeps its pick-up.
LEMMA PickUpsStep ==
  ASSUME "remove" \notin SurveyOps, ServedInv, PickUpsStay, [DisciplinedNext]_vars
  PROVE  PickUpsStay'
<1> USE DEF ServedInv, OrdersInv, SurveysInv, SurveysTypeOK
<1>1. CASE leads' = leads /\ surveys' = surveys
  BY <1>1 DEF PickUpsStay, Live
<1>2. ASSUME NEW w \in Worker, InsertOrder(w) PROVE PickUpsStay'
  <2>1. PICK o \in Order, d \in RequestDriver, e \in RequestDriver :
          InsertRequests(o, d, e) /\ leads' = leads \cup {o}
    BY <1>2 DEF InsertOrder
  <2>2. PICK r1 \in Survey, r2 \in Survey :
          /\ ~Live(r1) /\ ~Live(r2) /\ r1 # r2
          /\ surveys' = [surveys EXCEPT ![r1] = RequestRow(o, "delivery", d),
                                        ![r2] = RequestRow(o, "pick_up", e)]
    BY <2>1 DEF InsertRequests, Unused, Live
  <2>3. surveys'[r2].state = "live" /\ surveys'[r2].order = o /\ surveys'[r2].type = "pick_up"
    BY <2>2 DEF RequestRow, AbsentRow
  <2>4. \A s \in Survey : Live(s) => surveys'[s] = surveys[s]
    BY <2>2
  <2> QED
    BY <2>1, <2>3, <2>4 DEF PickUpsStay, Live
<1>3. ASSUME NEW w \in Worker, RemoveOrder(w) PROVE PickUpsStay'
  BY <1>3, PickUpsKept DEF RemoveOrder, Live
<1>4. ASSUME NEW w \in Worker, RemoveRequests(w) PROVE PickUpsStay'
  <2>1. /\ leads' = leads /\ surveys' = SoftDeleteRequests(handler[w].order)
        /\ handler[w].order \notin leads
    BY <1>4 DEF RemoveRequests, RequestsRemoved
  <2>2. \A s \in Survey : surveys[s].order \in leads => surveys'[s] = surveys[s]
    BY <2>1 DEF SoftDeleteRequests
  <2> QED
    BY <2>1, <2>2, PickUpsKept DEF Live
<1>5. CASE SurveyStep /\ SurveysSettled
  <2>1. leads' = leads /\ \A s \in Survey : Live(s) =>
          surveys'[s].state = "live" /\ surveys'[s].order = surveys[s].order
    BY <1>5, ControllerKeepsOrders DEF SurveyStep
  <2>2. \A s \in Survey : Live(s) => surveys'[s].type = surveys[s].type
    BY <1>5 DEF SurveysSettled, Live
  <2> QED
    BY <2>1, <2>2, PickUpsKept
<1>6. ASSUME NEW w \in Worker,
             \/ HandlerStarts(w) \/ CreateInvoice(w) \/ CreateInvoiceFails(w)
             \/ CreateLedger(w) \/ (\E dto \in OrderDto : UpdateCheck(w, dto))
             \/ UpdateDeleteInvoice(w) \/ UpdateNewInvoice(w) \/ UpdateInvoice(w)
             \/ UpdateInvoiceGone(w) \/ UpdateLogStatus(w) \/ UpdateLedger(w) \/ UpdateSave(w)
             \/ RejectWrite(w) \/ RejectLog(w) \/ RemoveGetInvoice(w) \/ RemoveInvoice(w)
             \/ RemoveLedger(w) \/ HandlerFails(w)
      PROVE  leads' = leads /\ surveys' = surveys
  BY <1>6, OrdersInvStep, StartServes, GoingServes DEF surveyVars, DisciplinedNext, Next
<1>7. ASSUME \/ \E j \in Job : \/ \E cb \in callbacks : CallbackFetch(j, cb)
                               \/ JobGoesOn(j) \/ CallbackFails(j)
             \/ \E cb \in callbacks : CallbackLost(cb)
             \/ \E i \in Invoice, status \in PgMoves : PgStatusChange(i, status)
      PROVE  leads' = leads /\ surveys' = surveys
  BY <1>7 DEF CallbackFetch, JobGoesOn, CallbackLookup, CallbackApply, CallbackLedger,
              CallbackFails, CallbackLost, PgStatusChange, surveyVars
<1>8. CASE UNCHANGED vars
  BY <1>1, <1>8 DEF vars, surveyVars
<1>9. CASE DisciplinedNext
  <2>1. Next /\ SurveysSettled
    BY <1>9 DEF DisciplinedNext
  <2>2. ASSUME NEW w \in Worker, HandlerGoesOn(w) PROVE PickUpsStay'
    BY <1>1, <1>2, <1>3, <1>4, <1>6, <2>2 DEF HandlerGoesOn
  <2> QED
    BY <1>1, <1>5, <1>6, <1>7, <2>1, <2>2 DEF Next
<1> QED
  BY <1>8, <1>9

\* The one cause of overlooked bookings: with no request removed on its own (and
\* none re-typed, no rival claims, no lost log) every unfinished order counts when
\* a fleet is checked, whatever fails, for all values of the constants.
THEOREM UnfinishedCount ==
  "remove" \notin SurveyOps => (DisciplinedSpec => []UnfinishedOrdersCount)
<1> SUFFICES ASSUME "remove" \notin SurveyOps PROVE DisciplinedSpec => []UnfinishedOrdersCount
  OBVIOUS
<1> DEFINE Inv == BookingInv /\ Apart /\ ServedInv /\ PickUpsStay
<1>1. Init => Inv
  <2> SUFFICES ASSUME Init PROVE Inv
    OBVIOUS
  <2>1. Apart /\ PickUpsStay
    BY DEF Init, SurveysInit, Apart, Blocks, PickUpsStay
  <2> QED
    BY <2>1, DisciplinedInit, ServedInit
<1>2. Inv /\ [DisciplinedNext]_vars => Inv'
  BY DisciplinedStep, ServedStep, PickUpsStep DEF DisciplinedNext, BookingStep
<1>3. Inv => UnfinishedOrdersCount
  <2>1. ASSUME PickUpsStay, NEW o \in Order, Unfinished(o) PROVE Blocks(o)
    BY <2>1 DEF PickUpsStay, Unfinished, Blocks, Live
  <2> QED
    BY <2>1 DEF UnfinishedOrdersCount, Apart
<1> QED
  BY <1>1, <1>2, <1>3, PTL DEF DisciplinedSpec
=============================================================================
