------------------------------- MODULE Prices -------------------------------
(***************************************************************************)
(* What an order costs: calculatePrice, the items of the invoice           *)
(* (generatePaymentItems), and the columns and the invoice that the        *)
(* creation and the updates of one order leave behind, while the prices of *)
(* the fleets change.                                                      *)
(*                                                                         *)
(* The handlers run here one after the other and do not fail; Orders has   *)
(* their interleavings and failures, and knows a total only.  Amounts are  *)
(* integers; what is left after a discount is counted in hundredths, so    *)
(* that a percentage is exact where the code has floating point numbers.   *)
(***************************************************************************)
EXTENDS Integers, FiniteSets

CONSTANTS
  Customer, Fleet,
  FleetPrice,          \* prices a fleet can have for a day
  PriceDto,            \* the bodies of the requests
  WEEKEND_PRICE,       \* by the fleet's type, a car or a motorcycle
  OUT_OF_TOWN_FEE,     \* by the fleet's type
  DRIVER_FEE_IN_TOWN, DRIVER_FEE_OUT_TOWN,
  TAX_RATE,            \* PPH_21_25_GROSS_UP in 1/10000
  Absent               \* a column or property without a value

\* Additional services: how many, and their prices together.
Extras == {[number |-> 0, price |-> 0]} \cup [number : Nat \ {0}, price : Nat]

\* start: the day of the week the rental starts, 0 is Sunday.  insurance: the
\* price of the insurance that is chosen, 0 for none.  UpdateOrderDto is partial:
\* an update may have no duration; a price it leaves out is 0.
PriceDtos ==
  [customer : Customer, fleet : Fleet, start : 0..6, duration : Int \cup {Absent}, insurance : Nat,
   service : Nat \cup {Absent}, driver : BOOLEAN, out : BOOLEAN, extras : Extras, discount : 0..100]

ASSUME PriceConstants ==
  /\ FleetPrice \subseteq Nat
  /\ PriceDto \subseteq PriceDtos
  /\ WEEKEND_PRICE \in [Fleet -> Nat]
  /\ OUT_OF_TOWN_FEE \in [Fleet -> Nat]
  /\ {DRIVER_FEE_IN_TOWN, DRIVER_FEE_OUT_TOWN, TAX_RATE} \subseteq Nat
  /\ Absent \notin Int

VARIABLES
  fleets,        \* price of each fleet
  order,         \* the columns of the order's row, Absent before it is created
  invoice,       \* the order's invoice at the gateway, Absent without one
  asked          \* history: the request the row was last written by

priceVars == <<fleets, order, invoice, asked>>

-----------------------------------------------------------------------------
(* calculatePrice *)

IsWeekend(day) == day % 7 \in {0, 6}

\* Variant: the day the rental starts is forgotten if it is longer than one.
LaterWeekendDays(start, duration) ==
  IF IsWeekend(start) /\ duration = 1 THEN 1
  ELSE Cardinality({i \in 1..duration : IsWeekend(start + i)})

\* getWeekendDays: the days from start up to and with the day of the return; a
\* single day that starts on a weekend is one.
WeekendDays(start, duration) ==
  IF IsWeekend(start) /\ duration = 1 THEN 1
  ELSE (IF IsWeekend(start) THEN 1 ELSE 0) + Cardinality({i \in 1..duration : IsWeekend(start + i)})

Days(dto) == IF dto.duration = Absent THEN 1 ELSE dto.duration
ServicePrice(dto) == IF dto.service = Absent THEN 0 ELSE dto.service
DailyDriver(dto) == IF dto.out THEN DRIVER_FEE_OUT_TOWN ELSE DRIVER_FEE_IN_TOWN
DriverPrice(dto) == IF dto.driver THEN Days(dto) * DailyDriver(dto) ELSE 0
OutOfTownPrice(dto) == IF dto.out THEN OUT_OF_TOWN_FEE[dto.fleet] ELSE 0
WeekendPrice(dto) == WeekendDays(dto.start, Days(dto)) * WEEKEND_PRICE[dto.fleet]

SubTotal(dto, price) ==
  Days(dto) * price[dto.fleet] + ServicePrice(dto) + dto.insurance + DriverPrice(dto)
    + dto.extras.price + OutOfTownPrice(dto) + WeekendPrice(dto)

\* In hundredths from here on.  toFixed(2) rounds the tax.
Discounted(sub, discount) == sub * (100 - discount)
Tax(total) == (total * TAX_RATE + 5000) \div 10000
Grand(total) == total + Tax(total)

GrandTotal(dto, price) == Grand(Discounted(SubTotal(dto, price), dto.discount))

-----------------------------------------------------------------------------
(* generatePaymentItems *)

Item(price, quantity) == [price |-> price, quantity |-> quantity]
Unless0(amount, item) == IF amount # 0 THEN item ELSE Item(0, 0)

\* An item that is not pushed costs nothing, no times.  Without a duration the rent
\* and the driver have no quantity.
PaymentItems(dto, price) ==
  [rent |-> Item(price[dto.fleet], dto.duration),
   insurance |-> Unless0(dto.insurance, Item(dto.insurance, 1)),
   service |-> Unless0(ServicePrice(dto), Item(ServicePrice(dto), 1)),
   weekend |-> Unless0(WeekendPrice(dto),
                       Item(WEEKEND_PRICE[dto.fleet], WeekendDays(dto.start, Days(dto)))),
   driver |-> Unless0(DriverPrice(dto), Item(DailyDriver(dto), dto.duration)),
   out |-> Unless0(OutOfTownPrice(dto), Item(OutOfTownPrice(dto), 1)),
   extras |-> Unless0(dto.extras.number, Item(dto.extras.price, 1))]

Cost(item) == item.price * item.quantity

ItemsSum(items) ==
  Cost(items.rent) + Cost(items.insurance) + Cost(items.service) + Cost(items.weekend)
    + Cost(items.driver) + Cost(items.out) + Cost(items.extras)

-----------------------------------------------------------------------------
(* The row and the invoice *)

ItemNames == {"rent", "insurance", "service", "weekend", "driver", "out", "extras"}

PricedRow ==
  [customer : Customer, fleet : Fleet, duration : Int, service : Nat, out : Nat,
   driver : Int, extras : Extras, discount : 0..100, sub : Int, total : Int]

InvoiceItems == [ItemNames -> [price : Int, quantity : Int \cup {Absent}]]

Invoices ==
  [customer : Customer, duration : Int \cup {Absent}, items : InvoiceItems, total : Int]

Request == [dto : PriceDtos, price : Nat]

ASSUME AbsentIsNoRow == Absent \notin PricedRow \cup Invoices \cup Request

\* service and duration: what is written to the columns.
RowOf(dto, service, duration) ==
  [customer |-> dto.customer, fleet |-> dto.fleet, duration |-> duration, service |-> service,
   out |-> OutOfTownPrice(dto), driver |-> DriverPrice(dto), extras |-> dto.extras,
   discount |-> dto.discount, sub |-> SubTotal(dto, fleets), total |-> GrandTotal(dto, fleets)]

InvoiceOf(dto) ==
  [customer |-> dto.customer, duration |-> dto.duration, items |-> PaymentItems(dto, fleets),
   total |-> GrandTotal(dto, fleets)]

Asks(dto) == asked' = [dto |-> dto, price |-> fleets[dto.fleet]]

PricesInit ==
  /\ fleets \in [Fleet -> FleetPrice]
  /\ order = Absent
  /\ invoice = Absent
  /\ asked = Absent

\* A fleet gets another price.
FleetCosts(fleet, price) ==
  /\ fleets' = [fleets EXCEPT ![fleet] = price]
  /\ UNCHANGED <<order, invoice, asked>>

\* The column of the duration may not be null.
PriceAdminOrder(dto) ==
  /\ order = Absent
  /\ dto.duration # Absent
  /\ order' = RowOf(dto, ServicePrice(dto), dto.duration)
  /\ invoice' = InvoiceOf(dto)
  /\ Asks(dto)
  /\ UNCHANGED fleets

\* A customer gets no discount, and no invoice before an update makes one.
PriceCustomerOrder(body) ==
  LET dto == [body EXCEPT !.discount = 0] IN
  /\ order = Absent
  /\ dto.duration # Absent
  /\ order' = RowOf(dto, ServicePrice(dto), dto.duration)
  /\ Asks(dto)
  /\ UNCHANGED <<fleets, invoice>>

-----------------------------------------------------------------------------
(* update, which accept is too *)

\* Variant: what the total says is left out.
PartsChanged(dto) ==
  \/ fleets[dto.fleet] # fleets[order.fleet]
  \/ order.service # ServicePrice(dto)
  \/ order.out # OutOfTownPrice(dto)
  \/ order.extras.number # dto.extras.number
  \/ order.duration # dto.duration
  \/ order.discount # dto.discount

\* isItemsChanged: neither the insurance nor the driver nor the date is compared.
ItemsChanged(dto) ==
  \/ order.total # GrandTotal(dto, fleets)
  \/ fleets[dto.fleet] # fleets[order.fleet]
  \/ order.service # ServicePrice(dto)
  \/ order.out # OutOfTownPrice(dto)
  \/ order.extras.number # dto.extras.number
  \/ order.duration # dto.duration
  \/ order.discount # dto.discount

ChangesInvoice(dto) == invoice # Absent /\ ItemsChanged(dto) /\ dto.customer = order.customer

\* Variant: the sub totals are compared.
LowerSubTotal(dto) == SubTotal(dto, fleets) < order.sub

LowerTotal(dto) == GrandTotal(dto, fleets) < order.total

\* Variant: the column is emptied.
ServiceWritten(dto) == dto.service

\* A property that is undefined is not saved.
ServiceSaved(dto) == IF dto.service = Absent THEN order.service ELSE dto.service
DurationSaved(dto) == IF dto.duration = Absent THEN order.duration ELSE dto.duration

PriceUpdate(dto) ==
  /\ order # Absent
  /\ ~(ChangesInvoice(dto) /\ LowerTotal(dto))
  /\ invoice' = IF invoice = Absent \/ ChangesInvoice(dto) \/ dto.customer # order.customer
                   THEN InvoiceOf(dto)
                   ELSE invoice
  /\ order' = RowOf(dto, ServiceSaved(dto), DurationSaved(dto))
  /\ Asks(dto)
  /\ UNCHANGED fleets

PricesNext ==
  \/ \E fleet \in Fleet, price \in FleetPrice : FleetCosts(fleet, price)
  \/ \E dto \in PriceDto : PriceAdminOrder(dto) \/ PriceCustomerOrder(dto) \/ PriceUpdate(dto)

PricesSpec == PricesInit /\ [][PricesNext]_priceVars

-----------------------------------------------------------------------------
(* Properties *)

\* The row, the invoice and what was asked for have their types.
PricesTypeOK ==
  /\ fleets \in [Fleet -> FleetPrice]
  /\ order \in PricedRow \cup {Absent}
  /\ invoice \in Invoices \cup {Absent}
  /\ asked \in Request \cup {Absent}
  /\ order = Absent <=> asked = Absent

\* The invoice of an order says what its row says: customer, duration and
\* total, and its items add up to the row's sub total, also after updates that
\* leave the invoice alone because nothing they compare has changed
\* (leads.service.ts:408-414).  With a discount of 100 % every total is 0, and a
\* change of what is not compared goes unnoticed.  An invoice made without a
\* duration has none to compare, and its items have no sum.
InvoiceTellsRow ==
  order # Absent /\ invoice # Absent =>
    /\ invoice.customer = order.customer
    /\ invoice.total = order.total
    /\ invoice.duration # Absent =>
         /\ invoice.duration = order.duration
         /\ order.discount < 100 => ItemsSum(invoice.items) = order.sub

\* The price of an order with an invoice does not fall while its customer stays
\* ("Harga sewa tidak boleh kurang dari harga sebelumnya.",
\* leads.service.ts:435), whatever its fleets cost by now.
TotalNeverFalls ==
  [][order # Absent /\ invoice # Absent /\ order'.customer = order.customer
       => order'.total >= order.total]_priceVars

\* A rental can be extended: the request the row was written by, with a longer
\* duration and a fleet that did not get cheaper, is never refused for its
\* price.  Weekends, driver, discount and tax never make a longer rental cheaper.
\* (A duration below 0, which the DTO lets through, costs less when the fleet
\* costs more.)
ExtensionsAreTaken ==
  order # Absent /\ Days(asked.dto) >= 0 =>
    \A days \in Days(asked.dto)..30 :
      LET dto == [asked.dto EXCEPT !.duration = days] IN
      fleets[dto.fleet] >= asked.price => ~(ChangesInvoice(dto) /\ LowerTotal(dto))
=============================================================================
