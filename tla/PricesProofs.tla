---------------------------- MODULE PricesProofs ----------------------------
(***************************************************************************)
(* Proofs about the prices: for all prices, fees, tax rates and requests,  *)
(* the invoice says what the row says, a total does not fall while the     *)
(* customer stays, and a longer rental is never refused for its price.     *)
(***************************************************************************)
EXTENDS Prices, FiniteSetTheorems, TLAPS

-----------------------------------------------------------------------------
(* Arithmetic *)

\* A product grows with each of its factors.
LEMMA TimesGrows ==
  ASSUME NEW x \in Int, NEW y \in Int, NEW k \in Nat, x <= y
  PROVE  x * k \in Int /\ y * k \in Int /\ x * k <= y * k
<1>1. (y - x) * k >= 0
  OBVIOUS
<1>2. (y - x) * k = y * k - x * k
  OBVIOUS
<1> QED
  BY <1>1, <1>2

\* The tax grows with the total.
LEMMA TaxGrows ==
  ASSUME NEW x \in Int, NEW y \in Int, x <= y
  PROVE  Tax(x) \in Int /\ Tax(y) \in Int /\ Tax(x) <= Tax(y)
<1>1. TAX_RATE \in Nat
  BY PriceConstants
<1>2. x * TAX_RATE \in Int /\ y * TAX_RATE \in Int /\ x * TAX_RATE <= y * TAX_RATE
  BY <1>1, TimesGrows
<1>3. ASSUME NEW a \in Int, NEW b \in Int, a <= b
      PROVE  /\ (a + 5000) \div 10000 \in Int /\ (b + 5000) \div 10000 \in Int
             /\ (a + 5000) \div 10000 <= (b + 5000) \div 10000
  BY <1>3
<1> QED
  BY <1>2, <1>3 DEF Tax

\* So the grand total grows with the total, and strictly.
LEMMA GrandGrows ==
  ASSUME NEW x \in Int, NEW y \in Int
  PROVE  /\ Grand(x) \in Int
         /\ x <= y => Grand(x) <= Grand(y)
         /\ x < y => Grand(x) < Grand(y)
<1>1. Tax(x) \in Int /\ Tax(y) \in Int
  BY TaxGrows
<1>2. x <= y => Tax(x) <= Tax(y)
  BY TaxGrows
<1> QED
  BY <1>1, <1>2 DEF Grand

\* A discount keeps the order of the sub totals, and strictly below 100 %.
LEMMA DiscountGrows ==
  ASSUME NEW x \in Int, NEW y \in Int, NEW d \in 0..100
  PROVE  /\ Discounted(x, d) \in Int
         /\ x <= y => Discounted(x, d) <= Discounted(y, d)
         /\ x < y /\ d < 100 => Discounted(x, d) < Discounted(y, d)
<1>1. 100 - d \in Nat
  OBVIOUS
<1>2. x * (100 - d) \in Int /\ (x <= y => x * (100 - d) <= y * (100 - d))
  BY <1>1, TimesGrows
<1>3. ASSUME x < y, d < 100
      PROVE  x * (100 - d) < y * (100 - d)
  <2>1. (x + 1) * (100 - d) <= y * (100 - d)
    BY <1>1, <1>3, TimesGrows
  <2>2. (x + 1) * (100 - d) = x * (100 - d) + (100 - d)
    BY <1>1
  <2> QED
    BY <1>1, <1>2, <1>3, <2>1, <2>2
<1> QED
  BY <1>2, <1>3 DEF Discounted

-----------------------------------------------------------------------------
(* The parts of a price *)

\* The weekend days of a rental can be counted, and a longer rental has no
\* fewer of them, with the special case of a single day.
LEMMA WeekendDaysGrow ==
  ASSUME NEW start \in 0..6, NEW d \in Int, NEW e \in Int, d <= e
  PROVE  /\ WeekendDays(start, d) \in Nat
         /\ WeekendDays(start, d) <= WeekendDays(start, e)
<1> DEFINE later(n) == {i \in 1..n : IsWeekend(start + i)}
<1>1. ASSUME NEW n \in Int
      PROVE  IsFiniteSet(later(n)) /\ Cardinality(later(n)) \in Nat
  <2>1. IsFiniteSet(1..n)
    BY FS_Interval
  <2>2. later(n) \subseteq 1..n
    OBVIOUS
  <2>3. IsFiniteSet(later(n))
    BY <2>1, <2>2, FS_Subset
  <2> QED
    BY <2>3, FS_CardinalityType
<1>2. Cardinality(later(d)) <= Cardinality(later(e))
  <2>1. later(d) \subseteq later(e)
    OBVIOUS
  <2> HIDE DEF later
  <2> QED
    BY <1>1, <2>1, FS_Subset
<1>3. ASSUME NEW n \in Int
      PROVE  WeekendDays(start, n) =
               IF IsWeekend(start) /\ n = 1 THEN 1
               ELSE (IF IsWeekend(start) THEN 1 ELSE 0) + Cardinality(later(n))
  BY DEF WeekendDays
<1>4. d <= 0 => Cardinality(later(d)) = 0
  <2>1. d <= 0 => later(d) = {}
    OBVIOUS
  <2> HIDE DEF later
  <2> QED
    BY <2>1, FS_EmptySet
<1> HIDE DEF later
<1> QED
  BY <1>1, <1>2, <1>3, <1>4

\* The weekend days of a rental are a number.
LEMMA WeekendDaysCount ==
  ASSUME NEW start \in 0..6, NEW d \in Int
  PROVE  WeekendDays(start, d) \in Nat
<1>1. d <= d
  OBVIOUS
<1> QED
  BY <1>1, WeekendDaysGrow

\* The days that are priced are a number, given or not.
LEMMA DaysAreNumbers ==
  ASSUME NEW dto \in PriceDtos
  PROVE  Days(dto) \in Int /\ (dto.duration # Absent => Days(dto) = dto.duration)
BY DEF Days, PriceDtos

\* Every part of a price is an integer; only those that count days can be
\* negative.
LEMMA PartsAreNumbers ==
  ASSUME NEW dto \in PriceDtos
  PROVE  /\ ServicePrice(dto) \in Nat
         /\ dto.insurance \in Nat
         /\ DailyDriver(dto) \in Nat
         /\ DriverPrice(dto) \in Int
         /\ dto.extras.price \in Nat
         /\ OutOfTownPrice(dto) \in Nat
         /\ WeekendPrice(dto) \in Nat
<1>0. dto.fleet \in Fleet /\ dto.start \in 0..6 /\ Days(dto) \in Int
  BY DaysAreNumbers DEF PriceDtos
<1>1. ServicePrice(dto) \in Nat /\ dto.insurance \in Nat
  BY DEF PriceDtos, ServicePrice
<1>2. DailyDriver(dto) \in Nat
  BY PriceConstants DEF DailyDriver
<1>3. DriverPrice(dto) \in Int
  <2>1. Days(dto) * DailyDriver(dto) \in Int
    BY <1>0, <1>2
  <2> QED
    BY <2>1 DEF DriverPrice
<1>4. dto.extras.price \in Nat
  <2>1. dto.extras \in Extras
    BY DEF PriceDtos
  <2> QED
    BY <2>1 DEF Extras
<1>5. OutOfTownPrice(dto) \in Nat
  BY <1>0, PriceConstants DEF OutOfTownPrice
<1>6. WeekendPrice(dto) \in Nat
  <2>1. WeekendDays(dto.start, Days(dto)) \in Nat
    BY <1>0, WeekendDaysCount
  <2>2. WEEKEND_PRICE[dto.fleet] \in Nat
    BY <1>0, PriceConstants
  <2> QED
    BY <2>1, <2>2, TimesGrows DEF WeekendPrice
<1> QED
  BY <1>1, <1>2, <1>3, <1>4, <1>5, <1>6

\* The sub total and the grand total are numbers.
LEMMA TotalsAreNumbers ==
  ASSUME NEW dto \in PriceDtos, NEW price \in [Fleet -> Nat]
  PROVE  /\ SubTotal(dto, price) \in Int
         /\ GrandTotal(dto, price) \in Int
<1>1. dto.fleet \in Fleet /\ Days(dto) \in Int /\ dto.discount \in 0..100
  BY DaysAreNumbers DEF PriceDtos
<1>2. Days(dto) * price[dto.fleet] \in Int
  BY <1>1
<1>3. SubTotal(dto, price) \in Int
  BY <1>2, PartsAreNumbers DEF SubTotal
<1>4. Discounted(SubTotal(dto, price), dto.discount) \in Int
  BY <1>1, <1>3, DiscountGrows
<1> QED
  BY <1>3, <1>4, GrandGrows DEF GrandTotal

\* The items of the invoice add up to the sub total: an item that is left out
\* costs nothing.
LEMMA ItemsAddUp ==
  ASSUME NEW dto \in PriceDtos, dto.duration # Absent, NEW price \in [Fleet -> Nat]
  PROVE  ItemsSum(PaymentItems(dto, price)) = SubTotal(dto, price)
<1> DEFINE items == PaymentItems(dto, price)
<1>0. dto.fleet \in Fleet /\ dto.start \in 0..6 /\ Days(dto) \in Int
  BY DaysAreNumbers DEF PriceDtos
<1>1. Cost(items.rent) = Days(dto) * price[dto.fleet]
  BY <1>0, DaysAreNumbers DEF PaymentItems, Item, Cost
<1>2. Cost(items.insurance) = dto.insurance
  BY PartsAreNumbers DEF PaymentItems, Item, Cost, Unless0
<1>3. Cost(items.service) = ServicePrice(dto)
  BY PartsAreNumbers DEF PaymentItems, Item, Cost, Unless0
<1>4. Cost(items.weekend) = WeekendPrice(dto)
  <2>1. WeekendDays(dto.start, Days(dto)) \in Nat /\ WEEKEND_PRICE[dto.fleet] \in Nat
    BY <1>0, WeekendDaysCount, PriceConstants
  <2>2. WEEKEND_PRICE[dto.fleet] * WeekendDays(dto.start, Days(dto)) = WeekendPrice(dto)
    BY <2>1 DEF WeekendPrice
  <2> QED
    BY <2>2 DEF PaymentItems, Item, Cost, Unless0
<1>5. Cost(items.driver) = DriverPrice(dto)
  <2>1. dto.driver => DailyDriver(dto) * dto.duration = DriverPrice(dto)
    BY <1>0, DaysAreNumbers, PartsAreNumbers DEF DriverPrice
  <2>2. ~dto.driver => DriverPrice(dto) = 0
    BY DEF DriverPrice
  <2> QED
    BY <2>1, <2>2 DEF PaymentItems, Item, Cost, Unless0
<1>6. Cost(items.out) = OutOfTownPrice(dto)
  BY PartsAreNumbers DEF PaymentItems, Item, Cost, Unless0
<1>7. Cost(items.extras) = dto.extras.price
  <2>1. dto.extras \in Extras
    BY DEF PriceDtos
  <2>2. dto.extras.number = 0 => dto.extras.price = 0
    BY <2>1 DEF Extras
  <2> QED
    BY <2>2, PartsAreNumbers DEF PaymentItems, Item, Cost, Unless0
<1>8. Days(dto) * price[dto.fleet] \in Int
  BY <1>0
<1> HIDE DEF items
<1>9. ItemsSum(items) = SubTotal(dto, price)
  BY <1>1, <1>2, <1>3, <1>4, <1>5, <1>6, <1>7, <1>8, PartsAreNumbers DEF ItemsSum, SubTotal
<1> QED
  BY <1>9 DEF items

\* A longer rental of the same things does not cost less, when its fleet does
\* not.
LEMMA LongerCostsNoLess ==
  ASSUME NEW dto \in PriceDtos, NEW days \in Int, Days(dto) >= 0, days >= Days(dto),
         NEW old \in [Fleet -> Nat], NEW new \in [Fleet -> Nat], old[dto.fleet] <= new[dto.fleet]
  PROVE  GrandTotal(dto, old) <= GrandTotal([dto EXCEPT !.duration = days], new)
<1> DEFINE ext == [dto EXCEPT !.duration = days]
<1>1. /\ ext \in PriceDtos /\ Days(ext) = days /\ ext.fleet = dto.fleet /\ ext.start = dto.start
      /\ ext.service = dto.service /\ ext.insurance = dto.insurance /\ ext.driver = dto.driver
      /\ ext.out = dto.out /\ ext.extras = dto.extras /\ ext.discount = dto.discount
  BY PriceConstants DEF PriceDtos, Days
<1>0. /\ dto.fleet \in Fleet /\ dto.start \in 0..6 /\ Days(dto) \in Nat /\ dto.discount \in 0..100
      /\ days \in Nat
  BY DaysAreNumbers DEF PriceDtos
<1> HIDE DEF ext
<1>2. Days(dto) * old[dto.fleet] <= Days(ext) * new[ext.fleet]
  <2>1. Days(dto) * old[dto.fleet] <= days * old[dto.fleet]
    BY <1>0, TimesGrows
  <2>2. old[dto.fleet] * days <= new[dto.fleet] * days
    BY <1>0, TimesGrows
  <2>3. Days(dto) * old[dto.fleet] \in Int /\ old[dto.fleet] * days \in Int
        /\ new[dto.fleet] * days \in Int
    BY <1>0
  <2>4. old[dto.fleet] * days = days * old[dto.fleet] /\ new[dto.fleet] * days = days * new[dto.fleet]
    BY <1>0
  <2> QED
    BY <1>1, <2>1, <2>2, <2>3, <2>4
<1>3. ServicePrice(ext) = ServicePrice(dto) /\ OutOfTownPrice(ext) = OutOfTownPrice(dto)
      /\ DailyDriver(ext) = DailyDriver(dto)
  BY <1>1 DEF ServicePrice, OutOfTownPrice, DailyDriver
<1>4. DriverPrice(dto) <= DriverPrice(ext)
  <2>1. Days(dto) * DailyDriver(dto) <= days * DailyDriver(dto)
    <3>1. Days(dto) \in Int /\ days \in Int /\ DailyDriver(dto) \in Nat /\ Days(dto) <= days
      BY <1>0, PartsAreNumbers
    <3> QED
      BY <3>1, TimesGrows
  <2>2. days * DailyDriver(dto) \in Int
    BY <1>0, PartsAreNumbers
  <2> QED
    BY <1>1, <1>3, <2>1, <2>2 DEF DriverPrice
<1>5. WeekendPrice(dto) <= WeekendPrice(ext)
  <2>1. /\ WeekendDays(dto.start, Days(dto)) \in Nat /\ WeekendDays(dto.start, days) \in Nat
        /\ WeekendDays(dto.start, Days(dto)) <= WeekendDays(dto.start, days)
    <3>1. Days(dto) \in Int /\ days \in Int
      BY <1>0
    <3> QED
      BY <1>0, <3>1, WeekendDaysCount, WeekendDaysGrow
  <2>2. WEEKEND_PRICE[dto.fleet] \in Nat
    BY <1>0, PriceConstants
  <2> QED
    BY <1>1, <2>1, <2>2, TimesGrows DEF WeekendPrice
<1>6. SubTotal(dto, old) <= SubTotal(ext, new)
  <2>1. Days(dto) * old[dto.fleet] \in Int /\ Days(ext) * new[ext.fleet] \in Int
    BY <1>0, <1>1
  <2>2. DriverPrice(dto) \in Int /\ DriverPrice(ext) \in Int
        /\ WeekendPrice(dto) \in Int /\ WeekendPrice(ext) \in Int
        /\ ServicePrice(dto) \in Int /\ OutOfTownPrice(dto) \in Int
        /\ dto.insurance \in Int /\ dto.extras.price \in Int
    BY <1>1, PartsAreNumbers
  <2> QED
    BY <1>1, <1>2, <1>3, <1>4, <1>5, <2>1, <2>2 DEF SubTotal
<1>7. SubTotal(dto, old) \in Int /\ SubTotal(ext, new) \in Int
  BY <1>1, TotalsAreNumbers
<1>8. /\ Discounted(SubTotal(dto, old), dto.discount) \in Int
      /\ Discounted(SubTotal(ext, new), dto.discount) \in Int
      /\ Discounted(SubTotal(dto, old), dto.discount) <= Discounted(SubTotal(ext, new), dto.discount)
  BY <1>0, <1>6, <1>7, DiscountGrows
<1>9. GrandTotal(dto, old) <= GrandTotal(ext, new)
  BY <1>1, <1>8, GrandGrows DEF GrandTotal
<1> QED
  BY <1>9 DEF ext

-----------------------------------------------------------------------------
(* The row and the invoice *)

\* The prices of the request: those of its fleet when it was served.
Paid(request) == [fleet \in Fleet |-> request.price]

\* The row was priced from the request it was last written by.
RowPriced ==
  order # Absent =>
    /\ order.customer = asked.dto.customer
    /\ order.discount = asked.dto.discount
    /\ order.sub = SubTotal(asked.dto, Paid(asked))
    /\ order.total = Grand(Discounted(order.sub, order.discount))

InvoiceAfterOrder == invoice # Absent => order # Absent

PricesInv == PricesTypeOK /\ RowPriced /\ InvoiceAfterOrder /\ InvoiceTellsRow

\* A sub total looks at the price of one fleet.
LEMMA OneFleetCounts ==
  ASSUME NEW dto \in PriceDtos, fleets \in [Fleet -> FleetPrice],
         NEW request, request = [dto |-> dto, price |-> fleets[dto.fleet]]
  PROVE  /\ SubTotal(dto, Paid(request)) = SubTotal(dto, fleets)
         /\ request \in Request
         /\ Paid(request) \in [Fleet -> Nat]
<1>1. dto.fleet \in Fleet
  BY DEF PriceDtos
<1>2. fleets[dto.fleet] \in Nat
  BY <1>1, PriceConstants
<1>3. Paid(request)[dto.fleet] = fleets[dto.fleet]
  BY <1>1 DEF Paid
<1> QED
  BY <1>2, <1>3 DEF SubTotal, Paid, Request

\* What is written to the row has its types, and is priced from the request.
LEMMA RowOfTypes ==
  ASSUME NEW dto \in PriceDtos, NEW service \in Nat, NEW duration \in Int,
         fleets \in [Fleet -> FleetPrice]
  PROVE  RowOf(dto, service, duration) \in PricedRow
<1>1. fleets \in [Fleet -> Nat]
  BY PriceConstants
<1>2. OutOfTownPrice(dto) \in Nat /\ DriverPrice(dto) \in Int
      /\ SubTotal(dto, fleets) \in Int /\ GrandTotal(dto, fleets) \in Int
  BY <1>1, PartsAreNumbers, TotalsAreNumbers
<1> QED
  BY <1>2 DEF RowOf, PricedRow, PriceDtos

\* The items of an invoice are prices and quantities.
LEMMA ItemsAreNumbers ==
  ASSUME NEW dto \in PriceDtos, NEW price \in [Fleet -> Nat]
  PROVE  PaymentItems(dto, price) \in InvoiceItems
<1>1. ASSUME NEW amount, NEW a \in Int, NEW b \in Int \cup {Absent}
      PROVE  Item(a, b) \in [price : Int, quantity : Int \cup {Absent}]
             /\ Unless0(amount, Item(a, b)) \in [price : Int, quantity : Int \cup {Absent}]
  BY DEF Item, Unless0
<1>2. dto.fleet \in Fleet /\ dto.start \in 0..6 /\ Days(dto) \in Int
      /\ dto.duration \in Int \cup {Absent}
  BY DaysAreNumbers DEF PriceDtos
<1>3. price[dto.fleet] \in Int /\ WEEKEND_PRICE[dto.fleet] \in Int
      /\ WeekendDays(dto.start, Days(dto)) \in Int
  <2>1. WEEKEND_PRICE[dto.fleet] \in Nat
    BY <1>2, PriceConstants
  <2>2. WeekendDays(dto.start, Days(dto)) \in Nat
    BY <1>2, WeekendDaysCount
  <2> QED
    BY <1>2, <2>1, <2>2
<1>4. ServicePrice(dto) \in Int /\ dto.insurance \in Int /\ DailyDriver(dto) \in Int
      /\ OutOfTownPrice(dto) \in Int /\ dto.extras.price \in Int /\ 1 \in Int
  BY PartsAreNumbers
<1> DEFINE items == PaymentItems(dto, price)
<1>5. /\ items.rent \in [price : Int, quantity : Int \cup {Absent}]
      /\ items.insurance \in [price : Int, quantity : Int \cup {Absent}]
      /\ items.service \in [price : Int, quantity : Int \cup {Absent}]
      /\ items.weekend \in [price : Int, quantity : Int \cup {Absent}]
      /\ items.driver \in [price : Int, quantity : Int \cup {Absent}]
      /\ items.out \in [price : Int, quantity : Int \cup {Absent}]
      /\ items.extras \in [price : Int, quantity : Int \cup {Absent}]
  BY <1>1, <1>2, <1>3, <1>4 DEF PaymentItems
<1>6. /\ items = [name \in ItemNames |-> items[name]]
      /\ \A name \in ItemNames : items[name] \in [price : Int, quantity : Int \cup {Absent}]
  BY <1>5 DEF PaymentItems, ItemNames
<1> QED
  BY <1>6 DEF InvoiceItems

\* A new invoice has its types and says what the row of its request says.
LEMMA InvoiceOfRow ==
  ASSUME NEW dto \in PriceDtos, NEW service \in Nat, NEW duration \in Int,
         fleets \in [Fleet -> FleetPrice], dto.duration # Absent => duration = dto.duration
  PROVE  LET row == RowOf(dto, service, duration) IN
         /\ InvoiceOf(dto) \in Invoices
         /\ InvoiceOf(dto).customer = row.customer
         /\ InvoiceOf(dto).total = row.total
         /\ InvoiceOf(dto).duration # Absent =>
              /\ InvoiceOf(dto).duration = row.duration
              /\ ItemsSum(InvoiceOf(dto).items) = row.sub
<1>1. fleets \in [Fleet -> Nat]
  BY PriceConstants
<1>2. GrandTotal(dto, fleets) \in Int /\ dto.customer \in Customer /\ dto.duration \in Int \cup {Absent}
  BY <1>1, TotalsAreNumbers DEF PriceDtos
<1>3. PaymentItems(dto, fleets) \in InvoiceItems
  BY <1>1, ItemsAreNumbers
<1>4. dto.duration # Absent => ItemsSum(PaymentItems(dto, fleets)) = SubTotal(dto, fleets)
  BY <1>1, ItemsAddUp
<1> QED
  BY <1>2, <1>3, <1>4 DEF InvoiceOf, Invoices, RowOf

\* When nothing update compares has changed, the new row has the totals of the
\* old one: below 100 % a total comes from one sub total only.
LEMMA UnchangedTotals ==
  ASSUME PricesInv, order # Absent, NEW dto \in PriceDtos, ~ItemsChanged(dto)
  PROVE  /\ order.total = GrandTotal(dto, fleets)
         /\ order.duration = dto.duration
         /\ dto.discount = order.discount
         /\ dto.discount < 100 => order.sub = SubTotal(dto, fleets)
<1>1. order.total = GrandTotal(dto, fleets) /\ order.duration = dto.duration
      /\ order.discount = dto.discount
  BY DEF ItemsChanged
<1>2. order \in PricedRow /\ fleets \in [Fleet -> Nat]
  BY PriceConstants DEF PricesInv, PricesTypeOK
<1>3. order.sub \in Int /\ dto.discount \in 0..100 /\ SubTotal(dto, fleets) \in Int
  BY <1>2, TotalsAreNumbers DEF PricedRow, PriceDtos
<1>4. ASSUME NEW x \in Int, NEW y \in Int, x < y, dto.discount < 100
      PROVE  Grand(Discounted(x, dto.discount)) # Grand(Discounted(y, dto.discount))
  <2>1. Discounted(x, dto.discount) \in Int /\ Discounted(y, dto.discount) \in Int
        /\ Discounted(x, dto.discount) < Discounted(y, dto.discount)
    BY <1>3, <1>4, DiscountGrows
  <2>2. Grand(Discounted(x, dto.discount)) \in Int /\ Grand(Discounted(y, dto.discount)) \in Int
        /\ Grand(Discounted(x, dto.discount)) < Grand(Discounted(y, dto.discount))
    BY <2>1, GrandGrows
  <2> QED
    BY <2>2
<1>5. Grand(Discounted(order.sub, dto.discount)) = Grand(Discounted(SubTotal(dto, fleets), dto.discount))
  BY <1>1 DEF PricesInv, RowPriced, GrandTotal
<1>6. dto.discount < 100 => order.sub = SubTotal(dto, fleets)
  <2>1. CASE order.sub < SubTotal(dto, fleets)
    BY <1>3, <1>4, <1>5, <2>1
  <2>2. CASE SubTotal(dto, fleets) < order.sub
    BY <1>3, <1>4, <1>5, <2>2
  <2> QED
    BY <1>3, <2>1, <2>2
<1> QED
  BY <1>1, <1>6

-----------------------------------------------------------------------------
(* Steps *)

\* A row that is written, and the request it is written by.
LEMMA RowWritten ==
  ASSUME PricesInv, NEW dto \in PriceDtos, NEW service \in Nat, NEW duration \in Int,
         fleets' = fleets, order' = RowOf(dto, service, duration), Asks(dto)
  PROVE  /\ order' \in PricedRow /\ order' # Absent
         /\ asked' \in Request /\ asked' # Absent
         /\ RowPriced'
<1>0. fleets \in [Fleet -> FleetPrice]
  BY DEF PricesInv, PricesTypeOK
<1>1. order' \in PricedRow /\ order' # Absent
  BY <1>0, RowOfTypes, AbsentIsNoRow
<1>2. asked' = [dto |-> dto, price |-> fleets[dto.fleet]]
  BY DEF Asks
<1>3. asked' \in Request /\ asked' # Absent /\ SubTotal(dto, Paid(asked')) = SubTotal(dto, fleets)
  BY <1>0, <1>2, OneFleetCounts, AbsentIsNoRow
<1>4. /\ order'.customer = dto.customer /\ order'.discount = dto.discount
      /\ order'.sub = SubTotal(dto, fleets) /\ order'.total = GrandTotal(dto, fleets)
      /\ asked'.dto = dto
  BY <1>2 DEF RowOf
<1>5. RowPriced'
  BY <1>3, <1>4 DEF RowPriced, GrandTotal, Paid
<1> QED
  BY <1>1, <1>3, <1>5

\* Creations.
LEMMA CreationKeeps ==
  ASSUME PricesInv, NEW dto \in PriceDto, PriceAdminOrder(dto) \/ PriceCustomerOrder(dto)
  PROVE  PricesInv'
<1> USE DEF PricesInv
<1>0. dto \in PriceDtos /\ fleets \in [Fleet -> FleetPrice] /\ fleets' = fleets /\ order = Absent
      /\ dto.duration \in Int
  BY PriceConstants DEF PricesTypeOK, PriceAdminOrder, PriceCustomerOrder, PriceDtos
<1>1. CASE PriceAdminOrder(dto)
  <2>1. order' = RowOf(dto, ServicePrice(dto), dto.duration) /\ invoice' = InvoiceOf(dto) /\ Asks(dto)
    BY <1>1 DEF PriceAdminOrder
  <2>2. ServicePrice(dto) \in Nat
    BY <1>0, PartsAreNumbers
  <2>3. /\ order' \in PricedRow /\ order' # Absent
        /\ asked' \in Request /\ asked' # Absent /\ RowPriced'
    BY <1>0, <2>1, <2>2, RowWritten
  <2>4. invoice' \in Invoices /\ InvoiceTellsRow'
    BY <1>0, <2>1, <2>2, InvoiceOfRow DEF InvoiceTellsRow
  <2> QED
    BY <1>0, <2>3, <2>4 DEF PricesTypeOK, InvoiceAfterOrder
<1>2. CASE PriceCustomerOrder(dto)
  <2> DEFINE free == [dto EXCEPT !.discount = 0]
  <2>1. order' = RowOf(free, ServicePrice(free), free.duration) /\ invoice' = invoice /\ Asks(free)
    BY <1>2 DEF PriceCustomerOrder
  <2>2. free \in PriceDtos /\ free.duration \in Int
    BY <1>0 DEF PriceDtos
  <2> HIDE DEF free
  <2>3. ServicePrice(free) \in Nat
    BY <2>2, PartsAreNumbers
  <2>4. /\ order' \in PricedRow /\ order' # Absent
        /\ asked' \in Request /\ asked' # Absent /\ RowPriced'
    BY <1>0, <2>1, <2>2, <2>3, RowWritten
  <2>5. invoice' = Absent
    BY <1>0, <2>1 DEF InvoiceAfterOrder
  <2> QED
    BY <1>0, <2>4, <2>5 DEF PricesTypeOK, InvoiceAfterOrder, InvoiceTellsRow
<1> QED
  BY <1>1, <1>2

\* An update, which leaves the invoice alone or makes it anew.
LEMMA UpdateKeeps ==
  ASSUME PricesInv, NEW dto \in PriceDto, PriceUpdate(dto)
  PROVE  /\ PricesInv'
         /\ invoice # Absent /\ order'.customer = order.customer => order'.total >= order.total
<1> USE DEF PricesInv
<1>0. /\ dto \in PriceDtos /\ fleets \in [Fleet -> FleetPrice] /\ fleets' = fleets
      /\ order # Absent /\ order \in PricedRow
      /\ order' = RowOf(dto, ServiceSaved(dto), DurationSaved(dto)) /\ Asks(dto)
  BY PriceConstants DEF PricesTypeOK, PriceUpdate
<1>1. ServiceSaved(dto) \in Nat /\ DurationSaved(dto) \in Int
  BY <1>0 DEF ServiceSaved, DurationSaved, PricedRow, PriceDtos
<1>2. /\ order' \in PricedRow /\ order' # Absent
      /\ asked' \in Request /\ asked' # Absent /\ RowPriced'
  BY <1>0, <1>1, RowWritten
<1>3. /\ order'.customer = dto.customer /\ order'.duration = DurationSaved(dto)
      /\ order'.total = GrandTotal(dto, fleets) /\ order'.sub = SubTotal(dto, fleets)
      /\ order'.discount = dto.discount
  BY <1>0 DEF RowOf
<1>4. ASSUME invoice = Absent \/ ChangesInvoice(dto) \/ dto.customer # order.customer
      PROVE  invoice' \in Invoices /\ InvoiceTellsRow'
  <2>1. invoice' = InvoiceOf(dto)
    BY <1>4 DEF PriceUpdate
  <2> QED
    BY <1>0, <1>1, <2>1, InvoiceOfRow DEF InvoiceTellsRow, DurationSaved
<1>5. ASSUME invoice # Absent, ~ChangesInvoice(dto), dto.customer = order.customer
      PROVE  invoice' \in Invoices /\ InvoiceTellsRow'
  <2>1. invoice' = invoice /\ invoice \in Invoices
    BY <1>5 DEF PriceUpdate, PricesTypeOK
  <2>2. ~ItemsChanged(dto)
    BY <1>5 DEF ChangesInvoice
  <2>3. /\ order.total = GrandTotal(dto, fleets) /\ order.duration = dto.duration
        /\ dto.discount = order.discount
        /\ dto.discount < 100 => order.sub = SubTotal(dto, fleets)
    BY <1>0, <2>2, UnchangedTotals
  <2> QED
    BY <1>0, <1>3, <1>5, <2>1, <2>3 DEF InvoiceTellsRow, DurationSaved
<1>6. PricesInv'
  BY <1>0, <1>2, <1>4, <1>5 DEF PricesTypeOK, InvoiceAfterOrder
<1>7. ASSUME invoice # Absent, order'.customer = order.customer
      PROVE  order'.total >= order.total
  <2>1. GrandTotal(dto, fleets) \in Int
    <3>1. fleets \in [Fleet -> Nat]
      BY <1>0, PriceConstants
    <3> QED
      BY <1>0, <3>1, TotalsAreNumbers
  <2>2. order.total \in Int
    BY <1>0 DEF PricedRow
  <2>3. CASE ChangesInvoice(dto)
    <3>1. ~(GrandTotal(dto, fleets) < order.total)
      BY <2>3 DEF PriceUpdate, LowerTotal
    <3> QED
      BY <1>3, <2>1, <2>2, <3>1
  <2>4. CASE ~ChangesInvoice(dto)
    <3>1. ~ItemsChanged(dto)
      BY <1>3, <1>7, <2>4 DEF ChangesInvoice
    <3> QED
      BY <1>0, <1>3, <2>2, <3>1, UnchangedTotals
  <2> QED
    BY <2>3, <2>4
<1> QED
  BY <1>6, <1>7

NoFall ==
  order # Absent /\ invoice # Absent /\ order'.customer = order.customer
    => order'.total >= order.total

\* Every step keeps the invariant, and none lowers the total.
LEMMA PricesStep ==
  ASSUME PricesInv, [PricesNext]_priceVars
  PROVE  PricesInv' /\ [NoFall]_priceVars
<1>1. CASE UNCHANGED priceVars
  <2>1. fleets' = fleets /\ order' = order /\ invoice' = invoice /\ asked' = asked
    BY <1>1 DEF priceVars
  <2>2. PricesInv'
    BY <2>1 DEF PricesInv, PricesTypeOK, RowPriced, InvoiceAfterOrder, InvoiceTellsRow, Paid
  <2> QED
    BY <1>1, <2>2
<1>2. ASSUME NEW fleet \in Fleet, NEW price \in FleetPrice, FleetCosts(fleet, price)
      PROVE  PricesInv' /\ NoFall
  <2>1. order' = order /\ invoice' = invoice /\ asked' = asked
    BY <1>2 DEF FleetCosts
  <2>2. fleets' \in [Fleet -> FleetPrice]
    BY <1>2 DEF FleetCosts, PricesInv, PricesTypeOK
  <2>3. PricesInv'
    BY <2>1, <2>2 DEF PricesInv, PricesTypeOK, RowPriced, InvoiceAfterOrder, InvoiceTellsRow, Paid
  <2>4. NoFall
    BY <2>1 DEF NoFall, PricesInv, PricesTypeOK, PricedRow
  <2> QED
    BY <2>3, <2>4
<1>3. ASSUME NEW dto \in PriceDto, PriceAdminOrder(dto) \/ PriceCustomerOrder(dto)
      PROVE  PricesInv' /\ NoFall
  BY <1>3, CreationKeeps DEF NoFall, PriceAdminOrder, PriceCustomerOrder
<1>4. ASSUME NEW dto \in PriceDto, PriceUpdate(dto)
      PROVE  PricesInv' /\ NoFall
  BY <1>4, UpdateKeeps DEF NoFall
<1> QED
  BY <1>1, <1>2, <1>3, <1>4 DEF PricesNext

\* Nothing is priced before the order is created.
LEMMA PricesStart ==
  ASSUME PricesInit
  PROVE  PricesInv
BY DEF PricesInit, PricesInv, PricesTypeOK, RowPriced, InvoiceAfterOrder, InvoiceTellsRow

\* A row that was priced from its request leaves room for a longer one.
LEMMA ExtensionsCostNoLess ==
  ASSUME PricesInv
  PROVE  ExtensionsAreTaken
<1> SUFFICES ASSUME order # Absent, Days(asked.dto) >= 0, NEW days \in Days(asked.dto)..30,
                    fleets[asked.dto.fleet] >= asked.price
             PROVE  ~LowerTotal([asked.dto EXCEPT !.duration = days])
  <2> DEFINE ext(days) == [asked.dto EXCEPT !.duration = days]
  <2>1. \A days : ext(days).fleet = asked.dto.fleet \/ asked \notin Request
    BY DEF Request, PriceDtos
  <2>2. order # Absent => asked \in Request
    BY DEF PricesInv, PricesTypeOK
  <2> QED
    BY <2>1, <2>2 DEF ExtensionsAreTaken
<1> DEFINE dto == asked.dto
           ext == [asked.dto EXCEPT !.duration = days]
<1>1. asked \in Request /\ order \in PricedRow
  BY DEF PricesInv, PricesTypeOK
<1>2. dto \in PriceDtos /\ asked.price \in Nat /\ dto.fleet \in Fleet /\ Days(dto) \in Int
  BY <1>1, DaysAreNumbers DEF Request, PriceDtos
<1>3. fleets \in [Fleet -> Nat] /\ Paid(asked) \in [Fleet -> Nat]
  BY <1>2, PriceConstants DEF PricesInv, PricesTypeOK, Paid
<1>4. Paid(asked)[dto.fleet] <= fleets[dto.fleet]
  BY <1>2, <1>3 DEF Paid
<1>5. order.total = GrandTotal(dto, Paid(asked))
  BY DEF PricesInv, RowPriced, GrandTotal
<1>6. days \in Int /\ days >= Days(dto) /\ Days(dto) >= 0
  BY <1>2
<1>7. ext \in PriceDtos
  BY <1>2, <1>6 DEF PriceDtos
<1>8. GrandTotal(dto, Paid(asked)) <= GrandTotal(ext, fleets)
  BY <1>2, <1>3, <1>4, <1>6, LongerCostsNoLess
<1>9. GrandTotal(ext, fleets) \in Int /\ order.total \in Int
  BY <1>1, <1>3, <1>7, TotalsAreNumbers DEF PricedRow
<1> HIDE DEF ext
<1>10. ~(GrandTotal(ext, fleets) < order.total)
  BY <1>5, <1>8, <1>9
<1> QED
  BY <1>10 DEF LowerTotal, ext

\* The tables of the prices have their types, for all prices and requests.
THEOREM PricesTypes == PricesSpec => []PricesTypeOK
<1>1. PricesInv /\ [PricesNext]_priceVars => PricesInv'
  BY PricesStep
<1>2. PricesInv => PricesTypeOK
  BY DEF PricesInv
<1> QED
  BY <1>1, <1>2, PricesStart, PTL DEF PricesSpec

\* For all prices, fees, tax rates and series of updates, the invoice says what
\* the row says: comparing the totals catches every change that isItemsChanged
\* does not compare, as long as the discount leaves something to pay and the
\* update that made the invoice had a duration.
THEOREM InvoiceSaysWhatRowSays == PricesSpec => []InvoiceTellsRow
<1>1. PricesInv /\ [PricesNext]_priceVars => PricesInv'
  BY PricesStep
<1>2. PricesInv => InvoiceTellsRow
  BY DEF PricesInv
<1> QED
  BY <1>1, <1>2, PricesStart, PTL DEF PricesSpec

\* For all prices and series of updates, a total does not fall while the
\* customer stays.
THEOREM TotalsDoNotFall == PricesSpec => TotalNeverFalls
<1>1. PricesInv /\ [PricesNext]_priceVars => PricesInv' /\ [NoFall]_priceVars
  BY PricesStep
<1> QED
  BY <1>1, PricesStart, PTL DEF PricesSpec, TotalNeverFalls, NoFall

\* For all prices, fees, tax rates, start days and durations, a longer rental
\* of the same is never refused for its price.
THEOREM LongerRentalsAreTaken == PricesSpec => []ExtensionsAreTaken
<1>1. PricesInv /\ [PricesNext]_priceVars => PricesInv'
  BY PricesStep
<1>2. PricesInv => ExtensionsAreTaken
  BY ExtensionsCostNoLess
<1> QED
  BY <1>1, <1>2, PricesStart, PTL DEF PricesSpec
=============================================================================
