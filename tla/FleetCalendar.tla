---------------------------- MODULE FleetCalendar ----------------------------
(***************************************************************************)
(* What the bookings promise, without handlers, rows or payments: a        *)
(* calendar in which an order holds a fleet for some days, and no day of a *)
(* fleet is held by two orders.  An order takes or changes its booking in  *)
(* one step, only if the days are free, and gives it back at any time.     *)
(***************************************************************************)
EXTENDS Integers

CONSTANTS Order, Fleet, Day, Duration, None

VARIABLE booked          \* the booking each order holds, None without one

Booking == [fleet : Fleet, start : Day, duration : Duration]

Days(b) == b.start .. (b.start + b.duration - 1)

Clash(a, b) == a.fleet = b.fleet /\ Days(a) \cap Days(b) # {}

Init == booked = [o \in Order |-> None]

Book(o, b) ==
  /\ \A p \in Order \ {o} : booked[p] # None => ~Clash(booked[p], b)
  /\ booked' = [booked EXCEPT ![o] = b]

Release(o) == booked' = [booked EXCEPT ![o] = None]

Next == \E o \in Order : Release(o) \/ \E b \in Booking : Book(o, b)

Spec == Init /\ [][Next]_booked

\* No fleet is held by two orders on the same day.
NoDoubleBooking ==
  \A o, p \in Order :
    o # p /\ booked[o] # None /\ booked[p] # None => ~Clash(booked[o], booked[p])
=============================================================================
