------------------------------ MODULE MCReads ------------------------------
(* Instances of StatusCounts, Pages and Prices for TLC.  They share no state: *)
(* a behaviour runs one of them, and the others stay as they begin.           *)
EXTENDS StatusCounts, Pages, Prices

VARIABLE running

vars == <<countVars, pageVars, priceVars, running>>

\* A Friday and a Sunday reach every case of WeekendDays.  An insurance costs as
\* much as a driver for two days: one can take the place of the other.
NoExtras == [number |-> 0, price |-> 0]
SomeBodies ==
  [customer : {CHOOSE k \in Customer : TRUE}, fleet : Fleet, start : {0, 5}, duration : {1, 2},
   insurance : {0, 2}, service : {Absent, 1}, driver : BOOLEAN, out : {FALSE},
   extras : {NoExtras}, discount : {0, 100}]
  \cup
  [customer : Customer, fleet : {CHOOSE f \in Fleet : TRUE}, start : {0}, duration : {Absent, 0, 2},
   insurance : {0}, service : {Absent}, driver : {TRUE}, out : BOOLEAN,
   extras : {NoExtras, [number |-> 2, price |-> 3]}, discount : {50}]

SomeWeekendPrices == [f \in Fleet |-> 3]
SomeFees == [f \in Fleet |-> 2]

Init ==
  /\ CountsInit /\ PagesInit /\ PricesInit
  /\ running \in {"counts", "pages", "prices"}
  /\ running # "counts" => query = "done"
  /\ running # "prices" => \A f, g \in Fleet : fleets[f] = fleets[g]

\* Two requests count at the same time, and leave two results, where the query is
\* the orders that are done; one at a time where it is another.
FirstReader == CHOOSE r \in Reader : TRUE
ReadersTakeTurns == query # "done" => \A r \in Reader \ {FirstReader} : reader'[r] = IdleReader

Counting == running = "counts" /\ UNCHANGED <<pageVars, priceVars, running>>
Paging == running = "pages" /\ UNCHANGED <<countVars, priceVars, running>>
Pricing == running = "prices" /\ UNCHANGED <<countVars, pageVars, running>>

Next ==
  \/ Counting /\ CountsNext /\ ReadersTakeTurns
  \/ Paging /\ PagesNext
  \/ Pricing /\ PricesNext

\* The fairness of FairCountsSpec and FairPagesSpec.
ReadsSpec ==
  /\ Init /\ [][Next]_vars
  /\ WF_vars(Counting /\ Expire)
  /\ WF_vars(Paging /\ GetItems) /\ WF_vars(Paging /\ GetCount)
=============================================================================
