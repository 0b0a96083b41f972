------------------------------ MODULE MCOrders ------------------------------
(* Instances of Orders for TLC. *)
EXTENDS Orders, TLC

\* Orders, workers, jobs, customers and fleets are interchangeable (surveys and
\* invoices are taken in a fixed order).  Only for runs of safety properties.
Interchangeable ==
  Permutations(Order) \cup Permutations(Worker) \cup Permutations(Job)
    \cup Permutations(Customer) \cup Permutations(Fleet)
=============================================================================
