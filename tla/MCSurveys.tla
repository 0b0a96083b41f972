----------------------------- MODULE MCSurveys -----------------------------
(* Instances of Surveys for TLC. *)
EXTENDS Surveys, TLC

\* Drivers, dates, orders and callers are interchangeable (rows are taken in a
\* fixed order).  Only for runs of safety properties.
Interchangeable ==
  Permutations(Driver) \cup Permutations(Start) \cup Permutations(Order)
    \cup Permutations(Caller)
=============================================================================
