----------------------------- MODULE MCAsyncLog -----------------------------
(***************************************************************************)
(* AsyncLog over a calendar of two-day months: day 3 is the first of the   *)
(* month again, as day 1 was.                                              *)
(***************************************************************************)
EXTENDS AsyncLog

TwoDayMonths == [d \in 1..MaxDays |-> IF d % 2 = 1 THEN 1 ELSE 2]
=============================================================================
