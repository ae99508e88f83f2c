------------------------------- MODULE Calendar -------------------------------
(***************************************************************************)
(* Days and calendar months, as the clocks of packages/projector/src/      *)
(* fold.ts count them: days are exact, and a month before or after a day   *)
(* is the same day of another month, clamped to that month's last.         *)
(* A day is its number from the first of the first month the model covers. *)
(***************************************************************************)
LOCAL INSTANCE Integers
LOCAL INSTANCE Sequences

CONSTANT Lengths      \* the months of the model, in order: how many days each has

ASSUME LengthsAssumption == Lengths \in Seq(28..31)

\* The number of days before a month.
DaysBefore[m \in 1..Len(Lengths) + 1] ==
  IF m = 1 THEN 0 ELSE DaysBefore[m - 1] + Lengths[m - 1]

LastDay == DaysBefore[Len(Lengths) + 1]

MonthOf == [d \in 1..LastDay |-> CHOOSE m \in DOMAIN Lengths : d \in DaysBefore[m] + 1..DaysBefore[m + 1]]
DayOfMonth(d) == d - DaysBefore[MonthOf[d]]

\* The same day of month m, clamped to it.
InMonth(d, m) ==
  DaysBefore[m] + (IF DayOfMonth(d) > Lengths[m] THEN Lengths[m] ELSE DayOfMonth(d))

\* monthsBefore, which counts forward when n is negative.  What lies outside
\* the months of the model is before or after all of its days.
MonthsBefore(d, n) ==
  LET m == MonthOf[d] - n IN
  IF m < 1 THEN 0 ELSE IF m > Len(Lengths) THEN LastDay + 1 ELSE InMonth(d, m)

NoWindow == [unit |-> "none", num |-> 0]

WindowThreshold(d, w) == IF w.unit = "days" THEN d - w.num ELSE MonthsBefore(d, w.num)
WindowExpiry(d, w) == IF w.unit = "days" THEN d + w.num ELSE MonthsBefore(d, -w.num)
=============================================================================
