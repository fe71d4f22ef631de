----------------------------- MODULE MCCalendar -----------------------------
(* Instances of Calendar for TLC: around the ends of February and of the   *)
(* year.                                                                   *)
EXTENDS Calendar, TLC

At(h, d, m, y) == [scale |-> 1, time |-> h, day |-> d, month |-> m, year |-> y]
February == At(21, 28, 1, 201)
December == At(22, 31, 11, 201)
MCStarts == {February, December}
MCDates == {[day |-> 0, month |-> 0, year |-> 202]}

Interchangeable == Permutations(Clients)
=============================================================================
