--------------------------- MODULE MCCronChecker ----------------------------
(* Instances of CronChecker for TLC: an interval that cannot be parsed,    *)
(* and one that can.                                                       *)
EXTENDS CronChecker

MCIntervals == {Unparsable, Longest}

=============================================================================
