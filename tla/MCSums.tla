-------------------------------- MODULE MCSums --------------------------------
(* Two jobs whose sums come out wrong.                                        *)
EXTENDS Sums

\* More than one tasklet, on numbers that repeat.
UniJobs == {[app |-> "UNI", dat |-> <<0, 0, 1, 1, 2>>, dpus |-> 1, nt |-> 2]}

\* Five words in shares of two: the last tasklet would start behind the end.
RedJobs == {[app |-> "RED", dat |-> <<0, 1, 2, 3, 4>>, dpus |-> 1, nt |-> 4]}
===============================================================================
