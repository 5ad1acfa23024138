------------------------------- MODULE MCHal --------------------------------
(* Instances of Hal for TLC.                                               *)
EXTENDS Hal

(* One frame of every kind, and stamps that repeat, go back or are absent. *)
MCArrivals ==
  [kind : {"classic"}, ts : 0..2] \cup [kind : {"fd", "bad", "passive", "busoff", "notice"}, ts : {2}]

=============================================================================
