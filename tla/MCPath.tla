------------------------------- MODULE MCPath -------------------------------
(* Instances of Path for TLC.                                              *)
EXTENDS Path, PathConfs

CONSTANTS p1, p2, r1, r2, r3, d1

(* Spec where no path has an origin node and stream.Initialize does not    *)
(* fail: the steps left out are those that cannot happen then.  Routing    *)
(* has them all.                                                           *)
RegularSpec == Init /\ [][RegularNext]_vars
=============================================================================
