----------------------------- MODULE MCRunSpec -----------------------------
(* Instances of RunSpec for TLC.                                           *)
EXTENDS RunSpec

AllShapes == [Recorded -> Shape]

(* The first object is needed, as the tag is, and the second may be one    *)
(* that the release does not want, as docs may be; either of the last two  *)
(* may be optional, as a hook is.                                          *)
TagFirstShapes ==
  {s \in AllShapes :
     /\ s[1] = [wanted |-> TRUE, blocking |-> TRUE]
     /\ s[2].wanted \/ s[2].blocking
     /\ s[2].blocking \/ s[3].blocking
     /\ s[3].wanted}
=============================================================================
