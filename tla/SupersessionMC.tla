--------------------------- MODULE SupersessionMC ---------------------------
(* Three memories; the second contradicts the first and the third. *)
EXTENDS Supersession

CONSTANTS x, y, p1, p2

Alternating == <<x, y, x>>
=============================================================================
