---------------------------- MODULE MCGilBoundary ----------------------------
(* Two Python threads and one runtime thread, for GilBoundary. *)
EXTENDS GilBoundary
=============================================================================
