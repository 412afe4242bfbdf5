--------------------------- MODULE MCSessionPages ---------------------------
(* Sessions enough for a second page, and for a worker to take a second entry. *)
EXTENDS SessionPages

CONSTANTS clear, list
=============================================================================
