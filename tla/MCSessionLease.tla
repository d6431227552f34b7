--------------------------- MODULE MCSessionLease ---------------------------
(* The instance of SessionLease is given by its configuration alone. *)
EXTENDS SessionLease
=============================================================================
