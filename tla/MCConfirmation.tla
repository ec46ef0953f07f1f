--------------------------- MODULE MCConfirmation ---------------------------
(***************************************************************************)
(* Confirmation with two named tests and two runs the machine may disturb. *)
(* A demand of 1 fits its budget, 2 fits the loosened one, 4 fits neither. *)
(***************************************************************************)
EXTENDS Confirmation

MCDemands == {1, 2, 4}
=============================================================================
