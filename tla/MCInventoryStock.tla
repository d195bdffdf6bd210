---------------------------- MODULE MCInventoryStock ----------------------------
(***************************************************************************)
(* The stock ledger on a small instance: one inventory row, two holds, one *)
(* order, two overlapping sweepers and one stock correction.  The run      *)
(* checks a liveness property, so no states are identified by symmetry.    *)
(***************************************************************************)
EXTENDS InventoryStock, TLC
=============================================================================
