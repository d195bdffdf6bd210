--------------------------- MODULE MCSettlementLedger ---------------------------
(***************************************************************************)
(* Settlements, returns and payouts on small instances.                    *)
(***************************************************************************)
EXTENDS SettlementLedger, TLC
=============================================================================
