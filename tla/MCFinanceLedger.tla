--------------------------- MODULE MCFinanceLedger ---------------------------
(* Instances of FinanceLedger for TLC. *)
EXTENDS FinanceLedger

=============================================================================
