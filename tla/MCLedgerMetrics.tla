--------------------------- MODULE MCLedgerMetrics ---------------------------
(* The instances of MCEventLedger for the specification of LedgerMetrics.    *)
EXTENDS LedgerMetrics, MCEventLedger
=============================================================================
