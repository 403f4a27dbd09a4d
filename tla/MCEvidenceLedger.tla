------------------------- MODULE MCEvidenceLedger -------------------------
(* EvidenceLedger with three commands on one ledger file, for TLC. *)
EXTENDS EvidenceLedger
=============================================================================
