--------------------------- MODULE MCEvidenceDelivery ---------------------------
(* Instances of EvidenceDelivery for TLC. *)
EXTENDS EvidenceDelivery, TLC
=============================================================================
