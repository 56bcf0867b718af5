---------------------------- MODULE MCSegmentUpload ----------------------------
(* Instances of SegmentUpload for TLC. *)
EXTENDS SegmentUpload
=============================================================================
