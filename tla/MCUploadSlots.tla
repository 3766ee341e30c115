--------------------------- MODULE MCUploadSlots ---------------------------
(* Instances of UploadSlots for TLC.  No symmetry: the run checks liveness. *)
EXTENDS UploadSlots
=============================================================================
