---------------------------- MODULE MCFileInput ----------------------------
(* Instances of FileInput for TLC. *)
EXTENDS FileInput

=============================================================================
