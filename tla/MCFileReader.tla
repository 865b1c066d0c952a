---- MODULE MCFileReader ----
(* Model checking of FileReader; the configurations give the constants. *)
EXTENDS FileReader

====
