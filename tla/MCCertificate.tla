--------------------------- MODULE MCCertificate ----------------------------
(***************************************************************************)
(* A field id that is negative as a Java short; the reserved ones are not. *)
(***************************************************************************)
EXTENDS Certificate, TLC

MCIds == {40961}

Symmetry == Permutations(Entities)
=============================================================================
