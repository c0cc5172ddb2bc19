--------------------------- MODULE MCExtractions ---------------------------
(* Instances of the extraction pipeline for TLC. *)
EXTENDS Extractions, TLC

Symmetry == Permutations(Workers) \cup Permutations(Clients) \cup Permutations(Users)
=============================================================================
