------------------------- MODULE MCSiaeEvaluations -------------------------
EXTENDS SiaeEvaluations, TLC
(* Nothing tells companies, applications or criteria apart.                *)
Interchangeable == Permutations(Siaes) \union Permutations(Apps) \union Permutations(Crits)
============================================================================
