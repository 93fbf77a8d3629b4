------------------------- MODULE MCGeiqAssessments -------------------------
(* One contract, two antennas, two tabs of the GEIQ and two workers.       *)
EXTENDS GeiqAssessments, TLC

Interchangeable == Permutations(Tabs) \union Permutations(Workers) \union Permutations(Antennas)
=============================================================================
