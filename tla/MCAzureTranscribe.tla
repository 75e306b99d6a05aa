------------------------- MODULE MCAzureTranscribe -------------------------
(* The recognizers and the callers of AzureTranscribe are alike.           *)
EXTENDS AzureTranscribe, TLC

Symmetry == Permutations(Cbs) \cup Permutations(Callers)
=============================================================================
