---------------------------- MODULE MCCanWorker ----------------------------
(* CanWorker on small instances: identifiers and payloads are model values  *)
(* that the code only compares, so they may be permuted.                    *)
EXTENDS CanWorker, TLC

Symmetry == Permutations(Ids) \cup Permutations(Payloads)
=============================================================================
