-------------------------- MODULE MCSharedDirectory --------------------------
(***************************************************************************)
(* A directory of up to three names shared by the workers; workers and     *)
(* contents are interchangeable.                                           *)
(***************************************************************************)
EXTENDS SharedDirectory, TLC

Interchangeable == Permutations(Workers) \cup Permutations(Values)
=============================================================================
