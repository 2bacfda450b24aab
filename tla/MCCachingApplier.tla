--------------------------- MODULE MCCachingApplier ---------------------------
(***************************************************************************)
(* Instances of CachingApplier for model checking.                         *)
(***************************************************************************)
EXTENDS CachingApplier, TLC

\* Concurrent callers, and the contents they ask for, are interchangeable.
Interchangeable == Permutations(Appliers) \union Permutations(Wishes)
==============================================================================
