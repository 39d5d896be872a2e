---------------------------- MODULE MCReaderPool ----------------------------
(***************************************************************************)
(* ReaderPool with goroutines that ask for a small and a large buffer.      *)
(***************************************************************************)
EXTENDS ReaderPool, TLC

CONSTANTS g1, g2, g3, r1, r2, r3, r4

SomeRequests == g1 :> 1 @@ g2 :> 2 @@ g3 :> 2
ReaderSymmetry == Permutations({r1, r2, r3, r4})
============================================================================
