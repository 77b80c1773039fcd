------------------------------- MODULE MCRing -------------------------------
(***************************************************************************)
(* Small instances of Ring: the smallest ring the code creates (64 bytes,  *)
(* eight units), the real header and alignment (16 bytes, two units), and  *)
(* payloads giving frames of a quarter, a half and three quarters of the   *)
(* ring, so that frames fill it, wrap, need a PAD and are dropped.         *)
(***************************************************************************)
EXTENDS Ring, TLC

CONSTANTS t1, t2, child, nobody

MCThreads == {t1, t2}
MCThread == {t1}
MCExtremePayloads == {0, 3}
MCPayloads == {0, 1, 3}
ThreadSymmetry == Permutations(MCThreads)
=============================================================================
