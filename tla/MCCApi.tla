------------------------------- MODULE MCCApi -------------------------------
(* The instance of CApi for TLC.  Bytes have four values, a pthread_t four bytes
   of which it needs all, and a policy or a priority may need two. *)
EXTENDS CApi, TLC

CONSTANTS p1, p2, p3

MCHome == << 1, 2 >>
MCLevels == { << 0, 0 >>, << 4, 0 >>, << 1, 5 >> }
MCRealTime == { << 1, 5 >> }
MCSymmetry == Permutations(Ptrs)
=============================================================================
