----------------------------- MODULE MCRtAndroid -----------------------------
(* The instance of RtAndroid for TLC: nice values below the one of a promoted
   thread, the ambiguous -1, and ordinary ones; floors that allow everything,
   only the promotion, or nothing. *)
EXTENDS RtAndroid

CONSTANTS t1, t2

MCNices == {-20, -1, 0, 10}
MCFloors == {-20, -19, 0, 20}
=============================================================================
