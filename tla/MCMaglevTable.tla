---------------------------- MODULE MCMaglevTable ----------------------------
(***************************************************************************)
(* Tables of the sizes 2, 3 and 5, which MaglevConfig::new makes of 1, 3   *)
(* and 4, and 1 and 4, which the builder accepts, for up to three virtual  *)
(* nodes with any offsets and skips.                                       *)
(***************************************************************************)
EXTENDS MaglevTable

MCWeightLists == {<<>>, <<1, 0>>, <<1>>, <<1, 1>>, <<2, 1>>}
=============================================================================
