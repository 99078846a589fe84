--------------------------- MODULE MCJwtKeysCache ---------------------------
(***************************************************************************)
(* Instances of JwtKeysCache for TLC.                                      *)
(***************************************************************************)
EXTENDS JwtKeysCache

\* Configure's arguments: one that is ignored and two that are taken.
TimingIntervals == {0, 2, 3}
OneInterval     == {}
=============================================================================
