--------------------------- MODULE MCControlLock ---------------------------
(***************************************************************************)
(* Two browsers and a table of two sessions that last two ticks: one is    *)
(* pushed out, expires while it still takes up room, or is left behind by  *)
(* a page that has logged out.                                             *)
(***************************************************************************)
EXTENDS ControlLock, TLC

Alike == Permutations(Browsers)
=============================================================================
