--------------------------- MODULE MCAudioLibrary ---------------------------
(***************************************************************************)
(* Small instances of AudioLibrary: two ids, and programs that play one of *)
(* the clips or both.                                                      *)
(***************************************************************************)
EXTENDS AudioLibrary

OneOrBoth == {<<1>>, <<2, 1>>}
JustOne   == {<<1>>}
=============================================================================
