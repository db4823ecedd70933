--------------------------- MODULE MCNaiveSocket ----------------------------
(***************************************************************************)
(* Small instances of NaiveSocket: the callers' requests a (plain), b      *)
(* (urgent) and c (silent). The sets are given by the .cfg files.          *)
(***************************************************************************)
EXTENDS NaiveSocket

=============================================================================
