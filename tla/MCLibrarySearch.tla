--------------------------- MODULE MCLibrarySearch ---------------------------
(* Two folders besides the two defaults.                                   *)
EXTENDS LibrarySearch

CONSTANTS lib, local

MCDefaults == <<lib, local>>
=============================================================================
