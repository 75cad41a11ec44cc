---------------------------- MODULE MCAbiCommands ----------------------------
(* Words of two digits in base 4: sixteen values, eight of them negative.  *)
EXTENDS AbiCommands

MCPlaces == {1, 4}
=============================================================================
