----------------------------- MODULE MCHexCodec -----------------------------
(***************************************************************************)
(* Values for the constants of HexCodec: two digits, one of them spelled   *)
(* in two ways, a space, and a character that is no digit.                 *)
(***************************************************************************)
EXTENDS HexCodec

MCLower == "zero" :> "0" @@ "ten" :> "a"
MCUpper == "zero" :> "0" @@ "ten" :> "A"
=============================================================================
