----------------------------- MODULE AbiCommands -----------------------------
(***************************************************************************)
(* `ethabi`: process chooses one of six commands, three that encode and    *)
(* three that decode.  A command runs from its options to what it prints,  *)
(* an error or a panic, and no command follows it.                         *)
(***************************************************************************)
EXTENDS Integers, Sequences

CONSTANTS Base, Places, Lead, CrateToken, MaxParams, MaxNumber, MaxValues, MaxLength

ASSUME WordAssumption ==
  /\ Base \in Nat \ {0, 1} /\ Base % 2 = 0
  /\ Places \subseteq Nat \ {0}
  /\ Lead \in Places /\ \A p \in Places : p = Lead \/ Base * p <= Lead

ASSUME BoundsAssumption ==
  /\ MaxParams \in Nat /\ MaxNumber \in Nat
  /\ MaxValues \in Nat /\ MaxLength \in Nat

VARIABLES
  sub,                      \* "encode" or "decode"
  command, values, phase,   \* as in both
  lenient, types, tokens,   \* as in AbiEncode
  data, bytes, printed      \* as in AbiDecode

onlyEncode == <<lenient, types, tokens>>
onlyDecode == <<data, bytes, printed>>
vars == <<sub, command, values, phase, onlyEncode, onlyDecode>>

Encode == INSTANCE AbiEncode
Decode == INSTANCE AbiDecode

Init ==
  \/ /\ sub = "encode"
     /\ Encode!Init
     /\ data = Decode!Absent /\ bytes = "none" /\ printed = << >>
  \/ /\ sub = "decode"
     /\ Decode!Init
     /\ lenient = TRUE /\ types = << >> /\ tokens = << >>

Next ==
  \/ sub = "encode" /\ Encode!Next /\ UNCHANGED <<sub, onlyDecode>>
  \/ sub = "decode" /\ Decode!Next /\ UNCHANGED <<sub, onlyEncode>>

Spec == Init /\ [][Next]_vars

-----------------------------------------------------------------------------
(* Properties: those of the command that runs.                             *)

(* Every variable has a value the command that runs can give it.           *)
TypeOK ==
  /\ sub \in {"encode", "decode"}
  /\ IF sub = "encode" THEN Encode!TypeOK ELSE Decode!TypeOK

(* Printed call data stand for the values given (contract_encode_input,    *)
(* constructor_encode_input, encode_params).                               *)
EncodesItsValues == sub = "encode" => Encode!EncodesItsValues

(* parse_tokens' arithmetic panics for a negative zero only.               *)
OnlyMinusZeroPanics == sub = "encode" => Encode!OnlyMinusZeroPanics

(* `decode params` prints what was decoded, through decode_params' escaping*)
(* and serde_json's parsing.                                               *)
ParamsPrintsValues == sub = "decode" => Decode!ParamsPrintsValues

(* The unwrap of serde_json::from_str panics on certain values only.       *)
HarmlessValuesPrinted == sub = "decode" => Decode!HarmlessValuesPrinted
=============================================================================
