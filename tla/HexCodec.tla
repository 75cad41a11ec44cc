------------------------------ MODULE HexCodec ------------------------------
(***************************************************************************)
(* How bytes are read from text and written to it.  Addresses, words and   *)
(* byte code stand in the storage file and on the command line as strings  *)
(* of hexadecimal digits; impl_serde! reads and writes those of the file,  *)
(* two other readers serve command line options and binary files.          *)
(*                                                                         *)
(* A text is a sequence of characters, and bytes are the sequence of their *)
(* halves, two digits for each byte.  The model follows one field: it is   *)
(* read once from whatever text the user wrote, and then saved and loaded  *)
(* by one command after another.                                           *)
(***************************************************************************)
EXTENDS Naturals, SequencesExt

CONSTANTS
  Char,      \* characters
  Blank,     \* those str::trim removes, whitespace
  Digit,     \* values of a hexadecimal digit, 0 .. 15
  Lower,     \* the character hex::encode writes for a digit
  Upper,     \* its other spelling, which the readers accept
  Size,      \* digits of a fixed-size type: 40 for Address, 64 for Bytes32
  MaxText    \* bound: length of the text the user wrote

Readers == {"fixed", "JsonBytes", "decode params", "binary"}

ASSUME DigitsAssumption ==
  /\ {"0", "x", "X"} \cup Blank \subseteq Char
  /\ Lower \in [Digit -> Char \ ({"x", "X"} \cup Blank)]
  /\ Upper \in [Digit -> Char \ ({"x", "X"} \cup Blank)]
  /\ \A m, n \in Digit :
       {Lower[m], Upper[m]} \cap {Lower[n], Upper[n]} # {} => m = n

ASSUME SizeAssumption == Size \in Nat /\ Size % 2 = 0 /\ MaxText \in Nat

VARIABLES
  reader,    \* which code reads the field
  text,      \* the field as it stands in the file or on the command line
  value,     \* the bytes in memory, or << >>
  phase,     \* "text", "memory", "refused" with an error, "panicked"
  saved      \* the text was written by the program

vars == <<reader, text, value, phase, saved>>

Bytes == {s \in Seq(Digit) : Len(s) % 2 = 0}

-----------------------------------------------------------------------------
(* Reading.                                                                *)

Spelling(c) == {d \in Digit : c \in {Lower[d], Upper[d]}}

IsHex(s) == \A i \in DOMAIN s : Spelling(s[i]) # {}

(* hex::decode and hex::decode_to_slice, on hexadecimal digits.            *)
decode(s) == [i \in DOMAIN s |-> CHOOSE d \in Digit : d \in Spelling(s[i])]

HasPrefix(s, letters) == Len(s) >= 2 /\ s[1] = "0" /\ s[2] \in letters

(* Mutant: two characters go whatever they are.                            *)
strip_always(s, letters) == SubSeq(s, 3, Len(s))

strip(s, letters) == IF HasPrefix(s, letters) THEN SubSeq(s, 3, Len(s)) ELSE s

Solid(s) == {i \in DOMAIN s : s[i] \notin Blank}

trim(s) == IF Solid(s) = {} THEN << >> ELSE SubSeq(s, Min(Solid(s)), Max(Solid(s)))

(* The digits each reader takes from a text.  visit_str knows "0x",        *)
(* remove_0x "0X" too, hex::decode neither; load_binary trims its file.    *)
digits(r, s) ==
  CASE r \in {"fixed", "JsonBytes"} -> strip(s, {"x"})
    [] r = "decode params"          -> strip(s, {"x", "X"})
    [] r = "binary"                 -> trim(s)

(* An odd number of digits, a wrong number for a type of fixed size, or a  *)
(* character that is no digit.  parse_bytes checks the fixed size, and     *)
(* decode_to_slice would refuse another one itself; the rest is hex's.     *)
Invalid(r, s) ==
  \/ Len(digits(r, s)) % 2 # 0
  \/ r = "fixed" /\ Len(digits(r, s)) # Size
  \/ ~IsHex(digits(r, s))

(* visit_str slices off the two bytes it compares before it knows that     *)
(* there are two; a binary is unwrapped.                                   *)
Panics(r, s) ==
  \/ r \in {"fixed", "JsonBytes"} /\ Len(s) < 2
  \/ r = "binary" /\ Invalid(r, s)

Load ==
  /\ phase = "text"
  /\ phase' = IF Panics(reader, text) THEN "panicked"
              ELSE IF Invalid(reader, text) THEN "refused"
              ELSE "memory"
  /\ value' = IF phase' = "memory" THEN decode(digits(reader, text)) ELSE value
  /\ UNCHANGED <<reader, text, saved>>

-----------------------------------------------------------------------------
(* Writing.                                                                *)

encode(bytes) == [i \in DOMAIN bytes |-> Lower[bytes[i]]]

(* Mutants: the bytes themselves, as the derived Serialize writes them; no *)
(* prefix; the digits of a number, without its leading zeros.              *)
serialize_derived(bytes) == bytes

serialize_bare(bytes) == encode(bytes)

serialize_number(bytes) ==
  <<"0", "x">> \o encode(IF bytes # << >> /\ Lower[bytes[1]] = "0"
                           THEN Tail(Tail(bytes)) ELSE bytes)

serialize(bytes) == <<"0", "x">> \o encode(bytes)

(* Only the fields of the file are written back.                           *)
Save ==
  /\ phase = "memory"
  /\ reader \in {"fixed", "JsonBytes"}
  /\ text' = serialize(value)
  /\ phase' = "text"
  /\ saved' = TRUE
  /\ UNCHANGED <<reader, value>>

Init ==
  /\ reader \in Readers
  /\ \E n \in 0 .. MaxText : text \in [1 .. n -> Char]
  /\ value = << >>
  /\ phase = "text"
  /\ saved = FALSE

Stop ==
  /\ phase \in {"refused", "panicked"} \/ reader \in {"decode params", "binary"}
  /\ phase # "text"
  /\ UNCHANGED vars

Next == Load \/ Save \/ Stop

Spec == Init /\ [][Next]_vars

-----------------------------------------------------------------------------
(* Properties                                                              *)

TypeOK ==
  /\ reader \in Readers
  /\ text \in Seq(Char)
  /\ value \in Bytes
  /\ reader = "fixed" /\ phase = "memory" => Len(value) = Size
  /\ phase \in {"text", "memory", "refused", "panicked"}
  /\ saved \in BOOLEAN

(* What the program saved it can load: no field it wrote is refused or     *)
(* makes visit_str (evmc.rs:77) panic, not even code of length zero.       *)
SavedLoads == saved => phase \in {"text", "memory"}

(* Saving and loading change no field, however often a file is rewritten   *)
(* and however the user first spelled it.                                  *)
ValueKept == [][saved => value' = value]_vars

(* A value in memory is the one its text spells, digit by digit, and all   *)
(* that the text has besides the digits is a prefix, or in a binary file   *)
(* whitespace around them: no reader skips, repeats or invents a digit.    *)
Spells(r, s, bytes) ==
  \E skip \in 0 .. Len(s) :
    /\ skip + Len(bytes) <= Len(s)
    /\ \A i \in DOMAIN bytes : bytes[i] \in Spelling(s[skip + i])
    /\ IF r = "binary"
         THEN \A i \in DOMAIN s \ (skip + 1 .. skip + Len(bytes)) : s[i] \in Blank
         ELSE /\ skip + Len(bytes) = Len(s)
              /\ skip = 0 \/ (skip = 2 /\ HasPrefix(s, {"x", "X"}))

MeansWhatItSpells == phase = "memory" => Spells(reader, text, value)
=============================================================================
