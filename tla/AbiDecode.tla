------------------------------ MODULE AbiDecode ------------------------------
(***************************************************************************)
(* The commands `ethabi decode params`, `function` and `log`: data given   *)
(* as text become bytes, the ethabi crate decodes them, and each decoded   *)
(* value is written into a line of JSON by hand, which the command parses  *)
(* with serde_json and prints as part of an array.                         *)
(*                                                                         *)
(* The crate is external: from bytes it may decode any values or none.     *)
(* Values are the texts of strings, over one character for each way JSON   *)
(* and Rust treat characters; the text of every other type is plain.       *)
(***************************************************************************)
EXTENDS Naturals, SequencesExt

CONSTANTS
  MaxValues,   \* bound: values the data hold
  MaxLength    \* bound: length of a value

VARIABLES
  command,   \* which of the three commands
  data,      \* the text of --data, or Absent
  bytes,     \* what the decoder was given: "decoded" hex, the "text", "none"
  values,    \* the texts of the decoded values
  printed,   \* the JSON strings parsed so far
  phase      \* "started", "decoded", "printed", "refused", "panicked"

vars == <<command, data, bytes, values, printed, phase>>

Commands == {"params", "function", "log"}

(* The spellings of --data: with a prefix, without, and no hexadecimal.    *)
Data == {"hex", "0xhex", "0Xhex", "junk"}
Absent == "absent"

(* "n" stands for all plain characters, the newline for tabs and carriage  *)
(* returns too, control for the other control characters of ASCII, and     *)
(* u-umlaut for all beyond ASCII, with DEL.                                *)
Char == {"n", "'", "quote", "backslash", "newline", "control", "umlaut"}

Texts == UNION {[1 .. n -> Char] : n \in 0 .. MaxLength}

-----------------------------------------------------------------------------
(* From --data to bytes.                                                   *)

(* clap insists on --data for `function` and `log` only.                   *)
Options == {option \in Commands \X (Data \cup {Absent}) :
              option[2] = Absent => option[1] = "params"}

Init ==
  /\ \E option \in Options : command = option[1] /\ data = option[2]
  /\ bytes = "none"
  /\ values = << >>
  /\ printed = << >>
  /\ phase = "started"

(* Mutant: what hex::decode refuses is taken for no data at all.           *)
Accepted_or_empty(c) == Data

(* `params` removes a prefix and `log` knows none before they decode the   *)
(* digits; `function` takes the characters themselves for bytes.           *)
Accepted(c) ==
  CASE c = "params"   -> {"hex", "0xhex", "0Xhex"}
    [] c = "log"      -> {"hex"}
    [] c = "function" -> Data

Given(c) == IF c = "function" THEN "text" ELSE "decoded"

Decode ==
  /\ phase = "started"
  /\ bytes' = IF data \in Accepted(command) THEN Given(command) ELSE "none"
  /\ \/ /\ bytes' # "none"
        /\ phase' = "decoded"
        /\ \E n \in 0 .. MaxValues : values' \in [1 .. n -> Texts]
     \/ /\ phase' = IF data = Absent THEN "panicked" ELSE "refused"
        /\ UNCHANGED values
  /\ UNCHANGED <<command, data, printed>>

-----------------------------------------------------------------------------
(* From values to JSON and back.                                           *)

(* str::escape_default, character by character.                            *)
escape_default(c) ==
  CASE c = "n"         -> <<"n">>
    [] c = "'"         -> <<"backslash", "'">>
    [] c = "quote"     -> <<"backslash", "quote">>
    [] c = "backslash" -> <<"backslash", "backslash">>
    [] c = "newline"   -> <<"backslash", "n">>
    [] c \in {"control", "umlaut"} -> <<"backslash", "u", "{", "}">>

(* Mutants: `params` does not escape either; it escapes quotes only.       *)
render_raw(c, text) == text

render_quotes(c, text) ==
  FlattenSeq([i \in DOMAIN text |->
    IF text[i] = "quote" THEN escape_default("quote") ELSE <<text[i]>>])

(* What is written between the quotes of the JSON string.                  *)
render(c, text) ==
  IF c = "params" THEN FlattenSeq([i \in DOMAIN text |-> escape_default(text[i])])
                  ELSE text

(* The rules of JSON: how a string may be written.                         *)
Json(c) ==
  CASE c \in {"n", "'", "umlaut"} -> <<c>>
    [] c = "quote"                -> <<"backslash", "quote">>
    [] c = "backslash"            -> <<"backslash", "backslash">>
    [] c = "newline"              -> <<"backslash", "n">>
    [] c = "control"              -> <<"backslash", "u", "0">>

(* The texts serde_json reads from what was written: one or none.          *)
from_str(written) ==
  {t \in Texts : FlattenSeq([i \in DOMAIN t |-> Json(t[i])]) = written}

Value == values[Len(printed) + 1]

ParseJson ==
  /\ phase = "decoded"
  /\ Len(printed) < Len(values)
  /\ LET read == from_str(render(command, Value))
     IN  \/ \E t \in read : printed' = Append(printed, t) /\ UNCHANGED phase
         \/ read = {} /\ phase' = "panicked" /\ UNCHANGED printed
  /\ UNCHANGED <<command, data, bytes, values>>

Finish ==
  /\ phase = "decoded"
  /\ Len(printed) = Len(values)
  /\ phase' = "printed"
  /\ UNCHANGED <<command, data, bytes, values, printed>>

Ended == phase \in {"printed", "refused", "panicked"} /\ UNCHANGED vars

Next == Decode \/ ParseJson \/ Finish \/ Ended

Spec == Init /\ [][Next]_vars

-----------------------------------------------------------------------------
(* Properties                                                              *)

TypeOK ==
  /\ <<command, data>> \in Options
  /\ bytes \in {"none", "text", "decoded"}
  /\ bytes = "decoded" => data \in {"hex", "0xhex", "0Xhex"}
  /\ values \in Seq(Texts)
  /\ printed \in Seq(Texts) /\ Len(printed) <= Len(values)
  /\ phase \in {"started", "decoded", "printed", "refused", "panicked"}

(* What `params` prints are the values that were decoded, all of them:     *)
(* escape_default (abi.rs:166) is no JSON encoding, but where its output   *)
(* parses it is read back as the text it was made from.                    *)
ParamsPrintsValues ==
  command = "params" =>
    /\ IsPrefix(printed, values)
    /\ phase = "printed" => printed = values

(* Which values each command prints without fail: `params` those without   *)
(* an apostrophe, a control character other than tab and the ends of lines,*)
(* and characters beyond ASCII; the other two those with nothing that JSON *)
(* must escape.  Texts of numbers, addresses and bytes are among both.     *)
Harmless ==
  IF command = "params" THEN {"n", "quote", "backslash", "newline"}
                        ELSE {"n", "'", "umlaut"}

HarmlessValuesPrinted ==
  phase = "panicked" /\ data # Absent => Value \notin Seq(Harmless)
=============================================================================
