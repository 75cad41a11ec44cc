------------------------------ MODULE AbiEncode ------------------------------
(***************************************************************************)
(* The commands `ethabi encode function`, `constructor` and `params`:      *)
(* values given as text on the command line become words of the call data. *)
(* The encoding of the words, and the tokens of all types but integers,    *)
(* are the ethabi crate's.  This program parses integers itself, unless    *)
(* --no-lenient is given, and pairs values with parameters.                *)
(*                                                                         *)
(* A word has 64 hexadecimal digits in the code.  Here their base and      *)
(* number are constants, so that a small word has every edge of a large    *)
(* one; an integer parameter has the full width.                           *)
(***************************************************************************)
EXTENDS Integers, SequencesExt

CONSTANTS
  Base,        \* 16: the base of a word's digits
  Places,      \* the place values of a word's digits, 16^0 .. 16^63
  Lead,        \* the largest of them
  CrateToken,  \* a token the ethabi crate made of a text itself
  MaxParams,   \* bound: parameters, and values given
  MaxNumber    \* bound: the numbers the user may write

Modulus == Base * Lead      \* 2^256
Half    == Modulus \div 2

VARIABLES
  command,   \* which of the three commands
  lenient,   \* --no-lenient is not given
  types,     \* parameter types, from the ABI file or the command line
  values,    \* the texts given for them
  tokens,    \* the tokens parsed so far, words where parsed here
  phase      \* "parsing", "encoded", "refused" with an error, "panicked"

vars == <<command, lenient, types, values, tokens, phase>>

Commands == {"function", "constructor", "params"}

(* other: a type the crate parses, arrays of integers among them.          *)
Type == {"uint", "int", "other"}

Word == 0 .. Modulus - 1

Token == Word \cup {CrateToken}

(* A text of decimal digits behind a minus sign or none, or any other text.*)
(* No digits at all are zero for from_dec_str.                             *)
Text == [digits : BOOLEAN, minus : BOOLEAN, number : Nat]

-----------------------------------------------------------------------------
(* Parsing one value.                                                      *)

(* parse_tokens handles the type itself.                                   *)
OwnParser(type) == lenient /\ type \in {"uint", "int"}

(* from_dec_str knows digits only, and 256 bits.                           *)
Refused(type, text) ==
  \/ ~text.digits
  \/ text.minus /\ type = "uint"
  \/ text.number \notin Word

(* The smallest power of the base that a number is below.                  *)
Ceiling(n) ==
  CHOOSE c \in {Base * p : p \in Places} :
    n < c /\ \A p \in Places : n < Base * p => c <= Base * p

(* format!("{:f>64}"): the leading digits that are missing become f.       *)
fill(n) == n + (Modulus - Ceiling(n))

(* Mutants: complement without the increment, or after it.                 *)
complement_only(n) == Modulus - 1 - n

complement_of_next(n) == Modulus - 1 - (n + 1)

(* !x + 1, before it is known whether the sum has 256 bits.                *)
complement(n) == (Modulus - 1 - n) + 1

(* The crate answers arithmetic that leaves 256 bits with a panic.         *)
Overflows(text) == text.minus /\ complement(text.number) \notin Word

word(text) == IF text.minus THEN fill(complement(text.number)) ELSE text.number

-----------------------------------------------------------------------------
(* The commands.                                                           *)

(* zip ends with the shorter of parameters and values.                     *)
Pairs == IF Len(types) <= Len(values) THEN Len(types) ELSE Len(values)

Init ==
  /\ command \in Commands
  /\ lenient \in BOOLEAN
  /\ \E m, n \in 0 .. MaxParams :
       /\ command = "params" => m = n /\ n > 0
       /\ types \in [1 .. m -> Type]
       /\ values \in [1 .. n -> {text \in [digits : BOOLEAN, minus : BOOLEAN,
                                           number : 0 .. MaxNumber] :
                                   ~text.digits => text.number = 0 /\ ~text.minus}]
  /\ tokens = << >>
  /\ phase = "parsing"

(* The next pair; the first error ends the iteration.                      *)
Pair == Len(tokens) + 1

Unparsed == phase = "parsing" /\ Len(tokens) < Pairs

ParseInteger ==
  /\ Unparsed
  /\ LET type == types[Pair]
         text == values[Pair]
     IN  /\ OwnParser(type)
         /\ phase' = IF Refused(type, text) THEN "refused"
                     ELSE IF Overflows(text) THEN "panicked"
                     ELSE phase
         /\ tokens' = IF phase' = "parsing" THEN Append(tokens, word(text)) ELSE tokens
  /\ UNCHANGED <<command, lenient, types, values>>

(* What LenientTokenizer and StrictTokenizer make of a text is theirs to   *)
(* say: a token or an error.                                               *)
ParseOther ==
  /\ Unparsed
  /\ ~OwnParser(types[Pair])
  /\ \/ tokens' = Append(tokens, CrateToken) /\ UNCHANGED phase
     \/ phase' = "refused" /\ UNCHANGED tokens
  /\ UNCHANGED <<command, lenient, types, values>>

(* Function::encode_input and Constructor::encode_input check the tokens   *)
(* against the parameters; `params` calls encode, which cannot.            *)
Checked == command \in {"function", "constructor"}

Encode ==
  /\ phase = "parsing"
  /\ Len(tokens) = Pairs
  /\ phase' = IF Checked /\ Len(tokens) # Len(types) THEN "refused" ELSE "encoded"
  /\ UNCHANGED <<command, lenient, types, values, tokens>>

Ended == phase # "parsing" /\ UNCHANGED vars

Next == ParseInteger \/ ParseOther \/ Encode \/ Ended

Spec == Init /\ [][Next]_vars

-----------------------------------------------------------------------------
(* Properties                                                              *)

TypeOK ==
  /\ command \in Commands
  /\ lenient \in BOOLEAN
  /\ types \in Seq(Type)
  /\ values \in Seq(Text)
  /\ tokens \in Seq(Token) /\ Len(tokens) <= Pairs
  /\ phase \in {"parsing", "encoded", "refused", "panicked"}

(* The number a text stands for, and the one a signed word stands for.     *)
Number(text) == IF text.minus THEN -text.number ELSE text.number

Denotes(w) == IF w >= Half THEN w - Modulus ELSE w

InRange(n) == -Half <= n /\ n < Half

(* Call data that is printed has one token for every parameter.  The word  *)
(* of a uint stands for the number its text gives, whatever that is; the   *)
(* word of an int does where the number is in the range of a word, both    *)
(* edges included.                                                         *)
EncodesItsValues ==
  phase = "encoded" =>
    /\ Len(tokens) = Len(types)
    /\ \A i \in DOMAIN types :
         OwnParser(types[i]) =>
           /\ values[i].digits
           /\ types[i] = "int" /\ InRange(Number(values[i])) =>
                Denotes(tokens[i]) = Number(values[i])
           /\ types[i] = "uint" => tokens[i] = Number(values[i])

(* The increment of a complement (abi.rs:28) overflows for a minus sign    *)
(* before zero only: no other text makes these commands panic.             *)
OnlyMinusZeroPanics ==
  phase = "panicked" =>
    types[Pair] = "int" /\ values[Pair].minus /\ Number(values[Pair]) = 0
=============================================================================
