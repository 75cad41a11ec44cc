--------------------------- MODULE HexCodecProofs ---------------------------
(***************************************************************************)
(* Proofs about HexCodec: for texts and bytes of any length, any alphabet  *)
(* whose digits can be told apart, and any size of the fixed types.        *)
(***************************************************************************)
EXTENDS HexCodec, SequenceTheorems, WellFoundedInduction, TLAPS

Writers == {"fixed", "JsonBytes"}

(* The length of a field of fixed size lasts while its text is written.    *)
SizeLasts ==
  reader = "fixed" /\ (phase = "memory" \/ saved) => Len(value) = Size

(* What the program saved stands for the value it still has.               *)
SavedStands == saved => reader \in Writers /\ text = serialize(value)

HexInv == TypeOK /\ SizeLasts /\ SavedLoads /\ SavedStands /\ MeansWhatItSpells

-----------------------------------------------------------------------------
(* Lemmas about reading and writing                                        *)

(* A segment of a text keeps its characters in their order.                *)
LEMMA Segment ==
  ASSUME NEW s \in Seq(Char), NEW a \in 1 .. Len(s) + 1, NEW b \in a - 1 .. Len(s)
  PROVE  LET rest == SubSeq(s, a, b)
         IN  /\ rest \in Seq(Char) /\ Len(rest) = b - (a - 1)
             /\ DOMAIN rest = 1 .. b - (a - 1)
             /\ \A i \in 1 .. b - (a - 1) : rest[i] = s[(a - 1) + i]
<1> DEFINE n == Len(s)  rest == SubSeq(s, a, b)
<1>1. n \in Nat /\ a \in Nat /\ b \in Nat /\ a >= 1 /\ a - 1 <= b /\ b <= n
  BY LenProperties
<1>2. \A j \in a .. b : s[j] \in Char
  <2> SUFFICES ASSUME NEW j \in a .. b PROVE s[j] \in Char
    OBVIOUS
  <2>1. j \in 1 .. n
    BY <1>1
  <2> QED  BY <2>1, ElementOfSeq
<1>3. /\ rest \in Seq(Char) /\ Len(rest) = IF a <= b THEN b - a + 1 ELSE 0
      /\ \A i \in 1 .. b - a + 1 : rest[i] = s[a + i - 1]
  BY <1>1, <1>2, SubSeqProperties
<1> HIDE DEF rest, n
<1>4. Len(rest) = b - (a - 1)
  BY <1>1, <1>3
<1>5. \A i \in 1 .. b - (a - 1) : rest[i] = s[(a - 1) + i]
  <2> SUFFICES ASSUME NEW i \in 1 .. b - (a - 1) PROVE rest[i] = s[(a - 1) + i]
    OBVIOUS
  <2>1. i \in 1 .. b - a + 1 /\ a + i - 1 = (a - 1) + i
    BY <1>1
  <2> QED  BY <1>3, <2>1
<1>6. DOMAIN rest = 1 .. b - (a - 1)
  BY <1>3, <1>4, LenProperties
<1> QED  BY <1>3, <1>4, <1>5, <1>6 DEF rest

(* Without its first two characters a text keeps the others.               *)
LEMMA WithoutTwo ==
  ASSUME NEW s \in Seq(Char), Len(s) >= 2
  PROVE  LET rest == SubSeq(s, 3, Len(s))
         IN  /\ rest \in Seq(Char) /\ Len(rest) = Len(s) - 2
             /\ DOMAIN rest = 1 .. Len(s) - 2
             /\ \A i \in 1 .. Len(s) - 2 : rest[i] = s[2 + i]
<1> DEFINE n == Len(s)
<1>1. n \in Nat /\ n >= 2
  BY LenProperties
<1> HIDE DEF n
<1>2. 3 \in 1 .. n + 1 /\ n \in 3 - 1 .. n /\ n - (3 - 1) = n - 2 /\ 3 - 1 = 2
  BY <1>1
<1>3. LET rest == SubSeq(s, 3, n)
      IN  /\ rest \in Seq(Char) /\ Len(rest) = n - (3 - 1)
          /\ DOMAIN rest = 1 .. n - (3 - 1)
          /\ \A i \in 1 .. n - (3 - 1) : rest[i] = s[(3 - 1) + i]
  BY <1>2, Segment DEF n
<1> QED  BY <1>2, <1>3 DEF n

(* Every set of numbers that has a member has a least one, and one of      *)
(* numbers up to a bound has a greatest one too.                           *)
LEMMA LeastAndGreatest ==
  ASSUME NEW n \in Nat, NEW S, S \subseteq 1 .. n, S # {}
  PROVE  /\ Min(S) \in S /\ \A j \in S : Min(S) <= j
         /\ Max(S) \in S /\ \A j \in S : j <= Max(S)
<1>1. ASSUME NEW T, T \subseteq Nat, T # {}
      PROVE  \E k \in T : \A m \in T : k <= m
  <2>1. PICK k \in T : \A m \in T : ~(<<m, k>> \in OpToRel(<, Nat))
    BY <1>1, NatLessThanWellFounded, WFMin
  <2>2. \A m \in T : ~(m < k)
    BY <1>1, <2>1 DEF OpToRel
  <2>3. \A m \in T : k <= m
    BY <1>1, <2>2
  <2> QED  BY <2>3
<1>2. \E x \in S : \A y \in S : x <= y
  <2>1. S \subseteq Nat
    OBVIOUS
  <2> QED  BY <1>1, <2>1
<1>3. \E x \in S : \A y \in S : x >= y
  <2> DEFINE T == {m \in Nat : n - m \in S}
  <2>1. PICK j \in S : TRUE
    OBVIOUS
  <2>2. n - j \in T
    <3>1. n - j \in Nat /\ n - (n - j) = j
      BY <2>1
    <3> QED  BY <2>1, <3>1
  <2>3. PICK k \in T : \A m \in T : k <= m
    BY <1>1, <2>2
  <2>4. \A y \in S : n - k >= y
    <3> SUFFICES ASSUME NEW y \in S PROVE n - k >= y
      OBVIOUS
    <3>1. n - y \in Nat /\ n - (n - y) = y
      OBVIOUS
    <3>2. k <= n - y
      BY <2>3, <3>1
    <3> QED  BY <2>3, <3>1, <3>2
  <2> QED  BY <2>3, <2>4
<1> QED  BY <1>2, <1>3 DEF Min, Max

(* What strip leaves are the last characters of a text.                    *)
LEMMA StripLeaves ==
  ASSUME NEW s \in Seq(Char), NEW letters, letters \subseteq {"x", "X"}
  PROVE  \E skip \in 0 .. Len(s) :
           /\ strip(s, letters) \in Seq(Char)
           /\ skip + Len(strip(s, letters)) = Len(s)
           /\ skip = 0 \/ (skip = 2 /\ HasPrefix(s, {"x", "X"}))
           /\ \A i \in DOMAIN strip(s, letters) :
                strip(s, letters)[i] = s[skip + i]
<1>1. Len(s) \in Nat
  BY LenProperties
<1>2. CASE HasPrefix(s, letters)
  <2> DEFINE rest == SubSeq(s, 3, Len(s))
  <2>1. Len(s) >= 2 /\ HasPrefix(s, {"x", "X"}) /\ strip(s, letters) = rest
    BY <1>2 DEF HasPrefix, strip
  <2>2. /\ rest \in Seq(Char) /\ Len(rest) = Len(s) - 2
        /\ DOMAIN rest = 1 .. Len(s) - 2
        /\ \A i \in 1 .. Len(s) - 2 : rest[i] = s[2 + i]
    BY <2>1, WithoutTwo
  <2> HIDE DEF rest
  <2>3. 2 \in 0 .. Len(s) /\ 2 + Len(rest) = Len(s)
    BY <1>1, <2>1, <2>2
  <2> QED  BY <2>1, <2>2, <2>3
<1>3. CASE ~HasPrefix(s, letters)
  <2>1. strip(s, letters) = s /\ 0 \in 0 .. Len(s) /\ 0 + Len(s) = Len(s)
    BY <1>1, <1>3 DEF strip
  <2>2. \A i \in DOMAIN s : 0 + i = i
    BY LenProperties
  <2> QED  BY <2>1, <2>2
<1> QED  BY <1>2, <1>3

(* What trim leaves stands between whitespace.                             *)
LEMMA TrimLeaves ==
  ASSUME NEW s \in Seq(Char)
  PROVE  \E skip \in 0 .. Len(s) :
           /\ trim(s) \in Seq(Char)
           /\ skip + Len(trim(s)) <= Len(s)
           /\ \A i \in DOMAIN s \ (skip + 1 .. skip + Len(trim(s))) : s[i] \in Blank
           /\ \A i \in DOMAIN trim(s) : trim(s)[i] = s[skip + i]
<1> DEFINE n == Len(s)
<1>1. n \in Nat /\ DOMAIN s = 1 .. n
  BY LenProperties
<1> HIDE DEF n
<1>2. Solid(s) \subseteq 1 .. n /\ \A i \in DOMAIN s \ Solid(s) : s[i] \in Blank
  BY <1>1 DEF Solid
<1>3. CASE Solid(s) = {}
  <2>1. /\ trim(s) = << >> /\ << >> \in Seq(Char) /\ Len(<< >>) = 0
        /\ DOMAIN << >> = {}
    BY <1>3, EmptySeq DEF trim
  <2>2. 0 \in 0 .. n /\ 0 + 0 <= n
    BY <1>1
  <2> QED  BY <1>2, <1>3, <2>1, <2>2 DEF n
<1>4. CASE Solid(s) # {}
  <2> DEFINE a == Min(Solid(s))  b == Max(Solid(s))  rest == SubSeq(s, a, b)
  <2>1. /\ a \in Solid(s) /\ \A j \in Solid(s) : a <= j
        /\ b \in Solid(s) /\ \A j \in Solid(s) : j <= b
    BY <1>1, <1>2, <1>4, LeastAndGreatest
  <2>2. trim(s) = rest
    BY <1>4 DEF trim
  <2> HIDE DEF a, b
  <2>3. /\ a \in 1 .. n + 1 /\ b \in a - 1 .. n
        /\ (a - 1) \in 0 .. n /\ (a - 1) + (b - (a - 1)) = b /\ b <= n
        /\ (a - 1) + 1 = a
    BY <1>1, <1>2, <2>1
  <2>4. /\ rest \in Seq(Char) /\ Len(rest) = b - (a - 1)
        /\ DOMAIN rest = 1 .. b - (a - 1)
        /\ \A i \in 1 .. b - (a - 1) : rest[i] = s[(a - 1) + i]
    BY <2>3, Segment DEF n
  <2>5. \A i \in DOMAIN s \ (a .. b) : s[i] \in Blank
    <3> SUFFICES ASSUME NEW i \in DOMAIN s \ (a .. b) PROVE i \notin Solid(s)
      BY <1>2
    <3> QED  BY <1>1, <2>1, <2>3
  <2> HIDE DEF rest
  <2> DEFINE skip == a - 1
  <2>6. skip \in 0 .. n /\ skip + Len(rest) = b /\ skip + 1 = a
    BY <2>3, <2>4
  <2>7. \A i \in DOMAIN rest : rest[i] = s[skip + i]
    BY <2>4
  <2> HIDE DEF skip
  <2> QED  BY <2>2, <2>3, <2>4, <2>5, <2>6, <2>7 DEF n
<1> QED  BY <1>3, <1>4

(* Every reader takes a segment of a text: all of it, or all but a prefix, *)
(* or what stands between whitespace.                                      *)
Taken(r, s, d) ==
  \E skip \in 0 .. Len(s) :
    /\ d \in Seq(Char)
    /\ skip + Len(d) <= Len(s)
    /\ \A i \in DOMAIN d : d[i] = s[skip + i]
    /\ IF r = "binary"
         THEN \A i \in DOMAIN s \ (skip + 1 .. skip + Len(d)) : s[i] \in Blank
         ELSE /\ skip + Len(d) = Len(s)
              /\ skip = 0 \/ (skip = 2 /\ HasPrefix(s, {"x", "X"}))

LEMMA DigitsTaken ==
  ASSUME NEW s \in Seq(Char), NEW r \in Readers
  PROVE  Taken(r, s, digits(r, s))
<1>1. Len(s) \in Nat
  BY LenProperties
<1>2. CASE r \in {"fixed", "JsonBytes", "decode params"}
  <2>1. PICK letters : /\ letters \subseteq {"x", "X"}
                       /\ digits(r, s) = strip(s, letters)
    <3>1. CASE r \in {"fixed", "JsonBytes"}
      BY <3>1 DEF digits
    <3>2. CASE r = "decode params"
      BY <3>2 DEF digits
    <3> QED  BY <1>2, <3>1, <3>2
  <2>2. PICK skip \in 0 .. Len(s) :
          /\ strip(s, letters) \in Seq(Char)
          /\ skip + Len(strip(s, letters)) = Len(s)
          /\ skip = 0 \/ (skip = 2 /\ HasPrefix(s, {"x", "X"}))
          /\ \A i \in DOMAIN strip(s, letters) :
               strip(s, letters)[i] = s[skip + i]
    BY <2>1, StripLeaves
  <2>3. \A n \in Nat : n <= n
    OBVIOUS
  <2>4. r # "binary"
    BY <1>2
  <2> QED  BY <1>1, <2>1, <2>2, <2>3, <2>4 DEF Taken
<1>3. CASE r = "binary"
  <2>1. digits(r, s) = trim(s)
    BY <1>3 DEF digits
  <2> QED  BY <1>3, <2>1, TrimLeaves DEF Taken
<1> QED  BY <1>2, <1>3 DEF Readers

(* decode turns every character into a digit that it spells.               *)
LEMMA DecodeSpells ==
  ASSUME NEW s \in Seq(Char), IsHex(s)
  PROVE  /\ decode(s) \in Seq(Digit) /\ Len(decode(s)) = Len(s)
         /\ DOMAIN decode(s) = DOMAIN s
         /\ \A i \in DOMAIN s : decode(s)[i] \in Spelling(s[i])
<1>1. Len(s) \in Nat /\ DOMAIN s = 1 .. Len(s)
  BY LenProperties
<1>2. \A i \in DOMAIN s : (CHOOSE d \in Digit : d \in Spelling(s[i])) \in Spelling(s[i])
  <2> SUFFICES ASSUME NEW i \in DOMAIN s
               PROVE  (CHOOSE d \in Digit : d \in Spelling(s[i])) \in Spelling(s[i])
    OBVIOUS
  <2>1. Spelling(s[i]) # {} /\ Spelling(s[i]) \subseteq Digit
    BY DEF IsHex, Spelling
  <2> QED  BY <2>1
<1>3. \A c : Spelling(c) \subseteq Digit
  BY DEF Spelling
<1>4. decode(s) = [i \in 1 .. Len(s) |-> CHOOSE d \in Digit : d \in Spelling(s[i])]
  BY <1>1 DEF decode
<1>5. decode(s) \in [1 .. Len(s) -> Digit]
  BY <1>1, <1>2, <1>3, <1>4
<1> HIDE DEF decode
<1>6. decode(s) \in Seq(Digit) /\ Len(decode(s)) = Len(s)
  BY <1>1, <1>5, LenProperties
<1> QED  BY <1>1, <1>2, <1>4, <1>6

(* A character spells one digit at most, so that nothing is lost: decode   *)
(* undoes encode, for bytes of any length.                                 *)
LEMMA DecodeEncode ==
  ASSUME NEW b \in Seq(Digit)
  PROVE  /\ encode(b) \in Seq(Char) /\ Len(encode(b)) = Len(b)
         /\ DOMAIN encode(b) = DOMAIN b
         /\ \A i \in DOMAIN b : encode(b)[i] = Lower[b[i]]
         /\ IsHex(encode(b)) /\ decode(encode(b)) = b
<1>1. Len(b) \in Nat /\ DOMAIN b = 1 .. Len(b) /\ \A i \in DOMAIN b : b[i] \in Digit
  BY LenProperties, ElementOfSeq
<1>2. \A d \in Digit : Lower[d] \in Char /\ Spelling(Lower[d]) = {d}
  <2>1. \A d \in Digit : Lower[d] \in Char
    BY DigitsAssumption
  <2>2. \A m, n \in Digit : {Lower[m], Upper[m]} \cap {Lower[n], Upper[n]} # {} => m = n
    BY DigitsAssumption
  <2>3. \A d \in Digit : Spelling(Lower[d]) = {d}
    BY <2>2 DEF Spelling
  <2> QED  BY <2>1, <2>3
<1>3. encode(b) \in [1 .. Len(b) -> Char]
  BY <1>1, <1>2 DEF encode
<1>4. \A i \in DOMAIN b : encode(b)[i] = Lower[b[i]]
  BY DEF encode
<1> DEFINE e == encode(b)
<1> HIDE DEF e
<1>5. e \in Seq(Char) /\ Len(e) = Len(b) /\ DOMAIN e = 1 .. Len(b)
  BY <1>1, <1>3, LenProperties DEF e
<1>6. \A i \in DOMAIN e : Spelling(e[i]) = {b[i]}
  BY <1>1, <1>2, <1>4, <1>5 DEF e
<1>7. IsHex(e)
  BY <1>6 DEF IsHex
<1>8. /\ decode(e) \in Seq(Digit) /\ Len(decode(e)) = Len(b)
      /\ \A i \in 1 .. Len(b) : decode(e)[i] = b[i]
  BY <1>5, <1>6, <1>7, DecodeSpells
<1>9. decode(e) = b
  BY <1>8, SeqEqual
<1> QED  BY <1>1, <1>4, <1>5, <1>7, <1>9 DEF e

(* What is written is read back by either reader of the file.              *)
LEMMA SerializeReads ==
  ASSUME NEW b \in Seq(Digit), NEW r \in Writers
  PROVE  /\ serialize(b) \in Seq(Char) /\ Len(serialize(b)) = Len(b) + 2
         /\ digits(r, serialize(b)) = encode(b)
<1> DEFINE e == encode(b)  t == serialize(b)
<1>1. e \in Seq(Char) /\ Len(e) = Len(b) /\ Len(b) \in Nat
  BY DecodeEncode, LenProperties
<1> HIDE DEF e
<1>2. <<"0", "x">> \in Seq(Char) /\ Len(<<"0", "x">>) = 2
  BY DigitsAssumption
<1>3. t = <<"0", "x">> \o e
  BY DEF serialize, e
<1> HIDE DEF t
<1>4. /\ t \in Seq(Char) /\ Len(t) = Len(b) + 2
      /\ t[1] = "0" /\ t[2] = "x"
      /\ \A i \in 1 .. Len(b) : t[2 + i] = e[i]
  BY <1>1, <1>2, <1>3, ConcatProperties
<1>5. digits(r, t) = SubSeq(t, 3, Len(t))
  <2>1. HasPrefix(t, {"x"})
    BY <1>1, <1>4 DEF HasPrefix
  <2>2. digits(r, t) = strip(t, {"x"})
    BY DEF digits, Writers
  <2> QED  BY <2>1, <2>2 DEF strip
<1> DEFINE rest == SubSeq(t, 3, Len(t))
<1>6. Len(t) >= 2 /\ Len(t) - 2 = Len(b)
  BY <1>1, <1>4
<1>7. /\ rest \in Seq(Char) /\ Len(rest) = Len(b)
      /\ \A i \in 1 .. Len(b) : rest[i] = t[2 + i]
  BY <1>4, <1>6, WithoutTwo
<1> HIDE DEF rest
<1>8. rest = e
  BY <1>1, <1>4, <1>7, SeqEqual
<1> QED  BY <1>4, <1>5, <1>8 DEF t, e, rest
-----------------------------------------------------------------------------
(* The invariant                                                           *)

LEMMA HexInvInit == Init => HexInv
<1> SUFFICES ASSUME Init PROVE HexInv
  OBVIOUS
<1>1. PICK n \in 0 .. MaxText : text \in [1 .. n -> Char]
  BY DEF Init
<1>2. text \in Seq(Char)
  BY <1>1, SizeAssumption
<1>3. << >> \in Seq(Digit) /\ Len(<< >>) = 0
  BY EmptySeq
<1>4. value \in Bytes
  BY <1>3 DEF Init, Bytes
<1> QED
  BY <1>2, <1>4
  DEF Init, HexInv, TypeOK, SizeLasts, SavedLoads, SavedStands, MeansWhatItSpells

(* What Load makes of a text the user wrote.                               *)
LEMMA LoadSpells ==
  ASSUME NEW s \in Seq(Char), NEW r \in Readers, ~Invalid(r, s)
  PROVE  LET b == decode(digits(r, s))
         IN  b \in Bytes /\ (r = "fixed" => Len(b) = Size) /\ Spells(r, s, b)
<1> DEFINE d == digits(r, s)  b == decode(d)
<1>1. Len(d) % 2 = 0 /\ (r = "fixed" => Len(d) = Size) /\ IsHex(d)
  BY DEF Invalid
<1>2. Taken(r, s, d)
  BY DigitsTaken
<1> HIDE DEF d
<1>3. PICK skip \in 0 .. Len(s) :
        /\ d \in Seq(Char)
        /\ \A i \in DOMAIN d : d[i] = s[skip + i]
        /\ skip + Len(d) <= Len(s)
        /\ IF r = "binary"
             THEN \A i \in DOMAIN s \ (skip + 1 .. skip + Len(d)) : s[i] \in Blank
             ELSE /\ skip + Len(d) = Len(s)
                  /\ skip = 0 \/ (skip = 2 /\ HasPrefix(s, {"x", "X"}))
  BY <1>2 DEF Taken
<1>4. /\ b \in Seq(Digit) /\ Len(b) = Len(d) /\ DOMAIN b = DOMAIN d
      /\ \A i \in DOMAIN d : b[i] \in Spelling(d[i])
  BY <1>1, <1>3, DecodeSpells
<1> HIDE DEF b
<1>5. b \in Bytes /\ (r = "fixed" => Len(b) = Size)
  BY <1>1, <1>4 DEF Bytes
<1>6. \A i \in DOMAIN b : b[i] \in Spelling(s[skip + i])
  BY <1>3, <1>4
<1>7. Spells(r, s, b)
  BY <1>3, <1>4, <1>6 DEF Spells
<1> QED  BY <1>5, <1>7 DEF b, d

(* A text the program wrote is neither refused nor sliced out of bounds,   *)
(* and its value is the one that was written.                              *)
LEMMA SavedIsRead ==
  ASSUME NEW b \in Bytes, NEW r \in Writers, r = "fixed" => Len(b) = Size
  PROVE  LET s == serialize(b)
         IN  ~Panics(r, s) /\ ~Invalid(r, s) /\ decode(digits(r, s)) = b
<1> DEFINE s == serialize(b)
<1>1. b \in Seq(Digit) /\ Len(b) % 2 = 0 /\ Len(b) \in Nat
  BY LenProperties DEF Bytes
<1>2. s \in Seq(Char) /\ Len(s) = Len(b) + 2 /\ digits(r, s) = encode(b)
  BY <1>1, SerializeReads
<1> HIDE DEF s
<1>3. Len(encode(b)) = Len(b) /\ IsHex(encode(b)) /\ decode(encode(b)) = b
  BY <1>1, DecodeEncode
<1>4. ~Invalid(r, s)
  BY <1>1, <1>2, <1>3 DEF Invalid
<1>5. ~(Len(s) < 2) /\ r # "binary"
  BY <1>1, <1>2 DEF Writers
<1> QED  BY <1>2, <1>3, <1>4, <1>5 DEF Panics, s

LEMMA LoadKeepsHexInv ==
  ASSUME HexInv, Load
  PROVE  HexInv' /\ (saved => value' = value)
<1>1. /\ reader \in Readers /\ text \in Seq(Char) /\ value \in Bytes
      /\ saved \in BOOLEAN
  BY DEF HexInv, TypeOK
<1>2. UNCHANGED <<reader, text, saved>> /\ phase = "text"
  BY DEF Load
<1>3. CASE phase' = "memory"
  <2>1. ~Panics(reader, text) /\ ~Invalid(reader, text)
    BY <1>3 DEF Load
  <2>2. value' = decode(digits(reader, text))
    BY <1>3 DEF Load
  <2>3. /\ value' \in Bytes /\ Spells(reader, text, value')
        /\ reader = "fixed" => Len(value') = Size
    BY <1>1, <2>1, <2>2, LoadSpells
  <2>4. saved => value' = value
    <3> SUFFICES ASSUME saved PROVE value' = value
      OBVIOUS
    <3>1. /\ reader \in Writers /\ text = serialize(value)
          /\ reader = "fixed" => Len(value) = Size
      BY DEF HexInv, SavedStands, SizeLasts
    <3> QED  BY <1>1, <2>2, <3>1, SavedIsRead
  <2>5. TypeOK'
    BY <1>1, <1>2, <1>3, <2>3 DEF TypeOK
  <2>6. (SizeLasts /\ SavedLoads /\ SavedStands)'
    BY <1>2, <1>3, <2>3, <2>4 DEF HexInv, SizeLasts, SavedLoads, SavedStands
  <2>7. MeansWhatItSpells'
    BY <1>2, <2>3 DEF MeansWhatItSpells
  <2> QED  BY <2>4, <2>5, <2>6, <2>7 DEF HexInv
<1>4. CASE phase' # "memory"
  <2>1. value' = value /\ phase' \in {"panicked", "refused"}
    BY <1>4 DEF Load
  <2>2. Panics(reader, text) \/ Invalid(reader, text)
    BY <1>4 DEF Load
  <2>3. ~saved
    <3> SUFFICES ASSUME saved PROVE FALSE
      OBVIOUS
    <3>1. /\ reader \in Writers /\ text = serialize(value)
          /\ reader = "fixed" => Len(value) = Size
      BY DEF HexInv, SavedStands, SizeLasts
    <3> QED  BY <1>1, <2>2, <3>1, SavedIsRead
  <2>4. TypeOK'
    BY <1>1, <1>2, <2>1 DEF TypeOK
  <2> QED
    BY <1>2, <1>4, <2>1, <2>3, <2>4
    DEF HexInv, SizeLasts, SavedLoads, SavedStands, MeansWhatItSpells
<1> QED  BY <1>3, <1>4

LEMMA HexInvNext == HexInv /\ [Next]_vars => HexInv' /\ (saved => value' = value)
<1> SUFFICES ASSUME HexInv, [Next]_vars
             PROVE  HexInv' /\ (saved => value' = value)
  OBVIOUS
<1>1. CASE Load
  BY <1>1, LoadKeepsHexInv
<1>2. CASE Save
  <2>1. /\ reader \in Writers /\ phase = "memory" /\ value \in Bytes
        /\ reader \in Readers
    BY <1>2 DEF Save, Writers, HexInv, TypeOK
  <2>2. /\ text' = serialize(value) /\ phase' = "text" /\ saved' = TRUE
        /\ UNCHANGED <<reader, value>>
    BY <1>2 DEF Save
  <2>3. serialize(value) \in Seq(Char)
    BY <2>1, SerializeReads DEF Bytes
  <2>4. TypeOK'
    BY <2>1, <2>2, <2>3 DEF TypeOK
  <2>5. SizeLasts'
    BY <2>1, <2>2 DEF HexInv, SizeLasts
  <2> QED
    BY <2>1, <2>2, <2>4, <2>5
    DEF HexInv, SavedLoads, SavedStands, MeansWhatItSpells
<1>3. CASE UNCHANGED vars
  BY <1>3
  DEF vars, HexInv, TypeOK, SizeLasts, SavedLoads, SavedStands, MeansWhatItSpells
<1> QED  BY <1>1, <1>2, <1>3 DEF Next, Stop

LEMMA HexInvariance == Spec => []HexInv
<1>1. HexInv /\ [Next]_vars => HexInv'
  BY HexInvNext
<1> QED  BY <1>1, HexInvInit, PTL DEF Spec

-----------------------------------------------------------------------------
(* Theorems                                                                *)

(* Every variable has its type; a field of fixed size has that size.       *)
THEOREM TypeCorrect == Spec => []TypeOK
<1>1. HexInv => TypeOK
  BY DEF HexInv
<1> QED  BY <1>1, HexInvariance, PTL

(* What the program saved it can load: impl_serde!'s serializer writes     *)
(* nothing that its visitor refuses or slices out of bounds.               *)
THEOREM SavedLoadsHolds == Spec => []SavedLoads
<1>1. HexInv => SavedLoads
  BY DEF HexInv
<1> QED  BY <1>1, HexInvariance, PTL

(* A value in memory is the one its text spells, whichever reader read it. *)
THEOREM MeansWhatItSpellsHolds == Spec => []MeansWhatItSpells
<1>1. HexInv => MeansWhatItSpells
  BY DEF HexInv
<1> QED  BY <1>1, HexInvariance, PTL

(* Saving and loading change no field, however often a file is rewritten.  *)
THEOREM ValueKeptHolds == Spec => ValueKept
<1>1. HexInv /\ [Next]_vars => [saved => value' = value]_vars
  BY HexInvNext
<1> QED  BY <1>1, HexInvariance, PTL DEF Spec, ValueKept
=============================================================================
