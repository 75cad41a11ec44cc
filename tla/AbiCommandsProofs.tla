-------------------------- MODULE AbiCommandsProofs --------------------------
(***************************************************************************)
(* Proofs about AbiCommands: for parameters, values and texts of any       *)
(* number and length, and words of any even base and any number of digits. *)
(*                                                                         *)
(* What the commands promise rests on what a recursive function computes:  *)
(* FlattenSeq puts the characters of a text one behind the other.  That is *)
(* proved by induction on its partial results, with the induction itself   *)
(* made from the least counterexample of a set of numbers.                 *)
(***************************************************************************)
EXTENDS AbiCommands, SequenceTheorems, WellFoundedInduction, TLAPS

-----------------------------------------------------------------------------
(* Induction                                                               *)

(* Every set of numbers that has a member has a least one: induction, in   *)
(* the form of a least counterexample.                                     *)
LEMMA LeastNumber ==
  ASSUME NEW T, T \subseteq Nat, T # {}
  PROVE  \E n \in T : \A m \in T : n <= m
<1>1. PICK n \in T : \A m \in T : ~(<<m, n>> \in OpToRel(<, Nat))
  BY NatLessThanWellFounded, WFMin
<1>2. \A m \in T : ~(m < n)
  BY <1>1 DEF OpToRel
<1>3. \A m \in T : n <= m
  BY <1>2
<1> QED  BY <1>3

(* A set that holds 0 and with every number its successor holds them all.  *)
LEMMA Induction ==
  ASSUME NEW T, 0 \in T, \A n \in Nat : n \in T => n + 1 \in T
  PROVE  Nat \subseteq T
<1> SUFFICES ASSUME Nat \ T # {} PROVE FALSE
  OBVIOUS
<1>1. PICK n \in Nat \ T : \A m \in Nat \ T : n <= m
  BY LeastNumber
<1>2. n - 1 \in Nat /\ ~(n <= n - 1) /\ (n - 1) + 1 = n
  BY <1>1
<1>3. n - 1 \in T
  BY <1>1, <1>2
<1> QED  BY <1>1, <1>2, <1>3

-----------------------------------------------------------------------------
(* FlattenSeq                                                              *)

(* The partial results of FlattenSeq: f[k] are the first k of the sequences*)
(* in one.                                                                 *)
Flattens(f, seqs, n) ==
  f = [i \in 1 .. n |-> IF i = 1 THEN seqs[i] ELSE f[i - 1] \o seqs[i]]

LEMMA FlattensExists ==
  ASSUME NEW seqs
  PROVE  \A n \in Nat : \E f : Flattens(f, seqs, n)
<1> DEFINE T == {n \in Nat : \E f : Flattens(f, seqs, n)}
<1>1. 0 \in T
  <2> DEFINE f == [i \in 1 .. 0 |-> seqs]
  <2>1. Flattens(f, seqs, 0)
    BY DEF Flattens
  <2> QED  BY <2>1
<1>2. ASSUME NEW n \in Nat, n \in T PROVE n + 1 \in T
  <2>1. PICK f : Flattens(f, seqs, n)
    BY <1>2
  <2> DEFINE Longer(h) == [i \in 1 .. n + 1 |->
                             IF i = 1 THEN seqs[i] ELSE h[i - 1] \o seqs[i]]
             g == Longer(f)
  <2>2. \A i \in 1 .. n : g[i] = f[i]
    <3> SUFFICES ASSUME NEW i \in 1 .. n PROVE g[i] = f[i]
      OBVIOUS
    <3>1. f[i] = IF i = 1 THEN seqs[i] ELSE f[i - 1] \o seqs[i]
      BY <2>1 DEF Flattens
    <3>2. i \in 1 .. n + 1
      OBVIOUS
    <3> QED  BY <3>1, <3>2
  <2>3. \A i \in 1 .. n + 1 : i # 1 => i - 1 \in 1 .. n
    OBVIOUS
  <2>4. g = Longer(f)
    OBVIOUS
  <2> HIDE DEF g
  <2>5. \A i \in 1 .. n + 1 : i # 1 => g[i - 1] \o seqs[i] = f[i - 1] \o seqs[i]
    BY <2>2, <2>3
  <2>6. g = [i \in 1 .. n + 1 |-> IF i = 1 THEN seqs[i] ELSE g[i - 1] \o seqs[i]]
    BY <2>4, <2>5
  <2>7. Flattens(g, seqs, n + 1)
    BY <2>6 DEF Flattens
  <2> QED  BY <2>7
<1> HIDE DEF T
<1>3. Nat \subseteq T
  BY <1>1, <1>2, Induction
<1> QED  BY <1>3 DEF T

LEMMA FlattenPartial ==
  ASSUME NEW S, NEW seqs \in Seq(Seq(S)), seqs # << >>
  PROVE  \E f : /\ Decode!FlattenSeq(seqs) = f[Len(seqs)]
                /\ f[1] = seqs[1]
                /\ \A k \in 1 .. Len(seqs) - 1 : f[k + 1] = f[k] \o seqs[k + 1]
<1> DEFINE N == Len(seqs)
           f == CHOOSE h : h = [i \in 1 .. N |-> IF i = 1 THEN seqs[i]
                                                 ELSE h[i - 1] \o seqs[i]]
<1>1. N \in Nat /\ N # 0
  BY LenProperties, EmptySeq
<1>2. f = [i \in 1 .. N |-> IF i = 1 THEN seqs[i] ELSE f[i - 1] \o seqs[i]]
  <2>1. \E h : h = [i \in 1 .. N |-> IF i = 1 THEN seqs[i] ELSE h[i - 1] \o seqs[i]]
    BY <1>1, FlattensExists DEF Flattens
  <2> QED  BY <2>1
<1>3. Decode!FlattenSeq(seqs) = f[N]
  BY <1>1 DEF Decode!FlattenSeq
<1> HIDE DEF f
<1>4. f[1] = seqs[1]
  BY <1>1, <1>2
<1>5. \A k \in 1 .. N - 1 : f[k + 1] = f[k] \o seqs[k + 1]
  <2> SUFFICES ASSUME NEW k \in 1 .. N - 1 PROVE f[k + 1] = f[k] \o seqs[k + 1]
    OBVIOUS
  <2>1. k + 1 \in 1 .. N /\ k + 1 # 1 /\ (k + 1) - 1 = k
    BY <1>1
  <2> QED  BY <1>2, <2>1
<1> QED  BY <1>3, <1>4, <1>5

(* How a whole is made of pieces: the k-th begins behind as many items   *)
(* as the k - 1 before it have, off[k - 1].                                *)
Laid(off, seqs, whole) ==
  /\ off \in [0 .. Len(seqs) -> Nat] /\ off[0] = 0
  /\ \A k \in 1 .. Len(seqs) : off[k] = off[k - 1] + Len(seqs[k])
  /\ Len(whole) = off[Len(seqs)]
  /\ \A k \in 1 .. Len(seqs) : \A j \in 1 .. Len(seqs[k]) :
       /\ off[k - 1] + j \in 1 .. Len(whole)
       /\ whole[off[k - 1] + j] = seqs[k][j]

LEMMA FlattenSomething ==
  ASSUME NEW S, NEW seqs \in Seq(Seq(S)), seqs # << >>
  PROVE  /\ Decode!FlattenSeq(seqs) \in Seq(S)
         /\ \E off : Laid(off, seqs, Decode!FlattenSeq(seqs))
<1> DEFINE N == Len(seqs)
<1>1. N \in Nat /\ N # 0 /\ \A k \in 1 .. N : seqs[k] \in Seq(S)
  BY LenProperties, EmptySeq, ElementOfSeq
<1>2. PICK f : /\ Decode!FlattenSeq(seqs) = f[N]
               /\ f[1] = seqs[1]
               /\ \A k \in 1 .. N - 1 : f[k + 1] = f[k] \o seqs[k + 1]
  BY FlattenPartial
<1> HIDE DEF N
<1> DEFINE off == [k \in 0 .. N |-> IF k = 0 THEN 0 ELSE Len(f[k])]
           Placed(m) == \A k \in 1 .. m : \A j \in 1 .. Len(seqs[k]) :
                          /\ off[k - 1] + j \in 1 .. off[m]
                          /\ f[m][off[k - 1] + j] = seqs[k][j]
           Good(m) == /\ f[m] \in Seq(S) /\ off[m] \in Nat
                      /\ off[m] = off[m - 1] + Len(seqs[m])
                      /\ Placed(m)
           T == {m \in Nat : m = 0 \/ m > N \/ Good(m)}
<1>3. off[0] = 0 /\ \A k \in 1 .. N : off[k] = Len(f[k])
  BY <1>1
<1> HIDE DEF off
<1>4. 0 \in T
  OBVIOUS
<1>5. ASSUME NEW n \in Nat, n \in T PROVE n + 1 \in T
  <2>1. CASE n + 1 > N
    BY <2>1
  <2>2. CASE n = 0
    <3>1. f[1] \in Seq(S) /\ Len(f[1]) \in Nat /\ off[1] = Len(seqs[1])
      BY <1>1, <1>2, <1>3, LenProperties
    <3>2. Placed(1)
      <4> SUFFICES ASSUME NEW j \in 1 .. Len(seqs[1])
                   PROVE  off[0] + j \in 1 .. off[1] /\ f[1][off[0] + j] = seqs[1][j]
        OBVIOUS
      <4>1. off[0] + j = j
        BY <1>3, <3>1
      <4> QED  BY <1>2, <3>1, <4>1
    <3>3. Good(1)
      BY <1>3, <3>1, <3>2
    <3> QED  BY <2>2, <3>3
  <2>3. CASE n # 0 /\ n + 1 <= N
    <3>1. n \in 1 .. N /\ n \in 1 .. N - 1 /\ n + 1 \in 1 .. N /\ Good(n)
      BY <1>1, <1>5, <2>3
    <3> DEFINE a == f[n]  b == seqs[n + 1]
    <3>2. /\ a \in Seq(S) /\ b \in Seq(S) /\ f[n + 1] = a \o b
          /\ Len(a) = off[n] /\ off[n] \in Nat /\ Len(b) \in Nat
      BY <1>1, <1>2, <1>3, <3>1, LenProperties
    <3>3. /\ a \o b \in Seq(S) /\ Len(a \o b) = Len(a) + Len(b)
          /\ \A i \in 1 .. Len(a) + Len(b) :
               (a \o b)[i] = IF i <= Len(a) THEN a[i] ELSE b[i - Len(a)]
      BY <3>2, ConcatProperties
    <3>4. Placed(n)
      BY <3>1
    <3> HIDE DEF a, b, Placed, Good
    <3>5. off[n + 1] = off[n] + Len(b) /\ off[n + 1] \in Nat /\ (n + 1) - 1 = n
      <4>1. off[n + 1] = Len(f[n + 1])
        BY <1>3, <3>1
      <4>2. off[n + 1] = off[n] + Len(b)
        BY <3>2, <3>3, <4>1
      <4> QED  BY <3>2, <4>2
    <3>6. ASSUME NEW k \in 1 .. n, NEW j \in 1 .. Len(seqs[k])
          PROVE  /\ off[k - 1] + j \in 1 .. off[n + 1]
                 /\ f[n + 1][off[k - 1] + j] = seqs[k][j]
      <4>1. off[k - 1] + j \in 1 .. off[n] /\ a[off[k - 1] + j] = seqs[k][j]
        BY <3>4 DEF Placed, a
      <4> DEFINE p == off[k - 1] + j
      <4> HIDE DEF p
      <4>2. p \in 1 .. off[n] /\ a[p] = seqs[k][j]
        BY <4>1 DEF p
      <4>3. p \in 1 .. off[n + 1] /\ p <= Len(a) /\ p \in 1 .. Len(a) + Len(b)
        BY <3>2, <3>5, <4>2
      <4>4. f[n + 1][p] = a[p]
        BY <3>2, <3>3, <4>3
      <4> QED  BY <4>2, <4>3, <4>4 DEF p
    <3>7. ASSUME NEW j \in 1 .. Len(b)
          PROVE  /\ off[n] + j \in 1 .. off[n + 1]
                 /\ f[n + 1][off[n] + j] = b[j]
      <4>1. /\ off[n] + j \in 1 .. off[n] + Len(b) /\ ~(off[n] + j <= Len(a))
            /\ (off[n] + j) - Len(a) = j
        BY <3>2
      <4> QED  BY <3>2, <3>3, <3>5, <4>1
    <3>8. Placed(n + 1)
      <4> SUFFICES ASSUME NEW k \in 1 .. n + 1, NEW j \in 1 .. Len(seqs[k])
                   PROVE  /\ off[k - 1] + j \in 1 .. off[n + 1]
                          /\ f[n + 1][off[k - 1] + j] = seqs[k][j]
        BY DEF Placed
      <4>1. CASE k \in 1 .. n
        BY <3>6, <4>1
      <4>2. CASE k = n + 1
        BY <3>5, <3>7, <4>2 DEF b
      <4> QED  BY <4>1, <4>2
    <3>9. off[n + 1] = off[(n + 1) - 1] + Len(seqs[n + 1])
      BY <3>5 DEF b
    <3>10. f[n + 1] \in Seq(S)
      BY <3>2, <3>3
    <3>11. Good(n + 1)
      BY <3>5, <3>8, <3>9, <3>10 DEF Good
    <3> QED  BY <3>11
  <2> QED  BY <1>1, <2>1, <2>2, <2>3
<1>6. Nat \subseteq T
  <2> HIDE DEF T
  <2> QED  BY <1>4, <1>5, Induction
<1>7. \A k \in 1 .. N : Good(k)
  BY <1>1, <1>6
<1>8. off \in [0 .. N -> Nat]
  <2>1. \A k \in 0 .. N : off[k] \in Nat
    BY <1>1, <1>3, <1>7
  <2>2. off = [k \in 0 .. N |-> off[k]]
    BY DEF off
  <2> HIDE DEF Good
  <2> QED  BY <2>1, <2>2
<1>9. Good(N) /\ N \in 1 .. N
  <2> HIDE DEF Good
  <2> QED  BY <1>1, <1>7
<1>10. /\ Decode!FlattenSeq(seqs) \in Seq(S)
       /\ Len(Decode!FlattenSeq(seqs)) = off[N]
       /\ \A k \in 1 .. N : off[k] = off[k - 1] + Len(seqs[k])
  BY <1>2, <1>3, <1>7, <1>9
<1>11. \A k \in 1 .. N : \A j \in 1 .. Len(seqs[k]) :
         /\ off[k - 1] + j \in 1 .. Len(Decode!FlattenSeq(seqs))
         /\ Decode!FlattenSeq(seqs)[off[k - 1] + j] = seqs[k][j]
  BY <1>2, <1>9, <1>10
<1> HIDE DEF Good, T
<1>12. Laid(off, seqs, Decode!FlattenSeq(seqs))
  BY <1>3, <1>8, <1>10, <1>11 DEF N, Laid
<1> QED  BY <1>10, <1>12

LEMMA FlattenNothing == Decode!FlattenSeq(<< >>) = << >>
<1> QED  BY EmptySeq DEF Decode!FlattenSeq

(* FlattenSeq lays its pieces one behind the other.                        *)
LEMMA FlattenPieces ==
  ASSUME NEW S, NEW seqs \in Seq(Seq(S))
  PROVE  /\ Decode!FlattenSeq(seqs) \in Seq(S)
         /\ \E off : Laid(off, seqs, Decode!FlattenSeq(seqs))
<1>1. CASE seqs # << >>
  BY <1>1, FlattenSomething
<1>2. CASE seqs = << >>
  <2> DEFINE off == [k \in 0 .. 0 |-> 0]
  <2>1. << >> \in Seq(S) /\ Len(<< >>) = 0
    BY EmptySeq
  <2>2. off \in [0 .. 0 -> Nat] /\ off[0] = 0 /\ 1 .. 0 = {}
    OBVIOUS
  <2> HIDE DEF off
  <2>3. Laid(off, << >>, << >>)
    BY <2>1, <2>2 DEF Laid
  <2> QED  BY <1>2, <2>1, <2>3, FlattenNothing
<1> QED  BY <1>1, <1>2

(* Pieces of one item each make up the sequence of those items.            *)
LEMMA FlattenSingles ==
  ASSUME NEW S, NEW s \in Seq(S)
  PROVE  Decode!FlattenSeq([i \in DOMAIN s |-> <<s[i]>>]) = s
<1> DEFINE N == Len(s)  pieces == [i \in DOMAIN s |-> <<s[i]>>]
           whole == Decode!FlattenSeq(pieces)
<1>1. N \in Nat /\ DOMAIN s = 1 .. N /\ \A i \in 1 .. N : s[i] \in S
  BY LenProperties, ElementOfSeq
<1>2. \A i \in 1 .. N : <<s[i]>> \in Seq(S) /\ Len(<<s[i]>>) = 1 /\ <<s[i]>>[1] = s[i]
  BY <1>1
<1>3. pieces \in [1 .. N -> Seq(S)] /\ \A i \in 1 .. N : pieces[i] = <<s[i]>>
  BY <1>1, <1>2
<1> HIDE DEF N, pieces
<1>4. pieces \in Seq(Seq(S)) /\ Len(pieces) = N
  BY <1>1, <1>3, LenProperties
<1>5. CASE N = 0
  <2>1. pieces = << >> /\ s = << >>
    BY <1>4, <1>5, EmptySeq DEF N
  <2> QED  BY <2>1, FlattenNothing DEF pieces
<1>6. CASE N # 0
  <2>1. pieces # << >>
    BY <1>4, <1>6, EmptySeq
  <2>2. whole \in Seq(S)
    BY <1>4, <2>1, FlattenPieces
  <2>3. PICK off : Laid(off, pieces, whole)
    BY <1>4, <2>1, FlattenPieces
  <2> HIDE DEF whole
  <2>4. \A k \in 1 .. N : off[k] = off[k - 1] + 1 /\ whole[off[k - 1] + 1] = s[k]
    <3> SUFFICES ASSUME NEW k \in 1 .. N
                 PROVE  off[k] = off[k - 1] + 1 /\ whole[off[k - 1] + 1] = s[k]
      OBVIOUS
    <3>1. Len(pieces[k]) = 1 /\ pieces[k][1] = s[k] /\ 1 \in 1 .. Len(pieces[k])
      <4>1. pieces[k] = <<s[k]>> /\ <<s[k]>>[1] = s[k] /\ Len(<<s[k]>>) = 1
        BY <1>2, <1>3
      <4>2. 1 \in 1 .. 1
        OBVIOUS
      <4> QED  BY ONLY <4>1, <4>2
    <3>2. off[k] = off[k - 1] + Len(pieces[k])
      BY <1>4, <2>3 DEF Laid
    <3>3. whole[off[k - 1] + 1] = pieces[k][1]
      BY <1>4, <2>3, <3>1 DEF Laid
    <3> QED  BY <3>1, <3>2, <3>3
  <2>5. off[0] = 0 /\ Len(whole) = off[N]
    BY <1>4, <2>3 DEF Laid
  <2> DEFINE T == {n \in Nat : n > N \/ off[n] = n}
  <2>6. 0 \in T
    BY <2>5
  <2>7. ASSUME NEW n \in Nat, n \in T PROVE n + 1 \in T
    <3>1. CASE n + 1 \in 1 .. N
      <4>1. off[n] = n /\ (n + 1) - 1 = n
        BY <1>1, <2>7, <3>1
      <4> QED  BY <2>4, <3>1, <4>1
    <3>2. CASE n + 1 > N
      BY <3>2
    <3> QED  BY <1>1, <3>1, <3>2
  <2>8. Nat \subseteq T
    <3> HIDE DEF T
    <3> QED  BY <2>6, <2>7, Induction
  <2>9. \A k \in 0 .. N : off[k] = k
    BY <1>1, <2>8
  <2>10. Len(whole) = N
    BY <1>1, <2>5, <2>9
  <2>11. \A k \in 1 .. N : whole[k] = s[k]
    <3> SUFFICES ASSUME NEW k \in 1 .. N PROVE whole[k] = s[k]
      OBVIOUS
    <3>1. off[k - 1] = k - 1 /\ (k - 1) + 1 = k
      BY <1>1, <2>9
    <3> QED  BY <2>4, <3>1
  <2>12. whole = s
    BY <2>2, <2>10, <2>11, SeqEqual DEF N
  <2> QED  BY <2>12 DEF whole, pieces
<1> QED  BY <1>1, <1>5, <1>6

-----------------------------------------------------------------------------
(* JSON                                                                    *)

(* Where the two ways to write a character agree in what a reader sees     *)
(* first, they wrote the same character in the same way.                   *)
LEMMA CodesAgree ==
  ASSUME NEW c \in Decode!Char, NEW d \in Decode!Char,
         LET j == Decode!Json(c)  e == Decode!escape_default(d)
         IN  /\ j[1] = e[1]
             /\ Len(j) >= 2 /\ Len(e) >= 2 => j[2] = e[2]
             /\ Len(j) >= 3 /\ Len(e) >= 3 => j[3] = e[3]
  PROVE  c = d /\ Decode!Json(c) = Decode!escape_default(d)
<1>1. CASE d = "n"
  BY <1>1 DEF Decode!Char, Decode!Json, Decode!escape_default
<1>2. CASE d = "'"
  BY <1>2 DEF Decode!Char, Decode!Json, Decode!escape_default
<1>3. CASE d = "quote"
  BY <1>3 DEF Decode!Char, Decode!Json, Decode!escape_default
<1>4. CASE d = "backslash"
  BY <1>4 DEF Decode!Char, Decode!Json, Decode!escape_default
<1>5. CASE d = "newline"
  BY <1>5 DEF Decode!Char, Decode!Json, Decode!escape_default
<1>6. CASE d \in {"control", "umlaut"}
  <2> DEFINE e == <<"backslash", "u", "{", "}">>
  <2>1. Decode!escape_default(d) = e
    BY <1>6 DEF Decode!escape_default
  <2>2. /\ e[1] = "backslash" /\ e[2] = "u" /\ e[3] = "{"
        /\ Len(e) >= 2 /\ Len(e) >= 3
    OBVIOUS
  <2> HIDE DEF e
  <2>3. CASE c \in {"n", "'", "umlaut"}
    BY <2>1, <2>2, <2>3 DEF Decode!Json
  <2>4. CASE c \in {"quote", "backslash", "newline"}
    <3>1. PICK x \in {"quote", "backslash", "n"} : Decode!Json(c) = <<"backslash", x>>
      BY <2>4 DEF Decode!Json
    <3> DEFINE j == <<"backslash", x>>
    <3>2. j[2] = x /\ Len(j) >= 2
      OBVIOUS
    <3> HIDE DEF j
    <3>3. Decode!Json(c) = j
      BY <3>1 DEF j
    <3> QED  BY <2>1, <2>2, <3>2, <3>3
  <2>5. CASE c = "control"
    <3> DEFINE j == <<"backslash", "u", "0">>
    <3>1. Decode!Json(c) = j
      BY <2>5 DEF Decode!Json
    <3>2. j[3] = "0" /\ Len(j) >= 3
      OBVIOUS
    <3> HIDE DEF j
    <3> QED  BY <2>1, <2>2, <3>1, <3>2
  <2> QED  BY <2>3, <2>4, <2>5 DEF Decode!Char
<1> QED  BY <1>1, <1>2, <1>3, <1>4, <1>5, <1>6 DEF Decode!Char

(* What the written text is made of.                                       *)
Symbol == Decode!Char \cup {"u", "0", "{", "}"}

LEMMA CodeTypes ==
  ASSUME NEW c \in Decode!Char
  PROVE  /\ Decode!Json(c) \in Seq(Symbol) /\ Decode!escape_default(c) \in Seq(Symbol)
         /\ Len(Decode!Json(c)) \in {1, 2, 3}
         /\ Len(Decode!escape_default(c)) \in {1, 2, 4}
<1>1. ASSUME NEW w \in Symbol
      PROVE  <<w>> \in Seq(Symbol) /\ Len(<<w>>) = 1
  OBVIOUS
<1>2. ASSUME NEW w \in Symbol, NEW x \in Symbol
      PROVE  <<w, x>> \in Seq(Symbol) /\ Len(<<w, x>>) = 2
  OBVIOUS
<1>3. ASSUME NEW w \in Symbol, NEW x \in Symbol, NEW y \in Symbol
      PROVE  <<w, x, y>> \in Seq(Symbol) /\ Len(<<w, x, y>>) = 3
  OBVIOUS
<1>4. ASSUME NEW w \in Symbol, NEW x \in Symbol, NEW y \in Symbol, NEW z \in Symbol
      PROVE  <<w, x, y, z>> \in Seq(Symbol) /\ Len(<<w, x, y, z>>) = 4
  OBVIOUS
<1>5. {"n", "'", "quote", "backslash", "newline", "control", "umlaut",
       "u", "0", "{", "}"} = Symbol
  BY DEF Symbol, Decode!Char
<1>6. \/ \E w \in {"n", "'", "umlaut"} : Decode!Json(c) = <<w>>
      \/ \E x \in {"quote", "backslash", "n"} : Decode!Json(c) = <<"backslash", x>>
      \/ Decode!Json(c) = <<"backslash", "u", "0">>
  BY DEF Decode!Json, Decode!Char
<1>7. \/ Decode!escape_default(c) = <<"n">>
      \/ \E x \in {"'", "quote", "backslash", "n"} :
           Decode!escape_default(c) = <<"backslash", x>>
      \/ Decode!escape_default(c) = <<"backslash", "u", "{", "}">>
  BY DEF Decode!escape_default, Decode!Char
<1>8. Decode!Json(c) \in Seq(Symbol) /\ Len(Decode!Json(c)) \in {1, 2, 3}
  <2>1. CASE \E w \in {"n", "'", "umlaut"} : Decode!Json(c) = <<w>>
    BY <1>1, <1>5, <2>1
  <2>2. CASE \E x \in {"quote", "backslash", "n"} : Decode!Json(c) = <<"backslash", x>>
    BY <1>2, <1>5, <2>2
  <2>3. CASE Decode!Json(c) = <<"backslash", "u", "0">>
    <3>1. "backslash" \in Symbol /\ "u" \in Symbol /\ "0" \in Symbol
      BY <1>5
    <3> QED  BY ONLY <1>3, <2>3, <3>1
  <2> QED  BY <1>6, <2>1, <2>2, <2>3
<1>9. /\ Decode!escape_default(c) \in Seq(Symbol)
      /\ Len(Decode!escape_default(c)) \in {1, 2, 4}
  <2>1. CASE Decode!escape_default(c) = <<"n">>
    BY <1>1, <1>5, <2>1
  <2>2. CASE \E x \in {"'", "quote", "backslash", "n"} :
               Decode!escape_default(c) = <<"backslash", x>>
    BY <1>2, <1>5, <2>2
  <2>3. CASE Decode!escape_default(c) = <<"backslash", "u", "{", "}">>
    <3>1. /\ "backslash" \in Symbol /\ "u" \in Symbol
          /\ "{" \in Symbol /\ "}" \in Symbol
      BY <1>5
    <3> QED  BY ONLY <1>4, <2>3, <3>1
  <2> QED  BY <1>7, <2>1, <2>2, <2>3
<1> QED  BY <1>8, <1>9

LEMMA TextType ==
  ASSUME NEW t \in Decode!Texts
  PROVE  /\ t \in Seq(Decode!Char) /\ Len(t) \in Nat /\ DOMAIN t = 1 .. Len(t)
         /\ \A i \in 1 .. Len(t) : t[i] \in Decode!Char
<1>1. PICK n \in 0 .. MaxLength : t \in [1 .. n -> Decode!Char]
  BY DEF Decode!Texts
<1>2. n \in Nat
  BY <1>1, BoundsAssumption
<1>3. t \in Seq(Decode!Char)
  BY <1>1, <1>2
<1> QED  BY <1>3, LenProperties, ElementOfSeq

(* The pieces that a text is written in.                                   *)
JsonPieces(t)   == [i \in DOMAIN t |-> Decode!Json(t[i])]
EscapePieces(t) == [i \in DOMAIN t |-> Decode!escape_default(t[i])]

LEMMA PiecesType ==
  ASSUME NEW t \in Decode!Texts
  PROVE  /\ JsonPieces(t) \in Seq(Seq(Symbol)) /\ Len(JsonPieces(t)) = Len(t)
         /\ EscapePieces(t) \in Seq(Seq(Symbol)) /\ Len(EscapePieces(t)) = Len(t)
         /\ \A i \in 1 .. Len(t) : /\ JsonPieces(t)[i] = Decode!Json(t[i])
                                   /\ EscapePieces(t)[i] = Decode!escape_default(t[i])
<1>1. /\ Len(t) \in Nat /\ DOMAIN t = 1 .. Len(t)
      /\ \A i \in 1 .. Len(t) : t[i] \in Decode!Char
  BY TextType
<1>2. \A i \in 1 .. Len(t) : /\ Decode!Json(t[i]) \in Seq(Symbol)
                             /\ Decode!escape_default(t[i]) \in Seq(Symbol)
  BY <1>1, CodeTypes
<1>3. JsonPieces(t) \in [1 .. Len(t) -> Seq(Symbol)]
  BY <1>1, <1>2 DEF JsonPieces
<1>4. EscapePieces(t) \in [1 .. Len(t) -> Seq(Symbol)]
  BY <1>1, <1>2 DEF EscapePieces
<1>5. \A i \in 1 .. Len(t) : /\ JsonPieces(t)[i] = Decode!Json(t[i])
                             /\ EscapePieces(t)[i] = Decode!escape_default(t[i])
  BY <1>1 DEF JsonPieces, EscapePieces
<1>6. JsonPieces(t) \in Seq(Seq(Symbol)) /\ Len(JsonPieces(t)) = Len(t)
  <2> DEFINE p == JsonPieces(t)  n == Len(t)
  <2>1. n \in Nat /\ p \in [1 .. n -> Seq(Symbol)]
    BY <1>1, <1>3
  <2> HIDE DEF p, n
  <2>2. p \in Seq(Seq(Symbol)) /\ Len(p) = n
    BY <2>1, LenProperties
  <2> QED  BY <2>2 DEF p, n
<1>7. EscapePieces(t) \in Seq(Seq(Symbol)) /\ Len(EscapePieces(t)) = Len(t)
  <2> DEFINE p == EscapePieces(t)  n == Len(t)
  <2>1. n \in Nat /\ p \in [1 .. n -> Seq(Symbol)]
    BY <1>1, <1>4
  <2> HIDE DEF p, n
  <2>2. p \in Seq(Seq(Symbol)) /\ Len(p) = n
    BY <2>1, LenProperties
  <2> QED  BY <2>2 DEF p, n
<1> QED  BY <1>5, <1>6, <1>7

(* Whoever reads JSON out of what escape_default wrote reads what it was   *)
(* given: character by character, each begins where its counterpart does.  *)
LEMMA EscapesReadBack ==
  ASSUME NEW t \in Decode!Texts, NEW v \in Decode!Texts,
         NEW off, NEW pos, NEW whole,
         Laid(off, JsonPieces(t), whole), Laid(pos, EscapePieces(v), whole)
  PROVE  t = v
<1> DEFINE M == Len(t)  N == Len(v)  p == JsonPieces(t)  q == EscapePieces(v)
<1>1. /\ M \in Nat /\ N \in Nat
      /\ t \in Seq(Decode!Char) /\ v \in Seq(Decode!Char)
      /\ \A i \in 1 .. M : t[i] \in Decode!Char
      /\ \A i \in 1 .. N : v[i] \in Decode!Char
  BY TextType
<1>2. /\ Len(p) = M /\ \A k \in 1 .. M : p[k] = Decode!Json(t[k])
      /\ Len(q) = N /\ \A k \in 1 .. N : q[k] = Decode!escape_default(v[k])
  BY PiecesType
<1>3. /\ \A k \in 1 .. M : Len(p[k]) \in {1, 2, 3} /\ 1 \in 1 .. Len(p[k])
      /\ \A k \in 1 .. N : Len(q[k]) \in {1, 2, 4} /\ 1 \in 1 .. Len(q[k])
  <2>1. \A k \in 1 .. M : Len(p[k]) \in {1, 2, 3}
    BY <1>1, <1>2, CodeTypes
  <2>2. \A k \in 1 .. N : Len(q[k]) \in {1, 2, 4}
    BY <1>1, <1>2, CodeTypes
  <2>3. \A l \in {1, 2, 3, 4} : 1 \in 1 .. l
    OBVIOUS
  <2> QED  BY ONLY <2>1, <2>2, <2>3
<1> HIDE DEF M, N, p, q
<1>4. /\ off \in [0 .. M -> Nat] /\ off[0] = 0 /\ Len(whole) = off[M]
      /\ \A k \in 1 .. M : off[k] = off[k - 1] + Len(p[k])
      /\ \A k \in 1 .. M : \A j \in 1 .. Len(p[k]) :
           off[k - 1] + j \in 1 .. Len(whole) /\ whole[off[k - 1] + j] = p[k][j]
  <2>1. Laid(off, p, whole)
    BY DEF p
  <2> QED  BY <1>2, <2>1 DEF Laid
<1>5. /\ pos \in [0 .. N -> Nat] /\ pos[0] = 0 /\ Len(whole) = pos[N]
      /\ \A k \in 1 .. N : pos[k] = pos[k - 1] + Len(q[k])
      /\ \A k \in 1 .. N : \A j \in 1 .. Len(q[k]) :
           pos[k - 1] + j \in 1 .. Len(whole) /\ whole[pos[k - 1] + j] = q[k][j]
  <2>1. Laid(pos, q, whole)
    BY DEF q
  <2> QED  BY <1>2, <2>1 DEF Laid
<1> DEFINE T == {k \in Nat : k > M \/ k > N \/
                   (off[k] = pos[k] /\ (k = 0 \/ t[k] = v[k]))}
<1>6. 0 \in T
  BY <1>4, <1>5
<1>7. ASSUME NEW n \in Nat, n \in T PROVE n + 1 \in T
  <2>1. CASE n + 1 > M \/ n + 1 > N
    BY <2>1
  <2>2. CASE n + 1 <= M /\ n + 1 <= N
    <3> DEFINE k == n + 1  c == p[k]  e == q[k]
    <3>1. k \in 1 .. M /\ k \in 1 .. N /\ k - 1 = n /\ off[n] = pos[n]
      BY <1>1, <1>7, <2>2
    <3>2. /\ \A j \in 1 .. Len(c) : whole[off[n] + j] = c[j]
          /\ \A j \in 1 .. Len(e) : whole[pos[n] + j] = e[j]
      BY <1>4, <1>5, <3>1
    <3>3. /\ Len(c) \in {1, 2, 3} /\ 1 \in 1 .. Len(c)
          /\ Len(e) \in {1, 2, 4} /\ 1 \in 1 .. Len(e)
      BY <1>3, <3>1
    <3>4. off[k] = off[n] + Len(c) /\ pos[k] = pos[n] + Len(e)
      BY <1>4, <1>5, <3>1
    <3>5. /\ t[k] \in Decode!Char /\ v[k] \in Decode!Char
          /\ c = Decode!Json(t[k]) /\ e = Decode!escape_default(v[k])
      BY <1>1, <1>2, <3>1
    <3> HIDE DEF c, e, k
    <3>6. c[1] = e[1]
      BY <3>1, <3>2, <3>3
    <3>7. Len(c) >= 2 /\ Len(e) >= 2 => c[2] = e[2]
      <4> SUFFICES ASSUME Len(c) >= 2, Len(e) >= 2 PROVE c[2] = e[2]
        OBVIOUS
      <4>1. 2 \in 1 .. Len(c) /\ 2 \in 1 .. Len(e)
        BY <3>3
      <4> QED  BY <3>1, <3>2, <4>1
    <3>8. Len(c) >= 3 /\ Len(e) >= 3 => c[3] = e[3]
      <4> SUFFICES ASSUME Len(c) >= 3, Len(e) >= 3 PROVE c[3] = e[3]
        OBVIOUS
      <4>1. 3 \in 1 .. Len(c) /\ 3 \in 1 .. Len(e)
        BY <3>3
      <4> QED  BY <3>1, <3>2, <4>1
    <3>9. t[k] = v[k] /\ c = e
      BY <3>5, <3>6, <3>7, <3>8, CodesAgree
    <3>10. off[k] = pos[k]
      BY <3>1, <3>4, <3>9
    <3> QED  BY <3>9, <3>10 DEF k
  <2> QED  BY <1>1, <2>1, <2>2
<1>8. Nat \subseteq T
  <2> HIDE DEF T
  <2> QED  BY <1>6, <1>7, Induction
<1>9. \A k \in 1 .. M : k <= N => t[k] = v[k]
  BY <1>1, <1>8
<1>10. ~(M < N)
  <2> SUFFICES ASSUME M < N PROVE FALSE
    OBVIOUS
  <2>1. off[M] = pos[M] /\ M \in 0 .. N /\ M + 1 \in 1 .. N /\ (M + 1) - 1 = M
    BY <1>1, <1>8
  <2>2. pos[M] + 1 \in 1 .. Len(whole)
    BY <1>3, <1>5, <2>1
  <2>3. pos[M] \in Nat /\ Len(whole) = pos[M]
    BY <1>4, <1>5, <2>1
  <2> QED  BY <2>2, <2>3
<1>11. ~(N < M)
  <2> SUFFICES ASSUME N < M PROVE FALSE
    OBVIOUS
  <2>1. off[N] = pos[N] /\ N \in 0 .. M /\ N + 1 \in 1 .. M /\ (N + 1) - 1 = N
    BY <1>1, <1>8
  <2>2. off[N] + 1 \in 1 .. Len(whole)
    BY <1>3, <1>4, <2>1
  <2>3. off[N] \in Nat /\ Len(whole) = off[N]
    BY <1>4, <1>5, <2>1
  <2> QED  BY <2>2, <2>3
<1>12. M = N
  BY <1>1, <1>10, <1>11
<1> QED  BY <1>1, <1>9, <1>12, SeqEqual DEF M, N

(* What `params` wrote is read as the value it was made from, or not at    *)
(* all: escape_default is no JSON encoding, but it never means another     *)
(* text.                                                                   *)
LEMMA ParamsReadBack ==
  ASSUME NEW v \in Decode!Texts, NEW t \in Decode!from_str(Decode!render("params", v))
  PROVE  t = v
<1> DEFINE p == JsonPieces(t)  q == EscapePieces(v)
<1>1. t \in Decode!Texts /\ Decode!FlattenSeq(p) = Decode!FlattenSeq(q)
  BY DEF Decode!from_str, Decode!render, JsonPieces, EscapePieces
<1>2. /\ p \in Seq(Seq(Symbol)) /\ Len(p) = Len(t)
      /\ q \in Seq(Seq(Symbol)) /\ Len(q) = Len(v)
  BY <1>1, PiecesType
<1> HIDE DEF p, q
<1>3. /\ \E off : Laid(off, p, Decode!FlattenSeq(p))
      /\ \E pos : Laid(pos, q, Decode!FlattenSeq(q))
  BY <1>2, FlattenPieces
<1>4. PICK off, pos : /\ Laid(off, p, Decode!FlattenSeq(q))
                      /\ Laid(pos, q, Decode!FlattenSeq(q))
  BY <1>1, <1>3
<1> QED  BY <1>1, <1>4, EscapesReadBack DEF p, q

(* Values without the characters a command writes wrongly are read back.   *)
LEMMA HarmlessReadBack ==
  ASSUME NEW v \in Decode!Texts, v \in Seq(Decode!Harmless)
  PROVE  v \in Decode!from_str(Decode!render(command, v))
<1>1. \A i \in DOMAIN v : v[i] \in Decode!Harmless
  BY ElementOfSeq, LenProperties
<1>2. CASE command = "params"
  <2>1. \A i \in DOMAIN v : Decode!Json(v[i]) = Decode!escape_default(v[i])
    BY <1>1, <1>2 DEF Decode!Harmless, Decode!Json, Decode!escape_default
  <2>2. [i \in DOMAIN v |-> Decode!Json(v[i])]
          = [i \in DOMAIN v |-> Decode!escape_default(v[i])]
    BY <2>1
  <2> QED  BY <1>2, <2>2 DEF Decode!from_str, Decode!render
<1>3. CASE command # "params"
  <2>1. \A i \in DOMAIN v : Decode!Json(v[i]) = <<v[i]>>
    BY <1>1, <1>3 DEF Decode!Harmless, Decode!Json
  <2>2. [i \in DOMAIN v |-> Decode!Json(v[i])] = [i \in DOMAIN v |-> <<v[i]>>]
    BY <2>1
  <2>3. Decode!FlattenSeq([i \in DOMAIN v |-> <<v[i]>>]) = v
    BY FlattenSingles
  <2> QED  BY <1>3, <2>2, <2>3 DEF Decode!from_str, Decode!render
<1> QED  BY <1>2, <1>3

-----------------------------------------------------------------------------
(* Words                                                                   *)

LEMMA WordFacts ==
  /\ Lead \in Nat /\ Lead > 0
  /\ Encode!Modulus = Base * Lead
  /\ Encode!Modulus \in Nat /\ Encode!Half \in Nat
  /\ Encode!Modulus = Encode!Half + Encode!Half /\ Encode!Half >= Lead
<1>1. Base \in Nat /\ Base > 1 /\ Base % 2 = 0 /\ Lead \in Nat /\ Lead > 0
  BY WordAssumption
<1>2. PICK h \in Nat : Base = 2 * h /\ h >= 1
  <2>1. Base = 2 * (Base \div 2) /\ Base \div 2 \in Nat /\ Base \div 2 >= 1
    BY <1>1
  <2> QED  BY <2>1
<1> DEFINE m == h * Lead
<1>3. m \in Nat /\ m >= Lead
  BY <1>1, <1>2
<1>4. Base * Lead = 2 * m
  BY <1>1, <1>2
<1> HIDE DEF m
<1>5. Encode!Modulus = 2 * m /\ (2 * m) \div 2 = m
  BY <1>3, <1>4 DEF Encode!Modulus
<1>6. Encode!Half = m
  BY <1>5 DEF Encode!Half
<1> QED  BY <1>1, <1>3, <1>4, <1>5, <1>6

(* Ceiling exists for a number of a word, and from the leading place on it *)
(* is the modulus: there nothing is left to fill.                          *)
LEMMA CeilingAbove ==
  ASSUME NEW n \in Nat, n < Encode!Modulus
  PROVE  /\ Encode!Ceiling(n) \in Nat
         /\ n < Encode!Ceiling(n) /\ Encode!Ceiling(n) <= Encode!Modulus
         /\ n >= Lead => Encode!Ceiling(n) = Encode!Modulus
<1> DEFINE S == {Base * p : p \in Places}
           IsCeiling(c) == n < c /\ \A p \in Places : n < Base * p => c <= Base * p
           T == {c \in S : n < c}
<1>1. /\ Lead \in Nat /\ Lead \in Places /\ Base * Lead = Encode!Modulus
      /\ Encode!Modulus \in Nat
  BY WordFacts, WordAssumption
<1>2. \A p \in Places : Base * p \in Nat /\ (Base * p = Base * Lead \/ Base * p <= Lead)
  BY WordAssumption
<1>3. T \subseteq Nat /\ Encode!Modulus \in T
  BY <1>1, <1>2
<1>4. PICK least \in T : \A c \in T : least <= c
  BY <1>3, LeastNumber
<1>5. IsCeiling(least) /\ least \in S
  BY <1>4
<1>6. Encode!Ceiling(n) = CHOOSE c \in S : IsCeiling(c)
  BY DEF Encode!Ceiling
<1> DEFINE c == Encode!Ceiling(n)
<1>7. c \in S /\ IsCeiling(c)
  <2> HIDE DEF S, IsCeiling
  <2> QED  BY <1>5, <1>6
<1> HIDE DEF c
<1>8. c \in Nat /\ n < c
  BY <1>2, <1>7
<1>9. c <= Encode!Modulus
  BY <1>1, <1>7
<1>10. ASSUME n >= Lead PROVE c = Encode!Modulus
  BY <1>1, <1>2, <1>7, <1>8, <1>10
<1> QED  BY <1>8, <1>9, <1>10 DEF c

LEMMA FillKeeps ==
  ASSUME NEW n \in Nat, n < Encode!Modulus
  PROVE  /\ Encode!fill(n) \in Encode!Word
         /\ n >= Encode!Half => Encode!fill(n) = n
<1>1. /\ Lead \in Nat /\ Encode!Half \in Nat /\ Encode!Half >= Lead
      /\ Encode!Modulus \in Nat
  BY WordFacts
<1>2. /\ Encode!Ceiling(n) \in Nat
      /\ n < Encode!Ceiling(n) /\ Encode!Ceiling(n) <= Encode!Modulus
      /\ n >= Lead => Encode!Ceiling(n) = Encode!Modulus
  BY CeilingAbove
<1> QED  BY <1>1, <1>2 DEF Encode!fill, Encode!Word

(* The complement of a number of a word, incremented, is a number of 256   *)
(* bits but for zero, whose complement has every bit set.                  *)
LEMMA ComplementRange ==
  ASSUME NEW t \in Encode!Text, t.number \in Encode!Word
  PROVE  /\ Encode!Overflows(t) => t.minus /\ t.number = 0
         /\ t.minus /\ ~Encode!Overflows(t) =>
              /\ Encode!complement(t.number) \in Nat
              /\ Encode!complement(t.number) < Encode!Modulus
              /\ Encode!complement(t.number) = Encode!Modulus - t.number
<1>1. /\ Encode!Modulus \in Nat /\ t.number \in Nat /\ t.number < Encode!Modulus
      /\ t.minus \in BOOLEAN
  BY WordFacts DEF Encode!Text, Encode!Word
<1> DEFINE m == Encode!Modulus  n == t.number
<1>2. Encode!complement(n) = (m - 1 - n) + 1
  BY DEF Encode!complement
<1>3. Encode!complement(n) \in Encode!Word <=> Encode!complement(n) \in 0 .. m - 1
  BY DEF Encode!Word
<1> HIDE DEF m, n
<1>4. (m - 1 - n) + 1 = m - n /\ m - n \in Nat
  BY <1>1 DEF m, n
<1>5. n # 0 => m - n \in 0 .. m - 1
  BY <1>1, <1>4 DEF m, n
<1>6. Encode!Overflows(t) => t.minus /\ n = 0
  BY <1>2, <1>3, <1>4, <1>5 DEF Encode!Overflows, n
<1>7. ASSUME t.minus, ~Encode!Overflows(t)
      PROVE  Encode!complement(n) \in 0 .. m - 1
  BY <1>3, <1>7 DEF Encode!Overflows, n
<1>8. \A x \in 0 .. m - 1 : x \in Nat /\ x < m
  BY <1>1 DEF m
<1> QED  BY <1>2, <1>4, <1>6, <1>7, <1>8 DEF m, n

(* What is neither refused nor makes the program panic becomes a word.     *)
LEMMA WordType ==
  ASSUME NEW t \in Encode!Text, t.number \in Encode!Word, ~Encode!Overflows(t)
  PROVE  Encode!word(t) \in Encode!Word
<1>1. CASE t.minus
  BY <1>1, ComplementRange, FillKeeps DEF Encode!word
<1>2. CASE ~t.minus
  BY <1>2 DEF Encode!word
<1> QED  BY <1>1, <1>2

(* The word of a number in range stands for that number: the f that fill   *)
(* the word are the sign, since a negative number in range has no leading  *)
(* zeros in two's complement.                                              *)
LEMMA WordDenotes ==
  ASSUME NEW t \in Encode!Text, t.number \in Encode!Word, ~Encode!Overflows(t),
         Encode!InRange(Encode!Number(t))
  PROVE  Encode!Denotes(Encode!word(t)) = Encode!Number(t)
<1>1. /\ Encode!Modulus \in Nat /\ Encode!Half \in Nat /\ t.number \in Nat
      /\ Encode!Modulus = Encode!Half + Encode!Half /\ t.minus \in BOOLEAN
      /\ t.number < Encode!Modulus
  BY WordFacts DEF Encode!Text, Encode!Word
<1>2. CASE t.minus
  <2> DEFINE c == Encode!complement(t.number)
  <2>1. t.number <= Encode!Half
    BY <1>1, <1>2 DEF Encode!InRange, Encode!Number
  <2>2. c \in Nat /\ c < Encode!Modulus /\ c = Encode!Modulus - t.number
    BY <1>2, ComplementRange
  <2> HIDE DEF c
  <2>3. c >= Encode!Half /\ c - Encode!Modulus = -t.number
    BY <1>1, <2>1, <2>2
  <2>4. Encode!word(t) = c
    BY <1>2, <2>2, <2>3, FillKeeps DEF Encode!word, c
  <2> QED  BY <1>2, <2>3, <2>4 DEF Encode!Denotes, Encode!Number
<1>3. CASE ~t.minus
  <2>1. Encode!word(t) = t.number /\ t.number < Encode!Half
    BY <1>1, <1>3 DEF Encode!word, Encode!InRange, Encode!Number
  <2> QED  BY <1>1, <1>3, <2>1 DEF Encode!Denotes, Encode!Number
<1> QED  BY <1>2, <1>3

-----------------------------------------------------------------------------
(* The commands that encode                                                *)

(* Every token parsed here so far is the word of an acceptable text.       *)
TokensStand ==
  \A i \in 1 .. Len(tokens) :
    Encode!OwnParser(types[i]) =>
      /\ ~Encode!Refused(types[i], values[i])
      /\ ~Encode!Overflows(values[i])
      /\ tokens[i] = Encode!word(values[i])

(* `params` takes its types and values in pairs.                           *)
ParamsPaired == command = "params" => Len(types) = Len(values)

(* What a command that has ended ended at.                                 *)
EncodeEnded ==
  /\ phase = "encoded" => Len(tokens) = Len(types)
  /\ phase = "panicked" =>
       /\ Len(tokens) < Encode!Pairs
       /\ Encode!OwnParser(types[Encode!Pair])
       /\ ~Encode!Refused(types[Encode!Pair], values[Encode!Pair])
       /\ Encode!Overflows(values[Encode!Pair])

EncodeInv == Encode!TypeOK /\ TokensStand /\ ParamsPaired /\ EncodeEnded

LEMMA PairAt ==
  ASSUME Encode!TypeOK
  PROVE  /\ Encode!Pairs \in Nat /\ Len(tokens) \in Nat
         /\ Encode!Pairs <= Len(types) /\ Encode!Pairs <= Len(values)
         /\ Len(types) = Len(values) => Encode!Pairs = Len(types)
         /\ \A i \in 1 .. Encode!Pairs :
              types[i] \in Encode!Type /\ values[i] \in Encode!Text
<1>1. /\ types \in Seq(Encode!Type) /\ values \in Seq(Encode!Text)
      /\ tokens \in Seq(Encode!Token)
  BY DEF Encode!TypeOK
<1>2. Len(types) \in Nat /\ Len(values) \in Nat /\ Len(tokens) \in Nat
  BY <1>1, LenProperties
<1>3. /\ Encode!Pairs \in Nat
      /\ Encode!Pairs <= Len(types) /\ Encode!Pairs <= Len(values)
      /\ Len(types) = Len(values) => Encode!Pairs = Len(types)
  BY <1>2 DEF Encode!Pairs
<1>4. \A i \in 1 .. Encode!Pairs : i \in 1 .. Len(types) /\ i \in 1 .. Len(values)
  BY <1>2, <1>3
<1> QED  BY <1>1, <1>2, <1>3, <1>4, ElementOfSeq

LEMMA EncodeInvInit == Encode!Init => EncodeInv
<1> SUFFICES ASSUME Encode!Init PROVE EncodeInv
  OBVIOUS
<1>1. PICK m \in 0 .. MaxParams, n \in 0 .. MaxParams :
        /\ command = "params" => m = n
        /\ types \in [1 .. m -> Encode!Type]
        /\ values \in [1 .. n -> Encode!Text]
  <2>1. PICK m \in 0 .. MaxParams, n \in 0 .. MaxParams :
          /\ command = "params" => m = n /\ n > 0
          /\ types \in [1 .. m -> Encode!Type]
          /\ values \in [1 .. n -> {t \in [digits : BOOLEAN, minus : BOOLEAN,
                                           number : 0 .. MaxNumber] :
                                      ~t.digits => t.number = 0 /\ ~t.minus}]
    BY DEF Encode!Init
  <2>2. [digits : BOOLEAN, minus : BOOLEAN, number : 0 .. MaxNumber]
          \subseteq Encode!Text
    BY BoundsAssumption DEF Encode!Text
  <2>3. values \in [1 .. n -> Encode!Text]
    BY <2>1, <2>2
  <2> QED  BY <2>1, <2>3
<1>2. m \in Nat /\ n \in Nat
  BY BoundsAssumption
<1>3. types \in Seq(Encode!Type) /\ Len(types) = m
  BY <1>1, <1>2, LenProperties
<1>4. values \in Seq(Encode!Text) /\ Len(values) = n
  BY <1>1, <1>2, LenProperties
<1>5. tokens \in Seq(Encode!Token) /\ Len(tokens) = 0
  BY EmptySeq DEF Encode!Init
<1>6. Encode!TypeOK
  BY <1>2, <1>3, <1>4, <1>5 DEF Encode!Init, Encode!TypeOK, Encode!Pairs
<1>7. TokensStand /\ ParamsPaired /\ EncodeEnded
  BY <1>1, <1>3, <1>4, <1>5
  DEF Encode!Init, TokensStand, ParamsPaired, EncodeEnded
<1> QED  BY <1>6, <1>7 DEF EncodeInv

(* A token is taken on: what it must be, whoever parsed it.                *)
LEMMA TokenTaken ==
  ASSUME EncodeInv, Encode!Unparsed, NEW w \in Encode!Token,
         UNCHANGED <<command, lenient, types, values, phase>>,
         tokens' = Append(tokens, w),
         Encode!OwnParser(types[Encode!Pair]) =>
           /\ ~Encode!Refused(types[Encode!Pair], values[Encode!Pair])
           /\ ~Encode!Overflows(values[Encode!Pair])
           /\ w = Encode!word(values[Encode!Pair])
  PROVE  EncodeInv'
<1>1. /\ Encode!TypeOK /\ TokensStand /\ ParamsPaired
      /\ tokens \in Seq(Encode!Token) /\ phase = "parsing"
      /\ Len(tokens) < Encode!Pairs
  BY DEF EncodeInv, Encode!TypeOK, Encode!Unparsed
<1>2. Encode!Pairs \in Nat /\ Len(tokens) \in Nat /\ Encode!Pairs' = Encode!Pairs
  BY <1>1, PairAt DEF Encode!Pairs
<1>3. /\ tokens' \in Seq(Encode!Token) /\ Len(tokens') = Len(tokens) + 1
      /\ \A i \in 1 .. Len(tokens) : tokens'[i] = tokens[i]
      /\ tokens'[Encode!Pair] = w
  BY <1>1, AppendProperties DEF Encode!Pair
<1>4. Encode!TypeOK'
  BY <1>1, <1>2, <1>3 DEF Encode!TypeOK
<1>5. TokensStand'
  <2> SUFFICES ASSUME NEW i \in 1 .. Len(tokens) + 1, Encode!OwnParser(types[i])
               PROVE  /\ ~Encode!Refused(types[i], values[i])
                      /\ ~Encode!Overflows(values[i])
                      /\ tokens'[i] = Encode!word(values[i])
    <3>1. types' = types /\ values' = values /\ lenient' = lenient
      OBVIOUS
    <3> QED
      BY <1>3, <3>1
      DEF TokensStand, Encode!Refused, Encode!Overflows, Encode!word, Encode!OwnParser
  <2>1. CASE i \in 1 .. Len(tokens)
    BY <1>1, <1>3, <2>1 DEF TokensStand
  <2>2. CASE i = Encode!Pair
    BY <1>3, <2>2
  <2> QED  BY <1>2, <2>1, <2>2 DEF Encode!Pair
<1> QED  BY <1>1, <1>4, <1>5 DEF EncodeInv, EncodeEnded, ParamsPaired

(* A command that ends takes no token.                                     *)
LEMMA EncodeEnds ==
  ASSUME EncodeInv, UNCHANGED <<command, lenient, types, values, tokens>>,
         phase' \in {"encoded", "refused", "panicked"},
         phase' = "encoded" => Len(tokens) = Len(types),
         phase' = "panicked" =>
           /\ Len(tokens) < Encode!Pairs
           /\ Encode!OwnParser(types[Encode!Pair])
           /\ ~Encode!Refused(types[Encode!Pair], values[Encode!Pair])
           /\ Encode!Overflows(values[Encode!Pair])
  PROVE  EncodeInv'
<1>1. Encode!TypeOK /\ TokensStand /\ ParamsPaired
  BY DEF EncodeInv
<1>2. ParamsPaired' /\ Encode!TypeOK'
  BY <1>1 DEF ParamsPaired, Encode!TypeOK, Encode!Pairs
<1>3. TokensStand'
  BY <1>1
  DEF TokensStand, Encode!Refused, Encode!Overflows, Encode!word, Encode!OwnParser
<1>4. EncodeEnded'
  BY DEF EncodeEnded, Encode!Pair, Encode!Pairs,
         Encode!Refused, Encode!Overflows, Encode!OwnParser
<1> QED  BY <1>2, <1>3, <1>4 DEF EncodeInv

LEMMA EncodeInvNext ==
  ASSUME EncodeInv, Encode!Next \/ UNCHANGED Encode!vars
  PROVE  EncodeInv'
<1>1. /\ Encode!Pairs \in Nat /\ Len(tokens) \in Nat
      /\ Len(types) = Len(values) => Encode!Pairs = Len(types)
      /\ \A i \in 1 .. Encode!Pairs :
           types[i] \in Encode!Type /\ values[i] \in Encode!Text
  BY PairAt DEF EncodeInv
<1>2. /\ Encode!TypeOK /\ TokensStand /\ ParamsPaired
  BY DEF EncodeInv
<1>3. CASE Encode!ParseInteger
  <2> DEFINE type == types[Encode!Pair]  text == values[Encode!Pair]
  <2>1. /\ Encode!Unparsed /\ phase = "parsing" /\ Len(tokens) < Encode!Pairs
        /\ UNCHANGED <<command, lenient, types, values>>
        /\ Encode!OwnParser(type)
        /\ phase' = IF Encode!Refused(type, text) THEN "refused"
                    ELSE IF Encode!Overflows(text) THEN "panicked"
                    ELSE phase
        /\ tokens' = IF phase' = "parsing" THEN Append(tokens, Encode!word(text))
                                           ELSE tokens
    BY <1>3 DEF Encode!ParseInteger, Encode!Unparsed
  <2>2. Encode!Pair \in 1 .. Encode!Pairs
    BY <1>1, <2>1 DEF Encode!Pair
  <2>3. text \in Encode!Text
    BY <1>1, <2>2
  <2>4. CASE phase' = "parsing"
    <3>1. ~Encode!Refused(type, text) /\ ~Encode!Overflows(text)
      BY <2>1, <2>4
    <3>2. Encode!word(text) \in Encode!Token
      BY <2>3, <3>1, WordType DEF Encode!Refused, Encode!Token
    <3> QED  BY <2>1, <2>4, <3>1, <3>2, TokenTaken
  <2>5. CASE phase' # "parsing"
    <3>1. /\ tokens' = tokens
          /\ \/ phase' = "refused"
             \/ phase' = "panicked" /\ ~Encode!Refused(type, text)
                                    /\ Encode!Overflows(text)
      BY <2>1, <2>5
    <3> QED  BY <2>1, <3>1, EncodeEnds
  <2> QED  BY <2>4, <2>5
<1>4. CASE Encode!ParseOther
  <2>1. /\ Encode!Unparsed /\ phase = "parsing"
        /\ UNCHANGED <<command, lenient, types, values>>
        /\ ~Encode!OwnParser(types[Encode!Pair])
    BY <1>4 DEF Encode!ParseOther, Encode!Unparsed
  <2>2. CASE tokens' = Append(tokens, CrateToken) /\ UNCHANGED phase
    <3>1. CrateToken \in Encode!Token
      BY DEF Encode!Token
    <3> QED  BY <2>1, <2>2, <3>1, TokenTaken
  <2>3. CASE phase' = "refused" /\ UNCHANGED tokens
    BY <2>1, <2>3, EncodeEnds
  <2> QED  BY <1>4, <2>2, <2>3 DEF Encode!ParseOther
<1>5. CASE Encode!Encode
  <2>1. /\ phase = "parsing" /\ Len(tokens) = Encode!Pairs
        /\ UNCHANGED <<command, lenient, types, values, tokens>>
        /\ phase' \in {"refused", "encoded"}
        /\ phase' = "encoded" => ~Encode!Checked \/ Len(tokens) = Len(types)
    BY <1>5 DEF Encode!Encode
  <2>2. ~Encode!Checked => Len(tokens) = Len(types)
    BY <1>1, <1>2, <2>1
    DEF Encode!Checked, ParamsPaired, Encode!TypeOK, Encode!Commands
  <2> QED  BY <2>1, <2>2, EncodeEnds
<1>6. CASE UNCHANGED Encode!vars
  BY <1>6
  DEF Encode!vars, EncodeInv, TokensStand, ParamsPaired, EncodeEnded,
      Encode!TypeOK, Encode!Pairs, Encode!Pair,
      Encode!Refused, Encode!Overflows, Encode!word, Encode!OwnParser
<1> QED  BY <1>3, <1>4, <1>5, <1>6 DEF Encode!Next, Encode!Ended

(* The invariant implies what is claimed of the commands that encode.      *)
LEMMA EncodeInvImplies ==
  ASSUME EncodeInv
  PROVE  Encode!EncodesItsValues /\ Encode!OnlyMinusZeroPanics
<1>1. /\ Encode!Pairs \in Nat /\ Len(tokens) \in Nat
      /\ Len(tokens) <= Encode!Pairs
      /\ \A i \in 1 .. Encode!Pairs :
           types[i] \in Encode!Type /\ values[i] \in Encode!Text
  BY PairAt DEF EncodeInv, Encode!TypeOK
<1>2. Encode!EncodesItsValues
  <2> SUFFICES ASSUME phase = "encoded", NEW i \in DOMAIN types,
                      Encode!OwnParser(types[i])
               PROVE  /\ values[i].digits
                      /\ types[i] = "int" /\ Encode!InRange(Encode!Number(values[i])) =>
                           Encode!Denotes(tokens[i]) = Encode!Number(values[i])
                      /\ types[i] = "uint" => tokens[i] = Encode!Number(values[i])
    BY DEF EncodeInv, EncodeEnded, Encode!EncodesItsValues
  <2>1. Len(tokens) = Len(types) /\ DOMAIN types = 1 .. Len(types)
    BY LenProperties DEF EncodeInv, EncodeEnded, Encode!TypeOK
  <2>2. i \in 1 .. Len(tokens) /\ i \in 1 .. Encode!Pairs
    BY <1>1, <2>1
  <2> DEFINE type == types[i]  t == values[i]  w == tokens[i]
  <2>3. /\ ~Encode!Refused(type, t) /\ ~Encode!Overflows(t)
        /\ w = Encode!word(t) /\ t \in Encode!Text
    BY <1>1, <2>2 DEF EncodeInv, TokensStand
  <2> HIDE DEF type, t, w
  <2>4. t.digits /\ t.number \in Encode!Word /\ (type = "uint" => ~t.minus)
    BY <2>3 DEF Encode!Refused
  <2>5. Encode!InRange(Encode!Number(t)) => Encode!Denotes(w) = Encode!Number(t)
    BY <2>3, <2>4, WordDenotes
  <2>6. type = "uint" => w = Encode!Number(t)
    BY <2>3, <2>4 DEF Encode!word, Encode!Number
  <2> QED  BY <2>4, <2>5, <2>6 DEF type, t, w
<1>3. Encode!OnlyMinusZeroPanics
  <2> DEFINE type == types[Encode!Pair]  t == values[Encode!Pair]
  <2> SUFFICES ASSUME phase = "panicked"
               PROVE  type = "int" /\ t.minus /\ Encode!Number(t) = 0
    BY DEF Encode!OnlyMinusZeroPanics
  <2>1. /\ Len(tokens) < Encode!Pairs /\ Encode!OwnParser(type)
        /\ ~Encode!Refused(type, t) /\ Encode!Overflows(t)
    BY DEF EncodeInv, EncodeEnded
  <2>2. t \in Encode!Text
    BY <1>1, <2>1 DEF Encode!Pair
  <2> HIDE DEF type, t
  <2>3. t.number \in Encode!Word
    BY <2>1 DEF Encode!Refused
  <2>4. t.minus /\ t.number = 0
    BY <2>1, <2>2, <2>3, ComplementRange
  <2>5. type = "int"
    BY <2>1, <2>4 DEF Encode!Refused, Encode!OwnParser
  <2>6. Encode!Number(t) = 0
    <3>1. Encode!Number(t) = -t.number
      BY <2>4 DEF Encode!Number
    <3>2. \A n \in Int : -n = 0 - n
      OBVIOUS
    <3>3. 0 - 0 = 0 /\ 0 \in Int
      OBVIOUS
    <3> QED  BY ONLY <2>4, <3>1, <3>2, <3>3
  <2> QED  BY <2>4, <2>5, <2>6
<1> QED  BY <1>2, <1>3

-----------------------------------------------------------------------------
(* The commands that decode                                                *)

(* What `params` printed so far are the first of the values.               *)
PrintedSoFar ==
  command = "params" => \A i \in 1 .. Len(printed) : printed[i] = values[i]

(* A command that printed printed everything; one that panicked, other     *)
(* than for want of --data, was at a value that does not read as JSON.     *)
DecodeEnded ==
  /\ phase = "decoded" => data # Decode!Absent
  /\ phase = "printed" => Len(printed) = Len(values)
  /\ phase = "panicked" /\ data # Decode!Absent =>
       /\ Len(printed) < Len(values)
       /\ Decode!from_str(Decode!render(command, Decode!Value)) = {}

NothingYet == phase = "started" => values = << >> /\ printed = << >>

DecodeInv == Decode!TypeOK /\ PrintedSoFar /\ DecodeEnded /\ NothingYet

LEMMA OptionsTyped ==
  ASSUME NEW c, NEW d, <<c, d>> \in Decode!Options
  PROVE  c \in Decode!Commands /\ d \in Decode!Data \cup {Decode!Absent}
<1> QED  BY DEF Decode!Options

LEMMA DecodeInvInit == Decode!Init => DecodeInv
<1> SUFFICES ASSUME Decode!Init PROVE DecodeInv
  OBVIOUS
<1>1. PICK option \in Decode!Options : command = option[1] /\ data = option[2]
  BY DEF Decode!Init
<1>2. <<command, data>> \in Decode!Options
  <2>1. option = <<option[1], option[2]>>
    BY DEF Decode!Options
  <2> QED  BY <1>1, <2>1
<1>3. << >> \in Seq(Decode!Texts) /\ Len(<< >>) = 0
  BY EmptySeq
<1>4. Decode!TypeOK
  BY <1>2, <1>3 DEF Decode!Init, Decode!TypeOK
<1> QED
  BY <1>3, <1>4
  DEF Decode!Init, DecodeInv, PrintedSoFar, DecodeEnded, NothingYet

LEMMA DecodeInvNext ==
  ASSUME DecodeInv, Decode!Next \/ UNCHANGED Decode!vars
  PROVE  DecodeInv'
<1>1. /\ Decode!TypeOK /\ PrintedSoFar /\ DecodeEnded /\ NothingYet
      /\ values \in Seq(Decode!Texts) /\ printed \in Seq(Decode!Texts)
      /\ <<command, data>> \in Decode!Options
  BY DEF DecodeInv, Decode!TypeOK
<1>2. /\ Len(values) \in Nat /\ Len(printed) \in Nat
      /\ Len(printed) <= Len(values)
      /\ command \in Decode!Commands /\ data \in Decode!Data \cup {Decode!Absent}
  BY <1>1, LenProperties, OptionsTyped DEF Decode!TypeOK
<1>3. CASE Decode!Decode
  <2>1. /\ phase = "started" /\ UNCHANGED <<command, data, printed>>
        /\ bytes' = IF data \in Decode!Accepted(command) THEN Decode!Given(command)
                                                          ELSE "none"
    BY <1>3 DEF Decode!Decode
  <2>2. values = << >> /\ printed = << >> /\ Len(<< >>) = 0
    BY <1>1, <2>1, EmptySeq DEF NothingYet
  <2>3. /\ bytes' \in {"none", "text", "decoded"}
        /\ bytes' = "decoded" => data \in {"hex", "0xhex", "0Xhex"}
        /\ bytes' # "none" => data # Decode!Absent
    BY <1>2, <2>1
    DEF Decode!Given, Decode!Accepted, Decode!Commands, Decode!Data, Decode!Absent
  <2>4. CASE phase' = "decoded"
    <3>1. bytes' # "none" /\ \E n \in 0 .. MaxValues : values' \in [1 .. n -> Decode!Texts]
      BY <1>3, <2>4 DEF Decode!Decode
    <3>2. PICK n \in 0 .. MaxValues : values' \in [1 .. n -> Decode!Texts]
      BY <3>1
    <3>3. n \in Nat
      BY BoundsAssumption
    <3>4. values' \in Seq(Decode!Texts) /\ Len(values') \in Nat
      BY <3>2, <3>3, LenProperties
    <3>5. Decode!TypeOK'
      BY <1>1, <2>1, <2>2, <2>3, <2>4, <3>4 DEF Decode!TypeOK
    <3>6. PrintedSoFar'
      BY <2>1, <2>2 DEF PrintedSoFar
    <3> QED  BY <2>1, <2>3, <2>4, <3>1, <3>5, <3>6 DEF DecodeInv, DecodeEnded, NothingYet
  <2>5. CASE phase' # "decoded"
    <3>1. /\ phase' = IF data = Decode!Absent THEN "panicked" ELSE "refused"
          /\ values' = values
      BY <1>3, <2>5 DEF Decode!Decode
    <3>2. Decode!TypeOK'
      BY <1>1, <2>1, <2>3, <3>1 DEF Decode!TypeOK
    <3> QED
      BY <1>1, <2>1, <3>1, <3>2 DEF DecodeInv, PrintedSoFar, DecodeEnded, NothingYet
  <2> QED  BY <2>4, <2>5
<1>4. CASE Decode!ParseJson
  <2> DEFINE v == Decode!Value  k == Len(printed) + 1
             read == Decode!from_str(Decode!render(command, v))
  <2>1. /\ phase = "decoded" /\ Len(printed) < Len(values)
        /\ UNCHANGED <<command, data, bytes, values>>
        /\ \/ \E t \in read : printed' = Append(printed, t) /\ UNCHANGED phase
           \/ read = {} /\ phase' = "panicked" /\ UNCHANGED printed
    BY <1>4 DEF Decode!ParseJson
  <2>2. k \in 1 .. Len(values) /\ v = values[k]
    BY <1>2, <2>1 DEF Decode!Value
  <2>3. v \in Decode!Texts
    BY <1>1, <2>2, ElementOfSeq
  <2>4. ASSUME NEW t \in read, printed' = Append(printed, t), UNCHANGED phase
        PROVE  DecodeInv'
    <3>1. t \in Decode!Texts
      BY DEF Decode!from_str
    <3>2. command = "params" => t = v
      BY <2>3, <2>4, ParamsReadBack
    <3> HIDE DEF v, k, read
    <3>3. /\ printed' \in Seq(Decode!Texts) /\ Len(printed') = Len(printed) + 1
          /\ \A i \in 1 .. Len(printed) : printed'[i] = printed[i]
          /\ printed'[Len(printed) + 1] = t
      BY <1>1, <2>4, <3>1, AppendProperties
    <3>4. Decode!TypeOK'
      BY <1>1, <1>2, <2>1, <2>4, <3>3 DEF Decode!TypeOK
    <3>5. PrintedSoFar'
      <4> SUFFICES ASSUME command = "params", NEW i \in 1 .. Len(printed) + 1
                   PROVE  printed'[i] = values[i]
        BY <2>1, <3>3 DEF PrintedSoFar
      <4>1. CASE i \in 1 .. Len(printed)
        BY <1>1, <3>3, <4>1 DEF PrintedSoFar
      <4>2. CASE i = k
        BY <2>2, <3>2, <3>3, <4>2 DEF k
      <4> QED  BY <1>2, <4>1, <4>2 DEF k
    <3>6. (DecodeEnded /\ NothingYet)'
      BY <1>1, <2>1, <2>4 DEF DecodeEnded, NothingYet
    <3> QED  BY <3>4, <3>5, <3>6 DEF DecodeInv
  <2>5. ASSUME read = {}, phase' = "panicked", UNCHANGED printed
        PROVE  DecodeInv'
    <3>1. Decode!TypeOK'
      BY <1>1, <2>1, <2>5 DEF Decode!TypeOK
    <3>2. Decode!Value' = Decode!Value
      BY <2>1, <2>5 DEF Decode!Value
    <3>3. Decode!from_str(Decode!render(command', Decode!Value')) = {}
      BY <2>1, <2>5, <3>2
    <3>4. DecodeEnded'
      BY <2>1, <2>5, <3>3 DEF DecodeEnded, Decode!from_str, Decode!render
    <3>5. (PrintedSoFar /\ NothingYet)'
      BY <1>1, <2>1, <2>5 DEF PrintedSoFar, NothingYet
    <3> QED  BY <3>1, <3>4, <3>5 DEF DecodeInv
  <2> HIDE DEF read
  <2> QED  BY <2>1, <2>4, <2>5
<1>5. CASE Decode!Finish
  <2>1. /\ Len(printed) = Len(values) /\ phase' = "printed"
        /\ UNCHANGED <<command, data, bytes, values, printed>>
    BY <1>5 DEF Decode!Finish
  <2>2. Decode!TypeOK'
    BY <1>1, <2>1 DEF Decode!TypeOK
  <2> QED
    BY <1>1, <2>1, <2>2 DEF DecodeInv, PrintedSoFar, DecodeEnded, NothingYet
<1>6. CASE UNCHANGED Decode!vars
  BY <1>6
  DEF Decode!vars, DecodeInv, PrintedSoFar, DecodeEnded, NothingYet,
      Decode!TypeOK, Decode!Value, Decode!from_str, Decode!render
<1> QED  BY <1>3, <1>4, <1>5, <1>6 DEF Decode!Next, Decode!Ended

(* The invariant implies what is claimed of the commands that decode.      *)
LEMMA DecodeInvImplies ==
  ASSUME DecodeInv
  PROVE  Decode!ParamsPrintsValues /\ Decode!HarmlessValuesPrinted
<1>1. /\ values \in Seq(Decode!Texts) /\ printed \in Seq(Decode!Texts)
      /\ Len(printed) <= Len(values)
  BY DEF DecodeInv, Decode!TypeOK
<1>2. Len(values) \in Nat /\ Len(printed) \in Nat
  BY <1>1, LenProperties
<1>3. Decode!ParamsPrintsValues
  <2> SUFFICES ASSUME command = "params"
               PROVE  /\ Decode!IsPrefix(printed, values)
                      /\ phase = "printed" => printed = values
    BY DEF Decode!ParamsPrintsValues
  <2>1. \A i \in 1 .. Len(printed) : printed[i] = values[i]
    BY DEF DecodeInv, PrintedSoFar
  <2> DEFINE m == Len(printed)  a == SubSeq(printed, 1, m)  b == SubSeq(values, 1, m)
  <2>2. \A i \in 1 .. m : printed[i] \in Decode!Texts /\ values[i] \in Decode!Texts
    BY <1>1, <2>1, ElementOfSeq
  <2>3. m \in Int /\ 1 \in Int
    BY <1>2
  <2>4. /\ a \in Seq(Decode!Texts) /\ Len(a) = (IF 1 <= m THEN m - 1 + 1 ELSE 0)
        /\ \A i \in 1 .. m - 1 + 1 : a[i] = printed[1 + i - 1]
    BY <2>2, <2>3, SubSeqProperties
  <2>5. /\ b \in Seq(Decode!Texts) /\ Len(b) = (IF 1 <= m THEN m - 1 + 1 ELSE 0)
        /\ \A i \in 1 .. m - 1 + 1 : b[i] = values[1 + i - 1]
    BY <2>2, <2>3, SubSeqProperties
  <2> HIDE DEF a, b, m
  <2>6. Len(a) = m /\ Len(b) = m
    BY <1>2, <2>4, <2>5 DEF m
  <2>7. \A i \in 1 .. m : a[i] = b[i]
    <3> SUFFICES ASSUME NEW i \in 1 .. m PROVE a[i] = b[i]
      OBVIOUS
    <3>1. i \in 1 .. m - 1 + 1 /\ 1 + i - 1 = i
      BY <2>3
    <3> QED  BY <2>1, <2>4, <2>5, <3>1 DEF m
  <2>8. a = b
    BY <2>4, <2>5, <2>6, <2>7, SeqEqual
  <2>9. Decode!IsPrefix(printed, values)
    BY <1>1, <2>8 DEF Decode!IsPrefix, a, b, m
  <2>10. phase = "printed" => printed = values
    BY <1>1, <2>1, SeqEqual DEF DecodeInv, DecodeEnded
  <2> QED  BY <2>9, <2>10
<1>4. Decode!HarmlessValuesPrinted
  <2> SUFFICES ASSUME phase = "panicked", data # Decode!Absent,
                      Decode!Value \in Seq(Decode!Harmless)
               PROVE  FALSE
    BY DEF Decode!HarmlessValuesPrinted
  <2>1. /\ Len(printed) < Len(values)
        /\ Decode!from_str(Decode!render(command, Decode!Value)) = {}
    BY DEF DecodeInv, DecodeEnded
  <2>2. Len(printed) + 1 \in 1 .. Len(values)
    BY <1>2, <2>1
  <2>3. Decode!Value \in Decode!Texts
    BY <1>1, <2>2, ElementOfSeq DEF Decode!Value
  <2> QED  BY <2>1, <2>3, HarmlessReadBack
<1> QED  BY <1>3, <1>4

-----------------------------------------------------------------------------
(* Theorems                                                                *)

AbiInv ==
  /\ sub \in {"encode", "decode"}
  /\ sub = "encode" => EncodeInv
  /\ sub = "decode" => DecodeInv

LEMMA AbiInvariance == Spec => []AbiInv
<1>1. Init => AbiInv
  BY EncodeInvInit, DecodeInvInit DEF Init, AbiInv
<1>2. AbiInv /\ [Next]_vars => AbiInv'
  <2> SUFFICES ASSUME AbiInv, [Next]_vars PROVE AbiInv'
    OBVIOUS
  <2>1. sub' = sub
    BY DEF Next, vars
  <2>2. sub = "encode" => Encode!Next \/ UNCHANGED Encode!vars
    BY DEF Next, vars, Encode!vars, onlyEncode
  <2>3. sub = "decode" => Decode!Next \/ UNCHANGED Decode!vars
    BY DEF Next, vars, Decode!vars, onlyDecode
  <2> QED  BY <2>1, <2>2, <2>3, EncodeInvNext, DecodeInvNext DEF AbiInv
<1> QED  BY <1>1, <1>2, PTL DEF Spec

(* Every variable has a value the running command can give it.             *)
THEOREM TypeCorrect == Spec => []TypeOK
<1>1. AbiInv => TypeOK
  BY DEF AbiInv, EncodeInv, DecodeInv, TypeOK
<1> QED  BY <1>1, AbiInvariance, PTL

(* Call data stand for the values given, for words of any even base and    *)
(* any number of digits.                                                   *)
THEOREM EncodesItsValuesHolds == Spec => []EncodesItsValues
<1>1. AbiInv => EncodesItsValues
  BY EncodeInvImplies DEF AbiInv, EncodesItsValues
<1> QED  BY <1>1, AbiInvariance, PTL

(* parse_tokens panics for a negative zero only.                           *)
THEOREM OnlyMinusZeroPanicsHolds == Spec => []OnlyMinusZeroPanics
<1>1. AbiInv => OnlyMinusZeroPanics
  BY EncodeInvImplies DEF AbiInv, OnlyMinusZeroPanics
<1> QED  BY <1>1, AbiInvariance, PTL

(* `decode params` prints what was decoded, for values of any length.      *)
THEOREM ParamsPrintsValuesHolds == Spec => []ParamsPrintsValues
<1>1. AbiInv => ParamsPrintsValues
  BY DecodeInvImplies DEF AbiInv, ParamsPrintsValues
<1> QED  BY <1>1, AbiInvariance, PTL

(* The unwrap of serde_json::from_str panics on no harmless value.         *)
THEOREM HarmlessValuesPrintedHolds == Spec => []HarmlessValuesPrinted
<1>1. AbiInv => HarmlessValuesPrinted
  BY DecodeInvImplies DEF AbiInv, HarmlessValuesPrinted
<1> QED  BY <1>1, AbiInvariance, PTL
=============================================================================
