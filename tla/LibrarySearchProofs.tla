------------------------- MODULE LibrarySearchProofs -------------------------
(***************************************************************************)
(* Proofs about LibrarySearch: for any number of folders in                *)
(* LD_LIBRARY_PATH, any defaults, and whatever folders hold the file.      *)
(***************************************************************************)
EXTENDS LibrarySearch, SequenceTheorems, TLAPS

(* No folder that was passed holds the file.  A search that ended well     *)
(* ended at the folder it answers; one that ended badly ended behind the   *)
(* last folder or at one whose name is no UTF-8.                           *)
Passed == \A j \in 1 .. next - 1 : Order[j] \notin holds

EndedWell ==
  phase = "found" =>
    next \in DOMAIN Order /\ Order[next] \in holds /\ answer = Order[next]

EndedBadly ==
  phase = "panicked" =>
    \/ next = Len(Order) + 1
    \/ next \in DOMAIN Order /\ Order[next] \in holds \ unicode

SearchInv == TypeOK /\ Passed /\ EndedWell /\ EndedBadly

-----------------------------------------------------------------------------
(* Lemmas                                                                  *)

LEMMA FoldersInOrder ==
  ASSUME ld_path \in Seq(Folder)
  PROVE  /\ Order \in Seq(Folder) /\ Searched = Order
         /\ Len(Order) \in Nat /\ DOMAIN Order = 1 .. Len(Order)
         /\ \A i \in DOMAIN Order : Order[i] \in Folder /\ Order[i] # None
<1>1. Order \in Seq(Folder) /\ Searched = Order
  BY FoldersAssumption, ConcatProperties DEF Order, Searched
<1>2. \A i \in DOMAIN Order : Order[i] \in Folder
  BY <1>1, ElementOfSeq, LenProperties
<1> QED  BY <1>1, <1>2, LenProperties, FoldersAssumption

LEMMA SearchInvInit == Init => SearchInv
<1> SUFFICES ASSUME Init PROVE SearchInv
  OBVIOUS
<1>1. PICK n \in 0 .. MaxPath : ld_path \in [1 .. n -> Folder]
  BY DEF Init
<1>2. n \in Nat
  BY <1>1, FoldersAssumption
<1>3. ld_path \in Seq(Folder)
  BY <1>1, <1>2
<1>4. Defaults \in Seq(Folder) /\ ToSet(Defaults) \subseteq Folder
  BY FoldersAssumption, LenProperties, ElementOfSeq DEF ToSet
<1>5. TypeOK
  BY <1>3, FoldersInOrder DEF Init, TypeOK
<1> QED  BY <1>5 DEF SearchInv, Init, Passed, EndedWell, EndedBadly

LEMMA SearchInvNext == SearchInv /\ [Next]_vars => SearchInv'
<1> SUFFICES ASSUME SearchInv, [Next]_vars PROVE SearchInv'
  OBVIOUS
<1> DEFINE N == Len(Order)
<1>1. ld_path \in Seq(Folder) /\ next \in 1 .. N + 1
  BY DEF SearchInv, TypeOK
<1>2. /\ Searched = Order /\ N \in Nat /\ DOMAIN Order = 1 .. N
      /\ \A i \in DOMAIN Order : Order[i] \in Folder /\ Order[i] # None
  BY <1>1, FoldersInOrder
<1>3. CASE Pass
  <2>1. next' = next + 1 /\ next \in 1 .. N /\ Order[next] \notin holds
    BY <1>1, <1>2, <1>3 DEF Pass, is_file_in, Here
  <2>2. /\ phase = "searching" /\ Order' = Order
        /\ UNCHANGED <<ld_path, holds, unicode, phase, answer>>
    BY <1>3 DEF Pass, Order
  <2>3. TypeOK'
    BY <1>2, <2>1, <2>2 DEF SearchInv, TypeOK
  <2>4. Passed'
    <3>1. SUFFICES ASSUME NEW j \in 1 .. next PROVE Order[j] \notin holds
      BY <1>1, <1>2, <2>1, <2>2 DEF Passed
    <3>2. j = next \/ j \in 1 .. next - 1
      BY <1>1, <1>2
    <3> QED  BY <2>1, <3>2 DEF SearchInv, Passed
  <2> QED  BY <2>2, <2>3, <2>4 DEF SearchInv, EndedWell, EndedBadly
<1>4. CASE Hit
  <2>1. next \in 1 .. N /\ Order[next] \in holds
    BY <1>1, <1>2, <1>4 DEF Hit, is_file_in, Here
  <2>2. UNCHANGED <<ld_path, holds, unicode, next>> /\ Order' = Order
    BY <1>4 DEF Hit, Order
  <2>3. \/ answer' = Order[next] /\ phase' = "found"
        \/ answer' = None /\ phase' = "panicked" /\ Order[next] \notin unicode
    BY <1>2, <1>4, <2>1 DEF Hit, Chosen, Verdict, Here
  <2>4. TypeOK'
    BY <1>2, <2>1, <2>2, <2>3 DEF SearchInv, TypeOK
  <2> QED
    BY <1>2, <2>1, <2>2, <2>3, <2>4
    DEF SearchInv, Passed, EndedWell, EndedBadly
<1>5. CASE Miss
  <2>1. next = N + 1 /\ answer = None /\ phase' = "panicked"
    BY <1>1, <1>2, <1>5 DEF Miss, SearchInv, TypeOK, Verdict
  <2>2. UNCHANGED <<ld_path, holds, unicode, next, answer>> /\ Order' = Order
    BY <1>5 DEF Miss, Order
  <2>3. TypeOK'
    BY <2>1, <2>2 DEF SearchInv, TypeOK
  <2> QED
    BY <2>1, <2>2, <2>3 DEF SearchInv, Passed, EndedWell, EndedBadly
<1>6. CASE UNCHANGED vars
  BY <1>6 DEF vars, SearchInv, TypeOK, Passed, EndedWell, EndedBadly, Order
<1> QED  BY <1>3, <1>4, <1>5, <1>6 DEF Next, Ended

LEMMA SearchInvariance == Spec => []SearchInv
<1> QED  BY SearchInvInit, SearchInvNext, PTL DEF Spec

-----------------------------------------------------------------------------
(* Theorems                                                                *)

(* A build that goes on has a folder to link from, and no other has.       *)
THEOREM TypeCorrect == Spec => []TypeOK
<1>1. SearchInv => TypeOK
  BY DEF SearchInv
<1> QED  BY <1>1, SearchInvariance, PTL

(* cargo is told the first folder, in the order the script promises, that  *)
(* holds the file.                                                         *)
THEOREM FirstIsFoundHolds == Spec => []FirstIsFound
<1>1. SearchInv => FirstIsFound
  BY DEF SearchInv, FirstIsFound, FirstIn, EndedWell, Passed
<1> QED  BY <1>1, SearchInvariance, PTL

(* No folder is passed over: a build fails for a library that is there     *)
(* only because of the name of the first folder that holds it.             *)
THEOREM FailsAtFirstHolds == Spec => []FailsAtFirst
<1>1. SearchInv => FailsAtFirst
  <2> SUFFICES ASSUME SearchInv, phase = "panicked",
                      NEW i \in DOMAIN Order, FirstIn(i)
               PROVE  Order[i] \notin unicode
    BY DEF FailsAtFirst
  <2>1. ld_path \in Seq(Folder) /\ next \in 1 .. Len(Order) + 1
    BY DEF SearchInv, TypeOK
  <2>2. Len(Order) \in Nat /\ DOMAIN Order = 1 .. Len(Order)
    BY <2>1, FoldersInOrder
  <2>3. Order[i] \in holds /\ \A j \in 1 .. i - 1 : Order[j] \notin holds
    BY DEF FirstIn
  <2>4. i \notin 1 .. next - 1
    BY <2>3 DEF SearchInv, Passed
  <2>5. next \in DOMAIN Order /\ Order[next] \in holds \ unicode
    BY <2>1, <2>2, <2>4 DEF SearchInv, EndedBadly
  <2>6. next \notin 1 .. i - 1
    BY <2>3, <2>5
  <2>7. i = next
    BY <2>1, <2>2, <2>4, <2>6
  <2> QED  BY <2>5, <2>7
<1> QED  BY <1>1, SearchInvariance, PTL
=============================================================================
