------------------------- MODULE FfiOwnershipProofs -------------------------
(***************************************************************************)
(* Proofs about FfiOwnership for every amount of gas and every depth: the  *)
(* raw pointers of evmc.rs are used as an owned, borrowed and freed value  *)
(* may be, however many calls are nested and in whatever order they end,   *)
(* every transaction ends, and then nothing is left that was not freed.    *)
(***************************************************************************)
EXTENDS FfiOwnership, SequenceTheorems, TLAPS

(* Where a frame holds a wrapper on its box, where it has an output, and   *)
(* where it has the result of a callee.                                    *)
Borrowing == {"query", "call", "wrapped", "merged", "returning"}
Past      == {"executed", "wrapped", "merged", "unwrapped"}
Replied   == {"returning", "answered"}

Wrappers(at) == IF at \in Borrowing THEN 1 ELSE 0

(* Frames own different boxes, all but the last wait in `call`; a box is   *)
(* alive if and only if a frame owns it, and wrapped as its frame needs.   *)
(* Before a box is made there is room for it: it was paid for.             *)
BoxInv ==
  /\ \A i, j \in DOMAIN frames : frames[i].box = frames[j].box => i = j
  /\ \A i \in DOMAIN frames :
       /\ i # Len(frames) => frames[i].at = "call"
       /\ frames[i].box \in DOMAIN boxes
       /\ boxes[frames[i].box].wrappers = Wrappers(frames[i].at)
       /\ boxes[frames[i].box].frees = 0
  /\ \A b \in DOMAIN boxes :
       (\A i \in DOMAIN frames : frames[i].box # b) =>
         boxes[b].wrappers = 0 /\ boxes[b].frees = 1
  /\ outcome = "running" /\ (frames # << >> => Top.at = "call") =>
       Len(boxes) + gas <= MaxGas

(* A frame's copy does not exist before its VM has ended and is not freed  *)
(* while the frame has it; nor is the result of a callee, which is the     *)
(* copy of no frame on the stack.                                          *)
OutputInv ==
  \A i \in DOMAIN frames :
    /\ frames[i].at \in Past => outputs[frames[i].box].frees = 0
    /\ frames[i].at \notin Past => outputs[frames[i].box].copy = "none"
    /\ frames[i].at \in Replied =>
         /\ frames[i].reply \in DOMAIN outputs
         /\ outputs[frames[i].reply].frees = 0
         /\ \A j \in DOMAIN frames : frames[j].box # frames[i].reply

Inv == TypeOK /\ BoxInv /\ OutputInv

-----------------------------------------------------------------------------
(* What the type invariant says of the top frame and of its box.           *)
LEMMA TopFrame ==
  ASSUME TypeOK, frames # << >>
  PROVE  /\ Len(frames) \in Nat \ {0} /\ DOMAIN frames = 1 .. Len(frames)
         /\ Len(frames) \in DOMAIN frames
         /\ \A i \in DOMAIN frames : frames[i] \in Frame
         /\ Top = frames[Len(frames)] /\ Top \in Frame
<1>1. Len(frames) \in Nat \ {0} /\ DOMAIN frames = 1 .. Len(frames)
  BY EmptySeq, LenProperties DEF TypeOK
<1>2. \A i \in 1 .. Len(frames) : frames[i] \in Frame
  BY ElementOfSeq DEF TypeOK
<1> QED  BY <1>1, <1>2 DEF Top, Last

LEMMA Boxes ==
  ASSUME TypeOK
  PROVE  /\ Len(boxes) \in 0 .. MaxGas + 1 /\ DOMAIN boxes = 1 .. Len(boxes)
         /\ DOMAIN outputs = DOMAIN boxes /\ DOMAIN boxes \subseteq Box
         /\ \A b \in DOMAIN boxes : boxes[b] \in BoxState /\ outputs[b] \in Output
<1>1. /\ Len(boxes) \in Nat /\ DOMAIN boxes = 1 .. Len(boxes)
      /\ DOMAIN outputs = 1 .. Len(boxes)
  BY LenProperties DEF TypeOK
<1>2. Len(boxes) <= MaxGas + 1
  BY <1>1, BoundsAssumption DEF TypeOK
<1>3. \A b \in 1 .. Len(boxes) : boxes[b] \in BoxState /\ outputs[b] \in Output
  BY ElementOfSeq DEF TypeOK
<1> QED  BY <1>1, <1>2, <1>3, BoundsAssumption DEF Box

(* A step of the running frame: Moved says where it gets to and with which *)
(* reply, Kept that all else about the frames stays.                       *)
Moved(at, reply) ==
  /\ frames' \in Seq(Frame) /\ Len(frames') = Len(frames) /\ DOMAIN frames' = DOMAIN frames
  /\ \A i \in DOMAIN frames :
       /\ frames'[i].box = frames[i].box
       /\ frames'[i].at = IF i = Len(frames) THEN at ELSE frames[i].at
       /\ frames'[i].reply = IF i = Len(frames) THEN reply ELSE frames[i].reply

LEMMA Replaced ==
  ASSUME NEW S, NEW s \in Seq(S), NEW n \in 1 .. Len(s), NEW f \in S
  PROVE  LET t == [s EXCEPT ![n] = f]
         IN  /\ t \in Seq(S) /\ Len(t) = Len(s) /\ DOMAIN t = DOMAIN s
             /\ DOMAIN s = 1 .. Len(s)
             /\ \A i \in 1 .. Len(s) : t[i] = IF i = n THEN f ELSE s[i]
<1> DEFINE t == [s EXCEPT ![n] = f]
<1>1. /\ t \in Seq(S) /\ Len(t) = Len(s)
      /\ \A i \in 1 .. Len(s) : t[i] = IF i = n THEN f ELSE s[i]
  BY ExceptSeq
<1> HIDE DEF t
<1>2. DOMAIN t = DOMAIN s /\ DOMAIN s = 1 .. Len(s)
  BY <1>1, LenProperties
<1> QED  BY <1>1, <1>2 DEF t

LEMMA TopReplaced ==
  ASSUME TypeOK, frames # << >>, NEW at \in At, NEW reply \in Box \cup {NoBox},
         frames' = [frames EXCEPT ![Len(frames)] =
                      [box |-> Top.box, at |-> at, reply |-> reply]]
  PROVE  Moved(at, reply)
<1> DEFINE f == [box |-> Top.box, at |-> at, reply |-> reply]
           n == Len(frames)
<1>1. f \in Frame
  BY TopFrame DEF Frame
<1>2. n \in 1 .. n /\ frames \in Seq(Frame) /\ DOMAIN frames = 1 .. n /\ n = Len(frames)
  BY TopFrame DEF TypeOK
<1>3. frames' = [frames EXCEPT ![n] = f]
  OBVIOUS
<1> HIDE DEF f, n
<1>4. n \in 1 .. Len(frames)
  BY <1>2
<1>5. LET s == [frames EXCEPT ![n] = f]
      IN  /\ s \in Seq(Frame) /\ Len(s) = Len(frames) /\ DOMAIN s = DOMAIN frames
          /\ DOMAIN frames = 1 .. Len(frames)
          /\ \A i \in 1 .. Len(frames) : s[i] = IF i = n THEN f ELSE frames[i]
  BY ONLY <1>1, <1>2, <1>4, Replaced
<1> QED  BY <1>2, <1>3, <1>5, TopFrame DEF Moved, f

LEMMA GotoMoves ==
  ASSUME TypeOK, frames # << >>, NEW at \in At, Goto(at)
  PROVE  Moved(at, Top.reply)
<1>1. Top = frames[Len(frames)] /\ Top \in Frame /\ Len(frames) \in DOMAIN frames
  BY TopFrame
<1>2. [frames[Len(frames)] EXCEPT !.at = at]
        = [box |-> Top.box, at |-> at, reply |-> Top.reply]
  BY <1>1 DEF Frame
<1>3. frames' = [frames EXCEPT ![Len(frames)] =
                   [box |-> Top.box, at |-> at, reply |-> Top.reply]]
  BY <1>2 DEF Goto
<1>4. Top.reply \in Box \cup {NoBox}
  BY <1>1 DEF Frame
<1> QED  BY <1>3, <1>4, TopReplaced

(* Set(b, w, f): box b gets these counts and no other box changes.         *)
Set(b, w, f) ==
  /\ boxes' \in Seq(BoxState) /\ Len(boxes') = Len(boxes) /\ DOMAIN boxes' = DOMAIN boxes
  /\ \A c \in DOMAIN boxes :
       /\ boxes'[c].wrappers = IF c = b THEN w ELSE boxes[c].wrappers
       /\ boxes'[c].frees = IF c = b THEN f ELSE boxes[c].frees

LEMMA BoxSet ==
  ASSUME TypeOK, NEW b \in DOMAIN boxes, NEW w \in 0 .. 1, NEW f \in 0 .. 1,
         boxes' = [boxes EXCEPT ![b] = [wrappers |-> w, frees |-> f]]
  PROVE  Set(b, w, f)
<1> DEFINE s == [wrappers |-> w, frees |-> f]
<1>1. s \in BoxState /\ boxes \in Seq(BoxState) /\ b \in 1 .. Len(boxes)
  BY Boxes DEF BoxState, TypeOK
<1>2. boxes' = [boxes EXCEPT ![b] = s]
  OBVIOUS
<1> HIDE DEF s
<1>3. LET r == [boxes EXCEPT ![b] = s]
      IN  /\ r \in Seq(BoxState) /\ Len(r) = Len(boxes) /\ DOMAIN r = DOMAIN boxes
          /\ DOMAIN boxes = 1 .. Len(boxes)
          /\ \A i \in 1 .. Len(boxes) : r[i] = IF i = b THEN s ELSE boxes[i]
  BY ONLY <1>1, Replaced
<1> QED  BY <1>2, <1>3 DEF Set, s

LEMMA WrapperMade ==
  ASSUME TypeOK, NEW b \in DOMAIN boxes, boxes[b].wrappers = 0,
         boxes' = HostContextWrapper_from(b)
  PROVE  Set(b, 1, boxes[b].frees)
<1>1. boxes[b] \in BoxState
  BY Boxes
<1>2. [boxes[b] EXCEPT !.wrappers = boxes[b].wrappers + 1]
        = [wrappers |-> 1, frees |-> boxes[b].frees]
  BY <1>1 DEF BoxState
<1>3. boxes' = [boxes EXCEPT ![b] = [wrappers |-> 1, frees |-> boxes[b].frees]]
  BY <1>2 DEF HostContextWrapper_from
<1>4. /\ boxes[b].wrappers \in 0 .. 1 /\ boxes[b].frees \in 0 .. 1
      /\ 0 \in 0 .. 1 /\ 1 \in 0 .. 1
  BY <1>1 DEF BoxState
<1> QED  BY <1>3, <1>4, BoxSet, Zenon

LEMMA WrapperGone ==
  ASSUME TypeOK, NEW b \in DOMAIN boxes, boxes[b].wrappers = 1,
         boxes' = HostContextWrapper_drop(b)
  PROVE  Set(b, 0, boxes[b].frees)
<1>1. boxes[b] \in BoxState
  BY Boxes
<1>2. [boxes[b] EXCEPT !.wrappers = boxes[b].wrappers - 1]
        = [wrappers |-> 0, frees |-> boxes[b].frees]
  BY <1>1 DEF BoxState
<1>3. boxes' = [boxes EXCEPT ![b] = [wrappers |-> 0, frees |-> boxes[b].frees]]
  BY <1>2 DEF HostContextWrapper_drop
<1>4. /\ boxes[b].wrappers \in 0 .. 1 /\ boxes[b].frees \in 0 .. 1
      /\ 0 \in 0 .. 1 /\ 1 \in 0 .. 1
  BY <1>1 DEF BoxState
<1> QED  BY <1>3, <1>4, BoxSet, Zenon

LEMMA BoxFreed ==
  ASSUME TypeOK, NEW b \in DOMAIN boxes, boxes[b].frees = 0,
         boxes' = HostContextPtr_drop(b)
  PROVE  Set(b, boxes[b].wrappers, 1)
<1>1. boxes[b] \in BoxState
  BY Boxes
<1>2. [boxes[b] EXCEPT !.frees = boxes[b].frees + 1]
        = [wrappers |-> boxes[b].wrappers, frees |-> 1]
  BY <1>1 DEF BoxState
<1>3. boxes' = [boxes EXCEPT ![b] = [wrappers |-> boxes[b].wrappers, frees |-> 1]]
  BY <1>2 DEF HostContextPtr_drop
<1>4. /\ boxes[b].wrappers \in 0 .. 1 /\ boxes[b].frees \in 0 .. 1
      /\ 0 \in 0 .. 1 /\ 1 \in 0 .. 1
  BY <1>1 DEF BoxState
<1> QED  BY <1>3, <1>4, BoxSet, Zenon

LEMMA BoxesSame ==
  ASSUME TypeOK, UNCHANGED boxes, NEW b \in DOMAIN boxes
  PROVE  Set(b, boxes[b].wrappers, boxes[b].frees)
BY DEF Set, TypeOK

(* Put(b, output): box b gets this output and no other box's changes.      *)
Put(b, output) ==
  /\ outputs' \in Seq(Output) /\ Len(outputs') = Len(outputs)
  /\ DOMAIN outputs' = DOMAIN outputs
  /\ \A c \in DOMAIN outputs : outputs'[c] = IF c = b THEN output ELSE outputs[c]

LEMMA OutputPut ==
  ASSUME TypeOK, NEW b \in DOMAIN outputs, NEW output \in Output,
         outputs' = [outputs EXCEPT ![b] = output]
  PROVE  Put(b, output)
<1>1. outputs \in Seq(Output) /\ b \in 1 .. Len(outputs)
  BY LenProperties DEF TypeOK
<1>2. LET r == [outputs EXCEPT ![b] = output]
      IN  /\ r \in Seq(Output) /\ Len(r) = Len(outputs) /\ DOMAIN r = DOMAIN outputs
          /\ DOMAIN outputs = 1 .. Len(outputs)
          /\ \A i \in 1 .. Len(outputs) : r[i] = IF i = b THEN output ELSE outputs[i]
  BY ONLY <1>1, Replaced
<1> QED  BY <1>2 DEF Put

LEMMA OutputsSame ==
  ASSUME TypeOK, UNCHANGED outputs, NEW b \in DOMAIN outputs
  PROVE  Put(b, outputs[b])
BY DEF Put, TypeOK

-----------------------------------------------------------------------------
(* Steps of the running frame.                                             *)

(* The top frame's box is alive and wrapped as the frame's place asks.     *)
LEMMA TopBox ==
  ASSUME Inv, frames # << >>
  PROVE  /\ Top.box \in DOMAIN boxes /\ Top.box \in DOMAIN outputs
         /\ boxes[Top.box].wrappers = Wrappers(Top.at)
         /\ boxes[Top.box].frees = 0
         /\ Top.at \in Past => outputs[Top.box].frees = 0
         /\ Top.at \notin Past => outputs[Top.box].copy = "none"
         /\ Top.at \in Replied =>
              /\ Top.reply \in DOMAIN outputs
              /\ outputs[Top.reply].frees = 0
              /\ \A j \in DOMAIN frames : frames[j].box # Top.reply
         /\ \A i \in DOMAIN frames : frames[i].box = Top.box => i = Len(frames)
BY TopFrame, Boxes DEF Inv, BoxInv, OutputInv

(* A step that only moves the top frame, and wraps or unwraps its box      *)
(* accordingly, keeps the frames in order.                                 *)
LEMMA MoveKeepsBoxInv ==
  ASSUME Inv, frames # << >>, NEW at \in At, NEW reply, Moved(at, reply),
         Set(Top.box, Wrappers(at), 0),
         outcome' = "running" /\ at = "call" => Len(boxes) + gas' <= MaxGas
  PROVE  BoxInv'
<1>1. /\ Top = frames[Len(frames)] /\ Len(frames) \in DOMAIN frames
      /\ frames' # << >>
  <2>1. Len(frames') \in Nat \ {0} /\ frames' \in Seq(Frame)
    BY TopFrame DEF Moved, Inv
  <2> QED  BY <2>1, TopFrame, EmptySeq DEF Inv
<1>2. Top'.at = at
  BY <1>1 DEF Moved, Top, Last
<1>3. \A i, j \in DOMAIN frames' : frames'[i].box = frames'[j].box => i = j
  BY DEF Inv, BoxInv, Moved
<1>4. ASSUME NEW i \in DOMAIN frames'
      PROVE  /\ i # Len(frames') => frames'[i].at = "call"
             /\ frames'[i].box \in DOMAIN boxes'
             /\ boxes'[frames'[i].box].wrappers = Wrappers(frames'[i].at)
             /\ boxes'[frames'[i].box].frees = 0
  <2>1. i \in DOMAIN frames /\ frames'[i].box = frames[i].box /\ Len(frames') = Len(frames)
    BY <1>4 DEF Moved
  <2>2. /\ i # Len(frames) => frames[i].at = "call" /\ frames[i].box # Top.box
        /\ frames[i].box \in DOMAIN boxes
        /\ boxes[frames[i].box].wrappers = Wrappers(frames[i].at)
        /\ boxes[frames[i].box].frees = 0
    BY <1>1, <2>1 DEF Inv, BoxInv
  <2>3. frames'[i].at = IF i = Len(frames) THEN at ELSE frames[i].at
    BY <2>1 DEF Moved
  <2>4. CASE i = Len(frames)
    BY <1>1, <2>1, <2>2, <2>3, <2>4 DEF Set
  <2>5. CASE i # Len(frames)
    BY <1>1, <2>1, <2>2, <2>3, <2>5 DEF Set
  <2> QED  BY <2>4, <2>5
<1>5. ASSUME NEW b \in DOMAIN boxes', \A i \in DOMAIN frames' : frames'[i].box # b
      PROVE  boxes'[b].wrappers = 0 /\ boxes'[b].frees = 1
  <2>1. b \in DOMAIN boxes /\ \A i \in DOMAIN frames : frames[i].box # b
    BY <1>5 DEF Moved, Set
  <2>2. boxes[b].wrappers = 0 /\ boxes[b].frees = 1 /\ b # Top.box
    BY <1>1, <2>1 DEF Inv, BoxInv
  <2> QED  BY <2>1, <2>2 DEF Set
<1>6. Len(boxes') = Len(boxes)
  BY DEF Set
<1> QED  BY <1>1, <1>2, <1>3, <1>4, <1>5, <1>6 DEF BoxInv
(* A step that moves the top frame and changes one output, its own or one  *)
(* that is no frame's, keeps the outputs in order.                         *)
LEMMA MoveKeepsOutputInv ==
  ASSUME Inv, frames # << >>, NEW at \in At, NEW reply, Moved(at, reply),
         NEW c \in DOMAIN outputs, NEW output, Put(c, output),
         c = Top.box \/ \A j \in DOMAIN frames : frames[j].box # c,
         at \in Past => outputs'[Top.box].frees = 0,
         at \notin Past => outputs'[Top.box].copy = "none",
         at \in Replied => /\ reply \in DOMAIN outputs
                           /\ outputs'[reply].frees = 0
                           /\ \A j \in DOMAIN frames : frames[j].box # reply
  PROVE  OutputInv'
<1>1. Top = frames[Len(frames)] /\ Len(frames) \in DOMAIN frames
  BY TopFrame DEF Inv
<1>2. DOMAIN outputs' = DOMAIN outputs /\ DOMAIN frames' = DOMAIN frames
  BY DEF Put, Moved
<1>3. ASSUME NEW i \in DOMAIN frames
      PROVE  /\ frames'[i].at \in Past => outputs'[frames'[i].box].frees = 0
             /\ frames'[i].at \notin Past => outputs'[frames'[i].box].copy = "none"
             /\ frames'[i].at \in Replied =>
                  /\ frames'[i].reply \in DOMAIN outputs
                  /\ outputs'[frames'[i].reply].frees = 0
                  /\ \A j \in DOMAIN frames : frames[j].box # frames'[i].reply
  <2>1. CASE i = Len(frames)
    BY <1>1, <2>1 DEF Moved
  <2>2. CASE i # Len(frames)
    <3>1. /\ frames[i].at = "call" /\ frames[i].box # Top.box
          /\ frames[i].box \in DOMAIN outputs
          /\ outputs[frames[i].box].copy = "none"
      BY <1>1, <2>2, Boxes DEF Inv, BoxInv, OutputInv, Past
    <3>2. frames'[i].box = frames[i].box /\ frames'[i].at = "call"
      BY <2>2, <3>1 DEF Moved
    <3>3. outputs'[frames[i].box] = outputs[frames[i].box]
      BY <3>1 DEF Put
    <3> QED  BY <3>1, <3>2, <3>3 DEF Past, Replied
  <2> QED  BY <2>1, <2>2
<1>4. \A j \in DOMAIN frames : frames'[j].box = frames[j].box
  BY DEF Moved
<1> QED  BY <1>2, <1>3, <1>4 DEF OutputInv

-----------------------------------------------------------------------------
(* The abstract view.                                                      *)

ContextLives == [b \in Box |-> ContextLife(b)]
CopyLives    == [b \in Box |-> CopyLife(b)]

Ladder == {<<"unborn", "owned">>, <<"owned", "borrowed">>,
           <<"borrowed", "owned">>, <<"owned", "freed">>}

LEMMA ContextsStep ==
  ASSUME NEW b \in Box, \A c \in Box : c # b => ContextLife(c)' = ContextLife(c),
         <<ContextLife(b), ContextLife(b)'>> \in Ladder \/ ContextLife(b)' = ContextLife(b)
  PROVE  [Contexts!Next]_ContextLives
<1> DEFINE to == ContextLife(b)'
<1>1. ContextLives' = [ContextLives EXCEPT ![b] = to]
  BY DEF ContextLives
<1>2. ContextLives[b] = ContextLife(b)
  BY DEF ContextLives
<1>3. CASE ContextLife(b)' = ContextLife(b)
  BY <1>3 DEF ContextLives
<1>4. CASE <<ContextLife(b), to>> \in Ladder
  <2>1. \/ ContextLife(b) = "unborn" /\ to = "owned"
        \/ ContextLife(b) = "owned" /\ to = "borrowed"
        \/ ContextLife(b) = "borrowed" /\ to = "owned"
        \/ ContextLife(b) = "owned" /\ to = "freed"
    BY <1>4 DEF Ladder
  <2> QED  BY <1>1, <1>2, <2>1 DEF Contexts!Next, Contexts!Create, Contexts!Borrow,
             Contexts!GiveBack, Contexts!Free, Contexts!Step, ContextLives
<1> QED  BY <1>3, <1>4

LEMMA CopiesStep ==
  ASSUME NEW b \in Box, \A c \in Box : c # b => CopyLife(c)' = CopyLife(c),
         <<CopyLife(b), CopyLife(b)'>> \in Ladder \/ CopyLife(b)' = CopyLife(b)
  PROVE  [Copies!Next]_CopyLives
<1> DEFINE to == CopyLife(b)'
<1>1. CopyLives' = [CopyLives EXCEPT ![b] = to]
  BY DEF CopyLives
<1>2. CopyLives[b] = CopyLife(b)
  BY DEF CopyLives
<1>3. CASE CopyLife(b)' = CopyLife(b)
  BY <1>3 DEF CopyLives
<1>4. CASE <<CopyLife(b), to>> \in Ladder
  <2>1. \/ CopyLife(b) = "unborn" /\ to = "owned"
        \/ CopyLife(b) = "owned" /\ to = "borrowed"
        \/ CopyLife(b) = "borrowed" /\ to = "owned"
        \/ CopyLife(b) = "owned" /\ to = "freed"
    BY <1>4 DEF Ladder
  <2> QED  BY <1>1, <1>2, <2>1 DEF Copies!Next, Copies!Create, Copies!Borrow,
             Copies!GiveBack, Copies!Free, Copies!Step, CopyLives
<1> QED  BY <1>3, <1>4

(* One box set, one life changed; the same for outputs.                    *)
LEMMA SetLives ==
  ASSUME NEW b, NEW w, NEW f, Set(b, w, f), NEW c \in Box, c # b
  PROVE  ContextLife(c)' = ContextLife(c)
BY DEF Set, ContextLife

LEMMA PutLives ==
  ASSUME NEW b, NEW output, Put(b, output), NEW c \in Box, c # b
  PROVE  CopyLife(c)' = CopyLife(c)
BY DEF Put, CopyLife

LifeOf(output) ==
  IF output.copy = "none" THEN "unborn" ELSE IF output.frees = 0 THEN "owned"
  ELSE IF output.frees = 1 THEN "freed" ELSE "corrupt"

LEMMA PutStep ==
  ASSUME TypeOK, NEW b \in DOMAIN outputs, NEW output, Put(b, output),
         \/ <<LifeOf(outputs[b]), LifeOf(output)>> \in Ladder
         \/ LifeOf(outputs[b]) = LifeOf(output)
  PROVE  [Copies!Next]_CopyLives
<1>1. b \in Box
  BY Boxes
<1>2. CopyLife(b) = LifeOf(outputs[b]) /\ CopyLife(b)' = LifeOf(output)
  BY DEF CopyLife, LifeOf, Put
<1> QED  BY <1>1, <1>2, PutLives, CopiesStep

LEMMA SetStep ==
  ASSUME TypeOK, NEW b \in DOMAIN boxes, NEW w \in 0 .. 1, Set(b, w, 0),
         boxes[b].wrappers \in 0 .. 1, boxes[b].frees = 0
  PROVE  [Contexts!Next]_ContextLives
<1>1. b \in Box
  BY Boxes
<1>2. /\ ContextLife(b) = IF boxes[b].wrappers = 1 THEN "borrowed" ELSE "owned"
      /\ ContextLife(b)' = IF w = 1 THEN "borrowed" ELSE "owned"
  BY DEF ContextLife, Set
<1>3. <<ContextLife(b), ContextLife(b)'>> \in Ladder \/ ContextLife(b)' = ContextLife(b)
  BY <1>2 DEF Ladder
<1> QED  BY <1>1, <1>3, SetLives, ContextsStep

(* A step of the running frame: it moves, wraps or unwraps its box, and    *)
(* changes one output.  All such steps keep the invariant and are steps of *)
(* the two abstract machines.                                              *)
LEMMA TopStep ==
  ASSUME Inv, frames # << >>, NEW at \in At, NEW reply, Moved(at, reply),
         Set(Top.box, Wrappers(at), 0),
         NEW c \in DOMAIN outputs, NEW output, Put(c, output),
         c = Top.box \/ \A j \in DOMAIN frames : frames[j].box # c,
         at \in Past => outputs'[Top.box].frees = 0,
         at \notin Past => outputs'[Top.box].copy = "none",
         at \in Replied => /\ reply \in DOMAIN outputs
                           /\ outputs'[reply].frees = 0
                           /\ \A j \in DOMAIN frames : frames[j].box # reply,
         \/ <<LifeOf(outputs[c]), LifeOf(output)>> \in Ladder
         \/ LifeOf(outputs[c]) = LifeOf(output),
         outcome' = "running", gas' \in 0 .. gas,
         at = "call" => Len(boxes) + gas' <= MaxGas
  PROVE  Inv' /\ [Contexts!Next]_ContextLives /\ [Copies!Next]_CopyLives
<1>1. BoxInv'
  BY MoveKeepsBoxInv
<1>2. OutputInv'
  BY MoveKeepsOutputInv
<1>3. TypeOK'
  <2>1. /\ Len(boxes) \in Nat /\ gas \in 0 .. MaxGas /\ Len(boxes) + gas <= MaxGas + 1
        /\ Len(outputs) = Len(boxes)
    BY Boxes DEF Inv, TypeOK
  <2>2. gas' \in 0 .. MaxGas /\ Len(boxes) + gas' <= MaxGas + 1
    BY <2>1, BoundsAssumption
  <2>3. /\ frames' \in Seq(Frame) /\ boxes' \in Seq(BoxState) /\ outputs' \in Seq(Output)
        /\ Len(boxes') = Len(boxes) /\ Len(outputs') = Len(outputs)
    BY DEF Moved, Set, Put
  <2> QED  BY <2>1, <2>2, <2>3 DEF TypeOK
<1>4. [Contexts!Next]_ContextLives
  <2>1. /\ Top.box \in DOMAIN boxes /\ boxes[Top.box].frees = 0
        /\ boxes[Top.box].wrappers \in 0 .. 1 /\ Wrappers(at) \in 0 .. 1
    BY TopBox DEF Wrappers
  <2> QED  BY <2>1, SetStep DEF Inv
<1>5. [Copies!Next]_CopyLives
  BY PutStep DEF Inv
<1> QED  BY <1>1, <1>2, <1>3, <1>4, <1>5 DEF Inv
Kept == Inv' /\ [Contexts!Next]_ContextLives /\ [Copies!Next]_CopyLives

(* What any action of the running frame finds.                             *)
LEMMA AtPlace ==
  ASSUME Inv, NEW at \in At, Running(at)
  PROVE  /\ outcome = "running" /\ frames # << >> /\ Top.at = at
         /\ Top \in Frame /\ Top.reply \in Box \cup {NoBox}
         /\ Top.box \in DOMAIN boxes /\ Top.box \in DOMAIN outputs
         /\ boxes[Top.box].wrappers = Wrappers(at) /\ boxes[Top.box].frees = 0
         /\ outputs[Top.box] \in Output
         /\ gas \in 0 .. MaxGas /\ gas \in 0 .. gas
<1>1. outcome = "running" /\ frames # << >> /\ Top.at = at
  BY DEF Running
<1>2. Top \in Frame /\ Top.reply \in Box \cup {NoBox}
  BY <1>1, TopFrame DEF Inv, Frame
<1>3. outputs[Top.box] \in Output
  BY <1>1, TopBox, Boxes DEF Inv
<1>4. gas \in 0 .. MaxGas /\ gas \in 0 .. gas
  BY BoundsAssumption DEF Inv, TypeOK
<1> QED  BY <1>1, <1>2, <1>3, <1>4, TopBox

(* Moves that leave the outputs alone.                                     *)
LEMMA QuietStep ==
  ASSUME Inv, NEW from \in At, NEW at \in At, Running(from), Goto(at),
         from \in Past <=> at \in Past, at \notin Replied,
         Set(Top.box, Wrappers(at), 0), UNCHANGED outputs,
         outcome' = outcome, gas' \in 0 .. gas,
         at = "call" => Len(boxes) + gas' <= MaxGas
  PROVE  Kept
<1>1. /\ frames # << >> /\ Top.at = from /\ outcome = "running"
      /\ Top.box \in DOMAIN outputs /\ Top.reply \in Box \cup {NoBox}
  BY AtPlace
<1>2. Moved(at, Top.reply)
  BY <1>1, GotoMoves DEF Inv
<1>3. Put(Top.box, outputs[Top.box])
  BY <1>1, OutputsSame DEF Inv
<1>4. /\ at \in Past => outputs'[Top.box].frees = 0
      /\ at \notin Past => outputs'[Top.box].copy = "none"
  BY <1>1, TopBox
<1> QED  BY <1>1, <1>2, <1>3, <1>4, TopStep DEF Kept

LEMMA CallbackStep ==
  ASSUME Inv, NEW at \in {"query", "call"}, Callback(at)
  PROVE  Kept
<1>1. /\ Running("vm") /\ gas > 0 /\ Goto(at) /\ gas' = gas - 1
      /\ boxes' = HostContextWrapper_from(Top.box)
      /\ UNCHANGED <<outputs, outcome>>
  BY DEF Callback
<1>2. "vm" \in At /\ at \in At /\ at \in Borrowing /\ at \notin Past /\ at \notin Replied
  BY DEF At, Borrowing, Past, Replied
<1>3. /\ Top.box \in DOMAIN boxes /\ gas \in 0 .. MaxGas /\ boxes[Top.box].frees = 0
      /\ boxes[Top.box].wrappers = 0
  BY <1>1, <1>2, AtPlace DEF Wrappers, Borrowing
<1>4. Set(Top.box, Wrappers(at), 0)
  BY <1>1, <1>2, <1>3, WrapperMade DEF Inv, Wrappers
<1>5. gas' \in 0 .. gas /\ Len(boxes) + gas' <= MaxGas
  BY <1>1, <1>3, Boxes, BoundsAssumption DEF Inv, TypeOK
<1> QED  BY <1>1, <1>2, <1>4, <1>5, QuietStep DEF Past

LEMMA QueryReturnsStep ==
  ASSUME Inv, QueryReturns
  PROVE  Kept
<1>1. /\ Running("query") /\ Goto("vm")
      /\ boxes' = HostContextWrapper_drop(Top.box)
      /\ UNCHANGED <<outputs, outcome, gas>>
  BY DEF QueryReturns
<1>2. /\ "query" \in At /\ "vm" \in At /\ Wrappers("query") = 1 /\ Wrappers("vm") = 0
      /\ "query" \notin Past /\ "vm" \notin Past /\ "vm" \notin Replied
  BY DEF At, Wrappers, Borrowing, Past, Replied
<1>3. /\ Top.box \in DOMAIN boxes /\ gas \in 0 .. gas
      /\ boxes[Top.box].wrappers = 1 /\ boxes[Top.box].frees = 0
  BY <1>1, <1>2, AtPlace
<1>4. Set(Top.box, Wrappers("vm"), 0)
  BY <1>1, <1>2, <1>3, WrapperGone DEF Inv
<1> QED  BY <1>1, <1>2, <1>3, <1>4, QuietStep

LEMMA WrapStep ==
  ASSUME Inv, Wrap
  PROVE  Kept
<1>1. /\ Running("executed") /\ Goto("wrapped")
      /\ boxes' = HostContextWrapper_from(Top.box)
      /\ UNCHANGED <<outputs, outcome, gas>>
  BY DEF Wrap
<1>2. /\ "executed" \in At /\ "wrapped" \in At
      /\ Wrappers("executed") = 0 /\ Wrappers("wrapped") = 1
      /\ "executed" \in Past /\ "wrapped" \in Past /\ "wrapped" \notin Replied
  BY DEF At, Wrappers, Borrowing, Past, Replied
<1>3. /\ Top.box \in DOMAIN boxes /\ gas \in 0 .. gas
      /\ boxes[Top.box].wrappers = 0 /\ boxes[Top.box].frees = 0
  BY <1>1, <1>2, AtPlace
<1>4. Set(Top.box, Wrappers("wrapped"), 0)
  BY <1>1, <1>2, <1>3, WrapperMade DEF Inv
<1> QED  BY <1>1, <1>2, <1>3, <1>4, QuietStep

LEMMA UnwrapStep ==
  ASSUME Inv, Unwrap
  PROVE  Kept
<1>1. /\ Running("merged") /\ Goto("unwrapped")
      /\ boxes' = HostContextWrapper_drop(Top.box)
      /\ UNCHANGED <<outputs, outcome, gas>>
  BY DEF Unwrap
<1>2. /\ "merged" \in At /\ "unwrapped" \in At
      /\ Wrappers("merged") = 1 /\ Wrappers("unwrapped") = 0
      /\ "merged" \in Past /\ "unwrapped" \in Past /\ "unwrapped" \notin Replied
  BY DEF At, Wrappers, Borrowing, Past, Replied
<1>3. /\ Top.box \in DOMAIN boxes /\ gas \in 0 .. gas
      /\ boxes[Top.box].wrappers = 1 /\ boxes[Top.box].frees = 0
  BY <1>1, <1>2, AtPlace
<1>4. Set(Top.box, Wrappers("unwrapped"), 0)
  BY <1>1, <1>2, <1>3, WrapperGone DEF Inv
<1> QED  BY <1>1, <1>2, <1>3, <1>4, QuietStep
(* The operations on an output and what they make of its life.             *)
LEMMA OutputOperations ==
  ASSUME NEW output \in Output, output.frees = 0
  PROVE  /\ Vec_drop(output) \in Output /\ release(output) \in Output
         /\ evmc_result_from(output) \in Output
         /\ evmc_result_from(output).frees = 0
         /\ [output EXCEPT !.copy = "data"] \in Output
         /\ [output EXCEPT !.copy = "data"].frees = 0
         /\ LifeOf(evmc_result_from(output)) = LifeOf(output)
         /\ output.copy = "rust" =>
              LifeOf([output EXCEPT !.copy = "data"]) = LifeOf(output)
         /\ \A o \in {Vec_drop(output), release(output)} :
              \/ LifeOf(o) = LifeOf(output)
              \/ LifeOf(output) = "owned" /\ LifeOf(o) = "freed"
<1>1. /\ output.copy \in {"none", "rust", "vm", "data"} /\ output.frees \in 0 .. 1
      /\ output = [copy |-> output.copy, frees |-> output.frees]
  BY DEF Output
<1>2. Vec_drop(output) =
        [copy |-> output.copy,
         frees |-> IF output.copy = "rust" THEN 1 ELSE 0]
  BY <1>1 DEF Vec_drop
<1>3. release(output) =
        [copy |-> output.copy,
         frees |-> IF output.copy = "none" THEN 0 ELSE 1]
  BY <1>1 DEF release
<1>4. evmc_result_from(output) =
        [copy |-> IF output.copy = "none" THEN "none" ELSE "vm", frees |-> 0]
  BY <1>1 DEF evmc_result_from
<1>5. [output EXCEPT !.copy = "data"] =
        [copy |-> "data", frees |-> 0]
  BY <1>1
<1>6. /\ Vec_drop(output) \in Output /\ release(output) \in Output
      /\ evmc_result_from(output) \in Output /\ evmc_result_from(output).frees = 0
      /\ [output EXCEPT !.copy = "data"] \in Output
      /\ [output EXCEPT !.copy = "data"].frees = 0
  BY <1>1, <1>2, <1>3, <1>4, <1>5 DEF Output
<1>7. LifeOf(output) = IF output.copy = "none" THEN "unborn" ELSE "owned"
  BY DEF LifeOf
<1>8. /\ LifeOf(evmc_result_from(output)) = LifeOf(output)
      /\ output.copy = "rust" => LifeOf([output EXCEPT !.copy = "data"]) = LifeOf(output)
  BY <1>4, <1>5, <1>7 DEF LifeOf
<1>9. /\ \/ LifeOf(Vec_drop(output)) = LifeOf(output)
         \/ LifeOf(output) = "owned" /\ LifeOf(Vec_drop(output)) = "freed"
      /\ \/ LifeOf(release(output)) = LifeOf(output)
         \/ LifeOf(output) = "owned" /\ LifeOf(release(output)) = "freed"
  BY <1>2, <1>3, <1>7 DEF LifeOf
<1> QED  BY <1>6, <1>8, <1>9

LEMMA VmEndsStep ==
  ASSUME Inv, NEW nonempty \in BOOLEAN, VmEnds(nonempty)
  PROVE  Kept
<1> DEFINE output == ExecutionResult_from(nonempty)
<1>1. /\ Running("vm") /\ Goto("executed")
      /\ outputs' = [outputs EXCEPT ![Top.box] = output]
      /\ UNCHANGED <<boxes, outcome, gas>>
  BY DEF VmEnds
<1>2. /\ "vm" \in At /\ "executed" \in At
      /\ Wrappers("vm") = 0 /\ Wrappers("executed") = 0
      /\ "vm" \notin Past /\ "executed" \in Past /\ "executed" \notin Replied
  BY DEF At, Wrappers, Borrowing, Past, Replied
<1>3. /\ frames # << >> /\ outcome = "running" /\ Top.reply \in Box \cup {NoBox}
      /\ Top.box \in DOMAIN boxes /\ Top.box \in DOMAIN outputs /\ gas \in 0 .. gas
      /\ boxes[Top.box].wrappers = 0 /\ boxes[Top.box].frees = 0
      /\ outputs[Top.box].copy = "none"
  BY <1>1, <1>2, AtPlace, TopBox
<1>4. output \in Output /\ output.frees = 0 /\ LifeOf(output) \in {"unborn", "owned"}
  BY DEF ExecutionResult_from, NoOutput, Output, LifeOf
<1>5. LifeOf(outputs[Top.box]) = "unborn"
  BY <1>3 DEF LifeOf
<1> HIDE DEF output
<1>6. Moved("executed", Top.reply)
  BY <1>1, <1>2, <1>3, GotoMoves DEF Inv
<1>7. Set(Top.box, Wrappers("executed"), 0)
  BY <1>1, <1>2, <1>3, BoxesSame DEF Inv
<1>8. Put(Top.box, output)
  BY <1>1, <1>3, <1>4, OutputPut DEF Inv
<1>9. outputs'[Top.box].frees = 0
  BY <1>3, <1>4, <1>8 DEF Put
<1>10. \/ <<LifeOf(outputs[Top.box]), LifeOf(output)>> \in Ladder
       \/ LifeOf(outputs[Top.box]) = LifeOf(output)
  BY <1>4, <1>5 DEF Ladder
<1> QED  BY <1>1, <1>2, <1>3, <1>6, <1>7, <1>8, <1>9, <1>10, TopStep DEF Kept

LEMMA MergeStep ==
  ASSUME Inv, NEW moved \in BOOLEAN, Merge(moved)
  PROVE  Kept
<1> DEFINE output == IF moved THEN [outputs[Top.box] EXCEPT !.copy = "data"]
                              ELSE outputs[Top.box]
<1>1. /\ Running("wrapped") /\ Goto("merged")
      /\ moved => outputs[Top.box].copy = "rust"
      /\ UNCHANGED <<boxes, outcome, gas>>
  BY DEF Merge
<1>2. /\ "wrapped" \in At /\ "merged" \in At
      /\ Wrappers("wrapped") = 1 /\ Wrappers("merged") = 1
      /\ "wrapped" \in Past /\ "merged" \in Past /\ "merged" \notin Replied
  BY DEF At, Wrappers, Borrowing, Past, Replied
<1>3. /\ frames # << >> /\ outcome = "running" /\ Top.reply \in Box \cup {NoBox}
      /\ Top.box \in DOMAIN boxes /\ Top.box \in DOMAIN outputs /\ gas \in 0 .. gas
      /\ boxes[Top.box].wrappers = 1 /\ boxes[Top.box].frees = 0
      /\ outputs[Top.box].frees = 0 /\ outputs[Top.box] \in Output
  BY <1>1, <1>2, AtPlace, TopBox
<1>4. output \in Output /\ output.frees = 0 /\ LifeOf(outputs[Top.box]) = LifeOf(output)
  BY <1>1, <1>3, OutputOperations
<1>5. Moved("merged", Top.reply)
  BY <1>1, <1>2, <1>3, GotoMoves DEF Inv
<1>6. Set(Top.box, Wrappers("merged"), 0)
  BY <1>1, <1>2, <1>3, BoxesSame DEF Inv
<1>7. Put(Top.box, output)
  <2>1. CASE moved
    <3>1. outputs' = [outputs EXCEPT ![Top.box] = [outputs[Top.box] EXCEPT !.copy = "data"]]
      BY <2>1 DEF Merge
    <3> QED  BY <2>1, <3>1, <1>3, <1>4, OutputPut DEF Inv
  <2>2. CASE ~moved
    <3>1. UNCHANGED outputs
      BY <2>2 DEF Merge
    <3> QED  BY <2>2, <3>1, <1>3, OutputsSame DEF Inv
  <2> QED  BY <2>1, <2>2
<1> HIDE DEF output
<1>8. outputs'[Top.box].frees = 0
  BY <1>3, <1>4, <1>7 DEF Put
<1> QED  BY <1>1, <1>2, <1>3, <1>4, <1>5, <1>6, <1>7, <1>8, TopStep DEF Kept
LEMMA CallReturnsStep ==
  ASSUME Inv, CallReturns
  PROVE  Kept
<1> DEFINE output == evmc_result_from(outputs[Top.reply])
<1>1. /\ Running("returning") /\ Goto("answered")
      /\ outputs' = [outputs EXCEPT ![Top.reply] = output]
      /\ boxes' = HostContextWrapper_drop(Top.box)
      /\ UNCHANGED <<outcome, gas>>
  BY DEF CallReturns
<1>2. /\ "returning" \in At /\ "answered" \in At
      /\ Wrappers("returning") = 1 /\ Wrappers("answered") = 0
      /\ "returning" \notin Past /\ "answered" \notin Past
      /\ "returning" \in Replied
  BY DEF At, Wrappers, Borrowing, Past, Replied
<1>3. /\ frames # << >> /\ outcome = "running" /\ Top.at = "returning"
      /\ Top.reply \in Box \cup {NoBox}
      /\ Top.box \in DOMAIN boxes /\ gas \in 0 .. gas
      /\ boxes[Top.box].wrappers = 1 /\ boxes[Top.box].frees = 0
  BY <1>1, <1>2, AtPlace
<1>4. /\ Top.reply \in DOMAIN outputs /\ outputs[Top.reply].frees = 0
      /\ \A j \in DOMAIN frames : frames[j].box # Top.reply
      /\ outputs[Top.box].copy = "none" /\ Top.box \in DOMAIN outputs
  BY <1>2, <1>3, TopBox
<1>5. outputs[Top.reply] \in Output
  BY <1>4, Boxes DEF Inv
<1>6. output \in Output /\ output.frees = 0 /\ LifeOf(outputs[Top.reply]) = LifeOf(output)
  BY <1>4, <1>5, OutputOperations
<1> HIDE DEF output
<1>7. Moved("answered", Top.reply)
  BY <1>1, <1>2, <1>3, GotoMoves DEF Inv
<1>8. Set(Top.box, Wrappers("answered"), 0)
  BY <1>1, <1>2, <1>3, WrapperGone DEF Inv
<1>9. Put(Top.reply, output)
  BY <1>1, <1>4, <1>6, OutputPut DEF Inv
<1>10. Top.box # Top.reply
  BY <1>3, <1>4, TopFrame DEF Inv
<1>11. outputs'[Top.box].copy = "none" /\ outputs'[Top.reply].frees = 0
  BY <1>4, <1>6, <1>9, <1>10 DEF Put
<1> QED  BY <1>1, <1>2, <1>3, <1>4, <1>6, <1>7, <1>8, <1>9, <1>11, TopStep DEF Kept

LEMMA ReleaseResultStep ==
  ASSUME Inv, ReleaseResult
  PROVE  Kept
<1> DEFINE output == release(outputs[Top.reply])
<1>1. /\ Running("answered")
      /\ outputs' = [outputs EXCEPT ![Top.reply] = output]
      /\ frames' = [frames EXCEPT ![Len(frames)] =
                      [box |-> Top.box, at |-> "vm", reply |-> NoBox]]
      /\ UNCHANGED <<boxes, outcome, gas>>
  BY DEF ReleaseResult
<1>2. /\ "answered" \in At /\ "vm" \in At
      /\ Wrappers("answered") = 0 /\ Wrappers("vm") = 0
      /\ "answered" \notin Past /\ "vm" \notin Past
      /\ "answered" \in Replied /\ "vm" \notin Replied
  BY DEF At, Wrappers, Borrowing, Past, Replied
<1>3. /\ frames # << >> /\ outcome = "running" /\ Top.at = "answered" /\ Top \in Frame
      /\ Top.box \in DOMAIN boxes /\ gas \in 0 .. gas
      /\ boxes[Top.box].wrappers = 0 /\ boxes[Top.box].frees = 0
  BY <1>1, <1>2, AtPlace
<1>4. /\ Top.reply \in DOMAIN outputs /\ outputs[Top.reply].frees = 0
      /\ \A j \in DOMAIN frames : frames[j].box # Top.reply
      /\ outputs[Top.box].copy = "none" /\ Top.box \in DOMAIN outputs
  BY <1>2, <1>3, TopBox
<1>5. outputs[Top.reply] \in Output
  BY <1>4, Boxes DEF Inv
<1>6. /\ output \in Output
      /\ \/ <<LifeOf(outputs[Top.reply]), LifeOf(output)>> \in Ladder
         \/ LifeOf(outputs[Top.reply]) = LifeOf(output)
  BY <1>4, <1>5, OutputOperations DEF Ladder
<1> HIDE DEF output
<1>7. Moved("vm", NoBox)
  <2>1. NoBox \in Box \cup {NoBox}
    OBVIOUS
  <2> QED  BY <1>1, <1>2, <1>3, <2>1, TopReplaced DEF Inv
<1>8. Set(Top.box, Wrappers("vm"), 0)
  BY <1>1, <1>2, <1>3, BoxesSame DEF Inv
<1>9. Put(Top.reply, output)
  BY <1>1, <1>4, <1>6, OutputPut DEF Inv
<1>10. Top.box # Top.reply
  BY <1>3, <1>4, TopFrame DEF Inv
<1>11. outputs'[Top.box].copy = "none"
  BY <1>4, <1>9, <1>10 DEF Put
<1> QED  BY <1>1, <1>2, <1>3, <1>4, <1>6, <1>7, <1>8, <1>9, <1>11, TopStep DEF Kept
-----------------------------------------------------------------------------
(* A frame comes and a frame goes.                                         *)

LEMMA EnterStep ==
  ASSUME Inv, Enter
  PROVE  Kept
<1> DEFINE m == Len(frames)
           b == Len(boxes) + 1
           frame == [box |-> b, at |-> "vm", reply |-> NoBox]
           box == [wrappers |-> 0, frees |-> 0]
<1>1. /\ outcome = "running" /\ (frames # << >> => Top.at = "call")
      /\ boxes' = Append(boxes, box) /\ outputs' = Append(outputs, NoOutput)
      /\ frames' = Append(frames, frame)
      /\ UNCHANGED <<outcome, gas>>
  BY DEF Enter, HostContextPtr_from, nested
<1>2. /\ m \in Nat /\ frames \in Seq(Frame) /\ DOMAIN frames = 1 .. m
      /\ boxes \in Seq(BoxState) /\ outputs \in Seq(Output)
      /\ Len(boxes) \in Nat /\ Len(outputs) = Len(boxes)
      /\ DOMAIN boxes = 1 .. Len(boxes) /\ DOMAIN outputs = 1 .. Len(boxes)
      /\ gas \in 0 .. MaxGas
  BY LenProperties, Boxes DEF Inv, TypeOK
<1>3. Len(boxes) + gas <= MaxGas /\ b \in Box
  BY <1>1, <1>2, BoundsAssumption DEF Inv, BoxInv, Box
<1>4. frame \in Frame /\ box \in BoxState /\ NoOutput \in Output
  BY <1>3 DEF Frame, At, BoxState, Output, NoOutput
<1> HIDE DEF frame, box, m
<1>5. /\ frames' \in Seq(Frame) /\ Len(frames') = m + 1 /\ frames' # << >>
      /\ \A i \in 1 .. m : frames'[i] = frames[i]
      /\ frames'[m + 1] = frame
  <2>1. /\ Append(frames, frame) \in Seq(Frame) /\ Append(frames, frame) # << >>
        /\ Len(Append(frames, frame)) = Len(frames) + 1
        /\ \A i \in 1 .. Len(frames) : Append(frames, frame)[i] = frames[i]
        /\ Append(frames, frame)[Len(frames) + 1] = frame
    BY ONLY <1>2, <1>4, AppendProperties
  <2> QED  BY <1>1, <2>1 DEF m
<1>6. /\ boxes' \in Seq(BoxState) /\ Len(boxes') = b
      /\ \A i \in 1 .. Len(boxes) : boxes'[i] = boxes[i]
      /\ boxes'[b] = box
  BY <1>1, <1>2, <1>4, AppendProperties
<1>7. /\ outputs' \in Seq(Output) /\ Len(outputs') = b
      /\ \A i \in 1 .. Len(boxes) : outputs'[i] = outputs[i]
      /\ outputs'[b] = NoOutput
  BY <1>1, <1>2, <1>4, AppendProperties
<1>8. DOMAIN frames' = 1 .. m + 1 /\ DOMAIN boxes' = 1 .. b /\ DOMAIN outputs' = 1 .. b
  BY <1>5, <1>6, <1>7, LenProperties
<1>9. TypeOK'
  BY <1>1, <1>2, <1>3, <1>5, <1>6, <1>7, BoundsAssumption DEF Inv, TypeOK
<1>10. \A i \in 1 .. m : /\ frames[i].at = "call" /\ frames[i].box \in 1 .. Len(boxes)
                         /\ frames[i].box # b
  <2> SUFFICES ASSUME NEW i \in 1 .. m PROVE frames[i].at = "call" /\ frames[i].box \in 1 .. Len(boxes)
    BY <1>2
  <2>1. frames # << >>
    BY <1>2, EmptySeq DEF m
  <2>2. Top = frames[m]
    BY <2>1, TopFrame DEF Inv, m
  <2> QED  BY <1>1, <1>2, <2>1, <2>2 DEF Inv, BoxInv, m
<1>11. BoxInv'
  <2>1. Top'.at = "vm"
    <3>1. Top' = frame
      BY <1>2, <1>5 DEF Top, Last
    <3> QED  BY <3>1 DEF frame
  <2>2. ASSUME NEW i \in DOMAIN frames', NEW j \in DOMAIN frames',
               frames'[i].box = frames'[j].box
        PROVE  i = j
    <3>1. \A k \in 1 .. m : frames'[k].box = frames[k].box /\ frames'[k].box # b
      BY <1>5, <1>10
    <3>2. frames'[m + 1].box = b
      BY <1>5 DEF frame
    <3>3. i \in 1 .. m \/ i = m + 1
      BY <1>2, <1>8
    <3>4. j \in 1 .. m \/ j = m + 1
      BY <1>2, <1>8
    <3>5. CASE i \in 1 .. m /\ j \in 1 .. m
      BY <1>2, <2>2, <3>1, <3>5 DEF Inv, BoxInv
    <3> QED  BY <2>2, <3>1, <3>2, <3>3, <3>4, <3>5
  <2>3. ASSUME NEW i \in DOMAIN frames'
        PROVE  /\ i # Len(frames') => frames'[i].at = "call"
               /\ frames'[i].box \in DOMAIN boxes'
               /\ boxes'[frames'[i].box].wrappers = Wrappers(frames'[i].at)
               /\ boxes'[frames'[i].box].frees = 0
    <3>1. CASE i = m + 1
      BY <1>2, <1>5, <1>6, <1>8, <3>1 DEF frame, box, Wrappers, Borrowing
    <3>2. CASE i # m + 1
      <4>1. i \in 1 .. m
        BY <1>2, <1>8, <3>2
      <4>2. frames'[i] = frames[i] /\ boxes'[frames[i].box] = boxes[frames[i].box]
        BY <1>5, <1>6, <1>10, <4>1
      <4>3. frames'[i].box \in DOMAIN boxes'
        BY <1>2, <1>8, <1>10, <4>1, <4>2
      <4>4. frames[i].at = "call" /\ i \in DOMAIN frames
        BY <1>2, <1>10, <4>1
      <4> QED  BY <4>2, <4>3, <4>4 DEF Inv, BoxInv
    <3> QED  BY <3>1, <3>2
  <2>4. ASSUME NEW c \in DOMAIN boxes', \A i \in DOMAIN frames' : frames'[i].box # c
        PROVE  boxes'[c].wrappers = 0 /\ boxes'[c].frees = 1
    <3>1. c # b
      BY <1>2, <1>5, <1>8, <2>4 DEF frame
    <3>2. c \in DOMAIN boxes /\ boxes'[c] = boxes[c]
      BY <1>2, <1>6, <1>8, <3>1
    <3>3. \A i \in DOMAIN frames : frames[i].box # c
      BY <1>2, <1>5, <1>8, <2>4
    <3> QED  BY <3>2, <3>3 DEF Inv, BoxInv
  <2> QED  BY <1>5, <2>1, <2>2, <2>3, <2>4 DEF BoxInv
<1>12. OutputInv'
  <2> SUFFICES ASSUME NEW i \in DOMAIN frames'
               PROVE  /\ frames'[i].at \notin Past /\ frames'[i].at \notin Replied
                      /\ outputs'[frames'[i].box].copy = "none"
    BY DEF OutputInv
  <2>1. CASE i = m + 1
    BY <1>5, <1>7, <2>1 DEF frame, Past, Replied, NoOutput
  <2>2. CASE i # m + 1
    <3>1. i \in 1 .. m /\ frames'[i] = frames[i] /\ frames[i].at = "call"
      BY <1>2, <1>5, <1>8, <1>10, <2>2
    <3>2. outputs'[frames[i].box] = outputs[frames[i].box]
      BY <1>7, <1>10, <3>1
    <3>3. "call" \notin Past /\ "call" \notin Replied
      BY DEF Past, Replied
    <3> QED  BY <1>2, <3>1, <3>2, <3>3 DEF Inv, OutputInv
  <2> QED  BY <2>1, <2>2
<1>13. PICK d \in Box : d = b
  BY <1>3
<1>14. /\ d \in DOMAIN boxes' /\ d \notin DOMAIN boxes /\ boxes'[d] = box
       /\ d \in DOMAIN outputs' /\ d \notin DOMAIN outputs /\ outputs'[d] = NoOutput
  BY <1>2, <1>6, <1>7, <1>8, <1>13
<1>15. ASSUME NEW c \in Box, c # d
       PROVE  /\ c \in DOMAIN boxes' <=> c \in DOMAIN boxes
              /\ c \in DOMAIN outputs' <=> c \in DOMAIN outputs
              /\ c \in DOMAIN boxes => boxes'[c] = boxes[c] /\ outputs'[c] = outputs[c]
  BY <1>2, <1>6, <1>7, <1>8, <1>13, <1>15, BoundsAssumption DEF Box
<1>16. [Contexts!Next]_ContextLives
  <2>1. <<ContextLife(d), ContextLife(d)'>> \in Ladder
    BY <1>14 DEF ContextLife, box, Ladder
  <2>2. \A c \in Box : c # d => ContextLife(c)' = ContextLife(c)
    BY <1>15 DEF ContextLife
  <2> QED  BY <2>1, <2>2, ContextsStep
<1>17. [Copies!Next]_CopyLives
  <2>1. CopyLife(d)' = CopyLife(d)
    BY <1>14 DEF CopyLife, NoOutput
  <2>2. \A c \in Box : c # d => CopyLife(c)' = CopyLife(c)
    BY <1>2, <1>15 DEF CopyLife
  <2> QED  BY <2>1, <2>2, CopiesStep
<1> QED  BY <1>9, <1>11, <1>12, <1>16, <1>17 DEF Kept, Inv
(* What Leave does to the frames when a caller waits.                      *)
LEMMA CallerResumed ==
  ASSUME TypeOK, frames # << >>, NEW n, n = Len(frames), n # 1,
         NEW f \in Frame, frames' = [Front(frames) EXCEPT ![n - 1] = f]
  PROVE  /\ n - 1 \in 1 .. n - 1 /\ DOMAIN frames = 1 .. n /\ DOMAIN frames' = 1 .. n - 1
         /\ frames' \in Seq(Frame) /\ Len(frames') = n - 1 /\ frames' # << >>
         /\ \A i \in 1 .. n - 1 : frames'[i] = IF i = n - 1 THEN f ELSE frames[i]
<1>1. /\ n \in Nat /\ n > 1 /\ frames \in Seq(Frame) /\ DOMAIN frames = 1 .. n
      /\ \A i \in 1 .. n : frames[i] \in Frame
  BY TopFrame DEF TypeOK
<1> DEFINE s == SubSeq(frames, 1, n - 1)
<1>2. /\ s \in Seq(Frame)
      /\ Len(s) = IF 1 <= n - 1 THEN (n - 1) - 1 + 1 ELSE 0
      /\ \A i \in 1 .. (n - 1) - 1 + 1 : s[i] = frames[1 + i - 1]
  <2>1. \A i \in 1 .. n - 1 : frames[i] \in Frame
    BY <1>1
  <2> QED  BY ONLY <1>1, <2>1, SubSeqProperties
<1> HIDE DEF s
<1>3. Len(s) = n - 1 /\ n - 1 \in 1 .. Len(s) /\ \A i \in 1 .. n - 1 : s[i] = frames[i]
  BY <1>1, <1>2
<1>4. LET t == [s EXCEPT ![n - 1] = f]
      IN  /\ t \in Seq(Frame) /\ Len(t) = Len(s) /\ DOMAIN t = DOMAIN s
          /\ DOMAIN s = 1 .. Len(s)
          /\ \A i \in 1 .. Len(s) : t[i] = IF i = n - 1 THEN f ELSE s[i]
  BY ONLY <1>2, <1>3, f \in Frame, Replaced
<1>5. frames' = [s EXCEPT ![n - 1] = f]
  BY DEF Front, s
<1>6. /\ frames' \in Seq(Frame) /\ Len(frames') = n - 1 /\ DOMAIN frames' = 1 .. n - 1
      /\ \A i \in 1 .. n - 1 : frames'[i] = IF i = n - 1 THEN f ELSE frames[i]
  BY <1>3, <1>4, <1>5
<1>7. frames' # << >>
  BY <1>1, <1>6, EmptySeq
<1> QED  BY <1>1, <1>3, <1>6, <1>7

LEMMA LeaveStep ==
  ASSUME Inv, Leave
  PROVE  Kept
<1> DEFINE n == Len(frames)
<1>1. /\ Running("unwrapped") /\ boxes' = HostContextPtr_drop(Top.box)
      /\ UNCHANGED gas
  BY DEF Leave
<1>2. /\ "unwrapped" \in At /\ Wrappers("unwrapped") = 0 /\ "unwrapped" \in Past
  BY DEF At, Wrappers, Borrowing, Past
<1>3. /\ frames # << >> /\ outcome = "running" /\ Top.box \in DOMAIN boxes
      /\ boxes[Top.box].wrappers = 0 /\ boxes[Top.box].frees = 0
      /\ Top.box \in DOMAIN outputs /\ outputs[Top.box] \in Output
      /\ outputs[Top.box].frees = 0
      /\ \A i \in DOMAIN frames : frames[i].box = Top.box => i = n
  BY <1>1, <1>2, AtPlace, TopBox
<1>4. /\ n \in Nat \ {0} /\ DOMAIN frames = 1 .. n /\ Top = frames[n]
      /\ \A i \in 1 .. n : frames[i] \in Frame
      /\ Len(boxes) + gas <= MaxGas + 1 /\ gas \in 0 .. MaxGas
      /\ Len(outputs) = Len(boxes) /\ outputs \in Seq(Output) /\ DOMAIN outputs = DOMAIN boxes
  BY <1>3, TopFrame, Boxes DEF Inv, TypeOK
<1>5. PICK b \in Box : b = Top.box /\ b \in DOMAIN boxes
  BY <1>3, Boxes DEF Inv
<1>6. Set(b, 0, 1)
  BY <1>1, <1>3, <1>5, BoxFreed DEF Inv
<1>7. [Contexts!Next]_ContextLives
  <2>1. <<ContextLife(b), ContextLife(b)'>> \in Ladder
    BY <1>3, <1>5, <1>6 DEF ContextLife, Ladder, Set
  <2> QED  BY <1>6, <2>1, SetLives, ContextsStep
<1>8. \A c \in DOMAIN boxes :
        (\A i \in DOMAIN frames : i # n => frames[i].box # c) =>
          boxes'[c].wrappers = 0 /\ boxes'[c].frees = 1
  <2> SUFFICES ASSUME NEW c \in DOMAIN boxes, c # b,
                      \A i \in DOMAIN frames : i # n => frames[i].box # c
               PROVE  boxes[c].wrappers = 0 /\ boxes[c].frees = 1
    BY <1>5, <1>6 DEF Set
  <2>1. \A i \in DOMAIN frames : frames[i].box # c
    BY <1>4, <1>5
  <2> QED  BY <2>1 DEF Inv, BoxInv
<1>9. boxes' \in Seq(BoxState) /\ Len(boxes') = Len(boxes) /\ DOMAIN boxes' = DOMAIN boxes
  BY <1>6 DEF Set
<1>10. CASE n = 1
  <2>1. /\ frames' = << >> /\ outcome' = "finished"
        /\ outputs' = [outputs EXCEPT ![Top.box] = Vec_drop(outputs[Top.box])]
    BY <1>10 DEF Leave
  <2>2. Vec_drop(outputs[Top.box]) \in Output
    BY <1>3, OutputOperations
  <2>3. Put(Top.box, Vec_drop(outputs[Top.box]))
    BY <1>3, <2>1, <2>2, OutputPut DEF Inv
  <2>4. [Copies!Next]_CopyLives
    <3>1. \/ <<LifeOf(outputs[Top.box]), LifeOf(Vec_drop(outputs[Top.box]))>> \in Ladder
          \/ LifeOf(outputs[Top.box]) = LifeOf(Vec_drop(outputs[Top.box]))
      BY <1>3, OutputOperations DEF Ladder
    <3> QED  BY <1>3, <2>3, <3>1, PutStep DEF Inv
  <2>5. frames' \in Seq(Frame) /\ DOMAIN frames' = {}
    BY <2>1, EmptySeq, LenProperties
  <2>6. TypeOK'
    BY <1>1, <1>4, <1>9, <2>1, <2>3, <2>5 DEF TypeOK, Put
  <2>7. BoxInv'
    <3>1. \A c \in DOMAIN boxes' : boxes'[c].wrappers = 0 /\ boxes'[c].frees = 1
      BY <1>4, <1>8, <1>9, <1>10
    <3> QED  BY <2>1, <2>5, <3>1 DEF BoxInv
  <2>8. OutputInv'
    BY <2>5 DEF OutputInv
  <2> QED  BY <1>7, <2>4, <2>6, <2>7, <2>8 DEF Kept, Inv
<1>11. CASE n # 1
  <2> DEFINE f == [box |-> frames[n - 1].box, at |-> "returning", reply |-> Top.box]
  <2>1. n - 1 \in 1 .. n /\ n - 1 \in 1 .. n - 1
    BY <1>4, <1>11
  <2>2. f \in Frame
    BY <1>4, <1>5, <2>1 DEF Frame, At
  <2>3. frames' = [Front(frames) EXCEPT ![n - 1] = f] /\ UNCHANGED <<outcome, outputs>>
    <3>1. Front(frames)[n - 1] = frames[n - 1]
      <4>1. \A i \in 1 .. n - 1 : frames[i] \in Frame
        BY <1>4
      <4>2. n - 1 \in Int /\ 1 \in Int
        BY <1>4
      <4>3. \A i \in 1 .. (n - 1) - 1 + 1 : SubSeq(frames, 1, n - 1)[i] = frames[1 + i - 1]
        BY ONLY <4>1, <4>2, SubSeqProperties
      <4> QED  BY <1>4, <2>1, <4>3 DEF Front
    <3> QED  BY <1>11, <3>1 DEF Leave
  <2> HIDE DEF f
  <2>4. /\ DOMAIN frames' = 1 .. n - 1
        /\ frames' \in Seq(Frame) /\ Len(frames') = n - 1 /\ frames' # << >>
        /\ \A i \in 1 .. n - 1 : frames'[i] = IF i = n - 1 THEN f ELSE frames[i]
    BY <1>3, <1>11, <2>2, <2>3, CallerResumed DEF Inv
  <2>5. \A i \in 1 .. n - 1 :
          /\ frames[i].at = "call" /\ frames[i].box \in DOMAIN boxes /\ frames[i].box # b
          /\ boxes[frames[i].box].wrappers = 1 /\ boxes[frames[i].box].frees = 0
          /\ outputs[frames[i].box].copy = "none"
          /\ frames'[i].box = frames[i].box
          /\ frames'[i].at = IF i = n - 1 THEN "returning" ELSE "call"
          /\ i = n - 1 => frames'[i].reply = b
    <3> SUFFICES ASSUME NEW i \in 1 .. n - 1
                 PROVE  /\ frames[i].at = "call" /\ frames[i].box \in DOMAIN boxes
                        /\ frames[i].box # b
                        /\ boxes[frames[i].box].wrappers = 1
                        /\ boxes[frames[i].box].frees = 0
                        /\ outputs[frames[i].box].copy = "none"
                        /\ frames'[i].box = frames[i].box
                        /\ frames'[i].at = IF i = n - 1 THEN "returning" ELSE "call"
                        /\ i = n - 1 => frames'[i].reply = b
      OBVIOUS
    <3>1. i \in DOMAIN frames /\ i # n
      BY <1>4
    <3>2. /\ frames[i].at = "call" /\ frames[i].box \in DOMAIN boxes
          /\ boxes[frames[i].box].wrappers = Wrappers(frames[i].at)
          /\ boxes[frames[i].box].frees = 0
      BY <3>1 DEF Inv, BoxInv
    <3>3. "call" \notin Past /\ Wrappers("call") = 1
      BY DEF Past, Wrappers, Borrowing
    <3>4. outputs[frames[i].box].copy = "none"
      BY <3>1, <3>2, <3>3 DEF Inv, OutputInv
    <3>5. frames[i].box # b
      BY <1>3, <1>5, <3>1
    <3>6. /\ frames'[i].box = frames[i].box
          /\ frames'[i].at = IF i = n - 1 THEN "returning" ELSE "call"
          /\ i = n - 1 => frames'[i].reply = b
      BY <1>5, <2>4, <3>2 DEF f
    <3> QED  BY <3>2, <3>3, <3>4, <3>5, <3>6
  <2>6. TypeOK'
    BY <1>1, <1>4, <1>9, <2>3, <2>4 DEF Inv, TypeOK
  <2>7. BoxInv'
    <3>1. Top'.at = "returning"
      BY <1>4, <2>1, <2>4, <2>5 DEF Top, Last
    <3>2. ASSUME NEW i \in DOMAIN frames', NEW j \in DOMAIN frames',
                 frames'[i].box = frames'[j].box
          PROVE  i = j
      <4>1. i \in 1 .. n - 1 /\ j \in 1 .. n - 1
        BY <2>4, <3>2
      <4>2. frames[i].box = frames[j].box
        BY <2>5, <3>2, <4>1
      <4>3. i \in DOMAIN frames /\ j \in DOMAIN frames
        BY <1>4, <4>1
      <4> QED  BY <4>2, <4>3 DEF Inv, BoxInv
    <3>3. "returning" \in Borrowing /\ "call" \in Borrowing
      BY DEF Borrowing
    <3>4. \A i \in DOMAIN frames' :
            /\ i # Len(frames') => frames'[i].at = "call"
            /\ frames'[i].box \in DOMAIN boxes'
            /\ boxes'[frames'[i].box].wrappers = Wrappers(frames'[i].at)
            /\ boxes'[frames'[i].box].frees = 0
      <4> SUFFICES ASSUME NEW i \in 1 .. n - 1
                   PROVE  /\ i # n - 1 => frames'[i].at = "call"
                          /\ frames'[i].box \in DOMAIN boxes'
                          /\ boxes'[frames'[i].box].wrappers = Wrappers(frames'[i].at)
                          /\ boxes'[frames'[i].box].frees = 0
        BY <2>4
      <4>1. /\ frames'[i].box = frames[i].box /\ frames[i].box # b
            /\ frames[i].box \in DOMAIN boxes
            /\ boxes[frames[i].box].wrappers = 1 /\ boxes[frames[i].box].frees = 0
            /\ frames'[i].at = IF i = n - 1 THEN "returning" ELSE "call"
        BY <2>5
      <4>2. boxes'[frames[i].box].wrappers = 1 /\ boxes'[frames[i].box].frees = 0
        BY <1>6, <4>1 DEF Set
      <4>3. Wrappers(frames'[i].at) = 1
        BY <3>3, <4>1 DEF Wrappers
      <4> QED  BY <1>9, <4>1, <4>2, <4>3
    <3>5. ASSUME NEW c \in DOMAIN boxes', \A i \in DOMAIN frames' : frames'[i].box # c
          PROVE  boxes'[c].wrappers = 0 /\ boxes'[c].frees = 1
      <4>1. \A i \in DOMAIN frames : i # n => frames[i].box # c
        <5> SUFFICES ASSUME NEW i \in 1 .. n - 1 PROVE frames[i].box # c
          BY <1>4
        <5> QED  BY <2>4, <2>5, <3>5
      <4> QED  BY <1>8, <1>9, <4>1
    <3> QED  BY <2>4, <3>1, <3>2, <3>4, <3>5 DEF BoxInv
  <2>8. OutputInv'
    <3>1. "returning" \notin Past /\ "call" \notin Past /\ "call" \notin Replied
      BY DEF Past, Replied
    <3> QED  BY <1>3, <1>5, <2>3, <2>4, <2>5, <3>1 DEF OutputInv
  <2>9. [Copies!Next]_CopyLives
    BY <2>3 DEF CopyLives, CopyLife
  <2> QED  BY <1>7, <2>6, <2>7, <2>8, <2>9 DEF Kept, Inv
<1> QED  BY <1>10, <1>11
(* A panic keeps the state as it is for whoever looks at the dead process. *)
LEMMA PanicStep ==
  ASSUME Inv, Panic
  PROVE  Kept
<1>1. outcome' = "aborted" /\ UNCHANGED <<frames, boxes, outputs, gas>>
  BY DEF Panic
<1>2. TypeOK' /\ OutputInv'
  BY <1>1 DEF Inv, TypeOK, OutputInv
<1>3. BoxInv'
  BY <1>1 DEF Inv, BoxInv
<1>4. UNCHANGED <<ContextLives, CopyLives>>
  BY <1>1 DEF ContextLives, ContextLife, CopyLives, CopyLife
<1> QED  BY <1>2, <1>3, <1>4 DEF Inv, Kept

LEMMA StutterStep ==
  ASSUME Inv, UNCHANGED vars
  PROVE  Kept
<1>1. UNCHANGED <<frames, boxes, outputs, outcome, gas>>
  BY DEF vars
<1>2. TypeOK' /\ OutputInv'
  BY <1>1 DEF Inv, TypeOK, OutputInv
<1>3. BoxInv'
  BY <1>1 DEF Inv, BoxInv, Top
<1>4. UNCHANGED <<ContextLives, CopyLives>>
  BY <1>1 DEF ContextLives, ContextLife, CopyLives, CopyLife
<1> QED  BY <1>2, <1>3, <1>4 DEF Inv, Kept

LEMMA Start ==
  ASSUME Init
  PROVE  Inv /\ Contexts!Init /\ Copies!Init
<1>1. /\ frames = << >> /\ boxes = << >> /\ outputs = << >>
      /\ outcome = "running" /\ gas = MaxGas
  BY DEF Init
<1>2. /\ << >> \in Seq(Frame) /\ << >> \in Seq(BoxState) /\ << >> \in Seq(Output)
      /\ Len(<< >>) = 0
  BY EmptySeq
<1>3. DOMAIN frames = {} /\ DOMAIN boxes = {} /\ DOMAIN outputs = {}
  BY <1>1
<1>4. TypeOK
  BY <1>1, <1>2, BoundsAssumption DEF TypeOK
<1>5. BoxInv /\ OutputInv
  BY <1>1, <1>2, <1>3, BoundsAssumption DEF BoxInv, OutputInv
<1>6. Contexts!Init /\ Copies!Init
  BY <1>3 DEF Contexts!Init, Copies!Init, ContextLife, CopyLife
<1> QED  BY <1>4, <1>5, <1>6 DEF Inv

LEMMA EveryStep ==
  ASSUME Inv, [Next]_vars
  PROVE  Kept
<1>1. CASE \E at \in {"query", "call"} : Callback(at)
  BY <1>1, CallbackStep
<1>2. CASE QueryReturns
  BY <1>2, QueryReturnsStep
<1>3. CASE Enter
  BY <1>3, EnterStep
<1>4. CASE Panic
  BY <1>4, PanicStep
<1>5. CASE \E nonempty \in BOOLEAN : VmEnds(nonempty)
  BY <1>5, VmEndsStep
<1>6. CASE Wrap
  BY <1>6, WrapStep
<1>7. CASE \E moved \in BOOLEAN : Merge(moved)
  BY <1>7, MergeStep
<1>8. CASE Unwrap
  BY <1>8, UnwrapStep
<1>9. CASE Leave
  BY <1>9, LeaveStep
<1>10. CASE CallReturns
  BY <1>10, CallReturnsStep
<1>11. CASE ReleaseResult
  BY <1>11, ReleaseResultStep
<1>12. CASE Terminated \/ UNCHANGED vars
  BY <1>12, StutterStep DEF Terminated
<1> QED  BY <1>1, <1>2, <1>3, <1>4, <1>5, <1>6, <1>7, <1>8, <1>9, <1>10, <1>11, <1>12
         DEF Next

(* Whatever the frames do, in any number and in any order of ending.       *)
LEMMA Invariance == Spec => []Inv
<1>1. Init => Inv
  BY Start
<1>2. Inv /\ [Next]_vars => Inv'
  BY EveryStep DEF Kept
<1> QED  BY <1>1, <1>2, PTL DEF Spec

(* Frames, boxes and outputs are well formed, and no more boxes are made   *)
(* than callbacks were paid for.                                           *)
THEOREM TypeCorrect == Spec => []TypeOK
<1>1. Inv => TypeOK
  BY DEF Inv
<1> QED  BY <1>1, Invariance, PTL

(* The boxes alive are those of the frames on the stack, one each, for     *)
(* every depth: no frame runs on memory that was freed, none leaks its own.*)
THEOREM FramesOwnBoxesHolds == Spec => []FramesOwnBoxes
<1>1. Inv => FramesOwnBoxes
  <2> SUFFICES ASSUME Inv PROVE FramesOwnBoxes
    OBVIOUS
  <2>1. \A i, j \in DOMAIN frames : frames[i].box = frames[j].box => i = j
    BY DEF Inv, BoxInv
  <2>2. Living = {frames[i].box : i \in DOMAIN frames}
    <3>1. \A b \in Living : \E i \in DOMAIN frames : frames[i].box = b
      BY DEF Inv, BoxInv, Living
    <3>2. \A i \in DOMAIN frames : frames[i].box \in Living
      BY DEF Inv, BoxInv, Living
    <3> QED  BY <3>1, <3>2 DEF Living
  <2>3. \A i \in DOMAIN frames :
          frames[i].at \in {"vm", "executed", "unwrapped", "answered"} =>
            boxes[frames[i].box].wrappers = 0
    BY DEF Inv, BoxInv, Wrappers, Borrowing
  <2> QED  BY <2>1, <2>2, <2>3 DEF FramesOwnBoxes
<1> QED  BY <1>1, Invariance, PTL

(* The raw pointer to a context is used as an owned, borrowed and freed    *)
(* value may be: FfiOwnership implements Ownership.                        *)
THEOREM ContextsAreOwnedHolds == Spec => ContextsAreOwned
<1>1. Init => Contexts!Init
  BY Start
<1>2. Inv /\ [Next]_vars => [Contexts!Next]_[b \in Box |-> ContextLife(b)]
  BY EveryStep DEF Kept, ContextLives
<1> QED  BY <1>1, <1>2, Invariance, PTL DEF Spec, ContextsAreOwned, Contexts!Spec

(* So is the copy of every VM's output, whoever has it: nothing is freed   *)
(* twice, by Rust, by the VM or by both.                                   *)
THEOREM CopiesAreOwnedHolds == Spec => CopiesAreOwned
<1>1. Init => Copies!Init
  BY Start
<1>2. Inv /\ [Next]_vars => [Copies!Next]_[b \in Box |-> CopyLife(b)]
  BY EveryStep DEF Kept, CopyLives
<1> QED  BY <1>1, <1>2, Invariance, PTL DEF Spec, CopiesAreOwned, Copies!Spec

-----------------------------------------------------------------------------
(* Every transaction ends.                                                 *)

(* Steps a frame at such a place can still take without a callback; a      *)
(* frame that waits in `call` has those of the callee before it.           *)
Rank(at) ==
  CASE at = "call" -> 13
    [] at = "returning" -> 7
    [] at \in {"query", "answered"} -> 6
    [] at = "vm" -> 5
    [] at = "executed" -> 4
    [] at = "wrapped" -> 3
    [] at = "merged" -> 2
    [] at = "unwrapped" -> 1

(* Steps the process can still take: nine for a callback that is not yet   *)
(* made, seven for a caller that waits.                                    *)
Work ==
  IF outcome # "running" THEN 0
  ELSE 9 * gas + (IF frames = << >> THEN 6 ELSE 7 * (Len(frames) - 1) + Rank(Top.at))

LEMMA Ranks ==
  /\ Rank("call") = 13 /\ Rank("returning") = 7 /\ Rank("query") = 6
  /\ Rank("answered") = 6 /\ Rank("vm") = 5 /\ Rank("executed") = 4
  /\ Rank("wrapped") = 3 /\ Rank("merged") = 2 /\ Rank("unwrapped") = 1
  /\ \A at \in At : Rank(at) \in 1 .. 13
<1>1. /\ Rank("call") = 13 /\ Rank("returning") = 7 /\ Rank("query") = 6
      /\ Rank("answered") = 6 /\ Rank("vm") = 5 /\ Rank("executed") = 4
      /\ Rank("wrapped") = 3 /\ Rank("merged") = 2 /\ Rank("unwrapped") = 1
  BY DEF Rank
<1> QED  BY <1>1 DEF At

(* What is left while frames are on the stack.                             *)
LEMMA WorkLeft ==
  ASSUME TypeOK, outcome = "running", frames # << >>
  PROVE  /\ Work = 9 * gas + 7 * (Len(frames) - 1) + Rank(Top.at)
         /\ gas \in Nat /\ Len(frames) \in Nat \ {0} /\ Rank(Top.at) \in 1 .. 13
         /\ Work \in Nat /\ Work > 0
<1>1. gas \in Nat /\ Len(frames) \in Nat \ {0} /\ Rank(Top.at) \in 1 .. 13
  BY TopFrame, Ranks, BoundsAssumption DEF TypeOK, Frame
<1>2. Work = 9 * gas + (7 * (Len(frames) - 1) + Rank(Top.at))
  BY DEF Work
<1> DEFINE n == Len(frames)
           r == Rank(Top.at)
           w == Work
<1>3. gas \in Nat /\ n \in Nat \ {0} /\ r \in 1 .. 13 /\ w = 9 * gas + (7 * (n - 1) + r)
  BY <1>1, <1>2
<1> HIDE DEF n, r, w
<1>4. w = 9 * gas + 7 * (n - 1) + r /\ w \in Nat /\ w > 0
  BY ONLY <1>3
<1> QED  BY <1>3, <1>4 DEF n, r, w

(* A move of the top frame counts if the frame's rank falls, or a callback *)
(* is paid for it.                                                         *)
LEMMA MoveCounts ==
  ASSUME TypeOK, TypeOK', outcome = "running", outcome' = "running", frames # << >>,
         NEW at \in At, NEW reply, Moved(at, reply),
         9 * gas' + Rank(at) < 9 * gas + Rank(Top.at)
  PROVE  Work' \in Nat /\ Work' < Work
<1>1. /\ Len(frames') = Len(frames) /\ frames' # << >> /\ Top'.at = at
  <2>1. Len(frames) \in Nat \ {0} /\ Len(frames) \in DOMAIN frames
    BY TopFrame
  <2>2. Len(frames') = Len(frames) /\ frames'[Len(frames)].at = at
    BY <2>1 DEF Moved
  <2>3. frames' # << >>
    BY <2>1, <2>2, EmptySeq
  <2>4. Top' = frames'[Len(frames')]
    BY DEF Top, Last
  <2> QED  BY <2>2, <2>3, <2>4
<1>2. /\ Work = 9 * gas + 7 * (Len(frames) - 1) + Rank(Top.at)
      /\ gas \in Nat /\ Len(frames) \in Nat \ {0} /\ Rank(Top.at) \in 1 .. 13
  BY WorkLeft
<1>3. Work' = 9 * gas' + (7 * (Len(frames) - 1) + Rank(at))
  BY <1>1 DEF Work, Rank
<1>4. gas' \in Nat /\ Rank(at) \in 1 .. 13
  BY Ranks, BoundsAssumption DEF TypeOK
<1> DEFINE n == Len(frames)
           r == Rank(Top.at)
           s == Rank(at)
           g == gas'
           v == Work
           w == Work'
<1>5. /\ gas \in Nat /\ g \in Nat /\ n \in Nat \ {0} /\ s \in 1 .. 13 /\ r \in 1 .. 13
      /\ v = 9 * gas + 7 * (n - 1) + r /\ w = 9 * g + (7 * (n - 1) + s)
      /\ 9 * g + s < 9 * gas + r
  BY <1>2, <1>3, <1>4
<1> HIDE DEF n, r, s, g, v, w
<1>6. w \in Nat /\ w < v
  BY ONLY <1>5
<1> QED  BY <1>6 DEF v, w

LEMMA EnterCounts ==
  ASSUME Inv, Inv', Enter
  PROVE  Work' \in Nat /\ Work' < Work
<1>1. /\ outcome = "running" /\ outcome' = "running" /\ gas' = gas
      /\ frames # << >> => Top.at = "call"
      /\ frames' = Append(frames, nested)
  BY DEF Enter
<1>2. frames \in Seq(Frame) /\ Len(frames) \in Nat /\ gas \in Nat
  BY LenProperties, BoundsAssumption DEF Inv, TypeOK
<1>3. Len(frames') = Len(frames) + 1 /\ frames'[Len(frames) + 1] = nested
  <2> DEFINE F == Frame \cup {nested}
  <2>1. frames \in Seq(F) /\ nested \in F
    BY <1>2
  <2> HIDE DEF F
  <2> QED  BY <1>1, <2>1, AppendProperties
<1>4. frames' # << >> /\ Top'.at = "vm"
  BY <1>2, <1>3, EmptySeq DEF Top, Last, nested
<1>5. Work' = 9 * gas + (7 * Len(frames) + 5)
  BY <1>1, <1>2, <1>3, <1>4, Ranks DEF Work
<1>6. CASE frames = << >>
  <2>1. Work = 9 * gas + 6 /\ Len(frames) = 0
    BY <1>1, <1>6, EmptySeq DEF Work
  <2> HIDE DEF Work
  <2> QED  BY <1>2, <1>5, <2>1
<1>7. CASE frames # << >>
  <2>1. Work = 9 * gas + 7 * (Len(frames) - 1) + 13
    BY <1>1, <1>7, Ranks, WorkLeft DEF Inv
  <2> HIDE DEF Work
  <2> QED  BY <1>2, <1>5, <2>1
<1> QED  BY <1>6, <1>7

LEMMA LeaveCounts ==
  ASSUME Inv, Inv', Leave
  PROVE  Work' \in Nat /\ Work' < Work
<1>1. Running("unwrapped") /\ gas' = gas
  BY DEF Leave
<1>2. outcome = "running" /\ frames # << >> /\ Top.at = "unwrapped"
  BY <1>1 DEF Running
<1>3. /\ Work = 9 * gas + 7 * (Len(frames) - 1) + 1 /\ Work > 0
      /\ gas \in Nat
  BY <1>2, WorkLeft, Ranks DEF Inv
<1>4. Len(frames) \in Nat \ {0}
  BY <1>2, WorkLeft DEF Inv
<1>5. CASE Len(frames) = 1
  <2>1. outcome' = "finished"
    BY <1>5 DEF Leave
  <2>2. Work' = 0
    BY <2>1 DEF Work
  <2> QED  BY <1>3, <2>2
<1>6. CASE Len(frames) # 1
  <2> DEFINE n == Len(frames)
             g == [box |-> Front(frames)[n - 1].box, at |-> "returning", reply |-> Top.box]
  <2>1. frames' = [Front(frames) EXCEPT ![n - 1] = g] /\ UNCHANGED outcome
    BY <1>6 DEF Leave
  <2>2. Top \in Frame /\ Top.box \in Box
    BY <1>2, TopFrame DEF Inv, Frame
  <2>3. Front(frames)[n - 1] = frames[n - 1] /\ frames[n - 1] \in Frame
    <3>1. \A i \in 1 .. n - 1 : frames[i] \in Frame
      BY <1>2, <1>3, TopFrame DEF Inv
    <3>2. /\ n - 1 \in Int /\ 1 \in Int /\ n - 1 \in 1 .. n - 1
          /\ 1 + (n - 1) - 1 = n - 1 /\ n - 1 \in 1 .. (n - 1) - 1 + 1
      <4>1. n \in Nat \ {0} /\ n # 1
        BY <1>4, <1>6
      <4> HIDE DEF n
      <4> QED  BY <4>1
    <3>3. \A i \in 1 .. (n - 1) - 1 + 1 : SubSeq(frames, 1, n - 1)[i] = frames[1 + i - 1]
      BY ONLY <3>1, <3>2, SubSeqProperties
    <3> QED  BY <3>1, <3>2, <3>3 DEF Front
  <2>4. g \in Frame /\ g.at = "returning"
    BY <2>2, <2>3 DEF Frame, At
  <2> HIDE DEF g
  <2>5. /\ Len(frames') = n - 1 /\ frames' # << >> /\ n - 1 \in 1 .. n - 1
        /\ \A i \in 1 .. n - 1 : frames'[i] = IF i = n - 1 THEN g ELSE frames[i]
    BY <1>2, <1>6, <2>1, <2>4, CallerResumed DEF Inv
  <2>6. Top'.at = "returning" /\ outcome' = "running"
    BY <1>2, <2>1, <2>4, <2>5 DEF Top, Last
  <2>7. Work' = 9 * gas + (7 * ((n - 1) - 1) + 7)
    BY <1>1, <2>5, <2>6, Ranks DEF Work
  <2> HIDE DEF Work
  <2> QED  BY <1>3, <1>6, <2>7
<1> QED  BY <1>5, <1>6

LEMMA GotoCounts ==
  ASSUME Inv, Inv', NEW from \in At, NEW at \in At, Running(from), Goto(at),
         UNCHANGED outcome, 9 * gas' + Rank(at) < 9 * gas + Rank(from)
  PROVE  Work' \in Nat /\ Work' < Work
<1>1. outcome = "running" /\ outcome' = "running" /\ frames # << >> /\ Top.at = from
  BY DEF Running
<1> QED  BY <1>1, GotoMoves, MoveCounts DEF Inv

(* Each action but the last stutter takes something of the work away.      *)
LEMMA StepCounts ==
  ASSUME Inv, Next, Inv'
  PROVE  UNCHANGED vars \/ (Work' \in Nat /\ Work' < Work)
<1>1. gas \in Nat
  BY BoundsAssumption DEF Inv, TypeOK
<1>2. \A at \in {"call", "query", "vm", "executed", "wrapped", "merged", "unwrapped",
                 "returning", "answered"} : at \in At
  BY DEF At
<1>3. ASSUME NEW from, NEW at, <<from, at>> \in
               {<<"query", "vm">>, <<"vm", "executed">>, <<"executed", "wrapped">>,
                <<"wrapped", "merged">>, <<"merged", "unwrapped">>,
                <<"returning", "answered">>},
             Running(from), Goto(at), UNCHANGED <<outcome, gas>>
      PROVE  Work' \in Nat /\ Work' < Work
  <2>1. from \in At /\ at \in At /\ 9 * gas' + Rank(at) < 9 * gas + Rank(from)
    BY <1>1, <1>2, <1>3, Ranks
  <2> QED  BY <1>3, <2>1, GotoCounts
<1>4. CASE \E at \in {"query", "call"} : Callback(at)
  <2>1. PICK at \in {"query", "call"} : Callback(at)
    BY <1>4
  <2>2. Running("vm") /\ Goto(at) /\ gas' = gas - 1 /\ UNCHANGED outcome
    BY <2>1 DEF Callback
  <2>3. 9 * gas' + Rank(at) < 9 * gas + Rank("vm")
    BY <1>1, <2>2, Ranks
  <2> QED  BY <1>2, <2>2, <2>3, GotoCounts
<1>5. CASE QueryReturns
  <2>1. Running("query") /\ Goto("vm") /\ UNCHANGED <<outcome, gas>>
    BY <1>5 DEF QueryReturns
  <2> QED  BY <1>3, <2>1
<1>6. CASE Enter
  BY <1>6, EnterCounts
<1>7. CASE Panic
  <2>1. outcome = "running" /\ frames # << >> /\ outcome' = "aborted"
    BY <1>7 DEF Panic, Running
  <2>2. Work' = 0
    BY <2>1 DEF Work
  <2> QED  BY <2>1, <2>2, WorkLeft DEF Inv
<1>8. CASE \E nonempty \in BOOLEAN : VmEnds(nonempty)
  <2>1. Running("vm") /\ Goto("executed") /\ UNCHANGED <<outcome, gas>>
    BY <1>8 DEF VmEnds
  <2> QED  BY <1>3, <2>1
<1>9. CASE Wrap
  <2>1. Running("executed") /\ Goto("wrapped") /\ UNCHANGED <<outcome, gas>>
    BY <1>9 DEF Wrap
  <2> QED  BY <1>3, <2>1
<1>10. CASE \E moved \in BOOLEAN : Merge(moved)
  <2>1. Running("wrapped") /\ Goto("merged") /\ UNCHANGED <<outcome, gas>>
    BY <1>10 DEF Merge
  <2> QED  BY <1>3, <2>1
<1>11. CASE Unwrap
  <2>1. Running("merged") /\ Goto("unwrapped") /\ UNCHANGED <<outcome, gas>>
    BY <1>11 DEF Unwrap
  <2> QED  BY <1>3, <2>1
<1>12. CASE Leave
  BY <1>12, LeaveCounts
<1>13. CASE CallReturns
  <2>1. Running("returning") /\ Goto("answered") /\ UNCHANGED <<outcome, gas>>
    BY <1>13 DEF CallReturns
  <2> QED  BY <1>3, <2>1
<1>14. CASE ReleaseResult
  <2>1. /\ Running("answered") /\ UNCHANGED <<boxes, outcome, gas>>
        /\ frames' = [frames EXCEPT ![Len(frames)] =
                        [box |-> Top.box, at |-> "vm", reply |-> NoBox]]
    BY <1>14 DEF ReleaseResult
  <2>2. /\ outcome = "running" /\ outcome' = "running" /\ frames # << >>
        /\ Top.at = "answered" /\ NoBox \in Box \cup {NoBox}
    BY <2>1 DEF Running
  <2>3. Moved("vm", NoBox)
    BY <1>2, <2>1, <2>2, TopReplaced DEF Inv
  <2>4. 9 * gas' + Rank("vm") < 9 * gas + Rank(Top.at)
    BY <1>1, <2>1, <2>2, Ranks
  <2> QED  BY <1>2, <2>2, <2>3, <2>4, MoveCounts DEF Inv
<1>15. CASE Terminated
  BY <1>15 DEF Terminated
<1> QED  BY <1>4, <1>5, <1>6, <1>7, <1>8, <1>9, <1>10, <1>11, <1>12, <1>13, <1>14, <1>15
         DEF Next

(* No transaction runs for ever: each step of the process takes away from  *)
(* the work that is left, which 9 * MaxGas + 6 bounds at the start, for    *)
(* every depth of calls.                                                   *)
THEOREM EveryStepCounts ==
  Spec => Work = 9 * MaxGas + 6 /\ [][Work' \in Nat /\ Work' < Work]_vars
<1>1. Init => Work = 9 * MaxGas + 6
  BY DEF Init, Work
<1>2. Inv /\ Inv' /\ [Next]_vars => [Work' \in Nat /\ Work' < Work]_vars
  BY StepCounts
<1> QED  BY <1>1, <1>2, Invariance, PTL DEF Spec

-----------------------------------------------------------------------------
(* Nothing is left behind.                                                 *)

(* A copy is held by the frame whose VM made it or, once that frame is     *)
(* gone, by the caller that has its box as reply.                          *)
Holds(i, b) ==
  frames[i].box = b \/ (frames[i].at \in Replied /\ frames[i].reply = b)

(* What needs no owner: no copy, a copy that was freed, one that became    *)
(* data.                                                                   *)
Settled(output) == output.copy \in {"none", "data"} \/ output.frees = 1

(* A frame never has a copy that belongs to a VM, and none is without a    *)
(* holder; no frame stays when the transaction is finished.                *)
HeldInv ==
  /\ outcome = "finished" => frames = << >>
  /\ \A i \in DOMAIN frames : outputs[frames[i].box].copy # "vm"
  /\ \A b \in DOMAIN outputs :
       Settled(outputs[b]) \/ \E i \in DOMAIN frames : Holds(i, b)

(* A step that moves the top frame keeps every copy held, if it settles    *)
(* the one whose box the frame forgets.                                    *)
LEMMA MoveKeepsHeldInv ==
  ASSUME Inv, HeldInv, frames # << >>, NEW at \in At, NEW reply, Moved(at, reply),
         NEW c \in DOMAIN outputs, NEW output, Put(c, output),
         c = Top.box => output.copy # "vm",
         c # Top.box => \A j \in DOMAIN frames : frames[j].box # c,
         Settled(outputs[c]) => \/ Settled(output) \/ c = Top.box
                                \/ at \in Replied /\ reply = c,
         Top.at \in Replied => \/ at \in Replied /\ reply = Top.reply
                               \/ c = Top.reply /\ Settled(output),
         outcome' = "running"
  PROVE  HeldInv'
<1>1. /\ Top = frames[Len(frames)] /\ Len(frames) \in DOMAIN frames
      /\ DOMAIN frames' = DOMAIN frames /\ DOMAIN outputs' = DOMAIN outputs
  BY TopFrame DEF Inv, Moved, Put
<1>2. ASSUME NEW i \in DOMAIN frames
      PROVE  outputs'[frames'[i].box].copy # "vm"
  <2>1. frames'[i].box = frames[i].box /\ frames[i].box \in DOMAIN outputs
    BY Boxes DEF Moved, Inv, BoxInv
  <2>2. outputs[frames[i].box].copy # "vm"
    BY DEF HeldInv
  <2>3. frames[i].box = c => c = Top.box
    OBVIOUS
  <2> QED  BY <2>1, <2>2, <2>3 DEF Put
<1>3. ASSUME NEW b \in DOMAIN outputs
      PROVE  Settled(outputs'[b]) \/ \E i \in DOMAIN frames : Holds(i, b)'
  <2>1. outputs'[b] = IF b = c THEN output ELSE outputs[b]
    BY DEF Put
  <2>2. CASE b = Top.box
    <3>1. Holds(Len(frames), b)'
      BY <1>1, <2>2 DEF Holds, Moved
    <3> QED  BY <1>1, <3>1
  <2>3. CASE b # Top.box /\ Settled(outputs[b])
    <3>1. CASE at \in Replied /\ reply = b
      <4>1. Holds(Len(frames), b)'
        BY <1>1, <3>1 DEF Holds, Moved
      <4> QED  BY <1>1, <4>1
    <3>2. CASE ~(at \in Replied /\ reply = b)
      BY <2>1, <2>3, <3>2
    <3> QED  BY <3>1, <3>2
  <2>4. CASE b # Top.box /\ ~Settled(outputs[b])
    <3>1. PICK i \in DOMAIN frames : Holds(i, b)
      BY <2>4 DEF HeldInv
    <3>2. CASE i # Len(frames)
      <4>1. Holds(i, b)'
        BY <3>1, <3>2 DEF Holds, Moved
      <4> QED  BY <4>1
    <3>3. CASE i = Len(frames)
      <4>1. Top.at \in Replied /\ Top.reply = b
        BY <1>1, <2>4, <3>1, <3>3 DEF Holds
      <4>2. CASE at \in Replied /\ reply = Top.reply
        <5>1. Holds(i, b)'
          BY <3>3, <4>1, <4>2 DEF Holds, Moved
        <5> QED  BY <5>1
      <4>3. CASE c = Top.reply /\ Settled(output)
        BY <2>1, <4>1, <4>3
      <4> QED  BY <4>1, <4>2, <4>3
    <3> QED  BY <3>2, <3>3
  <2> QED  BY <2>2, <2>3, <2>4
<1> QED  BY <1>1, <1>2, <1>3 DEF HeldInv

(* Moves that leave the outputs alone.                                     *)
LEMMA QuietKeepsHeldInv ==
  ASSUME Inv, HeldInv, NEW from \in At, NEW at \in At, Running(from), Goto(at),
         from \notin Replied, UNCHANGED <<outputs, outcome>>
  PROVE  HeldInv'
<1>1. /\ frames # << >> /\ Top.at = from /\ outcome = "running"
      /\ Top.box \in DOMAIN outputs
  BY AtPlace
<1>2. Moved(at, Top.reply)
  BY <1>1, GotoMoves DEF Inv
<1>3. Put(Top.box, outputs[Top.box])
  BY <1>1, OutputsSame DEF Inv
<1>4. outputs[Top.box].copy # "vm"
  BY <1>1, TopFrame DEF Inv, HeldInv
<1> QED  BY <1>1, <1>2, <1>3, <1>4, MoveKeepsHeldInv

LEMMA VmEndsKeepsHeldInv ==
  ASSUME Inv, HeldInv, NEW nonempty \in BOOLEAN, VmEnds(nonempty)
  PROVE  HeldInv'
<1> DEFINE output == ExecutionResult_from(nonempty)
<1>1. /\ Running("vm") /\ Goto("executed") /\ UNCHANGED outcome
      /\ outputs' = [outputs EXCEPT ![Top.box] = output]
      /\ "vm" \in At /\ "executed" \in At /\ "vm" \notin Replied
  BY DEF VmEnds, At, Replied
<1>2. /\ frames # << >> /\ Top.at = "vm" /\ outcome = "running"
      /\ Top.box \in DOMAIN outputs
  BY <1>1, AtPlace
<1>3. output \in Output /\ output.copy # "vm"
  BY DEF ExecutionResult_from, NoOutput, Output
<1> HIDE DEF output
<1>4. Moved("executed", Top.reply)
  BY <1>1, <1>2, GotoMoves DEF Inv
<1>5. Put(Top.box, output)
  BY <1>1, <1>2, <1>3, OutputPut DEF Inv
<1> QED  BY <1>1, <1>2, <1>3, <1>4, <1>5, MoveKeepsHeldInv

LEMMA MergeKeepsHeldInv ==
  ASSUME Inv, HeldInv, NEW moved \in BOOLEAN, Merge(moved)
  PROVE  HeldInv'
<1>1. /\ Running("wrapped") /\ Goto("merged") /\ UNCHANGED outcome
      /\ "wrapped" \in At /\ "merged" \in At /\ "wrapped" \notin Replied
      /\ "wrapped" \in Past
  BY DEF Merge, At, Replied, Past
<1>2. /\ frames # << >> /\ Top.at = "wrapped" /\ outcome = "running"
      /\ Top.box \in DOMAIN outputs /\ outputs[Top.box] \in Output
      /\ outputs[Top.box].frees = 0
  BY <1>1, AtPlace, TopBox
<1>3. CASE ~moved
  <2>1. UNCHANGED outputs
    BY <1>3 DEF Merge
  <2> QED  BY <1>1, <2>1, QuietKeepsHeldInv
<1>4. CASE moved
  <2> DEFINE output == [outputs[Top.box] EXCEPT !.copy = "data"]
  <2>1. outputs' = [outputs EXCEPT ![Top.box] = output]
    BY <1>4 DEF Merge
  <2>2. output \in Output /\ output.copy # "vm"
    BY <1>2 DEF Output
  <2> HIDE DEF output
  <2>3. Moved("merged", Top.reply)
    BY <1>1, <1>2, GotoMoves DEF Inv
  <2>4. Put(Top.box, output)
    BY <1>2, <2>1, <2>2, OutputPut DEF Inv
  <2> QED  BY <1>1, <1>2, <2>2, <2>3, <2>4, MoveKeepsHeldInv
<1> QED  BY <1>3, <1>4

LEMMA CallReturnsKeepsHeldInv ==
  ASSUME Inv, HeldInv, CallReturns
  PROVE  HeldInv'
<1> DEFINE output == evmc_result_from(outputs[Top.reply])
<1>1. /\ Running("returning") /\ Goto("answered") /\ UNCHANGED outcome
      /\ outputs' = [outputs EXCEPT ![Top.reply] = output]
      /\ "returning" \in At /\ "answered" \in At
      /\ "returning" \in Replied /\ "answered" \in Replied
  BY DEF CallReturns, At, Replied
<1>2. /\ frames # << >> /\ Top.at = "returning" /\ outcome = "running"
      /\ Top.reply \in DOMAIN outputs /\ outputs[Top.reply].frees = 0
      /\ \A j \in DOMAIN frames : frames[j].box # Top.reply
  BY <1>1, AtPlace, TopBox
<1>3. outputs[Top.reply] \in Output
  BY <1>2, Boxes DEF Inv
<1>4. output \in Output
  BY <1>2, <1>3, OutputOperations
<1> HIDE DEF output
<1>5. Moved("answered", Top.reply)
  BY <1>1, <1>2, GotoMoves DEF Inv
<1>6. Put(Top.reply, output)
  BY <1>1, <1>2, <1>4, OutputPut DEF Inv
<1>7. Top.box # Top.reply
  BY <1>2, TopFrame DEF Inv
<1> QED  BY <1>1, <1>2, <1>5, <1>6, <1>7, MoveKeepsHeldInv

LEMMA ReleaseResultKeepsHeldInv ==
  ASSUME Inv, HeldInv, ReleaseResult
  PROVE  HeldInv'
<1> DEFINE output == release(outputs[Top.reply])
<1>1. /\ Running("answered") /\ UNCHANGED outcome
      /\ outputs' = [outputs EXCEPT ![Top.reply] = output]
      /\ frames' = [frames EXCEPT ![Len(frames)] =
                      [box |-> Top.box, at |-> "vm", reply |-> NoBox]]
      /\ "answered" \in At /\ "vm" \in At
      /\ "answered" \in Replied /\ NoBox \in Box \cup {NoBox}
  BY DEF ReleaseResult, At, Replied
<1>2. /\ frames # << >> /\ Top.at = "answered" /\ outcome = "running"
      /\ Top.reply \in DOMAIN outputs /\ outputs[Top.reply].frees = 0
      /\ \A j \in DOMAIN frames : frames[j].box # Top.reply
  BY <1>1, AtPlace, TopBox
<1>3. outputs[Top.reply] \in Output
  BY <1>2, Boxes DEF Inv
<1>4. output \in Output
  BY <1>2, <1>3, OutputOperations
<1>5. Settled(output)
  BY <1>2, <1>3 DEF Settled, release, Output
<1> HIDE DEF output
<1>6. Moved("vm", NoBox)
  BY <1>1, <1>2, TopReplaced DEF Inv
<1>7. Put(Top.reply, output)
  BY <1>1, <1>2, <1>4, OutputPut DEF Inv
<1>8. Top.box # Top.reply
  BY <1>2, TopFrame DEF Inv
<1> QED  BY <1>1, <1>2, <1>5, <1>6, <1>7, <1>8, MoveKeepsHeldInv

LEMMA EnterKeepsHeldInv ==
  ASSUME Inv, HeldInv, Enter
  PROVE  HeldInv'
<1> DEFINE m == Len(frames)
           b == Len(boxes) + 1
<1>1. /\ outcome' = "running" /\ (frames # << >> => Top.at = "call")
      /\ outputs' = Append(outputs, NoOutput) /\ frames' = Append(frames, nested)
  BY DEF Enter
<1>2. /\ m \in Nat /\ DOMAIN frames = 1 .. m /\ b = Len(outputs) + 1
      /\ DOMAIN outputs = 1 .. Len(outputs) /\ Len(outputs) \in Nat
      /\ \A i \in 1 .. m : frames[i].box \in 1 .. Len(outputs)
  BY LenProperties, Boxes DEF Inv, TypeOK, BoxInv
<1>3. /\ Len(frames') = m + 1 /\ DOMAIN frames' = 1 .. m + 1
      /\ \A i \in 1 .. m : frames'[i] = frames[i]
      /\ frames'[m + 1] = nested
  <2> DEFINE F == Frame \cup {nested}
  <2>1. frames \in Seq(F) /\ nested \in F
    BY DEF Inv, TypeOK
  <2> HIDE DEF F
  <2> QED  BY <1>1, <2>1, AppendProperties, LenProperties
<1>4. /\ DOMAIN outputs' = 1 .. b
      /\ \A c \in 1 .. Len(outputs) : outputs'[c] = outputs[c]
      /\ outputs'[b] = NoOutput
  <2>1. outputs \in Seq(Output) /\ NoOutput \in Output
    BY DEF Inv, TypeOK, NoOutput, Output
  <2> QED  BY <1>1, <1>2, <2>1, AppendProperties, LenProperties
<1>5. nested.box = b /\ NoOutput.copy = "none"
  BY DEF nested, NoOutput
<1> HIDE DEF m, b
<1>6. ASSUME NEW i \in 1 .. m + 1
      PROVE  outputs'[frames'[i].box].copy # "vm"
  <2>1. CASE i = m + 1
    BY <1>3, <1>4, <1>5, <2>1
  <2>2. CASE i \in 1 .. m
    BY <1>2, <1>3, <1>4, <2>2 DEF HeldInv
  <2> QED  BY <1>2, <2>1, <2>2
<1>7. ASSUME NEW c \in 1 .. b
      PROVE  Settled(outputs'[c]) \/ \E i \in DOMAIN frames' : Holds(i, c)'
  <2>1. CASE c = b
    BY <1>4, <1>5, <2>1 DEF Settled
  <2>2. CASE c \in 1 .. Len(outputs)
    <3>1. CASE Settled(outputs[c])
      BY <1>4, <2>2, <3>1
    <3>2. CASE ~Settled(outputs[c])
      <4>1. PICK i \in 1 .. m : Holds(i, c)
        BY <1>2, <2>2, <3>2 DEF HeldInv
      <4>2. Holds(i, c)' /\ i \in DOMAIN frames'
        BY <1>2, <1>3, <4>1 DEF Holds
      <4> QED  BY <4>2
    <3> QED  BY <3>1, <3>2
  <2> QED  BY <1>2, <2>1, <2>2
<1> QED  BY <1>1, <1>3, <1>4, <1>6, <1>7 DEF HeldInv

(* A frame that leaves hands its copy to its caller; main's is dropped.    *)
LEMMA LeaveKeepsHeldInv ==
  ASSUME Inv, HeldInv, Leave
  PROVE  HeldInv'
<1> DEFINE n == Len(frames)
<1>1. /\ Running("unwrapped") /\ "unwrapped" \in At /\ "unwrapped" \in Past
      /\ "unwrapped" \notin Replied
  BY DEF Leave, At, Past, Replied
<1>2. /\ frames # << >> /\ Top.at = "unwrapped"
      /\ Top.box \in DOMAIN outputs /\ outputs[Top.box] \in Output
      /\ outputs[Top.box].frees = 0 /\ outputs[Top.box].copy # "vm"
  <2>1. frames # << >> /\ Top.at = "unwrapped" /\ Top.box \in DOMAIN outputs
        /\ outputs[Top.box] \in Output /\ outputs[Top.box].frees = 0
    BY <1>1, AtPlace, TopBox
  <2> QED  BY <2>1, TopFrame DEF Inv, HeldInv
<1>3. /\ n \in Nat \ {0} /\ DOMAIN frames = 1 .. n /\ Top = frames[n] /\ n \in 1 .. n
      /\ \A i \in 1 .. n : frames[i] \in Frame
  BY <1>2, TopFrame DEF Inv
<1>4. CASE n = 1
  <2>1. /\ frames' = << >>
        /\ outputs' = [outputs EXCEPT ![Top.box] = Vec_drop(outputs[Top.box])]
    BY <1>4 DEF Leave
  <2>2. Vec_drop(outputs[Top.box]) \in Output
    BY <1>2, OutputOperations
  <2>3. Put(Top.box, Vec_drop(outputs[Top.box]))
    BY <1>2, <2>1, <2>2, OutputPut DEF Inv
  <2>4. Settled(Vec_drop(outputs[Top.box]))
    BY <1>2 DEF Settled, Vec_drop, Output
  <2>5. ASSUME NEW b \in DOMAIN outputs
        PROVE  Settled(outputs'[b])
    <3>1. CASE b = Top.box
      BY <2>3, <2>4, <3>1 DEF Put
    <3>2. CASE b # Top.box
      <4>1. ~Holds(1, b)
        BY <1>2, <1>3, <1>4, <1>1, <3>2 DEF Holds
      <4>2. Settled(outputs[b])
        BY <1>3, <1>4, <4>1 DEF HeldInv
      <4> QED  BY <2>3, <3>2, <4>2 DEF Put
    <3> QED  BY <3>1, <3>2
  <2>6. DOMAIN frames' = {} /\ DOMAIN outputs' = DOMAIN outputs
    BY <2>1, <2>3, EmptySeq, LenProperties DEF Put
  <2> QED  BY <2>1, <2>5, <2>6 DEF HeldInv
<1>5. CASE n # 1
  <2> DEFINE f == [box |-> frames[n - 1].box, at |-> "returning", reply |-> Top.box]
  <2>1. n - 1 \in 1 .. n /\ n - 1 \in 1 .. n - 1
    BY <1>3, <1>5
  <2>2. f \in Frame
    <3>1. Top.box \in Box /\ frames[n - 1].box \in Box
      BY <1>3, <2>1 DEF Frame
    <3> QED  BY <3>1 DEF Frame, At
  <2>3. /\ frames' = [Front(frames) EXCEPT ![n - 1] = f]
        /\ UNCHANGED outputs /\ outcome' = "running"
    <3>1. Front(frames)[n - 1] = frames[n - 1]
      <4>1. \A i \in 1 .. n - 1 : frames[i] \in Frame
        BY <1>3
      <4>2. n - 1 \in Int /\ 1 \in Int
        BY <1>3
      <4>3. \A i \in 1 .. (n - 1) - 1 + 1 : SubSeq(frames, 1, n - 1)[i] = frames[1 + i - 1]
        BY ONLY <4>1, <4>2, SubSeqProperties
      <4> QED  BY <1>3, <2>1, <4>3 DEF Front
    <3> QED  BY <1>1, <1>5, <3>1 DEF Leave, Running
  <2> HIDE DEF f
  <2>4. /\ DOMAIN frames' = 1 .. n - 1
        /\ \A i \in 1 .. n - 1 : frames'[i] = IF i = n - 1 THEN f ELSE frames[i]
    BY <1>2, <1>5, <2>2, <2>3, CallerResumed DEF Inv
  <2>5. f.box = frames[n - 1].box /\ f.at \in Replied /\ f.reply = Top.box
    BY DEF f, Replied
  <2>6. ASSUME NEW i \in 1 .. n - 1
        PROVE  /\ frames'[i].box = frames[i].box /\ i \in DOMAIN frames
               /\ frames[i].at = "call"
    <3>1. i \in 1 .. n /\ i # n
      <4>1. n \in Nat /\ i \in 1 .. n - 1
        BY <1>3
      <4> HIDE DEF n
      <4> QED  BY ONLY <4>1
    <3>2. frames'[i].box = frames[i].box
      BY <2>4, <2>5
    <3> QED  BY <1>3, <3>1, <3>2 DEF Inv, BoxInv
  <2>7. ASSUME NEW b \in DOMAIN outputs, ~Settled(outputs[b])
        PROVE  \E i \in 1 .. n - 1 : Holds(i, b)'
    <3>1. PICK i \in 1 .. n : Holds(i, b)
      BY <1>3, <2>7 DEF HeldInv
    <3>2. CASE i = n
      <4>1. b = Top.box
        BY <1>1, <1>2, <1>3, <3>1, <3>2 DEF Holds
      <4>2. PICK k \in 1 .. n - 1 : k = n - 1
        BY <2>1
      <4>3. Holds(k, b)'
        BY <2>4, <2>5, <4>1, <4>2 DEF Holds
      <4> QED  BY <4>3
    <3>3. CASE i # n
      <4>1. i \in 1 .. n - 1
        <5>1. n \in Nat /\ i \in 1 .. n /\ i # n
          BY <1>3, <3>3
        <5> HIDE DEF n
        <5> QED  BY ONLY <5>1
      <4>2. frames[i].box = b
        BY <2>6, <3>1, <4>1 DEF Holds, Replied
      <4>3. Holds(i, b)'
        BY <2>6, <4>1, <4>2 DEF Holds
      <4> QED  BY <4>1, <4>3
    <3> QED  BY <3>2, <3>3
  <2> QED  BY <2>3, <2>4, <2>6, <2>7 DEF HeldInv
<1> QED  BY <1>4, <1>5

LEMMA EveryStepKeepsHeldInv ==
  ASSUME Inv, HeldInv, [Next]_vars
  PROVE  HeldInv'
<1>1. ASSUME NEW from, NEW at, Running(from), Goto(at), UNCHANGED <<outputs, outcome>>,
             <<from, at>> \in {<<"vm", "query">>, <<"vm", "call">>, <<"query", "vm">>,
                               <<"executed", "wrapped">>, <<"merged", "unwrapped">>}
      PROVE  HeldInv'
  <2>1. from \in At /\ at \in At /\ from \notin Replied
    BY <1>1 DEF At, Replied
  <2> QED  BY <1>1, <2>1, QuietKeepsHeldInv
<1>2. CASE \E at \in {"query", "call"} : Callback(at)
  <2>1. PICK at \in {"query", "call"} : Callback(at)
    BY <1>2
  <2>2. Running("vm") /\ Goto(at) /\ UNCHANGED <<outputs, outcome>>
    BY <2>1 DEF Callback
  <2> QED  BY <1>1, <2>2
<1>3. CASE QueryReturns
  <2>1. Running("query") /\ Goto("vm") /\ UNCHANGED <<outputs, outcome>>
    BY <1>3 DEF QueryReturns
  <2> QED  BY <1>1, <2>1
<1>4. CASE Enter
  BY <1>4, EnterKeepsHeldInv
<1>5. CASE Panic \/ Terminated \/ UNCHANGED vars
  <2>1. UNCHANGED <<frames, outputs>> /\ (outcome' = "aborted" \/ UNCHANGED outcome)
    BY <1>5 DEF Panic, Terminated, vars
  <2> QED  BY <2>1 DEF HeldInv, Holds
<1>6. CASE \E nonempty \in BOOLEAN : VmEnds(nonempty)
  BY <1>6, VmEndsKeepsHeldInv
<1>7. CASE Wrap
  <2>1. Running("executed") /\ Goto("wrapped") /\ UNCHANGED <<outputs, outcome>>
    BY <1>7 DEF Wrap
  <2> QED  BY <1>1, <2>1
<1>8. CASE \E moved \in BOOLEAN : Merge(moved)
  BY <1>8, MergeKeepsHeldInv
<1>9. CASE Unwrap
  <2>1. Running("merged") /\ Goto("unwrapped") /\ UNCHANGED <<outputs, outcome>>
    BY <1>9 DEF Unwrap
  <2> QED  BY <1>1, <2>1
<1>10. CASE Leave
  BY <1>10, LeaveKeepsHeldInv
<1>11. CASE CallReturns
  BY <1>11, CallReturnsKeepsHeldInv
<1>12. CASE ReleaseResult
  BY <1>12, ReleaseResultKeepsHeldInv
<1> QED  BY <1>2, <1>3, <1>4, <1>5, <1>6, <1>7, <1>8, <1>9, <1>10, <1>11, <1>12 DEF Next

(* The safety half of EverythingFreed, for every depth: a finished         *)
(* transaction has freed all contexts and copies.  By EveryStepCounts only *)
(* a process that stops without a step can fail to finish or to abort.     *)
THEOREM NothingLeaksHolds == Spec => []NothingLeaks
<1>1. Init => HeldInv
  <2> SUFFICES ASSUME Init PROVE HeldInv
    OBVIOUS
  <2>1. DOMAIN frames = {} /\ DOMAIN outputs = {} /\ frames = << >>
    BY DEF Init
  <2> QED  BY <2>1 DEF HeldInv
<1>2. Inv /\ HeldInv /\ [Next]_vars => HeldInv'
  BY EveryStepKeepsHeldInv
<1>3. Inv /\ HeldInv => NothingLeaks
  <2> SUFFICES ASSUME Inv, HeldInv, outcome = "finished", NEW b \in Box
               PROVE  /\ ContextLife(b) \in {"unborn", "freed"}
                      /\ CopyLife(b) \in {"unborn", "freed"} \/ outputs[b].copy = "data"
    BY DEF NothingLeaks
  <2>1. DOMAIN frames = {}
    BY EmptySeq, LenProperties DEF HeldInv
  <2>2. ContextLife(b) \in {"unborn", "freed"}
    <3>1. b \in DOMAIN boxes => boxes[b].wrappers = 0 /\ boxes[b].frees = 1
      BY <2>1 DEF Inv, BoxInv
    <3> QED  BY <3>1 DEF ContextLife
  <2>3. CopyLife(b) \in {"unborn", "freed"} \/ outputs[b].copy = "data"
    <3>1. b \in DOMAIN outputs => Settled(outputs[b])
      BY <2>1 DEF HeldInv
    <3> QED  BY <3>1 DEF CopyLife, Settled
  <2> QED  BY <2>2, <2>3
<1> QED  BY <1>1, <1>2, <1>3, Invariance, PTL DEF Spec
=============================================================================
