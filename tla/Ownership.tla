------------------------------ MODULE Ownership ------------------------------
(***************************************************************************)
(* What safe Rust promises about a value on the heap and evmc.rs, which    *)
(* passes such values through C as raw pointers, has to promise by itself: *)
(* a value is made once, is borrowed by one borrower at a time and only    *)
(* while it is alive, and is freed at most once and never while borrowed.  *)
(***************************************************************************)
CONSTANT Object

VARIABLE life   \* where each object is in its life

Stages == {"unborn", "owned", "borrowed", "freed"}

Init == life = [o \in Object |-> "unborn"]

Step(o, from, to) == life[o] = from /\ life' = [life EXCEPT ![o] = to]

Create(o)   == Step(o, "unborn", "owned")
Borrow(o)   == Step(o, "owned", "borrowed")
GiveBack(o) == Step(o, "borrowed", "owned")
Free(o)     == Step(o, "owned", "freed")

Next == \E o \in Object : Create(o) \/ Borrow(o) \/ GiveBack(o) \/ Free(o)

Spec == Init /\ [][Next]_life
=============================================================================
