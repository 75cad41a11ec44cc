---------------------------- MODULE FfiOwnership ----------------------------
(***************************************************************************)
(* Who owns what while contexts and results cross the C interface of       *)
(* evmone.  HostCalls treats a callback as one step on a value; here the   *)
(* value is a box behind a raw pointer, and the steps are those at which   *)
(* evmc.rs makes, borrows, forgets and frees it.                           *)
(*                                                                         *)
(* A HostContextPtr owns the box of one call frame.  Every callback turns  *)
(* the raw pointer evmone hands back into a second Box, inside a           *)
(* HostContextWrapper, and must forget it again.  The callback `call`      *)
(* keeps its wrapper while the callee runs on a box of its own, and wraps  *)
(* that box too once the callee's VM has ended.                            *)
(*                                                                         *)
(* A VM's output is memory the VM owns, with a function that releases it.  *)
(* ExecutionResult keeps a copy in a Vec and passes the old release        *)
(* function on together with the copy; the memory of the VM is not seen    *)
(* again, and the model leaves it out.                                     *)
(*                                                                         *)
(* The data of the contexts is left out, but for one thing: `create` moves *)
(* the Vec into the account it makes, and dropping a HostContextPtr does   *)
(* not drop the data in its box.                                           *)
(*                                                                         *)
(* The process is single-threaded, so only the last frame runs.  A panic   *)
(* inside an extern "C" function does not come back: the process is gone,  *)
(* and its memory with it.                                                 *)
(***************************************************************************)
EXTENDS Naturals, SequencesExt

CONSTANTS
  MaxGas,    \* bound: callbacks of one transaction
  MaxDepth   \* bound: nested frames above the outermost one

ASSUME BoundsAssumption == MaxGas \in Nat /\ MaxDepth \in Nat

VARIABLES
  frames,    \* the call frames: main's first, the running one last
  boxes,     \* every boxed context made so far, oldest first
  outputs,   \* for each box, the output of the VM that ran on it
  outcome,   \* "running", "finished", or "aborted" by a panic
  gas        \* callbacks the transaction can still pay for

vars == <<frames, boxes, outputs, outcome, gas>>

Box == 1 .. MaxGas + 1
NoBox == 0

(* Where a frame is: in its VM; inside a callback, where `call` may wait   *)
(* for a frame above; past its VM, with its box wrapped, merged and        *)
(* unwrapped; or back in its VM with the result of a callee in hand.       *)
At == {"vm", "query", "call", "executed", "wrapped", "merged", "unwrapped",
       "returning", "answered"}

(* box is what the frame's HostContextPtr owns, reply the box of the       *)
(* callee whose result the frame has.                                      *)
Frame == [box : Box, at : At, reply : Box \cup {NoBox}]

(* wrappers counts the HostContextWrappers on a box, frees the times its   *)
(* memory was given back.                                                  *)
BoxState == [wrappers : 0 .. 1, frees : 0 .. 1]

(* copy is the Vec: who has it, if it exists; frees as above.              *)
Output == [copy : {"none", "rust", "vm", "data"}, frees : 0 .. 1]

NoOutput == [copy |-> "none", frees |-> 0]

Top == Last(frames)

Running(at) == outcome = "running" /\ frames # << >> /\ Top.at = at

Goto(at) == frames' = [frames EXCEPT ![Len(frames)].at = at]

-----------------------------------------------------------------------------
(* The operations of evmc.rs on a box.                                     *)

HostContextPtr_from == Append(boxes, [wrappers |-> 0, frees |-> 0])

(* Mutant: the memory is never given back.                                 *)
HostContextPtr_drop_leaking(b) == boxes

(* drop_in_place does nothing: the type behind the pointer is opaque.      *)
HostContextPtr_drop(b) == [boxes EXCEPT ![b].frees = @ + 1]

HostContextWrapper_from(b) == [boxes EXCEPT ![b].wrappers = @ + 1]

(* Mutant: the inner Box is dropped, not forgotten.                        *)
HostContextWrapper_drop_freeing(b) ==
  [boxes EXCEPT ![b] = [wrappers |-> @.wrappers - 1, frees |-> @.frees + 1]]

HostContextWrapper_drop(b) == [boxes EXCEPT ![b].wrappers = @ - 1]

-----------------------------------------------------------------------------
(* The life of an output.                                                  *)

(* ExecutionResult::from copies the output, and lets go of the original    *)
(* for good: only evmone's release function could free it.  An empty       *)
(* output has no memory, and evmone then sets no release function.         *)
ExecutionResult_from(nonempty) ==
  IF nonempty THEN [copy |-> "rust", frees |-> 0] ELSE NoOutput

(* A Vec that goes out of scope.                                           *)
Vec_drop(output) ==
  IF output.copy = "rust" THEN [output EXCEPT !.frees = @ + 1] ELSE output

(* Mutant: the Vec is not forgotten when its pointer is handed on.         *)
evmc_result_from_dropping(output) ==
  IF output.copy = "none" THEN output ELSE [Vec_drop(output) EXCEPT !.copy = "vm"]

evmc_result_from(output) ==
  IF output.copy = "none" THEN output ELSE [output EXCEPT !.copy = "vm"]

(* Mutant: the result is handed on without a release function.             *)
release_missing(output) == output

(* The VM calls the release function it finds in the result, on the        *)
(* pointer it finds there.                                                 *)
release(output) ==
  IF output.copy = "none" THEN output ELSE [output EXCEPT !.frees = @ + 1]

-----------------------------------------------------------------------------
(* Callbacks.                                                              *)

Init ==
  /\ frames = << >>
  /\ boxes = << >>
  /\ outputs = << >>
  /\ outcome = "running"
  /\ gas = MaxGas

(* Any of the twelve extern "C" functions is entered: "query" stands for   *)
(* the eleven whose method calls no VM.                                    *)
Callback(at) ==
  /\ Running("vm") /\ gas > 0
  /\ at = "call" => Len(frames) <= MaxDepth
  /\ boxes' = HostContextWrapper_from(Top.box)
  /\ Goto(at)
  /\ gas' = gas - 1
  /\ UNCHANGED <<outputs, outcome>>

QueryReturns ==
  /\ Running("query")
  /\ boxes' = HostContextWrapper_drop(Top.box)
  /\ Goto("vm")
  /\ UNCHANGED <<outputs, outcome, gas>>

(* Mutant: the callee is run on the pointer of its caller.                 *)
nested_sharing ==
  [box |-> IF frames = << >> THEN 1 ELSE Top.box, at |-> "vm", reply |-> NoBox]

nested == [box |-> Len(boxes) + 1, at |-> "vm", reply |-> NoBox]

(* main boxes the context it has loaded, `call` a clone of the one it      *)
(* borrows.                                                                *)
Enter ==
  /\ outcome = "running"
  /\ frames # << >> => Top.at = "call"
  /\ boxes' = HostContextPtr_from
  /\ outputs' = Append(outputs, NoOutput)
  /\ frames' = Append(frames, nested)
  /\ UNCHANGED <<outcome, gas>>

(* Missing code ends `call` before the callee runs, a failed check of      *)
(* update after it.                                                        *)
Panic ==
  /\ Running("call") \/ (Running("wrapped") /\ Len(frames) > 1)
  /\ outcome' = "aborted"
  /\ UNCHANGED <<frames, boxes, outputs, gas>>

-----------------------------------------------------------------------------
(* A VM ends, in `call` or in main.                                        *)

VmEnds(nonempty) ==
  /\ Running("vm")
  /\ outputs' = [outputs EXCEPT ![Top.box] = ExecutionResult_from(nonempty)]
  /\ Goto("executed")
  /\ UNCHANGED <<boxes, outcome, gas>>

Wrap ==
  /\ Running("executed")
  /\ boxes' = HostContextWrapper_from(Top.box)
  /\ Goto("wrapped")
  /\ UNCHANGED <<outputs, outcome, gas>>

(* update_code and update in `call`; in main update_code, to which main    *)
(* gives the Vec itself, not a clone, and writing the file.                *)
Merge(moved) ==
  /\ Running("wrapped")
  /\ moved => Len(frames) = 1 /\ outputs[Top.box].copy = "rust"
  /\ outputs' = IF moved THEN [outputs EXCEPT ![Top.box].copy = "data"] ELSE outputs
  /\ Goto("merged")
  /\ UNCHANGED <<boxes, outcome, gas>>

(* Locals are dropped in the reverse of the order they were declared in:   *)
(* the wrapper before the HostContextPtr.                                  *)
Unwrap ==
  /\ Running("merged")
  /\ boxes' = HostContextWrapper_drop(Top.box)
  /\ Goto("unwrapped")
  /\ UNCHANGED <<outputs, outcome, gas>>

(* main's result goes with its scope; `call` hands its result on.          *)
Leave ==
  /\ Running("unwrapped")
  /\ boxes' = HostContextPtr_drop(Top.box)
  /\ IF Len(frames) = 1
       THEN /\ frames' = << >>
            /\ outcome' = "finished"
            /\ outputs' = [outputs EXCEPT ![Top.box] = Vec_drop(@)]
       ELSE /\ frames' = [Front(frames) EXCEPT ![Len(frames) - 1] =
                            [box |-> @.box, at |-> "returning", reply |-> Top.box]]
            /\ UNCHANGED <<outcome, outputs>>
  /\ UNCHANGED gas

(* The callback converts the result and drops its wrapper.                 *)
CallReturns ==
  /\ Running("returning")
  /\ outputs' = [outputs EXCEPT ![Top.reply] = evmc_result_from(@)]
  /\ boxes' = HostContextWrapper_drop(Top.box)
  /\ Goto("answered")
  /\ UNCHANGED <<outcome, gas>>

(* The caller's VM uses the result and releases it.                        *)
ReleaseResult ==
  /\ Running("answered")
  /\ outputs' = [outputs EXCEPT ![Top.reply] = release(@)]
  /\ frames' = [frames EXCEPT ![Len(frames)] =
                  [box |-> Top.box, at |-> "vm", reply |-> NoBox]]
  /\ UNCHANGED <<boxes, outcome, gas>>

Terminated == outcome # "running" /\ UNCHANGED vars

Next ==
  \/ \E at \in {"query", "call"} : Callback(at)
  \/ QueryReturns
  \/ Enter
  \/ Panic
  \/ \E nonempty \in BOOLEAN : VmEnds(nonempty)
  \/ Wrap
  \/ \E moved \in BOOLEAN : Merge(moved)
  \/ Unwrap
  \/ Leave
  \/ CallReturns
  \/ ReleaseResult
  \/ Terminated

Spec == Init /\ [][Next]_vars

(* The only thread keeps running while it can; gas makes every VM end.     *)
FairSpec == Spec /\ WF_vars(Next)

-----------------------------------------------------------------------------
(* Properties                                                              *)

TypeOK ==
  /\ frames \in Seq(Frame)
  /\ boxes \in Seq(BoxState) /\ Len(boxes) + gas <= MaxGas + 1
  /\ outputs \in Seq(Output) /\ Len(outputs) = Len(boxes)
  /\ outcome \in {"running", "finished", "aborted"}
  /\ gas \in 0 .. MaxGas

Living == {b \in DOMAIN boxes : boxes[b].frees = 0}

(* The boxes alive are those of the frames on the stack, one each: no      *)
(* frame runs on a freed box or on another frame's, and none outlives its  *)
(* frame.  A box is wrapped only while its frame is inside a callback or   *)
(* past its VM.                                                            *)
FramesOwnBoxes ==
  /\ \A i, j \in DOMAIN frames : frames[i].box = frames[j].box => i = j
  /\ Living = {frames[i].box : i \in DOMAIN frames}
  /\ \A i \in DOMAIN frames :
       frames[i].at \in {"vm", "executed", "unwrapped", "answered"} =>
         boxes[frames[i].box].wrappers = 0

(* The raw pointers keep the discipline of owned and borrowed values.  A   *)
(* count beyond what the discipline knows is a state it does not have.     *)
ContextLife(b) ==
  IF b \notin DOMAIN boxes THEN "unborn"
  ELSE IF boxes[b].frees = 0 /\ boxes[b].wrappers = 0 THEN "owned"
  ELSE IF boxes[b].frees = 0 /\ boxes[b].wrappers = 1 THEN "borrowed"
  ELSE IF boxes[b].frees = 1 /\ boxes[b].wrappers = 0 THEN "freed"
  ELSE "corrupt"

Contexts == INSTANCE Ownership WITH
  Object <- Box, life <- [b \in Box |-> ContextLife(b)]

ContextsAreOwned == Contexts!Spec

(* So does the copy of every output: one owner, here or in the VM, frees   *)
(* it, once.                                                               *)
CopyLife(b) ==
  IF b \notin DOMAIN outputs \/ outputs[b].copy = "none" THEN "unborn"
  ELSE IF outputs[b].frees = 0 THEN "owned"
  ELSE IF outputs[b].frees = 1 THEN "freed"
  ELSE "corrupt"

Copies == INSTANCE Ownership WITH
  Object <- Box, life <- [b \in Box |-> CopyLife(b)]

CopiesAreOwned == Copies!Spec

(* When the transaction is finished every context made for it was freed,   *)
(* and so was every copy, but for the Vec that became data.                *)
NothingLeaks ==
  outcome = "finished" =>
    \A b \in Box :
      /\ ContextLife(b) \in {"unborn", "freed"}
      /\ CopyLife(b) \in {"unborn", "freed"} \/ outputs[b].copy = "data"

(* No context and no copy is leaked: each is freed in the end, unless a    *)
(* panic ends the process.  The exception is a Vec that became data.       *)
EverythingFreed ==
  \A b \in Box :
    (ContextLife(b) = "owned" \/ CopyLife(b) = "owned") ~>
      \/ /\ ContextLife(b) = "freed"
         /\ CopyLife(b) \in {"unborn", "freed"} \/ outputs[b].copy = "data"
      \/ outcome = "aborted"
=============================================================================
