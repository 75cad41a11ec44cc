--------------------------- MODULE HostCallsProofs ---------------------------
(***************************************************************************)
(* Proofs about HostCalls and HostQueries for every value of their         *)
(* constants: every depth, every amount of gas, every set of addresses,    *)
(* keys, values and codes.  First what one transaction keeps; then that it *)
(* implements World, with the action properties that speak of what can be  *)
(* seen; then what the VM reads.                                           *)
(***************************************************************************)
EXTENDS HostQueries, HostStateProofs

-----------------------------------------------------------------------------
(* The stack.                                                              *)

LEMMA TopFrame ==
  ASSUME TypeOK
  PROVE  /\ Len(stack) \in Nat \ {0}
         /\ DOMAIN stack = 1 .. Len(stack)
         /\ \A i \in 1 .. Len(stack) : stack[i] \in Frame
         /\ Top = stack[Len(stack)] /\ Top \in Frame
         /\ Self \in Address
<1>1. Len(stack) \in Nat \ {0} /\ DOMAIN stack = 1 .. Len(stack)
  BY EmptySeq, LenProperties DEF TypeOK
<1>2. \A i \in 1 .. Len(stack) : stack[i] \in Frame
  BY ElementOfSeq DEF TypeOK
<1>3. Top = stack[Len(stack)]
  BY DEF Top, Last
<1> QED  BY <1>1, <1>2, <1>3 DEF Self, Frame, Message

(* SetTop replaces the running frame's context and nothing else.           *)
LEMMA SetTopStack ==
  ASSUME TypeOK, NEW ctx \in TestHostContext, NEW halted \in BOOLEAN,
         SetTop(ctx, halted)
  PROVE  /\ stack' \in Seq(Frame) /\ stack' # << >>
         /\ Len(stack') = Len(stack)
         /\ \A i \in 1 .. Len(stack) - 1 : stack'[i] = stack[i]
         /\ stack'[Len(stack)] = [ctx |-> ctx, msg |-> Top.msg, halted |-> halted]
         /\ Top' = stack'[Len(stack)]
<1> DEFINE frame == [ctx |-> ctx, msg |-> Top.msg, halted |-> halted]
<1>1. /\ Len(stack) \in Nat \ {0} /\ stack \in Seq(Frame)
      /\ Len(stack) \in 1 .. Len(stack)
  BY TopFrame DEF TypeOK
<1>2. frame \in Frame
  BY TopFrame DEF Frame
<1>3. stack' = [stack EXCEPT ![Len(stack)] = frame]
  BY DEF SetTop
<1> HIDE DEF frame
<1>4. /\ stack' \in Seq(Frame) /\ Len(stack') = Len(stack)
      /\ \A i \in 1 .. Len(stack) : stack'[i] = IF i = Len(stack) THEN frame ELSE stack[i]
  BY <1>1, <1>2, <1>3, ExceptSeq
<1>5. stack' # << >>
  BY <1>1, <1>4, EmptySeq
<1> QED  BY <1>1, <1>4, <1>5 DEF frame, Top, Last

-----------------------------------------------------------------------------
(* The `call` callback.                                                    *)

(* The context the caller is left with, the message the callee runs and    *)
(* the frame it runs in.                                                   *)
CallerContext(request) == touch(Top.ctx, request.sender)

CalleeMessage(request) ==
  [request EXCEPT !.destination =
     destination(request, CallerContext(request).accounts[request.sender].nonce)]

CalleeFrame(request) ==
  [ctx    |-> child_context(CallerContext(request), CalleeMessage(request)),
   msg    |-> CalleeMessage(request),
   halted |-> FALSE]

LEMMA TouchType ==
  ASSUME NEW ctx \in TestHostContext, NEW a \in Address
  PROVE  /\ touch(ctx, a) \in TestHostContext
         /\ touch(ctx, a).accounts[a] \in AccountData
<1>1. entry(ctx.accounts, a) \in AccountData
  BY EntryType
<1>2. touch(ctx, a) \in TestHostContext
  BY <1>1, AccountReplacedType DEF touch
<1>3. touch(ctx, a).accounts[a] = entry(ctx.accounts, a)
  BY DEF touch, TestHostContext
<1> QED  BY <1>1, <1>2, <1>3

LEMMA RequestType ==
  ASSUME TypeOK, NEW request \in Messages
  PROVE  /\ request \in Message
         /\ request.depth = Top.msg.depth + 1
         /\ Top.msg.static => request.static
         /\ is_create(request) => ~request.static
         /\ is_create(request) => request.sender = Self /\ Self \in Creators
<1>1. Top \in Frame /\ Self \in Address
  BY TopFrame
<1>2. Top.msg \in Message
  BY <1>1 DEF Frame
<1> DEFINE Request(kind, static, to) ==
             [kind        |-> kind,
              static      |-> static,
              depth       |-> Top.msg.depth + 1,
              sender      |-> IF kind = "DELEGATECALL" THEN Top.msg.sender ELSE Self,
              destination |-> to]
<1>3. CASE \E k \in CallKinds, a \in Address : request = Request(k, Top.msg.static, a)
  BY <1>1, <1>2, <1>3 DEF CallKinds, CreateKinds, Message, is_create
<1>4. CASE \E a \in Address : request = Request("CALL", TRUE, a)
  BY <1>1, <1>2, <1>4 DEF CallKinds, CreateKinds, Message, is_create
<1>5. CASE \E k \in IF Top.msg.static \/ Self \notin Creators THEN {} ELSE CreateKinds :
             request = Request(k, FALSE, NullAddress)
  BY <1>1, <1>2, <1>5, ValuesAssumption DEF CallKinds, CreateKinds, Message, is_create
<1> QED  BY <1>3, <1>4, <1>5 DEF Messages

LEMMA CalleeType ==
  ASSUME TypeOK, NEW request \in Messages
  PROVE  /\ CallerContext(request) \in TestHostContext
         /\ CalleeMessage(request) \in Message
         /\ CalleeMessage(request).kind = request.kind
         /\ CalleeMessage(request).static = request.static
         /\ CalleeMessage(request).depth = request.depth
         /\ CalleeFrame(request) \in Frame
<1> DEFINE self == CallerContext(request)
           nonce == self.accounts[request.sender].nonce
           msg == CalleeMessage(request)
<1>1. Top.ctx \in TestHostContext
  BY TopFrame DEF Frame
<1>2. request \in Message /\ request.sender \in Address
  BY RequestType DEF Message
<1>3. self \in TestHostContext /\ nonce \in Nonce
  BY <1>1, <1>2, TouchType DEF CallerContext, AccountData
<1> HIDE DEF self, nonce
<1>4. destination(request, nonce) \in Address
  <2>1. CASE request.kind = "CREATE"
    <3>1. request.sender \in Creators
      BY <2>1, RequestType DEF is_create, CreateKinds
    <3> QED  BY <1>3, <2>1, <3>1, CallsAssumption DEF destination
  <2>2. CASE request.kind = "CREATE2"
    BY <2>2, ValuesAssumption DEF destination
  <2>3. CASE request.kind \notin {"CREATE", "CREATE2"}
    BY <1>2, <2>3 DEF destination, Message
  <2> QED  BY <2>1, <2>2, <2>3
<1>5. /\ msg = [request EXCEPT !.destination = destination(request, nonce)]
      /\ msg \in Message
      /\ msg.kind = request.kind /\ msg.static = request.static
      /\ msg.depth = request.depth
  BY <1>2, <1>4 DEF CalleeMessage, Message, self, nonce
<1>6. child_context(self, msg) \in TestHostContext
  <2>1. msg.depth + 1 \in Nat /\ msg.destination \in Address
    BY <1>5 DEF Message
  <2> HIDE DEF msg
  <2> QED  BY <1>3, <2>1 DEF child_context, TestHostContext
<1> QED  BY <1>3, <1>5, <1>6 DEF CalleeFrame, Frame, self

(* What Call does to the stack: the caller waits with the context that     *)
(* holds the sender's account, the callee's frame is put on top.           *)
LEMMA CallStack ==
  ASSUME TypeOK, NEW request \in Messages, Call(request)
  PROVE  /\ outcome' = code_check(CallerContext(request), CalleeMessage(request))
         /\ stack' \in Seq(Frame) /\ stack' # << >>
         /\ Len(stack') = IF outcome' = "running" THEN Len(stack) + 1 ELSE Len(stack)
         /\ \A i \in 1 .. Len(stack) - 1 : stack'[i] = stack[i]
         /\ stack'[Len(stack)] = [Top EXCEPT !.ctx = CallerContext(request)]
         /\ outcome' = "running" => stack'[Len(stack) + 1] = CalleeFrame(request)
         /\ Top' = IF outcome' = "running" THEN CalleeFrame(request)
                   ELSE [Top EXCEPT !.ctx = CallerContext(request)]
<1> DEFINE waiting   == [Top EXCEPT !.ctx = CallerContext(request)]
           suspended == [stack EXCEPT ![Len(stack)] = waiting]
<1>1. /\ outcome' = code_check(CallerContext(request), CalleeMessage(request))
      /\ stack' = IF outcome' = "running" THEN Append(suspended, CalleeFrame(request))
                                          ELSE suspended
  BY DEF Call, CallerContext, CalleeMessage, CalleeFrame
<1>2. waiting \in Frame /\ CalleeFrame(request) \in Frame
  BY TopFrame, CalleeType DEF Frame
<1>3. /\ Len(stack) \in Nat \ {0} /\ stack \in Seq(Frame)
      /\ Len(stack) \in 1 .. Len(stack)
  BY TopFrame DEF TypeOK
<1> HIDE DEF waiting
<1>4. /\ suspended \in Seq(Frame) /\ Len(suspended) = Len(stack)
      /\ \A i \in 1 .. Len(stack) :
           suspended[i] = IF i = Len(stack) THEN waiting ELSE stack[i]
  BY <1>2, <1>3, ExceptSeq
<1> HIDE DEF suspended
<1>5. CASE outcome' = "running"
  <2>1. stack' = Append(suspended, CalleeFrame(request))
    BY <1>1, <1>5
  <2>2. /\ stack' \in Seq(Frame) /\ stack' # << >>
        /\ Len(stack') = Len(stack) + 1
        /\ \A i \in 1 .. Len(stack) : stack'[i] = suspended[i]
        /\ stack'[Len(stack) + 1] = CalleeFrame(request)
    BY <1>2, <1>4, <2>1, AppendProperties
  <2> QED  BY <1>1, <1>3, <1>4, <1>5, <2>2 DEF waiting, Top, Last
<1>6. CASE outcome' # "running"
  <2>1. stack' = suspended
    BY <1>1, <1>6
  <2>2. stack' # << >>
    BY <1>3, <1>4, <2>1, EmptySeq
  <2> QED  BY <1>1, <1>3, <1>4, <1>6, <2>1, <2>2 DEF waiting, Top, Last
<1> QED  BY <1>5, <1>6

-----------------------------------------------------------------------------
(* The end of a VM.                                                        *)

(* What a frame leaves: its context, extended by the code of a successful  *)
(* creation, which is all that can be seen of an end.                      *)
LEMMA AfterExecute ==
  ASSUME NEW frame \in Frame, NEW status \in Status, NEW output \in Code
  PROVE  LET a   == frame.msg.destination
             new == after_execute(frame, status, output)
             deployed == status = "success" /\ is_create(frame.msg)
         IN  /\ new \in TestHostContext
             /\ Extends(new, frame.ctx)
             /\ StorageOf(new) = StorageOf(frame.ctx)
             /\ LogsOf(new) = LogsOf(frame.ctx)
             /\ new.destructed_accounts = frame.ctx.destructed_accounts
             /\ CodeOf(new) = IF deployed THEN [CodeOf(frame.ctx) EXCEPT ![a] = output]
                                          ELSE CodeOf(frame.ctx)
<1>1. frame.ctx \in TestHostContext /\ frame.msg.destination \in Address
  BY DEF Frame, Message
<1>2. CASE status = "success" /\ is_create(frame.msg)
  BY <1>1, <1>2, UpdateCodeType, UpdateCodeExtends, UpdateCodeShows DEF after_execute
<1>3. CASE ~(status = "success" /\ is_create(frame.msg))
  BY <1>1, <1>3, ExtendsReflexive DEF after_execute
<1> QED  BY <1>2, <1>3

(* The context the caller goes on with, and the context the callee has     *)
(* when update's checks run.                                               *)
Ended(status, output)  == after_execute(Top, status, output)
Merged(status, output) == update(Caller.ctx, Ended(status, output))

LEMMA ReturnStack ==
  ASSUME TypeOK, NEW status \in Status, NEW output \in Code, Return(status, output)
  PROVE  /\ Len(stack) > 1
         /\ outcome' = update_check(Caller.ctx, Ended(status, output))
         /\ stack' \in Seq(Frame) /\ stack' # << >>
         /\ outcome' = "running" =>
              /\ Len(stack') = Len(stack) - 1
              /\ \A i \in 1 .. Len(stack) - 2 : stack'[i] = stack[i]
              /\ Top' = stack'[Len(stack) - 1]
              /\ Top' = [Caller EXCEPT !.ctx = Merged(status, output)]
         /\ outcome' # "running" =>
              /\ Len(stack') = Len(stack)
              /\ \A i \in 1 .. Len(stack) - 1 : stack'[i] = stack[i]
              /\ Top' = stack'[Len(stack)]
              /\ Top' = [Top EXCEPT !.ctx = Ended(status, output)]
<1> DEFINE n      == Len(stack)
           child  == Ended(status, output)
           merged == Merged(status, output)
<1>1. /\ n > 1
      /\ outcome' = update_check(Caller.ctx, child)
      /\ stack' = IF outcome' = "running"
                    THEN [Front(stack) EXCEPT ![n - 1].ctx = merged]
                    ELSE [stack EXCEPT ![n].ctx = child]
  BY DEF Return, Ended, Merged
<1>2. /\ n \in Nat \ {0} /\ stack \in Seq(Frame)
      /\ \A i \in 1 .. n : stack[i] \in Frame
      /\ Top = stack[n] /\ Top \in Frame
  BY TopFrame DEF TypeOK
<1>3. n - 1 \in 1 .. n - 1 /\ Caller \in Frame /\ Caller = stack[n - 1]
  BY <1>1, <1>2 DEF Caller
<1>4. child \in TestHostContext /\ merged \in TestHostContext
  BY <1>2, <1>3, AfterExecute, UpdateType DEF Ended, Merged, Frame
<1> HIDE DEF n, child, merged
<1>5. CASE outcome' = "running"
  <2> DEFINE frame == [Caller EXCEPT !.ctx = merged]
  <2>1. Front(stack) = SubSeq(stack, 1, n - 1)
    BY DEF Front, n
  <2>2. /\ Front(stack) \in Seq(Frame)
        /\ Len(Front(stack)) = n - 1
        /\ \A i \in 1 .. n - 1 : Front(stack)[i] = stack[i]
    <3>1. \A i \in 1 .. n - 1 : stack[i] \in Frame
      BY <1>2
    <3>2. /\ SubSeq(stack, 1, n - 1) \in Seq(Frame)
          /\ Len(SubSeq(stack, 1, n - 1)) =
               IF 1 <= n - 1 THEN (n - 1) - 1 + 1 ELSE 0
          /\ \A i \in 1 .. (n - 1) - 1 + 1 :
               SubSeq(stack, 1, n - 1)[i] = stack[1 + i - 1]
      BY <1>2, <3>1, SubSeqProperties
    <3> QED  BY <1>1, <1>2, <2>1, <3>2
  <2>3. frame \in Frame
    BY <1>3, <1>4 DEF Frame
  <2>4. stack' = [Front(stack) EXCEPT ![n - 1] = frame]
    <3>1. Front(stack)[n - 1] = Caller
      BY <1>3, <2>2
    <3> QED  BY <1>1, <1>5, <3>1
  <2> HIDE DEF frame
  <2>5. /\ stack' \in Seq(Frame) /\ Len(stack') = n - 1
        /\ \A i \in 1 .. n - 1 :
             stack'[i] = IF i = n - 1 THEN frame ELSE Front(stack)[i]
    BY <1>3, <2>2, <2>3, <2>4, ExceptSeq
  <2>6. stack' # << >>
    BY <1>3, <2>5, EmptySeq
  <2>7. /\ Len(stack') = n - 1
        /\ \A i \in 1 .. n - 2 : stack'[i] = stack[i]
        /\ stack'[n - 1] = frame
    BY <1>2, <1>3, <2>2, <2>5
  <2>8. Top' = stack'[n - 1]
    BY <2>7 DEF Top, Last
  <2> QED  BY <1>1, <1>5, <2>5, <2>6, <2>7, <2>8 DEF frame, n, child, merged
<1>6. CASE outcome' # "running"
  <2> DEFINE frame == [Top EXCEPT !.ctx = child]
  <2>1. frame \in Frame
    BY <1>2, <1>4 DEF Frame
  <2>2. stack' = [stack EXCEPT ![n] = frame]
    BY <1>1, <1>2, <1>6
  <2> HIDE DEF frame
  <2>3. /\ stack' \in Seq(Frame) /\ Len(stack') = n
        /\ \A i \in 1 .. n : stack'[i] = IF i = n THEN frame ELSE stack[i]
    <3>1. n \in 1 .. Len(stack)
      BY <1>2 DEF n
    <3> QED  BY <1>2, <2>1, <2>2, <3>1, ExceptSeq DEF n
  <2>4. stack' # << >>
    BY <1>2, <2>3, EmptySeq
  <2>5. Top' = stack'[n] /\ stack'[n] = frame /\ \A i \in 1 .. n - 1 : stack'[i] = stack[i]
    BY <1>2, <2>3 DEF Top, Last
  <2> QED  BY <1>1, <1>6, <2>3, <2>4, <2>5 DEF frame, n, child
<1> QED  BY <1>5, <1>6

LEMMA FinishStack ==
  ASSUME TypeOK, NEW status \in Status, NEW output \in Code, Finish(status, output)
  PROVE  /\ Len(stack) = 1
         /\ SetTop(Ended(status, output), Top.halted)
         /\ Ended(status, output) \in TestHostContext
         /\ Top.halted \in BOOLEAN
         /\ outcome' = "finished"
BY TopFrame, AfterExecute DEF Finish, Ended, Frame

-----------------------------------------------------------------------------
(* Type correctness.                                                       *)

LEMMA TopMessageType ==
  ASSUME NEW ctx, NEW msg \in TopMessages(ctx)
  PROVE  /\ msg \in Message
         /\ msg.depth = 0
         /\ is_create(msg) => ~msg.static
<1> DEFINE Outermost(kind, static, a) ==
             [kind |-> kind, static |-> static, depth |-> 0, sender |-> Origin,
              destination |-> a]
<1>1. CASE \E a \in Address : msg = Outermost("CREATE", FALSE, a)
  BY <1>1, CallsAssumption DEF Message, CreateKinds, is_create
<1>2. CASE \E s \in BOOLEAN, a \in Address : msg = Outermost("CALL", s, a)
  BY <1>2, CallsAssumption DEF Message, CreateKinds, CallKinds, is_create
<1> QED  BY <1>1, <1>2 DEF TopMessages

LEMMA TypeOKInit == Init => TypeOK
<1> SUFFICES ASSUME Init PROVE TypeOK
  OBVIOUS
<1>1. PICK ctx \in Loaded : \E msg \in TopMessages(ctx) :
        stack = <<[ctx |-> ctx, msg |-> msg, halted |-> FALSE]>>
  BY DEF Init
<1>2. PICK msg \in TopMessages(ctx) :
        stack = <<[ctx |-> ctx, msg |-> msg, halted |-> FALSE]>>
  BY <1>1
<1>3. ctx \in TestHostContext /\ msg \in Message
  BY CallsAssumption, TopMessageType
<1>4. stack \in Seq(Frame) /\ stack # << >>
  BY <1>2, <1>3 DEF Frame
<1>5. gas \in 0 .. MaxGas
  BY CallsAssumption DEF Init
<1> QED  BY <1>4, <1>5 DEF Init, TypeOK

LEMMA TypeOKNext == TypeOK /\ [Next]_vars => TypeOK'
<1> SUFFICES ASSUME TypeOK, [Next]_vars PROVE TypeOK'
  OBVIOUS
<1> USE DEF TypeOK
<1>0. Top.ctx \in TestHostContext /\ Self \in Address /\ gas \in Nat /\ MaxGas \in Nat
  BY TopFrame, CallsAssumption DEF Frame
<1>1. ASSUME NEW key \in Key, NEW value \in Word, SetStorage(key, value)
      PROVE  TypeOK'
  <2>1. stack' \in Seq(Frame) /\ stack' # << >>
    BY <1>0, <1>1, SetStorageType, SetTopStack DEF SetStorage
  <2>2. outcome' \in {"running", "finished"} \cup Panics
    BY <1>1 DEF SetStorage, Panics
  <2>3. gas' \in 0 .. MaxGas /\ result' = result
    BY <1>0, <1>1 DEF SetStorage, MayModify, Executing
  <2> QED  BY <2>1, <2>2, <2>3
<1>2. ASSUME NEW e \in Entry, EmitLog(e)
      PROVE  TypeOK'
  <2>1. stack' \in Seq(Frame) /\ stack' # << >>
    BY <1>0, <1>2, EmitLogType, SetTopStack DEF EmitLog
  <2>2. gas' \in 0 .. MaxGas /\ result' = result /\ outcome' = outcome
    BY <1>0, <1>2 DEF EmitLog, MayModify, Executing
  <2> QED  BY <2>1, <2>2
<1>3. CASE SelfDestruct
  <2>1. stack' \in Seq(Frame) /\ stack' # << >>
    BY <1>0, <1>3, SelfDestructType, SetTopStack DEF SelfDestruct
  <2>2. gas' \in 0 .. MaxGas /\ result' = result /\ outcome' = outcome
    BY <1>0, <1>3 DEF SelfDestruct, MayModify, Executing
  <2> QED  BY <2>1, <2>2
<1>4. ASSUME NEW request \in Messages, Call(request)
      PROVE  TypeOK'
  <2>1. /\ outcome' = code_check(CallerContext(request), CalleeMessage(request))
        /\ stack' \in Seq(Frame) /\ stack' # << >>
    BY <1>4, CallStack
  <2>2. outcome' \in {"running", "finished"} \cup Panics
    BY <2>1 DEF code_check, Panics
  <2>3. gas' \in 0 .. MaxGas /\ result' = result
    BY <1>0, <1>4 DEF Call, Executing
  <2> QED  BY <2>1, <2>2, <2>3
<1>5. ASSUME NEW status \in Status, NEW output \in Code, Return(status, output)
      PROVE  TypeOK'
  <2>1. /\ outcome' = update_check(Caller.ctx, Ended(status, output))
        /\ stack' \in Seq(Frame) /\ stack' # << >>
    BY <1>5, ReturnStack
  <2>2. outcome' \in {"running", "finished"} \cup Panics
    BY <2>1 DEF update_check, Panics
  <2>3. gas' = gas /\ result' \in [status : Status, create_address : Address] \cup {None}
    BY <1>0, <1>5 DEF Return
  <2> QED  BY <2>1, <2>2, <2>3
<1>6. ASSUME NEW status \in Status, NEW output \in Code, Finish(status, output)
      PROVE  TypeOK'
  <2>1. stack' \in Seq(Frame) /\ stack' # << >>
    BY <1>6, FinishStack, SetTopStack
  <2>2. /\ outcome' = "finished" /\ gas' = gas
        /\ result' \in [status : Status, create_address : Address] \cup {None}
    BY <1>6, ValuesAssumption DEF Finish
  <2> QED  BY <2>1, <2>2
<1>7. CASE UNCHANGED vars
  BY <1>7 DEF vars
<1> QED  BY <1>1, <1>2, <1>3, <1>4, <1>5, <1>6, <1>7 DEF Next, Terminated

(* Every reachable state is well typed: whatever evmone asks for, every    *)
(* frame holds a well-formed context and message, and the process either   *)
(* runs, has finished or has aborted with one of its own panics.           *)
THEOREM TypeCorrect == Spec => []TypeOK
<1> QED  BY TypeOKInit, TypeOKNext, PTL DEF Spec

-----------------------------------------------------------------------------
(* The inductive invariant.                                                *)

(* What evmone's messages make of the stack: the outermost message has     *)
(* depth 0, whatever runs above a static frame is static, and a static     *)
(* frame is not a creation.                                                *)
StackDiscipline ==
  /\ stack[1].msg.depth = 0
  /\ \A i, j \in 1 .. Len(stack) : i <= j /\ stack[i].msg.static => stack[j].msg.static
  /\ \A i \in 1 .. Len(stack) : stack[i].msg.static => ~is_create(stack[i].msg)

(* FramesKeepIdentity follows the depth from the caller's message, so it   *)
(* needs the outermost one's; NoImpossiblePanic needs Lineage.             *)
HostInv ==
  /\ TypeOK
  /\ Lineage
  /\ FramesKeepIdentity
  /\ StackDiscipline
  /\ NoImpossiblePanic

(* The part of the invariant that speaks of the stack.                     *)
StackInv == Lineage /\ FramesKeepIdentity /\ StackDiscipline

LEMMA HostInvInit == Init => HostInv
<1> SUFFICES ASSUME Init PROVE HostInv
  OBVIOUS
<1>1. TypeOK
  BY TypeOKInit
<1>2. PICK ctx \in Loaded : \E msg \in TopMessages(ctx) :
        stack = <<[ctx |-> ctx, msg |-> msg, halted |-> FALSE]>>
  BY DEF Init
<1>3. PICK msg \in TopMessages(ctx) :
        stack = <<[ctx |-> ctx, msg |-> msg, halted |-> FALSE]>>
  BY <1>2
<1>4. Len(stack) = 1 /\ stack[1].msg = msg
  BY <1>3
<1>5. Lineage /\ FramesKeepIdentity
  BY <1>4 DEF Lineage, FramesKeepIdentity
<1>6. StackDiscipline
  BY <1>4, TopMessageType DEF StackDiscipline
<1> QED  BY <1>1, <1>5, <1>6 DEF HostInv, NoImpossiblePanic, Init

(* A callback that only adds to the running frame's context keeps it.      *)
LEMMA SetTopKeepsStackInv ==
  ASSUME TypeOK, StackInv,
         NEW ctx \in TestHostContext, NEW halted \in BOOLEAN, SetTop(ctx, halted),
         Extends(ctx, Top.ctx),
         ctx.depth = Top.ctx.depth, ctx.current_account = Top.ctx.current_account
  PROVE  StackInv'
<1> DEFINE n == Len(stack)
<1>1. /\ n \in Nat \ {0}
      /\ \A i \in 1 .. n : stack[i] \in Frame
      /\ Top = stack[n]
  BY TopFrame
<1>2. /\ Len(stack') = n
      /\ \A i \in 1 .. n - 1 : stack'[i] = stack[i]
      /\ stack'[n] = [ctx |-> ctx, msg |-> Top.msg, halted |-> halted]
  BY SetTopStack
<1> HIDE DEF n
<1>3. \A i \in 1 .. n : stack'[i].msg = stack[i].msg
  BY <1>1, <1>2
<1>4. Lineage'
  <2> SUFFICES ASSUME NEW i \in 1 .. n - 1
               PROVE  Extends(stack'[i + 1].ctx, stack'[i].ctx)
    BY <1>2 DEF Lineage
  <2>1. Extends(stack[i + 1].ctx, stack[i].ctx)
    BY <1>1 DEF StackInv, Lineage, n
  <2>2. CASE i + 1 = n
    <3>1. stack'[i + 1].ctx = ctx /\ stack'[i].ctx = stack[i].ctx
      BY <1>1, <1>2, <2>2
    <3>2. stack[i + 1].ctx = Top.ctx
      BY <1>1, <2>2
    <3>3. stack[i].ctx \in TestHostContext /\ Top.ctx \in TestHostContext
      BY <1>1 DEF Frame
    <3> QED  BY <2>1, <3>1, <3>2, <3>3, ExtendsTransitive
  <2>3. CASE i + 1 # n
    <3>1. stack'[i + 1] = stack[i + 1] /\ stack'[i] = stack[i]
      BY <1>1, <1>2, <2>3
    <3> QED  BY <2>1, <3>1
  <2> QED  BY <2>2, <2>3
<1>5. FramesKeepIdentity'
  <2> SUFFICES ASSUME NEW i \in 2 .. n
               PROVE  /\ stack'[i].ctx.current_account = stack'[i].msg.destination
                      /\ stack'[i].ctx.depth = i
                      /\ stack'[i].msg.depth = i - 1
    BY <1>2 DEF FramesKeepIdentity
  <2>1. /\ stack[i].ctx.current_account = stack[i].msg.destination
        /\ stack[i].ctx.depth = i
        /\ stack[i].msg.depth = i - 1
    BY DEF StackInv, FramesKeepIdentity, n
  <2>2. /\ stack'[i].ctx.current_account = stack[i].ctx.current_account
        /\ stack'[i].ctx.depth = stack[i].ctx.depth
    <3>1. CASE i = n
      BY <1>1, <1>2, <3>1
    <3>2. CASE i # n
      BY <1>1, <1>2, <3>2
    <3> QED  BY <3>1, <3>2
  <2> QED  BY <1>1, <1>3, <2>1, <2>2
<1>6. StackDiscipline'
  BY <1>1, <1>2, <1>3 DEF StackInv, StackDiscipline, n
<1> QED  BY <1>4, <1>5, <1>6 DEF StackInv

LEMMA CallKeepsStackInv ==
  ASSUME TypeOK, StackInv, NEW request \in Messages, Call(request)
  PROVE  StackInv'
<1> DEFINE n      == Len(stack)
           self   == CallerContext(request)
           callee == CalleeFrame(request)
<1>1. /\ n \in Nat \ {0}
      /\ \A i \in 1 .. n : stack[i] \in Frame
      /\ Top = stack[n] /\ Top \in Frame
  BY TopFrame
<1>2. /\ Len(stack') = IF outcome' = "running" THEN n + 1 ELSE n
      /\ \A i \in 1 .. n - 1 : stack'[i] = stack[i]
      /\ stack'[n] = [Top EXCEPT !.ctx = self]
      /\ outcome' = "running" => stack'[n + 1] = callee
  BY CallStack
<1>3. /\ request \in Message
      /\ callee.msg.depth = Top.msg.depth + 1
      /\ Top.msg.static => callee.msg.static
      /\ callee.msg.static => ~is_create(callee.msg)
      /\ callee \in Frame
  BY RequestType, CalleeType DEF CalleeFrame, is_create
<1>4. /\ self \in TestHostContext
      /\ self.depth = Top.ctx.depth
      /\ self.current_account = Top.ctx.current_account
      /\ Extends(self, Top.ctx)
  <2>1. Top.ctx \in TestHostContext /\ request.sender \in Address
    BY <1>1, <1>3 DEF Frame, Message
  <2>2. entry(Top.ctx.accounts, request.sender) \in AccountData
    BY <2>1, EntryType
  <2>3. Extends(self, Top.ctx)
    BY <2>1, <2>2, AccountExtendsReflexive, AccountReplacedExtends
       DEF CallerContext, touch
  <2>4. self.depth = Top.ctx.depth /\ self.current_account = Top.ctx.current_account
    BY <2>1 DEF CallerContext, touch, TestHostContext
  <2> QED  BY <2>3, <2>4, CalleeType
<1>5. /\ callee.ctx.current_account = callee.msg.destination
      /\ callee.ctx.depth = callee.msg.depth + 1
      /\ Extends(callee.ctx, self)
  <2>1. callee.ctx = child_context(self, callee.msg)
    BY DEF CalleeFrame
  <2>2. /\ callee.ctx.current_account = callee.msg.destination
        /\ callee.ctx.depth = callee.msg.depth + 1
        /\ callee.ctx.accounts = self.accounts
        /\ callee.ctx.destructed_accounts = self.destructed_accounts
    BY <1>4, <2>1 DEF child_context, TestHostContext
  <2>3. Extends(self, self)
    BY <1>4, ExtendsReflexive
  <2> QED  BY <2>2, <2>3 DEF Extends
<1> HIDE DEF n, self, callee
<1>6. /\ stack'[n].ctx = self /\ stack'[n].msg = Top.msg
      /\ \A i \in 1 .. n : stack'[i].msg = stack[i].msg
  <2>1. stack'[n].ctx = self /\ stack'[n].msg = Top.msg
    BY <1>1, <1>2 DEF Frame
  <2>2. ASSUME NEW i \in 1 .. n PROVE stack'[i].msg = stack[i].msg
    <3>1. CASE i = n
      BY <1>1, <2>1, <3>1
    <3>2. CASE i # n
      <4>1. i \in 1 .. n - 1
        BY <1>1, <3>2
      <4> QED  BY <1>2, <4>1
    <3> QED  BY <3>1, <3>2
  <2> QED  BY <2>1, <2>2
<1>7. Lineage'
  <2> SUFFICES ASSUME NEW i \in 1 .. Len(stack') - 1
               PROVE  Extends(stack'[i + 1].ctx, stack'[i].ctx)
    BY DEF Lineage
  <2>1. CASE i = n
    <3>1. stack'[i + 1] = callee
      BY <1>1, <1>2, <2>1
    <3> QED  BY <1>5, <1>6, <2>1, <3>1
  <2>2. CASE i # n
    <3>1. i \in 1 .. n - 1
      BY <1>1, <1>2, <2>2
    <3>2. Extends(stack[i + 1].ctx, stack[i].ctx) /\ stack'[i] = stack[i]
      BY <1>2, <3>1 DEF StackInv, Lineage, n
    <3>3. CASE i + 1 = n
      <4>1. stack[i].ctx \in TestHostContext /\ Top.ctx \in TestHostContext
        BY <1>1, <3>1 DEF Frame
      <4>2. stack[i + 1].ctx = Top.ctx /\ stack'[i + 1].ctx = self
        BY <1>1, <1>6, <3>3
      <4> QED  BY <1>4, <3>2, <4>1, <4>2, ExtendsTransitive
    <3>4. CASE i + 1 # n
      <4>1. i + 1 \in 1 .. n - 1
        BY <1>1, <3>1, <3>4
      <4>2. stack'[i + 1] = stack[i + 1]
        BY <1>2, <4>1
      <4> QED  BY <3>2, <4>2
    <3> QED  BY <3>3, <3>4
  <2> QED  BY <2>1, <2>2
<1>8. Top.msg.depth = n - 1
  <2>1. CASE n = 1
    BY <1>1, <2>1 DEF StackInv, StackDiscipline
  <2>2. CASE n # 1
    <3>1. n \in 2 .. n
      BY <1>1, <2>2
    <3>2. stack[n].msg.depth = n - 1
      BY <3>1 DEF StackInv, FramesKeepIdentity, n
    <3> QED  BY <1>1, <3>2
  <2> QED  BY <2>1, <2>2
<1>9. FramesKeepIdentity'
  <2> SUFFICES ASSUME NEW i \in 2 .. Len(stack')
               PROVE  /\ stack'[i].ctx.current_account = stack'[i].msg.destination
                      /\ stack'[i].ctx.depth = i
                      /\ stack'[i].msg.depth = i - 1
    BY DEF FramesKeepIdentity
  <2>1. CASE i = n + 1
    <3>1. stack'[i] = callee
      BY <1>1, <1>2, <2>1
    <3> QED  BY <1>1, <1>3, <1>5, <1>8, <2>1, <3>1
  <2>2. CASE i # n + 1
    <3>1. i \in 2 .. n
      BY <1>1, <1>2, <2>2
    <3>2. /\ stack[i].ctx.current_account = stack[i].msg.destination
          /\ stack[i].ctx.depth = i
          /\ stack[i].msg.depth = i - 1
      BY <3>1 DEF StackInv, FramesKeepIdentity, n
    <3>3. CASE i = n
      BY <1>1, <1>4, <1>6, <3>2, <3>3
    <3>4. CASE i # n
      <4>1. i \in 1 .. n - 1
        BY <1>1, <3>1, <3>4
      <4>2. stack'[i] = stack[i]
        BY <1>2, <4>1
      <4> QED  BY <3>2, <4>2
    <3> QED  BY <3>3, <3>4
  <2> QED  BY <2>1, <2>2
<1>10. StackDiscipline'
  <2>1. stack'[1].msg.depth = 0
    BY <1>1, <1>6 DEF StackInv, StackDiscipline
  <2>2. ASSUME NEW i \in 1 .. Len(stack'), NEW j \in 1 .. Len(stack'),
               i <= j, stack'[i].msg.static
        PROVE  stack'[j].msg.static
    <3>1. CASE j = n + 1
      <4>1. stack'[j] = callee
        BY <1>1, <1>2, <3>1
      <4>2. CASE i = n + 1
        BY <2>2, <3>1, <4>2
      <4>3. CASE i # n + 1
        <5>1. i \in 1 .. n /\ stack[i].msg.static
          BY <1>1, <1>2, <1>6, <2>2, <4>3
        <5>2. Top.msg.static
          BY <1>1, <5>1 DEF StackInv, StackDiscipline, n
        <5> QED  BY <1>3, <4>1, <5>2
      <4> QED  BY <4>2, <4>3
    <3>2. CASE j # n + 1
      <4>1. i \in 1 .. n /\ j \in 1 .. n
        BY <1>1, <1>2, <2>2, <3>2
      <4> QED  BY <1>6, <2>2, <4>1 DEF StackInv, StackDiscipline, n
    <3> QED  BY <3>1, <3>2
  <2>3. ASSUME NEW i \in 1 .. Len(stack'), stack'[i].msg.static
        PROVE  ~is_create(stack'[i].msg)
    <3>1. CASE i = n + 1
      BY <1>1, <1>2, <1>3, <2>3, <3>1
    <3>2. CASE i # n + 1
      <4>1. i \in 1 .. n
        BY <1>1, <1>2, <3>2
      <4> QED  BY <1>6, <2>3, <4>1 DEF StackInv, StackDiscipline, n
    <3> QED  BY <3>1, <3>2
  <2> QED  BY <2>1, <2>2, <2>3 DEF StackDiscipline
<1> QED  BY <1>7, <1>9, <1>10 DEF StackInv

(* The context a frame ends with keeps the frame's identity.               *)
LEMMA EndedFacts ==
  ASSUME TypeOK, NEW status \in Status, NEW output \in Code
  PROVE  /\ Ended(status, output) \in TestHostContext
         /\ Extends(Ended(status, output), Top.ctx)
         /\ Ended(status, output).depth = Top.ctx.depth
         /\ Ended(status, output).current_account = Top.ctx.current_account
<1>1. Top \in Frame /\ Top.ctx \in TestHostContext
  BY TopFrame DEF Frame
<1>2. Ended(status, output) \in TestHostContext /\ Extends(Ended(status, output), Top.ctx)
  BY <1>1, AfterExecute DEF Ended
<1>3. /\ Ended(status, output).depth = Top.ctx.depth
      /\ Ended(status, output).current_account = Top.ctx.current_account
  BY <1>1 DEF Ended, after_execute, update_code, TestHostContext
<1> QED  BY <1>2, <1>3

(* A callee's context extends its caller's, so update's length check       *)
(* passes, and what it copies extends what it overwrites.                  *)
LEMMA MergedFacts ==
  ASSUME TypeOK, Lineage, NEW status \in Status, NEW output \in Code, Len(stack) > 1
  PROVE  /\ Caller \in Frame
         /\ Extends(Ended(status, output), Caller.ctx)
         /\ update_check(Caller.ctx, Ended(status, output)) # "shrunk"
         /\ Merged(status, output) \in TestHostContext
         /\ Extends(Merged(status, output), Caller.ctx)
         /\ Merged(status, output).depth = Caller.ctx.depth
         /\ Merged(status, output).current_account = Caller.ctx.current_account
<1> DEFINE n     == Len(stack)
           child == Ended(status, output)
           self  == Caller.ctx
<1>1. /\ n \in Nat /\ n > 1
      /\ \A i \in 1 .. n : stack[i] \in Frame
      /\ Top = stack[n] /\ Caller = stack[n - 1]
  BY TopFrame DEF Caller
<1>2. Top.ctx \in TestHostContext /\ Caller \in Frame /\ self \in TestHostContext
  BY <1>1 DEF Frame
<1>3. Extends(Top.ctx, self)
  BY <1>1 DEF Lineage
<1>4. child \in TestHostContext /\ Extends(child, Top.ctx)
  BY EndedFacts
<1>5. Extends(child, self)
  BY <1>2, <1>3, <1>4, ExtendsTransitive
<1> HIDE DEF child, self
<1>6. Len(self.destructed_accounts) <= Len(child.destructed_accounts)
  BY <1>5 DEF Extends, IsPrefix
<1>7. update_check(self, child) # "shrunk"
  <2>1. /\ Len(self.destructed_accounts) \in Nat
        /\ Len(child.destructed_accounts) \in Nat
    BY <1>2, <1>4, LenProperties DEF TestHostContext
  <2> QED  BY <1>6, <2>1 DEF update_check
<1>8. /\ update(self, child) \in TestHostContext
      /\ update(self, child).accounts = child.accounts
      /\ update(self, child).destructed_accounts = child.destructed_accounts
      /\ update(self, child).depth = self.depth
      /\ update(self, child).current_account = self.current_account
  BY <1>2, <1>4 DEF update, TestHostContext
<1>9. Extends(update(self, child), self)
  BY <1>5, <1>8 DEF Extends
<1> QED  BY <1>2, <1>5, <1>7, <1>8, <1>9 DEF child, self, Merged

LEMMA ReturnKeepsStackInv ==
  ASSUME TypeOK, StackInv,
         NEW status \in Status, NEW output \in Code, Return(status, output)
  PROVE  StackInv'
<1> DEFINE n      == Len(stack)
           child  == Ended(status, output)
           merged == Merged(status, output)
<1>1. /\ n \in Nat /\ n > 1
      /\ \A i \in 1 .. n : stack[i] \in Frame
      /\ Top = stack[n] /\ Top \in Frame /\ Caller = stack[n - 1]
  BY TopFrame, ReturnStack DEF Caller
<1>2. /\ Caller \in Frame /\ merged \in TestHostContext
      /\ Extends(merged, Caller.ctx)
      /\ merged.depth = Caller.ctx.depth
      /\ merged.current_account = Caller.ctx.current_account
  BY <1>1, MergedFacts DEF StackInv
<1>3. CASE outcome' = "running"
  <2>1. /\ Len(stack') = n - 1
        /\ \A i \in 1 .. n - 2 : stack'[i] = stack[i]
        /\ stack'[n - 1] = [Caller EXCEPT !.ctx = merged]
    BY <1>3, ReturnStack
  <2> HIDE DEF n, child, merged
  <2>2. stack'[n - 1].ctx = merged /\ stack'[n - 1].msg = Caller.msg
    BY <1>2, <2>1 DEF Frame
  <2>3. ASSUME NEW i \in 1 .. n - 1
        PROVE  /\ stack'[i].msg = stack[i].msg
               /\ stack'[i].ctx.depth = stack[i].ctx.depth
               /\ stack'[i].ctx.current_account = stack[i].ctx.current_account
    <3>1. CASE i = n - 1
      BY <1>1, <1>2, <2>2, <3>1
    <3>2. CASE i # n - 1
      <4>1. i \in 1 .. n - 2
        BY <1>1, <3>2
      <4> QED  BY <2>1, <4>1
    <3> QED  BY <3>1, <3>2
  <2>4. Lineage'
    <3> SUFFICES ASSUME NEW i \in 1 .. n - 2
                 PROVE  Extends(stack'[i + 1].ctx, stack'[i].ctx)
      <4>1. Len(stack') - 1 = n - 2
        BY <1>1, <2>1
      <4> QED  BY <4>1 DEF Lineage
    <3>1. i \in 1 .. n - 1 /\ stack'[i] = stack[i]
      BY <1>1, <2>1
    <3>2. Extends(stack[i + 1].ctx, stack[i].ctx)
      BY <3>1 DEF StackInv, Lineage, n
    <3>3. CASE i + 1 = n - 1
      <4>1. stack[i].ctx \in TestHostContext /\ Caller.ctx \in TestHostContext
        BY <1>1, <1>2 DEF Frame
      <4>2. stack[i + 1].ctx = Caller.ctx /\ stack'[i + 1].ctx = merged
        BY <1>1, <2>2, <3>3
      <4> QED  BY <1>2, <3>1, <3>2, <4>1, <4>2, ExtendsTransitive
    <3>4. CASE i + 1 # n - 1
      <4>1. i + 1 \in 1 .. n - 2
        BY <1>1, <3>4
      <4>2. stack'[i + 1] = stack[i + 1]
        BY <2>1, <4>1
      <4> QED  BY <3>1, <3>2, <4>2
    <3> QED  BY <3>3, <3>4
  <2>5. FramesKeepIdentity'
    <3> SUFFICES ASSUME NEW i \in 2 .. n - 1
                 PROVE  /\ stack'[i].ctx.current_account = stack'[i].msg.destination
                        /\ stack'[i].ctx.depth = i
                        /\ stack'[i].msg.depth = i - 1
      BY <2>1 DEF FramesKeepIdentity
    <3>1. i \in 2 .. n /\ i \in 1 .. n - 1
      BY <1>1
    <3>2. /\ stack[i].ctx.current_account = stack[i].msg.destination
          /\ stack[i].ctx.depth = i
          /\ stack[i].msg.depth = i - 1
      BY <3>1 DEF StackInv, FramesKeepIdentity, n
    <3> QED  BY <2>3, <3>1, <3>2
  <2>6. StackDiscipline'
    <3>1. 1 \in 1 .. n - 1 /\ \A i \in 1 .. n - 1 : i \in 1 .. n
      BY <1>1
    <3>2. /\ stack[1].msg.depth = 0
          /\ \A i, j \in 1 .. n : i <= j /\ stack[i].msg.static => stack[j].msg.static
          /\ \A i \in 1 .. n : stack[i].msg.static => ~is_create(stack[i].msg)
      BY DEF StackInv, StackDiscipline, n
    <3>3. stack'[1].msg.depth = 0
      BY <2>3, <3>1, <3>2
    <3>4. \A i, j \in 1 .. n - 1 :
            i <= j /\ stack'[i].msg.static => stack'[j].msg.static
      BY <2>3, <3>1, <3>2
    <3>5. \A i \in 1 .. n - 1 : stack'[i].msg.static => ~is_create(stack'[i].msg)
      BY <2>3, <3>1, <3>2
    <3> QED  BY <2>1, <3>3, <3>4, <3>5 DEF StackDiscipline
  <2> QED  BY <2>4, <2>5, <2>6 DEF StackInv
<1>4. CASE outcome' # "running"
  <2>1. stack' = [stack EXCEPT ![n].ctx = child]
    BY <1>4 DEF Return, Ended
  <2>2. [Top EXCEPT !.ctx = child] = [ctx |-> child, msg |-> Top.msg, halted |-> Top.halted]
    BY <1>1 DEF Frame
  <2>3. SetTop(child, Top.halted) /\ Top.halted \in BOOLEAN
    BY <1>1, <2>1, <2>2 DEF SetTop, Frame
  <2> QED  BY <2>3, EndedFacts, SetTopKeepsStackInv
<1> QED  BY <1>3, <1>4

LEMMA HostInvNext == HostInv /\ [Next]_vars => HostInv'
<1> SUFFICES ASSUME HostInv, [Next]_vars PROVE HostInv'
  OBVIOUS
<1>1. TypeOK /\ TypeOK' /\ StackInv /\ NoImpossiblePanic
  BY TypeOKNext DEF HostInv, StackInv
<1>2. Top.ctx \in TestHostContext /\ Self \in Address
  BY <1>1, TopFrame DEF Frame
<1> SUFFICES StackInv' /\ NoImpossiblePanic'
  BY <1>1 DEF HostInv, StackInv
<1>3. ASSUME NEW key \in Key, NEW value \in Word, SetStorage(key, value)
      PROVE  StackInv' /\ NoImpossiblePanic'
  <2> DEFINE new == set_storage(Top.ctx, Self, key, value)
  <2>1. /\ new \in TestHostContext /\ Extends(new, Top.ctx)
        /\ new.depth = Top.ctx.depth /\ new.current_account = Top.ctx.current_account
    BY <1>2, SetStorageType, SetStorageExtends DEF set_storage, TestHostContext
  <2>2. StackInv'
    BY <1>1, <1>3, <2>1, SetTopKeepsStackInv DEF SetStorage
  <2>3. storage_status(Top.ctx, Self, key, value) # "invalid"
    BY <1>2, SetStorageNeverPanics
  <2>4. outcome' = outcome
    BY <1>3, <2>3 DEF SetStorage
  <2> QED  BY <1>1, <2>2, <2>4 DEF NoImpossiblePanic
<1>4. ASSUME NEW e \in Entry, EmitLog(e)
      PROVE  StackInv' /\ NoImpossiblePanic'
  <2> DEFINE new == emit_log(Top.ctx, Self, e)
  <2>1. /\ new \in TestHostContext /\ Extends(new, Top.ctx)
        /\ new.depth = Top.ctx.depth /\ new.current_account = Top.ctx.current_account
    BY <1>2, EmitLogType, EmitLogExtends DEF emit_log, TestHostContext
  <2> QED  BY <1>1, <1>4, <2>1, SetTopKeepsStackInv DEF EmitLog, NoImpossiblePanic
<1>5. ASSUME SelfDestruct
      PROVE  StackInv' /\ NoImpossiblePanic'
  <2> DEFINE new == selfdestruct(Top.ctx, Self)
  <2>1. /\ new \in TestHostContext /\ Extends(new, Top.ctx)
        /\ new.depth = Top.ctx.depth /\ new.current_account = Top.ctx.current_account
    BY <1>2, SelfDestructType, SelfDestructExtends DEF selfdestruct, TestHostContext
  <2> QED  BY <1>1, <1>5, <2>1, SetTopKeepsStackInv DEF SelfDestruct, NoImpossiblePanic
<1>6. ASSUME NEW request \in Messages, Call(request)
      PROVE  StackInv' /\ NoImpossiblePanic'
  <2>1. outcome' = code_check(CallerContext(request), CalleeMessage(request))
    BY <1>1, <1>6, CallStack
  <2>2. NoImpossiblePanic'
    BY <2>1 DEF code_check, NoImpossiblePanic
  <2> QED  BY <1>1, <1>6, <2>2, CallKeepsStackInv
<1>7. ASSUME NEW status \in Status, NEW output \in Code, Return(status, output)
      PROVE  StackInv' /\ NoImpossiblePanic'
  <2>1. Len(stack) > 1 /\ outcome' = update_check(Caller.ctx, Ended(status, output))
    BY <1>1, <1>7, ReturnStack
  <2>2. outcome' # "shrunk"
    BY <1>1, <2>1, MergedFacts DEF StackInv
  <2>3. NoImpossiblePanic'
    BY <2>1, <2>2 DEF update_check, NoImpossiblePanic
  <2> QED  BY <1>1, <1>7, <2>3, ReturnKeepsStackInv
<1>8. ASSUME NEW status \in Status, NEW output \in Code, Finish(status, output)
      PROVE  StackInv' /\ NoImpossiblePanic'
  <2>1. SetTop(Ended(status, output), Top.halted) /\ Top.halted \in BOOLEAN
    BY <1>1, <1>8, FinishStack
  <2>2. StackInv'
    BY <1>1, <2>1, EndedFacts, SetTopKeepsStackInv
  <2> QED  BY <1>8, <2>2 DEF Finish, NoImpossiblePanic
<1>9. CASE UNCHANGED vars
  BY <1>1, <1>9 DEF vars, StackInv, Lineage, FramesKeepIdentity, StackDiscipline,
                    NoImpossiblePanic
<1> QED  BY <1>3, <1>4, <1>5, <1>6, <1>7, <1>8, <1>9 DEF Next, Terminated

THEOREM Invariance == Spec => []HostInv
<1> QED  BY HostInvInit, HostInvNext, PTL DEF Spec

(* Whatever a suspended caller holds, the frame above it holds too, at     *)
(* every depth: what update() overwrites is never newer than what it       *)
(* writes.                                                                 *)
THEOREM LineageHolds == Spec => []Lineage
<1>1. HostInv => Lineage
  BY DEF HostInv
<1> QED  BY <1>1, Invariance, PTL

(* The two panics the code believes impossible, update()'s length check    *)
(* and set_storage's match, are.                                           *)
THEOREM NoImpossiblePanicHolds == Spec => []NoImpossiblePanic
<1>1. HostInv => NoImpossiblePanic
  BY DEF HostInv
<1> QED  BY <1>1, Invariance, PTL

(* A nested context keeps the contract and the depth it was made for,      *)
(* whatever is merged into it.                                             *)
THEOREM FramesKeepIdentityHolds == Spec => []FramesKeepIdentity
<1>1. HostInv => FramesKeepIdentity
  BY DEF HostInv
<1> QED  BY <1>1, Invariance, PTL

-----------------------------------------------------------------------------
(***************************************************************************)
(* Refinement: HostCalls implements World.                                 *)
(***************************************************************************)

-----------------------------------------------------------------------------
(* What each action shows.                                                 *)

LEMMA SetStorageWrites ==
  ASSUME TypeOK, NEW key \in Key, NEW value \in Word, SetStorage(key, value)
  PROVE  World!Write(Self, key, value)
<1> DEFINE new == set_storage(Top.ctx, Self, key, value)
<1>1. Top.ctx \in TestHostContext /\ Self \in Address
  BY TopFrame DEF Frame
<1>2. new \in TestHostContext
  BY <1>1, SetStorageType
<1>3. Top' = [ctx |-> new, msg |-> Top.msg, halted |-> FALSE]
  BY <1>2, SetTopStack DEF SetStorage
<1>4. Top'.ctx = new
  BY <1>3
<1> QED  BY <1>1, <1>4, SetStorageShows DEF World!Write

LEMMA EmitLogLogs ==
  ASSUME TypeOK, NEW e \in Entry, EmitLog(e)
  PROVE  World!Log(Self, e)
<1> DEFINE new == emit_log(Top.ctx, Self, e)
<1>1. Top.ctx \in TestHostContext /\ Self \in Address
  BY TopFrame DEF Frame
<1>2. new \in TestHostContext
  BY <1>1, EmitLogType
<1>3. Top' = [ctx |-> new, msg |-> Top.msg, halted |-> FALSE]
  BY <1>2, SetTopStack DEF EmitLog
<1>4. Top'.ctx = new
  BY <1>3
<1> QED  BY <1>1, <1>4, EmitLogShows DEF World!Log

LEMMA SelfDestructDestructs ==
  ASSUME TypeOK, SelfDestruct
  PROVE  World!Destruct(Self)
<1> DEFINE new == selfdestruct(Top.ctx, Self)
<1>1. Top.ctx \in TestHostContext /\ Self \in Address
  BY TopFrame DEF Frame
<1>2. new \in TestHostContext
  BY <1>1, SelfDestructType
<1>3. Top' = [ctx |-> new, msg |-> Top.msg, halted |-> TRUE]
  BY <1>2, SetTopStack DEF SelfDestruct
<1>4. Top'.ctx = new
  BY <1>3
<1> QED  BY <1>1, <1>4, SelfDestructShows DEF World!Destruct

(* Inserting an account and cloning the context show nothing.              *)
LEMMA TouchShows ==
  ASSUME NEW ctx \in TestHostContext, NEW a \in Address
  PROVE  /\ StorageOf(touch(ctx, a)) = StorageOf(ctx)
         /\ CodeOf(touch(ctx, a)) = CodeOf(ctx)
         /\ LogsOf(touch(ctx, a)) = LogsOf(ctx)
         /\ touch(ctx, a).destructed_accounts = ctx.destructed_accounts
<1> DEFINE account == entry(ctx.accounts, a)
           new     == touch(ctx, a)
<1>1. account \in AccountData /\ new = [ctx EXCEPT !.accounts[a] = account]
  BY EntryType DEF touch
<1>2. /\ StorageOf(ctx)[a] = ItemsOf(account)
      /\ CodeOf(ctx)[a] = account.code
      /\ LogsOf(ctx)[a] = account.logs
  BY StorageOfAccount DEF CodeOf, LogsOf
<1> HIDE DEF account, new
<1>3. /\ StorageOf(new) = [StorageOf(ctx) EXCEPT ![a] = ItemsOf(account)]
      /\ CodeOf(new)    = [CodeOf(ctx)    EXCEPT ![a] = account.code]
      /\ LogsOf(new)    = [LogsOf(ctx)    EXCEPT ![a] = account.logs]
      /\ new.destructed_accounts = ctx.destructed_accounts
  BY <1>1, AccountReplacedShows
<1>4. [StorageOf(ctx) EXCEPT ![a] = ItemsOf(account)] = StorageOf(ctx)
  BY <1>2 DEF StorageOf
<1>5. [CodeOf(ctx) EXCEPT ![a] = account.code] = CodeOf(ctx)
  BY <1>2 DEF CodeOf
<1>6. [LogsOf(ctx) EXCEPT ![a] = account.logs] = LogsOf(ctx)
  BY <1>2 DEF LogsOf
<1> QED  BY <1>3, <1>4, <1>5, <1>6 DEF new

(* Contexts with the same accounts and self-destructions show the same.    *)
LEMMA SameAccountsShowSame ==
  ASSUME NEW x, NEW y, x.accounts = y.accounts
  PROVE  StorageOf(x) = StorageOf(y) /\ CodeOf(x) = CodeOf(y) /\ LogsOf(x) = LogsOf(y)
<1>1. StorageOf(x) = StorageOf(y)
  BY StorageOfAccount
<1> QED  BY <1>1 DEF CodeOf, LogsOf

LEMMA CallShowsNothing ==
  ASSUME TypeOK, NEW request \in Messages, Call(request)
  PROVE  UNCHANGED World!vars
<1> DEFINE self   == CallerContext(request)
           callee == CalleeFrame(request)
<1>1. Top \in Frame /\ Top.ctx \in TestHostContext
  BY TopFrame DEF Frame
<1>2. request.sender \in Address
  BY RequestType DEF Message
<1>3. /\ StorageOf(self) = StorageOf(Top.ctx)
      /\ CodeOf(self) = CodeOf(Top.ctx)
      /\ LogsOf(self) = LogsOf(Top.ctx)
      /\ self.destructed_accounts = Top.ctx.destructed_accounts
  BY <1>1, <1>2, TouchShows DEF CallerContext
<1>4. /\ callee.ctx.accounts = self.accounts
      /\ callee.ctx.destructed_accounts = self.destructed_accounts
  BY CalleeType DEF CalleeFrame, child_context, TestHostContext
<1>5. /\ StorageOf(callee.ctx) = StorageOf(self)
      /\ CodeOf(callee.ctx) = CodeOf(self)
      /\ LogsOf(callee.ctx) = LogsOf(self)
  BY <1>4, SameAccountsShowSame
<1>6. Top'.ctx = callee.ctx \/ Top'.ctx = self
  BY <1>1, CallStack DEF Frame
<1> HIDE DEF self, callee
<1> QED  BY <1>3, <1>4, <1>5, <1>6 DEF World!vars

(* The end of a VM shows nothing but the code of a successful creation.    *)
LEMMA EndShows ==
  ASSUME TypeOK, NEW status \in Status, NEW output \in Code,
         Return(status, output) \/ Finish(status, output)
  PROVE  IF status = "success" /\ is_create(Top.msg)
           THEN World!Deploy(Self, output)
           ELSE UNCHANGED World!vars
<1> DEFINE child == Ended(status, output)
<1>1. Top \in Frame /\ Top.ctx \in TestHostContext
  BY TopFrame DEF Frame
<1>2. /\ StorageOf(child) = StorageOf(Top.ctx)
      /\ LogsOf(child) = LogsOf(Top.ctx)
      /\ child.destructed_accounts = Top.ctx.destructed_accounts
      /\ CodeOf(child) = IF status = "success" /\ is_create(Top.msg)
                           THEN [CodeOf(Top.ctx) EXCEPT ![Self] = output]
                           ELSE CodeOf(Top.ctx)
  BY <1>1, AfterExecute DEF Ended, Self
<1>3. /\ Top'.ctx.accounts = child.accounts
      /\ Top'.ctx.destructed_accounts = child.destructed_accounts
  <2>1. CASE Finish(status, output)
    <3>1. Top' = [ctx |-> child, msg |-> Top.msg, halted |-> Top.halted]
      BY <2>1, FinishStack, SetTopStack
    <3> QED  BY <3>1
  <2>2. CASE Return(status, output) /\ outcome' = "running"
    <3>1. Top' = [Caller EXCEPT !.ctx = Merged(status, output)]
      BY <2>2, ReturnStack
    <3>2. Len(stack) > 1 /\ Caller \in Frame
      <4>1. Len(stack) > 1
        BY <2>2, ReturnStack
      <4>2. Len(stack) - 1 \in 1 .. Len(stack)
        BY <4>1, TopFrame
      <4> QED  BY <4>1, <4>2, TopFrame DEF Caller
    <3>3. child \in TestHostContext /\ Caller.ctx \in TestHostContext
      BY <3>2, EndedFacts DEF Frame
    <3>4. /\ Merged(status, output).accounts = child.accounts
          /\ Merged(status, output).destructed_accounts = child.destructed_accounts
      BY <3>3 DEF Merged, update, TestHostContext
    <3>5. Top'.ctx = Merged(status, output)
      BY <3>1, <3>2 DEF Frame
    <3> QED  BY <3>4, <3>5
  <2>3. CASE Return(status, output) /\ outcome' # "running"
    <3>1. Top' = [Top EXCEPT !.ctx = child]
      BY <2>3, ReturnStack
    <3> QED  BY <1>1, <3>1 DEF Frame
  <2> QED  BY <2>1, <2>2, <2>3
<1> HIDE DEF child
<1>4. /\ StorageOf(Top'.ctx) = StorageOf(child)
      /\ CodeOf(Top'.ctx) = CodeOf(child)
      /\ LogsOf(Top'.ctx) = LogsOf(child)
  BY <1>3, SameAccountsShowSame
<1>5. CASE status = "success" /\ is_create(Top.msg)
  BY <1>2, <1>3, <1>4, <1>5 DEF World!Deploy
<1>6. CASE ~(status = "success" /\ is_create(Top.msg))
  BY <1>2, <1>3, <1>4, <1>6 DEF World!vars
<1> QED  BY <1>5, <1>6

-----------------------------------------------------------------------------
(* Refinement.                                                             *)

LEMMA WorldInit == Init => World!Init
<1> SUFFICES ASSUME Init PROVE World!Init
  OBVIOUS
<1>1. Top.ctx \in TestHostContext
  BY TypeOKInit, TopFrame DEF Frame
<1> QED  BY <1>1, ShowsType DEF World!Init, World!WorldOK, TestHostContext

LEMMA WorldStep == HostInv /\ [Next]_vars => [World!Next]_World!vars
<1> SUFFICES ASSUME HostInv, [Next]_vars PROVE [World!Next]_World!vars
  OBVIOUS
<1>1. TypeOK /\ Self \in Address
  BY TopFrame DEF HostInv
<1>2. ASSUME NEW key \in Key, NEW value \in Word, SetStorage(key, value)
      PROVE  World!Next
  BY <1>1, <1>2, SetStorageWrites DEF World!Next
<1>3. ASSUME NEW e \in Entry, EmitLog(e)
      PROVE  World!Next
  BY <1>1, <1>3, EmitLogLogs DEF World!Next
<1>4. CASE SelfDestruct
  BY <1>1, <1>4, SelfDestructDestructs DEF World!Next
<1>5. ASSUME NEW request \in Messages, Call(request)
      PROVE  UNCHANGED World!vars
  BY <1>1, <1>5, CallShowsNothing
<1>6. ASSUME NEW status \in Status, NEW output \in Code,
             Return(status, output) \/ Finish(status, output)
      PROVE  [World!Next]_World!vars
  BY <1>1, <1>6, EndShows DEF World!Next
<1>7. CASE UNCHANGED vars
  BY <1>7 DEF vars, World!vars, Top, Last
<1> QED  BY <1>2, <1>3, <1>4, <1>5, <1>6, <1>7 DEF Next, Terminated

(* The recursion of clones and merges behaves like one flat world that     *)
(* contracts change in place, one callback at a time.                      *)
THEOREM Refinement == Spec => ImplementsWorld
<1>1. Init => World!Init
  BY WorldInit
<1>2. HostInv /\ [Next]_vars => [World!Next]_World!vars
  BY WorldStep
<1> QED  BY <1>1, <1>2, Invariance, PTL DEF Spec, ImplementsWorld, World!Spec

-----------------------------------------------------------------------------
(* Action properties.                                                      *)

(* While a static frame is on the stack nothing visible changes.           *)
THEOREM StaticReadOnlyHolds == Spec => StaticReadOnly
<1>1. ASSUME HostInv, [Next]_vars, NEW i \in DOMAIN stack, stack[i].msg.static
      PROVE  UNCHANGED World!vars
  <2>1. TypeOK /\ StackDiscipline
    BY <1>1 DEF HostInv
  <2>2. /\ Len(stack) \in Nat \ {0} /\ i \in 1 .. Len(stack)
        /\ Top = stack[Len(stack)] /\ Top.msg.static \in BOOLEAN
    BY <1>1, <2>1, TopFrame DEF Frame, Message
  <2>3. Top.msg.static /\ ~is_create(Top.msg)
    BY <1>1, <2>1, <2>2 DEF StackDiscipline
  <2>4. ASSUME NEW request \in Messages, Call(request)
        PROVE  UNCHANGED World!vars
    BY <2>1, <2>4, CallShowsNothing
  <2>5. ASSUME NEW status \in Status, NEW output \in Code,
               Return(status, output) \/ Finish(status, output)
        PROVE  UNCHANGED World!vars
    BY <2>1, <2>3, <2>5, EndShows
  <2>6. CASE UNCHANGED vars
    BY <2>6 DEF vars, World!vars, Top, Last
  <2> QED  BY <1>1, <2>3, <2>4, <2>5, <2>6
           DEF Next, Terminated, SetStorage, EmitLog, SelfDestruct, MayModify
<1>2. HostInv /\ [Next]_vars =>
        [(\E i \in DOMAIN stack : stack[i].msg.static) => UNCHANGED World!vars]_vars
  BY <1>1
<1> QED  BY <1>2, Invariance, PTL DEF Spec, StaticReadOnly

(* Only a creation changes code, only its own, and only on success.        *)
THEOREM OnlyCreationDeploysHolds == Spec => OnlyCreationDeploys
<1> DEFINE Deploys(a) ==
             CodeOf(Top.ctx)[a]' # CodeOf(Top.ctx)[a] =>
               /\ is_create(Top.msg) /\ a = Self
               /\ outcome' \in {"running", "finished"} => result'.status = "success"
<1>1. ASSUME HostInv, [Next]_vars, NEW a \in Address
      PROVE  Deploys(a)
  <2>1. TypeOK /\ Self \in Address
    BY <1>1, TopFrame DEF HostInv
  <2>2. CASE CodeOf(Top.ctx)' = CodeOf(Top.ctx)
    BY <2>2
  <2>3. ASSUME NEW key \in Key, NEW value \in Word, SetStorage(key, value)
        PROVE  CodeOf(Top.ctx)' = CodeOf(Top.ctx)
    BY <2>1, <2>3, SetStorageWrites DEF World!Write
  <2>4. ASSUME NEW e \in Entry, EmitLog(e)
        PROVE  CodeOf(Top.ctx)' = CodeOf(Top.ctx)
    BY <2>1, <2>4, EmitLogLogs DEF World!Log
  <2>5. ASSUME SelfDestruct
        PROVE  CodeOf(Top.ctx)' = CodeOf(Top.ctx)
    BY <2>1, <2>5, SelfDestructDestructs DEF World!Destruct
  <2>6. ASSUME NEW request \in Messages, Call(request)
        PROVE  CodeOf(Top.ctx)' = CodeOf(Top.ctx)
    BY <2>1, <2>6, CallShowsNothing DEF World!vars
  <2>7. ASSUME NEW status \in Status, NEW output \in Code,
               Return(status, output) \/ Finish(status, output)
        PROVE  Deploys(a)
    <3>1. CASE status = "success" /\ is_create(Top.msg)
      <4>1. CodeOf(Top.ctx)' = [CodeOf(Top.ctx) EXCEPT ![Self] = output]
        BY <2>1, <2>7, <3>1, EndShows DEF World!Deploy
      <4>2. CodeOf(Top.ctx)[a]' # CodeOf(Top.ctx)[a] => a = Self
        BY <4>1 DEF CodeOf
      <4>3. outcome' \in {"running", "finished"} => result'.status = "success"
        BY <2>7, <3>1 DEF Return, Finish, update_check
      <4> QED  BY <3>1, <4>2, <4>3
    <3>2. CASE ~(status = "success" /\ is_create(Top.msg))
      <4>1. CodeOf(Top.ctx)' = CodeOf(Top.ctx)
        BY <2>1, <2>7, <3>2, EndShows DEF World!vars
      <4> QED  BY <4>1
    <3> QED  BY <3>1, <3>2
  <2>8. CASE UNCHANGED vars
    BY <2>8 DEF vars, Top, Last
  <2> QED  BY <1>1, <2>2, <2>3, <2>4, <2>5, <2>6, <2>7, <2>8 DEF Next, Terminated
<1>2. HostInv /\ [Next]_vars => [\A a \in Address : Deploys(a)]_vars
  BY <1>1
<1> QED  BY <1>2, Invariance, PTL DEF Spec, OnlyCreationDeploys

-----------------------------------------------------------------------------
(***************************************************************************)
(* Queries: get_storage answers the last write of any frame, and what is   *)
(* proved of HostCalls holds still.                                        *)
(***************************************************************************)

(* ReadsLastWrite speaks of single items; that they make up the storage    *)
(* the running frame shows is what its steps preserve.                     *)
WrittenIsShown == written = StorageOf(Top.ctx)

QueryInv == HostInv /\ WrittenIsShown

-----------------------------------------------------------------------------
(* Lemmas                                                                  *)

LEMMA QueryInvInit == QueryInit => QueryInv
<1> SUFFICES ASSUME QueryInit PROVE QueryInv
  OBVIOUS
<1>1. HostInv
  BY HostInvInit DEF QueryInit
<1> QED  BY <1>1 DEF QueryInit, QueryInv, WrittenIsShown

(* To ask costs gas and changes nothing else.                              *)
LEMMA QueryKeepsHostInv == HostInv /\ Query => HostInv'
<1> SUFFICES ASSUME HostInv, Query PROVE HostInv'
  OBVIOUS
<1>1. gas \in 0 .. MaxGas /\ gas > 0 /\ gas' = gas - 1 /\ MaxGas \in Nat
  BY CallsAssumption DEF HostInv, TypeOK, Query, Executing
<1>2. gas' \in 0 .. MaxGas
  BY <1>1
<1>3. UNCHANGED <<stack, outcome, result>>
  BY DEF Query
<1>4. TypeOK'
  BY <1>2, <1>3 DEF HostInv, TypeOK
<1> QED  BY <1>3, <1>4 DEF HostInv, Lineage, FramesKeepIdentity, StackDiscipline,
                           NoImpossiblePanic

(* The storage shown changes with a write only, and then by that write.    *)
LEMMA OtherShowsSameStorage ==
  TypeOK /\ Other => StorageOf(Top.ctx)' = StorageOf(Top.ctx)
<1> SUFFICES ASSUME TypeOK, Other PROVE StorageOf(Top.ctx)' = StorageOf(Top.ctx)
  OBVIOUS
<1>1. ASSUME NEW e \in Entry, EmitLog(e)
      PROVE  StorageOf(Top.ctx)' = StorageOf(Top.ctx)
  BY <1>1, EmitLogLogs DEF World!Log
<1>2. CASE SelfDestruct
  BY <1>2, SelfDestructDestructs DEF World!Destruct
<1>3. ASSUME NEW request \in Messages, Call(request)
      PROVE  StorageOf(Top.ctx)' = StorageOf(Top.ctx)
  BY <1>3, CallShowsNothing DEF World!vars
<1>4. ASSUME NEW status \in Status, NEW output \in Code,
             Return(status, output) \/ Finish(status, output)
      PROVE  StorageOf(Top.ctx)' = StorageOf(Top.ctx)
  <2>1. CASE status = "success" /\ is_create(Top.msg)
    BY <1>4, <2>1, EndShows DEF World!Deploy
  <2>2. CASE ~(status = "success" /\ is_create(Top.msg))
    BY <1>4, <2>2, EndShows DEF World!vars
  <2> QED  BY <2>1, <2>2
<1> QED  BY <1>1, <1>2, <1>3, <1>4 DEF Other

LEMMA NextOrQuery == [QueryNext]_queryVars => [Next]_vars \/ Query
BY DEF QueryNext, queryVars, Write, Other, Over, Next

LEMMA QueryInvNext == QueryInv /\ [QueryNext]_queryVars => QueryInv'
<1> SUFFICES ASSUME QueryInv, [QueryNext]_queryVars PROVE QueryInv'
  OBVIOUS
<1>1. HostInv /\ TypeOK /\ written = StorageOf(Top.ctx)
  BY DEF QueryInv, HostInv, WrittenIsShown
<1>2. HostInv'
  BY <1>1, NextOrQuery, HostInvNext, QueryKeepsHostInv
<1>3. WrittenIsShown'
  <2>1. CASE Query
    BY <1>1, <2>1 DEF Query, WrittenIsShown, Top, Last
  <2>2. ASSUME NEW key \in Key, NEW value \in Word, Write(key, value)
        PROVE  WrittenIsShown'
    <3>1. StorageOf(Top.ctx)' = [StorageOf(Top.ctx) EXCEPT ![Self][key] = value]
      BY <1>1, <2>2, SetStorageWrites DEF Write, World!Write
    <3> QED  BY <1>1, <2>2, <3>1 DEF Write, WrittenIsShown
  <2>3. CASE Other
    <3>1. StorageOf(Top.ctx)' = StorageOf(Top.ctx)
      BY <1>1, <2>3, OtherShowsSameStorage
    <3> QED  BY <1>1, <2>3, <3>1 DEF Other, WrittenIsShown
  <2>4. CASE UNCHANGED queryVars
    BY <1>1, <2>4 DEF queryVars, vars, WrittenIsShown, Top, Last
  <2> QED  BY <2>1, <2>2, <2>3, <2>4 DEF QueryNext, Over, Terminated, queryVars, vars
<1> QED  BY <1>2, <1>3 DEF QueryInv

-----------------------------------------------------------------------------
(* Theorems                                                                *)

(* What is proved of HostCalls' states holds also with queries.            *)
THEOREM QueryInvariance == QuerySpec => []QueryInv
<1> QED  BY QueryInvInit, QueryInvNext, PTL DEF QuerySpec

(* get_storage answers the last value any frame wrote, through every clone *)
(* and merge and whatever the frames in between ended with.                *)
THEOREM ReadsLastWriteHolds == QuerySpec => []ReadsLastWrite
<1>1. QueryInv => ReadsLastWrite
  BY DEF QueryInv, WrittenIsShown, ReadsLastWrite, GetStorage, StorageOf
<1> QED  BY <1>1, QueryInvariance, PTL

(* A machine that asks between its steps sees the same flat world.         *)
THEOREM QueriesImplementWorld == QuerySpec => ImplementsWorld
<1>1. QueryInit => World!Init
  BY WorldInit DEF QueryInit
<1>2. QueryInv /\ [QueryNext]_queryVars => [World!Next]_World!vars
  <2> SUFFICES ASSUME QueryInv, [QueryNext]_queryVars PROVE [World!Next]_World!vars
    OBVIOUS
  <2>1. CASE Query
    BY <2>1 DEF Query, World!vars, Top, Last
  <2>2. CASE [Next]_vars
    BY <2>2, WorldStep DEF QueryInv
  <2> QED  BY <2>1, <2>2, NextOrQuery
<1> QED  BY <1>1, <1>2, QueryInvariance, PTL DEF QuerySpec, ImplementsWorld, World!Spec
=============================================================================
