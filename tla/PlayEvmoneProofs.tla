-------------------------- MODULE PlayEvmoneProofs --------------------------
(***************************************************************************)
(* Proofs about PlayEvmone: what the storage files hold after any number   *)
(* of commands, aborted or not, each with a transaction of any depth and   *)
(* length.                                                                 *)
(***************************************************************************)
EXTENDS PlayEvmone, HostCallsProofs

-----------------------------------------------------------------------------
(* What a step of the transaction does to the outermost frame, whose       *)
(* context is the one that is saved.                                       *)

(* The context Extends the one it was and keeps its depth.                 *)
Grows(new, old) == Extends(new, old) /\ new.depth = old.depth

LEMMA SetTopGrowsOutermost ==
  ASSUME TypeOK, NEW ctx \in TestHostContext, NEW halted \in BOOLEAN,
         SetTop(ctx, halted), Grows(ctx, Top.ctx)
  PROVE  Grows(stack'[1].ctx, stack[1].ctx)
<1> DEFINE n == Len(stack)
<1>1. /\ n \in Nat \ {0} /\ 1 \in 1 .. n
      /\ Top = stack[n] /\ stack[1] \in Frame
  BY TopFrame
<1>2. /\ \A i \in 1 .. n - 1 : stack'[i] = stack[i]
      /\ stack'[n] = [ctx |-> ctx, msg |-> Top.msg, halted |-> halted]
  BY SetTopStack
<1> HIDE DEF n
<1>3. CASE n = 1
  BY <1>1, <1>2, <1>3
<1>4. CASE n # 1
  <2>1. 1 \in 1 .. n - 1
    BY <1>1, <1>4
  <2>2. stack'[1] = stack[1]
    BY <1>2, <2>1
  <2> QED  BY <1>1, <2>2, ExtendsReflexive DEF Grows, Frame
<1> QED  BY <1>3, <1>4

LEMMA CallGrowsOutermost ==
  ASSUME TypeOK, NEW request \in Messages, Call(request)
  PROVE  Grows(stack'[1].ctx, stack[1].ctx)
<1> DEFINE n == Len(stack)
<1>1. /\ n \in Nat \ {0} /\ 1 \in 1 .. n
      /\ Top = stack[n] /\ Top \in Frame /\ stack[1] \in Frame
  BY TopFrame
<1>2. /\ \A i \in 1 .. n - 1 : stack'[i] = stack[i]
      /\ stack'[n] = [Top EXCEPT !.ctx = CallerContext(request)]
  BY CallStack
<1> HIDE DEF n
<1>3. CASE n = 1
  <2>1. Top.ctx \in TestHostContext /\ request.sender \in Address
    BY <1>1, RequestType DEF Frame, Message
  <2>2. entry(Top.ctx.accounts, request.sender) \in AccountData
    BY <2>1, EntryType
  <2>3. Extends(CallerContext(request), Top.ctx)
    BY <2>1, <2>2, AccountExtendsReflexive, AccountReplacedExtends
       DEF CallerContext, touch
  <2>4. CallerContext(request).depth = Top.ctx.depth
    BY <2>1 DEF CallerContext, touch, TestHostContext
  <2>5. stack'[1].ctx = CallerContext(request)
    BY <1>1, <1>2, <1>3 DEF Frame
  <2> QED  BY <1>1, <1>3, <2>3, <2>4, <2>5 DEF Grows
<1>4. CASE n # 1
  <2>1. 1 \in 1 .. n - 1
    BY <1>1, <1>4
  <2>2. stack'[1] = stack[1]
    BY <1>2, <2>1
  <2> QED  BY <1>1, <2>2, ExtendsReflexive DEF Grows, Frame
<1> QED  BY <1>3, <1>4

LEMMA ReturnGrowsOutermost ==
  ASSUME TypeOK, Lineage,
         NEW status \in Status, NEW output \in Code, Return(status, output)
  PROVE  Grows(stack'[1].ctx, stack[1].ctx)
<1> DEFINE n == Len(stack)
<1>1. /\ n \in Nat /\ n > 1
      /\ \A i \in 1 .. n : stack[i] \in Frame
      /\ Caller = stack[n - 1]
  BY TopFrame, ReturnStack DEF Caller
<1>2. /\ Grows(Merged(status, output), Caller.ctx)
      /\ Caller \in Frame /\ Merged(status, output) \in TestHostContext
  BY <1>1, MergedFacts DEF Grows
<1>3. /\ outcome' = "running" =>
           /\ \A i \in 1 .. n - 2 : stack'[i] = stack[i]
           /\ stack'[n - 1] = [Caller EXCEPT !.ctx = Merged(status, output)]
      /\ outcome' # "running" => \A i \in 1 .. n - 1 : stack'[i] = stack[i]
  BY ReturnStack
<1> HIDE DEF n
<1>4. CASE stack'[1] = stack[1]
  <2>1. stack[1].ctx \in TestHostContext
    BY <1>1 DEF Frame
  <2> QED  BY <1>4, <2>1, ExtendsReflexive DEF Grows
<1>5. CASE outcome' = "running" /\ n = 2
  <2>1. stack'[1] = [Caller EXCEPT !.ctx = Merged(status, output)] /\ stack[1] = Caller
    BY <1>1, <1>3, <1>5
  <2>2. stack'[1].ctx = Merged(status, output) /\ stack[1].ctx = Caller.ctx
    BY <1>2, <2>1 DEF Frame
  <2> QED  BY <1>2, <2>2
<1>6. CASE outcome' = "running" /\ n # 2
  <2>1. 1 \in 1 .. n - 2
    BY <1>1, <1>6
  <2> QED  BY <1>3, <1>4, <1>6, <2>1
<1>7. CASE outcome' # "running"
  <2>1. 1 \in 1 .. n - 1
    BY <1>1
  <2> QED  BY <1>3, <1>4, <1>7, <2>1
<1> QED  BY <1>5, <1>6, <1>7

(* Every step of the transaction grows the outermost context, and the      *)
(* transaction finishes with the outermost frame alone on the stack.       *)
LEMMA TransactionStep ==
  ASSUME HostInv, Next, outcome = "running"
  PROVE  /\ HostInv'
         /\ Grows(stack'[1].ctx, stack[1].ctx)
         /\ outcome' = "finished" => Len(stack') = 1
<1>1. TypeOK /\ Lineage /\ HostInv'
  BY HostInvNext DEF HostInv
<1>2. Top.ctx \in TestHostContext /\ Self \in Address
  BY <1>1, TopFrame DEF Frame
<1>3. ASSUME NEW key \in Key, NEW value \in Word, SetStorage(key, value)
      PROVE  Grows(stack'[1].ctx, stack[1].ctx) /\ outcome' # "finished"
  <2> DEFINE new == set_storage(Top.ctx, Self, key, value)
  <2>1. new \in TestHostContext /\ Grows(new, Top.ctx)
    BY <1>2, SetStorageType, SetStorageExtends DEF Grows, set_storage, TestHostContext
  <2> QED  BY <1>1, <1>3, <2>1, SetTopGrowsOutermost DEF SetStorage
<1>4. ASSUME NEW e \in Entry, EmitLog(e)
      PROVE  Grows(stack'[1].ctx, stack[1].ctx) /\ outcome' # "finished"
  <2> DEFINE new == emit_log(Top.ctx, Self, e)
  <2>1. new \in TestHostContext /\ Grows(new, Top.ctx)
    BY <1>2, EmitLogType, EmitLogExtends DEF Grows, emit_log, TestHostContext
  <2> QED  BY <1>1, <1>4, <2>1, SetTopGrowsOutermost DEF EmitLog
<1>5. ASSUME SelfDestruct
      PROVE  Grows(stack'[1].ctx, stack[1].ctx) /\ outcome' # "finished"
  <2> DEFINE new == selfdestruct(Top.ctx, Self)
  <2>1. new \in TestHostContext /\ Grows(new, Top.ctx)
    BY <1>2, SelfDestructType, SelfDestructExtends
       DEF Grows, selfdestruct, TestHostContext
  <2> QED  BY <1>1, <1>5, <2>1, SetTopGrowsOutermost DEF SelfDestruct
<1>6. ASSUME NEW request \in Messages, Call(request)
      PROVE  Grows(stack'[1].ctx, stack[1].ctx) /\ outcome' # "finished"
  BY <1>1, <1>6, CallGrowsOutermost, CallStack DEF code_check
<1>7. ASSUME NEW status \in Status, NEW output \in Code, Return(status, output)
      PROVE  Grows(stack'[1].ctx, stack[1].ctx) /\ outcome' # "finished"
  BY <1>1, <1>7, ReturnGrowsOutermost, ReturnStack DEF update_check
<1>8. ASSUME NEW status \in Status, NEW output \in Code, Finish(status, output)
      PROVE  Grows(stack'[1].ctx, stack[1].ctx) /\ Len(stack') = 1
  <2>1. /\ Len(stack) = 1
        /\ SetTop(Ended(status, output), Top.halted) /\ Top.halted \in BOOLEAN
        /\ Ended(status, output) \in TestHostContext
    BY <1>1, <1>8, FinishStack
  <2>2. Grows(Ended(status, output), Top.ctx)
    BY <1>1, EndedFacts DEF Grows
  <2> QED  BY <1>1, <2>1, <2>2, SetTopGrowsOutermost, SetTopStack
<1> QED  BY <1>1, <1>3, <1>4, <1>5, <1>6, <1>7, <1>8 DEF Next, Terminated

-----------------------------------------------------------------------------
(* The inductive invariant.                                                *)

(* While the VM runs the files are as the command found them, and the      *)
(* outermost context has grown from the one that was loaded.               *)
VmInv ==
  /\ HostInv
  /\ files = command.before
  /\ command.name # "remove"
  /\ LoadedContext \in TestHostContext
  /\ LoadedContext.depth = 0
  /\ Grows(stack[1].ctx, LoadedContext)
  /\ outcome = "finished" => Len(stack) = 1

(* What is about to be written holds what was to be kept.                  *)
SavingInv == data.depth = 0 /\ Extends(data, ToKeep)

PlayInv ==
  /\ PlayTypeOK
  /\ SavedAtRest
  /\ phase = "vm" => VmInv
  /\ phase = "saving" => SavingInv

(* What PlayTypeOK says of each phase.                                     *)
LEMMA PhaseFacts ==
  ASSUME PlayTypeOK
  PROVE  /\ phase = "idle" => Idle
         /\ phase = "vm" => TypeOK /\ command \in Command /\ data = None
         /\ phase = "saving" => /\ command \in Command /\ command.output \in Path
                              /\ data \in TestHostContext
BY DEF PlayTypeOK, Idle, Command

LEMMA PlayInvInit == PlayInit => PlayInv
BY FilesAssumption DEF PlayInit, Idle, PlayInv, PlayTypeOK, SavedAtRest, Loadable

(* A file that can be loaded holds a context at rest.                      *)
LEMMA LoadableFile ==
  ASSUME PlayTypeOK, SavedAtRest, NEW path \in Path, Loadable(path)
  PROVE  files[path] \in TestHostContext /\ files[path].depth = 0
BY DEF PlayTypeOK, SavedAtRest, Loadable

LEMMA ContextLoaded ==
  ASSUME PlayTypeOK, SavedAtRest,
         NEW input \in Path \cup {None}, NEW a \in Address, MayStart(input)
  PROVE  /\ get_context(input, a) \in TestHostContext
         /\ get_context(input, a).depth = 0
<1>1. CASE input = None
  <2>1. << >> \in Seq(Address)
    BY EmptySeq
  <2>2. TestHostContext_new(0, a) \in TestHostContext
    BY <2>1 DEF TestHostContext_new, TestHostContext
  <2> QED  BY <1>1, <2>2 DEF get_context, TestHostContext_new
<1>2. CASE input # None
  BY <1>2, LoadableFile DEF MayStart, get_context
<1> QED  BY <1>1, <1>2

(* Handing a loaded context to the VM establishes the invariant of         *)
(* HostCalls.                                                              *)
LEMMA EnterVmHostInv ==
  ASSUME NEW ctx \in TestHostContext, NEW msg \in TopMessages(ctx), EnterVm(ctx, msg)
  PROVE  HostInv' /\ stack'[1].ctx = ctx /\ outcome' = "running"
<1> DEFINE frame == [ctx |-> ctx, msg |-> msg, halted |-> FALSE]
<1>1. msg \in Message /\ msg.depth = 0 /\ (is_create(msg) => ~msg.static)
  BY TopMessageType
<1>2. frame \in Frame
  BY <1>1 DEF Frame
<1>3. /\ stack' = <<frame>> /\ outcome' = "running"
      /\ gas' = MaxGas /\ result' = None
  BY DEF EnterVm
<1>4. frame.ctx = ctx /\ frame.msg = msg
  OBVIOUS
<1> HIDE DEF frame
<1>5. /\ stack' \in Seq(Frame) /\ stack' # << >>
      /\ Len(stack') = 1 /\ stack'[1] = frame
  BY <1>2, <1>3
<1>6. TypeOK'
  BY <1>3, <1>5, CallsAssumption DEF TypeOK
<1>7. Lineage' /\ FramesKeepIdentity'
  BY <1>5 DEF Lineage, FramesKeepIdentity
<1>8. StackDiscipline'
  BY <1>1, <1>4, <1>5 DEF StackDiscipline, is_create
<1> QED  BY <1>3, <1>4, <1>5, <1>6, <1>7, <1>8 DEF HostInv, NoImpossiblePanic

(* `create` and `call` start with the invariant.                           *)
LEMMA CommandStarts ==
  ASSUME PlayInv, NEW name \in {"create", "call"},
         NEW input \in Path \cup {None}, NEW output \in Path \cup {None},
         NEW a \in Address, MayStart(input), Begin(name, a, input, output),
         NEW msg \in TopMessages(get_context(input, a)),
         Execute(get_context(input, a), msg)
  PROVE  PlayInv'
<1> DEFINE ctx == get_context(input, a)
<1>1. ctx \in TestHostContext /\ ctx.depth = 0 /\ PlayTypeOK /\ SavedAtRest
  BY ContextLoaded DEF PlayInv
<1>2. EnterVm(ctx, msg) /\ UNCHANGED <<files, data>> /\ phase' = "vm"
  BY DEF Execute, EnterVm
<1>3. HostInv' /\ stack'[1].ctx = ctx /\ outcome' = "running"
  BY <1>1, <1>2, EnterVmHostInv
<1>4. /\ command' = [name |-> name, address |-> a, input |-> input,
                     output |-> output, before |-> files]
      /\ count' = count + 1 /\ count < MaxCommands /\ phase = "idle"
  BY DEF Begin, MayStart
<1>5. files \in [Path -> TestHostContext \cup {Missing, Torn}] /\ data = None
  BY <1>1, <1>4, PhaseFacts DEF PlayTypeOK, Idle
<1>6. command' \in Command
  BY <1>4, <1>5 DEF Command
<1>7. count' \in 0 .. MaxCommands
  BY <1>1, <1>4, FilesAssumption DEF PlayTypeOK
<1>8. PlayTypeOK'
  BY <1>2, <1>3, <1>5, <1>6, <1>7 DEF PlayTypeOK, HostInv
<1>9. SavedAtRest'
  BY <1>1, <1>2 DEF SavedAtRest, Loadable
<1>10. LoadedContext' = ctx
  BY <1>4 DEF LoadedContext, get_context
<1>11. Grows(ctx, ctx)
  BY <1>1, ExtendsReflexive DEF Grows
<1>12. VmInv'
  BY <1>1, <1>2, <1>3, <1>4, <1>10, <1>11 DEF VmInv
<1> QED  BY <1>2, <1>8, <1>9, <1>12 DEF PlayInv

(* `remove` is about to write what it keeps.                               *)
LEMMA RemoveStarts ==
  ASSUME PlayInv, NEW input \in Path, NEW a \in Address, RemoveCommand(input, a)
  PROVE  PlayInv'
<1> DEFINE ctx == files[input]
           new == without(ctx, a)
<1>1. PlayTypeOK /\ SavedAtRest /\ MayStart(input) /\ input # None
  BY FilesAssumption DEF PlayInv, RemoveCommand
<1>2. ctx \in TestHostContext /\ ctx.depth = 0
  BY <1>1, LoadableFile DEF MayStart
<1>3. /\ files' = [files EXCEPT ![input] = Torn]
      /\ data' = new /\ phase' = "saving"
      /\ command' = [name |-> "remove", address |-> a, input |-> input,
                     output |-> input, before |-> files]
      /\ count' = count + 1 /\ count < MaxCommands
  BY <1>1 DEF RemoveCommand, Truncate, Begin, MayStart
<1>4. files \in [Path -> TestHostContext \cup {Missing, Torn}]
  BY <1>1 DEF PlayTypeOK
<1>5. new \in TestHostContext /\ new.depth = 0
  BY <1>2 DEF without, TestHostContext
<1>6. /\ files' \in [Path -> TestHostContext \cup {Missing, Torn}]
      /\ \A path \in Path : files'[path] = IF path = input THEN Torn ELSE files[path]
  BY <1>3, <1>4
<1>7. command' \in Command /\ command'.output = input
  BY <1>3, <1>4 DEF Command
<1>8. count' \in 0 .. MaxCommands
  BY <1>1, <1>3, FilesAssumption DEF PlayTypeOK
<1>9. PlayTypeOK'
  BY <1>1, <1>3, <1>5, <1>6, <1>7, <1>8 DEF PlayTypeOK
<1>10. SavedAtRest'
  BY <1>1, <1>6 DEF SavedAtRest, Loadable
<1>11. ToKeep' = new
  BY <1>1, <1>3 DEF ToKeep, LoadedContext, without
<1>12. SavingInv'
  BY <1>3, <1>5, <1>11, ExtendsReflexive DEF SavingInv
<1> QED  BY <1>3, <1>9, <1>10, <1>12 DEF PlayInv

LEMMA MachineStep ==
  ASSUME PlayInv, Machine
  PROVE  PlayInv'
<1>1. /\ PlayTypeOK /\ SavedAtRest /\ VmInv /\ phase = "vm"
      /\ outcome = "running" /\ Next /\ UNCHANGED commandVars
  BY DEF PlayInv, Machine
<1>2. /\ HostInv' /\ Grows(stack'[1].ctx, stack[1].ctx)
      /\ outcome' = "finished" => Len(stack') = 1
  BY <1>1, TransactionStep DEF VmInv
<1>3. /\ UNCHANGED <<files, phase, command, data, count>>
      /\ LoadedContext' = LoadedContext
  BY <1>1 DEF commandVars, LoadedContext
<1>4. PlayTypeOK'
  BY <1>1, <1>2, <1>3, PhaseFacts DEF PlayTypeOK, HostInv
<1>5. SavedAtRest'
  BY <1>1, <1>3 DEF SavedAtRest, Loadable
<1>6. Grows(stack'[1].ctx, LoadedContext)
  <2>1. stack[1] \in Frame /\ stack'[1] \in Frame
    <3>1. TypeOK /\ TypeOK'
      BY <1>1, <1>2 DEF VmInv, HostInv
    <3> QED  BY <3>1, EmptySeq, LenProperties, ElementOfSeq DEF TypeOK
  <2>2. stack[1].ctx \in TestHostContext /\ stack'[1].ctx \in TestHostContext
    BY <2>1 DEF Frame
  <2> QED  BY <1>1, <1>2, <2>2, ExtendsTransitive DEF Grows, VmInv
<1>7. VmInv'
  BY <1>1, <1>2, <1>3, <1>6 DEF VmInv
<1> QED  BY <1>1, <1>3, <1>4, <1>5, <1>7 DEF PlayInv

(* Dying and dropping leave the files as they are.                         *)
LEMMA ProcessGone ==
  ASSUME PlayInv, Reset, UNCHANGED files
  PROVE  PlayInv'
<1>1. PlayTypeOK /\ SavedAtRest
  BY DEF PlayInv
<1>2. Idle' /\ count' = count /\ phase' = "idle"
  BY DEF Reset, Idle
<1>3. PlayTypeOK'
  BY <1>1, <1>2 DEF PlayTypeOK
<1>4. SavedAtRest'
  BY <1>1 DEF SavedAtRest, Loadable
<1> QED  BY <1>2, <1>3, <1>4 DEF PlayInv

LEMMA BeginSaveStep ==
  ASSUME PlayInv, BeginSave
  PROVE  PlayInv'
<1>1. /\ PlayTypeOK /\ SavedAtRest /\ VmInv /\ phase = "vm"
      /\ outcome = "finished" /\ command.output # None
  BY DEF PlayInv, BeginSave
<1>2. /\ TypeOK /\ command \in Command /\ command.output \in Path
  BY <1>1, PhaseFacts DEF Command
<1>3. /\ files' = [files EXCEPT ![command.output] = Torn]
      /\ data' = Top.ctx /\ phase' = "saving"
      /\ UNCHANGED <<command, count>>
  BY DEF BeginSave, Truncate
<1>4. Top = stack[1] /\ Top.ctx \in TestHostContext
  BY <1>1, <1>2, TopFrame DEF VmInv, Frame
<1>5. Top.ctx.depth = 0 /\ Extends(Top.ctx, LoadedContext)
  BY <1>1, <1>4 DEF VmInv, Grows
<1>6. files \in [Path -> TestHostContext \cup {Missing, Torn}]
  BY <1>1 DEF PlayTypeOK
<1>7. /\ files' \in [Path -> TestHostContext \cup {Missing, Torn}]
      /\ \A path \in Path :
           files'[path] = IF path = command.output THEN Torn ELSE files[path]
  BY <1>2, <1>3, <1>6
<1>8. PlayTypeOK'
  BY <1>1, <1>2, <1>3, <1>4, <1>7 DEF PlayTypeOK
<1>9. SavedAtRest'
  BY <1>1, <1>7 DEF SavedAtRest, Loadable
<1>10. ToKeep' = LoadedContext
  BY <1>1, <1>3 DEF ToKeep, LoadedContext, VmInv
<1>11. SavingInv'
  BY <1>3, <1>5, <1>10 DEF SavingInv
<1> QED  BY <1>3, <1>8, <1>9, <1>11 DEF PlayInv

(* What EndSave puts where.                                                *)
LEMMA EndSaveFiles ==
  ASSUME PlayInv, EndSave
  PROVE  /\ files' \in [Path -> TestHostContext \cup {Missing, Torn}]
         /\ \A path \in Path :
              files'[path] = IF path = command.output THEN data ELSE files[path]
         /\ data \in TestHostContext /\ SavingInv
<1>1. PlayTypeOK /\ phase = "saving" /\ SavingInv
  BY DEF PlayInv, EndSave
<1>2. data \in TestHostContext /\ command.output \in Path
  BY <1>1, PhaseFacts
<1>3. files \in [Path -> TestHostContext \cup {Missing, Torn}]
  BY <1>1 DEF PlayTypeOK
<1>4. files' = [files EXCEPT ![command.output] = data]
  BY DEF EndSave
<1> QED  BY <1>1, <1>2, <1>3, <1>4

LEMMA EndSaveStep ==
  ASSUME PlayInv, EndSave
  PROVE  PlayInv'
<1>1. PlayTypeOK /\ SavedAtRest
  BY DEF PlayInv
<1>2. Idle' /\ count' = count /\ phase' = "idle"
  BY DEF EndSave, Reset, Idle
<1>3. PlayTypeOK'
  BY <1>1, <1>2, EndSaveFiles DEF PlayTypeOK
<1>4. SavedAtRest'
  BY <1>1, EndSaveFiles DEF SavedAtRest, Loadable, SavingInv
<1> QED  BY <1>2, <1>3, <1>4 DEF PlayInv

LEMMA PlayInvNext == PlayInv /\ [PlayNext]_allVars => PlayInv'
<1> SUFFICES ASSUME PlayInv, [PlayNext]_allVars PROVE PlayInv'
  OBVIOUS
<1>1. ASSUME NEW input \in Path \cup {None}, NEW output \in Path \cup {None},
             NEW a \in Address, CreateCommand(input, output, a)
      PROVE  PlayInv'
  BY <1>1, CommandStarts DEF CreateCommand
<1>2. ASSUME NEW input \in Path \cup {None}, NEW output \in Path \cup {None},
             NEW a \in Address, CallCommand(input, output, a)
      PROVE  PlayInv'
  BY <1>2, CommandStarts DEF CallCommand
<1>3. ASSUME NEW input \in Path, NEW a \in Address, RemoveCommand(input, a)
      PROVE  PlayInv'
  BY <1>3, RemoveStarts
<1>4. CASE Machine
  BY <1>4, MachineStep
<1>5. CASE Die
  BY <1>5, ProcessGone DEF Die
<1>6. CASE Drop
  BY <1>6, ProcessGone DEF Drop
<1>7. CASE BeginSave
  BY <1>7, BeginSaveStep
<1>8. CASE EndSave
  BY <1>8, EndSaveStep
<1>9. CASE UNCHANGED allVars
  BY <1>9 DEF allVars, vars, commandVars, PlayInv, PlayTypeOK, Idle, SavedAtRest,
              Loadable, VmInv, SavingInv, ToKeep, LoadedContext, HostInv, TypeOK,
              Lineage, FramesKeepIdentity, StackDiscipline, NoImpossiblePanic
<1> QED  BY <1>1, <1>2, <1>3, <1>4, <1>5, <1>6, <1>7, <1>8, <1>9 DEF PlayNext, Done

THEOREM PlayInvariance == PlaySpec => []PlayInv
<1> QED  BY PlayInvInit, PlayInvNext, PTL DEF PlaySpec

-----------------------------------------------------------------------------
(* The theorems.                                                           *)

(* Files, the running command and the transaction under it have their      *)
(* types, for any number of commands and paths.                            *)
THEOREM PlayTypeCorrect == PlaySpec => []PlayTypeOK
<1>1. PlayInv => PlayTypeOK
  BY DEF PlayInv
<1> QED  BY <1>1, PlayInvariance, PTL

(* Every file that can be loaded holds an outermost context, whatever      *)
(* nested contexts were merged into it before it was saved.                *)
THEOREM SavedAtRestHolds == PlaySpec => []SavedAtRest
<1>1. PlayInv => SavedAtRest
  BY DEF PlayInv
<1> QED  BY <1>1, PlayInvariance, PTL

(* A save writes back everything the command loaded, except the account    *)
(* `remove` was told to remove, through calls of any depth and number.     *)
THEOREM NothingForgottenHolds == PlaySpec => NothingForgotten
<1> DEFINE Step ==
             \A path \in Path :
               files[path] = Torn /\ files'[path] \in TestHostContext =>
                 Extends(files'[path], ToKeep)
<1>1. PlayInv /\ [PlayNext]_allVars => Step
  <2> SUFFICES ASSUME PlayInv, [PlayNext]_allVars, NEW path \in Path,
                      files[path] = Torn, files'[path] \in TestHostContext
               PROVE  Extends(files'[path], ToKeep)
    OBVIOUS
  <2>1. files'[path] # files[path]
    BY FilesAssumption
  <2>2. CASE EndSave
    BY <2>1, <2>2, EndSaveFiles DEF SavingInv
  <2>3. CASE \E p \in Path : files' = [files EXCEPT ![p] = Torn]
    <3>1. files \in [Path -> TestHostContext \cup {Missing, Torn}]
      BY DEF PlayInv, PlayTypeOK
    <3> QED  BY <2>1, <2>3, <3>1
  <2>4. CASE BeginSave
    <3>1. command.output \in Path
      BY <2>4, PhaseFacts DEF BeginSave, PlayInv, Command
    <3> QED  BY <2>3, <2>4, <3>1 DEF BeginSave, Truncate
  <2>5. ASSUME NEW input \in Path, NEW a \in Address, RemoveCommand(input, a)
        PROVE  \E p \in Path : files' = [files EXCEPT ![p] = Torn]
    BY <2>5 DEF RemoveCommand, Truncate
  <2>6. CASE files' = files
    BY <2>1, <2>6
  <2> QED
    BY <2>2, <2>3, <2>4, <2>5, <2>6
       DEF PlayNext, CreateCommand, CallCommand, Execute, Machine, commandVars, Die,
           Drop, Done, allVars
<1>2. PlayInv /\ [PlayNext]_allVars => [Step]_allVars
  BY <1>1
<1> QED  BY <1>2, PlayInvariance, PTL DEF PlaySpec, NothingForgotten

(* A command that ends before it opens its output has written no file.     *)
THEOREM AbortedCommandLeavesFilesHolds == PlaySpec => AbortedCommandLeavesFiles
<1> DEFINE Step == phase = "vm" /\ phase' = "idle" => files' = command.before
<1>1. PlayInv /\ [PlayNext]_allVars => [Step]_allVars
  <2> SUFFICES ASSUME PlayInv, PlayNext, phase = "vm", phase' = "idle"
               PROVE  files' = command.before
    OBVIOUS
  <2>1. files = command.before
    BY DEF PlayInv, VmInv
  <2>2. Machine \/ Die \/ Drop \/ BeginSave
    BY DEF PlayNext, CreateCommand, CallCommand, RemoveCommand, MayStart, EndSave, Done
  <2>3. files' = files
    BY <2>2 DEF Machine, commandVars, Die, Drop, BeginSave, Truncate
  <2> QED  BY <2>1, <2>3
<1> QED  BY <1>1, PlayInvariance, PTL DEF PlaySpec, AbortedCommandLeavesFiles

(* No command writes a file other than its output, at any point, so the    *)
(* file it loaded survives its death unless it was asked to overwrite it.  *)
THEOREM OnlyOutputIsWrittenHolds == PlaySpec => OnlyOutputIsWritten
<1> DEFINE Step == \A path \in Path : files'[path] # files[path] =>
                     path = (IF phase = "idle" THEN command' ELSE command).output
<1>1. PlayInv /\ [PlayNext]_allVars => [Step]_allVars
  <2> SUFFICES ASSUME PlayInv, PlayNext PROVE Step
    BY DEF allVars, commandVars
  <2>1. PlayTypeOK /\ files \in [Path -> TestHostContext \cup {Missing, Torn}]
    BY DEF PlayInv, PlayTypeOK
  <2>2. CASE \E input, output \in Path \cup {None}, a \in Address :
               CreateCommand(input, output, a) \/ CallCommand(input, output, a)
    <3>1. files' = files
      BY <2>2 DEF CreateCommand, CallCommand, Execute
    <3> QED  BY <3>1
  <2>3. CASE \E input \in Path, a \in Address : RemoveCommand(input, a)
    <3>1. PICK input \in Path, a \in Address : RemoveCommand(input, a)
      BY <2>3
    <3>2. /\ phase = "idle" /\ command'.output = input
          /\ \E content : files' = [files EXCEPT ![input] = content]
      BY <3>1 DEF RemoveCommand, MayStart, Begin, Truncate
    <3> QED  BY <2>1, <3>2
  <2>4. CASE BeginSave
    <3>1. /\ phase = "vm" /\ \E content : files' = [files EXCEPT ![command.output] = content]
      BY <2>4 DEF BeginSave, Truncate
    <3> QED  BY <2>1, <3>1
  <2>5. CASE EndSave
    <3>1. phase = "saving" /\ files' = [files EXCEPT ![command.output] = data]
      BY <2>5 DEF EndSave
    <3> QED  BY <2>1, <3>1
  <2>6. CASE Machine \/ Die \/ Drop \/ Done
    <3>1. files' = files
      BY <2>6 DEF Machine, Die, Drop, Done, commandVars, allVars
    <3> QED  BY <3>1
  <2> QED  BY <2>2, <2>3, <2>4, <2>5, <2>6 DEF PlayNext
<1> QED  BY <1>1, PlayInvariance, PTL DEF PlaySpec, OnlyOutputIsWritten
=============================================================================
