------------------------------ MODULE HostCalls ------------------------------
(***************************************************************************)
(* One EVM transaction as play-evmone runs it: `create` or `call` hands    *)
(* evmone a message and a boxed TestHostContext; evmone answers with       *)
(* callbacks on that context.  The `call` callback clones the context,     *)
(* creates a second VM, runs the callee on the clone and copies the clone's*)
(* accounts back (TestHostContext::update) when the callee ends.  The      *)
(* frames of this recursion are the variable stack; only the last one      *)
(* runs, the ones below wait inside their `call` callback.                 *)
(*                                                                         *)
(* evmone itself is external: its byte code may ask for any callback its   *)
(* own checks allow, in any order, and end with any status.  The model     *)
(* bounds how many callbacks one transaction makes (MaxGas), how deep it   *)
(* nests (MaxDepth, 1024 in evmone) and who may create (Creators).         *)
(***************************************************************************)
EXTENDS HostState

CONSTANTS
  Origin,      \* Address([128u8; 20]), the literal at lines 163 and 226
  Loaded,      \* the contexts a command may start from, see Begin
  Creators,    \* bound: the contracts whose CREATE instructions are explored
  AddressOf,   \* keccak(rlp([sender, nonce])), the address CREATE computes
  MaxGas,      \* bound: callbacks that cost gas, per transaction
  MaxDepth     \* bound: the deepest message evmone sends

ASSUME CallsAssumption ==
  /\ Origin \in Address
  /\ Loaded \subseteq TestHostContext
  /\ Creators \subseteq Address
  /\ AddressOf \in [Creators \X Nonce -> Address]
  /\ MaxGas \in Nat
  /\ MaxDepth \in Nat

VARIABLES
  stack,    \* the call frames, the running one last
  outcome,  \* "running", "finished", or the panic that aborted the process
  gas,      \* callbacks the transaction can still pay for
  result    \* the last ExecutionResult handed to a VM or to main, or None

vars == <<stack, outcome, gas, result>>

CreateKinds == {"CREATE", "CREATE2"}
CallKinds   == {"CALL", "DELEGATECALL", "CALLCODE"}
Status      == {"success", "failure"}   \* failure: every other code, REVERT too
Panics      == {"no_account", "no_code", "invalid_storage", "shrunk", "destructed_live"}

Message ==
  [kind        : CreateKinds \cup CallKinds,
   static      : BOOLEAN,
   depth       : Nat,
   sender      : Address,
   destination : Address]

(* ctx is the boxed context, msg the message the frame's VM runs; halted   *)
(* is set once that VM has executed SELFDESTRUCT and may only end.         *)
Frame == [ctx : TestHostContext, msg : Message, halted : BOOLEAN]

Top    == Last(stack)
Caller == stack[Len(stack) - 1]
Self   == Top.msg.destination

is_create(msg) == msg.kind \in CreateKinds

-----------------------------------------------------------------------------
(* The transaction starts.                                                 *)

(* main builds the outermost message.  `create` refuses an address that    *)
(* has code, `call` unwraps the code of its destination, so the command    *)
(* gets to the VM only from a context that fits it.                        *)
TopMessages(ctx) ==
  {[kind |-> "CREATE", static |-> FALSE, depth |-> 0, sender |-> Origin,
    destination |-> a] : a \in {b \in Address : ~contract_exists(ctx, b)}}
  \cup
  {[kind |-> "CALL", static |-> s, depth |-> 0, sender |-> Origin,
    destination |-> a] : s \in BOOLEAN, a \in {b \in Address : contract_exists(ctx, b)}}

Init ==
  /\ \E ctx \in Loaded : \E msg \in TopMessages(ctx) :
       stack = <<[ctx |-> ctx, msg |-> msg, halted |-> FALSE]>>
  /\ outcome = "running"
  /\ gas = MaxGas
  /\ result = None

-----------------------------------------------------------------------------
(* Callbacks that change the running frame's context.                      *)

Executing == outcome = "running" /\ gas > 0 /\ ~Top.halted

(* evmone refuses state-changing instructions in static mode itself.       *)
MayModify == Executing /\ ~Top.msg.static

SetTop(ctx, halted) ==
  stack' = [stack EXCEPT ![Len(stack)] =
              [ctx |-> ctx, msg |-> Top.msg, halted |-> halted]]

SetStorage(key, value) ==
  /\ MayModify
  /\ SetTop(set_storage(Top.ctx, Self, key, value), FALSE)
  /\ outcome' = IF storage_status(Top.ctx, Self, key, value) = "invalid"
                  THEN "invalid_storage" ELSE outcome
  /\ gas' = gas - 1
  /\ UNCHANGED result

EmitLog(e) ==
  /\ MayModify
  /\ SetTop(emit_log(Top.ctx, Self, e), FALSE)
  /\ gas' = gas - 1
  /\ UNCHANGED <<outcome, result>>

SelfDestruct ==
  /\ MayModify
  /\ SetTop(selfdestruct(Top.ctx, Self), TRUE)
  /\ gas' = gas - 1
  /\ UNCHANGED <<outcome, result>>

-----------------------------------------------------------------------------
(* The `call` callback, up to the point where the callee's VM starts.      *)

(* The messages evmone sends on behalf of the running frame: one deeper,   *)
(* static if the caller is or if the instruction is STATICCALL, and with   *)
(* the caller's own sender for DELEGATECALL.                               *)
Messages ==
  LET Request(kind, static, destination) ==
        [kind        |-> kind,
         static      |-> static,
         depth       |-> Top.msg.depth + 1,
         sender      |-> IF kind = "DELEGATECALL" THEN Top.msg.sender ELSE Self,
         destination |-> destination]
  IN  {Request(k, Top.msg.static, a) : k \in CallKinds, a \in Address}
      \cup {Request("CALL", TRUE, a) : a \in Address}
      \cup {Request(k, FALSE, NullAddress) :
              k \in IF Top.msg.static \/ Self \notin Creators THEN {} ELSE CreateKinds}

(* Mutant: CREATE2, still a FIXME in the code, yields no address.          *)
destination_unimplemented(msg, nonce) ==
  CASE msg.kind = "CREATE"  -> AddressOf[msg.sender, nonce]
    [] msg.kind = "CREATE2" -> None
    [] OTHER                -> msg.destination

destination(msg, nonce) ==
  CASE msg.kind = "CREATE"  -> AddressOf[msg.sender, nonce]
    [] msg.kind = "CREATE2" -> NullAddress
    [] OTHER                -> msg.destination

(* The sender's account is inserted before anything else is looked at.     *)
(* Mutant: insert instead of or_insert_with.                               *)
touch_overwriting(ctx, a) == [ctx EXCEPT !.accounts[a] = AccountData_new]

touch(ctx, a) == [ctx EXCEPT !.accounts[a] = entry(ctx.accounts, a)]

(* The lookup of the callee's code; a create runs its own input data.      *)
code_check(ctx, msg) ==
  CASE is_create(msg) -> "running"
    [] ~is_create(msg) /\ ctx.accounts[msg.destination] = None -> "no_account"
    [] ~is_create(msg) /\ ctx.accounts[msg.destination] # None ->
         IF contract_exists(ctx, msg.destination) THEN "running" ELSE "no_code"

(* Mutant: the callee starts without the record of self-destructions.      *)
child_context_new(self, msg) ==
  [TestHostContext_new(msg.depth + 1, msg.destination) EXCEPT
     !.accounts = self.accounts]

(* The context the callee runs on, a clone of the caller's.                *)
child_context(self, msg) ==
  [self EXCEPT !.depth = msg.depth + 1, !.current_account = msg.destination]

Call(request) ==
  /\ Executing
  /\ Top.msg.depth < MaxDepth
  /\ gas' = gas - 1
  /\ UNCHANGED result
  /\ LET self   == touch(Top.ctx, request.sender)
         callee == destination(request, self.accounts[request.sender].nonce)
         msg    == [request EXCEPT !.destination = callee]
         suspended == [stack EXCEPT ![Len(stack)] = [Top EXCEPT !.ctx = self]]
         nested == [ctx |-> child_context(self, msg), msg |-> msg, halted |-> FALSE]
     IN  /\ outcome' = code_check(self, msg)
         /\ stack' = IF outcome' = "running" THEN Append(suspended, nested)
                                              ELSE suspended

-----------------------------------------------------------------------------
(* The running VM ends.                                                    *)

(* SELFDESTRUCT ends its frame with success and without output.            *)
MayEnd(status, output) ==
  /\ outcome = "running"
  /\ Top.halted => status = "success" /\ output = EmptyCode

(* Mutant: the status is not looked at.                                    *)
after_execute_any_status(frame, status, output) ==
  IF is_create(frame.msg)
    THEN update_code(frame.ctx, frame.msg.destination, output)
    ELSE frame.ctx

(* Mutant: the kind of the message is not looked at.                       *)
after_execute_any_kind(frame, status, output) ==
  IF status = "success"
    THEN update_code(frame.ctx, frame.msg.destination, output)
    ELSE frame.ctx

(* A successful creation stores the VM's output as the new account's code. *)
after_execute(frame, status, output) ==
  IF status = "success" /\ is_create(frame.msg)
    THEN update_code(frame.ctx, frame.msg.destination, output)
    ELSE frame.ctx

(* A nested VM ends: the rest of the `call` callback runs and the caller's *)
(* VM goes on with the result.  The callee's address is put into           *)
(* create_address and its context is merged whatever the status is.        *)
Return(status, output) ==
  /\ Len(stack) > 1
  /\ MayEnd(status, output)
  /\ LET child == after_execute(Top, status, output)
         self  == Caller.ctx
     IN  /\ outcome' = update_check(self, child)
         /\ stack' =
              IF outcome' = "running"
                THEN [Front(stack) EXCEPT ![Len(stack) - 1].ctx = update(self, child)]
                ELSE [stack EXCEPT ![Len(stack)].ctx = child]
  /\ result' = IF outcome' = "running"
                 THEN [status |-> status, create_address |-> Self]
                 ELSE result
  /\ UNCHANGED gas

(* The outermost VM ends and main stores the code of a created contract.   *)
(* evmone leaves create_address null, which main asserts.                  *)
Finish(status, output) ==
  /\ Len(stack) = 1
  /\ MayEnd(status, output)
  /\ SetTop(after_execute(Top, status, output), Top.halted)
  /\ outcome' = "finished"
  /\ result' = [status |-> status, create_address |-> NullAddress]
  /\ UNCHANGED gas

(* The process is gone once main returns or a panic reaches evmone.        *)
Terminated == outcome # "running" /\ UNCHANGED vars

Next ==
  \/ \E key \in Key, value \in Word : SetStorage(key, value)
  \/ \E e \in Entry : EmitLog(e)
  \/ SelfDestruct
  \/ \E request \in Messages : Call(request)
  \/ \E status \in Status, output \in Code : Return(status, output)
  \/ \E status \in Status, output \in Code : Finish(status, output)
  \/ Terminated

Spec == Init /\ [][Next]_vars

-----------------------------------------------------------------------------
(* Properties                                                              *)

TypeOK ==
  /\ stack \in Seq(Frame)
  /\ stack # << >>
  /\ outcome \in {"running", "finished"} \cup Panics
  /\ gas \in 0 .. MaxGas
  /\ result \in [status : Status, create_address : Address] \cup {None}

(* update() overwrites the caller's accounts with the callee's and says    *)
(* "We assume the `other` account always have latest state"                *)
(* (main.rs:427).  The assumption: whatever a suspended caller holds, the  *)
(* frame above it holds too, so overwriting it loses nothing.              *)
Lineage ==
  \A i \in 1 .. Len(stack) - 1 : Extends(stack[i + 1].ctx, stack[i].ctx)

(* update()'s length check and set_storage's match both end in a panic     *)
(* the code treats as impossible.  Neither is ever taken.                  *)
NoImpossiblePanic == outcome \notin {"shrunk", "invalid_storage"}

(* The world the running frame's callbacks show.                           *)
World == INSTANCE World WITH
  storage    <- StorageOf(Top.ctx),
  code       <- CodeOf(Top.ctx),
  logs       <- LogsOf(Top.ctx),
  destructed <- Top.ctx.destructed_accounts

(* The stack of clones behaves like one flat world changed in place: each  *)
(* step of a callback shows at most one effect, so a merge neither loses   *)
(* several, repeats them nor brings old ones back together.  Which effect  *)
(* belongs to which step is for ReadsLastWrite and OnlyCreationDeploys.    *)
ImplementsWorld == World!Spec

(* While a static frame is on the stack nothing changes that a callback    *)
(* answers: neither by the frame itself nor by its callees at any depth,   *)
(* although its calls insert blank accounts, which a saved file does show, *)
(* and the callees' contexts replace their callers'.                       *)
StaticReadOnly ==
  [][(\E i \in DOMAIN stack : stack[i].msg.static) => UNCHANGED World!vars]_vars

(* Code appears or changes only at the destination of a creation, and only *)
(* when the creation succeeded; a panic on the way back is no exception.   *)
OnlyCreationDeploys ==
  [][\A a \in Address : CodeOf(Top.ctx)[a]' # CodeOf(Top.ctx)[a] =>
       /\ is_create(Top.msg) /\ a = Self
       /\ outcome' \in {"running", "finished"} => result'.status = "success"]_vars

(* A nested frame's context names the contract it runs and its depth, also *)
(* after the frame has merged the contexts of its own callees.             *)
FramesKeepIdentity ==
  \A i \in 2 .. Len(stack) :
    /\ stack[i].ctx.current_account = stack[i].msg.destination
    /\ stack[i].ctx.depth = i
    /\ stack[i].msg.depth = i - 1

(* The panic "Invalid state for context" (main.rs:438) asserts that a      *)
(* destructed account is not among the accounts of the context update      *)
(* merges.  selfdestruct (main.rs:572) leaves the account where it is.     *)
DestructedAreGone == outcome # "destructed_live"

(* evmc.h:401 says of create_address: valid only in the result of a        *)
(* successful contract creation, "In all other cases the address MUST be   *)
(* null bytes."  call sets it for every kind and status (main.rs:567).     *)
CreateAddressOnlyForCreations ==
  [][result' # result /\ result'.create_address # NullAddress =>
       is_create(Top.msg) /\ result'.status = "success"]_vars

(* `create` refuses an address with code, "Contract already exists"        *)
(* (main.rs:141).  A nested CREATE has no such check, and as no code ever  *)
(* advances a nonce, its address is always the one computed from nonce 0.  *)
NoContractReplaced ==
  [][\A a \in Address : Top.msg.kind = "CREATE" /\ CodeOf(Top.ctx)[a] # None =>
       CodeOf(Top.ctx)[a]' = CodeOf(Top.ctx)[a]]_vars
=============================================================================
