------------------------------ MODULE PlayEvmone ------------------------------
(***************************************************************************)
(* The play-evmone program over its lifetime: a user runs one command      *)
(* after another, and what the commands have in common is storage files.   *)
(* `create` and `call` load a context, run one transaction on it           *)
(* (HostCalls) and save it; `remove` edits a file in place.  The commands  *)
(* `list` and `show` and every command that fails before it runs the VM    *)
(* change nothing and have no action here.                                 *)
(*                                                                         *)
(* A file is saved with fs::write, which truncates it first: a process     *)
(* killed in between leaves a prefix of a JSON object, which serde_json    *)
(* refuses to load.                                                        *)
(***************************************************************************)
EXTENDS HostCalls

CONSTANTS
  Path,         \* storage files
  Missing,      \* a path that has no file
  Torn,         \* the content of a file whose writer was killed
  MaxCommands   \* bound: commands that get past their checks

ASSUME FilesAssumption ==
  /\ Missing \notin TestHostContext
  /\ Torn \notin TestHostContext
  /\ None \notin Path
  /\ MaxCommands \in Nat

VARIABLES
  files,     \* what each path holds
  phase,     \* "idle" between commands, "vm", or "saving"
  command,   \* the options of the running command and the files it met
  data,      \* the serialized context about to be written, or None
  count      \* commands started

commandVars == <<files, phase, command, data, count>>
allVars     == <<vars, commandVars>>

Command ==
  [name    : {"create", "call", "remove"},
   address : Address,
   input   : Path \cup {None},     \* --input-storage
   output  : Path \cup {None},     \* --output-storage
   before  : [Path -> TestHostContext \cup {Missing, Torn}]]

Loadable(path) == files[path] \notin {Missing, Torn}

(* No process runs, so no stack exists; the values are placeholders.       *)
Idle ==
  /\ stack = << >>
  /\ outcome = "finished"
  /\ gas = 0
  /\ result = None
  /\ phase = "idle"
  /\ command = None
  /\ data = None

PlayInit ==
  /\ Idle
  /\ files = [path \in Path |-> Missing]
  /\ count = 0

-----------------------------------------------------------------------------
(* A command starts.                                                       *)

(* What get_context loads; only `create` may do without an input file.     *)
get_context(input, address) ==
  IF input = None THEN TestHostContext_new(0, address) ELSE files[input]

MayStart(input) ==
  /\ phase = "idle"
  /\ count < MaxCommands
  /\ input # None => Loadable(input)

Begin(name, address, input, output) ==
  /\ command' = [name |-> name, address |-> address, input |-> input,
                 output |-> output, before |-> files]
  /\ count' = count + 1

(* The VM is called with the message main built, see TopMessages.          *)
EnterVm(ctx, msg) ==
  /\ stack' = <<[ctx |-> ctx, msg |-> msg, halted |-> FALSE]>>
  /\ outcome' = "running"
  /\ gas' = MaxGas
  /\ result' = None
  /\ phase' = "vm"

(* Mutant: the output file is opened for writing before the VM runs.       *)
Execute_opening_output(ctx, msg) ==
  /\ EnterVm(ctx, msg)
  /\ files' = IF command'.output = None THEN files
                                       ELSE [files EXCEPT ![command'.output] = Torn]
  /\ UNCHANGED data

Execute(ctx, msg) == EnterVm(ctx, msg) /\ UNCHANGED <<files, data>>

CreateCommand(input, output, address) ==
  /\ MayStart(input)
  /\ Begin("create", address, input, output)
  /\ LET ctx == get_context(input, address)
     IN  \E msg \in TopMessages(ctx) :
           msg.kind = "CREATE" /\ msg.destination = address /\ Execute(ctx, msg)

CallCommand(input, output, address) ==
  /\ input # None
  /\ MayStart(input)
  /\ Begin("call", address, input, output)
  /\ LET ctx == get_context(input, address)
     IN  \E msg \in TopMessages(ctx) :
           msg.kind = "CALL" /\ msg.destination = address /\ Execute(ctx, msg)

-----------------------------------------------------------------------------
(* The transaction and its end.                                            *)

(* One step of the VM or of a callback.                                    *)
Machine == phase = "vm" /\ outcome = "running" /\ Next /\ UNCHANGED commandVars

Reset ==
  /\ stack' = << >>
  /\ outcome' = "finished"
  /\ gas' = 0
  /\ result' = None
  /\ phase' = "idle"
  /\ command' = None
  /\ data' = None
  /\ UNCHANGED count

(* A panic, a failing fs::write or the user ends the process, also between *)
(* the end of the VM and the truncation of the output.                     *)
Die ==
  /\ phase # "idle"
  /\ Reset
  /\ UNCHANGED files

(* Without --output-storage the context is dropped with the process.       *)
Drop ==
  /\ phase = "vm" /\ outcome = "finished" /\ command.output = None
  /\ Reset
  /\ UNCHANGED files

-----------------------------------------------------------------------------
(* Saving.                                                                 *)

(* fs::write(path, content) opens the file, which truncates it, ...        *)
Truncate(path, content) ==
  /\ files' = [files EXCEPT ![path] = Torn]
  /\ data' = content
  /\ phase' = "saving"

(* Mutant: the context is saved where it was loaded from.                  *)
BeginSave_in_place ==
  /\ phase = "vm" /\ outcome = "finished" /\ command.output # None
  /\ Truncate(IF command.input = None THEN command.output ELSE command.input, Top.ctx)
  /\ UNCHANGED <<vars, command, count>>

BeginSave ==
  /\ phase = "vm" /\ outcome = "finished" /\ command.output # None
  /\ Truncate(command.output, Top.ctx)
  /\ UNCHANGED <<vars, command, count>>

(* `remove` deletes an account of its input file and writes it back.       *)
(* Mutant: the account taken out is written, not the context.              *)
without_swapped(ctx, a) == ctx.accounts[a]

without(ctx, a) == [ctx EXCEPT !.accounts[a] = None]

RemoveCommand(input, address) ==
  /\ MayStart(input)
  /\ files[input].accounts[address] # None
  /\ Truncate(input, without(files[input], address))
  /\ Begin("remove", address, input, input)
  /\ UNCHANGED vars

(* ... and then writes the content.                                        *)
EndSave ==
  /\ phase = "saving"
  /\ files' = [files EXCEPT ![command.output] = data]
  /\ Reset

Done == phase = "idle" /\ count = MaxCommands /\ UNCHANGED allVars

PlayNext ==
  \/ \E input, output \in Path \cup {None}, a \in Address :
       CreateCommand(input, output, a) \/ CallCommand(input, output, a)
  \/ \E input \in Path, a \in Address : RemoveCommand(input, a)
  \/ Machine
  \/ Die
  \/ Drop
  \/ BeginSave
  \/ EndSave
  \/ Done

PlaySpec == PlayInit /\ [][PlayNext]_allVars

-----------------------------------------------------------------------------
(* Properties                                                              *)

PlayTypeOK ==
  /\ files \in [Path -> TestHostContext \cup {Missing, Torn}]
  /\ count \in 0 .. MaxCommands
  /\ \/ Idle
     \/ phase = "vm" /\ TypeOK /\ command \in Command /\ data = None
     \/ /\ phase = "saving" /\ command \in Command /\ command.output # None
        /\ data \in TestHostContext

(* A storage file never holds the context of a nested frame, although the  *)
(* context that is saved was overwritten by theirs: its depth is the one   *)
(* TestHostContext::new gave it in get_context, so the next command's      *)
(* outermost context is an outermost one.                                  *)
SavedAtRest == \A path \in Path : Loadable(path) => files[path].depth = 0

(* Nothing a command loaded is missing from what it saves: accounts, code, *)
(* storage items, log entries, self-destructions; the account `remove` was *)
(* asked to remove is the one exception.                                   *)
LoadedContext ==
  IF command.input = None THEN TestHostContext_new(0, command.address)
                          ELSE command.before[command.input]

ToKeep ==
  IF command.name = "remove"
    THEN [LoadedContext EXCEPT !.accounts[command.address] = None]
    ELSE LoadedContext

NothingForgotten ==
  [][\A path \in Path :
       files[path] = Torn /\ files'[path] \in TestHostContext =>
         Extends(files'[path], ToKeep)]_allVars

(* A command that panics or is killed while its transaction runs, or after *)
(* it but before the output is opened, leaves every file as it found it,   *)
(* whatever the transaction did; so does one without --output-storage.     *)
AbortedCommandLeavesFiles ==
  [][phase = "vm" /\ phase' = "idle" => files' = command.before]_allVars

(* A command writes no file but its output, so with an output other than   *)
(* its input the state it loaded survives a kill at any point: fs::write   *)
(* has already truncated the file it is about to fill (main.rs:183).       *)
OnlyOutputIsWritten ==
  [][\A path \in Path : files'[path] # files[path] =>
       path = (IF phase = "idle" THEN command' ELSE command).output]_allVars

(* "Current account's address" (main.rs:394): the outermost context names  *)
(* the contract the command runs.  get_context sets it only in a context   *)
(* it makes; one it loads keeps the address of an earlier command.         *)
CurrentAccountIsCalled ==
  phase = "vm" => stack[1].ctx.current_account = stack[1].msg.destination
=============================================================================
