# A verification of play-evmone

`play-evmone` is a command line program around the `evmone` virtual machine. It
keeps a simulated chain (accounts, code, storage, logs) in a JSON file, runs one
transaction on it per command, and answers the callbacks of the VM while the
transaction runs. This directory holds TLA+ modules that model it, TLC
configurations that check them on small instances, and proofs that TLAPS checks
for every value of the constants. Paths below are relative to the repository.

## 1. Inventory

### Components

| Component | Source | State | Operations |
|---|---|---|---|
| Host data | `src/main.rs` 327-448, 474-512, 572-595 | `TestHostContext`: `depth`, `current_account`, `accounts` (nonce, code, storage, logs each), `destructed_accounts` | `get_storage`, `set_storage`, `emit_log`, `selfdestruct`, `update_code`, `contract_exists`, `update` |
| Nested execution | `src/main.rs` 519-570, `src/evmc.rs` 33-59, 284-300 | one boxed context and one message per call frame, on the stack of the process | the `call` callback: clone, run a second VM, merge; `ExecutionMessage::destination` |
| Commands and the storage file | `src/main.rs` 34-299 | the JSON files; within a command its options and its context | `create`, `call`, `remove`, `list`, `show` |
| Storage status protocol | `src/main.rs` 345-353, 505-511; `evmc.h` 455-485 | `modify_time` of every storage item | the status `set_storage` reports, on which the VM charges and refunds gas |
| Query callbacks | `src/main.rs` 455-481, 514-517, 597-620 | none | `get_storage`; the others answer constants |
| Ownership across the C interface | `src/evmc.rs` 199-268, 322-374, 393-529 | who owns a boxed context, an output buffer, a VM (nobody destroys one) | `HostContextPtr`, `HostContextWrapper`, the conversions of results |
| Hexadecimal codec | `src/evmc.rs` 61-197, `src/main.rs` 301-319, `src/abi_cmd.rs` 229-237 | a field: its text in the file, its bytes in memory | `visit_str`, `serialize`, `parse_bytes`, `load_binary`, `remove_0x` |
| ABI tokens | `src/abi.rs` | the tokens parsed so far, the JSON written so far | `parse_tokens`, the pairing of parameters and values, the three decoders |
| ABI commands | `src/abi_cmd.rs` | the options of one command | `encode function`, `constructor`, `params`; `decode params`, `function`, `log` |
| Library search | `build.rs` | the position in a list of folders | `first_path_with_file`, `is_file_in`, the verdict of `main` |
| `evmone`, EVMC headers | `include/` | external | the instructions that cause callbacks |

### How they interact

`main` loads a context from a file (or makes one), boxes it and hands the box to
`evmone` with a message. `evmone` runs byte code and calls back through a table of
`extern "C"` functions, each of which rebuilds the box, calls the method of
`HostContext` and forgets the box again. The callback `call` is recursive: it
clones the context, makes a second VM, runs the callee on the clone, and when the
callee ends copies the clone's accounts over its own with `update`. When the
outermost VM ends, `main` stores the code of a created contract and writes the
context to the output file with `fs::write`.

Nothing runs concurrently: there is one thread, and a suspended frame cannot be
entered. What is hard is

* *copies*: at depth *n* there are *n* versions of every account, and `update`
  overwrites the older with the newer on the unchecked assumption that the newer
  one is the newer one (`src/main.rs:427`);
* *order*: the sender's account is inserted before anything is checked, the
  clone is taken after that, code is stored before the merge;
* *failure*: effects of a callee that reverted are merged all the same, and
  five different panics can end the process in the middle of a transaction;
* *persistence*: files are rewritten as a whole, by a call that truncates first,
  and fields that belong to one command or one frame (`depth`,
  `current_account`) are stored with the data;
* *ownership*: C sees contexts and outputs as raw pointers, and at depth *n* there
  are *n* boxes, each owned once and rebuilt in passing by every callback;
* *text*: bytes and numbers cross the command line and the file as digits, with
  prefixes, widths and escapes that three readers treat in three ways;
* *longevity*: `modify_time`, `nonce` and `destructed_accounts` outlive the
  transaction although they describe one.

### What makes each component correct

* Host data: the match of `set_storage` never reaches its panic; the operations
  only ever add.
* Nested execution: the recursion of clones is indistinguishable from one world
  changed in place; a static call changes nothing; only successful creations
  deploy code; each frame keeps its identity; the panics meant as assertions are
  not taken.
* Commands: a save loses nothing; what is saved can start the next command; a
  command that dies leaves the files alone.
* Storage status protocol: the status reported is the one `evmc.h` defines for
  the change made (it is not, see 6.5); what it does keep is that a status never
  denies a change and that `modify_time` counts changes.
* Queries: what is read is what was last written, by whichever frame.
* Ownership: every box has one owner, is never used after it was freed, freed once
  and freed in the end; so is the copy of every output.
* Codec: what is saved can be loaded and is the value it was; a value is the one
  its text spells.
* ABI: numbers in range become the words that stand for them, the printed values
  are the decoded ones, and nothing harmless makes a command fail.
* Library search: the first folder in the promised order that holds the file.

## 2. Modules

```
 HostState  <---- HostCalls <---- PlayEvmone        EXTENDS
   ^   ^            ^   \            World           INSTANCE ... WITH
   |   |            |
   |   |        HostQueries
   |  StorageStatus
   |
 HostStateProofs <- HostCallsProofs <- PlayEvmoneProofs
        ^           (of HostQueries)
   StorageStatusProofs

 FfiOwnership ---> Ownership    (INSTANCE, twice)      FfiOwnershipProofs
 AbiCommands ----> AbiEncode, AbiDecode  (INSTANCE)    AbiCommandsProofs
 HexCodec                                              HexCodecProofs
 LibrarySearch                                         LibrarySearchProofs
```

`MC...` modules give constants the values TLC uses.

**HostState** holds the data and the pure operations on it. A `HashMap` is a
total function with `None` at absent keys, so `entry` is the
`entry().or_insert_with()` every writer uses. Bytes of code, keys and values are
members of small sets. `storage_status` is the match at the end of
`set_storage`, its panic included; `update` and `update_check` are the copying
and the checks of `TestHostContext::update`. `Extends(new, old)` says what it
means for one context to hold all that another holds; it is the notion behind
the invariants.

**HostCalls** is one transaction. `stack` is the recursion of VMs: each frame has
its boxed context, its message, and whether its VM has executed SELFDESTRUCT.
The actions are the callbacks that change something (`SetStorage`, `EmitLog`,
`SelfDestruct`), the two halves of the `call` callback around `vm.execute`
(`Call` and `Return`), and the end of the outermost VM (`Finish`). Between the
halves any sequence of callbacks of the callee may happen, so they are two
actions; everything else of a callback is one. `outcome` names the panic that
ended the process: a panic that reaches an `extern "C"` function cannot unwind
into the VM, and is modelled as the end of the process. `evmone` is external.
The model lets its byte code do whatever `evmone`'s own checks allow: no
state-changing instruction in static mode, messages one deeper than the frame
that sends them, the caller's sender for DELEGATECALL, any status and output at
the end (the host only compares the status with `EVMC_SUCCESS`, so `failure`
stands for all the others), except after SELFDESTRUCT, which ends the frame successfully and
without output.

**World** is the abstract specification: four functions (storage, code, logs,
self-destructions) that contracts change in place, one callback at a time, with
neither stack nor copies nor merges. `HostCalls!World` is the refinement
mapping: what the running frame's callbacks would show.

**PlayEvmone** is the program across commands: a directory of storage files, each
`Missing`, holding a context, or `Torn` (truncated by a writer that did not
finish). `CreateCommand` and `CallCommand` load a context and enter the VM,
`Machine` is one step of `HostCalls`, `Drop` and `BeginSave` are the two ends of a
command, `RemoveCommand` the only command that runs no VM and writes, `EndSave`
the second half of `fs::write`, and `Die` a panic, a failing `fs::write` or a
signal at any point, also between the end of the VM and the truncation.
`command.before` remembers the files a command met.

**HostQueries** adds the callbacks that only ask to those of HostCalls. An answer is
what the VM would be told if it asked now, so `GetStorage` is a state function,
and a property of its answers an invariant. `Query` is the step of asking: it
costs gas and changes nothing. The callbacks that answer constants,
`get_tx_context` among them, have no definition of their own, because the byte
code may do anything after any answer. `written` is a history variable: the last value any frame wrote to an
item.

**StorageStatus** follows the items of one context over all the writes of its life, a
save and a load between any two of them, with the operators of HostState.
`history` keeps what each write did and what was reported; `original` is what the
items held when the running transaction began, which is what `evmc.h` measures a
change against and the code does not keep.

**FfiOwnership** is the same recursion of frames as HostCalls, seen from the C
interface: a context is a box that is made (`HostContextPtr_from`), wrapped and
unwrapped by every callback (`HostContextWrapper_from`, `_drop`), and freed
(`HostContextPtr_drop`); an output is copied into a `Vec`, handed on as a raw
pointer (`evmc_result_from`) and released by the caller's VM. Counters, not
flags, are kept for wrappers and frees, so a second free is a state the model can
reach. A frame's `at` is its place in the code, from its VM through the steps that
follow `vm.execute`; the actions are the places where ownership changes. The
order of `Unwrap` before `Leave` is Rust's: locals are dropped in the reverse
order of their declaration.

**Ownership** is the abstract specification, in one variable: unborn, owned,
borrowed, freed. FfiOwnership instantiates it for contexts and for copied
outputs.

**HexCodec** is the life of one field of text: read once as the user wrote it by one
of four readers (types of fixed size and byte strings in the file, `--data` of
`decode params`, a binary file), then saved and loaded over and over if it is
a field of the file. Texts are sequences of characters and bytes pairs of digits.
`digits` is what each reader takes from a text: a prefix of two characters comes
off where the reader knows it, and `load_binary` trims whitespace from both ends
of its file. The crate `hex` is external.

**AbiCommands** is one run of an `ethabi` command; **AbiEncode** and **AbiDecode** are the
two kinds. AbiEncode parses value after value: `ParseInteger` is the part of
`parse_tokens` that this program does itself, with its two's complement and fill
digits, at a scaled word; that it panics is not stated but follows from the
arithmetic, as a sum outside the word (`Overflows`). `ParseOther` is a type the
tokenizers of `ethabi` parse, or any type under `--no-lenient`: they make a token
or refuse the text, as they please. `zip` and the check of the number of tokens
follow. The encoding of tokens is the crate's. AbiDecode starts from
any values the crate may decode, writes each into JSON the way the command does
(`render`) and reads it back the way `serde_json` does (`from_str`), over an
alphabet with one character for each way JSON and Rust escape: plain ones,
apostrophes, quotes, backslashes, ends of lines (with tabs), other control
characters, and all beyond ASCII.

**LibrarySearch** is `build.rs`: folder after folder, a hit or none, and what `main`
makes of it.

`PROJECT.json` maps every definition to the lines it stands for.

## 3. Runs

| Run | Property | What it shows |
|---|---|---|
| `HostCalls` (of HostQueries) | `TypeOK`, `Lineage`, `NoImpossiblePanic`, `FramesKeepIdentity`, `ReadsLastWrite`, `ImplementsWorld`, `StaticReadOnly`, `OnlyCreationDeploys` | clone and merge are correct at every point of every transaction, with all twelve callbacks |
| `PlayEvmone` | `PlayTypeOK`, `SavedAtRest`, `NothingForgotten`, `AbortedCommandLeavesFiles`, `OnlyOutputIsWritten` | the files stay sound across commands and deaths |
| `FfiOwnership` | `TypeOK`, `FramesOwnBoxes`, `NothingLeaks`, `ContextsAreOwned`, `CopiesAreOwned`, `EverythingFreed` | raw pointers keep the discipline of owned values, and no context or copy of an output is leaked |
| `StorageStatus` | `TypeOK`, `StatusTellsChange`, `Ladder`, `TimeCountsChanges` | what the reported statuses do promise |
| `HexCodec` | `TypeOK`, `SavedLoads`, `MeansWhatItSpells`, `ValueKept` | fields survive being saved and loaded |
| `AbiCommands` | `TypeOK`, `EncodesItsValues`, `OnlyMinusZeroPanics`, `ParamsPrintsValues`, `HarmlessValuesPrinted` | what the six commands get right, and for which values |
| `LibrarySearch` | `TypeOK`, `FirstIsFound`, `FailsAtFirst` | the order of the search, and when it fails |
| `DestructedAreGone` | itself, violated | see 6.1 |
| `CreateAddressOnlyForCreations` | itself, violated | see 6.2 |
| `NoContractReplaced` | itself, violated | see 6.3 |
| `CurrentAccountIsCalled` | itself, violated | see 6.4 |
| `CleanWritesConform` | itself, violated | see 6.5 |

The properties, in words:

* `Lineage`: whatever a suspended caller holds, the frame above it holds too:
  accounts, code, storage items (newer if different), a longer or equal log and
  record of self-destructions. This is the assumption `update` makes.
* `NoImpossiblePanic`: neither `update`'s length check nor the match of
  `set_storage` panics.
* `FramesKeepIdentity`: a nested context names the contract it runs and its depth,
  also after merging the contexts of its own callees.
* `ImplementsWorld`: the stack of clones behaves like one flat world: each step
  shows one effect of one callback at most, and no merge a mixture of them. Which
  effect a return may show is not World's to say: that it takes no write back is
  `ReadsLastWrite`, that it deploys nothing but a creation's code
  `OnlyCreationDeploys`.
* `StaticReadOnly`: while any frame on the stack is static nothing that a callback
  could show changes, though its calls insert accounts and its callees' contexts replace
  their callers'.
* `OnlyCreationDeploys`: code changes only at the destination of a creation that
  succeeded.
* `SavedAtRest`: a loadable file holds depth 0, so the next command's outermost
  frame is one.
* `NothingForgotten`: what is saved holds all that was loaded, except the account
  `remove` was told to remove.
* `AbortedCommandLeavesFiles`: a command that panics or is killed in its
  transaction, or after it before the output is opened, leaves every file as it
  found it.
* `OnlyOutputIsWritten`: no step of a command, the death of a half-finished write
  included, changes a file it was not to write; with another output file the
  input file survives everything.
* `ReadsLastWrite`: `get_storage` answers the last write of any frame, a failed one
  included, through every clone and merge.
* `StatusTellsChange`, `Ladder`, `TimeCountsChanges`: a status is never wrong about
  whether something changed, except that "added" is reported of writes that change
  nothing too (0 -> 0, and repetitions of the first write); over a
  whole life the statuses climb from added over one modified to modified again;
  `modify_time` is the number of visible changes after the first write.
* `FramesOwnBoxes`: the living boxes are those of the frames on the stack, one
  each, and none is wrapped while its VM runs byte code. `ContextsAreOwned`,
  `CopiesAreOwned`: each box, and the copy of each output, steps through `Ownership`
  only. `NothingLeaks`: when the transaction is finished each has been freed, unless
  the output became the code of a contract. `EverythingFreed`: each that lives is
  freed in the end, unless a panic aborts the process.
* `SavedLoads`: no field the program wrote is refused or makes it panic.
  `MeansWhatItSpells`: the value in memory is the one its text spells, digit by
  digit, and besides the digits the text has a prefix only, or in a binary file
  whitespace around them. `ValueKept`: no save or load changes a value.
* `EncodesItsValues`: call data has a token for every parameter; a uint is encoded
  as the number its text gives, and so is an int in the range of a word.
  `OnlyMinusZeroPanics`: a minus sign before zero is the only text whose word
  overflows.
* `ParamsPrintsValues`: `decode params` prints the decoded values, though
  it escapes by other rules than JSON's. `HarmlessValuesPrinted`: a command
  panics only on a value with a character that its escaping gets wrong.
* `FirstIsFound`: the folder given to cargo is the first in order that holds the
  file. `FailsAtFirst`: a library that is there is missed only if the first folder
  that holds it has no UTF-8 name.

Each of these is also checked to fail for a plausible mistake in the code, which
`PROJECT.json` lists as mutants (an `update` that keeps the caller's accounts, a
callee's context made afresh, `insert` for `or_insert_with`, and so on).

### Bounds

| Constant | `HostCalls` | `PlayEvmone` | Why it is enough |
|---|---|---|---|
| `Address` | caller, callee, created, null, sender | without the callee | every role an address can have is a different one, and any may call any, itself included |
| `Key`, `Word`, `Entry` | 1, 2, 1 | the same | slots are independent; two values make "changed" and "unchanged" |
| `Code` | empty and one other | the same | code is compared with `None` only |
| `MaxDepth` | 2 (three frames) | 1 (two frames) | three frames make an effect pass two merges and a frame be caller and callee at once |
| `MaxGas` | 4 callbacks that cost gas | 2 | two calls down and an effect at the bottom, with one to spare before or after; two commands repeat this |
| `MaxCommands` | - | 2 | one to make a file, one to meet it; the program keeps nothing else between commands |
| `Creators` | one contract | the same | the address of a creation depends on nothing else |
| `Loaded` | none, two contracts with a stored item, one with a recorded self-destruction | not used | the files an earlier command can leave |
| `Path` | - | 2 | the input file and another |

`Nonce` is `{0}` because no code ever advances a nonce. Addresses have roles, so they
are not symmetric. The two files of `PlayEvmone` are interchangeable: every
definition and property treats all alike, so `SYMMETRY` is sound (no liveness is
checked there).

| Run | Bounds | Why they are enough |
|---|---|---|
| `FfiOwnership` | five callbacks, four frames | three calls in each other and two queries, or calls one after the other that reuse nothing; the theorems cover every number |
| `StorageStatus` | one item, three values, five writes | items are independent; a third value tells "changed again" from "changed back"; five writes pass every rung of the statuses twice |
| `HexCodec` | texts of up to six of seven characters, fixed size of two digits, two digits | a prefix, the right size and two digits too many, or whitespace on both sides of a byte; the characters are one zero and one letter digit in both spellings, both prefix letters, a blank and one that is no digit |
| `AbiCommands` | words of two base-4 digits, numbers up to 17, two parameters, two values of two of seven characters | 16 and 17 are beyond the word, 8 is the least negative int, 1 and 4 the fills of one and two digits; two parameters make one too few, one too many and an error before or after another |
| `LibrarySearch` | four folders, two of them default, three in the variable | a default folder named in the variable, a folder named twice, a name that is not UTF-8 before or after one that is |

Where a program comes to its end (`Terminated`, `Done`, `Exhausted`, `Stop`, `Ended`)
the model stutters by an action of its own, so deadlock is checked everywhere.

### Fairness

`FfiOwnership` states weak fairness of its next-state relation (`FairSpec`): the
single thread of the process keeps running while it can, and as every callback
costs gas, which every VM runs out of, all VMs end. Under it `EverythingFreed` is
checked; the repository itself looks for leaks by running `valgrind
--leak-check=yes` (`Makefile:4`). Nothing is assumed of what ends first or of
which status it ends with, and a panic stays possible. How much the fairness has to
carry is proved (`EveryStepCounts`): a transaction has at most `9 * MaxGas + 6`
steps, so only that the thread does not stop for ever between two of them.

Elsewhere no fairness is assumed and no liveness is claimed. A host callback is a
straight line: it neither waits nor loops on anything that another step must
bring about. Whether a command is started is up to the user.

## 4. Proofs

All theorems hold for every set of addresses, keys, values, codes and log
entries, every depth, every number of callbacks, writes, files, commands, folders
and parameters, texts of every length and words of every width. The
assumptions are the named `ASSUME`s of the modules proved about: types of the
constants, that sentinels differ from what they stand beside, that a digit has
one spelling in lower case and no character spells two (`DigitsAssumption`), and
that the places of a word are powers of its base (`WordAssumption`: an even base,
and each place but the leading one at least a base below it).

| Theorem | Module | Statement |
|---|---|---|
| `TypeCorrect` | `HostCallsProofs` | `Spec => []TypeOK` |
| `LineageHolds`, `NoImpossiblePanicHolds`, `FramesKeepIdentityHolds` | `HostCallsProofs` | `Spec => []...` |
| `Refinement` | `HostCallsProofs` | `Spec => World!Spec` |
| `StaticReadOnlyHolds`, `OnlyCreationDeploysHolds` | `HostCallsProofs` | action properties |
| `ReadsLastWriteHolds` | `HostCallsProofs` | `QuerySpec => []ReadsLastWrite` |
| `QueriesImplementWorld` | `HostCallsProofs` | `QuerySpec => World!Spec` |
| `PlayTypeCorrect`, `SavedAtRestHolds` | `PlayEvmoneProofs` | `PlaySpec => []...` |
| `NothingForgottenHolds`, `AbortedCommandLeavesFilesHolds`, `OnlyOutputIsWrittenHolds` | `PlayEvmoneProofs` | action properties |
| `TypeCorrect`, `FramesOwnBoxesHolds`, `NothingLeaksHolds` | `FfiOwnershipProofs` | `Spec => []...` |
| `ContextsAreOwnedHolds`, `CopiesAreOwnedHolds` | `FfiOwnershipProofs` | `Spec => Ownership!Spec`, for contexts and for copies |
| `EveryStepCounts` | `FfiOwnershipProofs` | `Spec => Work = 9 * MaxGas + 6 /\ [][Work' \in Nat /\ Work' < Work]_vars` |
| `TypeCorrect`, `StatusTellsChangeHolds`, `LadderHolds`, `TimeCountsChangesHolds` | `StorageStatusProofs` | `Spec => []...` |
| `TypeCorrect`, `SavedLoadsHolds`, `MeansWhatItSpellsHolds` | `HexCodecProofs` | `Spec => []...` |
| `ValueKeptHolds` | `HexCodecProofs` | action property |
| `DecodeEncode` | `HexCodecProofs` | `decode(encode(b)) = b` for every sequence of digits |
| `TypeCorrect`, `EncodesItsValuesHolds`, `OnlyMinusZeroPanicsHolds`, `ParamsPrintsValuesHolds`, `HarmlessValuesPrintedHolds` | `AbiCommandsProofs` | `Spec => []...` |
| `WordDenotes`, `ParamsReadBack` | `AbiCommandsProofs` | a word stands for its number; no text is read back as another |
| `TypeCorrect`, `FirstIsFoundHolds`, `FailsAtFirstHolds` | `LibrarySearchProofs` | `Spec => []...` |

*The argument for one transaction.* `Lineage` relates neighbouring frames, so
every action that changes a frame has to be shown to extend it, and the relation
has to be transitive. `HostStateProofs` shows that `Extends` is a preorder and
that each operation of `HostState` yields a context that extends its argument;
the one case that is not monotone in the data, a rewritten slot, is monotone in
`modify_time`. It also shows there that the pair `(0, true)` of `set_storage`'s
match is impossible, because an absent slot is made with the value about to be
written. `Return` overwrites the caller's accounts by the callee's: `Lineage`
says that these extend them, so the caller extends what it was, and by
transitivity what the frame below it holds. The length check of `update` follows.

The inductive invariant is `HostInv`: the types, `Lineage`, `FramesKeepIdentity`,
`NoImpossiblePanic` and `StackDiscipline`. The last is what makes the others
inductive: the outermost message has depth 0 (from which `FramesKeepIdentity`
counts), whatever runs above a static frame is static, and a static frame is not
a creation. The last two give `StaticReadOnly`: a static frame's return deploys
nothing.

*The refinement.* The inserted accounts are invisible to the mapping, so a `Call`
is a stutter. A `Return` shows what the callee's frame showed, or with a
successful creation one `Deploy`, also when `update` panics, because `update_code`
comes first. `SetStorage`, `EmitLog` and `SelfDestruct` are `Write`, `Log` and
`Destruct` of the running contract.

*The argument across commands.* The context that is saved is the outermost one.
`PlayInv` says, while the VM runs, that `HostInv` holds, that the files are those
the command found, and that the outermost context extends the loaded one at the
loaded one's depth, which is 0; while a file is being written, that the data
extends what is to be kept. `TransactionStep` shows that every step of `HostCalls`
grows the outermost context, which is immediate for frames above it and, for a
return into it, the merge argument again. `OnlyOutputIsWritten` needs only that
a command's output is fixed when it begins.

*What is read.* `QueryInv` adds to `HostInv` that `written` is the storage the running
frame shows. A write changes both alike, which is the `Write` of the refinement,
and all other steps show the same storage before and after; a query changes
neither.

*Ownership.* `FramesOwnBoxes` alone is not inductive. `BoxInv` says where each box
stands given where its frame stands: a living box has exactly one frame, every
suspended frame is in `call`, and a box is wrapped exactly in the places of
`Borrowing`; that there is room for one more box whenever one can be made follows
from the gas already paid for it. `OutputInv` does the same for copies: no copy
before the VM has ended, none freed while its frame or its caller still has
it, and no frame on the stack has the copy another one is to release. With these
each action is shown to move one box or one copy along `Ownership`.

*Statuses.* For each item `Kept` relates the item to its whole history: absent and
never written, or `modify_time` is the number of changes after the first write and
the status last reported is the one that belongs to it. The step is one append
to the history, under which cardinalities and the ladder are shown to move by
at most one.

*Leaks.* That a copy is freed at most once does not say that it is freed. `HeldInv`
says who still answers for it: a copy that is not settled (freed, absent or become
data) is that of a frame on the stack or the reply a frame has in hand, and no
frame is left when the transaction is finished. `Leave` is the step that hands
it from the one to the other, `ReleaseResult` the one that settles it. `Work`
weighs what is left to do: nine steps for a callback not yet paid for, seven for
every waiting caller, and the rank of the running frame's place.

*Text and bytes.* `HexInv` adds two facts to the properties: a value of fixed size in
memory has that size, and a text that was saved is the prefix and the spelling of
the value in memory (`SavedStands`). Whatever a reader strips or trims, what it takes
is a segment of the text (`Segment`, `DigitsTaken`), and it takes its digits one by
one (`LoadSpells`); for `trim` that nothing but blanks stays outside follows from
the first and last character that is none (`TrimLeaves`). As no character spells two digits, `decode` undoes
`encode` (`DecodeEncode`), and with `0x` before it no reader refuses the result.

*Words.* `EncodeInv` says of every token parsed here so far that it is the word of its
text, with how the pairing and each ending came about. `ComplementRange` gives the
arithmetic: the incremented complement of a number of the word is the modulus less
the number, which leaves the word for zero only. `WordDenotes` says what a word
stands for. A complement is filled with f from the first place above it (`Ceiling`, the least
place above a number, or the modulus). A negative number in range has a complement
of at least half the modulus, which lies at or above the leading place because the
base is even, so nothing is filled and the word is the complement; `WordAssumption`
is what puts every other place below.

*JSON.* `FlattenSeq` is the recursive function of the community modules that puts the
escapes of a text's characters one behind the other. What it computes for every
length is proved by induction in the form of a least counterexample
(`LeastNumber`, from the well-foundedness of the naturals): `FlattenPieces` says at
which offset each piece lies. `EscapesReadBack` then reads two such sequences from
the front. If they are equal, and the texts before some character agree, the
pieces of that character start at the same offset, and the codes of JSON and of
`escape_default` are such that two that agree where both lie belong to the same
character (`CodesAgree`); so the first difference is none. `DecodeInv` has, besides
the types, that what is printed is a prefix of the values and which value each
panic was at.

*The search.* `SearchInv`: no folder before `next` holds the file, and an ending is
explained by the folder at `next`.

Model-checked only: `EverythingFreed`, because it is liveness under fairness
and needs ENABLED (its safety half is `NothingLeaksHolds`, the bound on its steps
`EveryStepCounts`), and the five violated properties.

## 5. Not modelled

* The values of the queries that answer constants, read by byte code the model lets
  do anything; `mocked_host.hpp` and `helpers.h`, which the program does not use.
* The memory of a VM's own output. `ExecutionResult::from` lets go of it without
  calling its release function, so it is never seen again (see 6).
* What is inside a box when the box is freed: `drop_in_place` runs on an opaque type
  (`src/evmc.rs:330`) and drops nothing, so maps and vectors of every context are
  leaked. The model has no types that could tell.
* The instances of `evmone` that `call` makes, one for each nested message
  (`src/main.rs:558`): `EvmcVm` has no `Drop` (`src/evmc.rs:29-36`), and none is ever
  destroyed.
* Messages and refusals of `clap`, files that cannot be read or hold no ABI, and
  `list` and `show`: they end a command before its first action or change nothing.
* The crates `hex`, `ethabi`, `serde_json`, as far as 2 does not describe them.
* The sample contracts, the text that is printed.
* Undefined behaviour of slices made from a null pointer and length 0, which
  the builds in use treat as empty slices.
* Serialization of whole contexts: one written by `serde_json` is read back as it
  was; a prefix of it is refused (`Torn`). Its fields are HexCodec's.
* `AccountData.address`, which equals the account's key and is never assigned.

## 6. Where code and documentation disagree

1. **SELFDESTRUCT in a nested frame aborts the process.** `update` asserts that no
   destructed account is in the map (`src/main.rs:438`), but `selfdestruct`
   leaves it there. A saved outermost self-destruction does the same to every
   later nested call.
2. **`create_address` is set on every result** (`src/main.rs:567`); `evmc.h` line 401
   wants null bytes in all results but those of successful creations.
3. **A second CREATE of a contract replaces the first one's code.** No nonce is
   advanced, so the address is the same, and the check of the `create` command
   (`src/main.rs:141`) has no counterpart in `call`.
4. **The outermost context may name another account than the one that runs**:
   `current_account` (`src/main.rs:394`) is loaded with the file.

5. **Storage statuses are not those of `evmc.h`** (lines 460-484), which defines them by
   values: the first write of zero to an absent item is reported as added, a write
   of zero never as deleted, and an item changed by an earlier transaction as
   modified again at its first change in this one, because `modify_time` is saved
   with the item (`src/main.rs:507`).

The following were met while modelling. Each is in the models as the code
has it, and no run is spent on it:

* `evmc.h` (360, 377) wants the release function of a result called; the outputs of
  VMs are leaked instead, and the old function is passed on with a pointer that
  Rust allocated (`src/evmc.rs:222-250`).
* `get_code_size` answers 0 for an account that holds code (`src/main.rs:609`, against
  `evmc.h:527`); `get_code_hash`, `get_balance`, `account_exists` and `copy_code` are
  constants as well.
* `visit_str` accepts a text without prefix where it announces "a 0x-prefixed hex
  string" (`src/evmc.rs:70`, 79), and panics on a text of one character.
* An int below -2^255 or from 2^255 on is encoded as another number
  (`src/abi.rs:28`). A minus sign before zero panics.
* `params` panics on decoded strings with an apostrophe, with a control character
  other than tab and ends of lines, or beyond ASCII, which is `HarmlessValuesPrinted`
  from its other side.
* A value beyond the last parameter is dropped by `zip` (`src/abi.rs:66`).
* Decoded text is put into JSON without escaping (`src/abi.rs:192`, 223) or with Rust's
  escapes (166), and the result is unwrapped (`src/abi_cmd.rs:176`, 191, 210).
* `decode_input` decodes the characters of the hexadecimal digits rather than the bytes
  they stand for (`src/abi.rs:180`).
* A folder that holds the library under a name that is not UTF-8 ends the search
  though a later folder may hold it too (`build.rs:20`).

## 7. Plan

All modules of the plan are written, and every invariant, action property and
refinement the passing runs check is proved. What is left, in this order:

1. *FfiOwnership and HostCalls*: a mapping from the frames of one to the stack of the
   other, so that the ownership of boxes and the data in them are one statement.
2. *PlayEvmone*: queries among the callbacks of a command, as in HostQueries.
