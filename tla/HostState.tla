------------------------------ MODULE HostState ------------------------------
(***************************************************************************)
(* The data a TestHostContext holds and the operations on it that call no  *)
(* VM: main.rs keeps one such value per call frame and saves the outermost *)
(* one as a JSON file.  Everything here is a function of its arguments;    *)
(* HostCalls and the modules built on it own the state.                    *)
(*                                                                         *)
(* The HashMaps of the code are total functions here, with None at the     *)
(* keys the map does not hold.  AccountData.address is left out: it is set *)
(* to the map's key by AccountData::new and never assigned again.          *)
(***************************************************************************)
EXTENDS Naturals, SequencesExt

CONSTANTS
  Address,      \* account addresses
  NullAddress,  \* Address::default(), twenty zero bytes
  Key,          \* storage keys (Bytes32)
  Word,         \* storage values (Bytes32)
  ZeroWord,     \* Bytes32::default()
  Code,         \* contract byte code, JsonBytes
  EmptyCode,    \* the byte code of length zero
  Entry,        \* a LogEntry: topics and data of one LOG instruction
  Nonce,        \* the account nonces a model distinguishes
  None          \* a key that a HashMap does not hold, Option::None

ASSUME ValuesAssumption ==
  /\ NullAddress \in Address
  /\ ZeroWord \in Word
  /\ EmptyCode \in Code
  /\ Nonce \subseteq Nat
  /\ 0 \in Nonce

Value == [data : Word, modify_time : Nat]

AccountData ==
  [nonce   : Nonce,
   code    : Code \cup {None},
   storage : [Key -> Value \cup {None}],
   logs    : Seq(Entry)]

TestHostContext ==
  [depth               : Nat,
   current_account     : Address,
   accounts            : [Address -> AccountData \cup {None}],
   destructed_accounts : Seq(Address)]

(* None differs from every value it is put beside.                         *)
ASSUME NoneAssumption ==
  /\ None \notin Code
  /\ None \notin Value
  /\ None \notin AccountData

-----------------------------------------------------------------------------
(* Account creation: every writer goes through                             *)
(* accounts.entry(a).or_insert_with(|| AccountData::new(a)).               *)

AccountData_new ==
  [nonce |-> 0, code |-> None, storage |-> [k \in Key |-> None], logs |-> << >>]

entry(accounts, a) == IF accounts[a] = None THEN AccountData_new ELSE accounts[a]

TestHostContext_new(depth, current_account) ==
  [depth               |-> depth,
   current_account     |-> current_account,
   accounts            |-> [a \in Address |-> None],
   destructed_accounts |-> << >>]

contract_exists(ctx, a) ==
  ctx.accounts[a] # None /\ ctx.accounts[a].code # None

update_code(ctx, a, code) ==
  [ctx EXCEPT !.accounts[a] = [entry(ctx.accounts, a) EXCEPT !.code = code]]

-----------------------------------------------------------------------------
(* Storage slots.  A slot counts how often its data changed.               *)

Value_new(data) == [data |-> data, modify_time |-> 0]

(* Mutants: the counter is set, not incremented; every write counts; none  *)
(* does.                                                                   *)
update_data_flagging(val, data) ==
  IF data # val.data THEN [data |-> data, modify_time |-> 1] ELSE val

update_data_always(val, data) ==
  [data |-> data, modify_time |-> val.modify_time + 1]

update_data_uncounted(val, data) == [val EXCEPT !.data = data]

update_data(val, data) ==
  IF data # val.data
    THEN [data |-> data, modify_time |-> val.modify_time + 1]
    ELSE val

(* The slot set_storage works on: the stored one, or one that already      *)
(* holds the value about to be written.                                    *)
slot(accounts, a, key, value) ==
  LET old == entry(accounts, a).storage[key]
  IN  IF old = None THEN Value_new(value) ELSE old

set_storage(ctx, a, key, value) ==
  LET new == update_data(slot(ctx.accounts, a, key, value), value)
  IN  [ctx EXCEPT !.accounts[a] = [entry(ctx.accounts, a) EXCEPT !.storage[key] = new]]

(* Mutant: the match looks at the counter alone.                           *)
storage_status_by_time(ctx, a, key, value) ==
  LET time == update_data(slot(ctx.accounts, a, key, value), value).modify_time
  IN  CASE time = 0 -> "added" [] time = 1 -> "modified" [] time > 1 -> "modified_again"

(* The match at the end of set_storage; "invalid" stands for its panic.    *)
storage_status(ctx, a, key, value) ==
  LET old     == slot(ctx.accounts, a, key, value)
      changed == value # old.data
      time    == update_data(old, value).modify_time
  IN  CASE time = 0 /\ changed   -> "invalid"
        [] time = 0 /\ ~changed  -> "added"
        [] time = 1 /\ changed   -> "modified"
        [] time > 1 /\ changed   -> "modified_again"
        [] time > 0 /\ ~changed  -> "unchanged"

get_storage(ctx, a, key) ==
  IF ctx.accounts[a] = None \/ entry(ctx.accounts, a).storage[key] = None
    THEN ZeroWord
    ELSE ctx.accounts[a].storage[key].data

-----------------------------------------------------------------------------
(* Logs and self-destruction.                                              *)

emit_log(ctx, a, e) ==
  [ctx EXCEPT !.accounts[a] =
     [entry(ctx.accounts, a) EXCEPT !.logs = Append(@, e)]]

selfdestruct(ctx, a) ==
  [ctx EXCEPT !.destructed_accounts = Append(@, a)]

-----------------------------------------------------------------------------
(* Merging a child's context into its caller's.                            *)

(* Mutant: accounts the caller already has keep the caller's version.      *)
update_keeping_self(self, other) ==
  [self EXCEPT !.accounts = [a \in Address |->
                               IF self.accounts[a] # None THEN self.accounts[a]
                                                          ELSE other.accounts[a]],
               !.destructed_accounts = other.destructed_accounts]

(* Mutant: the caller becomes a copy of its callee.                        *)
update_by_clone(self, other) == other

update(self, other) ==
  [self EXCEPT !.accounts = other.accounts,
               !.destructed_accounts = other.destructed_accounts]

(* The two checks update makes before it copies; "running" when both pass. *)
update_check(self, other) ==
  IF Len(other.destructed_accounts) < Len(self.destructed_accounts)
    THEN "shrunk"
  ELSE IF \E i \in DOMAIN other.destructed_accounts :
            other.accounts[other.destructed_accounts[i]] # None
    THEN "destructed_live"
  ELSE "running"

-----------------------------------------------------------------------------
(* What callbacks show of a context.  Absent accounts and blank ones look  *)
(* the same to them, though not in the saved file.                         *)

StorageOf(ctx) == [a \in Address |-> [k \in Key |-> get_storage(ctx, a, k)]]
CodeOf(ctx)    == [a \in Address |-> entry(ctx.accounts, a).code]
LogsOf(ctx)    == [a \in Address |-> entry(ctx.accounts, a).logs]

(* new holds everything old holds: accounts, code, storage items and log   *)
(* entries are only ever added, and a storage item whose modify_time is    *)
(* unchanged has unchanged data.                                           *)
ValueExtends(new, old) ==
  /\ old.modify_time <= new.modify_time
  /\ old.modify_time = new.modify_time => old.data = new.data

AccountExtends(new, old) ==
  /\ old.code # None => new.code # None
  /\ IsPrefix(old.logs, new.logs)
  /\ \A k \in Key : old.storage[k] # None =>
       new.storage[k] # None /\ ValueExtends(new.storage[k], old.storage[k])

Extends(new, old) ==
  /\ IsPrefix(old.destructed_accounts, new.destructed_accounts)
  /\ \A a \in Address : old.accounts[a] # None =>
       new.accounts[a] # None /\ AccountExtends(new.accounts[a], old.accounts[a])
=============================================================================
