---------------------------- MODULE StorageStatus ----------------------------
(***************************************************************************)
(* The statuses set_storage reports over the life of storage items.        *)
(* evmone charges and refunds gas by them.  A status depends on            *)
(* Value.modify_time, which is part of the saved file, so the items live   *)
(* on from one transaction to the next.                                    *)
(***************************************************************************)
EXTENDS HostState, FiniteSets

CONSTANT MaxWrites   \* bound: writes of one item, in all transactions

ASSUME WritesAssumption == MaxWrites \in Nat

VARIABLES
  host,      \* the context whose items are written
  original,  \* what the items held when the transaction began
  history    \* for each item, its writes and what was reported of them

vars == <<host, original, history>>

Reported == {"added", "modified", "modified_again", "unchanged"}

(* start, old and new: the values the item had when the transaction began, *)
(* before the write and after it, as get_storage shows them.               *)
Write == [start : Word, old : Word, new : Word, status : Reported]

Init ==
  /\ \E a \in Address : host = TestHostContext_new(0, a)
  /\ original = StorageOf(host)
  /\ history = [a \in Address |-> [k \in Key |-> << >>]]

SetStorage(a, key, value) ==
  /\ Len(history[a][key]) < MaxWrites
  /\ host' = set_storage(host, a, key, value)
  /\ history' = [history EXCEPT ![a][key] =
       Append(@, [start  |-> original[a][key],
                  old    |-> get_storage(host, a, key),
                  new    |-> get_storage(host', a, key),
                  status |-> storage_status(host, a, key, value)])]
  /\ UNCHANGED original

(* The context is saved, and loaded by the next command.                   *)
NextTransaction ==
  /\ original # StorageOf(host)
  /\ original' = StorageOf(host)
  /\ UNCHANGED <<host, history>>

Exhausted ==
  /\ \A a \in Address, key \in Key : Len(history[a][key]) = MaxWrites
  /\ original = StorageOf(host)
  /\ UNCHANGED vars

Next ==
  \/ \E a \in Address, key \in Key, value \in Word : SetStorage(a, key, value)
  \/ NextTransaction
  \/ Exhausted

Spec == Init /\ [][Next]_vars

-----------------------------------------------------------------------------
(* Properties                                                              *)

TypeOK ==
  /\ host \in TestHostContext
  /\ original \in [Address -> [Key -> Word]]
  /\ history \in [Address -> [Key -> Seq(Write)]]

Changes(write) == write.old # write.new

(* A status is never wrong about whether something changed, except that    *)
(* "added" is also reported for a write that shows no change: the first    *)
(* write of zero, and repetitions of an item's first write.                *)
StatusTellsChange ==
  \A a \in Address, k \in Key : \A i \in DOMAIN history[a][k] :
    LET w == history[a][k][i]
    IN  /\ w.status \in {"modified", "modified_again"} => Changes(w)
        /\ w.status = "unchanged" => ~Changes(w)
        /\ Changes(w) /\ w.status = "added" => w.old = ZeroWord /\ i = 1

(* The comment on modify_time (main.rs:330), "0 => first set", "1 =>       *)
(* modified", "2..n => modifled again", over a whole life: "added" while   *)
(* the first value stands, "modified" once, when it is first replaced, and *)
(* "modified_again" for every replacement after that one.                  *)
Ladder ==
  \A a \in Address, k \in Key : \A i, j \in DOMAIN history[a][k] :
    LET at(n) == history[a][k][n].status
    IN  i < j =>
          /\ at(j) = "added" => at(i) = "added"
          /\ at(j) = "modified" => at(i) = "added"
          /\ at(j) = "modified_again" =>
               \E n \in 1 .. j - 1 : at(n) = "modified"

(* modify_time counts the changes that could be seen, in all transactions, *)
(* apart from the write that made the item.                                *)
TimeCountsChanges ==
  \A a \in Address, k \in Key :
    LET item == entry(host.accounts, a).storage[k]
        seen == {i \in 2 .. Len(history[a][k]) : Changes(history[a][k][i])}
    IN  /\ item = None <=> history[a][k] = << >>
        /\ item # None => item.modify_time = Cardinality(seen)

(* evmc.h (460-484) defines the statuses by what a write does to the value *)
(* an item had when the transaction began: "0 -> 0 and X -> X" unchanged,  *)
(* "X -> Y" modified, "0 -> X" added, "X -> 0" deleted.  Writes to items   *)
(* the transaction has changed already are left out here.                  *)
EvmcStatus(old, new) ==
  CASE old = new                                        -> "unchanged"
    [] old # new /\ old = ZeroWord                      -> "added"
    [] old # new /\ new = ZeroWord                      -> "deleted"
    [] old # new /\ old # ZeroWord /\ new # ZeroWord    -> "modified"

CleanWritesConform ==
  \A a \in Address, k \in Key : \A i \in DOMAIN history[a][k] :
    LET w == history[a][k][i]
    IN  w.start = w.old => w.status = EvmcStatus(w.old, w.new)
=============================================================================
