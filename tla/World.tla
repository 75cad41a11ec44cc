-------------------------------- MODULE World --------------------------------
(***************************************************************************)
(* What running a transaction promises to whoever looks at the accounts:   *)
(* one flat world that contracts change in place, one callback at a time.  *)
(* There is no call stack, no copy of the accounts and no merge here.      *)
(* HostCalls gives every nested call a clone of the accounts and copies    *)
(* the clone back when the call ends; that it implements this module says  *)
(* that a clone or a merge shows at most one effect, whatever the status a *)
(* call ends with.                                                         *)
(*                                                                         *)
(* The state is what callbacks show and record.  To them an account that   *)
(* exists but is blank looks like one that does not, so the moment at      *)
(* which the code inserts it is invisible here; the saved file lists it.   *)
(***************************************************************************)
EXTENDS Sequences

CONSTANTS Address, Key, Word, Code, Entry, None

VARIABLES
  storage,     \* the value of every storage item
  code,        \* the code of every contract, None elsewhere
  logs,        \* the log of every account, oldest entry first
  destructed   \* the accounts that self-destructed, in order

vars == <<storage, code, logs, destructed>>

WorldOK ==
  /\ storage \in [Address -> [Key -> Word]]
  /\ code \in [Address -> Code \cup {None}]
  /\ logs \in [Address -> Seq(Entry)]
  /\ destructed \in Seq(Address)

(* A transaction starts from any world an earlier one may have left.       *)
Init == WorldOK

Write(a, k, w) ==
  /\ storage' = [storage EXCEPT ![a][k] = w]
  /\ UNCHANGED <<code, logs, destructed>>

Log(a, e) ==
  /\ logs' = [logs EXCEPT ![a] = Append(@, e)]
  /\ UNCHANGED <<storage, code, destructed>>

Destruct(a) ==
  /\ destructed' = Append(destructed, a)
  /\ UNCHANGED <<storage, code, logs>>

Deploy(a, c) ==
  /\ code' = [code EXCEPT ![a] = c]
  /\ UNCHANGED <<storage, logs, destructed>>

Next ==
  \E a \in Address :
    \/ \E k \in Key, w \in Word : Write(a, k, w)
    \/ \E e \in Entry : Log(a, e)
    \/ Destruct(a)
    \/ \E c \in Code : Deploy(a, c)

Spec == Init /\ [][Next]_vars
=============================================================================
