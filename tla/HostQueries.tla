----------------------------- MODULE HostQueries -----------------------------
(***************************************************************************)
(* All twelve callbacks: those that only ask, added to those of HostCalls. *)
(* get_storage reads the running frame's context; the others answer a      *)
(* constant, get_tx_context among them.  An answer is what the VM would be *)
(* told if it asked now, so properties of answers are properties of        *)
(* states, and to ask is a step that only costs gas.                       *)
(***************************************************************************)
EXTENDS HostCalls

VARIABLE written   \* history: the last value any frame wrote to each item

queryVars == <<vars, written>>

QueryInit == Init /\ written = StorageOf(Top.ctx)

-----------------------------------------------------------------------------
(* Answers.                                                                *)

GetStorage(address, key) == get_storage(Top.ctx, address, key)

(* Any of the eight is asked, in static mode too: nothing changes, no      *)
(* account is inserted.  The constants the other seven answer are left     *)
(* out, since the byte code may do anything after any of them.             *)
Query ==
  /\ Executing
  /\ gas' = gas - 1
  /\ UNCHANGED <<stack, outcome, result, written>>

(* A write is remembered also if its frame, or the process, ends badly.    *)
Write(key, value) ==
  /\ SetStorage(key, value)
  /\ written' = [written EXCEPT ![Self][key] = value]

Other ==
  /\ \/ \E e \in Entry : EmitLog(e)
     \/ SelfDestruct
     \/ \E request \in Messages : Call(request)
     \/ \E status \in Status, output \in Code : Return(status, output)
     \/ \E status \in Status, output \in Code : Finish(status, output)
  /\ UNCHANGED written

Over == Terminated /\ UNCHANGED written

QueryNext ==
  \/ Query
  \/ \E key \in Key, value \in Word : Write(key, value)
  \/ Other
  \/ Over

QuerySpec == QueryInit /\ [][QueryNext]_queryVars

-----------------------------------------------------------------------------
(* Properties                                                              *)

(* get_storage answers with the last value written to the item, by any     *)
(* frame of the transaction, one that failed since included, through every *)
(* clone and merge in between; or with what the file held.                 *)
ReadsLastWrite ==
  \A a \in Address, k \in Key : GetStorage(a, k) = written[a][k]
=============================================================================
