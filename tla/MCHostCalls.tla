----------------------------- MODULE MCHostCalls -----------------------------
(***************************************************************************)
(* Values for the constants of HostCalls: a caller, a callee, the address  *)
(* the caller's CREATE computes, Address::default() and the sender.        *)
(***************************************************************************)
EXTENDS HostCalls

CONSTANTS mom, other, daughter, zero, origin

MCAddress   == {mom, other, daughter, zero, origin}
MCAddressOf == [p \in {mom} \X Nonce |-> daughter]

Stored   == [k \in Key |-> Value_new(ZeroWord)]
Contract == [AccountData_new EXCEPT !.code = CHOOSE c \in Code : c # EmptyCode]

(* Contexts that earlier commands leave behind: none, two contracts (one   *)
(* with a stored item), and a contract that self-destructed outermost and  *)
(* was not removed from the file.                                          *)
NewContext == TestHostContext_new(0, mom)
Deployed ==
  [NewContext EXCEPT
     !.accounts[mom]   = [Contract EXCEPT !.storage = Stored],
     !.accounts[other] = Contract]
Destructed == [Deployed EXCEPT !.destructed_accounts = <<other>>]

MCLoaded == {NewContext, Deployed, Destructed}
=============================================================================
