---------------------------- MODULE MCPlayEvmone ----------------------------
(***************************************************************************)
(* Values for the constants of PlayEvmone: a contract, the contract its    *)
(* CREATE makes, Address::default() and the sender.  The storage files are *)
(* interchangeable: nothing is said of one that is not said of all.        *)
(***************************************************************************)
EXTENDS PlayEvmone

CONSTANTS mom, daughter, zero, origin

MCAddress   == {mom, daughter, zero, origin}
MCAddressOf == [p \in {mom} \X Nonce |-> daughter]

Paths == Permutations(Path)
=============================================================================
