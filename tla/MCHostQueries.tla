---------------------------- MODULE MCHostQueries ----------------------------
(* HostQueries with the values of MCHostCalls.                             *)
EXTENDS MCHostCalls, HostQueries
=============================================================================
