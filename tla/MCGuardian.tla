----------------------------- MODULE MCGuardian -----------------------------
(* Finite instances of Guardian.  Policies are numbered from 1.             *)
EXTENDS Guardian

CONSTANTS Policies

MCPolicyIds == 1..Policies
=============================================================================
