-------------------------- MODULE MC_ConnRegistry --------------------------
(* Model-checking instance of ConnRegistry: two clients accepted by one   *)
(* listener, two administrative enumerators, one enumeration each.       *)
EXTENDS ConnRegistry

MC_Clients == {"c1", "c2"}
MC_MaxEnumerations == 1
=============================================================================
