------------------------------ MODULE MCDeploy ------------------------------
(* A small instance of Deploy for TLC: the two production servers. *)
EXTENDS Deploy

TwoServers == <<"vls-a", "vls-b">>
=============================================================================
