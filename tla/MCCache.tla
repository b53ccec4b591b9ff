------------------------------- MODULE MCCache -------------------------------
(* Small devices for Cache.  Old, new and zero bytes are told apart: the device *)
(* starts as ones, callers write twos (and threes).                             *)
EXTENDS Cache

MCImages == {[a \in Addr |-> 1]}
===============================================================================
