------------------------------ MODULE MCServer ------------------------------
(* Server for TLC: one client with two lines in flight, and one that connects
   and sends nothing. *)
EXTENDS Server

CONSTANTS c1, c2

TwoAndIdle == [c \in Clients |-> IF c = c1 THEN 2 ELSE 0]
=============================================================================
