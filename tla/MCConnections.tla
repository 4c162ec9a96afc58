---------------------------- MODULE MCConnections ----------------------------
(***************************************************************************)
(* An instance of Connections: two calls of one instance that need a       *)
(* client of one type, and one of another instance on the same channel.    *)
(***************************************************************************)
EXTENDS Connections

MCInstOf == [c \in Caller |-> IF c = "c3" THEN "i2" ELSE "i1"]
MCTypeOf == [c \in Caller |-> IF c = "c3" THEN "tokens" ELSE "spark"]
=============================================================================
