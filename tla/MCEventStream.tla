---------------------------- MODULE MCEventStream ----------------------------
(***************************************************************************)
(* Two transfers, one of them the counter transfer of a swap, read one at  *)
(* a time: a list of three pages, the last of them empty.                  *)
(***************************************************************************)
EXTENDS EventStream

MCKind == [x \in Transfer |-> IF x = "x3" THEN "counterSwap" ELSE "transfer"]
=============================================================================
