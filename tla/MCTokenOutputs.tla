--------------------------- MODULE MCTokenOutputs ---------------------------
(***************************************************************************)
(* An instance of TokenOutputs: two outputs of token A in the wallet, one  *)
(* of token B on its way in, and a batch that sends one of each.           *)
(***************************************************************************)
EXTENDS TokenOutputs

MCTokenOf == [o \in Output |-> IF o \in {"a1", "a2"} THEN "A" ELSE "B"]
MCWants == [p \in Spender |-> <<"A", "B">>]
=============================================================================
