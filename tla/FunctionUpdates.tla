--------------------------- MODULE FunctionUpdates ---------------------------
(***************************************************************************)
(* Entering a value in a function, as a dict or a table of rows is updated *)
(* in the code.  (f @@ g of TLC says the same; no prover can expand it.)   *)
(***************************************************************************)

With(f, x, value) == [y \in DOMAIN f \cup {x} |-> IF y = x THEN value ELSE f[y]]

=============================================================================
