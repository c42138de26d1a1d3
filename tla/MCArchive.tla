------------------------------ MODULE MCArchive ------------------------------
(***************************************************************************)
(* Small instances of Archive: one chunk for each route, inputs with a     *)
(* short last block, with a block that has no residuals, and inputs that   *)
(* grow into one another.                                                  *)
(***************************************************************************)
EXTENDS Archive

CONSTANTS e, f, l, p, x  \* exact, fractal, literal, patch, xor

MCRoute == [c \in {e, f, l, p, x} |->
    CASE c = e -> "exact" [] c = f -> "fractal" [] c = l -> "literal"
      [] c = p -> "patch" [] OTHER -> "xor"]
MCPatternOf == [c \in {e, f, l, p, x} |-> e]

MCInputs == {<<l, p, x>>, <<e, f, x, p>>, <<l>>, <<p, e>>, <<l, p, x, l, p>>}
MCOptions == {o \in [brain : BOOLEAN, edge : BOOLEAN, encrypted : BOOLEAN] :
                 o.edge => o.brain /\ ~o.encrypted}
=============================================================================
