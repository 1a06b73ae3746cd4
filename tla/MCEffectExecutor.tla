--------------------------- MODULE MCEffectExecutor ---------------------------
(* Three executions share a key, one of them with another input; one shares it *)
(* and has no input; one has no key.  One result survives its JSON column, the *)
(* other, undefined, comes back as null.                                       *)
EXTENDS EffectExecutor, TLC

CONSTANTS e1, e2, e3, e4, e5, key, x, y, text, undefined, null

MCKeyOf   == e1 :> key @@ e2 :> key @@ e3 :> key @@ e4 :> key @@ e5 :> None
MCInputOf == e1 :> x @@ e2 :> x @@ e3 :> y @@ e4 :> None @@ e5 :> x
MCJsonOf  == text :> text @@ undefined :> null @@ null :> null
=============================================================================
