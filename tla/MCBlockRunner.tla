---------------------------- MODULE MCBlockRunner -----------------------------
(***************************************************************************)
(* BlockRunner in two shapes that together keep the run small.  "wide" is  *)
(* the shape of the constants: lists in lists in lists, and calls that do  *)
(* not call further.  "deep" is a shape with one list in a list and calls  *)
(* from calls, where a caller has branches of its own to get back.         *)
(***************************************************************************)
EXTENDS BlockRunner

VARIABLE shape

Deep == INSTANCE BlockRunner WITH MAX_CALL_DEPTH <- 2, MaxNesting <- 1

shapeVars == <<shape, vars>>

ShapesInit ==
  \/ shape = "wide" /\ Init
  \/ shape = "deep" /\ Deep!Init

ShapesNext ==
  /\ UNCHANGED shape
  /\ \/ shape = "wide" /\ Next
     \/ shape = "deep" /\ Deep!Next

\* The strand's thread keeps running.
ShapesSpec == ShapesInit /\ [][ShapesNext]_shapeVars /\ WF_shapeVars(ShapesNext)

=============================================================================
