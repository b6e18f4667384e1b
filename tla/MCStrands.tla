------------------------------ MODULE MCStrands -------------------------------
(***************************************************************************)
(* Strands over three strands that are not told apart: the entries of the  *)
(* run are the first one, the first two or all three.  Every behaviour of  *)
(* three strands is one of these with the strands renamed, which no        *)
(* property of the run notices; unlike SYMMETRY this also holds for        *)
(* liveness, as it only leaves out initial states.                         *)
(***************************************************************************)
EXTENDS Strands

CONSTANTS a, b, c

ThreeStrandsInit ==
  /\ Init
  /\ pc[b] = "forked" => pc[a] = "forked"
  /\ pc[c] = "forked" => pc[b] = "forked"

ThreeStrandsSpec == ThreeStrandsInit /\ [][Next]_vars /\ Fairness

=============================================================================
