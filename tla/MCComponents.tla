----------------------------- MODULE MCComponents ----------------------------
(***************************************************************************)
(* One run, of safety and liveness, for four components that share no      *)
(* state: named locks, the debugger, permissions and the save queue.       *)
(* `part` says which of them moves; the others stay as they start, so the  *)
(* states of the run are those of the four one after the other.  What is   *)
(* fair in a component that does not move is not enabled in it.            *)
(***************************************************************************)
EXTENDS NamedLocks, Debugger, Permissions, SaveQueue

VARIABLE part

componentVars == <<part, vars, debugVars, askVars, saveVars>>

\* Macros are not told apart: one strand is of the first.
OfTheFirst == macro[CHOOSE s \in Asker : TRUE] = CHOOSE m \in Macro : TRUE

\* Only the macros' restrictions and strands' macros start in several ways.
StartsPlain ==
  /\ grants = [m \in {} |-> {}]
  /\ \A s, t \in Asker : macro[s] = macro[t] /\ ability[s] = ability[t]

ComponentsInit ==
  /\ part \in {"locks", "debugger", "permissions", "saves"}
  /\ Init /\ DebugInit /\ AskInit /\ SaveInit
  /\ OfTheFirst
  /\ part = "permissions" \/ StartsPlain

ComponentsNext ==
  /\ UNCHANGED part
  /\ \/ /\ part = "locks"
        /\ Next
        /\ UNCHANGED <<debugVars, askVars, saveVars>>
     \/ /\ part = "debugger"
        /\ DebugNext
        /\ UNCHANGED <<vars, askVars, saveVars>>
     \/ /\ part = "permissions"
        /\ AskNext
        /\ UNCHANGED <<vars, debugVars, saveVars>>
     \/ /\ part = "saves"
        /\ SaveNext
        /\ UNCHANGED <<vars, debugVars, askVars>>

ComponentsSpec ==
  /\ ComponentsInit /\ [][ComponentsNext]_componentVars
  /\ Fairness /\ DebugFairness /\ AskFairness /\ SaveFairness

=============================================================================
