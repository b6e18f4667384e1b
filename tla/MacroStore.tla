----------------------------- MODULE MacroStore -----------------------------
(***************************************************************************)
(* What saving macros promises: of each macro a newest version exists, and *)
(* what is stored of it only ever moves on to a newer version, until the   *)
(* macro is removed.  A removed macro may be opened once more from a copy  *)
(* somebody still had.  SaveQueue implements this specification as long as *)
(* every save is of the newest version.                                    *)
(***************************************************************************)
EXTENDS Naturals

CONSTANT Macro

VARIABLES
  newest,       \* the newest version of each macro
  stored,       \* the version stored of each macro
  known         \* the macros that were not removed, or opened again

Init ==
  /\ newest = [m \in Macro |-> 1]
  /\ stored = [m \in Macro |-> 1]
  /\ known = Macro

Change(m) ==
  /\ newest' = [newest EXCEPT ![m] = @ + 1]
  /\ UNCHANGED <<stored, known>>

Store(m) ==
  /\ m \in known
  /\ \E v \in stored[m]..newest[m] : stored' = [stored EXCEPT ![m] = v]
  /\ UNCHANGED <<newest, known>>

Remove(m) ==
  /\ known' = known \ {m}
  /\ UNCHANGED <<newest, stored>>

Reopen(m) ==
  /\ known' = known \union {m}
  /\ UNCHANGED <<newest, stored>>

Next == \E m \in Macro : Change(m) \/ Store(m) \/ Remove(m) \/ Reopen(m)

Spec == Init /\ [][Next]_<<newest, stored, known>>

=============================================================================
