----------------------------- MODULE NamedMutex -----------------------------
(***************************************************************************)
(* What the `WithLock` block promises its users: "one strand at a time,    *)
(* across every macro" may hold the lock of a given name.  NamedLocks      *)
(* implements this specification.                                          *)
(***************************************************************************)

CONSTANTS
  Strands,      \* the threads that interpret block lists
  Names,        \* the lock names in use
  NoOwner       \* "nobody holds it"

VARIABLE owner  \* the strand inside the lock of each name

Init == owner = [n \in Names |-> NoOwner]

Enter(s, n) ==
  /\ owner[n] = NoOwner
  /\ owner' = [owner EXCEPT ![n] = s]

Leave(s, n) ==
  /\ owner[n] = s
  /\ owner' = [owner EXCEPT ![n] = NoOwner]

Next == \E s \in Strands, n \in Names : Enter(s, n) \/ Leave(s, n)

Spec == Init /\ [][Next]_owner

=============================================================================
