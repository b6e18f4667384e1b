---------------------------- MODULE StrandsProofs ----------------------------
(***************************************************************************)
(* Proofs about Strands, for any number of strands, entries and inputs.    *)
(***************************************************************************)
EXTENDS Strands, TLAPS

(***************************************************************************)
(* The inductive invariant.  Beyond the types it says                      *)
(*  - every living strand is in the siblings list, so that "stop other     *)
(*    strands" finds it;                                                   *)
(*  - a cancelled strand that is inside fork() read a cleared flag;        *)
(*  - the living descendants of a strand are those of the threads it still *)
(*    has a handle of, and a strand whose thread is over has none;         *)
(*  - a strand whose thread does not run yet has started nothing and holds *)
(*    nothing;                                                             *)
(*  - every strand is an entry or descends from one.                       *)
(***************************************************************************)
Registered == \A s \in Strand : Alive(s) => s \in siblings

CancelledInv ==
  \A s \in cancelled :
    /\ pc[s] # "unborn"
    /\ ~local[s]
    /\ pc[s] = "sampled" => ~sample[s]

Handles(s) == batch[s] \union signals[s]

HandlesInv ==
  \A s \in Strand :
    /\ pc[s] \in {"unborn", "forked"} =>
         descendants[s] = {} /\ Handles(s) = {} /\ tracked[s] = {}
    /\ pc[s] \in {"checking", "block", "command", "draining", "cleanup"} =>
         batch[s] = {}
    /\ pc[s] = "cleanup" => \A t \in signals[s] : Over(t)

Covered(s, d) == \E h \in Handles(s) : d = h \/ d \in descendants[h]

TreeInv ==
  \A s, d \in Strand :
    d \in descendants[s] =>
      /\ pc[d] # "unborn"
      /\ Alive(d) => ~Over(s) /\ Covered(s, d)

RootedInv ==
  \A s \in Strand :
    pc[s] # "unborn" =>
      s \in Entries \/ \E e \in Entries : s \in descendants[e]

StrandsInv ==
  /\ TypeOK
  /\ Registered
  /\ CancelledInv
  /\ HeldByLivingStrand
  /\ HandlesInv
  /\ TreeInv
  /\ RootedInv
  /\ RunOutlivesStrands

-----------------------------------------------------------------------------
(* Initially every entry is forked and nothing else exists. *)

LEMMA StrandsInit == Init => StrandsInv
<1> SUFFICES ASSUME Init PROVE StrandsInv
  OBVIOUS
<1> PICK entries \in SUBSET Strand :
       /\ entries # {}
       /\ pc = [s \in Strand |-> IF s \in entries THEN "forked" ELSE "unborn"]
       /\ siblings = entries
  BY DEF Init
<1>1. TypeOK
  BY StrandsAssumption DEF Init, TypeOK, PC
<1>2. Registered /\ CancelledInv /\ HeldByLivingStrand /\ RunOutlivesStrands
  BY DEF Init, Registered, CancelledInv, HeldByLivingStrand,
         RunOutlivesStrands, Alive
<1>3. HandlesInv /\ TreeInv /\ RootedInv
  BY DEF Init, HandlesInv, TreeInv, RootedInv, Handles, Entries
<1>4. QED
  BY <1>1, <1>2, <1>3 DEF StrandsInv

-----------------------------------------------------------------------------
(* The family tree. *)

\* A step of s that leaves it alive and touches no handle.
Within(s) ==
  /\ UNCHANGED <<tree, over>>
  /\ pc' = [pc EXCEPT ![s] = pc'[s]]
  /\ pc[s] \in PC \ {"unborn", "over"}
  /\ pc'[s] \in PC \ {"unborn", "over"}

LEMMA WithinKeepsTree ==
  ASSUME StrandsInv, NEW s \in Strand, Within(s)
  PROVE  TreeInv' /\ RootedInv' /\ RunOutlivesStrands'
<1>1. \A t \in Strand : /\ Alive(t)' <=> Alive(t)
                        /\ Over(t)' <=> Over(t)
                        /\ pc'[t] = "unborn" <=> pc[t] = "unborn"
  BY DEF Within, Alive, Over, StrandsInv, TypeOK
<1>2. UNCHANGED <<batch, signals, descendants, over>>
  BY DEF Within, tree
<1>3. TreeInv'
  BY <1>1, <1>2 DEF TreeInv, Covered, Handles, StrandsInv
<1>4. Entries' = Entries
  BY <1>1, <1>2 DEF Entries
<1>5. RootedInv'
  BY <1>1, <1>2, <1>4 DEF RootedInv, StrandsInv
<1>6. RunOutlivesStrands'
  BY <1>1, <1>2 DEF RunOutlivesStrands, StrandsInv
<1>7. QED
  BY <1>3, <1>5, <1>6

\* A strand without living threads of its own ends.
Ends(s) ==
  /\ UNCHANGED <<tree, over>>
  /\ pc' = [pc EXCEPT ![s] = "over"]
  /\ pc[s] \in PC \ {"unborn", "over"}
  /\ \A h \in Handles(s) : Over(h)

LEMMA EndsKeepsTree ==
  ASSUME StrandsInv, NEW s \in Strand, Ends(s)
  PROVE  TreeInv' /\ RootedInv' /\ RunOutlivesStrands'
<1>1. \A t \in Strand : /\ t # s => pc'[t] = pc[t]
                        /\ pc'[t] = "unborn" <=> pc[t] = "unborn"
                        /\ Alive(t)' => Alive(t)
                        /\ Over(t)' <=> (Over(t) \/ t = s)
  BY DEF Ends, Alive, Over, StrandsInv, TypeOK, PC
<1>2. UNCHANGED <<batch, signals, descendants, over>>
  BY DEF Ends, tree
<1>3. Handles(s) \subseteq Strand
  BY DEF Handles, StrandsInv, TypeOK
<1>4. \A d \in Strand : d \in descendants[s] => ~Alive(d)
  <2> SUFFICES ASSUME NEW d \in Strand, d \in descendants[s], Alive(d)
      PROVE FALSE
    OBVIOUS
  <2>1. PICK h \in Handles(s) : d = h \/ d \in descendants[h]
    BY DEF TreeInv, Covered, StrandsInv
  <2>2. h \in Strand /\ Over(h)
    BY <1>3, <2>1 DEF Ends
  <2>3. d # h
    BY <2>2 DEF Alive, Over
  <2>4. QED
    BY <2>1, <2>2, <2>3 DEF TreeInv, StrandsInv
<1>5. TreeInv'
  <2> SUFFICES ASSUME NEW a \in Strand, NEW d \in Strand, d \in descendants[a]
      PROVE /\ pc'[d] # "unborn"
            /\ Alive(d)' => ~Over(a)' /\ Covered(a, d)'
    BY <1>2 DEF TreeInv
  <2>1. pc'[d] # "unborn"
    BY <1>1 DEF TreeInv, StrandsInv
  <2>2. ASSUME Alive(d)' PROVE ~Over(a)' /\ Covered(a, d)'
    <3>1. Alive(d) /\ a # s
      BY <1>1, <1>4, <2>2
    <3>2. ~Over(a) /\ Covered(a, d)
      BY <3>1 DEF TreeInv, StrandsInv
    <3>3. QED
      BY <1>1, <1>2, <3>1, <3>2 DEF Covered, Handles
  <2>3. QED
    BY <2>1, <2>2
<1>6. Entries' = Entries
  BY <1>1, <1>2 DEF Entries
<1>7. RootedInv'
  BY <1>1, <1>2, <1>6 DEF RootedInv, StrandsInv
<1>8. RunOutlivesStrands'
  BY <1>1, <1>2 DEF RunOutlivesStrands, StrandsInv
<1>9. QED
  BY <1>5, <1>7, <1>8

-----------------------------------------------------------------------------
(* fork(): a new strand joins the tree. *)

LEMMA ForkKeepsTree ==
  ASSUME StrandsInv, NEW s \in Strand, NEW c \in Strand, ForkEnd(s, c)
  PROVE  TreeInv' /\ RootedInv' /\ RunOutlivesStrands'
<1> DEFINE New(a) == a = s \/ s \in descendants[a]
<1>1. /\ s # c
      /\ pc[s] = "sampled" /\ pc[c] = "unborn"
      /\ pc'[s] = "sending" /\ pc'[c] = "forked"
      /\ \A t \in Strand \ {s, c} : pc'[t] = pc[t]
  BY DEF ForkEnd, StrandsInv, TypeOK, PC
<1>2. /\ batch' = [batch EXCEPT ![s] = @ \union {c}]
      /\ signals' = signals
      /\ over' = over
      /\ descendants' = [a \in Strand |-> IF New(a)
                                          THEN descendants[a] \union {c}
                                          ELSE descendants[a]]
  BY DEF ForkEnd, inputs
<1>3. /\ \A t \in Strand : Handles(t) \subseteq Handles(t)'
      /\ c \in Handles(s)'
  BY <1>2 DEF Handles, StrandsInv, TypeOK
<1>4. \A t \in Strand : /\ descendants[t] \subseteq descendants'[t]
                        /\ c \notin descendants[t]
  BY <1>1, <1>2 DEF StrandsInv, TreeInv
<1>5. \A t \in Strand : Over(t)' <=> Over(t)
  BY <1>1 DEF Over
<1>6. TreeInv'
  <2> SUFFICES ASSUME NEW a \in Strand, NEW d \in Strand,
                      d \in descendants'[a]
      PROVE /\ pc'[d] # "unborn"
            /\ Alive(d)' => ~Over(a)' /\ Covered(a, d)'
    BY DEF TreeInv
  <2>1. CASE d # c
    <3>1. d \in descendants[a]
      BY <1>2, <2>1
    <3>2. /\ pc[d] # "unborn"
          /\ Alive(d) => ~Over(a) /\ Covered(a, d)
      BY <3>1 DEF TreeInv, StrandsInv
    <3>3. pc'[d] # "unborn" /\ (Alive(d)' => Alive(d))
      BY <1>1, <2>1, <3>2 DEF Alive
    <3>4. ASSUME Covered(a, d) PROVE Covered(a, d)'
      <4>1. PICK h \in Handles(a) : d = h \/ d \in descendants[h]
        BY <3>4 DEF Covered
      <4>2. h \in Handles(a)' /\ h \in Strand
        BY <1>3, <4>1 DEF Handles, StrandsInv, TypeOK
      <4>3. d = h \/ d \in descendants'[h]
        BY <1>4, <4>1, <4>2
      <4>4. QED
        BY <4>2, <4>3 DEF Covered
    <3>5. QED
      BY <1>5, <3>2, <3>3, <3>4
  <2>2. CASE d = c
    <3>1. New(a)
      BY <1>2, <1>4, <2>2
    <3>2. CASE a = s
      BY <1>1, <1>3, <2>2, <3>2 DEF Covered, Over
    <3>3. CASE s \in descendants[a]
      <4>1. ~Over(a) /\ Covered(a, s)
        BY <1>1, <3>3 DEF TreeInv, StrandsInv, Alive
      <4>2. PICK h \in Handles(a) : s = h \/ s \in descendants[h]
        BY <4>1 DEF Covered
      <4>3. h \in Handles(a)' /\ h \in Strand
        BY <1>3, <4>2 DEF Handles, StrandsInv, TypeOK
      <4>4. c \in descendants'[h]
        BY <1>2, <4>2, <4>3
      <4>5. Covered(a, c)'
        BY <4>3, <4>4 DEF Covered
      <4>6. QED
        BY <1>1, <1>5, <2>2, <4>1, <4>5
    <3>4. QED
      BY <3>1, <3>2, <3>3
  <2>3. QED
    BY <2>1, <2>2
<1>7. RootedInv'
  <2>1. \A e \in Entries : e \in Entries'
    <3> SUFFICES ASSUME NEW e \in Entries PROVE e \in Entries'
      OBVIOUS
    <3>1. e \in Strand /\ e # c /\ pc'[e] # "unborn"
      BY <1>1 DEF Entries
    <3>2. \A t \in Strand : e \notin descendants'[t]
      BY <1>2, <3>1 DEF Entries
    <3>3. QED
      BY <3>1, <3>2 DEF Entries
  <2>2. PICK r \in Entries : r = s \/ s \in descendants[r]
    BY <1>1 DEF RootedInv, StrandsInv
  <2>3. r \in Entries' /\ c \in descendants'[r]
    BY <1>2, <2>1, <2>2 DEF Entries
  <2>4. \A t \in Strand \ {c} :
          pc'[t] # "unborn" =>
            t \in Entries' \/ \E e \in Entries' : t \in descendants'[e]
    <3> SUFFICES ASSUME NEW t \in Strand \ {c}, pc'[t] # "unborn"
        PROVE t \in Entries' \/ \E e \in Entries' : t \in descendants'[e]
      OBVIOUS
    <3>1. pc[t] # "unborn"
      BY <1>1
    <3>2. t \in Entries \/ \E e \in Entries : t \in descendants[e]
      BY <3>1 DEF RootedInv, StrandsInv
    <3>3. QED
      BY <1>4, <2>1, <3>2 DEF Entries
  <2>5. QED
    BY <2>3, <2>4 DEF RootedInv
<1>8. RunOutlivesStrands'
  BY <1>1, <1>2 DEF RunOutlivesStrands, StrandsInv, Alive
<1>9. QED
  BY <1>6, <1>7, <1>8

-----------------------------------------------------------------------------
(* The two ways a SendSignal block ends. *)

LEMMA JoinedKeepsTree ==
  ASSUME StrandsInv, NEW s \in Strand, Joined(s)
  PROVE  TreeInv' /\ RootedInv' /\ RunOutlivesStrands'
<1>1. /\ pc[s] = "joining" /\ pc'[s] = "checking"
      /\ \A t \in Strand \ {s} : pc'[t] = pc[t]
      /\ \A t \in batch[s] : Over(t)
  BY DEF Joined, Goto, StrandsInv, TypeOK
<1>2. /\ batch' = [batch EXCEPT ![s] = {}]
      /\ UNCHANGED <<signals, descendants, over>>
  BY DEF Joined
<1>3. \A t \in Strand : /\ Alive(t)' <=> Alive(t)
                        /\ Over(t)' <=> Over(t)
                        /\ pc'[t] = "unborn" <=> pc[t] = "unborn"
  BY <1>1 DEF Alive, Over
<1>4. ASSUME NEW a \in Strand, NEW d \in Strand, d \in descendants[a],
             Alive(d)
      PROVE  Covered(a, d)'
  <2>1. PICK h \in Handles(a) : d = h \/ d \in descendants[h]
    BY <1>4 DEF TreeInv, Covered, StrandsInv
  <2>2. h \in Strand
    BY DEF Handles, StrandsInv, TypeOK
  <2>3. ~Over(h)
    BY <1>4, <2>1, <2>2 DEF TreeInv, StrandsInv, Alive, Over
  <2>4. h \in Handles(a)'
    BY <1>1, <1>2, <2>3 DEF Handles, StrandsInv, TypeOK
  <2>5. QED
    BY <1>2, <2>1, <2>4 DEF Covered
<1>5. TreeInv'
  BY <1>2, <1>3, <1>4 DEF TreeInv, StrandsInv
<1>6. Entries' = Entries
  BY <1>2, <1>3 DEF Entries
<1>7. QED
  BY <1>2, <1>3, <1>5, <1>6 DEF RootedInv, RunOutlivesStrands, StrandsInv

LEMMA GoingOnKeepsTree ==
  ASSUME StrandsInv, NEW s \in Strand, SendAndGoOn(s)
  PROVE  TreeInv' /\ RootedInv' /\ RunOutlivesStrands'
<1>1. /\ pc[s] = "sending" /\ pc'[s] = "checking"
      /\ \A t \in Strand \ {s} : pc'[t] = pc[t]
  BY DEF SendAndGoOn, Goto, StrandsInv, TypeOK
<1>2. /\ batch' = [batch EXCEPT ![s] = {}]
      /\ signals' = [signals EXCEPT ![s] = signals[s] \union batch[s]]
      /\ UNCHANGED <<descendants, over>>
  BY DEF SendAndGoOn, Kept
<1>3. \A t \in Strand : /\ Alive(t)' <=> Alive(t)
                        /\ Over(t)' <=> Over(t)
                        /\ pc'[t] = "unborn" <=> pc[t] = "unborn"
  BY <1>1 DEF Alive, Over
<1>4. \A t \in Strand : Handles(t)' = Handles(t)
  BY <1>2 DEF Handles, StrandsInv, TypeOK
<1>5. TreeInv'
  BY <1>2, <1>3, <1>4 DEF TreeInv, Covered, StrandsInv
<1>6. Entries' = Entries
  BY <1>2, <1>3 DEF Entries
<1>7. QED
  BY <1>2, <1>3, <1>5, <1>6 DEF RootedInv, RunOutlivesStrands, StrandsInv

-----------------------------------------------------------------------------
(* The run returns when its entries are over: every living strand would be *)
(* an entry or a descendant of one.                                        *)

LEMMA ReturnKeepsTree ==
  ASSUME StrandsInv, RunReturns
  PROVE  TreeInv' /\ RootedInv' /\ RunOutlivesStrands'
<1>1. UNCHANGED <<pc, batch, signals, descendants>>
  BY DEF RunReturns, tree
<1>2. \A s \in Strand : ~Alive(s)
  <2> SUFFICES ASSUME NEW s \in Strand, Alive(s) PROVE FALSE
    OBVIOUS
  <2>1. PICK e \in Entries : s = e \/ s \in descendants[e]
    BY DEF RootedInv, StrandsInv, Alive
  <2>2. e \in Strand /\ Over(e)
    BY <2>1 DEF RunReturns, Entries
  <2>3. QED
    BY <2>1, <2>2 DEF TreeInv, StrandsInv, Alive, Over
<1>3. TreeInv' /\ RootedInv'
  BY <1>1 DEF TreeInv, Covered, Handles, RootedInv, Entries, Alive, Over,
              StrandsInv
<1>4. RunOutlivesStrands'
  BY <1>1, <1>2 DEF RunOutlivesStrands, Alive
<1>5. QED
  BY <1>3, <1>4

-----------------------------------------------------------------------------
(* Every action of a strand keeps the rest of the invariant. *)

(* Types. *)
LEMMA StepKeepsTypes ==
  ASSUME StrandsInv, NEW s \in Strand,
         Thread(s) \/ Block(s) \/ CommandEnds(s) \/ Send(s)
  PROVE  TypeOK'
<1>1. ASSUME Start(s) PROVE TypeOK'
  BY <1>1 DEF StrandsInv, TypeOK, PC, Start, Goto, flags, tree, inputs
<1>2. ASSUME SpawnFails(s) PROVE TypeOK'
  BY <1>2 DEF StrandsInv, TypeOK, PC, SpawnFails, Goto, flags, tree, inputs
<1>3. ASSUME Check(s) PROVE TypeOK'
  BY <1>3 DEF StrandsInv, TypeOK, PC, Check, Goto, flags, tree, inputs
<1>4. ASSUME Finish(s) PROVE TypeOK'
  BY <1>4 DEF StrandsInv, TypeOK, PC, Finish, Goto, flags, tree, inputs
<1>5. ASSUME Drained(s) PROVE TypeOK'
  BY <1>5 DEF StrandsInv, TypeOK, PC, Drained, Goto, flags, tree, inputs
<1>6. ASSUME Cleanup(s) PROVE TypeOK'
  BY <1>6 DEF StrandsInv, TypeOK, PC, Cleanup, Goto, flags, tree, StillHeld
<1>7. ASSUME OtherBlock(s) PROVE TypeOK'
  BY <1>7 DEF StrandsInv, TypeOK, PC, OtherBlock, Goto, flags, tree, inputs
<1>8. ASSUME NEW ks \in SUBSET Input, Press(s, ks) PROVE TypeOK'
  BY <1>8 DEF StrandsInv, TypeOK, PC, Press, Goto, flags, tree, Remembered
<1>9. ASSUME NEW ks \in SUBSET Input, Release(s, ks) PROVE TypeOK'
  BY <1>9 DEF StrandsInv, TypeOK, PC, Release, Goto, flags, tree
<1>10. ASSUME NEW k \in Input \union Raw, Click(s, k) PROVE TypeOK'
  BY <1>10 DEF StrandsInv, TypeOK, PC, Click, Goto, flags, tree
<1>11. ASSUME NEW k \in Raw, RawPress(s, k) PROVE TypeOK'
  BY <1>11 DEF StrandsInv, TypeOK, PC, RawPress, Goto, flags, tree
<1>12. ASSUME StopAll(s) PROVE TypeOK'
  BY <1>12 DEF StrandsInv, TypeOK, PC, StopAll, Goto, tree, inputs
<1>13. ASSUME StopThisStrand(s) PROVE TypeOK'
  BY <1>13 DEF StrandsInv, TypeOK, PC, StopThisStrand, Goto, tree, inputs
<1>14. ASSUME StopOtherStrands(s) PROVE TypeOK'
  BY <1>14 DEF StrandsInv, TypeOK, PC, StopOtherStrands, Goto, tree, inputs,
               Upgraded, MutexFree
<1>15. ASSUME ForkBegin(s) PROVE TypeOK'
  BY <1>15, StrandsAssumption DEF StrandsInv, TypeOK, PC, ForkBegin, Goto,
                                  tree, inputs, MutexFree
<1>16. ASSUME NEW c \in Strand, ForkEnd(s, c) PROVE TypeOK'
  <2>1. /\ local' \in [Strand -> BOOLEAN]
        /\ siblings' \subseteq Strand
        /\ mutex' \in Strand \union {NoStrand}
        /\ batch' \in [Strand -> SUBSET Strand]
        /\ cancelled' \subseteq Strand
        /\ sample' \in [Strand -> BOOLEAN]
        /\ UNCHANGED <<run, signals, tracked, down, refused, over>>
    BY <1>16 DEF StrandsInv, TypeOK, ForkEnd, inputs, Upgraded, ChildFlag
  <2>2. descendants' \in [Strand -> SUBSET Strand]
    BY <1>16 DEF StrandsInv, TypeOK, ForkEnd
  <2>3. /\ pc' \in [Strand -> PC]
        /\ \A t \in Strand : pc'[t] = "sampled" <=> mutex' = t
    BY <1>16, StrandsAssumption DEF StrandsInv, TypeOK, PC, ForkEnd
  <2>4. QED
    BY <2>1, <2>2, <2>3 DEF StrandsInv, TypeOK
<1>17. ASSUME SendAndWait(s) PROVE TypeOK'
  BY <1>17 DEF StrandsInv, TypeOK, PC, SendAndWait, Goto, flags, tree, inputs
<1>18. ASSUME Joined(s) PROVE TypeOK'
  BY <1>18 DEF StrandsInv, TypeOK, PC, Joined, Goto, flags, inputs
<1>19. ASSUME SendAndGoOn(s) PROVE TypeOK'
  BY <1>19 DEF StrandsInv, TypeOK, PC, SendAndGoOn, Goto, flags, inputs, Kept
<1>20. ASSUME CommandWait(s) PROVE TypeOK'
  BY <1>20 DEF StrandsInv, TypeOK, PC, CommandWait, Goto, flags, tree, inputs
<1>21. ASSUME CommandEnds(s) PROVE TypeOK'
  BY <1>21 DEF StrandsInv, TypeOK, PC, CommandEnds, Goto, flags, tree, inputs
<1>22. QED
  BY <1>1, <1>2, <1>3, <1>4, <1>5, <1>6, <1>7, <1>8, <1>9, <1>10, <1>11,
     <1>12, <1>13, <1>14, <1>15, <1>16, <1>17, <1>18, <1>19, <1>20, <1>21
  DEF Thread, Block, Send

(* Every living strand stays in the siblings list. *)
LEMMA StepKeepsRegistered ==
  ASSUME StrandsInv, NEW s \in Strand,
         Thread(s) \/ Block(s) \/ CommandEnds(s) \/ Send(s)
  PROVE  Registered'
<1>1. ASSUME Start(s) PROVE Registered'
  BY <1>1 DEF StrandsInv, TypeOK, Registered, Alive, Start, Goto, flags, tree,
              inputs
<1>2. ASSUME SpawnFails(s) PROVE Registered'
  BY <1>2 DEF StrandsInv, TypeOK, Registered, Alive, SpawnFails, Goto, flags,
              tree, inputs
<1>3. ASSUME Check(s) PROVE Registered'
  BY <1>3 DEF StrandsInv, TypeOK, Registered, Alive, Check, Goto, flags, tree,
              inputs
<1>4. ASSUME Finish(s) PROVE Registered'
  BY <1>4 DEF StrandsInv, TypeOK, Registered, Alive, Finish, Goto, flags,
              tree, inputs
<1>5. ASSUME Drained(s) PROVE Registered'
  BY <1>5 DEF StrandsInv, TypeOK, Registered, Alive, Drained, Goto, flags,
              tree, inputs
<1>6. ASSUME Cleanup(s) PROVE Registered'
  BY <1>6 DEF StrandsInv, TypeOK, Registered, Alive, Cleanup, Goto, flags,
              tree, StillHeld
<1>7. ASSUME OtherBlock(s) PROVE Registered'
  BY <1>7 DEF StrandsInv, TypeOK, Registered, Alive, OtherBlock, Goto, flags,
              tree, inputs
<1>8. ASSUME NEW ks \in SUBSET Input, Press(s, ks) PROVE Registered'
  BY <1>8 DEF StrandsInv, TypeOK, Registered, Alive, Press, Goto, flags, tree,
              Remembered
<1>9. ASSUME NEW ks \in SUBSET Input, Release(s, ks) PROVE Registered'
  BY <1>9 DEF StrandsInv, TypeOK, Registered, Alive, Release, Goto, flags,
              tree
<1>10. ASSUME NEW k \in Input \union Raw, Click(s, k) PROVE Registered'
  BY <1>10 DEF StrandsInv, TypeOK, Registered, Alive, Click, Goto, flags, tree
<1>11. ASSUME NEW k \in Raw, RawPress(s, k) PROVE Registered'
  BY <1>11 DEF StrandsInv, TypeOK, Registered, Alive, RawPress, Goto, flags,
               tree
<1>12. ASSUME StopAll(s) PROVE Registered'
  BY <1>12 DEF StrandsInv, TypeOK, Registered, Alive, StopAll, Goto, tree,
               inputs
<1>13. ASSUME StopThisStrand(s) PROVE Registered'
  BY <1>13 DEF StrandsInv, TypeOK, Registered, Alive, StopThisStrand, Goto,
               tree, inputs
<1>14. ASSUME StopOtherStrands(s) PROVE Registered'
  BY <1>14 DEF StrandsInv, TypeOK, Registered, Alive, StopOtherStrands, Goto,
               tree, inputs, Upgraded, MutexFree
<1>15. ASSUME ForkBegin(s) PROVE Registered'
  BY <1>15 DEF StrandsInv, TypeOK, Registered, Alive, ForkBegin, Goto, tree,
               inputs, MutexFree
<1>16. ASSUME NEW c \in Strand, ForkEnd(s, c) PROVE Registered'
  BY <1>16 DEF StrandsInv, TypeOK, Registered, Alive, ForkEnd, inputs,
               Upgraded, ChildFlag
<1>17. ASSUME SendAndWait(s) PROVE Registered'
  BY <1>17 DEF StrandsInv, TypeOK, Registered, Alive, SendAndWait, Goto,
               flags, tree, inputs
<1>18. ASSUME Joined(s) PROVE Registered'
  BY <1>18 DEF StrandsInv, TypeOK, Registered, Alive, Joined, Goto, flags,
               inputs
<1>19. ASSUME SendAndGoOn(s) PROVE Registered'
  BY <1>19 DEF StrandsInv, TypeOK, Registered, Alive, SendAndGoOn, Goto,
               flags, inputs, Kept
<1>20. ASSUME CommandWait(s) PROVE Registered'
  BY <1>20 DEF StrandsInv, TypeOK, Registered, Alive, CommandWait, Goto,
               flags, tree, inputs
<1>21. ASSUME CommandEnds(s) PROVE Registered'
  BY <1>21 DEF StrandsInv, TypeOK, Registered, Alive, CommandEnds, Goto,
               flags, tree, inputs
<1>22. QED
  BY <1>1, <1>2, <1>3, <1>4, <1>5, <1>6, <1>7, <1>8, <1>9, <1>10, <1>11,
     <1>12, <1>13, <1>14, <1>15, <1>16, <1>17, <1>18, <1>19, <1>20, <1>21
  DEF Thread, Block, Send

(* The strands a "stop other strands" was aimed at stay stopped. *)
LEMMA StepKeepsCancelled ==
  ASSUME StrandsInv, NEW s \in Strand,
         Thread(s) \/ Block(s) \/ CommandEnds(s) \/ Send(s)
  PROVE  CancelledInv'
<1>1. ASSUME Start(s) PROVE CancelledInv'
  BY <1>1 DEF StrandsInv, TypeOK, CancelledInv, Alive, Start, Goto, flags,
              tree, inputs
<1>2. ASSUME SpawnFails(s) PROVE CancelledInv'
  BY <1>2 DEF StrandsInv, TypeOK, CancelledInv, Alive, SpawnFails, Goto,
              flags, tree, inputs
<1>3. ASSUME Check(s) PROVE CancelledInv'
  BY <1>3 DEF StrandsInv, TypeOK, CancelledInv, Alive, Check, Goto, flags,
              tree, inputs
<1>4. ASSUME Finish(s) PROVE CancelledInv'
  BY <1>4 DEF StrandsInv, TypeOK, CancelledInv, Alive, Finish, Goto, flags,
              tree, inputs
<1>5. ASSUME Drained(s) PROVE CancelledInv'
  BY <1>5 DEF StrandsInv, TypeOK, CancelledInv, Alive, Drained, Goto, flags,
              tree, inputs, JoinsSignals
<1>6. ASSUME Cleanup(s) PROVE CancelledInv'
  BY <1>6 DEF StrandsInv, TypeOK, CancelledInv, Alive, Cleanup, Goto, flags,
              tree, StillHeld
<1>7. ASSUME OtherBlock(s) PROVE CancelledInv'
  BY <1>7 DEF StrandsInv, TypeOK, CancelledInv, Alive, OtherBlock, Goto,
              flags, tree, inputs
<1>8. ASSUME NEW ks \in SUBSET Input, Press(s, ks) PROVE CancelledInv'
  BY <1>8 DEF StrandsInv, TypeOK, CancelledInv, Alive, Press, Goto, flags,
              tree, Remembered
<1>9. ASSUME NEW ks \in SUBSET Input, Release(s, ks) PROVE CancelledInv'
  BY <1>9 DEF StrandsInv, TypeOK, CancelledInv, Alive, Release, Goto, flags,
              tree
<1>10. ASSUME NEW k \in Input \union Raw, Click(s, k) PROVE CancelledInv'
  BY <1>10 DEF StrandsInv, TypeOK, CancelledInv, Alive, Click, Goto, flags,
               tree
<1>11. ASSUME NEW k \in Raw, RawPress(s, k) PROVE CancelledInv'
  BY <1>11 DEF StrandsInv, TypeOK, CancelledInv, Alive, RawPress, Goto, flags,
               tree
<1>12. ASSUME StopAll(s) PROVE CancelledInv'
  BY <1>12 DEF StrandsInv, TypeOK, CancelledInv, Alive, StopAll, Goto, tree,
               inputs
<1>13. ASSUME StopThisStrand(s) PROVE CancelledInv'
  BY <1>13 DEF StrandsInv, TypeOK, CancelledInv, Alive, StopThisStrand, Goto,
               tree, inputs
<1>14. ASSUME StopOtherStrands(s) PROVE CancelledInv'
  BY <1>14, StrandsAssumption DEF StrandsInv, TypeOK, CancelledInv,
                                  Registered, Alive, StopOtherStrands, Goto,
                                  tree, inputs, Upgraded, MutexFree
<1>15. ASSUME ForkBegin(s) PROVE CancelledInv'
  BY <1>15 DEF StrandsInv, TypeOK, CancelledInv, ForkBegin, Goto, tree,
               inputs, StopRequested
<1>16. ASSUME NEW c \in Strand, ForkEnd(s, c) PROVE CancelledInv'
  BY <1>16 DEF StrandsInv, TypeOK, CancelledInv, Alive, ForkEnd, inputs,
               Upgraded, ChildFlag
<1>17. ASSUME SendAndWait(s) PROVE CancelledInv'
  BY <1>17 DEF StrandsInv, TypeOK, CancelledInv, Alive, SendAndWait, Goto,
               flags, tree, inputs
<1>18. ASSUME Joined(s) PROVE CancelledInv'
  BY <1>18 DEF StrandsInv, TypeOK, CancelledInv, Alive, Joined, Goto, flags,
               inputs
<1>19. ASSUME SendAndGoOn(s) PROVE CancelledInv'
  BY <1>19 DEF StrandsInv, TypeOK, CancelledInv, Alive, SendAndGoOn, Goto,
               flags, inputs, Kept
<1>20. ASSUME CommandWait(s) PROVE CancelledInv'
  BY <1>20 DEF StrandsInv, TypeOK, CancelledInv, Alive, CommandWait, Goto,
               flags, tree, inputs
<1>21. ASSUME CommandEnds(s) PROVE CancelledInv'
  BY <1>21 DEF StrandsInv, TypeOK, CancelledInv, Alive, CommandEnds, Goto,
               flags, tree, inputs
<1>22. QED
  BY <1>1, <1>2, <1>3, <1>4, <1>5, <1>6, <1>7, <1>8, <1>9, <1>10, <1>11,
     <1>12, <1>13, <1>14, <1>15, <1>16, <1>17, <1>18, <1>19, <1>20, <1>21
  DEF Thread, Block, Send

(* What is held down is in the list of a living strand. *)
LEMMA StepKeepsHeld ==
  ASSUME StrandsInv, NEW s \in Strand,
         Thread(s) \/ Block(s) \/ CommandEnds(s) \/ Send(s)
  PROVE  HeldByLivingStrand'
<1>1. ASSUME Start(s) PROVE HeldByLivingStrand'
  BY <1>1 DEF StrandsInv, TypeOK, HandlesInv, HeldByLivingStrand, Alive,
              Start, Goto, flags, tree, inputs
<1>2. ASSUME SpawnFails(s) PROVE HeldByLivingStrand'
  BY <1>2 DEF StrandsInv, TypeOK, HandlesInv, HeldByLivingStrand, Alive,
              SpawnFails, Goto, flags, tree, inputs
<1>3. ASSUME Check(s) PROVE HeldByLivingStrand'
  BY <1>3 DEF StrandsInv, TypeOK, HandlesInv, HeldByLivingStrand, Alive,
              Check, Goto, flags, tree, inputs
<1>4. ASSUME Finish(s) PROVE HeldByLivingStrand'
  BY <1>4 DEF StrandsInv, TypeOK, HandlesInv, HeldByLivingStrand, Alive,
              Finish, Goto, flags, tree, inputs
<1>5. ASSUME Drained(s) PROVE HeldByLivingStrand'
  BY <1>5 DEF StrandsInv, TypeOK, HandlesInv, HeldByLivingStrand, Alive,
              Drained, Goto, flags, tree, inputs, JoinsSignals
<1>6. ASSUME Cleanup(s) PROVE HeldByLivingStrand'
  BY <1>6 DEF StrandsInv, TypeOK, HandlesInv, HeldByLivingStrand, Alive,
              Cleanup, Goto, flags, tree, StillHeld
<1>7. ASSUME OtherBlock(s) PROVE HeldByLivingStrand'
  BY <1>7 DEF StrandsInv, TypeOK, HandlesInv, HeldByLivingStrand, Alive,
              OtherBlock, Goto, flags, tree, inputs
<1>8. ASSUME NEW ks \in SUBSET Input, Press(s, ks) PROVE HeldByLivingStrand'
  BY <1>8 DEF StrandsInv, TypeOK, HandlesInv, HeldByLivingStrand, Alive,
              Press, Goto, flags, tree, Remembered
<1>9. ASSUME NEW ks \in SUBSET Input, Release(s, ks) PROVE HeldByLivingStrand'
  BY <1>9 DEF StrandsInv, TypeOK, HandlesInv, HeldByLivingStrand, Alive,
              Release, Goto, flags, tree
<1>10. ASSUME NEW k \in Input \union Raw, Click(s, k) PROVE
   HeldByLivingStrand'
  BY <1>10 DEF StrandsInv, TypeOK, HandlesInv, HeldByLivingStrand, Alive,
               Click, Goto, flags, tree
<1>11. ASSUME NEW k \in Raw, RawPress(s, k) PROVE HeldByLivingStrand'
  BY <1>11, StrandsAssumption DEF StrandsInv, TypeOK, HeldByLivingStrand,
                                  Alive, RawPress, Goto, flags, tree
<1>12. ASSUME StopAll(s) PROVE HeldByLivingStrand'
  BY <1>12 DEF StrandsInv, TypeOK, HandlesInv, HeldByLivingStrand, Alive,
               StopAll, Goto, tree, inputs
<1>13. ASSUME StopThisStrand(s) PROVE HeldByLivingStrand'
  BY <1>13 DEF StrandsInv, TypeOK, HandlesInv, HeldByLivingStrand, Alive,
               StopThisStrand, Goto, tree, inputs
<1>14. ASSUME StopOtherStrands(s) PROVE HeldByLivingStrand'
  BY <1>14 DEF StrandsInv, TypeOK, HandlesInv, HeldByLivingStrand, Alive,
               StopOtherStrands, Goto, tree, inputs, Upgraded, MutexFree
<1>15. ASSUME ForkBegin(s) PROVE HeldByLivingStrand'
  BY <1>15 DEF StrandsInv, TypeOK, HandlesInv, HeldByLivingStrand, Alive,
               ForkBegin, Goto, tree, inputs, MutexFree
<1>16. ASSUME NEW c \in Strand, ForkEnd(s, c) PROVE HeldByLivingStrand'
  BY <1>16 DEF StrandsInv, TypeOK, HandlesInv, HeldByLivingStrand, Alive,
               ForkEnd, inputs, Upgraded, ChildFlag
<1>17. ASSUME SendAndWait(s) PROVE HeldByLivingStrand'
  BY <1>17 DEF StrandsInv, TypeOK, HandlesInv, HeldByLivingStrand, Alive,
               SendAndWait, Goto, flags, tree, inputs
<1>18. ASSUME Joined(s) PROVE HeldByLivingStrand'
  BY <1>18 DEF StrandsInv, TypeOK, HandlesInv, HeldByLivingStrand, Alive,
               Joined, Goto, flags, inputs
<1>19. ASSUME SendAndGoOn(s) PROVE HeldByLivingStrand'
  BY <1>19 DEF StrandsInv, TypeOK, HandlesInv, HeldByLivingStrand, Alive,
               SendAndGoOn, Goto, flags, inputs, Kept
<1>20. ASSUME CommandWait(s) PROVE HeldByLivingStrand'
  BY <1>20 DEF StrandsInv, TypeOK, HandlesInv, HeldByLivingStrand, Alive,
               CommandWait, Goto, flags, tree, inputs
<1>21. ASSUME CommandEnds(s) PROVE HeldByLivingStrand'
  BY <1>21 DEF StrandsInv, TypeOK, HandlesInv, HeldByLivingStrand, Alive,
               CommandEnds, Goto, flags, tree, inputs
<1>22. QED
  BY <1>1, <1>2, <1>3, <1>4, <1>5, <1>6, <1>7, <1>8, <1>9, <1>10, <1>11,
     <1>12, <1>13, <1>14, <1>15, <1>16, <1>17, <1>18, <1>19, <1>20, <1>21
  DEF Thread, Block, Send

(* Who has handles. *)
LEMMA StepKeepsHandles ==
  ASSUME StrandsInv, NEW s \in Strand,
         Thread(s) \/ Block(s) \/ CommandEnds(s) \/ Send(s)
  PROVE  HandlesInv'
<1>1. ASSUME Start(s) PROVE HandlesInv'
  BY <1>1 DEF StrandsInv, TypeOK, HandlesInv, Handles, Over, Start, Goto,
              flags, tree, inputs
<1>2. ASSUME SpawnFails(s) PROVE HandlesInv'
  BY <1>2 DEF StrandsInv, TypeOK, HandlesInv, Handles, Over, SpawnFails, Goto,
              flags, tree, inputs
<1>3. ASSUME Check(s) PROVE HandlesInv'
  BY <1>3 DEF StrandsInv, TypeOK, HandlesInv, Handles, Over, Check, Goto,
              flags, tree, inputs
<1>4. ASSUME Finish(s) PROVE HandlesInv'
  BY <1>4 DEF StrandsInv, TypeOK, HandlesInv, Handles, Over, Finish, Goto,
              flags, tree, inputs
<1>5. ASSUME Drained(s) PROVE HandlesInv'
  BY <1>5 DEF StrandsInv, TypeOK, HandlesInv, Handles, Over, Drained, Goto,
              flags, tree, inputs, JoinsSignals
<1>6. ASSUME Cleanup(s) PROVE HandlesInv'
  BY <1>6 DEF StrandsInv, TypeOK, HandlesInv, Handles, Over, Cleanup, Goto,
              flags, tree, StillHeld
<1>7. ASSUME OtherBlock(s) PROVE HandlesInv'
  BY <1>7 DEF StrandsInv, TypeOK, HandlesInv, Handles, Over, OtherBlock, Goto,
              flags, tree, inputs
<1>8. ASSUME NEW ks \in SUBSET Input, Press(s, ks) PROVE HandlesInv'
  BY <1>8 DEF StrandsInv, TypeOK, HandlesInv, Handles, Over, Press, Goto,
              flags, tree, Remembered
<1>9. ASSUME NEW ks \in SUBSET Input, Release(s, ks) PROVE HandlesInv'
  BY <1>9 DEF StrandsInv, TypeOK, HandlesInv, Handles, Over, Release, Goto,
              flags, tree
<1>10. ASSUME NEW k \in Input \union Raw, Click(s, k) PROVE HandlesInv'
  BY <1>10 DEF StrandsInv, TypeOK, HandlesInv, Handles, Over, Click, Goto,
               flags, tree
<1>11. ASSUME NEW k \in Raw, RawPress(s, k) PROVE HandlesInv'
  BY <1>11 DEF StrandsInv, TypeOK, HandlesInv, Handles, Over, RawPress, Goto,
               flags, tree
<1>12. ASSUME StopAll(s) PROVE HandlesInv'
  BY <1>12 DEF StrandsInv, TypeOK, HandlesInv, Handles, Over, StopAll, Goto,
               tree, inputs
<1>13. ASSUME StopThisStrand(s) PROVE HandlesInv'
  BY <1>13 DEF StrandsInv, TypeOK, HandlesInv, Handles, Over, StopThisStrand,
               Goto, tree, inputs
<1>14. ASSUME StopOtherStrands(s) PROVE HandlesInv'
  BY <1>14 DEF StrandsInv, TypeOK, HandlesInv, Handles, Over,
               StopOtherStrands, Goto, tree, inputs, Upgraded, MutexFree
<1>15. ASSUME ForkBegin(s) PROVE HandlesInv'
  BY <1>15 DEF StrandsInv, TypeOK, HandlesInv, Handles, Over, ForkBegin, Goto,
               tree, inputs, MutexFree
<1>16. ASSUME NEW c \in Strand, ForkEnd(s, c) PROVE HandlesInv'
  BY <1>16 DEF StrandsInv, TypeOK, HandlesInv, Handles, Over, ForkEnd, inputs,
               Upgraded, ChildFlag
<1>17. ASSUME SendAndWait(s) PROVE HandlesInv'
  BY <1>17 DEF StrandsInv, TypeOK, HandlesInv, Handles, Over, SendAndWait,
               Goto, flags, tree, inputs
<1>18. ASSUME Joined(s) PROVE HandlesInv'
  BY <1>18 DEF StrandsInv, TypeOK, HandlesInv, Handles, Over, Joined, Goto,
               flags, inputs
<1>19. ASSUME SendAndGoOn(s) PROVE HandlesInv'
  BY <1>19 DEF StrandsInv, TypeOK, HandlesInv, Handles, Over, SendAndGoOn,
               Goto, flags, inputs, Kept
<1>20. ASSUME CommandWait(s) PROVE HandlesInv'
  BY <1>20 DEF StrandsInv, TypeOK, HandlesInv, Handles, Over, CommandWait,
               Goto, flags, tree, inputs
<1>21. ASSUME CommandEnds(s) PROVE HandlesInv'
  BY <1>21 DEF StrandsInv, TypeOK, HandlesInv, Handles, Over, CommandEnds,
               Goto, flags, tree, inputs
<1>22. QED
  BY <1>1, <1>2, <1>3, <1>4, <1>5, <1>6, <1>7, <1>8, <1>9, <1>10, <1>11,
     <1>12, <1>13, <1>14, <1>15, <1>16, <1>17, <1>18, <1>19, <1>20, <1>21
  DEF Thread, Block, Send

-----------------------------------------------------------------------------
(* Putting it together. *)

LEMMA StepKeepsTree ==
  ASSUME StrandsInv, NEW s \in Strand,
         Thread(s) \/ Block(s) \/ CommandEnds(s) \/ Send(s)
  PROVE  TreeInv' /\ RootedInv' /\ RunOutlivesStrands'
<1>1. Start(s) \/ Check(s) \/ Finish(s) \/ Drained(s) => Within(s)
  BY DEF Start, Check, Finish, Drained, Goto, tree, inputs, Within, PC,
         StrandsInv, TypeOK
<1>2. Block(s) \/ CommandEnds(s) => Within(s)
  BY DEF Block, OtherBlock, CommandWait, CommandEnds, Press, Release, Click, RawPress, StopAll,
         StopThisStrand, StopOtherStrands, Goto, tree, Within, PC, StrandsInv, TypeOK
<1>3. ForkBegin(s) \/ SendAndWait(s) => Within(s)
  BY DEF ForkBegin, SendAndWait, Goto, tree, Within, PC, StrandsInv, TypeOK
<1>4. SpawnFails(s) \/ Cleanup(s) => Ends(s)
  <2>1. SpawnFails(s) => \A h \in Handles(s) : Over(h)
    BY DEF SpawnFails, StrandsInv, HandlesInv
  <2>2. Cleanup(s) => \A h \in Handles(s) : Over(h)
    BY DEF Cleanup, StrandsInv, HandlesInv, Handles
  <2>3. QED
    BY <2>1, <2>2 DEF SpawnFails, Cleanup, Goto, tree, Ends, PC
<1>5. CASE Within(s)
  BY <1>5, WithinKeepsTree
<1>6. CASE Ends(s)
  BY <1>6, EndsKeepsTree
<1>7. ASSUME NEW c \in Strand, ForkEnd(s, c)
      PROVE  TreeInv' /\ RootedInv' /\ RunOutlivesStrands'
  BY <1>7, ForkKeepsTree
<1>8. CASE Joined(s)
  BY <1>8, JoinedKeepsTree
<1>9. CASE SendAndGoOn(s)
  BY <1>9, GoingOnKeepsTree
<1>10. QED
  BY <1>1, <1>2, <1>3, <1>4, <1>5, <1>6, <1>7, <1>8, <1>9 DEF Thread, Send

\* The app stopping the run, the run returning, and stuttering.
LEMMA OtherStepsKeep ==
  ASSUME StrandsInv, AppStops \/ RunReturns \/ UNCHANGED vars
  PROVE  StrandsInv'
<1>1. CASE AppStops \/ UNCHANGED vars
  <2>1. UNCHANGED <<local, siblings, mutex, sample, cancelled, pc, batch,
                    signals, descendants, tracked, down, refused, over>>
    BY <1>1 DEF AppStops, vars, tree, inputs
  <2>2. run' \in BOOLEAN
    BY <1>1 DEF AppStops, vars, StrandsInv, TypeOK
  <2>3. TypeOK' /\ Registered' /\ CancelledInv' /\ HeldByLivingStrand'
    BY <2>1, <2>2 DEF StrandsInv, TypeOK, Registered, CancelledInv,
                      HeldByLivingStrand, Alive
  <2>4. HandlesInv' /\ TreeInv' /\ RootedInv' /\ RunOutlivesStrands'
    BY <2>1 DEF StrandsInv, HandlesInv, TreeInv, Covered, Handles, RootedInv,
                Entries, RunOutlivesStrands, Alive, Over
  <2>5. QED
    BY <2>3, <2>4 DEF StrandsInv
<1>2. CASE RunReturns
  <2>1. /\ UNCHANGED <<run, local, siblings, mutex, sample, cancelled, pc,
                       batch, signals, descendants, tracked, down, refused>>
        /\ over' = TRUE
    BY <1>2 DEF RunReturns, flags, tree, inputs
  <2>2. TypeOK' /\ Registered' /\ CancelledInv' /\ HeldByLivingStrand'
    BY <2>1 DEF StrandsInv, TypeOK, Registered, CancelledInv,
                HeldByLivingStrand, Alive
  <2>3. HandlesInv'
    BY <2>1 DEF StrandsInv, HandlesInv, Handles, Over
  <2>4. QED
    BY <1>2, <2>2, <2>3, ReturnKeepsTree DEF StrandsInv
<1>3. QED
  BY <1>1, <1>2

LEMMA StrandsInductive == Spec => []StrandsInv
<1>1. Init => StrandsInv
  BY StrandsInit
<1>2. StrandsInv /\ [Next]_vars => StrandsInv'
  <2> SUFFICES ASSUME StrandsInv, [Next]_vars PROVE StrandsInv'
    OBVIOUS
  <2>1. ASSUME NEW s \in Strand,
               Thread(s) \/ Block(s) \/ CommandEnds(s) \/ Send(s)
        PROVE  StrandsInv'
    BY <2>1, StepKeepsTypes, StepKeepsRegistered, StepKeepsCancelled,
       StepKeepsHeld, StepKeepsHandles, StepKeepsTree DEF StrandsInv
  <2>2. CASE AppStops \/ RunReturns \/ UNCHANGED vars
    BY <2>2, OtherStepsKeep
  <2>3. QED
    BY <2>1, <2>2 DEF Next
<1>3. QED
  BY <1>1, <1>2, PTL DEF Spec

-----------------------------------------------------------------------------
(* The theorems. *)

\* Types: a strand is inside fork() exactly when it holds the siblings mutex.
THEOREM StrandsTypes == Spec => []TypeOK
<1>1. StrandsInv => TypeOK
  BY DEF StrandsInv
<1>2. QED
  BY <1>1, StrandsInductive, PTL

\* Nothing that "stop other strands" was aimed at, nor what it started, ever
\* has its stop flag back: fork() copies the flag under the mutex the block
\* clears the flags under (stop.rs).
THEOREM StoppedForGood == Spec => []CancelledStaysStopped
<1>1. StrandsInv => CancelledStaysStopped
  BY DEF StrandsInv, CancelledInv, CancelledStaysStopped
<1>2. QED
  BY <1>1, StrandsInductive, PTL

\* A strand's thread ends after those of all its descendants: run_strand joins
\* signal_threads, and a waiting SendSignal what it started (runner.rs,
\* system.rs).
THEOREM ParentsOutliveChildren == Spec => []DescendantsEndFirst
<1>1. StrandsInv => DescendantsEndFirst
  BY DEF StrandsInv, TypeOK, TreeInv, DescendantsEndFirst
<1>2. QED
  BY <1>1, StrandsInductive, PTL

\* run_entries returns when no strand of the run is left, however deep its
\* signals were nested.
THEOREM RunIsLast == Spec => []RunOutlivesStrands
<1>1. StrandsInv => RunOutlivesStrands
  BY DEF StrandsInv
<1>2. QED
  BY <1>1, StrandsInductive, PTL

\* What is held down is in the list of a strand that will still clean up, but
\* for what an earlier clean-up could not release.
THEOREM HeldIsTracked == Spec => []HeldByLivingStrand
<1>1. StrandsInv => HeldByLivingStrand
  BY DEF StrandsInv
<1>2. QED
  BY <1>1, StrandsInductive, PTL

\* No key and no button stays down after a run, stopped or not, but one the
\* backend refused to release: run_strand's cleanup tries every one of them.
THEOREM NoStuckKeys == Spec => []NothingHeldAfterRun
<1>1. StrandsInv => NothingHeldAfterRun
  BY DEF StrandsInv, HeldByLivingStrand, RunOutlivesStrands,
         NothingHeldAfterRun, TypeOK
<1>2. QED
  BY <1>1, StrandsInductive, PTL

=============================================================================
