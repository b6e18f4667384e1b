--------------------------- MODULE BlockRunnerProofs ---------------------------
(***************************************************************************)
(* Proofs about BlockRunner, for any limits, call depth, length and        *)
(* nesting of lists.                                                       *)
(***************************************************************************)
EXTENDS BlockRunner, SequenceTheorems, FiniteSetTheorems, TLAPS

Calls == {"call", "value"}

Catchers == {"try", "retry"}

\* The frames of a stack whose blocks make a failure an error.
Tries(st) == {i \in 1..Len(st) : st[i].kind \in Catchers}

Outside(st, i) == \A j \in 1..i : st[j].kind \notin Calls

(***************************************************************************)
(* What a frame's place in the stack says of it: the strand's own list is  *)
(* the lowest; a call is one deeper than the list it is in, and any other  *)
(* list as deep; a call keeps the branch of the list it is in, which is    *)
(* none for an outermost call, and any other list has that branch itself.  *)
(***************************************************************************)
Fits(st, i) ==
  /\ st[i].kind = "strand" <=> i = 1
  /\ i = 1 => st[i].depth = 0
  /\ i > 1 => st[i].depth = IF st[i].kind \in Calls THEN st[i - 1].depth + 1
                                                    ELSE st[i - 1].depth
  /\ st[i].kind \in Calls /\ Outside(st, i - 1) => st[i].saved = NoBranch
  /\ i > 1 => st[i - 1].given = IF st[i].kind \in Calls THEN st[i].saved
                                                        ELSE st[i].given

Shape(st) == \A i \in 1..Len(st) : Fits(st, i)

\* The two frames differ in how far they are at most.
Alike(f, g) ==
  /\ f.kind = g.kind /\ f.depth = g.depth
  /\ f.nesting = g.nesting /\ f.saved = g.saved /\ f.given = g.given

(***************************************************************************)
(* What the steps do to the stack.                                         *)
(***************************************************************************)
LEMMA OneLess ==
  \A n \in Nat \ {0} : \A l :
    l = (IF 1 <= n - 1 THEN (n - 1) - 1 + 1 ELSE 0) => l = n - 1
OBVIOUS

LEMMA StackFacts ==
  ASSUME TypeOK, ~Ended
  PROVE  /\ Len(stack) \in Nat \ {0}
         /\ Top = stack[Len(stack)] /\ Top \in Frame
         /\ Below \in Seq(Frame) /\ Len(Below) = Len(stack) - 1
         /\ \A i \in 1..Len(stack) - 1 : Below[i] = stack[i]
<1>1. stack \in Seq(Frame) /\ stack # <<>>
  BY DEF TypeOK, Ended
<1>2. Len(stack) \in Nat \ {0}
  BY <1>1
<1>3. Top \in Frame
  BY <1>1, <1>2, ElementOfSeq DEF Top
<1>4. \A i \in 1..Len(stack) - 1 : stack[i] \in Frame
  BY <1>1, <1>2, ElementOfSeq
<1>5. Below \in Seq(Frame) /\ Len(Below) = Len(stack) - 1
      /\ \A i \in 1..Len(stack) - 1 : Below[i] = stack[i]
  <2>1. /\ Below \in Seq(Frame)
        /\ Len(Below) = IF 1 <= Len(stack) - 1 THEN (Len(stack) - 1) - 1 + 1 ELSE 0
        /\ \A i \in 1..(Len(stack) - 1) - 1 + 1 : Below[i] = stack[1 + i - 1]
    BY <1>2, <1>4, SubSeqProperties DEF Below
  <2>2. Len(Below) = Len(stack) - 1
    BY <1>2, <2>1, OneLess, Zenon
  <2>3. ASSUME NEW i \in 1..Len(stack) - 1
        PROVE  Below[i] = stack[i]
    <3>1. i \in 1..(Len(stack) - 1) - 1 + 1 /\ 1 + i - 1 = i
      BY <1>2
    <3>2. QED
      BY <2>1, <3>1
  <2>4. QED
    BY <2>1, <2>2, <2>3
<1>6. QED
  BY <1>2, <1>3, <1>5 DEF Top

LEMMA AdvancedFacts ==
  ASSUME TypeOK, AtBlock
  PROVE  /\ Advanced \in Seq(Frame) /\ Len(Advanced) = Len(stack)
         /\ \A i \in 1..Len(stack) : Alike(Advanced[i], stack[i])
<1>1. ~Ended /\ Top.left > 0
  BY DEF AtBlock
<1>2. stack \in Seq(Frame) /\ Len(stack) \in 1..Len(stack) /\ Top \in Frame
      /\ Top = stack[Len(stack)]
  BY <1>1, StackFacts DEF TypeOK
<1>3. [Top EXCEPT !.left = @ - 1] \in Frame
  <2>1. Top.left \in 0..MaxLength /\ MaxLength \in Nat
    BY <1>2, BlockRunnerAssumption DEF Frame
  <2>2. Top.left - 1 \in 0..MaxLength
    BY <1>1, <2>1
  <2>3. QED
    BY <1>2, <2>2 DEF Frame
<1>4. Advanced = [stack EXCEPT ![Len(stack)] = [Top EXCEPT !.left = @ - 1]]
  BY <1>2 DEF Advanced
<1>5. Alike([Top EXCEPT !.left = @ - 1], Top)
  BY <1>2 DEF Alike, Frame
<1>6. /\ Advanced \in Seq(Frame) /\ Len(Advanced) = Len(stack)
      /\ \A i \in 1..Len(stack) :
           Advanced[i] = IF i = Len(stack) THEN [Top EXCEPT !.left = @ - 1]
                                           ELSE stack[i]
  BY <1>2, <1>3, <1>4, ExceptSeq
<1>7. QED
  BY <1>2, <1>5, <1>6 DEF Alike

(***************************************************************************)
(* Stacks that differ in how far their lists are have the same shape; a    *)
(* list that is entered must fit on top; what is below a list keeps its    *)
(* shape.                                                                  *)
(***************************************************************************)
LEMMA AlikeShape ==
  ASSUME NEW st \in Seq(Frame), NEW new \in Seq(Frame), Len(new) = Len(st),
         \A i \in 1..Len(st) : Alike(new[i], st[i])
  PROVE  /\ Shape(st) => Shape(new)
         /\ Tries(new) = Tries(st)
         /\ \A i \in 0..Len(st) : Outside(new, i) <=> Outside(st, i)
<1>1. Len(st) \in Nat
  OBVIOUS
<1>2. \A i \in 1..Len(st) : /\ new[i].kind = st[i].kind
                            /\ new[i].depth = st[i].depth
                            /\ new[i].saved = st[i].saved
                            /\ new[i].given = st[i].given
  BY DEF Alike
<1>3. \A i \in 0..Len(st) : Outside(new, i) <=> Outside(st, i)
  BY <1>1, <1>2 DEF Outside
<1>4. ASSUME Shape(st), NEW i \in 1..Len(st)
      PROVE  Fits(new, i)
  <2>1. Fits(st, i) /\ i - 1 \in 0..Len(st)
    BY <1>1, <1>4 DEF Shape
  <2>2. i > 1 => i - 1 \in 1..Len(st)
    BY <1>1
  <2>3. QED
    BY <1>2, <1>3, <2>1, <2>2 DEF Fits
<1>5. QED
  BY <1>2, <1>3, <1>4 DEF Shape, Tries

LEMMA PushShape ==
  ASSUME NEW st \in Seq(Frame), NEW f \in Frame
  PROVE  LET new == Append(st, f) IN
         /\ new \in Seq(Frame) /\ Len(new) = Len(st) + 1
         /\ new # <<>> /\ new[Len(new)] = f
         /\ \A i \in 1..Len(st) : new[i] = st[i]
         /\ Shape(st) /\ Fits(new, Len(st) + 1) => Shape(new)
         /\ f.kind \in Catchers => Tries(new) = Tries(st) \union {Len(st) + 1}
         /\ f.kind \notin Catchers => Tries(new) = Tries(st)
         /\ \A i \in 0..Len(st) : Outside(new, i) <=> Outside(st, i)
<1> DEFINE new == Append(st, f)
<1>1. Len(st) \in Nat
  OBVIOUS
<1>2. /\ new \in Seq(Frame) /\ Len(new) = Len(st) + 1 /\ new # <<>>
      /\ new[Len(st) + 1] = f /\ \A i \in 1..Len(st) : new[i] = st[i]
  BY AppendProperties
<1>. HIDE DEF new
<1>3. \A i \in 0..Len(st) : Outside(new, i) <=> Outside(st, i)
  BY <1>1, <1>2 DEF Outside
<1>4. ASSUME Shape(st), Fits(new, Len(st) + 1), NEW i \in 1..Len(st) + 1
      PROVE  Fits(new, i)
  <2>1. CASE i = Len(st) + 1
    BY <1>4, <2>1
  <2>2. CASE i # Len(st) + 1
    <3>1. i \in 1..Len(st) /\ i - 1 \in 0..Len(st)
      BY <1>1, <2>2
    <3>2. Fits(st, i) /\ (i > 1 => i - 1 \in 1..Len(st))
      BY <1>1, <1>4, <3>1 DEF Shape
    <3>3. QED
      BY <1>2, <1>3, <3>1, <3>2 DEF Fits
  <2>3. QED
    BY <2>1, <2>2
<1>5. /\ f.kind \in Catchers => Tries(new) = Tries(st) \union {Len(st) + 1}
      /\ f.kind \notin Catchers => Tries(new) = Tries(st)
  BY <1>1, <1>2 DEF Tries
<1>6. QED
  BY <1>1, <1>2, <1>3, <1>4, <1>5 DEF Shape, new

LEMMA PopShape ==
  ASSUME NEW st \in Seq(Frame), NEW new \in Seq(Frame), Len(st) > 0,
         Len(new) = Len(st) - 1, \A i \in 1..Len(st) - 1 : new[i] = st[i]
  PROVE  /\ Shape(st) => Shape(new)
         /\ Tries(new) = Tries(st) \ {Len(st)}
         /\ \A i \in 0..Len(st) - 1 : Outside(new, i) <=> Outside(st, i)
<1>1. Len(st) \in Nat
  OBVIOUS
<1>2. \A i \in 0..Len(st) - 1 : Outside(new, i) <=> Outside(st, i)
  BY <1>1 DEF Outside
<1>3. ASSUME Shape(st), NEW i \in 1..Len(st) - 1
      PROVE  Fits(new, i)
  <2>1. Fits(st, i) /\ i - 1 \in 0..Len(st) - 1
        /\ (i > 1 => i - 1 \in 1..Len(st) - 1)
    BY <1>1, <1>3 DEF Shape
  <2>2. QED
    BY <1>2, <2>1 DEF Fits
<1>4. Tries(new) = Tries(st) \ {Len(st)}
  BY <1>1 DEF Tries
<1>5. QED
  BY <1>2, <1>3, <1>4 DEF Shape

LEMMA TriesCount ==
  ASSUME NEW st \in Seq(Frame)
  PROVE  /\ IsFiniteSet(Tries(st)) /\ Cardinality(Tries(st)) \in Nat
         /\ Cardinality(Tries(st)) = 0 <=> Tries(st) = {}
<1>1. IsFiniteSet(1..Len(st))
  BY FS_Interval
<1>2. Tries(st) \in SUBSET (1..Len(st))
  BY DEF Tries
<1>3. IsFiniteSet(Tries(st))
  BY <1>1, <1>2, FS_Subset
<1>4. QED
  BY <1>3, FS_CardinalityType, FS_EmptySet

LEMMA CountTries ==
  ASSUME NEW st \in Seq(Frame), NEW i, i \notin Tries(st)
  PROVE  Cardinality(Tries(st) \union {i}) = Cardinality(Tries(st)) + 1
BY TriesCount, FS_AddElement

LEMMA UncountTries ==
  ASSUME NEW st \in Seq(Frame), NEW i \in Tries(st)
  PROVE  Cardinality(Tries(st) \ {i}) = Cardinality(Tries(st)) - 1
BY TriesCount, FS_RemoveElement

(***************************************************************************)
(* The invariant: the stack has its shape, and try_depth, the error under  *)
(* way, the loop control under way and branch_env agree with it.           *)
(***************************************************************************)
TriesCounted == tryDepth = Cardinality(Tries(stack))

SoftCaught == flow = "Err" /\ soft => Tries(stack) # {}

BranchKept == Outside(stack, Len(stack)) => branch = NoBranch

BlockInv ==
  /\ TypeOK /\ Shape(stack) /\ TriesCounted /\ SoftCaught
  /\ LoopControlStaysInItsCall /\ BranchKept /\ BranchesAreRestored

LEMMA BlockInitInv == Init => BlockInv
<1> SUFFICES ASSUME Init PROVE BlockInv
  OBVIOUS
<1> DEFINE f == List("strand", 0, MaxNesting, 0, NoBranch, NoBranch)
<1>1. f \in Frame /\ f.kind = "strand" /\ f.depth = 0 /\ f.given = NoBranch
  BY BlockRunnerAssumption DEF List, Frame, Kind, NoBranch
<1>2. stack = <<f>>
  BY DEF Init
<1>. HIDE DEF f
<1>3. stack \in Seq(Frame) /\ Len(stack) = 1 /\ stack[1] = f
  BY <1>1, <1>2
<1>4. TypeOK
  <2>1. 0 \in 0..MAX_CALL_DEPTH /\ NoBranch \in 0..NoBranch /\ 0 \in Nat
    BY BlockRunnerAssumption DEF NoBranch
  <2>2. /\ flow = "run" /\ tryDepth = 0 /\ branch = NoBranch /\ limit \in Limits
        /\ stopped = FALSE /\ soft = FALSE /\ origin = 0
    BY DEF Init
  <2>3. stopped \in BOOLEAN /\ soft \in BOOLEAN
    BY <2>2, Zenon
  <2>4. flow \in Flow \union {"run"}
    BY <2>2
  <2>5. QED
    BY <1>3, <2>1, <2>2, <2>3, <2>4, Zenon DEF TypeOK
<1>5. Shape(stack) /\ Tries(stack) = {}
  BY <1>1, <1>3 DEF Shape, Fits, Tries, Calls, Catchers
<1>6. TriesCounted
  BY <1>5, FS_EmptySet DEF TriesCounted, Init
<1>7. SoftCaught /\ LoopControlStaysInItsCall /\ BranchKept
  BY DEF Init, SoftCaught, LoopControlStaysInItsCall, BranchKept
<1>8. BranchesAreRestored
  BY <1>1, <1>3 DEF Init, BranchesAreRestored, Top
<1>9. QED
  BY <1>4, <1>5, <1>6, <1>7, <1>8 DEF BlockInv

(***************************************************************************)
(* A list goes on, or the stack stays as it is.                            *)
(***************************************************************************)
LEMMA AdvanceStep ==
  ASSUME BlockInv, ~Ended,
         stack' = stack \/ (AtBlock /\ stack' = Advanced),
         flow' \in Flow \union {"run"}, soft' \in BOOLEAN, stopped' \in BOOLEAN,
         flow' = "Err" /\ soft' => tryDepth > 0,
         origin' \in {origin, Top.depth},
         flow' \in {"Break", "Continue"} =>
           origin' = Top.depth \/ (flow' = flow /\ origin' = origin),
         UNCHANGED <<tryDepth, branch, limit>>
  PROVE  BlockInv'
<1>1. /\ TypeOK /\ Shape(stack) /\ TriesCounted /\ SoftCaught
      /\ LoopControlStaysInItsCall /\ BranchKept /\ BranchesAreRestored
  BY DEF BlockInv
<1>2. stack \in Seq(Frame) /\ Len(stack) \in 1..Len(stack)
      /\ Top = stack[Len(stack)] /\ Top \in Frame
  BY <1>1, StackFacts DEF TypeOK
<1>3. /\ stack' \in Seq(Frame) /\ Len(stack') = Len(stack)
      /\ \A i \in 1..Len(stack) : Alike(stack'[i], stack[i])
  <2>1. CASE stack' = stack
    BY <1>2, <2>1 DEF Alike
  <2>2. CASE AtBlock /\ stack' = Advanced
    BY <1>1, <2>2, AdvancedFacts
  <2>3. QED
    BY <2>1, <2>2
<1>4. /\ Shape(stack') /\ Tries(stack') = Tries(stack)
      /\ \A i \in 0..Len(stack) : Outside(stack', i) <=> Outside(stack, i)
  BY <1>1, <1>2, <1>3, AlikeShape
<1>5. Top'.depth = Top.depth /\ Top'.given = Top.given
  BY <1>2, <1>3 DEF Top, Alike
<1>6. TypeOK'
  <2>1. origin' \in 0..MAX_CALL_DEPTH
    BY <1>1, <1>2 DEF TypeOK, Frame
  <2>2. QED
    BY <1>1, <1>3, <2>1 DEF TypeOK
<1>7. TriesCounted'
  BY <1>1, <1>4 DEF TriesCounted
<1>8. SoftCaught'
  <2>1. tryDepth > 0 => Tries(stack) # {}
    BY <1>1, <1>2, TriesCount DEF TriesCounted
  <2>2. QED
    BY <1>4, <2>1 DEF SoftCaught
<1>9. LoopControlStaysInItsCall'
  BY <1>1, <1>5 DEF LoopControlStaysInItsCall
<1>10. BranchKept'
  BY <1>1, <1>2, <1>3, <1>4 DEF BranchKept
<1>11. BranchesAreRestored'
  BY <1>1, <1>5 DEF BranchesAreRestored
<1>12. QED
  BY <1>4, <1>6, <1>7, <1>8, <1>9, <1>10, <1>11 DEF BlockInv

(***************************************************************************)
(* The strand goes into a list.                                            *)
(***************************************************************************)
LEMMA PushStep ==
  ASSUME BlockInv, AtBlock, NEW f \in Frame, stack' = Append(Advanced, f),
         f.kind # "strand",
         f.depth = IF f.kind \in Calls THEN Top.depth + 1 ELSE Top.depth,
         f.kind \in Calls => f.saved = branch, f.given = branch',
         tryDepth' = IF f.kind \in Catchers THEN tryDepth + 1 ELSE tryDepth,
         branch' \in 0..NoBranch, f.kind \notin Calls => branch' = branch,
         UNCHANGED <<flow, soft, origin, limit, stopped>>
  PROVE  BlockInv'
<1>1. /\ TypeOK /\ Shape(stack) /\ TriesCounted /\ BranchKept
      /\ BranchesAreRestored
  BY DEF BlockInv
<1>2. ~Ended /\ flow' = "run"
  BY DEF AtBlock
<1>3. stack \in Seq(Frame) /\ Len(stack) \in Nat \ {0}
      /\ Len(stack) \in 1..Len(stack) /\ Top = stack[Len(stack)]
  BY <1>1, <1>2, StackFacts DEF TypeOK
<1> DEFINE q == Advanced
           n == Len(stack)
<1>4. /\ q \in Seq(Frame) /\ Len(q) = n
      /\ \A i \in 1..n : Alike(q[i], stack[i])
  BY <1>1, AdvancedFacts
<1>5. /\ Shape(q) /\ Tries(q) = Tries(stack)
      /\ \A i \in 0..n : Outside(q, i) <=> Outside(stack, i)
  BY <1>1, <1>3, <1>4, AlikeShape
<1>6. q[n].depth = Top.depth /\ q[n].given = Top.given
  BY <1>3, <1>4 DEF Alike
<1>7. stack' = Append(q, f)
  OBVIOUS
<1>. HIDE DEF q
<1>8. /\ stack' \in Seq(Frame) /\ Len(stack') = n + 1 /\ stack'[n + 1] = f
      /\ \A i \in 1..n : stack'[i] = q[i]
      /\ Shape(q) /\ Fits(stack', n + 1) => Shape(stack')
      /\ f.kind \in Catchers => Tries(stack') = Tries(q) \union {n + 1}
      /\ f.kind \notin Catchers => Tries(stack') = Tries(q)
      /\ \A i \in 0..n : Outside(stack', i) <=> Outside(q, i)
  BY <1>4, <1>7, PushShape
<1>9. n \in Nat \ {0} /\ n \in 1..n /\ n \in 0..n
  BY <1>3
<1>. HIDE DEF n
<1>10. n + 1 # 1 /\ n + 1 > 1 /\ (n + 1) - 1 = n /\ n + 1 \in 1..n + 1
       /\ \A j \in 1..n + 1 : j \in 1..n \/ j = n + 1
  BY <1>9
<1>11. Fits(stack', n + 1)
  <2>1. Outside(stack', n) => branch = NoBranch
    BY <1>1, <1>5, <1>8, <1>9 DEF BranchKept, n
  <2>2. stack'[n].depth = Top.depth /\ stack'[n].given = branch
    BY <1>1, <1>2, <1>6, <1>8, <1>9 DEF BranchesAreRestored
  <2>3. QED
    BY <1>8, <1>10, <2>1, <2>2 DEF Fits
<1>12. Shape(stack')
  BY <1>5, <1>8, <1>11
<1>13. TriesCounted'
  <2>1. CASE f.kind \in Catchers
    <3>1. n + 1 \notin Tries(q)
      <4>1. n + 1 \notin 1..n
        BY <1>9
      <4>2. QED
        BY <1>4, <4>1 DEF Tries
    <3>2. Cardinality(Tries(stack')) = Cardinality(Tries(q)) + 1
      BY <1>4, <1>8, <2>1, <3>1, CountTries
    <3>3. QED
      BY <1>1, <1>5, <2>1, <3>2 DEF TriesCounted
  <2>2. CASE f.kind \notin Catchers
    BY <1>1, <1>5, <1>8, <2>2 DEF TriesCounted
  <2>3. QED
    BY <2>1, <2>2
<1>14. TypeOK'
  <2>1. tryDepth' \in Nat
    BY <1>8, <1>13, TriesCount DEF TriesCounted
  <2>2. QED
    BY <1>1, <1>8, <2>1 DEF TypeOK
<1>15. SoftCaught' /\ LoopControlStaysInItsCall'
  BY <1>2 DEF SoftCaught, LoopControlStaysInItsCall
<1>16. BranchKept'
  <2>1. CASE f.kind \in Calls
    <3>1. ~Outside(stack', n + 1)
      BY <1>8, <1>10, <2>1 DEF Outside
    <3>2. QED
      BY <1>8, <3>1 DEF BranchKept
  <2>2. CASE f.kind \notin Calls
    <3>1. Outside(stack', n + 1) => Outside(stack', n)
      <4>1. \A j \in 1..n : j \in 1..n + 1
        BY <1>9
      <4>2. QED
        BY <4>1, Zenon DEF Outside
    <3>2. QED
      BY <1>1, <1>5, <1>8, <1>9, <2>2, <3>1 DEF BranchKept, n
  <2>3. QED
    BY <2>1, <2>2
<1>17. BranchesAreRestored'
  BY <1>8 DEF BranchesAreRestored, Top
<1>18. QED
  BY <1>12, <1>13, <1>14, <1>15, <1>16, <1>17 DEF BlockInv

(***************************************************************************)
(* A list is over.                                                         *)
(***************************************************************************)
LEMMA PopStep ==
  ASSUME BlockInv, ~Ended, stack' = Below,
         tryDepth' = IF Top.kind \in Catchers THEN tryDepth - 1 ELSE tryDepth,
         branch' = IF Top.kind \in Calls THEN Top.saved ELSE branch,
         flow' \in Flow \union {"run"}, soft' \in BOOLEAN,
         flow' \in {"Break", "Continue"} =>
           flow' = flow /\ Top.kind \notin Calls,
         flow' = "Err" /\ soft' =>
           \/ flow = "Err" /\ soft /\ Top.kind \notin Catchers
           \/ tryDepth' > 0,
         UNCHANGED <<origin, limit, stopped>>
  PROVE  BlockInv'
<1>1. /\ TypeOK /\ Shape(stack) /\ TriesCounted /\ SoftCaught
      /\ LoopControlStaysInItsCall /\ BranchKept /\ BranchesAreRestored
  BY DEF BlockInv
<1> DEFINE n == Len(stack)
<1>2. /\ stack \in Seq(Frame) /\ n \in Nat \ {0} /\ Top \in Frame
      /\ Top = stack[n] /\ Below \in Seq(Frame) /\ Len(Below) = n - 1
      /\ \A i \in 1..n - 1 : Below[i] = stack[i]
  BY <1>1, StackFacts DEF TypeOK
<1>3. /\ Shape(stack') /\ Tries(stack') = Tries(stack) \ {n}
      /\ \A i \in 0..n - 1 : Outside(stack', i) <=> Outside(stack, i)
  BY <1>1, <1>2, PopShape
<1>4. /\ stack' \in Seq(Frame) /\ Len(stack') = n - 1
      /\ \A i \in 1..n - 1 : stack'[i] = stack[i]
  BY <1>2
<1>5. Fits(stack, n) /\ (n \in Tries(stack) <=> Top.kind \in Catchers)
  BY <1>1, <1>2 DEF Shape, Tries
<1>6. BranchKept'
  <2>1. SUFFICES ASSUME Outside(stack, n - 1) PROVE branch' = NoBranch
    <3>1. n - 1 \in 0..n - 1
      BY <1>2
    <3>2. QED
      BY <1>3, <1>4, <3>1 DEF BranchKept
  <2>2. CASE Top.kind \in Calls
    BY <1>2, <1>5, <2>1, <2>2 DEF Fits
  <2>3. CASE Top.kind \notin Calls
    <3>1. \A j \in 1..n : j \in 1..n - 1 \/ j = n
      BY <1>2
    <3>2. Outside(stack, n)
      BY <1>2, <2>1, <2>3, <3>1, Zenon DEF Outside
    <3>3. QED
      BY <1>1, <2>3, <3>2 DEF BranchKept
  <2>4. QED
    BY <2>2, <2>3
<1>. HIDE DEF n
<1>7. TriesCounted'
  <2>1. tryDepth = Cardinality(Tries(stack))
    BY <1>1 DEF TriesCounted
  <2>2. CASE Top.kind \in Catchers
    <3>1. Cardinality(Tries(stack')) = Cardinality(Tries(stack)) - 1
      BY <1>2, <1>3, <1>5, <2>2, UncountTries
    <3>2. QED
      BY <2>1, <2>2, <3>1 DEF TriesCounted
  <2>3. CASE Top.kind \notin Catchers
    <3>1. Tries(stack') = Tries(stack)
      BY <1>3, <1>5, <2>3
    <3>2. QED
      BY <2>1, <2>3, <3>1 DEF TriesCounted
  <2>4. QED
    BY <2>2, <2>3
<1>8. TypeOK'
  <2>1. tryDepth' \in Nat
    BY <1>4, <1>7, TriesCount DEF TriesCounted
  <2>2. branch' \in 0..NoBranch
    BY <1>1, <1>2 DEF TypeOK, Frame
  <2>3. QED
    BY <1>1, <1>4, <2>1, <2>2 DEF TypeOK
<1>9. SoftCaught'
  <2>1. tryDepth' > 0 => Tries(stack') # {}
    BY <1>4, <1>7, TriesCount DEF TriesCounted
  <2>2. Top.kind \notin Catchers => Tries(stack') = Tries(stack)
    BY <1>3, <1>5
  <2>3. QED
    BY <1>1, <2>1, <2>2 DEF SoftCaught
<1>10. LoopControlStaysInItsCall'
  <2>1. SUFFICES ASSUME ~Ended', flow' \in {"Break", "Continue"}
                 PROVE  Top'.depth = origin
    BY DEF LoopControlStaysInItsCall
  <2>2. n - 1 # 0
    BY <1>4, <2>1 DEF Ended
  <2>3. n > 1 /\ n - 1 \in 1..n - 1
    BY <1>2, <2>2
  <2>4. Top'.depth = stack[n - 1].depth
    BY <1>4, <2>3 DEF Top
  <2>5. Top.depth = origin
    BY <1>1, <2>1 DEF LoopControlStaysInItsCall
  <2>6. QED
    BY <1>2, <1>5, <2>1, <2>3, <2>4, <2>5 DEF Fits
<1>11. BranchesAreRestored'
  <2>1. SUFFICES ASSUME ~Ended' PROVE branch' = Top'.given
    BY DEF BranchesAreRestored
  <2>2. n > 1 /\ n - 1 \in 1..n - 1
    BY <1>2, <1>4, <2>1 DEF Ended
  <2>3. Top'.given = stack[n - 1].given
    BY <1>4, <2>2 DEF Top
  <2>4. Top.given = branch
    BY <1>1 DEF BranchesAreRestored
  <2>5. QED
    BY <1>2, <1>5, <2>2, <2>3, <2>4 DEF Fits
<1>12. QED
  BY <1>3, <1>6, <1>7, <1>8, <1>9, <1>10, <1>11 DEF BlockInv

(***************************************************************************)
(* A list is over and another takes its place: the catch of a try, the     *)
(* next attempt, the next iteration.                                       *)
(***************************************************************************)
LEMMA SwapStep ==
  ASSUME BlockInv, ~Ended, NEW f \in Frame, stack' = Append(Below, f),
         Top.kind \notin Calls \union {"strand"},
         f.kind \notin Calls \union {"strand"}, f.depth = Top.depth,
         f.given = Top.given,
         \/ tryDepth' = tryDepth
            /\ (f.kind \in Catchers <=> Top.kind \in Catchers)
         \/ tryDepth' = tryDepth - 1
            /\ f.kind \notin Catchers /\ Top.kind \in Catchers,
         flow' = "run", UNCHANGED <<soft, branch, origin, limit, stopped>>
  PROVE  BlockInv'
<1>1. /\ TypeOK /\ Shape(stack) /\ TriesCounted /\ BranchKept
      /\ BranchesAreRestored
  BY DEF BlockInv
<1> DEFINE n == Len(stack)
           b == Below
<1>2. /\ stack \in Seq(Frame) /\ n \in Nat \ {0} /\ Top \in Frame
      /\ Top = stack[n] /\ b \in Seq(Frame) /\ Len(b) = n - 1
      /\ \A i \in 1..n - 1 : b[i] = stack[i]
  BY <1>1, StackFacts DEF TypeOK
<1>3. /\ Shape(b) /\ Tries(b) = Tries(stack) \ {n}
      /\ \A i \in 0..n - 1 : Outside(b, i) <=> Outside(stack, i)
  BY <1>1, <1>2, PopShape
<1>4. Fits(stack, n) /\ (n \in Tries(stack) <=> Top.kind \in Catchers)
  BY <1>1, <1>2 DEF Shape, Tries
<1>5. stack' = Append(b, f)
  OBVIOUS
<1>6. Outside(stack, n) => branch = NoBranch
  BY <1>1 DEF BranchKept
<1>. HIDE DEF b, n
<1>7. (n - 1) + 1 = n /\ n - 1 \in 0..n - 1
  BY <1>2
<1>8. /\ stack' \in Seq(Frame) /\ Len(stack') = n /\ stack'[n] = f
      /\ \A i \in 1..n - 1 : stack'[i] = b[i]
      /\ Shape(b) /\ Fits(stack', n) => Shape(stack')
      /\ f.kind \in Catchers => Tries(stack') = Tries(b) \union {n}
      /\ f.kind \notin Catchers => Tries(stack') = Tries(b)
      /\ \A i \in 0..n - 1 : Outside(stack', i) <=> Outside(b, i)
  BY <1>2, <1>5, <1>7, PushShape
<1>9. n > 1 /\ n - 1 \in 1..n - 1
  BY <1>2, <1>4 DEF Fits
<1>10. Fits(stack', n)
  <2>1. stack'[n - 1] = stack[n - 1]
    BY <1>2, <1>8, <1>9
  <2>2. QED
    BY <1>2, <1>4, <1>8, <1>9, <2>1 DEF Fits
<1>11. Shape(stack')
  BY <1>3, <1>8, <1>10
<1>12. TriesCounted'
  <2>1. tryDepth = Cardinality(Tries(stack))
    BY <1>1 DEF TriesCounted
  <2>2. CASE f.kind \in Catchers
    <3>1. n \in Tries(stack)
      BY <1>4, <2>2
    <3>2. Tries(stack') = Tries(b) \union {n}
      BY <1>8, <2>2
    <3>3. Tries(stack') = Tries(stack)
      BY <1>3, <3>1, <3>2, Zenon
    <3>4. QED
      BY <2>1, <2>2, <3>3 DEF TriesCounted
  <2>3. CASE f.kind \notin Catchers /\ Top.kind \notin Catchers
    <3>1. n \notin Tries(stack)
      BY <1>4, <2>3
    <3>2. Tries(stack') = Tries(b)
      BY <1>8, <2>3
    <3>3. Tries(stack') = Tries(stack)
      BY <1>3, <3>1, <3>2, Zenon
    <3>4. QED
      BY <2>1, <2>3, <3>3 DEF TriesCounted
  <2>4. CASE f.kind \notin Catchers /\ Top.kind \in Catchers
    <3>1. Cardinality(Tries(stack')) = Cardinality(Tries(stack)) - 1
      BY <1>2, <1>3, <1>4, <1>8, <2>4, UncountTries
    <3>2. QED
      BY <2>1, <2>4, <3>1 DEF TriesCounted
  <2>5. QED
    BY <2>2, <2>3, <2>4
<1>13. TypeOK'
  <2>1. tryDepth' \in Nat
    BY <1>8, <1>12, TriesCount DEF TriesCounted
  <2>2. QED
    BY <1>1, <1>8, <2>1 DEF TypeOK
<1>14. SoftCaught' /\ LoopControlStaysInItsCall'
  BY DEF SoftCaught, LoopControlStaysInItsCall
<1>15. BranchKept'
  <2>1. \A j \in 1..n : j \in 1..n - 1 \/ j = n
    BY <1>2
  <2>2. \A j \in 1..n - 1 : j \in 1..n
    BY <1>2
  <2>3. Outside(stack', n) => Outside(stack', n - 1)
    BY <2>2, Zenon DEF Outside
  <2>4. Outside(stack, n - 1) => Outside(stack, n)
    BY <1>2, <2>1, Zenon DEF Outside
  <2>5. QED
    BY <1>3, <1>6, <1>7, <1>8, <2>3, <2>4 DEF BranchKept
<1>16. BranchesAreRestored'
  BY <1>1, <1>8 DEF BranchesAreRestored, Top
<1>17. QED
  BY <1>11, <1>12, <1>13, <1>14, <1>15, <1>16 DEF BlockInv

(***************************************************************************)
(* Which of the four kinds of step each action is.                         *)
(***************************************************************************)
LEMMA ListAction ==
  ASSUME BlockInv,
         \/ EndOfList \/ PlainBlock \/ FailingBlock \/ Throw \/ ReturnBlock
         \/ LoopControl \/ StopBlock \/ Stop \/ CallTooDeep
  PROVE  BlockInv'
<1>1. TypeOK
  BY DEF BlockInv
<1>2. tryDepth \in Nat /\ flow \in Flow \union {"run"} /\ soft \in BOOLEAN
      /\ stopped \in BOOLEAN
  BY <1>1 DEF TypeOK
<1>3. flow = "Err" /\ soft => tryDepth > 0
  <2>1. stack \in Seq(Frame) /\ TriesCounted /\ SoftCaught
    BY <1>1 DEF BlockInv, TypeOK
  <2>2. QED
    BY <1>2, <2>1, TriesCount DEF TriesCounted, SoftCaught
<1>4. CASE EndOfList
  <2>1. /\ ~Ended /\ stack' = stack /\ flow' = "Normal" /\ soft' = soft
        /\ UNCHANGED <<tryDepth, branch, limit, stopped, origin>>
    BY <1>4 DEF EndOfList, Raise, env
  <2>2. QED
    BY <1>2, <2>1, AdvanceStep DEF Flow
<1>5. CASE PlainBlock
  <2>1. /\ AtBlock /\ ~Ended /\ stack' = Advanced /\ flow' = "run" /\ soft' = soft
        /\ UNCHANGED <<tryDepth, branch, limit, stopped, origin>>
    BY <1>5 DEF PlainBlock, AtBlock, env
  <2>2. QED
    BY <1>2, <2>1, AdvanceStep
<1>6. ASSUME AtBlock, stack' = Advanced, FailSoftly(tryDepth),
             UNCHANGED <<tryDepth, origin, env>>
      PROVE  BlockInv'
  <2>1. /\ ~Ended /\ flow' \in {"Err", "run"}
        /\ flow' = "Err" => tryDepth > 0
        /\ UNCHANGED <<tryDepth, branch, limit, stopped, origin>>
    BY <1>6 DEF AtBlock, FailSoftly, SoftFlow, env
  <2>2. soft' \in BOOLEAN
    BY <1>6, Zenon DEF FailSoftly
  <2>3. /\ flow' \in Flow \union {"run"} /\ flow' \notin {"Break", "Continue"}
        /\ origin' \in {origin, Top.depth} /\ UNCHANGED <<tryDepth, branch, limit>>
        /\ flow' = "Err" /\ soft' => tryDepth > 0
    BY <2>1 DEF Flow
  <2>4. stopped' \in BOOLEAN
    BY <1>2, <2>1
  <2>5. QED
    BY <1>6, <2>1, <2>2, <2>3, <2>4, AdvanceStep, Zenon
<1>7. ASSUME AtBlock, stack' = Advanced, flow' = "Err", soft' = FALSE,
             UNCHANGED <<tryDepth, origin, env>>
      PROVE  BlockInv'
  <2>1. ~Ended /\ UNCHANGED <<tryDepth, branch, limit, stopped, origin>>
    BY <1>7 DEF AtBlock, env
  <2>2. QED
    BY <1>2, <1>7, <2>1, AdvanceStep DEF Flow
<1>8. CASE FailingBlock
  BY <1>6, <1>8 DEF FailingBlock
<1>9. CASE Throw
  BY <1>7, <1>9 DEF Throw
<1>10. CASE CallTooDeep
  BY <1>6, <1>7, <1>10 DEF CallTooDeep
<1>11. CASE ReturnBlock
  <2>1. /\ AtBlock /\ ~Ended /\ stack' = Advanced /\ flow' = "Return" /\ soft' = soft
        /\ UNCHANGED <<tryDepth, branch, limit, stopped, origin>>
    BY <1>11 DEF ReturnBlock, AtBlock, Raise, env
  <2>2. QED
    BY <1>2, <2>1, AdvanceStep DEF Flow
<1>12. CASE LoopControl
  <2>1. /\ AtBlock /\ ~Ended /\ stack' = Advanced /\ flow' \in {"Break", "Continue"}
        /\ soft' = soft /\ origin' = Top.depth
        /\ UNCHANGED <<tryDepth, branch, limit, stopped>>
    BY <1>12 DEF LoopControl, AtBlock, Raise, env
  <2>2. QED
    BY <1>2, <2>1, AdvanceStep DEF Flow
<1>13. CASE StopBlock
  <2>1. /\ AtBlock /\ ~Ended /\ stack' = Advanced /\ flow' = "Normal"
        /\ soft' = soft /\ stopped' = TRUE
        /\ UNCHANGED <<tryDepth, branch, limit, origin>>
    BY <1>13 DEF StopBlock, AtBlock, Raise
  <2>2. QED
    BY <1>2, <2>1, AdvanceStep DEF Flow
<1>14. CASE Stop
  <2>1. /\ ~Ended /\ stack' = stack /\ flow' = flow /\ soft' = soft
        /\ stopped' = TRUE /\ UNCHANGED <<tryDepth, branch, limit, origin>>
    BY <1>14 DEF Stop
  <2>2. QED
    BY <1>2, <1>3, <2>1, AdvanceStep DEF Flow
<1>15. QED
  BY <1>4, <1>5, <1>8, <1>9, <1>10, <1>11, <1>12, <1>13, <1>14

\* A list just begun is a frame.
LEMMA ListFrame ==
  ASSUME NEW kind \in Kind, NEW depth \in 0..MAX_CALL_DEPTH,
         NEW nesting \in 0..MaxNesting, NEW count \in Nat,
         NEW saved \in 0..NoBranch, NEW given \in 0..NoBranch
  PROVE  LET f == List(kind, depth, nesting, count, saved, given) IN
         /\ f \in Frame
         /\ f.kind = kind /\ f.depth = depth
         /\ f.saved = saved /\ f.given = given
<1>1. MaxLength \in 0..MaxLength
  BY BlockRunnerAssumption
<1>2. QED
  BY <1>1 DEF List, Frame

LEMMA IntoStep ==
  ASSUME BlockInv, NEW kind \in Kind \ (Calls \union {"strand"}),
         NEW count \in Nat, Into(kind, count),
         tryDepth' = IF kind \in Catchers THEN tryDepth + 1 ELSE tryDepth
  PROVE  BlockInv'
<1> DEFINE f == List(kind, Top.depth, Top.nesting - 1, count, NoBranch, Top.given)
<1>1. /\ AtBlock /\ ~Ended /\ Top.nesting > 0 /\ stack' = Append(Advanced, f)
      /\ UNCHANGED <<flow, soft, origin, branch, limit, stopped>>
  BY DEF Into, AtBlock, env
<1>2. TypeOK /\ Top \in Frame /\ Top.given = branch
  BY <1>1, StackFacts DEF BlockInv, BranchesAreRestored
<1>3. /\ Top.depth \in 0..MAX_CALL_DEPTH /\ Top.nesting - 1 \in 0..MaxNesting
      /\ NoBranch \in 0..NoBranch /\ Top.given \in 0..NoBranch
  <2>1. Top.depth \in 0..MAX_CALL_DEPTH /\ Top.nesting \in 0..MaxNesting
        /\ MaxNesting \in Nat /\ Top.given \in 0..NoBranch
    BY <1>2, BlockRunnerAssumption DEF Frame
  <2>2. QED
    BY <1>1, <2>1 DEF NoBranch
<1>4. f \in Frame /\ f.kind = kind /\ f.depth = Top.depth /\ f.given = branch'
  BY <1>1, <1>2, <1>3, ListFrame
<1>5. branch' \in 0..NoBranch
  BY <1>1, <1>2 DEF TypeOK
<1>. HIDE DEF f
<1>6. QED
  BY <1>1, <1>4, <1>5, PushStep

LEMMA EnterAction ==
  ASSUME BlockInv, EnterBody \/ EnterTry \/ EnterRetry \/ EnterLoop
  PROVE  BlockInv'
<1>1. CASE EnterBody
  BY <1>1, IntoStep DEF EnterBody, Kind, Calls, Catchers
<1>2. CASE EnterTry
  BY <1>2, IntoStep DEF EnterTry, Kind, Calls, Catchers
<1>3. CASE EnterRetry
  <2>1. PICK attempts \in 1..MaxAttempts : Into("retry", attempts - 1)
    BY <1>3 DEF EnterRetry
  <2>2. attempts - 1 \in Nat
    BY BlockRunnerAssumption
  <2>3. QED
    BY <1>3, <2>1, <2>2, IntoStep DEF EnterRetry, Kind, Calls, Catchers
<1>4. CASE EnterLoop
  <2>1. Counted(1) \in Nat
    BY DEF Counted
  <2>2. QED
    BY <1>4, <2>1, IntoStep DEF EnterLoop, Kind, Calls, Catchers
<1>5. QED
  BY <1>1, <1>2, <1>3, <1>4

LEMMA CallAction ==
  ASSUME BlockInv, RunBranch \/ Call("call") \/ Call("value")
  PROVE  BlockInv'
<1>1. AtBlock /\ ~Ended
  BY DEF RunBranch, Call, AtBlock
<1>2. TypeOK /\ Top \in Frame /\ Top.given = branch
  BY <1>1, StackFacts DEF BlockInv, BranchesAreRestored
<1>3. /\ Top.depth \in 0..MAX_CALL_DEPTH /\ branch \in 0..NoBranch
      /\ MaxNesting \in Nat /\ MAX_CALL_DEPTH \in Nat
  BY <1>2, BlockRunnerAssumption DEF Frame, TypeOK
<1>4. CASE RunBranch
  <2> DEFINE f == List("branch", Top.depth, branch, 0, NoBranch, Top.given)
  <2>1. /\ stack' = Append(Advanced, f) /\ branch # NoBranch
        /\ UNCHANGED <<flow, soft, tryDepth, origin, branch, limit, stopped>>
    BY <1>4 DEF RunBranch, env
  <2>2. branch \in 0..MaxNesting /\ NoBranch \in 0..NoBranch
    BY <1>3, <2>1 DEF NoBranch
  <2>3. f \in Frame /\ f.kind = "branch" /\ f.depth = Top.depth
        /\ f.given = branch'
    <3>1. MaxLength \in 0..MaxLength
      BY BlockRunnerAssumption
    <3>2. QED
      BY <1>2, <1>3, <2>1, <2>2, <3>1 DEF List, Frame, Kind
  <2>. HIDE DEF f
  <2>4. QED
    <3>1. f.kind \notin Calls \union Catchers \union {"strand"}
      BY <2>3 DEF Calls, Catchers
    <3>2. QED
      BY <1>1, <1>3, <2>1, <2>3, <3>1, PushStep
<1>5. ASSUME NEW kind \in Calls, Call(kind)
      PROVE  BlockInv'
  <2> DEFINE f == List(kind, Top.depth + 1, MaxNesting, 0, branch, branch')
  <2>1. /\ MayCall /\ stack' = Append(Advanced, f) /\ branch' \in Given
        /\ UNCHANGED <<flow, soft, tryDepth, origin, limit, stopped>>
    BY <1>5 DEF Call
  <2>2. Top.depth + 1 \in 0..MAX_CALL_DEPTH /\ MaxNesting \in 0..MaxNesting
    BY <1>3, <2>1 DEF MayCall
  <2>3. branch' \in 0..NoBranch
    BY <1>3, <2>1 DEF Given, NoBranch
  <2>4. f \in Frame /\ f.kind = kind /\ f.depth = Top.depth + 1
        /\ f.saved = branch /\ f.given = branch'
    <3>1. kind \in Kind /\ MaxLength \in 0..MaxLength
      BY BlockRunnerAssumption DEF Kind, Calls
    <3>2. QED
      BY <1>3, <2>2, <2>3, <3>1 DEF List, Frame
  <2>. HIDE DEF f
  <2>5. f.kind \notin Catchers /\ f.kind # "strand" /\ f.kind \in Calls
    BY <2>4 DEF Calls, Catchers
  <2>6. QED
    BY <1>1, <2>1, <2>3, <2>4, <2>5, PushStep
<1>6. QED
  BY <1>4, <1>5 DEF Calls

(***************************************************************************)
(* The block that waited for a list hands its result on, ends it, or fails *)
(* with it.                                                                *)
(***************************************************************************)
LEMMA HandOnStep ==
  ASSUME BlockInv, ~Ended, stack' = Below,
         tryDepth' = IF Top.kind \in Catchers THEN tryDepth - 1 ELSE tryDepth,
         branch' = IF Top.kind \in Calls THEN Top.saved ELSE branch,
         flow' \in {"run", flow}, soft' = soft,
         flow' \in {"Break", "Continue"} => Top.kind \notin Calls,
         flow' = "Err" => Top.kind \notin Catchers,
         UNCHANGED <<origin, limit, stopped>>
  PROVE  BlockInv'
<1>1. flow \in Flow \union {"run"} /\ soft \in BOOLEAN
  BY DEF BlockInv, TypeOK
<1>2. /\ flow' \in Flow \union {"run"}
      /\ flow' \in {"Break", "Continue"} => flow' = flow /\ Top.kind \notin Calls
      /\ flow' = "Err" => flow = "Err" /\ Top.kind \notin Catchers
  BY <1>1
<1>3. soft' \in BOOLEAN
  BY <1>1
<1>4. flow' = "Err" /\ soft' =>
        \/ flow = "Err" /\ soft /\ Top.kind \notin Catchers
        \/ tryDepth' > 0
  BY <1>2, Zenon
<1>5. QED
  BY <1>2, <1>3, <1>4, PopStep, Zenon

LEMMA FailStep ==
  ASSUME BlockInv, ~Ended, stack' = Below,
         tryDepth' = IF Top.kind \in Catchers THEN tryDepth - 1 ELSE tryDepth,
         branch' = IF Top.kind \in Calls THEN Top.saved ELSE branch,
         FailSoftly(tryDepth') \/ (flow' = "Err" /\ soft' = FALSE),
         UNCHANGED <<origin, limit, stopped>>
  PROVE  BlockInv'
<1>1. flow' \in {"run", "Err"} /\ soft' \in BOOLEAN
  <2>1. flow' \in {"run", "Err"}
    BY DEF FailSoftly, SoftFlow
  <2>2. soft' \in BOOLEAN
    BY Zenon DEF FailSoftly
  <2>3. QED
    BY <2>1, <2>2, Zenon
<1>2. /\ flow' \in Flow \union {"run"}
      /\ flow' \notin {"Break", "Continue"}
  BY <1>1 DEF Flow
<1>3. flow' = "Err" /\ soft' => tryDepth' > 0
  <2>1. CASE FailSoftly(tryDepth')
    BY <2>1 DEF FailSoftly, SoftFlow
  <2>2. CASE flow' = "Err" /\ soft' = FALSE
    BY <2>2, Zenon
  <2>3. QED
    BY <2>1, <2>2, Zenon
<1>4. QED
  BY <1>1, <1>2, <1>3, PopStep, Zenon

LEMMA ReturnAction ==
  ASSUME BlockInv,
         \/ BodyReturned \/ RetryReturned \/ LoopLeft \/ LoopOver \/ LoopFails
         \/ CallReturned \/ ValueReturned \/ StrandReturned
  PROVE  BlockInv'
<1>1. CASE BodyReturned
  <2>1. /\ ~Ended /\ stack' = Below /\ Top.kind \in {"body", "branch", "catch"}
        /\ flow' \in {"run", flow} /\ soft' = soft
        /\ UNCHANGED <<tryDepth, branch, origin, limit, stopped>>
    BY <1>1 DEF BodyReturned, Returned, Raise, env
  <2>2. Top.kind \notin Calls /\ Top.kind \notin Catchers
    BY <2>1 DEF Calls, Catchers
  <2>3. QED
    BY <2>1, <2>2, HandOnStep
<1>2. CASE RetryReturned
  <2>1. /\ ~Ended /\ stack' = Below /\ Top.kind = "retry"
        /\ flow' \in {"run", flow} /\ flow' # "Err" /\ soft' = soft
        /\ tryDepth' = tryDepth - 1
        /\ UNCHANGED <<branch, origin, limit, stopped>>
    BY <1>2 DEF RetryReturned, Returned, Raise, LeftTry, env
  <2>2. Top.kind \notin Calls /\ Top.kind \in Catchers
    BY <2>1 DEF Calls, Catchers
  <2>3. QED
    BY <2>1, <2>2, HandOnStep
<1>3. CASE LoopLeft
  <2>1. /\ ~Ended /\ stack' = Below /\ Top.kind = "loop"
        /\ flow' \in {"run", flow} /\ soft' = soft
        /\ UNCHANGED <<tryDepth, branch, origin, limit, stopped>>
    BY <1>3 DEF LoopLeft, Returned, Raise, env
  <2>2. Top.kind \notin Calls /\ Top.kind \notin Catchers
    BY <2>1 DEF Calls, Catchers
  <2>3. QED
    BY <2>1, <2>2, HandOnStep
<1>4. CASE LoopOver
  <2>1. /\ ~Ended /\ stack' = Below /\ Top.kind = "loop"
        /\ flow' = "run" /\ soft' = soft
        /\ UNCHANGED <<tryDepth, branch, origin, limit, stopped>>
    BY <1>4 DEF LoopOver, Returned, Raise, env
  <2>2. Top.kind \notin Calls /\ Top.kind \notin Catchers
    BY <2>1 DEF Calls, Catchers
  <2>3. QED
    BY <2>1, <2>2, HandOnStep
<1>5. CASE LoopFails
  <2>1. /\ ~Ended /\ stack' = Below /\ Top.kind = "loop" /\ FailSoftly(tryDepth)
        /\ UNCHANGED <<tryDepth, branch, origin, limit, stopped>>
    BY <1>5 DEF LoopFails, Returned, env
  <2>2. Top.kind \notin Calls /\ Top.kind \notin Catchers /\ tryDepth' = tryDepth
    BY <2>1 DEF Calls, Catchers
  <2>3. FailSoftly(tryDepth')
    BY <2>1, <2>2, Zenon
  <2>4. QED
    BY <2>1, <2>2, <2>3, FailStep, Zenon
<1>6. CASE CallReturned
  <2>1. /\ ~Ended /\ stack' = Below /\ Top.kind = "call" /\ branch' = Top.saved
        /\ flow' \in {"run", flow} /\ flow' \notin {"Break", "Continue"}
        /\ soft' = soft /\ UNCHANGED <<tryDepth, origin, limit, stopped>>
    BY <1>6 DEF CallReturned, Returned, Raise, Restored, CallFlow
  <2>2. Top.kind \in Calls /\ Top.kind \notin Catchers
    BY <2>1 DEF Calls, Catchers
  <2>3. QED
    BY <2>1, <2>2, HandOnStep
<1>7. CASE ValueReturned
  <2>1. /\ ~Ended /\ stack' = Below /\ Top.kind = "value" /\ branch' = Top.saved
        /\ UNCHANGED <<tryDepth, origin, limit, stopped>>
    BY <1>7 DEF ValueReturned, Returned, Restored
  <2>2. Top.kind \in Calls /\ Top.kind \notin Catchers /\ tryDepth' = tryDepth
    BY <2>1 DEF Calls, Catchers
  <2>3. CASE Raise("run")
    <3>1. flow' = "run" /\ soft' = soft
      BY <2>3 DEF Raise
    <3>2. QED
      BY <2>1, <2>2, <3>1, HandOnStep
  <2>4. CASE FailSoftly(tryDepth) \/ (flow' = "Err" /\ soft' = FALSE)
    <3>1. FailSoftly(tryDepth') \/ (flow' = "Err" /\ soft' = FALSE)
      BY <2>2, <2>4, Zenon
    <3>2. QED
      BY <2>1, <2>2, <3>1, FailStep, Zenon
  <2>5. QED
    BY <1>7, <2>3, <2>4 DEF ValueReturned
<1>8. CASE StrandReturned
  <2>1. /\ ~Ended /\ stack' = Below /\ Top.kind = "strand"
        /\ UNCHANGED <<flow, soft, tryDepth, branch, origin, limit, stopped>>
    BY <1>8 DEF StrandReturned, Returned, env
  <2>2. Top.kind \notin Calls /\ Top.kind \notin Catchers
    BY <2>1 DEF Calls, Catchers
  <2>3. QED
    BY <2>1, <2>2, HandOnStep
<1>9. QED
  BY <1>1, <1>2, <1>3, <1>4, <1>5, <1>6, <1>7, <1>8

LEMMA AgainAction ==
  ASSUME BlockInv, TryReturned \/ RetryFailed \/ LoopAgain
  PROVE  BlockInv'
<1>1. ~Ended /\ Top.kind \in {"try", "retry", "loop"}
  BY DEF TryReturned, RetryFailed, LoopAgain, Returned
<1>2. TypeOK /\ Top \in Frame
  BY <1>1, StackFacts DEF BlockInv
<1>3. Top.kind \notin Calls \union {"strand"}
  BY <1>1 DEF Calls
<1>4. /\ Top.kind \in Kind /\ Top.depth \in 0..MAX_CALL_DEPTH
      /\ Top.nesting \in 0..MaxNesting /\ Top.count \in Nat
      /\ Top.saved \in 0..NoBranch /\ Top.given \in 0..NoBranch
      /\ tryDepth \in Nat
  BY <1>2 DEF Frame, TypeOK
<1>5. MaxLength \in 0..MaxLength /\ NoBranch \in 0..NoBranch
  BY BlockRunnerAssumption DEF NoBranch
<1>6. CASE TryReturned
  <2>1. /\ Top.kind = "try" /\ tryDepth' = tryDepth - 1
        /\ UNCHANGED <<branch, origin, limit, stopped>>
    BY <1>6 DEF TryReturned, Returned, LeftTry, env
  <2>2. Top.kind \notin Calls /\ Top.kind \in Catchers
    BY <2>1 DEF Calls, Catchers
  <2>3. CASE flow = "Err"
    <3> DEFINE f == List("catch", Top.depth, Top.nesting, 0, NoBranch, Top.given)
    <3>1. stack' = Append(Below, f) /\ flow' = "run" /\ soft' = soft
      BY <1>6, <2>3 DEF TryReturned, Raise
    <3>2. f \in Frame /\ f.kind = "catch" /\ f.depth = Top.depth
          /\ f.given = Top.given
      BY <1>4, <1>5 DEF List, Frame, Kind
    <3>. HIDE DEF f
    <3>3. f.kind \notin Calls \union {"strand"} /\ f.kind \notin Catchers
      BY <3>2 DEF Calls, Catchers
    <3>4. QED
      BY <1>1, <1>3, <2>1, <2>2, <3>1, <3>2, <3>3, SwapStep
  <2>4. CASE flow # "Err"
    <3>1. stack' = Below /\ flow' \in {"run", flow} /\ flow' # "Err" /\ soft' = soft
      BY <1>6, <2>4 DEF TryReturned, Raise
    <3>2. QED
      BY <1>1, <2>1, <2>2, <3>1, HandOnStep
  <2>5. QED
    BY <2>3, <2>4
<1>7. CASE RetryFailed
  <2>1. /\ Top.kind = "retry" /\ UNCHANGED <<branch, origin, limit, stopped>>
    BY <1>7 DEF RetryFailed, Returned, env
  <2>2. Top.kind \notin Calls /\ Top.kind \in Catchers
    BY <2>1 DEF Calls, Catchers
  <2>3. CASE tryDepth' = LeftTry /\ stack' = Below /\ FailSoftly(LeftTry)
    <3>1. FailSoftly(tryDepth') /\ tryDepth' = tryDepth - 1
      BY <2>3 DEF LeftTry
    <3>2. QED
      BY <1>1, <2>1, <2>2, <2>3, <3>1, FailStep, Zenon
  <2>4. CASE tryDepth' = LeftTry /\ stack' = Below /\ Raise("run")
    <3>1. tryDepth' = tryDepth - 1 /\ flow' = "run" /\ soft' = soft
      BY <2>4 DEF LeftTry, Raise
    <3>2. QED
      BY <1>1, <2>1, <2>2, <2>4, <3>1, HandOnStep
  <2>5. CASE /\ Top.count > 0 /\ tryDepth' = LeftTry + 1
             /\ stack' = Append(Below, [Top EXCEPT !.left = MaxLength,
                                                   !.count = @ - 1])
             /\ Raise("run")
    <3> DEFINE f == [Top EXCEPT !.left = MaxLength, !.count = @ - 1]
    <3>1. /\ stack' = Append(Below, f) /\ tryDepth' = tryDepth
          /\ flow' = "run" /\ soft' = soft
      BY <1>4, <2>5 DEF LeftTry, Raise
    <3>2. f \in Frame /\ f.kind = "retry" /\ f.depth = Top.depth
          /\ f.given = Top.given
      <4>1. Top.count - 1 \in Nat
        BY <1>4, <2>5
      <4>2. QED
        BY <1>2, <1>5, <2>1, <4>1 DEF Frame
    <3>. HIDE DEF f
    <3>3. f.kind \notin Calls \union {"strand"} /\ f.kind \in Catchers
      BY <3>2 DEF Calls, Catchers
    <3>4. QED
      BY <1>1, <1>3, <2>1, <2>2, <3>1, <3>2, <3>3, SwapStep
  <2>6. QED
    BY <1>7, <2>3, <2>4, <2>5 DEF RetryFailed
<1>8. CASE LoopAgain
  <2> DEFINE f == [Top EXCEPT !.left = MaxLength, !.count = Counted(@ + 1)]
  <2>1. /\ Top.kind = "loop" /\ stack' = Append(Below, f)
        /\ flow' = "run" /\ soft' = soft
        /\ UNCHANGED <<tryDepth, branch, origin, limit, stopped>>
    BY <1>8 DEF LoopAgain, Returned, Raise, env
  <2>2. f \in Frame /\ f.kind = "loop" /\ f.depth = Top.depth
        /\ f.given = Top.given
    <3>1. Counted(Top.count + 1) \in Nat
      BY <1>4 DEF Counted
    <3>2. QED
      BY <1>2, <1>5, <2>1, <3>1 DEF Frame
  <2>. HIDE DEF f
  <2>3. /\ f.kind \notin Calls \union {"strand"}
        /\ f.kind \notin Catchers /\ Top.kind \notin Catchers
    BY <2>1, <2>2 DEF Calls, Catchers
  <2>4. QED
    BY <1>1, <1>3, <2>1, <2>2, <2>3, SwapStep
<1>9. QED
  BY <1>6, <1>7, <1>8

LEMMA BlockNextInv == BlockInv /\ [Next]_vars => BlockInv'
<1> SUFFICES ASSUME BlockInv, [Next]_vars PROVE BlockInv'
  OBVIOUS
<1>1. CASE \/ EndOfList \/ PlainBlock \/ FailingBlock \/ Throw \/ ReturnBlock
           \/ LoopControl \/ StopBlock \/ Stop \/ CallTooDeep
  BY <1>1, ListAction
<1>2. CASE EnterBody \/ EnterTry \/ EnterRetry \/ EnterLoop
  BY <1>2, EnterAction
<1>3. CASE RunBranch \/ Call("call") \/ Call("value")
  BY <1>3, CallAction
<1>4. CASE \/ BodyReturned \/ RetryReturned \/ LoopLeft \/ LoopOver \/ LoopFails
           \/ CallReturned \/ ValueReturned \/ StrandReturned
  BY <1>4, ReturnAction
<1>5. CASE TryReturned \/ RetryFailed \/ LoopAgain
  BY <1>5, AgainAction
<1>6. CASE UNCHANGED vars
  BY <1>6 DEF vars, BlockInv, TypeOK, TriesCounted, SoftCaught,
              LoopControlStaysInItsCall, BranchKept, BranchesAreRestored, Ended,
              Top
<1>7. QED
  BY <1>1, <1>2, <1>3, <1>4, <1>5, <1>6 DEF Next

LEMMA BlockSafe == Spec => []BlockInv
BY BlockInitInv, BlockNextInv, PTL DEF Spec

-----------------------------------------------------------------------------

\* Every frame, try_depth and branch_env stay in their ranges: no leaving of a
\* try or retry block takes try_depth below zero, and no call goes deeper than
\* MAX_CALL_DEPTH.
THEOREM BlockTypes == Spec => []TypeOK
<1>1. BlockInv => TypeOK
  BY DEF BlockInv
<1>2. QED
  BY <1>1, BlockSafe, PTL

\* try_depth counts the try and retry blocks the strand is in.
THEOREM TryDepthIsExact == Spec => []TryDepthCounts
<1>1. BlockInv => TryDepthCounts
  BY DEF BlockInv, TriesCounted, TryDepthCounts, Tries, Frames, Catchers
<1>2. QED
  BY <1>1, BlockSafe, PTL

\* An error that soft_fail raised has a try or retry block to catch it.
THEOREM SoftErrorsHaveATry == Spec => []SoftErrorsAreCaught
<1>1. BlockInv => SoftErrorsAreCaught
  BY DEF BlockInv, SoftCaught, SoftErrorsAreCaught, Tries, Frames, Catchers
<1>2. QED
  BY <1>1, BlockSafe, PTL

\* Escape and continue unwind the lists of one call only.
THEOREM LoopControlIsLocal == Spec => []LoopControlStaysInItsCall
<1>1. BlockInv => LoopControlStaysInItsCall
  BY DEF BlockInv
<1>2. QED
  BY <1>1, BlockSafe, PTL

\* call_block gives the caller the branches it was called with back on every
\* way out of it, however deep the calls are.
THEOREM BranchesComeBack == Spec => []BranchesAreRestored
<1>1. BlockInv => BranchesAreRestored
  BY DEF BlockInv
<1>2. QED
  BY <1>1, BlockSafe, PTL

-----------------------------------------------------------------------------
(***************************************************************************)
(* How high the stack grows when no branch holds a RunBranch block itself. *)
(* A list at depth d stands low enough that the lists that may nest in it  *)
(* still fit below Bound(d); in a call whose branch has not begun there is *)
(* room for the lists of that branch as well.                              *)
(***************************************************************************)
Bound(d) == MaxNesting + 1 + d * (2 * MaxNesting + 1)

InBranch(st, i) ==
  \E k \in 1..i : /\ st[k].kind = "branch"
                  /\ \A j \in k..i : st[j].kind \notin Calls

\* No further branch is to be expected above the list.
Free(st, i) == Outside(st, i) \/ InBranch(st, i)

HasRoom(st, i) ==
  /\ i + st[i].nesting <= Bound(st[i].depth)
  /\ Free(st, i) \/ i + st[i].nesting + MaxNesting <= Bound(st[i].depth)

\* A branch nests in the list that gave it.
Nested(b) == b = NoBranch \/ b + 1 <= MaxNesting

Rooms(st, n) == \A i \in 1..n : HasRoom(st, i) /\ Nested(st[i].saved)

RoomInv == Rooms(stack, Len(stack)) /\ Nested(branch)

LEMMA BoundFacts ==
  /\ \A d \in Nat : /\ Bound(d) \in Nat
                    /\ Bound(d + 1) = Bound(d) + 2 * MaxNesting + 1
  /\ \A d \in 0..MAX_CALL_DEPTH : Bound(d) <= Bound(MAX_CALL_DEPTH)
  /\ Bound(MAX_CALL_DEPTH) = (MAX_CALL_DEPTH + 1) * (MaxNesting + 1)
                              + MAX_CALL_DEPTH * MaxNesting
<1> DEFINE k == 2 * MaxNesting + 1
<1>1. MaxNesting \in Nat /\ MAX_CALL_DEPTH \in Nat /\ k \in Nat
  BY BlockRunnerAssumption
<1>2. \A d \in Nat : d * k \in Nat /\ (d + 1) * k = d * k + k
  BY <1>1
<1>3. \A d, e \in Nat : (d + e) * k = d * k + e * k
  BY <1>1
<1>4. \A d \in 0..MAX_CALL_DEPTH : d * k <= MAX_CALL_DEPTH * k
  <2>1. TAKE d \in 0..MAX_CALL_DEPTH
  <2>2. MAX_CALL_DEPTH - d \in Nat /\ d + (MAX_CALL_DEPTH - d) = MAX_CALL_DEPTH
        /\ d \in Nat
    BY <1>1
  <2>3. MAX_CALL_DEPTH * k = d * k + (MAX_CALL_DEPTH - d) * k
    BY <1>3, <2>2
  <2>4. (MAX_CALL_DEPTH - d) * k \in Nat /\ d * k \in Nat
    BY <1>2, <2>2
  <2>5. QED
    BY <2>3, <2>4
<1>5. Bound(MAX_CALL_DEPTH) = (MAX_CALL_DEPTH + 1) * (MaxNesting + 1)
                              + MAX_CALL_DEPTH * MaxNesting
  BY <1>1 DEF Bound
<1>. HIDE DEF k
<1>6. \A d : Bound(d) = MaxNesting + 1 + d * k
  BY DEF Bound, k
<1>7. k = 2 * MaxNesting + 1
  BY DEF k
<1>8. \A d \in 0..MAX_CALL_DEPTH : d \in Nat
  BY <1>1
<1>9. \A d \in 0..MAX_CALL_DEPTH : Bound(d) <= Bound(MAX_CALL_DEPTH)
  BY <1>1, <1>2, <1>4, <1>6, <1>8
<1>10. \A d \in Nat : /\ Bound(d) \in Nat
                      /\ Bound(d + 1) = Bound(d) + 2 * MaxNesting + 1
  BY <1>1, <1>2, <1>6, <1>7
<1>11. QED
  BY <1>5, <1>9, <1>10

(***************************************************************************)
(* Whether a list has room depends on the kinds below it and on its own    *)
(* depth and nesting only.                                                 *)
(***************************************************************************)
LEMMA SameRooms ==
  ASSUME NEW st, NEW new, NEW m \in Nat,
         \A j \in 1..m : Alike(new[j], st[j])
  PROVE  /\ \A i \in 0..m : /\ Outside(new, i) <=> Outside(st, i)
                            /\ InBranch(new, i) <=> InBranch(st, i)
         /\ Rooms(st, m) => Rooms(new, m)
<1>1. \A j \in 1..m : /\ new[j].kind = st[j].kind /\ new[j].depth = st[j].depth
                      /\ new[j].nesting = st[j].nesting
                      /\ new[j].saved = st[j].saved
  BY DEF Alike
<1>2. \A i \in 0..m : \A k \in 1..i : k \in 1..m
  OBVIOUS
<1>3. \A i \in 0..m : \A k \in 1..i : \A j \in k..i : j \in 1..m
  OBVIOUS
<1>4. \A i \in 0..m : Outside(new, i) <=> Outside(st, i)
  BY <1>1, <1>2, Zenon DEF Outside
<1>5. \A i \in 0..m : InBranch(new, i) <=> InBranch(st, i)
  <2>. SUFFICES ASSUME NEW i \in 0..m
                PROVE  InBranch(new, i) <=> InBranch(st, i)
    OBVIOUS
  <2>1. \A k \in 1..i : /\ new[k].kind = st[k].kind
                        /\ \A j \in k..i : new[j].kind = st[j].kind
    <3>1. TAKE k \in 1..i
    <3>2. k \in 1..m
      BY <1>2
    <3>3. \A j \in k..i : j \in 1..m
      BY <1>3
    <3>4. QED
      BY <1>1, <3>2, <3>3, Zenon
  <2>2. ASSUME InBranch(st, i) PROVE InBranch(new, i)
    <3>1. PICK k \in 1..i : /\ st[k].kind = "branch"
                            /\ \A j \in k..i : st[j].kind \notin Calls
      BY <2>2, Zenon DEF InBranch
    <3>2. new[k].kind = "branch"
      BY <2>1, <3>1, Zenon
    <3>3. \A j \in k..i : new[j].kind \notin Calls
      BY <2>1, <3>1, Zenon
    <3>4. QED
      BY <3>2, <3>3, Zenon DEF InBranch
  <2>3. ASSUME InBranch(new, i) PROVE InBranch(st, i)
    <3>1. PICK k \in 1..i : /\ new[k].kind = "branch"
                            /\ \A j \in k..i : new[j].kind \notin Calls
      BY <2>3, Zenon DEF InBranch
    <3>2. st[k].kind = "branch"
      BY <2>1, <3>1, Zenon
    <3>3. \A j \in k..i : st[j].kind \notin Calls
      BY <2>1, <3>1, Zenon
    <3>4. QED
      BY <3>2, <3>3, Zenon DEF InBranch
  <2>4. QED
    BY <2>2, <2>3
<1>6. \A i \in 1..m : i \in 0..m
  OBVIOUS
<1>7. ASSUME Rooms(st, m) PROVE Rooms(new, m)
  BY <1>1, <1>4, <1>5, <1>6, <1>7, Zenon DEF Rooms, HasRoom, Free
<1>8. QED
  BY <1>4, <1>5, <1>7

LEMMA FewerRooms ==
  ASSUME NEW st, NEW n \in Nat, NEW m \in 0..n, Rooms(st, n)
  PROVE  Rooms(st, m)
<1>1. \A i \in 1..m : i \in 1..n
  OBVIOUS
<1>2. QED
  BY <1>1, Zenon DEF Rooms

LEMMA OneMoreRoom ==
  ASSUME NEW st, NEW n \in Nat, Rooms(st, n), HasRoom(st, n + 1),
         Nested(st[n + 1].saved)
  PROVE  Rooms(st, n + 1)
<1>1. \A i \in 1..n + 1 : i \in 1..n \/ i = n + 1
  OBVIOUS
<1>2. QED
  BY <1>1, Zenon DEF Rooms

\* A list that is neither a call's nor a branch is as free as the one below.
LEMMA FreeAbove ==
  ASSUME NEW st, NEW n \in Nat, st[n + 1].kind \notin Calls \union {"branch"}
  PROVE  Free(st, n + 1) <=> Free(st, n)
<1>1. Outside(st, n + 1) <=> Outside(st, n)
  <2>1. \A j \in 1..n + 1 : j \in 1..n \/ j = n + 1
    OBVIOUS
  <2>2. \A j \in 1..n : j \in 1..n + 1
    OBVIOUS
  <2>3. QED
    BY <2>1, <2>2, Zenon DEF Outside
<1>2. InBranch(st, n) => InBranch(st, n + 1)
  <2>1. SUFFICES ASSUME NEW k \in 1..n, st[k].kind = "branch",
                        \A j \in k..n : st[j].kind \notin Calls
                 PROVE  InBranch(st, n + 1)
    BY DEF InBranch
  <2>2. k \in 1..n + 1 /\ \A j \in k..n + 1 : j \in k..n \/ j = n + 1
    OBVIOUS
  <2>3. QED
    BY <2>1, <2>2, Zenon DEF InBranch
<1>3. InBranch(st, n + 1) => InBranch(st, n)
  <2>1. SUFFICES ASSUME NEW k \in 1..n + 1, st[k].kind = "branch",
                        \A j \in k..n + 1 : st[j].kind \notin Calls
                 PROVE  InBranch(st, n)
    BY DEF InBranch
  <2>2. k # n + 1
    BY <2>1
  <2>3. k \in 1..n /\ \A j \in k..n : j \in k..n + 1
    BY <2>2
  <2>4. QED
    BY <2>1, <2>3, Zenon DEF InBranch
<1>4. QED
  BY <1>1, <1>2, <1>3 DEF Free

LEMMA RoomInit == Init => RoomInv
<1> SUFFICES ASSUME Init PROVE RoomInv
  OBVIOUS
<1> DEFINE f == List("strand", 0, MaxNesting, 0, NoBranch, NoBranch)
<1>1. f.kind = "strand" /\ f.depth = 0 /\ f.nesting = MaxNesting
      /\ f.saved = NoBranch
  BY DEF List
<1>2. stack = <<f>> /\ branch = NoBranch
  BY DEF Init
<1>. HIDE DEF f
<1>3. Len(stack) = 1 /\ stack[1] = f
  BY <1>2
<1>4. MaxNesting \in Nat /\ Bound(0) = MaxNesting + 1
  BY BlockRunnerAssumption DEF Bound
<1>5. Outside(stack, 1)
  BY <1>1, <1>3 DEF Outside, Calls
<1>6. HasRoom(stack, 1)
  <2>1. 1 + stack[1].nesting <= Bound(stack[1].depth)
    BY <1>1, <1>3, <1>4
  <2>2. QED
    BY <1>5, <2>1 DEF HasRoom, Free
<1>7. QED
  BY <1>1, <1>2, <1>3, <1>6 DEF RoomInv, Rooms, Nested

(***************************************************************************)
(* The kinds of step again.                                                *)
(***************************************************************************)
LEMMA RoomAdvance ==
  ASSUME BlockInv, RoomInv, stack' = stack \/ (AtBlock /\ stack' = Advanced),
         branch' = branch
  PROVE  RoomInv'
<1>1. CASE stack' = stack
  BY <1>1 DEF RoomInv
<1>2. CASE AtBlock /\ stack' = Advanced
  <2>1. TypeOK /\ stack \in Seq(Frame) /\ Len(stack) \in Nat
    BY DEF BlockInv, TypeOK
  <2>2. Len(stack') = Len(stack)
        /\ \A i \in 1..Len(stack) : Alike(stack'[i], stack[i])
    BY <1>2, <2>1, AdvancedFacts
  <2>3. Rooms(stack', Len(stack))
    BY <2>1, <2>2, SameRooms DEF RoomInv
  <2>4. QED
    BY <2>2, <2>3 DEF RoomInv
<1>3. QED
  BY <1>1, <1>2

\* What the lists that are entered start from.
LEMMA RoomBelow ==
  ASSUME BlockInv, RoomInv, AtBlock, NEW f \in Frame, stack' = Append(Advanced, f)
  PROVE  LET n == Len(stack) IN
         /\ n \in Nat \ {0} /\ Len(stack') = n + 1 /\ stack'[n + 1] = f
         /\ Rooms(stack', n)
         /\ Outside(stack', n) <=> Outside(stack, n)
         /\ InBranch(stack', n) <=> InBranch(stack, n)
         /\ Free(stack', n) <=> Free(stack, n)
         /\ Top.nesting \in Nat /\ Top.nesting <= MaxNesting
         /\ Top.depth \in 0..MAX_CALL_DEPTH
         /\ n + Top.nesting <= Bound(Top.depth)
         /\ Free(stack, n) \/ n + Top.nesting + MaxNesting <= Bound(Top.depth)
<1> DEFINE n == Len(stack)
           q == Advanced
<1>1. TypeOK /\ ~Ended
  BY DEF BlockInv, AtBlock
<1>2. /\ stack \in Seq(Frame) /\ n \in Nat \ {0} /\ Top \in Frame /\ Top = stack[n]
  BY <1>1, StackFacts DEF TypeOK
<1>3. /\ q \in Seq(Frame) /\ Len(q) = n
      /\ \A i \in 1..n : Alike(q[i], stack[i])
  BY <1>1, AdvancedFacts
<1>4. stack' = Append(q, f)
  OBVIOUS
<1>5. Rooms(stack, n)
  BY DEF RoomInv
<1>. HIDE DEF n, q
<1>6. /\ Len(stack') = n + 1 /\ stack'[n + 1] = f
      /\ \A i \in 1..n : stack'[i] = q[i]
  BY <1>3, <1>4, AppendProperties
<1>7. \A i \in 1..n : Alike(stack'[i], stack[i])
  BY <1>3, <1>6 DEF Alike
<1>8. n \in Nat /\ n \in 0..n /\ n \in 1..n
  BY <1>2
<1>9. /\ Rooms(stack', n)
      /\ Outside(stack', n) <=> Outside(stack, n)
      /\ InBranch(stack', n) <=> InBranch(stack, n)
  BY <1>5, <1>7, <1>8, SameRooms
<1>10. HasRoom(stack, n)
  BY <1>5, <1>8 DEF Rooms
<1>11. /\ Top.nesting \in 0..MaxNesting /\ Top.depth \in 0..MAX_CALL_DEPTH
       /\ MaxNesting \in Nat
  BY <1>2, BlockRunnerAssumption DEF Frame
<1>12. /\ n + Top.nesting <= Bound(Top.depth)
       /\ Free(stack, n) \/ n + Top.nesting + MaxNesting <= Bound(Top.depth)
  BY <1>2, <1>10, Zenon DEF HasRoom
<1>13. Top.nesting \in Nat /\ Top.nesting <= MaxNesting
  BY <1>11
<1>14. Free(stack', n) <=> Free(stack, n)
  BY <1>9 DEF Free
<1>15. QED
  BY <1>2, <1>6, <1>9, <1>11, <1>12, <1>13, <1>14, Zenon DEF n

LEMMA RoomInto ==
  ASSUME BlockInv, RoomInv, AtBlock, Top.nesting > 0, NEW f \in Frame,
         stack' = Append(Advanced, f), f.kind \notin Calls \union {"branch"},
         f.depth = Top.depth, f.nesting = Top.nesting - 1, f.saved = NoBranch,
         branch' = branch
  PROVE  RoomInv'
<1> DEFINE n == Len(stack)
<1>1. /\ n \in Nat \ {0} /\ Len(stack') = n + 1 /\ stack'[n + 1] = f
      /\ Rooms(stack', n)
      /\ Free(stack', n) <=> Free(stack, n)
      /\ Top.nesting \in Nat /\ Top.depth \in 0..MAX_CALL_DEPTH
      /\ n + Top.nesting <= Bound(Top.depth)
      /\ Free(stack, n) \/ n + Top.nesting + MaxNesting <= Bound(Top.depth)
  BY RoomBelow
<1>. HIDE DEF n
<1>2. Free(stack', n + 1) <=> Free(stack', n)
  BY <1>1, FreeAbove
<1>3. n + 1 + f.nesting = n + Top.nesting
  <2>1. n \in Nat /\ Top.nesting \in Nat
    BY <1>1
  <2>2. QED
    BY <2>1
<1>4. HasRoom(stack', n + 1)
  <2>1. n + 1 + f.nesting <= Bound(f.depth)
    BY <1>1, <1>3
  <2>2. Free(stack', n + 1)
        \/ n + 1 + f.nesting + MaxNesting <= Bound(f.depth)
    <3>1. Free(stack, n) => Free(stack', n + 1)
      BY <1>1, <1>2
    <3>2. QED
      BY <1>1, <1>3, <3>1
  <2>3. QED
    BY <1>1, <2>1, <2>2, Zenon DEF HasRoom
<1>5. Nested(f.saved) /\ Nested(branch')
  BY DEF Nested, RoomInv
<1>6. Rooms(stack', n + 1)
  BY <1>1, <1>4, <1>5, OneMoreRoom
<1>7. QED
  BY <1>1, <1>5, <1>6 DEF RoomInv

LEMMA RoomBranch ==
  ASSUME BlockInv, RoomInv, ~Forwarding, RunBranch
  PROVE  RoomInv'
<1> DEFINE n == Len(stack)
           f == List("branch", Top.depth, branch, 0, NoBranch, Top.given)
<1>1. /\ AtBlock /\ ~Ended /\ branch # NoBranch /\ ~Forwards
      /\ stack' = Append(Advanced, f) /\ branch' = branch
  BY DEF RunBranch, AtBlock, env
<1>2. TypeOK /\ Top \in Frame
  BY <1>1, StackFacts DEF BlockInv
<1>3. /\ Top.depth \in 0..MAX_CALL_DEPTH /\ branch \in 0..NoBranch
      /\ MaxNesting \in Nat /\ Top.given \in 0..NoBranch
  BY <1>2, BlockRunnerAssumption DEF Frame, TypeOK
<1>4. branch + 1 <= MaxNesting
  BY <1>1 DEF RoomInv, Nested
<1>5. f \in Frame /\ f.kind = "branch" /\ f.depth = Top.depth
      /\ f.nesting = branch /\ f.saved = NoBranch
  <2>1. MaxLength \in 0..MaxLength /\ branch \in 0..MaxNesting
        /\ NoBranch \in 0..NoBranch
    BY <1>3, <1>4, BlockRunnerAssumption DEF NoBranch
  <2>2. QED
    BY <1>3, <2>1 DEF List, Frame, Kind
<1>. HIDE DEF f
<1>6. /\ n \in Nat \ {0} /\ Len(stack') = n + 1 /\ stack'[n + 1] = f
      /\ Rooms(stack', n) /\ Top.nesting \in Nat
      /\ Free(stack, n) \/ n + Top.nesting + MaxNesting <= Bound(Top.depth)
  BY <1>1, <1>5, RoomBelow
<1>7. ~Free(stack, n)
  <2>1. ~Outside(stack, n)
    BY <1>1 DEF BlockInv, BranchKept
  <2>2. ~InBranch(stack, n)
    BY <1>1, Zenon DEF Forwards, InBranch, Calls
  <2>3. QED
    BY <2>1, <2>2 DEF Free
<1>. HIDE DEF n
<1>8. Bound(Top.depth) \in Nat
  BY <1>3, BoundFacts, BlockRunnerAssumption
<1>9. n + 1 + branch <= Bound(Top.depth)
  BY <1>3, <1>4, <1>6, <1>7, <1>8
<1>10. InBranch(stack', n + 1)
  <2>1. n + 1 \in 1..n + 1 /\ \A j \in n + 1..n + 1 : j = n + 1
    BY <1>6
  <2>2. f.kind \notin Calls
    BY <1>5 DEF Calls
  <2>3. QED
    BY <1>5, <1>6, <2>1, <2>2, Zenon DEF InBranch
<1>11. HasRoom(stack', n + 1)
  BY <1>5, <1>6, <1>9, <1>10 DEF HasRoom, Free
<1>12. Nested(f.saved) /\ Nested(branch')
  BY <1>1, <1>5 DEF Nested, RoomInv
<1>13. Rooms(stack', n + 1)
  BY <1>6, <1>11, <1>12, OneMoreRoom
<1>14. QED
  BY <1>6, <1>12, <1>13 DEF RoomInv

LEMMA RoomCall ==
  ASSUME BlockInv, RoomInv, NEW kind \in Calls, Call(kind)
  PROVE  RoomInv'
<1> DEFINE n == Len(stack)
           f == List(kind, Top.depth + 1, MaxNesting, 0, branch, branch')
<1>1. /\ AtBlock /\ ~Ended /\ MayCall
      /\ stack' = Append(Advanced, f) /\ branch' \in Given
  BY DEF Call, AtBlock
<1>2. TypeOK /\ Top \in Frame
  BY <1>1, StackFacts DEF BlockInv
<1>3. /\ Top.depth \in 0..MAX_CALL_DEPTH /\ branch \in 0..NoBranch
      /\ MaxNesting \in Nat /\ MAX_CALL_DEPTH \in Nat
      /\ Top.depth + 1 \in 0..MAX_CALL_DEPTH /\ branch' \in 0..NoBranch
  <2>1. /\ Top.depth \in 0..MAX_CALL_DEPTH /\ branch \in 0..NoBranch
        /\ MaxNesting \in Nat /\ MAX_CALL_DEPTH \in Nat
    BY <1>2, BlockRunnerAssumption DEF Frame, TypeOK
  <2>2. branch' \in 0..NoBranch
    BY <1>1, <2>1 DEF Given, NoBranch
  <2>3. QED
    BY <1>1, <2>1, <2>2 DEF MayCall
<1>4. f \in Frame /\ f.depth = Top.depth + 1 /\ f.nesting = MaxNesting
      /\ f.saved = branch
  <2>1. MaxLength \in 0..MaxLength /\ MaxNesting \in 0..MaxNesting /\ kind \in Kind
    BY BlockRunnerAssumption DEF Kind, Calls
  <2>2. QED
    BY <1>3, <2>1 DEF List, Frame
<1>. HIDE DEF f
<1>5. /\ n \in Nat \ {0} /\ Len(stack') = n + 1 /\ stack'[n + 1] = f
      /\ Rooms(stack', n) /\ Top.nesting \in Nat /\ Top.nesting <= MaxNesting
      /\ n + Top.nesting <= Bound(Top.depth)
  BY <1>1, <1>4, RoomBelow
<1>. HIDE DEF n
<1>6. Bound(Top.depth) \in Nat
      /\ Bound(Top.depth + 1) = Bound(Top.depth) + 2 * MaxNesting + 1
  BY <1>3, BoundFacts
<1>7. n + 1 + MaxNesting + MaxNesting <= Bound(Top.depth + 1)
  BY <1>3, <1>5, <1>6
<1>8. n + 1 + MaxNesting <= Bound(Top.depth + 1)
  BY <1>3, <1>5, <1>6, <1>7
<1>9. HasRoom(stack', n + 1)
  BY <1>4, <1>5, <1>7, <1>8 DEF HasRoom
<1>10. Nested(f.saved)
  BY <1>4 DEF RoomInv
<1>11. Nested(branch')
  BY <1>1, <1>3, <1>5 DEF Given, Nested, NoBranch
<1>12. Rooms(stack', n + 1)
  BY <1>5, <1>9, <1>10, OneMoreRoom
<1>13. QED
  BY <1>5, <1>11, <1>12 DEF RoomInv

LEMMA RoomPop ==
  ASSUME BlockInv, RoomInv, ~Ended, stack' = Below, branch' \in {branch, Top.saved}
  PROVE  RoomInv'
<1> DEFINE n == Len(stack)
<1>1. TypeOK
  BY DEF BlockInv
<1>2. /\ n \in Nat \ {0} /\ Top = stack[n] /\ Len(stack') = n - 1
      /\ \A i \in 1..n - 1 : stack'[i] = stack[i]
  BY <1>1, StackFacts
<1>3. Rooms(stack, n) /\ Nested(branch)
  BY DEF RoomInv
<1>. HIDE DEF n
<1>4. n \in Nat /\ n - 1 \in Nat /\ n - 1 \in 0..n /\ n \in 1..n
  BY <1>2
<1>5. Rooms(stack, n - 1)
  BY <1>3, <1>4, FewerRooms
<1>6. \A i \in 1..n - 1 : Alike(stack'[i], stack[i])
  BY <1>2 DEF Alike
<1>7. Rooms(stack', n - 1)
  BY <1>4, <1>5, <1>6, SameRooms
<1>8. Nested(Top.saved)
  BY <1>2, <1>3, <1>4 DEF Rooms
<1>9. QED
  BY <1>2, <1>3, <1>7, <1>8 DEF RoomInv

LEMMA RoomSwap ==
  ASSUME BlockInv, RoomInv, ~Ended, NEW f \in Frame, stack' = Append(Below, f),
         Top.kind \notin Calls \union {"branch"},
         f.kind \notin Calls \union {"branch"},
         f.depth = Top.depth, f.nesting = Top.nesting,
         f.saved \in {NoBranch, Top.saved}, branch' = branch
  PROVE  RoomInv'
<1> DEFINE n == Len(stack)
           b == Below
<1>1. TypeOK
  BY DEF BlockInv
<1>2. /\ n \in Nat \ {0} /\ Top = stack[n] /\ b \in Seq(Frame) /\ Len(b) = n - 1
      /\ \A i \in 1..n - 1 : b[i] = stack[i]
  BY <1>1, StackFacts
<1>3. stack' = Append(b, f)
  OBVIOUS
<1>4. Rooms(stack, n) /\ Nested(branch)
  BY DEF RoomInv
<1>. HIDE DEF n, b
<1>5. n \in Nat /\ n - 1 \in Nat /\ n - 1 \in 0..n /\ n \in 1..n
      /\ (n - 1) + 1 = n /\ n - 1 \in 0..n - 1
  BY <1>2
<1>6. Len(stack') = n /\ stack'[n] = f /\ \A i \in 1..n - 1 : stack'[i] = b[i]
  BY <1>2, <1>3, <1>5, AppendProperties
<1>7. \A i \in 1..n - 1 : Alike(stack'[i], stack[i])
  BY <1>2, <1>6 DEF Alike
<1>8. Rooms(stack, n - 1)
  BY <1>4, <1>5, FewerRooms
<1>9. /\ Rooms(stack', n - 1)
      /\ Outside(stack', n - 1) <=> Outside(stack, n - 1)
      /\ InBranch(stack', n - 1) <=> InBranch(stack, n - 1)
  <2> DEFINE i == n - 1
  <2>1. /\ i \in Nat /\ i \in 0..i /\ Rooms(stack, i)
        /\ \A j \in 1..i : Alike(stack'[j], stack[j])
    BY <1>5, <1>7, <1>8
  <2>. HIDE DEF i
  <2>2. /\ \A j \in 0..i : /\ Outside(stack', j) <=> Outside(stack, j)
                           /\ InBranch(stack', j) <=> InBranch(stack, j)
        /\ Rooms(stack', i)
    BY <2>1, SameRooms
  <2>3. /\ Rooms(stack', i)
        /\ Outside(stack', i) <=> Outside(stack, i)
        /\ InBranch(stack', i) <=> InBranch(stack, i)
    BY <2>1, <2>2
  <2>4. QED
    BY <2>3 DEF i
<1>10. Free(stack, n) <=> Free(stack, n - 1)
  <2>1. stack[(n - 1) + 1].kind \notin Calls \union {"branch"}
    BY <1>2, <1>5
  <2>2. Free(stack, (n - 1) + 1) <=> Free(stack, n - 1)
    BY <1>5, <2>1, FreeAbove
  <2>3. QED
    BY <1>5, <2>2
<1>11. Free(stack', n) <=> Free(stack', n - 1)
  <2>1. stack'[(n - 1) + 1].kind \notin Calls \union {"branch"}
    BY <1>5, <1>6
  <2>2. Free(stack', (n - 1) + 1) <=> Free(stack', n - 1)
    BY <1>5, <2>1, FreeAbove
  <2>3. QED
    BY <1>5, <2>2
<1>12. Free(stack', n) <=> Free(stack, n)
  BY <1>9, <1>10, <1>11 DEF Free
<1>13. HasRoom(stack, n) /\ Nested(Top.saved)
  BY <1>2, <1>4, <1>5 DEF Rooms
<1>14. HasRoom(stack', n)
  BY <1>2, <1>6, <1>12, <1>13, Zenon DEF HasRoom
<1>15. Nested(f.saved)
  BY <1>13 DEF Nested
<1>16. Rooms(stack', n)
  <2>1. HasRoom(stack', (n - 1) + 1) /\ Nested(stack'[(n - 1) + 1].saved)
    BY <1>5, <1>6, <1>14, <1>15
  <2>2. Rooms(stack', (n - 1) + 1)
    BY <1>5, <1>9, <2>1, OneMoreRoom
  <2>3. QED
    BY <1>5, <2>2
<1>17. QED
  BY <1>4, <1>6, <1>16 DEF RoomInv

LEMMA RoomEnter ==
  ASSUME BlockInv, RoomInv, NEW kind \in Kind \ (Calls \union {"strand", "branch"}),
         NEW count \in Nat, Into(kind, count)
  PROVE  RoomInv'
<1> DEFINE f == List(kind, Top.depth, Top.nesting - 1, count, NoBranch, Top.given)
<1>1. /\ AtBlock /\ ~Ended /\ Top.nesting > 0 /\ stack' = Append(Advanced, f)
      /\ branch' = branch
  BY DEF Into, AtBlock, env
<1>2. Top \in Frame
  BY <1>1, StackFacts DEF BlockInv
<1>3. /\ Top.depth \in 0..MAX_CALL_DEPTH /\ Top.nesting - 1 \in 0..MaxNesting
      /\ NoBranch \in 0..NoBranch /\ MaxLength \in 0..MaxLength
      /\ Top.given \in 0..NoBranch
  <2>1. Top.depth \in 0..MAX_CALL_DEPTH /\ Top.nesting \in 0..MaxNesting
        /\ MaxNesting \in Nat /\ Top.given \in 0..NoBranch
    BY <1>2, BlockRunnerAssumption DEF Frame
  <2>2. QED
    BY <1>1, <2>1, BlockRunnerAssumption DEF NoBranch
<1>4. f \in Frame /\ f.kind = kind /\ f.depth = Top.depth
      /\ f.nesting = Top.nesting - 1 /\ f.saved = NoBranch
  BY <1>3 DEF List, Frame
<1>. HIDE DEF f
<1>5. QED
  BY <1>1, <1>4, RoomInto

LEMMA RoomAgain ==
  ASSUME BlockInv, RoomInv, TryReturned \/ RetryFailed \/ LoopAgain
  PROVE  RoomInv'
<1>1. ~Ended /\ Top.kind \in {"try", "retry", "loop"} /\ branch' = branch
  BY DEF TryReturned, RetryFailed, LoopAgain, Returned, env
<1>2. Top \in Frame
  BY <1>1, StackFacts DEF BlockInv
<1>3. Top.kind \notin Calls \union {"branch"}
  BY <1>1 DEF Calls
<1>4. /\ Top.kind \in Kind /\ Top.depth \in 0..MAX_CALL_DEPTH
      /\ Top.nesting \in 0..MaxNesting /\ Top.count \in Nat
      /\ Top.saved \in 0..NoBranch /\ Top.given \in 0..NoBranch
  BY <1>2 DEF Frame
<1>5. MaxLength \in 0..MaxLength /\ NoBranch \in 0..NoBranch
  BY BlockRunnerAssumption DEF NoBranch
<1>6. CASE stack' = Below
  BY <1>1, <1>6, RoomPop
<1>7. CASE stack' = Append(Below, List("catch", Top.depth, Top.nesting, 0,
                                      NoBranch, Top.given))
  <2> DEFINE f == List("catch", Top.depth, Top.nesting, 0, NoBranch, Top.given)
  <2>1. /\ f \in Frame /\ f.kind = "catch" /\ f.depth = Top.depth
        /\ f.nesting = Top.nesting /\ f.saved = NoBranch
    BY <1>4, <1>5 DEF List, Frame, Kind
  <2>2. stack' = Append(Below, f)
    BY <1>7
  <2>. HIDE DEF f
  <2>3. f.kind \notin Calls \union {"branch"}
    BY <2>1 DEF Calls
  <2>4. QED
    BY <1>1, <1>3, <2>1, <2>2, <2>3, RoomSwap
<1>8. ASSUME NEW count \in Nat,
             stack' = Append(Below, [Top EXCEPT !.left = MaxLength, !.count = count])
      PROVE  RoomInv'
  <2> DEFINE f == [Top EXCEPT !.left = MaxLength, !.count = count]
  <2>1. /\ f \in Frame /\ f.kind = Top.kind /\ f.depth = Top.depth
        /\ f.nesting = Top.nesting /\ f.saved = Top.saved
    BY <1>2, <1>5 DEF Frame
  <2>2. stack' = Append(Below, f)
    BY <1>8
  <2>. HIDE DEF f
  <2>3. QED
    BY <1>1, <1>3, <2>1, <2>2, RoomSwap
<1>9. CASE TryReturned
  BY <1>6, <1>7, <1>9 DEF TryReturned
<1>10. CASE RetryFailed
  <2>1. CASE /\ Top.count > 0
             /\ stack' = Append(Below, [Top EXCEPT !.left = MaxLength,
                                                   !.count = @ - 1])
    <3>1. Top.count - 1 \in Nat
      BY <1>4, <2>1
    <3>2. QED
      BY <1>8, <2>1, <3>1
  <2>2. QED
    BY <1>6, <1>10, <2>1 DEF RetryFailed
<1>11. CASE LoopAgain
  <2>1. Counted(Top.count + 1) \in Nat
    BY <1>4 DEF Counted
  <2>2. stack' = Append(Below, [Top EXCEPT !.left = MaxLength,
                                          !.count = Counted(@ + 1)])
    BY <1>11 DEF LoopAgain
  <2>3. QED
    BY <1>8, <2>1, <2>2
<1>12. QED
  BY <1>9, <1>10, <1>11

LEMMA RoomNext ==
  ASSUME ~Forwarding, BlockInv, RoomInv, [Next]_vars
  PROVE  RoomInv'
<1>1. CASE \/ EndOfList \/ PlainBlock \/ FailingBlock \/ Throw \/ ReturnBlock
           \/ LoopControl \/ StopBlock \/ Stop \/ CallTooDeep
  <2>1. (stack' = stack \/ (AtBlock /\ stack' = Advanced)) /\ branch' = branch
    BY <1>1 DEF EndOfList, PlainBlock, FailingBlock, Throw, ReturnBlock,
                LoopControl, StopBlock, Stop, CallTooDeep, env
  <2>2. QED
    BY <2>1, RoomAdvance
<1>2. CASE EnterBody \/ EnterTry \/ EnterRetry \/ EnterLoop
  <2>1. \A kind \in {"body", "try", "retry", "loop"} :
          kind \in Kind \ (Calls \union {"strand", "branch"})
    BY DEF Kind, Calls
  <2>2. CASE EnterBody
    BY <2>1, <2>2, RoomEnter DEF EnterBody
  <2>3. CASE EnterTry
    BY <2>1, <2>3, RoomEnter DEF EnterTry
  <2>4. CASE EnterRetry
    <3>1. PICK attempts \in 1..MaxAttempts : Into("retry", attempts - 1)
      BY <2>4 DEF EnterRetry
    <3>2. attempts - 1 \in Nat
      BY BlockRunnerAssumption
    <3>3. QED
      BY <2>1, <3>1, <3>2, RoomEnter
  <2>5. CASE EnterLoop
    <3>1. Counted(1) \in Nat
      BY DEF Counted
    <3>2. QED
      BY <2>1, <2>5, <3>1, RoomEnter DEF EnterLoop
  <2>6. QED
    BY <1>2, <2>2, <2>3, <2>4, <2>5
<1>3. CASE RunBranch
  BY <1>3, RoomBranch
<1>4. CASE Call("call") \/ Call("value")
  BY <1>4, RoomCall DEF Calls
<1>5. CASE \/ BodyReturned \/ RetryReturned \/ LoopLeft \/ LoopOver \/ LoopFails
           \/ CallReturned \/ ValueReturned \/ StrandReturned
  <2>1. ~Ended /\ stack' = Below /\ branch' \in {branch, Top.saved}
    BY <1>5 DEF BodyReturned, RetryReturned, LoopLeft, LoopOver, LoopFails,
                CallReturned, ValueReturned, StrandReturned, Returned, Restored, env
  <2>2. QED
    BY <2>1, RoomPop
<1>6. CASE TryReturned \/ RetryFailed \/ LoopAgain
  BY <1>6, RoomAgain
<1>7. CASE UNCHANGED vars
  BY <1>7, RoomAdvance DEF vars
<1>8. QED
  BY <1>1, <1>2, <1>3, <1>4, <1>5, <1>6, <1>7 DEF Next

\* "without it a cycle would eventually stack-overflow the whole process"
\* (runner.rs:38): as long as no branch runs a branch itself, MAX_CALL_DEPTH does
\* bound the recursion, by the formula of StackBounded.
THEOREM RecursionIsBounded ==
  ASSUME ~Forwarding
  PROVE  Spec => []StackBounded
<1>1. Init => RoomInv
  BY RoomInit
<1>2. BlockInv /\ RoomInv /\ [Next]_vars => RoomInv'
  BY RoomNext
<1>3. BlockInv /\ RoomInv => StackBounded
  <2> SUFFICES ASSUME BlockInv, RoomInv PROVE StackBounded
    OBVIOUS
  <2> DEFINE n == Len(stack)
             most == (MAX_CALL_DEPTH + 1) * (MaxNesting + 1)
                     + MAX_CALL_DEPTH * MaxNesting
  <2>1. TypeOK /\ stack \in Seq(Frame) /\ n \in Nat
    BY DEF BlockInv, TypeOK
  <2>2. most = Bound(MAX_CALL_DEPTH) /\ most \in Nat
    BY BoundFacts, BlockRunnerAssumption
  <2>3. CASE Ended
    <3>1. n = 0
      BY <2>3 DEF Ended
    <3>. HIDE DEF n, most
    <3>2. n <= most
      BY <2>2, <3>1
    <3>3. QED
      BY <3>2 DEF StackBounded, n, most
  <2>4. CASE ~Ended
    <3>1. n \in 1..n /\ Top = stack[n] /\ Top \in Frame
      BY <2>1, <2>4, StackFacts
    <3>2. /\ Top.nesting \in 0..MaxNesting /\ Top.depth \in 0..MAX_CALL_DEPTH
          /\ MAX_CALL_DEPTH \in Nat /\ MaxNesting \in Nat
      BY <3>1, BlockRunnerAssumption DEF Frame
    <3>3. n + Top.nesting <= Bound(Top.depth)
      BY <3>1 DEF RoomInv, Rooms, HasRoom
    <3>4. Bound(Top.depth) <= most /\ Bound(Top.depth) \in Nat
      <4>1. Top.depth \in Nat
        BY <3>2
      <4>2. QED
        BY <2>2, <3>2, <4>1, BoundFacts, Zenon
    <3>. HIDE DEF n, most
    <3>5. n <= most
      BY <2>1, <2>2, <3>2, <3>3, <3>4
    <3>6. QED
      BY <3>5 DEF StackBounded, n, most
  <2>5. QED
    BY <2>3, <2>4
<1>4. QED
  BY <1>1, <1>2, <1>3, BlockSafe, PTL DEF Spec

=============================================================================
