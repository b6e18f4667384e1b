---------------------------- MODULE EditorProofs ----------------------------
(***************************************************************************)
(* Proofs about the editor: its link to the daemon, for queues of any size *)
(* and any number of changes, and the macro that is open in it, for any    *)
(* set of macros, any limit of undo and any number of signals and          *)
(* countdowns.                                                             *)
(***************************************************************************)
EXTENDS EditorLink, EditorDocument, SequenceTheorems, TLAPS

(* The link to the daemon *)

(***************************************************************************)
(* The last state in a queue, and the queues that hold none.               *)
(***************************************************************************)
NoState(q) == \A i \in 1..Len(q) : q[i] = Other

LastIs(q, v) ==
  \A i \in 1..Len(q) :
    q[i] # Other /\ (\A j \in i + 1..Len(q) : q[j] = Other) => q[i] = v

LEMMA AppendState ==
  ASSUME NEW q \in Seq(Message), NEW m \in Message, NEW v
  PROVE  /\ NoState(Append(q, m)) <=> NoState(q) /\ m = Other
         /\ m # Other => LastIs(Append(q, m), m)
         /\ m = Other /\ LastIs(q, v) => LastIs(Append(q, m), v)
<1>1. /\ Len(Append(q, m)) = Len(q) + 1 /\ Len(q) \in Nat
      /\ Append(q, m)[Len(q) + 1] = m
      /\ \A i \in 1..Len(q) : Append(q, m)[i] = q[i]
  OBVIOUS
<1>2. NoState(Append(q, m)) <=> NoState(q) /\ m = Other
  BY <1>1 DEF NoState
<1>3. ASSUME m # Other
      PROVE  LastIs(Append(q, m), m)
  <2>1. ASSUME NEW i \in 1..Len(q) + 1,
               \A j \in i + 1..Len(q) + 1 : Append(q, m)[j] = Other
        PROVE  i = Len(q) + 1
    BY <1>1, <1>3, <2>1
  <2>2. QED
    BY <1>1, <2>1 DEF LastIs
<1>4. ASSUME m = Other, LastIs(q, v)
      PROVE  LastIs(Append(q, m), v)
  <2>1. ASSUME NEW i \in 1..Len(q) + 1, Append(q, m)[i] # Other,
               \A j \in i + 1..Len(q) + 1 : Append(q, m)[j] = Other
        PROVE  Append(q, m)[i] = v
    <3>1. i \in 1..Len(q) /\ q[i] # Other
      BY <1>1, <1>4, <2>1
    <3>2. \A j \in i + 1..Len(q) : q[j] = Other
      BY <1>1, <2>1, <3>1
    <3>3. QED
      BY <1>1, <1>4, <3>1, <3>2 DEF LastIs
  <2>2. QED
    BY <1>1, <2>1 DEF LastIs
<1>5. QED
  BY <1>2, <1>3, <1>4

LEMMA TailState ==
  ASSUME NEW q \in Seq(Message), q # <<>>, NEW v
  PROVE  /\ Tail(q) \in Seq(Message) /\ Head(q) \in Message
         /\ Len(Tail(q)) = Len(q) - 1
         /\ LastIs(q, v) => LastIs(Tail(q), v)
         /\ NoState(q) <=> NoState(Tail(q)) /\ Head(q) = Other
         /\ LastIs(q, v) /\ NoState(Tail(q)) /\ Head(q) # Other => Head(q) = v
<1>1. /\ Len(q) \in Nat \ {0} /\ Len(Tail(q)) = Len(q) - 1 /\ Head(q) = q[1]
      /\ \A i \in 1..Len(q) - 1 : Tail(q)[i] = q[i + 1]
      /\ Tail(q) \in Seq(Message) /\ Head(q) \in Message
  OBVIOUS
<1>2. ASSUME LastIs(q, v)
      PROVE  LastIs(Tail(q), v)
  <2>1. ASSUME NEW i \in 1..Len(q) - 1, Tail(q)[i] # Other,
               \A j \in i + 1..Len(q) - 1 : Tail(q)[j] = Other
        PROVE  Tail(q)[i] = v
    <3>1. i + 1 \in 1..Len(q) /\ q[i + 1] # Other
      BY <1>1, <2>1
    <3>2. ASSUME NEW j \in (i + 1) + 1..Len(q)
          PROVE  q[j] = Other
      <4>1. j - 1 \in i + 1..Len(q) - 1 /\ j - 1 \in 1..Len(q) - 1
        BY <1>1, <3>1
      <4>2. Tail(q)[j - 1] = q[(j - 1) + 1] /\ (j - 1) + 1 = j
        BY <1>1, <4>1
      <4>3. QED
        BY <2>1, <4>1, <4>2
    <3>3. q[i + 1] = v
      BY <1>2, <3>1, <3>2 DEF LastIs
    <3>4. QED
      BY <1>1, <3>3
  <2>2. QED
    BY <1>1, <2>1 DEF LastIs
<1>3. NoState(q) <=> NoState(Tail(q)) /\ Head(q) = Other
  <2>1. ASSUME NoState(q)
        PROVE  NoState(Tail(q)) /\ Head(q) = Other
    BY <1>1, <2>1 DEF NoState
  <2>2. ASSUME NoState(Tail(q)), Head(q) = Other, NEW i \in 1..Len(q)
        PROVE  q[i] = Other
    <3>1. CASE i = 1
      BY <1>1, <2>2, <3>1
    <3>2. CASE i # 1
      <4>1. i - 1 \in 1..Len(q) - 1 /\ (i - 1) + 1 = i
        BY <1>1, <3>2
      <4>2. Tail(q)[i - 1] = q[i]
        BY <1>1, <4>1
      <4>3. QED
        BY <1>1, <2>2, <4>1, <4>2 DEF NoState
    <3>3. QED
      BY <3>1, <3>2
  <2>3. QED
    BY <2>1, <2>2 DEF NoState
<1>4. ASSUME LastIs(q, v), NoState(Tail(q)), Head(q) # Other
      PROVE  Head(q) = v
  <2>1. 1 \in 1..Len(q) /\ q[1] # Other
    BY <1>1, <1>4
  <2>2. ASSUME NEW j \in 1 + 1..Len(q)
        PROVE  q[j] = Other
    <3>1. j - 1 \in 1..Len(q) - 1 /\ (j - 1) + 1 = j
      BY <1>1
    <3>2. Tail(q)[j - 1] = q[j]
      BY <1>1, <3>1
    <3>3. QED
      BY <1>1, <1>4, <3>1, <3>2 DEF NoState
  <2>3. QED
    BY <1>1, <1>4, <2>1, <2>2 DEF LastIs
<1>5. QED
  BY <1>1, <1>2, <1>3, <1>4

(***************************************************************************)
(* The invariant.  The state sent last is the last one in the receiver, if *)
(* any is left there.  If none is, nothing was lost and that state is the  *)
(* newest, then the newest is the last on the rest of its way: in the      *)
(* writer's queue, else, unless it was torn there, in the editor's         *)
(* channel, else on screen.                                                *)
(***************************************************************************)
OnlySentSoFar == sent <= version /\ \A v \in built : v <= version

EventsEndWithSent ==
  /\ Subscribed => LastIs(events, sent)
  /\ link = "none" => events = <<>>

PollComes == arrived # Other => waking \/ queued \/ polling

LastAhead ==
  /\ LastIs(line, version)
  /\ ~torn /\ NoState(line) =>
       IF arrived # Other THEN arrived = version ELSE shown = version

NewestUnderWay ==
  link = "up" /\ ~lagged /\ ~missed /\ NoState(events) /\ sent = version =>
    LastAhead

LinkInv ==
  /\ LinkTypeOK /\ OnlySentSoFar /\ EventsEndWithSent
  /\ PollComes /\ NewestUnderWay

\* A message that is torn leaves the last state what it was, if any is left.
LEMMA TornState ==
  ASSUME NEW q \in Seq(Message), q # <<>>, NEW v
  PROVE  LET t == [q EXCEPT ![1] = Other] IN
         /\ t \in Seq(Message) /\ Len(t) = Len(q)
         /\ LastIs(q, v) => LastIs(t, v)
         /\ Head(q) = Other => t = q
<1> DEFINE t == [q EXCEPT ![1] = Other]
<1>1. /\ Len(q) \in Nat \ {0} /\ Head(q) = q[1] /\ Other \in Message
      /\ Len(t) = Len(q) /\ t \in Seq(Message) /\ t[1] = Other
      /\ \A i \in 1..Len(q) : i # 1 => t[i] = q[i]
  BY DEF Message
<1>2. ASSUME LastIs(q, v)
      PROVE  LastIs(t, v)
  <2>1. ASSUME NEW i \in 1..Len(q), t[i] # Other,
               \A j \in i + 1..Len(q) : t[j] = Other
        PROVE  t[i] = v
    <3>1. i # 1 /\ q[i] # Other
      BY <1>1, <2>1
    <3>2. \A j \in i + 1..Len(q) : j # 1 /\ j \in 1..Len(q)
      OBVIOUS
    <3>3. \A j \in i + 1..Len(q) : q[j] = Other
      BY <1>1, <2>1, <3>2
    <3>4. QED
      BY <1>1, <1>2, <3>1, <3>3 DEF LastIs
  <2>2. QED
    BY <1>1, <2>1 DEF LastIs
<1>3. Head(q) = Other => t = q
  OBVIOUS
<1>4. QED
  BY <1>1, <1>2, <1>3

LEMMA LinkInitInv == LinkInit => LinkInv
<1> SUFFICES ASSUME LinkInit PROVE LinkInv
  OBVIOUS
<1>. USE EditorLinkAssumption DEF LinkInit
<1>1. LinkTypeOK
  <2>1. events \in Seq(Message) /\ Len(events) <= EventCap
    OBVIOUS
  <2>2. line \in Seq(Message) /\ Len(line) <= LineCap
    OBVIOUS
  <2>3. version \in Version /\ sent \in Version /\ shown \in Version
        /\ arrived \in Message
    BY DEF Version, Message
  <2>4. QED
    BY <2>1, <2>2, <2>3, Zenon DEF LinkTypeOK
<1>2. OnlySentSoFar
  BY DEF OnlySentSoFar
<1>3. EventsEndWithSent /\ PollComes /\ NewestUnderWay
  BY DEF EventsEndWithSent, Subscribed, PollComes, NewestUnderWay
<1>4. QED
  BY <1>1, <1>2, <1>3 DEF LinkInv

(***************************************************************************)
(* The backend sends: the receiver, if there is one, ends with the message.*)
(***************************************************************************)
LEMMA PublishTypes ==
  ASSUME LinkTypeOK, NEW m \in Message, Publish(m)
  PROVE  /\ events' \in Seq(Message) /\ Len(events') <= EventCap
         /\ lagged' \in BOOLEAN
<1>1. events \in Seq(Message) /\ Len(events) \in Nat /\ Len(events) <= EventCap
      /\ EventCap \in Nat \ {0} /\ lagged \in BOOLEAN
  BY EditorLinkAssumption DEF LinkTypeOK
<1>2. CASE ~Subscribed
  BY <1>1, <1>2 DEF Publish, receiver
<1>3. CASE Subscribed /\ Len(events) < EventCap
  <2>1. events' = Append(events, m) /\ lagged' = (lagged \/ FALSE)
    BY <1>1, <1>3 DEF Publish
  <2>2. QED
    BY <1>1, <1>3, <2>1
<1>4. CASE Subscribed /\ Len(events) = EventCap
  <2>1. events' = Append(Tail(events), m)
    BY <1>1, <1>4 DEF Publish
  <2>3. lagged' \in BOOLEAN
    BY <1>4, Zenon DEF Publish
  <2>2. Len(events) > 0 /\ events # <<>>
    BY <1>1, <1>4
  <2>4. QED
    BY <1>1, <1>4, <2>1, <2>2, <2>3
<1>5. QED
  BY <1>1, <1>2, <1>3, <1>4

LEMMA PublishEnds ==
  ASSUME LinkTypeOK, NEW m \in Message, Publish(m), Subscribed, NEW v,
         LastIs(events, v)
  PROVE  /\ m = Other => LastIs(events', v)
         /\ m # Other => LastIs(events', m) /\ ~NoState(events')
         /\ ~lagged' => ~lagged
         /\ ~lagged' /\ NoState(events') => NoState(events)
<1>1. events \in Seq(Message) /\ Len(events) \in Nat /\ Len(events) <= EventCap
      /\ EventCap \in Nat \ {0}
  BY EditorLinkAssumption DEF LinkTypeOK
<1>2. CASE Len(events) < EventCap
  <2>1. events' = Append(events, m) /\ lagged' = (lagged \/ FALSE)
    BY <1>1, <1>2 DEF Publish
  <2>2. QED
    BY <1>1, <2>1, AppendState
<1>3. CASE Len(events) = EventCap
  <2>1. events' = Append(Tail(events), m)
    BY <1>1, <1>3 DEF Publish
  <2>5. lagged'
    BY <1>3, Zenon DEF Publish
  <2>2. events # <<>>
    BY <1>1, <1>3
  <2>3. Tail(events) \in Seq(Message) /\ LastIs(Tail(events), v)
    BY <1>1, <2>2, TailState
  <2>4. QED
    BY <2>1, <2>3, <2>5, AppendState
<1>4. QED
  BY <1>1, <1>2, <1>3

LEMMA SendState ==
  ASSUME LinkInv, NEW v \in Version, PublishState(v),
         version' \in Version, v <= version',
         built' \subseteq Version, \A w \in built' : w <= version',
         UNCHANGED <<link, line, screen, missed>>
  PROVE  LinkInv'
<1>1. /\ LinkTypeOK /\ OnlySentSoFar /\ EventsEndWithSent
      /\ PollComes /\ NewestUnderWay
  BY DEF LinkInv
<1>2. v \in Message /\ v # Other /\ sent' = v /\ Publish(v)
  BY EditorLinkAssumption DEF Message, Version, PublishState
<1>3. LinkTypeOK'
  BY <1>1, <1>2, PublishTypes DEF LinkTypeOK, screen
<1>4. OnlySentSoFar' /\ PollComes'
  BY <1>1, <1>2 DEF OnlySentSoFar, PollComes, screen
<1>5. CASE Subscribed
  <2>1. LastIs(events', v) /\ ~NoState(events') /\ link' # "none"
    BY <1>1, <1>2, <1>5, PublishEnds DEF EventsEndWithSent, Subscribed
  <2>2. QED
    BY <1>2, <1>3, <1>4, <2>1 DEF LinkInv, EventsEndWithSent, NewestUnderWay
<1>6. CASE ~Subscribed
  <2>1. events' = events /\ ~Subscribed' /\ link' # "up"
    BY <1>2, <1>6 DEF Publish, receiver, Subscribed
  <2>2. EventsEndWithSent' /\ NewestUnderWay'
    BY <1>1, <2>1 DEF EventsEndWithSent, NewestUnderWay
  <2>3. QED
    BY <1>3, <1>4, <2>2 DEF LinkInv
<1>7. QED
  BY <1>5, <1>6

LEMMA BackendStep ==
  ASSUME LinkInv, Backend
  PROVE  LinkInv'
<1>1. /\ LinkTypeOK /\ OnlySentSoFar /\ EventsEndWithSent
      /\ PollComes /\ NewestUnderWay
  BY DEF LinkInv
<1>2. /\ version \in Nat /\ sent \in Nat /\ MaxChanges \in Nat
      /\ version <= MaxChanges /\ built \subseteq Version
  BY <1>1, EditorLinkAssumption DEF LinkTypeOK, Version
<1>3. CASE Change
  <2>1. version' = version + 1 /\ version + 1 \in Version /\ built' = built
        /\ PublishState(version + 1)
        /\ UNCHANGED <<link, line, screen, missed>>
    BY <1>2, <1>3 DEF Change, Version
  <2>2. \A w \in built' : w <= version'
    BY <1>1, <1>2, <2>1 DEF OnlySentSoFar, Version
  <2>3. QED
    BY <1>2, <2>1, <2>2, SendState
<1>4. CASE ChangeAndBuild
  <2>1. version' = version + 1 /\ version + 1 \in Version
        /\ built' = built \union {version + 1}
        /\ UNCHANGED <<sent, link, receiver, line, screen, missed>>
    BY <1>2, <1>4 DEF ChangeAndBuild, Version
  <2>2. LinkTypeOK'
    BY <1>1, <1>2, <2>1 DEF LinkTypeOK, receiver, screen
  <2>3. OnlySentSoFar' /\ sent' # version'
    BY <1>1, <1>2, <2>1 DEF OnlySentSoFar, Version
  <2>4. EventsEndWithSent' /\ PollComes'
    BY <1>1, <2>1 DEF EventsEndWithSent, PollComes, Subscribed, receiver, screen
  <2>5. QED
    BY <2>2, <2>3, <2>4 DEF LinkInv, NewestUnderWay
<1>5. ASSUME NEW v \in Version, SendBuilt(v)
      PROVE  LinkInv'
  <2>1. v \in built /\ built' = built \ {v} /\ version' = version
        /\ PublishState(v) /\ UNCHANGED <<link, line, screen, missed>>
    BY <1>5 DEF SendBuilt
  <2>2. v <= version' /\ \A w \in built' : w <= version'
    BY <1>1, <2>1 DEF OnlySentSoFar
  <2>3. version' \in Version /\ built' \subseteq Version
    BY <1>1, <2>1 DEF LinkTypeOK
  <2>4. QED
    BY <2>1, <2>2, <2>3, SendState
<1>6. CASE SendTrace
  <2>1. Publish(Other) /\ Other \in Message
        /\ UNCHANGED <<backend, link, line, screen, missed>>
    BY <1>6 DEF SendTrace, Message
  <2>2. LinkTypeOK'
    BY <1>1, <2>1, PublishTypes DEF LinkTypeOK, backend, screen
  <2>3. OnlySentSoFar' /\ PollComes'
    BY <1>1, <2>1 DEF OnlySentSoFar, PollComes, backend, screen
  <2>4. CASE Subscribed
    <3>1. LastIs(events', sent) /\ (~lagged' => ~lagged)
          /\ (~lagged' /\ NoState(events') => NoState(events))
      BY <1>1, <2>1, <2>4, PublishEnds DEF EventsEndWithSent
    <3>2. EventsEndWithSent'
      BY <2>1, <2>4, <3>1 DEF EventsEndWithSent, Subscribed, backend
    <3>3. LastAhead => LastAhead'
      BY <2>1 DEF LastAhead, backend, screen
    <3>4. NewestUnderWay'
      BY <1>1, <2>1, <3>1, <3>3 DEF NewestUnderWay, backend
    <3>5. QED
      BY <2>2, <2>3, <3>2, <3>4 DEF LinkInv
  <2>5. CASE ~Subscribed
    <3>1. events' = events /\ ~Subscribed' /\ link' # "up"
      BY <2>1, <2>5 DEF Publish, receiver, Subscribed
    <3>2. EventsEndWithSent' /\ NewestUnderWay'
      BY <1>1, <2>1, <3>1 DEF EventsEndWithSent, NewestUnderWay, backend
    <3>3. QED
      BY <2>2, <2>3, <3>2 DEF LinkInv
  <2>6. QED
    BY <2>4, <2>5
<1>7. QED
  BY <1>3, <1>4, <1>5, <1>6 DEF Backend

(***************************************************************************)
(* The connection.                                                         *)
(***************************************************************************)
LEMMA OfferTypes ==
  ASSUME LinkTypeOK, NEW m \in Message, Offer(m)
  PROVE  line' \in Seq(Message) /\ Len(line') <= LineCap
<1>1. line \in Seq(Message) /\ Len(line) \in Nat /\ Len(line) <= LineCap
      /\ LineCap \in Nat \ {0}
  BY EditorLinkAssumption DEF LinkTypeOK
<1>2. QED
  BY <1>1 DEF Offer, HasRoom

LEMMA OfferOther ==
  ASSUME LinkTypeOK, Offer(Other), LastAhead,
         UNCHANGED <<version, torn, arrived, shown>>
  PROVE  LastAhead'
<1>1. line \in Seq(Message) /\ Other \in Message
  BY DEF LinkTypeOK, Message
<1>2. line' = line \/ line' = Append(line, Other)
  BY DEF Offer
<1>3. LastIs(line, version)
  BY DEF LastAhead
<1>4. LastIs(Append(line, Other), version)
      /\ (NoState(Append(line, Other)) => NoState(line))
  BY <1>1, <1>3, AppendState
<1>5. LastIs(line', version) /\ (NoState(line') => NoState(line))
  BY <1>2, <1>3, <1>4
<1>6. QED
  BY <1>5 DEF LastAhead

\* A snapshot there is room for is the newest state, behind all that was queued.
LEMMA Snapshot ==
  ASSUME LinkTypeOK, SendSnapshot, UNCHANGED <<version, arrived, shown>>
  PROVE  /\ line' \in Seq(Message) /\ Len(line') <= LineCap
         /\ missed' \in BOOLEAN
         /\ ~missed' => LastAhead'
<1>1. line \in Seq(Message) /\ version \in Message /\ version # Other
  BY EditorLinkAssumption DEF LinkTypeOK, Message, Version
<1>2. Offer(version)
  BY DEF SendSnapshot
<1>3. missed' \in BOOLEAN /\ (~missed' => HasRoom)
  BY Zenon DEF SendSnapshot
<1>4. ASSUME HasRoom
      PROVE  LastAhead'
  <2>1. line' = Append(line, version)
    BY <1>2, <1>4 DEF Offer
  <2>2. LastIs(line', version) /\ ~NoState(line')
    BY <1>1, <2>1, AppendState
  <2>3. QED
    BY <2>2 DEF LastAhead
<1>5. QED
  BY <1>1, <1>2, <1>3, <1>4, OfferTypes

LEMMA ConnectionStep ==
  ASSUME LinkInv, Connection
  PROVE  LinkInv'
<1>1. /\ LinkTypeOK /\ OnlySentSoFar /\ EventsEndWithSent
      /\ PollComes /\ NewestUnderWay
  BY DEF LinkInv
<1>. USE DEF backend, receiver, screen
<1>2. CASE Admit
  <2>1. Offer(Other) /\ link = "none" /\ link' = "admitted"
        /\ UNCHANGED <<backend, receiver, screen, missed>>
    BY <1>2 DEF Admit, At
  <2>2. LinkTypeOK'
    BY <1>1, <2>1, OfferTypes DEF LinkTypeOK, Message
  <2>3. events' = <<>>
    BY <1>1, <2>1 DEF EventsEndWithSent
  <2>4. EventsEndWithSent'
    BY <2>1, <2>3 DEF EventsEndWithSent, LastIs
  <2>5. QED
    BY <1>1, <2>1, <2>2, <2>4 DEF LinkInv, OnlySentSoFar, PollComes, NewestUnderWay
<1>3. CASE Reject \/ Reply
  <2>1. Offer(Other) /\ UNCHANGED <<backend, link, receiver, screen, missed>>
    BY <1>3 DEF Reject, Reply
  <2>2. LinkTypeOK'
    BY <1>1, <2>1, OfferTypes DEF LinkTypeOK, Message
  <2>3. NewestUnderWay'
    BY <1>1, <2>1, OfferOther DEF NewestUnderWay
  <2>4. QED
    BY <1>1, <2>1, <2>2, <2>3
    DEF LinkInv, OnlySentSoFar, PollComes, EventsEndWithSent, Subscribed
<1>4. CASE FirstSnapshot
  <2>1. SendSnapshot /\ link = "admitted" /\ link' = "up"
        /\ UNCHANGED <<backend, receiver, screen>>
    BY <1>4 DEF FirstSnapshot, At
  <2>2. LinkTypeOK'
    BY <1>1, <2>1, Snapshot DEF LinkTypeOK
  <2>3. NewestUnderWay'
    BY <1>1, <2>1, Snapshot DEF NewestUnderWay
  <2>4. QED
    BY <1>1, <2>1, <2>2, <2>3
    DEF LinkInv, OnlySentSoFar, PollComes, EventsEndWithSent, Subscribed
<1>5. CASE FellBehind
  <2>1. SendSnapshot /\ lagged' = FALSE
        /\ UNCHANGED <<backend, link, events, screen>>
    BY <1>5 DEF FellBehind, CatchesUp
  <2>2. LinkTypeOK'
    BY <1>1, <2>1, Snapshot DEF LinkTypeOK
  <2>3. NewestUnderWay'
    BY <1>1, <2>1, Snapshot DEF NewestUnderWay
  <2>4. QED
    BY <1>1, <2>1, <2>2, <2>3
    DEF LinkInv, OnlySentSoFar, PollComes, EventsEndWithSent, Subscribed
<1>6. CASE Forward
  <2>1. /\ link = "up" /\ ~lagged /\ events # <<>> /\ HasRoom
        /\ line' = Append(line, Head(events)) /\ events' = Tail(events)
        /\ UNCHANGED <<backend, link, lagged, screen>>
    BY <1>6 DEF Forward
  <2>2. missed' \in BOOLEAN /\ (~missed' => ~missed \/ Head(events) # Other)
    BY <1>6, Zenon DEF Forward
  <2>3. events \in Seq(Message) /\ line \in Seq(Message)
        /\ LastIs(events, sent)
    BY <1>1, <2>1 DEF LinkTypeOK, EventsEndWithSent, Subscribed
  <2>4. /\ events' \in Seq(Message) /\ Head(events) \in Message
        /\ Len(events') = Len(events) - 1 /\ LastIs(events', sent)
        /\ NoState(events) <=> NoState(events') /\ Head(events) = Other
        /\ NoState(events') /\ Head(events) # Other => Head(events) = sent
    BY <2>1, <2>3, TailState
  <2>5. LinkTypeOK'
    <3>1. Len(events') <= EventCap
      BY <1>1, <2>3, <2>4, EditorLinkAssumption DEF LinkTypeOK
    <3>2. line' \in Seq(Message) /\ Len(line') <= LineCap
      <4>1. Offer(Head(events))
        BY <2>1 DEF Offer
      <4>2. QED
        BY <1>1, <2>4, <4>1, OfferTypes
    <3>3. QED
      BY <1>1, <2>1, <2>2, <2>4, <3>1, <3>2 DEF LinkTypeOK
  <2>6. NewestUnderWay'
    <3> SUFFICES ASSUME ~missed', NoState(events'), sent = version
                 PROVE  LastAhead'
      BY <2>1 DEF NewestUnderWay
    <3>1. CASE Head(events) # Other
      <4>1. Head(events) = version
        BY <2>4, <3>1
      <4>2. LastIs(line', version) /\ ~NoState(line')
        BY <2>1, <2>3, <2>4, <3>1, <4>1, AppendState
      <4>3. QED
        BY <2>1, <4>2 DEF LastAhead
    <3>2. CASE Head(events) = Other
      <4>1. LastAhead
        BY <1>1, <2>1, <2>2, <2>4, <3>2 DEF NewestUnderWay
      <4>2. Offer(Other)
        BY <2>1, <3>2 DEF Offer
      <4>3. QED
        BY <1>1, <2>1, <4>1, <4>2, OfferOther
    <3>3. QED
      BY <3>1, <3>2
  <2>7. QED
    BY <1>1, <2>1, <2>4, <2>5, <2>6
    DEF LinkInv, OnlySentSoFar, PollComes, EventsEndWithSent, Subscribed
<1>7. CASE HangUp
  <2>1. link' = "closing" /\ UNCHANGED <<backend, receiver, line, screen, missed>>
    BY <1>7 DEF HangUp, At
  <2>2. QED
    BY <1>1, <2>1
    DEF LinkInv, LinkTypeOK, OnlySentSoFar, PollComes, EventsEndWithSent,
        Subscribed, NewestUnderWay
<1>8. CASE FreeSlot
  <2>1. link' = "none" /\ UNCHANGED backend /\ events' = <<>> /\ line' = <<>>
        /\ lagged' = FALSE /\ missed' = FALSE
        /\ arrived' = Other /\ torn' = FALSE
        /\ waking' = FALSE /\ wakePending' = FALSE
        /\ queued' = FALSE /\ polling' = FALSE /\ shown' = 0
    BY <1>8 DEF FreeSlot, At
  <2>2. Len(events') <= EventCap /\ Len(line') <= LineCap
    BY <2>1, EditorLinkAssumption
  <2>3. arrived' \in Message /\ shown' \in Version
    BY <2>1, EditorLinkAssumption DEF Message, Version
  <2>4. events' \in Seq(Message) /\ line' \in Seq(Message)
    BY <2>1
  <2>5. LinkTypeOK'
    BY <1>1, <2>1, <2>2, <2>3, <2>4, Zenon DEF LinkTypeOK
  <2>6. QED
    BY <1>1, <2>1, <2>5
    DEF LinkInv, OnlySentSoFar, PollComes, EventsEndWithSent, Subscribed,
        NewestUnderWay
<1>9. QED
  BY <1>2, <1>3, <1>4, <1>5, <1>6, <1>7, <1>8 DEF Connection

(***************************************************************************)
(* The editor.                                                             *)
(***************************************************************************)
LEMMA WindowStep ==
  ASSUME LinkInv, Window
  PROVE  LinkInv'
<1>1. /\ LinkTypeOK /\ OnlySentSoFar /\ EventsEndWithSent
      /\ PollComes /\ NewestUnderWay
  BY DEF LinkInv
<1>2. UNCHANGED <<backend, link, receiver, missed>>
  BY DEF Window, Receive, RequestTears, WakeUi, PollBegins, PollReads
<1>3. OnlySentSoFar' /\ EventsEndWithSent'
  BY <1>1, <1>2 DEF OnlySentSoFar, EventsEndWithSent, Subscribed, backend, receiver
<1>4. (LastAhead => LastAhead') => NewestUnderWay'
  BY <1>1, <1>2 DEF NewestUnderWay, backend, receiver
<1>. USE DEF backend, receiver
<1>5. CASE Receive
  <2>1. /\ line # <<>> /\ line' = Tail(line)
        /\ arrived' = (IF Head(line) = Other THEN arrived ELSE Head(line))
        /\ torn' = (torn /\ Head(line) = Other)
        /\ waking' = TRUE
        /\ UNCHANGED <<wakePending, queued, polling, shown>>
    BY <1>5 DEF Receive
  <2>2. line \in Seq(Message) /\ Len(line) \in Nat /\ Len(line) <= LineCap
        /\ LineCap \in Nat
    BY <1>1, EditorLinkAssumption DEF LinkTypeOK
  <2>3. /\ line' \in Seq(Message) /\ Head(line) \in Message
        /\ Len(line') = Len(line) - 1
        /\ LastIs(line, version) => LastIs(line', version)
        /\ NoState(line) <=> NoState(line') /\ Head(line) = Other
        /\ LastIs(line, version) /\ NoState(line') /\ Head(line) # Other
             => Head(line) = version
    BY <2>1, <2>2, TailState
  <2>4. Len(line') <= LineCap
    BY <2>2, <2>3
  <2>5. LinkTypeOK'
    <3>1. torn' \in BOOLEAN
      BY <2>1, Zenon
    <3>2. QED
      BY <1>1, <1>2, <2>1, <2>3, <2>4, <3>1 DEF LinkTypeOK
  <2>6. ASSUME LastAhead
        PROVE  LastAhead'
    <3>1. CASE Head(line) = Other
      <4>1. (torn' <=> torn) /\ arrived' = arrived
            /\ LastIs(line', version) /\ (NoState(line') <=> NoState(line))
        BY <2>1, <2>3, <2>6, <3>1 DEF LastAhead
      <4>2. QED
        BY <1>2, <2>1, <2>6, <4>1 DEF LastAhead
    <3>2. CASE Head(line) # Other
      BY <1>2, <2>1, <2>3, <2>6, <3>2 DEF LastAhead
    <3>3. QED
      BY <3>1, <3>2
  <2>7. QED
    BY <1>3, <1>4, <2>1, <2>5, <2>6 DEF LinkInv, PollComes
<1>10. CASE RequestTears
  <2>1. /\ line # <<>> /\ line' = [line EXCEPT ![1] = Other]
        /\ torn' = (torn \/ Head(line) # Other)
        /\ UNCHANGED <<arrived, waking, wakePending, queued, polling, shown>>
    BY <1>10 DEF RequestTears
  <2>2. line \in Seq(Message) /\ Len(line) <= LineCap
    BY <1>1 DEF LinkTypeOK
  <2>3. /\ line' \in Seq(Message) /\ Len(line') <= LineCap
        /\ LastIs(line, version) => LastIs(line', version)
        /\ Head(line) = Other => line' = line
    BY <2>1, <2>2, TornState
  <2>4. torn' \in BOOLEAN /\ (~torn' => ~torn /\ Head(line) = Other)
    BY <2>1, Zenon
  <2>5. LinkTypeOK'
    BY <1>1, <1>2, <2>1, <2>3, <2>4 DEF LinkTypeOK
  <2>6. LastAhead => LastAhead'
    BY <1>2, <2>1, <2>3, <2>4 DEF LastAhead
  <2>7. QED
    BY <1>1, <1>3, <1>4, <2>1, <2>5, <2>6 DEF LinkInv, PollComes
<1>6. CASE WakeUi
  <2>1. /\ waking' = FALSE /\ wakePending' = TRUE
        /\ queued' = (queued \/ ~wakePending)
        /\ UNCHANGED <<line, arrived, torn, polling, shown>>
    BY <1>6 DEF WakeUi
  <2>2. queued' = TRUE
    BY <1>1, <2>1, Zenon DEF LinkTypeOK
  <2>3. LinkTypeOK'
    BY <1>1, <1>2, <2>1, <2>2 DEF LinkTypeOK
  <2>4. LastAhead => LastAhead'
    BY <1>2, <2>1 DEF LastAhead
  <2>5. QED
    BY <1>3, <1>4, <2>2, <2>3, <2>4 DEF LinkInv, PollComes
<1>7. CASE PollBegins
  <2>1. /\ queued' = FALSE /\ polling' = TRUE /\ wakePending' = FALSE
        /\ UNCHANGED <<line, arrived, torn, waking, shown>>
    BY <1>7 DEF PollBegins, PendingAfter
  <2>2. LinkTypeOK'
    BY <1>1, <1>2, <2>1 DEF LinkTypeOK
  <2>3. LastAhead => LastAhead'
    BY <1>2, <2>1 DEF LastAhead
  <2>4. QED
    BY <1>3, <1>4, <2>1, <2>2, <2>3 DEF LinkInv, PollComes
<1>8. CASE PollReads
  <2>1. /\ polling' = FALSE /\ arrived' = Other
        /\ shown' = (IF arrived = Other THEN shown ELSE arrived)
        /\ UNCHANGED <<line, torn, waking, wakePending, queued>>
    BY <1>8 DEF PollReads
  <2>2. arrived' \in Message /\ shown' \in Version
    BY <1>1, <2>1 DEF LinkTypeOK, Message
  <2>3. LinkTypeOK'
    BY <1>1, <1>2, <2>1, <2>2 DEF LinkTypeOK
  <2>4. LastAhead => LastAhead'
    BY <1>2, <2>1 DEF LastAhead
  <2>5. QED
    BY <1>3, <1>4, <2>1, <2>3, <2>4 DEF LinkInv, PollComes
<1>9. QED
  BY <1>5, <1>6, <1>7, <1>8, <1>10 DEF Window

LEMMA LinkSafe == LinkSpec => []LinkInv
<1>1. LinkInv /\ UNCHANGED linkVars => LinkInv'
  BY DEF linkVars, backend, receiver, screen, LinkInv, LinkTypeOK,
         OnlySentSoFar, EventsEndWithSent, Subscribed, PollComes,
         NewestUnderWay, LastAhead
<1>2. LinkInv /\ [LinkNext]_linkVars => LinkInv'
  BY <1>1, BackendStep, ConnectionStep, WindowStep DEF LinkNext
<1>3. QED
  BY <1>2, LinkInitInv, PTL DEF LinkSpec

\* The types of server.rs' queues and the editor's, their bounds, and that a
\* poll is queued exactly while wake_pending is set.
THEOREM LinkTypes == LinkSpec => []LinkTypeOK
BY LinkSafe, PTL DEF LinkInv

\* "Subscribe before taking the snapshot so no change can slip in between"
\* (server.rs:140): when all is delivered the window shows the newest state,
\* for queues of any size, unless a request tore what the editor was reading.
THEOREM WindowCatchesUp == LinkSpec => []NewestShown
<1>1. LinkInv => NewestShown
  <2> SUFFICES ASSUME LinkInv, Delivered, sent = version
               PROVE  shown = version
    BY DEF NewestShown
  <2>1. NoState(events) /\ NoState(line)
    BY DEF Delivered, NoState
  <2>2. arrived = Other
    BY DEF Delivered, LinkInv, PollComes
  <2>3. LastAhead
    BY <2>1 DEF Delivered, LinkInv, NewestUnderWay
  <2>4. QED
    BY <2>1, <2>2, <2>3 DEF LastAhead, Delivered
<1>2. QED
  BY <1>1, LinkSafe, PTL

-----------------------------------------------------------------------------
(* The open macro, and recording into it *)

(***************************************************************************)
(* The types, part by part.  Undo and redo share their limit: a step moves *)
(* an entry from one to the other, and an edit forgets what was undone.    *)
(***************************************************************************)
ContentTypes ==
  /\ open \in Doc \union {NoDoc} /\ body \in Body
  /\ list \in [Doc -> Body] /\ file \in [Doc -> Body]
  /\ made \in [Doc -> 0..MaxBlocks]

HistoryTypes ==
  /\ undone \in Seq(Body) /\ redone \in Seq(Body)
  /\ Len(undone) + Len(redone) <= UNDO_LIMIT

RecorderTypes ==
  /\ phase \in {"Idle", "Countdown", "Active"}
  /\ gen \in 0..MaxGen /\ countdowns \subseteq 1..gen
  /\ recording \in BOOLEAN /\ captured \in BOOLEAN

HookTypes == hook \in {"idle", "saw"} /\ armed \in BOOLEAN

SignalTypes == signals \in Seq(Signal) /\ Len(signals) <= MaxSignals

Copy == [of : Doc \union {NoDoc}, body : Body]

BetweenTypes ==
  /\ saving \in Copy /\ reading \in Copy
  /\ deleting \in [of : Doc \union {NoDoc}, wasOpen : BOOLEAN]

DocumentTypesInv ==
  /\ ContentTypes /\ HistoryTypes /\ RecorderTypes
  /\ HookTypes /\ SignalTypes /\ BetweenTypes

LEMMA DocumentTypesImply == DocumentTypesInv => DocumentTypeOK
<1> SUFFICES ASSUME DocumentTypesInv PROVE DocumentTypeOK
  OBVIOUS
<1>1. Len(undone) <= UNDO_LIMIT /\ Len(redone) <= UNDO_LIMIT
  <2>1. Len(undone) \in Nat /\ Len(redone) \in Nat /\ UNDO_LIMIT \in Nat
    BY EditorDocumentAssumption DEF DocumentTypesInv, HistoryTypes
  <2>2. QED
    BY <2>1 DEF DocumentTypesInv, HistoryTypes
<1>2. /\ saving.of \in Doc \union {NoDoc} /\ saving.body \in Body
      /\ reading.of \in Doc \union {NoDoc} /\ reading.body \in Body
      /\ deleting.of \in Doc \union {NoDoc} /\ deleting.wasOpen \in BOOLEAN
  BY DEF DocumentTypesInv, BetweenTypes, Copy
<1>3. QED
  BY <1>1, <1>2
  DEF DocumentTypesInv, ContentTypes, HistoryTypes, RecorderTypes, HookTypes,
      SignalTypes, DocumentTypeOK

\* What the bodies and blocks of the model are.
LEMMA FirstBlockTypes ==
  ASSUME NEW d \in Doc
  PROVE  FirstBlock(d) \in Body
BY EditorDocumentAssumption DEF FirstBlock, Body, Block

LEMMA GoneTypes == Gone \in Body
BY DEF Gone, Body

LEMMA NoCopyTypes == NoCopyHeld \in Copy
BY GoneTypes DEF NoCopyHeld, Copy

LEMMA DocumentInitTypes == DocumentInit => DocumentTypesInv
<1> SUFFICES ASSUME DocumentInit PROVE DocumentTypesInv
  OBVIOUS
<1>1. ContentTypes
  <2>1. made \in [Doc -> 0..MaxBlocks]
    BY EditorDocumentAssumption DEF DocumentInit
  <2>2. file \in [Doc -> Body]
    BY FirstBlockTypes, GoneTypes DEF DocumentInit
  <2>3. QED
    BY <2>1, <2>2, GoneTypes DEF DocumentInit, ContentTypes
<1>2. HistoryTypes
  BY EditorDocumentAssumption DEF DocumentInit, HistoryTypes
<1>3. RecorderTypes /\ HookTypes
  <2>1. MaxGen \in Nat /\ gen = 0 /\ countdowns = {}
    BY EditorDocumentAssumption DEF DocumentInit
  <2>2. gen \in 0..MaxGen /\ countdowns \subseteq 1..gen
    BY <2>1
  <2>3. QED
    BY <2>2 DEF DocumentInit, RecorderTypes, HookTypes
<1>4. SignalTypes
  BY EditorDocumentAssumption DEF DocumentInit, SignalTypes
<1>5. BetweenTypes
  BY NoCopyTypes DEF DocumentInit, BetweenTypes, NotDeleting
<1>6. QED
  BY <1>1, <1>2, <1>3, <1>4, <1>5 DEF DocumentTypesInv

(***************************************************************************)
(* The steps commands are made of.                                         *)
(***************************************************************************)
LEMMA CheckpointTypes ==
  ASSUME ContentTypes, HistoryTypes, Checkpoint
  PROVE  HistoryTypes'
<1>1. /\ body \in Body /\ undone \in Seq(Body) /\ Len(undone) \in Nat
      /\ Len(redone) \in Nat /\ UNDO_LIMIT \in Nat \ {0}
      /\ Len(undone) + Len(redone) <= UNDO_LIMIT
  BY EditorDocumentAssumption DEF ContentTypes, HistoryTypes
<1>2. redone' = <<>> /\ redone' \in Seq(Body) /\ Len(redone') = 0
  BY DEF Checkpoint
<1>3. CASE Len(undone) < UNDO_LIMIT
  <2>1. undone' = Append(undone, body)
    BY <1>3 DEF Checkpoint
  <2>2. undone' \in Seq(Body) /\ Len(undone') = Len(undone) + 1
    BY <1>1, <2>1
  <2>3. QED
    BY <1>1, <1>2, <1>3, <2>2 DEF HistoryTypes
<1>4. CASE ~(Len(undone) < UNDO_LIMIT)
  <2>1. undone' = Append(Tail(undone), body)
    BY <1>4 DEF Checkpoint
  <2>2. Len(undone) = UNDO_LIMIT /\ undone # <<>>
    BY <1>1, <1>4
  <2>3. Tail(undone) \in Seq(Body) /\ Len(Tail(undone)) = Len(undone) - 1
    BY <1>1, <2>2
  <2>4. undone' \in Seq(Body) /\ Len(undone') = Len(undone)
    BY <1>1, <2>1, <2>3
  <2>5. QED
    BY <1>1, <1>2, <2>2, <2>4 DEF HistoryTypes
<1>5. QED
  BY <1>3, <1>4

LEMMA InsertTypes ==
  ASSUME ContentTypes, open \in Doc, Insert
  PROVE  body' \in Body /\ made' \in [Doc -> 0..MaxBlocks]
<1>1. made[open] \in 0..MaxBlocks /\ MaxBlocks \in Nat \ {0}
  BY EditorDocumentAssumption DEF ContentTypes
<1>2. PICK n \in 1..MaxBlocks : NewBlock = <<open, n>>
  BY <1>1 DEF NewBlock
<1>3. NewBlock \in Block /\ NewBlock[2] \in 1..MaxBlocks
  BY <1>2 DEF Block
<1>4. body' \in Body
  BY <1>3 DEF ContentTypes, Insert, Body
<1>5. made' \in [Doc -> 0..MaxBlocks]
  BY <1>3 DEF ContentTypes, Insert
<1>6. QED
  BY <1>4, <1>5

LEMMA AutoSaveTypes ==
  ASSUME ContentTypes, body' \in Body, AutoSave
  PROVE  file' \in [Doc -> Body] /\ list' \in [Doc -> Body]
BY DEF ContentTypes, AutoSave, SyncIntoList

LEMMA ButLastTypes ==
  ASSUME NEW S, NEW q \in Seq(S), Len(q) >= 1
  PROVE  /\ SubSeq(q, 1, Len(q) - 1) \in Seq(S)
         /\ Len(SubSeq(q, 1, Len(q) - 1)) = Len(q) - 1
<1> DEFINE n == Len(q) - 1
           p == SubSeq(q, 1, n)
<1>1. n \in Nat /\ \A i \in 1..n : q[i] \in S
  OBVIOUS
<1> HIDE DEF n
<1>2. p \in Seq(S) /\ Len(p) = IF 1 <= n THEN n - 1 + 1 ELSE 0
  BY <1>1, SubSeqProperties
<1> HIDE DEF p
<1>3. p \in Seq(S) /\ Len(p) = n
  BY <1>1, <1>2
<1>4. QED
  BY <1>3, Zenon DEF n, p

LEMMA HistoryStepTypes ==
  ASSUME ContentTypes, HistoryTypes, HistoryStep
  PROVE  ContentTypes' /\ HistoryTypes'
<1>1. /\ body \in Body /\ undone \in Seq(Body) /\ redone \in Seq(Body)
      /\ Len(undone) \in Nat /\ Len(redone) \in Nat /\ UNDO_LIMIT \in Nat
      /\ Len(undone) + Len(redone) <= UNDO_LIMIT
  BY EditorDocumentAssumption DEF ContentTypes, HistoryTypes
<1>2. body' \in Body /\ HistoryTypes'
  <2>1. CASE StepBack
    <3>1. /\ Len(undone) >= 1
          /\ body' = undone[Len(undone)]
          /\ undone' = SubSeq(undone, 1, Len(undone) - 1)
          /\ redone' = Append(redone, body)
      BY <1>1, <2>1 DEF StepBack
    <3>2. body' \in Body
      BY <1>1, <3>1
    <3>3. undone' \in Seq(Body) /\ Len(undone') = Len(undone) - 1
      BY <1>1, <3>1, ButLastTypes
    <3>4. redone' \in Seq(Body) /\ Len(redone') = Len(redone) + 1
      BY <1>1, <3>1
    <3>5. QED
      BY <1>1, <3>2, <3>3, <3>4 DEF HistoryTypes
  <2>2. CASE StepForward
    <3>1. /\ Len(redone) >= 1
          /\ body' = redone[Len(redone)]
          /\ redone' = SubSeq(redone, 1, Len(redone) - 1)
          /\ undone' = Append(undone, body)
      BY <1>1, <2>2 DEF StepForward
    <3>2. body' \in Body
      BY <1>1, <3>1
    <3>3. redone' \in Seq(Body) /\ Len(redone') = Len(redone) - 1
      BY <1>1, <3>1, ButLastTypes
    <3>4. undone' \in Seq(Body) /\ Len(undone') = Len(undone) + 1
      BY <1>1, <3>1
    <3>5. QED
      BY <1>1, <3>2, <3>3, <3>4 DEF HistoryTypes
  <2>3. QED
    BY <2>1, <2>2 DEF HistoryStep
<1>3. AutoSave /\ UNCHANGED <<open, made>>
  BY DEF HistoryStep
<1>4. file' \in [Doc -> Body] /\ list' \in [Doc -> Body]
  BY <1>2, <1>3, AutoSaveTypes
<1>5. QED
  BY <1>2, <1>3, <1>4 DEF ContentTypes

LEMMA EditTypes ==
  ASSUME ContentTypes, HistoryTypes, EditBlocks
  PROVE  ContentTypes' /\ HistoryTypes'
<1>1. open \in Doc /\ Checkpoint /\ Insert /\ AutoSave /\ open' = open
  BY DEF EditBlocks, ContentTypes
<1>2. HistoryTypes'
  BY <1>1, CheckpointTypes
<1>3. body' \in Body /\ made' \in [Doc -> 0..MaxBlocks]
  BY <1>1, InsertTypes
<1>4. file' \in [Doc -> Body] /\ list' \in [Doc -> Body]
  BY <1>1, <1>3, AutoSaveTypes
<1>5. QED
  BY <1>1, <1>2, <1>3, <1>4 DEF ContentTypes

LEMMA RefreshedTypes ==
  ASSUME ContentTypes, file' \in [Doc -> Body], NEW d \in Doc \union {NoDoc},
         Refresh(d)
  PROVE  /\ list' \in [Doc -> Body] /\ open' \in Doc \union {NoDoc}
         /\ body' \in Body
<1>1. body \in Body /\ list' = file' /\ open' = d
  BY DEF ContentTypes, Refresh
<1>2. body' \in Body
  <2>1. CASE d = NoDoc
    BY <2>1, GoneTypes DEF Refresh
  <2>2. CASE d # NoDoc
    <3>1. file'[d] \in Body
      BY <2>2
    <3>2. body' = IF file'[d] # Gone THEN file'[d] ELSE body
      BY <2>2 DEF Refresh
    <3>3. QED
      BY <1>1, <3>1, <3>2
  <2>3. QED
    BY <2>1, <2>2
<1>3. QED
  BY <1>1, <1>2

LEMMA RemoveTypes ==
  ASSUME ContentTypes, HistoryTypes, RemoveOpen
  PROVE  ContentTypes' /\ HistoryTypes'
<1>1. file' \in [Doc -> Body]
  BY GoneTypes DEF RemoveOpen, ContentTypes
<1>2. Refresh(NoDoc) /\ UNCHANGED <<made, history>>
  BY DEF RemoveOpen
<1>3. ContentTypes'
  BY <1>1, <1>2, RefreshedTypes DEF ContentTypes
<1>4. QED
  BY <1>2, <1>3 DEF history, HistoryTypes

LEMMA DeleteTypes ==
  ASSUME ContentTypes, HistoryTypes, BetweenTypes, DeleteLooked
  PROVE  ContentTypes' /\ HistoryTypes' /\ BetweenTypes'
<1>1. BetweenTypes'
  BY DEF BetweenTypes, DeleteLooked, NotDeleting
<1>2. CASE RemoveOpen
  BY <1>1, <1>2, RemoveTypes
<1>3. CASE /\ file' = [file EXCEPT ![deleting.of] = Gone]
           /\ Refresh(open)
           /\ UNCHANGED <<made, history>>
  <2>1. file' \in [Doc -> Body] /\ open \in Doc \union {NoDoc}
    BY <1>3, GoneTypes DEF ContentTypes
  <2>2. ContentTypes'
    BY <1>3, <2>1, RefreshedTypes DEF ContentTypes
  <2>3. QED
    BY <1>1, <1>3, <2>2 DEF history, HistoryTypes
<1>4. CASE UNCHANGED document
  BY <1>1, <1>4 DEF ContentTypes, HistoryTypes, document, history
<1>5. QED
  BY <1>2, <1>3, <1>4 DEF DeleteLooked

LEMMA LibraryTypes ==
  ASSUME ContentTypes, HistoryTypes, LibraryCommand
  PROVE  ContentTypes' /\ HistoryTypes'
<1>1. CASE EditBlocks
  BY <1>1, EditTypes
<1>2. CASE HistoryStep
  BY <1>2, HistoryStepTypes
<1>3. ASSUME NEW d \in Doc \union {NoDoc}, Select(d)
      PROVE  ContentTypes' /\ HistoryTypes'
  <2>1. open' \in Doc \union {NoDoc} /\ body' \in Body
    <3>1. CASE d # NoDoc /\ list[d] # Gone
      BY <1>3, <3>1 DEF Select, ContentTypes
    <3>2. CASE ~(d # NoDoc /\ list[d] # Gone)
      <4>1. open' = NoDoc /\ body' = Gone
        BY <1>3, <3>2 DEF Select
      <4>2. QED
        BY <4>1, GoneTypes
    <3>3. QED
      BY <3>1, <3>2
  <2>2. ContentTypes'
    BY <1>3, <2>1 DEF Select, ContentTypes
  <2>3. undone' = <<>> /\ redone' = <<>>
    BY <1>3 DEF Select
  <2>4. HistoryTypes'
    BY <2>3, EditorDocumentAssumption DEF HistoryTypes
  <2>5. QED
    BY <2>2, <2>4
<1>4. ASSUME NEW d \in Doc, NewMacro(d)
      PROVE  ContentTypes' /\ HistoryTypes'
  <2>1. file' \in [Doc -> Body]
    BY <1>4, FirstBlockTypes DEF NewMacro, ContentTypes
  <2>2. made' \in [Doc -> 0..MaxBlocks]
    BY <1>4, EditorDocumentAssumption DEF NewMacro, ContentTypes
  <2>3. Refresh(d) /\ UNCHANGED history
    BY <1>4 DEF NewMacro
  <2>4. ContentTypes'
    BY <2>1, <2>2, <2>3, RefreshedTypes DEF ContentTypes
  <2>5. QED
    BY <2>3, <2>4 DEF history, HistoryTypes
<1>5. CASE RemoveOpen
  BY <1>5, RemoveTypes
<1>6. ASSUME NEW d \in Doc, SaveAndRefresh(d)
      PROVE  ContentTypes' /\ HistoryTypes'
  <2>1. file' \in [Doc -> Body]
    BY <1>6 DEF SaveAndRefresh, ContentTypes
  <2>2. Refresh(open) /\ open \in Doc \union {NoDoc}
    BY <1>6 DEF SaveAndRefresh, ContentTypes
  <2>3. UNCHANGED <<made, history>>
    BY <1>6 DEF SaveAndRefresh
  <2>4. ContentTypes'
    BY <2>1, <2>2, <2>3, RefreshedTypes DEF ContentTypes
  <2>5. QED
    BY <2>3, <2>4 DEF history, HistoryTypes
<1>7. QED
  BY <1>1, <1>2, <1>3, <1>4, <1>5, <1>6 DEF LibraryCommand

(***************************************************************************)
(* Recording: a stop that is on its way stays on its way.                  *)
(***************************************************************************)
StopComes(q) == \E i \in 1..Len(q) : q[i] = "stop"

LEMMA StopIsSent ==
  ASSUME NEW q \in Seq(Signal), NEW x \in Signal, StopComes(q) \/ x = "stop"
  PROVE  StopComes(Append(q, x))
<1>1. /\ Len(q) \in Nat /\ Len(Append(q, x)) = Len(q) + 1
      /\ Append(q, x)[Len(q) + 1] = x
      /\ \A i \in 1..Len(q) : Append(q, x)[i] = q[i]
  OBVIOUS
<1>2. CASE x = "stop"
  <2>1. Len(q) + 1 \in 1..Len(Append(q, x))
    BY <1>1
  <2>2. QED
    BY <1>1, <1>2, <2>1 DEF StopComes
<1>3. CASE StopComes(q)
  <2>1. PICK i \in 1..Len(q) : q[i] = "stop"
    BY <1>3 DEF StopComes
  <2>2. i \in 1..Len(Append(q, x)) /\ Append(q, x)[i] = "stop"
    BY <1>1, <2>1
  <2>3. QED
    BY <2>2 DEF StopComes
<1>4. QED
  BY <1>2, <1>3

LEMMA StopStillComes ==
  ASSUME NEW q \in Seq(Signal), q # <<>>, StopComes(q), Head(q) # "stop"
  PROVE  StopComes(Tail(q))
<1>1. /\ Len(q) \in Nat \ {0} /\ Head(q) = q[1] /\ Len(Tail(q)) = Len(q) - 1
      /\ \A i \in 1..Len(q) - 1 : Tail(q)[i] = q[i + 1]
  OBVIOUS
<1>2. PICK i \in 1..Len(q) : q[i] = "stop"
  BY DEF StopComes
<1>3. i # 1
  BY <1>1, <1>2
<1>4. i - 1 \in 1..Len(q) - 1 /\ (i - 1) + 1 = i
  BY <1>1, <1>3
<1>5. Tail(q)[i - 1] = "stop"
  BY <1>1, <1>2, <1>4
<1>6. QED
  BY <1>1, <1>4, <1>5 DEF StopComes

(***************************************************************************)
(* The inductive invariant of the document and its recorder.               *)
(***************************************************************************)
DocumentInv == DocumentTypesInv /\ CountdownIsAlive /\ StopIsOnItsWay

\* What recording changes, and what it leaves alone.
RecorderInv ==
  RecorderTypes /\ SignalTypes /\ CountdownIsAlive /\ StopIsOnItsWay

LEMMA DocumentInitInv == DocumentInit => DocumentInv
<1>1. DocumentInit => CountdownIsAlive /\ StopIsOnItsWay
  BY DEF DocumentInit, CountdownIsAlive, StopIsOnItsWay
<1>2. QED
  BY <1>1, DocumentInitTypes DEF DocumentInv

\* A step that neither starts nor ends a countdown, nor touches the flag,
\* and takes no stop.
LEMMA SignalSent ==
  ASSUME RecorderInv, NEW x \in Signal, Send(x), UNCHANGED recorder
  PROVE  RecorderInv'
<1>1. signals \in Seq(Signal) /\ Len(signals) < MaxSignals /\ MaxSignals \in Nat
  BY EditorDocumentAssumption DEF RecorderInv, SignalTypes, Send
<1>2. signals' = Append(signals, x)
  BY DEF Send
<1>3. SignalTypes'
  BY <1>1, <1>2 DEF SignalTypes
<1>4. StopComes(signals) => StopComes(signals')
  BY <1>1, <1>2, StopIsSent
<1>5. QED
  BY <1>3, <1>4
  DEF RecorderInv, RecorderTypes, CountdownIsAlive, StopIsOnItsWay, StopComes,
      recorder

LEMMA SignalTaken ==
  ASSUME RecorderInv, NEW x \in Signal, Take(x)
  PROVE  /\ SignalTypes'
         /\ x # "stop" /\ StopComes(signals) => StopComes(signals')
<1>1. /\ signals \in Seq(Signal) /\ Len(signals) <= MaxSignals
      /\ MaxSignals \in Nat /\ signals # <<>> /\ Head(signals) = x
      /\ signals' = Tail(signals)
  BY EditorDocumentAssumption DEF RecorderInv, SignalTypes, Take
<1>2. signals' \in Seq(Signal) /\ Len(signals') <= MaxSignals
  BY <1>1
<1>3. x # "stop" /\ StopComes(signals) => StopComes(signals')
  BY <1>1, StopStillComes
<1>4. QED
  BY <1>2, <1>3 DEF SignalTypes

LEMMA RecorderKept ==
  ASSUME RecorderInv, UNCHANGED recorder, UNCHANGED signals
  PROVE  RecorderInv'
BY DEF RecorderInv, RecorderTypes, SignalTypes, CountdownIsAlive,
       StopIsOnItsWay, recorder

\* A new generation has no countdown yet.
LEMMA NewGenerationIsNew ==
  ASSUME RecorderTypes, gen < MaxGen
  PROVE  /\ gen + 1 \in 0..MaxGen /\ gen + 1 \notin countdowns
         /\ countdowns \subseteq 1..gen + 1
         /\ countdowns \union {gen + 1} \subseteq 1..gen + 1
<1>1. gen \in Nat /\ MaxGen \in Nat /\ countdowns \subseteq 1..gen
  BY EditorDocumentAssumption DEF RecorderTypes
<1>2. QED
  BY <1>1

LEMMA RecordingStops ==
  ASSUME RecorderTypes, StopRecording, UNCHANGED countdowns
  PROVE  RecorderTypes' /\ CountdownIsAlive' /\ StopIsOnItsWay'
<1>1. /\ gen < MaxGen /\ gen' = gen + 1
      /\ phase' = "Idle" /\ recording' = FALSE /\ captured' = FALSE
      /\ countdowns' = countdowns
  BY DEF StopRecording, NewGeneration
<1>2. QED
  BY <1>1, NewGenerationIsNew
  DEF RecorderTypes, CountdownIsAlive, StopIsOnItsWay

LEMMA StoppedDocument ==
  ASSUME ContentTypes, HistoryTypes, StopRecording
  PROVE  /\ HistoryTypes' /\ body' \in Body /\ made' \in [Doc -> 0..MaxBlocks]
<1>1. CASE captured /\ open # NoDoc
  <2>1. open \in Doc /\ Checkpoint /\ Insert
    BY <1>1 DEF StopRecording, ContentTypes
  <2>2. QED
    BY <2>1, CheckpointTypes, InsertTypes
<1>2. CASE ~(captured /\ open # NoDoc)
  <2>1. UNCHANGED <<history, body, made>>
    BY <1>2 DEF StopRecording
  <2>2. QED
    BY <2>1 DEF history, HistoryTypes, ContentTypes
<1>3. QED
  BY <1>1, <1>2

LEMMA NeighbourTypes ==
  ASSUME ContentTypes, HistoryTypes, BetweenTypes, OpenNeighbour
  PROVE  ContentTypes' /\ HistoryTypes' /\ BetweenTypes'
<1>1. open' \in Doc \union {NoDoc} /\ body' \in Body
  BY DEF OpenNeighbour, BetweenTypes, Copy
<1>2. BetweenTypes'
  BY NoCopyTypes DEF OpenNeighbour, BetweenTypes
<1>3. QED
  BY <1>1, <1>2 DEF OpenNeighbour, ContentTypes, HistoryTypes, history

LEMMA DocumentKept ==
  ASSUME ContentTypes, HistoryTypes, UNCHANGED document
  PROVE  ContentTypes' /\ HistoryTypes'
BY DEF ContentTypes, HistoryTypes, document, history

LEMMA ButtonsAndCountdowns ==
  ASSUME DocumentInv,
         \/ StartButton \/ StopButton
         \/ \E g \in countdowns : CountdownEnds(g)
  PROVE  DocumentInv'
<1>1. /\ ContentTypes /\ HistoryTypes /\ RecorderTypes /\ HookTypes
      /\ SignalTypes /\ BetweenTypes /\ CountdownIsAlive /\ StopIsOnItsWay
  BY DEF DocumentInv, DocumentTypesInv
<1>2. CASE StartButton
  <2>1. ContentTypes' /\ HistoryTypes'
    BY <1>1, <1>2, DocumentKept DEF StartButton
  <2>2. HookTypes' /\ SignalTypes' /\ BetweenTypes'
    BY <1>1, <1>2 DEF StartButton, HookTypes, SignalTypes, BetweenTypes, hookVars,
                          between
  <2>3. /\ phase = "Idle" /\ gen < MaxGen /\ gen' = gen + 1
        /\ captured' = captured /\ ~recording
    BY <1>1, <1>2 DEF StartButton, StopIsOnItsWay, RecorderTypes
  <2>4. CASE BeginRecording /\ UNCHANGED countdowns
    <3>1. RecorderTypes' /\ CountdownIsAlive' /\ StopIsOnItsWay'
      BY <1>1, <2>3, <2>4, NewGenerationIsNew
      DEF BeginRecording, RecorderTypes, CountdownIsAlive, StopIsOnItsWay
    <3>2. QED
      BY <2>1, <2>2, <3>1 DEF DocumentInv, DocumentTypesInv
  <2>5. CASE /\ phase' = "Countdown"
             /\ countdowns' = countdowns \union {gen + 1}
             /\ UNCHANGED recording
    <3>1. RecorderTypes' /\ CountdownIsAlive' /\ StopIsOnItsWay'
      BY <1>1, <2>3, <2>5, NewGenerationIsNew
      DEF RecorderTypes, CountdownIsAlive, StopIsOnItsWay
    <3>2. QED
      BY <2>1, <2>2, <3>1 DEF DocumentInv, DocumentTypesInv
  <2>6. QED
    BY <1>2, <2>4, <2>5 DEF StartButton
<1>3. CASE StopButton
  <2>1. StopRecording /\ UNCHANGED <<open, list, file, countdowns, hookVars,
                                     signals, between>>
    BY <1>3 DEF StopButton
  <2>2. HookTypes' /\ SignalTypes' /\ BetweenTypes'
    BY <1>1, <2>1 DEF HookTypes, SignalTypes, BetweenTypes, hookVars, between
  <2>3. ContentTypes' /\ HistoryTypes'
    <3>1. HistoryTypes' /\ body' \in Body /\ made' \in [Doc -> 0..MaxBlocks]
      BY <1>1, <2>1, StoppedDocument
    <3>2. QED
      BY <1>1, <2>1, <3>1 DEF ContentTypes
  <2>4. RecorderTypes' /\ CountdownIsAlive' /\ StopIsOnItsWay'
    BY <1>1, <2>1, RecordingStops
  <2>5. QED
    BY <2>2, <2>3, <2>4 DEF DocumentInv, DocumentTypesInv
<1>4. ASSUME NEW g \in countdowns, CountdownEnds(g)
      PROVE  DocumentInv'
  <2>1. ContentTypes' /\ HistoryTypes'
    BY <1>1, <1>4, DocumentKept DEF CountdownEnds
  <2>2. HookTypes' /\ SignalTypes' /\ BetweenTypes'
    BY <1>1, <1>4
    DEF CountdownEnds, HookTypes, SignalTypes, BetweenTypes, hookVars, between
  <2>3. gen' = gen /\ captured' = captured /\ countdowns' = countdowns \ {g}
    BY <1>4 DEF CountdownEnds
  <2>4. CASE gen # g
    <3>1. phase' = phase /\ recording' = recording /\ signals' = signals
      BY <1>4, <2>4 DEF CountdownEnds
    <3>2. RecorderTypes' /\ CountdownIsAlive' /\ StopIsOnItsWay'
      BY <1>1, <2>3, <2>4, <3>1
      DEF RecorderTypes, CountdownIsAlive, StopIsOnItsWay
    <3>3. QED
      BY <2>1, <2>2, <3>2 DEF DocumentInv, DocumentTypesInv
  <2>5. CASE gen = g
    <3>1. BeginRecording
      BY <1>4, <2>5 DEF CountdownEnds
    <3>2. RecorderTypes' /\ CountdownIsAlive' /\ StopIsOnItsWay'
      BY <1>1, <2>3, <2>5, <3>1
      DEF BeginRecording, RecorderTypes, CountdownIsAlive, StopIsOnItsWay
    <3>3. QED
      BY <2>1, <2>2, <3>2 DEF DocumentInv, DocumentTypesInv
  <2>6. QED
    BY <2>4, <2>5
<1>5. QED
  BY <1>2, <1>3, <1>4

LEMMA HookSteps ==
  ASSUME DocumentInv,
         \/ HookSees \/ HookRecords \/ HookStops
         \/ HookHotkey \/ HookReleases
  PROVE  DocumentInv'
<1>1. /\ ContentTypes /\ HistoryTypes /\ HookTypes /\ BetweenTypes
      /\ RecorderInv
  BY DEF DocumentInv, DocumentTypesInv, RecorderInv
<1>2. UNCHANGED document /\ UNCHANGED between
  BY DEF HookSees, HookRecords, HookStops, HookHotkey, HookReleases
<1>3. ContentTypes' /\ HistoryTypes' /\ BetweenTypes'
  BY <1>1, <1>2, DocumentKept DEF BetweenTypes, between
<1>4. HookTypes'
  BY <1>1
  DEF HookTypes, HookSees, HookRecords, HookStops, HookHotkey, HookReleases,
      hookVars
<1>5. RecorderInv'
  <2>1. CASE HookSees
    BY <1>1, <2>1, RecorderKept DEF HookSees
  <2>2. CASE HookRecords
    BY <1>1, <2>2
    DEF HookRecords, RecorderInv, RecorderTypes, SignalTypes,
        CountdownIsAlive, StopIsOnItsWay
  <2>3. CASE HookStops
    <3>1. /\ signals \in Seq(Signal) /\ Len(signals) < MaxSignals
          /\ MaxSignals \in Nat /\ "stop" \in Signal
          /\ signals' = Append(signals, "stop")
      BY <1>1, <2>3, EditorDocumentAssumption
      DEF HookStops, StopSignal, Send, RecorderInv, SignalTypes, Signal
    <3>2. SignalTypes'
      BY <3>1 DEF SignalTypes
    <3>3. StopComes(signals')
      BY <3>1, StopIsSent
    <3>4. recording' = FALSE /\ UNCHANGED <<phase, gen, countdowns, captured>>
      BY <2>3 DEF HookStops
    <3>5. RecorderTypes' /\ CountdownIsAlive'
      BY <1>1, <3>4 DEF RecorderInv, RecorderTypes, CountdownIsAlive
    <3>6. StopIsOnItsWay'
      BY <3>3, <3>4 DEF StopIsOnItsWay, StopComes
    <3>7. QED
      BY <3>2, <3>5, <3>6 DEF RecorderInv
  <2>4. CASE HookHotkey
    <3>1. UNCHANGED recorder
      BY <2>4 DEF HookHotkey
    <3>2. UNCHANGED signals \/ Send("next") \/ Send("undo")
      BY <2>4 DEF HookHotkey
    <3>3. QED
      BY <1>1, <3>1, <3>2, RecorderKept, SignalSent DEF Signal
  <2>5. CASE HookReleases
    BY <1>1, <2>5, SignalSent DEF HookReleases, Signal
  <2>6. QED
    BY <2>1, <2>2, <2>3, <2>4, <2>5
<1>6. QED
  BY <1>1, <1>3, <1>4, <1>5 DEF DocumentInv, DocumentTypesInv, RecorderInv

LEMMA TaskSteps ==
  ASSUME DocumentInv, TakeStart \/ TakeStop \/ TakeNext \/ TakeUndo
  PROVE  DocumentInv'
<1>1. /\ ContentTypes /\ HistoryTypes /\ HookTypes /\ BetweenTypes
      /\ RecorderInv /\ RecorderTypes /\ CountdownIsAlive /\ StopIsOnItsWay
  BY DEF DocumentInv, DocumentTypesInv, RecorderInv
<1>2. HookTypes'
  BY <1>1
  DEF HookTypes, TakeStart, TakeStop, TakeNext, TakeUndo, Take, hookVars
<1>3. CASE TakeStart
  <2>1. ContentTypes' /\ HistoryTypes' /\ BetweenTypes'
    BY <1>1, <1>3, DocumentKept DEF TakeStart, BetweenTypes, between
  <2>2. SignalTypes' /\ (StopComes(signals) => StopComes(signals'))
    BY <1>1, <1>3, SignalTaken DEF TakeStart, Signal
  <2>3. countdowns' = countdowns /\ captured' = captured
    BY <1>3 DEF TakeStart
  <2>4. CASE open # NoDoc
    <3>1. gen < MaxGen /\ gen' = gen + 1 /\ BeginRecording
      BY <1>3, <2>4 DEF TakeStart
    <3>2. RecorderTypes' /\ CountdownIsAlive' /\ StopIsOnItsWay'
      BY <1>1, <2>3, <3>1, NewGenerationIsNew
      DEF BeginRecording, RecorderTypes, CountdownIsAlive, StopIsOnItsWay
    <3>3. QED
      BY <1>2, <2>1, <2>2, <3>2 DEF DocumentInv, DocumentTypesInv
  <2>5. CASE open = NoDoc
    <3>1. UNCHANGED <<gen, phase, recording>>
      BY <1>3, <2>5 DEF TakeStart
    <3>2. RecorderTypes' /\ CountdownIsAlive'
      BY <1>1, <2>3, <3>1 DEF RecorderTypes, CountdownIsAlive
    <3>3. StopIsOnItsWay'
      BY <1>1, <2>2, <3>1 DEF StopIsOnItsWay, StopComes
    <3>4. QED
      BY <1>2, <2>1, <2>2, <3>2, <3>3 DEF DocumentInv, DocumentTypesInv
  <2>6. QED
    BY <2>4, <2>5
<1>4. CASE TakeStop
  <2>1. /\ StopRecording
        /\ UNCHANGED <<open, file, countdowns, reading, deleting>>
        /\ IF open # NoDoc THEN SyncIntoList ELSE UNCHANGED list
        /\ saving' = IF captured /\ open # NoDoc
                     THEN [of |-> open, body |-> body'] ELSE NoCopyHeld
    BY <1>4 DEF TakeStop
  <2>2. HistoryTypes' /\ body' \in Body /\ made' \in [Doc -> 0..MaxBlocks]
    BY <1>1, <2>1, StoppedDocument
  <2>3. list' \in [Doc -> Body]
    BY <1>1, <2>1, <2>2 DEF SyncIntoList, ContentTypes
  <2>4. ContentTypes'
    BY <1>1, <2>1, <2>2, <2>3 DEF ContentTypes
  <2>5. BetweenTypes'
    BY <1>1, <2>1, <2>2, NoCopyTypes DEF BetweenTypes, Copy, ContentTypes
  <2>6. SignalTypes'
    BY <1>1, <1>4, SignalTaken DEF TakeStop, Signal
  <2>7. RecorderTypes' /\ CountdownIsAlive' /\ StopIsOnItsWay'
    BY <1>1, <2>1, RecordingStops
  <2>8. QED
    BY <1>2, <2>2, <2>4, <2>5, <2>6, <2>7 DEF DocumentInv, DocumentTypesInv
<1>5. CASE TakeNext \/ TakeUndo
  <2>1. ContentTypes' /\ HistoryTypes'
    <3>1. CASE TakeNext
      BY <1>1, <3>1, DocumentKept DEF TakeNext
    <3>2. CASE TakeUndo
      BY <1>1, <3>2, HistoryStepTypes, DocumentKept DEF TakeUndo
    <3>3. QED
      BY <1>5, <3>1, <3>2
  <2>2. SignalTypes' /\ (StopComes(signals) => StopComes(signals'))
    BY <1>1, <1>5, SignalTaken DEF TakeNext, TakeUndo, Signal
  <2>3. UNCHANGED recorder
    BY <1>5 DEF TakeNext, TakeUndo
  <2>7. BetweenTypes'
    <3>1. CASE TakeNext
      <4>1. ASSUME NEW d \in Doc
            PROVE  [of |-> d, body |-> file[d]] \in Copy
        BY <1>1 DEF ContentTypes, Copy
      <4>2. reading' \in Copy /\ UNCHANGED <<saving, deleting>>
        BY <1>1, <3>1, <4>1 DEF TakeNext, BetweenTypes
      <4>3. QED
        BY <1>1, <4>2 DEF BetweenTypes
    <3>2. CASE TakeUndo
      BY <1>1, <3>2 DEF TakeUndo, BetweenTypes, between
    <3>3. QED
      BY <1>5, <3>1, <3>2
  <2>4. RecorderTypes' /\ CountdownIsAlive' /\ BetweenTypes'
    BY <1>1, <2>3, <2>7 DEF RecorderTypes, CountdownIsAlive, recorder
  <2>5. StopIsOnItsWay'
    BY <1>1, <2>2, <2>3 DEF StopIsOnItsWay, StopComes, recorder
  <2>6. QED
    BY <1>2, <2>1, <2>2, <2>4, <2>5 DEF DocumentInv, DocumentTypesInv
<1>6. QED
  BY <1>3, <1>4, <1>5

LEMMA DocumentStep == DocumentInv /\ [DocumentNext]_documentVars => DocumentInv'
<1> SUFFICES ASSUME DocumentInv, [DocumentNext]_documentVars PROVE DocumentInv'
  OBVIOUS
<1>1. /\ ContentTypes /\ HistoryTypes /\ HookTypes /\ BetweenTypes
      /\ RecorderInv
  BY DEF DocumentInv, DocumentTypesInv, RecorderInv
<1>2. CASE LibraryCommand
  <2>1. ContentTypes' /\ HistoryTypes'
    BY <1>1, <1>2, LibraryTypes
  <2>2. UNCHANGED <<recorder, hookVars, signals, between>>
    BY <1>2 DEF LibraryCommand
  <2>3. RecorderInv'
    BY <1>1, <2>2, RecorderKept
  <2>4. HookTypes' /\ BetweenTypes'
    BY <1>1, <2>2 DEF HookTypes, BetweenTypes, hookVars, between
  <2>5. QED
    BY <2>1, <2>3, <2>4 DEF DocumentInv, DocumentTypesInv, RecorderInv
<1>3. CASE SaveRecorded
  <2>1. file' \in [Doc -> Body] /\ BetweenTypes'
    BY <1>1, <1>3, NoCopyTypes
    DEF SaveRecorded, BetweenTypes, Copy, ContentTypes
  <2>2. UNCHANGED <<open, body, list, made, history, recorder, hookVars, signals>>
    BY <1>3 DEF SaveRecorded
  <2>3. ContentTypes' /\ HistoryTypes' /\ HookTypes'
    BY <1>1, <2>1, <2>2 DEF ContentTypes, HistoryTypes, HookTypes, history, hookVars
  <2>4. RecorderInv'
    BY <1>1, <2>2, RecorderKept
  <2>5. QED
    BY <2>1, <2>3, <2>4 DEF DocumentInv, DocumentTypesInv, RecorderInv
<1>4. CASE UNCHANGED documentVars
  <2>1. /\ UNCHANGED document /\ UNCHANGED recorder /\ UNCHANGED hookVars
        /\ UNCHANGED signals /\ UNCHANGED between
    BY <1>4 DEF documentVars
  <2>2. ContentTypes' /\ HistoryTypes' /\ RecorderInv'
    BY <1>1, <2>1, DocumentKept, RecorderKept
  <2>3. HookTypes' /\ BetweenTypes'
    BY <1>1, <2>1 DEF HookTypes, BetweenTypes, hookVars, between
  <2>4. QED
    BY <2>2, <2>3 DEF DocumentInv, DocumentTypesInv, RecorderInv
<1>5. CASE \/ OpenNeighbour \/ DeleteLooked
           \/ \E d \in Doc : LookBeforeDelete(d)
  <2>1. ContentTypes' /\ HistoryTypes' /\ BetweenTypes'
    <3>1. ASSUME NEW d \in Doc, LookBeforeDelete(d)
          PROVE  ContentTypes' /\ HistoryTypes' /\ BetweenTypes'
      BY <1>1, <3>1, DocumentKept DEF LookBeforeDelete, BetweenTypes
    <3>2. QED
      BY <1>1, <1>5, <3>1, NeighbourTypes, DeleteTypes
  <2>2. UNCHANGED <<recorder, hookVars, signals>>
    BY <1>5 DEF OpenNeighbour, DeleteLooked, LookBeforeDelete
  <2>3. RecorderInv' /\ HookTypes'
    BY <1>1, <2>2, RecorderKept DEF HookTypes, hookVars
  <2>4. QED
    BY <2>1, <2>3 DEF DocumentInv, DocumentTypesInv, RecorderInv
<1>6. QED
  BY <1>2, <1>3, <1>4, <1>5, ButtonsAndCountdowns, HookSteps, TaskSteps
  DEF DocumentNext, RecordingStep

LEMMA DocumentSafe == DocumentSpec => []DocumentInv
<1>1. DocumentInit => DocumentInv
  BY DocumentInitInv
<1>2. DocumentInv /\ [DocumentNext]_documentVars => DocumentInv'
  BY DocumentStep
<1>3. QED
  BY <1>1, <1>2, PTL DEF DocumentSpec

(***************************************************************************)
(* Undo and redo never hold more than their limit together, and all that   *)
(* the editor keeps of a macro is of its type, whatever is edited,         *)
(* recorded, undone or opened.                                             *)
(***************************************************************************)
THEOREM DocumentTypes == DocumentSpec => []DocumentTypeOK
<1>1. DocumentInv => DocumentTypeOK
  BY DocumentTypesImply DEF DocumentInv
<1>2. QED
  BY <1>1, DocumentSafe, PTL

(***************************************************************************)
(* The editor shows a countdown exactly while a thread is there that ends  *)
(* it (running.rs:226), for any number of starts, stops and hotkeys and of *)
(* older threads that have not woken yet.                                  *)
(***************************************************************************)
THEOREM CountdownsEnd == DocumentSpec => []CountdownIsAlive
<1>1. DocumentInv => CountdownIsAlive
  BY DEF DocumentInv
<1>2. QED
  BY <1>1, DocumentSafe, PTL

(***************************************************************************)
(* The hook captures only for a recording the app knows of, and when the   *)
(* stop key has ended one for the hook, the signal that ends it for the    *)
(* app is still to come, behind however many other signals.                *)
(***************************************************************************)
THEOREM StopsArrive == DocumentSpec => []StopIsOnItsWay
<1>1. DocumentInv => StopIsOnItsWay
  BY DEF DocumentInv
<1>2. QED
  BY <1>1, DocumentSafe, PTL

=============================================================================
