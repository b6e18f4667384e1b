----------------------------- MODULE ClockProofs ----------------------------
(***************************************************************************)
(* Proofs about the two clocks: the one a host drives, for any number of   *)
(* strands and any bound on the virtual time, and the watcher of           *)
(* schedules, for any number of scheduled strands and any bounds on the    *)
(* time and on a catch-up.                                                 *)
(***************************************************************************)
EXTENDS HostClock, TimeWatch, FiniteSetTheorems, TLAPS

(* The clock a host drives *)

\* The strands whose thread is not over.
Live == {s \in HostStrand : place[s] \notin {"unborn", "ended"}}

ParkedWait == sleeping = {s \in HostStrand : place[s] = "parked"}

(***************************************************************************)
(* What each place of the run's thread means.                              *)
(***************************************************************************)
RunPhase ==
  /\ enabled <=> thread # "off"
  /\ thread # "attached" => Live = {}
  /\ thread = "attached" => ~starting
  /\ thread = "begun" => starting /\ inputs = {} /\ \A s \in HostStrand : time[s] = 0

FreshCount ==
  thread = "begun" => alive = 0 /\ (~late => before = -1)

(***************************************************************************)
(* `alive` counts every strand that is not over, and no other unless a     *)
(* thread failed to start.  Signals are not attached: none of this holds   *)
(* of a run that sent one.                                                 *)
(***************************************************************************)
CountCovers ==
  thread = "attached" /\ ~signalled =>
    /\ Cardinality(Live) <= alive
    /\ ~unspawned => Cardinality(Live) = alive

(***************************************************************************)
(* A strand that is not parked is at a time the step before did not reach  *)
(* and this one has; one that is parked waits for a time after the step    *)
(* before.                                                                 *)
(***************************************************************************)
OnTime == ~late /\ ~signalled /\ ~halted

InOrder ==
  OnTime =>
    /\ \A t \in inputs : before < t /\ t <= now
    /\ \A s \in Live : before < time[s] /\ (place[s] # "parked" => time[s] <= now)

ClockInv ==
  /\ ClockTypeOK /\ ParkedWait /\ RunPhase /\ FreshCount
  /\ CountCovers /\ InOrder

LEMMA LiveFinite ==
  ASSUME NEW S \in SUBSET HostStrand
  PROVE  /\ IsFiniteSet(S) /\ Cardinality(S) \in Nat
         /\ Cardinality(S) <= Cardinality(HostStrand)
         /\ Cardinality(HostStrand) \in Nat
BY HostClockAssumption, FS_Subset, FS_CardinalityType

LEMMA ClockInitInv == ClockInit => ClockInv
<1> SUFFICES ASSUME ClockInit PROVE ClockInv
  OBVIOUS
<1>. USE DEF ClockInit
<1>1. 0 \in Time /\ -1 \in Time \union {-1} /\ 0 \in 0..Cardinality(HostStrand)
  BY HostClockAssumption, LiveFinite DEF Time
<1>2. ClockTypeOK
  <2>1. time \in [HostStrand -> Time] /\ place \in [HostStrand -> HostPlace]
        /\ started \in [HostStrand -> SUBSET HostStrand]
    BY <1>1 DEF HostPlace
  <2>2. QED
    BY <1>1, <2>1, Zenon DEF ClockTypeOK
<1>3. Live = {}
  BY DEF Live
<1>4. QED
  BY <1>2, <1>3
  DEF ClockInv, ParkedWait, RunPhase, FreshCount, CountCovers, InOrder

(***************************************************************************)
(* A strand goes on without ending or sending a signal.                    *)
(***************************************************************************)
LEMMA StrandGoesOn ==
  ASSUME ClockInv, NEW s \in Live, NEW to \in HostPlace \ {"unborn", "ended"},
         place' = [place EXCEPT ![s] = to],
         sleeping' = IF to = "parked" THEN sleeping \union {s} ELSE sleeping \ {s},
         time' \in [HostStrand -> Time],
         \A t \in HostStrand \ {s} : time'[t] = time[t],
         started' \in [HostStrand -> SUBSET HostStrand],
         UNCHANGED <<enabled, now, starting, alive, inputs, thread, halted, host,
                     before, late, signalled, unspawned>>,
         OnTime => before < time'[s] /\ (to # "parked" => time'[s] <= now)
  PROVE  ClockInv'
<1>1. /\ ClockTypeOK /\ ParkedWait /\ RunPhase /\ FreshCount
      /\ CountCovers /\ InOrder
  BY DEF ClockInv
<1>2. s \in HostStrand /\ place[s] \notin {"unborn", "ended"}
  BY DEF Live
<1>3. /\ place' \in [HostStrand -> HostPlace] /\ place'[s] = to
      /\ \A t \in HostStrand \ {s} : place'[t] = place[t]
  BY <1>1, <1>2 DEF ClockTypeOK
<1>4. ClockTypeOK'
  <2>1. sleeping' \subseteq HostStrand
    BY <1>1, <1>2 DEF ClockTypeOK
  <2>2. QED
    BY <1>1, <1>3, <2>1 DEF ClockTypeOK
<1>5. Live' = Live
  BY <1>2, <1>3 DEF Live
<1>6. ParkedWait'
  BY <1>1, <1>2, <1>3 DEF ParkedWait
<1>7. thread = "attached"
  BY <1>1 DEF RunPhase
<1>8. RunPhase' /\ FreshCount'
  BY <1>1, <1>7 DEF RunPhase, FreshCount
<1>9. CountCovers'
  BY <1>1, <1>5 DEF CountCovers
<1>10. InOrder'
  <2>1. ASSUME OnTime, NEW t \in Live
        PROVE  before < time'[t] /\ (place'[t] # "parked" => time'[t] <= now)
    <3>1. CASE t = s
      BY <1>3, <2>1, <3>1
    <3>2. CASE t # s
      <4>1. t \in HostStrand \ {s}
        BY <3>2 DEF Live
      <4>2. time'[t] = time[t] /\ place'[t] = place[t]
        BY <1>3, <4>1
      <4>3. QED
        BY <1>1, <2>1, <4>2 DEF InOrder
    <3>3. QED
      BY <3>1, <3>2
  <2>2. OnTime' = OnTime
    BY DEF OnTime
  <2>3. OnTime => \A t \in inputs : before < t /\ t <= now
    BY <1>1 DEF InOrder
  <2>4. QED
    BY <1>5, <2>1, <2>2, <2>3 DEF InOrder
<1>11. QED
  BY <1>4, <1>6, <1>8, <1>9, <1>10 DEF ClockInv

(***************************************************************************)
(* A strand ends: by its end, with the count, or because its thread never  *)
(* started, without it.                                                    *)
(***************************************************************************)
LEMMA StrandEnds ==
  ASSUME ClockInv, NEW s \in HostStrand, Detach(s) \/ ThreadFails(s)
  PROVE  ClockInv'
<1>1. /\ ClockTypeOK /\ ParkedWait /\ RunPhase /\ FreshCount
      /\ CountCovers /\ InOrder
  BY DEF ClockInv
<1>2. /\ place[s] \in {"leaving", "forked"}
      /\ place' = [place EXCEPT ![s] = "ended"]
      /\ UNCHANGED <<enabled, now, starting, sleeping, inputs, time, started,
                     thread, halted, host, before, late, signalled>>
  BY DEF Detach, ThreadFails, GoesTo, clockState, clockHistory
<1>3. /\ place' \in [HostStrand -> HostPlace] /\ place'[s] = "ended"
      /\ \A t \in HostStrand \ {s} : place'[t] = place[t]
  BY <1>1, <1>2 DEF ClockTypeOK, HostPlace
<1>4. s \in Live /\ Live' = Live \ {s} /\ Live \subseteq HostStrand
  BY <1>2, <1>3 DEF Live
<1>5. alive \in Nat /\ alive <= Cardinality(HostStrand)
      /\ Cardinality(HostStrand) \in Nat
  BY <1>1, LiveFinite DEF ClockTypeOK
<1>6. Cardinality(Live) \in Nat /\ Cardinality(Live') = Cardinality(Live) - 1
  BY <1>4, LiveFinite, FS_RemoveElement
<1>7. ClockTypeOK' /\ CountCovers'
  <2>1. CASE Detach(s)
    <3>1. alive' = (IF alive = 0 THEN 0 ELSE alive - 1)
      BY <2>1 DEF Detach, Fewer
    <3>2. unspawned' = unspawned
      BY <2>1 DEF Detach, clockHistory
    <3>3. alive' \in 0..Cardinality(HostStrand)
      BY <1>5, <3>1
    <3>4. ClockTypeOK'
      BY <1>1, <1>2, <1>3, <3>2, <3>3 DEF ClockTypeOK
    <3>5. Cardinality(Live) <= alive => Cardinality(Live') <= alive'
      BY <1>5, <1>6, <3>1
    <3>6. Cardinality(Live) = alive => Cardinality(Live') = alive'
      BY <1>4, <1>5, <1>6, <3>1, LiveFinite
    <3>7. QED
      BY <1>1, <1>2, <3>2, <3>4, <3>5, <3>6 DEF CountCovers
  <2>2. CASE ThreadFails(s)
    <3>1. alive' = alive /\ unspawned' = TRUE
      BY <2>2 DEF ThreadFails, clockState
    <3>2. ClockTypeOK'
      BY <1>1, <1>2, <1>3, <3>1 DEF ClockTypeOK
    <3>3. Cardinality(Live) <= alive => Cardinality(Live') <= alive'
      BY <1>5, <1>6, <3>1
    <3>4. QED
      BY <1>1, <1>2, <3>1, <3>2, <3>3 DEF CountCovers
  <2>3. QED
    BY <2>1, <2>2
<1>8. ParkedWait'
  BY <1>1, <1>2, <1>3 DEF ParkedWait
<1>9. thread = "attached"
  BY <1>1, <1>4 DEF RunPhase
<1>10. RunPhase' /\ FreshCount'
  BY <1>1, <1>2, <1>9 DEF RunPhase, FreshCount
<1>11. InOrder'
  BY <1>1, <1>2, <1>3, <1>4 DEF InOrder, OnTime
<1>12. QED
  BY <1>7, <1>8, <1>10, <1>11 DEF ClockInv

LEMMA ClockStrandStep ==
  ASSUME ClockInv, NEW s \in HostStrand, ClockStrand(s)
  PROVE  ClockInv'
<1>1. /\ ClockTypeOK /\ ParkedWait /\ RunPhase /\ FreshCount
      /\ CountCovers /\ InOrder
  BY DEF ClockInv
<1>2. /\ time \in [HostStrand -> Time] /\ now \in Time /\ Time \subseteq Int
      /\ started \in [HostStrand -> SUBSET HostStrand]
      /\ before \in Int
  BY <1>1 DEF ClockTypeOK, Time
<1>3. ASSUME place[s] \notin {"unborn", "ended"}
      PROVE  /\ s \in Live /\ thread = "attached" /\ enabled
             /\ s \in sleeping <=> place[s] = "parked"
             /\ OnTime => before < time[s]
             /\ OnTime /\ place[s] # "parked" => time[s] <= now
  <2>1. s \in Live
    BY <1>3 DEF Live
  <2>2. QED
    BY <1>1, <2>1 DEF RunPhase, ParkedWait, InOrder
<1>. USE DEF GoesTo, clockState, strandState, clockHistory
<1>4. CASE ThreadStarts(s) \/ Leave(s) \/ SignalJoined(s)
  <2>1. PICK to \in {"running", "leaving"} :
          /\ place[s] \in {"forked", "running", "sending"}
          /\ place' = [place EXCEPT ![s] = to]
          /\ started' \in {started, [started EXCEPT ![s] = {}]}
          /\ UNCHANGED <<enabled, now, starting, alive, inputs, sleeping, time,
                         thread, halted, host, before, late, signalled, unspawned>>
    BY <1>4 DEF ThreadStarts, Leave, SignalJoined
  <2>2. started' \in [HostStrand -> SUBSET HostStrand]
    BY <1>2, <2>1
  <2>3. sleeping' = sleeping \ {s} /\ to \in HostPlace \ {"unborn", "ended"}
    BY <1>3, <2>1 DEF HostPlace
  <2>4. QED
    BY <1>2, <1>3, <2>1, <2>2, <2>3, StrandGoesOn
<1>5. CASE ThreadFails(s) \/ Detach(s)
  BY <1>5, StrandEnds
<1>6. CASE Emit(s)
  <2>1. /\ place[s] \in {"running", "leaving"}
        /\ inputs' = inputs \union {time[s]}
        /\ UNCHANGED <<enabled, now, starting, alive, sleeping, time, place,
                       started, thread, halted, host, before, late, signalled,
                       unspawned>>
    BY <1>6 DEF Emit
  <2>2. ClockTypeOK'
    BY <1>1, <1>2, <2>1 DEF ClockTypeOK
  <2>3. Live' = Live
    BY <2>1 DEF Live
  <2>4. ParkedWait' /\ RunPhase' /\ FreshCount'
    BY <1>1, <1>3, <2>1, <2>3 DEF ParkedWait, RunPhase, FreshCount
  <2>5. CountCovers'
    BY <1>1, <2>1, <2>3 DEF CountCovers
  <2>6. InOrder'
    BY <1>1, <1>3, <2>1, <2>3 DEF InOrder, OnTime
  <2>7. QED
    BY <2>2, <2>4, <2>5, <2>6 DEF ClockInv
<1>7. ASSUME NEW target \in Time, WaitUntil(s, target)
      PROVE  ClockInv'
  <2>1. /\ place[s] = "running" /\ target >= time[s]
        /\ time' = [time EXCEPT ![s] = target]
        /\ UNCHANGED <<enabled, now, starting, alive, inputs, started, thread,
                       halted, host, before, late, signalled, unspawned>>
    BY <1>7 DEF WaitUntil
  <2>2. /\ time' \in [HostStrand -> Time] /\ time'[s] = target
        /\ \A t \in HostStrand \ {s} : time'[t] = time[t]
    BY <1>2, <2>1
  <2>3. OnTime => before < time'[s]
    <3>1. before \in Int /\ time[s] \in Int /\ target \in Int
      BY <1>2
    <3>2. before < time[s] /\ target >= time[s] => before < target
      BY <3>1
    <3>3. QED
      BY <1>3, <2>1, <2>2, <3>2
  <2>4. CASE now >= target
    <3>1. PICK to \in {"running", "leaving"} :
            place' = [place EXCEPT ![s] = to] /\ sleeping' = sleeping
      BY <1>7, <2>4 DEF WaitUntil, Due
    <3>2. sleeping' = sleeping \ {s} /\ to \in HostPlace \ {"unborn", "ended"}
      BY <1>3, <2>1, <3>1 DEF HostPlace
    <3>3. time'[s] <= now
      BY <1>2, <2>2, <2>4
    <3>4. QED
      BY <1>2, <1>3, <2>1, <2>2, <2>3, <3>1, <3>2, <3>3, StrandGoesOn
  <2>5. CASE ~(now >= target)
    <3>1. place' = [place EXCEPT ![s] = "parked"] /\ sleeping' = sleeping \union {s}
      BY <1>7, <2>5 DEF WaitUntil, Due
    <3>2. "parked" \in HostPlace \ {"unborn", "ended"}
      BY DEF HostPlace
    <3>3. QED
      BY <1>2, <1>3, <2>1, <2>2, <2>3, <3>1, <3>2, StrandGoesOn
  <2>6. QED
    BY <2>4, <2>5
<1>8. CASE WakeUp(s)
  <2>1. /\ place[s] = "parked" /\ sleeping' = sleeping \ {s}
        /\ halted \/ now >= time[s] \/ ~enabled
        /\ UNCHANGED <<enabled, now, starting, alive, inputs, time, started,
                       thread, halted, host, before, late, signalled, unspawned>>
    BY <1>8 DEF WakeUp
  <2>2. PICK to \in {"running", "leaving"} : place' = [place EXCEPT ![s] = to]
    BY <1>8 DEF WakeUp
  <2>3. OnTime => now >= time[s]
    BY <1>3, <2>1 DEF OnTime
  <2>4. now >= time[s] => time[s] <= now
    BY <1>2
  <2>5. to \in HostPlace \ {"unborn", "ended"} /\ to # "parked"
    BY DEF HostPlace
  <2>6. QED
    BY <1>2, <1>3, <2>1, <2>2, <2>3, <2>4, <2>5, StrandGoesOn
<1>9. ASSUME NEW c \in HostStrand, NEW wait \in BOOLEAN, SendSignal(s, c, wait)
      PROVE  ClockInv'
  <2>1. /\ place[s] = "running" /\ place[c] = "unborn"
        /\ started' = [started EXCEPT ![s] = @ \union {c}]
        /\ signalled' = TRUE
        /\ UNCHANGED <<enabled, now, starting, alive, sleeping, inputs, time,
                       thread, halted, host, before, late, unspawned>>
    BY <1>9 DEF SendSignal
  <2>2. PICK to \in {"running", "sending"} :
          place' = [place EXCEPT ![s] = to, ![c] = "forked"]
    BY <1>9 DEF SendSignal
  <2>3. /\ place' \in [HostStrand -> HostPlace]
        /\ place'[s] # "parked" /\ place'[c] # "parked"
        /\ \A t \in HostStrand \ {s, c} : place'[t] = place[t]
    BY <1>1, <2>1, <2>2 DEF ClockTypeOK, HostPlace
  <2>4. started' \in [HostStrand -> SUBSET HostStrand]
    BY <1>2, <2>1
  <2>5. ClockTypeOK'
    BY <1>1, <2>1, <2>3, <2>4 DEF ClockTypeOK
  <2>6. ParkedWait'
    BY <1>1, <2>1, <2>3 DEF ParkedWait
  <2>7. RunPhase' /\ FreshCount'
    BY <1>1, <1>3, <2>1 DEF RunPhase, FreshCount
  <2>8. CountCovers' /\ InOrder'
    BY <2>1 DEF CountCovers, InOrder, OnTime
  <2>9. QED
    BY <2>5, <2>6, <2>7, <2>8 DEF ClockInv
<1>10. QED
  BY <1>4, <1>5, <1>6, <1>7, <1>8, <1>9 DEF ClockStrand

(***************************************************************************)
(* The run's thread.                                                       *)
(***************************************************************************)
LEMMA RunThreadStep ==
  ASSUME ClockInv, RunThread
  PROVE  ClockInv'
<1>1. /\ ClockTypeOK /\ ParkedWait /\ RunPhase /\ FreshCount
      /\ CountCovers /\ InOrder
  BY DEF ClockInv
<1>. USE DEF clockState, strandState, clockHistory
<1>2. ASSUME AttachRun({})
      PROVE  ClockInv'
  <2>1. thread = "begun" /\ thread' = "returned"
        /\ UNCHANGED <<enabled, now, starting, alive, sleeping, inputs, time,
                       place, started, halted, host, before, late, signalled,
                       unspawned>>
    BY <1>2 DEF AttachRun
  <2>2. Live' = Live
    BY <2>1 DEF Live
  <2>3. ClockTypeOK'
    BY <1>1, <2>1 DEF ClockTypeOK
  <2>4. QED
    BY <1>1, <2>1, <2>2, <2>3
    DEF ClockInv, ParkedWait, RunPhase, FreshCount, CountCovers, InOrder, OnTime
<1>3. ASSUME NEW entries \in SUBSET HostStrand, entries # {}, AttachRun(entries)
      PROVE  ClockInv'
  <2>1. /\ thread = "begun" /\ thread' = "attached" /\ starting' = FALSE
        /\ alive' = alive + Cardinality(entries)
        /\ place' = [s \in HostStrand |->
                       IF s \in entries THEN "forked" ELSE "unborn"]
        /\ UNCHANGED <<enabled, now, sleeping, inputs, time, started, halted,
                       host, before, late, signalled, unspawned>>
    BY <1>3 DEF AttachRun
  <2>2. /\ alive = 0 /\ inputs = {} /\ Live = {} /\ enabled
        /\ \A s \in HostStrand : time[s] = 0
        /\ ~late => before = -1
    BY <1>1, <2>1 DEF RunPhase, FreshCount
  <2>3. alive' = Cardinality(entries) /\ alive' \in 0..Cardinality(HostStrand)
        /\ Cardinality(entries) \in Nat
    BY <2>1, <2>2, LiveFinite
  <2>4. Live' = entries
    BY <2>1 DEF Live
  <2>5. ClockTypeOK'
    <3>1. place' \in [HostStrand -> HostPlace]
      BY <2>1 DEF HostPlace
    <3>2. QED
      BY <1>1, <2>1, <2>3, <3>1 DEF ClockTypeOK
  <2>6. ParkedWait'
    <3>1. sleeping = {}
      BY <1>1, <2>2 DEF ParkedWait, Live
    <3>2. QED
      BY <2>1, <3>1 DEF ParkedWait
  <2>7. RunPhase' /\ FreshCount'
    BY <2>1, <2>2 DEF RunPhase, FreshCount
  <2>8. CountCovers'
    BY <2>3, <2>4 DEF CountCovers
  <2>9. InOrder'
    <3>1. now \in Nat
      BY <1>1, HostClockAssumption DEF ClockTypeOK, Time
    <3>2. ~late => \A s \in HostStrand : before < time[s] /\ time[s] <= now
      BY <2>2, <3>1
    <3>3. QED
      BY <2>1, <2>2, <2>4, <3>2 DEF InOrder, OnTime
  <2>10. QED
    BY <2>5, <2>6, <2>7, <2>8, <2>9 DEF ClockInv
<1>4. CASE RunEnds
  <2>1. /\ thread = "attached" /\ thread' = "returned"
        /\ \A s \in HostStrand : place[s] \in {"unborn", "ended"}
        /\ UNCHANGED <<enabled, now, starting, alive, sleeping, inputs, time,
                       place, started, halted, host, before, late, signalled,
                       unspawned>>
    BY <1>4 DEF RunEnds
  <2>2. Live' = {} /\ Live = {}
    BY <2>1 DEF Live
  <2>3. ClockTypeOK'
    BY <1>1, <2>1 DEF ClockTypeOK
  <2>4. QED
    BY <1>1, <2>1, <2>2, <2>3
    DEF ClockInv, ParkedWait, RunPhase, FreshCount, CountCovers, InOrder, OnTime
<1>5. CASE Finish
  <2>1. /\ thread = "returned" /\ thread' = "off"
        /\ enabled' = FALSE /\ starting' = FALSE /\ alive' = 0 /\ sleeping' = {}
        /\ UNCHANGED <<now, inputs, time, place, started, halted, host, before,
                       late, signalled, unspawned>>
    BY <1>5 DEF Finish
  <2>2. Live = {} /\ Live' = {}
    BY <1>1, <2>1 DEF RunPhase, Live
  <2>3. 0 \in 0..Cardinality(HostStrand)
    BY LiveFinite
  <2>4. ClockTypeOK'
    BY <1>1, <2>1, <2>3 DEF ClockTypeOK
  <2>5. ParkedWait'
    BY <2>1, <2>2 DEF ParkedWait, Live
  <2>6. RunPhase' /\ FreshCount' /\ CountCovers'
    BY <2>1, <2>2 DEF RunPhase, FreshCount, CountCovers
  <2>7. InOrder'
    BY <1>1, <2>1, <2>2 DEF InOrder, OnTime
  <2>8. QED
    BY <2>4, <2>5, <2>6, <2>7 DEF ClockInv
<1>6. QED
  BY <1>2, <1>3, <1>4, <1>5 DEF RunThread

(***************************************************************************)
(* A run has settled only when every strand is parked on a later time.     *)
(***************************************************************************)
LEMMA SettledIsQuiet ==
  ASSUME ClockInv, thread = "attached", ~signalled
  PROVE  /\ Settled => Quiet
         /\ Quiet /\ ~unspawned => Settled
<1>1. /\ ClockTypeOK /\ ParkedWait /\ RunPhase /\ CountCovers
  BY DEF ClockInv
<1>2. /\ sleeping \subseteq Live /\ IsFiniteSet(Live)
      /\ Cardinality(Live) \in Nat /\ Cardinality(sleeping) \in Nat
      /\ Cardinality(sleeping) <= Cardinality(Live)
      /\ Cardinality(Live) = Cardinality(sleeping) => Live = sleeping
  <2>1. Live \in SUBSET HostStrand /\ sleeping \in SUBSET Live
    BY <1>1 DEF Live, ParkedWait
  <2>2. QED
    BY <2>1, LiveFinite, FS_Subset
<1>3. /\ alive \in Int /\ Cardinality(Live) <= alive
      /\ ~unspawned => Cardinality(Live) = alive
  BY <1>1 DEF CountCovers, ClockTypeOK
<1>4. ASSUME Settled
      PROVE  Quiet
  <2>1. Cardinality(sleeping) >= alive
    BY <1>4 DEF Settled
  <2>2. Live = sleeping
    BY <1>2, <1>3, <2>1
  <2>3. QED
    BY <1>1, <1>4, <2>2 DEF Settled, Quiet, Live, ParkedWait
<1>5. ASSUME Quiet, ~unspawned
      PROVE  Settled
  <2>1. Live = sleeping
    BY <1>1, <1>5 DEF Quiet, Live, ParkedWait
  <2>2. Cardinality(sleeping) >= alive
    BY <1>2, <1>3, <1>5, <2>1
  <2>3. ~starting /\ \A s \in sleeping : time[s] > now
    BY <1>1, <1>5 DEF RunPhase, ParkedWait, Quiet
  <2>4. QED
    BY <2>2, <2>3 DEF Settled
<1>6. QED
  BY <1>4, <1>5

(***************************************************************************)
(* The host.                                                               *)
(***************************************************************************)
LEMMA HostStep ==
  ASSUME ClockInv, HostProgram
  PROVE  ClockInv'
<1>1. /\ ClockTypeOK /\ ParkedWait /\ RunPhase /\ FreshCount
      /\ CountCovers /\ InOrder
  BY DEF ClockInv
<1>. USE DEF clockState, strandState, clockHistory
<1>2. ASSUME NEW spawned \in BOOLEAN, SyncBegin(spawned)
      PROVE  ClockInv'
  <2>1. /\ enabled' = spawned /\ starting' = spawned
        /\ now' = 0 /\ alive' = 0 /\ sleeping' = {} /\ inputs' = {}
        /\ time' = [s \in HostStrand |-> 0]
        /\ place' = [s \in HostStrand |-> "unborn"]
        /\ started' = [s \in HostStrand |-> {}]
        /\ thread' = (IF spawned THEN "begun" ELSE "off")
        /\ halted' = FALSE /\ before' = -1
        /\ late' = FALSE /\ signalled' = FALSE /\ unspawned' = FALSE
        /\ host' = host
    BY <1>2 DEF SyncBegin
  <2>2. Live' = {}
    BY <2>1 DEF Live
  <2>3. 0 \in 0..Cardinality(HostStrand) /\ 0 \in Time
    BY LiveFinite, HostClockAssumption DEF Time
  <2>4. ClockTypeOK'
    <3>1. /\ time' \in [HostStrand -> Time] /\ place' \in [HostStrand -> HostPlace]
          /\ started' \in [HostStrand -> SUBSET HostStrand]
      BY <2>1, <2>3 DEF HostPlace
    <3>2. now' \in Time /\ alive' \in 0..Cardinality(HostStrand)
          /\ before' \in Time \union {-1} /\ inputs' \subseteq Time
          /\ sleeping' \subseteq HostStrand
      BY <2>1, <2>3
    <3>3. thread' \in {"off", "begun", "attached", "returned"}
      BY <2>1
    <3>4. QED
      BY <1>1, <2>1, <3>1, <3>2, <3>3, Zenon DEF ClockTypeOK
  <2>5. ParkedWait' /\ InOrder'
    BY <2>1, <2>2 DEF ParkedWait, InOrder
  <2>6. RunPhase' /\ FreshCount' /\ CountCovers'
    BY <2>1, <2>2 DEF RunPhase, FreshCount, CountCovers
  <2>7. QED
    BY <2>4, <2>5, <2>6 DEF ClockInv
<1>3. ASSUME NEW t \in Time, StepBegins(t)
      PROVE  ClockInv'
  <2>1. /\ t >= now /\ now' = t /\ host' = "stepping"
        /\ UNCHANGED <<enabled, starting, alive, sleeping, inputs, time, place,
                       started, thread, halted, before, late, signalled, unspawned>>
    BY <1>3 DEF StepBegins
  <2>2. Live' = Live
    BY <2>1 DEF Live
  <2>3. ClockTypeOK'
    BY <1>1, <2>1 DEF ClockTypeOK
  <2>4. ParkedWait' /\ RunPhase' /\ FreshCount' /\ CountCovers'
    BY <1>1, <2>1, <2>2 DEF ParkedWait, RunPhase, FreshCount, CountCovers
  <2>5. InOrder'
    <3>1. now \in Int /\ t \in Int /\ inputs \subseteq Int
          /\ time \in [HostStrand -> Int] /\ Live \subseteq HostStrand
      BY <1>1 DEF ClockTypeOK, Time, Live
    <3>2. \A u \in Int : u <= now => u <= now'
      BY <2>1, <3>1
    <3>3. OnTime' = OnTime
      BY <2>1 DEF OnTime
    <3>4. QED
      BY <1>1, <2>1, <2>2, <3>1, <3>2, <3>3 DEF InOrder
  <2>6. QED
    BY <2>3, <2>4, <2>5 DEF ClockInv
<1>4. CASE StepSettles \/ StepGivesUp
  <2>1. /\ inputs' = {} /\ host' = "idle" /\ before' = now
        /\ UNCHANGED <<enabled, now, starting, alive, sleeping, time, place,
                       started, thread, halted, signalled, unspawned>>
        /\ late' \in {late, TRUE}
        /\ ~late' => ~late /\ Settled
    <3>1. CASE StepSettles
      BY <3>1 DEF StepSettles, Handed
    <3>2. CASE StepGivesUp
      BY <3>2 DEF StepGivesUp, Handed
    <3>3. QED
      BY <1>4, <3>1, <3>2
  <2>2. Live' = Live
    BY <2>1 DEF Live
  <2>3. ClockTypeOK'
    BY <1>1, <2>1 DEF ClockTypeOK
  <2>4. ParkedWait' /\ RunPhase' /\ CountCovers'
    BY <1>1, <2>1, <2>2 DEF ParkedWait, RunPhase, CountCovers
  <2>5. FreshCount'
    BY <1>1, <2>1 DEF FreshCount, RunPhase, Settled
  <2>6. InOrder'
    <3>1. CASE Live = {} \/ ~OnTime'
      BY <2>1, <2>2, <3>1 DEF InOrder
    <3>2. CASE Live # {} /\ OnTime'
      <4>1. thread = "attached" /\ ~signalled /\ Settled
        BY <1>1, <2>1, <3>2 DEF RunPhase, OnTime
      <4>2. \A s \in Live : place[s] = "parked" /\ time[s] > now
        BY <4>1, SettledIsQuiet DEF Quiet, Live
      <4>3. \A s \in Live : now < time[s]
        BY <1>1, <4>2 DEF ClockTypeOK, Time, Live
      <4>4. QED
        BY <2>1, <2>2, <4>2, <4>3 DEF InOrder
    <3>3. QED
      BY <3>1, <3>2
  <2>7. QED
    BY <2>3, <2>4, <2>5, <2>6 DEF ClockInv
<1>5. CASE HaltRun
  <2>1. /\ halted' = TRUE
        /\ UNCHANGED <<enabled, now, starting, alive, sleeping, inputs, time,
                       place, started, thread, host, before, late, signalled,
                       unspawned>>
    BY <1>5 DEF HaltRun
  <2>2. Live' = Live
    BY <2>1 DEF Live
  <2>3. ClockTypeOK'
    BY <1>1, <2>1 DEF ClockTypeOK
  <2>4. QED
    BY <1>1, <2>1, <2>2, <2>3
    DEF ClockInv, ParkedWait, RunPhase, FreshCount, CountCovers, InOrder, OnTime
<1>6. QED
  BY <1>2, <1>3, <1>4, <1>5 DEF HostProgram

LEMMA ClockSafe == ClockSpec => []ClockInv
<1>1. ClockInv /\ UNCHANGED clockVars => ClockInv'
  BY DEF clockVars, clockState, strandState, clockHistory, ClockInv,
         ClockTypeOK, ParkedWait, RunPhase, FreshCount, CountCovers, InOrder,
         OnTime, Live
<1>2. ClockInv /\ [ClockNext]_clockVars => ClockInv'
  BY <1>1, RunThreadStep, HostStep, ClockStrandStep DEF ClockNext
<1>3. QED
  BY <1>2, ClockInitInv, PTL DEF ClockSpec

\* The types of host_clock.rs' State and of the strands at it; in particular
\* `alive` never passes the number of strands.
THEOREM ClockTypes == ClockSpec => []ClockTypeOK
BY ClockSafe, PTL DEF ClockInv

\* "waits for the run to settle (every strand parked on a future deadline, or
\* finished)" (host_clock.rs:129), for any number of strands: the test of step
\* is exactly that, of runs without signals.
THEOREM StepsWait == ClockSpec => []StepWaitsForStrands
<1>1. ClockInv => StepWaitsForStrands
  BY SettledIsQuiet DEF StepWaitsForStrands
<1>2. QED
  BY <1>1, ClockSafe, PTL

\* "Clicks at 33.3, 66.6 and 100ms land on the first step at or past each"
\* (host_clock.rs:244), for any number of strands and any times: a step hands
\* out what was emitted after the step before it, and nothing of a later time.
THEOREM PlaybackIsExact == ClockSpec => []ExactPlayback
<1>1. ClockInv => ExactPlayback
  BY DEF ClockInv, InOrder, OnTime, ExactPlayback
<1>2. QED
  BY <1>1, ClockSafe, PTL

-----------------------------------------------------------------------------
(* The watcher of schedules *)

LEMMA MinuteFacts ==
  \A t \in Nat : /\ MinuteOf(t) \in Nat
                 /\ 2 * MinuteOf(t) <= t /\ t <= 2 * MinuteOf(t) + 1
  BY DEF MinuteOf

LEMMA MinuteMonotone ==
  \A t, u \in Nat : t <= u => MinuteOf(t) <= MinuteOf(u)
  BY MinuteFacts

\* What a strand is fired for lies behind the tick.
LEMMA FiresTypes ==
  ASSUME TimeWatchTypeOK, NEW s \in Timed
  PROVE  \A t \in Fires(s) : t \in HalfMinute /\ t <= clock
<1>1. /\ clock \in Nat /\ EndOfTime \in Nat /\ clock <= EndOfTime
      /\ header[s] \in Header
  BY TimeWatchAssumption DEF TimeWatchTypeOK, HalfMinute
<1>2. header[s].kind = "at" => header[s].when \in HalfMinute
  BY <1>1 DEF Header
<1>3. \A t \in DueTimes(s) : t \in HalfMinute /\ t <= clock
  <2>1. CASE header[s].kind = "at"
    BY <1>2, <2>1 DEF DueTimes
  <2>2. CASE header[s].kind # "at"
    <3>1. 2 * MinuteOf(clock) \in HalfMinute /\ 2 * MinuteOf(clock) <= clock
      <4>1. MinuteOf(clock) \in Nat /\ 2 * MinuteOf(clock) <= clock
        BY <1>1, MinuteFacts
      <4>2. QED
        BY <1>1, <4>1 DEF HalfMinute
    <3>2. QED
      BY <2>2, <3>1 DEF DueTimes
  <2>3. QED
    BY <2>1, <2>2
<1>4. \A from : \A t \in Missed(s, from) : t \in HalfMinute /\ t <= CatchUpTo
  <2>1. TAKE from
  <2>2. CASE header[s].kind = "at"
    BY <1>2, <2>2 DEF Missed
  <2>3. CASE header[s].kind # "at"
    <3>1. \A n \in Minutes : 2 * n <= CatchUpTo => 2 * n \in HalfMinute
      BY <1>1, MinuteFacts DEF Minutes, HalfMinute, CatchUpTo
    <3>2. \A t \in Missed(s, from) : \E n \in Minutes : t = 2 * n /\ 2 * n <= CatchUpTo
      BY <2>3 DEF Missed
    <3>3. QED
      BY <3>1, <3>2
  <2>4. QED
    BY <2>2, <2>3
<1>5. \A t \in MissedTimes(s) : t \in HalfMinute /\ t <= CatchUpTo
  BY <1>4 DEF MissedTimes
<1>6. \A t \in HalfMinute : t <= CatchUpTo => t <= clock
  BY <1>1 DEF CatchUpTo, HalfMinute
<1>7. QED
  BY <1>3, <1>5, <1>6 DEF Fires

LEMMA WatchTypesInit == WatchInit => TimeWatchTypeOK
  BY TimeWatchAssumption
     DEF WatchInit, TimeWatchTypeOK, HalfMinute, Never, Nothing

LEMMA WatchTypesStep == TimeWatchTypeOK /\ [WatchNext]_watchVars => TimeWatchTypeOK'
<1> SUFFICES ASSUME TimeWatchTypeOK, [WatchNext]_watchVars PROVE TimeWatchTypeOK'
  OBVIOUS
<1>. USE TimeWatchAssumption
<1>1. CASE UNCHANGED watchVars
  BY <1>1 DEF watchVars, schedules, TimeWatchTypeOK
<1>2. CASE Tick
  <2>1. MinuteOf(clock) \in Minutes
    BY MinuteFacts, MinuteMonotone DEF TimeWatchTypeOK, HalfMinute, Minutes
  <2>2. /\ UNCHANGED <<clock, watching, header, catchUp, live>>
        /\ previousTick' = clock
        /\ lastSeen' \in {clock, lastSeen}
    BY <1>2 DEF Tick, schedules
  <2>3. ticks' \in 0..(SaveEvery - 1)
    BY <1>2 DEF Tick, TimeWatchTypeOK
  <2>4. lastFired' \in [Timed -> Minutes \union {Never}]
    BY <1>2, <2>1 DEF Tick, TimeWatchTypeOK
  <2>5. \A s \in Timed : Fires(s) \in SUBSET HalfMinute
    BY FiresTypes
  <2>6. served' \in [Timed -> SUBSET HalfMinute]
    BY <1>2 DEF Tick, TimeWatchTypeOK
  <2>7. servedNow' \in [Timed -> SUBSET HalfMinute]
    BY <1>2, <2>5 DEF Tick
  <2>8. seenFrom' \in [Timed -> HalfMinute]
    BY <1>2 DEF Tick, TimeWatchTypeOK
  <2>9. previousTick' \in HalfMinute /\ previousTick' <= clock'
    BY <2>2 DEF TimeWatchTypeOK, HalfMinute
  <2>10. QED
    BY <2>2, <2>3, <2>4, <2>6, <2>7, <2>8, <2>9 DEF TimeWatchTypeOK
<1>3. CASE TimePasses
  BY <1>3 DEF TimePasses, schedules, TimeWatchTypeOK, HalfMinute
<1>4. CASE Close
  BY <1>4 DEF Close, schedules, TimeWatchTypeOK
<1>5. CASE Open
  <2>1. /\ previousTick' \in HalfMinute /\ previousTick' <= clock
        /\ ticks' = 0 /\ UNCHANGED <<clock, header, catchUp, live, lastSeen>>
        /\ lastFired' = [s \in Timed |-> Never] /\ watching' = TRUE
        /\ served' = Nothing /\ servedNow' = Nothing
    BY <1>5 DEF Open, Resume, schedules, TimeWatchTypeOK, HalfMinute
  <2>2. seenFrom' \in [Timed -> HalfMinute]
    BY <1>5 DEF Open, TimeWatchTypeOK
  <2>3. 0 \in 0..(SaveEvery - 1)
    OBVIOUS
  <2>4. Nothing \in [Timed -> SUBSET HalfMinute]
    BY DEF Nothing
  <2>5. QED
    BY <2>1, <2>2, <2>3, <2>4 DEF TimeWatchTypeOK
<1>6. ASSUME NEW s \in Timed, Listen(s) PROVE TimeWatchTypeOK'
  BY <1>6 DEF Listen, schedules, TimeWatchTypeOK
<1>7. QED
  BY <1>1, <1>2, <1>3, <1>4, <1>5, <1>6 DEF WatchNext

\* The watcher's variables have their types, and its last tick lies behind.
THEOREM WatchTypes == WatchSpec => []TimeWatchTypeOK
BY WatchTypesInit, WatchTypesStep, PTL DEF WatchSpec

-----------------------------------------------------------------------------
(* What was answered                                                        *)

Answered(s) == served[s] \union servedNow[s]

\* What was fired for lies behind the last tick, the last firing was no later
\* than it, and the minute of the last tick, if fired for, is remembered.
AnsweredInv ==
  \A s \in Timed :
    /\ \A t \in Answered(s) : t <= previousTick
    /\ lastFired[s] # Never => lastFired[s] <= MinuteOf(previousTick)
    /\ header[s].kind # "at" /\ 2 * MinuteOf(previousTick) \in Answered(s)
         => lastFired[s] = MinuteOf(previousTick)

LEMMA WatchNumbers ==
  ASSUME TimeWatchTypeOK
  PROVE  /\ clock \in Nat /\ previousTick \in Nat /\ previousTick <= clock
         /\ clock <= EndOfTime /\ EndOfTime \in Nat /\ MaxCatchUp \in Nat
         /\ MinuteOf(clock) \in Nat /\ MinuteOf(previousTick) \in Nat
         /\ 2 * MinuteOf(clock) <= clock /\ clock <= 2 * MinuteOf(clock) + 1
         /\ 2 * MinuteOf(previousTick) <= previousTick
         /\ previousTick <= 2 * MinuteOf(previousTick) + 1
         /\ Minutes \subseteq Nat /\ HalfMinute \subseteq Nat
         /\ MinuteOf(clock) \in Minutes
         /\ \A s \in Timed : /\ Answered(s) \subseteq HalfMinute
                             /\ lastFired[s] \in Nat /\ seenFrom[s] \in Nat
<1>1. /\ clock \in Nat /\ previousTick \in Nat /\ previousTick <= clock
      /\ clock <= EndOfTime /\ EndOfTime \in Nat /\ MaxCatchUp \in Nat
      /\ HalfMinute \subseteq Nat
  BY TimeWatchAssumption DEF TimeWatchTypeOK, HalfMinute
<1>2. /\ MinuteOf(clock) \in Nat /\ MinuteOf(previousTick) \in Nat
      /\ 2 * MinuteOf(clock) <= clock /\ clock <= 2 * MinuteOf(clock) + 1
      /\ 2 * MinuteOf(previousTick) <= previousTick
      /\ previousTick <= 2 * MinuteOf(previousTick) + 1
  BY <1>1, MinuteFacts
<1>3. MinuteOf(clock) \in Minutes /\ Minutes \subseteq Nat
  <2>1. MinuteOf(EndOfTime) \in Nat /\ MinuteOf(clock) <= MinuteOf(EndOfTime)
    BY <1>1, MinuteFacts, MinuteMonotone
  <2>2. QED
    BY <1>2, <2>1 DEF Minutes
<1>4. ASSUME NEW s \in Timed
      PROVE  /\ Answered(s) \subseteq HalfMinute
             /\ lastFired[s] \in Nat /\ seenFrom[s] \in Nat
  <2>1. Answered(s) \subseteq HalfMinute
    BY DEF TimeWatchTypeOK, Answered
  <2>2. lastFired[s] \in Minutes \union {Never} /\ Never \in Nat
    BY <1>1 DEF TimeWatchTypeOK, Never
  <2>3. seenFrom[s] \in HalfMinute
    BY DEF TimeWatchTypeOK
  <2>4. QED
    BY <1>1, <1>3, <2>1, <2>2, <2>3
<1>5. QED
  BY <1>1, <1>2, <1>3, <1>4

\* What a tick fires a strand for: its own minute or moment, or times behind the
\* tick before.
LEMMA FiresAfter ==
  ASSUME TimeWatchTypeOK, NEW s \in Timed, NEW t \in Fires(s)
  PROVE  \/ previousTick < t
         \/ /\ header[s].kind # "at" /\ t = 2 * MinuteOf(clock)
            /\ ~Remembers(s)
<1>1. CASE t \in DueTimes(s)
  BY <1>1 DEF DueTimes
<1>2. ASSUME t \in Missed(s, previousTick) PROVE previousTick < t
  <2> DEFINE back == IF CatchUpTo > MaxCatchUp THEN CatchUpTo - MaxCatchUp ELSE 0
             start == IF previousTick > back THEN previousTick ELSE back
  <2>1. start \in Nat /\ previousTick <= start
    BY WatchNumbers DEF CatchUpTo
  <2>2. CASE header[s].kind = "at"
    <3>1. t \in {u \in {header[s].when} : start < u /\ u <= CatchUpTo}
      BY <1>2, <2>2 DEF Missed
    <3>2. t \in HalfMinute
      BY FiresTypes
    <3>3. QED
      BY <2>1, <3>1, <3>2, WatchNumbers
  <2>3. CASE header[s].kind # "at"
    <3>1. t \in {2 * m : m \in {n \in Minutes : /\ MinuteOf(start) < n
                                                /\ 2 * n <= CatchUpTo
                                                /\ Matches(s, n)}}
      BY <1>2, <2>3 DEF Missed
    <3>2. PICK n \in Minutes : t = 2 * n /\ MinuteOf(start) < n
      BY <3>1
    <3>3. n \in Nat /\ start <= 2 * MinuteOf(start) + 1 /\ MinuteOf(start) \in Nat
      BY <2>1, WatchNumbers, MinuteFacts
    <3>4. start < 2 * n
      <4>. HIDE DEF start
      <4>1. QED
        BY <2>1, <3>2, <3>3
    <3>5. QED
      <4>. HIDE DEF start
      <4>1. QED
        BY <2>1, <3>2, <3>3, <3>4, WatchNumbers
  <2>4. QED
    BY <2>2, <2>3
<1>3. QED
  BY <1>1, <1>2 DEF Fires, MissedTimes

\* A tick fires a strand for nothing that was answered before.
LEMMA FiresNew ==
  ASSUME TimeWatchTypeOK, AnsweredInv, NEW s \in Timed
  PROVE  Fires(s) \intersect Answered(s) = {}
<1> SUFFICES ASSUME NEW t \in Fires(s), t \in Answered(s) PROVE FALSE
  OBVIOUS
<1>1. t <= previousTick /\ t \in Nat
  BY WatchNumbers DEF AnsweredInv
<1>2. header[s].kind # "at" /\ t = 2 * MinuteOf(clock) /\ ~Remembers(s)
  BY <1>1, FiresAfter, WatchNumbers
<1>3. MinuteOf(clock) = MinuteOf(previousTick)
  BY <1>1, <1>2, WatchNumbers, MinuteMonotone
<1>4. lastFired[s] = MinuteOf(clock)
  BY <1>2, <1>3 DEF AnsweredInv
<1>5. lastFired[s] # Never
  BY <1>4, WatchNumbers DEF Never
<1>6. QED
  BY <1>2, <1>4, <1>5 DEF Remembers

LEMMA AnsweredInit == WatchInit => AnsweredInv
  BY DEF WatchInit, AnsweredInv, Answered, Nothing

\* Steps at which the watcher does not look.
LEMMA WatchPauses ==
  ASSUME TimePasses \/ Close \/ \E s \in Timed : Listen(s)
  PROVE  UNCHANGED <<header, catchUp, previousTick, lastFired, served, servedNow,
                     seenFrom>>
  BY DEF TimePasses, Close, Listen, schedules

LEMMA AnsweredStep ==
  TimeWatchTypeOK /\ AnsweredInv /\ [WatchNext]_watchVars => AnsweredInv'
<1> SUFFICES ASSUME TimeWatchTypeOK, AnsweredInv, [WatchNext]_watchVars
             PROVE  AnsweredInv'
  OBVIOUS
<1>1. CASE UNCHANGED watchVars
  BY <1>1 DEF watchVars, schedules, AnsweredInv, Answered
<1>2. CASE Tick
  <2>1. SUFFICES ASSUME NEW s \in Timed
        PROVE  /\ \A t \in Answered(s)' : t <= clock
               /\ lastFired'[s] # Never => lastFired'[s] <= MinuteOf(clock)
               /\ header[s].kind # "at" /\ 2 * MinuteOf(clock) \in Answered(s)'
                    => lastFired'[s] = MinuteOf(clock)
    BY <1>2 DEF Tick, schedules, AnsweredInv
  <2>2. CASE s \notin live
    BY <1>2, <2>2 DEF Tick, Answered
  <2>3. CASE s \in live
    <3>1. /\ Answered(s)' = Answered(s) \union Fires(s)
          /\ lastFired'[s] = IF Fires(s) # {} THEN MinuteOf(clock) ELSE lastFired[s]
      BY <1>2, <2>3 DEF Tick, Answered
    <3>2. \A t \in Answered(s) \union Fires(s) : t <= clock
      BY FiresTypes, WatchNumbers DEF AnsweredInv
    <3>3. MinuteOf(previousTick) <= MinuteOf(clock)
      BY WatchNumbers, MinuteMonotone
    <3>4. lastFired'[s] # Never => lastFired'[s] <= MinuteOf(clock)
      BY <3>1, <3>3, WatchNumbers DEF AnsweredInv
    <3>5. ASSUME header[s].kind # "at", Fires(s) = {},
                 2 * MinuteOf(clock) \in Answered(s)
          PROVE  lastFired[s] = MinuteOf(clock)
      <4>1. 2 * MinuteOf(clock) <= previousTick
        BY <3>5 DEF AnsweredInv
      <4>2. MinuteOf(clock) = MinuteOf(previousTick)
        BY <3>3, <4>1, WatchNumbers
      <4>3. QED
        BY <3>5, <4>2 DEF AnsweredInv
    <3>6. QED
      BY <3>1, <3>2, <3>4, <3>5
  <2>4. QED
    BY <2>2, <2>3
<1>3. CASE TimePasses \/ Close \/ \E s \in Timed : Listen(s)
  BY <1>3, WatchPauses DEF AnsweredInv, Answered
<1>4. CASE Open
  BY <1>4 DEF Open, AnsweredInv, Answered, Nothing
<1>5. QED
  BY <1>1, <1>2, <1>3, <1>4 DEF WatchNext

LEMMA OnceStep ==
  TimeWatchTypeOK /\ AnsweredInv /\ NoTimeTwice /\ [WatchNext]_watchVars
    => NoTimeTwice'
<1> SUFFICES ASSUME TimeWatchTypeOK, AnsweredInv, NoTimeTwice,
                    [WatchNext]_watchVars
             PROVE  NoTimeTwice'
  OBVIOUS
<1>1. CASE UNCHANGED watchVars
  BY <1>1 DEF watchVars, NoTimeTwice
<1>2. CASE Tick
  <2>1. SUFFICES ASSUME NEW s \in Timed
                 PROVE  served'[s] \intersect servedNow'[s] = {}
    BY DEF NoTimeTwice
  <2>2. \/ served'[s] = {}
        \/ served'[s] = Answered(s) /\ servedNow'[s] = Fires(s)
    BY <1>2 DEF Tick, Answered
  <2>3. QED
    BY <2>2, FiresNew
<1>3. CASE TimePasses \/ Close \/ \E s \in Timed : Listen(s)
  BY <1>3, WatchPauses DEF NoTimeTwice
<1>4. CASE Open
  BY <1>4 DEF Open, NoTimeTwice, Nothing
<1>5. QED
  BY <1>1, <1>2, <1>3, <1>4 DEF WatchNext

\* However ticks are late, gaps are caught up with and time goes on, no time of a
\* schedule is answered by two runs while the watcher looks at the macro.
THEOREM NoTimeIsAnsweredTwice == WatchSpec => []NoTimeTwice
<1>1. WatchInit => NoTimeTwice
  BY DEF WatchInit, NoTimeTwice, Nothing
<1>2. QED
  BY WatchTypesInit, WatchTypesStep, AnsweredInit, AnsweredStep, <1>1, OnceStep, PTL
     DEF WatchSpec

-----------------------------------------------------------------------------
(* What is not missed                                                       *)

\* A tick that passes over nothing fires a cron strand for each of its minutes
\* since the tick before.
LEMMA FiresAll ==
  ASSUME TimeWatchTypeOK, AnsweredInv, NEW s \in Timed, header[s].kind = "cron",
         catchUp[s], ~PassesOver,
         NEW m \in Minutes, MinuteOf(previousTick) < m, m <= MinuteOf(clock),
         Matches(s, m)
  PROVE  2 * m \in Fires(s)
<1>1. m \in Nat /\ MinuteOf(clock) \in Nat
  BY WatchNumbers
<1>2. CASE m = MinuteOf(clock)
  <2>1. ~Remembers(s)
    BY <1>2, WatchNumbers DEF Remembers, AnsweredInv
  <2>2. 2 * m \in DueTimes(s)
    BY <1>2, <2>1 DEF DueTimes
  <2>3. QED
    BY <2>2 DEF Fires
<1>3. CASE m < MinuteOf(clock)
  <2>1. 2 * m <= clock - 2 /\ previousTick < 2 * m
    BY <1>1, <1>3, WatchNumbers
  <2>2. Gap
    BY <1>1, <2>1, WatchNumbers DEF Gap, PassesOver, MissedAfter
  <2>3. previousTick >= CatchUpTo - MaxCatchUp
    BY WatchNumbers DEF PassesOver, CatchUpTo
  <2> DEFINE back == IF CatchUpTo > MaxCatchUp THEN CatchUpTo - MaxCatchUp ELSE 0
             start == IF previousTick > back THEN previousTick ELSE back
  <2>4. start = previousTick
    BY <2>3, WatchNumbers DEF CatchUpTo
  <2>5. 2 * m <= CatchUpTo /\ MinuteOf(start) < m
    BY <2>1, <2>4 DEF CatchUpTo
  <2>6. 2 * m \in {2 * k : k \in {n \in Minutes : /\ MinuteOf(start) < n
                                                  /\ 2 * n <= CatchUpTo
                                                  /\ Matches(s, n)}}
    BY <2>5
  <2>7. 2 * m \in Missed(s, previousTick)
    BY <2>6 DEF Missed
  <2>8. QED
    BY <2>2, <2>7 DEF Fires, MissedTimes
<1>4. QED
  BY <1>1, <1>2, <1>3

LEMMA MissedStep ==
  TimeWatchTypeOK /\ AnsweredInv /\ NoMinuteMissed /\ [WatchNext]_watchVars
    => NoMinuteMissed'
<1> SUFFICES ASSUME TimeWatchTypeOK, AnsweredInv, NoMinuteMissed,
                    [WatchNext]_watchVars
             PROVE  NoMinuteMissed'
  OBVIOUS
<1>0. header' = header /\ catchUp' = catchUp
  BY DEF WatchNext, Tick, TimePasses, Close, Open, Listen, watchVars, schedules
<1>1. SUFFICES ASSUME NEW s \in Timed, header[s].kind = "cron", catchUp[s],
                      NEW m \in Minutes, MinuteOf(seenFrom'[s]) < m,
                      m <= MinuteOf(previousTick'), Matches(s, m)
               PROVE  2 * m \in Answered(s)'
  BY <1>0 DEF NoMinuteMissed, Answered, Matches
<1>2. ASSUME MinuteOf(seenFrom[s]) < m, m <= MinuteOf(previousTick)
      PROVE  2 * m \in Answered(s)
  BY <1>1, <1>2 DEF NoMinuteMissed, Answered
<1>3. CASE UNCHANGED watchVars \/ TimePasses \/ Close \/ \E t \in Timed : Listen(t)
  BY <1>1, <1>2, <1>3, WatchPauses DEF watchVars, Answered
<1>4. CASE Tick
  <2>1. MinuteOf(clock) \in Nat /\ m \in Nat /\ MinuteOf(previousTick) \in Nat
    BY WatchNumbers
  <2>2. s \in live /\ ~PassesOver /\ seenFrom'[s] = seenFrom[s]
    BY <1>1, <1>4, <2>1 DEF Tick
  <2>3. Answered(s)' = Answered(s) \union Fires(s) /\ previousTick' = clock
    BY <1>4, <2>2 DEF Tick, Answered
  <2>4. CASE m <= MinuteOf(previousTick)
    BY <1>1, <1>2, <2>2, <2>3, <2>4
  <2>5. CASE MinuteOf(previousTick) < m
    BY <1>1, <2>2, <2>3, <2>5, FiresAll
  <2>6. QED
    BY <2>1, <2>4, <2>5
<1>5. CASE Open
  <2>1. /\ previousTick' = IF lastSeen # Never /\ lastSeen < clock
                           THEN lastSeen ELSE clock
        /\ seenFrom'[s] = IF lastSeen = Never THEN clock ELSE lastSeen
    BY <1>5 DEF Open, Resume
  <2>2. lastSeen # Never => lastSeen \in Nat
    BY WatchNumbers DEF TimeWatchTypeOK
  <2>3. previousTick' \in Nat /\ seenFrom'[s] \in Nat /\ previousTick' <= seenFrom'[s]
    BY <2>1, <2>2, WatchNumbers
  <2>4. MinuteOf(previousTick') <= MinuteOf(seenFrom'[s])
    BY <2>3, MinuteMonotone
  <2>5. MinuteOf(previousTick') \in Nat /\ MinuteOf(seenFrom'[s]) \in Nat /\ m \in Nat
    BY <2>3, MinuteFacts, WatchNumbers
  <2>6. QED
    BY <1>1, <2>4, <2>5
<1>6. QED
  BY <1>3, <1>4, <1>5 DEF WatchNext

\* Gaps of 60 to 90 seconds and of more than a week aside, a cron strand that
\* catches up is fired for each of its minutes, also for those at the edges of a
\* gap and those between the last saved tick and the end of the process before.
THEOREM NoMinuteIsMissed == WatchSpec => []NoMinuteMissed
<1>1. WatchInit => NoMinuteMissed
  <2>1. \A k \in Minutes : ~(MinuteOf(0) < k /\ k <= MinuteOf(0))
    <3>1. MinuteOf(0) \in Nat /\ Minutes \subseteq Nat
      BY MinuteFacts, TimeWatchAssumption DEF Minutes
    <3>2. QED
      BY <3>1
  <2>2. QED
    BY <2>1 DEF WatchInit, NoMinuteMissed
<1>2. QED
  BY WatchTypesInit, WatchTypesStep, AnsweredInit, AnsweredStep, <1>1, MissedStep, PTL
     DEF WatchSpec

=============================================================================
