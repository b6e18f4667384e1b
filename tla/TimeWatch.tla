------------------------------ MODULE TimeWatch -------------------------------
(***************************************************************************)
(* The thread "time-watch" of blockwork-app/src/watch/time.rs, which fires *)
(* strands that begin with When time, When cron or Once at, and gives      *)
(* macros with "catch up" one run for the times they missed.               *)
(*                                                                         *)
(* Time is counted in half minutes: the least unit in which a minute, the  *)
(* gap of 90 seconds and a moment inside a minute are told apart.  Time    *)
(* only goes on; it may go on while the watcher is late or asleep and      *)
(* while the process is not there.  Setting the clock back is left out.    *)
(* A macro is looked at while it is open in the editor or always listens.  *)
(***************************************************************************)
EXTENDS Integers

CONSTANTS
  Timed,            \* the strands with a schedule
  DayLength,        \* BOUND: minutes of a day
  SaveEvery,        \* SAVE_EVERY, in ticks
  MaxCatchUp,       \* MAX_CATCH_UP_SECS, in half minutes
  EndOfTime         \* BOUND: the last half minute

ASSUME TimeWatchAssumption ==
  /\ DayLength \in Nat \ {0} /\ SaveEvery \in Nat \ {0, 1}
  /\ MaxCatchUp \in Nat /\ EndOfTime \in Nat

HalfMinute == 0..EndOfTime
MinuteOf(t) == t \div 2
Minutes == 0..MinuteOf(EndOfTime)
Day(minute) == minute \div DayLength

MissedAfter == 3    \* MISSED_AFTER_SECS: 90 seconds

\* A first block: at a minute of each day, at the minutes that a step of a
\* cron expression divides, or once at a moment.
Header ==
  [kind : {"time"}, when : 0..(DayLength - 1)]
    \union [kind : {"cron"}, when : 1..2]
    \union [kind : {"at"}, when : HalfMinute]

Never == EndOfTime + 1      \* no tick, no firing

VARIABLES
  clock,            \* Local::now
  watching,         \* whether the process is there
  header,           \* the first block of each strand
  catchUp,          \* catch_up_missed of its macro
  live,             \* the strands whose macros are looked at
  previousTick,     \* previous_tick
  lastSeen,         \* schedule_state.json
  ticks,            \* ticks, modulo SaveEvery
  lastFired,        \* last_fired: the minute, or Never
  served,           \* history: what a strand was fired for, before the last
                    \* tick, since last_fired last forgot it
  servedNow,        \* history: what the last tick fired it for
  seenFrom          \* history: since when no tick has passed over it

watchVars == <<clock, watching, header, catchUp, live, previousTick, lastSeen,
               ticks, lastFired, served, servedNow, seenFrom>>

schedules == <<header, catchUp>>

\* Types, and that the watcher's ticks lie behind.
TimeWatchTypeOK ==
  /\ clock \in HalfMinute /\ watching \in BOOLEAN
  /\ header \in [Timed -> Header] /\ catchUp \in [Timed -> BOOLEAN]
  /\ live \subseteq Timed
  /\ previousTick \in HalfMinute /\ previousTick <= clock
  /\ lastSeen \in HalfMinute \union {Never}
  /\ ticks \in 0..(SaveEvery - 1)
  /\ lastFired \in [Timed -> Minutes \union {Never}]
  /\ served \in [Timed -> SUBSET HalfMinute]
  /\ servedNow \in [Timed -> SUBSET HalfMinute]
  /\ seenFrom \in [Timed -> HalfMinute]

Nothing == [s \in Timed |-> {}]

WatchInit ==
  /\ clock = 0 /\ watching = TRUE
  /\ header \in [Timed -> Header] /\ catchUp \in [Timed -> BOOLEAN]
  /\ live = Timed
  /\ previousTick = 0 /\ lastSeen = Never /\ ticks = 0
  /\ lastFired = [s \in Timed |-> Never]
  /\ served = Nothing /\ servedNow = Nothing
  /\ seenFrom = [s \in Timed |-> 0]

-----------------------------------------------------------------------------
(* Schedules *)

\* TimeSchedule::matches, Cron::matches.
Matches(s, minute) ==
  LET h == header[s] IN
  CASE h.kind = "time" -> minute % DayLength = h.when
    [] h.kind = "cron" -> minute % h.when = 0
    [] OTHER -> FALSE

\* missed_window: what ends a minute ago was never looked at.
CatchUpTo == clock - 2

\* The times in (from, CatchUpTo] at which the strand should have run.
Missed(s, from) ==
  LET back == IF CatchUpTo > MaxCatchUp THEN CatchUpTo - MaxCatchUp ELSE 0
      start == IF from > back THEN from ELSE back
  IN IF header[s].kind = "at"
     THEN {t \in {header[s].when} : start < t /\ t <= CatchUpTo}
     ELSE {2 * m : m \in {n \in Minutes : /\ MinuteOf(start) < n
                                          /\ 2 * n <= CatchUpTo
                                          /\ Matches(s, n)}}

-----------------------------------------------------------------------------
(* The loop *)

\* Mutant of Remembers: a cron strand may fire at each tick.
M_ForgetsTheMinute(s) == header[s].kind = "time" /\ lastFired[s] # Never
                           /\ Day(lastFired[s]) = Day(MinuteOf(clock))

\* Whether the strand has fired on this date, or in this minute.
Remembers(s) ==
  /\ lastFired[s] # Never
  /\ IF header[s].kind = "time"
     THEN Day(lastFired[s]) = Day(MinuteOf(clock))
     ELSE lastFired[s] = MinuteOf(clock)

\* Mutant of Gap: a gap has to be longer.
M_ShortGap == clock - previousTick > MissedAfter + 1

Gap == clock - previousTick > MissedAfter

DueTimes(s) ==
  IF header[s].kind = "at"
  THEN {t \in {header[s].when} : previousTick < t /\ t <= clock /\ ~Gap}
  ELSE {t \in {2 * MinuteOf(clock)} :
          Matches(s, MinuteOf(clock)) /\ ~Remembers(s)}

MissedTimes(s) == IF catchUp[s] /\ Gap THEN Missed(s, previousTick) ELSE {}

\* What this tick fires the strand for; one run stands for all of it.
Fires(s) == IF DueTimes(s) # {} THEN DueTimes(s) \union MissedTimes(s)
                                ELSE MissedTimes(s)

\* A tick that may leave out a minute without noticing, or does not look back
\* to the one before.
PassesOver ==
  \/ clock - previousTick = 3
  \/ previousTick < CatchUpTo - MaxCatchUp

Tick ==
  /\ watching
  /\ previousTick' = clock
  /\ ticks' = (ticks + 1) % SaveEvery
  /\ lastSeen' = IF ticks' = 1 THEN clock ELSE lastSeen
  /\ lastFired' = [s \in Timed |->
       IF s \notin live THEN Never
       ELSE IF Fires(s) # {} THEN MinuteOf(clock) ELSE lastFired[s]]
  /\ served' = [s \in Timed |->
       IF s \in live THEN served[s] \union servedNow[s] ELSE {}]
  /\ servedNow' = [s \in Timed |-> IF s \in live THEN Fires(s) ELSE {}]
  /\ seenFrom' = [s \in Timed |->
       IF s \notin live \/ PassesOver THEN clock ELSE seenFrom[s]]
  /\ UNCHANGED <<clock, watching, schedules, live>>

\* Time goes on, with the watcher or without it.
TimePasses ==
  /\ clock < EndOfTime
  /\ clock' = clock + 1
  /\ UNCHANGED <<watching, schedules, live, previousTick, lastSeen, ticks,
                 lastFired, served, servedNow, seenFrom>>

\* Blockwork is closed, or the computer is switched off.
Close ==
  /\ watching
  /\ watching' = FALSE
  /\ UNCHANGED <<clock, schedules, live, previousTick, lastSeen, ticks,
                 lastFired, served, servedNow, seenFrom>>

\* load_last_seen.
Resume == IF lastSeen # Never /\ lastSeen < clock THEN lastSeen ELSE clock

Open ==
  /\ ~watching
  /\ watching' = TRUE
  /\ previousTick' = Resume
  /\ ticks' = 0
  /\ lastFired' = [s \in Timed |-> Never]
  /\ served' = Nothing /\ servedNow' = Nothing
  /\ seenFrom' = [s \in Timed |-> IF lastSeen = Never THEN clock ELSE lastSeen]
  /\ UNCHANGED <<clock, schedules, live, lastSeen>>

\* Another macro is opened, and this one does not always listen, or the
\* other way round.
Listen(s) ==
  /\ live' = (live \ {s}) \union ({s} \ live)
  /\ UNCHANGED <<clock, watching, schedules, previousTick, lastSeen, ticks,
                 lastFired, served, servedNow, seenFrom>>

WatchNext ==
  \/ Tick
  \/ TimePasses
  \/ Close
  \/ Open
  \/ \E s \in Timed : Listen(s)

WatchSpec == WatchInit /\ [][WatchNext]_watchVars

-----------------------------------------------------------------------------
(* Properties *)

\* "Fires `WhenTime` strands (once per date), `WhenCron` strands (once per
\* matching minute) and `WhenAt` strands (once, at their moment)" (time.rs:1),
\* of late ticks, gaps and catch-ups in any order: as long as the watcher runs
\* and keeps looking at the macro, no time is answered by two runs.
NoTimeTwice == \A s \in Timed : served[s] \intersect servedNow[s] = {}

\* "Macros with "catch up" on also get one run for times missed while
\* Blockwork was closed or the computer slept" (time.rs:2): when gaps of 60 to
\* 90 seconds and of more than a week are left aside, no minute of a cron
\* strand is left out, neither behind a gap nor at its edges nor in the time
\* between the last saved tick and the end of the process before.
NoMinuteMissed ==
  \A s \in Timed : header[s].kind = "cron" /\ catchUp[s] =>
    \A m \in Minutes :
      MinuteOf(seenFrom[s]) < m /\ m <= MinuteOf(previousTick) /\ Matches(s, m)
        => 2 * m \in served[s] \union servedNow[s]

\* "Fires on the tick that passes it, unless that tick came after a gap, which
\* catch-up handles" (time.rs:211): once it has been passed, a Once at of a
\* macro that catches up was fired.
OnceAtFires ==
  \A s \in Timed : header[s].kind = "at" /\ catchUp[s] =>
    (seenFrom[s] < header[s].when /\ header[s].when <= previousTick
       => header[s].when \in served[s] \union servedNow[s])

=============================================================================
