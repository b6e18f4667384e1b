----------------------------- MODULE Permissions -----------------------------
(***************************************************************************)
(* What restricted macros may do, and the questions that settle it:        *)
(* blockwork-core/src/permissions.rs, prompt.rs (ask), the dialog of       *)
(* blockwork-daemon/src/prompt.rs, and the part of macros/trace.rs that    *)
(* forgets a macro's answers with its last strand.                         *)
(*                                                                         *)
(* A strand that wants to do something guarded looks whether that is       *)
(* settled, waits for its turn to ask (ASKING), looks again, waits for its *)
(* turn to show a dialog (SHOWING, which the dialog blocks take too), and  *)
(* keeps the first turn until the answer is stored.                        *)
(***************************************************************************)
CONSTANTS
  Asker,        \* BOUND: the strands that run at once
  Macro,
  Ability,      \* the keys of GUARDED
  NoOne         \* a mutex is free

ASSUME PermissionsAssumption == NoOne \notin Asker

VARIABLES
  grants,       \* STORE: Grants.allowed of the restricted macros
  session,      \* SESSION: the answers "once" and "deny"
  asking,       \* who holds ASKING
  showing,      \* who holds SHOWING
  spot,         \* where each strand is
  macro,        \* whose strand it is
  ability,      \* what it asks for
  called        \* what its `stopped` answers

turns == <<asking, showing>>
strands == <<macro, ability, called>>
askVars == <<grants, session, turns, spot, strands>>

Spot == {"out",         \* not in the trace
         "working",     \* between two requests
         "queued",      \* in check(), not decided, before ASKING
         "turn",        \* holds ASKING, before SHOWING
         "shown",       \* its question is on screen
         "always", "once", "deny",      \* answered, not yet stored
         "dialog",      \* a dialog block before SHOWING
         "open",        \* its dialog is on screen
         "last"}        \* out of the trace, about to forget the answers

\* A macro without an entry is trusted: nothing is asked.
Store == UNION {[restricted -> SUBSET Ability] : restricted \in SUBSET Macro}

PermissionsTypeOK ==
  /\ grants \in Store
  /\ session \subseteq Macro \X Ability \X BOOLEAN
  /\ asking \in Asker \union {NoOne}
  /\ showing \in Asker \union {NoOne}
  /\ spot \in [Asker -> Spot]
  /\ macro \in [Asker -> Macro]
  /\ ability \in [Asker -> Ability]
  /\ called \in [Asker -> BOOLEAN]

AskInit ==
  /\ \E restricted \in SUBSET Macro : grants = [m \in restricted |-> {}]
  /\ session = {}
  /\ asking = NoOne
  /\ showing = NoOne
  /\ spot = [s \in Asker |-> "out"]
  /\ macro \in [Asker -> Macro]
  /\ ability \in [Asker -> Ability]
  /\ called = [s \in Asker |-> FALSE]

Moves(s, from, to) ==
  /\ spot[s] = from
  /\ spot' = [spot EXCEPT ![s] = to]

\* The strands in trace::ACTIVE.
Traced(s) == spot[s] \notin {"out", "last"}

Allowed(m, k) == m \in DOMAIN grants => k \in grants[m]

Answered(m, k) == \E ok \in BOOLEAN : <<m, k, ok>> \in session

Decided(m, k) == Allowed(m, k) \/ Answered(m, k)

-----------------------------------------------------------------------------
(* A strand *)

\* Tracker::new and enter_with_stop in run_strand.
EnterTrace(s, m) ==
  /\ Moves(s, "out", "working")
  /\ macro' = [macro EXCEPT ![s] = m]
  /\ called' = [called EXCEPT ![s] = FALSE]
  /\ UNCHANGED <<grants, session, turns, ability>>

\* check() of something that is not decided.  One that is changes nothing.
Require(s, k) ==
  /\ ~called[s]
  /\ ~Decided(macro[s], k)
  /\ Moves(s, "working", "queued")
  /\ ability' = [ability EXCEPT ![s] = k]
  /\ UNCHANGED <<grants, session, turns, macro, called>>

\* Mutant of DecidedMeanwhile: the second look is left out.
M_LooksOnce(s) == FALSE

\* "Another strand may have asked while this one waited."
DecidedMeanwhile(s) == Decided(macro[s], ability[s])

\* The strand gets ASKING, whether it has been stopped or not.
TakeTurn(s) ==
  /\ asking = NoOne
  /\ IF DecidedMeanwhile(s)
     THEN Moves(s, "queued", "working") /\ UNCHANGED asking
     ELSE Moves(s, "queued", "turn") /\ asking' = s
  /\ UNCHANGED <<grants, session, showing, strands>>

\* A block that shows a dialog of its own.
AskUser(s) ==
  /\ ~called[s]
  /\ Moves(s, "working", "dialog")
  /\ UNCHANGED <<grants, session, turns, strands>>

\* prompt::ask gets SHOWING and the dialog opens.
Show(s) ==
  /\ showing = NoOne
  /\ showing' = s
  /\ Moves(s, "turn", "shown") \/ Moves(s, "dialog", "open")
  /\ UNCHANGED <<grants, session, asking, strands>>

\* Mutant of GivesUpTurn: the wait for SHOWING does not look at the stop.
M_WaitsForDialog(s) == FALSE

GivesUpTurn(s) == called[s] /\ showing # NoOne

\* prompt::ask polls every 50 ms while another dialog is on screen.
GiveUpTurn(s) ==
  /\ GivesUpTurn(s)
  /\ Moves(s, "turn", "working") \/ Moves(s, "dialog", "working")
  /\ asking' = IF asking = s THEN NoOne ELSE asking
  /\ UNCHANGED <<grants, session, showing, strands>>

\* The user answers; closing the window is a "deny".
Answer(s) ==
  /\ \/ \E reply \in {"always", "once", "deny"} : Moves(s, "shown", reply)
     \/ Moves(s, "open", "working")
  /\ showing' = NoOne
  /\ UNCHANGED <<grants, session, asking, strands>>

\* The dialog failed, or was killed within 100 ms of a stop: not allowed, but
\* not remembered either.
Unanswered(s) ==
  /\ Moves(s, "shown", "working") \/ Moves(s, "open", "working")
  /\ showing' = NoOne
  /\ asking' = IF asking = s THEN NoOne ELSE asking
  /\ UNCHANGED <<grants, session, strands>>

\* The rest of check(), and ASKING is given up.
StoreAnswer(s) ==
  LET m == macro[s] k == ability[s] IN
  /\ \/ /\ Moves(s, "always", "working")
        /\ grants' = [grants EXCEPT ![m] = @ \union {k}]
        /\ UNCHANGED session
     \/ /\ Moves(s, "once", "working")
        /\ session' = session \union {<<m, k, TRUE>>}
        /\ UNCHANGED grants
     \/ /\ Moves(s, "deny", "working")
        /\ session' = session \union {<<m, k, FALSE>>}
        /\ UNCHANGED grants
  /\ asking' = NoOne
  /\ UNCHANGED <<showing, strands>>

\* Mutant of IsLast: the strand's own slot is still in the list.
M_NeverLast(s) == FALSE

IsLast(s) == \A t \in Asker \ {s} : Traced(t) => macro[t] # macro[s]

\* Tracker::drop, up to where it gives up the lock of the trace.
LeaveTrace(s) ==
  /\ Moves(s, "working", IF IsLast(s) THEN "last" ELSE "out")
  /\ UNCHANGED <<grants, session, turns, strands>>

\* permissions::run_ended
ForgetAnswers(s) ==
  /\ Moves(s, "last", "out")
  /\ session' = {a \in session : a[1] # macro[s]}
  /\ UNCHANGED <<grants, turns, strands>>

CallOff(s) ==
  /\ Traced(s) /\ ~called[s]
  /\ called' = [called EXCEPT ![s] = TRUE]
  /\ UNCHANGED <<grants, session, turns, spot, macro, ability>>

-----------------------------------------------------------------------------
(* The user, in the macro's settings *)

\* restrict, and copy from a macro that is restricted itself.
RestrictMacro(m, kinds) ==
  /\ grants' = [x \in DOMAIN grants \union {m} |->
                 IF x = m THEN kinds ELSE grants[x]]
  /\ UNCHANGED <<session, turns, spot, strands>>

TrustMacro(m) ==
  /\ grants' = [x \in DOMAIN grants \ {m} |-> grants[x]]
  /\ UNCHANGED <<session, turns, spot, strands>>

SetAllowed(m, k, on) ==
  /\ m \in DOMAIN grants
  /\ RestrictMacro(m, IF on THEN grants[m] \union {k} ELSE grants[m] \ {k})

-----------------------------------------------------------------------------

Asks(s) ==
  \/ \E m \in Macro : EnterTrace(s, m)
  \/ \E k \in Ability : Require(s, k)
  \/ TakeTurn(s) \/ AskUser(s) \/ Show(s) \/ GiveUpTurn(s)
  \/ Answer(s) \/ Unanswered(s) \/ StoreAnswer(s)
  \/ LeaveTrace(s) \/ ForgetAnswers(s)
  \/ CallOff(s)

ChangesGrants(m) ==
  \/ \E kinds \in SUBSET Ability : RestrictMacro(m, kinds)
  \/ TrustMacro(m)
  \/ \E k \in Ability, on \in BOOLEAN : SetAllowed(m, k, on)

AskNext == (\E s \in Asker : Asks(s)) \/ \E m \in Macro : ChangesGrants(m)

AskSpec == AskInit /\ [][AskNext]_askVars

\* A free mutex is got, a free screen used, the stop flag polled and an answer
\* stored.  Nobody has to answer.
PromptStep(s) ==
  TakeTurn(s) \/ Show(s) \/ GiveUpTurn(s) \/ StoreAnswer(s)
    \/ (called[s] /\ Unanswered(s))

AskFairness == \A s \in Asker : WF_askVars(PromptStep(s))

FairAskSpec == AskSpec /\ AskFairness

-----------------------------------------------------------------------------
(* Properties *)

\* "Another strand may have asked while this one waited" (permissions.rs:175):
\* nobody is asked about what was answered for these runs of the macro, however
\* many of its strands want it at once, so no two answers contradict each other.
AskedOnce ==
  /\ \A s \in Asker :
       spot[s] \in {"turn", "shown", "always", "once", "deny"} =>
         ~Answered(macro[s], ability[s])
  /\ \A m \in Macro, k \in Ability :
       ~(<<m, k, TRUE>> \in session /\ <<m, k, FALSE>> \in session)

\* "until the macro's runs end" (permissions.rs:34): no answer is left once the
\* last strand of the macro is through with its end, in whatever order strands
\* ask, are answered, end and begin.
AnswersEndWithRuns ==
  \A a \in session :
    \E s \in Asker : macro[s] = a[1] /\ (Traced(s) \/ spot[s] = "last")

\* "fails once `stopped` turns true" (prompt.rs:67): a stopped strand soon has no
\* question and no dialog of its own left, whatever the user does, unless it is
\* still in the queue for its turn to ask, where nothing looks at the stop, and
\* a strand that goes on is what it waits for.
StoppedAskerReturns ==
  \A s \in Asker :
    called[s] ~>
      \/ spot[s] \in {"working", "out", "last"}
      \/ spot[s] = "queued" /\ \E t \in Asker \ {s} : Traced(t) /\ ~called[t]

=============================================================================
