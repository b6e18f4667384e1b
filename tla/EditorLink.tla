----------------------------- MODULE EditorLink ------------------------------
(***************************************************************************)
(* How the app's state reaches the editor's window: the broadcast of       *)
(* blockwork-app/src/lib.rs, the connections of blockwork-daemon/src/      *)
(* server.rs, and the event queue between the two threads of the editor,   *)
(* blockwork-qt/src/daemon_client.rs and app_bridge.rs.                    *)
(*                                                                         *)
(* The state is told apart by the number of its changes, and every message *)
(* that carries no state (traces, replies, hello, focus) is the same.      *)
(* There is one connection, for only one is accepted at a time; the socket *)
(* is where the writer task hands a line to the editor's IPC thread.  An   *)
(* editor whose connection is over quits; what it shows until then, and    *)
(* that the daemon may then quit as well, is left out.                     *)
(***************************************************************************)
EXTENDS Naturals, Sequences

CONSTANTS
  Other,        \* a message without a state
  EventCap,     \* BOUND: events the broadcast keeps for a receiver
  LineCap,      \* BOUND: lines in a connection's queue
  MaxChanges    \* BOUND: changes of the state

ASSUME EditorLinkAssumption ==
  /\ EventCap \in Nat \ {0} /\ LineCap \in Nat \ {0}
  /\ MaxChanges \in Nat
  /\ Other \notin Nat

VARIABLES
  version,      \* the state behind the app's lock
  built,        \* states built under the lock, to be sent without it
  link,         \* where the connection in Clients.ui is
  events,       \* the connection's broadcast receiver
  lagged,       \* its next recv answers Lagged
  line,         \* the queue of its writer task
  arrived,      \* the last state in the editor's event channel, or Other
  torn,         \* history: a state was cut while it was read, and no state has
                \* arrived since
  waking,       \* its IPC thread is between tx.send and wake
  wakePending,  \* wake_pending
  queued,       \* a poll is queued on its UI thread
  polling,      \* poll is before it reads the events
  shown,        \* state_json
  sent,         \* history: the state that was sent last
  missed        \* history: a snapshot was dropped, and no state queued since

backend == <<version, built, sent>>
receiver == <<events, lagged>>
screen == <<arrived, torn, waking, wakePending, queued, polling, shown>>
linkVars == <<backend, link, receiver, line, screen, missed>>

Version == 0..MaxChanges
Message == Version \union {Other}

\* Types, and that a poll that is pending is queued.
LinkTypeOK ==
  /\ version \in Version /\ sent \in Version
  /\ built \subseteq Version
  /\ link \in {"none", "admitted", "up", "closing"}
  /\ events \in Seq(Message) /\ Len(events) <= EventCap
  /\ lagged \in BOOLEAN
  /\ line \in Seq(Message) /\ Len(line) <= LineCap
  /\ arrived \in Message /\ torn \in BOOLEAN
  /\ waking \in BOOLEAN /\ wakePending \in BOOLEAN
  /\ queued = wakePending
  /\ polling \in BOOLEAN
  /\ shown \in Version
  /\ missed \in BOOLEAN

LinkInit ==
  /\ version = 0 /\ built = {} /\ sent = 0
  /\ link = "none"
  /\ events = <<>> /\ lagged = FALSE
  /\ line = <<>> /\ missed = FALSE
  /\ arrived = Other /\ torn = FALSE
  /\ waking = FALSE /\ wakePending = FALSE /\ queued = FALSE /\ polling = FALSE
  /\ shown = 0

At(from, to) ==
  /\ link = from
  /\ link' = to

-----------------------------------------------------------------------------
(* The backend *)

Subscribed == link \in {"admitted", "up"}

\* broadcast::Sender::send: a receiver that is full loses its oldest event.
Publish(message) ==
  IF Subscribed
  THEN /\ events' = IF Len(events) < EventCap THEN Append(events, message)
                    ELSE Append(Tail(events), message)
       /\ lagged' = (lagged \/ Len(events) = EventCap)
  ELSE UNCHANGED receiver

PublishState(v) ==
  /\ Publish(v)
  /\ sent' = v

\* A command changes the state and sends it under the state lock.
Change ==
  /\ version < MaxChanges
  /\ version' = version + 1
  /\ PublishState(version + 1)
  /\ UNCHANGED <<built, link, line, screen, missed>>

\* persist_variables, persist_fired_variables, stop_recording_internal: the
\* state is built under the lock, which is given up for a save ...
ChangeAndBuild ==
  /\ version < MaxChanges
  /\ version' = version + 1
  /\ built' = built \union {version + 1}
  /\ UNCHANGED <<sent, link, receiver, line, screen, missed>>

\* ... and sent afterwards.
SendBuilt(v) ==
  /\ v \in built
  /\ built' = built \ {v}
  /\ PublishState(v)
  /\ UNCHANGED <<version, link, line, screen, missed>>

\* The trace thread.
SendTrace ==
  /\ Publish(Other)
  /\ UNCHANGED <<backend, link, line, screen, missed>>

-----------------------------------------------------------------------------
(* A connection *)

HasRoom == Len(line) < LineCap

\* try_send whose result is ignored.
Offer(message) == line' = IF HasRoom THEN Append(line, message) ELSE line

\* handle_connection up to its snapshot, for an editor that finds the slot free:
\* "Subscribe before taking the snapshot so no change can slip in between."
Admit ==
  /\ At("none", "admitted")
  /\ Offer(Other)
  /\ UNCHANGED <<backend, receiver, screen, missed>>

\* Another editor connects: the one that is open is brought to the front.
Reject ==
  /\ link # "none"
  /\ Offer(Other)
  /\ UNCHANGED <<backend, link, receiver, screen, missed>>

\* send_state_snapshot, of the state as it is now.
SendSnapshot ==
  /\ Offer(version)
  /\ missed' = ~HasRoom

FirstSnapshot ==
  /\ At("admitted", "up")
  /\ SendSnapshot
  /\ UNCHANGED <<backend, receiver, screen>>

\* "Fell behind: intermediate states are moot, send the latest."
CatchesUp == SendSnapshot

\* forward_events on Lagged.
FellBehind ==
  /\ link = "up" /\ lagged
  /\ lagged' = FALSE
  /\ CatchesUp
  /\ UNCHANGED <<backend, link, events, screen>>

\* forward_events on an event there is room for.
Forward ==
  /\ link = "up" /\ ~lagged /\ events # <<>>
  /\ HasRoom
  /\ line' = Append(line, Head(events))
  /\ events' = Tail(events)
  /\ missed' = (missed /\ Head(events) = Other)
  /\ UNCHANGED <<backend, link, lagged, screen>>

\* The reply to a command; what the command did is Change.
Reply ==
  /\ link = "up" /\ HasRoom
  /\ Offer(Other)
  /\ UNCHANGED <<backend, link, receiver, screen, missed>>

\* The queue is full for an event or a reply, a write takes too long, or the
\* editor is gone.
HangUp ==
  /\ At("up", "closing")
  /\ UNCHANGED <<backend, receiver, line, screen, missed>>

\* The end of handle_connection; the next editor has nothing yet.
FreeSlot ==
  /\ At("closing", "none")
  /\ events' = <<>> /\ lagged' = FALSE
  /\ line' = <<>> /\ missed' = FALSE
  /\ arrived' = Other /\ torn' = FALSE
  /\ waking' = FALSE /\ wakePending' = FALSE
  /\ queued' = FALSE /\ polling' = FALSE
  /\ shown' = 0
  /\ UNCHANGED backend

-----------------------------------------------------------------------------
(* The editor *)

\* The IPC thread reads a line: EventSink::send, up to the wake.
Receive ==
  /\ link # "none"
  /\ line # <<>> /\ ~waking
  /\ line' = Tail(line)
  /\ arrived' = IF Head(line) = Other THEN arrived ELSE Head(line)
  /\ torn' = (torn /\ Head(line) = Other)
  /\ waking' = TRUE
  /\ UNCHANGED <<backend, link, receiver, wakePending, queued, polling, shown,
                 missed>>

\* A request of the window's wins the select! while a line is half read: the
\* bytes read so far go with the dropped read_line, and the rest, read as a line
\* of its own, is an "invalid daemon message".
RequestTears ==
  /\ link # "none"
  /\ line # <<>> /\ ~waking
  /\ line' = [line EXCEPT ![1] = Other]
  /\ torn' = (torn \/ Head(line) # Other)
  /\ UNCHANGED <<backend, link, receiver, arrived, waking, wakePending, queued,
                 polling, shown, missed>>

\* "so a burst of messages queues one".
WakeUi ==
  /\ waking
  /\ waking' = FALSE
  /\ wakePending' = TRUE
  /\ queued' = (queued \/ ~wakePending)
  /\ UNCHANGED <<backend, link, receiver, line, arrived, torn, polling, shown,
                 missed>>

\* Mutant of PendingAfter: poll forgets to clear wake_pending.
M_StaysPending == wakePending

PendingAfter == FALSE

\* poll clears wake_pending before it reads the events.
PollBegins ==
  /\ queued /\ ~polling
  /\ queued' = FALSE
  /\ polling' = TRUE
  /\ wakePending' = PendingAfter
  /\ UNCHANGED <<backend, link, receiver, line, arrived, torn, waking, shown,
                 missed>>

\* "Only the newest state and trace of a burst matter".
PollReads ==
  /\ polling
  /\ polling' = FALSE
  /\ arrived' = Other
  /\ shown' = IF arrived = Other THEN shown ELSE arrived
  /\ UNCHANGED <<backend, link, receiver, line, torn, waking, wakePending, queued,
                 missed>>

-----------------------------------------------------------------------------

Backend ==
  \/ Change \/ ChangeAndBuild \/ SendTrace
  \/ \E v \in Version : SendBuilt(v)

Connection ==
  \/ Admit \/ Reject \/ FirstSnapshot
  \/ FellBehind \/ Forward \/ Reply
  \/ HangUp \/ FreeSlot

Window == Receive \/ RequestTears \/ WakeUi \/ PollBegins \/ PollReads

LinkNext == Backend \/ Connection \/ Window

LinkSpec == LinkInit /\ [][LinkNext]_linkVars

-----------------------------------------------------------------------------
(* Properties *)

\* Nothing is under way to the window, and no thread of the editor has to act.
Delivered ==
  /\ link = "up" /\ ~missed /\ ~torn
  /\ ~lagged /\ events = <<>> /\ line = <<>>
  /\ ~waking /\ ~queued /\ ~polling

\* "Subscribe before taking the snapshot so no change can slip in between"
\* (server.rs:140), "Fell behind: intermediate states are moot, send the latest"
\* (server.rs:258), "Wake the UI thread when a message arrives" (app_bridge.rs:
\* 174): when all is delivered the window shows the newest state, whatever was
\* dropped, skipped and polled on the way, unless the state sent last is an
\* older one, the queue had no room for a snapshot, or a request of the window's
\* own tore the last state while it was read.
NewestShown == Delivered /\ sent = version => shown = version

=============================================================================
