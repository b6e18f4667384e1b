---------------------------- MODULE EditorDocument ----------------------------
(***************************************************************************)
(* The macro that is open in the editor, and recording into it:            *)
(* blockwork-app/src/commands.rs and commands/*.rs with the history of     *)
(* blockwork-model/src/editing.rs, and the input hook of                   *)
(* blockwork-core/src/recording/mod.rs.                                    *)
(*                                                                         *)
(* What a macro contains is a set of blocks, each named for the macro it   *)
(* was made in; all that one recording captured is one block.  A macro     *)
(* that is not there contains nothing.  `file` is what a reader of the     *)
(* files finds, who flushes the save queue first (SaveQueue shows that he  *)
(* then finds what was queued), so an edit is in it at once.  The editor's *)
(* commands come one after the other, each a step under the state lock but *)
(* for delete_macro, which takes it twice; other threads are the hook's,   *)
(* the task that takes its signals, and the countdowns'.                   *)
(* A new macro's file, which add_and_select writes before it takes the     *)
(* lock, is written in that step too.                                      *)
(***************************************************************************)
EXTENDS Naturals, Sequences

CONSTANTS
  Doc,          \* the macros there may ever be
  NoDoc,
  MaxBlocks,    \* BOUND: blocks made in a macro
  UNDO_LIMIT,
  MaxSignals,   \* BOUND: signals on their way
  MaxGen        \* BOUND: generations of countdowns

ASSUME EditorDocumentAssumption ==
  /\ NoDoc \notin Doc
  /\ MaxBlocks \in Nat \ {0} /\ UNDO_LIMIT \in Nat \ {0}
  /\ MaxSignals \in Nat /\ MaxGen \in Nat

Block == Doc \X (1..MaxBlocks)
Body == SUBSET Block
Gone == {}              \* the contents of a macro that is not there
NoCopyHeld == [of |-> NoDoc, body |-> Gone]
NotDeleting == [of |-> NoDoc, wasOpen |-> FALSE]
Signal == {"start", "stop", "next", "undo"}

VARIABLES
  open,         \* current_macro's id
  body,         \* current_macro
  list,         \* macros_list
  file,         \* the macros' files, and what is queued for them
  made,         \* how many blocks were made in each macro
  undone, redone,               \* history
  phase,        \* recording_phase
  gen,          \* recording_countdown_generation
  countdowns,   \* the generations of the countdown threads
  recording,    \* RECORDING_ACTIVE
  captured,     \* whether RECORDING_QUEUE holds anything
  hook,         \* "saw": the hook has read RECORDING_ACTIVE for an event
  armed,        \* PENDING_RECORD_START
  signals,      \* the QueueSignals on their way to their task
  saving,       \* the copy stop_recording_internal saves after the lock
  reading,      \* the copy a hotkey has read and opens under the lock
  deleting      \* delete_macro's macro, and whether it was open

history == <<undone, redone>>
document == <<open, body, list, file, made, history>>
hookVars == <<hook, armed>>
recorder == <<phase, gen, countdowns, recording, captured>>
between == <<saving, reading, deleting>>   \* what outlives a lock section
documentVars == <<document, recorder, hookVars, signals, between>>

\* Types, and that there is a generation's thread only once it was counted.
DocumentTypeOK ==
  /\ open \in Doc \union {NoDoc} /\ body \in Body
  /\ list \in [Doc -> Body] /\ file \in [Doc -> Body]
  /\ made \in [Doc -> 0..MaxBlocks]
  /\ undone \in Seq(Body) /\ Len(undone) <= UNDO_LIMIT
  /\ redone \in Seq(Body) /\ Len(redone) <= UNDO_LIMIT
  /\ phase \in {"Idle", "Countdown", "Active"}
  /\ gen \in 0..MaxGen /\ countdowns \subseteq 1..gen
  /\ recording \in BOOLEAN /\ captured \in BOOLEAN
  /\ hook \in {"idle", "saw"} /\ armed \in BOOLEAN
  /\ signals \in Seq(Signal) /\ Len(signals) <= MaxSignals
  /\ saving.of \in Doc \union {NoDoc} /\ saving.body \in Body
  /\ reading.of \in Doc \union {NoDoc} /\ reading.body \in Body
  /\ deleting.of \in Doc \union {NoDoc} /\ deleting.wasOpen \in BOOLEAN

FirstBlock(d) == {<<d, 1>>}

DocumentInit ==
  /\ made \in [Doc -> {0, 1}]
  /\ file = [d \in Doc |-> IF made[d] = 1 THEN FirstBlock(d) ELSE Gone]
  /\ list = file
  /\ open = NoDoc /\ body = Gone
  /\ undone = <<>> /\ redone = <<>>
  /\ phase = "Idle" /\ gen = 0 /\ countdowns = {}
  /\ recording = FALSE /\ captured = FALSE
  /\ hook = "idle" /\ armed = FALSE
  /\ signals = <<>>
  /\ saving = NoCopyHeld /\ reading = NoCopyHeld /\ deleting = NotDeleting

-----------------------------------------------------------------------------
(* Editing *)

\* A new block of the open macro; the last one stands for all beyond the bound.
NewBlock ==
  LET n == IF made[open] < MaxBlocks THEN made[open] + 1 ELSE MaxBlocks
  IN <<open, n>>

\* History::checkpoint, over what the macro contains before the edit.
Checkpoint ==
  /\ undone' = IF Len(undone) < UNDO_LIMIT THEN Append(undone, body)
               ELSE Append(Tail(undone), body)
  /\ redone' = <<>>

Insert ==
  /\ body' = body \union {NewBlock}
  /\ made' = [made EXCEPT ![open] = NewBlock[2]]

\* sync_open_macro_into_list, if the list has the macro.
SyncIntoList ==
  list' = IF list[open] # Gone THEN [list EXCEPT ![open] = body'] ELSE list

\* auto_save: the new contents are queued and copied into the list.
AutoSave ==
  /\ file' = [file EXCEPT ![open] = body']
  /\ SyncIntoList

EditBlocks ==
  /\ open # NoDoc
  /\ made[open] < MaxBlocks
  /\ Checkpoint
  /\ Insert
  /\ AutoSave
  /\ UNCHANGED open

\* history_step, one way and the other.
StepBack ==
  /\ undone # <<>>
  /\ body' = undone[Len(undone)]
  /\ undone' = SubSeq(undone, 1, Len(undone) - 1)
  /\ redone' = Append(redone, body)

StepForward ==
  /\ redone # <<>>
  /\ body' = redone[Len(redone)]
  /\ redone' = SubSeq(redone, 1, Len(redone) - 1)
  /\ undone' = Append(undone, body)

HistoryStep ==
  /\ open # NoDoc
  /\ StepBack \/ StepForward
  /\ AutoSave
  /\ UNCHANGED <<open, made>>

-----------------------------------------------------------------------------
(* The library *)

\* refresh_macro_list: list and open macro are those of the files, once the
\* command has written to them.
Refresh(opened) ==
  /\ list' = file'
  /\ open' = opened
  /\ body' = IF opened = NoDoc THEN Gone
             ELSE IF file'[opened] # Gone THEN file'[opened] ELSE body

\* select_macro opens the list's copy; with an index that is no macro's, none.
Select(d) ==
  /\ IF d # NoDoc /\ list[d] # Gone
     THEN open' = d /\ body' = list[d]
     ELSE open' = NoDoc /\ body' = Gone
  /\ undone' = <<>> /\ redone' = <<>>
  /\ UNCHANGED <<list, file, made>>

\* new_macro, duplicate_macro, an import: add_and_select.
NewMacro(d) ==
  /\ made[d] = 0
  /\ file' = [file EXCEPT ![d] = FirstBlock(d)]
  /\ made' = [made EXCEPT ![d] = 1]
  /\ Refresh(d)
  /\ UNCHANGED history

\* remove_macro: whichever macro is open now.
RemoveOpen ==
  /\ file' = [d \in Doc |-> IF d = open THEN Gone ELSE file[d]]
  /\ Refresh(NoDoc)
  /\ UNCHANGED <<made, history>>

InLibrary(d) == d = open \/ list[d] # Gone

\* delete_macro looks under the lock whether the macro is open, ...
LookBeforeDelete(d) ==
  /\ deleting = NotDeleting
  /\ deleting' = [of |-> d, wasOpen |-> d = open]
  /\ UNCHANGED <<document, recorder, hookVars, signals, saving, reading>>

\* ... and acts on it under the next lock.
DeleteLooked ==
  LET d == deleting.of IN
  /\ deleting # NotDeleting
  /\ \/ deleting.wasOpen /\ RemoveOpen
     \/ /\ ~deleting.wasOpen /\ InLibrary(d)
        /\ file' = [file EXCEPT ![d] = Gone]
        /\ Refresh(open)
        /\ UNCHANGED <<made, history>>
     \/ ~deleting.wasOpen /\ ~InLibrary(d) /\ UNCHANGED document
  /\ deleting' = NotDeleting
  /\ UNCHANGED <<recorder, hookVars, signals, saving, reading>>

\* save_macro, set_macro_folder: the freshest copy is saved and all is read
\* again.
SaveAndRefresh(d) ==
  /\ InLibrary(d)
  /\ file' = [file EXCEPT ![d] = IF d = open THEN body ELSE list[d]]
  /\ Refresh(open)
  /\ UNCHANGED <<made, history>>

LibraryCommand ==
  /\ deleting = NotDeleting
  /\ \/ EditBlocks
     \/ HistoryStep
     \/ RemoveOpen
     \/ \E d \in Doc \union {NoDoc} : Select(d)
     \/ \E d \in Doc : NewMacro(d) \/ SaveAndRefresh(d)
  /\ UNCHANGED <<recorder, hookVars, signals, between>>

-----------------------------------------------------------------------------
(* Recording *)

\* begin_recording.
BeginRecording ==
  /\ phase' = "Active"
  /\ recording' = TRUE

\* start_recording, with a countdown or without.
StartButton ==
  /\ deleting = NotDeleting
  /\ open # NoDoc /\ phase = "Idle"
  /\ gen < MaxGen
  /\ gen' = gen + 1
  /\ \/ BeginRecording /\ UNCHANGED countdowns
     \/ /\ phase' = "Countdown"
        /\ countdowns' = countdowns \union {gen + 1}
        /\ UNCHANGED recording
  /\ UNCHANGED <<document, captured, hookVars, signals, between>>

\* A countdown's thread wakes for the last time, and looks whether it still
\* counts.
CountdownEnds(g) ==
  /\ g \in countdowns
  /\ countdowns' = countdowns \ {g}
  /\ IF gen # g THEN UNCHANGED <<phase, recording>> ELSE BeginRecording
  /\ UNCHANGED <<document, gen, captured, hookVars, signals, between>>

\* Mutant of NewGeneration: a stop leaves the countdown going.
M_SameGeneration == gen

NewGeneration == gen + 1

\* stop_recording_impl: what the queue held goes to the end of the open macro.
StopRecording ==
  /\ gen < MaxGen
  /\ recording' = FALSE /\ phase' = "Idle"
  /\ gen' = NewGeneration
  /\ captured' = FALSE
  /\ IF captured /\ open # NoDoc THEN Checkpoint /\ Insert
                                 ELSE UNCHANGED <<history, body, made>>

\* stop_recording.
StopButton ==
  /\ deleting = NotDeleting
  /\ StopRecording
  /\ UNCHANGED <<open, list, file, countdowns, hookVars, signals, between>>

-----------------------------------------------------------------------------
(* The hook's thread *)

Send(signal) ==
  /\ Len(signals) < MaxSignals
  /\ signals' = Append(signals, signal)

\* An event comes while RECORDING_ACTIVE is set ...
HookSees ==
  /\ hook = "idle" /\ recording
  /\ hook' = "saw"
  /\ UNCHANGED <<document, recorder, armed, signals, between>>

\* ... and is captured, ...
HookRecords ==
  /\ hook = "saw"
  /\ captured' = TRUE
  /\ hook' = "idle"
  /\ UNCHANGED <<document, phase, gen, countdowns, recording, armed, signals,
                 between>>

\* Mutant of StopSignal: the key only clears the flag.
M_NoSignal == UNCHANGED signals

StopSignal == Send("stop")

\* ... or is the stop key.
HookStops ==
  /\ hook = "saw"
  /\ recording' = FALSE
  /\ StopSignal
  /\ hook' = "idle"
  /\ UNCHANGED <<document, phase, gen, countdowns, captured, armed, between>>

\* A hotkey, while nothing is recorded.  Start recording waits until the keys
\* of its combination are released.
HookHotkey ==
  /\ hook = "idle" /\ ~recording
  /\ \/ armed' = TRUE /\ UNCHANGED signals
     \/ (Send("next") \/ Send("undo")) /\ UNCHANGED armed
  /\ UNCHANGED <<document, recorder, hook, between>>

HookReleases ==
  /\ hook = "idle" /\ armed
  /\ armed' = FALSE
  /\ Send("start")
  /\ UNCHANGED <<document, recorder, hook, between>>

-----------------------------------------------------------------------------
(* The task that takes the signals *)

Take(signal) ==
  /\ saving = NoCopyHeld /\ reading = NoCopyHeld
  /\ signals # <<>> /\ Head(signals) = signal
  /\ signals' = Tail(signals)
  /\ UNCHANGED hookVars

\* StartRecordingImmediate: begins, whatever the phase.
TakeStart ==
  /\ Take("start")
  /\ IF open # NoDoc
     THEN /\ gen < MaxGen
          /\ gen' = gen + 1
          /\ BeginRecording
     ELSE UNCHANGED <<gen, phase, recording>>
  /\ UNCHANGED <<document, countdowns, captured, between>>

\* stop_recording_internal: the copy is saved after the lock is given up.
TakeStop ==
  /\ Take("stop")
  /\ StopRecording
  /\ IF open # NoDoc THEN SyncIntoList ELSE UNCHANGED list
  /\ saving' = IF captured /\ open # NoDoc
               THEN [of |-> open, body |-> body'] ELSE NoCopyHeld
  /\ UNCHANGED <<open, file, countdowns, reading, deleting>>

SaveRecorded ==
  /\ saving # NoCopyHeld
  /\ file' = [file EXCEPT ![saving.of] = saving.body]
  /\ saving' = NoCopyHeld
  /\ UNCHANGED <<open, body, list, made, history, recorder, hookVars, signals,
                 reading, deleting>>

\* The hotkeys Next macro and Previous macro read the files, among them the one
\* to be opened, ...
TakeNext ==
  /\ Take("next")
  /\ IF \E d \in Doc : file[d] # Gone
     THEN \E d \in Doc : file[d] # Gone /\ reading' = [of |-> d, body |-> file[d]]
     ELSE UNCHANGED reading
  /\ UNCHANGED <<document, recorder, saving, deleting>>

\* ... and open what they read under the lock.
OpenNeighbour ==
  /\ reading # NoCopyHeld
  /\ open' = reading.of /\ body' = reading.body
  /\ reading' = NoCopyHeld
  /\ UNCHANGED <<list, file, made, history, recorder, hookVars, signals, saving,
                 deleting>>

\* The hotkeys Undo and Redo.
TakeUndo ==
  /\ Take("undo")
  /\ \/ HistoryStep
     \/ /\ open = NoDoc \/ undone = <<>> \/ redone = <<>>
        /\ UNCHANGED document
  /\ UNCHANGED <<recorder, between>>

RecordingStep ==
  \/ StartButton \/ StopButton
  \/ \E g \in countdowns : CountdownEnds(g)
  \/ HookSees \/ HookRecords \/ HookStops \/ HookHotkey \/ HookReleases
  \/ TakeStart \/ TakeStop \/ TakeNext \/ TakeUndo
  \/ SaveRecorded \/ OpenNeighbour

DocumentNext ==
  \/ LibraryCommand
  \/ \E d \in Doc : LookBeforeDelete(d)
  \/ DeleteLooked
  \/ RecordingStep

DocumentSpec == DocumentInit /\ [][DocumentNext]_documentVars

-----------------------------------------------------------------------------
(* Properties *)

\* "if s.recording_countdown_generation != countdown_gen" (running.rs:226): the
\* editor shows a countdown exactly while a thread is there that ends it,
\* however it was stopped, restarted or overtaken by the hotkey, and however
\* many older threads have not woken yet.
CountdownIsAlive == phase = "Countdown" <=> gen \in countdowns

\* The hook and the app agree on whether a recording is on: what the hook
\* captures belongs to one the app knows of, and when the stop key has ended
\* it for the hook, the signal that ends it for the app is still to come.
StopIsOnItsWay ==
  /\ recording => phase = "Active"
  /\ phase = "Active" =>
       recording \/ \E i \in 1..Len(signals) : signals[i] = "stop"

\* "A command that changes a macro pushes an undo step, saves it, ..."
\* (docs/architecture.md:40): a step that makes a block leaves it in the macro's
\* file, or with the thread that is about to save it there.
ChangesAreSaved ==
  [][made' # made /\ saving' = saving => body' = file'[open']]_documentVars

\* "Swaps the macro for the neighbouring history entry" (editing.rs:515): undo
\* and redo bring back what this macro contained, so a macro's file never has
\* a block that was made in another one.
BlocksStayInTheirMacro == \A d \in Doc : \A b \in file[d] : b[1] = d

=============================================================================
