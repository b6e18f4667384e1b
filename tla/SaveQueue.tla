------------------------------ MODULE SaveQueue ------------------------------
(***************************************************************************)
(* How macros reach their files: blockwork-core/src/config/persistence.rs  *)
(* (save_soon, the save thread, save, flush_saves, remove,                 *)
(* write_macro_file) and its callers in blockwork-app and the daemon.      *)
(*                                                                         *)
(* A macro's contents are a version number.  The threads are               *)
(*   Saver     the thread "blockwork-saves"                                *)
(*   App       whoever holds the app's state lock: one command at a time   *)
(*   Outside   who lists the files without the state lock: export_macro,   *)
(*             and the hotkeys Next macro and Previous macro, which take   *)
(*             it afterwards and open what they read                       *)
(*   Exit      forward_backend_events on Event::Quit                       *)
(*   EndingRun threads at the end of a run: persist_variables and          *)
(*             persist_fired_variables copy the macro under the state lock *)
(*             and save the copy after releasing it (stop_recording_       *)
(*             internal does the same)                                     *)
(* A process that is killed leaves `disk` and `tmp` as they are in any     *)
(* state.                                                                  *)
(***************************************************************************)
EXTENDS Naturals

CONSTANTS
  SavedMacro,   \* the macros, each with a file of its own
  EndingRun,    \* the runs that end while the app works
  Saver, App, Outside, Exit, NoThread,
  Started,      \* initial values of SAVES_STARTED
  IoFails,      \* whether writing and removing files may fail
  MaxVersion    \* BOUND: versions of a macro

ASSUME SaveQueueAssumption ==
  /\ Started \subseteq BOOLEAN /\ Started # {}
  /\ IoFails \in BOOLEAN
  /\ MaxVersion \in Nat \ {0}
  /\ App # Saver /\ Outside \notin {Saver, App} /\ Exit \notin {Saver, App, Outside}
  /\ NoThread \notin {Saver, App, Outside, Exit}
  /\ EndingRun \intersect {Saver, App, Outside, Exit, NoThread} = {}

Proc == {Saver, App, Outside, Exit} \union EndingRun

NoCopy == 0       \* no copy: no file, nothing queued

VARIABLES
  newest,       \* the newest version of each macro that was ever made
  mem,          \* the version in AppState
  known,        \* the macros AppState still has
  doomed,       \* the macro delete_macro is removing, if any
  queue,        \* Saves.queue
  writing,      \* who holds Saves.writing
  savesStarted, \* SAVES_STARTED
  disk,         \* the file of each macro
  tmp,          \* its temporary file, which nothing reads
  at,           \* where each thread is
  goal,         \* what a flush is for: "read", "remove" or "exit"
  job,          \* the macro and version being written
  todo,         \* what flush_saves drained and has not written yet
  landed,       \* history: the version last renamed into place
  edited,       \* history: the newest version that was queued, or that a
                \* command saved
  since,        \* history: `edited` when a reader called flush_saves
  stranded,     \* history: macros whose last replacement removed the file and
                \* did not rename the new one
  unlisted,     \* history: macros that were open once their file was removed
  overtaken     \* history: macros of which an older copy was opened than the
                \* one that was edited

saveVars == <<newest, mem, known, doomed, queue, writing, savesStarted, disk, tmp,
              at, goal, job, todo, landed, edited, since, stranded, unlisted,
              overtaken>>

PC == {"idle",
       "woken",      \* the save thread saw a non-empty queue
       "save",       \* save() called
       "flush",      \* flush_saves() called
       "drained",    \* in flush_saves, between two writes
       "write",      \* write_macro_file: temporary file
       "unlink",     \* write_macro_file: remove the old file
       "rename",     \* write_macro_file: rename the temporary file
       "reading",    \* after flush_saves, reading the files
       "opening",    \* a hotkey that has read a neighbour and opens it
       "removing",   \* after flush_saves, removing the file
       "gone"}       \* thread over; for Exit, the process

CopyVersion == 0..MaxVersion

Job == [macro : SavedMacro, version : CopyVersion]

NoJob == [macro |-> NoCopy, version |-> NoCopy]

\* Types; a thread that writes has something to write, and one that flushes
\* holds `writing`.
SaveTypeOK ==
  /\ newest \in [SavedMacro -> CopyVersion]
  /\ mem \in [SavedMacro -> CopyVersion]
  /\ known \subseteq SavedMacro
  /\ doomed \subseteq SavedMacro
  /\ queue \in [SavedMacro -> CopyVersion]
  /\ writing \in Proc \union {NoThread}
  /\ savesStarted \in BOOLEAN
  /\ disk \in [SavedMacro -> CopyVersion]
  /\ tmp \in [SavedMacro -> CopyVersion]
  /\ at \in [Proc -> PC]
  /\ goal \in [Proc -> {"save", "read", "remove", "exit"}]
  /\ job \in [Proc -> Job \union {NoJob}]
  /\ \A p \in Proc :
       at[p] \in {"save", "write", "unlink", "rename", "opening"} => job[p] \in Job
  /\ todo \in [Proc -> [SavedMacro -> CopyVersion]]
  /\ landed \in [SavedMacro -> CopyVersion]
  /\ edited \in [SavedMacro -> CopyVersion]
  /\ since \in [Proc -> [SavedMacro -> CopyVersion]]
  /\ \A p \in Proc : at[p] = "drained" => writing = p
  /\ stranded \subseteq SavedMacro
  /\ unlisted \subseteq SavedMacro
  /\ overtaken \subseteq SavedMacro

Empty == [m \in SavedMacro |-> NoCopy]

SaveInit ==
  /\ newest = [m \in SavedMacro |-> 1]
  /\ mem = [m \in SavedMacro |-> 1]
  /\ known = SavedMacro
  /\ doomed = {}
  /\ queue = Empty
  /\ writing = NoThread
  /\ savesStarted \in Started
  /\ disk = [m \in SavedMacro |-> 1]
  /\ tmp = Empty
  /\ at = [p \in Proc |-> "idle"]
  /\ goal = [p \in Proc |-> "save"]
  /\ job = [p \in Proc |-> NoJob]
  /\ todo = [p \in Proc |-> Empty]
  /\ landed = [m \in SavedMacro |-> 1]
  /\ edited = [m \in SavedMacro |-> 1]
  /\ since = [p \in Proc |-> Empty]
  /\ stranded = {} /\ unlisted = {} /\ overtaken = {}

Larger(a, b) == IF a > b THEN a ELSE b

Goto(p, to) == at' = [at EXCEPT ![p] = to]

Running == at[Exit] # "gone"

\* The state lock: App holds it from the first step of a command to the last.
StateLockFree == at[App] = "idle"

files == <<disk, tmp, landed, stranded>>
library == <<known, doomed, unlisted, overtaken>>
memory == <<newest, mem, library>>
flushes == <<goal, todo, since>>
jobs == <<job, flushes>>

\* The thread has done with its copy.
DropCopy(p) == job' = [job EXCEPT ![p] = NoJob]

-----------------------------------------------------------------------------
(* What the app does under its state lock *)

\* Mutant of Queued: an edit does not replace the copy queued before it.
M_KeepsQueued(m, v) == IF queue[m] # NoCopy THEN queue[m] ELSE v

Queued(m, v) == v

\* A command edits the open macro; auto_save queues it.
Edit(m) ==
  /\ StateLockFree /\ m \in known
  /\ newest[m] < MaxVersion
  /\ newest' = [newest EXCEPT ![m] = @ + 1]
  /\ mem' = [mem EXCEPT ![m] = newest'[m]]
  /\ queue' = [queue EXCEPT ![m] = Queued(m, newest'[m])]
  /\ edited' = [edited EXCEPT ![m] = newest'[m]]
  /\ savesStarted' = TRUE
  /\ UNCHANGED <<library, writing, files, at, jobs>>

\* save_macro, set_macro_folder: changed and saved at once, under the lock.
ChangeAndSave(m) ==
  /\ StateLockFree /\ m \in known
  /\ newest[m] < MaxVersion
  /\ newest' = [newest EXCEPT ![m] = @ + 1]
  /\ mem' = [mem EXCEPT ![m] = newest'[m]]
  /\ job' = [job EXCEPT ![App] = [macro |-> m, version |-> newest'[m]]]
  /\ goal' = [goal EXCEPT ![App] = "save"]
  /\ Goto(App, "save")
  /\ UNCHANGED <<library, queue, writing, savesStarted, files, todo, edited, since>>

\* delete_macro, remove_macro: Macro::remove starts with a flush.  delete_macro
\* has looked before, and let the lock go, whether the macro is open.
Delete(m) ==
  /\ StateLockFree /\ m \in known
  /\ doomed' = {m}
  /\ goal' = [goal EXCEPT ![App] = "remove"]
  /\ Goto(App, "flush")
  /\ UNCHANGED <<newest, mem, known, unlisted, overtaken, queue, writing,
                 savesStarted, files, job, todo, edited, since>>

\* A run ends: its variables are synced into the macro in AppState, and a
\* copy of it is taken for after the lock.
PersistVariables(r, m) ==
  /\ at[r] = "idle"
  /\ StateLockFree /\ m \in known
  /\ newest[m] < MaxVersion
  /\ newest' = [newest EXCEPT ![m] = @ + 1]
  /\ mem' = [mem EXCEPT ![m] = newest'[m]]
  /\ job' = [job EXCEPT ![r] = [macro |-> m, version |-> newest'[m]]]
  /\ Goto(r, "save")
  /\ UNCHANGED <<library, queue, writing, savesStarted, files, goal, todo, edited,
                 since>>

\* Somebody reads the files: refresh_macro_list under the state lock,
\* export_macro and the hotkeys without it; the process is asked to quit.
BeginFlush(p, what) ==
  /\ at[p] = "idle"
  /\ goal' = [goal EXCEPT ![p] = what]
  /\ since' = [since EXCEPT ![p] = edited]
  /\ Goto(p, "flush")
  /\ UNCHANGED <<memory, queue, writing, savesStarted, files, job, todo, edited>>

-----------------------------------------------------------------------------
(* The queue *)

\* Mutant of MayWrite: save() and flush_saves() do not wait for each other.
M_NoWriteLock == TRUE

MayWrite == writing = NoThread

\* The save thread waits on `queued`.
Wake ==
  /\ at[Saver] = "idle"
  /\ savesStarted
  /\ \E m \in SavedMacro : queue[m] # NoCopy
  /\ Goto(Saver, "woken")
  /\ UNCHANGED <<memory, queue, writing, savesStarted, files, jobs, edited>>

\* It takes `writing` and then one entry, if nobody else has emptied the queue.
TakeOne ==
  /\ at[Saver] = "woken"
  /\ MayWrite
  /\ \/ /\ queue = Empty
        /\ Goto(Saver, "idle")
        /\ UNCHANGED <<queue, writing, job>>
     \/ \E m \in SavedMacro :
          /\ queue[m] # NoCopy
          /\ queue' = [queue EXCEPT ![m] = NoCopy]
          /\ job' = [job EXCEPT ![Saver] = [macro |-> m, version |-> queue[m]]]
          /\ writing' = Saver
          /\ Goto(Saver, "write")
  /\ UNCHANGED <<memory, savesStarted, files, goal, todo, edited, since>>

\* Mutant of AfterSave: a direct save leaves the queued copy in the queue.
M_LeavesQueued(m) == queue

AfterSave(m) == [queue EXCEPT ![m] = NoCopy]

\* save(): once something was ever queued it takes `writing` and drops the
\* queued copy.  Before that it takes no lock at all.
BeginSave(p) ==
  /\ at[p] = "save"
  /\ IF savesStarted
     THEN /\ MayWrite
          /\ writing' = p
          /\ queue' = AfterSave(job[p].macro)
     ELSE UNCHANGED <<writing, queue>>
  /\ Goto(p, "write")
  /\ UNCHANGED <<memory, savesStarted, files, jobs, edited>>

\* After flush_saves, or at once when nothing was ever queued.
Flushed(p) ==
  Goto(p, CASE goal[p] = "read" -> "reading"
            [] goal[p] = "remove" -> "removing"
            [] goal[p] = "exit" -> "gone")

\* Mutant of LeftQueued: what is flushed is not taken out of the queue.
M_CopiesQueue == queue

LeftQueued == Empty

Flush(p) ==
  /\ at[p] = "flush"
  /\ IF savesStarted
     THEN /\ MayWrite
          /\ writing' = p
          /\ todo' = [todo EXCEPT ![p] = queue]
          /\ queue' = LeftQueued
          /\ Goto(p, "drained")
     ELSE /\ Flushed(p)
          /\ UNCHANGED <<writing, todo, queue>>
  /\ UNCHANGED <<memory, savesStarted, files, goal, job, edited, since>>

\* flush_saves writes what it drained, in any order, and lets `writing` go.
WriteNext(p) ==
  /\ at[p] = "drained"
  /\ \E m \in SavedMacro :
       /\ todo[p][m] # NoCopy
       /\ todo' = [todo EXCEPT ![p][m] = NoCopy]
       /\ job' = [job EXCEPT ![p] = [macro |-> m, version |-> todo[p][m]]]
  /\ Goto(p, "write")
  /\ UNCHANGED <<memory, queue, writing, savesStarted, files, goal, edited, since>>

\* Mutant of AllWritten: flush_saves returns before everything is written.
M_StopsEarly(p) == TRUE

AllWritten(p) == todo[p] = Empty

EndFlush(p) ==
  /\ at[p] = "drained"
  /\ AllWritten(p)
  /\ writing' = NoThread
  /\ Flushed(p)
  /\ UNCHANGED <<memory, queue, savesStarted, files, jobs, edited>>

-----------------------------------------------------------------------------
(* write_macro_file *)

\* Where a thread goes after write_macro_file, and what it lets go.
Written(p) ==
  /\ Goto(p, CASE p \in {Outside, Exit} -> "drained"
               [] p = App -> IF goal[App] = "save" THEN "idle" ELSE "drained"
               [] p = Saver -> "idle"
               [] p \in EndingRun -> "gone")
  /\ writing' = IF writing = p /\ at'[p] # "drained" THEN NoThread ELSE writing
  /\ DropCopy(p)

WriteTmp(p) ==
  /\ at[p] = "write"
  /\ tmp' = [tmp EXCEPT ![job[p].macro] = job[p].version]
  /\ Goto(p, "unlink")
  /\ UNCHANGED <<memory, queue, writing, savesStarted, disk, landed, stranded, jobs,
                 edited>>

\* Mutant of AfterFailure: the old file was removed before the new one was
\* written.
M_RemovesFirst(m) == [disk EXCEPT ![m] = NoCopy]

AfterFailure(m) == disk

\* The disk is full, say: the temporary file is not complete.
WriteFails(p) ==
  /\ IoFails
  /\ at[p] = "write"
  /\ tmp' = [tmp EXCEPT ![job[p].macro] = NoCopy]
  /\ disk' = AfterFailure(job[p].macro)
  /\ Written(p)
  /\ UNCHANGED <<memory, queue, savesStarted, landed, stranded, flushes, edited>>

Unlink(p) ==
  /\ at[p] = "unlink"
  /\ disk' = [disk EXCEPT ![job[p].macro] = NoCopy]
  /\ Goto(p, "rename")
  /\ UNCHANGED <<memory, queue, writing, savesStarted, tmp, landed, stranded, jobs,
                 edited>>

\* The old file cannot be removed, or it is and the new one cannot be renamed:
\* the temporary file stays, until the next write begins with it.
ReplaceFails(p) ==
  /\ IoFails
  /\ at[p] \in {"unlink", "rename"}
  /\ stranded' = IF at[p] = "rename" THEN stranded \union {job[p].macro}
                 ELSE stranded
  /\ Written(p)
  /\ UNCHANGED <<memory, queue, savesStarted, disk, tmp, landed, flushes, edited>>

\* Renaming fails too when another thread has renamed the temporary file.
Rename(p) ==
  LET m == job[p].macro IN
  /\ at[p] = "rename"
  /\ IF tmp[m] # NoCopy
     THEN /\ disk' = [disk EXCEPT ![m] = tmp[m]]
          /\ tmp' = [tmp EXCEPT ![m] = NoCopy]
          /\ landed' = [landed EXCEPT ![m] = tmp[m]]
          /\ stranded' = stranded \ {m}
     ELSE UNCHANGED files
  /\ edited' = IF p = App /\ goal[p] = "save"
               THEN [edited EXCEPT ![m] = job[p].version] ELSE edited
  /\ Written(p)
  /\ UNCHANGED <<memory, queue, savesStarted, flushes>>

-----------------------------------------------------------------------------
(* After a flush *)

\* The files are read; refresh_macro_list also takes what it read over into
\* AppState.
Read(p) ==
  /\ at[p] = "reading"
  /\ mem' = IF p = App
            THEN [m \in SavedMacro |->
                   IF m \in known /\ disk[m] # NoCopy THEN disk[m] ELSE mem[m]]
            ELSE mem
  /\ Goto(p, "idle")
  /\ UNCHANGED <<newest, library, queue, writing, savesStarted, files, jobs, edited>>

\* A hotkey takes the copy it read of a neighbour of the open macro ...
ReadNeighbour ==
  /\ at[Outside] = "reading"
  /\ \E m \in SavedMacro :
       /\ disk[m] # NoCopy
       /\ job' = [job EXCEPT ![Outside] = [macro |-> m, version |-> disk[m]]]
  /\ Goto(Outside, "opening")
  /\ UNCHANGED <<memory, queue, writing, savesStarted, files, goal, todo, edited,
                 since>>

\* ... and makes it the open one under the state lock, whatever became of the
\* macro meanwhile.
OpenCopy ==
  LET m == job[Outside].macro
      v == job[Outside].version IN
  /\ at[Outside] = "opening"
  /\ StateLockFree
  /\ mem' = [mem EXCEPT ![m] = v]
  /\ known' = known \union {m}
  /\ unlisted' = unlisted \union ({m} \ known)
  /\ overtaken' = IF v < edited[m] THEN overtaken \union {m} ELSE overtaken
  /\ Goto(Outside, "idle")
  /\ DropCopy(Outside)
  /\ UNCHANGED <<newest, doomed, queue, writing, savesStarted, files, flushes, edited>>

\* refresh_macro_list begins: it flushes, and then reads.
RefreshList ==
  /\ goal' = [goal EXCEPT ![App] = "read"]
  /\ since' = [since EXCEPT ![App] = edited]
  /\ Goto(App, "flush")

\* The list of macros is refreshed when the file is gone.  A macro that was
\* opened after delete_macro had looked stays open: the app goes on having it.
RemoveFile ==
  /\ at[App] = "removing"
  /\ disk' = [m \in SavedMacro |-> IF m \in doomed THEN NoCopy ELSE disk[m]]
  /\ \E opened \in SUBSET doomed :
       /\ known' = known \ (doomed \ opened)
       /\ unlisted' = unlisted \union opened
  /\ doomed' = {}
  /\ RefreshList
  /\ UNCHANGED <<newest, mem, overtaken, queue, writing, savesStarted, tmp, landed,
                 stranded, job, todo, edited>>

\* So it is when the file cannot be removed, by remove_macro but not by
\* delete_macro.
RemoveFails ==
  /\ IoFails
  /\ at[App] = "removing"
  /\ doomed' = {}
  /\ \/ RefreshList
     \/ Goto(App, "idle") /\ UNCHANGED <<goal, since>>
  /\ UNCHANGED <<newest, mem, known, unlisted, overtaken, queue, writing,
                 savesStarted, files, job, todo, edited>>

-----------------------------------------------------------------------------

SaveStep(p) ==
  \/ p = Saver /\ (Wake \/ TakeOne)
  \/ BeginSave(p)
  \/ Flush(p)
  \/ WriteNext(p)
  \/ EndFlush(p)
  \/ WriteTmp(p)
  \/ WriteFails(p)
  \/ Unlink(p)
  \/ Rename(p)
  \/ ReplaceFails(p)
  \/ Read(p)
  \/ p = Outside /\ (ReadNeighbour \/ OpenCopy)
  \/ p = App /\ (RemoveFile \/ RemoveFails)

Command ==
  \/ \E m \in SavedMacro : Edit(m) \/ ChangeAndSave(m) \/ Delete(m)
  \/ \E r \in EndingRun, m \in SavedMacro : PersistVariables(r, m)
  \/ BeginFlush(App, "read")
  \/ BeginFlush(Outside, "read")
  \/ BeginFlush(Exit, "exit")

SaveNext == Running /\ ((\E p \in Proc : SaveStep(p)) \/ Command)

SaveSpec == SaveInit /\ [][SaveNext]_saveVars

\* Every thread in the middle of something goes on when it can.  Nothing is
\* assumed of who gets `writing` among those who wait for it, nor obliges
\* anybody to give a command.
SaveFairness == \A p \in Proc : WF_saveVars(Running /\ SaveStep(p))

SaveFairSpec == SaveSpec /\ SaveFairness

-----------------------------------------------------------------------------
(* Properties *)

\* "Held for each write, so a newer save of a file never lands before an
\* older one" (persistence.rs:254): the save thread, direct saves and flushes
\* together implement a store whose contents only move on, MacroStore.
FileStore == INSTANCE MacroStore WITH Macro <- SavedMacro, stored <- landed

ImplementsStore == FileStore!Spec

\* A macro that is open although it was removed has no file until it is edited.
Listed == known \ unlisted

\* "Every reader of the macro files calls flush_saves first, so nobody in this
\* process sees a stale file" (persistence.rs:249): from the end of its flush
\* on, a command under the state lock finds every macro, at least as new as it
\* was saved or queued before.
CommandsSeeSaves ==
  at[App] = "reading" => \A m \in Listed : disk[m] >= since[App][m]

\* "... so edits made since the last save (or during the run) survive"
\* (scheduled_run.rs:200): a refresh, which takes the files over into memory,
\* undoes no edit.  What undoes one is a hotkey alone, when it opens a copy
\* that it read before the edit.
EditsSurvive == \A m \in known \ overtaken : mem[m] >= edited[m]

\* Whenever the process ends, killed or not, a complete copy of each macro is
\* left: in its file or, only while a thread is between removing that and
\* renaming the new one, in the temporary file.  A write that fails costs
\* nothing; a replacement that fails between the two leaves the macro to the
\* next one.
ACopySurvives ==
  \A m \in Listed \ stranded :
    \/ disk[m] # NoCopy
    \/ \E p \in Proc :
         at[p] = "rename" /\ job[p].macro = m /\ tmp[m] = job[p].version

\* "Removing waits for a queued save, so the file doesn't come back"
\* (persistence.rs:599): neither a queued copy nor one being written brings
\* back the file of a macro that the app has no more.
RemovedStaysRemoved ==
  \A m \in SavedMacro \ known : disk[m] = NoCopy

\* An orderly exit writes what was queued before it.
ExitSavesQueued ==
  at[Exit] = "gone" =>
    \A m \in Listed : Larger(disk[m], tmp[m]) >= since[Exit][m]

\* What was queued is in the file sooner or later.
QueuedReachesDisk ==
  \A m \in SavedMacro :
    landed[m] < edited[m]
      ~> (landed[m] >= edited[m] \/ m \notin known \/ at[Exit] = "gone")

=============================================================================
