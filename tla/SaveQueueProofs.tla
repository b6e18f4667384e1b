--------------------------- MODULE SaveQueueProofs ---------------------------
(***************************************************************************)
(* Proofs about SaveQueue, for any set of macros and any number of         *)
(* versions, and, where a theorem does not say otherwise, any number of    *)
(* runs that end.                                                          *)
(***************************************************************************)
EXTENDS SaveQueue, TLAPS

-----------------------------------------------------------------------------
(* Types, and who is where                                                 *)

Writes(p) == at[p] \in {"write", "unlink", "rename"}

\* In the middle of a save or a flush.
Busy(p) == Writes(p) \/ at[p] = "drained"

\* A direct save, which takes `writing` only once something was ever queued.
Saves(p) == p \in EndingRun \/ (p = App /\ goal[App] = "save")

\* Each thread is where its code goes, and flushes for what it does next.
Places ==
  /\ at[Saver] \in {"idle", "woken", "write", "unlink", "rename"}
  /\ \A r \in EndingRun :
       at[r] \in {"idle", "save", "write", "unlink", "rename", "gone"}
  /\ at[Outside] \in {"idle", "flush", "drained", "write", "unlink", "rename",
                      "reading", "opening"}
  /\ at[Outside] # "idle" => goal[Outside] = "read"
  /\ at[Exit] \in {"idle", "flush", "drained", "write", "unlink", "rename",
                   "gone"}
  /\ at[Exit] # "idle" => goal[Exit] = "exit"
  /\ at[App] \in {"idle", "save", "flush", "drained", "write", "unlink",
                  "rename", "reading", "removing"}
  /\ goal[App] \in {"save", "read", "remove"}
  /\ at[App] = "save" => goal[App] = "save"
  /\ at[App] \in {"flush", "drained"} => goal[App] \in {"read", "remove"}
  /\ at[App] = "reading" => goal[App] = "read"
  /\ at[App] = "removing" => goal[App] = "remove"

Holds == \A p \in Proc : Busy(p) /\ ~Saves(p) => writing = p

TypeInv == SaveTypeOK /\ Places /\ Holds

\* Case analysis on the threads.
LEMMA Threads ==
  /\ Saver \in Proc /\ App \in Proc /\ Outside \in Proc /\ Exit \in Proc
  /\ EndingRun \subseteq Proc
  /\ \A p \in Proc : p # NoThread
  /\ \A p \in Proc : \/ p = Saver \/ p = App \/ p = Outside \/ p = Exit
                     \/ p \in EndingRun
  /\ Saver # App /\ Saver # Outside /\ Saver # Exit /\ App # Outside
  /\ App # Exit /\ Outside # Exit
  /\ \A r \in EndingRun : r # Saver /\ r # App /\ r # Outside /\ r # Exit
  BY SaveQueueAssumption DEF Proc

LEMMA Versions ==
  /\ MaxVersion \in Nat /\ 0 \in CopyVersion /\ 1 \in CopyVersion
  /\ NoCopy = 0 /\ CopyVersion \subseteq Nat
  /\ \A v \in CopyVersion : v < MaxVersion => v + 1 \in CopyVersion
  /\ Empty \in [SavedMacro -> CopyVersion]
  BY SaveQueueAssumption DEF CopyVersion, NoCopy, Empty

LEMMA JobParts ==
  \A j \in Job : j.macro \in SavedMacro /\ j.version \in CopyVersion
  BY DEF Job

LEMMA TypeInit == SaveInit => TypeInv
<1> SUFFICES ASSUME SaveInit PROVE TypeInv
  OBVIOUS
<1>1. SaveTypeOK
  BY Threads, Versions, SaveQueueAssumption DEF SaveInit, SaveTypeOK, PC
<1>2. Places /\ Holds
  BY Threads DEF SaveInit, Places, Holds, Busy, Writes
<1>3. QED
  BY <1>1, <1>2 DEF TypeInv

LEMMA TypeCommand ==
  ASSUME TypeInv, Command
  PROVE  TypeInv'
<1>0. SaveTypeOK /\ Places /\ Holds
  BY DEF TypeInv
<1>1. ASSUME NEW m \in SavedMacro, Edit(m) PROVE TypeInv'
    <2>1. SaveTypeOK'
      BY <1>0, <1>1, Threads, Versions, JobParts
         DEF SaveTypeOK, Goto, PC, Edit, Queued, StateLockFree, files, memory,
             jobs, library, flushes
    <2>2. Places'
      BY <1>0, <1>1, Threads, Versions
         DEF SaveTypeOK, Places, Goto, Edit, Queued, StateLockFree, files,
             memory, jobs, library, flushes
    <2>3. Holds'
      BY <1>0, <1>1, Threads, Versions
         DEF SaveTypeOK, Places, Holds, Busy, Writes, Saves, Goto, Edit, Queued,
             StateLockFree, files, memory, jobs, library, flushes
    <2>4. QED
      BY <2>1, <2>2, <2>3 DEF TypeInv
<1>2. ASSUME NEW m \in SavedMacro, ChangeAndSave(m) PROVE TypeInv'
    <2>1. SaveTypeOK'
      BY <1>0, <1>2, Threads, Versions, JobParts
         DEF SaveTypeOK, Goto, PC, Job, ChangeAndSave, StateLockFree, files,
             memory, jobs, library, flushes
    <2>2. Places'
      BY <1>0, <1>2, Threads, Versions
         DEF SaveTypeOK, Places, Goto, Job, ChangeAndSave, StateLockFree, files,
             memory, jobs, library, flushes
    <2>3. Holds'
      BY <1>0, <1>2, Threads, Versions
         DEF SaveTypeOK, Places, Holds, Busy, Writes, Saves, Goto, Job,
             ChangeAndSave, StateLockFree, files, memory, jobs, library, flushes
    <2>4. QED
      BY <2>1, <2>2, <2>3 DEF TypeInv
<1>3. ASSUME NEW m \in SavedMacro, Delete(m) PROVE TypeInv'
    <2>1. SaveTypeOK'
      BY <1>0, <1>3, Threads, Versions, JobParts
         DEF SaveTypeOK, Goto, PC, Delete, StateLockFree, files, memory, jobs,
             library, flushes
    <2>2. Places'
      BY <1>0, <1>3, Threads, Versions
         DEF SaveTypeOK, Places, Goto, Delete, StateLockFree, files, memory,
             jobs, library, flushes
    <2>3. Holds'
      BY <1>0, <1>3, Threads, Versions
         DEF SaveTypeOK, Places, Holds, Busy, Writes, Saves, Goto, Delete,
             StateLockFree, files, memory, jobs, library, flushes
    <2>4. QED
      BY <2>1, <2>2, <2>3 DEF TypeInv
<1>4. ASSUME NEW r \in EndingRun, NEW m \in SavedMacro, PersistVariables(r, m)
      PROVE  TypeInv'
    <2>1. SaveTypeOK'
      BY <1>0, <1>4, Threads, Versions, JobParts
         DEF SaveTypeOK, Goto, PC, Job, PersistVariables, files, memory, jobs,
             library, flushes
    <2>2. Places'
      BY <1>0, <1>4, Threads, Versions
         DEF SaveTypeOK, Places, Goto, Job, PersistVariables, files, memory,
             jobs, library, flushes
    <2>3. Holds'
      BY <1>0, <1>4, Threads, Versions
         DEF SaveTypeOK, Places, Holds, Busy, Writes, Saves, Goto, Job,
             PersistVariables, files, memory, jobs, library, flushes
    <2>4. QED
      BY <2>1, <2>2, <2>3 DEF TypeInv
<1>5. ASSUME NEW p \in {App, Outside, Exit}, NEW what \in {"read", "exit"},
             BeginFlush(p, what), what = "exit" <=> p = Exit
      PROVE  TypeInv'
    <2>1. SaveTypeOK'
      BY <1>0, <1>5, Threads, Versions, JobParts
         DEF SaveTypeOK, Goto, PC, BeginFlush, files, memory, jobs, library,
             flushes
    <2>2. Places'
      BY <1>0, <1>5, Threads, Versions
         DEF SaveTypeOK, Places, Goto, BeginFlush, files, memory, jobs,
             library, flushes
    <2>3. Holds'
      BY <1>0, <1>5, Threads, Versions
         DEF SaveTypeOK, Places, Holds, Busy, Writes, Saves, Goto, BeginFlush,
             files, memory, jobs, library, flushes
    <2>4. QED
      BY <2>1, <2>2, <2>3 DEF TypeInv
<1>6. QED
  BY <1>1, <1>2, <1>3, <1>4, <1>5, Threads DEF Command

\* Where a thread goes that has flushed.
Flushes(p, next) ==
  /\ at' = [at EXCEPT ![p] = next]
  /\ \/ next = "reading" /\ p \in {App, Outside} /\ goal[p] = "read"
     \/ next = "removing" /\ p = App /\ goal[p] = "remove"
     \/ next = "gone" /\ p = Exit

LEMMA FlushedFlushes ==
  ASSUME TypeInv, NEW p \in Proc, at[p] \in {"flush", "drained"}, Flushed(p)
  PROVE  \E next \in {"reading", "removing", "gone"} : Flushes(p, next)
<1>1. /\ p = Outside => goal[p] = "read"
      /\ p = Exit => goal[p] = "exit"
      /\ p = App => goal[p] \in {"read", "remove"}
      /\ p \in {Outside, Exit, App}
  BY Threads DEF TypeInv, Places
<1>2. CASE goal[p] = "read"
  <2>1. Flushes(p, "reading")
    BY <1>1, <1>2, Threads DEF Flushed, Flushes, Goto
  <2>2. QED
    BY <2>1
<1>3. CASE goal[p] = "remove"
  <2>1. Flushes(p, "removing")
    BY <1>1, <1>3, Threads DEF Flushed, Flushes, Goto
  <2>2. QED
    BY <2>1
<1>4. CASE goal[p] = "exit"
  <2>1. Flushes(p, "gone")
    BY <1>1, <1>4, Threads DEF Flushed, Flushes, Goto
  <2>2. QED
    BY <2>1
<1>5. QED
  BY <1>1, <1>2, <1>3, <1>4

LEMMA TypeQueue ==
  ASSUME TypeInv, NEW p \in Proc,
         \/ p = Saver /\ (Wake \/ TakeOne)
         \/ BeginSave(p) \/ Flush(p) \/ WriteNext(p) \/ EndFlush(p)
  PROVE  TypeInv'
<1>0. SaveTypeOK /\ Places /\ Holds
  BY DEF TypeInv
<1>1. ASSUME Wake PROVE TypeInv'
    <2>1. SaveTypeOK'
      BY <1>0, <1>1, Threads, Versions, JobParts
         DEF SaveTypeOK, Goto, PC, Wake, files, memory, jobs, library, flushes
    <2>2. Places'
      BY <1>0, <1>1, Threads, Versions
         DEF SaveTypeOK, Places, Goto, Wake, files, memory, jobs, library, flushes
    <2>3. Holds'
      BY <1>0, <1>1, Threads, Versions
         DEF SaveTypeOK, Places, Holds, Busy, Writes, Saves, Goto, Wake, files,
             memory, jobs, library, flushes
    <2>4. QED
      BY <2>1, <2>2, <2>3 DEF TypeInv
<1>2. ASSUME TakeOne PROVE TypeInv'
  <2>1. /\ at[Saver] = "woken" /\ writing = NoThread
        /\ UNCHANGED <<newest, mem, known, doomed, unlisted, overtaken,
                       savesStarted, disk, tmp, landed, stranded, goal, todo,
                       edited, since>>
    BY <1>2 DEF TakeOne, MayWrite, memory, files, library
  <2>2. ASSUME Goto(Saver, "idle"), UNCHANGED <<queue, writing, job>>
        PROVE  TypeInv'
      <3>1. SaveTypeOK'
        BY <1>0, <2>1, <2>2, Threads, Versions, JobParts
           DEF SaveTypeOK, Goto, PC
      <3>2. Places'
        BY <1>0, <2>1, <2>2, Threads, Versions
           DEF SaveTypeOK, Places, Goto
      <3>3. Holds'
        BY <1>0, <2>1, <2>2, Threads, Versions
           DEF SaveTypeOK, Places, Holds, Busy, Writes, Saves, Goto
      <3>4. QED
        BY <3>1, <3>2, <3>3 DEF TypeInv
  <2>3. ASSUME NEW m \in SavedMacro,
               queue' = [queue EXCEPT ![m] = NoCopy],
               job' = [job EXCEPT ![Saver] = [macro |-> m, version |-> queue[m]]],
               writing' = Saver,
               Goto(Saver, "write")
        PROVE  TypeInv'
      <3>1. SaveTypeOK'
        BY <1>0, <2>1, <2>3, Threads, Versions, JobParts
           DEF SaveTypeOK, Goto, PC, Job
      <3>2. Places'
        BY <1>0, <2>1, <2>3, Threads, Versions
           DEF SaveTypeOK, Places, Goto, Job
      <3>3. Holds'
        BY <1>0, <2>1, <2>3, Threads, Versions
           DEF SaveTypeOK, Places, Holds, Busy, Writes, Saves, Goto, Job
      <3>4. QED
        BY <3>1, <3>2, <3>3 DEF TypeInv
  <2>4. QED
    BY <1>2, <2>2, <2>3 DEF TakeOne
<1>3. ASSUME BeginSave(p) PROVE TypeInv'
  <2> DEFINE m == job[p].macro
  <2>1. /\ at[p] = "save" /\ Goto(p, "write")
        /\ UNCHANGED <<newest, mem, known, doomed, unlisted, overtaken,
                       savesStarted, disk, tmp, landed, stranded, goal, job,
                       todo, edited, since>>
    BY <1>3 DEF BeginSave, memory, files, jobs, library, flushes
  <2>2. m \in SavedMacro
    BY <1>0, <2>1 DEF SaveTypeOK, Job
  <2>3. \/ /\ writing = NoThread /\ writing' = p
           /\ queue' = [queue EXCEPT ![m] = NoCopy]
        \/ ~savesStarted /\ UNCHANGED <<writing, queue>>
    BY <1>3 DEF BeginSave, MayWrite, AfterSave
  <2>4. Saves(p)
    BY <1>0, <2>1, Threads DEF Places, Saves
  <2>. HIDE DEF m
  <2>5. SaveTypeOK'
    <3>1. /\ queue' \in [SavedMacro -> CopyVersion]
          /\ at' \in [Proc -> PC] /\ writing' \in Proc \union {NoThread}
      <4>1. queue' \in [SavedMacro -> CopyVersion]
        BY <1>0, <2>2, <2>3, Versions DEF SaveTypeOK
      <4>2. at' \in [Proc -> PC]
        BY <1>0, <2>1 DEF SaveTypeOK, Goto, PC
      <4>3. writing' \in Proc \union {NoThread}
        BY <1>0, <2>3 DEF SaveTypeOK
      <4>4. QED
        BY <4>1, <4>2, <4>3
    <3>2. \A q \in Proc : /\ at'[q] = "drained" => writing' = q
                          /\ at'[q] \in {"save", "write", "unlink", "rename", "opening"}
                               => job'[q] \in Job
      BY <1>0, <2>1, <2>3, Threads DEF SaveTypeOK, Goto
    <3>3. QED
      BY <1>0, <2>1, <3>1, <3>2 DEF SaveTypeOK
  <2>6. Places'
    BY <1>0, <2>1, <2>4, Threads DEF SaveTypeOK, Places, Goto
  <2>7. Holds'
    BY <1>0, <2>1, <2>3, <2>4, Threads
       DEF SaveTypeOK, Places, Holds, Busy, Writes, Saves, Goto
  <2>8. QED
    BY <2>5, <2>6, <2>7 DEF TypeInv
<1>4. ASSUME Flush(p) PROVE TypeInv'
  <2>1. /\ at[p] = "flush" /\ p \in {App, Outside, Exit}
        /\ UNCHANGED <<newest, mem, known, doomed, unlisted, overtaken,
                       savesStarted, disk, tmp, landed, stranded, goal, job,
                       edited, since>>
    BY <1>0, <1>4, Threads DEF Flush, memory, files, Places, library
  <2>2. CASE savesStarted
    <3>1. /\ writing = NoThread /\ writing' = p /\ Goto(p, "drained")
          /\ todo' = [todo EXCEPT ![p] = queue] /\ queue' = Empty
      BY <1>4, <2>2 DEF Flush, MayWrite, LeftQueued
      <3>2. SaveTypeOK'
        BY <1>0, <2>1, <3>1, Threads, Versions, JobParts
           DEF SaveTypeOK, Goto, PC
      <3>3. Places'
        BY <1>0, <2>1, <3>1, Threads, Versions
           DEF SaveTypeOK, Places, Goto
      <3>4. Holds'
        BY <1>0, <2>1, <3>1, Threads, Versions
           DEF SaveTypeOK, Places, Holds, Busy, Writes, Saves, Goto
      <3>5. QED
        BY <3>2, <3>3, <3>4 DEF TypeInv
  <2>3. CASE ~savesStarted
    <3>1. Flushed(p) /\ UNCHANGED <<writing, todo, queue>>
      BY <1>4, <2>3 DEF Flush
    <3>2. PICK next \in {"reading", "removing", "gone"} : Flushes(p, next)
      BY <2>1, <3>1, FlushedFlushes
      <3>3. SaveTypeOK'
        BY <1>0, <2>1, <3>1, <3>2, Threads, Versions, JobParts
           DEF SaveTypeOK, Goto, PC, Flushes
      <3>4. Places'
        BY <1>0, <2>1, <3>1, <3>2, Threads, Versions
           DEF SaveTypeOK, Places, Goto, Flushes
      <3>5. Holds'
        BY <1>0, <2>1, <3>1, <3>2, Threads, Versions
           DEF SaveTypeOK, Places, Holds, Busy, Writes, Saves, Goto, Flushes
      <3>6. QED
        BY <3>3, <3>4, <3>5 DEF TypeInv
  <2>4. QED
    BY <2>2, <2>3
<1>5. ASSUME WriteNext(p) PROVE TypeInv'
    <2>1. SaveTypeOK'
      BY <1>0, <1>5, Threads, Versions, JobParts
         DEF SaveTypeOK, Goto, PC, Job, WriteNext, files, memory, jobs,
             library, flushes
    <2>2. Places'
      BY <1>0, <1>5, Threads, Versions
         DEF SaveTypeOK, Places, Goto, Job, WriteNext, files, memory, jobs,
             library, flushes
    <2>3. Holds'
      BY <1>0, <1>5, Threads, Versions
         DEF SaveTypeOK, Places, Holds, Busy, Writes, Saves, Goto, Job,
             WriteNext, files, memory, jobs, library, flushes
    <2>4. QED
      BY <2>1, <2>2, <2>3 DEF TypeInv
<1>6. ASSUME EndFlush(p) PROVE TypeInv'
  <2>1. /\ at[p] = "drained" /\ writing' = NoThread
        /\ UNCHANGED <<newest, mem, known, doomed, unlisted, overtaken, queue,
                       savesStarted, disk, tmp, landed, stranded, goal, job,
                       todo, edited, since>>
    BY <1>6 DEF EndFlush, memory, files, jobs, library, flushes
  <2>2. PICK next \in {"reading", "removing", "gone"} : Flushes(p, next)
    BY <1>6, FlushedFlushes DEF EndFlush
    <2>3. SaveTypeOK'
      BY <1>0, <2>1, <2>2, Threads, Versions, JobParts
         DEF SaveTypeOK, Goto, PC, Flushes
    <2>4. Places'
      BY <1>0, <2>1, <2>2, Threads, Versions
         DEF SaveTypeOK, Places, Goto, Flushes
    <2>5. Holds'
      BY <1>0, <2>1, <2>2, Threads, Versions
         DEF SaveTypeOK, Places, Holds, Busy, Writes, Saves, Goto, Flushes
    <2>6. QED
      BY <2>3, <2>4, <2>5 DEF TypeInv
<1>7. QED
  BY <1>1, <1>2, <1>3, <1>4, <1>5, <1>6

\* Where a thread that has written its file goes, and what becomes of `writing`.
Leaves(p, next) ==
  /\ at' = [at EXCEPT ![p] = next]
  /\ job' = [job EXCEPT ![p] = NoJob]
  /\ \/ /\ next = "drained"
        /\ p \in {Outside, Exit} \/ (p = App /\ goal[App] # "save")
        /\ writing = p /\ writing' = writing
     \/ /\ next = "idle"
        /\ p = Saver \/ (p = App /\ goal[App] = "save")
        /\ writing' = IF writing = p THEN NoThread ELSE writing
     \/ /\ next = "gone"
        /\ p \in EndingRun
        /\ writing' = IF writing = p THEN NoThread ELSE writing

LEMMA WrittenLeaves ==
  ASSUME TypeInv, NEW p \in Proc, Writes(p), Written(p)
  PROVE  \E next \in {"drained", "idle", "gone"} : Leaves(p, next)
<1>1. at \in [Proc -> PC]
  BY DEF TypeInv, SaveTypeOK
<1>2. CASE p = Saver
  <2>1. Leaves(p, "idle")
    BY <1>1, <1>2, Threads DEF Goto, DropCopy, Written, Leaves
  <2>2. QED
    BY <2>1
<1>3. CASE p \in EndingRun
  <2>1. Leaves(p, "gone")
    BY <1>1, <1>3, Threads DEF Goto, DropCopy, Written, Leaves
  <2>2. QED
    BY <2>1
<1>4. CASE p \in {Outside, Exit} \/ (p = App /\ goal[App] # "save")
  <2>1. writing = p
    BY <1>4, Threads DEF TypeInv, Holds, Busy, Saves
  <2>2. Leaves(p, "drained")
    BY <1>1, <1>4, <2>1, Threads DEF Goto, DropCopy, Written, Leaves
  <2>3. QED
    BY <2>2
<1>5. CASE p = App /\ goal[App] = "save"
  <2>1. Leaves(p, "idle")
    BY <1>1, <1>5, Threads DEF Goto, DropCopy, Written, Leaves
  <2>2. QED
    BY <2>1
<1>6. QED
  BY <1>2, <1>3, <1>4, <1>5, Threads

\* What SaveTypeOK says of the threads' jobs and of `writing`, afterwards.
JobsLeft ==
  /\ job' \in [Proc -> Job \union {NoJob}]
  /\ \A q \in Proc :
       at'[q] \in {"save", "write", "unlink", "rename", "opening"} => job'[q] \in Job
  /\ \A q \in Proc : at'[q] = "drained" => writing' = q

LEMMA LeavesJobs ==
  ASSUME SaveTypeOK, NEW p \in Proc, NEW next, Leaves(p, next)
  PROVE  JobsLeft
<1>1. \A q \in Proc : at'[q] = IF q = p THEN next ELSE at[q]
  BY DEF SaveTypeOK, Leaves
<1>2. /\ job' \in [Proc -> Job \union {NoJob}]
      /\ \A q \in Proc : q # p => job'[q] = job[q]
  BY DEF SaveTypeOK, Leaves
<1>3. \A q \in Proc : at'[q] = "drained" => writing' = q
  BY <1>1, Threads DEF SaveTypeOK, Leaves
<1>4. next \in {"drained", "idle", "gone"}
  BY DEF Leaves
<1>5. QED
  BY <1>1, <1>2, <1>3, <1>4 DEF SaveTypeOK, JobsLeft

LEMMA LeavesPlaces ==
  ASSUME SaveTypeOK, Places, NEW p \in Proc, Writes(p), NEW next, Leaves(p, next),
         goal' = goal
  PROVE  Places'
<1>1. \A q \in Proc : at'[q] = IF q = p THEN next ELSE at[q]
  BY DEF SaveTypeOK, Leaves
<1>2. CASE next = "drained"
  BY <1>1, <1>2, Threads DEF Leaves, Places, Writes
<1>3. CASE next = "idle"
  BY <1>1, <1>3, Threads DEF Leaves, Places, Writes
<1>4. CASE next = "gone"
  BY <1>1, <1>4, Threads DEF Leaves, Places, Writes
<1>5. QED
  BY <1>2, <1>3, <1>4 DEF Leaves

\* A command goes on to refresh the list of macros.
LEMMA RefreshTypes ==
  ASSUME SaveTypeOK, Places, Holds, at[App] = "removing", RefreshList,
         doomed' \subseteq SavedMacro, known' \subseteq SavedMacro,
         unlisted' \subseteq SavedMacro, disk' \in [SavedMacro -> CopyVersion],
         UNCHANGED <<newest, mem, overtaken, queue, writing, savesStarted, tmp,
                     landed, stranded, job, todo, edited>>
  PROVE  TypeInv'
<1>1. SaveTypeOK'
  BY Threads DEF SaveTypeOK, RefreshList, Goto, PC
<1>2. Places'
  BY Threads DEF SaveTypeOK, Places, RefreshList, Goto
<1>3. Holds'
  BY Threads
     DEF SaveTypeOK, Places, Holds, Busy, Writes, Saves, RefreshList, Goto
<1>4. QED
  BY <1>1, <1>2, <1>3 DEF TypeInv

LEMMA TypeWrite ==
  ASSUME TypeInv, NEW p \in Proc,
         \/ WriteTmp(p) \/ WriteFails(p) \/ Unlink(p) \/ Rename(p)
         \/ ReplaceFails(p) \/ Read(p)
         \/ p = Outside /\ (ReadNeighbour \/ OpenCopy)
         \/ p = App /\ (RemoveFile \/ RemoveFails)
  PROVE  TypeInv'
<1>0. SaveTypeOK /\ Places /\ Holds
  BY DEF TypeInv
<1>1. ASSUME WriteTmp(p) PROVE TypeInv'
    <2>1. SaveTypeOK'
      BY <1>0, <1>1, Threads, Versions, JobParts
         DEF SaveTypeOK, Goto, PC, WriteTmp, files, memory, jobs, library, flushes
    <2>2. Places'
      BY <1>0, <1>1, Threads, Versions
         DEF SaveTypeOK, Places, Goto, WriteTmp, files, memory, jobs, library,
             flushes
    <2>3. Holds'
      BY <1>0, <1>1, Threads, Versions
         DEF SaveTypeOK, Places, Holds, Busy, Writes, Saves, Goto, WriteTmp,
             files, memory, jobs, library, flushes
    <2>4. QED
      BY <2>1, <2>2, <2>3 DEF TypeInv
<1>2. ASSUME WriteFails(p) PROVE TypeInv'
  <2>1. /\ at[p] = "write" /\ disk' = disk
        /\ tmp' = [tmp EXCEPT ![job[p].macro] = NoCopy]
        /\ UNCHANGED <<newest, mem, known, doomed, unlisted, overtaken, queue,
                       savesStarted, landed, stranded, goal, todo, edited,
                       since>>
    BY <1>2 DEF WriteFails, AfterFailure, memory, jobs, library, flushes
  <2>2. PICK next \in {"drained", "idle", "gone"} : Leaves(p, next)
    BY <1>2, WrittenLeaves DEF WriteFails, Writes
  <2>3. SaveTypeOK'
    <3>1. /\ tmp' \in [SavedMacro -> CopyVersion]
          /\ at' \in [Proc -> PC] /\ writing' \in Proc \union {NoThread}
      BY <1>0, <2>1, <2>2, Versions DEF SaveTypeOK, Leaves, PC
    <3>2. JobsLeft
      BY <1>0, <2>2, LeavesJobs
    <3>3. QED
      BY <1>0, <2>1, <3>1, <3>2 DEF SaveTypeOK, JobsLeft
  <2>4. Places'
    BY <1>0, <2>1, <2>2, LeavesPlaces DEF Writes
  <2>5. Holds'
    BY <1>0, <2>1, <2>2, Threads DEF SaveTypeOK, Holds, Busy, Writes, Saves,
       Leaves
  <2>6. QED
    BY <2>3, <2>4, <2>5 DEF TypeInv
<1>3. ASSUME Unlink(p) PROVE TypeInv'
    <2>1. SaveTypeOK'
      BY <1>0, <1>3, Threads, Versions, JobParts
         DEF SaveTypeOK, Goto, PC, Unlink, files, memory, jobs, library, flushes
    <2>2. Places'
      BY <1>0, <1>3, Threads, Versions
         DEF SaveTypeOK, Places, Goto, Unlink, files, memory, jobs, library,
             flushes
    <2>3. Holds'
      BY <1>0, <1>3, Threads, Versions
         DEF SaveTypeOK, Places, Holds, Busy, Writes, Saves, Goto, Unlink, files,
             memory, jobs, library, flushes
    <2>4. QED
      BY <2>1, <2>2, <2>3 DEF TypeInv
<1>4. ASSUME Rename(p) PROVE TypeInv'
  <2> DEFINE m == job[p].macro
  <2>1. /\ at[p] = "rename"
        /\ UNCHANGED <<newest, mem, known, doomed, unlisted, overtaken, queue,
                       savesStarted, goal, todo, since>>
    BY <1>4 DEF Rename, memory, jobs, library, flushes
  <2>2. m \in SavedMacro /\ job[p].version \in CopyVersion
    BY <1>0, <2>1 DEF SaveTypeOK, Job
  <2>3. /\ disk' = [disk EXCEPT ![m] = tmp[m]] \/ disk' = disk
        /\ tmp' = [tmp EXCEPT ![m] = NoCopy] \/ tmp' = tmp
        /\ landed' = [landed EXCEPT ![m] = tmp[m]] \/ landed' = landed
        /\ edited' = [edited EXCEPT ![m] = job[p].version] \/ edited' = edited
    BY <1>4 DEF Rename, files
  <2>4. PICK next \in {"drained", "idle", "gone"} : Leaves(p, next)
    BY <1>4, WrittenLeaves DEF Rename, Writes
  <2>. HIDE DEF m
  <2>5. SaveTypeOK'
    <3>1. /\ disk' \in [SavedMacro -> CopyVersion]
          /\ tmp' \in [SavedMacro -> CopyVersion]
          /\ landed' \in [SavedMacro -> CopyVersion]
          /\ edited' \in [SavedMacro -> CopyVersion]
      <4>1. disk' \in [SavedMacro -> CopyVersion]
        BY <1>0, <2>2, <2>3 DEF SaveTypeOK
      <4>2. tmp' \in [SavedMacro -> CopyVersion]
        BY <1>0, <2>2, <2>3, Versions DEF SaveTypeOK
      <4>3. landed' \in [SavedMacro -> CopyVersion]
        BY <1>0, <2>2, <2>3 DEF SaveTypeOK
      <4>4. edited' \in [SavedMacro -> CopyVersion]
        BY <1>0, <2>2, <2>3 DEF SaveTypeOK
      <4>5. QED
        BY <4>1, <4>2, <4>3, <4>4
    <3>2. at' \in [Proc -> PC] /\ writing' \in Proc \union {NoThread}
      BY <1>0, <2>4, Versions DEF SaveTypeOK, Leaves, PC
    <3>3. JobsLeft /\ stranded' \subseteq SavedMacro
      BY <1>0, <1>4, <2>4, LeavesJobs DEF Rename, files, SaveTypeOK
    <3>4. QED
      BY <1>0, <2>1, <3>1, <3>2, <3>3 DEF SaveTypeOK, JobsLeft
  <2>6. Places'
    BY <1>0, <2>1, <2>4, LeavesPlaces DEF Writes
  <2>7. Holds'
    BY <1>0, <2>1, <2>4, Threads DEF SaveTypeOK, Holds, Busy, Writes, Saves,
       Leaves
  <2>8. QED
    BY <2>5, <2>6, <2>7 DEF TypeInv
<1>5. ASSUME Read(p) PROVE TypeInv'
    <2>1. SaveTypeOK'
      BY <1>0, <1>5, Threads, Versions, JobParts
         DEF SaveTypeOK, Goto, PC, Read, files, memory, jobs, library, flushes
    <2>2. Places'
      BY <1>0, <1>5, Threads, Versions
         DEF SaveTypeOK, Places, Goto, Read, files, memory, jobs, library, flushes
    <2>3. Holds'
      BY <1>0, <1>5, Threads, Versions
         DEF SaveTypeOK, Places, Holds, Busy, Writes, Saves, Goto, Read, files,
             memory, jobs, library, flushes
    <2>4. QED
      BY <2>1, <2>2, <2>3 DEF TypeInv
<1>6. ASSUME RemoveFile, p = App PROVE TypeInv'
  <2>1. /\ at[App] = "removing" /\ RefreshList
        /\ doomed' = {} /\ known' \subseteq SavedMacro
        /\ unlisted' \subseteq SavedMacro
        /\ disk' \in [SavedMacro -> CopyVersion]
        /\ UNCHANGED <<newest, mem, overtaken, queue, writing, savesStarted, tmp,
                       landed, stranded, job, todo, edited>>
    BY <1>0, <1>6, Versions DEF RemoveFile, SaveTypeOK
  <2>2. QED
    BY <1>0, <2>1, RefreshTypes
<1>7. ASSUME RemoveFails, p = App PROVE TypeInv'
  <2>1. /\ at[App] = "removing" /\ doomed' = {}
        /\ UNCHANGED <<newest, mem, known, unlisted, overtaken, queue, writing,
                       savesStarted, disk, tmp, landed, stranded, job, todo,
                       edited>>
    BY <1>7 DEF RemoveFails, files
  <2>2. CASE RefreshList
    BY <1>0, <2>1, <2>2, RefreshTypes DEF SaveTypeOK
  <2>3. CASE Goto(App, "idle") /\ UNCHANGED <<goal, since>>
    <3>1. SaveTypeOK'
      BY <1>0, <2>1, <2>3, Threads DEF SaveTypeOK, Goto, PC
    <3>2. Places'
      BY <1>0, <2>1, <2>3, Threads DEF SaveTypeOK, Places, Goto
    <3>3. Holds'
      BY <1>0, <2>1, <2>3, Threads
         DEF SaveTypeOK, Places, Holds, Busy, Writes, Saves, Goto
    <3>4. QED
      BY <3>1, <3>2, <3>3 DEF TypeInv
  <2>4. QED
    BY <1>7, <2>2, <2>3 DEF RemoveFails
<1>8. ASSUME ReplaceFails(p) PROVE TypeInv'
  <2>1. /\ Writes(p) /\ Written(p)
        /\ UNCHANGED <<newest, mem, known, doomed, unlisted, overtaken, queue,
                       savesStarted, disk, tmp, landed, goal, todo, edited,
                       since>>
    BY <1>8 DEF ReplaceFails, Writes, memory, library, flushes
  <2>2. PICK next \in {"drained", "idle", "gone"} : Leaves(p, next)
    BY <2>1, WrittenLeaves
  <2>3. SaveTypeOK'
    <3>1. job[p].macro \in SavedMacro
      BY <1>0, <2>1, JobParts DEF SaveTypeOK, Writes
    <3>2. JobsLeft /\ stranded' \subseteq SavedMacro
      BY <1>0, <1>8, <2>2, <3>1, LeavesJobs DEF ReplaceFails, SaveTypeOK
    <3>3. at' \in [Proc -> PC] /\ writing' \in Proc \union {NoThread}
      BY <1>0, <2>2, Versions DEF SaveTypeOK, Leaves, PC
    <3>4. QED
      BY <1>0, <2>1, <3>2, <3>3 DEF SaveTypeOK, JobsLeft
  <2>4. Places'
    BY <1>0, <2>1, <2>2, LeavesPlaces
  <2>5. Holds'
    BY <1>0, <2>1, <2>2, Threads
       DEF SaveTypeOK, Holds, Busy, Writes, Saves, Leaves
  <2>6. QED
    BY <2>3, <2>4, <2>5 DEF TypeInv
<1>9. ASSUME ReadNeighbour PROVE TypeInv'
  <2>1. /\ at[Outside] = "reading" /\ Goto(Outside, "opening")
        /\ UNCHANGED <<newest, mem, known, doomed, unlisted, overtaken, queue,
                       writing, savesStarted, disk, tmp, landed, stranded, goal,
                       todo, edited, since>>
    BY <1>9 DEF ReadNeighbour, memory, library, files
  <2>2. PICK m \in SavedMacro :
          job' = [job EXCEPT ![Outside] = [macro |-> m, version |-> disk[m]]]
    BY <1>9 DEF ReadNeighbour
  <2>3. [macro |-> m, version |-> disk[m]] \in Job
    BY <1>0 DEF SaveTypeOK, Job
  <2>4. SaveTypeOK'
    BY <1>0, <2>1, <2>2, <2>3, Threads DEF SaveTypeOK, Goto, PC
  <2>5. Places'
    BY <1>0, <2>1, Threads DEF SaveTypeOK, Places, Goto
  <2>6. Holds'
    BY <1>0, <2>1, Threads
       DEF SaveTypeOK, Places, Holds, Busy, Writes, Saves, Goto
  <2>7. QED
    BY <2>4, <2>5, <2>6 DEF TypeInv
<1>10. ASSUME OpenCopy PROVE TypeInv'
  <2> DEFINE m == job[Outside].macro
             v == job[Outside].version
  <2>1. /\ at[Outside] = "opening" /\ Goto(Outside, "idle")
        /\ DropCopy(Outside)
        /\ mem' = [mem EXCEPT ![m] = v]
        /\ known' = known \union {m}
        /\ unlisted' = unlisted \union ({m} \ known)
        /\ overtaken' \subseteq overtaken \union {m}
        /\ UNCHANGED <<newest, doomed, queue, writing, savesStarted, disk, tmp,
                       landed, stranded, goal, todo, edited, since>>
    BY <1>10 DEF OpenCopy, files, flushes
  <2>2. m \in SavedMacro /\ v \in CopyVersion
    BY <1>0, <2>1, Threads, JobParts DEF SaveTypeOK
  <2>. HIDE DEF m, v
  <2>3. SaveTypeOK'
    BY <1>0, <2>1, <2>2, Threads DEF SaveTypeOK, Goto, PC, DropCopy
  <2>4. Places'
    BY <1>0, <2>1, Threads DEF SaveTypeOK, Places, Goto
  <2>5. Holds'
    BY <1>0, <2>1, Threads
       DEF SaveTypeOK, Places, Holds, Busy, Writes, Saves, Goto
  <2>6. QED
    BY <2>3, <2>4, <2>5 DEF TypeInv
<1>11. QED
  BY <1>1, <1>2, <1>3, <1>4, <1>5, <1>6, <1>7, <1>8, <1>9, <1>10

LEMMA TypeStep == TypeInv /\ [SaveNext]_saveVars => TypeInv'
<1> SUFFICES ASSUME TypeInv, [SaveNext]_saveVars PROVE TypeInv'
  OBVIOUS
<1>1. CASE UNCHANGED saveVars
  BY <1>1 DEF saveVars, TypeInv, SaveTypeOK, Places, Holds, Busy, Writes, Saves
<1>2. CASE SaveNext
  BY <1>2, TypeCommand, TypeQueue, TypeWrite DEF SaveNext, SaveStep
<1>3. QED
  BY <1>1, <1>2

\* Every variable has its type, a thread that writes has something to write, and
\* one that flushes holds `writing`, with any mixture of threads.
THEOREM SaveTypes == SaveSpec => []SaveTypeOK
<1>1. TypeInv => SaveTypeOK
  BY DEF TypeInv
<1>2. QED
  BY TypeInit, TypeStep, <1>1, PTL DEF SaveSpec

-----------------------------------------------------------------------------
(* One writer at a time.  Before anything was queued nobody takes          *)
(* `writing`; then only the app may be saving, as long as no run that ends  *)
(* saves as well.                                                          *)

OneSaver == EndingRun = {} \/ Started = {TRUE}

MutexInv ==
  /\ EndingRun = {} \/ savesStarted
  /\ ~savesStarted => writing = NoThread /\ at[Saver] = "idle"
  /\ \A p \in Proc :
       Busy(p) => writing = p \/ (~savesStarted /\ p = App /\ goal[App] = "save")

LEMMA MutexInit == OneSaver /\ SaveInit => MutexInv
<1> SUFFICES ASSUME OneSaver, SaveInit PROVE MutexInv
  OBVIOUS
<1>1. EndingRun = {} \/ savesStarted
  <2>1. savesStarted \in Started
    BY DEF SaveInit
  <2>2. ASSUME Started = {TRUE} PROVE savesStarted = TRUE
    BY <2>1, <2>2
  <2>3. QED
    BY <2>2, Zenon DEF OneSaver
<1>2. writing = NoThread /\ \A p \in Proc : at[p] = "idle"
  BY DEF SaveInit
<1>3. QED
  BY <1>1, <1>2, Threads DEF MutexInv, Busy, Writes

\* While anybody writes or flushes, everybody else waits.
LEMMA Alone ==
  ASSUME MutexInv, NEW p \in Proc, Busy(p), NEW q \in Proc, Busy(q)
  PROVE  p = q
  BY Threads DEF MutexInv

\* Whoever gets to write is alone.
LEMMA Admitted ==
  ASSUME MutexInv, writing = NoThread, savesStarted, NEW p \in Proc
  PROVE  ~Busy(p)
  BY Threads DEF MutexInv

LEMMA MutexCommand ==
  ASSUME TypeInv, MutexInv, Command
  PROVE  MutexInv'
<1>1. \A p \in Proc : Saves(p) \/ ~Saves(p)
  OBVIOUS
<1>2. ASSUME NEW m \in SavedMacro, Edit(m) PROVE MutexInv'
  BY <1>2, Threads DEF MutexInv, Edit, StateLockFree, Busy, Writes, jobs,
                       files, flushes
<1>3. ASSUME UNCHANGED <<writing, savesStarted>>, NEW p \in Proc,
             at[p] = "idle", NEW to \in {"save", "flush"}, Goto(p, to), p # Saver,
             \A q \in Proc \ {p} : goal'[q] = goal[q]
      PROVE  MutexInv'
  <2>1. \A q \in Proc \ {p} : at'[q] = at[q]
    BY <1>3 DEF Goto, TypeInv, SaveTypeOK
  <2>2. at'[p] \in {"save", "flush"}
    BY <1>3 DEF Goto, TypeInv, SaveTypeOK
  <2>3. \A q \in Proc : Busy(q)' => q # p /\ Busy(q)
    BY <2>1, <2>2 DEF Busy, Writes
  <2>4. QED
    BY <1>3, <2>1, <2>3, Threads DEF MutexInv
<1>4. ASSUME NEW m \in SavedMacro, ChangeAndSave(m) \/ Delete(m) PROVE MutexInv'
  BY <1>3, <1>4, Threads
     DEF ChangeAndSave, Delete, StateLockFree, TypeInv, SaveTypeOK
<1>5. ASSUME NEW r \in EndingRun, NEW m \in SavedMacro, PersistVariables(r, m)
      PROVE  MutexInv'
  BY <1>3, <1>5, Threads DEF PersistVariables
<1>6. ASSUME NEW p \in {App, Outside, Exit}, NEW what, BeginFlush(p, what)
      PROVE  MutexInv'
  BY <1>3, <1>6, Threads DEF BeginFlush, TypeInv, SaveTypeOK
<1>7. QED
  BY <1>2, <1>4, <1>5, <1>6 DEF Command

LEMMA MutexQueue ==
  ASSUME TypeInv, MutexInv, NEW p \in Proc,
         \/ p = Saver /\ (Wake \/ TakeOne)
         \/ BeginSave(p) \/ Flush(p) \/ WriteNext(p) \/ EndFlush(p)
  PROVE  MutexInv'
<1>0. SaveTypeOK /\ Places
  BY DEF TypeInv
<1>1. goal' = goal /\ savesStarted' = savesStarted
  BY DEF Wake, TakeOne, BeginSave, Flush, WriteNext, EndFlush, jobs, flushes
<1>2. \A to : Goto(p, to) => \A q \in Proc : at'[q] = IF q = p THEN to ELSE at[q]
  BY <1>0 DEF Goto, SaveTypeOK
<1>3. ASSUME Wake, p = Saver PROVE MutexInv'
  BY <1>1, <1>2, <1>3, Threads DEF Wake, MutexInv, Busy, Writes
<1>4. ASSUME TakeOne, p = Saver PROVE MutexInv'
  <2>1. savesStarted /\ writing = NoThread
    BY <1>4 DEF TakeOne, MayWrite, MutexInv
  <2>2. \A q \in Proc : ~Busy(q)
    BY <2>1, Admitted
  <2>3. (writing' = writing /\ Goto(p, "idle")) \/ writing' = p
    BY <1>4 DEF TakeOne
  <2>4. \E to : Goto(p, to)
    BY <1>4 DEF TakeOne
  <2>5. QED
    BY <1>1, <1>2, <2>1, <2>2, <2>3, <2>4 DEF MutexInv, Busy, Writes
<1>5. ASSUME BeginSave(p) PROVE MutexInv'
  <2>1. Goto(p, "write") /\ (p = App \/ p \in EndingRun)
    BY <1>0, <1>5, Threads DEF BeginSave, Places
  <2>2. CASE savesStarted
    <3>1. writing = NoThread /\ writing' = p
      BY <1>5, <2>2 DEF BeginSave, MayWrite
    <3>2. \A q \in Proc : ~Busy(q)
      BY <2>2, <3>1, Admitted
    <3>3. QED
      BY <1>1, <1>2, <2>1, <2>2, <3>1, <3>2 DEF MutexInv, Busy, Writes
  <2>3. CASE ~savesStarted
    <3>1. writing' = writing /\ p = App /\ goal[p] = "save"
      BY <1>0, <1>5, <2>1, <2>3 DEF BeginSave, MutexInv, Places
    <3>2. QED
      BY <1>1, <1>2, <2>1, <2>3, <3>1, Threads DEF MutexInv, Busy, Writes
  <2>4. QED
    BY <2>2, <2>3
<1>6. ASSUME Flush(p) PROVE MutexInv'
  <2>1. CASE savesStarted
    <3>1. writing = NoThread /\ writing' = p /\ Goto(p, "drained")
      BY <1>6, <2>1 DEF Flush, MayWrite
    <3>2. \A q \in Proc : ~Busy(q)
      BY <2>1, <3>1, Admitted
    <3>3. QED
      BY <1>1, <1>2, <2>1, <3>1, <3>2 DEF MutexInv, Busy, Writes
  <2>2. CASE ~savesStarted
    <3>1. writing' = writing /\ Flushed(p) /\ at[p] = "flush"
      BY <1>6, <2>2 DEF Flush
    <3>2. PICK next \in {"reading", "removing", "gone"} : Flushes(p, next)
      BY <3>1, FlushedFlushes
    <3>3. Goto(p, next) /\ p # Saver
      BY <3>2, Threads DEF Flushes, Goto
    <3>4. QED
      BY <1>1, <1>2, <2>2, <3>1, <3>3, Threads DEF MutexInv, Busy, Writes
  <2>3. QED
    BY <2>1, <2>2
<1>7. ASSUME WriteNext(p) PROVE MutexInv'
  <2>1. Goto(p, "write") /\ at[p] = "drained" /\ writing' = writing
    BY <1>7 DEF WriteNext
  <2>2. p # Saver
    BY <1>0, <2>1 DEF Places
  <2>3. QED
    BY <1>1, <1>2, <2>1, <2>2, Threads DEF MutexInv, Busy, Writes
<1>8. ASSUME EndFlush(p) PROVE MutexInv'
  <2>1. at[p] = "drained" /\ Flushed(p) /\ writing' = NoThread /\ Busy(p)
    BY <1>8 DEF EndFlush, Busy
  <2>2. PICK next \in {"reading", "removing", "gone"} : Flushes(p, next)
    BY <2>1, FlushedFlushes
  <2>3. Goto(p, next) /\ p # Saver
    BY <2>2, Threads DEF Flushes, Goto
  <2>4. \A q \in Proc : Busy(q) => q = p
    BY <2>1, Alone
  <2>5. QED
    BY <1>1, <1>2, <2>1, <2>3, <2>4, Threads DEF MutexInv, Busy, Writes
<1>9. QED
  BY <1>3, <1>4, <1>5, <1>6, <1>7, <1>8

LEMMA MutexWrite ==
  ASSUME TypeInv, MutexInv, NEW p \in Proc,
         \/ WriteTmp(p) \/ WriteFails(p) \/ Unlink(p) \/ Rename(p)
         \/ ReplaceFails(p) \/ Read(p)
         \/ p = Outside /\ (ReadNeighbour \/ OpenCopy)
         \/ p = App /\ (RemoveFile \/ RemoveFails)
  PROVE  MutexInv'
<1>0. SaveTypeOK /\ Places
  BY DEF TypeInv
<1>1. savesStarted' = savesStarted
  BY DEF WriteTmp, WriteFails, Unlink, Rename, ReplaceFails, Read,
         ReadNeighbour, OpenCopy, RemoveFile, RemoveFails, RefreshList
<1>2. \A to : Goto(p, to) => \A q \in Proc : at'[q] = IF q = p THEN to ELSE at[q]
  BY <1>0 DEF Goto, SaveTypeOK
<1>3. ASSUME WriteTmp(p) \/ Unlink(p) PROVE MutexInv'
  <2>1. /\ Busy(p) /\ writing' = writing /\ goal' = goal
        /\ Goto(p, "unlink") \/ Goto(p, "rename")
        /\ p = Saver => at[Saver] # "idle"
    BY <1>3 DEF WriteTmp, Unlink, Busy, Writes, jobs, flushes
  <2>2. QED
    BY <1>1, <1>2, <2>1, Threads DEF MutexInv, Busy, Writes
<1>4. ASSUME WriteFails(p) \/ Rename(p) \/ ReplaceFails(p) PROVE MutexInv'
  <2>1. Writes(p) /\ Written(p) /\ goal' = goal
    BY <1>4 DEF WriteFails, Rename, ReplaceFails, Writes, jobs, flushes
  <2>2. PICK next \in {"drained", "idle", "gone"} : Leaves(p, next)
    BY <2>1, WrittenLeaves
  <2>3. Goto(p, next) /\ writing' \in {writing, NoThread}
    BY <2>2 DEF Leaves, Goto
  <2>4. \A q \in Proc : Busy(q) => q = p
    BY <2>1, Alone DEF Busy
  <2>5. \A q \in Proc : Busy(q)' => q = p /\ next = "drained"
    BY <1>2, <2>3, <2>4 DEF Busy, Writes
  <2>6. next = "drained" => writing' = p
    BY <2>2 DEF Leaves
  <2>7. ~savesStarted => writing' = NoThread /\ at'[Saver] = "idle"
    BY <1>2, <2>1, <2>3, Threads DEF MutexInv, Writes
  <2>8. QED
    BY <1>1, <2>5, <2>6, <2>7 DEF MutexInv
<1>5. ASSUME \/ Read(p)
             \/ p = Outside /\ (ReadNeighbour \/ OpenCopy)
             \/ p = App /\ (RemoveFile \/ RemoveFails)
      PROVE  MutexInv'
  <2>1. /\ at[p] \in {"reading", "opening", "removing"} /\ writing' = writing
        /\ Goto(p, "idle") \/ Goto(p, "opening") \/ Goto(p, "flush")
        /\ \A q \in Proc \ {p} : goal'[q] = goal[q]
    BY <1>0, <1>5
       DEF Read, ReadNeighbour, OpenCopy, RemoveFile, RemoveFails, RefreshList,
           jobs, flushes, SaveTypeOK
  <2>2. \A q \in Proc : Busy(q)' => q # p /\ Busy(q)
    BY <1>2, <2>1 DEF Busy, Writes
  <2>3. p # Saver
    BY <1>0, <2>1 DEF Places
  <2>4. QED
    BY <1>1, <1>2, <2>1, <2>2, <2>3, Threads DEF MutexInv
<1>6. QED
  BY <1>3, <1>4, <1>5

LEMMA MutexStep == TypeInv /\ MutexInv /\ [SaveNext]_saveVars => MutexInv'
<1> SUFFICES ASSUME TypeInv, MutexInv, [SaveNext]_saveVars PROVE MutexInv'
  OBVIOUS
<1>1. CASE UNCHANGED saveVars
  BY <1>1 DEF saveVars, MutexInv, Busy, Writes
<1>2. CASE SaveNext
  BY <1>2, MutexCommand, MutexQueue, MutexWrite DEF SaveNext, SaveStep
<1>3. QED
  BY <1>1, <1>2

-----------------------------------------------------------------------------
(* A complete copy at any time                                             *)

CopyInv ==
  /\ \A p \in Proc : Writes(p) \/ at[p] = "save" => job[p].version # NoCopy
  /\ \A p \in Proc :
       at[p] \in {"unlink", "rename"} => tmp[job[p].macro] = job[p].version
  /\ \A m \in Listed \ stranded :
       disk[m] # NoCopy \/ \E p \in Proc : at[p] = "rename" /\ job[p].macro = m

LEMMA CopyInit == SaveInit => CopyInv
  BY Versions DEF SaveInit, CopyInv, Writes, Listed

\* A thread that neither was nor is between its two files.
LEMMA CopyFrame ==
  ASSUME TypeInv, CopyInv, NEW p \in Proc,
         at[p] \notin {"unlink", "rename"}, at'[p] \notin {"unlink", "rename"},
         \A q \in Proc \ {p} : at'[q] = at[q] /\ job'[q] = job[q],
         at'[p] \in {"save", "write"} => job'[p].version # NoCopy,
         UNCHANGED <<tmp, stranded>>, Listed' \subseteq Listed,
         \A m \in Listed' : disk'[m] = disk[m]
  PROVE  CopyInv'
<1>1. \A q \in Proc : Writes(q)' \/ at'[q] = "save" => job'[q].version # NoCopy
  BY DEF CopyInv, Writes
<1>2. \A q \in Proc :
        at'[q] \in {"unlink", "rename"} => tmp'[job'[q].macro] = job'[q].version
  BY DEF CopyInv
<1>3. ASSUME NEW m \in Listed' \ stranded', disk'[m] = NoCopy
      PROVE  \E q \in Proc : at'[q] = "rename" /\ job'[q].macro = m
  <2>1. PICK q \in Proc : at[q] = "rename" /\ job[q].macro = m
    BY <1>3 DEF CopyInv
  <2>2. at'[q] = "rename" /\ job'[q].macro = m
    BY <2>1
  <2>3. QED
    BY <2>2
<1>4. QED
  BY <1>1, <1>2, <1>3 DEF CopyInv

LEMMA CopyCommand ==
  ASSUME TypeInv, CopyInv, Command
  PROVE  CopyInv'
<1>0. SaveTypeOK
  BY DEF TypeInv
<1>1. ASSUME NEW m \in SavedMacro, Edit(m) PROVE CopyInv'
  BY <1>1 DEF Edit, CopyInv, Writes, jobs, files, flushes, library, Listed
<1>2. ASSUME NEW p \in Proc, at[p] = "idle", NEW to \in {"save", "flush"},
             Goto(p, to), UNCHANGED <<tmp, stranded, known, unlisted, disk>>,
             \A q \in Proc \ {p} : job'[q] = job[q],
             to = "save" => job'[p].version # NoCopy
      PROVE  CopyInv'
  <2>1. at'[p] = to /\ \A q \in Proc \ {p} : at'[q] = at[q]
    BY <1>0, <1>2 DEF Goto, SaveTypeOK
  <2>2. QED
    BY <1>2, <2>1, CopyFrame DEF Listed
<1>3. \A m \in SavedMacro : newest[m] + 1 # NoCopy
  <2>1. \A m \in SavedMacro : newest[m] \in Nat
    BY <1>0, Versions DEF SaveTypeOK
  <2>2. \A v \in Nat : v + 1 # NoCopy
    BY Versions
  <2>3. QED
    BY <2>1, <2>2
<1>4. ASSUME NEW m \in SavedMacro, ChangeAndSave(m) PROVE CopyInv'
  <2>1. job'[App].version # NoCopy /\ \A q \in Proc \ {App} : job'[q] = job[q]
    BY <1>0, <1>3, <1>4, Threads DEF ChangeAndSave, SaveTypeOK
  <2>2. /\ Goto(App, "save") /\ at[App] = "idle"
        /\ UNCHANGED <<tmp, stranded, known, unlisted, disk>>
    BY <1>4 DEF ChangeAndSave, StateLockFree, files, library
  <2>3. QED
    BY <1>2, <2>1, <2>2, Threads
<1>5. ASSUME NEW m \in SavedMacro, Delete(m) PROVE CopyInv'
  BY <1>2, <1>5, Threads DEF Delete, StateLockFree, files
<1>6. ASSUME NEW r \in EndingRun, NEW m \in SavedMacro, PersistVariables(r, m)
      PROVE  CopyInv'
  <2>1. job'[r].version # NoCopy /\ \A q \in Proc \ {r} : job'[q] = job[q]
    BY <1>0, <1>3, <1>6, Threads DEF PersistVariables, SaveTypeOK
  <2>2. /\ Goto(r, "save") /\ at[r] = "idle"
        /\ UNCHANGED <<tmp, stranded, known, unlisted, disk>>
    BY <1>6 DEF PersistVariables, files, library
  <2>3. QED
    BY <1>2, <2>1, <2>2, Threads
<1>7. ASSUME NEW p \in {App, Outside, Exit}, NEW what, BeginFlush(p, what)
      PROVE  CopyInv'
  BY <1>2, <1>7, Threads DEF BeginFlush, files, memory, library
<1>8. QED
  BY <1>1, <1>4, <1>5, <1>6, <1>7 DEF Command

LEMMA CopyQueue ==
  ASSUME TypeInv, CopyInv, NEW p \in Proc,
         \/ p = Saver /\ (Wake \/ TakeOne)
         \/ BeginSave(p) \/ Flush(p) \/ WriteNext(p) \/ EndFlush(p)
  PROVE  CopyInv'
<1>0. SaveTypeOK
  BY DEF TypeInv
<1>1. UNCHANGED <<tmp, stranded, known, unlisted, disk>>
  BY DEF Wake, TakeOne, BeginSave, Flush, WriteNext, EndFlush, files, memory,
         library
<1>2. ASSUME NEW to \in PC \ {"unlink", "rename"}, Goto(p, to),
             at[p] \notin {"unlink", "rename"},
             \A q \in Proc \ {p} : job'[q] = job[q],
             to \in {"save", "write"} => job'[p].version # NoCopy
      PROVE  CopyInv'
  <2>1. at'[p] = to /\ \A q \in Proc \ {p} : at'[q] = at[q]
    BY <1>0, <1>2 DEF Goto, SaveTypeOK
  <2>2. QED
    BY <1>1, <1>2, <2>1, CopyFrame DEF Listed
<1>3. ASSUME Wake, p = Saver PROVE CopyInv'
  BY <1>2, <1>3 DEF Wake, PC, jobs, flushes
<1>4. ASSUME TakeOne, p = Saver PROVE CopyInv'
  <2>1. CASE Goto(Saver, "idle") /\ job' = job
    BY <1>2, <1>4, <2>1 DEF TakeOne, PC
  <2>2. ASSUME NEW m \in SavedMacro, queue[m] # NoCopy, Goto(Saver, "write"),
               job' = [job EXCEPT ![Saver] = [macro |-> m, version |-> queue[m]]]
        PROVE  CopyInv'
    <3>1. job'[p].version # NoCopy /\ \A q \in Proc \ {p} : job'[q] = job[q]
      BY <1>0, <1>4, <2>2 DEF SaveTypeOK
    <3>2. QED
      BY <1>2, <1>4, <2>2, <3>1 DEF TakeOne, PC
  <2>3. QED
    BY <1>4, <2>1, <2>2 DEF TakeOne
<1>5. ASSUME BeginSave(p) PROVE CopyInv'
  <2>1. at[p] = "save" /\ Goto(p, "write") /\ job' = job
    BY <1>5 DEF BeginSave, jobs, flushes
  <2>2. QED
    BY <1>2, <2>1 DEF CopyInv, PC
<1>6. ASSUME Flush(p) PROVE CopyInv'
  <2>1. at[p] = "flush" /\ job' = job
    BY <1>6 DEF Flush
  <2>2. CASE Goto(p, "drained")
    BY <1>2, <2>1, <2>2 DEF PC
  <2>3. CASE Flushed(p)
    <3>1. PICK next \in {"reading", "removing", "gone"} : Flushes(p, next)
      BY <2>1, <2>3, FlushedFlushes
    <3>2. QED
      BY <1>2, <2>1, <3>1 DEF Flushes, Goto, PC
  <2>4. QED
    BY <1>6, <2>2, <2>3 DEF Flush
<1>7. ASSUME WriteNext(p) PROVE CopyInv'
  <2>1. PICK m \in SavedMacro :
          /\ todo[p][m] # NoCopy
          /\ job' = [job EXCEPT ![p] = [macro |-> m, version |-> todo[p][m]]]
    BY <1>7 DEF WriteNext
  <2>2. job'[p].version # NoCopy /\ \A q \in Proc \ {p} : job'[q] = job[q]
    BY <1>0, <2>1 DEF SaveTypeOK
  <2>3. QED
    BY <1>2, <1>7, <2>2 DEF WriteNext, PC
<1>8. ASSUME EndFlush(p) PROVE CopyInv'
  <2>1. at[p] = "drained" /\ job' = job /\ Flushed(p)
    BY <1>8 DEF EndFlush, jobs, flushes
  <2>2. PICK next \in {"reading", "removing", "gone"} : Flushes(p, next)
    BY <2>1, FlushedFlushes
  <2>3. QED
    BY <1>2, <2>1, <2>2 DEF Flushes, Goto, PC
<1>9. QED
  BY <1>3, <1>4, <1>5, <1>6, <1>7, <1>8

LEMMA CopyWrite ==
  ASSUME TypeInv, MutexInv, CopyInv, NEW p \in Proc,
         \/ WriteTmp(p) \/ WriteFails(p) \/ Unlink(p) \/ Rename(p)
         \/ ReplaceFails(p)
  PROVE  CopyInv'
<1> DEFINE m == job[p].macro
<1>0. SaveTypeOK
  BY DEF TypeInv
<1>1. /\ Writes(p) /\ m \in SavedMacro /\ job[p].version # NoCopy
      /\ Listed \subseteq SavedMacro /\ Listed' = Listed
  BY <1>0, JobParts DEF WriteTmp, WriteFails, Unlink, Rename, ReplaceFails,
                        Writes, CopyInv, SaveTypeOK, memory, library, Listed
<1>2. \A q \in Proc : Busy(q) => q = p
  BY <1>1, Alone DEF Busy
<1>3. \A q \in Proc : Writes(q) \/ at[q] = "save" => job[q].version # NoCopy
  BY DEF CopyInv
<1>4. \A to : Goto(p, to) => \A q \in Proc : at'[q] = IF q = p THEN to ELSE at[q]
  BY <1>0 DEF Goto, SaveTypeOK
<1>5. \A q \in Proc \ {p} : ~Writes(q)
  BY <1>2 DEF Busy
<1>6. \A n \in Listed \ stranded : n # m \/ at[p] # "rename" => disk[n] # NoCopy
  BY <1>5 DEF CopyInv, Writes
<1>. HIDE DEF m
\* Whoever has done with its file leaves one for every macro it speaks of.
<1>7. ASSUME NEW next \in {"drained", "idle", "gone"}, Leaves(p, next),
             \A n \in Listed \ stranded' : disk'[n] # NoCopy
      PROVE  CopyInv'
  <2>1. /\ Goto(p, next)
        /\ \A q \in Proc \ {p} : job'[q] = job[q]
    BY <1>0, <1>7 DEF Leaves, Goto, SaveTypeOK
  <2>2. \A q \in Proc : ~Writes(q)'
    BY <1>4, <1>5, <1>7, <2>1 DEF Writes
  <2>3. \A q \in Proc : at'[q] = "save" => job'[q].version # NoCopy
    BY <1>3, <1>4, <1>7, <2>1
  <2>4. QED
    BY <1>1, <1>7, <2>2, <2>3 DEF CopyInv, Writes
<1>8. CASE WriteTmp(p)
  <2>1. /\ at[p] = "write" /\ Goto(p, "unlink") /\ UNCHANGED <<disk, job, stranded>>
        /\ tmp' = [tmp EXCEPT ![m] = job[p].version]
    BY <1>8 DEF WriteTmp, m, jobs
  <2>2. tmp'[job[p].macro] = job[p].version
    BY <1>0, <1>1, <2>1 DEF SaveTypeOK, m
  <2>3. QED
    BY <1>1, <1>3, <1>4, <1>5, <1>6, <2>1, <2>2 DEF CopyInv, Writes
<1>9. CASE WriteFails(p)
  <2>1. /\ at[p] = "write" /\ UNCHANGED <<disk, stranded>> /\ Written(p)
    BY <1>9 DEF WriteFails, AfterFailure
  <2>2. PICK next \in {"drained", "idle", "gone"} : Leaves(p, next)
    BY <1>1, <2>1, WrittenLeaves
  <2>3. QED
    BY <1>6, <1>7, <2>1, <2>2
<1>10. CASE Unlink(p)
  <2>1. /\ at[p] = "unlink" /\ Goto(p, "rename") /\ UNCHANGED <<tmp, job, stranded>>
        /\ disk' = [disk EXCEPT ![m] = NoCopy]
    BY <1>10 DEF Unlink, m, jobs
  <2>2. tmp[job[p].macro] = job[p].version
    BY <2>1 DEF CopyInv
  <2>3. \A n \in Listed \ stranded : n = m \/ disk'[n] # NoCopy
    BY <1>0, <1>1, <1>6, <2>1 DEF SaveTypeOK
  <2>4. at'[p] = "rename" /\ job'[p].macro = m
    BY <1>1, <1>4, <2>1 DEF m
  <2>5. QED
    BY <1>1, <1>3, <1>4, <1>5, <2>1, <2>2, <2>3, <2>4 DEF CopyInv, Writes
<1>11. CASE Rename(p)
  <2>1. at[p] = "rename" /\ Written(p)
    BY <1>11 DEF Rename
  <2>2. tmp[m] # NoCopy
    BY <1>1, <2>1 DEF CopyInv, m
  <2>3. disk' = [disk EXCEPT ![m] = tmp[m]] /\ stranded' = stranded \ {m}
    BY <1>11, <2>2 DEF Rename, m
  <2>4. PICK next \in {"drained", "idle", "gone"} : Leaves(p, next)
    BY <1>1, <2>1, WrittenLeaves
  <2>5. \A n \in Listed \ stranded' : disk'[n] # NoCopy
    BY <1>0, <1>1, <1>6, <2>2, <2>3 DEF SaveTypeOK
  <2>6. QED
    BY <1>7, <2>4, <2>5
<1>12. CASE ReplaceFails(p)
  <2>1. /\ disk' = disk /\ Written(p)
        /\ stranded' = IF at[p] = "rename" THEN stranded \union {m} ELSE stranded
    BY <1>12 DEF ReplaceFails, m
  <2>2. PICK next \in {"drained", "idle", "gone"} : Leaves(p, next)
    BY <1>1, <2>1, WrittenLeaves
  <2>3. \A n \in Listed \ stranded' : disk'[n] # NoCopy
    BY <1>6, <2>1
  <2>4. QED
    BY <1>7, <2>2, <2>3
<1>13. QED
  BY <1>8, <1>9, <1>10, <1>11, <1>12

LEMMA CopyRead ==
  ASSUME TypeInv, CopyInv, NEW p \in Proc,
         \/ Read(p)
         \/ p = Outside /\ (ReadNeighbour \/ OpenCopy)
         \/ p = App /\ (RemoveFile \/ RemoveFails)
  PROVE  CopyInv'
<1>0. SaveTypeOK
  BY DEF TypeInv
<1>1. /\ at[p] \in {"reading", "opening", "removing"} /\ UNCHANGED <<tmp, stranded>>
      /\ Goto(p, "idle") \/ Goto(p, "opening") \/ Goto(p, "flush")
      /\ \A q \in Proc \ {p} : job'[q] = job[q]
  BY <1>0 DEF Read, ReadNeighbour, OpenCopy, DropCopy, RemoveFile, RemoveFails,
              RefreshList, jobs, files, SaveTypeOK
<1>2. /\ at'[p] \in {"idle", "opening", "flush"}
      /\ \A q \in Proc \ {p} : at'[q] = at[q]
  BY <1>0, <1>1 DEF Goto, SaveTypeOK
<1>3. Listed' \subseteq Listed /\ \A m \in Listed' : disk'[m] = disk[m]
  <2>1. CASE Read(p) \/ RemoveFails \/ ReadNeighbour
    BY <2>1 DEF Read, RemoveFails, ReadNeighbour, RefreshList, files, memory,
                library, Listed
  <2>2. CASE OpenCopy
    BY <2>2 DEF OpenCopy, files, Listed
  <2>3. CASE RemoveFile
    BY <1>0, <2>3 DEF RemoveFile, SaveTypeOK, Listed
  <2>4. QED
    BY <2>1, <2>2, <2>3
<1>4. QED
  BY <1>1, <1>2, <1>3, CopyFrame

LEMMA CopyStep ==
  TypeInv /\ MutexInv /\ CopyInv /\ [SaveNext]_saveVars => CopyInv'
<1> SUFFICES ASSUME TypeInv, MutexInv, CopyInv, [SaveNext]_saveVars PROVE CopyInv'
  OBVIOUS
<1>1. CASE UNCHANGED saveVars
  BY <1>1 DEF saveVars, CopyInv, Writes, Listed
<1>2. CASE SaveNext
  BY <1>2, CopyCommand, CopyQueue, CopyWrite, CopyRead DEF SaveNext, SaveStep
<1>3. QED
  BY <1>1, <1>2

\* However saves, flushes and runs that end interleave, and whatever fails on the
\* way: a process that is killed leaves a complete copy of every macro behind, as
\* long as whoever saves takes `writing`, or only the app saves.  The exception is
\* the macro whose file was removed for a new one that could not be renamed.
THEOREM SomeCopySurvives ==
  ASSUME OneSaver
  PROVE  SaveSpec => []ACopySurvives
<1>1. TypeInv /\ CopyInv => ACopySurvives
  <2> SUFFICES ASSUME TypeInv, CopyInv, NEW m \in Listed \ stranded,
                      disk[m] = NoCopy
               PROVE  \E p \in Proc : /\ at[p] = "rename" /\ job[p].macro = m
                                      /\ tmp[m] = job[p].version
    BY DEF ACopySurvives
  <2>1. PICK p \in Proc : at[p] = "rename" /\ job[p].macro = m
    BY DEF CopyInv
  <2>2. QED
    BY <2>1 DEF CopyInv
<1>2. SaveInit => MutexInv
  BY MutexInit
<1>3. QED
  BY TypeInit, TypeStep, <1>2, MutexStep, CopyInit, CopyStep, <1>1, PTL
     DEF SaveSpec

-----------------------------------------------------------------------------
(* What is queued, drained or written is of macros that were not removed;  *)
(* while a command reads or removes files nothing is queued or on its way. *)

RemovalInv ==
  /\ \A m \in SavedMacro : queue[m] # NoCopy => m \in known /\ savesStarted
  /\ \A p \in Proc, m \in SavedMacro :
       todo[p][m] # NoCopy => m \in known /\ Busy(p) /\ p # Saver /\ ~Saves(p)
  /\ \A p \in Proc : Writes(p) \/ at[p] = "save" => job[p].macro \in known
  /\ RemovedStaysRemoved
  /\ Busy(App) /\ goal[App] # "save" => queue = Empty
  /\ at[App] \in {"reading", "removing"} =>
       queue = Empty /\ \A p \in Proc : ~Writes(p) /\ todo[p] = Empty

LEMMA NothingLeft ==
  ASSUME NEW f \in [SavedMacro -> CopyVersion]
  PROVE  (\A m \in SavedMacro : f[m] = NoCopy) <=> f = Empty
  BY DEF Empty

LEMMA RemovalInit == SaveInit => RemovalInv
  BY Threads DEF SaveInit, RemovalInv, Empty, Writes, Busy, RemovedStaysRemoved

LEMMA RemovalCommand ==
  ASSUME EndingRun = {}, TypeInv, RemovalInv, Command
  PROVE  RemovalInv'
<1>0. SaveTypeOK
  BY DEF TypeInv
<1>1. ASSUME NEW m \in SavedMacro, Edit(m) PROVE RemovalInv'
  <2>1. /\ at[App] = "idle" /\ m \in known /\ savesStarted'
        /\ \A n \in SavedMacro : n # m => queue'[n] = queue[n]
        /\ UNCHANGED <<known, disk, at, goal, job, todo>>
    BY <1>0, <1>1
       DEF Edit, StateLockFree, files, jobs, SaveTypeOK, flushes, library
  <2>2. QED
    BY <2>1, Threads DEF RemovalInv, Busy, Writes, Saves, RemovedStaysRemoved
<1>2. ASSUME NEW p \in {App, Outside, Exit}, at[p] = "idle",
             NEW to \in {"save", "flush"}, Goto(p, to),
             \A q \in Proc \ {p} : goal'[q] = goal[q] /\ job'[q] = job[q],
             to = "save" => job'[p].macro \in known,
             UNCHANGED <<known, disk, queue, todo, savesStarted>>
      PROVE  RemovalInv'
  <2>1. at'[p] = to /\ \A q \in Proc \ {p} : at'[q] = at[q]
    BY <1>0, <1>2, Threads DEF Goto, SaveTypeOK
  <2>2. \A n \in SavedMacro : todo[p][n] = NoCopy
    BY <1>2, Threads DEF RemovalInv, Busy, Writes
  <2>3. QED
    BY <1>2, <2>1, <2>2, Threads
       DEF RemovalInv, Busy, Writes, Saves, RemovedStaysRemoved
<1>3. ASSUME NEW m \in SavedMacro, ChangeAndSave(m) PROVE RemovalInv'
  <2>1. /\ at[App] = "idle" /\ Goto(App, "save") /\ m \in known
        /\ UNCHANGED <<known, disk, queue, todo, savesStarted>>
    BY <1>3 DEF ChangeAndSave, StateLockFree, files, library
  <2>2. /\ job'[App].macro = m
        /\ \A q \in Proc \ {App} : goal'[q] = goal[q] /\ job'[q] = job[q]
    BY <1>0, <1>3, Threads DEF ChangeAndSave, SaveTypeOK
  <2>3. QED
    BY <1>2, <2>1, <2>2
<1>4. ASSUME NEW m \in SavedMacro, Delete(m) PROVE RemovalInv'
  <2>1. /\ at[App] = "idle" /\ Goto(App, "flush") /\ job' = job
        /\ UNCHANGED <<known, disk, queue, todo, savesStarted>>
    BY <1>4 DEF Delete, StateLockFree, files
  <2>2. \A q \in Proc \ {App} : goal'[q] = goal[q]
    BY <1>0, <1>4, Threads DEF Delete, SaveTypeOK
  <2>3. QED
    BY <1>2, <2>1, <2>2
<1>5. ASSUME NEW p \in {App, Outside, Exit}, NEW what, BeginFlush(p, what)
      PROVE  RemovalInv'
  <2>1. /\ at[p] = "idle" /\ Goto(p, "flush") /\ job' = job
        /\ UNCHANGED <<known, disk, queue, todo, savesStarted>>
    BY <1>5 DEF BeginFlush, files, memory, library
  <2>2. \A q \in Proc \ {p} : goal'[q] = goal[q]
    BY <1>0, <1>5, Threads DEF BeginFlush, SaveTypeOK
  <2>3. QED
    BY <1>2, <2>1, <2>2
<1>6. QED
  BY <1>1, <1>3, <1>4, <1>5 DEF Command

LEMMA RemovalQueue ==
  ASSUME EndingRun = {}, TypeInv, MutexInv, RemovalInv, NEW p \in Proc,
         \/ p = Saver /\ (Wake \/ TakeOne)
         \/ BeginSave(p) \/ Flush(p) \/ WriteNext(p) \/ EndFlush(p)
  PROVE  RemovalInv'
<1>0. SaveTypeOK /\ Places
  BY DEF TypeInv
<1>1. UNCHANGED <<known, disk, savesStarted, goal>>
  BY DEF Wake, TakeOne, BeginSave, Flush, WriteNext, EndFlush, files, memory,
         jobs, library, flushes
<1>2. \A to : Goto(p, to) => \A q \in Proc : at'[q] = IF q = p THEN to ELSE at[q]
  BY <1>0 DEF Goto, SaveTypeOK
<1>3. \A q \in Proc : todo[q] \in [SavedMacro -> CopyVersion]
  BY <1>0 DEF SaveTypeOK
<1>4. \A f \in [SavedMacro -> CopyVersion] :
        (\A m \in SavedMacro : f[m] = NoCopy) <=> f = Empty
  BY NothingLeft
<1>5. queue \in [SavedMacro -> CopyVersion]
  BY <1>0 DEF SaveTypeOK
<1>6. \A m \in SavedMacro : Empty[m] = NoCopy
  BY DEF Empty
<1>7. ASSUME Wake, p = Saver PROVE RemovalInv'
  BY <1>1, <1>2, <1>7, Threads
     DEF Wake, RemovalInv, Busy, Writes, Saves, jobs, RemovedStaysRemoved, flushes
<1>8. ASSUME TakeOne, p = Saver PROVE RemovalInv'
  <2>1. todo' = todo /\ at[p] = "woken"
    BY <1>8 DEF TakeOne
  <2>2. CASE Goto(p, "idle") /\ UNCHANGED <<queue, job>>
    BY <1>1, <1>2, <1>8, <2>1, <2>2, Threads
       DEF RemovalInv, Busy, Writes, Saves, RemovedStaysRemoved
  <2>3. ASSUME NEW m \in SavedMacro, queue[m] # NoCopy, Goto(p, "write"),
               queue' = [queue EXCEPT ![m] = NoCopy],
               job' = [job EXCEPT ![p] = [macro |-> m, version |-> queue[m]]]
        PROVE  RemovalInv'
    <3>1. /\ m \in known /\ queue # Empty
          /\ at[App] \notin {"reading", "removing"}
          /\ ~(Busy(App) /\ goal[App] # "save")
      BY <1>6, <2>3 DEF RemovalInv
    <3>2. /\ job'[p].macro = m /\ \A q \in Proc \ {p} : job'[q] = job[q]
          /\ \A n \in SavedMacro : queue'[n] # NoCopy => queue[n] # NoCopy
      BY <1>0, <2>3 DEF SaveTypeOK
    <3>3. QED
      BY <1>1, <1>2, <1>8, <2>1, <2>3, <3>1, <3>2, Threads
         DEF RemovalInv, Busy, Writes, Saves, RemovedStaysRemoved
  <2>4. QED
    BY <1>8, <2>2, <2>3 DEF TakeOne
<1>9. ASSUME BeginSave(p) PROVE RemovalInv'
  <2>1. /\ at[p] = "save" /\ Goto(p, "write") /\ todo' = todo /\ job' = job
        /\ p = App /\ goal[App] = "save"
    BY <1>0, <1>9, Threads DEF BeginSave, Places, jobs, flushes
  <2>2. \A n \in SavedMacro : queue'[n] # NoCopy => queue[n] # NoCopy
    BY <1>0, <1>9 DEF BeginSave, AfterSave, SaveTypeOK
  <2>3. QED
    BY <1>1, <1>2, <2>1, <2>2, Threads
       DEF RemovalInv, Busy, Writes, Saves, RemovedStaysRemoved
<1>10. ASSUME Flush(p) PROVE RemovalInv'
  <2>1. /\ at[p] = "flush" /\ p \in {App, Outside, Exit} /\ job' = job
        /\ p = App => goal[App] # "save"
    BY <1>0, <1>10, Threads DEF Flush, Places
  <2>2. CASE savesStarted
    <3>1. Goto(p, "drained") /\ queue' = Empty /\ todo' = [todo EXCEPT ![p] = queue]
      BY <1>10, <2>2 DEF Flush, LeftQueued
    <3>2. todo'[p] = queue /\ \A q \in Proc \ {p} : todo'[q] = todo[q]
      BY <1>0, <3>1 DEF SaveTypeOK
    <3>3. QED
      BY <1>1, <1>2, <1>6, <2>1, <3>1, <3>2, Threads
         DEF RemovalInv, Busy, Writes, Saves, RemovedStaysRemoved
  <2>3. CASE ~savesStarted
    <3>1. Flushed(p) /\ UNCHANGED <<todo, queue>>
      BY <1>10, <2>3 DEF Flush
    <3>2. PICK next \in {"reading", "removing", "gone"} : Flushes(p, next)
      BY <2>1, <3>1, FlushedFlushes
    <3>3. Goto(p, next)
      BY <3>2 DEF Flushes, Goto
    <3>4. queue = Empty
      BY <1>4, <1>5, <2>3 DEF RemovalInv
    <3>5. ASSUME p = App, NEW q \in Proc PROVE ~Busy(q) /\ todo[q] = Empty
      <4>1. ~Busy(q)
        BY <2>1, <2>3, <3>5, Threads DEF MutexInv, Busy, Writes
      <4>2. QED
        BY <1>3, <1>4, <4>1 DEF RemovalInv
    <3>6. QED
      BY <1>1, <1>2, <2>1, <3>1, <3>2, <3>3, <3>4, <3>5, Threads
         DEF RemovalInv, Busy, Writes, Saves, RemovedStaysRemoved
  <2>4. QED
    BY <2>2, <2>3
<1>11. ASSUME WriteNext(p) PROVE RemovalInv'
  <2>1. at[p] = "drained" /\ Goto(p, "write") /\ queue' = queue
    BY <1>11 DEF WriteNext
  <2>2. PICK m \in SavedMacro :
          /\ todo[p][m] # NoCopy
          /\ todo' = [todo EXCEPT ![p][m] = NoCopy]
          /\ job' = [job EXCEPT ![p] = [macro |-> m, version |-> todo[p][m]]]
    BY <1>11 DEF WriteNext
  <2>3. /\ job'[p].macro = m /\ \A q \in Proc \ {p} : job'[q] = job[q]
        /\ \A q \in Proc, n \in SavedMacro :
             todo'[q][n] # NoCopy => todo[q][n] # NoCopy
    BY <1>0, <2>2 DEF SaveTypeOK
  <2>4. m \in known /\ at[App] \notin {"reading", "removing"} /\ ~Saves(p)
    BY <1>6, <2>2 DEF RemovalInv
  <2>5. QED
    BY <1>1, <1>2, <2>1, <2>3, <2>4, Threads
       DEF RemovalInv, Busy, Writes, Saves, RemovedStaysRemoved
<1>12. ASSUME EndFlush(p) PROVE RemovalInv'
  <2>1. /\ at[p] = "drained" /\ Flushed(p) /\ Busy(p) /\ todo[p] = Empty
        /\ UNCHANGED <<queue, job, todo>>
    BY <1>12 DEF EndFlush, AllWritten, Busy, jobs, flushes
  <2>2. PICK next \in {"reading", "removing", "gone"} : Flushes(p, next)
    BY <2>1, FlushedFlushes
  <2>3. Goto(p, next)
    BY <2>2 DEF Flushes, Goto
  <2>4. \A q \in Proc \ {p} : ~Busy(q) /\ todo[q] = Empty
    <3>1. TAKE q \in Proc \ {p}
    <3>2. ~Busy(q)
      BY <2>1, Alone
    <3>3. QED
      BY <1>3, <1>4, <3>2 DEF RemovalInv
  <2>5. p = App => queue = Empty
    BY <1>0, <2>1 DEF RemovalInv, Places
  <2>6. QED
    BY <1>1, <1>2, <1>6, <2>1, <2>2, <2>3, <2>4, <2>5, Threads
       DEF RemovalInv, Busy, Writes, Saves, RemovedStaysRemoved
<1>13. QED
  BY <1>7, <1>8, <1>9, <1>10, <1>11, <1>12

LEMMA RemovalWrite ==
  ASSUME EndingRun = {}, TypeInv, MutexInv, RemovalInv, NEW p \in Proc,
         \/ WriteTmp(p) \/ WriteFails(p) \/ Unlink(p) \/ Rename(p)
         \/ ReplaceFails(p)
  PROVE  RemovalInv'
<1>0. SaveTypeOK /\ Places
  BY DEF TypeInv
<1>1. /\ UNCHANGED <<known, savesStarted, goal, queue, todo>> /\ Writes(p)
  BY DEF WriteTmp, WriteFails, Unlink, Rename, ReplaceFails, memory, jobs,
         Writes, library, flushes
<1>2. \A to : Goto(p, to) => \A q \in Proc : at'[q] = IF q = p THEN to ELSE at[q]
  BY <1>0 DEF Goto, SaveTypeOK
<1>3. /\ job[p].macro \in known
      /\ at[App] \notin {"reading", "removing"}
  BY <1>1 DEF RemovalInv
<1>4. \A m \in SavedMacro \ known : disk'[m] = NoCopy
  <2>1. \A m \in SavedMacro : m # job[p].macro => disk'[m] = disk[m]
    BY <1>0 DEF WriteTmp, WriteFails, AfterFailure, Unlink, Rename,
                ReplaceFails, files, SaveTypeOK
  <2>2. QED
    BY <1>3, <2>1 DEF RemovalInv, RemovedStaysRemoved
<1>5. CASE WriteTmp(p) \/ Unlink(p)
  <2>1. (Goto(p, "unlink") \/ Goto(p, "rename")) /\ job' = job
    BY <1>5 DEF WriteTmp, Unlink, jobs
  <2>2. QED
    BY <1>1, <1>2, <1>3, <1>4, <2>1, Threads
       DEF RemovalInv, Busy, Writes, Saves, RemovedStaysRemoved
<1>6. CASE WriteFails(p) \/ Rename(p) \/ ReplaceFails(p)
  <2>1. PICK next \in {"drained", "idle", "gone"} : Leaves(p, next)
    BY <1>1, <1>6, WrittenLeaves DEF WriteFails, Rename, ReplaceFails
  <2>2. /\ Goto(p, next) /\ (p # Saver /\ ~Saves(p) => next = "drained")
        /\ \A q \in Proc \ {p} : job'[q] = job[q]
    BY <1>0, <2>1, Threads DEF Leaves, Goto, Saves, SaveTypeOK
  <2>3. QED
    BY <1>1, <1>2, <1>3, <1>4, <2>1, <2>2, Threads
       DEF RemovalInv, Busy, Writes, Saves, RemovedStaysRemoved
<1>7. QED
  BY <1>5, <1>6

LEMMA RemovalRead ==
  ASSUME EndingRun = {}, TypeInv, RemovalInv, NEW p \in Proc,
         \/ Read(p)
         \/ p = Outside /\ (ReadNeighbour \/ OpenCopy)
         \/ p = App /\ (RemoveFile \/ RemoveFails)
  PROVE  RemovalInv'
<1>0. SaveTypeOK /\ Places
  BY DEF TypeInv
<1>1. /\ UNCHANGED <<savesStarted, queue, todo>>
      /\ at[p] \in {"reading", "opening", "removing"}
      /\ \A q \in Proc \ {p} : job'[q] = job[q]
  BY <1>0 DEF Read, ReadNeighbour, OpenCopy, DropCopy, RemoveFile, RemoveFails,
              RefreshList, files, memory, jobs, library, flushes, SaveTypeOK
<1>2. \A to : Goto(p, to) => \A q \in Proc : at'[q] = IF q = p THEN to ELSE at[q]
  BY <1>0 DEF Goto, SaveTypeOK
<1>3. \A m \in SavedMacro : Empty[m] = NoCopy
  BY DEF Empty
<1>4. CASE Read(p)
  <2>1. UNCHANGED <<known, disk, goal>> /\ Goto(p, "idle")
    BY <1>1, <1>4 DEF Read, files, jobs, flushes, library
  <2>2. QED
    BY <1>1, <1>2, <2>1, Threads
       DEF RemovalInv, Busy, Writes, Saves, RemovedStaysRemoved
<1>5. CASE RemoveFile /\ p = App
  <2>1. /\ Goto(p, "flush") /\ known \ doomed \subseteq known'
        /\ \A m \in SavedMacro : disk'[m] = IF m \in doomed THEN NoCopy ELSE disk[m]
        /\ \A q \in Proc \ {p} : goal'[q] = goal[q]
    BY <1>0, <1>5 DEF RemoveFile, RefreshList, SaveTypeOK
  <2>2. /\ \A m \in SavedMacro : queue[m] = NoCopy
        /\ \A q \in Proc : ~Writes(q) /\ \A m \in SavedMacro : todo[q][m] = NoCopy
    BY <1>1, <1>3, <1>5 DEF RemovalInv, RemoveFile
  <2>3. \A q \in Proc : ~Writes(q)' /\ at'[q] # "save"
    <3>1. \A q \in Proc : at[q] = "save" => q = App
      BY <1>0, Threads DEF Places
    <3>2. QED
      BY <1>2, <1>5, <2>1, <2>2, <3>1 DEF Writes
  <2>4. RemovedStaysRemoved'
    BY <2>1 DEF RemovalInv, RemovedStaysRemoved
  <2>5. at'[App] = "flush"
    BY <1>2, <1>5, <2>1, Threads
  <2>6. QED
    BY <1>1, <2>2, <2>3, <2>4, <2>5 DEF RemovalInv, Busy, Writes
<1>6. CASE RemoveFails /\ p = App
  <2>1. UNCHANGED <<known, disk>> /\ (Goto(p, "flush") \/ Goto(p, "idle"))
    BY <1>6 DEF RemoveFails, RefreshList, files
  <2>2. /\ \A m \in SavedMacro : queue[m] = NoCopy
        /\ \A q \in Proc : ~Writes(q) /\ \A m \in SavedMacro : todo[q][m] = NoCopy
    BY <1>1, <1>3, <1>6 DEF RemovalInv, RemoveFails
  <2>3. at'[App] \in {"flush", "idle"}
    BY <1>2, <1>6, <2>1, Threads
  <2>4. \A q \in Proc : ~Writes(q)' /\ at'[q] # "save"
    <3>1. \A q \in Proc : at[q] = "save" => q = App
      BY <1>0, Threads DEF Places
    <3>2. QED
      BY <1>2, <1>6, <2>1, <2>2, <3>1 DEF Writes
  <2>5. RemovedStaysRemoved'
    BY <2>1 DEF RemovalInv, RemovedStaysRemoved
  <2>6. QED
    BY <1>1, <2>1, <2>2, <2>3, <2>4, <2>5 DEF RemovalInv, Busy, Writes
<1>7. CASE p = Outside /\ (ReadNeighbour \/ OpenCopy)
  <2>1. /\ UNCHANGED <<disk, goal>> /\ known \subseteq known'
        /\ Goto(p, "idle") \/ Goto(p, "opening")
    BY <1>7 DEF ReadNeighbour, OpenCopy, files, memory, library, flushes
  <2>2. /\ at'[p] \in {"idle", "opening"}
        /\ \A q \in Proc \ {p} : at'[q] = at[q]
    BY <1>2, <2>1
  <2>3. RemovedStaysRemoved'
    BY <2>1 DEF RemovalInv, RemovedStaysRemoved
  <2>4. \A q \in Proc : /\ Writes(q)' <=> Writes(q)
                        /\ at'[q] = "save" <=> at[q] = "save"
                        /\ Busy(q)' <=> Busy(q)
    BY <1>1, <2>2 DEF Writes, Busy
  <2>5. \A q \in Proc : Writes(q) \/ at[q] = "save" => q # p
    BY <1>1 DEF Writes
  <2>6. QED
    BY <1>1, <1>7, <2>1, <2>2, <2>3, <2>4, <2>5, Threads
       DEF RemovalInv, Saves
<1>8. QED
  BY <1>4, <1>5, <1>6, <1>7

LEMMA RemovalStep ==
  ASSUME EndingRun = {}
  PROVE  TypeInv /\ MutexInv /\ RemovalInv /\ [SaveNext]_saveVars => RemovalInv'
<1> SUFFICES ASSUME TypeInv, MutexInv, RemovalInv, [SaveNext]_saveVars
             PROVE  RemovalInv'
  OBVIOUS
<1>1. CASE UNCHANGED saveVars
  BY <1>1 DEF saveVars, RemovalInv, Busy, Writes, Saves, RemovedStaysRemoved
<1>2. CASE SaveNext
  BY <1>2, RemovalCommand, RemovalQueue, RemovalWrite, RemovalRead
     DEF SaveNext, SaveStep
<1>3. QED
  BY <1>1, <1>2

\* The file of a macro the app has no more does not come back, neither from the
\* queue nor from a write on its way, as long as no run that ends saves an older
\* copy; what is opened again, or still open, the app has.
THEOREM RemovedFilesStayRemoved ==
  ASSUME EndingRun = {}
  PROVE  SaveSpec => []RemovedStaysRemoved
<1>1. OneSaver
  BY DEF OneSaver
<1>2. SaveInit => MutexInv
  BY <1>1, MutexInit
<1>3. TypeInv /\ MutexInv /\ RemovalInv /\ [SaveNext]_saveVars => RemovalInv'
  BY RemovalStep
<1>4. RemovalInv => RemovedStaysRemoved
  BY DEF RemovalInv
<1>5. QED
  BY TypeInit, TypeStep, <1>2, MutexStep, RemovalInit, <1>3, <1>4,
     PTL DEF SaveSpec

-----------------------------------------------------------------------------
(* What is stored of a macro is no newer than what is on its way to the    *)
(* file, and that no newer than what is queued.                            *)

Timely(m, v) ==
  /\ landed[m] <= v /\ v <= newest[m]
  /\ queue[m] # NoCopy => v <= queue[m]

\* The app in a direct save, under its state lock.
Saving == at[App] = "save" \/ (Writes(App) /\ goal[App] = "save")

OrderInv ==
  /\ \A m \in SavedMacro : landed[m] <= newest[m] /\ edited[m] <= newest[m]
  /\ \A m \in SavedMacro :
       queue[m] # NoCopy => landed[m] <= queue[m] /\ queue[m] <= newest[m]
  /\ \A p \in Proc, m \in SavedMacro :
       todo[p][m] # NoCopy => Timely(m, todo[p][m])
  /\ \A p \in Proc :
       Writes(p) => /\ Timely(job[p].macro, job[p].version)
                    /\ todo[p][job[p].macro] = NoCopy
  /\ Saving => /\ newest[job[App].macro] = job[App].version
               /\ mem[job[App].macro] = job[App].version

LEMMA Numbers ==
  ASSUME SaveTypeOK
  PROVE  /\ \A m \in SavedMacro :
              /\ newest[m] \in Nat /\ mem[m] \in Nat /\ queue[m] \in Nat
              /\ disk[m] \in Nat /\ tmp[m] \in Nat /\ landed[m] \in Nat
              /\ edited[m] \in Nat
         /\ \A p \in Proc, m \in SavedMacro :
              todo[p][m] \in Nat /\ since[p][m] \in Nat
         /\ \A p \in Proc : job[p] \in Job => job[p].version \in Nat
         /\ \A p \in Proc : Writes(p) \/ at[p] = "save" =>
              job[p] \in Job /\ job[p].macro \in SavedMacro
  BY Versions, JobParts DEF SaveTypeOK, Writes

LEMMA OrderInit == SaveInit => OrderInv
  BY Threads, Versions DEF SaveInit, OrderInv, Saving, Writes, Empty

\* Steps that put nothing new on its way.
LEMMA OrderFrame ==
  ASSUME OrderInv, UNCHANGED <<newest, landed, edited>>,
         \A m \in SavedMacro : queue'[m] # NoCopy => queue'[m] = queue[m],
         \A p \in Proc, m \in SavedMacro :
           todo'[p][m] # NoCopy => todo'[p][m] = todo[p][m],
         \A p \in Proc : Writes(p)' => Writes(p) /\ job'[p] = job[p],
         Saving' => Saving /\ mem' = mem /\ job'[App] = job[App],
         SaveTypeOK
  PROVE  OrderInv'
<1>1. \A m \in SavedMacro : \A v : Timely(m, v) =>
        /\ landed'[m] <= v /\ v <= newest'[m]
        /\ queue'[m] # NoCopy => v <= queue'[m]
  BY DEF Timely
<1>2. \A p \in Proc : Writes(p) => job[p].macro \in SavedMacro
  BY Numbers
<1>3. \A m \in SavedMacro : landed'[m] <= newest'[m] /\ edited'[m] <= newest'[m]
  BY DEF OrderInv
<1>4. \A m \in SavedMacro :
        queue'[m] # NoCopy => landed'[m] <= queue'[m] /\ queue'[m] <= newest'[m]
  BY DEF OrderInv
<1>5. \A p \in Proc, m \in SavedMacro :
        todo'[p][m] # NoCopy => Timely(m, todo[p][m])'
  BY <1>1 DEF OrderInv, Timely
<1>6. \A p \in Proc :
        Writes(p)' => /\ Timely(job[p].macro, job[p].version)'
                      /\ todo'[p][job'[p].macro] = NoCopy
  BY <1>1, <1>2 DEF OrderInv, Timely
<1>7. Saving' => /\ newest'[job'[App].macro] = job'[App].version
                 /\ mem'[job'[App].macro] = job'[App].version
  BY DEF OrderInv
<1>8. QED
  BY <1>3, <1>4, <1>5, <1>6, <1>7 DEF OrderInv

LEMMA OrderCommand ==
  ASSUME EndingRun = {}, TypeInv, OrderInv, Command
  PROVE  OrderInv'
<1>0. SaveTypeOK
  BY DEF TypeInv
<1>1. /\ \A m \in SavedMacro :
           newest[m] \in Nat /\ queue[m] \in Nat /\ landed[m] \in Nat
             /\ edited[m] \in Nat
      /\ \A p \in Proc, m \in SavedMacro : todo[p][m] \in Nat
      /\ \A p \in Proc :
           Writes(p) => job[p].version \in Nat /\ job[p].macro \in SavedMacro
  BY <1>0, Numbers
<1>2. \A p \in Proc : \A to : Goto(p, to) =>
        \A q \in Proc : at'[q] = IF q = p THEN to ELSE at[q]
  BY <1>0 DEF Goto, SaveTypeOK
<1>3. ASSUME NEW m \in SavedMacro, Edit(m) PROVE OrderInv'
  <2>1. /\ at[App] = "idle"
        /\ newest' = [newest EXCEPT ![m] = @ + 1]
        /\ queue' = [queue EXCEPT ![m] = newest'[m]]
        /\ edited' = [edited EXCEPT ![m] = newest'[m]]
        /\ UNCHANGED <<landed, todo, at, goal, job>>
    BY <1>3 DEF Edit, Queued, StateLockFree, files, jobs, flushes
  <2>2. /\ newest'[m] = newest[m] + 1 /\ queue'[m] = newest[m] + 1
        /\ edited'[m] = newest[m] + 1
        /\ \A n \in SavedMacro : n # m =>
             newest'[n] = newest[n] /\ queue'[n] = queue[n] /\ edited'[n] = edited[n]
    BY <1>0, <2>1 DEF SaveTypeOK
  <2>3. \A n \in SavedMacro, v \in Nat :
          Timely(n, v) => /\ landed'[n] <= v /\ v <= newest'[n]
                          /\ queue'[n] # NoCopy => v <= queue'[n]
    BY <1>1, <2>1, <2>2 DEF Timely
  <2>4. \A p \in Proc, n \in SavedMacro :
          todo'[p][n] # NoCopy => Timely(n, todo[p][n])'
    BY <1>1, <2>1, <2>3 DEF OrderInv, Timely
  <2>5. \A p \in Proc :
          Writes(p)' => /\ Timely(job[p].macro, job[p].version)'
                        /\ todo'[p][job'[p].macro] = NoCopy
    BY <1>1, <2>1, <2>3 DEF OrderInv, Timely, Writes
  <2>6. ~Saving'
    BY <2>1 DEF Saving, Writes
  <2>7. \A n \in SavedMacro : landed'[n] <= newest'[n] /\ edited'[n] <= newest'[n]
    BY <1>1, <2>1, <2>2 DEF OrderInv
  <2>8. \A n \in SavedMacro :
          queue'[n] # NoCopy => landed'[n] <= queue'[n] /\ queue'[n] <= newest'[n]
    BY <1>1, <2>1, <2>2 DEF OrderInv
  <2>9. QED
    BY <2>4, <2>5, <2>6, <2>7, <2>8 DEF OrderInv
<1>4. ASSUME NEW m \in SavedMacro, ChangeAndSave(m) PROVE OrderInv'
  <2>1. /\ at[App] = "idle" /\ Goto(App, "save")
        /\ newest' = [newest EXCEPT ![m] = @ + 1]
        /\ mem' = [mem EXCEPT ![m] = newest'[m]]
        /\ job' = [job EXCEPT ![App] = [macro |-> m, version |-> newest'[m]]]
        /\ UNCHANGED <<landed, todo, queue, edited>>
    BY <1>4 DEF ChangeAndSave, StateLockFree, files
  <2>2. /\ newest'[m] = newest[m] + 1 /\ mem'[m] = newest'[m]
        /\ \A n \in SavedMacro : n # m => newest'[n] = newest[n]
        /\ job'[App] = [macro |-> m, version |-> newest'[m]]
        /\ \A q \in Proc \ {App} : job'[q] = job[q]
    BY <1>0, <2>1, Threads DEF SaveTypeOK
  <2>3. \A n \in SavedMacro, v \in Nat :
          Timely(n, v) => /\ landed'[n] <= v /\ v <= newest'[n]
                          /\ queue'[n] # NoCopy => v <= queue'[n]
    BY <1>1, <2>1, <2>2 DEF Timely
  <2>4. \A p \in Proc, n \in SavedMacro :
          todo'[p][n] # NoCopy => Timely(n, todo[p][n])'
    BY <1>1, <2>1, <2>3 DEF OrderInv, Timely
  <2>5. \A p \in Proc : Writes(p)' => Writes(p) /\ p # App
    BY <1>2, <2>1, Threads DEF Writes
  <2>6. \A p \in Proc :
          Writes(p)' => /\ Timely(job[p].macro, job[p].version)'
                        /\ todo'[p][job'[p].macro] = NoCopy
    BY <1>1, <2>1, <2>2, <2>3, <2>5 DEF OrderInv, Timely
  <2>7. /\ newest'[job'[App].macro] = job'[App].version
        /\ mem'[job'[App].macro] = job'[App].version
    BY <2>2
  <2>8. \A n \in SavedMacro : landed'[n] <= newest'[n] /\ edited'[n] <= newest'[n]
    BY <1>1, <2>1, <2>2 DEF OrderInv
  <2>9. \A n \in SavedMacro :
          queue'[n] # NoCopy => landed'[n] <= queue'[n] /\ queue'[n] <= newest'[n]
    BY <1>1, <2>1, <2>2 DEF OrderInv
  <2>10. QED
    BY <2>4, <2>6, <2>7, <2>8, <2>9 DEF OrderInv
<1>5. ASSUME NEW p \in Proc, at[p] = "idle", Goto(p, "flush"),
             UNCHANGED <<newest, mem, landed, edited, queue, todo, job>>,
             \A q \in Proc \ {p} : goal'[q] = goal[q]
      PROVE  OrderInv'
  <2>1. \A q \in Proc : Writes(q)' => Writes(q)
    BY <1>2, <1>5 DEF Writes
  <2>2. Saving' => Saving
    BY <1>2, <1>5, Threads DEF Saving, Writes
  <2>3. QED
    BY <1>0, <1>5, <2>1, <2>2, OrderFrame
<1>6. ASSUME NEW m \in SavedMacro, Delete(m) PROVE OrderInv'
  BY <1>0, <1>5, <1>6, Threads DEF Delete, StateLockFree, files, SaveTypeOK
<1>7. ASSUME NEW p \in {App, Outside, Exit}, NEW what, BeginFlush(p, what)
      PROVE  OrderInv'
  BY <1>0, <1>5, <1>7, Threads DEF BeginFlush, files, memory, SaveTypeOK, library
<1>8. QED
  BY <1>3, <1>4, <1>6, <1>7 DEF Command

LEMMA OrderQueue ==
  ASSUME EndingRun = {}, TypeInv, MutexInv, RemovalInv, OrderInv, NEW p \in Proc,
         \/ p = Saver /\ (Wake \/ TakeOne)
         \/ BeginSave(p) \/ Flush(p) \/ WriteNext(p) \/ EndFlush(p)
  PROVE  OrderInv'
<1>0. SaveTypeOK /\ Places
  BY DEF TypeInv
<1>1. UNCHANGED <<newest, mem, landed, edited, savesStarted, goal>>
  BY DEF Wake, TakeOne, BeginSave, Flush, WriteNext, EndFlush, files, memory,
         jobs, library, flushes
<1>2. \A to : Goto(p, to) => \A q \in Proc : at'[q] = IF q = p THEN to ELSE at[q]
  BY <1>0 DEF Goto, SaveTypeOK
<1>3. /\ \A m \in SavedMacro :
           newest[m] \in Nat /\ queue[m] \in Nat /\ landed[m] \in Nat
      /\ \A q \in Proc, m \in SavedMacro : todo[q][m] \in Nat
      /\ \A q \in Proc : Writes(q) \/ at[q] = "save" =>
           job[q].version \in Nat /\ job[q].macro \in SavedMacro
  BY <1>0, Numbers
\* A thread that was not writing and is not now.
<1>4. ASSUME NEW to \in {"idle", "woken", "drained", "reading", "removing", "gone"},
             Goto(p, to), at[p] \in {"idle", "woken", "flush", "drained"},
             \A m \in SavedMacro : queue'[m] # NoCopy => queue'[m] = queue[m],
             \A q \in Proc, m \in SavedMacro :
               todo'[q][m] # NoCopy => todo'[q][m] = todo[q][m],
             job' = job
      PROVE  OrderInv'
  <2>1. \A q \in Proc : Writes(q)' => Writes(q)
    BY <1>2, <1>4 DEF Writes
  <2>2. Saving' => Saving
    BY <1>1, <1>2, <1>4, <2>1, Threads DEF Saving
  <2>3. QED
    BY <1>0, <1>1, <1>4, <2>1, <2>2, OrderFrame
<1>5. ASSUME Wake, p = Saver PROVE OrderInv'
  BY <1>4, <1>5 DEF Wake, jobs, flushes
<1>6. ASSUME TakeOne, p = Saver PROVE OrderInv'
  <2>1. todo' = todo /\ at[p] = "woken"
    BY <1>6 DEF TakeOne
  <2>2. CASE Goto(p, "idle") /\ UNCHANGED <<queue, job>>
    BY <1>4, <2>1, <2>2
  <2>3. ASSUME NEW m \in SavedMacro, queue[m] # NoCopy, Goto(p, "write"),
               queue' = [queue EXCEPT ![m] = NoCopy],
               job' = [job EXCEPT ![p] = [macro |-> m, version |-> queue[m]]]
        PROVE  OrderInv'
    <3>1. /\ job'[p].macro = m /\ job'[p].version = queue[m]
          /\ \A q \in Proc \ {p} : job'[q] = job[q]
          /\ queue'[m] = NoCopy
          /\ \A n \in SavedMacro : n # m => queue'[n] = queue[n]
      BY <1>0, <2>3 DEF SaveTypeOK
    <3>2. \A n \in SavedMacro : \A v : Timely(n, v) =>
          /\ landed'[n] <= v /\ v <= newest'[n]
          /\ queue'[n] # NoCopy => v <= queue'[n]
      BY <1>1, <3>1 DEF Timely
    <3>3. /\ Timely(job[p].macro, job[p].version)'
          /\ todo'[p][job'[p].macro] = NoCopy
      <4>1. landed[m] <= queue[m] /\ queue[m] <= newest[m]
        BY <2>3 DEF OrderInv
      <4>2. todo[p][m] = NoCopy
        BY <1>6 DEF RemovalInv
      <4>3. QED
        BY <1>1, <2>1, <3>1, <4>1, <4>2 DEF Timely
    <3>4. \A q \in Proc \ {p} : Writes(q)' => Writes(q)
      BY <1>2, <2>3 DEF Writes
    <3>5. Saving' => Saving
      BY <1>1, <1>2, <1>6, <2>3, Threads DEF Saving, Writes
    <3>6. \A q \in Proc, n \in SavedMacro :
            todo'[q][n] # NoCopy => Timely(n, todo[q][n])'
      BY <2>1, <3>2 DEF OrderInv, Timely
    <3>7. \A q \in Proc :
            Writes(q)' => /\ Timely(job[q].macro, job[q].version)'
                          /\ todo'[q][job'[q].macro] = NoCopy
      BY <1>3, <2>1, <3>1, <3>2, <3>3, <3>4 DEF OrderInv, Timely
    <3>8. \A n \in SavedMacro :
            queue'[n] # NoCopy => landed'[n] <= queue'[n] /\ queue'[n] <= newest'[n]
      BY <1>1, <3>1 DEF OrderInv
    <3>9. Saving' => /\ newest'[job'[App].macro] = job'[App].version
                     /\ mem'[job'[App].macro] = job'[App].version
      BY <1>1, <1>6, <3>1, <3>5, Threads DEF OrderInv
    <3>10. QED
      BY <1>1, <3>6, <3>7, <3>8, <3>9 DEF OrderInv
  <2>4. QED
    BY <1>6, <2>2, <2>3 DEF TakeOne
<1>7. ASSUME BeginSave(p) PROVE OrderInv'
  <2> DEFINE m == job[p].macro
  <2>1. /\ at[p] = "save" /\ Goto(p, "write") /\ todo' = todo /\ job' = job
        /\ p = App /\ goal[App] = "save"
    BY <1>0, <1>7, Threads DEF BeginSave, Places, jobs, flushes
  <2>2. m \in SavedMacro
    BY <1>3, <2>1
  <2>3. \A n \in SavedMacro : queue'[n] # NoCopy => queue'[n] = queue[n]
    BY <1>0, <1>7 DEF BeginSave, AfterSave, SaveTypeOK
  <2>4. queue'[m] = NoCopy
    <3>1. CASE savesStarted
      BY <1>0, <1>7, <2>2, <3>1 DEF BeginSave, AfterSave, SaveTypeOK
    <3>2. CASE ~savesStarted
      BY <1>7, <2>2, <3>2 DEF BeginSave, RemovalInv
    <3>3. QED
      BY <3>1, <3>2
  <2>5. newest[m] = job[p].version /\ mem[m] = job[p].version
    BY <2>1 DEF OrderInv, Saving
  <2>6. todo[p][m] = NoCopy
    BY <2>1, <2>2 DEF RemovalInv, Busy, Writes
  <2>7. landed[m] <= newest[m]
    BY <2>2 DEF OrderInv
  <2>. HIDE DEF m
  <2>8. \A n \in SavedMacro : \A v : Timely(n, v) =>
          /\ landed'[n] <= v /\ v <= newest'[n]
          /\ queue'[n] # NoCopy => v <= queue'[n]
    BY <1>1, <2>3 DEF Timely
  <2>9. Timely(m, job[p].version)'
    BY <1>1, <1>3, <2>1, <2>2, <2>4, <2>5, <2>7 DEF Timely, m
  <2>10. \A q \in Proc \ {p} : Writes(q)' => Writes(q)
    BY <1>2, <2>1 DEF Writes
  <2>11. \A q \in Proc, n \in SavedMacro :
          todo'[q][n] # NoCopy => Timely(n, todo[q][n])'
    BY <2>1, <2>8 DEF OrderInv, Timely
  <2>12. \A q \in Proc :
          Writes(q)' => /\ Timely(job[q].macro, job[q].version)'
                        /\ todo'[q][job'[q].macro] = NoCopy
    BY <1>3, <2>1, <2>6, <2>8, <2>9, <2>10 DEF OrderInv, Timely, m
  <2>13. \A n \in SavedMacro :
          queue'[n] # NoCopy => landed'[n] <= queue'[n] /\ queue'[n] <= newest'[n]
    BY <1>1, <2>3 DEF OrderInv
  <2>14. /\ newest'[job'[App].macro] = job'[App].version
         /\ mem'[job'[App].macro] = job'[App].version
    BY <1>1, <2>1, <2>5 DEF m
  <2>15. QED
    BY <1>1, <2>11, <2>12, <2>13, <2>14 DEF OrderInv
<1>8. ASSUME Flush(p) PROVE OrderInv'
  <2>1. at[p] = "flush" /\ job' = job
    BY <1>8 DEF Flush
  <2>2. CASE savesStarted
    <3>1. /\ Goto(p, "drained") /\ queue' = Empty /\ writing = NoThread
          /\ todo' = [todo EXCEPT ![p] = queue]
      BY <1>8, <2>2 DEF Flush, LeftQueued, MayWrite
    <3>2. /\ todo'[p] = queue /\ \A q \in Proc \ {p} : todo'[q] = todo[q]
          /\ \A m \in SavedMacro : queue'[m] = NoCopy
      BY <1>0, <3>1 DEF SaveTypeOK, Empty
    <3>3. \A q \in Proc : ~Busy(q)
      BY <2>2, <3>1, Admitted
    <3>4. \A q \in Proc : ~Writes(q)'
      BY <1>2, <3>1, <3>3 DEF Writes, Busy
    <3>5. Saving' => Saving
      BY <1>2, <3>1, <3>4, Threads DEF Saving
    <3>6. \A q \in Proc, m \in SavedMacro :
            todo'[q][m] # NoCopy => Timely(m, todo[q][m])'
      BY <1>1, <3>2, <3>3 DEF OrderInv, Timely, RemovalInv
    <3>7. QED
      BY <1>1, <2>1, <3>2, <3>4, <3>5, <3>6 DEF OrderInv
  <2>3. CASE ~savesStarted
    <3>1. Flushed(p) /\ UNCHANGED <<todo, queue>>
      BY <1>8, <2>3 DEF Flush
    <3>2. PICK next \in {"reading", "removing", "gone"} : Flushes(p, next)
      BY <2>1, <3>1, FlushedFlushes
    <3>3. QED
      BY <1>4, <2>1, <3>1, <3>2 DEF Flushes, Goto
  <2>4. QED
    BY <2>2, <2>3
<1>9. ASSUME WriteNext(p) PROVE OrderInv'
  <2>1. /\ at[p] = "drained" /\ Goto(p, "write") /\ queue' = queue
    BY <1>9 DEF WriteNext
  <2>2. PICK m \in SavedMacro :
          /\ todo[p][m] # NoCopy
          /\ todo' = [todo EXCEPT ![p][m] = NoCopy]
          /\ job' = [job EXCEPT ![p] = [macro |-> m, version |-> todo[p][m]]]
    BY <1>9 DEF WriteNext
  <2>3. /\ job'[p].macro = m /\ job'[p].version = todo[p][m]
        /\ \A q \in Proc \ {p} : job'[q] = job[q]
        /\ todo'[p][m] = NoCopy
        /\ \A q \in Proc, n \in SavedMacro :
             todo'[q][n] # NoCopy => todo'[q][n] = todo[q][n]
    BY <1>0, <2>2 DEF SaveTypeOK
  <2>4. \A n \in SavedMacro : \A v : Timely(n, v) =>
          /\ landed'[n] <= v /\ v <= newest'[n]
          /\ queue'[n] # NoCopy => v <= queue'[n]
    BY <1>1, <2>1 DEF Timely
  <2>5. \A q \in Proc \ {p} : Writes(q)' => Writes(q)
    BY <1>2, <2>1 DEF Writes
  <2>6. Saving' => Saving /\ p # App
    BY <1>0, <1>1, <1>2, <2>1, <2>5, Threads DEF Saving, Places, Writes
  <2>7. \A q \in Proc, n \in SavedMacro :
          todo'[q][n] # NoCopy => Timely(n, todo[q][n])'
    BY <2>3, <2>4 DEF OrderInv, Timely
  <2>8. /\ landed'[m] <= todo[p][m] /\ todo[p][m] <= newest'[m]
        /\ queue'[m] # NoCopy => todo[p][m] <= queue'[m]
    BY <2>2, <2>4 DEF OrderInv
  <2>9. \A q \in Proc :
          Writes(q)' => /\ Timely(job[q].macro, job[q].version)'
                        /\ todo'[q][job'[q].macro] = NoCopy
    BY <1>3, <2>3, <2>4, <2>5, <2>8 DEF OrderInv, Timely
  <2>10. QED
    BY <1>1, <2>1, <2>3, <2>6, <2>7, <2>9, Threads DEF OrderInv
<1>10. ASSUME EndFlush(p) PROVE OrderInv'
  <2>1. at[p] = "drained" /\ Flushed(p) /\ UNCHANGED <<queue, job, todo>>
    BY <1>10 DEF EndFlush, jobs, flushes
  <2>2. PICK next \in {"reading", "removing", "gone"} : Flushes(p, next)
    BY <2>1, FlushedFlushes
  <2>3. QED
    BY <1>4, <2>1, <2>2 DEF Flushes, Goto
<1>11. QED
  BY <1>5, <1>6, <1>7, <1>8, <1>9, <1>10

LEMMA OrderWrite ==
  ASSUME EndingRun = {}, TypeInv, MutexInv, CopyInv, RemovalInv, OrderInv,
         NEW p \in Proc,
         \/ WriteTmp(p) \/ WriteFails(p) \/ Unlink(p) \/ Rename(p)
         \/ ReplaceFails(p)
  PROVE  OrderInv'
<1>0. SaveTypeOK /\ Places
  BY DEF TypeInv
<1>1. /\ UNCHANGED <<newest, mem, savesStarted, goal, queue, todo>>
      /\ Writes(p) /\ Busy(p)
  BY DEF WriteTmp, WriteFails, Unlink, Rename, ReplaceFails, memory, jobs,
         Writes, Busy, library, flushes
<1>2. \A to : Goto(p, to) => \A q \in Proc : at'[q] = IF q = p THEN to ELSE at[q]
  BY <1>0 DEF Goto, SaveTypeOK
<1>3. ASSUME NEW to \in {"unlink", "rename", "drained", "idle", "gone"}, Goto(p, to)
      PROVE  (\A q \in Proc : Writes(q)' => Writes(q)) /\ (Saving' => Saving)
  BY <1>1, <1>2, <1>3, Threads DEF Writes, Saving
<1>4. CASE WriteTmp(p) \/ Unlink(p) \/ WriteFails(p) \/ ReplaceFails(p)
  <2>1. UNCHANGED <<landed, edited>>
    BY <1>4 DEF WriteTmp, Unlink, WriteFails, ReplaceFails
  <2>2. CASE WriteTmp(p) \/ Unlink(p)
    <3>1. (Goto(p, "unlink") \/ Goto(p, "rename")) /\ job' = job
      BY <2>2 DEF WriteTmp, Unlink, jobs
    <3>2. QED
      BY <1>0, <1>1, <1>3, <2>1, <3>1, OrderFrame
  <2>3. CASE WriteFails(p) \/ ReplaceFails(p)
    <3>1. PICK next \in {"drained", "idle", "gone"} : Leaves(p, next)
      BY <1>1, <2>3, WrittenLeaves DEF WriteFails, ReplaceFails
    <3>2. Goto(p, next) /\ \A q \in Proc \ {p} : job'[q] = job[q]
      BY <1>0, <3>1 DEF Leaves, Goto, SaveTypeOK
    <3>3. at'[p] \notin {"save", "write", "unlink", "rename"}
      BY <1>2, <3>1, <3>2
    <3>4. \A q \in Proc : Writes(q)' => Writes(q) /\ q # p
      BY <1>3, <3>2, <3>3 DEF Writes
    <3>5. Saving' => Saving /\ p # App
      BY <1>3, <3>2, <3>3 DEF Saving, Writes
    <3>6. QED
      BY <1>0, <1>1, <2>1, <3>2, <3>4, <3>5, Threads, OrderFrame
  <2>4. QED
    BY <1>4, <2>2, <2>3
<1>5. CASE Rename(p)
  <2> DEFINE m == job[p].macro
  <2>1. m \in SavedMacro /\ tmp[m] = job[p].version /\ tmp[m] # NoCopy
    BY <1>0, <1>1, <1>5, Numbers DEF Rename, CopyInv
  <2>2. /\ landed' = [landed EXCEPT ![m] = tmp[m]]
        /\ edited' = [edited EXCEPT ![m] = job[p].version] \/ edited' = edited
    BY <1>5, <2>1 DEF Rename
  <2>3. Timely(m, job[p].version) /\ todo[p][m] = NoCopy
    BY <1>1 DEF OrderInv
  <2>. HIDE DEF m
  <2>4. /\ landed'[m] = job[p].version
        /\ edited'[m] = job[p].version \/ edited'[m] = edited[m]
        /\ \A n \in SavedMacro :
             n # m => landed'[n] = landed[n] /\ edited'[n] = edited[n]
    BY <1>0, <2>1, <2>2 DEF SaveTypeOK
  <2>5. PICK next \in {"drained", "idle", "gone"} : Leaves(p, next)
    BY <1>1, <1>5, WrittenLeaves DEF Rename
  <2>6. Goto(p, next) /\ \A q \in Proc \ {p} : job'[q] = job[q]
    BY <1>0, <2>5 DEF Leaves, Goto, SaveTypeOK
  <2>7. \A q \in Proc : ~Writes(q)'
    BY <1>1, <1>2, <2>6, Alone DEF Writes, Busy
  <2>8. Saving' => Saving /\ job'[App] = job[App]
    BY <1>2, <2>6, <2>7, Threads DEF Saving
  <2>9. \A n \in SavedMacro : landed'[n] <= newest'[n] /\ edited'[n] <= newest'[n]
    BY <1>1, <2>3, <2>4 DEF OrderInv, Timely
  <2>10. \A n \in SavedMacro :
          queue'[n] # NoCopy => landed'[n] <= queue'[n] /\ queue'[n] <= newest'[n]
    BY <1>1, <2>3, <2>4 DEF OrderInv, Timely
  <2>11. \A q \in Proc, n \in SavedMacro :
          todo'[q][n] # NoCopy => Timely(n, todo[q][n])'
    <3>1. TAKE q \in Proc, n \in SavedMacro
    <3>2. todo[q][n] # NoCopy => q = p
      BY <1>1, Alone DEF RemovalInv
    <3>3. QED
      BY <1>1, <2>3, <2>4, <3>2 DEF OrderInv, Timely
  <2>12. QED
    BY <1>1, <2>7, <2>8, <2>9, <2>10, <2>11 DEF OrderInv
<1>6. QED
  BY <1>4, <1>5

LEMMA OrderRead ==
  ASSUME TypeInv, OrderInv, NEW p \in Proc,
         \/ Read(p)
         \/ p = Outside /\ (ReadNeighbour \/ OpenCopy)
         \/ p = App /\ (RemoveFile \/ RemoveFails)
  PROVE  OrderInv'
<1>0. SaveTypeOK /\ Places
  BY DEF TypeInv
<1>1. /\ UNCHANGED <<newest, landed, edited, queue, todo>>
      /\ at[p] \in {"reading", "opening", "removing"}
      /\ \A q \in Proc \ {p} : job'[q] = job[q]
      /\ p # App => goal' = goal /\ (mem' = mem \/ at[App] = "idle")
      /\ Goto(p, "idle") \/ Goto(p, "opening") \/ Goto(p, "flush")
  BY <1>0, Threads
     DEF Read, ReadNeighbour, OpenCopy, DropCopy, StateLockFree, RemoveFile,
         RemoveFails, RefreshList, files, memory, jobs, library, flushes,
         SaveTypeOK
<1>2. \A to : Goto(p, to) => \A q \in Proc : at'[q] = IF q = p THEN to ELSE at[q]
  BY <1>0 DEF Goto, SaveTypeOK
<1>3. \A q \in Proc : Writes(q)' => Writes(q) /\ q # p
  BY <1>1, <1>2 DEF Writes
<1>4. Saving' => Saving /\ mem' = mem /\ p # App
  BY <1>1, <1>2, <1>3, Threads DEF Saving, Writes
<1>5. QED
  BY <1>0, <1>1, <1>3, <1>4, Threads, OrderFrame

LEMMA OrderStep ==
  ASSUME EndingRun = {}
  PROVE  TypeInv /\ MutexInv /\ CopyInv /\ RemovalInv /\ OrderInv
           /\ [SaveNext]_saveVars => OrderInv'
<1> SUFFICES ASSUME TypeInv, MutexInv, CopyInv, RemovalInv, OrderInv,
                    [SaveNext]_saveVars
             PROVE  OrderInv'
  OBVIOUS
<1>1. CASE UNCHANGED saveVars
  BY <1>1 DEF saveVars, OrderInv, Timely, Saving, Writes
<1>2. CASE SaveNext
  BY <1>2, OrderCommand, OrderQueue, OrderWrite, OrderRead DEF SaveNext, SaveStep
<1>3. QED
  BY <1>1, <1>2

-----------------------------------------------------------------------------
(* SaveQueue implements MacroStore                                          *)

OneDoomed == doomed = {} \/ \E m \in SavedMacro : doomed = {m}

LEMMA DoomedStep == OneDoomed /\ [SaveNext]_saveVars => OneDoomed'
<1> SUFFICES ASSUME OneDoomed, [SaveNext]_saveVars PROVE OneDoomed'
  OBVIOUS
<1>1. CASE UNCHANGED saveVars
  BY <1>1 DEF saveVars, OneDoomed
<1>2. CASE Command
  BY <1>2 DEF Command, Edit, ChangeAndSave, Delete, PersistVariables, BeginFlush,
              memory, OneDoomed, library
<1>3. ASSUME NEW p \in Proc, SaveStep(p) PROVE OneDoomed'
  <2>1. doomed' = doomed \/ doomed' = {}
    BY <1>3 DEF SaveStep, Wake, TakeOne, BeginSave, Flush, WriteNext, EndFlush,
                WriteTmp, WriteFails, Unlink, Rename, ReplaceFails, Read,
                ReadNeighbour, OpenCopy, RemoveFile, RemoveFails, RefreshList,
                memory, library
  <2>2. QED
    BY <2>1 DEF OneDoomed
<1>4. QED
  BY <1>1, <1>2, <1>3 DEF SaveNext

LEMMA StoreCommand ==
  ASSUME EndingRun = {}, Command
  PROVE  [FileStore!Next]_<<newest, landed, known>>
<1>1. ASSUME NEW m \in SavedMacro, Edit(m) \/ ChangeAndSave(m)
      PROVE  FileStore!Next
  <2>1. FileStore!Change(m)
    BY <1>1 DEF Edit, ChangeAndSave, files, library, FileStore!Change
  <2>2. QED
    BY <2>1 DEF FileStore!Next
<1>2. ASSUME NEW m \in SavedMacro, Delete(m)
      PROVE  UNCHANGED <<newest, landed, known>>
  BY <1>2 DEF Delete, files
<1>3. ASSUME NEW p, NEW what, BeginFlush(p, what)
      PROVE  UNCHANGED <<newest, landed, known>>
  BY <1>3 DEF BeginFlush, files, memory, library
<1>4. QED
  BY <1>1, <1>2, <1>3 DEF Command

LEMMA StoreRename ==
  ASSUME EndingRun = {}, TypeInv, CopyInv, RemovalInv, OrderInv, NEW p \in Proc,
         Rename(p)
  PROVE  FileStore!Store(job[p].macro)
<1> DEFINE m == job[p].macro
<1>0. SaveTypeOK
  BY DEF TypeInv
<1>1. Writes(p) /\ at[p] = "rename" /\ UNCHANGED <<newest, known>>
  BY DEF Rename, Writes, memory, library
<1>2. /\ m \in SavedMacro /\ m \in known /\ job[p].version \in Nat
      /\ tmp[m] = job[p].version /\ tmp[m] # NoCopy
  BY <1>0, <1>1, Numbers DEF CopyInv, RemovalInv
<1>3. job[p].version \in landed[m]..newest[m]
  BY <1>0, <1>1, <1>2, Numbers DEF OrderInv, Timely
<1>4. landed' = [landed EXCEPT ![m] = job[p].version]
  BY <1>2 DEF Rename
<1>5. QED
  BY <1>1, <1>2, <1>3, <1>4 DEF FileStore!Store

LEMMA StoreStep ==
  ASSUME EndingRun = {}
  PROVE  TypeInv /\ CopyInv /\ RemovalInv /\ OrderInv /\ OneDoomed
           /\ [SaveNext]_saveVars => [FileStore!Next]_<<newest, landed, known>>
<1> SUFFICES ASSUME TypeInv, CopyInv, RemovalInv, OrderInv, OneDoomed,
                    [SaveNext]_saveVars
             PROVE  [FileStore!Next]_<<newest, landed, known>>
  OBVIOUS
<1>1. CASE UNCHANGED saveVars
  BY <1>1 DEF saveVars
<1>2. CASE Command
  BY <1>2, StoreCommand
<1>3. ASSUME NEW p \in Proc, SaveStep(p)
      PROVE  [FileStore!Next]_<<newest, landed, known>>
  <2>1. CASE Rename(p)
    <3>1. job[p].macro \in SavedMacro
      BY <2>1, Numbers DEF TypeInv, Rename, Writes
    <3>2. QED
      BY <2>1, <3>1, StoreRename DEF FileStore!Next
  <2>2. CASE RemoveFile
    <3>1. PICK opened \in SUBSET doomed :
            known' = known \ (doomed \ opened) /\ UNCHANGED <<newest, landed>>
      BY <2>2 DEF RemoveFile, RefreshList
    <3>2. CASE doomed \ opened = {}
      BY <3>1, <3>2
    <3>3. ASSUME NEW m \in SavedMacro, doomed \ opened = {m} PROVE FileStore!Next
      BY <3>1, <3>3 DEF FileStore!Next, FileStore!Remove
    <3>4. QED
      BY <3>2, <3>3 DEF OneDoomed
  <2>3. CASE OpenCopy
    <3>1. FileStore!Reopen(job[Outside].macro) /\ job[Outside].macro \in SavedMacro
      BY <2>3, JobParts, Threads
         DEF OpenCopy, files, FileStore!Reopen, TypeInv, SaveTypeOK
    <3>2. QED
      BY <3>1 DEF FileStore!Next
  <2>4. CASE ~Rename(p) /\ ~RemoveFile /\ ~OpenCopy
    BY <1>3, <2>4
       DEF SaveStep, Wake, TakeOne, BeginSave, Flush, WriteNext, EndFlush,
           WriteTmp, WriteFails, Unlink, ReplaceFails, Read, ReadNeighbour,
           RemoveFails, RefreshList, memory, files, library
  <2>5. QED
    BY <2>1, <2>2, <2>3, <2>4
<1>4. QED
  BY <1>1, <1>2, <1>3 DEF SaveNext

\* "Held for each write, so a newer save of a file never lands before an older
\* one": the save thread, direct saves and flushes together implement a store of
\* macros whose contents only move on, while no run that ends saves a copy of its
\* own.
THEOREM SavesImplementStore ==
  ASSUME EndingRun = {}
  PROVE  SaveSpec => ImplementsStore
<1>1. OneSaver
  BY DEF OneSaver
<1>2. SaveInit => MutexInv /\ OneDoomed
  BY <1>1, MutexInit DEF SaveInit, OneDoomed
<1>3. SaveInit => FileStore!Init
  BY DEF SaveInit, FileStore!Init
<1>4. TypeInv /\ MutexInv /\ RemovalInv /\ [SaveNext]_saveVars => RemovalInv'
  BY RemovalStep
<1>5. TypeInv /\ MutexInv /\ CopyInv /\ RemovalInv /\ OrderInv
        /\ [SaveNext]_saveVars => OrderInv'
  BY OrderStep
<1>6. TypeInv /\ CopyInv /\ RemovalInv /\ OrderInv /\ OneDoomed
        /\ [SaveNext]_saveVars => [FileStore!Next]_<<newest, landed, known>>
  BY StoreStep
<1>7. QED
  BY TypeInit, TypeStep, <1>2, MutexStep, CopyInit, CopyStep, RemovalInit, <1>4,
     OrderInit, <1>5, DoomedStep, <1>3, <1>6, PTL
     DEF SaveSpec, ImplementsStore, FileStore!Spec

-----------------------------------------------------------------------------
(* Nothing that was queued gets lost: it is in the queue, or one thread is  *)
(* holding it, until it has landed.                                         *)

Held(p, m, v) ==
  \/ v <= landed[m]
  \/ v <= todo[p][m]
  \/ Writes(p) /\ job[p].macro = m /\ v <= job[p].version

KeptInv ==
  /\ \A m \in SavedMacro : disk[m] # NoCopy => disk[m] = landed[m]
  /\ ~savesStarted => \A m \in SavedMacro : edited[m] <= landed[m]
  /\ \A m \in SavedMacro :
       edited[m] <= queue[m] \/ \E p \in Proc : Held(p, m, edited[m])
  /\ stranded = {}
  /\ EditsSurvive
  /\ at[App] # "idle" /\ goal[App] = "read" => since[App] = edited
  /\ at[Exit] # "idle" => \A m \in SavedMacro : since[Exit][m] <= edited[m]
  /\ Busy(Exit) => \A m \in SavedMacro : Held(Exit, m, since[Exit][m])
  /\ ExitSavesQueued

SafeInv == TypeInv /\ MutexInv /\ CopyInv /\ RemovalInv /\ OrderInv /\ OneDoomed

LEMMA SafeInit ==
  ASSUME EndingRun = {}
  PROVE  SaveInit => SafeInv
<1>1. OneSaver
  BY DEF OneSaver
<1>2. QED
  BY <1>1, TypeInit, MutexInit, CopyInit, RemovalInit, OrderInit
     DEF SafeInv, OneDoomed, SaveInit

LEMMA SafeStep ==
  ASSUME EndingRun = {}
  PROVE  SafeInv /\ [SaveNext]_saveVars => SafeInv'
BY TypeStep, MutexStep, CopyStep, RemovalStep, OrderStep, DoomedStep DEF SafeInv

\* A thread moves nobody but itself.
LEMMA OthersStay ==
  ASSUME TypeInv, NEW q \in Proc, SaveStep(q), NEW p \in Proc \ {q}
  PROVE  /\ at'[p] = at[p] /\ job'[p] = job[p] /\ todo'[p] = todo[p]
         /\ goal'[p] = goal[p] /\ since'[p] = since[p]
<1>0. SaveTypeOK
  BY DEF TypeInv
<1>1. \A r \in Proc : \A to : Goto(r, to) => \A s \in Proc \ {r} : at'[s] = at[s]
  BY <1>0 DEF Goto, SaveTypeOK
<1>2. CASE q = Saver /\ (Wake \/ TakeOne)
  BY <1>0, <1>1, <1>2 DEF SaveTypeOK, Wake, TakeOne, jobs, flushes
<1>3. CASE BeginSave(q) \/ Flush(q) \/ WriteNext(q) \/ EndFlush(q)
  BY <1>0, <1>1, <1>3 DEF SaveTypeOK, BeginSave, Flush, Flushed, WriteNext,
             EndFlush, jobs, flushes
<1>4. CASE \/ WriteTmp(q) \/ WriteFails(q) \/ Unlink(q) \/ Rename(q)
            \/ ReplaceFails(q) \/ Read(q)
  BY <1>0, <1>1, <1>4
     DEF SaveTypeOK, WriteTmp, WriteFails, Written, DropCopy, Unlink, Rename,
         ReplaceFails, Read, jobs, flushes
<1>5. CASE q = App /\ (RemoveFile \/ RemoveFails)
  BY <1>0, <1>1, <1>5 DEF SaveTypeOK, RemoveFile, RemoveFails, RefreshList,
                          jobs, flushes
<1>6. CASE q = Outside /\ (ReadNeighbour \/ OpenCopy)
  BY <1>0, <1>1, <1>6 DEF SaveTypeOK, ReadNeighbour, OpenCopy, DropCopy, flushes
<1>7. QED
  BY <1>2, <1>3, <1>4, <1>5, <1>6 DEF SaveStep

\* A command moves nobody who is in the middle of something.
LEMMA OthersGoOn ==
  ASSUME EndingRun = {}, TypeInv, Command, NEW p \in Proc, at[p] # "idle"
  PROVE  /\ at'[p] = at[p] /\ job'[p] = job[p] /\ todo'[p] = todo[p]
         /\ goal'[p] = goal[p] /\ since'[p] = since[p]
<1>0. SaveTypeOK
  BY DEF TypeInv
<1>1. ASSUME NEW m \in SavedMacro, Edit(m) \/ ChangeAndSave(m) \/ Delete(m)
      PROVE  /\ at'[p] = at[p] /\ job'[p] = job[p] /\ todo'[p] = todo[p]
             /\ goal'[p] = goal[p] /\ since'[p] = since[p]
  BY <1>0, <1>1 DEF SaveTypeOK, Edit, ChangeAndSave, Delete, StateLockFree, Goto,
             jobs, flushes
<1>2. ASSUME NEW q \in {App, Outside, Exit}, NEW what, BeginFlush(q, what)
      PROVE  /\ at'[p] = at[p] /\ job'[p] = job[p] /\ todo'[p] = todo[p]
             /\ goal'[p] = goal[p] /\ since'[p] = since[p]
  BY <1>0, <1>2, Threads DEF SaveTypeOK, BeginFlush, Goto
<1>3. QED
  BY <1>1, <1>2 DEF Command

\* What has landed stays landed or makes room for something newer.
LEMMA Landing ==
  ASSUME EndingRun = {}, SafeInv, SaveNext, NEW m \in SavedMacro
  PROVE  landed[m] <= landed'[m]
<1>0. SaveTypeOK
  BY DEF SafeInv, TypeInv
<1>1. [FileStore!Next]_<<newest, landed, known>>
  BY StoreStep DEF SafeInv
<1>2. landed[m] \in Nat
  BY <1>0, Numbers
<1>3. ASSUME NEW n \in SavedMacro, FileStore!Store(n) PROVE landed[m] <= landed'[m]
  <2>1. PICK v \in landed[n]..newest[n] : landed' = [landed EXCEPT ![n] = v]
    BY <1>3 DEF FileStore!Store
  <2>2. landed'[m] = IF m = n THEN v ELSE landed[m]
    BY <1>0, <2>1 DEF SaveTypeOK
  <2>3. QED
    BY <1>0, <1>2, <2>1, <2>2, Numbers
<1>4. QED
  BY <1>1, <1>2, <1>3 DEF FileStore!Next, FileStore!Change, FileStore!Remove,
                          FileStore!Reopen

\* What is being written lands.
LEMMA Lands ==
  ASSUME SafeInv, NEW p \in Proc, Rename(p)
  PROVE  /\ job[p].macro \in SavedMacro
         /\ landed' = [landed EXCEPT ![job[p].macro] = job[p].version]
         /\ disk' = [disk EXCEPT ![job[p].macro] = job[p].version]
  BY Numbers DEF SafeInv, TypeInv, Rename, Writes, CopyInv

HeldAfter(p, m, v) ==
  \/ v <= landed'[m]
  \/ v <= todo'[p][m]
  \/ Writes(p)' /\ job'[p].macro = m /\ v <= job'[p].version

\* Whoever holds something holds it until it has landed.
LEMMA HeldStep ==
  ASSUME EndingRun = {}, IoFails = FALSE, SafeInv, SaveNext,
         NEW p \in Proc, NEW m \in SavedMacro, NEW v \in Nat, Held(p, m, v)
  PROVE  HeldAfter(p, m, v)
<1>0. SaveTypeOK /\ Places
  BY DEF SafeInv, TypeInv
<1>1. landed[m] <= landed'[m] /\ landed[m] \in Nat /\ landed'[m] \in Nat
  <2>1. SafeInv'
    BY SafeStep
  <2>2. SaveTypeOK'
    BY <2>1 DEF SafeInv, TypeInv
  <2>3. landed'[m] \in Nat
    BY <2>2, Versions DEF SaveTypeOK
  <2>4. QED
    BY <1>0, <2>3, Landing, Numbers
<1>2. CASE v <= landed[m]
  BY <1>1, <1>2 DEF HeldAfter
<1>3. ASSUME ~(v <= landed[m]), v <= todo[p][m] PROVE HeldAfter(p, m, v)
  <2>1. todo[p][m] # NoCopy
    BY <1>0, <1>1, <1>3, Numbers, Versions
  <2>2. Busy(p) /\ p # Saver
    BY <2>1 DEF SafeInv, RemovalInv
  <2>3. CASE Command
    BY <1>3, <2>2, <2>3, OthersGoOn DEF SafeInv, Busy, Writes, HeldAfter
  <2>4. ASSUME NEW q \in Proc, SaveStep(q), q # p PROVE HeldAfter(p, m, v)
    BY <1>3, <2>4, OthersStay DEF SafeInv, HeldAfter
  <2>5. CASE WriteNext(p)
    <3>1. PICK n \in SavedMacro :
            /\ todo' = [todo EXCEPT ![p][n] = NoCopy]
            /\ job' = [job EXCEPT ![p] = [macro |-> n, version |-> todo[p][n]]]
            /\ Goto(p, "write")
      BY <2>5 DEF WriteNext
    <3>2. /\ n # m => todo'[p][m] = todo[p][m]
          /\ job'[p].macro = n /\ job'[p].version = todo[p][n] /\ at'[p] = "write"
      BY <1>0, <3>1 DEF SaveTypeOK, Goto
    <3>3. QED
      BY <1>3, <3>2 DEF HeldAfter, Writes
  <2>6. CASE SaveStep(p) /\ ~WriteNext(p)
    <3>1. todo' = todo
      BY <2>2, <2>6
         DEF SaveStep, BeginSave, Flush, EndFlush, WriteTmp, WriteFails, Unlink,
             Rename, Read, ReplaceFails, ReadNeighbour, OpenCopy, RemoveFile,
             RemoveFails, RefreshList, jobs, Busy, Writes, flushes
    <3>2. QED
      BY <1>3, <3>1 DEF HeldAfter
  <2>7. QED
    BY <2>3, <2>4, <2>5, <2>6 DEF SaveNext
<1>4. ASSUME Writes(p), job[p].macro = m, v <= job[p].version
      PROVE  HeldAfter(p, m, v)
  <2>1. CASE Command
    BY <1>4, <2>1, OthersGoOn DEF SafeInv, Writes, HeldAfter
  <2>2. ASSUME NEW q \in Proc, SaveStep(q), q # p PROVE HeldAfter(p, m, v)
    BY <1>4, <2>2, OthersStay DEF SafeInv, HeldAfter, Writes
  <2>3. CASE Rename(p)
    <3>1. landed'[m] = job[p].version
      BY <1>0, <1>4, <2>3, Lands DEF SaveTypeOK
    <3>2. QED
      BY <1>4, <3>1 DEF HeldAfter
  <2>4. CASE WriteTmp(p) \/ Unlink(p)
    <3>1. Writes(p)' /\ job' = job
      BY <1>0, <2>4 DEF WriteTmp, Unlink, Goto, Writes, jobs, SaveTypeOK, flushes
    <3>2. QED
      BY <1>4, <3>1 DEF HeldAfter
  <2>5. CASE SaveStep(p) /\ ~Rename(p) /\ ~WriteTmp(p) /\ ~Unlink(p)
    BY <1>0, <1>4, <2>5
       DEF SaveStep, Wake, TakeOne, BeginSave, Flush, WriteNext, EndFlush,
           WriteFails, Read, ReplaceFails, ReadNeighbour, OpenCopy, RemoveFile,
           RemoveFails, RefreshList, Writes
  <2>6. QED
    BY <2>1, <2>2, <2>3, <2>4, <2>5 DEF SaveNext
<1>5. QED
  BY <1>2, <1>3, <1>4 DEF Held

LEMMA KeptFiles ==
  ASSUME EndingRun = {}, IoFails = FALSE, SafeInv, SaveNext,
         \A m \in SavedMacro : disk[m] # NoCopy => disk[m] = landed[m]
  PROVE  \A m \in SavedMacro : disk'[m] # NoCopy => disk'[m] = landed'[m]
<1>0. SaveTypeOK
  BY DEF SafeInv, TypeInv
<1>1. ASSUME NEW p \in Proc, Rename(p)
      PROVE  \A m \in SavedMacro : disk'[m] # NoCopy => disk'[m] = landed'[m]
  BY <1>0, <1>1, Lands DEF SaveTypeOK
<1>2. CASE Command
  BY <1>2 DEF Command, Edit, ChangeAndSave, Delete, BeginFlush, files
<1>3. ASSUME NEW p \in Proc, Unlink(p)
      PROVE  \A m \in SavedMacro : disk'[m] # NoCopy => disk'[m] = landed'[m]
  BY <1>0, <1>3 DEF Unlink, SaveTypeOK
<1>4. CASE RemoveFile
  BY <1>0, <1>4 DEF RemoveFile, RefreshList, SaveTypeOK
<1>5. ASSUME NEW p \in Proc, SaveStep(p), ~Rename(p), ~Unlink(p), ~RemoveFile
      PROVE  disk' = disk /\ landed' = landed
  BY <1>5
     DEF SaveStep, Wake, TakeOne, BeginSave, Flush, WriteNext, EndFlush,
         WriteTmp, WriteFails, Read, ReplaceFails, ReadNeighbour, OpenCopy,
         RemoveFails, RefreshList, files
<1>6. QED
  BY <1>1, <1>2, <1>3, <1>4, <1>5 DEF SaveNext

\* What is queued or saved moves on.
LEMMA Editing ==
  ASSUME EndingRun = {}, SafeInv, SaveNext, NEW m \in SavedMacro
  PROVE  \/ edited'[m] = edited[m]
         \/ /\ Edit(m) /\ edited'[m] = newest'[m] /\ queue'[m] = newest'[m]
            /\ mem'[m] = newest'[m] /\ edited[m] <= edited'[m]
         \/ /\ Rename(App) /\ goal[App] = "save" /\ job[App].macro = m
            /\ edited'[m] = job[App].version /\ landed'[m] = job[App].version
            /\ mem[m] = job[App].version /\ edited[m] <= edited'[m]
<1>0. SaveTypeOK
  BY DEF SafeInv, TypeInv
<1>1. edited[m] <= newest[m] /\ edited[m] \in Nat /\ newest[m] \in Nat
  BY <1>0, Numbers DEF SafeInv, OrderInv
<1>2. ASSUME Edit(m)
      PROVE  /\ edited'[m] = newest'[m] /\ queue'[m] = newest'[m]
             /\ mem'[m] = newest'[m] /\ edited[m] <= edited'[m]
  BY <1>0, <1>1, <1>2 DEF Edit, Queued, SaveTypeOK
<1>3. ASSUME NEW n \in SavedMacro, Edit(n), n # m PROVE edited'[m] = edited[m]
  BY <1>0, <1>3 DEF Edit, SaveTypeOK
<1>4. CASE Command /\ \A n \in SavedMacro : ~Edit(n)
  BY <1>4 DEF Command, ChangeAndSave, Delete, BeginFlush
<1>5. ASSUME Rename(App), goal[App] = "save", job[App].macro = m
      PROVE  /\ edited'[m] = job[App].version /\ landed'[m] = job[App].version
             /\ mem[m] = job[App].version /\ edited[m] <= edited'[m]
  <2>1. edited' = [edited EXCEPT ![m] = job[App].version] /\ Writes(App)
    BY <1>5 DEF Rename, Writes
  <2>2. newest[m] = job[App].version /\ mem[m] = job[App].version
    BY <1>5, <2>1 DEF SafeInv, OrderInv, Saving
  <2>3. landed' = [landed EXCEPT ![m] = job[App].version]
    BY <1>5, Lands, Threads
  <2>4. QED
    BY <1>0, <1>1, <2>1, <2>2, <2>3 DEF SaveTypeOK
<1>6. ASSUME NEW p \in Proc, Rename(p),
             ~(p = App /\ goal[App] = "save" /\ job[App].macro = m)
      PROVE  edited'[m] = edited[m]
  BY <1>0, <1>6 DEF Rename, SaveTypeOK
<1>7. ASSUME NEW p \in Proc, SaveStep(p), ~Rename(p) PROVE edited' = edited
  BY <1>7
     DEF SaveStep, Wake, TakeOne, BeginSave, Flush, WriteNext, EndFlush,
         WriteTmp, WriteFails, Unlink, Read, ReplaceFails, ReadNeighbour,
         OpenCopy, RemoveFile, RemoveFails, RefreshList
<1>8. QED
  BY <1>2, <1>3, <1>4, <1>5, <1>6, <1>7 DEF SaveNext, Command

\* Where nobody is writing or flushing, all that was queued is still in the queue.
LEMMA NothingHeld ==
  ASSUME SafeInv, KeptInv, \A p \in Proc : ~Busy(p), NEW m \in SavedMacro
  PROVE  edited[m] <= queue[m] \/ edited[m] <= landed[m]
<1>0. SaveTypeOK
  BY DEF SafeInv, TypeInv
<1>1. ASSUME NEW p \in Proc, edited[m] <= todo[p][m] PROVE edited[m] <= landed[m]
  BY <1>0, <1>1, Numbers, Versions DEF SafeInv, RemovalInv
<1>2. QED
  BY <1>0, <1>1 DEF KeptInv, Held, Busy

\* A refresh and a removal find everything landed.
LEMMA AllLanded ==
  ASSUME SafeInv, KeptInv, at[App] \in {"reading", "removing"},
         NEW m \in SavedMacro
  PROVE  /\ edited[m] <= landed[m]
         /\ disk[m] = landed[m] \/ disk[m] = NoCopy
         /\ m \in Listed => disk[m] = landed[m]
<1>0. SaveTypeOK
  BY DEF SafeInv, TypeInv
<1>1. /\ queue[m] = NoCopy
      /\ \A p \in Proc : ~Writes(p) /\ todo[p][m] = NoCopy
  BY <1>0 DEF SafeInv, RemovalInv, Empty
<1>2. edited[m] <= landed[m]
  BY <1>0, <1>1, Numbers, Versions DEF KeptInv, Held
<1>3. m \in Listed => disk[m] # NoCopy
  BY <1>1 DEF SafeInv, CopyInv, KeptInv, Writes
<1>4. QED
  BY <1>0, <1>2, <1>3 DEF KeptInv

LEMMA KeptStarted ==
  ASSUME EndingRun = {}, SafeInv, KeptInv, SaveNext, ~savesStarted',
         NEW m \in SavedMacro
  PROVE  edited'[m] <= landed'[m]
<1>0. SaveTypeOK
  BY DEF SafeInv, TypeInv
<1>1. \A n \in SavedMacro : ~Edit(n)
  BY DEF Edit
<1>2. ~savesStarted
  BY <1>1
     DEF SaveNext, Command, ChangeAndSave, Delete, BeginFlush, SaveStep, Wake,
         TakeOne, BeginSave, Flush, WriteNext, EndFlush, WriteTmp, WriteFails,
         Unlink, Rename, Read, ReplaceFails, ReadNeighbour, OpenCopy,
         RemoveFile, RemoveFails, RefreshList
<1>3. edited[m] <= landed[m] /\ landed[m] <= landed'[m]
  BY <1>2, Landing DEF KeptInv
<1>4. SafeInv'
  BY SafeStep
<1>5. SaveTypeOK'
  BY <1>4 DEF SafeInv, TypeInv
<1>6. edited[m] \in Nat /\ landed[m] \in Nat /\ landed'[m] \in Nat
  BY <1>0, <1>5, Numbers, Versions DEF SaveTypeOK
<1>7. CASE edited'[m] = edited[m]
  BY <1>3, <1>6, <1>7
<1>8. CASE edited'[m] # edited[m]
  <2>1. edited'[m] = job[App].version /\ landed'[m] = job[App].version
    BY <1>1, <1>8, Editing
  <2>2. QED
    BY <1>6, <2>1
<1>9. QED
  BY <1>7, <1>8

\* A macro that is opened again is no longer listed.
LEMMA ListedShrinks ==
  ASSUME SaveNext
  PROVE  Listed' \subseteq Listed
<1>1. CASE Command
  BY <1>1 DEF Command, Edit, ChangeAndSave, Delete, PersistVariables, BeginFlush,
              memory, library, Listed
<1>2. CASE RemoveFile
  BY <1>2 DEF RemoveFile, Listed
<1>3. CASE OpenCopy
  BY <1>3 DEF OpenCopy, Listed
<1>4. ASSUME NEW p \in Proc, SaveStep(p), ~RemoveFile, ~OpenCopy
      PROVE  Listed' = Listed
  BY <1>4
     DEF SaveStep, Wake, TakeOne, BeginSave, Flush, WriteNext, EndFlush, WriteTmp,
         WriteFails, Unlink, Rename, ReplaceFails, Read, ReadNeighbour,
         RemoveFails, RefreshList, memory, library, Listed
<1>5. QED
  BY <1>1, <1>2, <1>3, <1>4 DEF SaveNext

LEMMA KeptQueued ==
  ASSUME EndingRun = {}, IoFails = FALSE, SafeInv, KeptInv, SaveNext,
         NEW m \in SavedMacro
  PROVE  edited'[m] <= queue'[m] \/ \E p \in Proc : HeldAfter(p, m, edited'[m])
<1>0. SaveTypeOK /\ Places
  BY DEF SafeInv, TypeInv
<1>1. SafeInv'
  BY SafeStep
<1>2. edited[m] \in Nat /\ edited'[m] \in Nat /\ queue[m] \in Nat
  BY <1>0, <1>1, Versions, Numbers DEF SafeInv, TypeInv, SaveTypeOK
<1>3. CASE Edit(m)
  <2>1. edited'[m] = newest'[m] /\ queue'[m] = newest'[m]
    BY <1>0, <1>3 DEF Edit, Queued, SaveTypeOK
  <2>2. QED
    BY <1>2, <2>1
<1>4. CASE Rename(App) /\ edited'[m] # edited[m]
  <2>1. edited'[m] = job[App].version /\ landed'[m] = job[App].version
    BY <1>0, <1>4, Editing DEF Edit, Rename, Goto, Written, StateLockFree
  <2>2. HeldAfter(App, m, edited'[m])
    BY <1>2, <2>1 DEF HeldAfter
  <2>3. QED
    BY <2>2, Threads
<1>5. CASE edited'[m] = edited[m] /\ ~Edit(m)
  <2>1. ASSUME NEW p \in Proc, Held(p, m, edited[m])
        PROVE  \E q \in Proc : HeldAfter(q, m, edited'[m])
    BY <1>0, <1>2, <1>5, <2>1, HeldStep
  <2>2. ASSUME edited[m] <= queue[m]
        PROVE  edited'[m] <= queue'[m] \/ \E p \in Proc : HeldAfter(p, m,
        edited'[m])
    <3>1. CASE queue'[m] = queue[m]
      BY <1>5, <2>2, <3>1
    <3>2. ASSUME TakeOne, queue'[m] # queue[m] PROVE HeldAfter(Saver, m, edited'[m])
      <4>1. PICK n \in SavedMacro :
              /\ queue' = [queue EXCEPT ![n] = NoCopy]
              /\ job' = [job EXCEPT ![Saver] = [macro |-> n, version |-> queue[n]]]
              /\ Goto(Saver, "write")
        BY <3>2 DEF TakeOne
      <4>2. n = m
        BY <1>0, <3>2, <4>1 DEF SaveTypeOK
      <4>3. /\ job'[Saver].macro = m /\ job'[Saver].version = queue[m]
            /\ at'[Saver] = "write"
        BY <1>0, <4>1, <4>2, Threads DEF SaveTypeOK, Goto
      <4>4. QED
        BY <1>5, <2>2, <4>3 DEF HeldAfter, Writes
    <3>3. ASSUME NEW p \in Proc, BeginSave(p), queue'[m] # queue[m]
          PROVE  HeldAfter(p, m, edited'[m])
      <4>1. /\ p = App /\ at[App] = "save" /\ job' = job /\ Goto(p, "write")
            /\ queue' = [queue EXCEPT ![job[p].macro] = NoCopy] \/ queue' = queue
        BY <1>0, <3>3, Threads DEF BeginSave, Places, jobs, AfterSave, flushes
      <4>2. job[p].macro = m /\ at'[p] = "write"
        BY <1>0, <3>3, <4>1 DEF SaveTypeOK, Goto
      <4>3. edited[m] <= job[p].version
        BY <1>0, <4>1, <4>2 DEF SafeInv, OrderInv, Saving
      <4>4. QED
        BY <1>5, <4>1, <4>2, <4>3 DEF HeldAfter, Writes
    <3>4. ASSUME NEW p \in Proc, Flush(p), queue'[m] # queue[m]
          PROVE  HeldAfter(p, m, edited'[m])
      <4>1. todo' = [todo EXCEPT ![p] = queue]
        BY <3>4 DEF Flush
      <4>2. todo'[p] = queue
        BY <1>0, <4>1 DEF SaveTypeOK
      <4>3. QED
        BY <1>5, <2>2, <4>2 DEF HeldAfter
    <3>5. ASSUME NEW n \in SavedMacro, Edit(n) PROVE queue'[m] = queue[m]
      BY <1>0, <1>5, <3>5 DEF Edit, SaveTypeOK
    <3>6. ASSUME Command, \A n \in SavedMacro : ~Edit(n) PROVE queue' = queue
      BY <3>6 DEF Command, ChangeAndSave, Delete, BeginFlush
    <3>7. ASSUME NEW p \in Proc, SaveStep(p), ~TakeOne, ~BeginSave(p), ~Flush(p)
          PROVE  queue' = queue
      BY <3>7
         DEF SaveStep, Wake, WriteNext, EndFlush, WriteTmp, WriteFails, Unlink,
             Rename, Read, ReplaceFails, ReadNeighbour, OpenCopy, RemoveFile,
             RemoveFails, RefreshList
    <3>8. QED
      BY <3>1, <3>2, <3>3, <3>4, <3>5, <3>6, <3>7, Threads DEF SaveNext, Command
  <2>3. QED
    BY <1>0, <2>1, <2>2 DEF KeptInv
<1>6. QED
  BY <1>0, <1>3, <1>4, <1>5, Editing

LEMMA KeptEdits ==
  ASSUME EndingRun = {}, SafeInv, KeptInv, SaveNext,
         NEW m \in known' \ overtaken'
  PROVE  mem'[m] >= edited'[m]
<1>0. SaveTypeOK /\ Places
  BY DEF SafeInv, TypeInv
<1>1. SafeInv'
  BY SafeStep
<1>2. m \in SavedMacro
  BY <1>1 DEF SafeInv, TypeInv, SaveTypeOK
<1>3. /\ edited[m] \in Nat /\ edited'[m] \in Nat
      /\ mem[m] \in Nat /\ newest[m] \in Nat
      /\ newest[m] >= edited[m]
  BY <1>0, <1>1, <1>2, Versions, Numbers
     DEF SafeInv, TypeInv, SaveTypeOK, OrderInv
\* Opened from a copy: either that is as new as the edits, or they are overtaken.
<1>4. CASE OpenCopy /\ job[Outside].macro = m
  <2>1. mem'[m] = job[Outside].version /\ job[Outside].version \in Nat
    BY <1>0, <1>2, <1>4, JobParts, Versions, Threads DEF OpenCopy, SaveTypeOK
  <2>2. edited' = edited /\ ~(job[Outside].version < edited[m])
    BY <1>4 DEF OpenCopy
  <2>3. QED
    BY <1>3, <2>1, <2>2
<1>5. CASE ~(OpenCopy /\ job[Outside].macro = m)
  <2>0. mem[m] >= edited[m]
    <3>1. m \in known
      <4>1. CASE OpenCopy
        BY <1>5, <4>1 DEF OpenCopy
      <4>2. CASE ~OpenCopy
        BY <4>2 DEF SaveNext, Command, Edit, ChangeAndSave, Delete, BeginFlush,
                    PersistVariables, SaveStep, Wake, TakeOne, BeginSave, Flush,
                    WriteNext, EndFlush, WriteTmp, WriteFails, Unlink, Rename,
                    ReplaceFails, Read, ReadNeighbour, RemoveFile, RemoveFails,
                    memory, library
      <4>3. QED
        BY <4>1, <4>2
    <3>2. overtaken \subseteq overtaken'
      BY DEF SaveNext, Command, Edit, ChangeAndSave, Delete, BeginFlush,
             PersistVariables, SaveStep, Wake, TakeOne, BeginSave, Flush,
             WriteNext, EndFlush, WriteTmp, WriteFails, Unlink, Rename,
             ReplaceFails, Read, ReadNeighbour, OpenCopy, RemoveFile, RemoveFails,
             memory, library
    <3>3. QED
      BY <3>1, <3>2 DEF KeptInv, EditsSurvive
  <2>1. CASE Edit(m)
    <3>1. edited'[m] = newest'[m] /\ mem'[m] = newest'[m]
      BY <1>0, <2>1, <1>2 DEF Edit, SaveTypeOK
    <3>2. QED
      BY <1>3, <3>1
  <2>2. CASE edited'[m] # edited[m] /\ ~Edit(m)
    <3>1. edited'[m] = job[App].version /\ mem[m] = job[App].version /\ Rename(App)
      BY <1>2, <2>2, Editing
    <3>2. mem' = mem
      BY <3>1 DEF Rename, memory
    <3>3. QED
      BY <1>3, <3>1, <3>2
  <2>3. CASE edited'[m] = edited[m] /\ ~Edit(m)
    <3>1. ASSUME mem'[m] = mem[m] PROVE mem'[m] >= edited'[m]
      BY <1>3, <2>0, <2>3, <3>1
    <3>2. ASSUME NEW n \in SavedMacro, Edit(n) \/ ChangeAndSave(n)
          PROVE  mem'[m] >= edited'[m]
      <4>1. newest'[n] = newest[n] + 1 /\ mem' = [mem EXCEPT ![n] = newest'[n]]
        BY <1>0, <3>2 DEF Edit, ChangeAndSave, SaveTypeOK
      <4>2. mem'[m] = IF m = n THEN newest[m] + 1 ELSE mem[m]
        BY <1>0, <1>2, <4>1 DEF SaveTypeOK
      <4>3. QED
        BY <1>3, <2>0, <2>3, <4>2
    <3>3. ASSUME Read(App) PROVE mem'[m] >= edited'[m]
      <4>1. /\ edited[m] <= landed[m] /\ landed[m] \in Nat
            /\ disk[m] = landed[m] \/ disk[m] = NoCopy
        BY <1>0, <1>2, <3>3, AllLanded, Numbers DEF Read
      <4>2. mem'[m] = mem[m] \/ (disk[m] # NoCopy /\ mem'[m] = disk[m])
        BY <1>2, <3>3 DEF Read
      <4>3. QED
        BY <1>3, <2>0, <2>3, <4>1, <4>2
    <3>4. ASSUME OpenCopy PROVE mem'[m] = mem[m]
      BY <1>0, <1>2, <1>5, <3>4 DEF OpenCopy, SaveTypeOK
    <3>5. ASSUME Command, \A n \in SavedMacro : ~Edit(n) /\ ~ChangeAndSave(n)
          PROVE  mem' = mem
      BY <3>5 DEF Command, Delete, BeginFlush, memory
    <3>6. ASSUME NEW p \in Proc, SaveStep(p), ~Read(App), ~OpenCopy
          PROVE  mem' = mem
      BY <3>6
         DEF SaveStep, Wake, TakeOne, BeginSave, Flush, WriteNext, EndFlush,
             WriteTmp, WriteFails, Unlink, Rename, ReplaceFails, Read,
             ReadNeighbour, RemoveFile, RemoveFails, RefreshList, memory
    <3>7. QED
      BY <3>1, <3>2, <3>3, <3>4, <3>5, <3>6 DEF SaveNext, Command
  <2>4. QED
    BY <2>1, <2>2, <2>3
<1>6. QED
  BY <1>4, <1>5

\* While the app is in the middle of something, only its own direct save edits.
LEMMA OnlyAppEdits ==
  ASSUME EndingRun = {}, SafeInv, SaveNext, at[App] # "idle",
         ~(Rename(App) /\ goal[App] = "save")
  PROVE  edited' = edited
<1>1. CASE Command
  BY <1>1 DEF Command, Edit, ChangeAndSave, Delete, BeginFlush, StateLockFree
<1>2. ASSUME NEW p \in Proc, SaveStep(p) PROVE edited' = edited
  BY <1>2
     DEF SaveStep, Wake, TakeOne, BeginSave, Flush, WriteNext, EndFlush,
         WriteTmp, WriteFails, Unlink, Rename, Read, ReplaceFails,
         ReadNeighbour, OpenCopy, RemoveFile, RemoveFails, RefreshList
<1>3. QED
  BY <1>1, <1>2 DEF SaveNext

LEMMA KeptReader ==
  ASSUME EndingRun = {}, SafeInv, KeptInv, SaveNext, at'[App] # "idle",
         goal'[App] = "read"
  PROVE  since'[App] = edited'
<1>0. SaveTypeOK /\ Places
  BY DEF SafeInv, TypeInv
<1>1. CASE BeginFlush(App, "read") \/ RemoveFile \/ (RemoveFails /\ RefreshList)
  BY <1>0, <1>1, Threads
     DEF BeginFlush, RemoveFile, RemoveFails, RefreshList, SaveTypeOK
<1>2. ASSUME at[App] = "idle", Command, ~BeginFlush(App, "read") PROVE FALSE
  <2>1. CASE BeginFlush(Outside, "read") \/ BeginFlush(Exit, "exit")
    BY <1>0, <1>2, <2>1, Threads DEF BeginFlush, Goto, SaveTypeOK
  <2>2. ASSUME NEW m \in SavedMacro, Edit(m) \/ ChangeAndSave(m) \/ Delete(m)
        PROVE  FALSE
    BY <1>0, <1>2, <2>2, Threads DEF Edit, ChangeAndSave, Delete, SaveTypeOK
  <2>3. QED
    BY <1>2, <2>1, <2>2 DEF Command
<1>3. ASSUME at[App] # "idle", goal'[App] = goal[App], since'[App] = since[App]
      PROVE  since'[App] = edited'
  <2>1. since[App] = edited
    BY <1>3 DEF KeptInv
  <2>2. ~(Rename(App) /\ goal[App] = "save")
    BY <1>3
  <2>3. QED
    BY <1>3, <2>1, <2>2, OnlyAppEdits
<1>4. ASSUME NEW p \in Proc, SaveStep(p), p # App
      PROVE  at'[App] = at[App] /\ goal'[App] = goal[App] /\ since'[App] = since[App]
  BY <1>4, OthersStay, Threads DEF SafeInv
<1>5. ASSUME SaveStep(App), ~RemoveFile, ~(RemoveFails /\ RefreshList)
      PROVE  /\ at[App] # "idle" /\ since'[App] = since[App]
             /\ goal'[App] = goal[App]
  BY <1>5, Threads
     DEF SaveStep, BeginSave, Flush, WriteNext, EndFlush, WriteTmp, WriteFails,
         Unlink, Rename, Read, ReplaceFails, ReadNeighbour, OpenCopy,
         RemoveFails, jobs, flushes
<1>6. ASSUME Command, at[App] # "idle"
      PROVE  goal'[App] = goal[App] /\ since'[App] = since[App]
  BY <1>6, OthersGoOn, Threads DEF SafeInv
<1>7. QED
  BY <1>1, <1>2, <1>3, <1>4, <1>5, <1>6 DEF SaveNext

\* What the exit has to save is what was queued when it began.
LEMMA ExitGoesOn ==
  ASSUME EndingRun = {}, SafeInv, SaveNext, at[Exit] # "idle"
  PROVE  since'[Exit] = since[Exit]
<1>1. CASE Command
  BY <1>1, OthersGoOn, Threads DEF SafeInv
<1>2. ASSUME NEW p \in Proc, SaveStep(p), p # Exit PROVE since'[Exit] = since[Exit]
  BY <1>2, OthersStay, Threads DEF SafeInv
<1>3. CASE SaveStep(Exit)
  BY <1>3, Threads
     DEF SaveStep, BeginSave, Flush, WriteNext, EndFlush, WriteTmp, WriteFails,
         Unlink, Rename, Read, ReplaceFails, ReadNeighbour, OpenCopy, jobs,
         flushes
<1>4. QED
  BY <1>1, <1>2, <1>3 DEF SaveNext

LEMMA ExitBegins ==
  ASSUME EndingRun = {}, SafeInv, SaveNext, at[Exit] = "idle", at'[Exit] # "idle"
  PROVE  at'[Exit] = "flush" /\ since'[Exit] = edited /\ edited' = edited
<1>0. SaveTypeOK
  BY DEF SafeInv, TypeInv
<1>1. ASSUME NEW m \in SavedMacro, Edit(m) \/ ChangeAndSave(m) \/ Delete(m)
      PROVE  FALSE
  BY <1>0, <1>1, Threads DEF Edit, ChangeAndSave, Delete, Goto, SaveTypeOK
<1>2. ASSUME NEW p \in Proc, SaveStep(p) PROVE FALSE
  <2>1. p = Exit
    BY <1>2, OthersStay, Threads DEF SafeInv
  <2>2. QED
    BY <1>2, <2>1, Threads
       DEF SaveStep, BeginSave, Flush, WriteNext, EndFlush, WriteTmp,
           WriteFails, Unlink, Rename, Read, ReplaceFails, ReadNeighbour,
           OpenCopy
<1>3. ASSUME BeginFlush(App, "read") \/ BeginFlush(Outside, "read") PROVE FALSE
  BY <1>0, <1>3, Threads DEF BeginFlush, Goto, SaveTypeOK
<1>4. CASE BeginFlush(Exit, "exit")
  BY <1>0, <1>4, Threads DEF BeginFlush, Goto, SaveTypeOK
<1>5. QED
  BY <1>1, <1>2, <1>3, <1>4 DEF SaveNext, Command

LEMMA KeptSince ==
  ASSUME EndingRun = {}, SafeInv, KeptInv, SaveNext, at'[Exit] # "idle",
         NEW m \in SavedMacro
  PROVE  since'[Exit][m] <= edited'[m]
<1>0. SaveTypeOK
  BY DEF SafeInv, TypeInv
<1>1. SafeInv'
  BY SafeStep
<1>2. edited[m] \in Nat /\ edited'[m] \in Nat /\ since[Exit][m] \in Nat
  BY <1>0, <1>1, Versions, Threads, Numbers DEF SafeInv, TypeInv, SaveTypeOK
<1>3. CASE at[Exit] = "idle"
  BY <1>2, <1>3, ExitBegins
<1>4. CASE at[Exit] # "idle"
  <2>1. since[Exit][m] <= edited[m] /\ since'[Exit] = since[Exit]
    BY <1>4, ExitGoesOn DEF KeptInv
  <2>2. edited[m] <= edited'[m]
    BY <1>2, Editing
  <2>3. QED
    BY <1>2, <2>1, <2>2
<1>5. QED
  BY <1>3, <1>4

LEMMA KeptByExit ==
  ASSUME EndingRun = {}, IoFails = FALSE, SafeInv, KeptInv, SaveNext, Busy(Exit)',
         NEW m \in SavedMacro
  PROVE  HeldAfter(Exit, m, since'[Exit][m])
<1>0. SaveTypeOK /\ Places
  BY DEF SafeInv, TypeInv
<1>1. /\ edited[m] \in Nat /\ since[Exit][m] \in Nat /\ queue[m] \in Nat
      /\ landed[m] \in Nat
  BY <1>0, Numbers, Threads
<1>2. at[Exit] # "idle"
  BY ExitBegins DEF Busy, Writes
<1>3. since'[Exit] = since[Exit] /\ since[Exit][m] <= edited[m]
  BY <1>0, <1>2, ExitGoesOn DEF KeptInv
<1>4. CASE Busy(Exit)
  BY <1>0, <1>1, <1>3, <1>4, HeldStep, Threads DEF KeptInv
<1>5. CASE ~Busy(Exit)
  <2>1. at'[Exit] # at[Exit]
    BY <1>5 DEF Busy, Writes
  <2>2. SaveStep(Exit)
    BY <1>2, <2>1, OthersGoOn, OthersStay, Threads DEF SafeInv, SaveNext
  <2>3. Flush(Exit) /\ savesStarted
    <3>1. at[Exit] \in {"flush", "gone"}
      BY <1>0, <1>2, <1>5 DEF Places, Busy, Writes
    <3>2. Flush(Exit)
      BY <2>2, <3>1, Threads
         DEF SaveStep, BeginSave, WriteNext, EndFlush, WriteTmp, WriteFails,
             Unlink, Rename, Read, ReplaceFails, ReadNeighbour, OpenCopy
    <3>3. CASE ~savesStarted
      <4>1. Flushed(Exit)
        BY <3>2, <3>3 DEF Flush
      <4>2. PICK next \in {"reading", "removing", "gone"} : Flushes(Exit, next)
        BY <3>2, <4>1, FlushedFlushes, Threads DEF SafeInv, Flush
      <4>3. ~Busy(Exit)'
        BY <1>0, <4>2, Threads DEF Flushes, Busy, Writes, SaveTypeOK
      <4>4. QED
        BY <4>3
    <3>4. QED
      BY <3>2, <3>3
  <2>4. /\ writing = NoThread /\ todo'[Exit] = queue /\ landed' = landed
    BY <1>0, <2>3, Threads DEF Flush, MayWrite, SaveTypeOK, files
  <2>5. edited[m] <= queue[m] \/ edited[m] <= landed[m]
    BY <1>0, <2>3, <2>4, Admitted, NothingHeld DEF SafeInv
  <2>6. QED
    BY <1>1, <1>3, <2>4, <2>5 DEF HeldAfter
<1>6. QED
  BY <1>4, <1>5

LEMMA KeptAtExit ==
  ASSUME EndingRun = {}, SafeInv, KeptInv, SaveNext, at'[Exit] = "gone",
         NEW m \in Listed'
  PROVE  Larger(disk'[m], tmp'[m]) >= since'[Exit][m]
<1>0. SaveTypeOK /\ Places /\ m \in Listed \ stranded /\ m \in SavedMacro
  BY ListedShrinks DEF SafeInv, TypeInv, SaveTypeOK, Listed, KeptInv
<1>1. /\ edited[m] \in Nat /\ since[Exit][m] \in Nat /\ disk[m] \in Nat
      /\ tmp[m] \in Nat /\ landed[m] \in Nat
  BY <1>0, Numbers, Threads
<1>2. at[Exit] # "idle" /\ at[Exit] # "gone"
  BY ExitBegins DEF SaveNext, Running
<1>3. since'[Exit] = since[Exit] /\ since[Exit][m] <= edited[m]
  BY <1>0, <1>2, ExitGoesOn DEF KeptInv
<1>4. SaveStep(Exit)
  BY <1>2, OthersGoOn, OthersStay, Threads DEF SafeInv, SaveNext
<1>5. Flush(Exit) \/ EndFlush(Exit)
  <2>1. \A to : Goto(Exit, to) => at'[Exit] = to
    BY <1>0, Threads DEF Goto, SaveTypeOK
  <2>2. ASSUME WriteFails(Exit) \/ Rename(Exit) \/ ReplaceFails(Exit) PROVE FALSE
    <3>1. at'[Exit] = "drained"
      BY <2>1, <2>2, Threads DEF WriteFails, Rename, ReplaceFails, Written
    <3>2. QED
      BY <3>1
  <2>3. QED
    BY <1>4, <2>1, <2>2, Threads
       DEF SaveStep, BeginSave, WriteNext, WriteTmp, Unlink, Read, ReplaceFails,
           ReadNeighbour, OpenCopy
<1>6. disk' = disk /\ tmp' = tmp
  BY <1>5 DEF Flush, EndFlush, files
<1>7. since[Exit][m] <= landed[m]
  <2>1. CASE EndFlush(Exit)
    <3>1. at[Exit] = "drained" /\ todo[Exit][m] = 0
      BY <1>0, <2>1, Versions DEF EndFlush, AllWritten, Empty
    <3>2. Held(Exit, m, since[Exit][m]) /\ ~Writes(Exit)
      BY <1>0, <3>1 DEF KeptInv, Busy, Writes
    <3>3. QED
      BY <1>1, <3>1, <3>2 DEF Held
  <2>2. CASE Flush(Exit)
    <3>1. ~savesStarted
      BY <1>0, <2>2, Threads DEF Flush, Goto, SaveTypeOK
    <3>2. edited[m] <= landed[m]
      BY <1>0, <3>1 DEF KeptInv
    <3>3. QED
      BY <1>1, <1>3, <3>2
  <2>3. QED
    BY <1>5, <2>1, <2>2
<1>8. landed[m] <= disk[m] \/ landed[m] <= tmp[m]
  <2>1. CASE disk[m] # NoCopy
    BY <1>0, <1>1, <2>1 DEF KeptInv
  <2>2. ASSUME NEW p \in Proc, at[p] = "rename", job[p].macro = m
        PROVE  landed[m] <= tmp[m]
    BY <1>0, <2>2 DEF SafeInv, CopyInv, OrderInv, Timely, Writes
  <2>3. QED
    BY <1>0, <2>1, <2>2 DEF SafeInv, CopyInv
<1>9. QED
  BY <1>1, <1>3, <1>6, <1>7, <1>8 DEF Larger

LEMMA KeptInit == SaveInit => KeptInv
  BY Threads, Versions
     DEF SaveInit, KeptInv, Held, EditsSurvive, ExitSavesQueued, Busy, Writes,
         Listed

LEMMA KeptStep ==
  ASSUME EndingRun = {}, IoFails = FALSE
  PROVE  SafeInv /\ KeptInv /\ [SaveNext]_saveVars => KeptInv'
<1> SUFFICES ASSUME SafeInv, KeptInv, [SaveNext]_saveVars PROVE KeptInv'
  OBVIOUS
<1>1. CASE UNCHANGED saveVars
  BY <1>1 DEF saveVars, KeptInv, Held, EditsSurvive, ExitSavesQueued, Busy,
              Writes, Listed
<1>2. CASE SaveNext
  <2>1. \A m \in SavedMacro : disk'[m] # NoCopy => disk'[m] = landed'[m]
    BY <1>2, KeptFiles DEF KeptInv
  <2>2. ~savesStarted' => \A m \in SavedMacro : edited'[m] <= landed'[m]
    BY <1>2, KeptStarted
  <2>3. \A m \in SavedMacro : \/ edited'[m] <= queue'[m]
                              \/ \E p \in Proc : HeldAfter(p, m, edited'[m])
    BY <1>2, KeptQueued
  <2>4. EditsSurvive'
    BY <1>2, KeptEdits DEF EditsSurvive
  <2>5. at'[App] # "idle" /\ goal'[App] = "read" => since'[App] = edited'
    BY <1>2, KeptReader
  <2>6. at'[Exit] # "idle" => \A m \in SavedMacro : since'[Exit][m] <= edited'[m]
    BY <1>2, KeptSince
  <2>7. Busy(Exit)' => \A m \in SavedMacro : HeldAfter(Exit, m, since'[Exit][m])
    BY <1>2, KeptByExit
  <2>8. ExitSavesQueued'
    BY <1>2, KeptAtExit DEF ExitSavesQueued
  <2>9. stranded' = {}
    BY <1>2 DEF SaveNext, Command, Edit, ChangeAndSave, Delete, BeginFlush,
                SaveStep, Wake, TakeOne, BeginSave, Flush, WriteNext, EndFlush,
                WriteTmp, WriteFails, Unlink, Rename, ReplaceFails, Read,
                ReadNeighbour, OpenCopy, RemoveFile, RemoveFails, RefreshList,
                files, KeptInv
  <2>10. QED
    BY <2>1, <2>2, <2>3, <2>4, <2>5, <2>6, <2>7, <2>8, <2>9
       DEF KeptInv, Held, HeldAfter
<1>3. QED
  BY <1>1, <1>2

LEMMA Kept ==
  ASSUME EndingRun = {}, IoFails = FALSE
  PROVE  SaveSpec => [](SafeInv /\ KeptInv)
<1>1. SaveInit => SafeInv
  BY SafeInit
<1>2. SafeInv /\ [SaveNext]_saveVars => SafeInv'
  BY SafeStep
<1>3. SafeInv /\ KeptInv /\ [SaveNext]_saveVars => KeptInv'
  BY KeptStep
<1>4. QED
  BY <1>1, KeptInit, <1>2, <1>3, PTL DEF SaveSpec

\* "... so edits made since the last save (or during the run) survive": a refresh
\* takes the files over into memory only when everything queued has landed.  A
\* hotkey that opens a copy it read before an edit may undo it, and nothing else.
THEOREM EditsOutliveRefresh ==
  ASSUME EndingRun = {}, IoFails = FALSE
  PROVE  SaveSpec => []EditsSurvive
<1>1. SaveSpec => [](SafeInv /\ KeptInv)
  BY Kept
<1>2. KeptInv => EditsSurvive
  BY DEF KeptInv
<1>3. QED
  BY <1>1, <1>2, PTL

\* "Every reader of the macro files calls flush_saves first, so nobody in this
\* process sees a stale file": after its flush a command under the state lock finds
\* a file of every macro, at least as new as what was saved or queued before.
THEOREM ReadersSeeSaves ==
  ASSUME EndingRun = {}, IoFails = FALSE
  PROVE  SaveSpec => []CommandsSeeSaves
<1>1. SaveSpec => [](SafeInv /\ KeptInv)
  BY Kept
<1>2. ASSUME SafeInv, KeptInv PROVE CommandsSeeSaves
  <2>1. SUFFICES ASSUME at[App] = "reading", NEW m \in Listed
                 PROVE  disk[m] >= since[App][m]
    BY DEF CommandsSeeSaves
  <2>2. SaveTypeOK /\ Places /\ m \in SavedMacro
    BY <1>2 DEF SafeInv, TypeInv, SaveTypeOK, Listed
  <2>3. edited[m] <= landed[m] /\ disk[m] = landed[m]
    BY <1>2, <2>1, <2>2, AllLanded
  <2>4. since[App] = edited
    BY <1>2, <2>1, <2>2 DEF KeptInv, Places
  <2>5. QED
    BY <2>2, <2>3, <2>4, Numbers
<1>3. QED
  BY <1>1, <1>2, PTL

\* "Writes every queued save now. Call before reading macro files or exiting":
\* whatever was queued before an orderly exit began is in the file, or complete in
\* the temporary one, when the process is gone, even if a direct save is cut off.
THEOREM ExitLosesNothing ==
  ASSUME EndingRun = {}, IoFails = FALSE
  PROVE  SaveSpec => []ExitSavesQueued
<1>1. SaveSpec => [](SafeInv /\ KeptInv)
  BY Kept
<1>2. KeptInv => ExitSavesQueued
  BY DEF KeptInv
<1>3. QED
  BY <1>1, <1>2, PTL

=============================================================================
