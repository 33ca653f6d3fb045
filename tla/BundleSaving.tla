---------------------------- MODULE BundleSaving ----------------------------
(* The file a bundle is saved to, across restarts: what QueueManager changes *)
(* in the bundle and on the disk while files are downloaded and removed,     *)
(* what saveQueue writes of it, and what QueueLoader makes of the file when  *)
(* the program is started again after it has ended or crashed.               *)
EXTENDS Naturals

CONSTANTS
    Files,       \* the files of the bundle
    FileLeaves,  \* how many leaves each of them has; a segment is a leaf
    Setups,      \* how often what may happen
    Mishaps      \* "overlap", "unlocked": threads that come between the steps of a save

Limits == [crash : Nat, stop : Nat, remove : Nat, lose : Nat, fail : Nat, toggle : Nat,
           move : Nat]

ASSUME BundleSavingAssumption ==
    /\ FileLeaves \in [Files -> Nat \ {0}]
    /\ Setups \subseteq Limits
    /\ Mishaps \subseteq {"overlap", "unlocked"}

VARIABLES
    limits,  \* what may still happen
    up,      \* the program runs, or how it has come to an end
    bundle,  \* listed: in the BundleQueue; its files, queued and finished; dirty; auto: its
             \* automatic priority
    queue,   \* the files in the FileQueue
    done,    \* finished segments
    conn,    \* the connection that downloads a file: where it is, and its segment
    user,    \* where the user's thread is
    saver,   \* where the task thread ("tasks") and the main thread ("main") are in Bundle::save
    xml, tmp,     \* the bundle's file, and the one it is written to first
    temp, target, \* the temporary file of a file and what is in it; the finished file
    saved, reset  \* history: the files that have been saved, and reset since the last save

memory == <<bundle, queue, done>>
threads == <<conn, user, saver>>
saving == <<xml, tmp, saved, reset>>
disk == <<temp, target>>
vars == <<limits, up, memory, threads, saving, disk>>

Leaves(f) == 1 .. FileLeaves[f]
Savers == {"tasks", "main"}

\* A file without files is not loaded, nor is one that is not there or not complete.
Nothing == [files |-> {}, done |-> [f \in Files |-> {}], auto |-> TRUE]
Idle == [at |-> "idle", leaf |-> 0, bytes |-> FALSE]
NoTemp == [exists |-> FALSE, good |-> {}]
Resting == [at |-> "idle", files |-> {}]

Init ==
    /\ limits \in Setups /\ up = "running"
    /\ bundle = [listed |-> TRUE, files |-> Files, dirty |-> TRUE, auto |-> TRUE]
    /\ queue = Files /\ done = [f \in Files |-> {}]
    /\ conn = [f \in Files |-> Idle] /\ user = Resting /\ saver = [s \in Savers |-> "idle"]
    /\ xml = Nothing /\ tmp = [exists |-> FALSE, content |-> Nothing] /\ saved = {} /\ reset = {}
    /\ temp = [f \in Files |-> NoTemp] /\ target = [f \in Files |-> "none"]

Spend(what) ==
    /\ limits[what] > 0
    /\ limits' = [limits EXCEPT ![what] = @ - 1]

\* saveQueue holds the lock of QueueManager for reading all the time.
Saving == \E s \in Savers : saver[s] \notin {"idle", "done"}
WriteLock == ~Saving

Finished(f) == done[f] = Leaves(f)
InPlace(f) == target[f] # "none"
At(f, where) == conn[f].at = where
Ends(f) == conn' = [conn EXCEPT ![f] = Idle]
Goes(f, where) == conn' = [conn EXCEPT ![f].at = where]
Dirty(b) == [b EXCEPT !.dirty = TRUE]

-----------------------------------------------------------------------------
(* A connection downloads a segment of a file *)

\* (Mutant: nobody looks whether the temporary file is still there.)
DoneUnlooked(f) == done[f]
\* getDownload: without the temporary file, what has been finished is to be downloaded again.
DoneOnDisk(f) == IF temp[f].exists THEN done[f] ELSE {}

Assign(f) ==
    /\ up = "running" /\ WriteLock /\ f \in queue /\ At(f, "idle") /\ ~Finished(f)
    /\ done' = [done EXCEPT ![f] = DoneOnDisk(f)]
    /\ \E leaf \in Leaves(f) \ DoneOnDisk(f) :
         conn' = [conn EXCEPT ![f] = [at |-> "assigned", leaf |-> leaf, bytes |-> FALSE]]
    /\ reset' = IF done'[f] = done[f] THEN reset ELSE reset \cup {f}
    /\ UNCHANGED <<limits, up, bundle, queue, user, saver, xml, tmp, saved, disk>>

\* startData: Download::open
Open(f) ==
    /\ At(f, "assigned")
    /\ IF f \in queue /\ (done[f] # {} => temp[f].exists)
       THEN /\ temp' = [temp EXCEPT ![f].exists = TRUE] /\ Goes(f, "receiving")
       ELSE /\ UNCHANGED temp /\ Goes(f, "failed")
    /\ UNCHANGED <<limits, up, memory, user, saver, saving, target>>

\* Some of it, then the rest of it; the file is closed.
Receive(f) ==
    /\ At(f, "receiving")
    /\ IF conn[f].bytes
       THEN /\ temp' = [temp EXCEPT ![f].good = @ \cup {conn[f].leaf}] /\ Goes(f, "received")
       ELSE /\ UNCHANGED temp /\ conn' = [conn EXCEPT ![f].bytes = TRUE]
    /\ UNCHANGED <<limits, up, memory, user, saver, saving, target>>

\* The connection breaks, is closed because its file is removed, or the program ends.
Fail(f) ==
    /\ conn[f].at \in {"assigned", "receiving"}
    /\ \/ f \in queue /\ up = "running" /\ Spend("fail")
       \/ (f \notin queue \/ up # "running") /\ UNCHANGED limits
    /\ Goes(f, "failed")
    /\ UNCHANGED <<up, memory, user, saver, saving, disk>>

\* (Mutant: the segments that other connections have finished are not looked at.)
UselessSegment(f) == f \notin queue \/ ~conn[f].bytes
\* A temporary file that is of no use is deleted.
Useless(f) == f \notin queue \/ (done[f] = {} /\ ~conn[f].bytes)

\* putDownloadHooked after a failure or for a removed file
PutFailed(f) ==
    /\ At(f, "failed") \/ (At(f, "received") /\ f \notin queue)
    /\ temp' = IF Useless(f) THEN [temp EXCEPT ![f] = NoTemp] ELSE temp
    /\ Ends(f)
    /\ UNCHANGED <<limits, up, memory, user, saver, saving, target>>

\* (Mutant: a segment is recorded while the bundle is saved.)
RecordUnlocked(f) ==
    /\ At(f, "received") /\ f \in queue
    /\ done' = [done EXCEPT ![f] = @ \cup {conn[f].leaf}]
    /\ bundle' = Dirty(bundle)
    /\ IF done'[f] = Leaves(f) THEN Goes(f, "recorded") ELSE Ends(f)
    /\ UNCHANGED <<limits, up, queue, user, saver, saving, disk>>

\* onFileDownloadCompleted
Record(f) ==
    /\ At(f, "received") /\ f \in queue /\ WriteLock
    /\ done' = [done EXCEPT ![f] = @ \cup {conn[f].leaf}]
    /\ bundle' = Dirty(bundle)
    /\ IF done'[f] = Leaves(f) THEN Goes(f, "recorded") ELSE Ends(f)
    /\ UNCHANGED <<limits, up, queue, user, saver, saving, disk>>

\* removeBundleItem: the file is one of the finished files of the bundle.
FinishItem(f) ==
    /\ At(f, "recorded") /\ WriteLock
    /\ bundle' = Dirty(bundle) /\ Goes(f, "moving")
    /\ UNCHANGED <<limits, up, queue, done, user, saver, saving, disk>>

\* renameDownloadedFile, whose failure is logged.
Move(f) ==
    /\ At(f, "moving")
    /\ \/ /\ temp[f].exists /\ UNCHANGED limits
          /\ target' = [target EXCEPT ![f] = IF temp[f].good = Leaves(f) THEN "good" ELSE "bad"]
          /\ temp' = [temp EXCEPT ![f] = NoTemp]
          /\ Ends(f)
       \/ /\ Goes(f, "stuck") /\ UNCHANGED disk
          /\ IF temp[f].exists THEN Spend("move") ELSE UNCHANGED limits
    /\ UNCHANGED <<up, memory, user, saver, saving>>

-----------------------------------------------------------------------------
(* The user *)

Running(f) == conn[f].at \in {"assigned", "receiving", "received", "failed"}
\* Removing a file while a connection finishes it is left out.
Finishing(f) == conn[f].at \in {"recorded", "moving"}
Acts(where, files) == user' = [at |-> where, files |-> files]

\* (Mutant: what is removed stays in the FileQueue.)
StillQueued(files) == queue
Dequeued(files) == queue \ files

\* removeQI
RemoveFile(f) ==
    /\ up = "running" /\ user.at = "idle" /\ WriteLock /\ f \in queue /\ ~Finishing(f)
    /\ Spend("remove")
    /\ queue' = Dequeued({f})
    /\ temp' = IF Running(f) THEN temp ELSE [temp EXCEPT ![f] = NoTemp]
    /\ Acts("removed", {f})
    /\ UNCHANGED <<up, bundle, done, conn, saver, saving, target>>
\* removeBundleItem; setDirty is called without the lock.
RemoveItem ==
    /\ user.at = "removed" /\ WriteLock
    /\ bundle' = [bundle EXCEPT !.files = @ \ user.files]
    /\ Acts(IF bundle'.files = {} THEN "emptied" ELSE "changed", {})
    /\ UNCHANGED <<limits, up, queue, done, conn, saver, saving, disk>>
NoteChange ==
    /\ user.at = "changed"
    /\ bundle' = Dirty(bundle) /\ user' = Resting
    /\ UNCHANGED <<limits, up, queue, done, conn, saver, saving, disk>>

\* removeBundle, of its own accord or for a bundle without files
RemoveBundle ==
    /\ WriteLock /\ bundle.listed
    /\ \/ user.at = "emptied" /\ UNCHANGED limits
       \/ /\ up = "running" /\ user.at = "idle" /\ Spend("remove")
          /\ \A f \in bundle.files : ~Finishing(f)
    /\ bundle' = [bundle EXCEPT !.listed = FALSE, !.files = {}]
    /\ queue' = Dequeued(bundle.files)
    /\ xml' = Nothing
    /\ Acts("deleting", {f \in bundle.files : ~Finished(f) /\ ~Running(f)})
    /\ UNCHANGED <<up, done, conn, saver, tmp, saved, reset, disk>>
DeleteTemps ==
    /\ user.at = "deleting"
    /\ temp' = [f \in Files |-> IF f \in user.files THEN NoTemp ELSE temp[f]]
    /\ user' = Resting
    /\ UNCHANGED <<limits, up, memory, conn, saver, saving, target>>

\* toggleBundleAutoPriority of a bundle that is not downloaded, without any lock
ToggleAuto ==
    /\ up = "running" /\ user.at = "idle" /\ bundle.listed /\ Spend("toggle")
    /\ \E f \in bundle.files : ~Finished(f) \/ At(f, "recorded")
    /\ Saving => "unlocked" \in Mishaps
    /\ bundle' = [bundle EXCEPT !.auto = ~@]
    /\ Acts("changed", {})
    /\ UNCHANGED <<up, queue, done, conn, saver, saving, disk>>

\* Somebody else deletes a temporary file, which he cannot while it is open.
LoseTemp(f) ==
    /\ temp[f].exists /\ ~At(f, "receiving") /\ Spend("lose")
    /\ temp' = [temp EXCEPT ![f] = NoTemp]
    /\ UNCHANGED <<up, memory, threads, saving, target>>

-----------------------------------------------------------------------------
(* Bundle::save *)

Saves(s, where) == saver' = [saver EXCEPT ![s] = where]
\* The main thread saves once; the task thread looks again after ten seconds.
Ready(s) == IF s = "main" THEN "done" ELSE "idle"
OpenTmp(s) == \E r \in Savers \ {s} : saver[r] = "writing"

\* saveQueue, by the task thread or by QueueManager::shutdown
BeginSave(s) ==
    /\ saver[s] = "idle" /\ (IF s = "main" THEN up = "saving" ELSE up = "running")
    /\ (\A r \in Savers \ {s} : saver[r] \in {"idle", "done"}) \/ "overlap" \in Mishaps
    /\ IF bundle.listed /\ bundle.dirty
       THEN Saves(s, IF OpenTmp(s) THEN Ready(s) ELSE "writing")
       ELSE s = "main" /\ Saves(s, "done")
    /\ UNCHANGED <<limits, up, memory, conn, user, saving, disk>>

\* (Mutant: only the files that are still to be downloaded are saved.)
QueuedContent ==
    [files |-> {f \in bundle.files : ~Finished(f)},
     done |-> [f \in Files |-> IF f \in bundle.files THEN done[f] ELSE {}],
     auto |-> bundle.auto]
Content ==
    [files |-> bundle.files,
     done |-> [f \in Files |-> IF f \in bundle.files THEN done[f] ELSE {}],
     auto |-> bundle.auto]

WriteTmp(s) ==
    /\ saver[s] = "writing" /\ Saves(s, "written")
    /\ tmp' = [exists |-> TRUE, content |-> Content]
    /\ UNCHANGED <<limits, up, memory, conn, user, xml, saved, reset, disk>>
DeleteOld(s) ==
    /\ saver[s] = "written" /\ Saves(s, "deleted")
    /\ xml' = Nothing
    /\ UNCHANGED <<limits, up, memory, conn, user, tmp, saved, reset, disk>>
\* A file that is not there, or that another thread has open, cannot be renamed.
RenameTmp(s) ==
    /\ saver[s] = "deleted"
    /\ IF tmp.exists /\ ~OpenTmp(s)
       THEN /\ xml' = tmp.content /\ tmp' = [exists |-> FALSE, content |-> Nothing]
            /\ saved' = saved \cup tmp.content.files /\ reset' = {} /\ Saves(s, "renamed")
       ELSE Saves(s, Ready(s)) /\ UNCHANGED saving
    /\ UNCHANGED <<limits, up, memory, conn, user, disk>>
ClearDirty(s) ==
    /\ saver[s] = "renamed" /\ Saves(s, Ready(s))
    /\ bundle' = [bundle EXCEPT !.dirty = FALSE]
    /\ UNCHANGED <<limits, up, queue, done, conn, user, saving, disk>>

-----------------------------------------------------------------------------
(* The program ends and is started again *)

ConnectionsEnded == \A f \in Files : conn[f].at \in {"idle", "stuck"}

\* DCPlusPlus.cpp: no new connections; when all have ended, the queue is saved.
Stop ==
    /\ up = "running" /\ user.at = "idle" /\ Spend("stop") /\ up' = "closing"
    /\ UNCHANGED <<memory, threads, saving, disk>>
SaveAtEnd ==
    /\ up = "closing" /\ ConnectionsEnded /\ up' = "saving"
    /\ UNCHANGED <<limits, memory, threads, saving, disk>>

\* Nothing is left in memory.
Vanish ==
    /\ bundle' = [listed |-> FALSE, files |-> {}, dirty |-> FALSE, auto |-> TRUE]
    /\ queue' = {} /\ done' = [f \in Files |-> {}]
    /\ conn' = [f \in Files |-> Idle] /\ user' = Resting /\ saver' = [s \in Savers |-> "idle"]
    /\ UNCHANGED <<saving, disk>>
End ==
    /\ up = "saving" /\ saver["main"] = "done" /\ saver["tasks"] = "idle" /\ up' = "ended"
    /\ Vanish /\ UNCHANGED limits
Crash ==
    /\ up \notin {"ended", "crashed"} /\ Spend("crash") /\ up' = "crashed"
    /\ Vanish

\* QueueLoader: a finished file has to be there, one that is to be downloaded must not.
Loads(f) == f \in xml.files /\ (xml.done[f] = Leaves(f) <=> InPlace(f))

\* loadQueue; the file of a bundle without files is deleted.
Start ==
    /\ up \in {"ended", "crashed"} /\ up' = "running"
    /\ LET files == {f \in Files : Loads(f)} IN
       /\ bundle' = [listed |-> files # {}, files |-> files, dirty |-> FALSE,
                     auto |-> (files = {} \/ xml.auto)]
       /\ queue' = files
       /\ done' = [f \in Files |-> IF f \in files THEN xml.done[f] ELSE {}]
       /\ xml' = IF files = {} THEN Nothing ELSE xml
    /\ UNCHANGED <<limits, threads, tmp, saved, reset, disk>>

-----------------------------------------------------------------------------
Connection(f) ==
    Assign(f) \/ Open(f) \/ Receive(f) \/ PutFailed(f) \/ Record(f) \/ FinishItem(f) \/ Move(f)
User == RemoveItem \/ NoteChange \/ DeleteTemps
Save(s) == BeginSave(s) \/ WriteTmp(s) \/ DeleteOld(s) \/ RenameTmp(s) \/ ClearDirty(s)
Restart == SaveAtEnd \/ End \/ Start

Next ==
    \/ \E f \in Files : Connection(f) \/ Fail(f) \/ RemoveFile(f) \/ LoseTemp(f)
    \/ User \/ RemoveBundle \/ ToggleAuto
    \/ \E s \in Savers : Save(s)
    \/ Stop \/ Crash \/ Restart

Spec == Init /\ [][Next]_vars

\* Threads run, sources send what is asked for, and the program is started again.
FairSpec ==
    /\ Spec
    /\ \A f \in Files : WF_vars(Connection(f)) /\ WF_vars(up # "running" /\ Fail(f))
    /\ WF_vars(User) /\ WF_vars(user.at = "emptied" /\ RemoveBundle)
    /\ \A s \in Savers : WF_vars(Save(s))
    /\ WF_vars(Restart)
-----------------------------------------------------------------------------
(* Properties *)

Contents ==
    [files : SUBSET Files, done : [Files -> SUBSET Nat], auto : BOOLEAN]

TypeOK ==
    /\ limits \in Limits
    /\ up \in {"running", "closing", "saving", "ended", "crashed"}
    /\ bundle \in [listed : BOOLEAN, files : SUBSET Files, dirty : BOOLEAN, auto : BOOLEAN]
    /\ queue \subseteq bundle.files /\ done \in [Files -> SUBSET Nat]
    /\ \A f \in Files : done[f] \cup xml.done[f] \cup temp[f].good \subseteq Leaves(f)
    /\ conn \in [Files -> [at : {"idle", "assigned", "receiving", "received", "failed", "recorded",
                                 "moving", "stuck"}, leaf : Nat, bytes : BOOLEAN]]
    /\ user \in [at : {"idle", "removed", "changed", "emptied", "deleting"}, files : SUBSET Files]
    /\ saver \in [Savers -> {"idle", "writing", "written", "deleted", "renamed", "done"}]
    /\ xml \in Contents /\ tmp \in [exists : BOOLEAN, content : Contents]
    /\ saved \subseteq Files /\ reset \subseteq Files
    /\ temp \in [Files -> [exists : BOOLEAN, good : SUBSET Nat]]
    /\ target \in [Files -> {"none", "good", "bad"}]

\* A file that has been recorded as finished before it is in its place.
Unmoved(f) == Finished(f) /\ ~InPlace(f)

\* "dirty" says what it is for (Bundle.h:236): when it is not set and nobody is at it, the
\* file holds the bundle, and a start would bring back its files with their finished
\* segments, and its priority. Segments that are gone with their temporary file are not
\* noted (QueueItem.cpp:953).
RestartRestores ==
    up \notin {"ended", "crashed"} /\ ~bundle.dirty /\ ~Saving /\ user.at = "idle" =>
        /\ {f \in Files : Loads(f)} = {f \in bundle.files : ~Unmoved(f)}
        /\ \A f \in bundle.files \ reset : Loads(f) => xml.done[f] = done[f]
        /\ bundle.files # {} => xml.auto = bundle.auto

\* A crash forgets a file that has been saved only between the deletion of the old and the
\* renaming of the new file of its bundle (Bundle.cpp:684), or when the file has been
\* recorded as finished and not been moved (QueueManager.cpp:1851, 1880).
CrashKeeps ==
    \A f \in bundle.files \cap saved :
        \/ Loads(f) \/ InPlace(f) \/ Unmoved(f)
        \/ \E s \in Savers : saver[s] = "deleted"

\* What counts as finished is on the disk, as long as there is a temporary file
\* (QueueManager.cpp:1199 looks for the file and not for what is in it), so that no file
\* comes to its place with parts missing.
FinishedIsOnDisk ==
    \A f \in Files :
        /\ f \in queue /\ temp[f].exists => done[f] \subseteq temp[f].good
        /\ target[f] # "bad"

\* The bundle as it is in memory, and in its file or the one that is about to replace it.
InMemory ==
    [files |-> bundle.files, done |-> [f \in Files |-> IF f \in bundle.files THEN done[f] ELSE {}]]
Exposed == \E s \in Savers : saver[s] = "deleted"
Filed == LET content == IF Exposed THEN tmp.content ELSE xml
         IN  [files |-> content.files, done |-> content.done]

Promise == INSTANCE SavedBundle WITH
    running <- up \notin {"ended", "crashed"}, memory <- InMemory, kept <- Filed,
    exposed <- Exposed, placed <- {f \in Files : InPlace(f)}, givenUp <- reset

\* Whatever the threads, the user and a crash do between the steps of a save, a restart
\* brings back the bundle as it was at one moment: the last one at which it was saved after
\* a crash, and the end after an end in order; only a crash between the deletion of the old
\* file and the renaming of the new one loses it (Bundle.cpp:684).
PromiseSpec == Promise!Spec

\* A change is saved within the next save, and after all restarts every file that is still
\* in the queue is downloaded.
EventuallyInPlace ==
    /\ bundle.dirty ~> (~bundle.dirty \/ ~bundle.listed)
    /\ <>[](\A f \in bundle.files : InPlace(f) \/ At(f, "stuck"))
=============================================================================
