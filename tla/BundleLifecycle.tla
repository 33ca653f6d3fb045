-------------------------- MODULE BundleLifecycle --------------------------
(***************************************************************************)
(* One directory bundle of the download queue, from its first queued file  *)
(* until it is shared: the connections that finish its files               *)
(* (QueueManager::onFileDownloadCompleted), the task thread that runs the  *)
(* completion hooks and shares it, the share refresh, and the user who     *)
(* adds and removes files meanwhile.  An action is what a thread does      *)
(* while it holds QueueManager::cs, or one unlocked access to the status.  *)
(*                                                                         *)
(* A file stands for its QueueItem: a path that is queued again after it   *)
(* was removed is another file.  Hooks always have a subscriber, and may   *)
(* accept or reject.  The bundle lies inside a shared directory.           *)
(***************************************************************************)
EXTENDS Integers, Sequences, FiniteSets

CONSTANTS
    Files,          \* all files that may ever be in the bundle
    InitialFiles,   \* the sets of files it may be loaded or created with
    UserActions,    \* what the user may do, out of
                    \* {"add", "remove", "removeBundle", "share"}
    MaxActions,     \* bound: how often the user does something
    Width           \* values of a size_t counter

ASSUME BundleLifecycleAssumption ==
    /\ IsFiniteSet(Files) /\ InitialFiles \subseteq SUBSET Files \ {{}}
    /\ UserActions \subseteq {"add", "remove", "removeBundle", "share"}
    /\ MaxActions \in Nat /\ Width \in Nat /\ Width > 2 * Cardinality(Files)

VARIABLES
    status,             \* Bundle::status
    fileStatus,         \* QueueItem::status
    queueItems, finishedFiles,  \* the lists of the bundle
    inQueue, fileQueue, \* the bundle is in the queue; its files in the FileQueue
    queueSize,          \* BundleQueue::queueSize, in files
    queuedCount, finishedCount, \* PathInfo of the bundle's directory
    onTarget,           \* files that have been moved to their target
    pc,                 \* per file: the connection that finishes it
    tasks,              \* QueueManager::tasks; the first one is running
    worker, retry,      \* position of the task thread; files it revalidates
    checkDue,           \* DelayedEvents: the bundle will be checked
    removing, clearing, \* the file that the user is removing, if any; that was
                        \* the last one, and the bundle will be removed
    refreshing,         \* RefreshCompleted has found the bundle completed
    didUser, actions,   \* history: what the user has done, and how often
    sharings            \* history: calls of ShareManager::shareBundle

listVars == <<queueItems, finishedFiles, inQueue, fileQueue, queueSize, queuedCount,
              finishedCount>>
taskVars == <<tasks, worker, retry>>
actorVars == <<checkDue, removing, clearing, refreshing>>
history == <<didUser, actions, sharings>>
vars == <<status, fileStatus, listVars, onTarget, pc, taskVars, actorVars, history>>

Statuses == {"queued", "downloaded", "validating", "failed", "completed", "shared"}

FileTask(f) == [kind |-> "file", file |-> f]
CheckTask == [kind |-> "check"]
ShareTask(skip) == [kind |-> "share", skip |-> skip]

Tasks == {FileTask(f) : f \in Files} \cup {CheckTask} \cup {ShareTask(b) : b \in BOOLEAN}

TypeOK ==
    /\ status \in Statuses
    /\ fileStatus \in [Files -> {"new", "queued", "downloaded", "validating", "failed", "completed"}]
    /\ queueItems \subseteq Files /\ finishedFiles \subseteq Files
    /\ fileQueue \subseteq Files /\ onTarget \subseteq Files
    /\ queueSize \in Int
    /\ queuedCount \in 0 .. Width - 1 /\ finishedCount \in 0 .. Width - 1
    /\ pc \in [Files -> {"downloading", "found", "downloaded", "emptied", "renaming", "done"}]
    /\ tasks \in Seq(Tasks)
    /\ worker \in {"idle", "fileHook", "check", "readFailed", "reject", "readLists",
                   "revalidate", "filesHook", "validate", "bundleHook", "complete", "share"}
    /\ tasks = <<>> => worker = "idle"
    /\ retry \subseteq Files /\ removing \subseteq Files
    /\ {inQueue, checkDue, clearing, refreshing} \subseteq BOOLEAN
    /\ didUser \subseteq UserActions \cup {"race"} /\ actions \in 0 .. MaxActions /\ sharings \in Nat

IsDownloaded == status \in {"downloaded", "validating", "failed", "completed", "shared"}
IsCompleted == status \in {"completed", "shared"}
FileDownloaded(f) == fileStatus[f] \in {"downloaded", "validating", "failed", "completed"}

\* Wrong variant: files that have been downloaded will do.
FilesDownloaded == queueItems = {} /\ \A f \in finishedFiles : FileDownloaded(f)

FilesCompleted == queueItems = {} /\ \A f \in finishedFiles : fileStatus[f] = "completed"

FailedItems == {f \in finishedFiles : fileStatus[f] = "failed"}

Init ==
    /\ \E F \in InitialFiles : finishedFiles \in SUBSET F /\ queueItems = F \ finishedFiles
    /\ fileQueue = queueItems \cup finishedFiles
    /\ inQueue = TRUE /\ onTarget = finishedFiles
    /\ fileStatus = [f \in Files |-> IF f \in finishedFiles THEN "completed"
                                     ELSE IF f \in queueItems THEN "queued" ELSE "new"]
    /\ queueSize = Cardinality(queueItems)
    /\ queuedCount = Cardinality(queueItems) /\ finishedCount = Cardinality(finishedFiles)
    \* a bundle that was completed already is validated and shared again
    /\ status = IF queueItems = {} THEN "completed" ELSE "queued"
    /\ tasks = IF queueItems = {} THEN <<ShareTask(FALSE)>> ELSE <<>>
    /\ pc = [f \in Files |-> IF f \in finishedFiles THEN "done" ELSE "downloading"]
    /\ worker = "idle" /\ retry = {} /\ checkDue = FALSE /\ removing = {}
    /\ clearing = FALSE /\ refreshing = FALSE /\ didUser = {} /\ actions = 0 /\ sharings = 0

-----------------------------------------------------------------------------
(* The counters of BundleQueue.                                            *)

\* Wrong variant: the size of a finished file stays in the queue.
SizeWhenRemoved(f, finished) == IF ~FileDownloaded(f) THEN 1 ELSE 0

\* What the removal of a file from a list takes from the queue's size.
SizeOfRemoved(f, finished) == IF finished \/ ~FileDownloaded(f) THEN 1 ELSE 0

\* BundleQueue::removeBundleItem, without the lists of the bundle
CountRemoved(f, finished) ==
    /\ queueSize' = queueSize - SizeOfRemoved(f, finished)
    /\ IF FileDownloaded(f)
       THEN finishedCount' = (finishedCount + Width - 1) % Width /\ UNCHANGED queuedCount
       ELSE queuedCount' = (queuedCount + Width - 1) % Width /\ UNCHANGED finishedCount

-----------------------------------------------------------------------------
(* A connection finishes a file.                                           *)

Step(f, from, to) == pc[f] = from /\ pc' = [pc EXCEPT ![f] = to]

\* putDownloadHooked finds the item of the last segment.
FindFile(f) ==
    /\ Step(f, "downloading", "found") /\ f \in fileQueue
    /\ UNCHANGED <<status, fileStatus, listVars, onTarget, taskVars, actorVars, history>>

\* onFileDownloadCompleted: the item is downloaded.
SetDownloaded(f) ==
    /\ Step(f, "found", "downloaded")
    /\ fileStatus' = [fileStatus EXCEPT ![f] = "downloaded"]
    /\ UNCHANGED <<status, listVars, onTarget, taskVars, actorVars, history>>

\* Wrong variant: looks at the queued files before one is taken away.
BeforeRemoval(f) == IF queueItems = {} THEN "emptied" ELSE "renaming"

AfterRemoval(f) == IF queueItems \ {f} = {} THEN "emptied" ELSE "renaming"

\* removeBundleItem(f, true): the file changes its list.
MoveToFinished(f) ==
    /\ Step(f, "downloaded", AfterRemoval(f))
    /\ queueItems' = queueItems \ {f}
    /\ finishedFiles' = finishedFiles \cup {f}
    /\ CountRemoved(f, TRUE)
    /\ UNCHANGED <<status, fileStatus, inQueue, fileQueue, onTarget, taskVars, actorVars,
                   history>>

\* ... and after the lock, when no queued file was left
MarkDownloaded(f) ==
    /\ Step(f, "emptied", "renaming")
    /\ status' = "downloaded"
    /\ UNCHANGED <<fileStatus, listVars, onTarget, taskVars, actorVars, history>>

\* renameDownloadedFile: moving the file may fail; the rest is left to the task
\* thread.
Rename(f) ==
    /\ Step(f, "renaming", "done")
    /\ onTarget' \in {onTarget, onTarget \cup {f}}
    /\ tasks' = Append(tasks, FileTask(f))
    /\ UNCHANGED <<status, fileStatus, listVars, worker, retry, actorVars, history>>

-----------------------------------------------------------------------------
(* The task thread.                                                        *)

Work(from, to) == worker = from /\ worker' = to

\* Wrong variant: the task is dropped while the thread is still at it.
DropTask == UNCHANGED worker /\ tasks' = Tail(tasks)

EndTask == worker' = "idle" /\ tasks' = Tail(tasks)

Begin ==
    /\ tasks # <<>> /\ worker = "idle"
    /\ LET t == Head(tasks)
       IN  CASE t.kind = "file" ->
                  /\ worker' = "fileHook" /\ UNCHANGED retry
                  /\ fileStatus' = [fileStatus EXCEPT ![t.file] = "validating"]
             [] t.kind = "check" -> worker' = "check" /\ UNCHANGED <<fileStatus, retry>>
             [] t.kind = "share" ->
                  /\ retry' = IF t.skip THEN {} ELSE FailedItems
                  /\ worker' = IF t.skip THEN "complete"
                               ELSE IF retry' # {} THEN "revalidate" ELSE "validate"
                  /\ UNCHANGED fileStatus
    /\ UNCHANGED <<status, listVars, onTarget, pc, tasks, actorVars, history>>

\* runFileCompletionHooks; the bundle is checked next unless it was removed.
RunFileHook ==
    /\ worker = "fileHook"
    /\ \E result \in {"completed", "failed"} :
          fileStatus' = [fileStatus EXCEPT ![Head(tasks).file] = result]
    /\ IF queueItems = {} /\ finishedFiles = {}
       THEN EndTask
       ELSE worker' = "check" /\ UNCHANGED tasks
    /\ UNCHANGED <<status, listVars, onTarget, pc, retry, actorVars, history>>

\* checkBundleFinishedHooked
Check ==
    /\ worker = "check"
    /\ IF status = "shared" \/ ~IsDownloaded
       THEN EndTask
       ELSE worker' = "readFailed" /\ UNCHANGED tasks
    /\ UNCHANGED <<status, fileStatus, listVars, onTarget, pc, retry, actorVars, history>>

ReadFailed ==
    /\ Work("readFailed", IF FailedItems = {} THEN "readLists" ELSE "reject")
    /\ UNCHANGED <<status, fileStatus, listVars, onTarget, pc, tasks, retry, actorVars,
                   history>>

Reject ==
    /\ worker = "reject"
    /\ status' = "failed"
    /\ EndTask
    /\ UNCHANGED <<fileStatus, listVars, onTarget, pc, retry, actorVars, history>>

\* All files completed: shareBundle adds its task, unless a refresh has shared
\* the bundle already.
ReadLists ==
    /\ worker = "readLists" /\ worker' = "idle"
    /\ tasks' = IF FilesCompleted /\ status # "shared"
                THEN Append(Tail(tasks), ShareTask(FALSE)) ELSE Tail(tasks)
    /\ UNCHANGED <<status, fileStatus, listVars, onTarget, pc, retry, actorVars, history>>

\* runBundleCompletionHooks: first the failed files are validated again, ...
StartValidation ==
    /\ worker \in {"revalidate", "validate"}
    /\ worker' = IF worker = "revalidate" THEN "filesHook" ELSE "bundleHook"
    /\ status' = "validating"
    /\ UNCHANGED <<fileStatus, listVars, onTarget, pc, tasks, retry, actorVars, history>>

RunFilesHook ==
    /\ worker = "filesHook"
    /\ \E accepted \in SUBSET retry :
          /\ fileStatus' = [f \in Files |-> IF f \in accepted THEN "completed"
                                            ELSE IF f \in retry THEN "failed" ELSE fileStatus[f]]
          /\ worker' = IF accepted = retry THEN "validate" ELSE "reject"
    /\ retry' = {}
    /\ UNCHANGED <<status, listVars, onTarget, pc, tasks, actorVars, history>>

\* Wrong variant: a bundle that is rejected is shared all the same.
ShareAnyway ==
    /\ worker = "bundleHook" /\ worker' = "complete"
    /\ status' \in {"completed", "failed"}
    /\ UNCHANGED <<fileStatus, listVars, onTarget, pc, tasks, retry, actorVars, history>>

\* ... then the bundle is.
RunBundleHook ==
    /\ worker = "bundleHook"
    /\ \/ status' = "completed" /\ worker' = "complete" /\ UNCHANGED tasks
       \/ status' = "failed" /\ EndTask
    /\ UNCHANGED <<fileStatus, listVars, onTarget, pc, retry, actorVars, history>>

Complete ==
    /\ Work("complete", "share")
    /\ status' = "completed"
    /\ UNCHANGED <<fileStatus, listVars, onTarget, pc, tasks, retry, actorVars, history>>

\* The directory is scanned into share, unless share hooks do not allow it.
Share ==
    /\ worker = "share"
    /\ sharings' \in {sharings, sharings + 1}
    /\ EndTask
    /\ UNCHANGED <<status, fileStatus, listVars, onTarget, pc, retry, actorVars, didUser,
                   actions>>

-----------------------------------------------------------------------------
(* The user, timers and the share refresh.                                 *)

\* A connection has found the item, and its lists are not up to date yet.
Finishing(f) == pc[f] \in {"found", "downloaded"}

Race(touched) == IF \E f \in touched : Finishing(f) THEN {"race"} ELSE {}

Did(kind, touched) ==
    /\ kind \in UserActions /\ actions < MaxActions /\ actions' = actions + 1
    /\ didUser' = didUser \cup {kind} \cup Race(touched)

\* readdBundle drops the finished files whose target does not exist.
StillThere == finishedFiles \cap onTarget

\* createDirectoryBundleHooked adds new files to the bundle, which is taken up
\* again when they are all it has to download (addBundle).
AddFiles(F) ==
    /\ F # {} /\ inQueue /\ Did("add", {})
    /\ \A f \in F : fileStatus[f] = "new"
    /\ fileStatus' = [f \in Files |-> IF f \in F THEN "queued" ELSE fileStatus[f]]
    /\ queueItems' = queueItems \cup F
    /\ queueSize' = queueSize + Cardinality(F)
    /\ queuedCount' = (queuedCount + Cardinality(F)) % Width
    /\ LET missing == IF queueItems = {} THEN finishedFiles \ StillThere ELSE {}
       IN  /\ status' = IF queueItems = {} THEN "queued" ELSE status
           /\ finishedFiles' = finishedFiles \ missing
           /\ fileQueue' = (fileQueue \ missing) \cup F
           /\ finishedCount' = (finishedCount + Width - Cardinality(missing)) % Width
    /\ UNCHANGED <<inQueue, onTarget, pc, taskVars, actorVars, sharings>>

\* removeQI: the item leaves the FileQueue, then, under another lock, its bundle.
RemoveFile(f) ==
    /\ f \in fileQueue /\ removing = {} /\ ~clearing /\ Did("remove", {f})
    /\ fileQueue' = fileQueue \ {f}
    /\ removing' = {f}
    /\ UNCHANGED <<status, fileStatus, queueItems, finishedFiles, inQueue, queueSize,
                   queuedCount, finishedCount, onTarget, pc, taskVars, checkDue, clearing,
                   refreshing, sharings>>

\* removeBundleItem(f, false); what is left of the bundle will be checked.
RemoveFromBundle(f) ==
    /\ removing = {f} /\ removing' = {}
    /\ IF FileDownloaded(f)
       THEN finishedFiles' = finishedFiles \ {f} /\ UNCHANGED queueItems
       ELSE queueItems' = queueItems \ {f} /\ UNCHANGED finishedFiles
    /\ CountRemoved(f, FALSE)
    /\ IF queueItems' \cup finishedFiles' = {}
       THEN clearing' = TRUE /\ UNCHANGED checkDue
       ELSE checkDue' = TRUE /\ UNCHANGED clearing
    /\ UNCHANGED <<status, fileStatus, inQueue, fileQueue, onTarget, pc, taskVars,
                   refreshing, history>>

\* removeBundle; an item that is downloaded and has not changed its list stays
\* where it is.
ClearBundle ==
    /\ queueSize' = queueSize - Cardinality({f \in queueItems : ~FileDownloaded(f)})
    /\ queueItems' = {f \in queueItems : FileDownloaded(f)}
    /\ finishedFiles' = {} /\ fileQueue' = {} /\ inQueue' = FALSE
    /\ queuedCount' = 0 /\ finishedCount' = 0
    /\ clearing' = FALSE
    /\ UNCHANGED <<status, fileStatus, onTarget, pc, taskVars, checkDue, removing,
                   refreshing, sharings>>

\* ... by the user, or when its last file was removed
RemoveBundle ==
    /\ inQueue /\ removing = {} /\ ~clearing /\ Did("removeBundle", Files)
    /\ ClearBundle

RemoveEmptyBundle ==
    /\ clearing /\ didUser' = didUser \cup Race(Files) /\ UNCHANGED actions
    /\ ClearBundle

\* The delayed check of a bundle from which files were removed.
CheckTimer ==
    /\ checkDue /\ checkDue' = FALSE
    /\ tasks' = Append(tasks, CheckTask)
    /\ UNCHANGED <<status, fileStatus, listVars, onTarget, pc, worker, retry, removing,
                   clearing, refreshing, history>>

\* The user shares a bundle that has failed, with or without validation.
ShareFailed(skip) ==
    /\ status = "failed" /\ Did("share", {})
    /\ tasks' = Append(tasks, ShareTask(skip))
    /\ UNCHANGED <<status, fileStatus, listVars, onTarget, pc, worker, retry, actorVars,
                   sharings>>

\* RefreshCompleted: checkCompletedBundles collects the completed bundles under
\* the lock and changes their status without it.
RefreshCompleted ==
    /\ ~refreshing /\ IsCompleted /\ inQueue
    /\ refreshing' = TRUE
    /\ UNCHANGED <<status, fileStatus, listVars, onTarget, pc, taskVars, checkDue,
                   removing, clearing, history>>

SetShared ==
    /\ refreshing /\ refreshing' = FALSE
    /\ status' = "shared"
    /\ UNCHANGED <<fileStatus, listVars, onTarget, pc, taskVars, checkDue, removing,
                   clearing, history>>

-----------------------------------------------------------------------------
Connection(f) ==
    SetDownloaded(f) \/ MoveToFinished(f) \/ MarkDownloaded(f) \/ Rename(f)

TaskThread ==
    \/ Begin \/ RunFileHook \/ Check \/ ReadFailed \/ Reject \/ ReadLists
    \/ StartValidation \/ RunFilesHook \/ RunBundleHook \/ Complete \/ Share

Next ==
    \/ TaskThread \/ CheckTimer \/ RefreshCompleted \/ SetShared
    \/ \E f \in Files : FindFile(f) \/ Connection(f) \/ RemoveFile(f) \/ RemoveFromBundle(f)
    \/ \E F \in SUBSET Files : AddFiles(F)
    \/ \E skip \in BOOLEAN : ShareFailed(skip)
    \/ RemoveBundle \/ RemoveEmptyBundle

Spec == Init /\ [][Next]_vars

\* Threads go on and hooks return; nobody has to download or refresh anything.
Fairness ==
    /\ WF_vars(TaskThread) /\ WF_vars(CheckTimer) /\ WF_vars(RemoveEmptyBundle)
    /\ \A f \in Files : WF_vars(Connection(f)) /\ WF_vars(RemoveFromBundle(f))

FairSpec == Spec /\ Fairness

-----------------------------------------------------------------------------
\* What is still to be downloaded is counted exactly, although the files are
\* taken from the count in two different places (BundleQueue::removeBundleItem:
\* "dcassert(queueSize >= 0)"), unless one is removed while it finishes.
QueueSizeExact == "race" \notin didUser => queueSize = Cardinality(queueItems)

\* Nothing is left to download, and all that was has been moved and accepted.
Ready ==
    queueItems = {} /\ \A f \in finishedFiles : pc[f] = "done" /\ fileStatus[f] = "completed"

\* A bundle that is "ready for sharing" (Bundle.h:57) has nothing to download,
\* and all of its files have been moved and accepted by the hooks, whichever
\* connection finished last and whichever task ran first, as long as the user
\* leaves the bundle alone.
CompletedIsReady == didUser = {} /\ IsCompleted => Ready

\* With or without the user: a bundle that has been completed is ready.
AlwaysReady == IsCompleted => Ready

\* The tasks of several files that finish together share the bundle only once (a
\* consequence of PromiseSpec below, which the runs check; SharedAtMostOnce is the theorem).
SharedOnce == didUser = {} => sharings <= 1

\* The verdicts of the hooks, and what becomes of the bundle by them.
Judged == {f \in queueItems \cup finishedFiles : fileStatus[f] \in {"failed", "completed"}}
Rejected == {f \in queueItems \cup finishedFiles : fileStatus[f] = "failed"}
Phase == IF worker \in {"complete", "share"} THEN "sharing"
         ELSE IF Ready /\ tasks = <<>> THEN "over" ELSE "waiting"
Shown == IF IsCompleted THEN "completed" ELSE IF status = "failed" THEN "failed" ELSE "open"

Promise == INSTANCE JudgedBundle WITH
    touched <- didUser # {}, files <- queueItems \cup finishedFiles, judged <- Judged,
    rejected <- Rejected, phase <- Phase, shown <- Shown, seen <- refreshing,
    shared <- sharings

\* However the tasks of its files, the refresh and the connections follow each other, a
\* bundle the user leaves alone is judged when all of its files have been accepted, once
\* each, and shared after it has been accepted itself, once; none with a file that was
\* rejected is ("no validation errors, ready for sharing", Bundle.h:57).
PromiseSpec == Promise!Spec

\* A bundle that has been rejected stays so as long as the user does not do anything: no
\* task that is still to run, and no refresh that begins now, makes it a completed or a
\* shared one ("no validation errors, ready for sharing", Bundle.h:57).
RejectionStays ==
    [][didUser' = {} /\ status = "failed" /\ ~refreshing => status' = "failed"]_vars

\* The same with a refresh that has begun before it was rejected; not among the runs.
RejectionIsKept == [][didUser' = {} /\ status = "failed" => status' = "failed"]_vars

Settled == status \in {"failed", "completed", "shared"}

\* A bundle with nothing left to download is validated and shared, or found to
\* be faulty, in the end: no order of its files' tasks leaves it behind.
EventuallySettled ==
    (queueItems = {} /\ didUser \cap {"remove", "removeBundle"} = {})
        ~> (Settled \/ queueItems # {} \/ didUser \cap {"remove", "removeBundle"} # {})

\* The same when the user has removed files ("Set bundles as finished if
\* applicable when removing files from them", Changelog_AirDC.txt:617).
SettledAfterRemoval ==
    (queueItems = {} /\ finishedFiles # {})
        ~> (Settled \/ queueItems # {} \/ finishedFiles = {})

\* The directory of the bundle knows how many of its files are queued and how
\* many are finished ("dcassert(aInfo.size >= 0 && aInfo.finishedFiles >= 0 &&
\* aInfo.queuedFiles >= 0)", BundleQueue.cpp:408).
PathCountersExact ==
    queuedCount = Cardinality(queueItems) /\ finishedCount = Cardinality(finishedFiles)
=============================================================================
