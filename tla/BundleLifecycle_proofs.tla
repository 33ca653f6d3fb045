------------------------ MODULE BundleLifecycle_proofs ------------------------
(***************************************************************************)
(* What module BundleLifecycle keeps to for bundles of any size, in any    *)
(* order of the steps of its connections, the task thread, the timers, the *)
(* refresh and the user.                                                   *)
(***************************************************************************)
EXTENDS BundleLifecycle, FiniteSetTheorems, SequenceTheorems, TLAPS

FileStatuses == {"new", "queued", "downloaded", "validating", "failed", "completed"}
Points == {"downloading", "found", "downloaded", "emptied", "renaming", "done"}
Positions == {"idle", "fileHook", "check", "readFailed", "reject", "readLists",
              "revalidate", "filesHook", "validate", "bundleHook", "complete", "share"}

\* TypeOK in parts: the files, the counters, and who works on them.
FilesOK ==
    /\ status \in Statuses /\ fileStatus \in [Files -> FileStatuses] /\ pc \in [Files -> Points]
    /\ queueItems \subseteq Files /\ finishedFiles \subseteq Files
    /\ fileQueue \subseteq Files /\ onTarget \subseteq Files
    /\ retry \subseteq Files /\ removing \subseteq Files
CountsOK ==
    /\ queueSize \in Int
    /\ queuedCount \in 0 .. Width - 1 /\ finishedCount \in 0 .. Width - 1
WorkOK ==
    /\ tasks \in Seq(Tasks) /\ worker \in Positions /\ (tasks = <<>> => worker = "idle")
ActorsOK ==
    /\ {inQueue, checkDue, clearing, refreshing} \subseteq BOOLEAN
    /\ didUser \subseteq UserActions \cup {"race"} /\ actions \in 0 .. MaxActions /\ sharings \in Nat

\* What a file that is to be downloaded, and one that has left the queue, is at.
Left == {"emptied", "renaming", "done"}

\* What is known of one file, whatever the user does.
FileInv(f) ==
    /\ fileStatus[f] \in {"new", "queued"} <=> pc[f] \in {"downloading", "found"}
    /\ fileStatus[f] \in {"validating", "failed", "completed"} => pc[f] = "done"
    /\ fileStatus[f] = "new" =>
         pc[f] = "downloading" /\ f \notin queueItems \cup finishedFiles \cup fileQueue \cup removing
    /\ f \in queueItems => pc[f] \notin Left
    /\ f \in finishedFiles => pc[f] \in Left
    /\ f \in removing => f \notin fileQueue
    /\ f \in retry => pc[f] = "done"

\* ... unless one was removed while it finished.
NoRace == "race" \notin didUser
Listed(f) ==
    /\ f \in fileQueue \cup removing /\ pc[f] = "downloading" => f \in queueItems
    /\ Finishing(f) => f \in queueItems /\ f \notin removing

\* The task thread and its tasks.
Pending(i) == i > 1 \/ worker = "idle"
TaskInv ==
    /\ worker = "fileHook" => tasks # <<>> /\ Head(tasks).kind = "file"
    /\ \A i \in DOMAIN tasks : tasks[i].kind = "file" => pc[tasks[i].file] = "done"
    /\ clearing => removing = {}

\* The user has left the bundle alone.
Alone == didUser = {}

AloneInv ==
    /\ inQueue /\ removing = {} /\ ~clearing /\ ~checkDue
    /\ \A f \in Files : pc[f] \in Left => f \in finishedFiles
    /\ \A i \in DOMAIN tasks :
         /\ tasks[i] # CheckTask
         /\ tasks[i].kind = "file" /\ Pending(i) => fileStatus[tasks[i].file] = "downloaded"
    /\ \A i, j \in DOMAIN tasks : tasks[i].kind = "file" /\ tasks[i] = tasks[j] => i = j
    /\ worker = "fileHook" => fileStatus[Head(tasks).file] = "validating"

\* The way to the share: one task is left, of the last file or the one that shares.
OnTheWay ==
    \/ tasks = <<>> /\ sharings <= 1
    \/ /\ tasks = <<ShareTask(FALSE)>> /\ sharings = 0
       /\ worker \in {"idle", "validate", "bundleHook", "complete", "share"}
    \/ /\ \E f \in Files : tasks = <<FileTask(f)>>
       /\ sharings = 0 /\ worker \in {"check", "readFailed", "reject", "readLists"}

WayInv ==
    /\ IsCompleted \/ refreshing => Ready
    /\ Ready => OnTheWay
    /\ ~Ready =>
         /\ sharings = 0 /\ \A i \in DOMAIN tasks : tasks[i].kind = "file"
         /\ worker \in {"idle", "fileHook", "check", "readFailed", "reject", "readLists"}

-----------------------------------------------------------------------------
(* The invariant in parts: what holds whatever happens; what holds unless a  *)
(* file was removed while it finished; what holds as long as the user leaves *)
(* the bundle alone.                                                         *)

Base == TypeOK /\ TaskInv /\ \A f \in Files : FileInv(f)

\* The size of the queue, unless a file was removed while it finished.
SizeInv ==
    NoRace => queueSize = Cardinality(queueItems) /\ \A f \in Files : Listed(f)

IInv ==
    /\ Base /\ SizeInv
    /\ Alone => AloneInv /\ WayInv
-----------------------------------------------------------------------------
(* Facts about types, tasks and counters.                                   *)

\* The parts of TypeOK.
LEMMA TypeParts == TypeOK <=> FilesOK /\ CountsOK /\ WorkOK /\ ActorsOK
BY DEF TypeOK, FilesOK, CountsOK, WorkOK, ActorsOK, FileStatuses, Points, Positions

\* The kinds of tasks.
LEMMA KindFacts ==
    /\ \A f \in Files : FileTask(f) \in Tasks /\ FileTask(f).kind = "file" /\ FileTask(f).file = f
    /\ CheckTask \in Tasks /\ CheckTask.kind = "check"
    /\ \A b \in BOOLEAN : /\ ShareTask(b) \in Tasks /\ ShareTask(b).kind = "share"
                          /\ ShareTask(b).skip = b
    /\ \A t \in Tasks : \/ \E f \in Files : t = FileTask(f)
                        \/ t = CheckTask
                        \/ \E b \in BOOLEAN : t = ShareTask(b)
BY DEF Tasks, FileTask, CheckTask, ShareTask

\* A task that is a file's.
LEMMA FileTasks ==
    ASSUME NEW t \in Tasks, t.kind = "file"
    PROVE  t.file \in Files /\ t = FileTask(t.file)
BY KindFacts

\* The task that runs, and the tasks after it.
LEMMA HeadFacts ==
    ASSUME NEW q \in Seq(Tasks), q # <<>>
    PROVE  /\ 1 \in DOMAIN q /\ Head(q) = q[1] /\ Head(q) \in Tasks
           /\ Tail(q) \in Seq(Tasks)
           /\ \A i \in DOMAIN Tail(q) : i + 1 \in DOMAIN q /\ Tail(q)[i] = q[i + 1] /\ i + 1 > 1
<1>1. /\ Len(q) \in Nat /\ Len(q) > 0 /\ DOMAIN q = 1 .. Len(q)
      /\ \A i \in 1 .. Len(q) : q[i] \in Tasks
  BY EmptySeq, LenProperties, ElementOfSeq
<1>2. /\ Tail(q) \in Seq(Tasks) /\ Len(Tail(q)) = Len(q) - 1
      /\ \A i \in 1 .. Len(Tail(q)) : Tail(q)[i] = q[i + 1]
  BY HeadTailProperties
<1>3. DOMAIN Tail(q) = 1 .. Len(q) - 1
  BY <1>2, LenProperties
<1>4. Head(q) = q[1]
  BY HeadTailProperties
<1>5. 1 \in 1 .. Len(q)
  BY <1>1
<1>6. ASSUME NEW i \in 1 .. Len(q) - 1
      PROVE  i + 1 \in 1 .. Len(q) /\ i + 1 > 1 /\ Tail(q)[i] = q[i + 1]
  BY <1>1, <1>2
<1> QED BY <1>1, <1>2, <1>3, <1>4, <1>5, <1>6

\* A new task comes last.
LEMMA AppendFacts ==
    ASSUME NEW q \in Seq(Tasks), NEW t \in Tasks
    PROVE  /\ Append(q, t) \in Seq(Tasks) /\ Append(q, t) # <<>>
           /\ DOMAIN Append(q, t) = DOMAIN q \cup {Len(q) + 1}
           /\ \A i \in DOMAIN q : Append(q, t)[i] = q[i] /\ i \in 1 .. Len(q)
           /\ Append(q, t)[Len(q) + 1] = t /\ Len(q) \in Nat
           /\ q # <<>> => Head(Append(q, t)) = Head(q)
<1>1. /\ Append(q, t) \in Seq(Tasks) /\ Append(q, t) # <<>>
      /\ Len(Append(q, t)) = Len(q) + 1 /\ Len(q) \in Nat
      /\ \A i \in 1 .. Len(q) : Append(q, t)[i] = q[i]
      /\ Append(q, t)[Len(q) + 1] = t
  BY AppendProperties
<1>2. DOMAIN q = 1 .. Len(q) /\ DOMAIN Append(q, t) = 1 .. Len(q) + 1
  BY <1>1, LenProperties
<1>3. 1 .. Len(q) + 1 = 1 .. Len(q) \cup {Len(q) + 1}
  BY <1>1
<1>4. q # <<>> => Head(Append(q, t)) = Head(q)
  BY <1>1, <1>2, HeadFacts
<1> QED BY <1>1, <1>2, <1>3, <1>4

\* There are finitely many files.
LEMMA FiniteFiles ==
    ASSUME NEW S \in SUBSET Files
    PROVE  IsFiniteSet(S) /\ Cardinality(S) \in Nat
BY BundleLifecycleAssumption, FS_Subset, FS_CardinalityType

\* A counter keeps its width.
LEMMA Modulo ==
    ASSUME NEW n \in Int
    PROVE  n % Width \in 0 .. Width - 1
<1>1. Width \in Nat /\ Width > 0
  <2>1. Cardinality(Files) \in Nat
    BY FiniteFiles
  <2> QED BY <2>1, BundleLifecycleAssumption
<1> QED BY <1>1
-----------------------------------------------------------------------------
(* Types.                                                                   *)

\* What the steps of the task thread leave alone.
LEMMA TaskThreadFrame ==
    ASSUME TaskThread
    PROVE  /\ UNCHANGED <<listVars, onTarget, pc, actorVars, didUser, actions>>
           /\ sharings' = sharings \/ worker = "share"
BY DEF TaskThread, Begin, RunFileHook, Check, ReadFailed, Reject, ReadLists, StartValidation,
       RunFilesHook, RunBundleHook, Complete, Share, history

\* The task it is at.
LEMMA RunningTask ==
    ASSUME WorkOK, TaskThread
    PROVE  /\ tasks # <<>> /\ 1 \in DOMAIN tasks /\ Head(tasks) = tasks[1]
           /\ Head(tasks) \in Tasks /\ Head(tasks).kind \in {"file", "check", "share"}
           /\ Tail(tasks) \in Seq(Tasks)
<1>1. tasks # <<>>
  BY DEF WorkOK, TaskThread, Begin, RunFileHook, Check, ReadFailed, Reject, ReadLists,
         StartValidation, RunFilesHook, RunBundleHook, Complete, Share, Work
<1> QED BY <1>1, HeadFacts, KindFacts DEF WorkOK

\* The steps of the task thread and the files.
LEMMA TaskThreadFiles ==
    ASSUME FilesOK, WorkOK, TaskThread
    PROVE  FilesOK'
<1>1. UNCHANGED <<queueItems, finishedFiles, fileQueue, onTarget, pc, removing>>
  BY TaskThreadFrame DEF listVars, actorVars
<1>2. status' \in Statuses /\ fileStatus' \in [Files -> FileStatuses] /\ retry' \subseteq Files
  <2>1. CASE Begin
    <3>1. /\ status' = status /\ retry' \in {retry, {}, FailedItems}
          /\ \/ fileStatus' = fileStatus
             \/ fileStatus' = [fileStatus EXCEPT ![Head(tasks).file] = "validating"]
      BY <2>1, RunningTask DEF Begin
    <3>2. fileStatus' \in [Files -> FileStatuses]
      BY <3>1 DEF FilesOK, FileStatuses
    <3> QED BY <3>1, <3>2 DEF FilesOK, FailedItems
  <2>2. CASE RunFileHook
    <3>1. status' = status /\ retry' = retry
      BY <2>2 DEF RunFileHook
    <3>2. PICK result \in {"completed", "failed"} :
             fileStatus' = [fileStatus EXCEPT ![Head(tasks).file] = result]
      BY <2>2 DEF RunFileHook
    <3> QED BY <3>1, <3>2 DEF FilesOK, FileStatuses
  <2>3. CASE RunFilesHook
    <3>1. status' = status /\ retry' = {}
      BY <2>3 DEF RunFilesHook
    <3>2. PICK accepted \in SUBSET retry :
             fileStatus' = [f \in Files |-> IF f \in accepted THEN "completed"
                                            ELSE IF f \in retry THEN "failed" ELSE fileStatus[f]]
      BY <2>3 DEF RunFilesHook
    <3> QED BY <3>1, <3>2 DEF FilesOK, FileStatuses
  <2>4. CASE Check \/ ReadFailed \/ Reject \/ ReadLists \/ StartValidation \/ RunBundleHook
             \/ Complete \/ Share
    BY <2>4 DEF Check, ReadFailed, Reject, ReadLists, StartValidation, RunBundleHook, Complete,
                Share, FilesOK, Statuses
  <2> QED BY <2>1, <2>2, <2>3, <2>4 DEF TaskThread
<1> QED BY <1>1, <1>2 DEF FilesOK

\* The steps of the others and the files.
LEMMA FilesStep == FilesOK /\ WorkOK /\ [Next]_vars => FilesOK'
<1> SUFFICES ASSUME FilesOK, WorkOK, [Next]_vars PROVE FilesOK'
  OBVIOUS
<1>1. CASE TaskThread
  BY <1>1, TaskThreadFiles
<1>2. CASE CheckTimer \/ RefreshCompleted \/ SetShared
  BY <1>2 DEF CheckTimer, RefreshCompleted, SetShared, FilesOK, Statuses, listVars, taskVars
<1>3. ASSUME NEW f \in Files, FindFile(f) \/ MarkDownloaded(f) \/ Rename(f) PROVE FilesOK'
  <2>1. /\ UNCHANGED <<fileStatus, queueItems, finishedFiles, fileQueue, retry, removing>>
        /\ status' \in {status, "downloaded"} /\ onTarget' \in {onTarget, onTarget \cup {f}}
    BY <1>3 DEF FindFile, MarkDownloaded, Rename, listVars, actorVars, taskVars
  <2>2. pc' \in [Files -> Points]
    BY <1>3 DEF FindFile, MarkDownloaded, Rename, Step, FilesOK, Points
  <2> QED BY <2>1, <2>2 DEF FilesOK, Statuses
<1>4. ASSUME NEW f \in Files, SetDownloaded(f) PROVE FilesOK'
  BY <1>4 DEF SetDownloaded, Step, FilesOK, Points, FileStatuses, listVars, actorVars, taskVars
<1>5. ASSUME NEW f \in Files, MoveToFinished(f) PROVE FilesOK'
  <2>1. AfterRemoval(f) \in Points
    BY DEF AfterRemoval, Points
  <2> HIDE DEF AfterRemoval
  <2> QED BY <1>5, <2>1 DEF MoveToFinished, Step, FilesOK, actorVars, taskVars
<1>6. ASSUME NEW f \in Files, RemoveFile(f) PROVE FilesOK'
  BY <1>6 DEF RemoveFile, FilesOK, taskVars
<1>7. ASSUME NEW f \in Files, RemoveFromBundle(f) PROVE FilesOK'
  <2>1. /\ queueItems' \subseteq queueItems /\ finishedFiles' \subseteq finishedFiles
        /\ UNCHANGED <<status, fileStatus, fileQueue, onTarget, pc, retry>> /\ removing' = {}
    BY <1>7 DEF RemoveFromBundle, taskVars
  <2> QED BY <2>1 DEF FilesOK
<1>8. ASSUME NEW F \in SUBSET Files, AddFiles(F) PROVE FilesOK'
  <2>1. /\ status' \in {"queued", status} /\ queueItems' = queueItems \cup F
        /\ finishedFiles' \subseteq finishedFiles /\ fileQueue' \subseteq fileQueue \cup F
        /\ UNCHANGED <<onTarget, pc, retry, removing>>
    BY <1>8 DEF AddFiles, taskVars, actorVars
  <2>2. fileStatus' = [f \in Files |-> IF f \in F THEN "queued" ELSE fileStatus[f]]
    BY <1>8 DEF AddFiles
  <2> QED BY <2>1, <2>2 DEF FilesOK, Statuses, FileStatuses
<1>9. CASE \E skip \in BOOLEAN : ShareFailed(skip)
  BY <1>9 DEF ShareFailed, FilesOK, listVars, actorVars
<1>10. CASE ClearBundle
  BY <1>10 DEF ClearBundle, FilesOK, taskVars
<1>11. CASE UNCHANGED vars
  BY <1>11 DEF vars, FilesOK, listVars, taskVars, actorVars
<1> QED BY <1>1, <1>2, <1>3, <1>4, <1>5, <1>6, <1>7, <1>8, <1>9, <1>10, <1>11
        DEF Next, Connection, RemoveBundle, RemoveEmptyBundle

\* The counters.
LEMMA CountsStep == FilesOK /\ CountsOK /\ [Next]_vars => CountsOK'
<1> SUFFICES ASSUME FilesOK, CountsOK, [Next]_vars PROVE CountsOK'
  OBVIOUS
<1>1. CASE UNCHANGED <<queueSize, queuedCount, finishedCount>>
  BY <1>1 DEF CountsOK
<1>2. ASSUME NEW f \in Files, NEW b \in BOOLEAN, CountRemoved(f, b) PROVE CountsOK'
  <2>1. queueSize' \in Int
    <3>1. SizeOfRemoved(f, b) \in {0, 1}
      BY DEF SizeOfRemoved
    <3>2. queueSize' = queueSize - SizeOfRemoved(f, b)
      BY <1>2 DEF CountRemoved
    <3> QED BY <3>1, <3>2 DEF CountsOK
  <2>2. ASSUME NEW n \in 0 .. Width - 1 PROVE (n + Width - 1) % Width \in 0 .. Width - 1
    BY Modulo, BundleLifecycleAssumption
  <2>3. queuedCount' \in 0 .. Width - 1 /\ finishedCount' \in 0 .. Width - 1
    BY <1>2, <2>2 DEF CountRemoved, CountsOK
  <2> QED BY <2>1, <2>3 DEF CountsOK
<1>3. ASSUME NEW F \in SUBSET Files, AddFiles(F) PROVE CountsOK'
  <2> DEFINE missing == IF queueItems = {} THEN finishedFiles \ StillThere ELSE {}
  <2>1. /\ queueSize' = queueSize + Cardinality(F)
        /\ queuedCount' = (queuedCount + Cardinality(F)) % Width
        /\ finishedCount' = (finishedCount + Width - Cardinality(missing)) % Width
    BY <1>3 DEF AddFiles
  <2>2. missing \in SUBSET Files
    BY DEF FilesOK
  <2> HIDE DEF missing
  <2>3. Cardinality(F) \in Nat /\ Cardinality(missing) \in Nat /\ Width \in Nat
    BY <2>2, FiniteFiles, BundleLifecycleAssumption
  <2>4. /\ queuedCount + Cardinality(F) \in Int
        /\ finishedCount + Width - Cardinality(missing) \in Int
        /\ queueSize + Cardinality(F) \in Int
    BY <2>3 DEF CountsOK
  <2> QED BY <2>1, <2>4, Modulo DEF CountsOK
<1>4. CASE ClearBundle
  <2> DEFINE S == {f \in queueItems : ~FileDownloaded(f)}
  <2>1. queueSize' = queueSize - Cardinality(S) /\ queuedCount' = 0 /\ finishedCount' = 0
    BY <1>4 DEF ClearBundle
  <2>2. Cardinality(S) \in Nat
    BY FiniteFiles DEF FilesOK
  <2> HIDE DEF S
  <2>3. 0 \in 0 .. Width - 1
    <3>1. 0 % Width \in 0 .. Width - 1
      BY Modulo
    <3> QED BY <3>1, BundleLifecycleAssumption
  <2> QED BY <2>1, <2>2, <2>3 DEF CountsOK
<1>5. CASE TaskThread
  BY <1>1, <1>5, TaskThreadFrame DEF listVars
<1>6. CASE \/ CheckTimer \/ RefreshCompleted \/ SetShared \/ UNCHANGED vars
           \/ \E f \in Files : FindFile(f) \/ SetDownloaded(f) \/ MarkDownloaded(f) \/ Rename(f)
                               \/ RemoveFile(f)
           \/ \E skip \in BOOLEAN : ShareFailed(skip)
  BY <1>1, <1>6 DEF CheckTimer, RefreshCompleted, SetShared, FindFile, SetDownloaded,
                    MarkDownloaded, Rename, RemoveFile, ShareFailed, listVars, vars
<1>7. CASE \E f \in Files : MoveToFinished(f) \/ RemoveFromBundle(f)
  BY <1>2, <1>7 DEF MoveToFinished, RemoveFromBundle
<1> QED BY <1>3, <1>4, <1>5, <1>6, <1>7 DEF Next, Connection, RemoveBundle, RemoveEmptyBundle

\* The tasks and their thread.
LEMMA WorkStep == FilesOK /\ WorkOK /\ [Next]_vars => WorkOK'
<1> SUFFICES ASSUME FilesOK, WorkOK, [Next]_vars PROVE WorkOK'
  OBVIOUS
<1>1. CASE UNCHANGED <<tasks, worker>>
  BY <1>1 DEF WorkOK
<1>2. ASSUME NEW t \in Tasks, tasks' = Append(tasks, t), worker' = worker PROVE WorkOK'
  BY <1>2, AppendFacts DEF WorkOK
<1>3. CASE TaskThread
  <2>1. tasks # <<>> /\ Tail(tasks) \in Seq(Tasks)
    BY <1>3, RunningTask
  <2>3. CASE EndTask
    BY <2>1, <2>3 DEF EndTask, WorkOK, Positions
  <2>4. CASE tasks' = tasks /\ worker' \in Positions
    BY <2>1, <2>4 DEF WorkOK
  <2>5. CASE ReadLists
    <3>1. worker' = "idle" /\ tasks' \in {Tail(tasks), Append(Tail(tasks), ShareTask(FALSE))}
      BY <2>5 DEF ReadLists
    <3>2. tasks' \in Seq(Tasks)
      BY <2>1, <3>1, AppendFacts, KindFacts
    <3> QED BY <3>1, <3>2 DEF WorkOK, Positions
  <2>6. CASE Begin
    <3>1. tasks' = tasks
      BY <2>6 DEF Begin
    <3>4. worker' \in Positions
      BY <1>3, <2>6, RunningTask DEF Begin, Positions
    <3> QED BY <2>4, <3>1, <3>4
  <2>7. CASE RunFileHook \/ Check \/ ReadFailed \/ Reject \/ StartValidation \/ RunFilesHook
             \/ RunBundleHook \/ Complete \/ Share
    <3>1. EndTask \/ (tasks' = tasks /\ worker' \in Positions)
      BY <2>7 DEF RunFileHook, Check, ReadFailed, Reject, StartValidation, RunFilesHook,
                  RunBundleHook, Complete, Share, Work, Positions
    <3> QED BY <2>3, <2>4, <3>1
  <2> QED BY <1>3, <2>5, <2>6, <2>7 DEF TaskThread
<1>4. CASE \/ CheckTimer \/ (\E f \in Files : Rename(f))
           \/ \E skip \in BOOLEAN : ShareFailed(skip)
  <2>1. worker' = worker /\ \E t \in Tasks : tasks' = Append(tasks, t)
    BY <1>4, KindFacts DEF CheckTimer, Rename, ShareFailed
  <2> QED BY <1>2, <2>1
<1>5. CASE \/ RefreshCompleted \/ SetShared \/ ClearBundle \/ UNCHANGED vars
           \/ \E f \in Files : FindFile(f) \/ SetDownloaded(f) \/ MoveToFinished(f)
                               \/ MarkDownloaded(f) \/ RemoveFile(f) \/ RemoveFromBundle(f)
           \/ \E F \in SUBSET Files : AddFiles(F)
  BY <1>1, <1>5 DEF RefreshCompleted, SetShared, ClearBundle, FindFile, SetDownloaded, AddFiles,
                    MoveToFinished, MarkDownloaded, RemoveFile, RemoveFromBundle, taskVars, vars
<1> QED BY <1>3, <1>4, <1>5 DEF Next, Connection, RemoveBundle, RemoveEmptyBundle

\* The timers, the refresh and the user.
LEMMA ActorsStep == ActorsOK /\ [Next]_vars => ActorsOK'
<1> SUFFICES ASSUME ActorsOK, [Next]_vars PROVE ActorsOK'
  OBVIOUS
<1>1. CASE TaskThread
  <2>1. UNCHANGED <<inQueue, checkDue, clearing, refreshing, didUser, actions>>
    BY <1>1, TaskThreadFrame DEF listVars, actorVars
  <2>2. sharings' \in {sharings, sharings + 1}
    BY <1>1, TaskThreadFrame DEF TaskThread, Begin, RunFileHook, Check, ReadFailed, Reject,
       ReadLists, StartValidation, RunFilesHook, RunBundleHook, Complete, Share, history
  <2> QED BY <2>1, <2>2 DEF ActorsOK
<1>2. ASSUME UNCHANGED <<sharings, didUser, actions>>,
             {inQueue', checkDue', clearing', refreshing'}
                \subseteq {inQueue, checkDue, clearing, refreshing, TRUE, FALSE}
      PROVE  ActorsOK'
  BY <1>2 DEF ActorsOK
<1>3. CASE CheckTimer \/ RefreshCompleted \/ SetShared
  BY <1>2, <1>3 DEF CheckTimer, RefreshCompleted, SetShared, listVars, history
<1>4. CASE \E f \in Files : Connection(f) \/ FindFile(f) \/ RemoveFromBundle(f)
  BY <1>2, <1>4 DEF Connection, FindFile, SetDownloaded, MoveToFinished, MarkDownloaded, Rename,
     RemoveFromBundle, listVars, actorVars, history
<1>5. ASSUME NEW kind, NEW touched, Did(kind, touched)
      PROVE  didUser' \subseteq UserActions \cup {"race"} /\ actions' \in 0 .. MaxActions
  <2>1. didUser' \subseteq UserActions \cup {"race"}
    BY <1>5 DEF Did, Race, ActorsOK
  <2>2. actions < MaxActions /\ actions' = actions + 1
    BY <1>5 DEF Did
  <2> QED BY <2>1, <2>2, BundleLifecycleAssumption DEF ActorsOK
<1>6. ASSUME NEW kind, NEW touched, Did(kind, touched), sharings' = sharings,
             {inQueue', checkDue', clearing', refreshing'}
                \subseteq {inQueue, checkDue, clearing, refreshing, TRUE, FALSE}
      PROVE  ActorsOK'
  BY <1>5, <1>6 DEF ActorsOK
<1>7. CASE \/ \E F \in SUBSET Files : AddFiles(F)
           \/ \E f \in Files : RemoveFile(f)
           \/ \E skip \in BOOLEAN : ShareFailed(skip)
  BY <1>6, <1>7 DEF AddFiles, RemoveFile, ShareFailed, listVars, actorVars
<1>8. CASE RemoveBundle
  BY <1>6, <1>8 DEF RemoveBundle, ClearBundle
<1>9. CASE RemoveEmptyBundle
  <2>1. /\ didUser' \subseteq didUser \cup {"race"} /\ UNCHANGED <<actions, sharings>>
        /\ inQueue' = FALSE /\ clearing' = FALSE /\ UNCHANGED <<checkDue, refreshing>>
    BY <1>9 DEF RemoveEmptyBundle, ClearBundle, Race
  <2> QED BY <2>1 DEF ActorsOK
<1>10. CASE UNCHANGED vars
  BY <1>2, <1>10 DEF vars, listVars, actorVars, history
<1> QED BY <1>1, <1>3, <1>4, <1>7, <1>8, <1>9, <1>10 DEF Next

\* Every step keeps the types.
LEMMA TypeStep == TypeOK /\ [Next]_vars => TypeOK'
<1>1. TypeOK' <=> FilesOK' /\ CountsOK' /\ WorkOK' /\ ActorsOK'
  BY TypeParts, PTL
<1> QED BY <1>1, TypeParts, FilesStep, CountsStep, WorkStep, ActorsStep
-----------------------------------------------------------------------------
(* Files.                                                                   *)

\* A file that no step has put anywhere.
LEMMA FileKept ==
    ASSUME NEW g \in Files, FileInv(g), fileStatus'[g] = fileStatus[g], pc'[g] = pc[g],
           g \in queueItems' => g \in queueItems, g \in finishedFiles' => g \in finishedFiles,
           g \in fileQueue' => g \in fileQueue, g \in retry' => g \in retry,
           g \in removing' => g \in removing
    PROVE  FileInv(g)'
BY DEF FileInv

\* The steps of a connection.
LEMMA ConnectionFiles ==
    ASSUME Base, NEW f \in Files, FindFile(f) \/ Connection(f), NEW g \in Files
    PROVE  FileInv(g)'
<1>1. FileInv(g) /\ FileInv(f) /\ FilesOK
  BY TypeParts DEF Base
<1>2. /\ UNCHANGED <<fileQueue, retry, removing>>
      /\ fileStatus' = fileStatus \/ SetDownloaded(f)
      /\ (queueItems' = queueItems /\ finishedFiles' = finishedFiles) \/ MoveToFinished(f)
      /\ \E to \in Points : pc' = [pc EXCEPT ![f] = to]
  BY DEF FindFile, Connection, SetDownloaded, MoveToFinished, MarkDownloaded, Rename, Step,
         AfterRemoval, Points, listVars, actorVars, taskVars
<1>3. CASE g # f
  <2>1. pc'[g] = pc[g]
    BY <1>1, <1>2, <1>3 DEF FilesOK
  <2>2. fileStatus'[g] = fileStatus[g]
    BY <1>1, <1>2, <1>3 DEF FilesOK, SetDownloaded
  <2>3. /\ g \in queueItems' => g \in queueItems
        /\ g \in finishedFiles' => g \in finishedFiles
    BY <1>2, <1>3 DEF MoveToFinished
  <2> QED BY <1>1, <1>2, <2>1, <2>2, <2>3, FileKept
<1>4. CASE g = f
  <2>1. CASE FindFile(f)
    <3>1. /\ pc[f] = "downloading" /\ pc'[f] = "found" /\ f \in fileQueue
          /\ UNCHANGED <<fileStatus, queueItems, finishedFiles>>
      BY <1>1, <2>1 DEF FindFile, Step, FilesOK, listVars
    <3> QED BY <1>1, <1>2, <1>4, <3>1 DEF FileInv, Left
  <2>2. CASE SetDownloaded(f)
    <3>1. /\ pc[f] = "found" /\ pc'[f] = "downloaded" /\ fileStatus'[f] = "downloaded"
          /\ UNCHANGED <<queueItems, finishedFiles>>
      BY <1>1, <2>2 DEF SetDownloaded, Step, FilesOK, listVars
    <3> QED BY <1>1, <1>2, <1>4, <3>1 DEF FileInv, Left
  <2>3. CASE MoveToFinished(f)
    <3>1. /\ pc[f] = "downloaded" /\ pc'[f] \in {"emptied", "renaming"}
          /\ queueItems' = queueItems \ {f} /\ fileStatus' = fileStatus
      BY <1>1, <2>3 DEF MoveToFinished, AfterRemoval, Step, FilesOK
    <3> QED BY <1>1, <1>2, <1>4, <3>1 DEF FileInv, Left
  <2>4. CASE MarkDownloaded(f) \/ Rename(f)
    <3>1. /\ \/ pc[f] = "emptied" /\ pc'[f] = "renaming"
             \/ pc[f] = "renaming" /\ pc'[f] = "done"
          /\ UNCHANGED <<fileStatus, queueItems, finishedFiles>>
      BY <1>1, <2>4 DEF MarkDownloaded, Rename, Step, FilesOK, listVars
    <3> QED BY <1>1, <1>2, <1>4, <3>1 DEF FileInv, Left
  <2> QED BY <2>1, <2>2, <2>3, <2>4 DEF Connection
<1> QED BY <1>3, <1>4

\* The file that the task thread is at has been finished.
LEMMA RunningFile ==
    ASSUME Base, TaskThread, Head(tasks).kind = "file"
    PROVE  Head(tasks).file \in Files /\ pc[Head(tasks).file] = "done"
BY RunningTask, FileTasks, TypeParts DEF Base, TaskInv

\* The steps of the task thread change the status of finished files.
LEMMA TaskThreadStatus ==
    ASSUME Base, TaskThread, NEW g \in Files
    PROVE  /\ \/ fileStatus'[g] = fileStatus[g]
              \/ /\ pc[g] = "done" /\ fileStatus'[g] \in {"validating", "failed", "completed"}
           /\ g \in retry' => pc[g] = "done"
<1>1. FilesOK /\ FileInv(g) /\ fileStatus \in [Files -> FileStatuses]
  BY TypeParts DEF Base, FilesOK
<1>2. CASE Begin
  <2>1. \/ fileStatus' = fileStatus
        \/ /\ Head(tasks).kind = "file"
           /\ fileStatus' = [fileStatus EXCEPT ![Head(tasks).file] = "validating"]
    BY <1>2, RunningTask, TypeParts DEF Begin, Base
  <2>2. retry' \in {retry, {}, FailedItems}
    BY <1>2, RunningTask, TypeParts DEF Begin, Base
  <2>3. g \in retry' => pc[g] = "done"
    BY <1>1, <2>2 DEF FileInv, FailedItems
  <2> QED BY <1>1, <2>1, <2>3, RunningFile
<1>3. CASE RunFileHook
  <2>1. PICK result \in {"completed", "failed"} :
           fileStatus' = [fileStatus EXCEPT ![Head(tasks).file] = result]
    BY <1>3 DEF RunFileHook
  <2>2. retry' = retry /\ Head(tasks).kind = "file"
    BY <1>3 DEF RunFileHook, Base, TaskInv
  <2> QED BY <1>1, <2>1, <2>2, RunningFile DEF FileInv
<1>4. CASE RunFilesHook
  <2>1. PICK accepted \in SUBSET retry :
           fileStatus' = [f \in Files |-> IF f \in accepted THEN "completed"
                                          ELSE IF f \in retry THEN "failed" ELSE fileStatus[f]]
    BY <1>4 DEF RunFilesHook
  <2>2. retry' = {}
    BY <1>4 DEF RunFilesHook
  <2> QED BY <1>1, <2>1, <2>2 DEF FileInv
<1>5. CASE Check \/ ReadFailed \/ Reject \/ ReadLists \/ StartValidation \/ RunBundleHook
           \/ Complete \/ Share
  <2>1. fileStatus' = fileStatus /\ retry' = retry
    BY <1>5 DEF Check, ReadFailed, Reject, ReadLists, StartValidation, RunBundleHook, Complete,
                Share
  <2> QED BY <1>1, <2>1 DEF FileInv
<1> QED BY <1>2, <1>3, <1>4, <1>5 DEF TaskThread

\* Every step keeps what is known of a file.
LEMMA FileStep ==
    ASSUME Base, [Next]_vars, NEW g \in Files
    PROVE  FileInv(g)'
<1>1. FileInv(g) /\ FilesOK
  BY TypeParts DEF Base
<1>2. CASE TaskThread
  <2>1. UNCHANGED <<queueItems, finishedFiles, fileQueue, removing, pc>>
    BY <1>2, TaskThreadFrame DEF listVars, actorVars
  <2> QED BY <1>1, <1>2, <2>1, TaskThreadStatus DEF FileInv
<1>3. CASE \E f \in Files : FindFile(f) \/ Connection(f)
  BY <1>3, ConnectionFiles
<1>4. ASSUME NEW f \in Files, RemoveFile(f) PROVE FileInv(g)'
  <2>1. /\ UNCHANGED <<fileStatus, queueItems, finishedFiles, pc, retry>>
        /\ f \in fileQueue /\ fileQueue' = fileQueue \ {f} /\ removing = {} /\ removing' = {f}
    BY <1>4 DEF RemoveFile, taskVars
  <2> QED BY <1>1, <2>1 DEF FileInv
<1>5. ASSUME NEW F \in SUBSET Files, AddFiles(F) PROVE FileInv(g)'
  <2>1. /\ queueItems' = queueItems \cup F /\ finishedFiles' \subseteq finishedFiles
        /\ fileQueue' \subseteq fileQueue \cup F
        /\ UNCHANGED <<pc, retry, removing>> /\ \A f \in F : fileStatus[f] = "new"
    BY <1>5 DEF AddFiles, taskVars, actorVars
  <2>2. fileStatus'[g] = IF g \in F THEN "queued" ELSE fileStatus[g]
    BY <1>5 DEF AddFiles
  <2>3. CASE g \in F
    <3>1. /\ fileStatus[g] = "new" /\ fileStatus'[g] = "queued" /\ pc'[g] = "downloading"
          /\ g \notin finishedFiles' /\ g \notin removing' /\ g \notin retry'
      BY <1>1, <2>1, <2>2, <2>3 DEF FileInv
    <3> QED BY <3>1 DEF FileInv, Left
  <2>4. CASE g \notin F
    BY <1>1, <2>1, <2>2, <2>4, FileKept
  <2> QED BY <2>3, <2>4
<1>6. CASE \/ CheckTimer \/ RefreshCompleted \/ SetShared \/ ClearBundle \/ UNCHANGED vars
           \/ \E f \in Files : RemoveFromBundle(f)
           \/ \E skip \in BOOLEAN : ShareFailed(skip)
  <2>1. /\ fileStatus' = fileStatus /\ pc' = pc /\ queueItems' \subseteq queueItems
        /\ finishedFiles' \subseteq finishedFiles /\ fileQueue' \subseteq fileQueue
        /\ retry' = retry /\ removing' \subseteq removing
    BY <1>6 DEF CheckTimer, RefreshCompleted, SetShared, ClearBundle, RemoveFromBundle,
                ShareFailed, vars, listVars, actorVars, taskVars
  <2> QED BY <1>1, <2>1, FileKept
<1> QED BY <1>2, <1>3, <1>4, <1>5, <1>6 DEF Next, RemoveBundle, RemoveEmptyBundle
-----------------------------------------------------------------------------
(* Tasks and the size of the queue.                                         *)

\* Whose tasks there are.
LEMMA TaskStep ==
    ASSUME Base, [Next]_vars
    PROVE  TaskInv'
<1>1. WorkOK /\ FilesOK /\ TaskInv
  BY TypeParts DEF Base
<1>2. ASSUME NEW i \in DOMAIN tasks, tasks[i].kind = "file"
      PROVE  pc'[tasks[i].file] = "done"
  <2>1. tasks[i] \in Tasks
    BY ElementOfSeq, LenProperties, <1>1 DEF WorkOK
  <2>2. tasks[i].file \in Files /\ pc[tasks[i].file] = "done"
    BY <1>1, <1>2, <2>1, FileTasks DEF TaskInv
  <2>3. pc' = pc \/ \E f \in Files : pc[f] # "done" /\ \E to : pc' = [pc EXCEPT ![f] = to]
    <3>1. CASE TaskThread
      BY <3>1, TaskThreadFrame
    <3>2. CASE \E f \in Files : FindFile(f) \/ Connection(f)
      BY <3>2 DEF FindFile, Connection, SetDownloaded, MoveToFinished, MarkDownloaded, Rename, Step
    <3>3. CASE ~TaskThread /\ ~\E f \in Files : FindFile(f) \/ Connection(f)
      BY <3>3 DEF Next, CheckTimer, RefreshCompleted, SetShared, ClearBundle, RemoveFromBundle,
         RemoveFile, AddFiles, ShareFailed, RemoveBundle, RemoveEmptyBundle, vars
    <3> QED BY <3>1, <3>2, <3>3
  <2> QED BY <1>1, <2>2, <2>3 DEF FilesOK
<1>3. CASE TaskThread
  <2>1. /\ tasks # <<>> /\ Tail(tasks) \in Seq(Tasks)
        /\ \A i \in DOMAIN Tail(tasks) : i + 1 \in DOMAIN tasks /\ Tail(tasks)[i] = tasks[i + 1]
    BY <1>1, <1>3, RunningTask, HeadFacts DEF WorkOK
  <2>2. UNCHANGED <<removing, clearing>>
    BY <1>3, TaskThreadFrame DEF actorVars
  <2>3. worker' = "fileHook" => tasks' = tasks /\ Head(tasks).kind = "file"
    BY <1>1, <1>3, RunningTask DEF TaskThread, Begin, RunFileHook, Check, ReadFailed, Reject,
       ReadLists, StartValidation, RunFilesHook, RunBundleHook, Complete, Share, Work, EndTask
  <2>4. tasks' \in {tasks, Tail(tasks), Append(Tail(tasks), ShareTask(FALSE))}
    BY <1>3 DEF TaskThread, Begin, RunFileHook, Check, ReadFailed, Reject, ReadLists,
       StartValidation, RunFilesHook, RunBundleHook, Complete, Share, Work, EndTask
  <2>5. ASSUME NEW i \in DOMAIN Tail(tasks), Tail(tasks)[i].kind = "file"
        PROVE  pc'[Tail(tasks)[i].file] = "done"
    BY <1>2, <2>1, <2>5
  <2>6. ASSUME NEW i \in DOMAIN tasks', tasks'[i].kind = "file"
        PROVE  pc'[tasks'[i].file] = "done"
    <3>1. CASE tasks' = tasks
      BY <1>2, <2>6, <3>1
    <3>2. CASE tasks' = Tail(tasks)
      BY <2>5, <2>6, <3>2
    <3>3. CASE tasks' = Append(Tail(tasks), ShareTask(FALSE))
      <4>1. ShareTask(FALSE) \in Tasks /\ ShareTask(FALSE).kind # "file"
        BY KindFacts
      <4> DEFINE r == Tail(tasks)
                 n == Len(r) + 1
      <4>2. /\ DOMAIN Append(r, ShareTask(FALSE)) = DOMAIN r \cup {n}
            /\ \A j \in DOMAIN r : Append(r, ShareTask(FALSE))[j] = r[j]
            /\ Append(r, ShareTask(FALSE))[n] = ShareTask(FALSE)
        BY <2>1, <4>1, AppendFacts
      <4> HIDE DEF r, n
      <4>3. i \in DOMAIN r /\ tasks'[i] = r[i]
        BY <2>6, <3>3, <4>1, <4>2 DEF r
      <4> QED BY <2>5, <2>6, <4>3 DEF r
    <3> QED BY <2>4, <3>1, <3>2, <3>3
  <2> QED BY <1>1, <2>1, <2>2, <2>3, <2>6 DEF TaskInv
<1>4. ASSUME NEW t \in Tasks, tasks' = Append(tasks, t), worker' = worker,
             t.kind = "file" => pc'[t.file] = "done", UNCHANGED <<removing, clearing>>
      PROVE  TaskInv'
  <2>1. /\ tasks' # <<>> /\ DOMAIN tasks' = DOMAIN tasks \cup {Len(tasks) + 1}
        /\ \A i \in DOMAIN tasks : tasks'[i] = tasks[i]
        /\ tasks'[Len(tasks) + 1] = t
        /\ tasks # <<>> => Head(tasks') = Head(tasks)
    BY <1>1, <1>4, AppendFacts DEF WorkOK
  <2>2. worker' = "fileHook" => Head(tasks').kind = "file"
    BY <1>1, <1>4, <2>1 DEF TaskInv
  <2>3. \A i \in DOMAIN tasks' : tasks'[i].kind = "file" => pc'[tasks'[i].file] = "done"
    BY <1>2, <1>4, <2>1
  <2> QED BY <1>1, <1>4, <2>1, <2>2, <2>3 DEF TaskInv
<1>5. ASSUME UNCHANGED <<tasks, worker>>, clearing' => removing' = {}
      PROVE  TaskInv'
  BY <1>1, <1>2, <1>5 DEF TaskInv
<1>6. ASSUME NEW f \in Files, Rename(f) PROVE TaskInv'
  <2>1. /\ tasks' = Append(tasks, FileTask(f)) /\ worker' = worker /\ pc'[f] = "done"
        /\ UNCHANGED <<removing, clearing>>
    BY <1>1, <1>6 DEF Rename, Step, FilesOK, actorVars
  <2>2. FileTask(f) \in Tasks /\ FileTask(f).file = f
    BY KindFacts
  <2> QED BY <1>4, <2>1, <2>2
<1>7. CASE CheckTimer
  BY <1>4, <1>7, KindFacts DEF CheckTimer
<1>8. ASSUME NEW skip \in BOOLEAN, ShareFailed(skip) PROVE TaskInv'
  BY <1>4, <1>8, KindFacts DEF ShareFailed, actorVars
<1>9. CASE \E f \in Files : RemoveFile(f)
  BY <1>5, <1>9 DEF RemoveFile, taskVars
<1>10. CASE \E f \in Files : RemoveFromBundle(f)
  BY <1>5, <1>10 DEF RemoveFromBundle, taskVars
<1>11. CASE ClearBundle
  BY <1>5, <1>11 DEF ClearBundle, taskVars
<1>12. CASE \/ RefreshCompleted \/ SetShared \/ UNCHANGED vars
            \/ \E F \in SUBSET Files : AddFiles(F)
            \/ \E f \in Files : FindFile(f) \/ SetDownloaded(f) \/ MoveToFinished(f)
                                \/ MarkDownloaded(f)
  <2>1. UNCHANGED <<tasks, worker, removing, clearing>>
    BY <1>12 DEF RefreshCompleted, SetShared, AddFiles, FindFile, SetDownloaded, MoveToFinished,
                 MarkDownloaded, vars, taskVars, actorVars
  <2> QED BY <1>1, <1>5, <2>1 DEF TaskInv
<1> QED BY <1>3, <1>6, <1>7, <1>8, <1>9, <1>10, <1>11, <1>12
        DEF Next, Connection, RemoveBundle, RemoveEmptyBundle

\* Nobody forgets what the user has done.
LEMMA UserRemembers == [Next]_vars => didUser \subseteq didUser'
<1> SUFFICES ASSUME [Next]_vars PROVE didUser \subseteq didUser'
  OBVIOUS
<1>1. CASE TaskThread
  BY <1>1, TaskThreadFrame
<1>2. CASE ~TaskThread
  BY <1>2 DEF Next, Connection, CheckTimer, RefreshCompleted, SetShared, FindFile, SetDownloaded,
     MoveToFinished, MarkDownloaded, Rename, RemoveFile, RemoveFromBundle, AddFiles, ShareFailed,
     RemoveBundle, RemoveEmptyBundle, Did, history, vars
<1> QED BY <1>1, <1>2

\* The size stays exact.
LEMMA SizeStep ==
    ASSUME Base, SizeInv, [Next]_vars
    PROVE  SizeInv'
<1> SUFFICES ASSUME NoRace'
    PROVE  queueSize' = Cardinality(queueItems') /\ \A g \in Files : Listed(g)'
  BY DEF SizeInv
<1>1. /\ NoRace /\ queueSize = Cardinality(queueItems) /\ \A g \in Files : Listed(g) /\ FileInv(g)
      /\ TaskInv
  BY UserRemembers DEF SizeInv, NoRace, Base
<1>2. FilesOK /\ CountsOK
  BY TypeParts DEF Base
<1>3. IsFiniteSet(queueItems) /\ Cardinality(queueItems) \in Nat
  BY <1>2, FiniteFiles DEF FilesOK
<1>4. CASE UNCHANGED <<queueSize, queueItems, fileQueue, removing, pc>>
  BY <1>1, <1>4 DEF Listed, Finishing
<1>5. ASSUME NEW f \in Files, NEW to, pc' = [pc EXCEPT ![f] = to],
             UNCHANGED <<queueSize, queueItems, fileQueue, removing>>,
             to # "downloading", to \in {"found", "downloaded"} => f \in queueItems /\ f \notin removing
      PROVE  queueSize' = Cardinality(queueItems') /\ \A g \in Files : Listed(g)'
  <2>1. ASSUME NEW g \in Files PROVE Listed(g)'
    BY <1>1, <1>2, <1>5 DEF Listed, Finishing, FilesOK
  <2> QED BY <1>1, <1>5, <2>1
<1>6. ASSUME NEW f \in Files, FindFile(f) \/ SetDownloaded(f) \/ MarkDownloaded(f) \/ Rename(f)
      PROVE  queueSize' = Cardinality(queueItems') /\ \A g \in Files : Listed(g)'
  <2>1. f \in fileQueue => f \notin removing
    BY <1>1 DEF FileInv
  <2>2. Listed(f)
    BY <1>1
  <2>3. CASE FindFile(f)
    BY <1>5, <2>1, <2>2, <2>3 DEF FindFile, Step, Listed, listVars, actorVars
  <2>4. CASE SetDownloaded(f)
    BY <1>5, <2>2, <2>4 DEF SetDownloaded, Step, Listed, Finishing, listVars, actorVars
  <2>5. CASE MarkDownloaded(f) \/ Rename(f)
    BY <1>5, <2>5 DEF MarkDownloaded, Rename, Step, listVars, actorVars
  <2> QED BY <1>6, <2>3, <2>4, <2>5
<1>7. ASSUME NEW f \in Files, MoveToFinished(f)
      PROVE  queueSize' = Cardinality(queueItems') /\ \A g \in Files : Listed(g)'
  <2>1. /\ pc[f] = "downloaded" /\ pc' = [pc EXCEPT ![f] = AfterRemoval(f)]
        /\ queueItems' = queueItems \ {f} /\ queueSize' = queueSize - 1
        /\ UNCHANGED <<fileQueue, removing>>
    BY <1>7 DEF MoveToFinished, Step, CountRemoved, SizeOfRemoved, actorVars
  <2>2. f \in queueItems
    BY <1>1, <2>1 DEF Listed, Finishing
  <2>3. queueSize' = Cardinality(queueItems')
    BY <1>1, <1>3, <2>1, <2>2, FS_RemoveElement
  <2>4. AfterRemoval(f) \in {"emptied", "renaming"}
    BY DEF AfterRemoval
  <2>5. ASSUME NEW g \in Files PROVE Listed(g)'
    BY <1>1, <1>2, <2>1, <2>4 DEF Listed, Finishing, FilesOK
  <2> QED BY <2>3, <2>5
<1>8. ASSUME NEW f \in Files, RemoveFile(f)
      PROVE  queueSize' = Cardinality(queueItems') /\ \A g \in Files : Listed(g)'
  <2>1. /\ UNCHANGED <<queueSize, queueItems, pc>> /\ f \in fileQueue
        /\ fileQueue' = fileQueue \ {f} /\ removing' = {f} /\ removing = {}
    BY <1>8 DEF RemoveFile
  <2>2. ~Finishing(f)
    BY <1>8 DEF RemoveFile, Did, Race, NoRace
  <2>3. ASSUME NEW g \in Files PROVE Listed(g)'
    BY <1>1, <2>1, <2>2 DEF Listed, Finishing
  <2> QED BY <1>1, <2>1, <2>3
<1>9. ASSUME NEW f \in Files, RemoveFromBundle(f)
      PROVE  queueSize' = Cardinality(queueItems') /\ \A g \in Files : Listed(g)'
  <2>1. /\ removing = {f} /\ removing' = {} /\ UNCHANGED <<fileQueue, pc>>
        /\ queueSize' = queueSize - (IF FileDownloaded(f) THEN 0 ELSE 1)
        /\ queueItems' = IF FileDownloaded(f) THEN queueItems ELSE queueItems \ {f}
    BY <1>9 DEF RemoveFromBundle, CountRemoved, SizeOfRemoved
  <2>2. ~Finishing(f) /\ f \notin fileQueue
    BY <1>1, <2>1 DEF Listed, FileInv
  <2>3. ~FileDownloaded(f) => f \in queueItems
    <3>1. ~FileDownloaded(f) => fileStatus[f] \in {"new", "queued"}
      BY <1>2 DEF FileDownloaded, FilesOK, FileStatuses
    <3>2. ~FileDownloaded(f) => pc[f] = "downloading"
      BY <1>1, <2>2, <3>1 DEF FileInv, Finishing
    <3> QED BY <1>1, <2>1, <3>2 DEF Listed
  <2>4. queueSize' = Cardinality(queueItems')
    BY <1>1, <1>2, <1>3, <2>1, <2>3, FS_RemoveElement DEF CountsOK
  <2>5. ASSUME NEW g \in Files PROVE Listed(g)'
    <3>1. g \in queueItems /\ g # f => g \in queueItems'
      BY <2>1
    <3>2. ~(Finishing(g) /\ g = f)
      BY <2>2
    <3> QED BY <1>1, <2>1, <2>2, <3>1, <3>2 DEF Listed, Finishing
  <2> QED BY <2>4, <2>5
<1>10. ASSUME NEW F \in SUBSET Files, AddFiles(F)
       PROVE  queueSize' = Cardinality(queueItems') /\ \A g \in Files : Listed(g)'
  <2>1. /\ queueItems' = queueItems \cup F /\ queueSize' = queueSize + Cardinality(F)
        /\ fileQueue' \subseteq fileQueue \cup F
        /\ UNCHANGED <<pc, removing>> /\ \A f \in F : fileStatus[f] = "new"
    BY <1>10 DEF AddFiles, actorVars
  <2>2. queueItems \cap F = {}
    BY <1>1, <2>1 DEF FileInv
  <2>3. IsFiniteSet(F) /\ Cardinality(F) \in Nat
    BY FiniteFiles
  <2>4. Cardinality(queueItems \cup F) = Cardinality(queueItems) + Cardinality(F)
    <3>1. Cardinality(queueItems \cup F)
            = Cardinality(queueItems) + Cardinality(F) - Cardinality(queueItems \cap F)
      BY <1>3, <2>3, FS_Union
    <3>2. Cardinality(queueItems \cap F) = 0
      BY <2>2, FS_EmptySet
    <3> QED BY <1>3, <2>3, <3>1, <3>2
  <2>5. ASSUME NEW g \in Files PROVE Listed(g)'
    BY <1>1, <2>1 DEF Listed, Finishing
  <2> QED BY <1>1, <2>1, <2>4, <2>5
<1>11. CASE RemoveBundle \/ RemoveEmptyBundle
  <2> DEFINE S == {f \in queueItems : ~FileDownloaded(f)}
  <2>1. /\ queueSize' = queueSize - Cardinality(S) /\ fileQueue' = {}
        /\ queueItems' = {f \in queueItems : FileDownloaded(f)} /\ UNCHANGED <<removing, pc>>
        /\ ~\E f \in Files : Finishing(f)
    BY <1>11 DEF RemoveBundle, RemoveEmptyBundle, ClearBundle, Did, Race, NoRace
  <2>2. removing = {}
    BY <1>1, <1>11 DEF RemoveBundle, RemoveEmptyBundle, TaskInv
  <2>3. ASSUME NEW f \in queueItems PROVE ~FileDownloaded(f)
    <3>1. f \in Files /\ pc[f] \notin Left /\ pc[f] \in Points
      BY <1>1, <1>2 DEF FileInv, FilesOK
    <3>2. pc[f] = "downloading"
      BY <2>1, <3>1 DEF Left, Points, Finishing
    <3> QED BY <1>1, <3>1, <3>2 DEF FileInv, FileDownloaded
  <2>4. S = queueItems /\ queueItems' = {}
    BY <2>1, <2>3
  <2> HIDE DEF S
  <2>5. queueSize' = Cardinality(queueItems')
    <3>1. queueSize' = 0 /\ Cardinality({}) = 0
      BY <1>1, <1>3, <2>1, <2>4, FS_EmptySet
    <3> QED BY <2>4, <3>1
  <2>6. ASSUME NEW g \in Files PROVE Listed(g)'
    BY <2>1, <2>2 DEF Listed, Finishing
  <2> QED BY <2>5, <2>6
<1>12. CASE TaskThread
  BY <1>4, <1>12, TaskThreadFrame DEF listVars, actorVars
<1>13. CASE \/ CheckTimer \/ RefreshCompleted \/ SetShared \/ UNCHANGED vars
            \/ \E skip \in BOOLEAN : ShareFailed(skip)
  BY <1>4, <1>13 DEF CheckTimer, RefreshCompleted, SetShared, ShareFailed, vars, listVars, actorVars
<1> QED BY <1>6, <1>7, <1>8, <1>9, <1>10, <1>11, <1>12, <1>13 DEF Next, Connection
-----------------------------------------------------------------------------
(* A bundle that the user leaves alone.                                     *)

AloneTasks ==
    /\ \A i \in DOMAIN tasks :
         /\ tasks[i] # CheckTask
         /\ tasks[i].kind = "file" /\ Pending(i) => fileStatus[tasks[i].file] = "downloaded"
    /\ \A i, j \in DOMAIN tasks : tasks[i].kind = "file" /\ tasks[i] = tasks[j] => i = j
    /\ worker = "fileHook" => fileStatus[Head(tasks).file] = "validating"

Apart == Base /\ SizeInv /\ Alone /\ AloneInv /\ WayInv

\* Who takes a step then.
LEMMA AloneSteps ==
    ASSUME Alone, AloneInv, [Next]_vars, Alone'
    PROVE  \/ TaskThread \/ RefreshCompleted \/ SetShared \/ UNCHANGED vars
           \/ \E f \in Files : FindFile(f) \/ Connection(f)
<1>1. ~CheckTimer /\ ~RemoveEmptyBundle /\ \A f \in Files : ~RemoveFromBundle(f)
  BY DEF AloneInv, CheckTimer, RemoveEmptyBundle, RemoveFromBundle
<1>2. ASSUME NEW kind, NEW touched, Did(kind, touched) PROVE FALSE
  BY <1>2 DEF Did, Alone
<1>3. ~RemoveBundle /\ \A f \in Files : ~RemoveFile(f)
  BY <1>2 DEF RemoveBundle, RemoveFile
<1>4. (\A F \in SUBSET Files : ~AddFiles(F)) /\ \A skip \in BOOLEAN : ~ShareFailed(skip)
  BY <1>2 DEF AddFiles, ShareFailed
<1> QED BY <1>1, <1>3, <1>4 DEF Next

\* Every element of the queue of tasks is a task.
LEMMA TaskFacts ==
    ASSUME WorkOK, NEW i \in DOMAIN tasks
    PROVE  /\ tasks[i] \in Tasks
           /\ tasks[i].kind = "file" => tasks[i].file \in Files /\ tasks[i] = FileTask(tasks[i].file)
<1>1. tasks[i] \in Tasks
  BY ElementOfSeq, LenProperties DEF WorkOK
<1> QED BY <1>1, FileTasks

\* What the task thread does to tasks and files.
LEMMA AloneWork ==
    ASSUME Apart, TaskThread
    PROVE  /\ \A f \in Files : f # Head(tasks).file \/ Head(tasks).kind # "file"
                                 => fileStatus'[f] = fileStatus[f]
           /\ \/ /\ tasks' = tasks /\ worker' # "idle"
                 /\ worker' = "fileHook" =>
                      Head(tasks).kind = "file" /\ fileStatus'[Head(tasks).file] = "validating"
              \/ /\ tasks' \in {Tail(tasks), Append(Tail(tasks), ShareTask(FALSE))}
                 /\ worker' = "idle"
<1>1. FilesOK /\ WorkOK /\ Base
  BY TypeParts DEF Apart, Base
<1>2. CASE Begin
  <2>1. tasks' = tasks /\ worker' # "idle"
    BY <1>1, <1>2, RunningTask DEF Begin
  <2>2. CASE Head(tasks).kind = "file"
    <3>1. Head(tasks).file \in Files
      BY <1>1, <2>2, RunningFile
    <3>2. fileStatus' = [fileStatus EXCEPT ![Head(tasks).file] = "validating"]
      BY <1>2, <2>2 DEF Begin
    <3> QED BY <1>1, <2>1, <2>2, <3>1, <3>2 DEF FilesOK
  <2>3. CASE Head(tasks).kind # "file"
    <3>1. fileStatus' = fileStatus /\ worker' # "fileHook"
      BY <1>1, <1>2, <2>3, RunningTask DEF Begin
    <3> QED BY <2>1, <3>1
  <2> QED BY <2>2, <2>3
<1>3. CASE RunFileHook
  <2>1. Head(tasks).kind = "file"
    BY <1>1, <1>3 DEF RunFileHook, Base, TaskInv
  <2>2. PICK result \in {"completed", "failed"} :
           fileStatus' = [fileStatus EXCEPT ![Head(tasks).file] = result]
    BY <1>3 DEF RunFileHook
  <2>3. (tasks' = tasks /\ worker' = "check") \/ (tasks' = Tail(tasks) /\ worker' = "idle")
    BY <1>3 DEF RunFileHook, EndTask
  <2> QED BY <1>1, <2>1, <2>2, <2>3 DEF FilesOK
<1>4. CASE RunFilesHook
  <2>1. worker = "filesHook" /\ tasks # <<>>
    BY <1>1, <1>4, RunningTask DEF RunFilesHook
  <2> QED BY <2>1 DEF Apart, WayInv, OnTheWay
<1>5. CASE Check \/ ReadFailed \/ Reject \/ ReadLists \/ StartValidation \/ RunBundleHook
           \/ Complete \/ Share
  <2>1. fileStatus' = fileStatus
    BY <1>5 DEF Check, ReadFailed, Reject, ReadLists, StartValidation, RunBundleHook, Complete,
                Share
  <2>2. \/ tasks' = tasks /\ worker' \notin {"idle", "fileHook"}
        \/ /\ tasks' \in {Tail(tasks), Append(Tail(tasks), ShareTask(FALSE))}
           /\ worker' = "idle"
    BY <1>5 DEF Check, ReadFailed, Reject, ReadLists, StartValidation, RunBundleHook, Complete,
                Share, Work, EndTask
  <2> QED BY <2>1, <2>2
<1> QED BY <1>2, <1>3, <1>4, <1>5 DEF TaskThread

\* The tasks of a bundle that is left alone.
LEMMA AloneTasksStep ==
    ASSUME Apart, [Next]_vars, Alone'
    PROVE  AloneTasks'
<1>1. FilesOK /\ WorkOK /\ Base /\ AloneTasks
  BY TypeParts DEF Apart, Base, AloneInv, AloneTasks
<1>2. CASE TaskThread
  <2>1. /\ tasks # <<>> /\ 1 \in DOMAIN tasks /\ Head(tasks) = tasks[1]
        /\ Tail(tasks) \in Seq(Tasks)
        /\ \A i \in DOMAIN Tail(tasks) :
             i + 1 \in DOMAIN tasks /\ Tail(tasks)[i] = tasks[i + 1] /\ i + 1 > 1
    BY <1>1, <1>2, RunningTask, HeadFacts DEF WorkOK
  <2>2. \A f \in Files : f # Head(tasks).file \/ Head(tasks).kind # "file"
                           => fileStatus'[f] = fileStatus[f]
    BY <1>2, AloneWork
  <2>3. ASSUME NEW i \in DOMAIN tasks, i > 1, tasks[i].kind = "file"
        PROVE  fileStatus'[tasks[i].file] = "downloaded"
    <3>1. tasks[i].file \in Files /\ tasks[i] = FileTask(tasks[i].file)
      BY <1>1, <2>3, TaskFacts
    <3>2. fileStatus[tasks[i].file] = "downloaded"
      BY <1>1, <2>3 DEF AloneTasks, Pending
    <3>3. Head(tasks).kind = "file" => tasks[i].file # Head(tasks).file
      <4>1. SUFFICES ASSUME Head(tasks).kind = "file", tasks[i].file = Head(tasks).file
                     PROVE  FALSE
        OBVIOUS
      <4>2. tasks[1] = FileTask(tasks[1].file)
        BY <1>1, <2>1, <4>1, TaskFacts
      <4>3. tasks[i] = tasks[1]
        BY <2>1, <3>1, <4>1, <4>2
      <4>4. i = 1
        BY <1>1, <2>1, <2>3, <4>3 DEF AloneTasks
      <4> QED BY <2>3, <4>4
    <3> QED BY <2>2, <3>1, <3>2, <3>3
  <2>4. CASE /\ tasks' = tasks /\ worker' # "idle"
             /\ worker' = "fileHook" =>
                  Head(tasks).kind = "file" /\ fileStatus'[Head(tasks).file] = "validating"
    BY <1>1, <2>3, <2>4 DEF AloneTasks, Pending
  <2>5. CASE /\ tasks' \in {Tail(tasks), Append(Tail(tasks), ShareTask(FALSE))}
             /\ worker' = "idle"
    <3> DEFINE r == Tail(tasks)
    <3>1. /\ \A i \in DOMAIN r : r[i] # CheckTask
          /\ \A i \in DOMAIN r : r[i].kind = "file" => fileStatus'[r[i].file] = "downloaded"
      BY <1>1, <2>1, <2>3 DEF AloneTasks
    <3>2. ASSUME NEW i \in DOMAIN r, NEW j \in DOMAIN r, r[i].kind = "file", r[i] = r[j]
          PROVE  i = j
      <4>1. i + 1 = j + 1
        BY <1>1, <2>1, <3>2 DEF AloneTasks
      <4>2. i \in Nat /\ j \in Nat
        BY <2>1, LenProperties
      <4> QED BY <4>1, <4>2
    <3>3. CASE tasks' = r
      BY <2>5, <3>1, <3>2, <3>3 DEF AloneTasks
    <3>4. CASE tasks' = Append(r, ShareTask(FALSE))
      <4> DEFINE n == Len(r) + 1
      <4>1. ShareTask(FALSE) \in Tasks /\ ShareTask(FALSE).kind = "share" /\ CheckTask.kind = "check"
        BY KindFacts
      <4>2. /\ DOMAIN tasks' = DOMAIN r \cup {n} /\ tasks'[n] = ShareTask(FALSE)
            /\ \A j \in DOMAIN r : tasks'[j] = r[j]
        BY <2>1, <3>4, <4>1, AppendFacts
      <4> HIDE DEF n, r
      <4>3. ASSUME NEW i \in DOMAIN tasks'
            PROVE  /\ tasks'[i] # CheckTask
                   /\ tasks'[i].kind = "file" =>
                        i \in DOMAIN r /\ fileStatus'[tasks'[i].file] = "downloaded"
        BY <3>1, <4>1, <4>2
      <4>4. ASSUME NEW i \in DOMAIN tasks', NEW j \in DOMAIN tasks', tasks'[i].kind = "file",
                   tasks'[i] = tasks'[j]
            PROVE  i = j
        BY <3>2, <4>2, <4>3, <4>4
      <4> QED BY <2>5, <4>3, <4>4 DEF AloneTasks
    <3> QED BY <2>5, <3>3, <3>4
  <2> QED BY <1>2, <2>4, <2>5, AloneWork
<1>3. ASSUME NEW f \in Files, Rename(f) PROVE AloneTasks'
  <2> DEFINE t == FileTask(f)
             n == Len(tasks) + 1
  <2>1. t \in Tasks /\ t.kind = "file" /\ t.file = f /\ t # CheckTask
    BY KindFacts
  <2>2. tasks' = Append(tasks, t) /\ UNCHANGED <<fileStatus, worker>> /\ pc[f] = "renaming"
    BY <1>3 DEF Rename, Step
  <2> HIDE DEF t
  <2>3. /\ DOMAIN tasks' = DOMAIN tasks \cup {n} /\ tasks'[n] = t
        /\ \A j \in DOMAIN tasks : tasks'[j] = tasks[j]
        /\ tasks # <<>> => Head(tasks') = Head(tasks)
    BY <1>1, <2>1, <2>2, AppendFacts DEF WorkOK
  <2> HIDE DEF n
  <2>4. fileStatus[f] = "downloaded"
    BY <1>1, <2>2 DEF Base, FileInv, FilesOK, FileStatuses
  <2>5. \A j \in DOMAIN tasks : tasks[j] # t
    BY <1>1, <2>1, <2>2 DEF Base, TaskInv
  <2>6. ASSUME NEW i \in DOMAIN tasks', NEW j \in DOMAIN tasks', tasks'[i].kind = "file",
               tasks'[i] = tasks'[j]
        PROVE  i = j
    BY <1>1, <2>3, <2>5, <2>6 DEF AloneTasks
  <2>7. ASSUME NEW i \in DOMAIN tasks'
        PROVE  /\ tasks'[i] # CheckTask
               /\ tasks'[i].kind = "file" /\ Pending(i)'
                    => fileStatus'[tasks'[i].file] = "downloaded"
    <3>1. CASE i \in DOMAIN tasks
      BY <1>1, <2>2, <2>3, <3>1 DEF AloneTasks, Pending
    <3>2. CASE i = n
      BY <2>1, <2>2, <2>3, <2>4, <3>2
    <3> QED BY <2>3, <3>1, <3>2
  <2>8. worker' = "fileHook" => fileStatus'[Head(tasks').file] = "validating"
    BY <1>1, <2>2, <2>3 DEF AloneTasks, WorkOK
  <2> QED BY <2>6, <2>7, <2>8 DEF AloneTasks
<1>4. ASSUME NEW f \in Files, SetDownloaded(f) PROVE AloneTasks'
  <2>1. UNCHANGED <<tasks, worker>> /\ fileStatus' = [fileStatus EXCEPT ![f] = "downloaded"]
        /\ pc[f] = "found"
    BY <1>4 DEF SetDownloaded, Step, taskVars
  <2>2. fileStatus[f] \in {"new", "queued"}
    BY <1>1, <2>1 DEF Base, FileInv
  <2> QED BY <1>1, <2>1, <2>2 DEF AloneTasks, Pending, FilesOK
<1>5. CASE \/ RefreshCompleted \/ SetShared \/ UNCHANGED vars
           \/ \E f \in Files : FindFile(f) \/ MoveToFinished(f) \/ MarkDownloaded(f)
  <2>1. UNCHANGED <<tasks, worker, fileStatus>>
    BY <1>5 DEF RefreshCompleted, SetShared, FindFile, MoveToFinished, MarkDownloaded, vars, taskVars
  <2> QED BY <1>1, <2>1 DEF AloneTasks, Pending
<1> QED BY <1>2, <1>3, <1>4, <1>5, AloneSteps DEF Connection, Apart

\* A bundle stays alone in the queue, and its files among the finished ones.
LEMMA AloneStep ==
    ASSUME Apart, [Next]_vars, Alone'
    PROVE  AloneInv'
<1>1. FilesOK /\ AloneInv /\ \A f \in Files : FileInv(f)
  BY TypeParts DEF Apart, Base
<1>2. inQueue' /\ removing' = {} /\ ~clearing' /\ ~checkDue'
  <2>1. UNCHANGED <<inQueue, removing, clearing, checkDue>>
    <3>1. CASE TaskThread
      BY <3>1, TaskThreadFrame DEF listVars, actorVars
    <3>2. CASE ~TaskThread
      BY <3>2, AloneSteps DEF Apart, RefreshCompleted, SetShared, FindFile, Connection,
         SetDownloaded, MoveToFinished, MarkDownloaded, Rename, vars, listVars, actorVars
    <3> QED BY <3>1, <3>2
  <2> QED BY <1>1, <2>1 DEF AloneInv
<1>3. ASSUME NEW g \in Files, pc'[g] \in Left PROVE g \in finishedFiles'
  <2>1. CASE UNCHANGED <<pc, finishedFiles>>
    BY <1>1, <1>3, <2>1 DEF AloneInv
  <2>2. ASSUME NEW f \in Files, FindFile(f) \/ SetDownloaded(f) PROVE g \in finishedFiles'
    <3>1. finishedFiles' = finishedFiles /\ \E to \in {"found", "downloaded"} :
             pc' = [pc EXCEPT ![f] = to]
      BY <2>2 DEF FindFile, SetDownloaded, Step, listVars
    <3> QED BY <1>1, <1>3, <3>1 DEF FilesOK, AloneInv, Left
  <2>3. ASSUME NEW f \in Files, MarkDownloaded(f) \/ Rename(f) PROVE g \in finishedFiles'
    <3>1. /\ finishedFiles' = finishedFiles /\ pc[f] \in Left
          /\ \E to \in Left : pc' = [pc EXCEPT ![f] = to]
      BY <2>3 DEF MarkDownloaded, Rename, Step, listVars, Left
    <3> QED BY <1>1, <1>3, <3>1 DEF FilesOK, AloneInv
  <2>4. ASSUME NEW f \in Files, MoveToFinished(f) PROVE g \in finishedFiles'
    <3>1. /\ finishedFiles' = finishedFiles \cup {f}
          /\ \E to : pc' = [pc EXCEPT ![f] = to]
      BY <2>4 DEF MoveToFinished, Step
    <3> QED BY <1>1, <1>3, <3>1 DEF FilesOK, AloneInv
  <2>5. TaskThread => UNCHANGED <<pc, finishedFiles>>
    BY TaskThreadFrame DEF listVars
  <2>6. RefreshCompleted \/ SetShared \/ UNCHANGED vars => UNCHANGED <<pc, finishedFiles>>
    BY DEF RefreshCompleted, SetShared, vars, listVars
  <2> QED BY <2>1, <2>2, <2>3, <2>4, <2>5, <2>6, AloneSteps DEF Connection, Apart
<1>4. AloneTasks'
  BY AloneTasksStep
<1> QED BY <1>2, <1>3, <1>4 DEF AloneInv, AloneTasks
-----------------------------------------------------------------------------
(* The way to the share.                                                    *)

\* When all files are finished and accepted, no connection has anything to do.
LEMMA ReadyFacts ==
    ASSUME Apart, Ready
    PROVE  /\ queueItems = {} /\ FailedItems = {} /\ FilesCompleted
           /\ \A f \in Files : ~FindFile(f) /\ ~Connection(f)
<1>1. FilesOK /\ \A f \in Files : Listed(f) /\ FileInv(f) /\ (pc[f] \in Left => f \in finishedFiles)
  BY TypeParts DEF Apart, Base, SizeInv, NoRace, Alone, AloneInv
<1>2. queueItems = {} /\ \A f \in finishedFiles : pc[f] = "done" /\ fileStatus[f] = "completed"
  BY DEF Ready
<1>3. FailedItems = {} /\ FilesCompleted
  BY <1>2 DEF FailedItems, FilesCompleted
<1>4. ASSUME NEW f \in Files PROVE ~FindFile(f) /\ ~Connection(f)
  <2>1. ~Finishing(f) /\ ~(f \in fileQueue /\ pc[f] = "downloading")
    BY <1>1, <1>2 DEF Listed
  <2>2. pc[f] \notin {"emptied", "renaming"}
    BY <1>1, <1>2 DEF Left
  <2> QED BY <2>1, <2>2 DEF Finishing, FindFile, Connection, SetDownloaded, MoveToFinished,
                            MarkDownloaded, Rename, Step
<1> QED BY <1>2, <1>3, <1>4

\* Lists with one task.
LEMMA OneTask ==
    ASSUME NEW t
    PROVE  /\ Head(<<t>>) = t /\ Tail(<<t>>) = <<>> /\ <<t>> # <<>>
           /\ Append(<<>>, t) = <<t>>
OBVIOUS

\* One task shares the bundle, and none comes after it.
LEMMA ReadyStep ==
    ASSUME Apart, [Next]_vars, Alone', Ready
    PROVE  Ready' /\ OnTheWay'
<1>1. /\ WorkOK /\ OnTheWay /\ sharings \in Nat /\ queueItems = {} /\ FailedItems = {}
      /\ \A f \in Files : ~FindFile(f) /\ ~Connection(f)
  BY TypeParts, ReadyFacts DEF Apart, Base, WayInv, ActorsOK
<1>2. CASE RefreshCompleted \/ SetShared \/ UNCHANGED vars
  <2>1. UNCHANGED <<tasks, worker, sharings, queueItems, finishedFiles, pc, fileStatus>>
    BY <1>2 DEF RefreshCompleted, SetShared, vars, listVars, taskVars, history
  <2> QED BY <1>1, <2>1 DEF Ready, OnTheWay
<1>3. CASE TaskThread
  <2>1. tasks # <<>> /\ (fileStatus' = fileStatus => Ready')
    BY <1>1, <1>3, RunningTask, TaskThreadFrame DEF listVars, Ready
  <2>2. CASE /\ tasks = <<ShareTask(FALSE)>> /\ sharings = 0
             /\ worker \in {"idle", "validate", "bundleHook", "complete", "share"}
    <3>1. /\ Head(tasks) = ShareTask(FALSE) /\ Tail(tasks) = <<>>
          /\ ShareTask(FALSE).kind = "share" /\ ShareTask(FALSE).skip = FALSE
      BY <2>2, OneTask, KindFacts
    <3>2. CASE Begin
      <4>1. /\ worker' = "validate" /\ UNCHANGED <<tasks, fileStatus, sharings>>
        BY <1>1, <3>1, <3>2 DEF Begin, history
      <4>2. CASE tasks' = <<>>
        <5>1. sharings' <= 1
          BY <2>2, <4>1
        <5> QED BY <2>1, <4>1, <4>2, <5>1 DEF OnTheWay
      <4>3. CASE tasks' # <<>>
        <5>1. OnTheWay'
          BY <2>2, <4>1, <4>3 DEF OnTheWay
        <5> QED BY <2>1, <4>1, <5>1
      <4> QED BY <4>2, <4>3
    <3>3. CASE StartValidation \/ RunBundleHook \/ Complete
      <4>1. /\ UNCHANGED <<fileStatus, sharings>>
            /\ \/ tasks' = tasks /\ worker' \in {"bundleHook", "complete", "share"}
               \/ tasks' = <<>>
        BY <2>2, <3>1, <3>3 DEF StartValidation, RunBundleHook, Complete, Work, EndTask, history
      <4>2. CASE tasks' = <<>>
        <5>1. sharings' <= 1
          BY <2>2, <4>1
        <5> QED BY <2>1, <4>1, <4>2, <5>1 DEF OnTheWay
      <4>3. CASE tasks' # <<>>
        <5>1. OnTheWay'
          BY <2>2, <4>1, <4>3 DEF OnTheWay
        <5> QED BY <2>1, <4>1, <5>1
      <4> QED BY <4>2, <4>3
    <3>4. CASE Share
      <4>1. tasks' = <<>> /\ fileStatus' = fileStatus /\ sharings' <= 1
        BY <2>2, <3>1, <3>4 DEF Share, EndTask
      <4>2. OnTheWay'
        BY <4>1 DEF OnTheWay
      <4> QED BY <2>1, <4>1, <4>2
    <3>5. ~RunFileHook /\ ~Check /\ ~ReadFailed /\ ~Reject /\ ~ReadLists /\ ~RunFilesHook
      BY <2>2 DEF RunFileHook, Check, ReadFailed, Reject, ReadLists, RunFilesHook, Work
    <3> QED BY <1>3, <3>2, <3>3, <3>4, <3>5 DEF TaskThread
  <2>3. CASE /\ \E f \in Files : tasks = <<FileTask(f)>>
             /\ sharings = 0 /\ worker \in {"check", "readFailed", "reject", "readLists"}
    <3>1. Tail(tasks) = <<>> /\ Append(<<>>, ShareTask(FALSE)) = <<ShareTask(FALSE)>>
      BY <2>3, OneTask
    <3>2. CASE Check \/ ReadFailed \/ Reject
      <4>1. /\ UNCHANGED <<fileStatus, sharings>>
            /\ \/ tasks' = tasks /\ worker' \in {"readFailed", "reject", "readLists"}
               \/ tasks' = <<>>
        BY <2>3, <3>1, <3>2 DEF Check, ReadFailed, Reject, Work, EndTask, history
      <4>2. CASE tasks' = <<>>
        <5>1. sharings' <= 1
          BY <2>3, <4>1
        <5> QED BY <2>1, <4>1, <4>2, <5>1 DEF OnTheWay
      <4>3. CASE tasks' # <<>>
        <5>1. OnTheWay'
          BY <2>3, <4>1, <4>3 DEF OnTheWay
        <5> QED BY <2>1, <4>1, <5>1
      <4> QED BY <4>2, <4>3
    <3>3. CASE ReadLists
      <4>1. /\ UNCHANGED <<fileStatus, sharings>> /\ worker' = "idle"
            /\ tasks' = <<>> \/ tasks' = <<ShareTask(FALSE)>>
        BY <2>3, <3>1, <3>3 DEF ReadLists, history
      <4>2. CASE tasks' = <<>>
        <5>1. sharings' <= 1
          BY <2>3, <4>1
        <5> QED BY <2>1, <4>1, <4>2, <5>1 DEF OnTheWay
      <4>3. CASE tasks' # <<>>
        <5>1. OnTheWay'
          BY <2>3, <4>1, <4>3 DEF OnTheWay
        <5> QED BY <2>1, <4>1, <5>1
      <4> QED BY <4>2, <4>3
    <3>4. /\ ~Begin /\ ~RunFileHook /\ ~StartValidation /\ ~RunFilesHook /\ ~RunBundleHook
          /\ ~Complete /\ ~Share
      BY <2>3 DEF Begin, RunFileHook, StartValidation, RunFilesHook, RunBundleHook, Complete,
                  Share, Work
    <3> QED BY <1>3, <3>2, <3>3, <3>4 DEF TaskThread
  <2> QED BY <1>1, <2>1, <2>2, <2>3 DEF OnTheWay
<1> QED BY <1>1, <1>2, <1>3, AloneSteps DEF Apart

\* The connections never complete a bundle.
LEMMA UnreadyConnection ==
    ASSUME Apart, ~Ready, NEW f \in Files, FindFile(f) \/ Connection(f)
    PROVE  ~Ready' /\ WayInv'
<1>1. /\ FilesOK /\ WorkOK /\ Listed(f) /\ FileInv(f) /\ (pc[f] \in Left => f \in finishedFiles)
      /\ f \in removing => f \notin fileQueue
  BY TypeParts DEF Apart, Base, SizeInv, NoRace, Alone, AloneInv, FileInv
<1>2. CASE FindFile(f) \/ SetDownloaded(f)
  <2>1. f \in queueItems /\ UNCHANGED <<queueItems, status, tasks, worker, refreshing, sharings>>
    BY <1>1, <1>2 DEF FindFile, SetDownloaded, Step, Listed, Finishing, listVars, taskVars,
                      actorVars, history
  <2> QED BY <2>1 DEF Ready, Apart, WayInv, IsCompleted
<1>3. CASE MoveToFinished(f)
  <2>1. /\ f \in finishedFiles' /\ pc'[f] # "done"
        /\ UNCHANGED <<status, tasks, worker, refreshing, sharings>>
    BY <1>1, <1>3 DEF MoveToFinished, Step, AfterRemoval, FilesOK, taskVars, actorVars, history
  <2> QED BY <2>1 DEF Ready, Apart, WayInv, IsCompleted
<1>4. CASE MarkDownloaded(f)
  <2>1. /\ f \in finishedFiles' /\ pc'[f] # "done" /\ status' = "downloaded"
        /\ UNCHANGED <<tasks, worker, refreshing, sharings>>
    BY <1>1, <1>4 DEF MarkDownloaded, Step, FilesOK, Left, listVars, taskVars, actorVars, history
  <2> QED BY <2>1 DEF Ready, Apart, WayInv, IsCompleted
<1>5. CASE Rename(f)
  <2>1. /\ f \in finishedFiles' /\ fileStatus'[f] # "completed"
        /\ tasks' = Append(tasks, FileTask(f)) /\ UNCHANGED <<status, worker, refreshing, sharings>>
    BY <1>1, <1>5 DEF Rename, Step, FileInv, Left, listVars, actorVars, history
  <2>2. FileTask(f) \in Tasks /\ FileTask(f).kind = "file"
    BY KindFacts
  <2>3. ASSUME NEW i \in DOMAIN tasks' PROVE tasks'[i].kind = "file"
    <3> DEFINE n == Len(tasks) + 1
    <3>1. /\ DOMAIN tasks' = DOMAIN tasks \cup {n} /\ tasks'[n] = FileTask(f)
          /\ \A j \in DOMAIN tasks : tasks'[j] = tasks[j]
      BY <1>1, <2>1, <2>2, AppendFacts DEF WorkOK
    <3> HIDE DEF n
    <3> QED BY <2>2, <3>1 DEF Apart, WayInv
  <2> QED BY <2>1, <2>3 DEF Ready, Apart, WayInv, IsCompleted
<1> QED BY <1>2, <1>3, <1>4, <1>5 DEF Connection

\* The hook of the last file makes a bundle ready, when its task is the last one.
LEMMA UnreadyStep ==
    ASSUME Apart, [Next]_vars, Alone', ~Ready
    PROVE  WayInv'
<1>1. /\ FilesOK /\ WorkOK /\ sharings = 0 /\ ~IsCompleted /\ ~refreshing
      /\ \A i \in DOMAIN tasks : tasks[i].kind = "file"
      /\ worker \in {"idle", "fileHook", "check", "readFailed", "reject", "readLists"}
      /\ \A f \in Files : FileInv(f) /\ (pc[f] \in Left => f \in finishedFiles)
  BY TypeParts DEF Apart, Base, WayInv, AloneInv
<1>2. ~RefreshCompleted /\ ~SetShared
  BY <1>1 DEF RefreshCompleted, SetShared
<1>3. CASE UNCHANGED vars
  <2>1. UNCHANGED <<tasks, worker, sharings, queueItems, finishedFiles, pc, fileStatus, status,
                    refreshing>>
    BY <1>3 DEF vars, listVars, taskVars, actorVars, history
  <2>2. WayInv
    BY DEF Apart
  <2> QED BY <2>1, <2>2 DEF WayInv, OnTheWay, Ready, IsCompleted
<1>4. CASE TaskThread
  <2>1. /\ tasks # <<>> /\ 1 \in DOMAIN tasks /\ Head(tasks) = tasks[1]
        /\ Tail(tasks) \in Seq(Tasks)
        /\ \A i \in DOMAIN Tail(tasks) : i + 1 \in DOMAIN tasks /\ Tail(tasks)[i] = tasks[i + 1]
        /\ UNCHANGED <<queueItems, finishedFiles, pc, refreshing>>
    BY <1>1, <1>4, RunningTask, HeadFacts, TaskThreadFrame DEF WorkOK, listVars, actorVars
  <2>2. PICK f \in Files : tasks[1] = FileTask(f) /\ Head(tasks).file = f
    BY <1>1, <2>1, TaskFacts
  <2>3. Head(tasks).kind = "file" /\ pc[f] = "done" /\ f \in finishedFiles
    BY <1>1, <1>4, <2>1, <2>2, RunningFile DEF Apart, Left
  <2>4. \A i \in DOMAIN Tail(tasks) : Tail(tasks)[i].kind = "file"
    BY <1>1, <2>1
  <2>5. ~StartValidation /\ ~RunFilesHook /\ ~RunBundleHook /\ ~Complete /\ ~Share
    BY <1>1 DEF StartValidation, RunFilesHook, RunBundleHook, Complete, Share, Work
  <2>6. CASE Begin
    <3>1. /\ fileStatus' = [fileStatus EXCEPT ![f] = "validating"] /\ worker' = "fileHook"
          /\ UNCHANGED <<status, tasks, sharings>>
      BY <2>2, <2>3, <2>6 DEF Begin, history
    <3>2. ~Ready'
      BY <1>1, <2>1, <2>3, <3>1 DEF Ready, FilesOK
    <3> QED BY <1>1, <2>1, <3>1, <3>2 DEF WayInv, IsCompleted
  <2>7. CASE Check \/ ReadFailed \/ Reject \/ ReadLists
    <3>1. /\ UNCHANGED <<fileStatus, sharings>>
          /\ status' \in {status, "failed"}
          /\ worker' \in {"idle", "readFailed", "reject", "readLists"}
      BY <2>7 DEF Check, ReadFailed, Reject, ReadLists, Work, EndTask, history
    <3>2. ~FilesCompleted
      BY <1>1 DEF FilesCompleted, Ready, FileInv, FilesOK
    <3>3. tasks' \in {tasks, Tail(tasks)}
      BY <2>7, <3>2 DEF Check, ReadFailed, Reject, ReadLists, Work, EndTask
    <3>4. ~Ready'
      BY <2>1, <3>1 DEF Ready
    <3> QED BY <1>1, <2>1, <2>4, <3>1, <3>3, <3>4 DEF WayInv, IsCompleted
  <2>8. CASE RunFileHook
    <3>1. /\ UNCHANGED <<status, sharings>> /\ worker' = "check" /\ tasks' = tasks
          /\ fileStatus[f] = "validating"
      BY <2>2, <2>3, <2>8 DEF RunFileHook, history, Apart, AloneInv
    <3>2. \A g \in Files \ {f} : fileStatus'[g] = fileStatus[g]
      BY <1>4, <2>2, AloneWork
    <3>3. CASE ~Ready'
      BY <1>1, <2>1, <3>1, <3>3 DEF WayInv, IsCompleted
    <3>4. CASE Ready'
      <4>1. ASSUME NEW i \in DOMAIN tasks, i > 1 PROVE FALSE
        <5>1. PICK g \in Files : tasks[i] = FileTask(g) /\ tasks[i].file = g
          BY <1>1, TaskFacts
        <5>2. fileStatus[g] = "downloaded" /\ pc[g] = "done"
          BY <1>1, <4>1, <5>1 DEF Apart, AloneInv, Pending, Base, TaskInv
        <5>3. g \in finishedFiles /\ g # f
          BY <1>1, <3>1, <5>2 DEF Left
        <5>4. fileStatus'[g] = "downloaded"
          BY <3>2, <5>2, <5>3
        <5> QED BY <2>1, <3>4, <5>3, <5>4 DEF Ready
      <4>2. tasks = <<FileTask(f)>>
        <5>1. Len(tasks) \in Nat /\ DOMAIN tasks = 1 .. Len(tasks)
          BY <1>1, LenProperties DEF WorkOK
        <5>2. Len(tasks) = 1
          <6>1. ~(Len(tasks) > 1)
            BY <4>1, <5>1
          <6> QED BY <2>1, <5>1, <6>1
        <5>3. tasks \in Seq(Tasks) /\ <<FileTask(f)>> \in Seq(Tasks)
          BY <1>1, KindFacts DEF WorkOK
        <5> QED BY <2>2, <5>2, <5>3, SeqEqual
      <4> QED BY <1>1, <3>1, <3>4, <4>2 DEF WayInv, OnTheWay, IsCompleted
    <3> QED BY <3>3, <3>4
  <2> QED BY <1>4, <2>5, <2>6, <2>7, <2>8 DEF TaskThread
<1> QED BY <1>2, <1>3, <1>4, UnreadyConnection, AloneSteps DEF Apart
-----------------------------------------------------------------------------
(* The theorems.                                                            *)

\* A bundle is loaded or created with some files finished and some queued.
LEMMA InitInv == Init => IInv
<1> SUFFICES ASSUME Init PROVE IInv
  OBVIOUS
<1>1. PICK F \in SUBSET Files : finishedFiles \subseteq F /\ queueItems = F \ finishedFiles
  BY BundleLifecycleAssumption DEF Init
<1>2. finishedFiles \subseteq Files /\ queueItems \subseteq Files
  BY <1>1
<1>3. FilesOK
  BY <1>2 DEF Init, FilesOK, Statuses, FileStatuses, Points
<1>4. CountsOK
  <2>1. /\ Cardinality(queueItems) \in Nat /\ Cardinality(finishedFiles) \in Nat
        /\ Cardinality(Files) \in Nat
    BY <1>2, FiniteFiles
  <2>2. /\ Cardinality(queueItems) <= Cardinality(Files)
        /\ Cardinality(finishedFiles) <= Cardinality(Files)
    BY <1>2, BundleLifecycleAssumption, FS_Subset
  <2>3. Cardinality(Files) < Width /\ Width \in Nat
    BY <2>1, BundleLifecycleAssumption
  <2>4. queueSize = Cardinality(queueItems) /\ queuedCount = Cardinality(queueItems)
        /\ finishedCount = Cardinality(finishedFiles)
    BY DEF Init
  <2> QED BY <2>1, <2>2, <2>3, <2>4 DEF CountsOK
<1>5. /\ tasks = <<>> \/ (queueItems = {} /\ tasks = <<ShareTask(FALSE)>>)
      /\ ShareTask(FALSE) \in Tasks /\ ShareTask(FALSE).kind = "share" /\ CheckTask.kind = "check"
  BY KindFacts DEF Init
<1>6. WorkOK
  <2>1. <<>> \in Seq(Tasks)
    OBVIOUS
  <2>2. <<ShareTask(FALSE)>> \in Seq(Tasks)
    <3> DEFINE t == ShareTask(FALSE)
    <3>1. t \in Tasks
      BY <1>5
    <3> HIDE DEF t
    <3>2. <<t>> \in Seq(Tasks)
      BY <3>1
    <3> QED BY <3>2 DEF t
  <2>3. tasks \in Seq(Tasks)
    BY <1>5, <2>1, <2>2
  <2>4. worker = "idle"
    BY DEF Init
  <2> QED BY <2>3, <2>4 DEF WorkOK, Positions
<1>7. ActorsOK
  <2>1. /\ inQueue = TRUE /\ checkDue = FALSE /\ clearing = FALSE /\ refreshing = FALSE
        /\ didUser = {} /\ actions = 0 /\ sharings = 0
    BY DEF Init
  <2>2. 0 \in 0 .. MaxActions
    BY BundleLifecycleAssumption
  <2>3. {inQueue, checkDue, clearing, refreshing} \subseteq BOOLEAN
    BY <2>1
  <2>4. didUser \subseteq UserActions \cup {"race"}
    BY <2>1
  <2> QED BY <2>1, <2>2, <2>3, <2>4 DEF ActorsOK
<1>8. \A i \in DOMAIN tasks : tasks[i] = ShareTask(FALSE)
  <2>1. DOMAIN <<>> = {} /\ DOMAIN <<ShareTask(FALSE)>> = {1}
    OBVIOUS
  <2>2. CASE tasks = <<>>
    BY <2>1, <2>2
  <2>3. CASE tasks = <<ShareTask(FALSE)>>
    <3>1. <<ShareTask(FALSE)>>[1] = ShareTask(FALSE)
      OBVIOUS
    <3> QED BY <2>1, <2>3, <3>1
  <2> QED BY <1>5, <2>2, <2>3
<1>9. TaskInv
  BY <1>5, <1>8 DEF Init, TaskInv
<1>10. ASSUME NEW f \in Files PROVE FileInv(f) /\ Listed(f)
  BY <1>2 DEF Init, FileInv, Listed, Finishing, Left
<1>11. AloneInv
  <2>1. \A i \in DOMAIN tasks : tasks[i].kind # "file" /\ tasks[i] # CheckTask
    BY <1>5, <1>8
  <2> QED BY <2>1 DEF Init, AloneInv, Left
<1>12. WayInv
  <2>1. Ready <=> queueItems = {}
    BY <1>2 DEF Init, Ready
  <2>2. Ready => OnTheWay
    BY <2>1 DEF Init, OnTheWay
  <2>3. ~Ready => tasks = <<>>
    BY <2>1 DEF Init
  <2> QED BY <2>1, <2>2, <2>3 DEF Init, WayInv, IsCompleted
<1>13. Base /\ SizeInv
  BY <1>3, <1>4, <1>6, <1>7, <1>9, <1>10, TypeParts DEF Base, SizeInv, Init
<1> QED BY <1>11, <1>12, <1>13 DEF IInv

\* Every step keeps the invariant.
LEMMA StepInv == IInv /\ [Next]_vars => IInv'
<1> SUFFICES ASSUME IInv, [Next]_vars PROVE IInv'
  OBVIOUS
<1>1. Base' /\ SizeInv'
  BY TypeStep, TaskStep, FileStep, SizeStep DEF IInv, Base
<1>2. ASSUME Alone' PROVE AloneInv' /\ WayInv'
  <2>1. Apart
    BY <1>2, UserRemembers DEF IInv, Apart, Alone
  <2>2. Ready => WayInv'
    BY <1>2, <2>1, ReadyStep DEF WayInv
  <2>3. ~Ready => WayInv'
    BY <1>2, <2>1, UnreadyStep
  <2> QED BY <1>2, <2>1, <2>2, <2>3, AloneStep
<1> QED BY <1>1, <1>2 DEF IInv

\* Where files, tasks and the task thread are, whatever connections, hooks, the refresh
\* and the user do.
THEOREM BundleInvariant == Spec => []IInv
<1>1. Init => IInv
  BY InitInv
<1>2. IInv /\ [Next]_vars => IInv'
  BY StepInv
<1> QED BY <1>1, <1>2, PTL DEF Spec

\* Every variable keeps its type; in particular the task thread has a task whenever it is
\* not idle (QueueManager::tasks, a DispatcherQueue).
THEOREM TypeCorrect == Spec => []TypeOK
<1>1. IInv => TypeOK
  BY DEF IInv, Base
<1> QED BY <1>1, BundleInvariant, PTL

\* The queue's size is what is still to be downloaded, although files are taken from it
\* in two places (BundleQueue.cpp:393), unless one is removed while it finishes.
THEOREM SizeIsExact == Spec => []QueueSizeExact
<1>1. IInv => QueueSizeExact
  BY DEF IInv, SizeInv, NoRace, QueueSizeExact
<1> QED BY <1>1, BundleInvariant, PTL

\* A bundle is completed only when all of its files are, moved and accepted, whichever
\* connection finishes last and whichever task runs first (Bundle.h:57).
THEOREM CompletedWhenReady == Spec => []CompletedIsReady
<1>1. IInv => CompletedIsReady
  BY DEF IInv, WayInv, Alone, CompletedIsReady
<1> QED BY <1>1, BundleInvariant, PTL

\* The tasks of files that finish together share the bundle once (QueueManager.cpp:1567).
THEOREM SharedAtMostOnce == Spec => []SharedOnce
<1>1. IInv => SharedOnce
  <2> SUFFICES ASSUME IInv, didUser = {} PROVE sharings <= 1
    BY DEF SharedOnce
  <2>1. WayInv
    BY DEF IInv, Alone
  <2>2. CASE Ready
    <3>1. OnTheWay
      BY <2>1, <2>2 DEF WayInv
    <3>2. sharings <= 1 \/ sharings = 0
      BY <3>1 DEF OnTheWay
    <3> QED BY <3>2
  <2>3. CASE ~Ready
    <3>1. sharings = 0
      BY <2>1, <2>3 DEF WayInv
    <3> QED BY <3>1
  <2> QED BY <2>2, <2>3
<1> QED BY <1>1, BundleInvariant, PTL
-----------------------------------------------------------------------------
(* The verdict.                                                             *)

\* Who sets the status of a bundle that is left alone, and when: it is queued until the last
\* file has left the queue; the checks of its files begin after that and before it is
\* completed; it fails for a file that was rejected, or at the end.
VerdictInv ==
    /\ status = "queued" <=> queueItems # {} \/ \E f \in Files : pc[f] = "emptied"
    /\ \A f \in Files : pc[f] = "emptied" =>
         queueItems = {} /\ \A g \in Files \ {f} : pc[g] # "emptied"
    /\ worker \in {"check", "readFailed", "reject", "readLists"} => ~IsCompleted /\ ~refreshing
    /\ worker \notin {"idle", "fileHook", "check"} => status # "queued"
    /\ worker = "reject" => FailedItems # {}
    /\ worker \in {"complete", "share"} => IsCompleted
    /\ status = "failed" => FailedItems # {} \/ (Ready /\ tasks = <<>>)

LEMMA VerdictInit == Init => VerdictInv
<1> SUFFICES ASSUME Init PROVE VerdictInv
  OBVIOUS
<1>1. \A f \in Files : pc[f] \in {"downloading", "done"}
  BY DEF Init
<1> QED BY <1>1 DEF Init, VerdictInv, IsCompleted

\* The steps of the connections: the last one sets the status.
LEMMA VerdictConnection ==
    ASSUME Apart, VerdictInv, NEW f \in Files, FindFile(f) \/ Connection(f)
    PROVE  VerdictInv'
<1>1. /\ FilesOK /\ Listed(f) /\ FileInv(f) /\ ~Ready
  BY TypeParts, ReadyFacts DEF Apart, Base, SizeInv, NoRace, Alone
<1>2. UNCHANGED <<worker, refreshing>> /\ \A g \in Files \ {f} : pc'[g] = pc[g]
  BY <1>1 DEF FindFile, Connection, SetDownloaded, MoveToFinished, MarkDownloaded, Rename, Step,
              taskVars, actorVars, FilesOK
<1>3. CASE FindFile(f) \/ SetDownloaded(f)
  <2>1. /\ pc[f] # "emptied" /\ pc'[f] # "emptied" /\ UNCHANGED <<status, queueItems>>
        /\ FailedItems' = FailedItems
    <3>1. /\ pc[f] \in {"downloading", "found"} /\ pc'[f] \in {"found", "downloaded"}
          /\ UNCHANGED <<status, queueItems, finishedFiles>>
          /\ \A g \in Files \ {f} : fileStatus'[g] = fileStatus[g]
      BY <1>1, <1>3 DEF FindFile, SetDownloaded, Step, listVars, FilesOK
    <3>2. f \notin finishedFiles
      BY <1>1, <3>1 DEF FileInv, Left
    <3> QED BY <1>1, <3>1, <3>2 DEF FailedItems, FilesOK
  <2>2. \A g \in Files : pc'[g] = "emptied" <=> pc[g] = "emptied"
    BY <1>2, <2>1
  <2> QED BY <1>1, <1>2, <2>1, <2>2 DEF VerdictInv, IsCompleted
<1>4. CASE MoveToFinished(f)
  <2>1. /\ f \in queueItems /\ queueItems' = queueItems \ {f} /\ status' = status
        /\ pc'[f] = IF queueItems' = {} THEN "emptied" ELSE "renaming"
    BY <1>1, <1>4 DEF MoveToFinished, Step, AfterRemoval, Listed, Finishing, FilesOK
  <2>2. status = "queued" /\ \A g \in Files : pc[g] # "emptied"
    BY <2>1 DEF VerdictInv
  <2> QED BY <1>2, <2>1, <2>2 DEF VerdictInv, IsCompleted
<1>5. CASE MarkDownloaded(f)
  <2>1. /\ pc[f] = "emptied" /\ pc'[f] = "renaming" /\ status' = "downloaded"
        /\ UNCHANGED <<queueItems, finishedFiles>>
    BY <1>1, <1>5 DEF MarkDownloaded, Step, listVars, FilesOK
  <2>2. status = "queued" /\ queueItems = {} /\ \A g \in Files \ {f} : pc[g] # "emptied"
    BY <2>1 DEF VerdictInv
  <2> QED BY <1>2, <2>1, <2>2 DEF VerdictInv, IsCompleted
<1>6. CASE Rename(f)
  <2>1. /\ pc[f] = "renaming" /\ pc'[f] = "done"
        /\ UNCHANGED <<status, queueItems, finishedFiles, fileStatus>>
    BY <1>1, <1>6 DEF Rename, Step, listVars, FilesOK
  <2>2. FailedItems' = FailedItems /\ \A g \in Files : pc'[g] = "emptied" <=> pc[g] = "emptied"
    BY <1>2, <2>1 DEF FailedItems
  <2> QED BY <1>1, <1>2, <2>1, <2>2 DEF VerdictInv, IsCompleted
<1> QED BY <1>3, <1>4, <1>5, <1>6 DEF Connection

\* What the task that runs is, when the bundle is left alone.
LEMMA AloneTask ==
    ASSUME Apart, TaskThread
    PROVE  \/ /\ Ready /\ tasks = <<ShareTask(FALSE)>> /\ sharings = 0
              /\ worker \in {"idle", "validate", "bundleHook", "complete", "share"}
           \/ /\ Ready /\ (\E f \in Files : tasks = <<FileTask(f)>>)
              /\ worker \in {"check", "readFailed", "reject", "readLists"}
           \/ /\ ~Ready /\ Head(tasks).kind = "file"
              /\ Head(tasks).file \in finishedFiles /\ pc[Head(tasks).file] = "done"
              /\ worker \in {"idle", "fileHook", "check", "readFailed", "reject", "readLists"}
<1>1. tasks # <<>> /\ 1 \in DOMAIN tasks /\ Head(tasks) = tasks[1]
  BY RunningTask, TypeParts DEF Apart, Base
<1>2. ~Ready => Head(tasks).kind = "file"
  BY <1>1 DEF Apart, WayInv
<1>3. Head(tasks).kind = "file" =>
        Head(tasks).file \in finishedFiles /\ pc[Head(tasks).file] = "done"
  BY RunningFile DEF Apart, AloneInv, Left
<1> QED BY <1>1, <1>2, <1>3 DEF Apart, WayInv, OnTheWay

\* The file it is at has not been judged before.
LEMMA FileAtWork ==
    ASSUME Apart, TaskThread, Head(tasks).kind = "file"
    PROVE  /\ Begin => fileStatus[Head(tasks).file] = "downloaded"
           /\ RunFileHook => fileStatus[Head(tasks).file] = "validating"
  BY RunningTask, TypeParts DEF Apart, Base, AloneInv, Pending, Begin, RunFileHook

\* Files that are rejected stay so.
LEMMA FailedStay ==
    ASSUME Apart, TaskThread
    PROVE  FailedItems \subseteq FailedItems'
<1>1. FilesOK /\ finishedFiles' = finishedFiles
  BY TaskThreadFrame, TypeParts DEF Apart, Base, listVars
<1>2. CASE Head(tasks).kind = "file" /\ (Begin \/ RunFileHook)
  <2>1. fileStatus[Head(tasks).file] # "failed"
    BY <1>2, FileAtWork
  <2>2. \A f \in Files : f # Head(tasks).file => fileStatus'[f] = fileStatus[f]
    BY AloneWork
  <2> QED BY <1>1, <2>1, <2>2 DEF FailedItems, FilesOK
<1>3. CASE ~(Head(tasks).kind = "file" /\ (Begin \/ RunFileHook))
  <2>1. \A f \in Files : fileStatus'[f] = fileStatus[f]
    <3>1. Head(tasks).kind # "file" => \A f \in Files : fileStatus'[f] = fileStatus[f]
      BY AloneWork
    <3>2. ~RunFilesHook
      BY AloneTask DEF RunFilesHook
    <3> QED BY <1>3, <3>1, <3>2 DEF TaskThread, Check, ReadFailed, Reject, ReadLists,
                                   StartValidation, RunBundleHook, Complete, Share
  <2> QED BY <1>1, <2>1 DEF FailedItems, FilesOK
<1> QED BY <1>2, <1>3

\* The steps of the task thread.
LEMMA VerdictWork ==
    ASSUME Apart, VerdictInv, TaskThread, Alone'
    PROVE  VerdictInv'
<1>1. /\ UNCHANGED <<queueItems, finishedFiles, pc, refreshing>> /\ tasks # <<>>
      /\ FailedItems \subseteq FailedItems'
  BY TaskThreadFrame, RunningTask, TypeParts, FailedStay DEF Apart, Base, listVars, actorVars
<1>2. /\ Ready => status # "queued" /\ FailedItems = {}
      /\ status = "failed" => FailedItems # {}
  BY <1>1, ReadyFacts DEF VerdictInv, Ready, Apart, Base, AloneInv, Left
<1>3. ~Ready => ~IsCompleted /\ ~refreshing
  BY DEF Apart, WayInv
<1>4. CASE Begin
  <2>1. UNCHANGED <<status, tasks>> /\ worker = "idle"
    BY <1>4 DEF Begin
  <2>2. CASE Ready /\ tasks = <<ShareTask(FALSE)>>
    <3>1. worker' = "validate"
      BY <1>2, <1>4, <2>2, OneTask, KindFacts DEF Begin
    <3> QED BY <1>1, <1>2, <2>1, <2>2, <3>1 DEF VerdictInv, IsCompleted
  <2>3. CASE ~Ready /\ Head(tasks).kind = "file"
    <3>1. worker' = "fileHook"
      BY <1>4, <2>3 DEF Begin
    <3> QED BY <1>1, <1>2, <2>1, <3>1 DEF VerdictInv, IsCompleted
  <2> QED BY <2>1, <2>2, <2>3, AloneTask
<1>5. CASE RunFileHook
  <2>1. ~Ready
    BY <1>5, AloneTask DEF RunFileHook
  <2>2. status' = status /\ worker' \in {"idle", "check"}
    BY <1>5 DEF RunFileHook, EndTask
  <2> QED BY <1>1, <1>2, <1>3, <2>1, <2>2 DEF VerdictInv, IsCompleted
<1>6. CASE Check \/ ReadFailed \/ ReadLists
  <2>1. /\ UNCHANGED <<status, fileStatus>> /\ worker' \in {"idle", "readFailed", "readLists", "reject"}
        /\ worker' # "idle" => ~IsCompleted /\ ~refreshing /\ status # "queued"
        /\ worker' = "reject" => FailedItems # {}
    BY <1>6 DEF Check, ReadFailed, ReadLists, Work, EndTask, VerdictInv, IsDownloaded
  <2> QED BY <1>1, <1>2, <2>1 DEF VerdictInv, IsCompleted
<1>7. CASE Reject
  <2>1. status' = "failed" /\ worker' = "idle" /\ status # "queued" /\ FailedItems # {}
    BY <1>7 DEF Reject, EndTask, VerdictInv
  <2> QED BY <1>1, <2>1 DEF VerdictInv, IsCompleted
<1>8. CASE StartValidation
  <2>1. status' = "validating" /\ worker' \in {"filesHook", "bundleHook"} /\ status # "queued"
    BY <1>8 DEF StartValidation, VerdictInv
  <2> QED BY <1>1, <2>1 DEF VerdictInv, IsCompleted
<1>9. CASE RunBundleHook
  <2>1. /\ Ready /\ tasks = <<ShareTask(FALSE)>> /\ status # "queued"
        /\ fileStatus' = fileStatus
    BY <1>2, <1>9, AloneTask DEF RunBundleHook
  <2>2. Ready' /\ Tail(tasks) = <<>>
    BY <1>1, <2>1, OneTask DEF Ready
  <2>3. \/ status' = "completed" /\ worker' = "complete"
        \/ status' = "failed" /\ worker' = "idle" /\ tasks' = <<>>
    BY <1>9, <2>2 DEF RunBundleHook, EndTask
  <2> QED BY <1>1, <2>1, <2>2, <2>3 DEF VerdictInv, IsCompleted
<1>10. CASE Complete \/ Share
  <2>1. /\ IsCompleted' /\ worker' \in {"idle", "share"} /\ status # "queued"
    BY <1>10 DEF Complete, Share, Work, EndTask, VerdictInv, IsCompleted
  <2> QED BY <1>1, <2>1 DEF VerdictInv, IsCompleted
<1>11. ~RunFilesHook
  BY AloneTask DEF RunFilesHook
<1> QED BY <1>4, <1>5, <1>6, <1>7, <1>8, <1>9, <1>10, <1>11 DEF TaskThread

LEMMA VerdictStep ==
    ASSUME Apart, VerdictInv, [Next]_vars, Alone'
    PROVE  VerdictInv'
<1>1. CASE RefreshCompleted \/ SetShared
  <2>1. /\ UNCHANGED <<queueItems, finishedFiles, pc, fileStatus, worker, tasks>>
        /\ status' = status \/ status' = "shared"
        /\ IsCompleted \/ refreshing
    BY <1>1 DEF RefreshCompleted, SetShared, listVars, taskVars
  <2>2. Ready /\ FailedItems = {}
    BY <2>1, ReadyFacts DEF Apart, WayInv
  <2>3. \A f \in Files : pc[f] # "emptied"
    BY <2>2 DEF Ready, Apart, AloneInv, Left
  <2>4. /\ worker \notin {"check", "readFailed", "reject", "readLists"}
        /\ status # "queued" /\ status' # "queued" /\ queueItems = {}
    BY <2>1, <2>2, <2>3 DEF VerdictInv, Ready
  <2>5. status' = "failed" => tasks = <<>>
    BY <2>1, <2>2 DEF VerdictInv
  <2>6. Ready' /\ FailedItems' = FailedItems
    BY <2>1, <2>2 DEF Ready, FailedItems
  <2>7. IsCompleted => IsCompleted'
    BY <2>1 DEF IsCompleted
  <2> QED BY <2>1, <2>3, <2>4, <2>5, <2>6, <2>7 DEF VerdictInv
<1>2. CASE UNCHANGED vars
  BY <1>2 DEF vars, listVars, taskVars, actorVars, VerdictInv, FailedItems, Ready, IsCompleted
<1> QED BY <1>1, <1>2, VerdictConnection, VerdictWork, AloneSteps DEF Apart
-----------------------------------------------------------------------------
(* What becomes of the bundle.                                              *)

InBundle == queueItems \cup finishedFiles
Verdict(f) == fileStatus[f] \in {"failed", "completed"}

\* Only finished files have been judged; of a ready bundle all, and none is rejected.
LEMMA VerdictFacts ==
    ASSUME Apart
    PROVE  /\ Judged \subseteq finishedFiles /\ Rejected = FailedItems
           /\ Ready => Promise!Accepted
           /\ worker \in {"complete", "share"} => Ready
           /\ ~Ready => Phase = "waiting"
<1>1. \A f \in InBundle : FileInv(f) /\ (pc[f] \in Left => f \in finishedFiles)
  BY TypeParts DEF Apart, Base, AloneInv, FilesOK, InBundle
<1>2. \A f \in InBundle : Verdict(f) => f \in finishedFiles
  BY <1>1 DEF FileInv, Verdict, Left
<1>3. Judged \subseteq finishedFiles /\ Rejected = FailedItems
  BY <1>2 DEF Judged, Rejected, FailedItems, InBundle, Verdict
<1>4. Ready => Judged = InBundle /\ Rejected = {}
  BY DEF Ready, Judged, Rejected, InBundle
<1>5. worker \in {"complete", "share"} => Ready
  BY DEF Apart, WayInv
<1> QED BY <1>3, <1>4, <1>5 DEF Phase, Promise!Accepted, InBundle

\* Most steps change nothing of that.
LEMMA Unseen ==
    ASSUME UNCHANGED <<didUser, InBundle, Judged, Rejected, Phase, Shown, refreshing, sharings>>
    PROVE  UNCHANGED Promise!vars
  BY DEF Promise!vars, InBundle

\* The connections finish files, and set the status of a bundle that is open.
LEMMA ConnectionPromise ==
    ASSUME Apart, VerdictInv, Apart', NEW f \in Files, FindFile(f) \/ Connection(f)
    PROVE  UNCHANGED Promise!vars
<1>1. /\ FilesOK /\ Listed(f) /\ FileInv(f) /\ ~Ready
  BY TypeParts, ReadyFacts DEF Apart, Base, SizeInv, NoRace, Alone
<1>2. ~Ready'
  BY <1>1, UnreadyConnection
<1>3. Phase = "waiting" /\ Phase' = "waiting"
  BY <1>1, <1>2, VerdictFacts DEF Phase, Apart, WayInv
<1>4. UNCHANGED <<didUser, refreshing, sharings>> /\ InBundle' = InBundle
  <2>1. CASE MoveToFinished(f)
    BY <1>1, <2>1 DEF MoveToFinished, Step, Listed, Finishing, InBundle, actorVars, history
  <2>2. CASE FindFile(f) \/ SetDownloaded(f) \/ MarkDownloaded(f) \/ Rename(f)
    BY <2>2 DEF FindFile, SetDownloaded, MarkDownloaded, Rename, InBundle, listVars, actorVars,
                history
  <2> QED BY <2>1, <2>2 DEF Connection
<1>5. Shown' = Shown
  <2>1. CASE MarkDownloaded(f)
    <3>1. status' = "downloaded" /\ status = "queued"
      BY <2>1 DEF MarkDownloaded, Step, VerdictInv
    <3> QED BY <3>1 DEF Shown, IsCompleted
  <2>2. CASE ~MarkDownloaded(f)
    <3>1. status' = status
      BY <2>2 DEF Connection, FindFile, SetDownloaded, MoveToFinished, Rename
    <3> QED BY <3>1 DEF Shown, IsCompleted
  <2> QED BY <2>1, <2>2
<1>6. \A g \in Files : \/ fileStatus'[g] = fileStatus[g]
                       \/ ~Verdict(g) /\ ~Verdict(g)'
  <2>1. CASE SetDownloaded(f)
    <3>1. fileStatus[f] \in {"new", "queued"} /\ fileStatus' = [fileStatus EXCEPT ![f] = "downloaded"]
      BY <1>1, <2>1 DEF SetDownloaded, Step, FileInv
    <3> QED BY <1>1, <3>1 DEF Verdict, FilesOK
  <2>2. CASE ~SetDownloaded(f)
    BY <2>2 DEF Connection, FindFile, MoveToFinished, MarkDownloaded, Rename
  <2> QED BY <2>1, <2>2
<1>7. Judged' = Judged /\ Rejected' = Rejected
  <2>1. InBundle \subseteq Files
    BY <1>1 DEF FilesOK, InBundle
  <2> QED BY <1>4, <1>6, <2>1 DEF Judged, Rejected, InBundle, Verdict
<1> QED BY <1>3, <1>4, <1>5, <1>7, Unseen

\* What the task thread does to the verdicts, but for the hook of a file.
LEMMA WorkKeeps ==
    ASSUME Apart, TaskThread
    PROVE  /\ UNCHANGED <<didUser, refreshing, InBundle>>
           /\ ~RunFileHook => UNCHANGED <<Judged, Rejected>>
           /\ Ready => Ready'
<1>1. /\ FilesOK /\ UNCHANGED <<queueItems, finishedFiles, pc, refreshing, didUser>>
  BY TaskThreadFrame, TypeParts DEF Apart, Base, listVars, actorVars
<1>2. InBundle' = InBundle /\ InBundle \subseteq Files
  BY <1>1 DEF InBundle, FilesOK
<1>3. CASE Begin /\ Head(tasks).kind = "file"
  <2>1. ~Verdict(Head(tasks).file) /\ fileStatus' = [fileStatus EXCEPT ![Head(tasks).file] = "validating"]
    BY <1>3, FileAtWork DEF Begin, Verdict
  <2>2. \A f \in Files : fileStatus'[f] = fileStatus[f] \/ (~Verdict(f) /\ ~Verdict(f)')
    BY <1>1, <2>1 DEF Verdict, FilesOK
  <2>3. UNCHANGED <<Judged, Rejected>>
    BY <1>2, <2>2 DEF Judged, Rejected, InBundle, Verdict
  <2>4. ~Ready
    <3>1. Head(<<ShareTask(FALSE)>>).kind = "share"
      BY OneTask, KindFacts
    <3> QED BY <1>3, <3>1, AloneTask DEF Begin
  <2> QED BY <1>1, <1>2, <2>3, <2>4
<1>4. CASE RunFileHook
  BY <1>1, <1>2, <1>4, AloneTask DEF RunFileHook
<1>5. CASE ~(Begin /\ Head(tasks).kind = "file") /\ ~RunFileHook
  <2>1. fileStatus' = fileStatus
    <3>1. ~RunFilesHook
      BY AloneTask DEF RunFilesHook
    <3>2. Begin => fileStatus' = fileStatus
      BY <1>5, RunningTask, TypeParts DEF Begin, Apart, Base
    <3> QED BY <1>5, <3>1, <3>2 DEF TaskThread, Check, ReadFailed, Reject, ReadLists,
                                   StartValidation, RunBundleHook, Complete, Share
  <2> QED BY <1>1, <1>2, <2>1 DEF Judged, Rejected, InBundle, Ready
<1> QED BY <1>3, <1>4, <1>5

\* Only the hook of a file makes a bundle ready.
LEMMA UnreadyWork ==
    ASSUME Apart, TaskThread, ~RunFileHook, Ready'
    PROVE  Ready
<1>1. UNCHANGED <<queueItems, finishedFiles, pc>> /\ finishedFiles \subseteq Files
  BY TaskThreadFrame, TypeParts DEF listVars, Apart, Base, FilesOK
<1>2. UNCHANGED <<Judged, Rejected>>
  BY WorkKeeps
<1>3. \A f \in finishedFiles :
        fileStatus[f] = "completed" <=> f \in Judged /\ f \notin Rejected
  BY DEF Judged, Rejected
<1>4. \A f \in finishedFiles :
        fileStatus'[f] = "completed" <=> f \in Judged' /\ f \notin Rejected'
  BY <1>1 DEF Judged, Rejected
<1> QED BY <1>1, <1>2, <1>3, <1>4 DEF Ready

\* The checks, hooks and tasks: each file is judged once, then the bundle, which is shared.
LEMMA WorkPromise ==
    ASSUME Apart, VerdictInv, TaskThread, Apart'
    PROVE  [Promise!LeftAlone]_Promise!vars
<1>1. /\ FilesOK /\ UNCHANGED <<didUser, refreshing, InBundle>> /\ tasks # <<>>
      /\ ~RunFileHook => UNCHANGED <<Judged, Rejected>>
      /\ Ready => Ready'
      /\ didUser = {} /\ didUser' = {}
  BY WorkKeeps, RunningTask, TypeParts DEF Apart, Base, Alone
<1>2. /\ Rejected = FailedItems /\ (Ready => Promise!Accepted)
      /\ ~Ready => Phase = "waiting"
      /\ worker \in {"complete", "share"} => Ready
  BY VerdictFacts
<1>3. worker \notin {"complete", "share"} => Phase = "waiting"
  BY <1>1 DEF Phase
<1>4. ~Ready' => Phase' = "waiting"
  BY DEF Phase, Apart, WayInv
<1>5. Ready => status # "queued" /\ FailedItems = {}
  BY ReadyFacts DEF VerdictInv, Ready, Apart, AloneInv, Left
<1>6. status = "failed" => FailedItems # {}
  BY <1>1 DEF VerdictInv
<1>7. sharings' = sharings \/ Share
  BY TaskThreadFrame DEF TaskThread, Begin, RunFileHook, Check, ReadFailed, Reject, ReadLists,
     StartValidation, RunFilesHook, RunBundleHook, Complete, history
<1>8. CASE RunFileHook
  <2> DEFINE f == Head(tasks).file
  <2>1. /\ ~Ready /\ Head(tasks).kind = "file" /\ f \in finishedFiles
        /\ fileStatus[f] = "validating" /\ ~IsCompleted
    BY <1>8, AloneTask, FileAtWork DEF RunFileHook, Apart, WayInv
  <2>2. PICK result \in {"completed", "failed"} : fileStatus' = [fileStatus EXCEPT ![f] = result]
    BY <1>8 DEF RunFileHook
  <2>3. status' = status /\ UNCHANGED <<queueItems, finishedFiles, sharings>>
    BY <1>8 DEF RunFileHook, listVars, history
  <2>4. worker' = "check" /\ tasks' = tasks
    BY <1>8, <2>1 DEF RunFileHook
  <2>5. Phase = "waiting" /\ Phase' = "waiting"
    BY <1>1, <1>2, <2>1, <2>4 DEF Phase
  <2> HIDE DEF f
  <2>6. /\ f \in InBundle \ Judged /\ Judged' = Judged \cup {f}
        /\ Rejected' \in {Rejected, Rejected \cup {f}}
    <3>1. f \in InBundle /\ InBundle \subseteq Files
      BY <1>1, <2>1 DEF InBundle, FilesOK
    <3>2. \A g \in Files \ {f} : fileStatus'[g] = fileStatus[g]
      BY <2>2
    <3>3. fileStatus'[f] = result
      BY <1>1, <2>2, <3>1 DEF FilesOK
    <3>4. Judged' = Judged \cup {f} /\ f \notin Judged
      BY <2>1, <2>3, <3>1, <3>2, <3>3 DEF Judged, InBundle
    <3>5. Rejected' = IF result = "failed" THEN Rejected \cup {f} ELSE Rejected
      BY <2>1, <2>3, <3>1, <3>2, <3>3 DEF Rejected, InBundle
    <3> QED BY <3>1, <3>4, <3>5
  <2>7. Shown' = Shown /\ Shown # "completed"
    BY <2>1, <2>3 DEF Shown, IsCompleted
  <2>8. Promise!JudgeFile(f)
    BY <1>1, <2>3, <2>5, <2>6, <2>7 DEF Promise!JudgeFile, InBundle
  <2> QED BY <1>1, <2>6, <2>8 DEF Promise!LeftAlone, InBundle
<1>9. CASE Begin \/ Check \/ ReadFailed \/ ReadLists
  <2>1. status' = status /\ ~RunFileHook /\ worker \notin {"complete", "share"}
    BY <1>9 DEF Begin, Check, ReadFailed, ReadLists, Work, RunFileHook
  <2>2. UNCHANGED sharings
    BY <1>9 DEF Begin, Check, ReadFailed, ReadLists, history
  <2>3. Phase = "waiting" /\ Phase' = "waiting"
    <3>1. CASE ~Ready'
      BY <1>3, <1>4, <2>1, <3>1
    <3>2. CASE Ready'
      <4>1. Ready
        BY <1>1, <2>1, <3>2, UnreadyWork
      <4>2. tasks' # <<>> /\ worker' \notin {"complete", "share"}
        <5>1. CASE Begin
          <6>1. /\ Head(tasks) = ShareTask(FALSE) /\ ShareTask(FALSE).kind = "share"
                /\ ShareTask(FALSE).skip = FALSE
            <7>1. tasks = <<ShareTask(FALSE)>>
              BY <4>1, <5>1, AloneTask DEF Begin
            <7> QED BY <7>1, OneTask, KindFacts
          <6>2. tasks' = tasks /\ worker' = "validate"
            BY <1>5, <4>1, <5>1, <6>1 DEF Begin
          <6> QED BY <1>1, <6>2
        <5>2. CASE Check \/ ReadFailed
          BY <1>1, <1>5, <5>2, <4>1 DEF Check, ReadFailed, Work, EndTask, VerdictInv, IsDownloaded,
                                        IsCompleted, FilesOK, Statuses
        <5>3. CASE ReadLists
          <6>1. FilesCompleted /\ status # "shared" /\ worker' = "idle"
            BY <4>1, <5>3, ReadyFacts DEF ReadLists, VerdictInv, IsCompleted
          <6>2. tasks' = Append(Tail(tasks), ShareTask(FALSE))
            BY <5>3, <6>1 DEF ReadLists
          <6>3. Tail(tasks) = <<>>
            BY <4>1, <5>3, AloneTask, OneTask DEF ReadLists
          <6> QED BY <6>1, <6>2, <6>3, OneTask
        <5> QED BY <1>9, <5>1, <5>2, <5>3
      <4> QED BY <1>3, <2>1, <4>2 DEF Phase
    <3> QED BY <3>1, <3>2
  <2>4. Shown' = Shown
    BY <2>1 DEF Shown, IsCompleted
  <2> QED BY <1>1, <2>1, <2>2, <2>3, <2>4, Unseen
<1>10. CASE Reject
  <2>1. Rejected # {} /\ ~Ready /\ ~RunFileHook
    BY <1>2, <1>5, <1>10 DEF Reject, VerdictInv, RunFileHook
  <2>2. status' = "failed" /\ fileStatus' = fileStatus /\ UNCHANGED sharings
    BY <1>10 DEF Reject, history
  <2>3. ~Ready'
    BY <1>2, <2>1, FailedStay DEF Ready, FailedItems
  <2>4. Phase = "waiting" /\ Phase' = "waiting" /\ Shown' = "failed"
    BY <1>2, <1>4, <2>1, <2>2, <2>3 DEF Shown, IsCompleted
  <2>5. Promise!Fail
    BY <1>1, <2>1, <2>2, <2>4 DEF Promise!Fail, InBundle
  <2> QED BY <1>1, <2>5 DEF Promise!LeftAlone
<1>11. CASE StartValidation
  <2>1. /\ Ready /\ worker \in {"validate"} /\ worker' = "bundleHook" /\ status' = "validating"
        /\ UNCHANGED <<tasks, sharings>> /\ ~RunFileHook
    BY <1>11, AloneTask DEF StartValidation, RunFileHook, history
  <2>2. Phase = "waiting" /\ Phase' = "waiting" /\ Shown' = "open"
    BY <1>1, <2>1 DEF Phase, Shown, IsCompleted
  <2>3. Shown \in {"open", "completed"}
    BY <1>5, <1>6, <2>1 DEF Shown
  <2>4. CASE Shown = "open"
    BY <1>1, <2>1, <2>2, <2>4, Unseen
  <2>5. CASE Shown = "completed"
    <3>1. Promise!Reopen
      BY <1>1, <1>2, <2>1, <2>2, <2>5 DEF Promise!Reopen, InBundle
    <3> QED BY <1>1, <3>1 DEF Promise!LeftAlone
  <2> QED BY <2>3, <2>4, <2>5
<1>12. CASE RunBundleHook
  <2>1. /\ Ready /\ tasks = <<ShareTask(FALSE)>> /\ worker = "bundleHook"
        /\ UNCHANGED sharings /\ ~RunFileHook
    BY <1>12, AloneTask DEF RunBundleHook, RunFileHook, history
  <2>2. \/ status' = "completed" /\ worker' = "complete"
        \/ status' = "failed" /\ worker' = "idle" /\ tasks' = <<>>
    BY <1>12, <2>1, OneTask DEF RunBundleHook, EndTask
  <2>3. Phase = "waiting"
    BY <1>3, <2>1
  <2>4. \/ Phase' = "sharing" /\ Shown' = "completed"
        \/ Phase' = "over" /\ Shown' = "failed"
    BY <1>1, <2>1, <2>2 DEF Phase, Shown, IsCompleted
  <2>5. Promise!JudgeBundle
    BY <1>1, <1>2, <2>1, <2>3, <2>4 DEF Promise!JudgeBundle, InBundle
  <2> QED BY <1>1, <2>5 DEF Promise!LeftAlone
<1>13. CASE Complete
  <2>1. /\ worker = "complete" /\ worker' = "share" /\ status' = "completed" /\ IsCompleted
        /\ UNCHANGED sharings /\ ~RunFileHook
    BY <1>13 DEF Complete, Work, RunFileHook, VerdictInv, history
  <2>2. Phase' = Phase /\ Shown' = Shown
    BY <2>1 DEF Phase, Shown, IsCompleted
  <2> QED BY <1>1, <2>1, <2>2, Unseen
<1>14. CASE Share
  <2>1. /\ Ready /\ tasks = <<ShareTask(FALSE)>> /\ worker = "share" /\ IsCompleted
        /\ UNCHANGED status /\ ~RunFileHook /\ sharings' \in {sharings, sharings + 1}
    BY <1>14, AloneTask DEF Share, RunFileHook, VerdictInv
  <2>2. worker' = "idle" /\ tasks' = <<>>
    BY <1>14, <2>1, OneTask DEF Share, EndTask
  <2>3. Phase = "sharing" /\ Phase' = "over" /\ Shown = "completed" /\ Shown' = Shown
    BY <1>1, <2>1, <2>2 DEF Phase, Shown, IsCompleted
  <2>4. Promise!Share
    BY <1>1, <2>1, <2>3 DEF Promise!Share, InBundle
  <2> QED BY <1>1, <2>4 DEF Promise!LeftAlone
<1>15. ~RunFilesHook
  BY AloneTask DEF RunFilesHook
<1> QED BY <1>8, <1>9, <1>10, <1>11, <1>12, <1>13, <1>14, <1>15 DEF TaskThread

\* The refresh finds the bundle completed, and says so.
LEMMA RefreshPromise ==
    ASSUME Apart, RefreshCompleted \/ SetShared
    PROVE  Promise!LeftAlone
<1>1. /\ UNCHANGED <<queueItems, finishedFiles, pc, fileStatus, tasks, worker, sharings, didUser>>
      /\ didUser = {} /\ (IsCompleted \/ refreshing)
  BY DEF RefreshCompleted, SetShared, listVars, taskVars, history, Apart, Alone
<1>2. UNCHANGED <<InBundle, Judged, Rejected, Phase>>
  BY <1>1 DEF InBundle, Judged, Rejected, Phase, Ready
<1>3. CASE RefreshCompleted
  <2>1. Shown = "completed" /\ Shown' = Shown /\ ~refreshing /\ refreshing' = TRUE
    BY <1>3 DEF RefreshCompleted, Shown, IsCompleted
  <2>2. Promise!See
    BY <1>1, <1>2, <2>1 DEF Promise!See, InBundle
  <2> QED BY <1>1, <2>2 DEF Promise!LeftAlone
<1>4. CASE SetShared
  <2>1. Shown' = "completed" /\ refreshing /\ refreshing' = FALSE
    BY <1>4 DEF SetShared, Shown, IsCompleted
  <2>2. Promise!Accepted
    BY <1>1, VerdictFacts DEF Apart, WayInv
  <2>3. Promise!Mark
    BY <1>1, <1>2, <2>1, <2>2 DEF Promise!Mark, InBundle
  <2> QED BY <1>1, <2>3 DEF Promise!LeftAlone
<1> QED BY <1>3, <1>4

\* However the tasks of its files, the refresh and the connections follow each other, the
\* files of a bundle the user leaves alone are judged once each, then the bundle is, and it
\* is shared once, if it is accepted (Bundle.h:57, QueueManager.cpp:1522, 1549).
THEOREM ImplementsJudgedBundle == Spec => PromiseSpec
<1>1. Init => Promise!Init
  <2> SUFFICES ASSUME Init PROVE Promise!Init
    OBVIOUS
  <2>1. /\ finishedFiles \subseteq Files /\ queueItems \subseteq Files
        /\ queueItems \cap finishedFiles = {}
    BY BundleLifecycleAssumption DEF Init
  <2>2. Judged = finishedFiles /\ Rejected = {}
    BY <2>1 DEF Init, Judged, Rejected
  <2>3. Ready <=> queueItems = {}
    BY <2>1 DEF Init, Ready
  <2>4. Phase = "waiting"
    BY <2>3, OneTask DEF Init, Phase
  <2>5. Shown = IF Judged = InBundle THEN "completed" ELSE "open"
    BY <2>1, <2>2 DEF Init, Shown, IsCompleted, InBundle
  <2>6. didUser = {} /\ refreshing = FALSE /\ sharings = 0
    BY DEF Init
  <2> QED BY <2>1, <2>2, <2>4, <2>5, <2>6 DEF Promise!Init, InBundle
<1>2. Init => (Alone => VerdictInv)
  BY VerdictInit
<1>3. /\ IInv /\ (Alone => VerdictInv) /\ IInv' /\ [Next]_vars => (Alone => VerdictInv)'
  BY VerdictStep, UserRemembers DEF IInv, Apart, Alone
<1>4. IInv /\ (Alone => VerdictInv) /\ IInv' /\ [Next]_vars => [Promise!Next]_Promise!vars
  <2> SUFFICES ASSUME IInv, Alone => VerdictInv, IInv', [Next]_vars
               PROVE  [Promise!Next]_Promise!vars
    OBVIOUS
  <2>1. CASE ~Alone'
    BY <2>1 DEF Alone, Promise!Next, Promise!Touch
  <2>2. CASE Alone'
    <3>1. Apart /\ VerdictInv /\ Apart'
      BY <2>2, UserRemembers DEF IInv, Apart, Alone
    <3>2. CASE UNCHANGED vars
      BY <3>2 DEF vars, listVars, taskVars, actorVars, history, Promise!vars, Judged, Rejected,
                  Phase, Shown, Ready, IsCompleted
    <3>3. \/ [Promise!LeftAlone]_Promise!vars \/ UNCHANGED vars
      BY <2>2, <3>1, ConnectionPromise, WorkPromise, RefreshPromise, AloneSteps DEF Apart
    <3> QED BY <3>2, <3>3 DEF Promise!Next
  <2> QED BY <2>1, <2>2
<1> QED
  BY <1>1, <1>2, <1>3, <1>4, InitInv, StepInv, PTL DEF Spec, PromiseSpec, Promise!Spec
-----------------------------------------------------------------------------
(* A rejection.                                                             *)

\* No step but that of a refresh which has begun makes a rejected bundle another one.
LEMMA RejectedStep ==
    ASSUME Apart, VerdictInv, [Next]_vars, Alone', status = "failed", ~refreshing
    PROVE  status' = "failed"
<1>1. CASE UNCHANGED vars
  BY <1>1 DEF vars
<1>2. ASSUME NEW f \in Files, FindFile(f) \/ Connection(f)
      PROVE  status' = "failed"
  BY <1>2 DEF FindFile, Connection, SetDownloaded, MoveToFinished, MarkDownloaded, Rename, Step,
              VerdictInv
<1>3. CASE TaskThread
  <2>1. tasks # <<>>
    BY <1>3, RunningTask, TypeParts DEF Apart, Base
  <2>2. ~Ready /\ ~IsCompleted
    BY <2>1, ReadyFacts DEF Apart, VerdictInv, IsCompleted
  <2>3. CASE Begin \/ RunFileHook \/ Check \/ ReadFailed \/ ReadLists
    BY <2>3 DEF Begin, RunFileHook, Check, ReadFailed, ReadLists
  <2>4. CASE Reject
    BY <2>4 DEF Reject
  <2>5. ~StartValidation /\ ~RunBundleHook /\ ~RunFilesHook
    BY <1>3, <2>2, AloneTask DEF StartValidation, RunBundleHook, RunFilesHook
  <2>6. ~Complete /\ ~Share
    BY <2>2 DEF Complete, Share, Work, VerdictInv
  <2> QED BY <1>3, <2>3, <2>4, <2>5, <2>6 DEF TaskThread
<1>4. ~RefreshCompleted /\ ~SetShared
  BY DEF RefreshCompleted, SetShared, IsCompleted
<1> QED BY <1>1, <1>2, <1>3, <1>4, AloneSteps DEF Apart

\* No task that is still to run, and no refresh that begins after it, makes a bundle that was
\* rejected a completed or a shared one (Bundle.h:57).
THEOREM RejectedStays == Spec => RejectionStays
<1>1. Init => (Alone => VerdictInv)
  BY VerdictInit
<1>2. IInv /\ (Alone => VerdictInv) /\ IInv' /\ [Next]_vars => (Alone => VerdictInv)'
  BY VerdictStep, UserRemembers DEF IInv, Apart, Alone
<1>3. IInv /\ (Alone => VerdictInv) /\ [Next]_vars
        => [didUser' = {} /\ status = "failed" /\ ~refreshing => status' = "failed"]_vars
  BY RejectedStep, UserRemembers DEF IInv, Apart, Alone
<1> QED BY <1>1, <1>2, <1>3, InitInv, StepInv, PTL DEF Spec, RejectionStays

\* A bundle that had something to download when it was loaded or created is not completed
\* before it is judged.
FreshInv == IsCompleted \/ refreshing => IsCompleted /\ (worker \in {"complete", "share"} \/ tasks = <<>>)

LEMMA FreshStep ==
    ASSUME Apart, VerdictInv, FreshInv, [Next]_vars, Alone'
    PROVE  FreshInv'
<1>1. CASE UNCHANGED vars
  BY <1>1 DEF vars, taskVars, actorVars, FreshInv, IsCompleted
<1>2. ASSUME NEW f \in Files, FindFile(f) \/ Connection(f)
      PROVE  FreshInv'
  <2>1. ~IsCompleted /\ ~refreshing
    BY <1>2, ReadyFacts DEF Apart, WayInv
  <2>2. UNCHANGED refreshing /\ (status' = status \/ (status = "queued" /\ status' = "downloaded"))
    BY <1>2 DEF FindFile, Connection, SetDownloaded, MoveToFinished, MarkDownloaded, Rename, Step,
                actorVars, VerdictInv
  <2> QED BY <2>1, <2>2 DEF FreshInv, IsCompleted
<1>3. CASE TaskThread
  <2>1. tasks # <<>> /\ UNCHANGED refreshing
    BY <1>3, RunningTask, TaskThreadFrame, TypeParts DEF Apart, Base, actorVars
  <2>2. worker \notin {"complete", "share"} => ~IsCompleted /\ ~refreshing
    BY <2>1 DEF FreshInv
  <2>3. CASE Begin \/ RunFileHook \/ Check \/ ReadFailed \/ ReadLists
    <3>1. status' = status /\ worker \notin {"complete", "share"}
      BY <2>3 DEF Begin, RunFileHook, Check, ReadFailed, ReadLists, Work
    <3> QED BY <2>1, <2>2, <3>1 DEF FreshInv, IsCompleted
  <2>4. CASE Reject
    <3>1. status' = "failed" /\ worker \notin {"complete", "share"}
      BY <2>4 DEF Reject
    <3> QED BY <2>1, <2>2, <3>1 DEF FreshInv, IsCompleted
  <2>5. CASE StartValidation \/ RunBundleHook
    <3>1. Ready /\ worker \notin {"complete", "share"} /\ tasks = <<ShareTask(FALSE)>>
      BY <1>3, <2>5, AloneTask DEF StartValidation, RunBundleHook
    <3>2. \/ status' \in {"validating", "failed"}
          \/ status' = "completed" /\ worker' = "complete"
      BY <2>5 DEF StartValidation, RunBundleHook
    <3> QED BY <2>1, <2>2, <3>1, <3>2 DEF FreshInv, IsCompleted
  <2>6. CASE Complete
    <3>1. status' = "completed" /\ worker' = "share"
      BY <2>6 DEF Complete, Work
    <3> QED BY <3>1 DEF FreshInv, IsCompleted
  <2>7. CASE Share
    <3>1. IsCompleted /\ status' = status
      BY <2>7 DEF Share, VerdictInv
    <3>2. tasks = <<ShareTask(FALSE)>>
      BY <1>3, <2>7, AloneTask DEF Share
    <3>3. tasks' = <<>>
      BY <2>7, <3>2, OneTask DEF Share, EndTask
    <3> QED BY <3>1, <3>3 DEF FreshInv, IsCompleted
  <2>8. ~RunFilesHook
    BY <1>3, AloneTask DEF RunFilesHook
  <2> QED BY <1>3, <2>3, <2>4, <2>5, <2>6, <2>7, <2>8 DEF TaskThread
<1>4. CASE RefreshCompleted \/ SetShared
  <2>1. /\ IsCompleted /\ (status' = status \/ status' = "shared")
        /\ UNCHANGED <<worker, tasks>>
    BY <1>4 DEF RefreshCompleted, SetShared, FreshInv, taskVars
  <2> QED BY <2>1 DEF FreshInv, IsCompleted
<1> QED BY <1>1, <1>2, <1>3, <1>4, AloneSteps DEF Apart

\* A bundle that had something to download when it was loaded or created, and that the hooks
\* have rejected, stays so until the user does something, whatever tasks and refreshes follow,
\* those that have begun before as well; without that condition this is false.
THEOREM RejectionIsFinal == Spec /\ queueItems # {} => RejectionIsKept
<1>1. Init /\ queueItems # {} => (Alone => VerdictInv /\ FreshInv)
  BY VerdictInit DEF Init, FreshInv, IsCompleted
<1>2. IInv /\ (Alone => VerdictInv /\ FreshInv) /\ [Next]_vars => (Alone => VerdictInv /\ FreshInv)'
  BY VerdictStep, FreshStep, UserRemembers DEF IInv, Apart, Alone
<1>3. IInv /\ (Alone => VerdictInv /\ FreshInv) /\ [Next]_vars
        => [didUser' = {} /\ status = "failed" => status' = "failed"]_vars
  BY RejectedStep, UserRemembers DEF IInv, Apart, Alone, FreshInv, IsCompleted
<1> QED BY <1>1, <1>2, <1>3, InitInv, StepInv, PTL DEF Spec, RejectionIsKept
=============================================================================
