---------------------------- MODULE ShareRefresh ----------------------------
(* The shared directories: refresh tasks (ShareTasks), the tree they rebuild *)
(* (ShareManager, ShareTree), and the hashers that add files to it.          *)
(*                                                                           *)
(* Threads: the hashers; one that runs the refresh tasks; a user who asks    *)
(* for refreshes, removes and adds the shared directory, and pauses, stops   *)
(* or shuts down hashing. The tree is guarded by a lock of its own that is   *)
(* not held between finding a directory, reading the disk and replacing it.  *)
(* One root with one directory in it; an object of the tree is a number, so  *)
(* that one that was replaced differs from its successor.                    *)
EXTENDS Hashing

CONSTANTS
    SubFiles,  \* files of the directory, the others are the root's
    Setups,    \* what is there, and what the user does
    Mishaps    \* what may happen besides

Dirs == {"root", "sub"}
Ops == {"refresh", "abort", "remove", "add", "pause", "resume", "stop", "shutdown", "fail"}

ASSUME ShareRefreshAssumption ==
    /\ SubFiles \subseteq Files
    /\ Setups \subseteq [disk : SUBSET Files, stored : SUBSET Files, ops : SUBSET Ops, budget : Nat]

VARIABLES
    setup,         \* one of Setups
    used,          \* operations of the user
    user,          \* what the user's call does next, or "ready"
    asked,         \* directories a refresh has been asked for
    tree,          \* the root and its directory (0 if there is none), their files
    dirNames,      \* lowerDirNameMap: objects
    sharedSize,    \* in files
    tasks,         \* ShareTasks::tasks
    tasksRunning,
    run,           \* the thread that runs them
    overtaken      \* files a refresh has lost

treeVars == <<tree, dirNames, sharedSize>>
taskVars == <<tasks, tasksRunning>>
userVars == <<setup, used, user, asked>>
vars == <<hashVars, userVars, treeVars, taskVars, run, overtaken>>

NoTree == [root |-> 0, sub |-> 0, files |-> {}]
\* left: files to look at; got: files of the new tree; held: of the old one when it
\* was removed; late and noted: for the properties.
NotRunning == [at |-> "idle", old |-> 0, left |-> {}, got |-> {}, held |-> {}, file |-> "none",
               pauser |-> FALSE, late |-> {}, noted |-> {}]

FilesOf(dir) == IF dir = "root" THEN Files ELSE SubFiles

Init ==
    /\ setup \in Setups /\ used = 0 /\ user = "ready" /\ asked = {}
    /\ HashInit(setup.stored)
    /\ tree = [NoTree EXCEPT !.root = 1] /\ dirNames = {1} /\ sharedSize = 0
    /\ tasks = <<>> /\ tasksRunning = FALSE /\ run = NotRunning
    /\ overtaken = {}

\* The user has the time and the mind to.
Uses(op) ==
    /\ op \in setup.ops /\ used < setup.budget /\ used' = used + 1
    /\ user = "ready"
Misfortune(kind) == kind \in Mishaps

-----------------------------------------------------------------------------
(* The tree *)

Objects == {tree.root, tree.sub} \ {0}
InUse == Objects \cup dirNames \cup {run.old}
New(others) == CHOOSE k \in 1 .. 8 : k \notin InUse \cup others

\* addHashedFile: the directories of the file are created when they are missing.
AddHashedFile(f) ==
    IF tree.root = 0 THEN UNCHANGED treeVars
    ELSE LET sub == IF f \in SubFiles /\ tree.sub = 0 THEN New({}) ELSE tree.sub IN
         /\ tree' = [tree EXCEPT !.sub = sub, !.files = @ \cup {f}]
         /\ dirNames' = dirNames \cup ({sub} \ {0})
         /\ sharedSize' = Cardinality(tree.files \cup {f}) - Cardinality(tree.files) + sharedSize

\* (Mutant: a root that has been removed is refreshed nevertheless.)
AlwaysThere == TRUE
\* "Root removed while refreshing?"
StillThere == tree.root # 0

\* applyRefreshChanges for the root: the old one, as it is now or was when it got
\* removed, is taken out of the indices, and the new one replaces what is there.
ApplyRoot ==
    IF run.old = 0 \/ ~StillThere THEN UNCHANGED treeVars
    ELSE LET root == New({})
             sub == IF run.got \cap SubFiles = {} THEN 0 ELSE New({root})
         IN
         /\ tree' = [root |-> root, sub |-> sub, files |-> run.got]
         /\ dirNames' = ((IF tree.root = run.old THEN dirNames \ Objects ELSE dirNames)
                            \cup {root, sub}) \ {0}
         /\ sharedSize' = sharedSize + Cardinality(run.got)
                - Cardinality(IF tree.root = run.old THEN tree.files ELSE run.held)

\* ... for the directory: the old one is taken out, the new one put in its place,
\* unless nothing is left in it, or another one is there.
ApplySub ==
    LET kept == IF run.old = 0 THEN tree.files ELSE tree.files \ SubFiles
        put == run.got # {} /\ tree.root # 0 /\ (run.old = 0 => tree.sub = 0)
        sub == IF put THEN New({}) ELSE IF run.old = 0 THEN tree.sub ELSE 0
    IN /\ tree' = [tree EXCEPT !.sub = sub, !.files = IF put THEN kept \cup run.got ELSE kept]
       /\ dirNames' = ((IF run.old = 0 THEN dirNames ELSE dirNames \ {run.old}) \cup {sub}) \ {0}
       /\ sharedSize' = sharedSize + Cardinality(tree'.files) - Cardinality(tree.files)

-----------------------------------------------------------------------------
(* Refresh tasks *)

Task == Head(tasks)
RunGoes(at) == run' = [run EXCEPT !.at = at]

\* addRefreshTask: a directory that waits for its refresh, or is being refreshed, is
\* not added again.
AddTask(dir) ==
    IF \E i \in DOMAIN tasks : tasks[i].dir = dir /\ ~tasks[i].canceled
    THEN user' = "ready" /\ UNCHANGED tasks
    ELSE user' = "test" /\ tasks' = Append(tasks, [dir |-> dir, canceled |-> FALSE])

Refresh(dir) ==
    /\ Uses("refresh") /\ tree.root # 0
    /\ AddTask(dir) /\ asked' = asked \cup {dir}
    /\ UNCHANGED <<setup, hashVars, treeVars, tasksRunning, run, overtaken>>

TestAndSet ==
    /\ user = "test"
    /\ tasksRunning' = TRUE
    /\ user' = IF tasksRunning THEN "ready" ELSE "start"
    /\ UNCHANGED <<setup, used, asked, hashVars, treeVars, tasks, run, overtaken>>

\* start: the thread of the last run has to end first.
StartRun ==
    /\ user = "start" /\ run.at = "idle"
    /\ RunGoes("front") /\ user' = "ready"
    /\ UNCHANGED <<setup, used, asked, hashVars, treeVars, taskVars, overtaken>>

\* runTasks: hashing is paused as long as there are tasks.
NextTask ==
    /\ run.at = "front"
    /\ IF tasks = <<>> THEN RunGoes("end") /\ UNCHANGED pausers
       ELSE IF run.pauser THEN RunGoes("find") /\ UNCHANGED pausers
       ELSE /\ pausers' = pausers + 1
            /\ run' = [run EXCEPT !.pauser = TRUE,
                                  !.at = IF pausers' = 1 THEN "pauseall" ELSE "find"]
    /\ UNCHANGED <<hashers, hasher, store, down, userVars, treeVars, taskVars, overtaken>>

PauseHashing ==
    /\ run.at = "pauseall" /\ PauseAll /\ RunGoes("find")
    /\ UNCHANGED <<hashers, pausers, store, down, userVars, treeVars, taskVars, overtaken>>

\* handleRefreshPath: the directory that will be replaced.
Find ==
    /\ run.at = "find"
    /\ run' = IF Task.canceled THEN [run EXCEPT !.at = "pop"]
              ELSE [run EXCEPT !.at = "scan", !.left = setup.disk \cap FilesOf(Task.dir), !.got = {},
                               !.old = IF Task.dir = "root" THEN tree.root ELSE tree.sub]
    /\ UNCHANGED <<hashVars, userVars, treeVars, taskVars, overtaken>>

\* buildTree: a file is added if its hash is known (checkTTH), else it is hashed,
\* unless hashing has been shut down.
Scan ==
    /\ run.at = "scan" /\ run.left # {} /\ ~Task.canceled
    /\ \E f \in run.left :
         run' = CASE f \in store -> [run EXCEPT !.left = @ \ {f}, !.got = @ \cup {f}]
                  [] f \notin store /\ down -> [run EXCEPT !.left = @ \ {f}]
                  [] OTHER -> [run EXCEPT !.left = @ \ {f}, !.at = "queue", !.file = f]
    /\ UNCHANGED <<hashVars, userVars, treeVars, taskVars, overtaken>>

QueueFile ==
    /\ run.at = "queue"
    /\ HashFile(run.file)
    /\ run' = [run EXCEPT !.at = "scan", !.file = "none",
                          !.noted = @ \cup {f \in {run.file} : \E t \in Threads : f \in hasher'[t].work}]
    /\ UNCHANGED <<pausers, store, down, userVars, treeVars, taskVars, overtaken>>

\* The new tree replaces the old one, unless the task has been canceled.
Lost == {f \in tree.files \cap FilesOf(Task.dir) \cap run.noted : f \notin tree'.files}
            \cup (run.got \ tree'.files)
Apply ==
    /\ run.at = "scan" /\ (run.left = {} \/ Task.canceled)
    /\ IF Task.canceled THEN UNCHANGED <<treeVars, overtaken>>
       ELSE /\ IF Task.dir = "root" THEN ApplyRoot ELSE ApplySub
            /\ overtaken' = (overtaken \cup Lost) \ tree'.files
    /\ RunGoes("pop")
    /\ UNCHANGED <<hashVars, userVars, taskVars>>

PopTask ==
    /\ run.at = "pop"
    /\ tasks' = Tail(tasks)
    /\ run' = [NotRunning EXCEPT !.at = "front", !.pauser = run.pauser]
    /\ UNCHANGED <<hashVars, userVars, treeVars, tasksRunning, overtaken>>

\* The flag is cleared first, then hashing goes on.
EndRun ==
    /\ run.at = "end"
    /\ tasksRunning' = FALSE
    /\ IF run.pauser THEN RunGoes("resume") ELSE RunGoes("idle")
    /\ UNCHANGED <<hashVars, userVars, treeVars, tasks, overtaken>>

EndPause ==
    /\ run.at = "resume"
    /\ pausers' = OneResumes
    /\ IF pausers' = 0 THEN RunGoes("resumeall") ELSE run' = NotRunning
    /\ UNCHANGED <<hashers, hasher, store, down, userVars, treeVars, taskVars, overtaken>>

ResumeHashing ==
    /\ run.at = "resumeall" /\ ResumeAll /\ run' = NotRunning
    /\ UNCHANGED <<hashers, pausers, store, down, userVars, treeVars, taskVars, overtaken>>

Runs ==
    \/ NextTask \/ PauseHashing \/ Find \/ Scan \/ QueueFile \/ Apply \/ PopTask
    \/ EndRun \/ EndPause \/ ResumeHashing

-----------------------------------------------------------------------------
(* The user *)

AbortRefresh == tasks' = [i \in DOMAIN tasks |-> [tasks[i] EXCEPT !.canceled = TRUE]]

Abort ==
    /\ Uses("abort") /\ AbortRefresh
    /\ UNCHANGED <<setup, user, asked, hashVars, treeVars, tasksRunning, run, overtaken>>

\* removeRootDirectory; then its files are not hashed any more. (Not while the
\* directory in it is being replaced: the parent of the old one is gone then.)
RemoveRoot ==
    /\ Uses("remove") /\ tree.root # 0
    /\ run.at \in {"scan", "queue"} => Task.dir = "root" \/ run.old = 0
    /\ run' = IF run.old = tree.root THEN [run EXCEPT !.held = tree.files] ELSE run
    /\ tree' = NoTree /\ dirNames' = dirNames \ Objects
    /\ sharedSize' = sharedSize - Cardinality(tree.files)
    /\ user' = "stophash"
    /\ UNCHANGED <<setup, asked, hashVars, taskVars, overtaken>>

StopHashingRoot ==
    /\ user = "stophash" /\ user' = "ready"
    /\ StopHashing(Files)
    /\ UNCHANGED <<setup, used, asked, hashers, pausers, store, down, treeVars, taskVars, run, overtaken>>

\* addRootDirectory; then a refresh is asked for.
AddRoot ==
    /\ Uses("add") /\ tree.root = 0
    /\ run.old # 0 => Misfortune("readd")
    /\ tree' = [NoTree EXCEPT !.root = New({})] /\ dirNames' = dirNames \cup {New({})}
    /\ user' = "add"
    /\ UNCHANGED <<setup, asked, hashVars, taskVars, sharedSize, run, overtaken>>
RefreshRoot ==
    /\ user = "add" /\ AddTask("root")
    /\ UNCHANGED <<setup, used, asked, hashVars, treeVars, tasksRunning, run, overtaken>>

Pause ==
    /\ Uses("pause")
    /\ pausers' = pausers + 1
    /\ user' = IF pausers' = 1 THEN "pauseall" ELSE "ready"
    /\ UNCHANGED <<setup, asked, hashers, hasher, store, down, treeVars, taskVars, run, overtaken>>
UserPauseAll ==
    /\ user = "pauseall" /\ user' = "ready" /\ PauseAll
    /\ UNCHANGED <<setup, used, asked, hashers, pausers, store, down, treeVars, taskVars, run, overtaken>>

\* resumeHashing: for himself, or for everybody when all hashers are paused.
Resume ==
    /\ Uses("resume")
    /\ \/ pausers' = OneResumes
       \/ (\A t \in Listed : hasher[t].paused) /\ pausers' = 0
    /\ user' = IF pausers' = 0 THEN "resumeall" ELSE "ready"
    /\ UNCHANGED <<setup, asked, hashers, hasher, store, down, treeVars, taskVars, run, overtaken>>
UserResumeAll ==
    /\ user = "resumeall" /\ user' = "ready" /\ ResumeAll
    /\ UNCHANGED <<setup, used, asked, hashers, pausers, store, down, treeVars, taskVars, run, overtaken>>

StopAll ==
    /\ Uses("stop") /\ Stop
    /\ UNCHANGED <<setup, user, asked, hashers, pausers, store, down, treeVars, taskVars, run, overtaken>>

\* The refresh is aborted; then HashManager::shutdown, which waits for the hashers.
Shutdown ==
    /\ Uses("shutdown") /\ AbortRefresh /\ user' = "shutdown"
    /\ UNCHANGED <<setup, asked, hashVars, treeVars, tasksRunning, run, overtaken>>
ShutdownStarts ==
    /\ user = "shutdown" /\ user' = "quit" /\ down' = TRUE
    /\ UNCHANGED <<setup, used, asked, hashers, hasher, pausers, store, treeVars, taskVars, run, overtaken>>
QuitAll ==
    /\ user = "quit" /\ user' = "gone" /\ Each(Quit)
    /\ run.at = "queue" => Misfortune("queue")
    /\ UNCHANGED <<setup, used, asked, hashers, pausers, store, down, treeVars, taskVars, run, overtaken>>

Calls ==
    \/ TestAndSet \/ StartRun \/ StopHashingRoot \/ RefreshRoot \/ UserPauseAll \/ UserResumeAll
    \/ ShutdownStarts \/ QuitAll

-----------------------------------------------------------------------------
HasherStep(t) ==
    Works(t) /\ UNCHANGED <<pausers, down, userVars, treeVars, taskVars, run, overtaken>>

\* onFileHashed: the tree hears of the file.
FileHashed(t) ==
    /\ Hashed(t) /\ AddHashedFile(hasher[t].cur)
    /\ run' = IF run.at \in {"scan", "queue"}
              THEN [run EXCEPT !.late = @ \cup {<<t, hasher[t].cur>>}] ELSE run
    /\ UNCHANGED <<pausers, down, userVars, taskVars, overtaken>>

FileFails(t) ==
    /\ Uses("fail") /\ HashFails(t)
    /\ UNCHANGED <<pausers, down, setup, user, asked, treeVars, taskVars, run, overtaken>>

Next ==
    \/ \E t \in Threads : HasherStep(t) \/ FileHashed(t) \/ FileFails(t)
    \/ Runs \/ Calls
    \/ \E dir \in Dirs : Refresh(dir)
    \/ Abort \/ RemoveRoot \/ AddRoot \/ Pause \/ Resume \/ StopAll \/ Shutdown

Spec == Init /\ [][Next]_vars

\* The threads run.
Fairness ==
    /\ WF_vars(Runs) /\ WF_vars(Calls)
    /\ \A t \in Threads : WF_vars(HasherStep(t) \/ FileHashed(t))
FairSpec == Spec /\ Fairness
-----------------------------------------------------------------------------
(* Properties *)

\* A hasher has a file exactly while it hashes one, and a thread that does not run
\* has no work; nobody resumes what has not been paused (HashManager.cpp:414).
TypeOK ==
    /\ IsInjective(hashers) /\ Listed \subseteq Threads /\ pausers \in Nat
    /\ store \subseteq Files /\ down \in BOOLEAN
    /\ \A t \in Threads :
         /\ hasher[t].at \in {"none", "wait", "check", "suspend", "asleep", "awake", "take",
                              "hash", "store", "finish", "leave", "reset"}
         /\ hasher[t].work \subseteq Files /\ hasher[t].signals \in Nat
         /\ hasher[t].cur \in IF hasher[t].at \in {"hash", "store", "finish"} THEN Files ELSE {"none"}
         /\ hasher[t].devices \in [Devices -> Nat]
         /\ At(t, "none") => hasher[t] = NoHasher
    /\ tree \in [root : Nat, sub : Nat, files : SUBSET Files]
    /\ sharedSize \in Int /\ dirNames \subseteq Nat
    /\ tasks \in Seq([dir : Dirs, canceled : BOOLEAN]) /\ tasksRunning \in BOOLEAN
    /\ run.got \cup run.left \cup overtaken \subseteq Files

\* The indices and the size say what the tree has, whatever is removed, hashed and
\* canceled during a refresh (ShareTree.cpp:457); a root that is added again during
\* its own refresh is not among it.
IndexExact ==
    /\ sharedSize = Cardinality(tree.files) /\ dirNames = Objects
    /\ tree.files \cap SubFiles # {} => tree.sub # 0

\* What is paused, stopped, asked to end and waited for is what runs: the list has every
\* hasher (HashManager.cpp:76); with four of them it need not, and so it is not among
\* the runs.
RunningIsListed == \A t \in Threads : At(t, "none") <=> t \notin Listed

\* The refresh pauses hashing (ShareTasks.cpp:308): a hasher finishes one file at
\* most between the look at a directory and its replacement.
PauserHolds ==
    setup.ops \cap {"pause", "resume"} = {} =>
        \A t \in Threads : Cardinality({p \in run.late : p[1] = t}) <= 1

\* A task that was added when the last run had seen that there are none waits until
\* somebody asks for another directory (ShareTasks.cpp:201).
Stranded == tasks # <<>> /\ ~tasksRunning /\ run.at = "idle"
\* A hasher that went to sleep after it was woken up (Hasher.cpp:221).
Overslept == \E t \in Listed : At(t, "asleep") /\ ~hasher[t].paused

\* What is on the disk gets shared after a refresh (ShareManager.cpp:749), and
\* that its hashing finishes just before the old tree is replaced, a task or a
\* wake-up is missed, or a user who pauses leaves it paused are all the ways it does not.
EventuallyShared ==
    setup.ops \subseteq {"refresh", "pause", "resume"} =>
        <>[](\/ \A d \in asked : setup.disk \cap FilesOf(d) \subseteq tree.files \cup overtaken
             \/ Stranded \/ Overslept
             \/ "pause" \in setup.ops /\ \E t \in Listed : hasher[t].paused)

\* The wait for the hashers at the shutdown ends (HashManager.cpp:384).
EventuallyDown == <>[](user = "gone" => hashers = <<>> \/ Overslept)

\* "we cant allow adding more hashers if we are shutting down" (HashManager.cpp:212):
\* none is added once all have been asked to end.  With "queue" a scan that had passed that
\* check adds one all the same, so it is not among the runs.
NoHasherAfterShutdown == [][user = "gone" => ToSet(hashers') \subseteq Listed]_vars
=============================================================================
