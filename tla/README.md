# TLA+ models of AirDC++

AirDC++ is a file sharing client for the ADC and NMDC networks. This directory
holds TLA+ modules that model parts of its core (`src/airdcpp/airdcpp`, which
the paths below start from), configurations with which TLC checks them on small instances, and
proofs that TLAPS checks for all values of the constants.

`PROJECT.json` lists the components, the runs, for every definition the source
lines it stands for, the mutants with which each property is tested, the findings,
the hazards of the code and the theorems.

## 1. Inventory

The program is a set of singleton managers (`DCPlusPlus.cpp` creates them) that
call each other directly, under locks of their own, and tell everyone else through
listeners (`Speaker`). Threads: one per socket (`BufferedSocket`), one timer thread
(`TimerManager`), one task thread per `DispatcherQueue` (queue, share refresh,
...), hashing threads, and the threads of the user interface and the web server.

| Component | State | Operations | Meets | What makes it correct |
|---|---|---|---|---|
| Queue, files (`queue/QueueItem`, `FileQueue`) | finished segments `done`, running `downloads`, block size, sources, status | getNextSegment, addFinishedSegment, resetDownloaded | Download, Bundle | segments are disjoint, exact, and add up to the file |
| Queue, bundles (`Bundle`, `BundleQueue`) | files queued and finished, counters, status, priority | add, remove, re-add, recheck, finish, validate, share, save | ShareManager, hooks | a bundle is completed and shared once, when all its files are |
| Queue, users (`UserQueue`) | per user: queued files by priority, bundles, running | getNextQL, addQL, removeQI | getDownload | every queued file of every source can be found, in order |
| `QueueManager` | the three above under one lock, `slotAssignCS`, task queue | getDownload, putDownloadHooked, add/remove/pause/recheck | everything | no item is assigned, finished or deleted twice |
| `DownloadManager`, `Download` | running downloads, idle connections, tokens | checkDownloads, startData, endData, failDownload | QueueManager, UserConnection | every download ends by being put back; idlers are woken |
| `MerkleCheckOutputStream`, `MerkleTree` | leaf being hashed, verified count | write, flushBuffers | Download | nothing wrong is accepted |
| `UploadManager`, upload queue | slots, mini slots, partial slots, waiting users, tokens | prepareFile, parseAutoGrant, removeConnection | UserConnection | no more slots than allowed; every slot is given back |
| `ConnectionManager`, `UserConnection` | CQIs with attempts and time-outs, expected connections, tokens | getDownloadConnection, attemptDownloads, addDownloadConnection, failDownload | DownloadManager, hubs | one connection per CQI, none for ever waiting |
| `ThrottleManager` | tokens of the second | read, write, on(Second) | sockets | no more than the limit |
| Partial sharing (`partial_sharing`) | known partial sources, pending requests | PSR exchange | QueueItem | a partial source is asked for what it has |
| `HashManager`, `Hasher`, `HashStore` | queue per volume, paused hashers, database | hashFile, stop, pause, tree store | Share, Queue | every file is hashed once or reported |
| `ShareManager`, `ShareTasks`, `ShareTree` | directory tree, search index, refresh tasks | refresh, addFile, search | Hash, Queue | a refresh replaces a tree atomically |
| Hubs (`AdcHub`, `NmdcHub`, `ClientManager`) | connection state, users | login, quits, redirects | all | users on- and offline once |
| Search, file lists, private chat, auto search, RSS, ADL, favourites, logs, settings | own data | own | Queue, hubs | see `PROJECT.json` |
| Task queues (`DispatcherQueue`, `TaskQueue`, `DelayedEvents`) | pending tasks | addTask, run, stop | managers | tasks run once, in order |
| Web API and web server (`src/airdcpp-webapi`) | sessions, hooks, subscriptions | requests, hook completion | core | a hook completes once or times out |
| Windows interface (`src/windows`) | views | | core | presentation only |

How a file gets downloaded, the interaction the project begins with: a connection
becomes idle (`DownloadManager::checkDownloads`) and asks `QueueManager::getDownload`
for something to download. Under `slotAssignCS` the queue chooses a file of the
user (under the read lock), validates it (without lock) and, under the write lock,
chooses a segment with `QueueItem::getNextSegment` and makes the `Download`. The
manager lists the download and sends a `GET`. The answer opens the temporary file
(`startData`, `Download::open`), data passes through `MerkleCheckOutputStream`,
and at the end, or after any failure, the download is removed from the manager and
put back (`QueueManager::putDownloadHooked`), where a finished segment is recorded
(`addFinishedSegment`), the tree stored, or the failed download salvaged. When all
segments are done the temporary file is renamed and a task runs the completion
hooks. Meanwhile other connections do the same for the same file, a fast source
may *overlap* a slow one, and the user pauses bundles or removes sources.

Hard behaviours, in the order in which the code is exposed to them: interleavings
of connection threads between the locked steps of one call; arithmetic at segment
and block boundaries; failures at every step of a download; a temporary file that
is deleted, lost or still open; wrong data; results that arrive for an item whose
state has moved on; the status of bundles, which several threads and user commands
set; connection attempts that race with their time-outs; tasks run late or dropped
at shutdown; the saved queue after a crash. Each is listed with its line under
`hazards` in `PROJECT.json`.

## 2. Modules

| Module | What it is |
|---|---|
| `Segments` | The set algebra of segments: `Segment.h`, and `QueueItem::addFinishedSegment` and `getNextSegment` as *what they compute*. Length unit of a model: one leaf of the hash tree |
| `SegmentLoops` | The same two functions round by round, as the code runs them, compared with `Segments` |
| `FileAssembly` | Abstract specification: blocks of a file are claimed by workers, one at a time, never again when they are held; the file is complete when all are |
| `SegmentedDownload` | One queued file, its bundle's progress, its connections, its temporary file |
| `JudgedBundle` | Abstract specification: the files of a bundle are judged once each, then the bundle is, and it is shared once if it is accepted |
| `BundleLifecycle` | One bundle from its first queued file until it is shared |
| `Connections` | The download connections of one remote user: the items of `ConnectionManager`, the connections that arrive for them, the idle ones of `DownloadManager` |
| `UploadSlots` | The slots of `UploadManager` and the queue of waiting users of `UploadQueueManager` |
| `Hashing` | `HashManager`'s hashers: creation, queues, pausing, stopping, shutdown |
| `ShareRefresh` | Composes `Hashing` with the refresh tasks of `ShareTasks`, the scan and the tree of `ShareManager`, and a user |
| `Pipe` | Abstract specification: what is written arrives, in order and without a gap, until the pipe is cut |
| `BufferedSocket` | The thread of a socket, the tasks other threads leave for it, and its owner, which may delete itself in a handler |
| `SavedBundle` | Abstract specification: a restart brings back the bundle as it was at one moment, the end in order or the last save |
| `BundleSaving` | The file a bundle is saved to, the temporary and finished files of a bundle, the end, crash and restart of the program |
| `MCSegmentLoops`, `MCSegmentedDownload`, `MCBundleLifecycle`, `MCConnections`, `MCUploadSlots`, `MCShareRefresh`, `MCBufferedSocket`, `MCBundleSaving` | Instances for TLC |
| `Segments_proofs`, `SegmentedDownload_proofs`, `BundleLifecycle_proofs`, `Connections_proofs`, `UploadSlots_proofs`, `ShareRefresh_proofs` (with `Hashing`), `BufferedSocket_proofs`, `BundleSaving_proofs` | Theorems and their proofs |

### Segments and SegmentLoops

A segment is `[start, size]`. `AddSegment(D, s)` is the finished set after `s`
has been recorded: what touches `s`, directly or through others, becomes one
segment. `NewBytes` is what the bundle is credited with. `FirstFree` and
`NeededParts` are the blocks the scan of `getNextSegment` may return for a full or
a partial source. `SegmentLoops` has the loops as recursive functions over their rounds:
`Consolidated` is a round of the single pass over the ordered set (what has been passed, what is
left, whether something was merged and what it is worth), `Examined` one of the scan (`start`,
`curSize`, the blocks found; the `end` of the code is computed from them). A round of the scan
moves `start` on or makes the block smaller, so it needs no more than `Size` times the wanted size.
The state machine around them inserts what downloads of whole leaves deliver, while others lie
over the file; what the loops do is asked in each of its states. `NextIsUseful` speaks of a file that is
not finished (a finished one leaves the queue, and nothing is asked for it): `Util::roundDown`
rounds to the nearest multiple, and with all of it finished the range would begin before the end
when the last leaf is short.

### SegmentedDownload

State and code:

| Variable | Code |
|---|---|
| `status`, `sources`, `noTree`, `done`, `downloads`, `blockSize` | `QueueItem` (status, sources and bad sources, `FLAG_NO_TREE` of a source, `done`, `downloads`, `blockSize`) |
| `paused`, `pauseTask`, `credited`, `bundleDownloads` | `Bundle` priority, the task `onDownloadError` adds, `finishedSegments`, `downloads` |
| `treeKnown` | `HashManager::getTree` finds the tree |
| `pc`, `dl` | the point a connection thread has reached, its `Download` |
| `closing` | `disconnect` has been called on the connection |
| `temp`, `onDisk`, `target` | the temporary file and what is in it, leaf by leaf; the finished file |
| `completions` | history: times `onFileDownloadCompleted` found the file complete |
| `wasted` | history: the temporary file was deleted while a download was using it (`InUse`) |

One action is what a thread does while it holds a lock. Between `Select` and
`Assign` (`getDownload`) the queue's lock is released but `slotAssignCS` is held,
hence `~\E d : pc[d] = "selected"`. `ReadProgress` and `Open` are two actions
because `startData` asks the queue first and opens the file without any lock.
`CheckUseless`, `DeleteTemp` and `RecordFailed` are three because
`onDownloadFailed` looks at the item and deletes the file outside the lock.
`Deleted` is what becomes of the file there, or when somebody else deletes it (`LoseTemp`). It
also notes whether the file was `InUse`: the item was complete, a download had
written to it, or one was about to open it anew although segments of it were finished. The properties about the
disk allow that outcome and no other; the claims without it (`AlwaysInPlace`,
`RecordedIsOnDisk`) are false (see Findings).
`CompleteFile` and `Rename` are two because the rename is outside the lock.
`StoreTree`/`SaveTree`: the tree is written to the database after the download has
left the item.

Data is abstracted to the quality of a leaf on disk: absent, right or wrong. Speeds
and times are left open: a slow source is any running download, and a wanted size
any number of leaves. The order of the downloads in a vector is left open (any
matching element is taken). Connections stand for sources, one each: the code
allows one normal download connection per user and bundle, and mini connections are
for small files and file lists.

Modelled from outside (the network, other components): sources answer, refuse,
drop, or send wrong data if they are in `Liars`; the file system refuses to delete
or rename a file that is open (the Windows behaviour the code is written for).

### BundleLifecycle

| Variable | Code |
|---|---|
| `status`, `queueItems`, `finishedFiles` | `Bundle` |
| `fileStatus` | `QueueItem::status` of each file |
| `inQueue`, `fileQueue` | the bundle is in `BundleQueue::bundles`, the file in `FileQueue` |
| `queueSize`, `queuedCount`, `finishedCount` | `BundleQueue::queueSize` (every file counts 1), `PathInfo` of the bundle's directory (`size_t`, so modulo `Width`) |
| `onTarget` | the file has been moved to its target |
| `pc` | the point a connection has reached in finishing the file |
| `tasks`, `worker`, `retry` | `QueueManager::tasks` (a `DispatcherQueue`; the first element is the running task), its thread, the failed files it validates again |
| `checkDue` | the `delayEvents` entry of the bundle |
| `removing`, `clearing` | `removeQI` and `removeBundleItem` between their locks |
| `refreshing` | `checkCompletedBundles` between its lock and `setBundleStatus` |
| `didUser`, `actions`, `sharings` | history |

A connection finishes a file in five actions, because `putDownloadHooked` finds the
item, `onFileDownloadCompleted` sets its status and `removeBundleItem` moves it
between the bundle's lists under three separate locks, the bundle's status is set
after the last of them, and the rename needs none. `readLists`, `readFailed`,
`reject` and so on are positions of the task thread: the completion checks read the
status, the failed files and the lists one after the other, hooks run without any lock,
and what they decide is written to the status afterwards. A file stands for its
`QueueItem`. Hooks have subscribers and answer either way; the move of a file may
fail, which the code only logs. The user removes one thing at a time. The wait of
three seconds of a delayed check is any wait.

`JudgedBundle` knows none of this: what a bundle promises a user who leaves it alone is that it
waits until each of its files has been judged, is judged itself, and is then shared or not. `PromiseSpec`
says that every step is one of its steps or none, where a file counts as judged when its status is
`failed` or `completed`, the bundle waits for its verdict while a task that leads there
is queued or runs (`Phase`), and shows what its status says (`Shown`).

Left out: bundles of one file, `DOWNLOAD_ERROR` and rechecks, adding a file again
whose target was deleted (`checkRemovedTarget`), merging and moving bundles,
saving, loading and shutdown, bytes (every file has one size).

### Connections

| Variable | Code |
|---|---|
| `items` | `ConnectionManager::downloads`: a `ConnectionQueueItem` by its token; of `lastAttempt` only whether it is 0 (`forced`), of `errors` whether it is -1 (`fatal`), `running` and `mcn` are its flags, `type` its `downloadType` |
| `expected` | tokens that have been sent to the remote client and that it will still connect with |
| `conns` | `UserConnection`: its state, token, slot type, tasks posted to its socket, and where its thread is |
| `idlers` | `DownloadManager::idlers` |
| `queued`, `added`, `missed` | what the queue has for the user, requests still to be made |
| `timer` | the loop of `attemptDownloads`: the item it looks at, and what it has collected |
| `mislaid` | history: a request was left to an item or an idle connection that was already on its way out (`Leaves`) |
| `online`, `full` | the user is on a hub; the download limits are reached |

`ConnectionManager::cs` is a shared lock: the timer's loop (`Visit`, `Apply`) holds it
for reading, and so does a connection that arrives (`AddDownloadConnection`), so
these interleave; steps that take it for writing wait (`WriteLock`). What the loop has
collected is removed under a lock of its own (`RemoveCollected`). A connection asks
for work in several steps: `CheckDownloads` (the queue answers), `CheckIdlers` (a look at the
idlers), `BecomeIdle` (it is put on their list), and the tasks it has posted to its own
socket (`StateTask`, `OnIdle`, `Revive`), which run when the thread gets to them and read the state
of that time. A connection that is closed, breaks, or whose remote client violates the protocol
(`Disconnected`, `Drop`) has its `fate` decided in `Failed`: its item is removed, retried, or given up
as after any protocol error. `FailItem`, `PutItem` and `OnFailed` follow, each under another lock. External: the remote
client connects with an expected token or loses it (`OnItsWay`, `Lose`), the hub
reports users that come and go. Time is left open: a time-out or an attempt may come
at any time. Bound: tokens are used again when nothing refers to them; two exist.

### UploadSlots

| Variable | Code |
|---|---|
| `conns` | `UserConnection`: where its handler is, its slot, the slot it is getting, the file, a counter it has read (`reg`) |
| `slotCS` | `UploadManager::slotCS` |
| `count`, `multi`, `mcnConns` | `runningUsers`, `extra`, `smallFileConnections` (bytes), `multiUploads`, `mcnConnections` |
| `queue`, `notified` | `UploadQueueManager::uploadQueue`, `notifiedUsers` |
| `timer` | the free slots `on(Second)` has read and not yet handed out |

`Request` is `prepareFile` up to the decision (`SlotFor`: `parseSlotHookedThrow`), taken
under `slotCS`; `Create`, `DropSlot`, `AddSlot`, `MakeRoom` (`updateSlotCounts`,
`disconnectExtraMultiConn`) and `RemoveQueue` follow, or `Deny`. Counters of users without
support for several connections are bytes that are changed without a common lock, so
these changes are a read and a write. External: remote users connect, ask for files,
come back when told to, go off- and online. Left out: delayed uploads
(`resumeStream`), file checks, `abortUpload`, `disconnectOfflineUsers`, and a slot hook of an
extension that throws, which ends the request without a slot or a place in the queue (`UploadManager.cpp:149`).

### Hashing and ShareRefresh

| Variable | Code |
|---|---|
| `hashers`, `hasher` | `HashManager::hashers`; a `Hasher` by its thread: `hasherID`, queue `w` (`work`), `devices`, the semaphore `s` (`signals`), `paused`, `stopping`, its own `isShutdown` (`quit`), the file being hashed |
| `pausers`, `down`, `store` | `HashManager::pausers`, `isShutdown`, hashes in the database |
| `tree`, `dirNames`, `sharedSize` | `ShareTree`: the root, its directory and files as objects; `lowerDirNameMap`; the sum of sizes |
| `tasks`, `tasksRunning` | `ShareTasks` |
| `run` | the task thread: where it is, the directory it replaces, the files still to look at, and those of the new tree |
| `user`, `asked` | the call the user is in, and what he has asked for |
| `overtaken` | history: files a refresh has lost |

What holds `Hasher::hcs` is one step; `paused`, `stopping`, `isShutdown` and `pausers`
are read and written without it, so pausing is two steps (`Pause`, `UserPauseAll`), and a
hasher that finds `paused` set goes to sleep in another (`Suspend`). The refresh thread
takes the front task, pauses hashing (two steps), finds the directory, looks at each
file (`Scan`, `QueueFile`: its hash is known, or it goes to a hasher), and replaces
the old tree (`Apply`), removes the task and, when there is none, ends (`EndRun`) and resumes
hashing. `Shutdown` follows `DCPlusPlus.cpp:189`: the refresh is aborted, then
`HashManager::shutdown`. Which hasher gets a file (by size and device) is left open
among those the code may choose. Files are on the disk from the start;
`SKIP_EMPTY_DIRS_SHARE` is on. The root is not removed while the old object of its
subdirectory is being replaced: the code then keeps a pointer to a parent that has
been freed, and what happens is not defined. Whether the refresh was aborted is read in the same
step as the tree is replaced; the code reads it just before (`ShareManager.cpp:831`), so an abort
between the two is one that comes after the replacement here.

### BufferedSocket

| Variable | Code |
|---|---|
| `setup`, `limits` | what kind of owner the socket has, how it is opened, what may still happen (bounds) |
| `opening` | how far the owner is in `connect` or `accept`: the thread is started before the task is added |
| `released` | what the owner has done with the socket: `putSocket` (listeners removed, `shutdown`), and whether the owner has been deleted with it |
| `tasks`, `state`, `disconnecting` | `BufferedSocket::tasks`, `state`, `disconnecting` |
| `at` | where the thread is: in `checkEvents`, a posted call, `threadConnect`, `threadAccept`, `threadSendData`, `threadSendFile`, `threadRead`, or ended |
| `inFile` | `checkEvents` has been called by `threadSendFile` |
| `out` | `writeBuf`, `sendBuf`, what is left of the file, what has been sent; writes are numbered in the order in which they were made |

A lock is held for single accesses to the tasks and the write buffer only, so an
action is what happens between two looks of the thread at `disconnecting`, its tasks
or the socket; other threads come between any two. The owners are a peer
(`UserConnection`: fails, is taken from `ConnectionManager` and deletes itself in
the handler of its own failure), a hub (`Client`: several threads write, it is closed
or connects again with another socket, and waits for its socket in `shutdown`) and
an HTTP request (`HttpConnection`: deletes its socket as soon as the answer is
complete). A handler that runs on the socket's thread is part of the action of the
thread. Of the peers' protocol there are the greeting and the answer to a
request with a file, each written by the socket's thread; a refusal would be another
such write. The network delivers lines, closes, blocks and breaks at any time; it
delivers one line a read, where `threadRead` may hand over several before it looks at the tasks again.
`Mishaps` allows two uses that the fairness property does not survive (see Findings):
closing a connection before its task has been added (`"early"`), and within
`threadSendFile` in a way that the file goes on (`"nested"`). The proofs hold with them.

`Pipe` is what the other side sees: pieces are written and arrive in that order, until the line is
cut; closing it cuts it at once, or after the one write that had begun. `StreamSpec` says that
the socket is such a pipe, however it is closed (`LineState`: the line is cut when the thread
does not send any more).

### BundleSaving

| Variable | Code |
|---|---|
| `limits` | what may still happen: crashes, ends, removals, lost files, failures, changed priorities, moves that fail (bounds) |
| `up` | the program runs; `shutdown` waits for the connections (`"closing"`) or saves (`"saving"`); it has ended or crashed |
| `bundle` | `Bundle::queueItems` and `finishedFiles` together, `dirty`, the automatic priority, and whether `BundleQueue` has it |
| `queue`, `done` | `FileQueue`; `QueueItem::done`, in leaves |
| `conn` | the connection that downloads a file, from `getDownload` to `renameDownloadedFile` |
| `user` | the user's thread between the steps of `removeQI`, `removeBundle`, `toggleBundleAutoPriority` |
| `saver` | the task thread (`on(Second)`) and the main thread (`QueueManager::shutdown`) in `Bundle::save` |
| `xml`, `tmp` | the bundle's file, and the one with `.tmp`; a missing file is one that holds nothing |
| `temp`, `target` | the temporary file of each file with what is really in it, and the finished one |
| `saved`, `reset` | history: the files ever saved; those `resetDownloaded` was called for since the last save |

Memory is what a restart loses, the four files are what it finds. An action is what is done
under the lock of `QueueManager`, or one operation on the disk: `Bundle::save` writes,
deletes, renames and clears `dirty` in four steps, with the lock held for reading, which keeps out
the steps that take it for writing but not those that take none. `Start` is `loadQueue`:
a file that was saved as finished is loaded only when it is in its place, one saved as queued
only when it is not (`Loads`). One connection downloads a file at a time, in segments of a
leaf, and a removal while it finishes the file is left out (`BundleLifecycle` has it), as are file
bundles, several bundles, and the removal of finished bundles at the end. `Mishaps`
allows a second save to come between the steps of the first (`"overlap"`) and the user
to change the priority during a save (`"unlocked"`); the properties do not survive
these (see Findings).

`SavedBundle` has no threads and no temporary files: it has the bundle in memory, the last
state of it that was kept, and the files that are in their place. The bundle is kept as it is at one moment;
a crash goes back to what is kept, an end in order has to have kept all that a program can take over, and
a restart takes what is kept of the files that fit what is in place. `PromiseSpec` says that
`BundleSaving` is that.

## 3. Runs

| Run | Question | Bounds |
|---|---|---|
| `segment_loops` | Do the loops compute what the declarative operators say, and is that right? | 9 units in leaves of 2 (so a short last leaf), at most 2 running downloads, every segment inserted |
| `download_segments` | Do honest sources assemble a file: types, progress, completion once, no dangling download, partial source, a completed file in its place with the right content, refinement of `FileAssembly` (and so disjoint segments) | 3 leaves, 2 sources, one with the last two leaves; new, tree-less or resumed file; two mishaps out of: drop, refusal, removal, pause, lost file |
| `bad_source` | Is what is recorded as finished verified and on disk, when a source sends wrong data or a wrong tree? | 2 leaves with a short last one, one of two sources lies as often as it likes; two mishaps out of: drop, removal, pause, lost file |
| `download_live` | Does the file get completed in the end? | 3 leaves, 2 sources, one drop, refusal, removal or lost file |
| `overlap_takeover` | Does the fast source take over from the slow one? | 3 leaves, 2 sources; the constraint `FewRepetitions` cuts behaviours in which overlapping goes on for ever |
| `bundle_lifecycle` | Is a bundle completed only when it is ready, judged, and shared once, as `JudgedBundle` promises, its size in the queue exact, and validated in the end, whatever order its files, tasks, hooks, the refresh and the user come in? | a file and one to add, or two files; any two actions of the user (adding, removing a file or the bundle, sharing a failed bundle) |
| `connections` | Does an active item have its connection, is an idle one free and known, does none at rest count as running, and is everything downloaded in the end? | 2 tokens, 2 connections, 5 kinds of users with up to 2 files and up to 2 mishaps: late, failed or refused attempts, lost answers, forced attempts, breaks, protocol errors, going offline, full limits |
| `upload_slots` | Are slots counted as they are given, none given twice, and does everybody who comes back get one? | 3 users, 3 connections, 7 settings (one or two slots, slots opened by the speed, several connections each, a client without them, granted slots), 1 mishap |
| `share_refresh` | Are the indices of the tree exact, does the pause of the refresh hold, is what is on disk shared in the end, and does the shutdown end? | one root with a directory, 3 files on 2 disks, 2 hashers, 7 settings with up to 4 operations of the user |
| `buffered_socket` | Is what is written sent once and in order, the file behind its header, does no posted call outlive its owner, and does every thread end whose socket is given up, unless that happens before it has started or within `threadSendFile`, and does the other side receive what `Pipe` promises? | 4 setups: a client, a peer that is connected to, one that is accepted, an HTTP request; files of 2 writes; up to 2 calls, 2 writes, 2 disconnections, 3 lines |
| `bundle_saving` | Does a restart bring back what counts as saved, is what counts as finished on the disk, is every file downloaded in the end, and is this what `SavedBundle` promises? | 2 files of 2 and 1 leaves, 6 settings: two crashes; an end and a crash; a removal, or a failed move, and a crash; a changed priority and an end; a lost file and a failure |
| `request_ignored` | Finding, see below | a user refused after a break |

Why the bounds are enough: a merge involves at most three segments in a row and the
scan two boundaries of a running download, which 9 units and 2 downloads hold with
room on both sides; the races of `SegmentedDownload` the runs look at are between two connections
and one further thread (user, timer task); with three connections
`OverlapIsTakeover` fails (see Findings). `RecordedIsVerified` and `CompletedAreReady` are theorems for
any number of connections. 3 leaves are the least for a finished
segment between two running ones and for a segment that touches two others. Two
mishaps let one failure happen during the handling of another. `MaxMishaps` bounds
all mishaps together; nothing else is bounded in `Next`, since segments, positions
and finished bytes are bounded by the file.

In `BundleLifecycle` two files are the least for one that finishes while the task of
the other runs and for a bundle of which a file is left; the interesting moment of the user is
between two locked steps of those, and a second action covers a removal after an
addition, or a share after either. `MaxActions` bounds the actions of the user; nothing
else is bounded in `Next`: every file finishes once, and tasks come from files and users.

In `Connections` two connections and two tokens are the least for an item that is
replaced while another is attempted, and for a removal of an extra item; the five users are
the combinations of support for several connections with small and normal files,
each with as many mishaps as it needs for a failure within the handling of another.
In `UploadSlots` three users are the least for one who uploads, one who waits and one
who is told to come; in `ShareRefresh` two hashers show a file that is hashed while
its neighbour is, two tasks one that waits behind the other; the pause is
checked for these only, since of four two may get the same number (see Findings). Rare outcomes of timing that
the code allows for ever (an attempt that times out just as its answer arrives, a
reservation that expires just as its user comes) are mishaps, counted and bounded: that they
happen again and again is not excluded by the code, only by time.
`mishaps`, `used` and the tokens are all that is bounded in these three.

In `BufferedSocket` two writes to a file are the least for a write with one before and one
after it, two messages for one that is written while another is being sent, two
disconnections for one behind the other, and a second line lets a peer ask for another file after the
first. `limits` bounds calls, messages, disconnections and lines, and the numbers of the
writes with them; `BufferedSocket_proofs` needs none of these bounds.

In `BundleSaving` two files are the least for one that is finished while the other is
not, two leaves for a file that has been saved in part; a second crash finds what the first restart made
of the first crash. `limits` is all that is bounded. A temporary file that is
lost is not combined with an end of the program, nor one that is removed with two ends, because
`FinishedIsOnDisk` fails there (see Findings). `KeepsTemps` in `BundleSaving_proofs` says
the same of the settings.

`CHECK_DEADLOCK FALSE` in the runs of `Connections`, `UploadSlots`, `ShareRefresh`,
`BufferedSocket` and `BundleSaving`: when everything has been downloaded, uploaded or shared, the program is
down, or the thread of the socket has ended, nothing has to happen. In the bundle runs: a bundle that is shared, or failed and left alone,
or removed, does nothing more; in the download runs: after the file has been completed and
the connections are idle, or when every source is gone, nothing has to happen.

Fairness (`Fairness`): weak fairness of every step that a thread takes by itself
(they hold no lock across actions, so a continuously enabled step is scheduled), of
the answers of connected sources (an assumption about the network: otherwise nothing
completes), of `Select` (the timer of `DownloadManager` calls `checkDownloads` for
idle connections again), of the failure of a connection that was disconnected (the
socket thread sees the shutdown), and of the task thread. Not of mishaps, pausing or
resuming, nor of the user. `EventuallyCompleted` has an alternative: a failed
connection that deletes the temporary file other connections have begun to use,
for ever; nothing in the code excludes it, and the mishap that starts each
round is not bounded by the code. In `BundleLifecycle` weak fairness holds of the task
thread (`DispatcherQueue::run`; a hook ends, since `ActionHook` waits for its
subscribers and those of the web API time out), of the timer, of the steps of a
connection once it has finished its last segment (`FindFile` is not fair: nobody has to download), and
of the second half of a removal. Nothing is assumed of the user or the refresh.
In `Connections` weak fairness holds of the handlers and the timer, of an answer to an attempt
(a remote client that is asked connects, unless a mishap says otherwise), of users that
come back and limits that become free; in `UploadSlots` of handlers, timer, and of the
remote users who come when told; in `ShareRefresh` of the hashers, the refresh thread and the
calls a user has begun. Mishaps and what users begin are not fair. None needs strong fairness.
In `BufferedSocket` weak fairness holds of the owner that is opening its socket (`Opening`)
and of what the thread does by itself (`ThreadRuns`: its waits end after 250 ms, an attempt to connect after 30 s).
Nothing is assumed of the network, of the other threads or of the owner.
In `BundleSaving` weak fairness holds of each connection (threads run, sources send what is
asked for), of what the user's and the saving threads have begun, of the closing of
connections at the end, and of the restart: the program is started again. Not of crashes, ends and what
else `limits` counts.
Nor is the user who pauses the bundle bound to resume it, so `download_live` has no pause.
`EventuallyServed` (`Connections`) allows, and names, three outcomes: `GivenUp`, every item was given up
after a protocol error; `Mislaid`, no item is left because a request was turned down for an item, or
handed to an idle connection, that was already on its way out; and `WrongKind`, a user with several
connections has no item any more and only small files or only normal ones left, after having had both: the request for
the ones that are left was turned down because of an item that was for the others in the end. The code has all three (see Findings); what the run shows is that nothing
else leaves a file behind.
`EventuallyEnds` excludes by its setting the two closings `Mishaps` stands for.
`EventuallyShared` allows, and names, what the code does not exclude: `Stranded`, a task added
between the last look at the tasks and `tasksRunning.clear()`; `Overslept`, a hasher that
goes to sleep after it was resumed; `overtaken`, a file hashed just before its tree is
replaced; and a user who pauses hashing.

## 4. Proofs

Every theorem holds for all values of the constants that satisfy the assumptions of the
modules; where one has a hypothesis it is named here with the reason. The assumptions:
`SizeAssumption` (a file has a leaf), `LeafAssumption` (a leaf is no larger than the file; `SegmentLoops`
only), `SegmentedDownloadAssumption` (sources, parts and loaded
sets are segments of the file, loaded sets are merged and not complete),
`BundleLifecycleAssumption` (finitely many files, some of them in the bundle at first, a counter
wide enough for twice their number), `ConnectionsAssumption` (kinds of users),
`UploadSlotsAssumption` (settings are bytes, as in the code), `HashingAssumption` (finitely many
files, each on a device), `ShareRefreshAssumption`, `BufferedSocketAssumption` (a file needs a
write; only peers are accepted or have a user) and `BundleSavingAssumption` (a file has a leaf).
TLC evaluates each in the runs of its module.

Four theorems state a property that no run lists, because the refinement or invariant that a run
checks implies it or comes close to it: `SegmentsExclusive` (`AssemblySpec`: claims are disjoint),
`SharedAtMostOnce` and `RejectedStays` (`PromiseSpec` of `BundleLifecycle`) and `SavedIsKept`
(`PromiseSpec` of `BundleSaving`). TLC agrees with each when
it is added to the configuration of its module.

An invariant the runs check is not inductive by itself; each proof has an
inductive one, checked by TLC on the module's run before it was proved, with one lemma per
action or group of actions. What they say, and why it is needed:

`Segments_proofs`: `AddSegmentCanonical`, recording a segment keeps the finished set merged;
`AddSegmentCovers`, what the set covers grows by the positions of that segment and no other;
`CoveredAll`, a merged set covers the file only as one segment, the one `segmentsDone()` looks
for; `FreeBlockFacts` and `ScanFindsAll`, a block the scan finds overlaps no running download,
and every position nobody has or downloads lies in one. `BytesCovered`: the bytes of a merged set
are the number of positions it covers, so progress does not depend on how it is cut into segments
(of the sets whose sum would be wrong there is a smallest one, so no induction over data is
needed). The loops, where a smallest round that goes wrong takes the place of an induction again:
`MergeLoop` and `ScanLoop` say that they compute what `Segments` declares, for
every merged set and every segment of the file, and for every set of finished and running
segments, block size and wanted number of blocks. Each is an invariant of the rounds, and the rounds exist
because there is no smallest number of them that does not (`MergeRoundsExist`, `ScanRoundsExist`).
`RoundInv`: what has been passed is merged and begins before the rest, together they cover what they
have to, and the first merge is what `NewBytes` counts; two merged sets that cover the same are the
same (`CanonicalUnique`). `ScanInv`: `start` is visited, no longer block at it is free, what lies before it has been
found, in order, and the number of rounds is bounded by how far the scan has come, so that it ends.
`LoopMerges`, `LoopScans` and `LoopIsUseful` state it for the runs of `SegmentLoops` (`LoopInv`: what is finished
and what runs is made of whole leaves): `MergeAgrees`, `ScanAgrees`, `NextIsUseful`.
`CreditIsExact`: the credit for one merge only, which `addFinishedSegment` computes, is all
that a segment adds if nothing of it was finished before.

`SegmentedDownload_proofs`:

- `TypeCorrect`. A segment that is recorded has to be one of the file, and a position has to stay
  in its segment, so `IInv` (`InductiveInvariant`) adds what can be said of the `Download` of a
  connection at each `pc`, and that `done` is merged (`DoneStaysMerged`).
- `SegmentsExclusive`, when slow sources are not overlapped (`~OverlapSlow`; overlapping is the
  permission to download a part twice). Only `Assign` gives a connection a file segment, it takes
  it from `NextSegment` of the current `downloads`, and no other step changes the segment
  of a member of `downloads` except the tree's, which does not count.
- `NoLeftoversEver`. A connection is listed by the manager exactly between `Request` and
  `RemoveFromManager`, and by the item from `Assign` to its record.
- `AssemblyInvariant`, `CompletedOnce` and `ImplementsAssembly`, under `~OverlapSlow` and
  `TreesLoaded` (a file that is loaded with finished segments has its tree). Without the second
  a finished leaf may be fetched again, with overlapping `FinishedOnce` is false (see Findings).
  `AInv`: running segments, finished segments and what a failed download is about to
  salvage are pairwise disjoint, and a file that is not completed has a leaf that is not finished. So
  the segment that completes the file is recorded by the one connection that claimed it.
  Each step is then one of `FileAssembly` or none: `Assign` is `Claim`, the records are
  `Deliver` or `Complete`, an assignment after a reset is `StartOver`.
- `AccountingIsExact`, under the same two: what is recorded was not finished before (`AInv`), so
  `CreditIsExact` applies to each record; with overlapping it does not (see Findings).
- `RecordedIsVerified` and `CompletedAreReady`, for any number of connections and mishaps of any
  kind. Both properties are about a file that was not `wasted`; since TLC refutes them without that condition, the
  deletion of a file in use is the only step that breaks them. `Faithful`: while the file is not wasted,
  `DiskInv` holds. Every finished leaf and every complete leaf of a running download is kept on the disk
  (`Intact`); after the deletion of a file nobody used nothing is finished or about to be (`Absent`); who receives
  has the file open, and a complete file waits for the one connection that renames it, when nobody has it
  open any more. The step that could break it is a write, and `SegmentsExclusive` says that the leaf
  written is nobody else's. `TreesTrusted`: where sources lie, the tree is known or they
  are the ones that are asked for it and answer, since without it nothing verifies the data
  before the file is complete; `bad_source` is such a setting. `CompletedAreReady` excludes a short
  last leaf from a source that lies, which nobody verifies (see Findings).

`BundleLifecycle_proofs` (no hypotheses; what the user did is part of the properties):
`TypeCorrect`, `SizeIsExact`, `CompletedWhenReady`, `SharedAtMostOnce`, from `IInv`. Its part
`Base` ties the status of a file to the lists it is in and to the place of its connection and task.
`SizeInv` adds that the queued files are those counted, unless a removal raced with a
connection. `AloneInv` and `WayInv` hold while the user has not touched the bundle: one that is
completed, or which the refresh has chosen, is ready, and a ready one has one thing left that
leads on: the task of its last file, or a completion check, or the sharing; that two tasks
never see the same ready bundle is what makes the sharing happen once.

- `ImplementsJudgedBundle`: every step is one of `JudgedBundle` or none. The status of the bundle is
  written by five threads or tasks, mostly without a lock, so the proof has to say who may write what
  when: `VerdictInv`. While the bundle has queued files it is `queued`; the checks after a file run
  only when it is neither completed nor chosen by a refresh; it fails for a file that has been
  rejected, or at the end when nothing is left to do. `WorkPromise` then gives for each step of the
  task thread the step of the promise.
- `RejectedStays`, from the same: a rejected bundle has a rejected file, or nothing left to run.
  `RejectionIsFinal`: that includes refreshes that began before, for a bundle that had something to
  download when it was loaded or created. The condition is needed: one that was completed in a former run is
  still shown as completed while it is validated again (see Findings). `FreshInv`: any other bundle is
  completed, or chosen by a refresh, only once it has been accepted and only its sharing is left.

`Connections_proofs` (no hypotheses): `TypeCorrect`, `ActiveIsConnected`, `IdleIsIdle`, from
`ConnectionsInvariant`. An item is active only with a connection that carries its token and is
not past the handler that fails the item, so each handler is shown to take the item along
before it lets go of the token. `RestInv`: if the item of a connection at rest counts as running, it does so for
another connection with the same token; this is what the timer's loop, which holds the lock only for reading,
could break.

`UploadSlots_proofs`: `TypeCorrect`, `SlotsAreCounted`, `SlotsAreLimited`, from
`UploadSlotsInvariant`, for `Cardinality(Conns) <= 255`: the counters are bytes
(`transfer/upload/UploadManager.h:101`) and nothing in the code limits connections; with
more they wrap. `CountInv`: the counters per user and over all are the connections that
have been counted. `Held`: a connection from its look at the free slots to its count holds
`slotCS`, and what it saw free is still free, because slots are only given under that lock and all
else only gives them back.

`ShareRefresh_proofs`:

- `ShareInvariant`, `TypeCorrect`, `IndexIsExact`, unless a root is added again during its own
  refresh (`"readd" \notin Mishaps`; then `IndexExact` is false, see Findings). `BaseInv`
  says where the refresh may be for each state of the tasks, that the tree, the indices and the
  size agree, and that the directory a refresh is going to replace is the one it
  found, or has been removed since, together with its indices.

`BufferedSocket_proofs` (with and without the mishaps):

- `TypeCorrect`, with the part of `TypeOK` that is not about types: a
  socket is shut down once, and an owner that is gone leaves no task behind it.
- `NoCallWithoutOwner`: an owner is deleted in the
  handler of a failure, or before the thread exists, or it is an HTTP request, for which nobody posts
  calls; once the socket has failed, calls are dropped.
- `StreamCorrect`: every buffer holds consecutive
  numbers (`Pieces`), the file those behind its header; a file or a wake-up task that is
  still to come stands behind the `data` task of its header (`Flow`, `FileInv`), so when
  the thread begins to send the file both buffers are empty. `Flow` is stronger than
  `StreamIntact`: as long as the connection is not being closed there is one `data` task
  exactly when there is something in the write buffer, none while the file is being sent, and
  the file's own task stands behind it. Without that order the file could overtake its header.
- `ImplementsPipe`: every step is one of `Pipe` or none, also while the connection is being closed, where
  `StreamIntact` says nothing. `WireInv`: what is left of a file that is being sent begins with the number
  behind the last one sent. `Onward`: nobody begins to write when the connection is being closed, so
  that the write which had begun is the last one.

`BundleSaving_proofs`:

- `TypeCorrect`.
- `SavedIsKept`, unless two savers overlap (`"overlap" \notin Mishaps`; otherwise false, see
  Findings). `KeepInv`: what has been saved of the bundle is in its file, or, between
  the deletion and the renaming, in the one that takes its place, whose content is complete before
  the old one is deleted; a file either of them has as finished stays finished. `DownInv`: nobody is
  at work while the program does not run.
- `RestartIsFaithful`, for `Mishaps = {}` (no overlapping savers, no priority toggled while the
  bundle is saved; both refute it). `SyncInv`: either the bundle is dirty, or a
  saver is at it, or the file says what the memory says; `FinishInv` ties the place of a
  connection to the segments and the target of its file.
- `ImplementsSavedBundle`, unless two savers overlap: every restart brings back a bundle as it was at one
  moment, after any number of crashes. Here a priority may be toggled during a save, since what is promised is about
  files and segments; `SyncInv` says of the priority only what it can (`Says`). `EndInv`: when the program
  ends in order, the connections and the user have come to rest before the last save, and a bundle that is
  not in the queue any more has no file (`NothingLostAtEnd`).
- `OnDiskWhatIsFinished`, for settings that satisfy `KeepsTemps`: no end of the program, or no
  lost temporary file and at most one end if one is removed (the other combinations refute
  it, see Findings). `DiskInv`: what the memory counts, and what a restart would
  count, is in the temporary file as it is now. The settings of the run satisfy it.

Model-checked only:

- liveness (`EventuallyCompleted`, `EventuallySettled`, `EventuallyServed`, `EventuallyShared`,
  `EventuallyDown`, `EventuallyEnds`, `EventuallyInPlace`);
- `OverlapIsTakeover`, which is false for three connections, and `PauserHolds`, because what it rests on,
  `RunningIsListed`, is false for four hashers (see Findings). A theorem would need a bound on connections
  or hashers that the code does not have.

## 5. Findings

One is a run, `request_ignored`: `ConnectionQueueItem::resetFatalError`
(`connection/ConnectionManager.cpp:172`) compares the time of the last attempt with
-1, which is the number of errors after a protocol error; a request after such an
error never makes the item be attempted again.

The others are reproduced by a configuration like that of the module's runs, with these
constants and the property named:

| Property | Constants | What TLC shows |
|---|---|---|
| `AccountingExact` (`MCSegmentedDownload`, `Spec`) | those of `overlap_takeover.cfg`, without its constraint | a fast and a slow download that share leaves both record them; `addFinishedSegment` subtracts only one of the merged segments (`queue/QueueItem.cpp:595`) and nothing for a segment that lies within a finished one, so the bundle counts more than its files have finished (assertion `Bundle.cpp:158`) |
| `EveryLeafVerified` (`MCSegmentedDownload`, `Spec`) | those of `overlap_takeover.cfg` with `Size = 2`, `Liars = {c1}`, `OverlapSlow = FALSE`, `ShortTail = TRUE` | the last leaf, when it is not full, is compared with the tree in `flushBuffers`, whose exception `Download::flush` swallows (`Download.cpp:146`) |
| `AlwaysInPlace` (`MCSegmentedDownload`, `Spec`) | those of `download_live.cfg` with `Size = 2`, `TreeSources = {}`, `Loaded <- NewFile`, `Mishaps = {"drop", "pause"}` | `onDownloadFailed` (`queue/QueueManager.cpp:1717`) decides without a lock that nothing has been downloaded and deletes the temporary file which another connection has completed in the meantime; the file becomes `STATUS_COMPLETED` without being there |
| `AlwaysInPlace`, `RecordedIsOnDisk` (`MCSegmentedDownload`, `Spec`) | those of `download_live.cfg` with `Mishaps = {"vanish"}` | somebody else deletes the temporary file while two connections use it: one that has found nothing to resume creates it anew after the other has finished a segment in it |
| `AlwaysInPlace`, `RecordedIsOnDisk` (`MCSegmentedDownload`, `Spec`) | those of `download_live.cfg` with `Size = 3`, three connections, all of them sources of the whole file, `MaxSegments = 3`, `TreeSources = {}`, `Loaded <- NewFile`, `Mishaps = {"drop"}` | the same place with nothing lost: a connection that fails finds that nothing has been downloaded, another one is told to begin the temporary file anew, a third finishes a segment in it, the first deletes the file and the second creates it again; the finished segment is a hole, and the file is completed with it. `AssemblySpec` is a theorem all the same: what is claimed and recorded is right, what is on disk is not |
| `OverlapIsTakeover` (`MCSegmentedDownload`, `Spec`) | those of `overlap_takeover.cfg` with three connections and `MaxSegments = 3` | `disconnectOverlappedThrow` (`transfer/download/Download.cpp:230`) takes the first download of the bundle that contains the new segment: when the fast source that took over from a slow one is slow itself and is overlapped by a third, the first one, whose disconnection is not finished, is disconnected once more and the second goes on; both write and record the same leaves |
| `FinishedOnce` (`MCSegmentedDownload`, `Spec`) | two connections, `Loaded <- NewFile`, `OverlapSlow = TRUE`, no mishaps | `getDownload` finds the temporary file gone because it has been renamed, and resets an item that another connection has just completed (`queue/QueueManager.cpp:1199`); it is downloaded and completed again |
| `AssemblySpec` (`MCSegmentedDownload`, `Spec`) | a `Loaded` file with finished segments and `treeKnown = FALSE` | without a tree the block is the whole file, so a source that does not give one is asked for all of it, the finished segments included. It takes a hash database that does not have the tree of a file whose segments were saved. Hence `TreesLoaded` in the theorems |
| `EventuallyEnds` (`MCBufferedSocket`, `FairSpec`) | those of `buffered_socket.cfg` with `Mishaps = {"nested"}` | `threadSendFile` (`connection/socket/BufferedSocket.cpp:378`) ignores what `checkEvents` returns: a disconnection that is taken there (`transfer/upload/UploadManager.cpp:772` asks for one without setting `disconnecting`) fails the socket, the owner is deleted, and its shutdown is taken in the same place, where it ends nothing; the thread then waits for ever, and `waitShutdown` for it |
| `EventuallyEnds` (`MCBufferedSocket`, `FairSpec`) | those of `buffered_socket.cfg` with `Mishaps = {"early"}` | a disconnection whose task is added before the one to connect is dropped in `STARTING`; the connection stays |
| `CallsAreRun` (`MCBufferedSocket`, `Spec`) | those of `buffered_socket.cfg` | "Call a function from the socket's thread." (`BufferedSocket.h:103`): `setUser` posts its event before the connection is opened, and `checkEvents` drops it in `STARTING`; the listeners (`favorites/FavoriteUserManager.cpp:315`) do not hear of the user |
| `PathCountersExact` (`MCBundleLifecycle`, `Spec`) | `InitialFiles = {{f1, f2}}`, `UserActions = {}`, `MaxActions = 0` | `BundleQueue::removeBundleItem` (`queue/BundleQueue.cpp:393`) looks at the status of a file that has just finished and counts it out of the finished files of its directory instead of the queued ones; the counter wraps |
| `AlwaysReady` (`MCBundleLifecycle`, `Spec`) | `InitialFiles = {{f1}}`, `UserActions = {"add"}`, `MaxActions = 1` | the refresh (`queue/QueueManager.cpp:3372`), and the task that validates a bundle (1559, 1634), set the status of a bundle to which files have been added since they looked at it |
| `RejectionIsKept` (`MCBundleLifecycle`, `Spec`) | `InitialFiles = {{f1}, {f1, f2}}`, `UserActions = {}`, `MaxActions = 0` | `checkCompletedBundles` (`queue/QueueManager.cpp:3372`) collects the completed bundles under the lock and marks them as shared after it. One that was completed in a former run (`queue/BundleQueue.cpp:50`) is validated again meanwhile; when the hook rejects it, it is marked all the same, and its error is cleared ("no validation errors, ready for sharing", `queue/Bundle.h:57`) |
| `SettledAfterRemoval` (`MCBundleLifecycle`, `FairSpec`) | `InitialFiles = {{f1, f2}}`, `UserActions = {"remove"}`, `MaxActions = 1` | a bundle whose last queued file is removed stays `QUEUED` (`queue/QueueManager.cpp:1526`), its finished files are not validated or shared |
| `NoHasherAfterShutdown` (`MCShareRefresh`, `Spec`) | those of `share_refresh.cfg` with `Mishaps = {"queue"}` | "we cant allow adding more hashers if we are shutting down", but `isShutdown` is tested before the lock (`hash/HashManager.cpp:212`): a scan that has passed the test while the hashers end creates a paused one that never ends; when the wait of the shutdown has not noticed the empty list, it does not end either |
| `IndexExact` (`MCShareRefresh`, `Spec`) | those of `share_refresh.cfg` with `Mishaps = {"readd"}` | a root that is removed and added again while it is being refreshed: the refresh removes the indices of the removed object a second time (`share/ShareTree.cpp:464`) |
| `RunningIsListed` (`MCShareRefresh`, `Spec`, constraint `OnlySecondFinishes`) | those of `share_refresh.cfg` with four threads, `MaxThreads = 4`, `PerVolume = 0`, `DeviceOf <- OneDisk`, `Setups <- TwiceSetup` | a new hasher gets the first number that does not stand at its place in the list (`hash/HashManager.cpp:163`), which is in the order of creation: after the list has been 0, 2, 1 the next one is number 1 again, and the end of either takes both from the list (78). The one that is left out is neither paused nor stopped, and the shutdown does not wait for it. The default number of threads is that of the processor (`settings/SettingsManager.cpp:615`) |
| `EventuallyServed` without `Mislaid` (`MCConnections`, `FairSpec`) | those of `connections.cfg` with one user: `User(FALSE, {f2, f3}, {}, {c1}, 0)` and `Mishaps = {}`, or `User(FALSE, {f2}, {}, {c1}, 1)` and `Mishaps = {"drop"}` or `{"offline"}` | the timer collects an item under a shared lock and removes it under another (`connection/ConnectionManager.cpp:359`): the user comes back or a file is added in between, the request is turned down because the item exists, and the item is then deleted. The same happens when a file is given to an idle connection that fails before it looks (`transfer/download/DownloadManager.cpp:153`), since `failed` has already seen an empty queue (`connection/ConnectionManager.cpp:1310`), and when a broken connection gives its file back after that look. The file stays in the queue without an item until the user is requested for another reason |
| `QueuedMeanwhileIsSeen` (`MCConnections`, `Spec`) | those of `connections.cfg` with `Users <- MixedUser`, `Mishaps = {}` | "We need to check if we have queued something also while the small file connection was being established" (`connection/ConnectionManager.cpp:209`): the check is made when a small connection starts to run (`onDownloadRunning`, 476), by a task that reads the state when it runs (`connection/UserConnection.cpp:193`, `ConnectionManager.cpp:1266`). When the small file is finished by then, the state is idle again and nobody asks for the normal file |
| `EventuallyServed` without `WrongKind` (`MCConnections`, `FairSpec`) | the same | the case above, and two that lead to it: an item that is not known to be for one kind turns down requests for the other (`connection/ConnectionManager.cpp:220`) and continues as one for the first; and an item for any file becomes a small one although the user has a small one, because the test at 425 asks `cqi`, the item itself, instead of `aCQI`, each of the others |
| `EventuallyServed` without `GivenUp` (`MCConnections`, `FairSpec`) | those of `connections.cfg` with the user `User(FALSE, {f2}, {}, {c1}, 1)` and `Mishaps = {"error"}` | as intended by the code: after a protocol error an item is tried again only when it is forced. With `request_ignored`, not even a new request forces it |
| `ReservedSlotsAreFree` (`MCUploadSlots`, `Spec`) | those of `upload_slots.cfg` with a fourth user `u4` and connection `c4`, `Setups <- FourUsers`, `Mishaps = {"break"}` | `notifyQueuedUsers` (`transfer/upload/UploadQueueManager.cpp:150`) subtracts the users already told to come from a byte, which wraps when they are more than the free slots, and then tells everybody to come |
| `FinishedIsOnDisk` (`MCBundleSaving`, `Spec`) | those of `bundle_saving.cfg` with `Setups <- LostSetup` or `LostCrashSetup` | `getDownload` gives up what has been finished of a file whose temporary file is gone (`queue/QueueManager.cpp:1199`), but the bundle is not marked for saving (`queue/QueueItem.cpp:953`); a new temporary file gets the same name, and when the program ends or crashes before the next finished segment, the old segments are loaded as finished although the new file does not hold them: the file is completed with parts missing. With `Setups <- RemovedSetup` the file is lost by a removal: its temporary file is deleted, a crash before the next save brings the file back with its old segments, and a second one finds them again after they were given up |
| `CrashKeeps`, `RestartRestores`, `PromiseSpec` (`MCBundleSaving`, `Spec`) | those of `bundle_saving.cfg` with `Setups <- OverlapSetup`, `Mishaps = {"overlap"}` | the lock that `saveQueue` takes (`queue/QueueManager.cpp:2356`) is shared: when the task thread and the main thread save at once, the second deletes what the first has renamed and has nothing left to rename; the bundle has no file and is not dirty |
| `RestartRestores` (`MCBundleSaving`, `Spec`) | those of `bundle_saving.cfg` with `Setups <- ToggleSetup`, `Mishaps = {"unlocked"}` | `toggleBundleAutoPriority` (`queue/QueueManager.cpp:2163`) changes the bundle and marks it without a lock; a save that has written the old priority clears the mark (`queue/Bundle.cpp:687`) |

Two behaviours the model has and its properties exclude: a file that is removed while a connection
finishes it is subtracted from `queueSize` twice (`QueueSizeExact` holds unless
`"race" \in didUser`), and a bundle the user changes may be completed or shared
again (`CompletedIsReady` and `SharedOnce` hold while `didUser = {}`; `AlwaysReady`
is the claim without that condition).

## 6. Plan

1. (done) `Segments`, `SegmentLoops`, `FileAssembly`, `SegmentedDownload`.
2. (done, without rechecks) `BundleLifecycle`.
3. (done, downloads only) `Connections`.
4. (done, without delayed uploads) `UploadSlots`.
5. (done) `Hashing`, `ShareRefresh`.
6. (done, without `Socket` and TLS) `BufferedSocket` and its owners, with proofs.
7. (done, without file bundles) `BundleSaving`.
8. (done) Proofs: the invariants of every module that has a state machine.
9. (done) Proofs: the refinements of `FileAssembly`, `JudgedBundle`, `SavedBundle` and `Pipe`; action
   properties (a rejection stays); the loops of `SegmentLoops`.
10. To come, models: rechecks, `UserQueue` (a file is found by exactly its sources), task queues and
   delayed events.

## 7. Not modelled

Protocol parsing and formatting, the sockets of the operating system and TLS, user interface, web server
plumbing, configuration data, localisation: I/O and presentation without
protocol state of their own. In `SegmentedDownload`: sizes of unknown files (file lists),
small files and mini slots, speed estimates, source limits and priorities (which
decide *when* something is requested), removing whole files and bundles, rechecks,
and errors of the disk other than a missing or open file.
