------------------------- MODULE SegmentedDownload -------------------------
(***************************************************************************)
(* One queued file that several connections download in segments:          *)
(* QueueManager::getDownload and putDownloadHooked, DownloadManager's      *)
(* connection callbacks, and the QueueItem, Download and Bundle state they *)
(* share.  An action is what one thread does while it holds a lock, so a   *)
(* handler that releases the lock between two steps is two actions.        *)
(*                                                                         *)
(* The unit of length is one leaf of the file's hash tree: segments start  *)
(* and end at leaves (only the last leaf, with ShortTail, may be shorter   *)
(* than the others, which matters for its verification alone).  A download *)
(* has pos complete leaves and perhaps a part of the next one.  The lists  *)
(* of downloads are sets; where the code takes the first of several        *)
(* matching elements the model takes any of them.                          *)
(***************************************************************************)
EXTENDS Segments

CONSTANTS
    Conns,          \* download connections, one for each source of the file
    TreeSources,    \* those the tree is requested from (TTHL, not a small file)
    PartsOf,        \* what a partial source has, {} for a full source
    Liars,          \* sources that may send wrong data
    MultiChunk,     \* SETTING(MULTI_CHUNK)
    OverlapSlow,    \* SETTING(OVERLAP_SLOW_SOURCES)
    MaxSegments,    \* QueueItem::maxSegments
    ShortTail,      \* the last leaf is shorter than the others
    Loaded,         \* what the queue and the hash database may begin with: the
                    \* finished set and whether the tree is known
    Mishaps,        \* what may go wrong or be done by the user, out of
                    \* {"drop", "refuse", "remove", "pause", "vanish"}
    MaxMishaps      \* bound: all of them together

ASSUME SegmentedDownloadAssumption ==
    /\ TreeSources \subseteq Conns /\ Liars \subseteq Conns
    /\ PartsOf \in [Conns -> SUBSET FileSegments]
    /\ {MultiChunk, OverlapSlow, ShortTail} \subseteq BOOLEAN
    /\ MaxSegments \in Nat \ {0} /\ MaxMishaps \in Nat
    /\ Mishaps \subseteq {"drop", "refuse", "remove", "pause", "vanish"}
    /\ Loaded \subseteq [done : SUBSET FileSegments, treeKnown : BOOLEAN]
    /\ \A l \in Loaded : Canonical(l.done) /\ l.done # {WholeFile}

VARIABLES
    \* the QueueItem and its Bundle, under QueueManager::cs
    status,             \* "queued", "downloaded" or "completed"
    sources,
    noTree,             \* sources flagged FLAG_NO_TREE
    done,
    downloads,          \* QueueItem::downloads
    blockSize,
    paused, pauseTask,  \* bundle priority; a pausing task in the task queue
    credited,           \* Bundle::finishedSegments
    completions,        \* times the file has been found completed
    treeKnown,          \* the tree is in the hash database
    bundleDownloads,    \* DownloadManager::cs: Bundle::downloads
    pc, dl, closing,    \* per connection: position, Download, disconnect called
    temp, onDisk,       \* the temporary file and the leaves in it
    target,             \* the finished file
    wasted,             \* history: the temporary file was deleted while it was in use
    mishaps

queueVars == <<status, sources, noTree, done, downloads, blockSize, paused,
               pauseTask, credited, completions, treeKnown>>
fileVars == <<temp, onDisk, target, wasted>>
vars == <<queueVars, bundleDownloads, pc, dl, closing, fileVars, mishaps>>

Leaves == 0 .. Size - 1

NoDownload == [kind |-> "none", seg |-> NoSegment, overlapped |-> FALSE,
               opened |-> FALSE, resume |-> FALSE, pos |-> 0, part |-> "none"]

\* Segment(0, -1) requests a tree.
Download == [kind : {"none", "leaves", "root", "tree"}, seg : Ranges \cup {Blocked, Seg(0, -1)},
             overlapped : BOOLEAN, opened : BOOLEAN, resume : BOOLEAN,
             pos : Nat, part : {"none", "good", "bad"}]

TypeOK ==
    /\ status \in {"queued", "downloaded", "completed"}
    /\ sources \subseteq Conns /\ noTree \subseteq Conns
    /\ done \subseteq Ranges
    /\ downloads \subseteq Conns /\ bundleDownloads \subseteq Conns
    /\ blockSize \in {1, Size}
    /\ {paused, pauseTask, treeKnown, temp, wasted} \subseteq BOOLEAN
    /\ completions \in Nat
    /\ pc \in [Conns -> {"idle", "selected", "assigned", "snd", "opening", "running",
                         "ended", "failing", "put", "putFailed", "storing", "savingTree",
                         "dropping", "deleting", "recording", "renaming"}]
    /\ dl \in [Conns -> Download] /\ closing \in [Conns -> BOOLEAN]
    /\ onDisk \in [Leaves -> {"none", "good", "bad"}]
    /\ target \in {"none", "good", "corrupt", "holes", "missing"}
    /\ mishaps \in 0 .. MaxMishaps

-----------------------------------------------------------------------------
Init ==
    /\ status = "queued" /\ sources = Conns /\ noTree = {}
    /\ \E l \in Loaded : done = l.done /\ treeKnown = l.treeKnown
    /\ downloads = {} /\ bundleDownloads = {}
    /\ blockSize = IF treeKnown THEN 1 ELSE Size
    /\ paused = FALSE /\ pauseTask = FALSE
    /\ credited = Bytes(done) /\ completions = 0
    /\ pc = [c \in Conns |-> "idle"]
    /\ dl = [c \in Conns |-> NoDownload]
    /\ closing = [c \in Conns |-> FALSE]
    /\ temp = (done # {})
    /\ onDisk = [b \in Leaves |-> IF b \in Covered(done) THEN "good" ELSE "none"]
    /\ target = "none" /\ wasted = FALSE /\ mishaps = 0

Go(c, label) == pc' = [pc EXCEPT ![c] = label]

\* One of the mishaps happens.
Mishap(kind) == kind \in Mishaps /\ mishaps < MaxMishaps /\ mishaps' = mishaps + 1

-----------------------------------------------------------------------------
(* QueueItem: what has been downloaded and what can be requested.          *)

\* Wrong variant: only running downloads count.
HasRunningBytes == \E d \in downloads : dl[d].pos > 0 \/ dl[d].part # "none"

\* getDownloadedBytes() > 0
HasBytes ==
    \/ \E g \in done : g.size > 0
    \/ \E d \in downloads : dl[d].pos > 0 \/ dl[d].part # "none"

SegmentsDone(D) == D = {WholeFile}

\* Wrong variant: only downloads that received something are removed.
RemoveUsefulDownload(c) == IF dl[c].pos > 0 THEN downloads \ {c} ELSE downloads

RemoveDownload(c) == downloads \ {c}

\* The slow running downloads whose rest a faster source may take over; speeds
\* and times are left open, so they may also turn out not to be slow.
Overlappable(b) ==
    LET Slow == {d \in downloads :
                    /\ dl[d].kind # "tree" /\ dl[d].opened /\ ~dl[d].overlapped
                    /\ dl[d].pos < dl[d].seg.size}
        rest(x) == LET p == x.pos - (x.pos % b) IN Seg(x.seg.start + p, x.seg.size - p)
    IN  {rest(dl[d]) : d \in Slow}

Choice(s, isOverlap) == [seg |-> s, overlapped |-> isOverlap]

CheckOverlaps(c, b, allowOverlap) ==
    {Choice(NoSegment, FALSE)} \cup
        IF allowOverlap /\ OverlapSlow /\ PartsOf[c] = {}
        THEN {Choice(s, TRUE) : s \in Overlappable(b)}
        ELSE {}

\* getNextSegment for connection c, block size b and wanted size T, when D is
\* finished: the segments it may return.
NextSegment(c, D, b, T, allowOverlap) ==
    LET running == {dl[d].seg : d \in downloads}
        found   == IF PartsOf[c] = {} THEN FirstFree(D, running, b, T)
                                      ELSE NeededParts(D, running, b, T, PartsOf[c])
    IN  IF ~MultiChunk \/ b >= Size
        THEN IF downloads # {} THEN CheckOverlaps(c, b, allowOverlap)
                               ELSE {Choice(SingleRange(D, b), FALSE)}
        ELSE IF paused \/ Cardinality(downloads) >= MaxSegments
             THEN {Choice(Blocked, FALSE)}
        ELSE IF found # {} THEN {Choice(s, FALSE) : s \in found}
        ELSE CheckOverlaps(c, b, allowOverlap)

HasSegment(c) ==
    /\ ~paused /\ ~SegmentsDone(done)
    /\ \/ downloads = {}
       \/ /\ \E d \in downloads : dl[d].kind # "tree"
          /\ \E r \in NextSegment(c, done, blockSize, 1, TRUE) : r.seg.size # 0

\* Recording a finished segment, with the credit of the bundle.
AddFinishedSegment(s) ==
    /\ done' = AddSegment(done, s)
    /\ credited' = credited + NewBytes(done, s)

-----------------------------------------------------------------------------
(* QueueManager::getDownload, called by DownloadManager::checkDownloads.   *)
(* slotAssignCS is held from Select to the end of the assignment.          *)

Select(c) ==
    /\ pc[c] = "idle" /\ ~\E d \in Conns : pc[d] = "selected"
    /\ status = "queued" /\ c \in sources /\ HasSegment(c)
    /\ Go(c, "selected")
    /\ UNCHANGED <<queueVars, bundleDownloads, dl, closing, fileVars, mishaps>>

\* A partial source has no part that is needed.
NoNeededPart(c) ==
    /\ PartsOf[c] # {}
    /\ \A r \in NextSegment(c, done, blockSize, 1, FALSE) :
          r.seg.start # -1 /\ r.seg.size = 0

\* No longer a source, or a partial source that has to be removed.
NotAssigned(c) ==
    /\ pc[c] = "selected"
    /\ c \notin sources \/ NoNeededPart(c)
    /\ sources' = sources \ {c}
    /\ Go(c, "idle")
    /\ UNCHANGED <<status, noTree, done, downloads, blockSize, paused, pauseTask,
                   credited, completions, treeKnown, bundleDownloads, dl, closing,
                   fileVars, mishaps>>

NewDownload(kind, r) ==
    [NoDownload EXCEPT !.kind = kind, !.seg = r.seg, !.overlapped = r.overlapped]

\* Download::initOverlapped: a download containing the new segment is flagged.
Flag(ds, r) ==
    IF ~r.overlapped THEN {ds}
    ELSE LET around == {d \in downloads : Contains(ds[d].seg, r.seg)}
         IN  IF around = {} THEN {ds}
             ELSE {[ds EXCEPT ![d].overlapped = TRUE] : d \in around}

\* The choices of Download::initSegment, D being the finished set.
InitSegment(c, D) ==
    IF treeKnown
    THEN UNION {{NewDownload("leaves", r) : r \in NextSegment(c, D, 1, T, TRUE)} : T \in 1 .. Size}
    ELSE IF c \in TreeSources \ noTree
    THEN {NewDownload("tree", Choice(Seg(0, -1), FALSE))}
    ELSE {NewDownload("root", r) : r \in NextSegment(c, D, Size, Size, FALSE)}

\* Wrong variant: resetDownloaded leaves the bundle alone.
LostNothing(D) == 0

\* resetDownloaded takes the finished bytes back from the bundle.
LostBytes(D) == Bytes(done) - Bytes(D)

\* The temporary file has to be there if something has been downloaded, or all
\* of it is downloaded again; then the Download object is made.
Assign(c) ==
    /\ pc[c] = "selected" /\ c \in sources /\ ~NoNeededPart(c)
    /\ LET D == IF HasBytes /\ ~temp THEN {} ELSE done
       IN  /\ done' = D
           /\ credited' = credited - LostBytes(D)
           /\ \E n \in InitSegment(c, D) :
                 dl' \in {[ds EXCEPT ![c] = n] : ds \in Flag(dl, n)}
    /\ blockSize' = IF treeKnown THEN 1 ELSE blockSize
    /\ downloads' = downloads \cup {c}
    /\ Go(c, "assigned")
    /\ UNCHANGED <<status, sources, noTree, paused, pauseTask, completions, treeKnown,
                   bundleDownloads, closing, fileVars, mishaps>>

\* DownloadManager lists the download and sends the GET command.
Request(c) ==
    /\ pc[c] = "assigned"
    /\ bundleDownloads' = bundleDownloads \cup {c}
    /\ Go(c, "snd")
    /\ UNCHANGED <<queueVars, dl, closing, fileVars, mishaps>>

-----------------------------------------------------------------------------
(* DownloadManager: the connection answers.                                *)

\* Connections that hold the temporary file open.
Opened == {d \in Conns : pc[d] \in {"running", "ended", "failing", "put", "putFailed"}
                         /\ dl[d].opened /\ dl[d].kind # "tree"}

\* The source sends what was requested (startData); a segment of no bytes has
\* then been received already.
Started(c, x) ==
    /\ dl' = [dl EXCEPT ![c] = [x EXCEPT !.opened = TRUE]]
    /\ Go(c, IF x.seg.size = 0 THEN "ended" ELSE "running")

StartTree(c) ==
    /\ pc[c] = "snd" /\ dl[c].kind = "tree"
    /\ Started(c, [dl[c] EXCEPT !.seg = Seg(0, 1)])
    /\ UNCHANGED <<queueVars, bundleDownloads, closing, fileVars, mishaps>>

\* Wrong variant: the fast download finds itself.
OverlappedOrSelf(c) == {d \in bundleDownloads : Contains(dl[d].seg, dl[c].seg)}

\* The slow download that this one overlaps, among the bundle's downloads.
Overlapped(c) ==
    {d \in bundleDownloads \ {c} : Contains(dl[d].seg, dl[c].seg)}

\* startData asks the queue whether there is something to resume.
ReadProgress(c) ==
    /\ pc[c] = "snd" /\ dl[c].kind # "tree" /\ dl[c].seg # Blocked
    /\ dl' = [dl EXCEPT ![c].resume = HasBytes]
    /\ Go(c, "opening")
    /\ UNCHANGED <<queueVars, bundleDownloads, closing, fileVars, mishaps>>

\* Download::open.  The slow download is disconnected unless it has less than
\* ten seconds left; the temporary file is created unless there should be one.
Open(c) ==
    /\ pc[c] = "opening"
    /\ IF dl[c].overlapped
       THEN \E d \in Overlapped(c) : closing' = [closing EXCEPT ![d] = TRUE]
       ELSE UNCHANGED closing
    /\ dl[c].resume => temp
    /\ temp' = TRUE
    /\ Started(c, [dl[c] EXCEPT !.overlapped = FALSE])
    /\ UNCHANGED <<queueVars, bundleDownloads, onDisk, target, wasted, mishaps>>

\* open() throws: the slow download is finished or about to, or the temporary
\* file is missing.
OpenFailed(c) ==
    /\ pc[c] = "opening"
    /\ dl[c].overlapped \/ (dl[c].resume /\ ~temp)
    /\ dl' = [dl EXCEPT ![c].overlapped = FALSE]
    /\ Go(c, "failing")
    /\ UNCHANGED <<queueVars, bundleDownloads, closing, fileVars, mishaps>>

\* removeFileSource without disconnecting: the user is no longer a source.
WithoutSource(c) == IF status = "queued" THEN sources \ {c} ELSE sources

\* The tree arrives; one that does not match the root loses its source.
ReceiveTree(c) ==
    /\ pc[c] = "running" /\ dl[c].kind = "tree"
    /\ \/ Go(c, "ended") /\ UNCHANGED sources
       \/ c \in Liars /\ Go(c, "failing") /\ sources' = WithoutSource(c)
    /\ UNCHANGED <<status, noTree, done, downloads, blockSize, paused, pauseTask,
                   credited, completions, treeKnown, bundleDownloads, dl, closing,
                   fileVars, mishaps>>

Current(c) == dl[c].seg.start + dl[c].pos

Qualities(c) == IF c \in Liars THEN {"good", "bad"} ELSE {"good"}

Tainted(c, q) == IF "bad" \in {q, dl[c].part} THEN "bad" ELSE "good"

\* Some bytes of the current leaf; they are written before the leaf can be
\* verified.
ReceivePart(c) ==
    /\ pc[c] = "running" /\ dl[c].kind # "tree" /\ dl[c].part = "none"
    /\ \E q \in Qualities(c) :
          /\ dl' = [dl EXCEPT ![c].part = q]
          /\ onDisk' = IF q = "bad" THEN [onDisk EXCEPT ![Current(c)] = q] ELSE onDisk
    /\ UNCHANGED <<queueVars, bundleDownloads, pc, closing, temp, target, wasted, mishaps>>

\* MerkleCheckOutputStream compares a leaf when its last byte is written.  With
\* the root as the tree, and for a short last leaf, it is compared by
\* flushBuffers only, whose exception Download::flush swallows.
ComparedOnWrite(c) ==
    dl[c].kind = "leaves" /\ ~(ShortTail /\ Current(c) = Size - 1)

\* The rest of the current leaf, accepted.
ReceiveLeaf(c) ==
    /\ pc[c] = "running" /\ dl[c].kind # "tree"
    /\ \E q \in Qualities(c) :
          /\ ComparedOnWrite(c) => Tainted(c, q) = "good"
          /\ onDisk' = [onDisk EXCEPT ![Current(c)] = Tainted(c, q)]
    /\ dl' = [dl EXCEPT ![c].pos = @ + 1, ![c].part = "none"]
    /\ Go(c, IF dl[c].pos + 1 = dl[c].seg.size THEN "ended" ELSE "running")
    /\ UNCHANGED <<queueVars, bundleDownloads, closing, temp, target, wasted, mishaps>>

\* The rest of the current leaf does not match the tree: it is not written, the
\* source is removed and the bundle will be paused (onDownloadError).
Mismatch(c) ==
    /\ pc[c] = "running" /\ dl[c].kind # "tree" /\ ComparedOnWrite(c)
    /\ \E q \in Qualities(c) : Tainted(c, q) = "bad"
    /\ sources' = WithoutSource(c)
    /\ pauseTask' = TRUE
    /\ Go(c, "failing")
    /\ UNCHANGED <<status, noTree, done, downloads, blockSize, paused, credited,
                   completions, treeKnown, bundleDownloads, dl, closing, fileVars, mishaps>>

\* The connection fails: because it has been disconnected, or by itself.
Drop(c) ==
    /\ pc[c] \in {"snd", "running"}
    /\ IF closing[c] THEN UNCHANGED mishaps ELSE Mishap("drop")
    /\ Go(c, "failing")
    /\ UNCHANGED <<queueVars, bundleDownloads, dl, closing, fileVars>>

\* The source does not have the file or the tree (fileNotAvailable); a request
\* from position -1 is always refused.
NotAvailable(c) ==
    /\ pc[c] = "snd"
    /\ IF dl[c].seg = Blocked THEN UNCHANGED mishaps ELSE Mishap("refuse")
    /\ IF dl[c].kind = "tree"
       THEN noTree' = noTree \cup {c} /\ sources' \in {sources, WithoutSource(c)}
       ELSE sources' = WithoutSource(c) /\ UNCHANGED noTree
    /\ Go(c, "failing")
    /\ UNCHANGED <<status, done, downloads, blockSize, paused, pauseTask, credited,
                   completions, treeKnown, bundleDownloads, dl, closing, fileVars>>

\* DownloadManager::removeDownload, before the download is put back.
RemoveFromManager(c) ==
    /\ pc[c] \in {"ended", "failing"}
    /\ bundleDownloads' = bundleDownloads \ {c}
    /\ Go(c, IF pc[c] = "ended" THEN "put" ELSE "putFailed")
    /\ UNCHANGED <<queueVars, dl, closing, fileVars, mishaps>>

-----------------------------------------------------------------------------
(* QueueManager::putDownloadHooked.                                        *)

\* The Download object is destroyed; after a failure the connection is closed.
Release(c, failed) ==
    /\ Go(c, "idle")
    /\ dl' = [dl EXCEPT ![c] = NoDownload]
    /\ closing' = IF failed THEN [closing EXCEPT ![c] = FALSE] ELSE closing

\* The file is closed and the item found; nothing more is done for an item that
\* is downloaded already ("Trying to finish it twice?").
PutTwice(c) ==
    /\ pc[c] \in {"put", "putFailed"} /\ status # "queued"
    /\ Release(c, pc[c] = "putFailed")
    /\ UNCHANGED <<queueVars, bundleDownloads, fileVars, mishaps>>

Put(c) ==
    /\ pc[c] \in {"put", "putFailed"} /\ status = "queued"
    /\ Go(c, IF pc[c] = "put" THEN "storing" ELSE "dropping")
    /\ UNCHANGED <<queueVars, bundleDownloads, dl, closing, fileVars, mishaps>>

\* onTreeDownloadCompleted
StoreTree(c) ==
    /\ pc[c] = "storing" /\ dl[c].kind = "tree"
    /\ downloads' = RemoveDownload(c)
    /\ Go(c, "savingTree")
    /\ UNCHANGED <<status, sources, noTree, done, blockSize, paused, pauseTask, credited,
                   completions, treeKnown, bundleDownloads, dl, closing, fileVars, mishaps>>

SaveTree(c) ==
    /\ pc[c] = "savingTree"
    /\ treeKnown' = TRUE
    /\ Release(c, FALSE)
    /\ UNCHANGED <<status, sources, noTree, done, downloads, blockSize, paused, pauseTask,
                   credited, completions, bundleDownloads, fileVars, mishaps>>

\* onFileDownloadCompleted, the file is not complete yet
StoreSegment(c) ==
    /\ pc[c] = "storing" /\ dl[c].kind # "tree"
    /\ AddFinishedSegment(dl[c].seg)
    /\ ~SegmentsDone(done')
    /\ downloads' = RemoveDownload(c)
    /\ Release(c, FALSE)
    /\ UNCHANGED <<status, sources, noTree, blockSize, paused, pauseTask, completions,
                   treeKnown, bundleDownloads, fileVars, mishaps>>

\* onFileDownloadCompleted, the file is complete: the other downloads are
\* disconnected, and those of the current sources leave the item (removeQI).
CompleteFile(c) ==
    /\ pc[c] = "storing" /\ dl[c].kind # "tree"
    /\ AddFinishedSegment(dl[c].seg)
    /\ SegmentsDone(done')
    /\ closing' = [d \in Conns |-> closing[d] \/ d \in downloads \ {c}]
    /\ status' = "downloaded"
    /\ downloads' = downloads \ sources
    /\ completions' = completions + 1
    /\ Go(c, "renaming")
    /\ UNCHANGED <<sources, noTree, blockSize, paused, pauseTask, treeKnown,
                   bundleDownloads, dl, fileVars, mishaps>>

\* What renameDownloadedFile moves to the target.
Assembled ==
    IF \E b \in Leaves : onDisk[b] = "none" THEN "holes"
    ELSE IF \E b \in Leaves : onDisk[b] = "bad" THEN "corrupt"
    ELSE "good"

\* A file that is still open, or gone, cannot be renamed; that is only logged.
Rename(c) ==
    /\ pc[c] = "renaming"
    /\ IF temp /\ Opened = {}
       THEN /\ target' = Assembled /\ temp' = FALSE
            /\ onDisk' = [b \in Leaves |-> "none"]
       ELSE /\ target' = IF target = "none" THEN "missing" ELSE target
            /\ UNCHANGED <<temp, onDisk>>
    /\ Release(c, FALSE)
    /\ UNCHANGED <<queueVars, bundleDownloads, wasted, mishaps>>

\* onDownloadFailed first looks, without the lock, whether the temporary file
\* is of any use.
CheckUseless(c) ==
    /\ pc[c] = "dropping"
    /\ Go(c, IF dl[c].kind # "tree" /\ ~HasBytes THEN "deleting" ELSE "recording")
    /\ UNCHANGED <<queueVars, bundleDownloads, dl, closing, fileVars, mishaps>>

\* What is in the temporary file is counted on, although nobody has it open: the file
\* is complete, a download has leaves in it that may be recorded yet, or a connection
\* was told, before others finished some, that there is nothing to resume.
InUse ==
    \/ status # "queued"
    \/ \E d \in downloads :
          dl[d].pos > 0 \/ (pc[d] = "opening" /\ ~dl[d].resume /\ Covered(done) # {})

\* The temporary file goes.
Deleted ==
    /\ temp' = FALSE /\ onDisk' = [b \in Leaves |-> "none"]
    /\ wasted' = (wasted \/ (temp /\ InUse))

\* A file that somebody has open cannot be deleted.
DeleteTemp(c) ==
    /\ pc[c] = "deleting"
    /\ IF Opened = {} THEN Deleted ELSE UNCHANGED <<temp, onDisk, wasted>>
    /\ Go(c, "recording")
    /\ UNCHANGED <<queueVars, bundleDownloads, dl, closing, target, mishaps>>

\* Wrong variant: a leaf that has begun counts.
BegunLeaves(c) == dl[c].pos + (IF dl[c].part = "none" THEN 0 ELSE 1)

\* getPos(), aligned to the block size of the tree
CompleteLeaves(c) == dl[c].pos

\* The complete leaves of a failed download are finished segments as well.
RecordFailed(c) ==
    /\ pc[c] = "recording"
    /\ IF dl[c].kind = "leaves" /\ CompleteLeaves(c) > 0
       THEN AddFinishedSegment(Seg(dl[c].seg.start, CompleteLeaves(c)))
       ELSE UNCHANGED <<done, credited>>
    /\ downloads' = RemoveDownload(c)
    /\ Release(c, TRUE)
    /\ UNCHANGED <<status, sources, noTree, blockSize, paused, pauseTask, completions,
                   treeKnown, bundleDownloads, fileVars, mishaps>>

-----------------------------------------------------------------------------
(* The user and the other threads of the program.                          *)

\* disconnectBundle, called by setBundlePriority for PAUSED_FORCE
Disconnected == [c \in Conns |-> closing[c] \/ c \in bundleDownloads]

\* setBundlePriority by the user: PAUSED or PAUSED_FORCE
Pause ==
    /\ status = "queued" /\ ~paused /\ Mishap("pause")
    /\ paused' = TRUE /\ closing' \in {closing, Disconnected}
    /\ UNCHANGED <<status, sources, noTree, done, downloads, blockSize, pauseTask, credited,
                   completions, treeKnown, bundleDownloads, pc, dl, fileVars>>

\* ... and by the task that onDownloadError adds; it does nothing for a bundle
\* that has been paused by force.
RunPauseTask ==
    /\ status = "queued" /\ pauseTask /\ pauseTask' = FALSE
    /\ paused' = TRUE
    /\ closing' \in IF paused THEN {closing, Disconnected} ELSE {Disconnected}
    /\ UNCHANGED <<status, sources, noTree, done, downloads, blockSize, credited,
                   completions, treeKnown, bundleDownloads, pc, dl, fileVars, mishaps>>

Resume ==
    /\ status = "queued" /\ paused
    /\ paused' = FALSE
    /\ UNCHANGED <<status, sources, noTree, done, downloads, blockSize, pauseTask, credited,
                   completions, treeKnown, bundleDownloads, pc, dl, closing, fileVars, mishaps>>

\* removeFileSource by the user, with abortDownload for a running download.
RemoveSource(c) ==
    /\ c \in sources /\ status = "queued" /\ Mishap("remove")
    /\ sources' = sources \ {c}
    /\ closing' = [closing EXCEPT ![c] = @ \/ (downloads # {} /\ c \in bundleDownloads)]
    /\ UNCHANGED <<status, noTree, done, downloads, blockSize, paused, pauseTask, credited,
                   completions, treeKnown, bundleDownloads, pc, dl, fileVars>>

\* addValidatedSource
AddSource(c) ==
    /\ c \notin sources /\ status = "queued"
    /\ sources' = sources \cup {c}
    /\ UNCHANGED <<status, noTree, done, downloads, blockSize, paused, pauseTask, credited,
                   completions, treeKnown, bundleDownloads, pc, dl, closing, fileVars, mishaps>>

\* Somebody deletes the temporary file.
LoseTemp ==
    /\ temp /\ Opened = {} /\ status = "queued" /\ Mishap("vanish")
    /\ Deleted
    /\ UNCHANGED <<queueVars, bundleDownloads, pc, dl, closing, target>>

\* The task that renameDownloadedFile adds: no completion hook objects.
RunFileCompletionHooks ==
    /\ status = "downloaded" /\ target # "none"
    /\ status' = "completed"
    /\ UNCHANGED <<sources, noTree, done, downloads, blockSize, paused, pauseTask, credited,
                   completions, treeKnown, bundleDownloads, pc, dl, closing, fileVars, mishaps>>

-----------------------------------------------------------------------------
Internal(c) ==
    \/ Open(c) \/ OpenFailed(c)
    \/ NotAssigned(c) \/ Assign(c) \/ Request(c) \/ RemoveFromManager(c)
    \/ PutTwice(c) \/ Put(c) \/ StoreTree(c) \/ SaveTree(c) \/ StoreSegment(c)
    \/ CompleteFile(c) \/ Rename(c) \/ CheckUseless(c) \/ DeleteTemp(c) \/ RecordFailed(c)

Remote(c) ==
    \/ StartTree(c) \/ ReadProgress(c)
    \/ ReceiveTree(c) \/ ReceivePart(c) \/ ReceiveLeaf(c) \/ Mismatch(c)

Next ==
    \/ \E c \in Conns : \/ Select(c) \/ Internal(c) \/ Remote(c)
                        \/ Drop(c) \/ NotAvailable(c)
                        \/ RemoveSource(c) \/ AddSource(c)
    \/ Pause \/ RunPauseTask \/ Resume \/ LoseTemp \/ RunFileCompletionHooks

Spec == Init /\ [][Next]_vars

\* Threads go on, connected sources answer and send, connections that have been
\* disconnected fail, and idle sources are asked again.
Fairness == \A c \in Conns :
    /\ WF_vars(Internal(c)) /\ WF_vars(Remote(c)) /\ WF_vars(Select(c))
    /\ WF_vars(closing[c] /\ Drop(c))
    /\ WF_vars(RunFileCompletionHooks)

FairSpec == Spec /\ Fairness

-----------------------------------------------------------------------------
IsFileDownload(c) == dl[c].kind \in {"leaves", "root"}

\* The progress of the bundle is the progress of its files: what it has been
\* credited for finished segments (Bundle::addFinishedSegment), less what was
\* taken back, is what the file has finished, however the segments merged.
AccountingExact == credited = Bytes(done)

\* Two connections never download the same part of the file, whatever happens
\* between the choice of a file and the choice of its segment (slotAssignCS in
\* QueueManager::getDownload), as long as slow sources are not overlapped.
ExclusiveSegments ==
    \A c, d \in downloads :
        c # d /\ IsFileDownload(c) /\ IsFileDownload(d) => ~Overlaps(dl[c].seg, dl[d].seg)

\* Every leaf that is recorded as finished has been written to the temporary
\* file and agrees with the hash tree, also when it came in before the download
\* failed or after the file was begun anew (onDownloadFailed, MerkleCheckOutputStream,
\* resetDownloaded); only a short last leaf may be wrong.  A file deleted while it was
\* in use is the outcome that the code allows (QueueManager.cpp:1717).
VerifiedOnDisk ==
    temp /\ ~wasted => \A b \in Covered(done) :
        onDisk[b] = "good" \/ (ShortTail /\ b = Size - 1 /\ onDisk[b] # "none")

\* The same whatever has been deleted: onDownloadFailed deletes what is of no use only.
RecordedIsOnDisk == temp => \A b \in Covered(done) : onDisk[b] # "none"

\* The last leaf is no exception: "Use the root as tree to get some sort of
\* validation at least" (Download.cpp:86) and the call to
\* flushBuffers that StreamBase.h:46 demands before the stream is destroyed.
EveryLeafVerified == temp => \A b \in Covered(done) : onDisk[b] = "good"

\* The file is found complete when its segments are done and not before, so that none
\* that is complete stays in the queue, and by one connection only, which moves and reports
\* it (putDownloadHooked: "Trying to finish it twice?").
FinishedOnce ==
    /\ SegmentsDone(done) <=> status # "queued"
    /\ completions = IF SegmentsDone(done) THEN 1 ELSE 0

\* A file that is "ready for sharing" (QueueItem::STATUS_COMPLETED) is in its
\* place with the right content, whatever failed, was reset or deleted before, unless
\* the temporary file was deleted while it was in use: by onDownloadFailed, which decides
\* without the lock (QueueManager.cpp:1717), or by somebody else.
CompletedIsReady == status = "completed" /\ ~wasted => target = "good"

\* No exception: "ready for sharing" says nothing of deleted files.
AlwaysInPlace == status = "completed" => target = "good"

\* As long as the item is queued, no list refers to a download of a connection
\* that has none, so nothing is used after putDownloadHooked has destroyed it.
NoLeftovers ==
    status = "queued" => \A c \in downloads \cup bundleDownloads : pc[c] # "idle"

\* A fast source that overlaps a slow one takes over from it: while both of them
\* receive data, the slow one is being disconnected, so that it is not the fast
\* one that gives way (Download::disconnectOverlappedThrow).
OverlapIsTakeover ==
    \A c, d \in Conns :
        /\ pc[c] = "running" /\ pc[d] = "running" /\ c # d
        /\ IsFileDownload(c) /\ IsFileDownload(d)
        /\ Contains(dl[c].seg, dl[d].seg) /\ dl[c].seg # dl[d].seg
        => closing[c]

\* The file is assembled as FileAssembly says: leaves are claimed by one
\* connection at a time, never claimed again once they are finished, and the
\* file is complete exactly when the last one is.
Assembly == INSTANCE FileAssembly WITH
    Workers <- Conns, Blocks <- Leaves,
    have <- Covered(done),
    claim <- [c \in Conns |->
                IF c \in downloads /\ status = "queued" /\ IsFileDownload(c)
                THEN Positions(dl[c].seg) ELSE {}],
    complete <- status # "queued"

AssemblySpec == Assembly!Spec

\* With sources that keep answering, the file gets downloaded, moved and passed
\* by the hooks in the end, whatever has failed before; all that can hold it up
\* for ever is onDownloadFailed deleting, again and again, a temporary file that
\* other connections have begun to use since it was found to be useless.
EventuallyCompleted ==
    <>(status = "completed") \/ []<><<\E c \in Conns : DeleteTemp(c)>>_vars
=============================================================================
