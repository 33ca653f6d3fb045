---------------------- MODULE SegmentedDownload_proofs ----------------------
(***************************************************************************)
(* What module SegmentedDownload keeps to for every file size, every set   *)
(* of sources, every setting and any number of mishaps.  (The variables    *)
(* and constants of SegmentLoops come in with the lemmas about Segments;   *)
(* nothing here is about them.)                                            *)
(***************************************************************************)
EXTENDS SegmentedDownload, Segments_proofs

\* Besides its type, what the state of a connection says about the segment it
\* requests: a position is within it, data comes only for segments of the file,
\* and a segment that is recorded as finished is one of them.
Sound(c) ==
    dl[c].kind # "tree" =>
        /\ dl[c].seg \in Ranges \cup {Blocked}
        /\ pc[c] \in {"opening", "running", "ended", "put", "storing"} => dl[c].seg \in Ranges
        /\ pc[c] \in {"assigned", "snd", "opening"} => dl[c].pos = 0
        /\ dl[c].pos > 0 => dl[c].seg \in Ranges /\ dl[c].pos <= dl[c].seg.size
        /\ pc[c] = "running" => dl[c].pos < dl[c].seg.size

IInv == TypeOK /\ Canonical(done) /\ \A c \in Conns : Sound(c)

-----------------------------------------------------------------------------
\* Segment(-1, 0) is not a part of the file.
LEMMA BlockedFacts == Blocked.start = -1 /\ Blocked.size = 0 /\ Blocked \notin Ranges
BY DEF Blocked, Seg, Ranges

\* Segment(0, 0) is an empty part of the file.
LEMMA NoSegmentFacts == NoSegment \in Ranges /\ NoSegment.start = 0 /\ NoSegment.size = 0
BY SizeAssumption DEF NoSegment, Seg, Ranges, End

\* Nothing overlaps a segment of no bytes that begins where the file begins, or
\* before it.
LEMMA NothingOverlapsEmpty ==
    ASSUME NEW g \in {NoSegment, Blocked},
           NEW h \in Ranges \cup {Blocked, Seg(0, -1)}
    PROVE  ~Overlaps(g, h) /\ ~Overlaps(h, g)
<1>1. g.start \in {0, -1} /\ End(g) = g.start
  BY BlockedFacts, NoSegmentFacts DEF End
<1>2. h.start \in Int /\ h.start >= -1
  BY SizeAssumption, BlockedFacts DEF Ranges, Seg
<1>3. g = NoSegment => h.start >= 0 \/ h = Blocked
  BY SizeAssumption DEF Ranges, Seg
<1>4. h = Blocked => End(h) = -1
  BY BlockedFacts DEF End
<1>5. g = NoSegment => g.start = 0
  BY NoSegmentFacts
<1>6. g = Blocked => g.start = -1
  BY BlockedFacts
<1> QED BY <1>1, <1>2, <1>3, <1>4, <1>5, <1>6 DEF Overlaps

\* The rest of a running download is a part of the file.
LEMMA OverlappableRanges ==
    ASSUME IInv, NEW b \in {1, Size}
    PROVE  Overlappable(b) \subseteq Ranges
<1> SUFFICES ASSUME NEW d \in downloads, dl[d].kind # "tree", dl[d].pos < dl[d].seg.size
             PROVE  LET p == dl[d].pos - (dl[d].pos % b)
                    IN  Seg(dl[d].seg.start + p, dl[d].seg.size - p) \in Ranges
  BY DEF Overlappable
<1>1. d \in Conns /\ dl[d] \in Download
  BY DEF IInv, TypeOK
<1>2. dl[d].pos \in Nat /\ dl[d].seg \in Ranges
  BY <1>1, BlockedFacts DEF IInv, Sound, Download
<1> DEFINE x == dl[d].pos
           g == dl[d].seg
           p == x - (x % b)
<1>3. g.start \in 0 .. Size /\ g.size \in 0 .. Size /\ g.start + g.size <= Size
  BY <1>2 DEF Ranges, End
<1>4. x \in Nat /\ x < g.size
  BY <1>2
<1> HIDE DEF x, g
<1>5. x < Size
  BY <1>3, <1>4, SizeAssumption
<1>6. p \in {0, x}
  <2>1. CASE b = 1
    BY <2>1, <1>4
  <2>2. CASE b = Size
    BY <2>2, <1>4, <1>5, SizeAssumption
  <2> QED BY <2>1, <2>2
<1> HIDE DEF p
<1>7. Seg(g.start + p, g.size - p) \in Ranges
  BY <1>3, <1>4, <1>6, SizeAssumption DEF Seg, Ranges, End
<1> QED BY <1>7 DEF x, g, p

\* When no slow source is overlapped, a source that finds nothing free gets
\* nothing.
LEMMA CheckOverlapsFacts ==
    ASSUME IInv, NEW c \in Conns, NEW b \in {1, Size}, NEW allowOverlap \in BOOLEAN,
           NEW r \in CheckOverlaps(c, b, allowOverlap)
    PROVE  /\ r.seg \in Ranges /\ r.overlapped \in BOOLEAN
           /\ IF r.overlapped THEN r.seg \in Overlappable(b) ELSE r.seg = NoSegment
           /\ ~OverlapSlow => ~r.overlapped
<1>1. CASE r = Choice(NoSegment, FALSE)
  BY <1>1, NoSegmentFacts DEF Choice
<1>2. CASE r # Choice(NoSegment, FALSE)
  <2>1. OverlapSlow /\ \E s \in Overlappable(b) : r = Choice(s, TRUE)
    BY <1>2 DEF CheckOverlaps
  <2>2. PICK s \in Overlappable(b) : r = Choice(s, TRUE)
    BY <2>1
  <2>3. s \in Ranges
    BY <2>2, OverlappableRanges
  <2> QED BY <2>1, <2>2, <2>3 DEF Choice
<1> QED BY <1>1, <1>2

\* What a connection may be given to request: a part of the file or nothing,
\* and nothing that is being downloaded unless it is the rest of a slow download.
LEMMA NextSegmentFacts ==
    ASSUME IInv, NEW c \in Conns, NEW D \in SUBSET Ranges, Canonical(D),
           NEW b \in {1, Size}, NEW T \in Nat, NEW allowOverlap \in BOOLEAN,
           NEW r \in NextSegment(c, D, b, T, allowOverlap)
    PROVE  /\ r.seg \in Ranges \cup {Blocked} /\ r.overlapped \in BOOLEAN
           /\ IF r.overlapped THEN r.seg \in Overlappable(b)
                              ELSE \A d \in downloads : ~Overlaps(r.seg, dl[d].seg)
           /\ ~OverlapSlow => ~r.overlapped
<1> DEFINE claimed == {dl[d].seg : d \in downloads}
           found == IF PartsOf[c] = {} THEN FirstFree(D, claimed, b, T)
                                       ELSE NeededParts(D, claimed, b, T, PartsOf[c])
<1>1. \A d \in downloads : dl[d].seg \in Ranges \cup {Blocked, Seg(0, -1)}
  BY DEF IInv, TypeOK, Download
<1>2. ASSUME r.seg \in {NoSegment, Blocked}, r.overlapped \in BOOLEAN
      PROVE  /\ r.seg \in Ranges \cup {Blocked} /\ r.overlapped \in BOOLEAN
             /\ \A d \in downloads : ~Overlaps(r.seg, dl[d].seg)
  BY <1>1, <1>2, NoSegmentFacts, NothingOverlapsEmpty
<1>3. CASE r \in CheckOverlaps(c, b, allowOverlap)
  BY <1>2, <1>3, CheckOverlapsFacts
<1>4. CASE r = Choice(SingleRange(D, b), FALSE) /\ downloads = {}
  BY <1>4, SingleRangeRange DEF Choice
<1>5. CASE r = Choice(Blocked, FALSE)
  BY <1>2, <1>5 DEF Choice
<1>6. CASE b = 1 /\ \E s \in found : r = Choice(s, FALSE)
  <2>1. PICK s \in found : r = Choice(s, FALSE)
    BY <1>6
  <2>2. CASE PartsOf[c] = {}
    <3>1. s \in FreeBlocks(D, claimed, 1, T)
      BY <1>6, <2>1, <2>2 DEF FirstFree
    <3>2. s \in Ranges /\ \A g \in claimed : ~Overlaps(s, g)
      BY <3>1, FreeUnitsFacts
    <3> QED BY <2>1, <3>2 DEF Choice
  <2>3. CASE PartsOf[c] # {}
    <3>1. s \in NeededParts(D, claimed, 1, T, PartsOf[c])
      BY <1>6, <2>1, <2>3
    <3>2. PICK f \in FreeBlocks(D, claimed, 1, T), p \in PartsOf[c] :
             Overlaps(f, p) /\ s = Common(f, p)
      BY <3>1 DEF NeededParts
    <3>3. f \in Ranges /\ f.size > 0 /\ \A g \in claimed : ~Overlaps(f, g)
      BY <3>2, FreeUnitsFacts
    <3>4. p \in FileSegments
      BY <3>2, SegmentedDownloadAssumption
    <3>5. p \in Ranges /\ p.size > 0
      BY <3>4, SizeAssumption DEF FileSegments, Ranges
    <3>6. s \in Ranges /\ Contains(f, s)
      BY <3>2, <3>3, <3>5, CommonFacts
    <3>7. \A d \in downloads : dl[d].seg \in [start : Int, size : Int]
      BY <1>1, SizeAssumption DEF Ranges, Blocked, Seg
    <3>8. \A d \in downloads : ~Overlaps(s, dl[d].seg)
      BY <3>3, <3>6, <3>7, PartOverlapsLess
    <3> QED BY <2>1, <3>6, <3>8 DEF Choice
  <2> QED BY <2>2, <2>3
<1>7. \/ r \in CheckOverlaps(c, b, allowOverlap)
      \/ r = Choice(SingleRange(D, b), FALSE) /\ downloads = {}
      \/ r = Choice(Blocked, FALSE)
      \/ b = 1 /\ \E s \in found : r = Choice(s, FALSE)
  <2>1. ~(b >= Size) => b = 1
    BY SizeAssumption
  <2> QED BY <2>1 DEF NextSegment
<1> QED BY <1>3, <1>4, <1>5, <1>6, <1>7

\* The Download objects that QueueManager::getDownload may make for c.
LEMMA InitSegmentFacts ==
    ASSUME IInv, NEW c \in Conns, NEW D \in SUBSET Ranges, Canonical(D),
           NEW n \in InitSegment(c, D)
    PROVE  /\ n \in Download /\ n.pos = 0
           /\ n.kind # "tree" =>
                 /\ n.seg \in Ranges \cup {Blocked}
                 /\ IF n.overlapped THEN \E b \in {1, Size} : n.seg \in Overlappable(b)
                                    ELSE \A d \in downloads : ~Overlaps(n.seg, dl[d].seg)
                 /\ ~OverlapSlow => ~n.overlapped
<1>1. ASSUME NEW kind \in {"leaves", "root"}, NEW b \in {1, Size}, NEW T \in Nat,
             NEW allowOverlap \in BOOLEAN,
             NEW r \in NextSegment(c, D, b, T, allowOverlap), n = NewDownload(kind, r)
      PROVE  /\ n \in Download /\ n.pos = 0
             /\ n.seg \in Ranges \cup {Blocked}
             /\ IF n.overlapped THEN \E x \in {1, Size} : n.seg \in Overlappable(x)
                                ELSE \A d \in downloads : ~Overlaps(n.seg, dl[d].seg)
             /\ ~OverlapSlow => ~n.overlapped
  <2>1. /\ r.seg \in Ranges \cup {Blocked} /\ r.overlapped \in BOOLEAN
        /\ IF r.overlapped THEN r.seg \in Overlappable(b)
                           ELSE \A d \in downloads : ~Overlaps(r.seg, dl[d].seg)
        /\ ~OverlapSlow => ~r.overlapped
    BY NextSegmentFacts
  <2>2. n = [kind |-> kind, seg |-> r.seg, overlapped |-> r.overlapped,
             opened |-> FALSE, resume |-> FALSE, pos |-> 0, part |-> "none"]
    BY <1>1 DEF NewDownload, NoDownload
  <2> QED BY <2>1, <2>2 DEF Download
<1>2. CASE treeKnown
  <2>1. PICK T \in 1 .. Size : \E r \in NextSegment(c, D, 1, T, TRUE) : n = NewDownload("leaves", r)
    BY <1>2 DEF InitSegment
  <2>2. PICK r \in NextSegment(c, D, 1, T, TRUE) : n = NewDownload("leaves", r)
    BY <2>1
  <2>3. T \in Nat
    BY SizeAssumption
  <2> QED BY <1>1, <2>2, <2>3
<1>3. CASE ~treeKnown /\ c \in TreeSources \ noTree
  <2>1. n = NewDownload("tree", Choice(Seg(0, -1), FALSE))
    BY <1>3 DEF InitSegment
  <2>2. n = [kind |-> "tree", seg |-> Seg(0, -1), overlapped |-> FALSE,
             opened |-> FALSE, resume |-> FALSE, pos |-> 0, part |-> "none"]
    BY <2>1 DEF NewDownload, NoDownload, Choice
  <2> QED BY <2>2 DEF Download
<1>4. CASE ~treeKnown /\ c \notin TreeSources \ noTree
  <2>1. PICK r \in NextSegment(c, D, Size, Size, FALSE) : n = NewDownload("root", r)
    BY <1>4 DEF InitSegment
  <2>2. Size \in Nat
    BY SizeAssumption
  <2> QED BY <1>1, <2>1, <2>2
<1> QED BY <1>2, <1>3, <1>4

\* Updates of a Download object.
LEMMA UpdateFlags ==
    ASSUME NEW x \in Download, NEW v \in BOOLEAN
    PROVE  /\ LET y == [x EXCEPT !.overlapped = v]
              IN  y \in Download /\ y.kind = x.kind /\ y.seg = x.seg /\ y.pos = x.pos
           /\ LET y == [x EXCEPT !.opened = v]
              IN  y \in Download /\ y.kind = x.kind /\ y.seg = x.seg /\ y.pos = x.pos
           /\ LET y == [x EXCEPT !.resume = v]
              IN  y \in Download /\ y.kind = x.kind /\ y.seg = x.seg /\ y.pos = x.pos
BY DEF Download

\* A Download object that gets another segment.
LEMMA UpdateSegment ==
    ASSUME NEW x \in Download, NEW g \in Ranges
    PROVE  LET y == [x EXCEPT !.seg = g]
           IN  y \in Download /\ y.kind = x.kind /\ y.pos = x.pos
BY DEF Download

\* A Download object that has received something.
LEMMA UpdatePart ==
    ASSUME NEW x \in Download, NEW q \in {"none", "good", "bad"}
    PROVE  LET y == [x EXCEPT !.part = q]
           IN  y \in Download /\ y.kind = x.kind /\ y.seg = x.seg /\ y.pos = x.pos
BY DEF Download

\* Flagging a slow download changes nothing else of it.
LEMMA FlagFacts ==
    ASSUME TypeOK, NEW r, NEW ds \in Flag(dl, r)
    PROVE  /\ ds \in [Conns -> Download]
           /\ \A d \in Conns : /\ ds[d].kind = dl[d].kind /\ ds[d].seg = dl[d].seg
                               /\ ds[d].pos = dl[d].pos
<1>1. CASE ds = dl
  BY <1>1 DEF TypeOK
<1>2. CASE ds # dl
  <2>1. PICK d \in downloads : ds = [dl EXCEPT ![d].overlapped = TRUE]
    BY <1>2 DEF Flag
  <2>2. d \in Conns /\ dl \in [Conns -> Download]
    BY DEF TypeOK
  <2> DEFINE y == [dl[d] EXCEPT !.overlapped = TRUE]
  <2>3. ds = [dl EXCEPT ![d] = y]
    BY <2>1
  <2>4. y \in Download /\ y.kind = dl[d].kind /\ y.seg = dl[d].seg /\ y.pos = dl[d].pos
    BY <2>2, UpdateFlags
  <2> HIDE DEF y
  <2> QED BY <2>2, <2>3, <2>4
<1> QED BY <1>1, <1>2

\* A flag tells nothing of what has been received.
LEMMA FlagLeaves ==
    ASSUME TypeOK, NEW r, NEW ds \in Flag(dl, r), NEW d \in Conns
    PROVE  ds[d].part = dl[d].part /\ ds[d].opened = dl[d].opened /\ ds[d].resume = dl[d].resume
<1>1. CASE ds = dl
  BY <1>1
<1>2. CASE ds # dl
  <2>1. PICK e \in downloads : ds = [dl EXCEPT ![e].overlapped = TRUE]
    BY <1>2 DEF Flag
  <2> DEFINE y == [dl[e] EXCEPT !.overlapped = TRUE]
  <2>2. e \in Conns /\ dl \in [Conns -> Download] /\ dl[e] \in Download
    BY <2>1 DEF TypeOK
  <2>3. ds = [dl EXCEPT ![e] = y]
    BY <2>1
  <2>4. y.part = dl[e].part /\ y.opened = dl[e].opened /\ y.resume = dl[e].resume
    BY <2>2 DEF Download
  <2> HIDE DEF y
  <2> QED BY <2>2, <2>3, <2>4
<1> QED BY <1>1, <1>2

\* A new Download object has received nothing.
LEMMA NewIsEmpty ==
    ASSUME NEW c, NEW D, NEW n \in InitSegment(c, D)
    PROVE  /\ n.part = "none" /\ ~n.opened /\ n.pos = 0
           /\ n.kind = "tree" => n.seg # Blocked
           /\ n.kind = "root" => c \notin TreeSources \ noTree
<1>1. ASSUME NEW kind, NEW r, n = NewDownload(kind, r)
      PROVE  n.part = "none" /\ ~n.opened /\ n.pos = 0 /\ n.kind = kind /\ n.seg = r.seg
  <2>1. n = [kind |-> kind, seg |-> r.seg, overlapped |-> r.overlapped,
             opened |-> FALSE, resume |-> FALSE, pos |-> 0, part |-> "none"]
    BY <1>1 DEF NewDownload, NoDownload
  <2> QED BY <2>1
<1>2. CASE treeKnown
  <2>1. PICK r : n = NewDownload("leaves", r)
    BY <1>2 DEF InitSegment
  <2> QED BY <1>1, <2>1
<1>3. CASE ~treeKnown /\ c \in TreeSources \ noTree
  <2> DEFINE r == Choice(Seg(0, -1), FALSE)
  <2>1. n = NewDownload("tree", r)
    BY <1>3 DEF InitSegment
  <2>2. r.seg # Blocked
    BY DEF Choice, Seg, Blocked
  <2> HIDE DEF r
  <2> QED BY <1>1, <2>1, <2>2
<1>4. CASE ~treeKnown /\ c \notin TreeSources \ noTree
  <2>1. PICK r : n = NewDownload("root", r)
    BY <1>4 DEF InitSegment
  <2> QED BY <1>1, <1>4, <2>1
<1> QED BY <1>2, <1>3, <1>4

-----------------------------------------------------------------------------
\* Deleting the temporary file keeps the types.
LEMMA DeletedType ==
    ASSUME TypeOK, Deleted
    PROVE  /\ temp' \in BOOLEAN /\ wasted' \in BOOLEAN
           /\ onDisk' \in [Leaves -> {"none", "good", "bad"}]
<1>1. wasted' \in BOOLEAN
  BY DEF Deleted
<1>2. temp' \in BOOLEAN /\ onDisk' \in [Leaves -> {"none", "good", "bad"}]
  BY DEF Deleted
<1> QED BY <1>1, <1>2

\* Steps that leave the downloads and the finished set alone.
LEMMA QuietStep ==
    ASSUME IInv, NEW c \in Conns,
           \/ Select(c) \/ NotAssigned(c) \/ Request(c) \/ ReceiveTree(c) \/ Mismatch(c)
           \/ Drop(c) \/ NotAvailable(c) \/ RemoveFromManager(c) \/ Put(c) \/ StoreTree(c)
           \/ CheckUseless(c) \/ DeleteTemp(c) \/ RemoveSource(c) \/ AddSource(c)
    PROVE  IInv'
<1> USE DEF IInv, TypeOK, Sound, Canonical, Go, Mishap, WithoutSource, queueVars, fileVars
<1>1. CASE Select(c)
  BY <1>1 DEF Select
<1>2. CASE NotAssigned(c)
  BY <1>2 DEF NotAssigned
<1>3. CASE Request(c)
  BY <1>3 DEF Request
<1>4. CASE ReceiveTree(c)
  BY <1>4 DEF ReceiveTree
<1>5. CASE Mismatch(c)
  BY <1>5 DEF Mismatch
<1>6. CASE Drop(c)
  BY <1>6, SegmentedDownloadAssumption DEF Drop
<1>7. CASE NotAvailable(c)
  BY <1>7, SegmentedDownloadAssumption DEF NotAvailable
<1>8. CASE RemoveFromManager(c)
  BY <1>8 DEF RemoveFromManager
<1>9. CASE Put(c)
  BY <1>9 DEF Put
<1>10. CASE StoreTree(c)
  BY <1>10 DEF StoreTree, RemoveDownload
<1>11. CASE CheckUseless(c)
  BY <1>11 DEF CheckUseless
<1>12. CASE DeleteTemp(c)
  BY <1>12, DeletedType DEF DeleteTemp
<1>13. CASE RemoveSource(c)
  BY <1>13, SegmentedDownloadAssumption DEF RemoveSource
<1>14. CASE AddSource(c)
  BY <1>14 DEF AddSource
<1> QED BY <1>1, <1>2, <1>3, <1>4, <1>5, <1>6, <1>7, <1>8, <1>9, <1>10, <1>11, <1>12, <1>13, <1>14

\* Steps of the user and of the other threads.
LEMMA OutsideStep ==
    ASSUME IInv, Pause \/ RunPauseTask \/ Resume \/ LoseTemp \/ RunFileCompletionHooks
    PROVE  IInv'
<1> USE DEF IInv, TypeOK, Sound, Canonical, Mishap, queueVars, fileVars
<1>1. CASE Pause
  <2>1. mishaps' \in 0 .. MaxMishaps
    BY <1>1, SegmentedDownloadAssumption DEF Pause, Mishap
  <2>2. closing' \in [Conns -> BOOLEAN]
    BY <1>1 DEF Pause, Disconnected, IInv, TypeOK
  <2> QED BY <1>1, <2>1, <2>2 DEF Pause
<1>5. CASE RunPauseTask
  <2>1. closing' \in [Conns -> BOOLEAN]
    BY <1>5 DEF RunPauseTask, Disconnected, IInv, TypeOK
  <2> QED BY <1>5, <2>1 DEF RunPauseTask
<1>2. CASE Resume
  BY <1>2 DEF Resume
<1>3. CASE LoseTemp
  <2>1. mishaps' \in 0 .. MaxMishaps
    BY <1>3, SegmentedDownloadAssumption DEF LoseTemp
  <2> QED BY <1>3, <2>1, DeletedType DEF LoseTemp
<1>4. CASE RunFileCompletionHooks
  BY <1>4 DEF RunFileCompletionHooks
<1> QED BY <1>1, <1>2, <1>3, <1>4, <1>5

\* What a connection has to keep to when it changes its download to y and goes
\* to label.
SoundDownload(y, label) ==
    y.kind # "tree" =>
        /\ y.seg \in Ranges \cup {Blocked}
        /\ label \in {"opening", "running", "ended", "put", "storing"} => y.seg \in Ranges
        /\ label \in {"assigned", "snd", "opening"} => y.pos = 0
        /\ y.pos > 0 => y.seg \in Ranges /\ y.pos <= y.seg.size
        /\ label = "running" => y.pos < y.seg.size

\* A step that replaces one Download object by a sound one.
LEMMA ConnectionStep ==
    ASSUME IInv, NEW c \in Conns, NEW y \in Download, NEW label,
           SoundDownload(y, label),
           dl' = [dl EXCEPT ![c] = y], Go(c, label)
    PROVE  dl' \in [Conns -> Download] /\ \A d \in Conns : Sound(d)'
<1>1. dl \in [Conns -> Download] /\ DOMAIN pc = Conns
  BY DEF IInv, TypeOK
<1>2. dl'[c] = y /\ pc'[c] = label
  BY <1>1 DEF Go
<1>3. ASSUME NEW d \in Conns, d # c
      PROVE  dl'[d] = dl[d] /\ pc'[d] = pc[d] /\ Sound(d)
  BY <1>1, <1>3 DEF Go, IInv
<1>4. Sound(c)'
  BY <1>2 DEF Sound, SoundDownload
<1>5. ASSUME NEW d \in Conns, d # c PROVE Sound(d)'
  BY <1>3, <1>5 DEF Sound
<1> QED BY <1>1, <1>4, <1>5

\* A connection without a Download object is sound.
LEMMA NoDownloadFacts == NoDownload \in Download /\ SoundDownload(NoDownload, "idle")
BY NoSegmentFacts DEF NoDownload, Download, SoundDownload

\* A connection is released.
LEMMA ReleaseStep ==
    ASSUME IInv, NEW c \in Conns, NEW failed \in BOOLEAN, Release(c, failed)
    PROVE  /\ dl' \in [Conns -> Download] /\ \A d \in Conns : Sound(d)'
           /\ pc' = [pc EXCEPT ![c] = "idle"]
           /\ closing' \in [Conns -> BOOLEAN]
<1>1. dl' = [dl EXCEPT ![c] = NoDownload] /\ Go(c, "idle")
  BY DEF Release
<1>2. dl' \in [Conns -> Download] /\ \A d \in Conns : Sound(d)'
  BY <1>1, ConnectionStep, NoDownloadFacts
<1>3. closing' \in [Conns -> BOOLEAN]
  BY DEF Release, IInv, TypeOK
<1> QED BY <1>1, <1>2, <1>3 DEF Go

\* The finished set grows by a part of the file.
LEMMA RecordStep ==
    ASSUME IInv, NEW s \in Ranges, AddFinishedSegment(s)
    PROVE  done' \subseteq Ranges /\ Canonical(done')
<1>1. done' = AddSegment(done, s) /\ done \subseteq Ranges /\ Canonical(done)
  BY DEF AddFinishedSegment, IInv, TypeOK
<1> QED BY <1>1, AddSegmentRanges, AddSegmentCanonical

\* Steps that release a connection.
LEMMA ReleasingStep ==
    ASSUME IInv, NEW c \in Conns,
           PutTwice(c) \/ SaveTree(c) \/ StoreSegment(c) \/ Rename(c) \/ RecordFailed(c)
    PROVE  IInv'
<1> USE DEF queueVars, fileVars
<1>1. CASE PutTwice(c)
  <2>1. Release(c, pc[c] = "putFailed")
    BY <1>1 DEF PutTwice
  <2>2. (pc[c] = "putFailed") \in BOOLEAN
    OBVIOUS
  <2> QED BY <1>1, <2>1, <2>2, ReleaseStep DEF PutTwice, IInv, TypeOK, Canonical
<1>2. CASE SaveTree(c)
  BY <1>2, ReleaseStep DEF SaveTree, IInv, TypeOK, Canonical
<1>3. CASE StoreSegment(c)
  <2>1. dl[c].seg \in Ranges /\ AddFinishedSegment(dl[c].seg)
    BY <1>3 DEF StoreSegment, IInv, Sound
  <2>2. done' \subseteq Ranges /\ Canonical(done')
    BY <2>1, RecordStep
  <2> QED BY <1>3, <2>2, ReleaseStep DEF StoreSegment, RemoveDownload, IInv, TypeOK
<1>4. CASE Rename(c)
  <2>1. Release(c, FALSE)
    BY <1>4 DEF Rename
  <2>2. Assembled \in {"holes", "corrupt", "good"}
    BY DEF Assembled
  <2> QED BY <1>4, <2>1, <2>2, ReleaseStep DEF Rename, IInv, TypeOK, Canonical
<1>5. CASE RecordFailed(c)
  <2>1. Release(c, TRUE)
    BY <1>5 DEF RecordFailed
  <2>2. done' \subseteq Ranges /\ Canonical(done')
    <3>1. CASE dl[c].kind = "leaves" /\ CompleteLeaves(c) > 0
      <4>1. dl[c].pos \in Nat
        BY DEF IInv, TypeOK, Download
      <4>2. dl[c].seg \in Ranges /\ dl[c].pos <= dl[c].seg.size
        BY <3>1 DEF CompleteLeaves, IInv, Sound
      <4>3. Seg(dl[c].seg.start, CompleteLeaves(c)) \in Ranges
        BY <4>1, <4>2, SizeAssumption DEF CompleteLeaves, Seg, Ranges, End
      <4> QED BY <1>5, <3>1, <4>3, RecordStep DEF RecordFailed
    <3>2. CASE ~(dl[c].kind = "leaves" /\ CompleteLeaves(c) > 0)
      BY <1>5, <3>2 DEF RecordFailed, IInv, TypeOK, Canonical
    <3> QED BY <3>1, <3>2
  <2> QED BY <1>5, <2>1, <2>2, ReleaseStep DEF RecordFailed, RemoveDownload, IInv, TypeOK
<1> QED BY <1>1, <1>2, <1>3, <1>4, <1>5

\* A download is assigned.
LEMMA AssignStep ==
    ASSUME IInv, NEW c \in Conns, Assign(c)
    PROVE  IInv'
<1> DEFINE D == IF HasBytes /\ ~temp THEN {} ELSE done
<1>1. D \subseteq Ranges /\ Canonical(D)
  BY DEF IInv, TypeOK, Canonical
<1>2. done' = D
  BY DEF Assign
<1>3. PICK n \in InitSegment(c, D) :
         dl' \in {[ds EXCEPT ![c] = n] : ds \in Flag(dl, n)}
  BY DEF Assign
<1> HIDE DEF D
<1>4. n \in Download /\ n.pos = 0 /\ (n.kind # "tree" => n.seg \in Ranges \cup {Blocked})
  BY <1>1, <1>3, InitSegmentFacts
<1>5. PICK ds \in Flag(dl, n) : dl' = [ds EXCEPT ![c] = n]
  BY <1>3
<1>6. /\ ds \in [Conns -> Download]
      /\ \A d \in Conns : /\ ds[d].kind = dl[d].kind /\ ds[d].seg = dl[d].seg
                          /\ ds[d].pos = dl[d].pos
  BY <1>5, FlagFacts DEF IInv
<1>7. dl' \in [Conns -> Download]
  BY <1>4, <1>5, <1>6
<1>8. pc \in [Conns -> {"idle", "selected", "assigned", "snd", "opening", "running",
                         "ended", "failing", "put", "putFailed", "storing", "savingTree",
                         "dropping", "deleting", "recording", "renaming"}]
  BY DEF IInv, TypeOK
<1>9. pc' = [pc EXCEPT ![c] = "assigned"]
  BY DEF Assign, Go
<1>10. ASSUME NEW d \in Conns PROVE Sound(d)'
  <2>1. CASE d = c
    <3>1. dl'[d] = n /\ pc'[d] = "assigned"
      BY <2>1, <1>5, <1>6, <1>8, <1>9
    <3> QED BY <3>1, <1>4 DEF Sound
  <2>2. CASE d # c
    <3>1. dl'[d] = ds[d] /\ pc'[d] = pc[d] /\ Sound(d)
      BY <2>2, <1>5, <1>6, <1>8, <1>9 DEF IInv
    <3>2. dl'[d].kind = dl[d].kind /\ dl'[d].seg = dl[d].seg /\ dl'[d].pos = dl[d].pos
      BY <3>1, <1>6
    <3> QED BY <3>1, <3>2 DEF Sound
  <2> QED BY <2>1, <2>2
<1>11. blockSize' \in {1, Size} /\ downloads' \subseteq Conns
  BY DEF Assign, IInv, TypeOK
<1>12. Canonical(done')
  BY <1>1, <1>2
<1> QED BY <1>1, <1>2, <1>7, <1>8, <1>9, <1>10, <1>11, <1>12
        DEF Assign, IInv, TypeOK, fileVars, Canonical

\* A request is answered, or its file is opened.
LEMMA StartingStep ==
    ASSUME IInv, NEW c \in Conns,
           StartTree(c) \/ ReadProgress(c) \/ Open(c) \/ OpenFailed(c)
    PROVE  IInv'
<1> USE DEF queueVars, fileVars
<1>1. dl[c] \in Download /\ Sound(c) /\ dl[c].pos \in Nat
  BY DEF IInv, TypeOK, Download
<1>2. DOMAIN pc = Conns /\ dl \in [Conns -> Download]
  BY DEF IInv, TypeOK
<1>3. CASE StartTree(c)
  <2> DEFINE x == [dl[c] EXCEPT !.seg = Seg(0, 1)]
             y == [x EXCEPT !.opened = TRUE]
             label == IF x.seg.size = 0 THEN "ended" ELSE "running"
  <2>1. Seg(0, 1) \in Ranges
    BY SizeAssumption DEF Seg, Ranges, End
  <2>2. x \in Download /\ x.kind = "tree"
    BY <1>1, <1>3, <2>1, UpdateSegment DEF StartTree
  <2>3. dl' = [dl EXCEPT ![c] = y] /\ Go(c, label)
    BY <1>3 DEF StartTree, Started
  <2>4. label \in {"ended", "running"}
    OBVIOUS
  <2> HIDE DEF x, label
  <2>5. y \in Download /\ y.kind = "tree"
    BY <2>2, UpdateFlags
  <2> HIDE DEF y
  <2>6. SoundDownload(y, label)
    BY <2>5 DEF SoundDownload
  <2>7. dl' \in [Conns -> Download] /\ \A d \in Conns : Sound(d)'
    BY <2>3, <2>5, <2>6, ConnectionStep
  <2> QED BY <1>3, <2>3, <2>4, <2>7 DEF StartTree, Go, IInv, TypeOK, Canonical
<1>4. CASE ReadProgress(c)
  <2> DEFINE y == [dl[c] EXCEPT !.resume = HasBytes]
  <2>1. HasBytes \in BOOLEAN
    BY DEF HasBytes
  <2>2. y \in Download /\ y.kind = dl[c].kind /\ y.seg = dl[c].seg /\ y.pos = dl[c].pos
    BY <1>1, <2>1, UpdateFlags
  <2>3. dl' = [dl EXCEPT ![c] = y] /\ Go(c, "opening")
    BY <1>4 DEF ReadProgress
  <2> HIDE DEF y
  <2>4. SoundDownload(y, "opening")
    BY <1>1, <1>4, <2>2 DEF SoundDownload, Sound, ReadProgress
  <2>5. dl' \in [Conns -> Download] /\ \A d \in Conns : Sound(d)'
    BY <2>2, <2>3, <2>4, ConnectionStep
  <2> QED BY <1>4, <2>3, <2>5 DEF ReadProgress, Go, IInv, TypeOK, Canonical
<1>5. CASE Open(c)
  <2> DEFINE x == [dl[c] EXCEPT !.overlapped = FALSE]
             y == [x EXCEPT !.opened = TRUE]
             label == IF x.seg.size = 0 THEN "ended" ELSE "running"
  <2>1. x \in Download /\ x.kind = dl[c].kind /\ x.seg = dl[c].seg /\ x.pos = dl[c].pos
    BY <1>1, UpdateFlags
  <2>2. dl' = [dl EXCEPT ![c] = y] /\ Go(c, label)
    BY <1>5 DEF Open, Started
  <2>3. label \in {"ended", "running"} /\ (x.seg.size # 0 <=> label = "running")
    OBVIOUS
  <2> HIDE DEF x, label
  <2>4. y \in Download /\ y.kind = x.kind /\ y.seg = x.seg /\ y.pos = x.pos
    BY <2>1, UpdateFlags
  <2> HIDE DEF y
  <2>5. SoundDownload(y, label)
    <3> SUFFICES ASSUME y.kind # "tree" PROVE SoundDownload(y, label)
      BY DEF SoundDownload
    <3>1. y.seg \in Ranges /\ y.pos = 0
      BY <1>1, <1>5, <2>1, <2>4 DEF Sound, Open, IInv
    <3>2. y.seg.size \in Nat
      BY <3>1, SizeAssumption DEF Ranges
    <3> QED BY <3>1, <3>2, <2>3, <2>4 DEF SoundDownload
  <2>6. dl' \in [Conns -> Download] /\ \A d \in Conns : Sound(d)'
    BY <2>2, <2>4, <2>5, ConnectionStep
  <2>7. closing' \in [Conns -> BOOLEAN]
    BY <1>5 DEF Open, IInv, TypeOK
  <2> QED BY <1>5, <2>2, <2>3, <2>6, <2>7 DEF Open, Go, IInv, TypeOK, Canonical
<1>6. CASE OpenFailed(c)
  <2> DEFINE y == [dl[c] EXCEPT !.overlapped = FALSE]
  <2>1. y \in Download /\ y.kind = dl[c].kind /\ y.seg = dl[c].seg /\ y.pos = dl[c].pos
    BY <1>1, UpdateFlags
  <2>2. dl' = [dl EXCEPT ![c] = y] /\ Go(c, "failing")
    BY <1>6 DEF OpenFailed
  <2> HIDE DEF y
  <2>3. SoundDownload(y, "failing")
    BY <1>1, <2>1 DEF SoundDownload, Sound
  <2>4. dl' \in [Conns -> Download] /\ \A d \in Conns : Sound(d)'
    BY <2>1, <2>2, <2>3, ConnectionStep
  <2> QED BY <1>6, <2>2, <2>4 DEF OpenFailed, Go, IInv, TypeOK, Canonical
<1> QED BY <1>3, <1>4, <1>5, <1>6

\* Data is received.
LEMMA ReceivingStep ==
    ASSUME IInv, NEW c \in Conns, ReceivePart(c) \/ ReceiveLeaf(c)
    PROVE  IInv'
<1> USE DEF queueVars
<1>1. dl[c] \in Download /\ pc[c] = "running" /\ dl[c].kind # "tree" /\ Sound(c)
  BY DEF IInv, TypeOK, ReceivePart, ReceiveLeaf
<1>2. /\ dl[c].pos \in Nat /\ dl[c].seg \in Ranges /\ dl[c].pos < dl[c].seg.size
      /\ dl[c].seg \in Ranges \cup {Blocked}
  BY <1>1 DEF Sound, Download
<1>3. Current(c) \in Leaves
  BY <1>2, SizeAssumption DEF Current, Leaves, Ranges, End
<1>4. DOMAIN pc = Conns /\ onDisk \in [Leaves -> {"none", "good", "bad"}]
  BY DEF IInv, TypeOK
<1>5. CASE ReceivePart(c)
  <2>1. PICK q \in Qualities(c) :
          /\ dl' = [dl EXCEPT ![c].part = q]
          /\ onDisk' = IF q = "bad" THEN [onDisk EXCEPT ![Current(c)] = q] ELSE onDisk
    BY <1>5 DEF ReceivePart
  <2>2. q \in {"none", "good", "bad"}
    BY <2>1 DEF Qualities
  <2> DEFINE y == [dl[c] EXCEPT !.part = q]
  <2>3. y \in Download /\ y.kind = dl[c].kind /\ y.seg = dl[c].seg /\ y.pos = dl[c].pos
    BY <1>1, <2>2, UpdatePart
  <2>4. dl' = [dl EXCEPT ![c] = y] /\ Go(c, "running")
    <3>1. pc' = pc
      BY <1>5 DEF ReceivePart
    <3>2. pc = [pc EXCEPT ![c] = "running"]
      BY <1>1 DEF IInv, TypeOK
    <3> QED BY <2>1, <3>1, <3>2 DEF Go
  <2> HIDE DEF y
  <2>5. SoundDownload(y, "running")
    BY <1>1, <1>2, <2>3 DEF SoundDownload, Sound
  <2>6. dl' \in [Conns -> Download] /\ \A d \in Conns : Sound(d)'
    BY <2>3, <2>4, <2>5, ConnectionStep
  <2>7. onDisk' \in [Leaves -> {"none", "good", "bad"}]
    BY <1>3, <1>4, <2>1
  <2> QED BY <1>5, <2>6, <2>7 DEF ReceivePart, IInv, TypeOK, Canonical
<1>6. CASE ReceiveLeaf(c)
  <2> DEFINE x == [dl[c] EXCEPT !.pos = dl[c].pos + 1]
             y == [x EXCEPT !.part = "none"]
             label == IF dl[c].pos + 1 = dl[c].seg.size THEN "ended" ELSE "running"
  <2>1. dl' = [dl EXCEPT ![c] = y] /\ Go(c, label)
    BY <1>6 DEF ReceiveLeaf
  <2>2. x \in Download /\ x.kind = dl[c].kind /\ x.seg = dl[c].seg /\ x.pos = dl[c].pos + 1
    BY <1>1, <1>2 DEF Download
  <2> HIDE DEF x
  <2>3. y \in Download /\ y.kind = x.kind /\ y.seg = x.seg /\ y.pos = x.pos
    BY <2>2, UpdatePart
  <2> HIDE DEF y
  <2>4. label \in {"ended", "running"} /\ (label = "running" => dl[c].pos + 1 # dl[c].seg.size)
    OBVIOUS
  <2> HIDE DEF label
  <2>5. dl[c].seg.size \in Nat
    BY <1>2, SizeAssumption DEF Ranges
  <2>6. SoundDownload(y, label)
    BY <1>1, <1>2, <2>2, <2>3, <2>4, <2>5 DEF SoundDownload
  <2>7. dl' \in [Conns -> Download] /\ \A d \in Conns : Sound(d)'
    BY <2>1, <2>3, <2>6, ConnectionStep
  <2>8. onDisk' \in [Leaves -> {"none", "good", "bad"}]
    BY <1>3, <1>4, <1>6 DEF ReceiveLeaf, Tainted
  <2> QED BY <1>6, <2>1, <2>4, <2>7, <2>8 DEF ReceiveLeaf, Go, IInv, TypeOK, Canonical
<1> QED BY <1>5, <1>6

\* The last segment is recorded.
LEMMA CompletingStep ==
    ASSUME IInv, NEW c \in Conns, CompleteFile(c)
    PROVE  IInv'
<1>1. dl[c].seg \in Ranges /\ AddFinishedSegment(dl[c].seg)
  BY DEF CompleteFile, IInv, Sound
<1>2. done' \subseteq Ranges /\ Canonical(done')
  BY <1>1, RecordStep
<1>3. dl' = dl /\ \A d \in Conns : Sound(d)'
  BY DEF CompleteFile, IInv, TypeOK, Sound, Go
<1>4. closing' \in [Conns -> BOOLEAN]
  <2>1. closing' = [d \in Conns |-> closing[d] \/ d \in downloads \ {c}]
    BY DEF CompleteFile
  <2>2. \A d \in Conns : (closing[d] \/ d \in downloads \ {c}) \in BOOLEAN
    OBVIOUS
  <2> QED BY <2>1, <2>2
<1>5. pc' = [pc EXCEPT ![c] = "renaming"] /\ status' = "downloaded"
  BY DEF CompleteFile, Go
<1> QED BY <1>2, <1>3, <1>4, <1>5 DEF CompleteFile, IInv, TypeOK, fileVars

-----------------------------------------------------------------------------
\* The state a file is loaded with satisfies the invariant.
LEMMA InitIInv == Init => IInv
<1> SUFFICES ASSUME Init PROVE IInv
  OBVIOUS
<1>1. PICK l \in Loaded : done = l.done /\ treeKnown = l.treeKnown
  BY DEF Init
<1>2. done \subseteq Ranges /\ Canonical(done) /\ treeKnown \in BOOLEAN
  <2>1. l \in [done : SUBSET FileSegments, treeKnown : BOOLEAN] /\ Canonical(l.done)
    BY <1>1, SegmentedDownloadAssumption
  <2>2. FileSegments \subseteq Ranges
    BY SizeAssumption DEF FileSegments, Ranges
  <2> QED BY <1>1, <2>1, <2>2
<1>3. dl \in [Conns -> Download] /\ \A c \in Conns : Sound(c)
  BY NoDownloadFacts DEF Init, Sound, SoundDownload
<1>4. onDisk \in [Leaves -> {"none", "good", "bad"}]
  BY DEF Init
<1>5. temp \in BOOLEAN
  BY DEF Init
<1>6. mishaps \in 0 .. MaxMishaps
  BY SegmentedDownloadAssumption DEF Init
<1> QED BY <1>2, <1>3, <1>4, <1>5, <1>6 DEF Init, IInv, TypeOK

\* Every step keeps the invariant.
LEMMA NextIInv == IInv /\ [Next]_vars => IInv'
<1> SUFFICES ASSUME IInv, [Next]_vars PROVE IInv'
  OBVIOUS
<1>1. CASE UNCHANGED vars
  BY <1>1 DEF vars, queueVars, fileVars, IInv, TypeOK, Sound, Canonical
<1>2. ASSUME NEW c \in Conns, Select(c) \/ Internal(c) \/ Remote(c) \/ Drop(c)
                              \/ NotAvailable(c) \/ RemoveSource(c) \/ AddSource(c)
      PROVE  IInv'
  BY <1>2, QuietStep, ReleasingStep, AssignStep, StartingStep, ReceivingStep,
     CompletingStep DEF Internal, Remote
<1>3. CASE Pause \/ RunPauseTask \/ Resume \/ LoseTemp \/ RunFileCompletionHooks
  BY <1>3, OutsideStep
<1> QED BY <1>1, <1>2, <1>3 DEF Next

\* The invariant holds in every reachable state: positions stay within the
\* requested segments and the finished set within the file, and merged.
THEOREM InductiveInvariant == Spec => []IInv
BY InitIInv, NextIInv, PTL DEF Spec

\* Every variable keeps its type: in particular, every segment that is requested
\* or recorded lies within the file, whatever the sources do
\* (QueueItem::getNextSegment, addFinishedSegment).
THEOREM TypeCorrect == Spec => []TypeOK
<1>1. IInv => TypeOK
  BY DEF IInv
<1> QED BY <1>1, InductiveInvariant, PTL

\* No two finished segments ever touch each other: the one pass of
\* QueueItem::addFinishedSegment is enough in every history of the file.
THEOREM DoneStaysMerged == Spec => [](Canonical(done))
<1>1. IInv => Canonical(done)
  BY DEF IInv
<1> QED BY <1>1, InductiveInvariant, PTL

-----------------------------------------------------------------------------
\* Only an assignment adds a download or gives one another segment.
KeepsSegments ==
    /\ downloads' \subseteq downloads
    /\ \A d \in Conns : dl'[d].kind \in {"leaves", "root"} =>
          dl'[d].kind = dl[d].kind /\ dl'[d].seg = dl[d].seg

\* A step that replaces one download by y.
LEMMA ReplaceKeeps ==
    ASSUME TypeOK, NEW c \in Conns, NEW y, dl' = [dl EXCEPT ![c] = y],
           y.kind \in {"leaves", "root"} => y.kind = dl[c].kind /\ y.seg = dl[c].seg,
           downloads' \subseteq downloads
    PROVE  KeepsSegments
BY DEF TypeOK, KeepsSegments

\* Destroying a Download object disturbs no other segment.
LEMMA ReleaseKeeps ==
    ASSUME TypeOK, NEW c \in Conns, NEW failed, Release(c, failed),
           downloads' \subseteq downloads
    PROVE  KeepsSegments
<1>1. dl' = [dl EXCEPT ![c] = NoDownload]
  BY DEF Release
<1>2. NoDownload.kind = "none"
  BY DEF NoDownload
<1> QED BY <1>1, <1>2, ReplaceKeeps

\* No step of a connection but its assignment lets segments overlap.
LEMMA OtherStepsKeep ==
    ASSUME TypeOK, NEW c \in Conns,
           \/ Select(c) \/ Remote(c) \/ Drop(c) \/ NotAvailable(c)
           \/ RemoveSource(c) \/ AddSource(c) \/ (Internal(c) /\ ~Assign(c))
    PROVE  KeepsSegments
<1> USE DEF queueVars
<1>1. ASSUME UNCHANGED <<dl, downloads>> PROVE KeepsSegments
  BY <1>1 DEF KeepsSegments
<1>2. CASE \/ Select(c) \/ ReceiveTree(c) \/ Mismatch(c) \/ Drop(c) \/ NotAvailable(c)
           \/ RemoveSource(c) \/ AddSource(c) \/ NotAssigned(c) \/ Request(c)
           \/ RemoveFromManager(c) \/ Put(c) \/ CheckUseless(c) \/ DeleteTemp(c)
  BY <1>1, <1>2 DEF Select, ReceiveTree, Mismatch, Drop, NotAvailable, RemoveSource,
     AddSource, NotAssigned, Request, RemoveFromManager, Put, CheckUseless, DeleteTemp
<1>3. CASE StoreTree(c) \/ CompleteFile(c)
  BY <1>3 DEF StoreTree, CompleteFile, RemoveDownload, KeepsSegments
<1>4. CASE \/ PutTwice(c) \/ SaveTree(c) \/ StoreSegment(c) \/ Rename(c) \/ RecordFailed(c)
  <2>1. \E failed \in BOOLEAN : Release(c, failed)
    BY <1>4 DEF PutTwice, SaveTree, StoreSegment, Rename, RecordFailed
  <2>2. downloads' \subseteq downloads
    BY <1>4 DEF PutTwice, SaveTree, StoreSegment, Rename, RecordFailed, RemoveDownload
  <2> QED BY <2>1, <2>2, ReleaseKeeps
<1>5. dl[c] \in Download
  BY DEF TypeOK
<1>6. ASSUME NEW y, dl' = [dl EXCEPT ![c] = y], downloads' = downloads,
             y.kind = dl[c].kind, y.seg = dl[c].seg \/ dl[c].kind = "tree"
      PROVE  KeepsSegments
  BY <1>6, ReplaceKeeps
<1>7. CASE StartTree(c)
  <2> DEFINE x == [dl[c] EXCEPT !.seg = Seg(0, 1)]
             y == [x EXCEPT !.opened = TRUE]
  <2>1. y.kind = dl[c].kind
    BY <1>5 DEF Download
  <2>2. dl' = [dl EXCEPT ![c] = y] /\ dl[c].kind = "tree" /\ downloads' = downloads
    BY <1>7 DEF StartTree, Started
  <2> HIDE DEF y
  <2> QED BY <1>6, <2>1, <2>2
<1>8. CASE ReadProgress(c)
  <2> DEFINE y == [dl[c] EXCEPT !.resume = HasBytes]
  <2>1. y.kind = dl[c].kind /\ y.seg = dl[c].seg
    BY <1>5 DEF Download
  <2>2. dl' = [dl EXCEPT ![c] = y] /\ downloads' = downloads
    BY <1>8 DEF ReadProgress
  <2> HIDE DEF y
  <2> QED BY <1>6, <2>1, <2>2
<1>9. CASE Open(c)
  <2> DEFINE x == [dl[c] EXCEPT !.overlapped = FALSE]
             y == [x EXCEPT !.opened = TRUE]
  <2>1. y.kind = dl[c].kind /\ y.seg = dl[c].seg
    BY <1>5 DEF Download
  <2>2. dl' = [dl EXCEPT ![c] = y] /\ downloads' = downloads
    BY <1>9 DEF Open, Started
  <2> HIDE DEF y
  <2> QED BY <1>6, <2>1, <2>2
<1>10. CASE OpenFailed(c)
  <2> DEFINE y == [dl[c] EXCEPT !.overlapped = FALSE]
  <2>1. y.kind = dl[c].kind /\ y.seg = dl[c].seg
    BY <1>5 DEF Download
  <2>2. dl' = [dl EXCEPT ![c] = y] /\ downloads' = downloads
    BY <1>10 DEF OpenFailed
  <2> HIDE DEF y
  <2> QED BY <1>6, <2>1, <2>2
<1>11. CASE ReceivePart(c)
  <2>1. PICK q \in Qualities(c) : dl' = [dl EXCEPT ![c].part = q]
    BY <1>11 DEF ReceivePart
  <2> DEFINE y == [dl[c] EXCEPT !.part = q]
  <2>2. y.kind = dl[c].kind /\ y.seg = dl[c].seg
    BY <1>5 DEF Download
  <2>3. dl' = [dl EXCEPT ![c] = y] /\ downloads' = downloads
    BY <1>11, <2>1 DEF ReceivePart
  <2> HIDE DEF y
  <2> QED BY <1>6, <2>2, <2>3
<1>12. CASE ReceiveLeaf(c)
  <2> DEFINE x == [dl[c] EXCEPT !.pos = dl[c].pos + 1]
             y == [x EXCEPT !.part = "none"]
  <2>1. y.kind = dl[c].kind /\ y.seg = dl[c].seg
    BY <1>5 DEF Download
  <2>2. dl' = [dl EXCEPT ![c] = y] /\ downloads' = downloads
    BY <1>12 DEF ReceiveLeaf
  <2> HIDE DEF y
  <2> QED BY <1>6, <2>1, <2>2
<1> QED BY <1>2, <1>3, <1>4, <1>7, <1>8, <1>9, <1>10, <1>11, <1>12 DEF Internal, Remote

\* An assigned segment overlaps none that is being downloaded.
LEMMA AssignIsExclusive ==
    ASSUME IInv, ~OverlapSlow, ExclusiveSegments, NEW c \in Conns, Assign(c)
    PROVE  ExclusiveSegments'
<1> DEFINE D == IF HasBytes /\ ~temp THEN {} ELSE done
<1>1. D \subseteq Ranges /\ Canonical(D)
  BY DEF IInv, TypeOK, Canonical
<1>2. PICK n \in InitSegment(c, D) :
         dl' \in {[ds EXCEPT ![c] = n] : ds \in Flag(dl, n)}
  BY DEF Assign
<1> HIDE DEF D
<1>3. n.kind # "tree" => \A d \in downloads : ~Overlaps(n.seg, dl[d].seg)
  BY <1>1, <1>2, InitSegmentFacts
<1>4. PICK ds \in Flag(dl, n) : dl' = [ds EXCEPT ![c] = n]
  BY <1>2
<1>5. /\ ds \in [Conns -> Download]
      /\ \A d \in Conns : ds[d].kind = dl[d].kind /\ ds[d].seg = dl[d].seg
  BY <1>4, FlagFacts DEF IInv
<1>6. dl'[c] = n /\ \A d \in Conns \ {c} : dl'[d].kind = dl[d].kind /\ dl'[d].seg = dl[d].seg
  BY <1>4, <1>5
<1>7. downloads' = downloads \cup {c} /\ downloads \subseteq Conns
  BY DEF Assign, IInv, TypeOK
<1>8. \A g, h : Overlaps(g, h) => Overlaps(h, g)
  BY DEF Overlaps
<1>9. ASSUME NEW d \in downloads', d # c, IsFileDownload(c)'
      PROVE  ~Overlaps(dl'[c].seg, dl'[d].seg) /\ ~Overlaps(dl'[d].seg, dl'[c].seg)
  BY <1>3, <1>6, <1>7, <1>8, <1>9 DEF IsFileDownload
<1> QED BY <1>6, <1>7, <1>9 DEF ExclusiveSegments, IsFileDownload

\* Unless slow sources are overlapped, two connections never download the same
\* part of the file (slotAssignCS and QueueItem::getNextSegment).
THEOREM SegmentsExclusive ==
    ASSUME ~OverlapSlow
    PROVE  Spec => []ExclusiveSegments
<1>1. Init => ExclusiveSegments
  BY DEF Init, ExclusiveSegments
<1>2. IInv /\ ExclusiveSegments /\ [Next]_vars => ExclusiveSegments'
  <2> SUFFICES ASSUME IInv, ExclusiveSegments, [Next]_vars PROVE ExclusiveSegments'
    OBVIOUS
  <2>1. ASSUME KeepsSegments PROVE ExclusiveSegments'
    BY <2>1 DEF KeepsSegments, ExclusiveSegments, IsFileDownload, IInv, TypeOK
  <2>2. CASE UNCHANGED vars
    BY <2>1, <2>2 DEF vars, queueVars, KeepsSegments
  <2>3. CASE Pause \/ RunPauseTask \/ Resume \/ LoseTemp \/ RunFileCompletionHooks
    BY <2>1, <2>3 DEF Pause, RunPauseTask, Resume, LoseTemp, RunFileCompletionHooks, queueVars, KeepsSegments
  <2>4. CASE \E c \in Conns : Assign(c)
    BY <2>4, AssignIsExclusive
  <2>5. CASE \E c \in Conns : \/ Select(c) \/ Remote(c) \/ Drop(c) \/ NotAvailable(c)
                             \/ RemoveSource(c) \/ AddSource(c)
                             \/ (Internal(c) /\ ~Assign(c))
    BY <2>1, <2>5, OtherStepsKeep DEF IInv
  <2> QED BY <2>2, <2>3, <2>4, <2>5 DEF Next
<1> QED BY <1>1, <1>2, InductiveInvariant, PTL DEF Spec

-----------------------------------------------------------------------------
\* Where the connections of listed downloads may be: the manager lists a download
\* from its request to its end, and a queued item lists it until it is put back.
Attended ==
    /\ \A c \in bundleDownloads : pc[c] \in {"snd", "opening", "running", "ended", "failing"}
    /\ status = "queued" =>
          \A c \in downloads : pc[c] \notin {"idle", "selected", "savingTree", "renaming"}

\* Every step of a connection leaves the lists of downloads attended.
LEMMA ConnectionStepAttended ==
    ASSUME TypeOK, Attended, NEW c \in Conns,
           \/ Select(c) \/ Internal(c) \/ Remote(c) \/ Drop(c) \/ NotAvailable(c)
           \/ RemoveSource(c) \/ AddSource(c)
    PROVE  Attended'
<1> USE DEF TypeOK, Attended, Go, queueVars
<1>1. CASE Open(c)
  BY <1>1 DEF Open, Started
<1>2. CASE OpenFailed(c)
  BY <1>2 DEF OpenFailed
<1>3. CASE NotAssigned(c)
  BY <1>3 DEF NotAssigned
<1>4. CASE Assign(c)
  BY <1>4 DEF Assign
<1>5. CASE Request(c)
  BY <1>5 DEF Request
<1>6. CASE RemoveFromManager(c)
  BY <1>6 DEF RemoveFromManager
<1>7. CASE PutTwice(c)
  BY <1>7 DEF PutTwice, Release
<1>8. CASE Put(c)
  BY <1>8 DEF Put
<1>9. CASE StoreTree(c)
  BY <1>9 DEF StoreTree, RemoveDownload
<1>10. CASE SaveTree(c)
  BY <1>10 DEF SaveTree, Release
<1>11. CASE StoreSegment(c)
  BY <1>11 DEF StoreSegment, Release, RemoveDownload
<1>12. CASE CompleteFile(c)
  BY <1>12 DEF CompleteFile
<1>13. CASE Rename(c)
  BY <1>13 DEF Rename, Release
<1>14. CASE CheckUseless(c)
  BY <1>14 DEF CheckUseless
<1>15. CASE DeleteTemp(c)
  BY <1>15 DEF DeleteTemp
<1>16. CASE RecordFailed(c)
  BY <1>16 DEF RecordFailed, Release, RemoveDownload
<1>17. CASE Select(c)
  BY <1>17 DEF Select
<1>18. CASE StartTree(c)
  BY <1>18 DEF StartTree, Started
<1>19. CASE ReadProgress(c)
  BY <1>19 DEF ReadProgress
<1>20. CASE ReceiveTree(c)
  BY <1>20 DEF ReceiveTree
<1>21. CASE ReceivePart(c)
  BY <1>21 DEF ReceivePart
<1>22. CASE ReceiveLeaf(c)
  BY <1>22 DEF ReceiveLeaf
<1>23. CASE Mismatch(c)
  BY <1>23 DEF Mismatch
<1>24. CASE Drop(c)
  BY <1>24 DEF Drop
<1>25. CASE NotAvailable(c)
  BY <1>25 DEF NotAvailable
<1>26. CASE RemoveSource(c)
  BY <1>26 DEF RemoveSource
<1>27. CASE AddSource(c)
  BY <1>27 DEF AddSource
<1> QED BY <1>1, <1>2, <1>3, <1>4, <1>5, <1>6, <1>7, <1>8, <1>9, <1>10,
           <1>11, <1>12, <1>13, <1>14, <1>15, <1>16, <1>17, <1>18, <1>19, <1>20,
           <1>21, <1>22, <1>23, <1>24, <1>25, <1>26, <1>27
        DEF Internal, Remote

\* As long as the item is queued, no list refers to the download of a connection
\* that has none, whatever fails, overlaps or is removed
\* (DownloadManager::removeDownload before QueueManager::putDownloadHooked).
THEOREM NoLeftoversEver == Spec => []NoLeftovers
<1>1. Init => Attended
  BY DEF Init, Attended
<1>2. TypeOK /\ Attended /\ [Next]_vars => Attended'
  <2> SUFFICES ASSUME TypeOK, Attended, [Next]_vars PROVE Attended'
    OBVIOUS
  <2>1. CASE UNCHANGED vars
    BY <2>1 DEF vars, queueVars, Attended
  <2>2. CASE Pause \/ RunPauseTask \/ Resume \/ LoseTemp \/ RunFileCompletionHooks
    BY <2>2 DEF Pause, RunPauseTask, Resume, LoseTemp, RunFileCompletionHooks, queueVars, Attended
  <2> QED BY <2>1, <2>2, ConnectionStepAttended DEF Next
<1>3. TypeOK /\ Attended => NoLeftovers
  BY DEF Attended, NoLeftovers
<1> QED BY <1>1, <1>2, <1>3, TypeCorrect, PTL DEF Spec

-----------------------------------------------------------------------------
(* That a file is found complete once.  Slow sources are not overlapped, and  *)
(* a file that is loaded with finished segments has its tree.                 *)

TreesLoaded == \A l \in Loaded : l.treeKnown \/ l.done = {}

\* From the assignment of a download until it has been put back.
Busy == {"assigned", "snd", "opening", "running", "ended", "failing", "put", "putFailed",
         "storing", "dropping", "deleting", "recording"}

\* A leaf that nobody has or downloads.
Missing(x) ==
    /\ x \in Leaves \ Covered(done)
    /\ \A d \in downloads : dl[d].kind = "leaves" => x \notin Positions(dl[d].seg)

\* Whoever has been selected can be assigned something: nobody else is assigned
\* anything meanwhile, so what was missing still is.
Selected(c) ==
    pc[c] = "selected" =>
        /\ status = "queued"
        /\ \/ downloads = {}
           \/ MultiChunk /\ blockSize = 1 /\ Size > 1 /\ \E x \in Leaves : Missing(x)

\* A download that failed lacks a leaf of its segment.
Failed(c) ==
    pc[c] \in {"failing", "putFailed", "dropping", "deleting", "recording"} /\ dl[c].kind # "tree"
        => dl[c].pos = 0 \/ dl[c].pos < dl[c].seg.size

\* A segment that is worth downloading when D is finished.
Fresh(g, D) == g \in Ranges /\ g.size > 0 /\ \A h \in D : Positions(g) \cap Positions(h) = {}

\* A listed download gets what is not finished, and is the only one unless it
\* has the tree.
Working(c) ==
    /\ dl[c].kind \in {"leaves", "root", "tree"}
    /\ dl[c].kind # "tree" => dl[c].seg = Blocked \/ Fresh(dl[c].seg, done)
    /\ dl[c].kind = "leaves" => blockSize = 1
    /\ dl[c].kind = "root" => dl[c].seg = WholeFile
    /\ dl[c].kind \in {"root", "tree"} => downloads = {c} /\ blockSize = Size

Unfinished ==
    /\ done # {WholeFile} /\ completions = 0
    /\ blockSize # 1 => done = {}
    /\ \A c \in Conns : pc[c] \in Busy <=> c \in downloads
    /\ \A c \in downloads : Working(c)

\* Those who go on after the file has been completed have nothing to record.
Finished ==
    /\ done = {WholeFile} /\ completions = 1
    /\ \A c \in Conns : pc[c] \in Busy /\ dl[c].kind # "tree" => dl[c].seg = Blocked

AInv ==
    /\ \A c, d \in Conns : pc[c] = "selected" /\ pc[d] = "selected" => c = d
    /\ ~treeKnown => blockSize = Size
    /\ \A c \in Conns : Selected(c) /\ Failed(c)
    /\ status = "queued" => Unfinished
    /\ status # "queued" => Finished

\* Fresh says what Covered says.
LEMMA FreshFacts ==
    ASSUME NEW D \in SUBSET Ranges, NEW g \in Ranges
    PROVE  Fresh(g, D) <=> g.size > 0 /\ Positions(g) \cap Covered(D) = {}
BY DEF Fresh, Covered

\* An unfinished file lacks a leaf.
LEMMA SomethingMissing ==
    ASSUME IInv, done # {WholeFile}
    PROVE  \E x \in Leaves : x \notin Covered(done)
<1>1. done \in SUBSET Ranges /\ Canonical(done)
  BY DEF IInv, TypeOK
<1>2. Covered(done) # 0 .. Size - 1
  BY <1>1, CoveredAll
<1>3. Covered(done) \subseteq 0 .. Size - 1
  BY <1>1, PositionFacts DEF Covered
<1> QED BY <1>2, <1>3 DEF Leaves

\* The segments of running downloads are pairs of integers.
LEMMA RunningFacts ==
    ASSUME IInv
    PROVE  {dl[d].seg : d \in downloads} \in SUBSET [start : Int, size : Int]
<1>1. \A d \in downloads : dl[d].seg \in Ranges \cup {Blocked, Seg(0, -1)}
  BY DEF IInv, TypeOK, Download
<1>2. Ranges \cup {Blocked, Seg(0, -1)} \subseteq [start : Int, size : Int]
  BY SizeAssumption DEF Ranges, Blocked, Seg
<1> QED BY <1>1, <1>2

\* A position of a free block is free.
LEMMA BlockPositionFree ==
    ASSUME NEW D \in SUBSET Ranges, NEW R \in SUBSET [start : Int, size : Int], NEW T \in Nat,
           NEW f \in FreeBlocks(D, R, 1, T), NEW x \in Positions(f)
    PROVE  IsFree(D, R, x)
<1>1. f \in Ranges /\ \A r \in R : ~Overlaps(f, r)
  BY FreeUnitsFacts
<1>2. x \in 0 .. Size - 1 /\ f.start <= x /\ x < End(f) /\ f.start \in Int /\ End(f) \in Int
  BY <1>1, PositionFacts
<1>3. \A d \in D : x \notin Positions(d)
  BY FreeBlockUnfinished
<1>4. \A r \in R : x \notin Positions(r)
  <2> TAKE r \in R
  <2>1. r.start \in Int /\ End(r) \in Int
    BY DEF End
  <2> QED BY <1>1, <1>2, <2>1 DEF Overlaps, Positions
<1> QED BY <1>2, <1>3, <1>4 DEF IsFree

\* While nobody overlaps, a source that finds nothing free gets no segment.
LEMMA NoOverlapChoice ==
    ASSUME ~OverlapSlow, NEW c, NEW b, NEW allowOverlap,
           NEW r \in CheckOverlaps(c, b, allowOverlap)
    PROVE  r = Choice(NoSegment, FALSE) /\ r.seg.size = 0 /\ r.seg.start = 0
BY DEF CheckOverlaps, Choice, NoSegment, Seg

\* Where a source has a part that is needed, the scan finds it for every wanted
\* size.
LEMMA PartFound ==
    ASSUME NEW D \in SUBSET Ranges, NEW R \in SUBSET [start : Int, size : Int],
           NEW T \in Nat \ {0}, NEW parts \in SUBSET FileSegments, NEW q \in parts,
           NEW x \in Positions(q), IsFree(D, R, x)
    PROVE  NeededParts(D, R, 1, T, parts) # {}
<1>1. PICK f \in FreeBlocks(D, R, 1, T) : x \in Positions(f)
  BY ScanFindsAll
<1>2. f \in Ranges /\ q \in Ranges
  BY FreeUnitsFacts, SizeAssumption DEF FileSegments, Ranges
<1>3. Overlaps(f, q)
  BY <1>1, <1>2, PositionFacts DEF Overlaps
<1>4. Common(f, q) \in NeededParts(D, R, 1, T, parts)
  BY <1>3 DEF NeededParts
<1> QED BY <1>4

\* A needed part of one wanted size is a reason to find one of every other.
LEMMA NeededPartFree ==
    ASSUME NEW D \in SUBSET Ranges, NEW R \in SUBSET [start : Int, size : Int],
           NEW T \in Nat, NEW parts \in SUBSET FileSegments,
           NEW s \in NeededParts(D, R, 1, T, parts)
    PROVE  /\ Fresh(s, D)
           /\ \E q \in parts : \E x \in Positions(q) : IsFree(D, R, x)
<1>1. PICK f \in FreeBlocks(D, R, 1, T), q \in parts : Overlaps(f, q) /\ s = Common(f, q)
  BY DEF NeededParts
<1>2. f \in Ranges /\ f.size > 0
  BY FreeUnitsFacts
<1>3. q \in Ranges /\ q.size > 0
  BY SizeAssumption DEF FileSegments, Ranges
<1>4. s \in Ranges /\ s.size > 0 /\ Contains(f, s) /\ Contains(q, s)
  BY <1>1, <1>2, <1>3, CommonFacts
<1>5. \A x \in Positions(s) : x \in Positions(f) /\ x \in Positions(q)
  BY <1>2, <1>3, <1>4, PositionFacts DEF Contains
<1>6. \A h \in D : Positions(s) \cap Positions(h) = {}
  BY <1>5, FreeBlockUnfinished
<1>7. s.start \in Positions(s)
  BY <1>4, SizeAssumption DEF Positions, Ranges, End
<1>8. IsFree(D, R, s.start)
  BY <1>5, <1>7, BlockPositionFree
<1> QED BY <1>4, <1>5, <1>6, <1>7, <1>8 DEF Fresh

\* A connection that has been selected gets something to download, or its
\* request is blocked.
LEMMA SomethingNext ==
    ASSUME IInv, AInv, ~OverlapSlow, NEW c \in Conns, pc[c] = "selected", ~NoNeededPart(c),
           NEW D \in {done, {}}, NEW T \in 1 .. Size,
           NEW r \in NextSegment(c, D, 1, T, TRUE)
    PROVE  r.seg = Blocked \/ Fresh(r.seg, D)
<1> DEFINE claimed == {dl[d].seg : d \in downloads}
           found == IF PartsOf[c] = {} THEN FirstFree(D, claimed, 1, T)
                                       ELSE NeededParts(D, claimed, 1, T, PartsOf[c])
<1>1. /\ status = "queued" /\ Unfinished
      /\ \/ downloads = {}
         \/ MultiChunk /\ blockSize = 1 /\ Size > 1 /\ \E x \in Leaves : Missing(x)
  BY DEF AInv, Selected
<1>2. D \in SUBSET Ranges /\ Canonical(D) /\ D # {WholeFile} /\ T \in Nat \ {0}
  BY <1>1, SizeAssumption DEF IInv, TypeOK, Canonical, Unfinished
<1>3. claimed \in SUBSET [start : Int, size : Int]
  BY RunningFacts
<1>4. PartsOf[c] \in SUBSET FileSegments
  BY SegmentedDownloadAssumption
<1>5. CASE ~MultiChunk \/ 1 >= Size
  <2>1. downloads = {}
    BY <1>1, <1>5, SizeAssumption
  <2>2. r = Choice(SingleRange(D, 1), FALSE)
    BY <1>5, <2>1 DEF NextSegment
  <2>3. SingleRange(D, 1) \in Ranges
    BY <1>2, SingleRangeRange
  <2> QED BY <1>2, <2>2, <2>3, SingleRangeUnfinished DEF Fresh, Choice
<1>6. CASE MultiChunk /\ ~(1 >= Size) /\ (paused \/ Cardinality(downloads) >= MaxSegments)
  <2>1. r \in {Choice(Blocked, FALSE)}
    BY <1>6 DEF NextSegment
  <2> QED BY <2>1 DEF Choice
<1>7. CASE MultiChunk /\ ~(1 >= Size) /\ ~(paused \/ Cardinality(downloads) >= MaxSegments)
  <2>1. ASSUME NEW x, IsFree(D, claimed, x),
               PartsOf[c] # {} => \E q \in PartsOf[c] : x \in Positions(q)
        PROVE  found # {}
    <3>1. CASE PartsOf[c] = {}
      <4>1. FreeBlocks(D, claimed, 1, T) # {}
        BY <1>2, <1>3, <2>1, ScanFindsAll
      <4> QED BY <3>1, <4>1, <1>2, FirstIsFound
    <3>2. CASE PartsOf[c] # {}
      BY <1>2, <1>3, <1>4, <2>1, <3>2, PartFound
    <3> QED BY <3>1, <3>2
  <2>2. found # {}
    <3>1. CASE PartsOf[c] = {}
      <4>1. PICK x \in Leaves : x \notin Covered(done) /\ (downloads # {} => Missing(x))
        BY <1>1, SomethingMissing DEF Unfinished, Missing
      <4>2. \A d \in D : x \notin Positions(d)
        BY <4>1 DEF Covered
      <4>3. \A d \in downloads : dl[d].kind = "leaves"
        BY <1>1, <1>7, SizeAssumption DEF Unfinished, Working
      <4>4. \A g \in claimed : x \notin Positions(g)
        BY <4>1, <4>3 DEF Missing
      <4>5. IsFree(D, claimed, x)
        BY <4>1, <4>2, <4>4 DEF IsFree, Leaves
      <4> QED BY <2>1, <3>1, <4>5
    <3>2. CASE PartsOf[c] # {} /\ blockSize = 1
      <4>1. PICK z \in NextSegment(c, done, 1, 1, FALSE) : z.seg.start = -1 \/ z.seg.size # 0
        BY <3>2 DEF NoNeededPart
      <4>2. NeededParts(done, claimed, 1, 1, PartsOf[c]) # {}
        <5> SUFFICES ASSUME NeededParts(done, claimed, 1, 1, PartsOf[c]) = {} PROVE FALSE
          OBVIOUS
        <5>1. z \in CheckOverlaps(c, 1, FALSE)
          BY <1>7, <3>2 DEF NextSegment
        <5>2. z.seg.size = 0 /\ z.seg.start = 0
          BY <5>1, NoOverlapChoice
        <5> QED BY <4>1, <5>2
      <4>3. PICK q \in PartsOf[c] : \E x \in Positions(q) : IsFree(done, claimed, x)
        BY <4>2, <1>3, <1>4, NeededPartFree DEF IInv, TypeOK
      <4>4. PICK x \in Positions(q) : IsFree(done, claimed, x)
        BY <4>3
      <4>5. IsFree(D, claimed, x)
        BY <4>4 DEF IsFree
      <4> QED BY <2>1, <4>5
    <3>3. CASE PartsOf[c] # {} /\ blockSize # 1
      <4>1. downloads = {} /\ done = {}
        BY <1>1, <3>3 DEF Unfinished
      <4>2. PICK q \in PartsOf[c] : TRUE
        BY <3>3
      <4>3. q.start \in 0 .. Size - 1 /\ q.start \in Positions(q)
        <5>1. q \in FileSegments
          BY <1>4
        <5> QED BY <5>1, SizeAssumption DEF FileSegments, Positions, End
      <4>4. IsFree(D, claimed, q.start)
        BY <4>1, <4>3 DEF IsFree
      <4> QED BY <2>1, <4>3, <4>4
    <3> QED BY <3>1, <3>2, <3>3
  <2>3. PICK s \in found : r = Choice(s, FALSE)
    BY <1>7, <2>2 DEF NextSegment
  <2>4. CASE PartsOf[c] = {}
    <3>1. s \in FreeBlocks(D, claimed, 1, T)
      BY <2>3, <2>4 DEF FirstFree
    <3>2. Fresh(s, D)
      BY <3>1, <1>2, FreeUnitsFacts, FreeBlockUnfinished DEF Fresh
    <3> QED BY <2>3, <3>2 DEF Choice
  <2>5. CASE PartsOf[c] # {}
    <3>1. s \in NeededParts(D, claimed, 1, T, PartsOf[c])
      BY <2>3, <2>5
    <3>2. Fresh(s, D)
      BY <3>1, <1>2, <1>3, <1>4, NeededPartFree
    <3> QED BY <2>3, <3>2 DEF Choice
  <2> QED BY <2>4, <2>5
<1> QED BY <1>5, <1>6, <1>7

\* Without its tree, a file is requested whole.
LEMMA WholeNext ==
    ASSUME IInv, AInv, NEW c \in Conns, pc[c] = "selected", ~treeKnown,
           NEW D \in {done, {}}, NEW r \in NextSegment(c, D, Size, Size, FALSE)
    PROVE  r.seg = WholeFile /\ Fresh(r.seg, D)
<1>1. /\ status = "queued" /\ Unfinished /\ blockSize = Size
      /\ \/ downloads = {}
         \/ MultiChunk /\ blockSize = 1 /\ Size > 1 /\ \E x \in Leaves : Missing(x)
  BY DEF AInv, Selected
<1>2. downloads = {} /\ (Size # 1 => done = {})
  BY <1>1, SizeAssumption DEF Unfinished
<1>3. r = Choice(SingleRange(D, Size), FALSE)
  <2>1. Size >= Size
    BY SizeAssumption
  <2>2. r \in {Choice(SingleRange(D, Size), FALSE)}
    BY <1>2, <2>1 DEF NextSegment
  <2> QED BY <2>2
<1>4. WholeFile \in Ranges /\ WholeFile.size > 0
  BY WholeFileFacts, SizeAssumption DEF WholeFile, Seg
<1>5. CASE Size # 1
  <2>1. D = {}
    BY <1>2, <1>5
  <2>2. SingleRange(D, Size) = WholeFile
    BY <2>1 DEF SingleRange
  <2> QED BY <1>3, <1>4, <2>1, <2>2 DEF Choice, Fresh
<1>6. CASE Size = 1
  <2>1. D \in SUBSET Ranges /\ Canonical(D) /\ D # {WholeFile}
    BY <1>1 DEF IInv, TypeOK, Canonical, Unfinished
  <2> DEFINE g == SingleRange(D, 1)
  <2>2. g \in Ranges
    BY <2>1, SingleRangeRange
  <2>3. g.size > 0 /\ \A h \in D : Positions(g) \cap Positions(h) = {}
    BY <2>1, SingleRangeUnfinished
  <2> HIDE DEF g
  <2>4. g = WholeFile
    BY <1>6, <2>2, <2>3 DEF Ranges, WholeFile, Seg, End
  <2>5. r.seg = g
    BY <1>3, <1>6 DEF Choice, g
  <2> QED BY <2>2, <2>3, <2>4, <2>5 DEF Fresh
<1> QED BY <1>5, <1>6

\* The Download that a selected connection gets.
LEMMA AssignedDownload ==
    ASSUME IInv, AInv, ~OverlapSlow, NEW c \in Conns, pc[c] = "selected", ~NoNeededPart(c),
           NEW D \in {done, {}}, NEW n \in InitSegment(c, D)
    PROVE  /\ n.kind \in {"leaves", "root", "tree"}
           /\ n.kind = "leaves" => treeKnown /\ (n.seg = Blocked \/ Fresh(n.seg, D))
           /\ n.kind = "root" => ~treeKnown /\ n.seg = WholeFile /\ Fresh(n.seg, D)
           /\ n.kind = "tree" => ~treeKnown
<1>1. ASSUME NEW kind, NEW r, n = NewDownload(kind, r) PROVE n.kind = kind /\ n.seg = r.seg
  <2>1. n = [kind |-> kind, seg |-> r.seg, overlapped |-> r.overlapped,
             opened |-> FALSE, resume |-> FALSE, pos |-> 0, part |-> "none"]
    BY <1>1 DEF NewDownload, NoDownload
  <2> QED BY <2>1
<1>2. CASE treeKnown
  <2>1. PICK T \in 1 .. Size : \E r \in NextSegment(c, D, 1, T, TRUE) : n = NewDownload("leaves", r)
    BY <1>2 DEF InitSegment
  <2>2. PICK r \in NextSegment(c, D, 1, T, TRUE) : n = NewDownload("leaves", r)
    BY <2>1
  <2>3. r.seg = Blocked \/ Fresh(r.seg, D)
    BY <2>2, SomethingNext
  <2>4. n.kind = "leaves" /\ n.seg = r.seg
    BY <1>1, <2>2
  <2> QED BY <1>2, <2>3, <2>4
<1>3. CASE ~treeKnown /\ c \in TreeSources \ noTree
  <2>1. n = NewDownload("tree", Choice(Seg(0, -1), FALSE))
    BY <1>3 DEF InitSegment
  <2>2. n.kind = "tree"
    BY <1>1, <2>1
  <2> QED BY <1>3, <2>2
<1>4. CASE ~treeKnown /\ c \notin TreeSources \ noTree
  <2>1. PICK r \in NextSegment(c, D, Size, Size, FALSE) : n = NewDownload("root", r)
    BY <1>4 DEF InitSegment
  <2>2. r.seg = WholeFile /\ Fresh(r.seg, D)
    BY <1>4, WholeNext
  <2>3. n.kind = "root" /\ n.seg = r.seg
    BY <1>1, <2>1
  <2> QED BY <1>4, <2>2, <2>3
<1> QED BY <1>2, <1>3, <1>4

-----------------------------------------------------------------------------
\* The download of c goes on.
MovesOn(c) ==
    /\ UNCHANGED <<status, done, completions, downloads, blockSize, treeKnown>>
    /\ pc[c] \in Busy /\ \E label \in Busy : pc' = [pc EXCEPT ![c] = label]
    /\ \A d \in Conns : /\ dl'[d].kind = dl[d].kind
                        /\ dl[d].kind # "tree" => dl'[d].seg = dl[d].seg
                        /\ d # c => dl'[d] = dl[d]
    /\ Failed(c)'

\* Whatever is claimed or missing stays so.
LEMMA MovesOnKeeps ==
    ASSUME IInv, AInv, NEW c \in Conns, MovesOn(c)
    PROVE  AInv'
<1>1. PICK label \in Busy : pc' = [pc EXCEPT ![c] = label]
  BY DEF MovesOn
<1>2. DOMAIN pc = Conns /\ downloads \subseteq Conns
  BY DEF IInv, TypeOK
<1>3. label # "selected"
  BY <1>1 DEF Busy
<1>4. \A d \in Conns : (pc'[d] = "selected" => pc[d] = "selected")
  BY <1>1, <1>2, <1>3
<1>5. \A d \in Conns : (pc'[d] \in Busy <=> pc[d] \in Busy)
  BY <1>1, <1>2 DEF MovesOn
<1>6. \A x : Missing(x) => Missing(x)'
  BY <1>2 DEF Missing, MovesOn
<1>7. ASSUME NEW d \in Conns PROVE Selected(d)' /\ Failed(d)'
  <2>1. Selected(d)'
    BY <1>4, <1>6 DEF Selected, AInv, MovesOn
  <2>2. CASE d = c
    BY <2>1, <2>2 DEF MovesOn
  <2>3. CASE d # c
    BY <1>1, <1>2, <2>1, <2>3 DEF Failed, AInv, MovesOn
  <2> QED BY <2>2, <2>3
<1>8. status = "queued" => Unfinished'
  <2> SUFFICES ASSUME status = "queued" PROVE Unfinished'
    OBVIOUS
  <2>1. Unfinished
    BY DEF AInv
  <2>2. \A d \in downloads : Working(d)'
    BY <1>2, <2>1 DEF Unfinished, Working, MovesOn, Fresh
  <2> QED BY <1>5, <2>1, <2>2 DEF Unfinished, MovesOn
<1>9. status # "queued" => Finished'
  BY <1>5 DEF AInv, Finished, MovesOn
<1> QED BY <1>4, <1>7, <1>8, <1>9 DEF AInv, MovesOn

\* Steps in which the download of a connection goes on.
LEMMA MovingStep ==
    ASSUME IInv, AInv, NEW c \in Conns,
           \/ Request(c) \/ Remote(c) \/ Open(c) \/ OpenFailed(c) \/ Drop(c)
           \/ NotAvailable(c) \/ RemoveFromManager(c) \/ Put(c) \/ CheckUseless(c)
           \/ DeleteTemp(c)
    PROVE  MovesOn(c)
<1> USE DEF queueVars
<1>1. /\ dl \in [Conns -> Download] /\ dl[c] \in Download /\ DOMAIN pc = Conns
      /\ pc = [pc EXCEPT ![c] = pc[c]]
  BY DEF IInv, TypeOK
<1>2. Failed(c) /\ Sound(c)
  BY DEF AInv, IInv
<1>3. ASSUME UNCHANGED <<status, done, completions, downloads, blockSize, treeKnown>>,
             NEW y, dl' = [dl EXCEPT ![c] = y], y.kind = dl[c].kind,
             y.kind # "tree" => y.seg = dl[c].seg,
             pc[c] \in Busy, NEW label \in Busy, pc' = [pc EXCEPT ![c] = label],
             \/ label \in {"snd", "opening", "running", "ended", "put", "storing"}
             \/ y.kind # "tree" => y.pos = 0 \/ y.pos < y.seg.size
      PROVE  MovesOn(c)
  <2>1. dl'[c] = y /\ pc'[c] = label
    BY <1>1, <1>3
  <2>2. Failed(c)'
    BY <1>3, <2>1 DEF Failed
  <2> QED BY <1>1, <1>3, <2>1, <2>2 DEF MovesOn
<1>4. dl = [dl EXCEPT ![c] = dl[c]]
  BY <1>1
<1>5. CASE Request(c) \/ RemoveFromManager(c) \/ Put(c) \/ CheckUseless(c) \/ DeleteTemp(c)
  <2>1. UNCHANGED <<status, done, completions, downloads, blockSize, treeKnown, dl>>
    BY <1>5 DEF Request, RemoveFromManager, Put, CheckUseless, DeleteTemp
  <2>2. PICK label : /\ pc' = [pc EXCEPT ![c] = label] /\ pc[c] \in Busy /\ label \in Busy
                     /\ \/ label \in {"snd", "opening", "running", "ended", "put", "storing"}
                        \/ pc[c] \in {"failing", "putFailed", "dropping", "deleting"}
    BY <1>5 DEF Request, RemoveFromManager, Put, CheckUseless, DeleteTemp, Go, Busy
  <2>3. \/ label \in {"snd", "opening", "running", "ended", "put", "storing"}
        \/ dl[c].kind # "tree" => dl[c].pos = 0 \/ dl[c].pos < dl[c].seg.size
    BY <1>2, <2>2 DEF Failed
  <2> QED BY <1>3, <1>4, <2>1, <2>2, <2>3
<1>6. CASE Drop(c) \/ NotAvailable(c) \/ Mismatch(c)
  <2>1. UNCHANGED <<status, done, completions, downloads, blockSize, treeKnown, dl>>
    BY <1>6 DEF Drop, NotAvailable, Mismatch
  <2>2. pc[c] \in {"snd", "running"} /\ pc' = [pc EXCEPT ![c] = "failing"]
    BY <1>6 DEF Drop, NotAvailable, Mismatch, Go
  <2>3. dl[c].kind # "tree" => dl[c].pos = 0 \/ dl[c].pos < dl[c].seg.size
    BY <1>2, <2>2 DEF Sound
  <2> QED BY <1>3, <1>4, <2>1, <2>2, <2>3 DEF Busy
<1>7. CASE ReceiveTree(c)
  <2>1. UNCHANGED <<status, done, completions, downloads, blockSize, treeKnown, dl>>
    BY <1>7 DEF ReceiveTree
  <2>2. /\ pc[c] = "running" /\ dl[c].kind = "tree"
        /\ \E label \in {"ended", "failing"} : pc' = [pc EXCEPT ![c] = label]
    BY <1>7 DEF ReceiveTree, Go
  <2> QED BY <1>3, <1>4, <2>1, <2>2 DEF Busy
<1>8. CASE StartTree(c)
  <2> DEFINE x == [dl[c] EXCEPT !.seg = Seg(0, 1)]
             y == [x EXCEPT !.opened = TRUE]
             label == IF x.seg.size = 0 THEN "ended" ELSE "running"
  <2>1. y.kind = dl[c].kind
    BY <1>1 DEF Download
  <2>2. /\ dl' = [dl EXCEPT ![c] = y] /\ dl[c].kind = "tree"
        /\ UNCHANGED <<status, done, completions, downloads, blockSize, treeKnown>>
        /\ pc[c] = "snd" /\ pc' = [pc EXCEPT ![c] = label]
    BY <1>8 DEF StartTree, Started, Go
  <2>3. label \in {"ended", "running"}
    OBVIOUS
  <2> HIDE DEF y, label
  <2> QED BY <1>3, <2>1, <2>2, <2>3 DEF Busy
<1>9. CASE ReadProgress(c)
  <2> DEFINE y == [dl[c] EXCEPT !.resume = HasBytes]
  <2>1. y.kind = dl[c].kind /\ y.seg = dl[c].seg
    BY <1>1 DEF Download
  <2>2. /\ dl' = [dl EXCEPT ![c] = y]
        /\ UNCHANGED <<status, done, completions, downloads, blockSize, treeKnown>>
        /\ pc[c] = "snd" /\ pc' = [pc EXCEPT ![c] = "opening"]
    BY <1>9 DEF ReadProgress, Go
  <2> HIDE DEF y
  <2> QED BY <1>3, <2>1, <2>2 DEF Busy
<1>10. CASE Open(c)
  <2> DEFINE x == [dl[c] EXCEPT !.overlapped = FALSE]
             y == [x EXCEPT !.opened = TRUE]
             label == IF x.seg.size = 0 THEN "ended" ELSE "running"
  <2>1. y.kind = dl[c].kind /\ y.seg = dl[c].seg
    BY <1>1 DEF Download
  <2>2. /\ dl' = [dl EXCEPT ![c] = y]
        /\ UNCHANGED <<status, done, completions, downloads, blockSize, treeKnown>>
        /\ pc[c] = "opening" /\ pc' = [pc EXCEPT ![c] = label]
    BY <1>10 DEF Open, Started, Go
  <2>3. label \in {"ended", "running"}
    OBVIOUS
  <2> HIDE DEF y, label
  <2> QED BY <1>3, <2>1, <2>2, <2>3 DEF Busy
<1>11. CASE OpenFailed(c)
  <2> DEFINE y == [dl[c] EXCEPT !.overlapped = FALSE]
  <2>1. y.kind = dl[c].kind /\ y.seg = dl[c].seg /\ y.pos = dl[c].pos
    BY <1>1 DEF Download
  <2>2. /\ dl' = [dl EXCEPT ![c] = y]
        /\ UNCHANGED <<status, done, completions, downloads, blockSize, treeKnown>>
        /\ pc[c] = "opening" /\ pc' = [pc EXCEPT ![c] = "failing"]
    BY <1>11 DEF OpenFailed, Go
  <2> HIDE DEF y
  <2>3. y.kind # "tree" => y.pos = 0
    BY <1>2, <2>1, <2>2 DEF Sound
  <2> QED BY <1>3, <2>1, <2>2, <2>3 DEF Busy
<1>12. CASE ReceivePart(c)
  <2>1. PICK q \in Qualities(c) : dl' = [dl EXCEPT ![c].part = q]
    BY <1>12 DEF ReceivePart
  <2> DEFINE y == [dl[c] EXCEPT !.part = q]
  <2>2. y.kind = dl[c].kind /\ y.seg = dl[c].seg
    BY <1>1 DEF Download
  <2>3. /\ dl' = [dl EXCEPT ![c] = y]
        /\ UNCHANGED <<status, done, completions, downloads, blockSize, treeKnown>>
        /\ pc[c] = "running" /\ pc' = pc
    BY <1>12, <2>1 DEF ReceivePart
  <2> HIDE DEF y
  <2>4. pc' = [pc EXCEPT ![c] = "running"]
    BY <1>1, <2>3
  <2> QED BY <1>3, <2>2, <2>3, <2>4 DEF Busy
<1>13. CASE ReceiveLeaf(c)
  <2> DEFINE x == [dl[c] EXCEPT !.pos = dl[c].pos + 1]
             y == [x EXCEPT !.part = "none"]
             label == IF dl[c].pos + 1 = dl[c].seg.size THEN "ended" ELSE "running"
  <2>1. y.kind = dl[c].kind /\ y.seg = dl[c].seg
    BY <1>1 DEF Download
  <2>2. /\ dl' = [dl EXCEPT ![c] = y]
        /\ UNCHANGED <<status, done, completions, downloads, blockSize, treeKnown>>
        /\ pc[c] = "running" /\ pc' = [pc EXCEPT ![c] = label]
    BY <1>13 DEF ReceiveLeaf, Go
  <2>3. label \in {"ended", "running"}
    OBVIOUS
  <2> HIDE DEF y, label
  <2> QED BY <1>3, <2>1, <2>2, <2>3 DEF Busy
<1> QED BY <1>5, <1>6, <1>7, <1>8, <1>9, <1>10, <1>11, <1>12, <1>13 DEF Remote
\* Nothing that a claim depends on changes.
LEMMA StillStep ==
    ASSUME IInv, AInv,
           UNCHANGED <<pc, dl, done, completions, downloads, blockSize, treeKnown>>,
           status' = status \/ (status = "downloaded" /\ status' = "completed")
    PROVE  AInv'
BY DEF AInv, Selected, Missing, Failed, Unfinished, Finished, Working, Fresh

\* Steps of the user and of other threads, as far as downloads are concerned.
LEMMA OutsideIsStill ==
    ASSUME \/ Pause \/ RunPauseTask \/ Resume \/ LoseTemp \/ RunFileCompletionHooks
           \/ \E c \in Conns : RemoveSource(c) \/ AddSource(c)
    PROVE  /\ UNCHANGED <<pc, dl, done, completions, downloads, blockSize, treeKnown>>
           /\ status' = status \/ (status = "downloaded" /\ status' = "completed")
BY DEF Pause, RunPauseTask, Resume, LoseTemp, RunFileCompletionHooks, RemoveSource, AddSource,
       queueVars

\* Connection c is done with an item that does not list its download, or does not
\* wait for it any more.
StepsAside(c) ==
    /\ UNCHANGED <<status, done, completions, blockSize>>
    /\ treeKnown => treeKnown'
    /\ \E label \in {"idle", "savingTree"} : pc' = [pc EXCEPT ![c] = label]
    /\ \A d \in Conns \ {c} : dl'[d] = dl[d]
    /\ status = "queued" => pc[c] \notin Busy /\ downloads' = downloads

LEMMA StepsAsideKeeps ==
    ASSUME IInv, AInv, NEW c \in Conns, StepsAside(c)
    PROVE  AInv'
<1>1. PICK label \in {"idle", "savingTree"} : pc' = [pc EXCEPT ![c] = label]
  BY DEF StepsAside
<1>2. DOMAIN pc = Conns /\ downloads \subseteq Conns
  BY DEF IInv, TypeOK
<1>3. pc'[c] = label /\ \A d \in Conns \ {c} : pc'[d] = pc[d] /\ dl'[d] = dl[d]
  BY <1>1, <1>2 DEF StepsAside
<1>4. \A d \in Conns : pc'[d] = "selected" => pc[d] = "selected"
  BY <1>3
<1>5. ASSUME status = "queued" PROVE Unfinished'
  <2>1. Unfinished /\ c \notin downloads /\ downloads' = downloads
    BY <1>5 DEF AInv, Unfinished, StepsAside
  <2>2. \A d \in downloads : Working(d)'
    BY <1>2, <1>3, <2>1 DEF Unfinished, Working, StepsAside, Fresh
  <2>3. \A d \in Conns : pc'[d] \in Busy <=> d \in downloads
    BY <1>3, <2>1 DEF Unfinished, Busy
  <2> QED BY <2>1, <2>2, <2>3 DEF Unfinished, StepsAside
<1>6. ASSUME status # "queued" PROVE Finished'
  BY <1>3, <1>6 DEF AInv, Finished, StepsAside, Busy
<1>7. ASSUME NEW d \in Conns PROVE Selected(d)' /\ Failed(d)'
  <2>1. Selected(d)'
    <3> SUFFICES ASSUME pc'[d] = "selected" PROVE Selected(d)'
      BY DEF Selected
    <3>1. pc[d] = "selected" /\ Selected(d) /\ status = "queued"
      BY <1>4 DEF AInv, Selected
    <3>2. Unfinished /\ c \notin downloads /\ downloads' = downloads
      BY <3>1 DEF AInv, Unfinished, StepsAside
    <3>3. \A x : Missing(x) => Missing(x)'
      BY <1>2, <1>3, <3>2 DEF Missing, StepsAside
    <3> QED BY <3>1, <3>2, <3>3 DEF Selected, StepsAside
  <2>2. Failed(d)'
    BY <1>3 DEF AInv, Failed
  <2> QED BY <2>1, <2>2
<1> QED BY <1>4, <1>5, <1>6, <1>7 DEF AInv, StepsAside

\* Connection c hands in its download while the file is still queued: what it
\* adds to the finished segments is part of what it has claimed.
HandsIn(c) ==
    /\ status = "queued" /\ UNCHANGED <<status, completions, blockSize, treeKnown>>
    /\ pc[c] \in Busy /\ \E label \in {"idle", "savingTree"} : pc' = [pc EXCEPT ![c] = label]
    /\ \A d \in Conns \ {c} : dl'[d] = dl[d]
    /\ downloads' = downloads \ {c}
    /\ done' # {WholeFile}
    /\ \/ done' = done
       \/ /\ dl[c].kind = "leaves" /\ dl[c].seg \in Ranges
          /\ Covered(done') \subseteq Covered(done) \cup Positions(dl[c].seg)

LEMMA HandsInKeeps ==
    ASSUME IInv, IInv', AInv, ExclusiveSegments, NEW c \in Conns, HandsIn(c)
    PROVE  AInv'
<1>1. PICK label \in {"idle", "savingTree"} : pc' = [pc EXCEPT ![c] = label]
  BY DEF HandsIn
<1>2. DOMAIN pc = Conns /\ downloads \subseteq Conns
  BY DEF IInv, TypeOK
<1>3. pc'[c] = label /\ \A d \in Conns \ {c} : pc'[d] = pc[d] /\ dl'[d] = dl[d]
  BY <1>1, <1>2 DEF HandsIn
<1>4. \A d \in Conns : pc'[d] = "selected" => pc[d] = "selected"
  BY <1>3
<1>5. Unfinished /\ c \in downloads /\ status' = "queued"
  BY DEF AInv, Unfinished, HandsIn
<1>6. ASSUME NEW d \in downloads \ {c}
      PROVE  Working(d)'
  <2>1. Working(d) /\ d \in Conns /\ dl'[d] = dl[d] /\ downloads # {d} /\ downloads # {c}
    BY <1>2, <1>3, <1>5 DEF Unfinished
  <2>2. dl[d].kind = "leaves" /\ (dl[d].seg = Blocked \/ Fresh(dl[d].seg, done))
    BY <2>1 DEF Working
  <2>3. ASSUME Fresh(dl[d].seg, done), done' # done PROVE Fresh(dl[d].seg, done')
    <3>1. dl[d].seg \in Ranges /\ dl[c].seg \in Ranges /\ dl[c].kind = "leaves"
      BY <2>3 DEF Fresh, HandsIn
    <3>2. ~Overlaps(dl[c].seg, dl[d].seg)
      BY <1>5, <2>2, <3>1 DEF ExclusiveSegments, IsFileDownload
    <3>3. Positions(dl[c].seg) \cap Positions(dl[d].seg) = {}
      BY <3>1, <3>2, DisjointPositions
    <3>4. done \in SUBSET Ranges /\ done' \in SUBSET Ranges
      BY DEF IInv, TypeOK
    <3>5. dl[d].seg.size > 0 /\ Positions(dl[d].seg) \cap Covered(done) = {}
      BY <2>3, <3>1, <3>4, FreshFacts
    <3>6. Positions(dl[d].seg) \cap Covered(done') = {}
      BY <2>3, <3>3, <3>5 DEF HandsIn
    <3> QED BY <3>1, <3>4, <3>5, <3>6, FreshFacts
  <2>4. dl[d].seg = Blocked \/ Fresh(dl[d].seg, done')
    BY <2>2, <2>3
  <2> QED BY <2>1, <2>2, <2>4 DEF Working, HandsIn, Fresh
<1>7. Unfinished'
  <2>1. \A d \in Conns : pc'[d] \in Busy <=> d \in downloads'
    BY <1>3, <1>5 DEF Unfinished, Busy, HandsIn
  <2>2. blockSize' # 1 => done' = {}
    BY <1>5 DEF Unfinished, Working, HandsIn
  <2>3. downloads' = downloads \ {c} /\ done' # {WholeFile} /\ completions' = 0
    BY <1>5 DEF Unfinished, HandsIn
  <2> QED BY <1>6, <2>1, <2>2, <2>3 DEF Unfinished
<1>8. ASSUME NEW d \in Conns PROVE Selected(d)' /\ Failed(d)'
  <2>1. Selected(d)'
    <3> SUFFICES ASSUME pc'[d] = "selected" PROVE Selected(d)'
      BY DEF Selected
    <3>1. pc[d] = "selected" /\ Selected(d) /\ downloads # {}
      BY <1>4, <1>5 DEF AInv
    <3>2. MultiChunk /\ blockSize = 1 /\ Size > 1
      BY <3>1 DEF Selected
    <3>3. PICK x \in Leaves : Missing(x)
      BY <3>1 DEF Selected
    <3>4. x \notin Covered(done')
      BY <1>5, <3>3 DEF Missing, HandsIn
    <3>5. Missing(x)'
      BY <1>2, <1>3, <3>3, <3>4 DEF Missing, HandsIn
    <3> QED BY <1>5, <3>2, <3>3, <3>5 DEF Selected, HandsIn
  <2>2. Failed(d)'
    BY <1>3 DEF AInv, Failed
  <2> QED BY <2>1, <2>2
<1> QED BY <1>4, <1>5, <1>7, <1>8 DEF AInv, HandsIn
\* Whoever records a segment of a queued file has claimed part of it.
LEMMA StoringFacts ==
    ASSUME IInv, AInv, NEW c \in Conns, pc[c] = "storing", dl[c].kind # "tree"
    PROVE  /\ status = "queued" /\ c \in downloads /\ Unfinished
           /\ dl[c].seg \in Ranges /\ Fresh(dl[c].seg, done)
           /\ dl[c].kind = "leaves" \/ (dl[c].kind = "root" /\ dl[c].seg = WholeFile)
<1>1. dl[c].seg \in Ranges /\ dl[c].seg # Blocked /\ pc[c] \in Busy
  BY BlockedFacts DEF IInv, Sound, Busy
<1>2. status = "queued" /\ Unfinished
  BY <1>1 DEF AInv, Finished
<1>3. c \in downloads /\ Working(c)
  BY <1>1, <1>2 DEF Unfinished
<1> QED BY <1>1, <1>2, <1>3 DEF Working

\* A whole file that has been stored is complete.
LEMMA WholeCompletes ==
    ASSUME IInv, AddFinishedSegment(WholeFile)
    PROVE  done' = {WholeFile}
<1>1. done \in SUBSET Ranges /\ Canonical(done) /\ WholeFile \in Ranges
  BY WholeFileFacts DEF IInv, TypeOK
<1>2. done' = AddSegment(done, WholeFile)
  BY DEF AddFinishedSegment
<1>3. done' \in SUBSET Ranges /\ Canonical(done')
  BY <1>1, <1>2, AddSegmentRanges, AddSegmentCanonical
<1>4. Covered(done') = Covered(done) \cup (0 .. Size - 1)
  BY <1>1, <1>2, AddSegmentCovers, WholeFileFacts
<1>5. Covered(done) \subseteq 0 .. Size - 1
  BY <1>1, PositionFacts DEF Covered
<1> QED BY <1>3, <1>4, <1>5, CoveredAll

\* What recording a segment covers.
LEMMA RecordCovers ==
    ASSUME IInv, NEW s \in Ranges, AddFinishedSegment(s)
    PROVE  Covered(done') = Covered(done) \cup Positions(s)
BY AddSegmentCovers DEF AddFinishedSegment, IInv, TypeOK

\* A released connection has no part in the others' downloads.
LEMMA ReleasedFacts ==
    ASSUME IInv, NEW c \in Conns, NEW failed, Release(c, failed)
    PROVE  /\ pc' = [pc EXCEPT ![c] = "idle"]
           /\ \A d \in Conns \ {c} : dl'[d] = dl[d]
           /\ dl'[c] = NoDownload
BY DEF Release, Go, IInv, TypeOK

LEMMA StoreSegmentHandsIn ==
    ASSUME IInv, AInv, NEW c \in Conns, StoreSegment(c)
    PROVE  HandsIn(c)
<1>1. /\ pc[c] = "storing" /\ dl[c].kind # "tree" /\ AddFinishedSegment(dl[c].seg)
      /\ done' # {WholeFile} /\ downloads' = downloads \ {c} /\ Release(c, FALSE)
      /\ UNCHANGED <<status, completions, blockSize, treeKnown>>
  BY DEF StoreSegment, SegmentsDone, RemoveDownload
<1>2. /\ status = "queued" /\ dl[c].seg \in Ranges
      /\ dl[c].kind = "leaves" \/ (dl[c].kind = "root" /\ dl[c].seg = WholeFile)
  BY <1>1, StoringFacts
<1>3. dl[c].kind = "leaves"
  BY <1>1, <1>2, WholeCompletes
<1>4. Covered(done') = Covered(done) \cup Positions(dl[c].seg)
  BY <1>1, <1>2, RecordCovers
<1> QED BY <1>1, <1>2, <1>3, <1>4, ReleasedFacts DEF HandsIn, Busy

\* What a failed download has received does not complete the file: its segment is
\* not finished.
LEMMA RecordFailedFacts ==
    ASSUME IInv, AInv, NEW c \in Conns, RecordFailed(c)
    PROVE  /\ pc[c] = "recording" /\ Release(c, TRUE) /\ downloads' = downloads \ {c}
           /\ UNCHANGED <<status, completions, blockSize, treeKnown>>
           /\ \/ done' = done
              \/ /\ status = "queued" /\ dl[c].kind = "leaves" /\ dl[c].seg \in Ranges
                 /\ done' # {WholeFile}
                 /\ \E S \in SUBSET Positions(dl[c].seg) : Covered(done') = Covered(done) \cup S
<1>1. /\ pc[c] = "recording" /\ Release(c, TRUE) /\ downloads' = downloads \ {c}
      /\ UNCHANGED <<status, completions, blockSize, treeKnown>>
  BY DEF RecordFailed, RemoveDownload
<1>2. CASE ~(dl[c].kind = "leaves" /\ CompleteLeaves(c) > 0)
  BY <1>1, <1>2 DEF RecordFailed
<1>3. CASE dl[c].kind = "leaves" /\ CompleteLeaves(c) > 0
  <2> DEFINE g == dl[c].seg
             n == dl[c].pos
             s == Seg(g.start, n)
  <2>1. AddFinishedSegment(s)
    BY <1>3 DEF RecordFailed, CompleteLeaves
  <2>2. n \in Nat /\ n > 0 /\ g \in Ranges /\ n <= g.size
    BY <1>3 DEF IInv, TypeOK, Download, Sound, CompleteLeaves
  <2>3. n < g.size
    BY <1>1, <1>3, <2>2 DEF AInv, Failed
  <2>4. status = "queued" /\ Unfinished
    BY <1>1, <1>3, <2>2, BlockedFacts DEF AInv, Finished, Busy
  <2>5. Fresh(g, done)
    BY <1>1, <1>3, <2>2, <2>4, BlockedFacts DEF Unfinished, Busy, Working
  <2>6. g.start \in 0 .. Size /\ g.size \in 0 .. Size /\ g.start + g.size <= Size /\ Size \in Nat
    BY <2>2, SizeAssumption DEF Ranges, End
  <2>7. s.start = g.start /\ s.size = n
    BY DEF Seg
  <2>8. s \in Ranges
    BY <2>2, <2>3, <2>6, <2>7 DEF Seg, Ranges, End
  <2> DEFINE x == g.start + n
  <2>9. x \in Positions(g) /\ x \notin Positions(s) /\ Positions(s) \subseteq Positions(g)
    BY <2>2, <2>3, <2>6, <2>7 DEF Positions, End
  <2> HIDE DEF x, s, n
  <2>10. Covered(done') = Covered(done) \cup Positions(s)
    BY <2>1, <2>8, RecordCovers
  <2>11. x \notin Covered(done)
    BY <2>2, <2>5, <2>9, FreshFacts DEF IInv, TypeOK
  <2>12. x \in 0 .. Size - 1
    BY <2>2, <2>9, PositionFacts
  <2>13. done' # {WholeFile}
    BY <2>9, <2>10, <2>11, <2>12, WholeFileFacts DEF Covered
  <2> QED BY <1>1, <1>3, <2>2, <2>4, <2>9, <2>10, <2>13
<1> QED BY <1>2, <1>3

LEMMA RecordFailedKeeps ==
    ASSUME IInv, IInv', AInv, ExclusiveSegments, NEW c \in Conns, RecordFailed(c)
    PROVE  AInv'
<1>1. /\ pc[c] = "recording" /\ Release(c, TRUE) /\ downloads' = downloads \ {c}
      /\ UNCHANGED <<status, completions, blockSize, treeKnown>>
      /\ \/ done' = done
         \/ /\ status = "queued" /\ dl[c].kind = "leaves" /\ dl[c].seg \in Ranges
            /\ done' # {WholeFile}
            /\ \E S \in SUBSET Positions(dl[c].seg) : Covered(done') = Covered(done) \cup S
  BY RecordFailedFacts
<1>2. /\ pc' = [pc EXCEPT ![c] = "idle"]
      /\ \A d \in Conns \ {c} : dl'[d] = dl[d]
  BY <1>1, ReleasedFacts
<1>3. CASE status = "queued"
  <2>1. done # {WholeFile}
    BY <1>3 DEF AInv, Unfinished
  <2>2. HandsIn(c)
    BY <1>1, <1>2, <1>3, <2>1 DEF HandsIn, Busy
  <2> QED BY <2>2, HandsInKeeps
<1>4. CASE status # "queued"
  <2>1. StepsAside(c)
    BY <1>1, <1>2, <1>4 DEF StepsAside
  <2> QED BY <2>1, StepsAsideKeeps
<1> QED BY <1>3, <1>4

\* A connection that has nothing to record.
LEMMA EndingAside ==
    ASSUME IInv, NEW c \in Conns, PutTwice(c) \/ SaveTree(c) \/ Rename(c)
    PROVE  StepsAside(c)
<1> USE DEF queueVars
<1>1. /\ UNCHANGED <<status, done, completions, blockSize, downloads>>
      /\ status = "queued" => pc[c] \notin Busy
  BY DEF PutTwice, SaveTree, Rename, Busy
<1>2. treeKnown' = treeKnown \/ treeKnown' = TRUE
  BY DEF PutTwice, SaveTree, Rename
<1>3. treeKnown => treeKnown'
  BY <1>2, Zenon
<1>4. \E failed : Release(c, failed)
  BY DEF PutTwice, SaveTree, Rename
<1> QED BY <1>1, <1>3, <1>4, ReleasedFacts DEF StepsAside

\* Steps that end the work of a connection without recording anything.
LEMMA EndingStep ==
    ASSUME IInv, IInv', AInv, ExclusiveSegments, NEW c \in Conns,
           PutTwice(c) \/ StoreTree(c) \/ SaveTree(c) \/ Rename(c) \/ NotAssigned(c)
    PROVE  AInv'
<1> USE DEF queueVars
<1>1. CASE PutTwice(c) \/ SaveTree(c) \/ Rename(c)
  BY <1>1, EndingAside, StepsAsideKeeps
<1>2. CASE NotAssigned(c)
  <2>1. StepsAside(c)
    BY <1>2 DEF NotAssigned, StepsAside, Busy, Go
  <2> QED BY <2>1, StepsAsideKeeps
<1>3. CASE StoreTree(c)
  <2>1. /\ UNCHANGED <<status, done, completions, blockSize, treeKnown, dl>>
        /\ pc[c] = "storing" /\ pc' = [pc EXCEPT ![c] = "savingTree"]
        /\ downloads' = downloads \ {c}
    BY <1>3 DEF StoreTree, RemoveDownload, Go
  <2>2. CASE status = "queued"
    <3>1. done # {WholeFile}
      BY <2>2 DEF AInv, Unfinished
    <3>2. HandsIn(c)
      BY <2>1, <2>2, <3>1 DEF HandsIn, Busy
    <3> QED BY <3>2, HandsInKeeps
  <2>3. CASE status # "queued"
    <3>1. StepsAside(c)
      BY <2>1, <2>3 DEF StepsAside
    <3> QED BY <3>1, StepsAsideKeeps
  <2> QED BY <2>2, <2>3
<1> QED BY <1>1, <1>2, <1>3
\* The last segment is recorded: nobody else has anything left to add, or is
\* about to be assigned something.
LEMMA CompleteFileKeeps ==
    ASSUME IInv, IInv', AInv, ExclusiveSegments, NEW c \in Conns, CompleteFile(c)
    PROVE  AInv'
<1>1. /\ pc[c] = "storing" /\ dl[c].kind # "tree" /\ AddFinishedSegment(dl[c].seg)
      /\ done' = {WholeFile} /\ status' = "downloaded" /\ completions' = completions + 1
      /\ pc' = [pc EXCEPT ![c] = "renaming"] /\ UNCHANGED <<dl, blockSize, treeKnown>>
  BY DEF CompleteFile, SegmentsDone, Go
<1>2. /\ status = "queued" /\ c \in downloads /\ Unfinished
      /\ dl[c].seg \in Ranges /\ Fresh(dl[c].seg, done)
      /\ dl[c].kind = "leaves" \/ (dl[c].kind = "root" /\ dl[c].seg = WholeFile)
  BY <1>1, StoringFacts
<1>3. DOMAIN pc = Conns /\ downloads \subseteq Conns /\ done \in SUBSET Ranges
  BY DEF IInv, TypeOK
<1>4. pc'[c] = "renaming" /\ \A d \in Conns \ {c} : pc'[d] = pc[d]
  BY <1>1, <1>3
<1>5. \A x \in Leaves : x \in Covered(done) \/ x \in Positions(dl[c].seg)
  <2>1. Covered(done') = Covered(done) \cup Positions(dl[c].seg)
    BY <1>1, <1>2, RecordCovers
  <2>2. Covered(done') = Leaves
    BY <1>1, WholeFileFacts DEF Covered, Leaves
  <2> QED BY <2>1, <2>2
<1>6. ASSUME NEW d \in Conns, pc'[d] \in Busy, dl[d].kind # "tree"
      PROVE  dl[d].seg = Blocked
  <2>1. d # c /\ pc[d] \in Busy
    BY <1>4, <1>6 DEF Busy
  <2>2. d \in downloads /\ Working(d) /\ downloads # {d}
    BY <1>2, <2>1 DEF Unfinished
  <2>3. dl[d].kind = "leaves" /\ (dl[d].seg = Blocked \/ Fresh(dl[d].seg, done))
    BY <1>6, <2>2 DEF Working
  <2>4. ASSUME Fresh(dl[d].seg, done) PROVE FALSE
    <3>1. dl[d].seg \in Ranges /\ dl[d].seg.size > 0
      BY <2>4 DEF Fresh
    <3>2. ~Overlaps(dl[d].seg, dl[c].seg)
      BY <1>2, <2>1, <2>2, <2>3 DEF ExclusiveSegments, IsFileDownload
    <3>3. dl[d].seg.start \in Positions(dl[d].seg)
      BY <3>1, SizeAssumption DEF Positions, Ranges, End
    <3>4. dl[d].seg.start \in Leaves
      BY <3>1, <3>3, PositionFacts DEF Leaves
    <3>5. dl[d].seg.start \notin Covered(done)
      BY <1>3, <2>4, <3>1, <3>3, FreshFacts
    <3>6. dl[d].seg.start \notin Positions(dl[c].seg)
      BY <1>2, <3>1, <3>2, <3>3, DisjointPositions
    <3> QED BY <1>5, <3>4, <3>5, <3>6
  <2> QED BY <2>3, <2>4
<1>7. Finished'
  BY <1>1, <1>2, <1>6 DEF Finished, Unfinished
<1>8. ASSUME NEW d \in Conns PROVE pc'[d] # "selected" /\ Failed(d)'
  <2>1. pc[d] # "selected"
    <3> SUFFICES ASSUME pc[d] = "selected" PROVE FALSE
      OBVIOUS
    <3>1. blockSize = 1 /\ Size > 1 /\ \E x \in Leaves : Missing(x)
      BY <1>2 DEF AInv, Selected
    <3>2. PICK x \in Leaves : Missing(x)
      BY <3>1
    <3>3. dl[c].kind = "leaves"
      BY <1>2, <3>1, SizeAssumption DEF Unfinished, Working
    <3> QED BY <1>2, <1>5, <3>2, <3>3 DEF Missing
  <2>2. Failed(d)'
    BY <1>1, <1>4 DEF AInv, Failed
  <2> QED BY <1>4, <2>1, <2>2
<1> QED BY <1>1, <1>7, <1>8 DEF AInv, Selected

\* A connection is selected: what HasSegment finds is missing.
LEMMA SelectKeeps ==
    ASSUME IInv, AInv, ~OverlapSlow, NEW c \in Conns, Select(c)
    PROVE  AInv'
<1>1. /\ pc[c] = "idle" /\ (\A d \in Conns : pc[d] # "selected")
      /\ status = "queued" /\ HasSegment(c) /\ pc' = [pc EXCEPT ![c] = "selected"]
      /\ UNCHANGED <<status, done, completions, downloads, blockSize, treeKnown, dl>>
  BY DEF Select, queueVars, Go
<1>2. DOMAIN pc = Conns /\ downloads \subseteq Conns /\ blockSize \in {1, Size}
  BY DEF IInv, TypeOK
<1>3. pc'[c] = "selected" /\ \A d \in Conns \ {c} : pc'[d] = pc[d]
  BY <1>1, <1>2
<1> DEFINE claimed == {dl[d].seg : d \in downloads}
           found == IF PartsOf[c] = {} THEN FirstFree(done, claimed, 1, 1)
                                       ELSE NeededParts(done, claimed, 1, 1, PartsOf[c])
<1>4. ASSUME downloads # {}
      PROVE  MultiChunk /\ blockSize = 1 /\ Size > 1 /\ \E x \in Leaves : Missing(x)
  <2>1. PICK r \in NextSegment(c, done, blockSize, 1, TRUE) : r.seg.size # 0
    BY <1>1, <1>4 DEF HasSegment
  <2>2. r \notin CheckOverlaps(c, blockSize, TRUE) /\ r # Choice(Blocked, FALSE)
    <3>1. r \notin CheckOverlaps(c, blockSize, TRUE)
      BY <2>1, NoOverlapChoice
    <3>2. Choice(Blocked, FALSE).seg.size = 0
      BY BlockedFacts DEF Choice
    <3> QED BY <2>1, <3>1, <3>2
  <2>3. MultiChunk /\ ~(blockSize >= Size)
    BY <1>4, <2>1, <2>2 DEF NextSegment
  <2>4. blockSize = 1 /\ Size > 1
    BY <1>2, <2>3, SizeAssumption
  <2>5. found # {}
    BY <2>1, <2>2, <2>3, <2>4 DEF NextSegment
  <2>6. done \in SUBSET Ranges /\ claimed \in SUBSET [start : Int, size : Int]
    BY RunningFacts DEF IInv, TypeOK
  <2>7. \E x : IsFree(done, claimed, x)
    <3>1. CASE PartsOf[c] = {}
      <4>1. PICK f : f \in FreeBlocks(done, claimed, 1, 1)
        BY <2>5, <3>1 DEF FirstFree
      <4>2. f \in Ranges /\ f.size > 0
        BY <4>1, FreeUnitsFacts
      <4>3. f.start \in Positions(f)
        BY <4>2, SizeAssumption DEF Positions, Ranges, End
      <4> QED BY <2>6, <4>1, <4>3, BlockPositionFree
    <3>2. CASE PartsOf[c] # {}
      <4>1. PICK s : s \in NeededParts(done, claimed, 1, 1, PartsOf[c])
        BY <2>5, <3>2
      <4>2. PartsOf[c] \in SUBSET FileSegments
        BY SegmentedDownloadAssumption
      <4> QED BY <2>6, <4>1, <4>2, NeededPartFree
    <3> QED BY <3>1, <3>2
  <2>8. PICK x : IsFree(done, claimed, x)
    BY <2>7
  <2>9. x \in Leaves /\ Missing(x)
    BY <2>8 DEF IsFree, Missing, Leaves, Covered
  <2> QED BY <2>3, <2>4, <2>9
<1>5. \A x : Missing(x) => Missing(x)'
  BY <1>1 DEF Missing
<1>6. Selected(c)'
  BY <1>1, <1>4, <1>5 DEF Selected
<1>7. ASSUME NEW d \in Conns PROVE Selected(d)' /\ Failed(d)'
  <2>1. Failed(d)'
    BY <1>1, <1>3 DEF AInv, Failed
  <2>2. Selected(d)'
    BY <1>1, <1>3, <1>6 DEF Selected
  <2> QED BY <2>1, <2>2
<1>8. Unfinished'
  <2>1. Unfinished
    BY <1>1 DEF AInv
  <2>2. \A d \in Conns : pc'[d] \in Busy <=> d \in downloads'
    BY <1>1, <1>3, <2>1 DEF Unfinished, Busy
  <2> QED BY <1>1, <2>1, <2>2 DEF Unfinished, Working, Fresh
<1>9. \A d, e \in Conns : pc'[d] = "selected" /\ pc'[e] = "selected" => d = e
  BY <1>1, <1>3
<1> QED BY <1>1, <1>7, <1>8, <1>9 DEF AInv

\* A download is assigned: it is the only one, or each has its part.
LEMMA AssignKeeps ==
    ASSUME IInv, IInv', AInv, ~OverlapSlow, NEW c \in Conns, Assign(c)
    PROVE  AInv'
<1> DEFINE D == IF HasBytes /\ ~temp THEN {} ELSE done
<1>1. /\ pc[c] = "selected" /\ ~NoNeededPart(c) /\ done' = D
      /\ downloads' = downloads \cup {c} /\ pc' = [pc EXCEPT ![c] = "assigned"]
      /\ UNCHANGED <<status, completions, treeKnown>>
      /\ blockSize' = IF treeKnown THEN 1 ELSE blockSize
      /\ \E n \in InitSegment(c, D) : dl' \in {[ds EXCEPT ![c] = n] : ds \in Flag(dl, n)}
  BY DEF Assign, Go
<1>2. D \in {done, {}}
  OBVIOUS
<1> HIDE DEF D
<1>3. PICK n \in InitSegment(c, D) : dl' \in {[ds EXCEPT ![c] = n] : ds \in Flag(dl, n)}
  BY <1>1
<1>4. PICK ds \in Flag(dl, n) : dl' = [ds EXCEPT ![c] = n]
  BY <1>3
<1>5. /\ ds \in [Conns -> Download]
      /\ \A d \in Conns : /\ ds[d].kind = dl[d].kind /\ ds[d].seg = dl[d].seg
                          /\ ds[d].pos = dl[d].pos
  BY <1>4, FlagFacts DEF IInv
<1>6. /\ dl'[c] = n
      /\ \A d \in Conns \ {c} : /\ dl'[d].kind = dl[d].kind /\ dl'[d].seg = dl[d].seg
                                /\ dl'[d].pos = dl[d].pos
  BY <1>4, <1>5
<1>7. /\ n.kind \in {"leaves", "root", "tree"}
      /\ n.kind = "leaves" => treeKnown /\ (n.seg = Blocked \/ Fresh(n.seg, D))
      /\ n.kind = "root" => ~treeKnown /\ n.seg = WholeFile /\ Fresh(n.seg, D)
      /\ n.kind = "tree" => ~treeKnown
  BY <1>1, <1>2, <1>3, AssignedDownload
<1>8. DOMAIN pc = Conns /\ downloads \subseteq Conns /\ blockSize \in {1, Size}
  BY DEF IInv, TypeOK
<1>9. pc'[c] = "assigned" /\ \A d \in Conns \ {c} : pc'[d] = pc[d] /\ pc'[d] # "selected"
  BY <1>1, <1>8 DEF AInv
<1>10. /\ status = "queued" /\ Unfinished
       /\ downloads = {} \/ (blockSize = 1 /\ Size > 1)
  BY <1>1 DEF AInv, Selected
<1>11. ~treeKnown => blockSize = Size /\ downloads = {}
  BY <1>10, SizeAssumption DEF AInv
<1>12. \A d \in Conns : Selected(d)' /\ Failed(d)'
  <2> TAKE d \in Conns
  <2>1. Selected(d)'
    BY <1>9 DEF Selected
  <2>2. Failed(d)'
    BY <1>6, <1>9 DEF AInv, Failed
  <2> QED BY <2>1, <2>2
<1>13. Working(c)'
  <2>1. n.kind = "leaves" => blockSize' = 1
    BY <1>1, <1>7
  <2>2. n.kind \in {"root", "tree"} => downloads' = {c} /\ blockSize' = Size
    BY <1>1, <1>7, <1>11
  <2>3. n.kind # "tree" => n.seg = Blocked \/ Fresh(n.seg, done')
    BY <1>1, <1>7
  <2> QED BY <1>6, <1>7, <2>1, <2>2, <2>3 DEF Working, Fresh
<1>14. ASSUME NEW d \in downloads PROVE Working(d)'
  <2>1. Working(d) /\ d \in Conns /\ d # c /\ blockSize = 1 /\ Size > 1
    BY <1>1, <1>8, <1>10 DEF Unfinished, Busy
  <2>2. dl[d].kind = "leaves" /\ (dl[d].seg = Blocked \/ Fresh(dl[d].seg, done))
    BY <2>1, SizeAssumption DEF Working
  <2>3. dl[d].seg = Blocked \/ Fresh(dl[d].seg, done')
    BY <1>1, <1>2, <2>2 DEF Fresh
  <2>4. blockSize' = 1
    BY <1>1, <2>1
  <2> QED BY <1>6, <2>1, <2>2, <2>3, <2>4 DEF Working, Fresh
<1>15. Unfinished'
  <2>1. \A d \in Conns : pc'[d] \in Busy <=> d \in downloads'
    BY <1>1, <1>9, <1>10 DEF Unfinished, Busy
  <2>2. blockSize' # 1 => done' = {}
    BY <1>1, <1>2, <1>10 DEF Unfinished
  <2>3. done' # {WholeFile} /\ completions' = 0
    BY <1>1, <1>2, <1>10 DEF Unfinished
  <2> QED BY <1>1, <1>13, <1>14, <2>1, <2>2, <2>3 DEF Unfinished
<1>16. ~treeKnown' => blockSize' = Size
  BY <1>1, <1>11
<1> QED BY <1>1, <1>9, <1>10, <1>12, <1>15, <1>16 DEF AInv
\* The state a file is loaded with.
LEMMA InitAInv == TreesLoaded /\ Init => AInv
<1> SUFFICES ASSUME TreesLoaded, Init PROVE AInv
  OBVIOUS
<1>1. PICK l \in Loaded : done = l.done /\ treeKnown = l.treeKnown
  BY DEF Init
<1>2. done # {WholeFile} /\ (treeKnown \/ done = {})
  BY <1>1, SegmentedDownloadAssumption DEF TreesLoaded
<1>3. status = "queued" /\ downloads = {} /\ completions = 0 /\ \A c \in Conns : pc[c] = "idle"
  BY DEF Init
<1>4. blockSize = IF treeKnown THEN 1 ELSE Size
  BY DEF Init
<1>5. ~treeKnown => blockSize = Size
  BY <1>4
<1>6. blockSize # 1 => done = {}
  BY <1>2, <1>4
<1>7. Unfinished
  BY <1>2, <1>3, <1>6 DEF Unfinished, Busy
<1> QED BY <1>3, <1>5, <1>7 DEF AInv, Selected, Failed

\* Every step keeps the invariant.
LEMMA NextAInv ==
    ASSUME ~OverlapSlow, IInv, IInv', AInv, ExclusiveSegments, [Next]_vars
    PROVE  AInv'
<1>1. CASE UNCHANGED vars
  BY <1>1, StillStep DEF vars, queueVars
<1>2. CASE \/ Pause \/ RunPauseTask \/ Resume \/ LoseTemp \/ RunFileCompletionHooks
           \/ \E c \in Conns : RemoveSource(c) \/ AddSource(c)
  BY <1>2, OutsideIsStill, StillStep
<1>3. ASSUME NEW c \in Conns,
             Select(c) \/ Internal(c) \/ Remote(c) \/ Drop(c) \/ NotAvailable(c)
      PROVE  AInv'
  <2>1. CASE \/ Request(c) \/ Remote(c) \/ Open(c) \/ OpenFailed(c) \/ Drop(c)
             \/ NotAvailable(c) \/ RemoveFromManager(c) \/ Put(c) \/ CheckUseless(c)
             \/ DeleteTemp(c)
    BY <2>1, MovingStep, MovesOnKeeps
  <2>2. CASE PutTwice(c) \/ StoreTree(c) \/ SaveTree(c) \/ Rename(c) \/ NotAssigned(c)
    BY <2>2, EndingStep
  <2>3. CASE StoreSegment(c)
    BY <2>3, StoreSegmentHandsIn, HandsInKeeps
  <2>4. CASE RecordFailed(c)
    BY <2>4, RecordFailedKeeps
  <2>5. CASE CompleteFile(c)
    BY <2>5, CompleteFileKeeps
  <2>6. CASE Select(c)
    BY <2>6, SelectKeeps
  <2>7. CASE Assign(c)
    BY <2>7, AssignKeeps
  <2> QED BY <1>3, <2>1, <2>2, <2>3, <2>4, <2>5, <2>6, <2>7 DEF Internal
<1> QED BY <1>1, <1>2, <1>3 DEF Next

\* What holds of assembling the file in every reachable state.
THEOREM AssemblyInvariant ==
    ASSUME ~OverlapSlow, TreesLoaded
    PROVE  Spec => []AInv
<1>1. Init => AInv
  BY InitAInv
<1>2. IInv /\ IInv' /\ ExclusiveSegments /\ AInv /\ [Next]_vars => AInv'
  BY NextAInv
<1> QED BY <1>1, <1>2, InductiveInvariant, SegmentsExclusive, PTL DEF Spec

\* The file is found complete when its last segment is recorded, by one connection
\* and once, whatever fails, is removed, refused or paused meanwhile
\* (putDownloadHooked, onFileDownloadCompleted, onDownloadFailed), if slow sources
\* are not overlapped and a file with finished segments has its tree.
THEOREM CompletedOnce ==
    ASSUME ~OverlapSlow, TreesLoaded
    PROVE  Spec => []FinishedOnce
<1>1. AInv => FinishedOnce
  BY DEF AInv, Unfinished, Finished, FinishedOnce, SegmentsDone
<1> QED BY <1>1, AssemblyInvariant, PTL

-----------------------------------------------------------------------------
(* That the file is assembled as module FileAssembly says.                  *)

\* What connection c has claimed.
ClaimOf(c) ==
    IF c \in downloads /\ status = "queued" /\ IsFileDownload(c)
    THEN Positions(dl[c].seg) ELSE {}

\* A step after which the same leaves are finished and claimed.
LEMMA NothingClaimed ==
    ASSUME done' = done, (status' = "queued") = (status = "queued"),
           \A c \in Conns : ClaimOf(c)' = ClaimOf(c)
    PROVE  UNCHANGED Assembly!vars
<1>1. UNCHANGED Covered(done)
  BY DEF Covered
<1>2. UNCHANGED [c \in Conns |-> ClaimOf(c)]
  OBVIOUS
<1>3. UNCHANGED (status # "queued")
  OBVIOUS
<1> QED BY <1>1, <1>2, <1>3, Zenon DEF Assembly!vars, ClaimOf

\* The file begins with some leaves missing and nothing claimed.
LEMMA AssemblyInit ==
    ASSUME IInv, AInv, Init
    PROVE  Assembly!Init
<1>1. done \in SUBSET Ranges /\ Canonical(done) /\ done # {WholeFile}
  BY DEF IInv, TypeOK, AInv, Unfinished, Init
<1>2. Covered(done) \in SUBSET Leaves /\ Covered(done) # Leaves
  <2>1. Covered(done) \subseteq 0 .. Size - 1
    BY <1>1, PositionFacts DEF Covered
  <2> QED BY <1>1, <2>1, CoveredAll DEF Leaves
<1>3. downloads = {} /\ status = "queued"
  BY DEF Init
<1> QED BY <1>2, <1>3 DEF Assembly!Init
\* Steps that claim and finish nothing.
LEMMA GoingOnClaimsNothing ==
    ASSUME IInv, AInv, NEW c \in Conns, MovesOn(c) \/ StepsAside(c)
    PROVE  UNCHANGED Assembly!vars
<1>1. CASE MovesOn(c)
  <2>1. \A d \in Conns : ClaimOf(d)' = ClaimOf(d)
    BY <1>1 DEF MovesOn, ClaimOf, IsFileDownload
  <2> QED BY <1>1, <2>1, NothingClaimed DEF MovesOn
<1>2. CASE StepsAside(c)
  <2>1. status' = status /\ done' = done
    BY <1>2 DEF StepsAside
  <2>2. ASSUME NEW d \in Conns PROVE ClaimOf(d)' = ClaimOf(d)
    <3>1. CASE status = "queued"
      <4>1. c \notin downloads /\ downloads' = downloads
        BY <1>2, <3>1 DEF StepsAside, AInv, Unfinished
      <4>2. d # c => dl'[d] = dl[d]
        BY <1>2 DEF StepsAside
      <4> QED BY <2>1, <4>1, <4>2 DEF ClaimOf, IsFileDownload
    <3>2. CASE status # "queued"
      BY <2>1, <3>2 DEF ClaimOf
    <3> QED BY <3>1, <3>2
  <2> QED BY <2>1, <2>2, NothingClaimed
<1> QED BY <1>1, <1>2

\* Handing in delivers what has become finished.
LEMMA HandingInDelivers ==
    ASSUME IInv, IInv', AInv, NEW c \in Conns, HandsIn(c),
           NEW S \in SUBSET ClaimOf(c), Covered(done') = Covered(done) \cup S
    PROVE  Assembly!Next
<1>1. status = "queued" /\ status' = "queued"
  BY DEF HandsIn
<1>2. Covered(done') # Leaves
  BY CoveredAll DEF HandsIn, IInv, TypeOK, Leaves
<1>3. ClaimOf(c)' = {}
  BY DEF ClaimOf, HandsIn
<1>4. \A d \in Conns \ {c} : ClaimOf(d)' = ClaimOf(d)
  BY <1>1 DEF ClaimOf, HandsIn, IsFileDownload
<1> DEFINE claims == [d \in Conns |-> ClaimOf(d)]
<1>5. claims' = [claims EXCEPT ![c] = {}]
  BY <1>3, <1>4
<1>6. S \in SUBSET claims[c]
  OBVIOUS
<1>7. Assembly!Deliver(c)
  BY <1>1, <1>2, <1>5, <1>6 DEF Assembly!Deliver, ClaimOf
<1> QED BY <1>7 DEF Assembly!Next

\* Storing a segment, and putting a failed download back, deliver something.
LEMMA RecordingDelivers ==
    ASSUME IInv, IInv', AInv, NEW c \in Conns,
           StoreSegment(c) \/ (RecordFailed(c) /\ status = "queued")
    PROVE  Assembly!Next
<1>1. CASE StoreSegment(c)
  <2>1. HandsIn(c)
    BY <1>1, StoreSegmentHandsIn
  <2>2. pc[c] = "storing" /\ dl[c].kind # "tree" /\ AddFinishedSegment(dl[c].seg)
    BY <1>1 DEF StoreSegment
  <2>3. /\ status = "queued" /\ c \in downloads /\ dl[c].seg \in Ranges
        /\ dl[c].kind \in {"leaves", "root"}
    BY <2>2, StoringFacts
  <2>4. ClaimOf(c) = Positions(dl[c].seg)
    BY <2>3 DEF ClaimOf, IsFileDownload
  <2>5. Covered(done') = Covered(done) \cup ClaimOf(c)
    BY <2>2, <2>3, <2>4, RecordCovers
  <2> QED BY <2>1, <2>5, HandingInDelivers
<1>2. CASE RecordFailed(c) /\ status = "queued"
  <2>1. /\ pc[c] = "recording" /\ Release(c, TRUE) /\ downloads' = downloads \ {c}
        /\ UNCHANGED <<status, completions, blockSize, treeKnown>>
        /\ \/ done' = done
           \/ /\ status = "queued" /\ dl[c].kind = "leaves" /\ dl[c].seg \in Ranges
              /\ done' # {WholeFile}
              /\ \E S \in SUBSET Positions(dl[c].seg) : Covered(done') = Covered(done) \cup S
    BY <1>2, RecordFailedFacts
  <2>2. /\ pc' = [pc EXCEPT ![c] = "idle"]
        /\ \A d \in Conns \ {c} : dl'[d] = dl[d]
    BY <2>1, ReleasedFacts
  <2>3. done # {WholeFile} /\ c \in downloads
    BY <1>2, <2>1 DEF AInv, Unfinished, Busy
  <2>4. HandsIn(c)
    BY <1>2, <2>1, <2>2, <2>3 DEF HandsIn, Busy
  <2>5. \E S \in SUBSET ClaimOf(c) : Covered(done') = Covered(done) \cup S
    <3>1. CASE done' = done
      <4>1. Covered(done') = Covered(done)
        BY <3>1 DEF Covered
      <4>2. Covered(done) = Covered(done) \cup {} /\ {} \in SUBSET ClaimOf(c)
        OBVIOUS
      <4> QED BY <4>1, <4>2
    <3>2. CASE done' # done
      <4>1. ClaimOf(c) = Positions(dl[c].seg)
        BY <2>1, <2>3, <3>2 DEF ClaimOf, IsFileDownload
      <4> QED BY <2>1, <3>2, <4>1
    <3> QED BY <3>1, <3>2
  <2> QED BY <2>4, <2>5, HandingInDelivers
<1> QED BY <1>1, <1>2

\* Completing the file delivers the last leaves.
LEMMA CompletingCompletes ==
    ASSUME IInv, AInv, NEW c \in Conns, CompleteFile(c)
    PROVE  Assembly!Next
<1>1. /\ pc[c] = "storing" /\ dl[c].kind # "tree" /\ AddFinishedSegment(dl[c].seg)
      /\ done' = {WholeFile} /\ status' = "downloaded"
  BY DEF CompleteFile, SegmentsDone
<1>2. /\ status = "queued" /\ c \in downloads /\ dl[c].seg \in Ranges
      /\ dl[c].kind \in {"leaves", "root"}
  BY <1>1, StoringFacts
<1>3. ClaimOf(c) = Positions(dl[c].seg)
  BY <1>2 DEF ClaimOf, IsFileDownload
<1>4. Covered(done') = Leaves
  BY <1>1, WholeFileFacts DEF Covered, Leaves
<1>5. Covered(done) \cup ClaimOf(c) = Leaves
  BY <1>1, <1>2, <1>3, <1>4, RecordCovers
<1> DEFINE claims == [d \in Conns |-> ClaimOf(d)]
<1>6. claims' = [d \in Conns |-> {}]
  BY <1>1 DEF ClaimOf
<1>7. Covered(done) \cup claims[c] = Leaves
  BY <1>5
<1>8. Assembly!Complete(c)
  BY <1>1, <1>2, <1>4, <1>6, <1>7 DEF Assembly!Complete, ClaimOf
<1> QED BY <1>8 DEF Assembly!Next
\* What a connection has claimed is a part of the file that is not finished.
ClaimsFresh ==
    \A d \in Conns :
        \/ ClaimOf(d) = {}
        \/ /\ d \in downloads /\ IsFileDownload(d) /\ Fresh(dl[d].seg, done)
           /\ ClaimOf(d) = Positions(dl[d].seg)

LEMMA ClaimFacts == IInv /\ AInv => ClaimsFresh
<1> SUFFICES ASSUME IInv, AInv, NEW d \in Conns
             PROVE  \/ ClaimOf(d) = {}
                    \/ /\ d \in downloads /\ IsFileDownload(d) /\ Fresh(dl[d].seg, done)
                       /\ ClaimOf(d) = Positions(dl[d].seg)
  BY DEF ClaimsFresh
<1>1. Positions(Blocked) = {}
  BY BlockedFacts DEF Positions, End
<1>2. CASE d \in downloads /\ status = "queued" /\ IsFileDownload(d)
  <2>1. dl[d].seg = Blocked \/ Fresh(dl[d].seg, done)
    BY <1>2 DEF AInv, Unfinished, Working, IsFileDownload
  <2> QED BY <1>1, <1>2, <2>1 DEF ClaimOf
<1> QED BY <1>2 DEF ClaimOf

\* An assignment claims missing leaves that nobody else has claimed.
LEMMA AssigningClaims ==
    ASSUME IInv, IInv', AInv, AInv', ExclusiveSegments', NEW c \in Conns, Assign(c)
    PROVE  Assembly!Next
<1> DEFINE D == IF HasBytes /\ ~temp THEN {} ELSE done
<1>1. /\ pc[c] = "selected" /\ done' = D /\ downloads' = downloads \cup {c}
      /\ status' = status
      /\ \E n \in InitSegment(c, D) : dl' \in {[ds EXCEPT ![c] = n] : ds \in Flag(dl, n)}
  BY DEF Assign
<1>2. done' = done \/ done' = {}
  BY <1>1
<1> HIDE DEF D
<1>3. PICK n \in InitSegment(c, D) : dl' \in {[ds EXCEPT ![c] = n] : ds \in Flag(dl, n)}
  BY <1>1
<1>4. PICK ds \in Flag(dl, n) : dl' = [ds EXCEPT ![c] = n]
  BY <1>3
<1>5. /\ ds \in [Conns -> Download]
      /\ \A d \in Conns : ds[d].kind = dl[d].kind /\ ds[d].seg = dl[d].seg
  BY <1>4, FlagFacts DEF IInv
<1>6. \A d \in Conns \ {c} : dl'[d].kind = dl[d].kind /\ dl'[d].seg = dl[d].seg
  BY <1>4, <1>5
<1>7. status = "queued" /\ c \notin downloads
  BY <1>1 DEF AInv, Selected, Unfinished, Busy
<1>8. \A d \in Conns \ {c} : ClaimOf(d)' = ClaimOf(d)
  BY <1>1, <1>6 DEF ClaimOf, IsFileDownload
<1>9. ClaimOf(c) = {}
  BY <1>7 DEF ClaimOf
<1> DEFINE S == ClaimOf(c)'
           claims == [d \in Conns |-> ClaimOf(d)]
<1>10. ClaimsFresh'
  BY ClaimFacts, PTL
<1>11. \A x \in S : x \in Leaves /\ x \notin Covered(done') /\ \A d \in Conns : x \notin claims[d]
  <2> SUFFICES ASSUME NEW x \in S
               PROVE  /\ x \in Leaves /\ x \notin Covered(done')
                      /\ \A d \in Conns : x \notin ClaimOf(d)
    OBVIOUS
  <2>1. /\ c \in downloads' /\ IsFileDownload(c)' /\ Fresh(dl'[c].seg, done')
        /\ ClaimOf(c)' = Positions(dl'[c].seg)
    BY <1>10 DEF ClaimsFresh, Fresh
  <2>2. dl'[c].seg \in Ranges /\ done' \in SUBSET Ranges
    BY <2>1 DEF Fresh, IInv, TypeOK
  <2>3. x \in Leaves
    BY <2>1, <2>2, PositionFacts DEF Leaves
  <2>4. x \notin Covered(done')
    BY <2>1, <2>2, FreshFacts
  <2>5. ASSUME NEW d \in Conns PROVE x \notin ClaimOf(d)
    <3>1. CASE d = c
      BY <3>1, <1>9
    <3>2. CASE d # c
      <4> SUFFICES ASSUME x \in ClaimOf(d)' PROVE FALSE
        BY <1>8, <3>2
      <4>1. /\ d \in downloads' /\ IsFileDownload(d)' /\ Fresh(dl'[d].seg, done')
            /\ ClaimOf(d)' = Positions(dl'[d].seg)
        BY <1>10 DEF ClaimsFresh, Fresh
      <4>2. ~Overlaps(dl'[c].seg, dl'[d].seg) /\ dl'[d].seg \in Ranges
        BY <2>1, <3>2, <4>1 DEF ExclusiveSegments, Fresh
      <4> QED BY <2>1, <2>2, <4>1, <4>2, DisjointPositions
    <3> QED BY <3>1, <3>2
  <2> QED BY <2>3, <2>4, <2>5
<1>12. claims' = [claims EXCEPT ![c] = S]
  BY <1>8
<1>13. claims[c] = {}
  BY <1>9
<1>14. S \in SUBSET (Leaves \ UNION {claims[w] : w \in Conns})
  BY <1>11
<1> HIDE DEF S
<1>15. CASE done' = done
  <2>1. Covered(done') = Covered(done)
    BY <1>15 DEF Covered
  <2>2. S \in SUBSET (Leaves \ (Covered(done) \cup UNION {claims[w] : w \in Conns}))
    BY <1>11, <1>14, <2>1
  <2>3. Assembly!Claim(c)
    BY <1>1, <1>7, <1>12, <1>13, <2>1, <2>2 DEF Assembly!Claim, Assembly!Claimed, ClaimOf
  <2> QED BY <2>3 DEF Assembly!Next
<1>16. CASE done' = {}
  <2>1. Covered(done') = {}
    BY <1>16 DEF Covered
  <2>2. Assembly!StartOver(c)
    BY <1>1, <1>7, <1>12, <1>13, <1>14, <2>1 DEF Assembly!StartOver, Assembly!Claimed, ClaimOf
  <2> QED BY <2>2 DEF Assembly!Next
<1> QED BY <1>2, <1>15, <1>16

\* Every step is one of FileAssembly, or changes nothing that it speaks of.
LEMMA AssemblyStep ==
    ASSUME IInv, IInv', AInv, AInv', ExclusiveSegments', [Next]_vars
    PROVE  Assembly!Next \/ UNCHANGED Assembly!vars
<1> USE DEF queueVars
<1>1. ASSUME UNCHANGED <<dl, done, downloads>>,
             status' = status \/ (status = "downloaded" /\ status' = "completed")
      PROVE  UNCHANGED Assembly!vars
  <2>1. \A d \in Conns : ClaimOf(d)' = ClaimOf(d)
    BY <1>1 DEF ClaimOf, IsFileDownload
  <2> QED BY <1>1, <2>1, NothingClaimed
<1>2. CASE UNCHANGED vars
  BY <1>1, <1>2 DEF vars
<1>3. CASE \/ Pause \/ RunPauseTask \/ Resume \/ LoseTemp \/ RunFileCompletionHooks
           \/ \E c \in Conns : RemoveSource(c) \/ AddSource(c)
  BY <1>1, <1>3, OutsideIsStill
<1>4. ASSUME NEW c \in Conns,
             Select(c) \/ Internal(c) \/ Remote(c) \/ Drop(c) \/ NotAvailable(c)
      PROVE  Assembly!Next \/ UNCHANGED Assembly!vars
  <2>1. CASE \/ Request(c) \/ Remote(c) \/ Open(c) \/ OpenFailed(c) \/ Drop(c)
             \/ NotAvailable(c) \/ RemoveFromManager(c) \/ Put(c) \/ CheckUseless(c)
             \/ DeleteTemp(c)
    BY <2>1, MovingStep, GoingOnClaimsNothing
  <2>2. CASE Select(c) \/ NotAssigned(c)
    BY <1>1, <2>2 DEF Select, NotAssigned
  <2>3. CASE PutTwice(c) \/ SaveTree(c) \/ Rename(c)
    <3>1. StepsAside(c)
      BY <2>3, EndingAside
    <3> QED BY <3>1, GoingOnClaimsNothing
  <2>4. CASE StoreTree(c)
    <3>1. /\ UNCHANGED <<dl, done, status>> /\ dl[c].kind = "tree"
          /\ downloads' = downloads \ {c}
      BY <2>4 DEF StoreTree, RemoveDownload
    <3>2. \A d \in Conns : ClaimOf(d)' = ClaimOf(d)
      BY <3>1 DEF ClaimOf, IsFileDownload
    <3> QED BY <3>1, <3>2, NothingClaimed
  <2>5. CASE StoreSegment(c) \/ (RecordFailed(c) /\ status = "queued")
    BY <2>5, RecordingDelivers
  <2>6. CASE RecordFailed(c) /\ status # "queued"
    <3>1. status' = status /\ done' = done
      BY <2>6, RecordFailedFacts
    <3>2. \A d \in Conns : ClaimOf(d)' = ClaimOf(d)
      BY <2>6, <3>1 DEF ClaimOf
    <3> QED BY <3>1, <3>2, NothingClaimed
  <2>7. CASE CompleteFile(c)
    BY <2>7, CompletingCompletes
  <2>8. CASE Assign(c)
    BY <2>8, AssigningClaims
  <2> QED BY <1>4, <2>1, <2>2, <2>3, <2>4, <2>5, <2>6, <2>7, <2>8 DEF Internal
<1> QED BY <1>2, <1>3, <1>4 DEF Next

\* A queued file is put together as FileAssembly promises: no leaf is fetched by
\* two connections at once or again after it has been finished, and the file is
\* complete when the last leaf is, if slow sources are not overlapped and a file
\* with finished segments has its tree.
THEOREM ImplementsAssembly ==
    ASSUME ~OverlapSlow, TreesLoaded
    PROVE  Spec => AssemblySpec
<1>1. Init => Assembly!Init
  BY InitIInv, InitAInv, AssemblyInit
<1>2. IInv /\ IInv' /\ AInv /\ AInv' /\ ExclusiveSegments' /\ [Next]_vars
      => [Assembly!Next]_Assembly!vars
  BY AssemblyStep
<1> QED BY <1>1, <1>2, InductiveInvariant, AssemblyInvariant, SegmentsExclusive, PTL
        DEF Spec, AssemblySpec, Assembly!Spec

-----------------------------------------------------------------------------
(* The progress of the bundle                                              *)

\* Recording a segment of which nothing was finished.
LEMMA RecordIsExact ==
    ASSUME IInv, AccountingExact, NEW s \in Ranges, s.size > 0,
           Positions(s) \cap Covered(done) = {}, AddFinishedSegment(s)
    PROVE  AccountingExact'
<1>1. done \in SUBSET Ranges /\ Canonical(done)
  BY DEF IInv, TypeOK
<1>2. done' = AddSegment(done, s) /\ credited' = credited + NewBytes(done, s)
  BY DEF AddFinishedSegment
<1>3. Bytes(AddSegment(done, s)) = Bytes(done) + NewBytes(done, s)
  BY <1>1, CreditIsExact
<1> QED BY <1>2, <1>3 DEF AccountingExact

\* A download that has been received gets finished once.
LEMMA StoreIsExact ==
    ASSUME IInv, AInv, AccountingExact, NEW c \in Conns, StoreSegment(c) \/ CompleteFile(c)
    PROVE  AccountingExact'
<1>1. pc[c] = "storing" /\ dl[c].kind # "tree" /\ AddFinishedSegment(dl[c].seg)
  BY DEF StoreSegment, CompleteFile
<1>2. dl[c].seg \in Ranges /\ Fresh(dl[c].seg, done) /\ done \in SUBSET Ranges
  BY <1>1, StoringFacts DEF IInv, TypeOK
<1> QED BY <1>1, <1>2, FreshFacts, RecordIsExact

\* So does what a failed one has received.
LEMMA RecordFailedIsExact ==
    ASSUME IInv, AInv, AccountingExact, NEW c \in Conns, RecordFailed(c)
    PROVE  AccountingExact'
<1>1. pc[c] = "recording"
  BY DEF RecordFailed
<1>2. CASE ~(dl[c].kind = "leaves" /\ CompleteLeaves(c) > 0)
  BY <1>2 DEF RecordFailed, AccountingExact
<1>3. CASE dl[c].kind = "leaves" /\ CompleteLeaves(c) > 0
  <2> DEFINE g == dl[c].seg
             n == dl[c].pos
             s == Seg(g.start, n)
  <2>1. AddFinishedSegment(s)
    BY <1>3 DEF RecordFailed, CompleteLeaves
  <2>2. n \in Nat /\ n > 0 /\ g \in Ranges /\ n <= g.size /\ done \in SUBSET Ranges
    BY <1>3 DEF IInv, TypeOK, Download, Sound, CompleteLeaves
  <2>3. status = "queued" /\ Unfinished
    BY <1>1, <1>3, <2>2, BlockedFacts DEF AInv, Finished, Busy
  <2>4. Fresh(g, done)
    BY <1>1, <1>3, <2>2, <2>3, BlockedFacts DEF Unfinished, Busy, Working
  <2>5. g.start \in 0 .. Size /\ g.size \in 0 .. Size /\ g.start + g.size <= Size /\ Size \in Nat
    BY <2>2, SizeAssumption DEF Ranges, End
  <2>6. s.start = g.start /\ s.size = n /\ s \in Ranges
    BY <2>2, <2>5 DEF Seg, Ranges, End
  <2>7. Positions(s) \subseteq Positions(g)
    BY <2>2, <2>5, <2>6 DEF Positions, End
  <2> HIDE DEF g, n, s
  <2>8. Positions(s) \cap Covered(done) = {}
    BY <2>2, <2>4, <2>7, FreshFacts
  <2> QED BY <2>1, <2>2, <2>6, <2>8, RecordIsExact
<1> QED BY <1>2, <1>3

\* What is given up is taken back.
LEMMA AssignIsExact ==
    ASSUME IInv, AccountingExact, NEW c \in Conns, Assign(c)
    PROVE  AccountingExact'
<1>1. done \in SUBSET Ranges /\ Canonical(done)
  BY DEF IInv, TypeOK
<1>2. \A D \in {done, {}} : D \in SUBSET Ranges /\ Canonical(D)
  BY <1>1 DEF Canonical
<1>3. \A D \in {done, {}} : Bytes(D) \in Nat
  BY <1>2, BytesCovered, FiniteRanges, FS_CardinalityType
<1>4. PICK D \in {done, {}} : done' = D /\ credited' = credited - LostBytes(D)
  BY DEF Assign
<1>5. credited' = credited - (Bytes(done) - Bytes(D))
  BY <1>4 DEF LostBytes
<1> QED BY <1>3, <1>4, <1>5 DEF AccountingExact

LEMMA AccountingStep ==
    ASSUME IInv, AInv, AccountingExact, [Next]_vars
    PROVE  AccountingExact'
<1> USE DEF queueVars, AccountingExact
<1>1. CASE UNCHANGED vars
  BY <1>1 DEF vars
<1>2. CASE \/ Pause \/ RunPauseTask \/ Resume \/ LoseTemp \/ RunFileCompletionHooks
           \/ \E c \in Conns : RemoveSource(c) \/ AddSource(c)
  BY <1>2 DEF Pause, RunPauseTask, Resume, LoseTemp, RunFileCompletionHooks, RemoveSource, AddSource
<1>3. ASSUME NEW c \in Conns,
             Select(c) \/ Internal(c) \/ Remote(c) \/ Drop(c) \/ NotAvailable(c)
      PROVE  AccountingExact'
  <2>1. CASE Select(c) \/ Drop(c) \/ NotAvailable(c)
    BY <2>1 DEF Select, Drop, NotAvailable
  <2>2. CASE Remote(c)
    BY <2>2 DEF Remote, StartTree, ReadProgress, ReceiveTree, ReceivePart, ReceiveLeaf, Mismatch
  <2>3. CASE Open(c) \/ OpenFailed(c) \/ NotAssigned(c) \/ Request(c) \/ RemoveFromManager(c)
    BY <2>3 DEF Open, OpenFailed, NotAssigned, Request, RemoveFromManager
  <2>4. CASE PutTwice(c) \/ Put(c) \/ StoreTree(c) \/ SaveTree(c)
    BY <2>4 DEF PutTwice, Put, StoreTree, SaveTree
  <2>5. CASE Rename(c) \/ CheckUseless(c) \/ DeleteTemp(c)
    BY <2>5 DEF Rename, CheckUseless, DeleteTemp
  <2>6. CASE Assign(c)
    BY <2>6, AssignIsExact
  <2>7. CASE StoreSegment(c) \/ CompleteFile(c)
    BY <2>7, StoreIsExact
  <2>8. CASE RecordFailed(c)
    BY <2>8, RecordFailedIsExact
  <2> QED BY <1>3, <2>1, <2>2, <2>3, <2>4, <2>5, <2>6, <2>7, <2>8 DEF Internal
<1> QED BY <1>1, <1>2, <1>3 DEF Next

\* The progress of the bundle (Bundle::addFinishedSegment, Bundle.cpp:158) is what its
\* file has finished, however segments merge, fail or are given up: although only one of
\* several merges is credited (QueueItem.cpp:595), that one says it all, because nothing
\* of a segment is finished when it is recorded.  With overlapping this is false.
THEOREM AccountingIsExact ==
    ASSUME ~OverlapSlow, TreesLoaded
    PROVE  Spec => []AccountingExact
<1>1. Init => AccountingExact
  BY DEF Init, AccountingExact
<1>2. IInv /\ AInv /\ AccountingExact /\ [Next]_vars => AccountingExact'
  BY AccountingStep
<1> QED BY <1>1, <1>2, InductiveInvariant, AssemblyInvariant, PTL DEF Spec

-----------------------------------------------------------------------------
(* What is on the disk.  onDownloadFailed decides without the lock that a      *)
(* temporary file is of no use, and deletes it (QueueManager.cpp:1717); in     *)
(* between others may begin to use it.  As long as it has not been deleted     *)
(* while it was in use, what is recorded is there, or begun anew.              *)

\* A leaf that is good on the disk; a source that lies may get a short last one wrong.
Kept(b) == onDisk[b] = "good" \/ (ShortTail /\ Liars # {} /\ b = Size - 1 /\ onDisk[b] = "bad")

\* The complete leaves of a download.
Received(c) == dl[c].seg.start .. (dl[c].seg.start + dl[c].pos - 1)

\* Who receives has the temporary file open until the download is put back.
WithFile == {"running", "ended", "failing", "put", "putFailed"}
FileInv(c) ==
    /\ c \notin Liars => dl[c].part # "bad"
    /\ dl[c].kind = "root" => c \notin Liars
    /\ dl[c].kind # "tree" =>
          /\ pc[c] \in {"assigned", "snd", "opening"} => ~dl[c].opened
          /\ dl[c].opened => dl[c].seg \in Ranges
          /\ dl[c].opened /\ pc[c] \in WithFile => temp
          /\ pc[c] \in {"running", "ended", "put", "storing"} => dl[c].opened
          /\ pc[c] \in {"ended", "put", "storing"} => dl[c].pos = dl[c].seg.size
    /\ pc[c] = "opening" => dl[c].kind # "tree"
    /\ dl[c].kind = "tree" => dl[c].seg # Blocked

\* The whole file is asked for only where there may be no tree.
RootInv == (\A l \in Loaded : l.treeKnown) => treeKnown /\ \A c \in Conns : dl[c].kind # "root"

\* What counts as downloaded is in the temporary file.
Intact ==
    /\ \A b \in Covered(done) : Kept(b)
    /\ \A c \in downloads : dl[c].kind \in {"leaves", "root"} => \A b \in Received(c) : Kept(b)

\* Without it nobody has anything to record, and who begins it anew has to be told
\* first that nothing is finished.
Absent ==
    \A c \in downloads :
        dl[c].pos = 0 /\ (pc[c] = "opening" /\ ~dl[c].resume => Covered(done) = {})

QueuedInv ==
    /\ temp => Intact
    /\ ~temp => Absent
    /\ target = "none" /\ \A c \in Conns : pc[c] # "renaming"

\* A complete file waits to be renamed, or has been.
CompleteInv ==
    /\ \A c, d \in Conns : pc[c] = "renaming" /\ pc[d] = "renaming" => c = d
    /\ status # "queued" /\ target = "none" =>
          status = "downloaded" /\ temp /\ \A b \in Leaves : Kept(b)
    /\ target # "none" =>
          /\ ~temp /\ \A c \in Conns : pc[c] # "renaming"
          /\ target = "good" \/ (ShortTail /\ Liars # {} /\ target = "corrupt")

DiskInv ==
    /\ \A c \in Conns : FileInv(c)
    /\ RootInv /\ CompleteInv
    /\ status = "queued" => QueuedInv

\* Nothing happens to the files, and what the connections have received stays.
SameFiles ==
    /\ UNCHANGED <<status, done, downloads, treeKnown, temp, onDisk, target>>
    /\ \A d \in Conns :
          /\ dl'[d].kind = dl[d].kind /\ dl'[d].pos = dl[d].pos /\ dl'[d].part = dl[d].part
          /\ dl'[d].seg = dl[d].seg \/ (dl[d].kind = "tree" /\ dl'[d].seg # Blocked)
          /\ dl[d].kind # "tree" => dl'[d].opened = dl[d].opened

LEMMA SameFilesKeep ==
    ASSUME TypeOK, DiskInv, SameFiles, NEW c \in Conns, FileInv(c)',
           \A d \in Conns \ {c} : pc'[d] = pc[d] /\ dl'[d].resume = dl[d].resume,
           pc'[c] # "renaming",
           pc'[c] = "opening" /\ ~dl'[c].resume => Covered(done) = {}
    PROVE  DiskInv'
<1>1. ASSUME NEW d \in Conns PROVE FileInv(d)'
  BY DEF DiskInv, FileInv, SameFiles
<1>2. RootInv'
  BY DEF DiskInv, RootInv, SameFiles
<1>3. /\ \A d \in Conns : pc'[d] = "renaming" => pc[d] = "renaming"
      /\ \A b : Kept(b)' <=> Kept(b)
      /\ downloads \subseteq Conns
  BY DEF Kept, SameFiles, TypeOK
<1>4. CompleteInv'
  BY <1>3 DEF DiskInv, CompleteInv, SameFiles
<1>5. ASSUME status = "queued" PROVE QueuedInv'
  <2>1. \A d \in downloads : dl[d].kind # "tree" => Received(d)' = Received(d)
    BY <1>3 DEF Received, SameFiles
  <2>2. \A d \in downloads : dl'[d].kind \in {"leaves", "root"} =>
            dl[d].kind \in {"leaves", "root"} /\ dl[d].kind # "tree"
    BY <1>3 DEF SameFiles
  <2>3. Covered(done)' = Covered(done)
    BY DEF SameFiles
  <2>4. Intact => Intact'
    BY <1>3, <2>1, <2>2, <2>3 DEF Intact, SameFiles
  <2>5. Absent => Absent'
    BY <1>3, <2>3 DEF Absent, SameFiles
  <2> QED BY <1>3, <1>5, <2>4, <2>5 DEF DiskInv, QueuedInv, SameFiles
<1>6. status' = status
  BY DEF SameFiles
<1> QED BY <1>1, <1>2, <1>4, <1>5, <1>6 DEF DiskInv

\* Segments of no bytes cover nothing.
LEMMA NothingCovered ==
    ASSUME TypeOK, \A g \in done : ~(g.size > 0)
    PROVE  Covered(done) = {}
<1>1. \A g \in done : g.start \in Int /\ g.size \in Nat
  BY SizeAssumption DEF TypeOK, Ranges
<1>2. \A g \in done : Positions(g) = {}
  BY <1>1 DEF Positions, End
<1> QED BY <1>2 DEF Covered

\* Steps that leave the files alone.
LEMMA CalmStep ==
    ASSUME IInv, DiskInv, NEW c \in Conns,
           \/ Select(c) \/ NotAssigned(c) \/ Request(c) \/ StartTree(c) \/ ReadProgress(c)
           \/ OpenFailed(c) \/ ReceiveTree(c) \/ Mismatch(c) \/ Drop(c) \/ NotAvailable(c)
           \/ RemoveFromManager(c) \/ Put(c) \/ CheckUseless(c)
    PROVE  DiskInv'
<1> USE DEF queueVars, fileVars, Go, SameFiles, FileInv, WithFile
<1>1. TypeOK /\ DOMAIN pc = Conns /\ DOMAIN dl = Conns /\ dl[c] \in Download /\ FileInv(c)
  BY DEF IInv, TypeOK, DiskInv
<1>2. CASE Select(c) \/ NotAssigned(c)
  BY <1>1, <1>2, SameFilesKeep DEF Select, NotAssigned
<1>3. CASE Request(c)
  BY <1>1, <1>3, SameFilesKeep DEF Request
<1>4. CASE RemoveFromManager(c)
  BY <1>1, <1>4, SameFilesKeep DEF RemoveFromManager
<1>5. CASE Put(c)
  BY <1>1, <1>5, SameFilesKeep DEF Put
<1>6. CASE CheckUseless(c)
  BY <1>1, <1>6, SameFilesKeep DEF CheckUseless
<1>7. CASE ReceiveTree(c)
  BY <1>1, <1>7, SameFilesKeep DEF ReceiveTree
<1>8. CASE Mismatch(c)
  BY <1>1, <1>8, SameFilesKeep DEF Mismatch
<1>9. CASE Drop(c)
  BY <1>1, <1>9, SameFilesKeep DEF Drop
<1>10. CASE NotAvailable(c)
  BY <1>1, <1>10, SameFilesKeep DEF NotAvailable
<1>11. CASE ReadProgress(c)
  <2>1. dl'[c].resume = HasBytes
    BY <1>1, <1>11 DEF ReadProgress, Download
  <2>2. ~dl'[c].resume => Covered(done) = {}
    BY <1>1, <2>1, NothingCovered DEF HasBytes
  <2>3. /\ SameFiles /\ FileInv(c)' /\ pc'[c] = "opening"
        /\ \A d \in Conns \ {c} : pc'[d] = pc[d] /\ dl'[d].resume = dl[d].resume
    BY <1>1, <1>11 DEF ReadProgress
  <2> HIDE DEF SameFiles, FileInv
  <2> QED BY <1>1, <2>2, <2>3, SameFilesKeep
<1>12. CASE OpenFailed(c)
  BY <1>1, <1>12, SameFilesKeep DEF OpenFailed
<1>13. CASE StartTree(c)
  <2> DEFINE y == [[dl[c] EXCEPT !.seg = Seg(0, 1)] EXCEPT !.opened = TRUE]
  <2>1. dl' = [dl EXCEPT ![c] = y] /\ dl[c].kind = "tree"
    BY <1>13 DEF StartTree, Started
  <2>2. /\ y.kind = "tree" /\ y.pos = dl[c].pos /\ y.part = dl[c].part
        /\ y.seg # Blocked
    BY <1>1, <2>1 DEF Download, Seg, Blocked
  <2> HIDE DEF y
  <2>3. dl'[c] = y /\ \A d \in Conns \ {c} : dl'[d] = dl[d]
    BY <1>1, <2>1
  <2>4. SameFiles
    BY <1>13, <2>1, <2>2, <2>3 DEF StartTree
  <2>5. pc'[c] \in {"ended", "running"} /\ \A d \in Conns \ {c} : pc'[d] = pc[d]
    BY <1>1, <1>13 DEF StartTree, Started
  <2>6. FileInv(c)'
    BY <1>1, <2>1, <2>2, <2>3, <2>5
  <2> QED BY <1>1, <2>3, <2>4, <2>5, <2>6, SameFilesKeep
<1> QED BY <1>2, <1>3, <1>4, <1>5, <1>6, <1>7, <1>8, <1>9, <1>10, <1>11, <1>12, <1>13

\* Who receives parts of the file has a segment of its own, of which nothing is finished.
LEMMA ReceiverFacts ==
    ASSUME IInv, AInv, NEW c \in Conns, pc[c] \in {"running", "opening"}, dl[c].kind # "tree"
    PROVE  /\ status = "queued" /\ c \in downloads /\ Unfinished
           /\ dl[c].kind \in {"leaves", "root"}
           /\ dl[c].seg \in Ranges /\ Fresh(dl[c].seg, done)
<1>1. dl[c].seg \in Ranges /\ dl[c].seg # Blocked /\ pc[c] \in Busy
  BY BlockedFacts DEF IInv, Sound, Busy
<1>2. status = "queued" /\ Unfinished
  BY <1>1 DEF AInv, Finished
<1>3. c \in downloads /\ Working(c)
  BY <1>1, <1>2 DEF Unfinished
<1> QED BY <1>1, <1>2, <1>3 DEF Working

\* What a download has received lies in its segment.
LEMMA ReceivedInSegment ==
    ASSUME IInv, NEW c \in Conns, dl[c].kind # "tree"
    PROVE  /\ Received(c) \subseteq Positions(dl[c].seg)
           /\ Received(c) # {} => dl[c].seg \in Ranges /\ dl[c].pos > 0
<1>1. dl[c].pos \in Nat /\ dl[c].seg.start \in Int /\ dl[c].seg.size \in Int
  BY SizeAssumption DEF IInv, TypeOK, Download, Ranges, Blocked, Seg
<1>2. CASE dl[c].pos = 0
  BY <1>1, <1>2 DEF Received
<1>3. CASE dl[c].pos > 0
  <2>1. dl[c].seg \in Ranges /\ dl[c].pos <= dl[c].seg.size
    BY <1>3 DEF IInv, Sound
  <2> QED BY <1>1, <1>3, <2>1 DEF Received, Positions, End
<1> QED BY <1>1, <1>2, <1>3

\* The leaf a connection receives is nobody else's.
LEMMA CurrentFacts ==
    ASSUME IInv, AInv, ExclusiveSegments, NEW c \in Conns, pc[c] = "running", dl[c].kind # "tree"
    PROVE  /\ Current(c) \in Leaves /\ Current(c) \notin Covered(done)
           /\ \A d \in downloads : dl[d].kind \in {"leaves", "root"} => Current(c) \notin Received(d)
<1>1. /\ status = "queued" /\ c \in downloads /\ Unfinished /\ dl[c].kind \in {"leaves", "root"}
      /\ dl[c].seg \in Ranges /\ Fresh(dl[c].seg, done)
  BY ReceiverFacts
<1>2. dl[c].pos \in Nat /\ dl[c].pos < dl[c].seg.size /\ done \in SUBSET Ranges
  BY DEF IInv, TypeOK, Download, Sound
<1>3. dl[c].seg.start \in Nat /\ dl[c].seg.size \in Nat
  BY <1>1, SizeAssumption DEF Ranges
<1>4. Current(c) \in Positions(dl[c].seg)
  BY <1>2, <1>3 DEF Current, Positions, End
<1>5. Current(c) \in Leaves /\ Current(c) \notin Covered(done)
  BY <1>1, <1>2, <1>4, PositionFacts, FreshFacts DEF Leaves
<1>6. ASSUME NEW d \in downloads, dl[d].kind \in {"leaves", "root"}, Current(c) \in Received(d)
      PROVE  FALSE
  <2>1. d \in Conns /\ dl[d].kind # "tree"
    BY <1>6 DEF IInv, TypeOK
  <2>2. Current(c) \in Positions(dl[d].seg) /\ dl[d].seg \in Ranges
    BY <1>6, <2>1, ReceivedInSegment
  <2>3. d # c
    BY <1>2, <1>3, <1>6 DEF Current, Received
  <2>4. ~Overlaps(dl[c].seg, dl[d].seg)
    BY <1>1, <1>6, <2>3 DEF ExclusiveSegments, IsFileDownload
  <2> QED BY <1>1, <1>4, <2>2, <2>4, DisjointPositions
<1> QED BY <1>5, <1>6

\* How a step keeps the invariant: what it says of the connections, of what was
\* loaded, and, as long as the file is queued, of what has been downloaded.
LEMMA WhileQueued ==
    ASSUME status' = "queued", \A d \in Conns : FileInv(d)', RootInv', QueuedInv'
    PROVE  DiskInv'
BY DEF DiskInv, CompleteInv, QueuedInv

LEMMA RootKeeps ==
    ASSUME DiskInv, treeKnown' = treeKnown \/ treeKnown',
           \A d \in Conns : dl'[d].kind = "root" => dl[d].kind = "root"
    PROVE  RootInv'
BY DEF DiskInv, RootInv

LEMMA OthersKeep ==
    ASSUME DiskInv, NEW c \in Conns, temp => temp',
           \A d \in Conns \ {c} : pc'[d] = pc[d] /\ dl'[d] = dl[d]
    PROVE  \A d \in Conns \ {c} : FileInv(d)'
BY DEF DiskInv, FileInv

\* The temporary file is opened; nothing is written to it yet.
LEMMA OpenKeeps ==
    ASSUME IInv, AInv, DiskInv, NEW c \in Conns, Open(c)
    PROVE  DiskInv'
<1> DEFINE y == [[dl[c] EXCEPT !.overlapped = FALSE] EXCEPT !.opened = TRUE]
<1>1. /\ pc[c] = "opening" /\ dl' = [dl EXCEPT ![c] = y] /\ temp' = TRUE
      /\ pc' = [pc EXCEPT ![c] = IF y.seg.size = 0 THEN "ended" ELSE "running"]
      /\ UNCHANGED <<status, done, downloads, treeKnown, onDisk, target>>
  BY DEF Open, Started, Go, queueVars
<1>2. FileInv(c) /\ dl[c].kind # "tree" /\ dl[c] \in Download
  BY <1>1 DEF DiskInv, FileInv, IInv, TypeOK
<1>3. /\ y.kind = dl[c].kind /\ y.seg = dl[c].seg /\ y.pos = dl[c].pos /\ y.part = dl[c].part
      /\ y.opened
  BY <1>2 DEF Download
<1> HIDE DEF y
<1>4. status = "queued" /\ dl[c].seg \in Ranges /\ dl[c].pos = 0
  BY <1>1, <1>2, ReceiverFacts DEF IInv, Sound
<1>5. /\ dl'[c] = y /\ pc'[c] = IF y.seg.size = 0 THEN "ended" ELSE "running"
      /\ \A d \in Conns \ {c} : pc'[d] = pc[d] /\ dl'[d] = dl[d]
  BY <1>1 DEF IInv, TypeOK
<1>6. FileInv(c)'
  BY <1>1, <1>2, <1>3, <1>4, <1>5 DEF FileInv
<1>7. \A d \in Conns : FileInv(d)'
  BY <1>1, <1>5, <1>6, OthersKeep
<1>8. \A d \in Conns : /\ dl'[d].kind = dl[d].kind /\ dl'[d].seg = dl[d].seg
                       /\ dl'[d].pos = dl[d].pos /\ dl'[d].part = dl[d].part
  BY <1>3, <1>5
<1>9. RootInv'
  BY <1>1, <1>8, RootKeeps
<1>10. QueuedInv'
  <2>1. \A d \in Conns : Received(d)' = Received(d)
    BY <1>8 DEF Received
  <2>2. \A b : Kept(b)' <=> Kept(b)
    BY <1>1 DEF Kept
  <2>3. \A d \in Conns : pc'[d] # "renaming"
    BY <1>4, <1>5 DEF DiskInv, QueuedInv
  <2>4. downloads \subseteq Conns /\ c \in downloads
    BY <1>1, <1>2, ReceiverFacts DEF IInv, TypeOK
  <2>5. Intact
    <3>1. CASE temp
      BY <1>4, <3>1 DEF DiskInv, QueuedInv
    <3>2. CASE ~temp
      <4>1. Absent /\ ~dl[c].resume
        BY <1>4, <3>2 DEF DiskInv, QueuedInv, Open
      <4>2. Covered(done) = {}
        BY <1>1, <2>4, <4>1 DEF Absent
      <4>3. \A d \in downloads : dl[d].pos = 0 /\ dl[d].seg.start \in Int
        BY <2>4, <4>1, SizeAssumption DEF Absent, IInv, TypeOK, Download, Ranges, Blocked, Seg
      <4>4. \A d \in downloads : Received(d) = {}
        BY <4>3 DEF Received
      <4> QED BY <4>2, <4>4 DEF Intact
    <3> QED BY <3>1, <3>2
  <2>6. Intact'
    BY <1>1, <1>8, <2>1, <2>2, <2>4, <2>5 DEF Intact
  <2> QED BY <1>1, <1>4, <2>3, <2>6 DEF DiskInv, QueuedInv
<1> QED BY <1>1, <1>4, <1>7, <1>9, <1>10, WhileQueued

\* The bytes of a leaf that is not complete are nobody's yet.
LEMMA ReceivePartKeeps ==
    ASSUME IInv, AInv, ExclusiveSegments, DiskInv, NEW c \in Conns, ReceivePart(c)
    PROVE  DiskInv'
<1>1. PICK q \in Qualities(c) :
         /\ dl' = [dl EXCEPT ![c].part = q]
         /\ onDisk' = IF q = "bad" THEN [onDisk EXCEPT ![Current(c)] = q] ELSE onDisk
  BY DEF ReceivePart
<1> DEFINE y == [dl[c] EXCEPT !.part = q]
<1>2. /\ pc[c] = "running" /\ dl[c].kind # "tree" /\ dl' = [dl EXCEPT ![c] = y]
      /\ UNCHANGED <<status, done, downloads, treeKnown, pc, temp, target>>
  BY <1>1 DEF ReceivePart, queueVars
<1>3. FileInv(c) /\ dl[c] \in Download /\ q \in {"good", "bad"} /\ (c \notin Liars => q = "good")
  BY DEF DiskInv, IInv, TypeOK, Qualities
<1>4. y.kind = dl[c].kind /\ y.seg = dl[c].seg /\ y.pos = dl[c].pos /\ y.opened = dl[c].opened
      /\ y.part = q
  BY <1>3 DEF Download
<1> HIDE DEF y
<1>5. status = "queued" /\ Current(c) \in Leaves /\ Current(c) \notin Covered(done)
      /\ \A d \in downloads : dl[d].kind \in {"leaves", "root"} => Current(c) \notin Received(d)
  BY <1>2, ReceiverFacts, CurrentFacts
<1>6. dl'[c] = y /\ \A d \in Conns \ {c} : dl'[d] = dl[d]
  BY <1>2 DEF IInv, TypeOK
<1>7. FileInv(c)'
  BY <1>2, <1>3, <1>4, <1>6 DEF FileInv
<1>8. \A d \in Conns : FileInv(d)'
  BY <1>2, <1>6, <1>7, OthersKeep
<1>9. \A d \in Conns : /\ dl'[d].kind = dl[d].kind /\ dl'[d].seg = dl[d].seg
                       /\ dl'[d].pos = dl[d].pos
  BY <1>4, <1>6
<1>10. RootInv'
  BY <1>2, <1>9, RootKeeps
<1>11. QueuedInv'
  <2>1. \A d \in Conns : Received(d)' = Received(d)
    BY <1>9 DEF Received
  <2>2. \A b \in Leaves : b # Current(c) => (Kept(b) => Kept(b)')
    <3>1. \A b \in Leaves : b # Current(c) => onDisk'[b] = onDisk[b]
      BY <1>1 DEF IInv, TypeOK
    <3> QED BY <3>1 DEF Kept
  <2>3. downloads \subseteq Conns /\ done \in SUBSET Ranges
    BY DEF IInv, TypeOK
  <2>4. \A b \in Covered(done) : b \in Leaves
    BY <2>3, PositionFacts DEF Covered, Leaves
  <2>5. \A d \in downloads : dl[d].kind \in {"leaves", "root"} => Received(d) \subseteq Leaves
    <3> SUFFICES ASSUME NEW d \in downloads, dl[d].kind \in {"leaves", "root"},
                        NEW b \in Received(d)
                 PROVE  b \in Leaves
      OBVIOUS
    <3>1. d \in Conns /\ dl[d].kind # "tree"
      BY <2>3
    <3>2. b \in Positions(dl[d].seg) /\ dl[d].seg \in Ranges
      BY <3>1, ReceivedInSegment
    <3> QED BY <3>2, PositionFacts DEF Leaves
  <2>6. temp /\ Intact
    BY <1>2, <1>3, <1>5 DEF FileInv, WithFile, DiskInv, QueuedInv
  <2>7. \A b \in Covered(done) : Kept(b)'
    BY <1>5, <2>2, <2>4, <2>6 DEF Intact
  <2>8. \A d \in downloads : dl[d].kind \in {"leaves", "root"} => \A b \in Received(d) : Kept(b)'
    BY <1>5, <2>2, <2>5, <2>6 DEF Intact
  <2>9. target = "none" /\ \A d \in Conns : pc[d] # "renaming"
    BY <1>5 DEF DiskInv, QueuedInv
  <2>10. Intact'
    BY <1>2, <1>9, <2>1, <2>3, <2>7, <2>8 DEF Intact
  <2> QED BY <1>2, <2>6, <2>9, <2>10 DEF QueuedInv
<1> QED BY <1>2, <1>5, <1>8, <1>10, <1>11, WhileQueued

\* A complete leaf is good, unless the last one is short and from a source that lies.
LEMMA ReceiveLeafKeeps ==
    ASSUME IInv, AInv, ExclusiveSegments, DiskInv, NEW c \in Conns, ReceiveLeaf(c)
    PROVE  DiskInv'
<1>1. PICK q \in Qualities(c) :
         /\ ComparedOnWrite(c) => Tainted(c, q) = "good"
         /\ onDisk' = [onDisk EXCEPT ![Current(c)] = Tainted(c, q)]
  BY DEF ReceiveLeaf
<1> DEFINE x == dl[c]
           y == [[dl[c] EXCEPT !.pos = @ + 1] EXCEPT !.part = "none"]
<1>2. /\ pc[c] = "running" /\ x.kind # "tree" /\ dl' = [dl EXCEPT ![c] = y]
      /\ pc' = [pc EXCEPT ![c] = IF x.pos + 1 = x.seg.size THEN "ended" ELSE "running"]
      /\ UNCHANGED <<status, done, downloads, treeKnown, temp, target>>
  BY DEF ReceiveLeaf, Go, queueVars
<1>3. FileInv(c) /\ x \in Download /\ q \in {"good", "bad"} /\ (c \notin Liars => q = "good")
  BY DEF DiskInv, IInv, TypeOK, Qualities
<1>4. y.kind = x.kind /\ y.seg = x.seg /\ y.pos = x.pos + 1 /\ y.opened = x.opened
      /\ y.part = "none"
  BY <1>3 DEF Download
<1> HIDE DEF y
<1>5. /\ status = "queued" /\ Current(c) \in Leaves /\ Current(c) \notin Covered(done)
      /\ \A d \in downloads : dl[d].kind \in {"leaves", "root"} => Current(c) \notin Received(d)
      /\ x.kind \in {"leaves", "root"}
  BY <1>2, ReceiverFacts, CurrentFacts
<1>6. /\ dl'[c] = y /\ \A d \in Conns \ {c} : pc'[d] = pc[d] /\ dl'[d] = dl[d]
      /\ pc'[c] = IF x.pos + 1 = x.seg.size THEN "ended" ELSE "running"
  BY <1>2 DEF IInv, TypeOK
<1>7. FileInv(c)'
  BY <1>2, <1>3, <1>4, <1>6 DEF FileInv, WithFile
<1>8. \A d \in Conns : FileInv(d)'
  BY <1>2, <1>6, <1>7, OthersKeep
<1>9. \A d \in Conns : dl'[d].kind = dl[d].kind /\ dl'[d].seg = dl[d].seg
  BY <1>4, <1>6
<1>10. RootInv'
  BY <1>2, <1>9, RootKeeps
<1> PICK k \in Leaves : k = Current(c)
  BY <1>5
<1>11. Kept(k)'
  <2>1. onDisk'[k] = Tainted(c, q)
    BY <1>1, <1>5 DEF IInv, TypeOK
  <2>2. CASE Tainted(c, q) = "good"
    BY <2>1, <2>2 DEF Kept
  <2>3. CASE Tainted(c, q) = "bad"
    <3>1. c \in Liars
      BY <1>3, <2>3 DEF Tainted, FileInv
    <3>2. x.kind = "leaves"
      BY <1>3, <1>5, <3>1 DEF FileInv
    <3>3. ShortTail /\ k = Size - 1
      BY <1>1, <2>3, <3>2 DEF ComparedOnWrite
    <3> QED BY <2>1, <2>3, <3>1, <3>3 DEF Kept
  <2> QED BY <2>2, <2>3 DEF Tainted
<1>12. QueuedInv'
  <2>1. temp /\ Intact
    BY <1>2, <1>3, <1>5 DEF FileInv, WithFile, DiskInv, QueuedInv
  <2>2. \A b \in Leaves : Kept(b) => Kept(b)'
    <3>1. \A b \in Leaves : b # k => onDisk'[b] = onDisk[b]
      BY <1>1 DEF IInv, TypeOK
    <3> QED BY <1>11, <3>1 DEF Kept
  <2>3. downloads \subseteq Conns /\ done \in SUBSET Ranges
    BY DEF IInv, TypeOK
  <2>4. \A b \in Covered(done) : b \in Leaves
    BY <2>3, PositionFacts DEF Covered, Leaves
  <2>5. \A b \in Covered(done) : Kept(b)'
    BY <2>2, <2>4, <2>1 DEF Intact
  <2>6. ASSUME NEW d \in downloads, dl'[d].kind \in {"leaves", "root"}, NEW b \in Received(d)'
        PROVE  Kept(b)'
    <3>1. d \in Conns /\ dl[d].kind \in {"leaves", "root"} /\ dl[d].kind # "tree"
      BY <1>9, <2>3, <2>6
    <3>2. CASE b \in Received(d)
      <4>1. b \in Leaves
        BY <3>1, <3>2, ReceivedInSegment, PositionFacts DEF Leaves
      <4> QED BY <2>2, <2>1, <3>1, <3>2, <4>1 DEF Intact
    <3>3. CASE b \notin Received(d)
      <4>1. d = c
        BY <1>6, <2>6, <3>1, <3>3 DEF Received
      <4>2. x.pos \in Nat /\ x.seg.start \in Int
        BY <1>3, SizeAssumption DEF Download, Ranges, Blocked, Seg
      <4>3. b \in x.seg.start .. (x.seg.start + (x.pos + 1) - 1) /\ b \notin x.seg.start .. (x.seg.start + x.pos - 1)
        BY <1>4, <1>6, <2>6, <3>3, <4>1 DEF Received
      <4>4. b = k
        BY <4>2, <4>3 DEF Current
      <4> QED BY <1>11, <4>4
    <3> QED BY <3>2, <3>3
  <2>7. target = "none" /\ \A d \in Conns : pc'[d] # "renaming"
    BY <1>5, <1>6 DEF DiskInv, QueuedInv
  <2>8. Intact'
    BY <1>2, <2>5, <2>6 DEF Intact
  <2> QED BY <1>2, <2>1, <2>7, <2>8 DEF QueuedInv
<1> QED BY <1>2, <1>5, <1>8, <1>10, <1>12, WhileQueued

\* A connection that has been released receives nothing.
LEMMA ReleasedFile ==
    ASSUME IInv, DiskInv, NEW c \in Conns, NEW failed, Release(c, failed),
           \A d \in Conns \ {c} : dl[d].kind # "tree" /\ dl[d].opened /\ pc[d] \in WithFile
                                     /\ temp => temp'
    PROVE  /\ \A d \in Conns : FileInv(d)'
           /\ \A d \in Conns : dl'[d].kind = "root" => dl[d].kind = "root"
           /\ pc'[c] = "idle" /\ dl'[c] = NoDownload
           /\ \A d \in Conns \ {c} : pc'[d] = pc[d] /\ dl'[d] = dl[d]
<1>1. /\ pc'[c] = "idle" /\ dl'[c] = NoDownload
      /\ \A d \in Conns \ {c} : pc'[d] = pc[d] /\ dl'[d] = dl[d]
  BY ReleasedFacts DEF IInv, TypeOK
<1>2. NoDownload.kind = "none" /\ NoDownload.part = "none" /\ ~NoDownload.opened
  BY DEF NoDownload
<1>3. FileInv(c)'
  BY <1>1, <1>2 DEF FileInv, WithFile
<1>4. \A d \in Conns \ {c} : FileInv(d)'
  BY <1>1 DEF DiskInv, FileInv
<1> QED BY <1>1, <1>2, <1>3, <1>4

\* A temporary file goes that nobody has open and nobody counts on.
LEMMA DeletionKeeps ==
    ASSUME IInv, AInv, DiskInv, ~wasted', Deleted, Opened = {},
           UNCHANGED <<status, done, downloads, treeKnown, dl, target>>,
           \A d \in Conns : pc'[d] = pc[d] \/ (pc[d] = "deleting" /\ pc'[d] = "recording")
    PROVE  DiskInv'
<1>1. ~temp' /\ (temp => ~InUse)
  BY DEF Deleted
<1>2. \A d \in Conns : FileInv(d)'
  BY <1>1 DEF DiskInv, FileInv, Opened, WithFile
<1>3. RootInv'
  BY RootKeeps
<1>4. CASE status = "queued"
  <2>1. downloads \subseteq Conns /\ \A d \in downloads : dl[d].pos \in Nat
    BY DEF IInv, TypeOK, Download
  <2>2. Absent
    BY <1>1, <1>4, <2>1 DEF InUse, Absent, DiskInv, QueuedInv
  <2>3. Absent'
    <3>1. Covered(done)' = Covered(done) /\ \A d \in downloads : pc'[d] = "opening" => pc[d] = "opening"
      BY <2>1 DEF Covered
    <3> QED BY <2>2, <3>1 DEF Absent
  <2>4. \A d \in Conns : pc'[d] # "renaming"
    BY <1>4 DEF DiskInv, QueuedInv
  <2>5. QueuedInv'
    BY <1>1, <1>4, <2>3, <2>4 DEF QueuedInv, DiskInv
  <2> QED BY <1>2, <1>3, <1>4, <2>5, WhileQueued
<1>5. CASE status # "queued"
  <2>1. ~temp
    BY <1>1, <1>5 DEF InUse
  <2>2. CompleteInv'
    BY <1>1, <1>5, <2>1 DEF DiskInv, CompleteInv
  <2> QED BY <1>2, <1>3, <1>5, <2>2 DEF DiskInv
<1> QED BY <1>4, <1>5

LEMMA DeleteTempKeeps ==
    ASSUME IInv, AInv, DiskInv, ~wasted', NEW c \in Conns, DeleteTemp(c)
    PROVE  DiskInv'
<1>1. /\ pc[c] = "deleting" /\ pc' = [pc EXCEPT ![c] = "recording"]
      /\ UNCHANGED <<status, done, downloads, treeKnown, dl, target>>
      /\ IF Opened = {} THEN Deleted ELSE UNCHANGED <<temp, onDisk>>
  BY DEF DeleteTemp, Go, queueVars
<1>2. pc'[c] = "recording" /\ \A d \in Conns \ {c} : pc'[d] = pc[d]
  BY <1>1 DEF IInv, TypeOK
<1>3. CASE Opened = {}
  BY <1>1, <1>2, <1>3, DeletionKeeps
<1>4. CASE Opened # {}
  <2>1. SameFiles
    BY <1>1, <1>4 DEF SameFiles
  <2>2. FileInv(c)'
    BY <1>1, <1>2, <1>4 DEF DiskInv, FileInv, WithFile
  <2> QED BY <1>1, <1>2, <2>1, <2>2, SameFilesKeep DEF IInv
<1> QED BY <1>3, <1>4

LEMMA LoseTempKeeps ==
    ASSUME IInv, AInv, DiskInv, ~wasted', LoseTemp
    PROVE  DiskInv'
<1>1. /\ Deleted /\ Opened = {}
      /\ UNCHANGED <<status, done, downloads, treeKnown, dl, target, pc>>
  BY DEF LoseTemp, queueVars
<1> QED BY <1>1, DeletionKeeps

\* Whoever gives a download of a complete file back leaves the file alone.
LEMMA AsideLeavesFile ==
    ASSUME IInv, DiskInv, NEW c \in Conns, NEW failed, Release(c, failed), status # "queued",
           UNCHANGED <<status, treeKnown, temp, onDisk, target>>
    PROVE  DiskInv'
<1>1. /\ \A d \in Conns : FileInv(d)'
      /\ \A d \in Conns : dl'[d].kind = "root" => dl[d].kind = "root"
      /\ \A d \in Conns : pc'[d] = "renaming" => pc[d] = "renaming"
  BY ReleasedFile
<1>2. RootInv'
  BY <1>1, RootKeeps
<1>3. \A b : Kept(b)' <=> Kept(b)
  BY DEF Kept
<1>4. CompleteInv'
  BY <1>1, <1>3 DEF DiskInv, CompleteInv
<1> QED BY <1>1, <1>2, <1>4 DEF DiskInv

\* A tree is not a part of the file.
LEMMA TreeLeavesFile ==
    ASSUME IInv, AInv, DiskInv, NEW c \in Conns, StoreTree(c) \/ SaveTree(c)
    PROVE  DiskInv'
<1>1. CASE SaveTree(c)
  <2>1. /\ pc[c] = "savingTree" /\ Release(c, FALSE) /\ treeKnown'
        /\ UNCHANGED <<status, done, downloads, temp, onDisk, target>>
    BY <1>1 DEF SaveTree, fileVars
  <2>2. /\ \A d \in Conns : FileInv(d)'
        /\ \A d \in Conns : dl'[d].kind = "root" => dl[d].kind = "root"
        /\ \A d \in Conns : pc'[d] = "renaming" => pc[d] = "renaming"
        /\ \A d \in Conns \ {c} : dl'[d] = dl[d]
    BY <2>1, ReleasedFile
  <2>3. RootInv'
    BY <2>1, <2>2, RootKeeps
  <2>4. \A b : Kept(b)' <=> Kept(b)
    BY <2>1 DEF Kept
  <2>5. CompleteInv'
    BY <2>1, <2>2, <2>4 DEF DiskInv, CompleteInv
  <2>6. ASSUME status = "queued" PROVE QueuedInv'
    <3>1. \A d \in downloads : d \in Conns \ {c}
      BY <2>1, <2>6 DEF AInv, Unfinished, Busy, IInv, TypeOK
    <3>2. \A d \in downloads : Received(d)' = Received(d)
      BY <2>2, <3>1 DEF Received
    <3>3. Covered(done)' = Covered(done) /\ \A d \in downloads : pc'[d] = pc[d]
      BY <2>1, <3>1, ReleasedFile DEF Covered
    <3>4. (Intact => Intact') /\ (Absent => Absent')
      BY <2>1, <2>2, <2>4, <3>1, <3>2, <3>3 DEF Intact, Absent
    <3> QED BY <2>1, <2>2, <2>6, <3>4 DEF DiskInv, QueuedInv
  <2> QED BY <2>1, <2>2, <2>3, <2>5, <2>6 DEF DiskInv
<1>2. CASE StoreTree(c)
  <2>1. /\ dl[c].kind = "tree" /\ pc' = [pc EXCEPT ![c] = "savingTree"]
        /\ downloads' = downloads \ {c}
        /\ UNCHANGED <<status, done, dl, treeKnown, temp, onDisk, target>>
    BY <1>2 DEF StoreTree, RemoveDownload, Go, fileVars
  <2>2. \A d \in Conns : IF d = c THEN pc'[d] = "savingTree" ELSE pc'[d] = pc[d]
    BY <2>1 DEF IInv, TypeOK
  <2>3. \A d \in Conns : FileInv(d)'
    BY <2>1, <2>2 DEF DiskInv, FileInv, WithFile
  <2>4. RootInv'
    BY <2>1, RootKeeps
  <2>5. \A b : Kept(b)' <=> Kept(b)
    BY <2>1 DEF Kept
  <2>6. CompleteInv'
    BY <2>1, <2>2, <2>5 DEF DiskInv, CompleteInv
  <2>7. ASSUME status = "queued" PROVE QueuedInv'
    <3>1. \A d \in downloads : Received(d)' = Received(d)
      BY <2>1 DEF Received
    <3>2. Covered(done)' = Covered(done) /\ \A d \in downloads' : pc'[d] = pc[d] /\ d \in downloads
      BY <2>1, <2>2 DEF Covered, IInv, TypeOK
    <3>3. (Intact => Intact') /\ (Absent => Absent')
      BY <2>1, <2>5, <3>1, <3>2 DEF Intact, Absent
    <3> QED BY <2>1, <2>2, <2>7, <3>3 DEF DiskInv, QueuedInv
  <2> QED BY <2>1, <2>3, <2>4, <2>6, <2>7 DEF DiskInv
<1> QED BY <1>1, <1>2

\* Recording what a download has received.
LEMMA RecordingKeeps ==
    ASSUME IInv, AInv, DiskInv, NEW c \in Conns, NEW failed, Release(c, failed),
           status = "queued", c \in downloads, downloads' = downloads \ {c},
           UNCHANGED <<status, treeKnown, temp, onDisk, target>>,
           \/ done' = done
           \/ /\ dl[c].kind \in {"leaves", "root"} /\ dl[c].pos > 0
              /\ Covered(done') = Covered(done) \cup Received(c)
    PROVE  DiskInv'
<1>1. /\ \A d \in Conns : FileInv(d)'
      /\ \A d \in Conns : dl'[d].kind = "root" => dl[d].kind = "root"
      /\ \A d \in Conns : pc'[d] = "renaming" => pc[d] = "renaming"
      /\ \A d \in Conns \ {c} : dl'[d] = dl[d]
  BY ReleasedFile
<1>2. RootInv'
  BY <1>1, RootKeeps
<1>3. \A b : Kept(b)' <=> Kept(b)
  BY DEF Kept
<1>4. downloads' \subseteq Conns \ {c}
  BY DEF IInv, TypeOK
<1>5. \A d \in downloads' : Received(d)' = Received(d)
  BY <1>1, <1>4 DEF Received
<1>6. Covered(done)' = Covered(done')
  BY DEF Covered
<1>7. temp => Intact'
  BY <1>1, <1>3, <1>4, <1>5, <1>6 DEF DiskInv, QueuedInv, Intact
<1>8. ~temp => Absent'
  <2> SUFFICES ASSUME ~temp PROVE Absent'
    OBVIOUS
  <2>1. Absent
    BY DEF DiskInv, QueuedInv
  <2>2. Covered(done') = Covered(done)
    BY <2>1 DEF Absent
  <2>3. \A d \in downloads' : pc'[d] = pc[d] /\ dl'[d] = dl[d] /\ d \in downloads
    BY <1>1, <1>4, ReleasedFile
  <2> QED BY <1>6, <2>1, <2>2, <2>3 DEF Absent
<1>9. QueuedInv'
  BY <1>1, <1>7, <1>8 DEF DiskInv, QueuedInv
<1> QED BY <1>1, <1>2, <1>9, WhileQueued

\* A segment that is stored has been received completely.
LEMMA StoredIsReceived ==
    ASSUME IInv, AInv, DiskInv, NEW c \in Conns, pc[c] = "storing", dl[c].kind # "tree"
    PROVE  /\ status = "queued" /\ c \in downloads /\ dl[c].kind \in {"leaves", "root"}
           /\ dl[c].pos > 0 /\ Positions(dl[c].seg) = Received(c) /\ temp
           /\ AddFinishedSegment(dl[c].seg) => Covered(done') = Covered(done) \cup Received(c)
<1>1. /\ status = "queued" /\ c \in downloads
      /\ dl[c].seg \in Ranges /\ Fresh(dl[c].seg, done)
      /\ dl[c].kind \in {"leaves", "root"}
  BY StoringFacts
<1>2. dl[c].pos = dl[c].seg.size /\ dl[c].pos > 0
  BY <1>1 DEF DiskInv, FileInv, Fresh
<1>3. Positions(dl[c].seg) = Received(c)
  <2>1. End(dl[c].seg) = dl[c].seg.start + dl[c].pos
    BY <1>2 DEF End
  <2>2. dl[c].seg.start \in Int /\ dl[c].pos \in Int
    BY <1>1, <1>2, SizeAssumption DEF Ranges
  <2> QED BY <2>1, <2>2 DEF Positions, Received
<1>4. temp
  BY <1>1, <1>2 DEF DiskInv, QueuedInv, Absent
<1>5. AddFinishedSegment(dl[c].seg) => Covered(done') = Covered(done) \cup Positions(dl[c].seg)
  BY <1>1, RecordCovers
<1> QED BY <1>1, <1>2, <1>3, <1>4, <1>5

LEMMA StoreSegmentKeeps ==
    ASSUME IInv, AInv, DiskInv, NEW c \in Conns, StoreSegment(c)
    PROVE  DiskInv'
<1>1. /\ pc[c] = "storing" /\ dl[c].kind # "tree" /\ AddFinishedSegment(dl[c].seg)
      /\ downloads' = downloads \ {c} /\ Release(c, FALSE)
      /\ UNCHANGED <<status, treeKnown, temp, onDisk, target>>
  BY DEF StoreSegment, RemoveDownload, fileVars
<1>2. /\ status = "queued" /\ c \in downloads /\ dl[c].kind \in {"leaves", "root"}
      /\ dl[c].pos > 0 /\ Covered(done') = Covered(done) \cup Received(c)
  BY <1>1, StoredIsReceived
<1> QED BY <1>1, <1>2, RecordingKeeps

LEMMA RecordFailedLeavesFile ==
    ASSUME IInv, AInv, DiskInv, NEW c \in Conns, RecordFailed(c)
    PROVE  DiskInv'
<1>1. /\ pc[c] = "recording" /\ downloads' = downloads \ {c} /\ Release(c, TRUE)
      /\ UNCHANGED <<status, treeKnown, temp, onDisk, target>>
  BY DEF RecordFailed, RemoveDownload, fileVars
<1>2. CASE status # "queued"
  BY <1>1, <1>2, AsideLeavesFile
<1>3. CASE status = "queued"
  <2>1. c \in downloads
    BY <1>1, <1>3 DEF AInv, Unfinished, Busy
  <2>2. CASE ~(dl[c].kind = "leaves" /\ CompleteLeaves(c) > 0)
    <3>1. done' = done
      BY <2>2 DEF RecordFailed
    <3> QED BY <1>1, <1>3, <2>1, <3>1, RecordingKeeps
  <2>3. CASE dl[c].kind = "leaves" /\ CompleteLeaves(c) > 0
    <3> DEFINE s == Seg(dl[c].seg.start, dl[c].pos)
    <3>1. AddFinishedSegment(s) /\ dl[c].pos > 0 /\ dl[c].kind \in {"leaves", "root"}
      BY <2>3 DEF RecordFailed, CompleteLeaves
    <3>2. dl[c].pos \in Nat /\ dl[c].seg \in Ranges /\ dl[c].pos <= dl[c].seg.size
      BY <2>3 DEF IInv, TypeOK, Download, Sound, CompleteLeaves
    <3>3. s \in Ranges /\ Positions(s) = Received(c)
      BY <3>2, SizeAssumption DEF Seg, Ranges, End, Positions, Received
    <3> HIDE DEF s
    <3>4. Covered(done') = Covered(done) \cup Received(c)
      BY <3>1, <3>3, RecordCovers
    <3> QED BY <1>1, <1>3, <2>1, <3>1, <3>4, RecordingKeeps
  <2> QED BY <2>2, <2>3
<1> QED BY <1>2, <1>3

\* When the last segment is stored, every leaf is on the disk.
LEMMA CompleteFileLeavesFile ==
    ASSUME IInv, AInv, DiskInv, NEW c \in Conns, CompleteFile(c)
    PROVE  DiskInv'
<1>1. /\ pc[c] = "storing" /\ dl[c].kind # "tree" /\ AddFinishedSegment(dl[c].seg)
      /\ done' = {WholeFile} /\ status' = "downloaded" /\ pc' = [pc EXCEPT ![c] = "renaming"]
      /\ UNCHANGED <<treeKnown, dl, temp, onDisk, target>>
  BY DEF CompleteFile, SegmentsDone, Go, fileVars
<1>2. /\ status = "queued" /\ c \in downloads /\ dl[c].kind \in {"leaves", "root"}
      /\ temp /\ Covered(done') = Covered(done) \cup Received(c)
  BY <1>1, StoredIsReceived
<1>3. pc'[c] = "renaming" /\ \A d \in Conns \ {c} : pc'[d] = pc[d]
  BY <1>1 DEF IInv, TypeOK
<1>4. QueuedInv
  BY <1>2 DEF DiskInv
<1>5. \A d \in Conns : FileInv(d)'
  BY <1>1, <1>3 DEF DiskInv, FileInv, WithFile
<1>6. RootInv'
  BY <1>1, RootKeeps
<1>7. \A b \in Leaves : Kept(b)
  <2>1. Covered(done') = Leaves
    BY <1>1, WholeFileFacts DEF Covered, Leaves
  <2> QED BY <1>2, <1>4, <2>1 DEF QueuedInv, Intact
<1>8. \A b : Kept(b)' <=> Kept(b)
  BY <1>1 DEF Kept
<1>9. CompleteInv'
  BY <1>1, <1>2, <1>3, <1>4, <1>7, <1>8 DEF CompleteInv, QueuedInv
<1> QED BY <1>1, <1>5, <1>6, <1>9 DEF DiskInv

\* Nobody has a complete file open any more, so it can be renamed.
LEMMA RenameKeeps ==
    ASSUME IInv, AInv, DiskInv, NEW c \in Conns, Rename(c)
    PROVE  DiskInv'
<1>1. /\ pc[c] = "renaming" /\ Release(c, FALSE)
      /\ UNCHANGED <<status, treeKnown>>
  BY DEF Rename, queueVars
<1>2. status # "queued" /\ target = "none"
  BY <1>1 DEF DiskInv, QueuedInv, CompleteInv
<1>3. temp /\ \A b \in Leaves : Kept(b)
  BY <1>2 DEF DiskInv, CompleteInv
<1>4. Opened = {}
  <2>1. ASSUME NEW d \in Opened PROVE FALSE
    <3>1. d \in Conns /\ pc[d] \in WithFile /\ dl[d].opened /\ dl[d].kind # "tree"
      BY <2>1 DEF Opened, WithFile
    <3>2. dl[d].seg \in Ranges
      BY <3>1 DEF DiskInv, FileInv
    <3>3. dl[d].seg = Blocked
      BY <1>2, <3>1 DEF AInv, Finished, Busy, WithFile
    <3> QED BY <3>2, <3>3, BlockedFacts
  <2> QED BY <2>1
<1>5. target' = Assembled /\ ~temp'
  BY <1>3, <1>4 DEF Rename
<1>6. Assembled = "good" \/ (ShortTail /\ Liars # {} /\ Assembled = "corrupt")
  BY <1>3 DEF Assembled, Kept
<1>7. /\ \A d \in Conns : FileInv(d)'
      /\ \A d \in Conns : dl'[d].kind = "root" => dl[d].kind = "root"
      /\ pc'[c] = "idle" /\ \A d \in Conns \ {c} : pc'[d] = pc[d]
  BY <1>1, <1>4, ReleasedFile DEF Opened, WithFile
<1>8. RootInv'
  BY <1>1, <1>7, RootKeeps
<1>9. \A d \in Conns : pc'[d] # "renaming"
  BY <1>1, <1>7 DEF DiskInv, CompleteInv
<1>10. CompleteInv'
  BY <1>5, <1>6, <1>9 DEF CompleteInv
<1> QED BY <1>1, <1>2, <1>7, <1>8, <1>10 DEF DiskInv

LEMMA PutTwiceKeeps ==
    ASSUME IInv, DiskInv, NEW c \in Conns, PutTwice(c)
    PROVE  DiskInv'
<1>1. /\ status # "queued" /\ Release(c, pc[c] = "putFailed")
      /\ UNCHANGED <<status, treeKnown, temp, onDisk, target>>
  BY DEF PutTwice, queueVars, fileVars
<1> QED BY <1>1, AsideLeavesFile

-----------------------------------------------------------------------------
\* Without the tree wrong data is found by nobody: where sources lie, the tree is known
\* from the start, or those who lie are asked for it first, and answer.
TreesTrusted ==
    \/ Liars = {}
    \/ \A l \in Loaded : l.treeKnown
    \/ Liars \subseteq TreeSources /\ "refuse" \notin Mishaps

TreesAnswered == "refuse" \notin Mishaps => noTree = {}

LEMMA TreesAreAnswered ==
    ASSUME DiskInv, TreesAnswered, [Next]_vars
    PROVE  TreesAnswered'
<1> SUFFICES ASSUME "refuse" \notin Mishaps, noTree = {} PROVE noTree' = {}
  BY DEF TreesAnswered
<1> USE DEF queueVars
<1>1. CASE UNCHANGED vars
  BY <1>1 DEF vars
<1>2. CASE \/ Pause \/ RunPauseTask \/ Resume \/ LoseTemp \/ RunFileCompletionHooks
           \/ \E c \in Conns : RemoveSource(c) \/ AddSource(c)
  BY <1>2 DEF Pause, RunPauseTask, Resume, LoseTemp, RunFileCompletionHooks, RemoveSource, AddSource
<1>3. ASSUME NEW c \in Conns, NotAvailable(c) PROVE noTree' = {}
  <2>1. dl[c].seg = Blocked
    BY <1>3 DEF NotAvailable, Mishap
  <2>2. dl[c].kind # "tree"
    BY <2>1 DEF DiskInv, FileInv
  <2> QED BY <1>3, <2>2 DEF NotAvailable
<1>4. ASSUME NEW c \in Conns, Select(c) \/ Internal(c) \/ Remote(c) \/ Drop(c)
      PROVE  noTree' = {}
  <2>1. CASE Select(c) \/ Drop(c) \/ Remote(c)
    BY <2>1 DEF Select, Drop, Remote, StartTree, ReadProgress, ReceiveTree, ReceivePart,
                ReceiveLeaf, Mismatch
  <2>2. CASE \/ Open(c) \/ OpenFailed(c) \/ NotAssigned(c) \/ Assign(c) \/ Request(c)
             \/ RemoveFromManager(c) \/ PutTwice(c) \/ Put(c)
    BY <2>2 DEF Open, OpenFailed, NotAssigned, Assign, Request, RemoveFromManager, PutTwice, Put
  <2>3. CASE \/ StoreTree(c) \/ SaveTree(c) \/ StoreSegment(c) \/ CompleteFile(c) \/ Rename(c)
             \/ CheckUseless(c) \/ DeleteTemp(c) \/ RecordFailed(c)
    BY <2>3 DEF StoreTree, SaveTree, StoreSegment, CompleteFile, Rename, CheckUseless, DeleteTemp,
                RecordFailed
  <2> QED BY <1>4, <2>1, <2>2, <2>3 DEF Internal
<1> QED BY <1>1, <1>2, <1>3, <1>4 DEF Next

\* What has been downloaded is there, or all of it is downloaded again.
LEMMA AssignLeavesFile ==
    ASSUME ~OverlapSlow, TreesTrusted, TreesAnswered, IInv, AInv, DiskInv,
           NEW c \in Conns, Assign(c)
    PROVE  DiskInv'
<1>1. /\ pc[c] = "selected" /\ ~NoNeededPart(c) /\ pc' = [pc EXCEPT ![c] = "assigned"]
      /\ downloads' = downloads \cup {c}
      /\ UNCHANGED <<status, treeKnown, temp, onDisk, target>>
  BY DEF Assign, Go, fileVars
<1>2. status = "queued"
  BY <1>1 DEF AInv, Selected
<1>3. PICK D \in {done, {}} :
         /\ D = (IF HasBytes /\ ~temp THEN {} ELSE done) /\ done' = D
         /\ \E n \in InitSegment(c, D) : dl' \in {[ds EXCEPT ![c] = n] : ds \in Flag(dl, n)}
  BY DEF Assign
<1>4. PICK n \in InitSegment(c, D) : \E ds \in Flag(dl, n) : dl' = [ds EXCEPT ![c] = n]
  BY <1>3
<1>5. PICK ds \in Flag(dl, n) : dl' = [ds EXCEPT ![c] = n]
  BY <1>4
<1>6. Covered(done') \subseteq Covered(done) /\ (temp => done' = done) /\ Covered(done)' = Covered(done')
  BY <1>3 DEF Covered
<1>7. /\ n.part = "none" /\ ~n.opened /\ n.pos = 0
      /\ n.kind = "tree" => n.seg # Blocked
      /\ n.kind = "root" => c \notin TreeSources \ noTree
  BY <1>4, NewIsEmpty
<1>8. n.kind \in {"leaves", "root", "tree"} /\ (n.kind = "root" => ~treeKnown)
  BY <1>1, <1>4, AssignedDownload
<1>9. /\ dl'[c] = n
      /\ \A d \in Conns \ {c} : /\ dl'[d].kind = dl[d].kind /\ dl'[d].seg = dl[d].seg
                                /\ dl'[d].pos = dl[d].pos /\ dl'[d].part = dl[d].part
                                /\ dl'[d].opened = dl[d].opened /\ dl'[d].resume = dl[d].resume
  <2>1. TypeOK /\ ds \in [Conns -> Download]
    BY <1>5, FlagFacts DEF IInv
  <2>2. dl'[c] = n /\ \A d \in Conns \ {c} : dl'[d] = ds[d]
    BY <1>5, <2>1
  <2>3. \A d \in Conns : /\ ds[d].kind = dl[d].kind /\ ds[d].seg = dl[d].seg
                         /\ ds[d].pos = dl[d].pos
    BY <1>5, <2>1, FlagFacts
  <2>4. \A d \in Conns : /\ ds[d].part = dl[d].part /\ ds[d].opened = dl[d].opened
                         /\ ds[d].resume = dl[d].resume
    BY <1>5, <2>1, FlagLeaves
  <2> QED BY <2>2, <2>3, <2>4
<1>10. pc'[c] = "assigned" /\ \A d \in Conns \ {c} : pc'[d] = pc[d]
  BY <1>1 DEF IInv, TypeOK
<1>11. n.kind = "root" => c \notin Liars /\ ~(\A l \in Loaded : l.treeKnown)
  <2>1. n.kind = "root" => ~(\A l \in Loaded : l.treeKnown)
    BY <1>8 DEF DiskInv, RootInv
  <2> QED BY <1>7, <2>1 DEF TreesTrusted, TreesAnswered
<1>12. FileInv(c)'
  BY <1>7, <1>8, <1>9, <1>10, <1>11 DEF FileInv, WithFile
<1>13. \A d \in Conns \ {c} : FileInv(d)'
  BY <1>1, <1>9, <1>10 DEF DiskInv, FileInv
<1>14. RootInv'
  BY <1>1, <1>9, <1>11 DEF DiskInv, RootInv
<1>15. QueuedInv'
  <2>1. \A b : Kept(b)' <=> Kept(b)
    BY <1>1 DEF Kept
  <2>2. Received(c)' = {}
    <3>1. n.seg.start \in Int
      <4>1. D \in SUBSET Ranges /\ Canonical(D)
        BY DEF IInv, TypeOK, Canonical
      <4>2. n \in Download
        BY <1>4, <4>1, InitSegmentFacts
      <4> QED BY <4>2, SizeAssumption DEF Download, Ranges, Blocked, Seg
    <3> QED BY <1>7, <1>9, <3>1 DEF Received
  <2>3. \A d \in downloads' \ {c} : /\ d \in downloads /\ d \in Conns \ {c}
                                    /\ dl'[d].kind = dl[d].kind /\ Received(d)' = Received(d)
    <3>1. \A d \in downloads' \ {c} : d \in downloads /\ d \in Conns \ {c}
      BY <1>1 DEF IInv, TypeOK
    <3> QED BY <1>9, <3>1 DEF Received
  <2>4. temp => Intact'
    BY <1>2, <1>6, <2>1, <2>2, <2>3 DEF DiskInv, QueuedInv, Intact
  <2>5. ~temp => Absent'
    <3> SUFFICES ASSUME ~temp PROVE Absent'
      OBVIOUS
    <3>1. Absent
      BY <1>2 DEF DiskInv, QueuedInv
    <3>2. dl'[c].pos = 0 /\ pc'[c] # "opening"
      BY <1>7, <1>9, <1>10
    <3>3. \A d \in downloads' \ {c} : dl'[d].pos = dl[d].pos /\ dl'[d].resume = dl[d].resume
                                     /\ pc'[d] = pc[d]
      BY <1>9, <1>10, <2>3
    <3> QED BY <1>6, <2>3, <3>1, <3>2, <3>3 DEF Absent
  <2>6. target = "none" /\ \A d \in Conns : pc'[d] # "renaming"
    BY <1>2, <1>10 DEF DiskInv, QueuedInv
  <2> QED BY <1>1, <2>4, <2>5, <2>6 DEF QueuedInv
<1> QED BY <1>1, <1>2, <1>12, <1>13, <1>14, <1>15, WhileQueued

\* The user and the completion hooks touch no file.
LEMMA OutsideLeavesFile ==
    ASSUME DiskInv,
           \/ Pause \/ RunPauseTask \/ Resume \/ RunFileCompletionHooks \/ UNCHANGED vars
           \/ \E c \in Conns : RemoveSource(c) \/ AddSource(c)
    PROVE  DiskInv'
<1>1. UNCHANGED <<done, downloads, treeKnown, dl, pc, temp, onDisk, target>>
  BY DEF Pause, RunPauseTask, Resume, RunFileCompletionHooks, RemoveSource, AddSource, vars,
         queueVars, fileVars
<1>2. status' = status \/ (status = "downloaded" /\ status' = "completed" /\ target # "none")
  BY DEF Pause, RunPauseTask, Resume, RunFileCompletionHooks, RemoveSource, AddSource, vars,
         queueVars
<1>3. (\A d \in Conns : FileInv(d)') /\ RootInv'
  BY <1>1 DEF DiskInv, FileInv, RootInv
<1>4. (\A b : Kept(b)' <=> Kept(b)) /\ (Intact' <=> Intact) /\ (Absent' <=> Absent)
  BY <1>1 DEF Kept, Intact, Absent, Received, Covered
<1>5. status' = "queued" => QueuedInv'
  BY <1>1, <1>2, <1>4 DEF DiskInv, QueuedInv
<1>6. CompleteInv'
  BY <1>1, <1>2, <1>4 DEF DiskInv, CompleteInv
<1> QED BY <1>3, <1>5, <1>6 DEF DiskInv

LEMMA InitDisk == Init => DiskInv
<1> SUFFICES ASSUME Init PROVE DiskInv
  OBVIOUS
<1>1. /\ dl = [c \in Conns |-> NoDownload] /\ pc = [c \in Conns |-> "idle"] /\ downloads = {}
      /\ status = "queued" /\ target = "none" /\ temp = (done # {})
      /\ onDisk = [b \in Leaves |-> IF b \in Covered(done) THEN "good" ELSE "none"]
  BY DEF Init
<1>2. NoDownload.kind = "none" /\ NoDownload.part = "none" /\ ~NoDownload.opened
  BY DEF NoDownload
<1>3. \A c \in Conns : FileInv(c)
  BY <1>1, <1>2 DEF FileInv, WithFile
<1>4. RootInv
  BY <1>1, <1>2 DEF RootInv, Init
<1>5. done \in SUBSET Ranges
  BY InitIInv DEF IInv, TypeOK
<1>6. \A b \in Covered(done) : Kept(b)
  BY <1>1, <1>5, PositionFacts DEF Covered, Leaves, Kept
<1>7. Intact /\ Absent
  BY <1>1, <1>6 DEF Intact, Absent
<1>8. QueuedInv
  BY <1>1, <1>7 DEF QueuedInv
<1> QED BY <1>1, <1>3, <1>4, <1>8 DEF DiskInv, CompleteInv, QueuedInv

\* Every step keeps the invariant, unless it deletes a file that is in use.
LEMMA NextDisk ==
    ASSUME ~OverlapSlow, TreesTrusted, TreesAnswered, IInv, AInv, ExclusiveSegments, DiskInv,
           [Next]_vars, ~wasted'
    PROVE  DiskInv'
<1>1. CASE \/ Pause \/ RunPauseTask \/ Resume \/ RunFileCompletionHooks \/ UNCHANGED vars
           \/ \E c \in Conns : RemoveSource(c) \/ AddSource(c)
  BY <1>1, OutsideLeavesFile
<1>2. CASE LoseTemp
  BY <1>2, LoseTempKeeps
<1>3. ASSUME NEW c \in Conns,
             Select(c) \/ Internal(c) \/ Remote(c) \/ Drop(c) \/ NotAvailable(c)
      PROVE  DiskInv'
  <2>1. CASE \/ Select(c) \/ NotAssigned(c) \/ Request(c) \/ StartTree(c) \/ ReadProgress(c)
             \/ OpenFailed(c) \/ ReceiveTree(c) \/ Mismatch(c) \/ Drop(c) \/ NotAvailable(c)
             \/ RemoveFromManager(c) \/ Put(c) \/ CheckUseless(c)
    BY <2>1, CalmStep
  <2>2. CASE Open(c)
    BY <2>2, OpenKeeps
  <2>3. CASE ReceivePart(c)
    BY <2>3, ReceivePartKeeps
  <2>4. CASE ReceiveLeaf(c)
    BY <2>4, ReceiveLeafKeeps
  <2>5. CASE DeleteTemp(c)
    BY <2>5, DeleteTempKeeps
  <2>6. CASE PutTwice(c)
    BY <2>6, PutTwiceKeeps
  <2>7. CASE StoreTree(c) \/ SaveTree(c)
    BY <2>7, TreeLeavesFile
  <2>8. CASE StoreSegment(c)
    BY <2>8, StoreSegmentKeeps
  <2>9. CASE CompleteFile(c)
    BY <2>9, CompleteFileLeavesFile
  <2>10. CASE Rename(c)
    BY <2>10, RenameKeeps
  <2>11. CASE RecordFailed(c)
    BY <2>11, RecordFailedLeavesFile
  <2>12. CASE Assign(c)
    BY <2>12, AssignLeavesFile
  <2> QED BY <1>3, <2>1, <2>2, <2>3, <2>4, <2>5, <2>6, <2>7, <2>8, <2>9, <2>10, <2>11, <2>12
          DEF Internal, Remote
<1> QED BY <1>1, <1>2, <1>3 DEF Next

\* What has been wasted stays so.
LEMMA WastedStays == [Next]_vars /\ wasted => wasted'
<1> SUFFICES ASSUME [Next]_vars, wasted PROVE wasted'
  OBVIOUS
<1> USE DEF fileVars
<1>1. CASE UNCHANGED vars
  BY <1>1 DEF vars
<1>2. CASE \/ Pause \/ RunPauseTask \/ Resume \/ LoseTemp \/ RunFileCompletionHooks
           \/ \E c \in Conns : RemoveSource(c) \/ AddSource(c)
  BY <1>2 DEF Pause, RunPauseTask, Resume, LoseTemp, RunFileCompletionHooks, RemoveSource, AddSource,
              Deleted
<1>3. ASSUME NEW c \in Conns, Select(c) \/ Internal(c) \/ Remote(c) \/ Drop(c) \/ NotAvailable(c)
      PROVE  wasted'
  <2>1. CASE Select(c) \/ Drop(c) \/ Remote(c) \/ NotAvailable(c)
    BY <2>1 DEF Select, Drop, NotAvailable, Remote, StartTree, ReadProgress, ReceiveTree, ReceivePart,
                ReceiveLeaf, Mismatch
  <2>2. CASE \/ Open(c) \/ OpenFailed(c) \/ NotAssigned(c) \/ Assign(c) \/ Request(c)
             \/ RemoveFromManager(c) \/ PutTwice(c) \/ Put(c)
    BY <2>2 DEF Open, OpenFailed, NotAssigned, Assign, Request, RemoveFromManager, PutTwice, Put
  <2>3. CASE \/ StoreTree(c) \/ SaveTree(c) \/ StoreSegment(c) \/ CompleteFile(c) \/ Rename(c)
             \/ CheckUseless(c) \/ DeleteTemp(c) \/ RecordFailed(c)
    BY <2>3 DEF StoreTree, SaveTree, StoreSegment, CompleteFile, Rename, CheckUseless, DeleteTemp,
                RecordFailed, Deleted
  <2> QED BY <1>3, <2>1, <2>2, <2>3 DEF Internal
<1> QED BY <1>1, <1>2, <1>3 DEF Next

\* What is on the disk is what has been downloaded.
Faithful == ~wasted => DiskInv /\ TreesAnswered

THEOREM DiskInvariant ==
    ASSUME ~OverlapSlow, TreesLoaded, TreesTrusted
    PROVE  Spec => []Faithful
<1>1. Init => Faithful
  BY InitDisk DEF Init, TreesAnswered, Faithful
<1>2. IInv /\ AInv /\ ExclusiveSegments /\ Faithful /\ [Next]_vars => Faithful'
  <2> SUFFICES ASSUME IInv, AInv, ExclusiveSegments, Faithful, [Next]_vars, ~wasted'
               PROVE  (DiskInv /\ TreesAnswered)'
    BY DEF Faithful
  <2>1. DiskInv /\ TreesAnswered
    BY WastedStays DEF Faithful
  <2> QED BY <2>1, NextDisk, TreesAreAnswered
<1> QED BY <1>1, <1>2, InductiveInvariant, AssemblyInvariant, SegmentsExclusive, PTL DEF Spec

\* Every leaf that is recorded as finished is on the disk and agrees with the tree, for any
\* number of connections and any number of failures, losses of the file and interventions
\* of the user, in whatever order they write, fail, hand in what they have or begin the
\* file anew (MerkleCheckOutputStream, onDownloadFailed, resetDownloaded).  So the only
\* step of the program that can go wrong is the deletion of a file in use, decided
\* without the lock (QueueManager.cpp:1717).
THEOREM RecordedIsVerified ==
    ASSUME ~OverlapSlow, TreesLoaded, TreesTrusted
    PROVE  Spec => []VerifiedOnDisk
<1>1. IInv /\ AInv /\ Faithful => VerifiedOnDisk
  <2> SUFFICES ASSUME IInv, AInv, DiskInv, temp, NEW b \in Covered(done)
               PROVE  onDisk[b] = "good" \/ (ShortTail /\ b = Size - 1 /\ onDisk[b] # "none")
    BY DEF VerifiedOnDisk, Faithful
  <2>1. b \in Leaves
    BY PositionFacts DEF IInv, TypeOK, Covered, Leaves
  <2>2. Kept(b)
    BY <2>1 DEF DiskInv, QueuedInv, CompleteInv, Intact
  <2> QED BY <2>2 DEF Kept
<1> QED BY <1>1, DiskInvariant, InductiveInvariant, AssemblyInvariant, PTL

\* A file that is ready for sharing is in its place with the right content: what
\* renameDownloadedFile finds is the complete file, closed by everybody, for any number of
\* connections, failures and losses, unless it was deleted while it was in use.  A short
\* last leaf of a source that lies is the exception that the code makes (Download::flush).
THEOREM CompletedAreReady ==
    ASSUME ~OverlapSlow, TreesLoaded, TreesTrusted, ~ShortTail \/ Liars = {}
    PROVE  Spec => []CompletedIsReady
<1>1. TypeOK /\ Faithful => CompletedIsReady
  BY DEF DiskInv, CompleteInv, CompletedIsReady, Faithful
<1> QED BY <1>1, DiskInvariant, TypeCorrect, PTL
=============================================================================
