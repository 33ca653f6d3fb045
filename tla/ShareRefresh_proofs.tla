------------------------- MODULE ShareRefresh_proofs -------------------------
(* What module ShareRefresh keeps to for any files, devices, hashers and     *)
(* setups, in any order of the steps of the hashers, the refresh and the     *)
(* user.                                                                     *)
EXTENDS ShareRefresh, FiniteSetTheorems, SequenceTheorems, WellFoundedInduction, TLAPS

-----------------------------------------------------------------------------
(* What the variables look like.                                            *)

Points == {"none", "wait", "check", "suspend", "asleep", "awake", "take", "hash", "store",
           "finish", "leave", "reset"}
HasFile == {"hash", "store", "finish"}
HasherRecord ==
    [id : Nat, at : Points, work : SUBSET Files, signals : Nat, cur : Files \cup {"none"},
     devices : [Devices -> Nat], paused : BOOLEAN, stopping : BOOLEAN, quit : BOOLEAN]

\* A hasher has a file while it hashes one, and one that does not run has nothing.
Hashers ==
    {h \in HasherRecord : /\ h.cur \in IF h.at \in HasFile THEN Files ELSE {"none"}
                          /\ h.at = "none" => h = NoHasher}

ListInv ==
    /\ hashers \in Seq(Threads) /\ IsInjective(hashers)
    /\ hasher \in [Threads -> Hashers]
    /\ \A t \in Listed : hasher[t].at # "none"

HashInv ==
    /\ ListInv
    /\ pausers \in Nat /\ store \subseteq Files /\ down \in BOOLEAN

Places == {"idle", "front", "pauseall", "find", "scan", "queue", "pop", "end", "resume",
           "resumeall"}
Working == {"pauseall", "find", "scan", "queue", "pop"}
UserPlaces == {"ready", "test", "start", "add", "stophash", "pauseall", "resumeall",
               "shutdown", "quit", "gone"}
RunRecord ==
    [at : Places, old : Nat, left : SUBSET Files, got : SUBSET Files, held : SUBSET Files,
     file : Files \cup {"none"}, pauser : BOOLEAN, late : SUBSET (Threads \X Files),
     noted : SUBSET Files]
TaskRecord == [dir : Dirs, canceled : BOOLEAN]

RunInv ==
    /\ setup \in Setups /\ user \in UserPlaces
    /\ tasks \in Seq(TaskRecord) /\ tasksRunning \in BOOLEAN
    /\ run \in RunRecord
    /\ run.at \in Working => tasks # <<>>
    /\ run.at = "queue" => run.file \in Files

\* The tree, its indices and its size; what a refresh replaces is what it has found.
TreeRecord == [root : Nat, sub : Nat, files : SUBSET Files]
TreeOK ==
    /\ tree \in TreeRecord /\ overtaken \subseteq Files
    /\ dirNames = Objects /\ sharedSize = Cardinality(tree.files)
    /\ tree.files \cap SubFiles # {} => tree.sub # 0
    /\ tree.root = 0 => tree = NoTree
    /\ tree.sub # 0 => tree.sub # tree.root
Looking == run.at \in {"scan", "queue"}
OldInv ==
    Looking /\ run.old # 0 =>
        IF Task.dir = "root" THEN tree.root \in {0, run.old}
        ELSE tree.root # 0 /\ tree.sub = run.old
TreeInv == TreeOK /\ OldInv

BaseInv == HashInv /\ RunInv /\ TreeInv
-----------------------------------------------------------------------------
(* Sets and lists.                                                          *)

\* A non-empty set of numbers has a smallest one.
LEMMA Smallest ==
    ASSUME NEW S \in SUBSET Nat, S # {}
    PROVE  \E n \in S : \A m \in S : n <= m
<1> DEFINE R == {ss \in Nat \X Nat : ss[1] < ss[2]}
<1>1. IsWellFoundedOn(R, Nat)
  BY NatLessThanWellFounded DEF OpToRel
<1>2. PICK n \in S : \A m \in S : ~(<<m, n>> \in R)
  BY <1>1, WFMin
<1>3. ASSUME NEW m \in S PROVE n <= m
  <2>1. n \in Nat /\ m \in Nat /\ ~(m < n)
    BY <1>2
  <2> QED BY <2>1
<1> QED BY <1>2, <1>3

\* There are finitely many files.
LEMMA FiniteFiles ==
    ASSUME NEW F \in SUBSET Files
    PROVE  IsFiniteSet(F) /\ Cardinality(F) \in Nat
BY HashingAssumption, FS_Subset, FS_CardinalityType

\* The number of a new hasher is a number.
LEMMA NewIdIsNumber ==
    ASSUME hashers \in Seq(Threads)
    PROVE  /\ NewId \in 0 .. Len(hashers)
           /\ \A i \in 1 .. NewId : hasher[hashers[i]].id = i - 1
           /\ NewId < Len(hashers) => hasher[hashers[NewId + 1]].id # NewId
<1> DEFINE L == Len(hashers)
           Id(i) == hasher[hashers[i]].id
           Ends == {n \in 0 .. L : n < L => Id(n + 1) # n}
<1>1. L \in Nat
  BY LenProperties
<1>2. L \in Ends
  BY <1>1
<1>3. PICK n \in Ends : \A m \in Ends : n <= m
  <2>1. Ends \in SUBSET Nat /\ Ends # {}
    BY <1>1, <1>2
  <2> HIDE DEF Ends
  <2> QED BY <2>1, Smallest
<1>4. n \in 0 .. L /\ (n < L => Id(n + 1) # n)
  BY <1>3
<1>5. ASSUME NEW i \in 1 .. n PROVE Id(i) = i - 1
  <2>1. /\ i - 1 \in 0 .. L /\ i - 1 < n /\ i - 1 < L /\ (i - 1) + 1 = i /\ n \in Int
    BY <1>1, <1>4
  <2>2. i - 1 \notin Ends
    BY <1>3, <2>1
  <2> QED BY <2>1, <2>2
<1>6. \E k \in 0 .. L : /\ \A i \in 1 .. k : Id(i) = i - 1
                        /\ k < L => Id(k + 1) # k
  BY <1>4, <1>5
<1> QED BY <1>6 DEF NewId
\* What is in the list.
LEMMA ListedFacts ==
    ASSUME hashers \in Seq(Threads)
    PROVE  /\ Len(hashers) \in Nat /\ DOMAIN hashers = 1 .. Len(hashers)
           /\ \A i \in 1 .. Len(hashers) : hashers[i] \in Threads /\ hashers[i] \in Listed
           /\ \A t \in Listed : t \in Threads /\ \E i \in 1 .. Len(hashers) : t = hashers[i]
<1>1. /\ Len(hashers) \in Nat /\ DOMAIN hashers = 1 .. Len(hashers)
      /\ \A i \in 1 .. Len(hashers) : hashers[i] \in Threads
  BY LenProperties, ElementOfSeq
<1> QED BY <1>1 DEF Listed, ToSet

\* A hasher that is added comes last.
LEMMA AppendListed ==
    ASSUME hashers \in Seq(Threads), IsInjective(hashers), NEW n \in Threads, n \notin Listed,
           hashers' = Append(hashers, n)
    PROVE  /\ hashers' \in Seq(Threads) /\ IsInjective(hashers)'
           /\ Listed' = Listed \cup {n}
           /\ hashers' # <<>>
           /\ hashers # <<>> => hashers'[1] = hashers[1]
<1> DEFINE L == Len(hashers)
<1>1. /\ L \in Nat /\ DOMAIN hashers = 1 .. L
      /\ \A i \in 1 .. L : hashers[i] \in Listed /\ hashers[i] # n
      /\ \A t \in Listed : \E i \in 1 .. L : t = hashers[i]
  BY ListedFacts
<1>2. /\ hashers' \in Seq(Threads) /\ Len(hashers') = L + 1 /\ hashers' # <<>>
      /\ \A i \in 1 .. L : hashers'[i] = hashers[i]
      /\ hashers'[L + 1] = n
  BY AppendProperties
<1>3. DOMAIN hashers' = 1 .. L + 1
  BY <1>2, LenProperties
<1>4. 1 .. L + 1 = 1 .. L \cup {L + 1} /\ L + 1 \notin 1 .. L
  BY <1>1
<1> HIDE DEF L
<1>5. IsInjective(hashers)'
  <2>1. SUFFICES ASSUME NEW i \in 1 .. L + 1, NEW j \in 1 .. L + 1, hashers'[i] = hashers'[j]
                 PROVE  i = j
    BY <1>3 DEF IsInjective
  <2>2. CASE i \in 1 .. L /\ j \in 1 .. L
    <3>1. hashers[i] = hashers[j]
      BY <1>2, <2>1, <2>2
    <3> QED BY <1>1, <2>2, <3>1 DEF IsInjective
  <2>3. CASE i = L + 1 \/ j = L + 1
    BY <1>1, <1>2, <1>4, <2>1, <2>3
  <2> QED BY <1>4, <2>2, <2>3
<1>6. Listed' = Listed \cup {n}
  <2>1. Listed' = {hashers'[i] : i \in 1 .. L + 1}
    BY <1>3 DEF Listed, ToSet
  <2>2. Listed = {hashers[i] : i \in 1 .. L}
    BY <1>1 DEF Listed, ToSet
  <2> QED BY <1>2, <1>4, <2>1, <2>2
<1>7. ASSUME hashers # <<>> PROVE hashers'[1] = hashers[1]
  <2>1. L > 0
    BY <1>1, <1>7, EmptySeq DEF L
  <2>2. 1 \in 1 .. L
    BY <1>1, <2>1
  <2> QED BY <1>2, <2>2
<1> QED BY <1>2, <1>5, <1>6, <1>7

\* What is erased is what has the number; the others keep their places.
LEMMA EraseFacts ==
    ASSUME hashers \in Seq(Threads), IsInjective(hashers), NEW id, Erase(id)
    PROVE  /\ hashers' \in Seq(Threads) /\ IsInjective(hashers)'
           /\ Listed' = {t \in Listed : hasher[t].id # id}
           /\ hashers # <<>> /\ hasher[hashers[1]].id # id =>
                hashers' # <<>> /\ hashers'[1] = hashers[1]
<1> DEFINE kept == {i \in DOMAIN hashers : hasher[hashers[i]].id # id}
           n == Cardinality(kept)
<1>1. /\ Len(hashers) \in Nat /\ DOMAIN hashers = 1 .. Len(hashers)
      /\ \A i \in 1 .. Len(hashers) : hashers[i] \in Threads
      /\ \A t \in Listed : \E i \in 1 .. Len(hashers) : t = hashers[i]
  BY ListedFacts
<1>2. n \in Nat
  <2>1. kept \subseteq 1 .. Len(hashers) /\ IsFiniteSet(1 .. Len(hashers))
    BY <1>1, FS_Interval
  <2> HIDE DEF kept
  <2> QED BY <2>1, FS_Subset, FS_CardinalityType
<1>3. PICK place \in [1 .. n -> kept] :
        /\ ToSet(place) = kept
        /\ \A i, j \in DOMAIN place : i < j => place[i] < place[j]
        /\ hashers' = [i \in DOMAIN place |-> hashers[place[i]]]
  BY DEF Erase
<1>4. /\ \A i \in kept : i \in 1 .. Len(hashers) /\ hasher[hashers[i]].id # id
      /\ \A i \in 1 .. Len(hashers) : hasher[hashers[i]].id # id => i \in kept
  BY <1>1
<1> HIDE DEF n
<1> HIDE DEF kept
<1>5. /\ DOMAIN place = 1 .. n /\ \A i \in 1 .. n : place[i] \in kept
      /\ hashers' = [i \in 1 .. n |-> hashers[place[i]]]
      /\ \A i, j \in 1 .. n : i < j => place[i] < place[j]
  BY <1>3
<1>6. \A k \in kept : \E i \in 1 .. n : place[i] = k
  BY <1>3, <1>5 DEF ToSet
<1>7. \A i \in 1 .. n : hashers'[i] = hashers[place[i]] /\ hashers'[i] \in Threads
  BY <1>1, <1>4, <1>5
<1>8. hashers' \in Seq(Threads) /\ DOMAIN hashers' = 1 .. n /\ Len(hashers') = n
  <2>1. hashers' \in [1 .. n -> Threads]
    BY <1>5, <1>7
  <2> QED BY <1>2, <2>1, LenProperties
<1>9. IsInjective(hashers)'
  <2>1. SUFFICES ASSUME NEW i \in 1 .. n, NEW j \in 1 .. n, hashers'[i] = hashers'[j]
                 PROVE  i = j
    BY <1>8 DEF IsInjective
  <2>2. place[i] = place[j] /\ place[i] \in 1 .. Len(hashers) /\ place[j] \in 1 .. Len(hashers)
    BY <1>1, <1>4, <1>5, <1>7, <2>1 DEF IsInjective
  <2>3. ~(i < j) /\ ~(j < i)
    BY <1>5, <2>2
  <2> QED BY <1>2, <2>3
<1>10. Listed' = {t \in Listed : hasher[t].id # id}
  <2>1. Listed' = {hashers'[i] : i \in 1 .. n}
    BY <1>8 DEF Listed, ToSet
  <2>2. Listed = {hashers[i] : i \in 1 .. Len(hashers)}
    BY <1>1 DEF Listed, ToSet
  <2>3. ASSUME NEW t \in Listed' PROVE t \in Listed /\ hasher[t].id # id
    BY <1>4, <1>5, <1>7, <2>1, <2>2, <2>3
  <2>4. ASSUME NEW t \in Listed, hasher[t].id # id PROVE t \in Listed'
    <3>1. PICK k \in 1 .. Len(hashers) : t = hashers[k]
      BY <1>1
    <3>2. PICK i \in 1 .. n : place[i] = k
      BY <1>4, <1>6, <2>4, <3>1
    <3> QED BY <1>7, <2>1, <3>1, <3>2
  <2> QED BY <2>3, <2>4
<1>11. ASSUME hashers # <<>>, hasher[hashers[1]].id # id
       PROVE  hashers' # <<>> /\ hashers'[1] = hashers[1]
  <2>1. 1 \in 1 .. Len(hashers)
    BY <1>1, <1>11, EmptySeq
  <2>2. PICK i \in 1 .. n : place[i] = 1
    BY <1>4, <1>6, <1>11, <2>1
  <2>3. 1 \in 1 .. n
    BY <1>2, <2>2
  <2>4. ~(1 < i)
    <3>1. place[1] \in 1 .. Len(hashers)
      BY <1>4, <1>5, <2>3
    <3> QED BY <1>5, <2>2, <2>3, <3>1
  <2>5. i = 1
    BY <1>2, <2>2, <2>4
  <2>6. hashers' # <<>>
    BY <1>8, <2>3, EmptySeq
  <2> QED BY <1>7, <2>2, <2>3, <2>5, <2>6
<1> QED BY <1>8, <1>9, <1>10, <1>11
-----------------------------------------------------------------------------
(* Hashers.                                                                 *)

\* The fields of a hasher.
LEMMA HasherFields ==
    ASSUME NEW h \in Hashers
    PROVE  /\ h \in HasherRecord /\ h.id \in Nat /\ h.at \in Points /\ h.work \subseteq Files
           /\ h.signals \in Nat /\ h.cur \in Files \cup {"none"}
           /\ h.devices \in [Devices -> Nat]
           /\ h.paused \in BOOLEAN /\ h.stopping \in BOOLEAN /\ h.quit \in BOOLEAN
           /\ h.at \in HasFile => h.cur \in Files
           /\ h.at \notin HasFile => h.cur = "none"
           /\ h.at = "none" => h = NoHasher
BY DEF Hashers, HasherRecord

\* Before it is created a hasher is nothing.
LEMMA NoHasherFacts ==
    /\ NoHasher \in Hashers /\ NoHasher.at = "none" /\ NoHasher.paused = FALSE
    /\ NoHasher.work = {} /\ NoHasher.quit = FALSE /\ NoHasher.stopping = FALSE
<1>1. [d \in Devices |-> 0] \in [Devices -> Nat]
  OBVIOUS
<1>2. NoHasher \in HasherRecord
  BY <1>1 DEF NoHasher, HasherRecord, Points
<1> QED BY <1>2 DEF Hashers, NoHasher, HasFile

\* A new hasher waits.
LEMMA NewHasherFacts ==
    ASSUME NEW id \in Nat, NEW paused \in BOOLEAN
    PROVE  /\ Hasher(id, paused) \in Hashers /\ Hasher(id, paused).at = "wait"
           /\ Hasher(id, paused).id = id /\ Hasher(id, paused).paused = paused
           /\ Hasher(id, paused).quit = FALSE /\ Hasher(id, paused).stopping = FALSE
           /\ Hasher(id, paused).work = {}
<1> DEFINE h == Hasher(id, paused)
<1>1. h \in HasherRecord
  BY NoHasherFacts DEF Hasher, NoHasher, Hashers, HasherRecord, Points
<1>2. h.at = "wait" /\ h.cur = "none" /\ h.id = id /\ h.paused = paused
      /\ h.quit = FALSE /\ h.stopping = FALSE /\ h.work = {}
  BY DEF Hasher, NoHasher
<1> HIDE DEF h
<1>3. h \in Hashers
  BY <1>1, <1>2 DEF Hashers, HasFile
<1> QED BY <1>2, <1>3 DEF h

\* What is queued, paused, stopped, resumed and asked to end goes on with what it does.
LEMMA QueueFacts ==
    ASSUME NEW h \in Hashers, h.at # "none", NEW f \in Files
    PROVE  /\ Queue(h, f) \in Hashers /\ Queue(h, f).at = h.at /\ Queue(h, f).id = h.id
           /\ Queue(h, f).paused = h.paused /\ Queue(h, f).quit = h.quit
<1>1. h \in HasherRecord
  BY HasherFields
<1>2. DeviceOf[f] \in Devices /\ h.devices \in [Devices -> Nat]
  BY <1>1, HashingAssumption DEF HasherRecord
<1> DEFINE work == h.work \cup {f}
           signals == h.signals + 1
           devices == [h.devices EXCEPT ![DeviceOf[f]] = h.devices[DeviceOf[f]] + 1]
           g == Queue(h, f)
<1>3. work \subseteq Files /\ signals \in Nat /\ devices \in [Devices -> Nat]
  BY <1>2, HasherFields
<1>4. g = [h EXCEPT !.work = work, !.signals = signals, !.devices = devices]
  BY <1>1 DEF Queue, HasherRecord
<1> HIDE DEF work, signals, devices
<1>5. /\ g \in HasherRecord /\ g.at = h.at /\ g.id = h.id /\ g.cur = h.cur
      /\ g.paused = h.paused /\ g.quit = h.quit
  BY <1>1, <1>3, <1>4 DEF HasherRecord
<1> HIDE DEF g
<1>6. g \in Hashers
  BY <1>5 DEF Hashers
<1> QED BY <1>5, <1>6 DEF g

LEMMA PausedFacts ==
    ASSUME NEW h \in Hashers, h.at # "none"
    PROVE  LET g == [h EXCEPT !.paused = TRUE] IN
           /\ g \in Hashers /\ g.at = h.at /\ g.id = h.id /\ g.quit = h.quit
           /\ g.work = h.work /\ g.paused = TRUE /\ g.stopping = h.stopping
<1> DEFINE g == [h EXCEPT !.paused = TRUE]
<1>1. /\ g \in HasherRecord /\ g.at = h.at /\ g.id = h.id /\ g.cur = h.cur
      /\ g.quit = h.quit /\ g.work = h.work /\ g.paused = TRUE /\ g.stopping = h.stopping
  BY HasherFields DEF HasherRecord
<1> HIDE DEF g
<1>2. g \in Hashers
  BY <1>1 DEF Hashers
<1> QED BY <1>1, <1>2 DEF g

LEMMA ResumedFacts ==
    ASSUME NEW h \in Hashers, h.at # "none"
    PROVE  LET g == Resumed(h) IN
           /\ g \in Hashers /\ g.at # "none" /\ g.id = h.id /\ g.quit = h.quit
           /\ g.work = h.work /\ g.stopping = h.stopping
           /\ g.at = "hash" => h.at = "hash"
<1> DEFINE g == Resumed(h)
<1>1. /\ g \in HasherRecord /\ g.id = h.id /\ g.cur = h.cur
      /\ g.at = IF h.at = "asleep" THEN "awake" ELSE h.at
      /\ g.quit = h.quit /\ g.work = h.work /\ g.stopping = h.stopping
  BY HasherFields DEF Resumed, HasherRecord, Points
<1> HIDE DEF g
<1>2. g \in Hashers
  BY <1>1 DEF Hashers, HasFile
<1> QED BY <1>1, <1>2 DEF g

LEMMA StoppedFacts ==
    ASSUME NEW h \in Hashers, h.at # "none"
    PROVE  LET g == Stopped(h) IN
           /\ g \in Hashers /\ g.at = h.at /\ g.id = h.id /\ g.quit = h.quit
           /\ g.work = {} /\ g.stopping = TRUE /\ g.paused = h.paused
<1> DEFINE g == Stopped(h)
<1>1. /\ g \in HasherRecord /\ g.id = h.id /\ g.cur = h.cur /\ g.at = h.at
      /\ g.quit = h.quit /\ g.work = {} /\ g.stopping = TRUE /\ g.paused = h.paused
  <2>1. [d \in Devices |-> 0] \in [Devices -> Nat]
    OBVIOUS
  <2> QED BY <2>1, HasherFields DEF Stopped, HasherRecord
<1> HIDE DEF g
<1>2. g \in Hashers
  BY <1>1 DEF Hashers
<1> QED BY <1>1, <1>2 DEF g

LEMMA QuitFacts ==
    ASSUME NEW h \in Hashers, h.at # "none"
    PROVE  LET g == Quit(h) IN
           /\ g \in Hashers /\ g.at # "none" /\ g.id = h.id
           /\ g.quit = TRUE /\ g.work = {} /\ g.stopping = TRUE
<1> DEFINE k == Stopped(h)
           r == IF h.paused THEN Resumed(k) ELSE k
           g == [r EXCEPT !.quit = TRUE, !.signals = @ + 1]
<1>1. /\ k \in Hashers /\ k.at = h.at /\ k.id = h.id /\ k.work = {} /\ k.stopping = TRUE
  BY StoppedFacts
<1>2. /\ r \in Hashers /\ r.at # "none" /\ r.id = h.id /\ r.work = {} /\ r.stopping = TRUE
  <2> HIDE DEF k
  <2>1. CASE h.paused
    <3>1. r = Resumed(k) /\ k \in Hashers /\ k.at # "none"
      BY <1>1, <2>1
    <3> HIDE DEF r
    <3>2. /\ Resumed(k) \in Hashers /\ Resumed(k).at # "none" /\ Resumed(k).id = k.id
          /\ Resumed(k).work = k.work /\ Resumed(k).stopping = k.stopping
      BY <3>1, ResumedFacts
    <3> QED BY <1>1, <3>1, <3>2
  <2>2. CASE ~h.paused
    BY <1>1, <2>2
  <2> QED BY <2>1, <2>2
<1>3. Quit(h) = g
  BY DEF Quit
<1> HIDE DEF r
<1>4. /\ g \in HasherRecord /\ g.id = h.id /\ g.cur = r.cur /\ g.at = r.at
      /\ g.quit = TRUE /\ g.work = {} /\ g.stopping = TRUE
  <2> DEFINE signals == r.signals + 1
  <2>1. r \in HasherRecord /\ signals \in Nat
    BY <1>2, HasherFields
  <2>2. g = [r EXCEPT !.quit = TRUE, !.signals = signals]
    OBVIOUS
  <2> HIDE DEF signals, g
  <2> QED BY <1>2, <2>1, <2>2 DEF HasherRecord
<1> HIDE DEF g
<1>5. g \in Hashers
  BY <1>2, <1>4 DEF Hashers
<1> QED BY <1>2, <1>3, <1>4, <1>5

LEMMA WithoutFacts ==
    ASSUME NEW h \in Hashers, h.at # "none", NEW F
    PROVE  LET g == Without(h, F) IN
           /\ g \in Hashers /\ g.at = h.at /\ g.id = h.id /\ g.quit = h.quit
           /\ g.work \subseteq h.work /\ g.stopping = h.stopping /\ g.paused = h.paused
<1> DEFINE n(d) == Cardinality({f \in h.work \cap F : DeviceOf[f] = d})
           fewer == [d \in Devices |-> Less(h.devices[d], n(d))]
           g == Without(h, F)
<1>1. fewer \in [Devices -> Nat]
  <2>1. ASSUME NEW d \in Devices PROVE Less(h.devices[d], n(d)) \in Nat
    <3>1. h.work \subseteq Files /\ h.devices[d] \in Nat
      BY HasherFields
    <3>2. n(d) \in Nat
      BY <3>1, FiniteFiles
    <3> QED BY <3>1, <3>2 DEF Less
  <2> QED BY <2>1
<1>2. g = [h EXCEPT !.work = h.work \ F, !.devices = fewer]
  BY HasherFields DEF Without, HasherRecord
<1> HIDE DEF fewer
<1>3. /\ g \in HasherRecord /\ g.id = h.id /\ g.cur = h.cur /\ g.at = h.at
      /\ g.quit = h.quit /\ g.work \subseteq h.work /\ g.stopping = h.stopping
      /\ g.paused = h.paused
  BY <1>1, <1>2, HasherFields DEF HasherRecord
<1> HIDE DEF g
<1>4. g \in Hashers
  BY <1>3 DEF Hashers
<1> QED BY <1>3, <1>4 DEF g
-----------------------------------------------------------------------------
(* What a hasher does by itself.                                            *)

\* A paused hasher that is past its file does not begin another one.
Past == {"store", "finish", "check", "suspend", "asleep"}

\* It goes on, with what it was asked to hash and how it was paused and stopped.
Same(h, g) ==
    /\ g \in Hashers /\ g.at # "none" /\ g.id = h.id /\ g.paused = h.paused /\ g.quit = h.quit
    /\ g.work \subseteq h.work
    /\ g.at = "hash" => h.work # {}
    /\ h.paused /\ h.at \in Past => g.at \in Past
GoesOn(t) ==
    /\ UNCHANGED hashers /\ hasher' = [hasher EXCEPT ![t] = hasher'[t]]
    /\ Same(hasher[t], hasher'[t])
\* ... or ends.
Ended(t) ==
    /\ hasher[t].at = "leave" /\ (hasher[t].quit \/ hasher[t].id # 0)
    /\ Erase(hasher[t].id) /\ hasher' = [hasher EXCEPT ![t] = NoHasher]

\* It comes to another place.
LEMMA GoesFacts ==
    ASSUME ListInv, NEW t \in Threads, hasher[t].at # "none", NEW at \in Points \ {"none", "hash"},
           at \in HasFile <=> hasher[t].at \in HasFile,
           hasher[t].at \in Past /\ hasher[t].paused => at \in Past,
           Goes(t, at)
    PROVE  GoesOn(t) /\ hasher'[t].at = at
<1> DEFINE h == hasher[t]
           g == [h EXCEPT !.at = at]
<1>1. h \in Hashers
  BY DEF ListInv
<1>2. /\ g \in HasherRecord /\ g.at = at /\ g.id = h.id /\ g.cur = h.cur /\ g.work = h.work
      /\ g.paused = h.paused /\ g.quit = h.quit
  BY <1>1, HasherFields DEF HasherRecord
<1>3. hasher' = [hasher EXCEPT ![t] = g] /\ UNCHANGED hashers
  BY DEF Goes, Becomes
<1> HIDE DEF g
<1>4. g \in Hashers
  BY <1>1, <1>2, HasherFields DEF Hashers
<1>5. hasher'[t] = g
  BY <1>3 DEF ListInv
<1> QED BY <1>2, <1>3, <1>4, <1>5 DEF GoesOn, Same

\* Each step of a hasher.
LEMMA HasherSteps ==
    ASSUME ListInv, NEW t \in Threads, Works(t) \/ Hashed(t) \/ HashFails(t)
    PROVE  hasher[t].at # "none" /\ (GoesOn(t) \/ Ended(t))
<1> DEFINE h == hasher[t]
<1>1. h \in Hashers /\ h \in HasherRecord /\ hasher \in [Threads -> Hashers]
  BY HasherFields DEF ListInv
<1>2. CASE Wait(t)
  <2> DEFINE signals == h.signals - 1
             g == [h EXCEPT !.at = "check", !.signals = signals]
  <2>1. h.at = "wait" /\ signals \in Nat /\ UNCHANGED hashers
    BY <1>1, <1>2, HasherFields DEF Wait, At, Becomes
  <2>2. hasher' = [hasher EXCEPT ![t] = g]
    BY <1>2 DEF Wait, Becomes
  <2> HIDE DEF signals
  <2>3. /\ g \in HasherRecord /\ g.at = "check" /\ g.id = h.id /\ g.cur = h.cur
        /\ g.work = h.work /\ g.paused = h.paused /\ g.quit = h.quit
    BY <1>1, <2>1 DEF HasherRecord, Points
  <2> HIDE DEF g
  <2>4. g \in Hashers
    BY <1>1, <2>1, <2>3, HasherFields DEF Hashers, HasFile
  <2>5. hasher'[t] = g
    BY <1>1, <2>2
  <2> QED BY <2>1, <2>2, <2>3, <2>4, <2>5 DEF GoesOn, Same, Past
<1>3. CASE Check(t)
  <2>1. h.at \in {"check", "awake"}
    BY <1>3 DEF Check
  <2>2. CASE h.paused /\ At(t, "check")
    <3>1. Goes(t, "suspend")
      BY <1>3, <2>2 DEF Check
    <3> QED BY <2>1, <2>2, <3>1, GoesFacts DEF Points, HasFile, Past
  <2>3. CASE ~(h.paused /\ At(t, "check")) /\ h.stopping
    <3>1. Goes(t, "leave")
      BY <1>3, <2>3 DEF Check
    <3> QED BY <2>1, <2>3, <3>1, GoesFacts DEF Points, HasFile, Past, At
  <2>4. CASE ~(h.paused /\ At(t, "check")) /\ ~h.stopping
    <3>1. Goes(t, "take")
      BY <1>3, <2>4 DEF Check
    <3> QED BY <2>1, <2>4, <3>1, GoesFacts DEF Points, HasFile, Past, At
  <2> QED BY <2>2, <2>3, <2>4
<1>4. CASE Suspend(t)
  <2>1. h.at = "suspend" /\ Goes(t, "asleep")
    BY <1>4 DEF Suspend, At
  <2> QED BY <2>1, GoesFacts DEF Points, HasFile, Past
<1>5. CASE Take(t)
  <2>1. h.at = "take"
    BY <1>5 DEF Take, At
  <2>2. CASE h.work = {}
    <3>1. Goes(t, "leave")
      BY <1>5, <2>2 DEF Take
    <3> QED BY <2>1, <3>1, GoesFacts DEF Points, HasFile, Past
  <2>3. CASE h.work # {}
    <3>1. PICK f \in h.work :
            Becomes(t, [h EXCEPT !.at = "hash", !.cur = f, !.work = @ \ {f}])
      BY <1>5, <2>3 DEF Take
    <3> DEFINE work == h.work \ {f}
               g == [h EXCEPT !.at = "hash", !.cur = f, !.work = work]
    <3>2. hasher' = [hasher EXCEPT ![t] = g] /\ UNCHANGED hashers
      BY <3>1 DEF Becomes
    <3>3. f \in Files /\ work \subseteq Files /\ work \subseteq h.work
      BY <1>1, HasherFields
    <3> HIDE DEF work
    <3>4. /\ g \in HasherRecord /\ g.at = "hash" /\ g.id = h.id /\ g.cur = f
          /\ g.work = work /\ g.paused = h.paused /\ g.quit = h.quit
      BY <1>1, <3>3 DEF HasherRecord, Points
    <3> HIDE DEF g
    <3>5. g \in Hashers
      BY <3>3, <3>4 DEF Hashers, HasFile
    <3>6. hasher'[t] = g
      BY <1>1, <3>2
    <3> QED BY <2>1, <2>3, <3>2, <3>3, <3>4, <3>5, <3>6 DEF GoesOn, Same, Past
  <2> QED BY <2>2, <2>3
<1>6. CASE Store(t) \/ Aborted(t) \/ HashFails(t)
  <2>1. h.at \in {"store", "hash"} /\ Goes(t, "finish")
    BY <1>6 DEF Store, Aborted, HashFails, At
  <2> QED BY <2>1, GoesFacts DEF Points, HasFile, Past
<1>7. CASE Hashed(t)
  <2>1. h.at = "hash" /\ Goes(t, "store")
    BY <1>7 DEF Hashed, At
  <2> QED BY <2>1, GoesFacts DEF Points, HasFile, Past
<1>8. CASE Finish(t)
  <2> DEFINE d == DeviceOf[h.cur]
             devices == [h.devices EXCEPT ![d] = Less(h.devices[d], 1)]
             g == [h EXCEPT !.at = "check", !.cur = "none", !.devices = devices]
  <2>1. h.at = "finish" /\ h.cur \in Files
    BY <1>1, <1>8, HasherFields DEF Finish, At, HasFile
  <2>2. h.devices \in [Devices -> Nat] /\ d \in Devices
    BY <1>1, <2>1, HasherFields, HashingAssumption
  <2>3. devices \in [Devices -> Nat]
    <3>1. Less(h.devices[d], 1) \in Nat
      BY <2>2 DEF Less
    <3> HIDE DEF d
    <3> QED BY <2>2, <3>1
  <2>4. hasher' = [hasher EXCEPT ![t] = g] /\ UNCHANGED hashers
    BY <1>1, <1>8 DEF Finish, Becomes, HasherRecord
  <2> HIDE DEF devices
  <2>5. /\ g \in HasherRecord /\ g.at = "check" /\ g.id = h.id /\ g.cur = "none"
        /\ g.work = h.work /\ g.paused = h.paused /\ g.quit = h.quit
    BY <1>1, <2>3 DEF HasherRecord, Points
  <2> HIDE DEF g
  <2>6. g \in Hashers
    BY <2>5 DEF Hashers, HasFile
  <2>7. hasher'[t] = g
    BY <1>1, <2>4
  <2> QED BY <2>1, <2>4, <2>5, <2>6, <2>7 DEF GoesOn, Same, Past
<1>9. CASE Leave(t)
  <2>1. h.at = "leave"
    BY <1>9 DEF Leave, At
  <2>2. CASE h.quit \/ (h.work = {} /\ h.id # 0)
    BY <1>9, <2>1, <2>2 DEF Leave, Ended
  <2>3. CASE ~(h.quit \/ (h.work = {} /\ h.id # 0))
    <3>1. Goes(t, "reset")
      BY <1>9, <2>3 DEF Leave
    <3> QED BY <2>1, <3>1, GoesFacts DEF Points, HasFile, Past
  <2> QED BY <2>1, <2>2, <2>3
<1>10. CASE Reset(t)
  <2> DEFINE g == [h EXCEPT !.at = "wait", !.stopping = FALSE]
  <2>1. h.at = "reset" /\ UNCHANGED hashers /\ hasher' = [hasher EXCEPT ![t] = g]
    BY <1>10 DEF Reset, At, Becomes
  <2>2. /\ g \in HasherRecord /\ g.at = "wait" /\ g.id = h.id /\ g.cur = h.cur
        /\ g.work = h.work /\ g.paused = h.paused /\ g.quit = h.quit
    BY <1>1 DEF HasherRecord, Points
  <2> HIDE DEF g
  <2>3. g \in Hashers
    BY <1>1, <2>1, <2>2, HasherFields DEF Hashers, HasFile
  <2>4. hasher'[t] = g
    BY <1>1, <2>1
  <2> QED BY <2>1, <2>2, <2>3, <2>4 DEF GoesOn, Same, Past
<1> QED BY <1>2, <1>3, <1>4, <1>5, <1>6, <1>7, <1>8, <1>9, <1>10 DEF Works

\* The list and its hashers keep their types.
LEMMA HasherKeepsList ==
    ASSUME ListInv, NEW t \in Threads, GoesOn(t) \/ Ended(t)
    PROVE  ListInv'
<1>1. hashers \in Seq(Threads) /\ hasher \in [Threads -> Hashers]
  BY DEF ListInv
<1>2. CASE GoesOn(t)
  <2>1. /\ UNCHANGED hashers /\ hasher' = [hasher EXCEPT ![t] = hasher'[t]]
        /\ hasher'[t] \in Hashers /\ hasher'[t].at # "none"
    BY <1>2 DEF GoesOn, Same
  <2>2. /\ hasher' \in [Threads -> Hashers]
        /\ \A u \in Threads : hasher'[u].at # "none" \/ hasher'[u] = hasher[u]
    BY <1>1, <2>1
  <2>3. Listed' = Listed /\ Listed \subseteq Threads
    BY <1>1, <2>1, ListedFacts DEF Listed
  <2> QED BY <2>1, <2>2, <2>3 DEF ListInv, IsInjective
<1>3. CASE Ended(t)
  <2>1. /\ hashers' \in Seq(Threads) /\ IsInjective(hashers)'
        /\ Listed' = {u \in Listed : hasher[u].id # hasher[t].id}
    BY <1>1, <1>3, EraseFacts DEF Ended, ListInv
  <2>2. hasher' = [hasher EXCEPT ![t] = NoHasher] /\ NoHasher \in Hashers
    BY <1>3, NoHasherFacts DEF Ended
  <2>3. hasher' \in [Threads -> Hashers] /\ \A u \in Threads : u # t => hasher'[u] = hasher[u]
    BY <1>1, <2>2
  <2>4. \A u \in Listed' : u # t /\ u \in Listed /\ u \in Threads
    BY <1>1, <2>1, ListedFacts
  <2> QED BY <2>1, <2>3, <2>4 DEF ListInv
<1> QED BY <1>2, <1>3
-----------------------------------------------------------------------------
(* What the manager does with all of its hashers, and with a file.          *)

\* Those that are not listed are left alone; the others keep their number.
Others == \A t \in Threads : t \notin Listed => hasher'[t] = hasher[t]
Mapped(t) == /\ hasher'[t] \in Hashers /\ hasher'[t].at # "none"
             /\ hasher'[t].id = hasher[t].id

\* A change of listed hashers.
LEMMA MappedKeepsList ==
    ASSUME ListInv, UNCHANGED hashers, Others, \A t \in Listed : Mapped(t),
           hasher' = [t \in Threads |-> hasher'[t]]
    PROVE  ListInv'
<1>1. hashers \in Seq(Threads) /\ hasher \in [Threads -> Hashers]
  BY DEF ListInv
<1>2. \A t \in Threads : hasher'[t] \in Hashers
  BY <1>1 DEF Others, Mapped
<1>3. hasher' \in [Threads -> Hashers]
  BY <1>2
<1>4. Listed' = Listed
  BY DEF Listed
<1> QED BY <1>3, <1>4 DEF ListInv, Mapped, IsInjective

\* All are paused.
LEMMA PauseAllFacts ==
    ASSUME ListInv, UNCHANGED hashers, PauseAll
    PROVE  /\ ListInv' /\ Others
           /\ \A t \in Listed :
                /\ Mapped(t) /\ hasher'[t].paused = TRUE /\ hasher'[t].at = hasher[t].at
                /\ hasher'[t].quit = hasher[t].quit /\ hasher'[t].work = hasher[t].work
                /\ hasher'[t].stopping = hasher[t].stopping
<1>1. /\ hashers \in Seq(Threads) /\ hasher \in [Threads -> Hashers] /\ Listed \subseteq Threads
      /\ \A t \in Listed : hasher[t].at # "none"
  BY ListedFacts DEF ListInv
<1>2. hasher' = [t \in Threads |-> IF t \in Listed THEN [hasher[t] EXCEPT !.paused = TRUE]
                                   ELSE hasher[t]]
  BY DEF PauseAll, Each
<1>3. ASSUME NEW t \in Listed
      PROVE  /\ Mapped(t) /\ hasher'[t].paused = TRUE /\ hasher'[t].at = hasher[t].at
             /\ hasher'[t].quit = hasher[t].quit /\ hasher'[t].work = hasher[t].work
             /\ hasher'[t].stopping = hasher[t].stopping
  <2> DEFINE g == [hasher[t] EXCEPT !.paused = TRUE]
  <2>1. hasher'[t] = g /\ hasher[t] \in Hashers
    BY <1>1, <1>2
  <2>2. /\ g \in Hashers /\ g.at = hasher[t].at /\ g.id = hasher[t].id
        /\ g.quit = hasher[t].quit
        /\ g.work = hasher[t].work /\ g.paused = TRUE /\ g.stopping = hasher[t].stopping
    BY <1>1, <2>1, PausedFacts
  <2> QED BY <1>1, <2>1, <2>2 DEF Mapped
<1>4. Others
  BY <1>2 DEF Others
<1>5. ListInv'
  BY <1>2, <1>3, <1>4, MappedKeepsList
<1> QED BY <1>3, <1>4, <1>5

\* All go on.
LEMMA ResumeAllFacts ==
    ASSUME ListInv, UNCHANGED hashers, ResumeAll
    PROVE  /\ ListInv' /\ Others
           /\ \A t \in Listed :
                /\ Mapped(t) /\ (hasher'[t].at = "hash" => hasher[t].at = "hash")
                /\ hasher'[t].quit = hasher[t].quit /\ hasher'[t].work = hasher[t].work
                /\ hasher'[t].stopping = hasher[t].stopping
<1>1. /\ hashers \in Seq(Threads) /\ hasher \in [Threads -> Hashers] /\ Listed \subseteq Threads
      /\ \A t \in Listed : hasher[t].at # "none"
  BY ListedFacts DEF ListInv
<1>2. hasher' = [t \in Threads |-> IF t \in Listed THEN Resumed(hasher[t]) ELSE hasher[t]]
  BY DEF ResumeAll, Each
<1>3. ASSUME NEW t \in Listed
      PROVE  /\ Mapped(t) /\ (hasher'[t].at = "hash" => hasher[t].at = "hash")
             /\ hasher'[t].quit = hasher[t].quit /\ hasher'[t].work = hasher[t].work
             /\ hasher'[t].stopping = hasher[t].stopping
  <2>1. hasher'[t] = Resumed(hasher[t]) /\ hasher[t] \in Hashers
    BY <1>1, <1>2
  <2> QED BY <1>1, <2>1, ResumedFacts DEF Mapped
<1>4. Others
  BY <1>2 DEF Others
<1>5. ListInv'
  BY <1>2, <1>3, <1>4, MappedKeepsList
<1> QED BY <1>3, <1>4, <1>5

\* All stop.
LEMMA StopFacts ==
    ASSUME ListInv, UNCHANGED hashers, Stop
    PROVE  /\ ListInv' /\ Others
           /\ \A t \in Listed :
                /\ Mapped(t) /\ hasher'[t].paused = hasher[t].paused
                /\ hasher'[t].at = hasher[t].at
                /\ hasher'[t].quit = hasher[t].quit /\ hasher'[t].work = {}
                /\ hasher'[t].stopping = TRUE
<1>1. /\ hashers \in Seq(Threads) /\ hasher \in [Threads -> Hashers] /\ Listed \subseteq Threads
      /\ \A t \in Listed : hasher[t].at # "none"
  BY ListedFacts DEF ListInv
<1>2. hasher' = [t \in Threads |-> IF t \in Listed THEN Stopped(hasher[t]) ELSE hasher[t]]
  BY DEF Stop, Each
<1>3. ASSUME NEW t \in Listed
      PROVE  /\ Mapped(t) /\ hasher'[t].paused = hasher[t].paused
             /\ hasher'[t].at = hasher[t].at
             /\ hasher'[t].quit = hasher[t].quit /\ hasher'[t].work = {}
             /\ hasher'[t].stopping = TRUE
  <2>1. hasher'[t] = Stopped(hasher[t]) /\ hasher[t] \in Hashers
    BY <1>1, <1>2
  <2> DEFINE h == hasher[t]
             g == Stopped(h)
  <2>2. h \in Hashers /\ h.at # "none"
    BY <1>1, <2>1
  <2> HIDE DEF h
  <2>3. /\ g \in Hashers /\ g.at = h.at /\ g.id = h.id /\ g.quit = h.quit
        /\ g.work = {} /\ g.stopping = TRUE /\ g.paused = h.paused
    BY <2>2, StoppedFacts
  <2> HIDE DEF g
  <2>4. hasher'[t] = g
    BY <2>1 DEF g, h
  <2> QED BY <2>2, <2>3, <2>4 DEF Mapped, h
<1>4. Others
  BY <1>2 DEF Others
<1>5. ListInv'
  BY <1>2, <1>3, <1>4, MappedKeepsList
<1> QED BY <1>3, <1>4, <1>5

\* All are asked to end.
LEMMA QuitAllFacts ==
    ASSUME ListInv, UNCHANGED hashers, Each(Quit)
    PROVE  /\ ListInv' /\ Others
           /\ \A t \in Listed : /\ Mapped(t) /\ hasher'[t].quit = TRUE /\ hasher'[t].work = {}
                                /\ hasher'[t].stopping = TRUE
<1>1. /\ hashers \in Seq(Threads) /\ hasher \in [Threads -> Hashers] /\ Listed \subseteq Threads
      /\ \A t \in Listed : hasher[t].at # "none"
  BY ListedFacts DEF ListInv
<1>2. hasher' = [t \in Threads |-> IF t \in Listed THEN Quit(hasher[t]) ELSE hasher[t]]
  BY DEF Each
<1>3. ASSUME NEW t \in Listed
      PROVE  /\ Mapped(t) /\ hasher'[t].quit = TRUE /\ hasher'[t].work = {}
             /\ hasher'[t].stopping = TRUE
  <2>1. hasher'[t] = Quit(hasher[t]) /\ hasher[t] \in Hashers
    BY <1>1, <1>2
  <2> QED BY <1>1, <2>1, QuitFacts DEF Mapped
<1>4. Others
  BY <1>2 DEF Others
<1>5. ListInv'
  BY <1>2, <1>3, <1>4, MappedKeepsList
<1> QED BY <1>3, <1>4, <1>5

\* Files are taken from all.
LEMMA StopHashingFacts ==
    ASSUME ListInv, UNCHANGED hashers, NEW F, StopHashing(F)
    PROVE  /\ ListInv' /\ Others
           /\ \A t \in Listed :
                /\ Mapped(t) /\ hasher'[t].paused = hasher[t].paused
                /\ hasher'[t].at = hasher[t].at
                /\ hasher'[t].quit = hasher[t].quit /\ hasher'[t].work \subseteq hasher[t].work
                /\ hasher'[t].stopping = hasher[t].stopping
<1>1. /\ hashers \in Seq(Threads) /\ hasher \in [Threads -> Hashers] /\ Listed \subseteq Threads
      /\ \A t \in Listed : hasher[t].at # "none"
  BY ListedFacts DEF ListInv
<1>2. hasher' = [t \in Threads |-> IF t \in Listed THEN Without(hasher[t], F) ELSE hasher[t]]
  BY DEF StopHashing, Each
<1>3. ASSUME NEW t \in Listed
      PROVE  /\ Mapped(t) /\ hasher'[t].paused = hasher[t].paused
             /\ hasher'[t].at = hasher[t].at
             /\ hasher'[t].quit = hasher[t].quit /\ hasher'[t].work \subseteq hasher[t].work
             /\ hasher'[t].stopping = hasher[t].stopping
  <2>1. hasher'[t] = Without(hasher[t], F) /\ hasher[t] \in Hashers
    BY <1>1, <1>2
  <2> QED BY <1>1, <2>1, WithoutFacts DEF Mapped
<1>4. Others
  BY <1>2 DEF Others
<1>5. ListInv'
  BY <1>2, <1>3, <1>4, MappedKeepsList
<1> QED BY <1>3, <1>4, <1>5

\* A file is given to one that is listed,
Given(t, f) ==
    /\ t \in Listed /\ UNCHANGED hashers
    /\ hasher' = [hasher EXCEPT ![t] = Queue(hasher[t], f)]
\* ... or to a new one, which is paused when the others are.
Created(n, f) ==
    /\ n \in Threads \ Listed /\ hasher[n] = NoHasher /\ Len(hashers) < MaxThreads
    /\ hashers' = Append(hashers, n)
    /\ hasher' = [hasher EXCEPT ![n] = Queue(Hasher(NewId, pausers > 0), f)]

LEMMA HashFileCases ==
    ASSUME ListInv, NEW f \in Files, HashFile(f)
    PROVE  \/ UNCHANGED <<hashers, hasher>>
           \/ \E t \in Threads : Given(t, f)
           \/ \E n \in Threads : Created(n, f)
<1>1. hashers \in Seq(Threads) /\ hasher \in [Threads -> Hashers] /\ Listed \subseteq Threads
      /\ Len(hashers) \in Nat
  BY ListedFacts DEF ListInv
<1>2. CASE PathQueued(f) /\ UNCHANGED <<hashers, hasher>>
  BY <1>2
<1>3. CASE ~(PathQueued(f) /\ UNCHANGED <<hashers, hasher>>)
  <2>1. PICK t \in IF Len(hashers) = 1 /\ ~Busy(hasher[hashers[1]]) THEN Listed
                   ELSE SomeHasher(f) :
          IF t # "new"
          THEN hasher' = [hasher EXCEPT ![t] = Queue(@, f)] /\ UNCHANGED hashers
          ELSE \E n \in {n \in Threads \ Listed : hasher[n] = NoHasher} :
                 /\ hashers' = Append(hashers, n)
                 /\ hasher' = [hasher EXCEPT ![n] = Queue(NewHasher, f)]
    BY <1>3 DEF HashFile
  <2>2. t \in Listed \/ (t = "new" /\ ~(Len(hashers) >= MaxThreads))
    <3>1. t \in Listed \/ t \in SomeHasher(f)
      BY <2>1
    <3>2. CASE t \in SomeHasher(f)
      BY <3>2 DEF SomeHasher
    <3> QED BY <3>1, <3>2
  <2>3. CASE t # "new"
    <3>1. t \in Listed /\ t \in Threads
      BY <1>1, <2>2, <2>3
    <3>2. Given(t, f)
      BY <1>1, <2>1, <2>3, <3>1 DEF Given
    <3> QED BY <3>1, <3>2
  <2>4. CASE t = "new"
    <3>1. Len(hashers) < MaxThreads
      BY <1>1, <2>2, <2>4, HashingAssumption
    <3>2. PICK n \in {n \in Threads \ Listed : hasher[n] = NoHasher} :
            /\ hashers' = Append(hashers, n)
            /\ hasher' = [hasher EXCEPT ![n] = Queue(NewHasher, f)]
      BY <2>1, <2>4
    <3>3. Created(n, f)
      BY <3>1, <3>2 DEF Created, NewHasher
    <3> QED BY <3>2, <3>3
  <2> QED BY <2>3, <2>4
<1> QED BY <1>2, <1>3

\* Who is given a file goes on with what it does.
LEMMA GivenFacts ==
    ASSUME ListInv, NEW f \in Files, NEW t \in Threads, Given(t, f)
    PROVE  /\ ListInv' /\ UNCHANGED hashers /\ t \in Listed
           /\ \A u \in Threads : u # t => hasher'[u] = hasher[u]
           /\ Mapped(t) /\ hasher'[t].at = hasher[t].at /\ hasher'[t].paused = hasher[t].paused
           /\ hasher'[t].quit = hasher[t].quit
<1>1. hashers \in Seq(Threads) /\ hasher \in [Threads -> Hashers] /\ hasher[t].at # "none"
  BY DEF ListInv, Given
<1> DEFINE g == Queue(hasher[t], f)
<1>2. hasher' = [hasher EXCEPT ![t] = g] /\ UNCHANGED hashers /\ t \in Listed
  BY DEF Given
<1>3. /\ g \in Hashers /\ g.at = hasher[t].at /\ g.id = hasher[t].id
      /\ g.paused = hasher[t].paused /\ g.quit = hasher[t].quit
  BY <1>1, QueueFacts
<1> HIDE DEF g
<1>4. /\ hasher' \in [Threads -> Hashers] /\ hasher'[t] = g
      /\ \A u \in Threads : u # t => hasher'[u] = hasher[u]
  BY <1>1, <1>2, <1>3
<1>5. ListInv'
  <2>1. Listed' = Listed /\ Listed \subseteq Threads
    BY <1>1, <1>2, ListedFacts DEF Listed
  <2> QED BY <1>1, <1>2, <1>3, <1>4, <2>1 DEF ListInv, IsInjective
<1> QED BY <1>1, <1>2, <1>3, <1>4, <1>5 DEF Mapped

\* Who is created has a number that is not at its place in the list.
LEMMA CreatedFacts ==
    ASSUME ListInv, pausers \in Nat, NEW f \in Files, NEW n \in Threads, Created(n, f)
    PROVE  /\ ListInv' /\ n \notin Listed /\ Listed' = Listed \cup {n}
           /\ hashers' # <<>> /\ (hashers # <<>> => hashers'[1] = hashers[1])
           /\ \A u \in Threads : u # n => hasher'[u] = hasher[u]
           /\ hasher'[n].at = "wait" /\ hasher'[n].id = NewId /\ hasher'[n].quit = FALSE
           /\ hasher'[n].paused = (pausers > 0)
<1>1. hashers \in Seq(Threads) /\ hasher \in [Threads -> Hashers] /\ n \notin Listed
      /\ hashers' = Append(hashers, n)
  BY DEF ListInv, Created
<1> DEFINE b == pausers > 0
           h == Hasher(NewId, b)
           g == Queue(h, f)
<1>2. NewId \in Nat
  <2>1. NewId \in 0 .. Len(hashers) /\ Len(hashers) \in Nat
    BY <1>1, NewIdIsNumber, LenProperties
  <2> QED BY <2>1
<1>3. b \in BOOLEAN
  OBVIOUS
<1>4. hasher' = [hasher EXCEPT ![n] = g]
  BY DEF Created
<1>5. /\ h \in Hashers /\ h.at = "wait" /\ h.id = NewId /\ h.paused = b /\ h.quit = FALSE
  <2> HIDE DEF b
  <2> QED BY <1>2, <1>3, NewHasherFacts
<1>6. /\ g \in Hashers /\ g.at = "wait" /\ g.id = NewId /\ g.paused = b /\ g.quit = FALSE
  <2> HIDE DEF h
  <2> QED BY <1>5, QueueFacts
<1> HIDE DEF g
<1>7. /\ hasher' \in [Threads -> Hashers] /\ hasher'[n] = g
      /\ \A u \in Threads : u # n => hasher'[u] = hasher[u]
  BY <1>1, <1>4, <1>6
<1>8. /\ hashers' \in Seq(Threads) /\ IsInjective(hashers)' /\ Listed' = Listed \cup {n}
      /\ hashers' # <<>> /\ (hashers # <<>> => hashers'[1] = hashers[1])
      /\ Listed \subseteq Threads
  BY <1>1, AppendListed, ListedFacts DEF ListInv
<1>9. ListInv'
  BY <1>6, <1>7, <1>8 DEF ListInv
<1> QED BY <1>1, <1>6, <1>7, <1>8, <1>9
-----------------------------------------------------------------------------
\* The hashers, the pausers and what is stored.
LEMMA HashStep ==
    ASSUME HashInv, RunInv, [Next]_vars
    PROVE  HashInv'
<1>1. /\ ListInv /\ pausers \in Nat /\ store \subseteq Files /\ down \in BOOLEAN
  BY DEF HashInv
<1>2. ASSUME UNCHANGED <<hashers, hasher>> PROVE ListInv'
  BY <1>1, <1>2 DEF ListInv, IsInjective, Listed
<1>3. ASSUME NEW t \in Threads, HasherStep(t) \/ FileHashed(t) \/ FileFails(t) PROVE HashInv'
  <2>1. Works(t) \/ Hashed(t) \/ HashFails(t)
    BY <1>3 DEF HasherStep, FileHashed, FileFails
  <2>2. ListInv'
    BY <1>1, <2>1, HasherSteps, HasherKeepsList
  <2>3. UNCHANGED <<pausers, down>>
    BY <1>3 DEF HasherStep, FileHashed, FileFails
  <2>4. store' \subseteq Files
    <3>1. CASE Store(t)
      <4>1. hasher[t] \in Hashers /\ hasher[t].at \in HasFile
        BY <1>1, <3>1 DEF ListInv, Store, At, HasFile
      <4>2. hasher[t].cur \in Files
        BY <4>1, HasherFields
      <4> QED BY <1>1, <3>1, <4>2 DEF Store
    <3>2. CASE ~Store(t)
      <4>1. UNCHANGED store
        BY <2>1, <3>2 DEF Works, Wait, Check, Suspend, Take, Hashed, Aborted, HashFails, Finish,
           Leave, Reset
      <4> QED BY <1>1, <4>1
    <3> QED BY <3>1, <3>2
  <2> QED BY <1>1, <2>2, <2>3, <2>4 DEF HashInv
<1>4. ASSUME UNCHANGED hashVars PROVE HashInv'
  BY <1>1, <1>2, <1>4 DEF HashInv, hashVars
<1>5. CASE Find \/ Scan \/ Apply \/ PopTask \/ EndRun \/ TestAndSet \/ StartRun \/ RefreshRoot
  <2>1. UNCHANGED hashVars
    BY <1>5 DEF Find, Scan, Apply, PopTask, EndRun, TestAndSet, StartRun, RefreshRoot
  <2> QED BY <1>4, <2>1
<1>6. CASE (\E dir \in Dirs : Refresh(dir)) \/ Abort \/ RemoveRoot \/ AddRoot \/ Shutdown
  <2>1. UNCHANGED hashVars
    BY <1>6 DEF Refresh, Abort, RemoveRoot, AddRoot, Shutdown
  <2> QED BY <1>4, <2>1
<1>7. CASE NextTask \/ EndPause \/ Pause \/ Resume \/ ShutdownStarts
  <2>1. UNCHANGED <<hashers, hasher, store>>
    BY <1>7 DEF NextTask, EndPause, Pause, Resume, ShutdownStarts
  <2>2. down' \in BOOLEAN
    BY <1>1, <1>7 DEF NextTask, EndPause, Pause, Resume, ShutdownStarts
  <2>3. OneResumes \in Nat /\ pausers + 1 \in Nat
    BY <1>1 DEF OneResumes
  <2>4. \/ pausers' = pausers \/ pausers' = pausers + 1 \/ pausers' = OneResumes \/ pausers' = 0
    BY <1>7 DEF NextTask, EndPause, Pause, Resume, ShutdownStarts
  <2>5. pausers' \in Nat
    BY <1>1, <2>3, <2>4
  <2> QED BY <1>1, <1>2, <2>1, <2>2, <2>5 DEF HashInv
<1>8. CASE PauseHashing \/ UserPauseAll
  <2>1. PauseAll /\ UNCHANGED <<hashers, pausers, store, down>>
    BY <1>8 DEF PauseHashing, UserPauseAll
  <2> QED BY <1>1, <2>1, PauseAllFacts DEF HashInv
<1>9. CASE ResumeHashing \/ UserResumeAll
  <2>1. ResumeAll /\ UNCHANGED <<hashers, pausers, store, down>>
    BY <1>9 DEF ResumeHashing, UserResumeAll
  <2> QED BY <1>1, <2>1, ResumeAllFacts DEF HashInv
<1>10. CASE StopHashingRoot
  <2>1. StopHashing(Files) /\ UNCHANGED <<hashers, pausers, store, down>>
    BY <1>10 DEF StopHashingRoot
  <2> QED BY <1>1, <2>1, StopHashingFacts DEF HashInv
<1>11. CASE StopAll
  <2>1. Stop /\ UNCHANGED <<hashers, pausers, store, down>>
    BY <1>11 DEF StopAll
  <2> QED BY <1>1, <2>1, StopFacts DEF HashInv
<1>12. CASE QuitAll
  <2>1. Each(Quit) /\ UNCHANGED <<hashers, pausers, store, down>>
    BY <1>12 DEF QuitAll
  <2> QED BY <1>1, <2>1, QuitAllFacts DEF HashInv
<1>13. CASE QueueFile
  <2>1. run.file \in Files /\ HashFile(run.file) /\ UNCHANGED <<pausers, store, down>>
    BY <1>13 DEF QueueFile, RunInv
  <2>2. ListInv'
    BY <1>1, <1>2, <2>1, HashFileCases, GivenFacts, CreatedFacts
  <2> QED BY <1>1, <2>1, <2>2 DEF HashInv
<1>14. CASE UNCHANGED vars
  <2>1. UNCHANGED hashVars
    BY <1>14 DEF vars
  <2> QED BY <1>4, <2>1
<1> QED BY <1>3, <1>5, <1>6, <1>7, <1>8, <1>9, <1>10, <1>11, <1>12, <1>13, <1>14 DEF Next, Runs, Calls
-----------------------------------------------------------------------------
(* The refresh, its tasks and the user.                                     *)

\* The task that runs.
LEMMA TaskFacts ==
    ASSUME tasks \in Seq(TaskRecord), tasks # <<>>
    PROVE  /\ Task \in TaskRecord /\ Task.dir \in Dirs
           /\ Tail(tasks) \in Seq(TaskRecord)
<1>1. Head(tasks) \in TaskRecord /\ Tail(tasks) \in Seq(TaskRecord)
  BY HeadTailProperties
<1>2. \A k \in TaskRecord : k.dir \in Dirs
  BY DEF TaskRecord
<1> QED BY <1>1, <1>2 DEF Task

\* What is appended does not change the task that runs,
LEMMA AddTaskFacts ==
    ASSUME tasks \in Seq(TaskRecord), NEW dir \in Dirs, AddTask(dir)
    PROVE  /\ tasks' \in Seq(TaskRecord) /\ user' \in {"ready", "test"}
           /\ tasks # <<>> => tasks' # <<>> /\ Task' = Task
<1> DEFINE new == [dir |-> dir, canceled |-> FALSE]
<1>1. new \in TaskRecord
  BY DEF TaskRecord
<1>2. (user' = "ready" /\ tasks' = tasks) \/ (user' = "test" /\ tasks' = Append(tasks, new))
  BY DEF AddTask
<1> HIDE DEF new
<1>3. Append(tasks, new) \in Seq(TaskRecord) /\ Append(tasks, new) # <<>>
  BY <1>1, AppendProperties
<1>4. ASSUME tasks # <<>> PROVE Head(Append(tasks, new)) = Head(tasks)
  <2>1. Len(tasks) \in Nat \ {0}
    BY <1>4, EmptySeq
  <2>2. Append(tasks, new)[1] = tasks[1]
    BY <1>1, <2>1, AppendProperties
  <2> QED BY <1>3, <1>4, <2>2, HeadTailProperties
<1> QED BY <1>2, <1>3, <1>4 DEF Task

\* ... nor does canceling it change its directory.
LEMMA AbortFacts ==
    ASSUME tasks \in Seq(TaskRecord), AbortRefresh
    PROVE  /\ tasks' \in Seq(TaskRecord)
           /\ tasks # <<>> => tasks' # <<>> /\ (Task.dir)' = Task.dir
<1> DEFINE L == Len(tasks)
<1>1. /\ L \in Nat /\ DOMAIN tasks = 1 .. L /\ \A i \in 1 .. L : tasks[i] \in TaskRecord
  BY LenProperties, ElementOfSeq
<1>2. tasks' = [i \in 1 .. L |-> [tasks[i] EXCEPT !.canceled = TRUE]]
  BY <1>1 DEF AbortRefresh
<1>3. \A i \in 1 .. L : /\ [tasks[i] EXCEPT !.canceled = TRUE] \in TaskRecord
                        /\ [tasks[i] EXCEPT !.canceled = TRUE].dir = tasks[i].dir
  BY <1>1 DEF TaskRecord
<1> HIDE DEF L
<1>4. \A i \in 1 .. L : tasks'[i] \in TaskRecord /\ tasks'[i].dir = tasks[i].dir
  BY <1>2, <1>3
<1>5. tasks' \in [1 .. L -> TaskRecord]
  BY <1>2, <1>4
<1>6. tasks' \in Seq(TaskRecord) /\ Len(tasks') = L
  BY <1>1, <1>5, LenProperties
<1>7. ASSUME tasks # <<>> PROVE tasks' # <<>> /\ (Task.dir)' = Task.dir
  <2>1. L \in Nat \ {0}
    BY <1>7, EmptySeq DEF L
  <2>2. 1 \in 1 .. L
    BY <2>1
  <2>3. tasks' # <<>>
    BY <1>6, <2>1, EmptySeq
  <2>4. Head(tasks) = tasks[1] /\ Head(tasks') = tasks'[1]
    BY <1>6, <1>7, <2>3, HeadTailProperties
  <2> QED BY <1>4, <2>2, <2>3, <2>4 DEF Task
<1> QED BY <1>6, <1>7
-----------------------------------------------------------------------------
\* The fields of the refresh.
LEMMA RunFields ==
    ASSUME RunInv
    PROVE  /\ run.at \in Places /\ run.old \in Nat /\ run.left \subseteq Files
           /\ run.got \subseteq Files /\ run.held \subseteq Files
           /\ run.late \subseteq Threads \X Files /\ run.noted \subseteq Files
           /\ run.pauser \in BOOLEAN
BY DEF RunInv, RunRecord

\* The refresh comes to another place.
LEMMA RunGoesFacts ==
    ASSUME RunInv, NEW at \in Places, RunGoes(at)
    PROVE  /\ run' \in RunRecord /\ run'.at = at /\ run'.old = run.old /\ run'.file = run.file
           /\ run'.got = run.got /\ run'.left = run.left /\ run'.held = run.held
           /\ run'.late = run.late /\ run'.pauser = run.pauser /\ run'.noted = run.noted
BY DEF RunInv, RunRecord, RunGoes

\* ... or ends.
LEMMA NotRunningFacts ==
    /\ NotRunning \in RunRecord /\ NotRunning.at = "idle" /\ NotRunning.pauser = FALSE
    /\ NotRunning.late = {} /\ NotRunning.old = 0
BY DEF NotRunning, RunRecord, Places

\* What the disk holds of a directory.
LEMMA OnDisk ==
    ASSUME RunInv, NEW dir
    PROVE  setup.disk \cap FilesOf(dir) \subseteq Files
<1>1. setup \in [disk : SUBSET Files, stored : SUBSET Files, ops : SUBSET Ops, budget : Nat]
  BY ShareRefreshAssumption DEF RunInv
<1> QED BY <1>1

\* Other steps than those of the refresh leave it where it is.
LEMMA RunStays ==
    ASSUME RunInv, run' \in RunRecord, run'.at = run.at, run'.file = run.file,
           setup' = setup, user' \in UserPlaces, tasks' \in Seq(TaskRecord),
           tasks # <<>> => tasks' # <<>>, tasksRunning' \in BOOLEAN
    PROVE  RunInv'
BY DEF RunInv

\* The tasks and where the refresh and the user are.
LEMMA RunStep ==
    ASSUME BaseInv, [Next]_vars
    PROVE  RunInv'
<1>1. /\ setup \in Setups /\ user \in UserPlaces /\ tasks \in Seq(TaskRecord)
      /\ tasksRunning \in BOOLEAN /\ run \in RunRecord /\ RunInv
      /\ (run.at \in Working => tasks # <<>>)
      /\ tree.files \subseteq Files /\ tree.root \in Nat /\ tree.sub \in Nat
      /\ hasher \in [Threads -> Hashers]
  BY DEF BaseInv, RunInv, TreeInv, TreeOK, TreeRecord, HashInv, ListInv
<1>2. ASSUME UNCHANGED <<setup, run, tasks, tasksRunning>>, user' \in UserPlaces
      PROVE  RunInv'
  BY <1>1, <1>2, RunStays
<1>3. CASE \E t \in Threads : HasherStep(t) \/ FileFails(t)
  <2>1. UNCHANGED <<setup, run, tasks, tasksRunning, user>>
    BY <1>3 DEF HasherStep, FileFails, userVars, taskVars
  <2> QED BY <1>1, <1>2, <2>1
<1>4. ASSUME NEW t \in Threads, FileHashed(t) PROVE RunInv'
  <2>1. /\ UNCHANGED <<setup, tasks, tasksRunning, user>>
        /\ run' = run \/ run' = [run EXCEPT !.late = @ \cup {<<t, hasher[t].cur>>}]
    BY <1>4 DEF FileHashed, userVars, taskVars
  <2>2. hasher[t].cur \in Files
    <3>1. hasher[t] \in Hashers /\ hasher[t].at \in HasFile
      BY <1>1, <1>4 DEF FileHashed, Hashed, At, HasFile
    <3> QED BY <3>1, HasherFields
  <2>3. run' \in RunRecord /\ run'.at = run.at /\ run'.file = run.file
    <3> DEFINE late == run.late \cup {<<t, hasher[t].cur>>}
    <3>1. late \subseteq Threads \X Files
      BY <1>1, <2>2, RunFields
    <3>2. run' = run \/ run' = [run EXCEPT !.late = late]
      BY <2>1
    <3> HIDE DEF late
    <3> QED BY <1>1, <3>1, <3>2 DEF RunRecord
  <2> QED BY <1>1, <2>1, <2>3, RunStays
<1>5. CASE StopAll \/ Pause \/ Resume \/ TestAndSet \/ StopHashingRoot \/ UserPauseAll
             \/ UserResumeAll \/ ShutdownStarts \/ QuitAll \/ AddRoot
  <2>1. UNCHANGED <<setup, run, tasks>>
    BY <1>5 DEF StopAll, Pause, Resume, TestAndSet, StopHashingRoot, UserPauseAll,
       UserResumeAll, ShutdownStarts, QuitAll, AddRoot, taskVars
  <2>2. tasksRunning' \in BOOLEAN /\ user' \in UserPlaces
    BY <1>1, <1>5 DEF StopAll, Pause, Resume, TestAndSet, StopHashingRoot, UserPauseAll,
       UserResumeAll, ShutdownStarts, QuitAll, AddRoot, taskVars, UserPlaces
  <2> QED BY <1>1, <2>1, <2>2, RunStays
<1>6. CASE (\E dir \in Dirs : Refresh(dir)) \/ RefreshRoot
  <2>1. UNCHANGED <<setup, run, tasksRunning>> /\ \E dir \in Dirs : AddTask(dir)
    BY <1>6 DEF Refresh, RefreshRoot, Dirs
  <2> QED BY <1>1, <2>1, AddTaskFacts, RunStays DEF UserPlaces
<1>7. CASE Abort \/ Shutdown
  <2>1. UNCHANGED <<setup, run, tasksRunning>> /\ AbortRefresh /\ user' \in UserPlaces
    BY <1>1, <1>7 DEF Abort, Shutdown, UserPlaces
  <2> QED BY <1>1, <2>1, AbortFacts, RunStays
<1>8. CASE RemoveRoot
  <2>1. UNCHANGED <<setup, tasks, tasksRunning>> /\ user' \in UserPlaces
    BY <1>8 DEF RemoveRoot, taskVars, UserPlaces
  <2>2. run' = run \/ run' = [run EXCEPT !.held = tree.files]
    BY <1>8 DEF RemoveRoot
  <2>3. run' \in RunRecord /\ run'.at = run.at /\ run'.file = run.file
    BY <1>1, <2>2 DEF RunRecord
  <2> QED BY <1>1, <2>1, <2>3, RunStays
<1>9. CASE StartRun
  <2>1. /\ UNCHANGED <<setup, tasks, tasksRunning>> /\ user' \in UserPlaces /\ RunGoes("front")
    BY <1>9 DEF StartRun, taskVars, UserPlaces
  <2>2. run' \in RunRecord /\ run'.at = "front"
    BY <1>1, <2>1, RunGoesFacts DEF Places
  <2> QED BY <1>1, <2>1, <2>2 DEF RunInv, Working
<1>10. ASSUME UNCHANGED <<setup, user>>, tasks' \in Seq(TaskRecord), tasksRunning' \in BOOLEAN,
              run' \in RunRecord, run'.at \in Working => tasks' # <<>>, run'.at # "queue"
       PROVE  RunInv'
  BY <1>1, <1>10 DEF RunInv
<1>11. CASE NextTask
  <2>1. UNCHANGED <<setup, user, tasks, tasksRunning>>
    BY <1>11 DEF NextTask, userVars, taskVars
  <2>2. \/ tasks = <<>> /\ RunGoes("end")
        \/ tasks # <<>> /\ RunGoes("find")
        \/ tasks # <<>> /\ run' = [run EXCEPT !.pauser = TRUE, !.at = "pauseall"]
        \/ tasks # <<>> /\ run' = [run EXCEPT !.pauser = TRUE, !.at = "find"]
    BY <1>11 DEF NextTask
  <2>3. run' \in RunRecord /\ (run'.at = "end" \/ (tasks # <<>> /\ run'.at \in {"find", "pauseall"}))
    BY <1>1, <2>2 DEF RunRecord, RunGoes, Places
  <2> QED BY <1>1, <1>10, <2>1, <2>3 DEF Working
<1>12. CASE PauseHashing
  <2>1. UNCHANGED <<setup, user, tasks, tasksRunning>> /\ RunGoes("find") /\ tasks # <<>>
    BY <1>1, <1>12 DEF PauseHashing, userVars, taskVars, Working
  <2>2. run' \in RunRecord /\ run'.at = "find"
    BY <1>1, <2>1, RunGoesFacts DEF Places
  <2> QED BY <1>1, <1>10, <2>1, <2>2
<1>13. CASE Find
  <2> DEFINE left == setup.disk \cap FilesOf(Task.dir)
             old == IF Task.dir = "root" THEN tree.root ELSE tree.sub
  <2>1. UNCHANGED <<setup, user, tasks, tasksRunning>> /\ tasks # <<>>
    BY <1>1, <1>13 DEF Find, userVars, taskVars, Working
  <2>2. left \subseteq Files /\ old \in Nat
    BY <1>1, OnDisk
  <2>3. \/ run' = [run EXCEPT !.at = "pop"]
        \/ run' = [run EXCEPT !.at = "scan", !.left = left, !.got = {}, !.old = old]
    BY <1>13 DEF Find
  <2> HIDE DEF left, old
  <2>4. run' \in RunRecord /\ run'.at \in {"pop", "scan"}
    BY <1>1, <2>2, <2>3 DEF RunRecord, Places
  <2> QED BY <1>1, <1>10, <2>1, <2>4
<1>14. CASE Scan
  <2>1. UNCHANGED <<setup, user, tasks, tasksRunning>> /\ tasks # <<>>
    BY <1>1, <1>14 DEF Scan, userVars, taskVars, Working
  <2>2. PICK f \in run.left :
          run' = CASE f \in store -> [run EXCEPT !.left = @ \ {f}, !.got = @ \cup {f}]
                   [] f \notin store /\ down -> [run EXCEPT !.left = @ \ {f}]
                   [] OTHER -> [run EXCEPT !.left = @ \ {f}, !.at = "queue", !.file = f]
    BY <1>14 DEF Scan
  <2> DEFINE left == run.left \ {f}
             got == run.got \cup {f}
  <2>3. f \in Files /\ left \subseteq Files /\ got \subseteq Files
    BY <1>1, RunFields
  <2>4. \/ run' = [run EXCEPT !.left = left, !.got = got]
        \/ run' = [run EXCEPT !.left = left]
        \/ run' = [run EXCEPT !.left = left, !.at = "queue", !.file = f]
    BY <2>2
  <2>5. run.at = "scan"
    BY <1>14 DEF Scan
  <2> HIDE DEF left, got
  <2>6. run' \in RunRecord /\ (run'.at = "queue" => run'.file \in Files)
    BY <1>1, <2>3, <2>4, <2>5 DEF RunRecord, Places
  <2> QED BY <1>1, <2>1, <2>6 DEF RunInv
<1>15. CASE QueueFile
  <2> DEFINE noted == run.noted \cup {f \in {run.file} : \E t \in Threads : f \in hasher'[t].work}
  <2>1. UNCHANGED <<setup, user, tasks, tasksRunning>> /\ tasks # <<>> /\ run.file \in Files
    BY <1>1, <1>15 DEF QueueFile, userVars, taskVars, Working, RunInv
  <2>2. run' = [run EXCEPT !.at = "scan", !.file = "none", !.noted = noted]
    BY <1>1, <1>15 DEF QueueFile, RunRecord
  <2>3. noted \subseteq Files
    BY <1>1, <2>1, RunFields
  <2> HIDE DEF noted
  <2>4. run' \in RunRecord /\ run'.at = "scan"
    BY <1>1, <2>2, <2>3 DEF RunRecord, Places
  <2> QED BY <1>1, <1>10, <2>1, <2>4
<1>16. CASE Apply
  <2>1. UNCHANGED <<setup, user, tasks, tasksRunning>> /\ RunGoes("pop") /\ tasks # <<>>
    BY <1>1, <1>16 DEF Apply, userVars, taskVars, Working
  <2>2. run' \in RunRecord /\ run'.at = "pop"
    BY <1>1, <2>1, RunGoesFacts DEF Places
  <2> QED BY <1>1, <1>10, <2>1, <2>2
<1>17. CASE PopTask
  <2>1. UNCHANGED <<setup, user, tasksRunning>> /\ tasks # <<>> /\ tasks' = Tail(tasks)
    BY <1>1, <1>17 DEF PopTask, userVars, Working
  <2>2. run' = [NotRunning EXCEPT !.at = "front", !.pauser = run.pauser]
    BY <1>17 DEF PopTask
  <2>3. run' \in RunRecord /\ run'.at = "front"
    BY <1>1, <2>2, NotRunningFacts, RunFields DEF RunRecord, Places
  <2> QED BY <1>1, <1>10, <2>1, <2>3, TaskFacts DEF Working
<1>18. CASE EndRun \/ EndPause \/ ResumeHashing
  <2>1. UNCHANGED <<setup, user, tasks>> /\ tasksRunning' \in BOOLEAN
    BY <1>1, <1>18 DEF EndRun, EndPause, ResumeHashing, userVars, taskVars
  <2>2. run' = NotRunning \/ RunGoes("resume") \/ RunGoes("idle") \/ RunGoes("resumeall")
    BY <1>18 DEF EndRun, EndPause, ResumeHashing
  <2>3. run' \in RunRecord /\ run'.at \in {"idle", "resume", "resumeall"}
    BY <1>1, <2>2, RunGoesFacts, NotRunningFacts DEF Places
  <2> QED BY <1>1, <1>10, <2>1, <2>3 DEF Working
<1>19. CASE UNCHANGED vars
  <2>1. UNCHANGED <<setup, run, tasks, tasksRunning, user>>
    BY <1>19 DEF vars, userVars, taskVars
  <2> QED BY <1>1, <1>2, <2>1
<1> QED BY <1>3, <1>4, <1>5, <1>6, <1>7, <1>8, <1>9, <1>11, <1>12, <1>13, <1>14, <1>15,
           <1>16, <1>17, <1>18, <1>19 DEF Next, Runs, Calls
-----------------------------------------------------------------------------
(* The tree.                                                                *)

\* The parts of the tree.
LEMMA TreeFields ==
    ASSUME TreeOK
    PROVE  /\ tree.root \in Nat /\ tree.sub \in Nat /\ tree.files \subseteq Files
           /\ Cardinality(tree.files) \in Nat /\ sharedSize \in Nat
<1>1. tree.root \in Nat /\ tree.sub \in Nat /\ tree.files \subseteq Files
  BY DEF TreeOK, TreeRecord
<1> QED BY <1>1, FiniteFiles DEF TreeOK

\* A new object is not in use; there are always enough numbers.
LEMMA NewFacts ==
    ASSUME dirNames = Objects, NEW x, NEW others \in SUBSET {x}
    PROVE  /\ New(others) \in 1 .. 8 /\ New(others) \notin others
           /\ New(others) \notin {tree.root, tree.sub, run.old} \/ New(others) = 0
<1>1. InUse \cup others \subseteq {tree.root, tree.sub, run.old, x}
  BY DEF InUse, Objects
<1>2. \E k \in {1, 2, 3, 4, 5} : k \notin {tree.root, tree.sub, run.old, x}
  OBVIOUS
<1>3. \E k \in 1 .. 8 : k \notin InUse \cup others
  <2>1. {1, 2, 3, 4, 5} \subseteq 1 .. 8
    OBVIOUS
  <2> QED BY <1>1, <1>2, <2>1
<1>4. New(others) \in 1 .. 8 /\ New(others) \notin InUse \cup others
  BY <1>3 DEF New
<1>5. {tree.root, tree.sub, run.old} \subseteq InUse \cup {0}
  BY DEF InUse, Objects
<1> QED BY <1>4, <1>5

\* ... or, as it is used:
LEMMA NewObject ==
    ASSUME dirNames = Objects, NEW x, NEW others \in SUBSET {x}
    PROVE  /\ New(others) \in Nat /\ New(others) # 0 /\ New(others) \notin others
           /\ New(others) # tree.root /\ New(others) # tree.sub
<1>1. /\ New(others) \in 1 .. 8 /\ New(others) \notin others
      /\ New(others) \notin {tree.root, tree.sub, run.old} \/ New(others) = 0
  BY NewFacts
<1>2. New(others) \in Nat /\ New(others) # 0
  BY <1>1
<1> QED BY <1>1, <1>2

\* Steps that leave the tree and what is replaced.
LEMMA TreeStays ==
    ASSUME TreeInv, UNCHANGED <<treeVars, overtaken>>,
           Looking' => Looking /\ run'.old = run.old /\ (Task.dir)' = Task.dir
    PROVE  TreeInv'
<1>1. UNCHANGED <<tree, dirNames, sharedSize, overtaken>>
  BY DEF treeVars
<1>2. TreeOK'
  BY <1>1 DEF TreeInv, TreeOK, Objects
<1>3. OldInv'
  BY <1>1 DEF TreeInv, OldInv
<1> QED BY <1>2, <1>3 DEF TreeInv

\* The tree hears of a file.
LEMMA AddHashedFileStep ==
    ASSUME TreeInv, NEW f \in Files, AddHashedFile(f), UNCHANGED overtaken,
           Looking' => Looking /\ run'.old = run.old /\ (Task.dir)' = Task.dir
    PROVE  TreeInv'
<1>1. CASE tree.root = 0
  BY <1>1, TreeStays DEF AddHashedFile
<1>2. CASE tree.root # 0
  <2> DEFINE sub == IF f \in SubFiles /\ tree.sub = 0 THEN New({}) ELSE tree.sub
             files == tree.files \cup {f}
  <2>1. /\ tree' = [tree EXCEPT !.sub = sub, !.files = files]
        /\ dirNames' = dirNames \cup ({sub} \ {0})
        /\ sharedSize' = Cardinality(files) - Cardinality(tree.files) + sharedSize
    BY <1>2, TreeFields DEF AddHashedFile, TreeInv, TreeOK, TreeRecord
  <2>2. TreeOK
    BY DEF TreeInv
  <2>3. New({}) \in Nat /\ New({}) # 0 /\ New({}) # tree.root
    BY <2>2, NewObject DEF TreeOK
  <2>4. /\ sub \in Nat /\ (tree.sub # 0 => sub = tree.sub) /\ (sub # 0 => sub # tree.root)
        /\ (f \in SubFiles => sub # 0)
    BY <2>2, <2>3, TreeFields DEF TreeOK
  <2>5. files \subseteq Files /\ Cardinality(files) \in Nat /\ Cardinality(tree.files) \in Nat
        /\ tree.root \in Nat
    BY <2>2, TreeFields, FiniteFiles
  <2>6. files \cap SubFiles # {} => sub # 0
    BY <2>2, <2>4 DEF TreeOK
  <2> HIDE DEF sub, files
  <2>7. /\ tree' \in TreeRecord /\ tree'.root = tree.root /\ tree'.sub = sub /\ tree'.files = files
    BY <2>1, <2>2, <2>4, <2>5 DEF TreeOK, TreeRecord
  <2>8. dirNames' = Objects'
    <3>1. dirNames = {tree.root, tree.sub} \ {0}
      BY <2>2 DEF TreeOK, Objects
    <3>2. Objects' = {tree.root, sub} \ {0}
      BY <2>7 DEF Objects
    <3> QED BY <2>1, <2>4, <3>1, <3>2
  <2>9. sharedSize' = Cardinality(tree'.files)
    <3>1. sharedSize = Cardinality(tree.files)
      BY <2>2 DEF TreeOK
    <3> QED BY <2>1, <2>5, <2>7, <3>1
  <2>10. TreeOK'
    BY <1>2, <2>2, <2>4, <2>6, <2>7, <2>8, <2>9 DEF TreeOK
  <2>11. OldInv'
    BY <2>4, <2>7 DEF TreeInv, OldInv
  <2> QED BY <2>10, <2>11 DEF TreeInv
<1> QED BY <1>1, <1>2

\* The new root replaces the old one.
LEMMA ApplyRootStep ==
    ASSUME TreeInv, RunInv, run.at = "scan", Task.dir = "root", ApplyRoot,
           overtaken' \subseteq Files
    PROVE  TreeOK'
<1>1. TreeOK /\ run.got \subseteq Files
  BY RunFields DEF TreeInv
<1>2. CASE run.old = 0 \/ ~StillThere
  <2>1. UNCHANGED <<tree, dirNames, sharedSize>>
    BY <1>2 DEF ApplyRoot, treeVars
  <2> QED BY <1>1, <2>1 DEF TreeOK, Objects
<1>3. CASE ~(run.old = 0 \/ ~StillThere)
  <2>1. tree.root = run.old /\ tree.root # 0
    BY <1>3 DEF TreeInv, OldInv, Looking, StillThere
  <2> DEFINE root == New({})
             sub == IF run.got \cap SubFiles = {} THEN 0 ELSE New({root})
  <2>2. /\ tree' = [root |-> root, sub |-> sub, files |-> run.got]
        /\ dirNames' = ((dirNames \ Objects) \cup {root, sub}) \ {0}
        /\ sharedSize' = sharedSize + Cardinality(run.got) - Cardinality(tree.files)
    BY <1>3, <2>1 DEF ApplyRoot
  <2>3. root \in Nat /\ root # 0
    BY <1>1, NewObject DEF TreeOK
  <2>4. New({root}) \in Nat /\ New({root}) # 0 /\ New({root}) # root
    <3> HIDE DEF root
    <3> QED BY <1>1, NewObject DEF TreeOK
  <2>5. /\ sub \in Nat /\ (sub # 0 => sub # root) /\ (run.got \cap SubFiles # {} => sub # 0)
    BY <2>4
  <2> HIDE DEF root, sub
  <2>6. tree' \in TreeRecord /\ tree'.root = root /\ tree'.sub = sub /\ tree'.files = run.got
    BY <1>1, <2>2, <2>3, <2>5 DEF TreeRecord
  <2>7. dirNames' = Objects'
    <3>1. dirNames \ Objects = {}
      BY <1>1 DEF TreeOK
    <3> QED BY <2>2, <2>6, <3>1 DEF Objects
  <2>8. sharedSize' = Cardinality(tree'.files)
    <3>1. sharedSize = Cardinality(tree.files)
      BY <1>1 DEF TreeOK
    <3>2. Cardinality(tree.files) \in Nat /\ Cardinality(run.got) \in Nat
      BY <1>1, TreeFields, FiniteFiles
    <3> QED BY <2>2, <2>6, <3>1, <3>2
  <2> QED BY <2>3, <2>5, <2>6, <2>7, <2>8 DEF TreeOK
<1> QED BY <1>2, <1>3

\* The new directory replaces the old one, or is put where none is.
LEMMA ApplySubStep ==
    ASSUME TreeInv, RunInv, run.at = "scan", Task.dir # "root", ApplySub,
           overtaken' \subseteq Files
    PROVE  TreeOK'
<1> DEFINE kept == IF run.old = 0 THEN tree.files ELSE tree.files \ SubFiles
           put == run.got # {} /\ tree.root # 0 /\ (run.old = 0 => tree.sub = 0)
           sub == IF put THEN New({}) ELSE IF run.old = 0 THEN tree.sub ELSE 0
           files == IF put THEN kept \cup run.got ELSE kept
<1>1. TreeOK /\ run.got \subseteq Files /\ tree \in TreeRecord /\ dirNames = Objects
  BY RunFields DEF TreeInv, TreeOK
<1>2. /\ tree' = [tree EXCEPT !.sub = sub, !.files = files]
      /\ dirNames' = ((IF run.old = 0 THEN dirNames ELSE dirNames \ {run.old}) \cup {sub}) \ {0}
      /\ sharedSize' = sharedSize + Cardinality(tree'.files) - Cardinality(tree.files)
  BY DEF ApplySub
<1>3. New({}) \in Nat /\ New({}) # 0 /\ New({}) # tree.root
  BY <1>1, NewObject
<1>4. run.old # 0 => tree.root # 0 /\ tree.sub = run.old /\ tree.sub # tree.root
  BY <1>1 DEF TreeInv, TreeOK, OldInv, Looking
<1>5. /\ sub \in Nat /\ files \subseteq Files /\ (sub # 0 => sub # tree.root)
      /\ (files \cap SubFiles # {} => sub # 0)
  <2>1. kept \subseteq Files /\ (run.old # 0 => kept \cap SubFiles = {})
    BY <1>1, TreeFields
  <2>2. tree.files \cap SubFiles # {} => tree.sub # 0
    BY <1>1 DEF TreeOK
  <2>3. tree.sub # 0 => tree.sub # tree.root
    BY <1>1 DEF TreeOK
  <2>4. CASE put
    BY <1>1, <1>3, <2>1, <2>4
  <2>5. CASE ~put
    BY <1>1, <2>1, <2>2, <2>3, <2>5, TreeFields
  <2> QED BY <2>4, <2>5
<1>6. tree.root = 0 => sub = 0 /\ files = {}
  BY <1>1, <1>4 DEF TreeOK, NoTree
<1>7. {tree.root, sub} \ {0} =
        ((IF run.old = 0 THEN dirNames ELSE dirNames \ {run.old}) \cup {sub}) \ {0}
  <2>1. dirNames = {tree.root, tree.sub} \ {0}
    BY <1>1 DEF Objects
  <2>2. CASE run.old = 0
    <3>1. sub = tree.sub \/ tree.sub = 0
      BY <2>2
    <3> HIDE DEF sub
    <3> QED BY <2>1, <2>2, <3>1
  <2>3. CASE run.old # 0
    <3> HIDE DEF sub
    <3> QED BY <1>4, <2>1, <2>3
  <2> QED BY <2>2, <2>3
<1> HIDE DEF sub, files
<1>8. tree' \in TreeRecord /\ tree'.root = tree.root /\ tree'.sub = sub /\ tree'.files = files
  BY <1>1, <1>2, <1>5 DEF TreeRecord
<1>9. dirNames' = Objects'
  BY <1>2, <1>7, <1>8 DEF Objects
<1>10. sharedSize' = Cardinality(tree'.files)
  <2>1. sharedSize = Cardinality(tree.files)
    BY <1>1 DEF TreeOK
  <2>2. Cardinality(tree.files) \in Nat /\ Cardinality(files) \in Nat
    BY <1>1, <1>5, TreeFields, FiniteFiles
  <2> QED BY <1>2, <1>8, <2>1, <2>2
<1>11. tree'.root = 0 => tree' = NoTree
  BY <1>6, <1>8 DEF TreeRecord, NoTree
<1> QED BY <1>5, <1>8, <1>9, <1>10, <1>11 DEF TreeOK
-----------------------------------------------------------------------------
\* The tree, its indices and its size, unless the root is added again during its own refresh.
LEMMA TreeStep ==
    ASSUME "readd" \notin Mishaps, BaseInv, [Next]_vars
    PROVE  TreeInv'
<1>1. /\ TreeInv /\ RunInv /\ HashInv /\ TreeOK /\ OldInv
      /\ tasks \in Seq(TaskRecord) /\ run \in RunRecord /\ overtaken \subseteq Files
      /\ (Looking => tasks # <<>>)
  BY DEF BaseInv, TreeInv, RunInv, TreeOK, Looking, Working
<1>2. CASE \E t \in Threads : HasherStep(t) \/ FileFails(t)
  <2>1. UNCHANGED <<treeVars, overtaken, run, tasks>>
    BY <1>2 DEF HasherStep, FileFails, taskVars
  <2> QED BY <1>1, <2>1, TreeStays DEF Looking, Task
<1>3. ASSUME NEW t \in Threads, FileHashed(t) PROVE TreeInv'
  <2>1. /\ AddHashedFile(hasher[t].cur) /\ UNCHANGED <<overtaken, tasks>>
        /\ run' = run \/ run' = [run EXCEPT !.late = @ \cup {<<t, hasher[t].cur>>}]
    BY <1>3 DEF FileHashed, taskVars
  <2>2. run'.at = run.at /\ run'.old = run.old
    BY <1>1, <2>1 DEF RunRecord
  <2>3. hasher[t].cur \in Files
    <3>1. hasher[t] \in Hashers /\ hasher[t].at \in HasFile
      BY <1>1, <1>3 DEF FileHashed, Hashed, At, HasFile, HashInv, ListInv
    <3> QED BY <3>1, HasherFields
  <2> QED BY <1>1, <2>1, <2>2, <2>3, AddHashedFileStep DEF Looking, Task
<1>4. CASE StopAll \/ Pause \/ Resume \/ TestAndSet \/ StopHashingRoot \/ UserPauseAll
             \/ UserResumeAll \/ ShutdownStarts \/ QuitAll
  <2>1. UNCHANGED <<treeVars, overtaken, run, tasks>>
    BY <1>4 DEF StopAll, Pause, Resume, TestAndSet, StopHashingRoot, UserPauseAll,
       UserResumeAll, ShutdownStarts, QuitAll, taskVars
  <2> QED BY <1>1, <2>1, TreeStays DEF Looking, Task
<1>5. CASE (\E dir \in Dirs : Refresh(dir)) \/ RefreshRoot
  <2>1. UNCHANGED <<treeVars, overtaken, run>> /\ \E dir \in Dirs : AddTask(dir)
    BY <1>5 DEF Refresh, RefreshRoot, Dirs
  <2>2. tasks # <<>> => Task' = Task
    BY <1>1, <2>1, AddTaskFacts
  <2> QED BY <1>1, <2>1, <2>2, TreeStays DEF Looking
<1>6. CASE Abort \/ Shutdown
  <2>1. UNCHANGED <<treeVars, overtaken, run>> /\ AbortRefresh
    BY <1>6 DEF Abort, Shutdown
  <2>2. tasks # <<>> => (Task.dir)' = Task.dir
    BY <1>1, <2>1, AbortFacts
  <2> QED BY <1>1, <2>1, <2>2, TreeStays DEF Looking
<1>7. CASE StartRun \/ NextTask \/ PauseHashing \/ PopTask \/ EndRun \/ EndPause
             \/ ResumeHashing
  <2>1. UNCHANGED <<treeVars, overtaken>>
    BY <1>7 DEF StartRun, NextTask, PauseHashing, PopTask, EndRun, EndPause, ResumeHashing
  <2>2. run'.at \notin {"scan", "queue"}
    BY <1>1, <1>7, NotRunningFacts DEF StartRun, NextTask, PauseHashing, PopTask, EndRun,
       EndPause, ResumeHashing, RunGoes, RunRecord
  <2> QED BY <1>1, <2>1, <2>2, TreeStays DEF Looking
<1>8. CASE Scan \/ QueueFile
  <2>1. UNCHANGED <<treeVars, overtaken, tasks>> /\ Looking
    BY <1>8 DEF Scan, QueueFile, taskVars, Looking
  <2>2. run'.old = run.old
    BY <1>1, <1>8 DEF Scan, QueueFile, RunRecord
  <2> QED BY <1>1, <2>1, <2>2, TreeStays DEF Task
<1>9. CASE Find
  <2> DEFINE old == IF Task.dir = "root" THEN tree.root ELSE tree.sub
  <2>1. UNCHANGED <<tree, dirNames, sharedSize, overtaken, tasks>>
    BY <1>9 DEF Find, taskVars, treeVars
  <2>2. run'.at = "pop" \/ (run'.at = "scan" /\ run'.old = old)
    BY <1>1, <1>9 DEF Find, RunRecord
  <2>3. TreeOK'
    BY <1>1, <2>1 DEF TreeOK, Objects
  <2>4. OldInv'
    <3>1. tree.root = 0 => tree.sub = 0
      BY <1>1 DEF TreeOK, NoTree
    <3> QED BY <2>1, <2>2, <3>1 DEF OldInv, Looking, Task
  <2> QED BY <2>3, <2>4 DEF TreeInv
<1>10. CASE Apply
  <2>1. run.at = "scan" /\ RunGoes("pop") /\ tasks # <<>>
    BY <1>1, <1>10 DEF Apply, Looking
  <2>2. run'.at = "pop"
    BY <1>1, <2>1 DEF RunGoes, RunRecord
  <2>3. CASE Task.canceled
    <3>1. UNCHANGED <<treeVars, overtaken>>
      BY <1>10, <2>3 DEF Apply
    <3> QED BY <1>1, <2>2, <3>1, TreeStays DEF Looking
  <2>4. CASE ~Task.canceled
    <3>1. /\ Task.dir = "root" => ApplyRoot
          /\ Task.dir # "root" => ApplySub
          /\ overtaken' = (overtaken \cup Lost) \ tree'.files
      BY <1>10, <2>4 DEF Apply
    <3>2. overtaken' \subseteq Files
      <4>1. Lost \subseteq Files
        BY <1>1, TreeFields, RunFields DEF Lost
      <4> QED BY <1>1, <3>1, <4>1
    <3>3. TreeOK'
      BY <1>1, <2>1, <3>1, <3>2, ApplyRootStep, ApplySubStep
    <3> QED BY <2>2, <3>3 DEF TreeInv, OldInv, Looking
  <2> QED BY <2>3, <2>4
<1>11. CASE RemoveRoot
  <2>1. /\ tree' = NoTree /\ dirNames' = dirNames \ Objects
        /\ sharedSize' = sharedSize - Cardinality(tree.files)
        /\ UNCHANGED <<overtaken, tasks>>
        /\ Looking => Task.dir = "root" \/ run.old = 0
        /\ run' = run \/ run' = [run EXCEPT !.held = tree.files]
    BY <1>11 DEF RemoveRoot, taskVars, Looking
  <2>2. run'.at = run.at /\ run'.old = run.old
    BY <1>1, <2>1 DEF RunRecord
  <2>3. NoTree \in TreeRecord /\ NoTree.root = 0 /\ NoTree.sub = 0 /\ NoTree.files = {}
    BY DEF NoTree, TreeRecord
  <2>4. sharedSize' = Cardinality(tree'.files)
    <3>1. Cardinality(tree.files) \in Nat /\ sharedSize = Cardinality(tree.files)
      BY <1>1, TreeFields DEF TreeOK
    <3> QED BY <2>1, <2>3, <3>1, FS_EmptySet
  <2>5. dirNames' = Objects'
    BY <1>1, <2>1, <2>3 DEF TreeOK, Objects
  <2>6. TreeOK'
    BY <1>1, <2>1, <2>3, <2>4, <2>5 DEF TreeOK
  <2>7. OldInv'
    BY <2>1, <2>2, <2>3 DEF OldInv, Looking, Task
  <2> QED BY <2>6, <2>7 DEF TreeInv
<1>12. CASE AddRoot
  <2> DEFINE new == New({})
  <2>1. /\ tree' = [NoTree EXCEPT !.root = new] /\ dirNames' = dirNames \cup {new}
        /\ UNCHANGED <<overtaken, tasks, run, sharedSize>> /\ run.old = 0 /\ tree = NoTree
    BY <1>1, <1>12 DEF AddRoot, taskVars, Misfortune, TreeOK
  <2>2. new \in Nat /\ new # 0
    BY <1>1, NewObject DEF TreeOK
  <2> HIDE DEF new
  <2>3. tree' \in TreeRecord /\ tree'.root = new /\ tree'.sub = 0 /\ tree'.files = {}
    BY <2>1, <2>2 DEF NoTree, TreeRecord
  <2>4. dirNames' = Objects' /\ sharedSize' = Cardinality(tree'.files)
    BY <1>1, <2>1, <2>2, <2>3 DEF TreeOK, Objects, NoTree
  <2>5. TreeOK'
    BY <1>1, <2>1, <2>2, <2>3, <2>4 DEF TreeOK
  <2> QED BY <2>1, <2>5 DEF TreeInv, OldInv
<1>13. CASE UNCHANGED vars
  <2>1. UNCHANGED <<treeVars, overtaken, run, tasks>>
    BY <1>13 DEF vars, taskVars
  <2> QED BY <1>1, <2>1, TreeStays DEF Looking, Task
<1> QED BY <1>2, <1>3, <1>4, <1>5, <1>6, <1>7, <1>8, <1>9, <1>10, <1>11, <1>12, <1>13
        DEF Next, Runs, Calls
-----------------------------------------------------------------------------
\* At the beginning there is the main hasher and an empty root.
LEMMA InitBase ==
    ASSUME Init
    PROVE  BaseInv
<1>1. /\ setup \in Setups /\ user = "ready" /\ HashInit(setup.stored)
      /\ tree = [NoTree EXCEPT !.root = 1] /\ dirNames = {1} /\ sharedSize = 0
      /\ tasks = <<>> /\ tasksRunning = FALSE /\ run = NotRunning /\ overtaken = {}
  BY DEF Init
<1>2. HashInv
  <2>1. /\ hashers = <<Main>>
        /\ hasher = [t \in Threads |-> IF t = Main THEN Hasher(0, FALSE) ELSE NoHasher]
        /\ pausers = 0 /\ store = setup.stored /\ down = FALSE
    BY <1>1 DEF HashInit
  <2>2. Main \in Threads
    BY HashingAssumption DEF Main
  <2>3. /\ Hasher(0, FALSE) \in Hashers /\ Hasher(0, FALSE).at = "wait" /\ NoHasher \in Hashers
    BY NewHasherFacts, NoHasherFacts
  <2>4. hasher \in [Threads -> Hashers] /\ hasher[Main].at = "wait"
    BY <2>1, <2>2, <2>3
  <2>5. hashers \in Seq(Threads) /\ Len(hashers) = 1 /\ hashers[1] = Main
    BY <2>1, <2>2
  <2>6. DOMAIN hashers = 1 .. 1
    BY <2>5, LenProperties
  <2>7. IsInjective(hashers)
    BY <2>6 DEF IsInjective
  <2>8. Listed = {Main}
    BY <2>5, <2>6 DEF Listed, ToSet
  <2>9. store \subseteq Files
    BY <1>1, <2>1, ShareRefreshAssumption
  <2> QED BY <2>1, <2>4, <2>5, <2>7, <2>8, <2>9 DEF HashInv, ListInv
<1>3. RunInv
  <2>1. <<>> \in Seq(TaskRecord)
    OBVIOUS
  <2> QED BY <1>1, <2>1, NotRunningFacts DEF RunInv, UserPlaces, Working
<1>4. TreeInv
  <2>1. tree \in TreeRecord /\ tree.root = 1 /\ tree.sub = 0 /\ tree.files = {}
    BY <1>1 DEF NoTree, TreeRecord
  <2>2. TreeOK
    <3>1. dirNames = Objects
      BY <1>1, <2>1 DEF Objects
    <3>2. sharedSize = Cardinality(tree.files)
      BY <1>1, <2>1, FS_EmptySet
    <3> QED BY <1>1, <2>1, <3>1, <3>2 DEF TreeOK
  <2>3. ~Looking
    BY <1>1, NotRunningFacts DEF Looking
  <2> QED BY <2>2, <2>3 DEF TreeInv, OldInv
<1> QED BY <1>2, <1>3, <1>4 DEF BaseInv

\* The list of the hashers, the place of the refresh and the tree, in every state, unless
\* a root is added again during its own refresh (ShareTree.cpp:457).
THEOREM ShareInvariant ==
    ASSUME "readd" \notin Mishaps
    PROVE  Spec => []BaseInv
<1>1. Init => BaseInv
  BY InitBase
<1>2. BaseInv /\ [Next]_vars => BaseInv'
  BY HashStep, RunStep, TreeStep DEF BaseInv
<1> QED BY <1>1, <1>2, PTL DEF Spec

\* The invariant implies the types.
LEMMA BaseTypes ==
    ASSUME BaseInv
    PROVE  TypeOK
<1>1. /\ ListInv /\ pausers \in Nat /\ store \subseteq Files /\ down \in BOOLEAN
      /\ tree \in TreeRecord /\ TreeOK /\ RunInv /\ overtaken \subseteq Files
      /\ dirNames = Objects
  BY DEF BaseInv, HashInv, TreeInv, TreeOK
<1>2. Listed \subseteq Threads /\ IsInjective(hashers)
  BY <1>1, ListedFacts DEF ListInv
<1>3. ASSUME NEW t \in Threads
      PROVE  /\ hasher[t].at \in Points /\ hasher[t].work \subseteq Files /\ hasher[t].signals \in Nat
             /\ hasher[t].cur \in IF hasher[t].at \in HasFile THEN Files ELSE {"none"}
             /\ hasher[t].devices \in [Devices -> Nat]
             /\ At(t, "none") => hasher[t] = NoHasher
  <2>1. hasher[t] \in Hashers
    BY <1>1 DEF ListInv
  <2> QED BY <2>1, HasherFields DEF At
<1>4. sharedSize \in Int /\ dirNames \subseteq Nat
  BY <1>1, TreeFields DEF Objects
<1>5. run.got \cup run.left \cup overtaken \subseteq Files
  BY <1>1, RunFields
<1> QED BY <1>1, <1>2, <1>3, <1>4, <1>5
        DEF TypeOK, Points, HasFile, TreeRecord, RunInv, TaskRecord

\* Types: who hashes has a file, and who does not run has no work; the count of pausers
\* never falls below zero (HashManager.cpp:414).
THEOREM TypeCorrect ==
    ASSUME "readd" \notin Mishaps
    PROVE  Spec => []TypeOK
<1>1. BaseInv => TypeOK
  BY BaseTypes
<1> QED BY <1>1, ShareInvariant, PTL

\* Whatever is removed, hashed and canceled while a directory is replaced, the indices
\* and the size say what the tree has (ShareTree.cpp:457).
THEOREM IndexIsExact ==
    ASSUME "readd" \notin Mishaps
    PROVE  Spec => []IndexExact
<1>1. BaseInv => IndexExact
  BY DEF BaseInv, TreeInv, TreeOK, IndexExact
<1> QED BY <1>1, ShareInvariant, PTL
=============================================================================
