------------------------------ MODULE Hashing ------------------------------
(* HashManager and its hashers: threads that hash files one after another.   *)
(*                                                                           *)
(* Hasher::hcs guards the list of hashers and their queues; every step below *)
(* that holds it is one step. The flags paused, stopping and isShutdown, and *)
(* the count of pausers, are read and written without it.                    *)
EXTENDS Integers, FiniteSets, Sequences, SequencesExt

CONSTANTS
    Files,
    Threads,     \* hashers that exist at a time
    Devices,
    DeviceOf,    \* file -> device
    MaxThreads,  \* SETTING(MAX_HASHING_THREADS)
    PerVolume    \* SETTING(HASHERS_PER_VOLUME), 0 without a limit

ASSUME HashingAssumption ==
    /\ IsFiniteSet(Files) /\ DeviceOf \in [Files -> Devices]
    /\ Threads # {} /\ "new" \notin Threads /\ MaxThreads \in Nat \ {0} /\ PerVolume \in Nat

VARIABLES
    hashers,  \* the list of the manager
    hasher,   \* thread -> Hasher
    pausers,
    store,    \* files whose hash is stored
    down      \* HashManager::isShutdown

hashVars == <<hashers, hasher, pausers, store, down>>

NoHasher == [id |-> 0, at |-> "none", work |-> {}, signals |-> 0, cur |-> "none",
             devices |-> [d \in Devices |-> 0],
             paused |-> FALSE, stopping |-> FALSE, quit |-> FALSE]
Hasher(id, paused) == [NoHasher EXCEPT !.id = id, !.at = "wait", !.paused = paused]

Main == CHOOSE t \in Threads : TRUE
HashInit(stored) ==
    /\ hashers = <<Main>>
    /\ hasher = [t \in Threads |-> IF t = Main THEN Hasher(0, FALSE) ELSE NoHasher]
    /\ pausers = 0 /\ store = stored /\ down = FALSE

Listed == ToSet(hashers)
\* Every listed hasher becomes what F makes of it.
Each(F(_)) == hasher' = [t \in Threads |-> IF t \in Listed THEN F(hasher[t]) ELSE hasher[t]]

-----------------------------------------------------------------------------
(* Files to hash *)

\* A file that waits for a hasher; one that is being hashed is taken again.
Waiting(f) == \E t \in Listed : f \in hasher[t].work
\* (Mutant: what is being hashed is queued, too.)
PathQueuedOrHashed(f) == \E t \in Listed : f \in hasher[t].work \cup {hasher[t].cur}
PathQueued(f) == Waiting(f)

Busy(h) == \E d \in Devices : h.devices[d] > 0
Queue(h, f) == [h EXCEPT !.work = @ \cup {f}, !.signals = @ + 1, !.devices[DeviceOf[f]] = @ + 1]

\* createHasher: the first number that the list does not have at its place.
NewId == CHOOSE n \in 0 .. Len(hashers) :
            /\ \A i \in 1 .. n : hasher[hashers[i]].id = i - 1
            /\ n < Len(hashers) => hasher[hashers[n + 1]].id # n
\* (Mutant: a new hasher starts to hash.)
NewHasherRuns == Hasher(NewId, FALSE)
NewHasher == Hasher(NewId, pausers > 0)

\* getFileHasher; the least loaded one, and a small load, are any.
SomeHasher(f) ==
    LET volume == {t \in Listed : hasher[t].devices[DeviceOf[f]] > 0}
        full == Len(hashers) >= MaxThreads
    IN IF volume = {} THEN IF full THEN Listed ELSE {"new"}
       ELSE IF full \/ (Cardinality(volume) >= PerVolume /\ PerVolume > 0) THEN volume
       ELSE volume \cup {"new"}

\* hashFile, with the lock.
HashFile(f) ==
    \/ PathQueued(f) /\ UNCHANGED <<hashers, hasher>>
    \/ /\ ~PathQueued(f)
       /\ \E t \in IF Len(hashers) = 1 /\ ~Busy(hasher[hashers[1]]) THEN Listed ELSE SomeHasher(f) :
            IF t # "new"
            THEN hasher' = [hasher EXCEPT ![t] = Queue(@, f)] /\ UNCHANGED hashers
            ELSE \E n \in {n \in Threads \ Listed : hasher[n] = NoHasher} :
                 /\ hashers' = Append(hashers, n)
                 /\ hasher' = [hasher EXCEPT ![n] = Queue(NewHasher, f)]

\* removeDevice, n times: a device that is not there is left alone.
Less(count, n) == IF count > n THEN count - n ELSE 0

\* stopHashing: files of a directory are not hashed any more.
Without(h, F) ==
    [h EXCEPT !.work = @ \ F,
              !.devices = [d \in Devices |->
                    Less(@[d], Cardinality({f \in h.work \cap F : DeviceOf[f] = d}))]]
StopHashing(F) == Each(LAMBDA h : Without(h, F))

-----------------------------------------------------------------------------
(* Pausing and stopping *)

Stopped(h) == [h EXCEPT !.work = {}, !.devices = [d \in Devices |-> 0], !.stopping = TRUE]
Resumed(h) == [h EXCEPT !.paused = FALSE, !.at = IF @ = "asleep" THEN "awake" ELSE @]

PauseAll == Each(LAMBDA h : [h EXCEPT !.paused = TRUE])
ResumeAll == Each(Resumed)
Stop == Each(Stopped)

\* One pauser less.
\* (Mutant: more may resume than have paused.)
OneResumesAnyway == pausers - 1
OneResumes == IF pausers > 0 THEN pausers - 1 ELSE 0

\* (Mutant: a hasher that waits is not woken up.)
QuitSilently(h) == [(IF h.paused THEN Resumed(Stopped(h)) ELSE Stopped(h)) EXCEPT !.quit = TRUE]
\* Hasher::shutdown
Quit(h) == [(IF h.paused THEN Resumed(Stopped(h)) ELSE Stopped(h))
              EXCEPT !.quit = TRUE, !.signals = @ + 1]

-----------------------------------------------------------------------------
(* A hasher: run() and processQueue() *)

At(t, at) == hasher[t].at = at
Becomes(t, h) == hasher' = [hasher EXCEPT ![t] = h] /\ UNCHANGED hashers
Goes(t, at) == Becomes(t, [hasher[t] EXCEPT !.at = at])

Wait(t) ==
    /\ At(t, "wait") /\ hasher[t].signals > 0
    /\ Becomes(t, [hasher[t] EXCEPT !.at = "check", !.signals = @ - 1])
    /\ UNCHANGED store

\* instantPause, then a look whether to stop.
Check(t) ==
    /\ hasher[t].at \in {"check", "awake"}
    /\ Goes(t, IF hasher[t].paused /\ At(t, "check") THEN "suspend"
               ELSE IF hasher[t].stopping THEN "leave" ELSE "take")
    /\ UNCHANGED store

\* t_suspend: whoever resumed it before is not remembered.
Suspend(t) == At(t, "suspend") /\ Goes(t, "asleep") /\ UNCHANGED store

\* The file that comes first; which one is left open.
Take(t) ==
    /\ At(t, "take")
    /\ IF hasher[t].work = {} THEN Goes(t, "leave")
       ELSE \E f \in hasher[t].work :
              Becomes(t, [hasher[t] EXCEPT !.at = "hash", !.cur = f, !.work = @ \ {f}])
    /\ UNCHANGED store

\* hashFile: the listeners hear of the file (FileHashed) before its hash is stored.
Hashed(t) ==
    /\ At(t, "hash") /\ ~hasher[t].stopping
    /\ Goes(t, "store") /\ UNCHANGED store
Store(t) ==
    /\ At(t, "store")
    /\ store' = store \cup {hasher[t].cur} /\ Goes(t, "finish")
Aborted(t) == At(t, "hash") /\ hasher[t].stopping /\ Goes(t, "finish") /\ UNCHANGED store
HashFails(t) == At(t, "hash") /\ Goes(t, "finish") /\ UNCHANGED store

Finish(t) ==
    /\ At(t, "finish")
    /\ LET d == DeviceOf[hasher[t].cur] IN
       Becomes(t, [hasher[t] EXCEPT !.at = "check", !.cur = "none",
                                    !.devices[d] = Less(@, 1)])
    /\ UNCHANGED store

\* removeHasher: those of a number are erased from the list, the others keep their order.
Erase(id) ==
    LET kept == {i \in DOMAIN hashers : hasher[hashers[i]].id # id} IN
    \E place \in [1 .. Cardinality(kept) -> kept] :
        /\ ToSet(place) = kept
        /\ \A i, j \in DOMAIN place : i < j => place[i] < place[j]
        /\ hashers' = [i \in DOMAIN place |-> hashers[place[i]]]

\* Out of work: a hasher ends, unless it is the main one.
Leave(t) ==
    /\ At(t, "leave")
    /\ IF hasher[t].quit \/ (hasher[t].work = {} /\ hasher[t].id # 0)
       THEN /\ Erase(hasher[t].id)
            /\ hasher' = [hasher EXCEPT ![t] = NoHasher]
       ELSE Goes(t, "reset")
    /\ UNCHANGED store
Reset(t) ==
    /\ At(t, "reset")
    /\ Becomes(t, [hasher[t] EXCEPT !.at = "wait", !.stopping = FALSE])
    /\ UNCHANGED store

\* What a hasher does by itself.
Works(t) ==
    \/ Wait(t) \/ Check(t) \/ Suspend(t) \/ Take(t) \/ Store(t) \/ Aborted(t)
    \/ Finish(t) \/ Leave(t) \/ Reset(t)
=============================================================================
