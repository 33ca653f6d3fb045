---------------------------- MODULE UploadSlots ----------------------------
(* Who may upload: UploadManager's slots and UploadQueueManager's queue of   *)
(* waiting users.                                                            *)
(*                                                                           *)
(* Threads: every connection has a socket thread of its own; the timer       *)
(* thread hands out slots that got free to the queue. slotCS is held by the  *)
(* connection whose slot is being assigned; UploadManager::cs and the lock   *)
(* of the queue are held within a step. The counters runningUsers, extra and *)
(* smallFileConnections are bytes that connections change without a common   *)
(* lock when they end, so their ++ and -- are a read and a write.            *)
EXTENDS Naturals, FiniteSets, Sequences, SequencesExt

CONSTANTS
    Users, Conns,
    NormalFiles,  \* need an upload slot
    FileLists,    \* may be sent with a minislot
    SmallFiles,   \* may be sent with a small slot or a minislot
    ExtraSlots,   \* SETTING(EXTRA_SLOTS)
    MaxSmall,     \* small slots in use that still allow another one
    PerUser,      \* getSlotsPerUser(), 0 without a limit
    Setups,       \* the slots, who connects and what they want
    Mishaps       \* what may happen besides

Files == NormalFiles \cup FileLists \cup SmallFiles

\* slots: getSlots(); auto: getMaxAutoOpened(), 0 when the speed opens no slots;
\* mcn: users that support several connections; owner: of a connection; perk: what
\* the hooks grant a user, and operators.
ASSUME UploadSlotsAssumption ==
    /\ IsFiniteSet(Users) /\ IsFiniteSet(Conns) /\ "free" \notin Conns
    /\ NormalFiles \cap FileLists = {} /\ Files \ SmallFiles = NormalFiles \cup FileLists
    /\ {ExtraSlots, MaxSmall, PerUser} \subseteq 0 .. 255
    /\ Setups \subseteq [slots : 0 .. 255, auto : 0 .. 255, mcn : SUBSET Users, owner : [Conns -> Users],
                         wants : [Users -> SUBSET Files],
                         perk : [Users -> {"none", "slot", "fileslot", "operator"}],
                         mishaps : Nat]

VARIABLES
    setup,     \* one of Setups
    wants,     \* user -> the files he has not got yet
    online,
    conns,     \* UserConnection
    slotCS,    \* the connection that holds slotCS, or "free"
    count,     \* runningUsers, extra and smallFileConnections
    multi,     \* multiUploads, 0 for a user without an entry
    mcnConns,  \* mcnConnections
    queue,     \* uploadQueue
    notified,  \* notifiedUsers
    timer,     \* the free slots the timer has read
    mishaps

slotVars == <<count, multi, mcnConns>>
queueVars == <<queue, notified, timer>>
remoteVars == <<setup, wants, online>>
vars == <<remoteVars, conns, slotCS, slotVars, queueVars, mishaps>>

\* Not a byte: nothing has been read.
NotRead == 256
UserSlots == {"standard", "granted"}
NoConn == [at |-> "none", slot |-> "none", next |-> "none", file |-> "none",
           reg |-> NotRead, closing |-> FALSE]

Slots == setup.slots
AutoOpened == setup.auto
Owner(c) == setup.owner[c]
Mcn(c) == Owner(c) \in setup.mcn
ConnsOf(u) == {c \in Conns : Owner(c) = u}

Init ==
    /\ setup \in Setups
    /\ wants = setup.wants /\ online = Users
    /\ conns = [c \in Conns |-> NoConn] /\ slotCS = "free"
    /\ count = [k \in {"running", "extra", "small"} |-> 0]
    /\ multi = [u \in Users |-> 0] /\ mcnConns = 0
    /\ queue = <<>> /\ notified = {} /\ timer = NotRead /\ mishaps = 0

Misfortune(kind) ==
    /\ kind \in Mishaps /\ mishaps < setup.mishaps
    /\ mishaps' = mishaps + 1

Goes(c, at) == conns' = [conns EXCEPT ![c].at = at]

-----------------------------------------------------------------------------
(* Which slot a request gets *)

Minus(a, b) == IF a > b THEN a - b ELSE 0
FreeSlots == Minus(Slots, count["running"])
Uploading(u) == multi[u] > 0
Uploaders == {u \in Users : Uploading(u)}

\* getFreeMultiConnUnsafe() > 0, < 0
SomeFreeMultiConn == Slots + Cardinality(Uploaders) > count["running"] + mcnConns
TooManyMultiConns == Slots + Cardinality(Uploaders) < count["running"] + mcnConns

\* Nobody waits, or it is his turn.
AllowUser(u) == (queue = <<>> /\ notified = {}) \/ u \in notified

\* Another connection, unless the others would be left behind.
AllowNewMultiConn(u) ==
    IF Uploading(u)
    THEN /\ \/ SomeFreeMultiConn /\ AllowUser(u)
            \/ \E v \in Uploaders \ {u} : multi[u] + 1 <= multi[v]
         /\ PerUser = 0 \/ multi[u] + 1 <= PerUser
    ELSE FreeSlots > 0 /\ AllowUser(u)

\* The speed and the time since the last grant are left open.
LowSpeedSlots == IF count["running"] < Slots + AutoOpened /\ AutoOpened > 0
                 THEN BOOLEAN ELSE {FALSE}

MiniSlotAllowed(c) ==
    \/ conns[c].slot = "mini" \/ setup.perk[Owner(c)] = "operator"
    \/ count["extra"] < ExtraSlots

\* parseSlotHookedThrow: the slot of a request, "none" if there is none. It reads
\* the counters and the queue one after another, but all that may change meanwhile
\* is that slots get free and reservations expire.
SlotFor(c, f) ==
    LET u == Owner(c) IN
    IF conns[c].slot \in UserSlots THEN {conns[c].slot}
    ELSE IF f \notin SmallFiles /\ Uploading(u) /\ ~AllowNewMultiConn(u) THEN {"none"}
    ELSE IF Mcn(c) /\ f \in SmallFiles
            /\ (conns[c].slot = "small" \/ count["small"] <= MaxSmall) THEN {"small"}
    ELSE IF setup.perk[u] = "slot" THEN {"granted"}
    ELSE {CASE (FreeSlots > 0 /\ AllowUser(u)) \/ low -> "standard"
            [] OTHER ->
                 IF setup.perk[u] = "fileslot" THEN "fileslot"
                 ELSE IF f \notin NormalFiles /\ MiniSlotAllowed(c) THEN "mini"
                 ELSE "none" : low \in LowSpeedSlots}

-----------------------------------------------------------------------------
(* Counting *)

CounterOf(c, slot) ==
    CASE slot \in UserSlots -> IF Mcn(c) THEN "multi" ELSE "running"
      [] slot = "mini" -> "extra"
      [] slot = "small" -> "small"
      [] OTHER -> "none"

\* (Mutant: the slot of the user is kept with his last connection.)
RemoveMultiConnOnly(u) ==
    /\ multi' = [multi EXCEPT ![u] = @ - 1] /\ mcnConns' = mcnConns - 1
    /\ UNCHANGED count

\* changeMultiConnSlot: the first connection of a user takes a slot, the last one
\* gives it back.
AddMultiConn(u) ==
    /\ multi' = [multi EXCEPT ![u] = @ + 1] /\ mcnConns' = mcnConns + 1
    /\ count' = [count EXCEPT !["running"] = IF Uploading(u) THEN @ ELSE (@ + 1) % 256]
RemoveMultiConn(u) ==
    /\ multi' = [multi EXCEPT ![u] = @ - 1] /\ mcnConns' = mcnConns - 1
    /\ count' = [count EXCEPT !["running"] = IF multi[u] = 1 THEN (@ + 255) % 256 ELSE @]

\* One more or one less (d is 1 or 255) of the slot; then the connection becomes
\* "done". Bytes that no lock protects are read first.
Counted(c, slot, d, done) ==
    LET k == CounterOf(c, slot) IN
    \/ /\ k = "none" /\ conns' = [conns EXCEPT ![c] = done]
       /\ UNCHANGED slotVars
    \/ /\ k = "multi" /\ conns' = [conns EXCEPT ![c] = done]
       /\ IF d = 1 THEN AddMultiConn(Owner(c)) ELSE RemoveMultiConn(Owner(c))
    \/ /\ k \in DOMAIN count /\ conns[c].reg = NotRead
       /\ conns' = [conns EXCEPT ![c].reg = count[k]]
       /\ UNCHANGED slotVars
    \/ /\ k \in DOMAIN count /\ conns[c].reg # NotRead
       /\ count' = [count EXCEPT ![k] = (conns[c].reg + d) % 256]
       /\ conns' = [conns EXCEPT ![c] = [done EXCEPT !.reg = NotRead]]
       /\ UNCHANGED <<multi, mcnConns>>

-----------------------------------------------------------------------------
(* A connection *)

\* The remote client connects when it wants more than it has idle connections for.
\* A user that waits comes again when he is told to, or by himself (a "retry").
Unasked(u) == wants[u] \ {conns[d].file : d \in ConnsOf(u)}
Connects(c) ==
    LET u == Owner(c) IN
    /\ conns[c] = NoConn /\ u \in online
    /\ Cardinality(Unasked(u)) > Cardinality({d \in ConnsOf(u) : conns[d].at = "get"})
    /\ Goes(c, "get")
    /\ UNCHANGED <<remoteVars, slotCS, slotVars, queueVars>>
Connect(c) == Connects(c) /\ Owner(c) \notin ToSet(queue) /\ UNCHANGED mishaps
Retry(c) == Connects(c) /\ Owner(c) \in ToSet(queue) /\ Misfortune("retry")

\* (Mutant: nothing keeps another connection from being here.)
RequestUnlocked(c, f) ==
    /\ conns[c].at = "get" /\ ~conns[c].closing
    /\ f \in Unasked(Owner(c))
    /\ UNCHANGED slotCS
    /\ \E s \in SlotFor(c, f) :
         conns' = [conns EXCEPT ![c].next = s, ![c].file = f,
                                ![c].at = IF s = "none" THEN "deny" ELSE "create"]
    /\ UNCHANGED <<remoteVars, slotVars, queueVars, mishaps>>

\* prepareFile: the file is there, slotCS is taken and the slot looked for.
Request(c, f) ==
    /\ conns[c].at = "get" /\ ~conns[c].closing
    /\ f \in Unasked(Owner(c))
    /\ slotCS = "free" /\ slotCS' = c
    /\ \E s \in SlotFor(c, f) :
         conns' = [conns EXCEPT ![c].next = s, ![c].file = f,
                                ![c].at = IF s = "none" THEN "deny" ELSE "create"]
    /\ UNCHANGED <<remoteVars, slotVars, queueVars, mishaps>>

\* (Mutant: a user gets another place for every request.)
AddFailedUploadAgain(u) ==
    queue' = Append(queue, u)

\* addFailedUpload: a user keeps his place.
AddFailedUpload(u) ==
    queue' = IF u \in ToSet(queue) THEN queue ELSE Append(queue, u)

\* clearUserFilesUnsafe: he loses his place, if he has one.
ClearUserFilesUnsafe(u) ==
    \/ u \notin ToSet(queue) /\ UNCHANGED queue
    \/ \E i \in DOMAIN queue :
         /\ queue[i] = u /\ u \notin ToSet(SubSeq(queue, 1, i - 1))
         /\ queue' = RemoveAt(queue, i)

\* No slot: the user waits for one unless he is uploading already, and the
\* connection is closed.
Deny(c) ==
    /\ conns[c].at = "deny"
    /\ IF Uploading(Owner(c)) THEN UNCHANGED queue ELSE AddFailedUpload(Owner(c))
    /\ slotCS' = "free"
    /\ Goes(c, "leave")
    /\ UNCHANGED <<remoteVars, slotVars, notified, timer, mishaps>>

\* The file is opened and the upload created. A slot of the same type stays.
SameType(s, t) == s = t \/ {s, t} \subseteq UserSlots \/ {s, t} \subseteq {"mini", "small", "fileslot"}
Create(c) ==
    /\ conns[c].at = "create"
    /\ IF SameType(conns[c].slot, conns[c].next)
       THEN Goes(c, "dequeue") /\ slotCS' = "free"
       ELSE Goes(c, "drop") /\ UNCHANGED slotCS
    /\ UNCHANGED <<remoteVars, slotVars, queueVars, mishaps>>

CreateFails(c) ==
    /\ conns[c].at = "create" /\ Misfortune("open")
    /\ conns' = [conns EXCEPT ![c].at = "get", ![c].file = "none", ![c].next = "none"]
    /\ slotCS' = "free"
    /\ UNCHANGED <<remoteVars, slotVars, queueVars>>

\* updateSlotCounts: the old slot goes, the new one is set and counted.
DropSlot(c) ==
    /\ conns[c].at = "drop"
    /\ Counted(c, conns[c].slot, 255,
               [conns[c] EXCEPT !.slot = conns[c].next, !.next = "none", !.at = "add"])
    /\ UNCHANGED <<remoteVars, slotCS, queueVars, mishaps>>

AddSlot(c) ==
    /\ conns[c].at = "add"
    /\ Counted(c, conns[c].slot, 1, [conns[c] EXCEPT !.at = "room"])
    /\ UNCHANGED <<remoteVars, slotCS, queueVars, mishaps>>

\* disconnectExtraMultiConn: when there are too many connections, one of a user
\* with the most of them is closed, if one is uploading. Then slotCS is released.
Extra ==
    {d \in Conns :
        /\ TooManyMultiConns /\ Mcn(d) /\ multi[Owner(d)] > 1
        /\ \A u \in Users : multi[u] <= multi[Owner(d)]
        /\ conns[d].file # "none" /\ conns[d].slot \in UserSlots
        /\ conns[d].at \in {"room", "dequeue", "send"}}
MakeRoom(c) ==
    /\ conns[c].at = "room" /\ slotCS' = "free"
    /\ \E low \in LowSpeedSlots :
         \/ /\ conns[c].slot \in UserSlots /\ ~low
            /\ \E d \in Extra : conns' = [conns EXCEPT ![c].at = "dequeue",
                                                     ![d].closing = TRUE]
         \/ /\ conns[c].slot \in UserSlots => low \/ Extra = {}
            /\ Goes(c, "dequeue")
    /\ UNCHANGED <<remoteVars, slotVars, queueVars, mishaps>>

\* removeQueue: whatever he gets, the user does not wait any more.
RemoveQueue(c) ==
    /\ conns[c].at = "dequeue"
    /\ ClearUserFilesUnsafe(Owner(c))
    /\ notified' = notified \ {Owner(c)}
    /\ Goes(c, "send")
    /\ UNCHANGED <<remoteVars, slotCS, slotVars, timer, mishaps>>

\* TransmitDone: the slot is kept for the next request.
TransmitDone(c) ==
    /\ conns[c].at = "send"
    /\ wants' = [wants EXCEPT ![Owner(c)] = @ \ {conns[c].file}]
    /\ conns' = [conns EXCEPT ![c].at = "get", ![c].file = "none"]
    /\ UNCHANGED <<setup, online, slotCS, slotVars, queueVars, mishaps>>

\* The connection ends: it is closed here, or there when it is of no more use, or
\* it breaks.
Leaves(c) ==
    /\ conns[c].at \in {"get", "send"}
    /\ conns' = [conns EXCEPT ![c].at = "leave", ![c].file = "none"]
Close(c) ==
    /\ Leaves(c)
    /\ \/ conns[c].closing
       \/ conns[c].at = "get" /\ Unasked(Owner(c)) = {}
    /\ UNCHANGED <<remoteVars, slotCS, slotVars, queueVars, mishaps>>
Break(c) ==
    /\ Leaves(c) /\ Misfortune("break")
    /\ UNCHANGED <<remoteVars, slotCS, slotVars, queueVars>>

\* removeConnection: the slot is lost.
RemoveConnection(c) ==
    /\ conns[c].at = "leave"
    /\ Counted(c, conns[c].slot, 255, NoConn)
    /\ UNCHANGED <<remoteVars, slotCS, queueVars, mishaps>>

-----------------------------------------------------------------------------
(* The queue *)

\* (Mutant: one slot is kept for those who do not wait.)
FreeToPromiseButOne == (timer + 255 - Cardinality(notified)) % 256

\* on(Second): the slots that are free now ...
ReadFreeSlots ==
    /\ timer = NotRead /\ queue # <<>>
    /\ timer' = FreeSlots
    /\ UNCHANGED <<remoteVars, conns, slotCS, slotVars, queue, notified, mishaps>>

\* ... less those promised, as a byte, go to the first users that are online.
FreeToPromise == (timer + 256 - Cardinality(notified)) % 256
OnlineIn(q) == {q[i] : i \in DOMAIN q} \cap online
NotifyQueuedUsers ==
    LET n == IF timer = 0 THEN 0 ELSE FreeToPromise
        Told(k) == OnlineIn(SubSeq(queue, 1, k))
    IN /\ timer # NotRead /\ timer' = NotRead
       /\ \E k \in 0 .. Len(queue) :
            /\ IF n = 0 THEN k = 0
               ELSE /\ k < Len(queue) => Cardinality(Told(k)) = n
                    /\ k > 0 => Cardinality(Told(k - 1)) < n
            /\ queue' = SubSeq(queue, k + 1, Len(queue))
            /\ notified' = notified \cup Told(k)
       /\ UNCHANGED <<remoteVars, conns, slotCS, slotVars, mishaps>>

\* on(Minute): he did not come, or came too late (a mishap).
Coming(u) ==
    \/ u \in online /\ u \notin ToSet(queue) /\ Unasked(u) # {}
    \/ \E c \in ConnsOf(u) : conns[c].at # "none"
Expire(u) ==
    /\ u \in notified
    /\ IF Coming(u) THEN Misfortune("late") ELSE UNCHANGED mishaps
    /\ notified' = notified \ {u}
    /\ ClearUserFilesUnsafe(u)
    /\ UNCHANGED <<remoteVars, conns, slotCS, slotVars, timer>>

GoOffline(u) ==
    /\ u \in online /\ Misfortune("offline")
    /\ online' = online \ {u}
    /\ UNCHANGED <<setup, wants, conns, slotCS, slotVars, queueVars>>
ClearUserFiles(u) ==
    /\ u \notin online /\ u \in ToSet(queue)
    /\ ClearUserFilesUnsafe(u)
    /\ UNCHANGED <<remoteVars, conns, slotCS, slotVars, notified, timer, mishaps>>
ComeOnline(u) ==
    /\ u \notin online /\ online' = online \cup {u}
    /\ UNCHANGED <<setup, wants, conns, slotCS, slotVars, queueVars, mishaps>>

-----------------------------------------------------------------------------
Handler(c) ==
    \/ Deny(c) \/ Create(c) \/ DropSlot(c) \/ AddSlot(c) \/ MakeRoom(c)
    \/ RemoveQueue(c) \/ TransmitDone(c) \/ Close(c) \/ RemoveConnection(c)

Next ==
    \/ \E c \in Conns :
         \/ Connect(c) \/ Handler(c) \/ CreateFails(c) \/ Break(c) \/ Retry(c)
         \/ \E f \in Files : Request(c, f)
    \/ ReadFreeSlots \/ NotifyQueuedUsers
    \/ \E u \in Users : Expire(u) \/ GoOffline(u) \/ ClearUserFiles(u) \/ ComeOnline(u)

Spec == Init /\ [][Next]_vars

\* The threads run, and a remote client that is told to come, or never has been told
\* to wait, does.
Fairness ==
    /\ WF_vars(ReadFreeSlots) /\ WF_vars(NotifyQueuedUsers)
    /\ \A u \in Users :
         WF_vars(~Coming(u) /\ Expire(u)) /\ WF_vars(ComeOnline(u)) /\ WF_vars(ClearUserFiles(u))
    /\ \A c \in Conns :
         /\ WF_vars(Handler(c)) /\ WF_vars(Connect(c))
         /\ WF_vars(\E f \in Files : Request(c, f))
FairSpec == Spec /\ Fairness
-----------------------------------------------------------------------------
(* Properties *)

\* Nobody waits in two places (UploadQueueManager.cpp:87), counters are bytes.
TypeOK ==
    /\ wants \in [Users -> SUBSET Files] /\ online \subseteq Users
    /\ conns \in [Conns ->
         [at : {"none", "get", "deny", "create", "drop", "add", "room", "dequeue", "send", "leave"},
          slot : {"none", "standard", "granted", "fileslot", "mini", "small"},
          next : {"none", "standard", "granted", "fileslot", "mini", "small"},
          file : Files \cup {"none"}, reg : 0 .. NotRead, closing : BOOLEAN]]
    /\ slotCS \in Conns \cup {"free"}
    /\ count \in [{"running", "extra", "small"} -> 0 .. 255]
    /\ multi \in [Users -> 0 .. 255] /\ mcnConns \in 0 .. 255
    /\ ToSet(queue) \subseteq Users /\ IsInjective(queue)
    /\ notified \subseteq Users /\ timer \in 0 .. NotRead

\* Connections whose user slot is counted.
Counting(u) ==
    {c \in ConnsOf(u) : conns[c].slot \in UserSlots /\ conns[c].at # "add"}

\* For users with several connections the counters say what the connections have,
\* in whatever order connections come and go (UploadManager.cpp:395).
SlotCountsExact ==
    setup.mcn = Users =>
        /\ \A u \in Users : multi[u] = Cardinality(Counting(u))
        /\ count["running"] = Cardinality({u \in Users : Counting(u) # {}})
        /\ mcnConns = Cardinality(UNION {Counting(u) : u \in Users})

\* The slots of the program are not exceeded by more than the speed may open
\* (UploadManager.cpp:130: one connection at a time is assigned a slot); what the
\* hooks grant comes on top.
SlotsWithinLimit ==
    setup.mcn = Users /\ (\A u \in Users : setup.perk[u] # "slot") =>
        Cardinality({u \in Users : Counting(u) # {}}) <= Slots + AutoOpened

\* "Slot reserved for someone else?" (UploadManager.cpp:426): no more users are
\* told to come than slots are free.
ReservedSlotsAreFree ==
    [][\A u \in notified' \ notified :
         Cardinality(notified') <= timer]_vars

\* Everybody who keeps asking gets everything in the end.
EventuallyServed == <>[](\A u \in Users : wants[u] = {})
=============================================================================
