---------------------------- MODULE Connections ----------------------------
(* The download connections of one remote user: the items of                *)
(* ConnectionManager (ConnectionQueueItem, "CQI" in the code), the           *)
(* connections that arrive for them and the idle connections that            *)
(* DownloadManager keeps. An item outlives its connections: it is retried    *)
(* when one fails, so an item is named by its token.                         *)
(*                                                                           *)
(* Threads: every connection has a socket thread of its own that runs its    *)
(* handlers and posted tasks one after another; the timer thread attempts    *)
(* the waiting items; requests come from the threads that change the queue.  *)
(* ConnectionManager::cs is a shared lock and the timer holds it in read     *)
(* mode during its loop, so only the steps that take it in write mode wait   *)
(* for the loop to end; the other steps interleave with it.                  *)
EXTENDS Naturals, FiniteSets

CONSTANTS
    Tokens,       \* tokens of the items, used again when nothing knows them
    Conns,        \* connections that may exist at the same time
    SmallFiles,   \* files that use a small slot (file lists, small files)
    NormalFiles,  \* other files
    MaxConns,     \* running normal connections allowed to a user
    Users,        \* remote users: what they support, offer and have to suffer
    Mishaps       \* failures that may happen

Files == SmallFiles \cup NormalFiles

ASSUME ConnectionsAssumption ==
    /\ SmallFiles \cap NormalFiles = {} /\ "none" \notin Tokens \cup Files
    /\ MaxConns \in Nat
    /\ Users \subseteq [mcn : BOOLEAN, files : SUBSET Files, queued : SUBSET Files,
                       conns : SUBSET Conns, mishaps : Nat]

VARIABLES
    items,     \* token -> ConnectionQueueItem, or NoItem
    expected,  \* tokens the remote client will still connect with
    conns,     \* connection -> UserConnection and where its thread is
    idlers,    \* DownloadManager::idlers
    queued,    \* files of the user that are not downloaded yet
    added,     \* files that have been queued
    missed,    \* calls of getDownloadConnection (small or not) without an idle connection
    mislaid,   \* history: somebody has relied on an item that goes (see Leaves)
    timer,     \* the timer thread
    online,    \* the user is on a hub
    full,      \* the download limits are reached
    user,      \* the remote user; user.mcn: it supports several connections
    mishaps    \* failures so far

queueVars == <<queued, added, missed, mislaid>>
envVars == <<online, full, user, mishaps>>
vars == <<items, expected, conns, idlers, queueVars, timer, envVars>>

-----------------------------------------------------------------------------
(* Items *)

\* Of lastAttempt only whether it is 0 ("forced"): how long ago an attempt was is
\* left to choice, so a time-out or another attempt may come at any time.
NoItem == [type |-> "none"]
NewItem(type, m) ==
    [type |-> type, state |-> "WAITING", forced |-> TRUE, fatal |-> FALSE,
     mcn |-> m, running |-> FALSE]

Present(t) == items[t] # NoItem
Live == {t \in Tokens : Present(t)}
Active(t) == items[t].state = "ACTIVE"

\* A token nothing refers to any more. Bound: a new item waits for one.
FreshTokens ==
    {t \in Tokens : /\ ~Present(t) /\ t \notin expected
                    /\ \A c \in Conns : conns[c].token # t
                    /\ t \notin timer.gone}
NewToken == CHOOSE t \in FreshTokens : TRUE

\* The timer holds the lock in read mode.
WriteLock == timer.token = "none"

\* The time of the last attempt is compared with -1, which is the error count of a
\* protocol error and never a time.
LastAttemptIsMinusOne(i) == FALSE
ResetFatalError(i) == IF LastAttemptIsMinusOne(i) THEN [i EXCEPT !.forced = TRUE] ELSE i

\* allowNewMCNUnsafe: the items that stand in the way of a new one (the first one
\* found ends the search), and the limit of normal connections.
Obstacles(its, small) ==
    {t \in Tokens :
        /\ its[t] # NoItem
        /\ \/ ~its[t].mcn
           \/ its[t].type = "NORMAL" /\ ~its[t].running /\ ~small
           \/ its[t].type = "SMALL" /\ small}
RunningNormal(its) ==
    {t \in Tokens : its[t] # NoItem /\ its[t].type = "NORMAL" /\ its[t].running}
AllowNewMCN(its, small) ==
    /\ Obstacles(its, small) = {}
    /\ small \/ Live = {} \/ Cardinality(RunningNormal(its)) < MaxConns

\* putCQIUnsafe
Put(its, S) == items' = [t \in Tokens |-> IF t \in S THEN NoItem ELSE its[t]]

\* removeExtraMCNUnsafe: one waiting normal item goes when another one waits.
Extra(t) ==
    LET extra == {u \in Live \ {t} : items[u].type # "SMALL" /\ ~Active(u)} IN
    IF items[t].mcn /\ items[t].type = "NORMAL" /\ extra # {}
    THEN {{u} : u \in extra} ELSE {{}}

\* (Mutant: the state stays.)
FailedItemKeepsState(i, fatal) == [i EXCEPT !.fatal = fatal, !.running = FALSE]

\* failDownload: an item that was attempted waits for the next attempt.
FailedItem(i, fatal) ==
    IF i.state = "WAITING" THEN [i EXCEPT !.running = FALSE]
    ELSE [i EXCEPT !.state = "WAITING", !.fatal = fatal, !.forced = FALSE,
                   !.running = FALSE]
FailDownload(t, fatal) ==
    \E S \in Extra(t) : Put([items EXCEPT ![t] = FailedItem(@, fatal)], S)

-----------------------------------------------------------------------------
(* The queue of the user, as far as the connections see it *)

\* Where a thread is that runs no handler: waiting, or without a connection.
NoConn ==
    [at |-> "none", token |-> "none", state |-> "INF", small |-> FALSE,
     file |-> "none", tasks |-> {}, fate |-> "retry"]

Free == queued \ {conns[c].file : c \in Conns}

\* The files that a download of the type may choose from.
Eligible(type) ==
    CASE type = "ANY" -> Free
      [] type = "SMALL" -> Free \cap SmallFiles
      [] type = "NORMAL" -> Free \cap NormalFiles

\* startDownload: nothing can be downloaded from an offline user; the limits do
\* not concern small files.
HasDownload(type) == online /\ Eligible(type) # {}
HasSlot(type) == Eligible(type) \cap SmallFiles # {} \/ ~full

\* getDownloadType of a connection.
ConnType(c) == IF conns[c].small THEN "SMALL" ELSE IF user.mcn THEN "NORMAL" ELSE "ANY"

\* checkIdle(user, small): the idle connections that can take a request.
IdlersFor(small) == {c \in idlers : ~user.mcn \/ conns[c].small = small}

Goes(c, at) == conns' = [conns EXCEPT ![c].at = at]

Misfortune(kind) ==
    /\ kind \in Mishaps /\ mishaps < user.mishaps
    /\ mishaps' = mishaps + 1

-----------------------------------------------------------------------------
(* Requests *)

\* Some files may be queued when the user comes online.
Init ==
    /\ user \in Users
    /\ queued = user.queued /\ added = user.queued
    /\ missed = IF queued = {} THEN {} ELSE {FALSE}
    /\ mislaid = FALSE
    /\ items = [t \in Tokens |-> NoItem]
    /\ expected = {}
    /\ conns = [c \in Conns |-> NoConn]
    /\ idlers = {}
    /\ timer = [token |-> "none", plan |-> "none", gone |-> {}]
    /\ online = TRUE /\ full = FALSE /\ mishaps = 0

\* An item that is about to be removed, whatever has been queued since: the timer has
\* collected it, or its idle connection failed when there was nothing for it.
Leaves(t) ==
    \/ ~Present(t) \/ t \in timer.gone
    \/ \E c \in Conns : conns[c].token = t /\ conns[c].at = "failing" /\ conns[c].fate = "put"

\* getDownloadConnection, first part: an idle connection is told to look again,
\* and without one the request goes on.
CheckIdle(small) ==
    \/ /\ IdlersFor(small) = {}
       /\ missed' = missed \cup {small}
       /\ UNCHANGED <<conns, mislaid>>
    \/ \E c \in IdlersFor(small) :
         /\ conns' = [conns EXCEPT ![c].tasks = @ \cup {"revive"}]
         /\ mislaid' = (mislaid \/ Leaves(conns[c].token))
         /\ UNCHANGED missed

\* (Mutant: the file is not remembered.)
AddFileForgotten(f) ==
    /\ f \in user.files \ added
    /\ queued' = queued \cup {f}
    /\ CheckIdle(f \in SmallFiles)
    /\ UNCHANGED <<items, expected, idlers, added, timer, envVars>>

\* The queue adds a file of the user and wants a connection for it.
AddFile(f) ==
    /\ f \in user.files \ added
    /\ added' = added \cup {f} /\ queued' = queued \cup {f}
    /\ CheckIdle(f \in SmallFiles)
    /\ UNCHANGED <<items, expected, idlers, timer, envVars>>

\* getDownloadConnection, second part: a new item, unless one is in the way.
RequestItem(small) ==
    /\ small \in missed /\ WriteLock /\ FreshTokens # {}
    /\ missed' = missed \ {small}
    /\ \/ /\ AllowNewMCN(items, small)
          /\ items' = [items EXCEPT ![NewToken] =
                        NewItem(IF small THEN "SMALL" ELSE "ANY", FALSE)]
          /\ UNCHANGED mislaid
       \/ \E t \in Obstacles(items, small) :
            /\ items' = [items EXCEPT ![t] =
                           IF @.mcn /\ ~@.running THEN ResetFatalError(@) ELSE @]
            /\ mislaid' = (mislaid \/ Leaves(t))
       \/ /\ Obstacles(items, small) = {} /\ ~AllowNewMCN(items, small)
          /\ UNCHANGED <<items, mislaid>>
    /\ UNCHANGED <<expected, conns, idlers, queued, added, timer, envVars>>

\* createNewMCN: another normal connection, if there is something to download.
\* What allowed it was checked before, without the lock in between. Bound: it is
\* left out when no token is free.
CreateNewMCN(c) ==
    /\ conns[c].at \in {"spawn", "spawnLeft"} /\ WriteLock
    /\ items' = IF HasDownload("NORMAL") /\ FreshTokens # {}
                THEN [items EXCEPT ![NewToken] = NewItem("NORMAL", TRUE)]
                ELSE items
    /\ Goes(c, IF conns[c].at = "spawn" THEN "open" ELSE "left")
    /\ UNCHANGED <<expected, idlers, queueVars, timer, envVars>>

\* force: the user wants an item to be attempted at once.
ForceItem(t) ==
    /\ Present(t) /\ Misfortune("force")
    /\ \/ \E c \in idlers :
            /\ conns[c].token = t
            /\ conns' = [conns EXCEPT ![c].tasks = @ \cup {"revive"}]
            /\ UNCHANGED items
       \/ /\ \A c \in idlers : conns[c].token # t
          /\ items' = [items EXCEPT ![t].forced = TRUE]
          /\ UNCHANGED conns
    /\ UNCHANGED <<expected, idlers, queueVars, timer, online, full, user>>

-----------------------------------------------------------------------------
(* The timer thread: what a visit reads and what it writes are two steps. The  *)
(* loop holds the lock from its first item to its last; here the lock is held  *)
(* for each item, which only adds interleavings.                             *)

\* attemptDownloadUnsafe: the type the item continues with. A small item takes
\* any file when it is the user's only one, and an item for any file becomes a
\* small one when the next file is small.
NextType(t) ==
    LET type == items[t].type IN
    IF type = "SMALL" /\ ~HasDownload("SMALL") /\ Live = {t} THEN "ANY"
    ELSE IF type = "ANY" /\ online /\ Eligible("ANY") \cap SmallFiles # {} THEN "SMALL"
    ELSE type

MayConnect(t) ==
    \/ items[t].state = "WAITING"
    \/ /\ items[t].forced /\ items[t].state = "CONNECTING"
       /\ \A c \in Conns : conns[c].token # t

\* What the timer may make of an item, if anything. An attempt is due at once, or
\* after a while (allowConnect); its time-out is looked for before (isTimeout).
Verdicts(t) ==
    LET i == items[t] IN
    IF Active(t) THEN {}
    ELSE IF ~online THEN {"remove"}
    ELSE IF i.fatal /\ ~i.forced THEN {}
    ELSE (IF ~i.forced /\ i.state = "CONNECTING" THEN {"timeout"} ELSE {}) \cup
         (IF ~HasDownload(NextType(t)) THEN {"nothing"}
          ELSE IF MayConnect(t) /\ HasSlot(NextType(t)) THEN {"connect"}
          ELSE {"later"})

\* The connection that was asked for may still come, or is about to be added.
OnItsWay(t) == t \in expected \/ \E c \in Conns : conns[c].token = t /\ conns[c].at = "found"

\* attemptDownloads, one item. The state that a time-out or an attempt writes is
\* written in a step of its own: the item may have become active meanwhile. A
\* connection that comes after its time-out is a mishap.
Visit(t) ==
    /\ Present(t) /\ timer.token = "none" /\ t \notin timer.gone
    /\ \E v \in Verdicts(t) :
         /\ timer' = IF v \in {"timeout", "connect"}
                     THEN [timer EXCEPT !.token = t, !.plan = v]
                     ELSE [timer EXCEPT !.gone = IF v = "later" THEN @ ELSE @ \cup {t}]
         /\ items' = IF v \in {"nothing", "later", "connect"}
                     THEN [items EXCEPT ![t].type = NextType(t), ![t].forced = FALSE]
                     ELSE items
         /\ IF v = "timeout" /\ OnItsWay(t) THEN Misfortune("late") ELSE UNCHANGED mishaps
    /\ UNCHANGED <<expected, conns, idlers, queueVars, online, full, user>>

Apply(t, plan) ==
    /\ timer.token = t /\ timer.plan = plan
    /\ timer' = [timer EXCEPT !.token = "none", !.plan = "none"]

TimeOut(t) ==
    /\ Apply(t, "timeout")
    /\ items' = [items EXCEPT ![t].fatal = FALSE, ![t].state = "WAITING"]
    /\ UNCHANGED <<expected, conns, idlers, queueVars, envVars>>

\* connectUnsafe
Connect(t) ==
    /\ Apply(t, "connect")
    /\ items' = [items EXCEPT ![t].state = "CONNECTING"]
    /\ expected' = expected \cup {t}
    /\ UNCHANGED <<conns, idlers, queueVars, envVars>>

\* The hub refuses: a protocol error is not retried.
ConnectFails(t) ==
    /\ Apply(t, "connect") /\ Misfortune("connect")
    /\ \E fatal \in BOOLEAN :
         items' = [items EXCEPT ![t].state = "WAITING", ![t].fatal = fatal]
    /\ UNCHANGED <<expected, conns, idlers, queueVars, online, full, user>>

\* The tokens collected in the loop are removed, whatever has happened since.
RemoveCollected ==
    /\ timer.gone # {} /\ WriteLock
    /\ Put(items, timer.gone)
    /\ timer' = [timer EXCEPT !.gone = {}]
    /\ UNCHANGED <<expected, conns, idlers, queueVars, envVars>>

\* (Mutant: only connections without data are looked at.)
CloseInactiveBusy(c) ==
    /\ WriteLock
    /\ conns[c].at = "open" /\ conns[c].state = "SND" /\ "close" \notin conns[c].tasks
    /\ conns' = [conns EXCEPT ![c].tasks = @ \cup {"close"}]
    /\ UNCHANGED <<items, expected, idlers, queueVars, timer, envVars>>

\* on(Minute): idle connections are closed after a while without activity.
CloseInactive(c) ==
    /\ WriteLock
    /\ conns[c].at = "open" /\ conns[c].state = "IDLE" /\ "close" \notin conns[c].tasks
    /\ conns' = [conns EXCEPT ![c].tasks = @ \cup {"close"}]
    /\ UNCHANGED <<items, expected, idlers, queueVars, timer, envVars>>

-----------------------------------------------------------------------------
(* A connection *)

\* accept and the INF handler: the token decides what the connection is. A token
\* that nobody knows makes it an upload, which is not followed any further.
Arrive(c, t) ==
    /\ t \in expected /\ c \in user.conns /\ conns[c] = NoConn
    /\ expected' = expected \ {t}
    /\ IF Present(t)
       THEN /\ items' = [items EXCEPT ![t].fatal = FALSE]
            /\ conns' = [conns EXCEPT ![c] = [NoConn EXCEPT !.at = "found", !.token = t]]
       ELSE UNCHANGED <<items, conns>>
    /\ UNCHANGED <<idlers, queueVars, timer, envVars>>

\* findDownloadUnsafe: by token, or by user when tokens may not match.
ItemsOf(c) == IF user.mcn THEN {conns[c].token} \cap Live ELSE Live

\* addDownloadConnection, under the shared lock only.
AddDownloadConnection(c) ==
    /\ conns[c].at = "found"
    /\ \/ \E t \in ItemsOf(c) :
            /\ ~Active(t)
            /\ items' = [items EXCEPT
                 ![t].state = "ACTIVE", ![t].mcn = user.mcn,
                 ![t].type = IF user.mcn /\ @ # "SMALL" THEN "NORMAL" ELSE @]
            /\ conns' = [conns EXCEPT ![c].at = "check", ![c].token = t,
                 ![c].small = user.mcn /\ items[t].type = "SMALL"]
       \/ /\ \A t \in ItemsOf(c) : Active(t)
          /\ conns' = [conns EXCEPT ![c] = NoConn]
          /\ UNCHANGED items
    /\ UNCHANGED <<expected, idlers, queueVars, timer, envVars>>

\* checkDownloads: the queue gives the connection something to download, or it
\* is closed, or (after a download, or when the limits are reached) gets idle.
CheckDownloads(c) ==
    /\ conns[c].at = "check"
    /\ \/ /\ HasSlot(ConnType(c))
          /\ \E f \in Eligible(ConnType(c)) :
               conns' = [conns EXCEPT ![c].at = "open", ![c].state = "SND", ![c].file = f,
                                      ![c].tasks = @ \cup {"state"}]
       \/ /\ Eligible(ConnType(c)) = {} /\ conns[c].state # "RUNNING"
          /\ conns' = [conns EXCEPT ![c].at = "open", ![c].tasks = @ \cup {"close"}]
       \/ /\ Eligible(ConnType(c)) = {} /\ conns[c].state = "RUNNING"
          /\ Goes(c, "idling")
       \/ /\ Eligible(ConnType(c)) # {} /\ ~HasSlot(ConnType(c))
          /\ Goes(c, "idling")
    /\ UNCHANGED <<items, expected, idlers, queueVars, timer, envVars>>

\* One idle connection of a kind is enough.
CheckIdlers(c) ==
    /\ conns[c].at = "idling"
    /\ conns' = IF IdlersFor(conns[c].small) = {}
                THEN [conns EXCEPT ![c].at = "idle", ![c].state = "IDLE",
                                   ![c].tasks = @ \cup {"state"}]
                ELSE [conns EXCEPT ![c].at = "open", ![c].tasks = @ \cup {"close"}]
    /\ UNCHANGED <<items, expected, idlers, queueVars, timer, envVars>>

\* It is put on the list under a lock of its own, after that look.
BecomeIdle(c) ==
    /\ conns[c].at = "idle"
    /\ idlers' = idlers \cup {c}
    /\ Goes(c, "open")
    /\ UNCHANGED <<items, expected, queueVars, timer, envVars>>

\* SND arrives and the data starts.
Start(c) ==
    /\ conns[c].at = "open" /\ conns[c].state = "SND" /\ conns[c].tasks = {}
    /\ conns' = [conns EXCEPT ![c].state = "RUNNING", ![c].tasks = @ \cup {"state"}]
    /\ UNCHANGED <<items, expected, idlers, queueVars, timer, envVars>>

\* endData: the last data may come together with the first, before the posted
\* tasks are run.
Finish(c) ==
    /\ conns[c].at = "open" /\ conns[c].state = "RUNNING" /\ conns[c].file # "none"
    /\ conns[c].tasks \subseteq {"state"}
    /\ queued' = queued \ {conns[c].file}
    /\ conns' = [conns EXCEPT ![c].at = "check", ![c].file = "none"]
    /\ UNCHANGED <<items, expected, idlers, added, missed, mislaid, timer, envVars>>

\* onDownloadRunning: another connection may be wanted now.
OnDownloadRunning(c, t) ==
    LET its == [items EXCEPT ![t].running = TRUE]
        spawn == ~items[t].running /\ items[t].mcn /\ AllowNewMCN(its, FALSE)
    IN /\ conns[c].state = "RUNNING"
       /\ items' = its
       /\ conns' = [conns EXCEPT ![c].tasks = @ \ {"state"},
                                 ![c].at = IF spawn THEN "spawn" ELSE "open"]

\* (Mutant: the extra item is removed, the flag stays.)
OnIdleKeepsFlag(c, t) ==
    /\ conns[c].state = "IDLE" /\ WriteLock
    /\ \E S \in Extra(t) : Put(items, S)
    /\ conns' = [conns EXCEPT ![c].tasks = @ \ {"state"}]

OnIdle(c, t) ==
    /\ conns[c].state = "IDLE" /\ WriteLock
    /\ \/ ~items[t].running /\ UNCHANGED items
       \/ /\ items[t].running
          /\ \E S \in Extra(t) : Put([items EXCEPT ![t].running = FALSE], S)
    /\ conns' = [conns EXCEPT ![c].tasks = @ \ {"state"}]

\* on(State): the posted task reads the state the connection has by now.
StateTask(c) ==
    /\ conns[c].at = "open" /\ "state" \in conns[c].tasks
    /\ \/ /\ conns[c].state = "SND" \/ ItemsOf(c) = {}
          /\ conns' = [conns EXCEPT ![c].tasks = @ \ {"state"}]
          /\ UNCHANGED items
       \/ \E t \in ItemsOf(c) : OnDownloadRunning(c, t) \/ OnIdle(c, t)
    /\ UNCHANGED <<expected, idlers, queueVars, timer, envVars>>

\* reviveThreaded: only if it is still idle.
Revive(c) ==
    /\ conns[c].at = "open" /\ "revive" \in conns[c].tasks
    /\ idlers' = idlers \ {c}
    /\ conns' = [conns EXCEPT ![c].tasks = @ \ {"revive"},
                              ![c].at = IF c \in idlers THEN "check" ELSE "open"]
    /\ UNCHANGED <<items, expected, queueVars, timer, envVars>>

\* The connection fails: ConnectionManager hears of it first. What becomes of the
\* item: an idle connection asks the queue whether it is needed any more.
Failed(c, fate) ==
    conns' = [conns EXCEPT ![c].at = "failing", ![c].tasks = {},
                ![c].fate = IF conns[c].state = "IDLE" /\ ~HasDownload(ConnType(c))
                            THEN "put" ELSE fate]

Disconnected(c) ==
    /\ conns[c].at = "open" /\ "close" \in conns[c].tasks
    /\ Failed(c, "retry")
    /\ UNCHANGED <<items, expected, idlers, queueVars, timer, envVars>>

\* It breaks, or the remote client violates the protocol or reports a fatal error.
Drop(c) ==
    /\ conns[c].at = "open"
    /\ \/ Misfortune("drop") /\ Failed(c, "retry")
       \/ Misfortune("error") /\ Failed(c, "giveUp")
    /\ UNCHANGED <<items, expected, idlers, queueVars, timer, online, full, user>>

\* failed: the item waits for another attempt, or for a forced one after a protocol
\* error; the item of a small connection may leave its place to a normal one.
FailItem(c) ==
    LET t == conns[c].token IN
    /\ conns[c].at = "failing" /\ conns[c].fate # "put" /\ WriteLock
    /\ \/ Present(t) /\ FailDownload(t, conns[c].fate = "giveUp")
       \/ ~Present(t) /\ UNCHANGED items
    /\ Goes(c, IF /\ Present(t) /\ items[t].mcn /\ items[t].type = "SMALL" /\ Active(t)
                  /\ AllowNewMCN(items, FALSE)
               THEN "spawnLeft" ELSE "left")
    /\ UNCHANGED <<expected, idlers, queueVars, timer, envVars>>

\* putCQI: the item is not needed any more. (The code takes for granted that it
\* is still there.)
PutItem(c) ==
    /\ conns[c].at = "failing" /\ conns[c].fate = "put" /\ WriteLock
    /\ Put(items, {conns[c].token})
    /\ Goes(c, "left")
    /\ UNCHANGED <<expected, idlers, queueVars, timer, envVars>>

\* DownloadManager::onFailed: the connection is not idle any more and the queue
\* gets its file back, which asks other users for a connection but not this one.
OnFailed(c) ==
    /\ conns[c].at = "left"
    /\ idlers' = idlers \ {c}
    /\ conns' = [conns EXCEPT ![c] = NoConn]
    /\ mislaid' = (mislaid \/ (conns[c].file # "none" /\ \A t \in Live : Leaves(t)))
    /\ UNCHANGED <<items, expected, queued, added, missed, timer, envVars>>

-----------------------------------------------------------------------------
(* The hub and the remote client *)

\* The remote client does not speak the protocol: the hub tells it.
Unsupported(t) ==
    /\ Present(t) /\ WriteLock /\ Misfortune("protocol")
    /\ items[t].state = "CONNECTING"
    /\ FailDownload(t, TRUE)
    /\ expected' = expected \ {t}
    /\ UNCHANGED <<conns, idlers, queueVars, timer, online, full, user>>

\* The remote client never connects.
Lose(t) ==
    /\ t \in expected /\ Misfortune("lose")
    /\ expected' = expected \ {t}
    /\ UNCHANGED <<items, conns, idlers, queueVars, timer, online, full, user>>

GoOffline ==
    /\ online /\ Misfortune("offline")
    /\ online' = FALSE
    /\ UNCHANGED <<items, expected, conns, idlers, queueVars, timer, full, user>>

\* QueueManager::on(UserConnected) asks for a connection.
ComeOnline ==
    /\ ~online /\ online' = TRUE
    /\ IF queued # {} THEN CheckIdle(FALSE) ELSE UNCHANGED <<conns, missed, mislaid>>
    /\ UNCHANGED <<items, expected, idlers, queued, added, timer, full, user, mishaps>>

LimitsReached ==
    /\ ~full /\ Misfortune("full") /\ full' = TRUE
    /\ UNCHANGED <<items, expected, conns, idlers, queueVars, timer, online, user>>

LimitsFree ==
    /\ full /\ full' = FALSE
    /\ UNCHANGED <<items, expected, conns, idlers, queueVars, timer, online, user,
                   mishaps>>

-----------------------------------------------------------------------------

\* Steps of the program, which it takes in the end.
Handler(c) ==
    \/ AddDownloadConnection(c) \/ CheckDownloads(c)
    \/ CheckIdlers(c) \/ BecomeIdle(c)
    \/ StateTask(c) \/ Revive(c) \/ CreateNewMCN(c) \/ Disconnected(c)
    \/ FailItem(c) \/ PutItem(c) \/ OnFailed(c)

TimerStep(t) == Visit(t) \/ TimeOut(t) \/ Connect(t)

Mishap ==
    \/ \E t \in Tokens : ConnectFails(t) \/ Unsupported(t) \/ Lose(t) \/ ForceItem(t)
    \/ \E c \in Conns : Drop(c)
    \/ GoOffline \/ LimitsReached

Next ==
    \/ \E f \in Files : AddFile(f)
    \/ \E small \in BOOLEAN : RequestItem(small)
    \/ \E t \in Tokens : TimerStep(t)
    \/ RemoveCollected \/ Mishap \/ ComeOnline \/ LimitsFree
    \/ \E c \in Conns :
         \/ Handler(c) \/ CloseInactive(c) \/ Start(c) \/ Finish(c)
         \/ \E t \in Tokens : Arrive(c, t)

Spec == Init /\ [][Next]_vars

\* The threads run, time passes, and a remote client that is asked to connect
\* does, unless a mishap says otherwise.
Fairness ==
    /\ WF_vars(RemoveCollected) /\ WF_vars(ComeOnline) /\ WF_vars(LimitsFree)
    /\ \A small \in BOOLEAN : WF_vars(RequestItem(small))
    /\ \A t \in Tokens :
         WF_vars(TimerStep(t)) /\ WF_vars(\E c \in Conns : Arrive(c, t))
    /\ \A c \in Conns :
         WF_vars(Handler(c)) /\ WF_vars(CloseInactive(c)) /\ WF_vars(Start(c)) /\ WF_vars(Finish(c))

FairSpec == Spec /\ Fairness
-----------------------------------------------------------------------------
(* Properties *)

Steps == {"none", "found", "check", "idling", "idle", "open", "spawn", "failing",
          "spawnLeft", "left"}

TypeOK ==
    /\ items \in [Tokens ->
         {NoItem} \cup [type : {"ANY", "SMALL", "NORMAL"},
                       state : {"WAITING", "CONNECTING", "ACTIVE"}, forced : BOOLEAN,
                       fatal : BOOLEAN, mcn : BOOLEAN, running : BOOLEAN]]
    /\ expected \subseteq Tokens
    /\ conns \in [Conns ->
         [at : Steps, token : Tokens \cup {"none"}, state : {"INF", "SND", "RUNNING", "IDLE"},
          small : BOOLEAN, file : Files \cup {"none"},
          tasks : SUBSET {"state", "revive", "close"}, fate : {"put", "retry", "giveUp"}]]
    /\ idlers \subseteq Conns
    /\ queued \subseteq added /\ added \subseteq Files
    /\ missed \subseteq BOOLEAN /\ mislaid \in BOOLEAN

\* Connections that have been given to the download manager and whose failure
\* the connection manager has still to hear of.
Associated(t) ==
    {c \in Conns : conns[c].token = t /\ conns[c].at \notin {"none", "found", "left", "spawnLeft"}}

\* An item that is active has a connection (ConnectionManager.cpp:958, 1304):
\* one without would be passed over by the timer and stand in the way of every
\* request.
ActiveHasConnection ==
    \A t \in Live : Active(t) => Associated(t) # {}

\* A connection in idlers is idle and open, has no download and is in nobody's hands
\* (DownloadManager.cpp:171, 247, 524); once it has come to rest it does not count as a
\* running one either (ConnectionManager.cpp:1223): the limit of connections counts those.
IdlersAreIdle ==
    \A c \in idlers :
        /\ conns[c].state = "IDLE" /\ conns[c].file = "none"
        /\ conns[c].at \in {"open", "failing", "spawnLeft", "left"}
        /\ user.mcn /\ conns[c].at = "open" /\ conns[c].tasks = {} /\ Present(conns[c].token) =>
               ~items[conns[c].token].running \/ Associated(conns[c].token) # {c}

\* "Force in case we joined a new hub and there was a protocol error"
\* (ConnectionManager.cpp:191, 235): a request that is turned down because of an
\* item that waits after a protocol error makes that item be attempted again.
RequestForcesRetry ==
    [][\A small \in missed \ missed' :
        LET obstacles == Obstacles(items, small) IN
        /\ obstacles # {}
        /\ \A t \in obstacles : items[t].mcn /\ ~items[t].running /\ items[t].fatal
        => \E t \in obstacles : items'[t].forced]_vars

\* Every item that is left waits after a protocol error, and there is one.
GivenUp == Live # {} /\ \A t \in Live : items[t].fatal /\ ~Active(t)

\* No item is left because one that was relied on was removed: a request was turned
\* down because of an item, or given to an idle connection, that the timer or the failure
\* of the connection had already found useless (ConnectionManager.cpp:359-366, 1310), or
\* a broken connection gave its file back when nobody was left to ask for it.
Mislaid == Live = {} /\ mislaid

\* "We need to check if we have queued something also while the small file connection
\* was being established" (ConnectionManager.cpp:209): a small connection that has come
\* to rest is not all there is for a user with a normal file in the queue that nobody
\* has to be asked for any more.
QueuedMeanwhileIsSeen ==
    \A c \in idlers :
        /\ conns[c].small /\ conns[c].at = "open" /\ conns[c].tasks = {}
        /\ online /\ Eligible("NORMAL") # {} /\ FALSE \notin missed
        => \E t \in Live : t # conns[c].token

\* No item is left, and the files that are left are all small or all normal ones, of a
\* user who supports several connections and has been asked for both: an item that is
\* not known to be for one kind turns requests for the other down (line 220) and may
\* become one for the first, and what should ask for normal files when a small one is
\* downloaded may see only that the connection is idle again (QueuedMeanwhileIsSeen).
WrongKind ==
    /\ Live = {} /\ user.mcn
    /\ \E kind \in {SmallFiles, NormalFiles} : queued \subseteq kind /\ added \ kind # {}

\* Every file is downloaded in the end, unless what its user's items have come to has a
\* name above: no item waits for ever beside a file it could download, and no file is
\* left without an item or a request for another reason.
EventuallyServed == <>[](queued = {} \/ GivenUp \/ Mislaid \/ WrongKind)
=============================================================================
