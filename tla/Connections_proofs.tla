------------------------ MODULE Connections_proofs ------------------------
(***************************************************************************)
(* What module Connections keeps to for any number of items, connections   *)
(* and failures and for every remote user.                                 *)
(***************************************************************************)
EXTENDS Connections, TLAPS

Item == [type : {"ANY", "SMALL", "NORMAL"}, state : {"WAITING", "CONNECTING", "ACTIVE"},
         forced : BOOLEAN, fatal : BOOLEAN, mcn : BOOLEAN, running : BOOLEAN]

Connection == [at : Steps, token : Tokens \cup {"none"}, state : {"INF", "SND", "RUNNING", "IDLE"},
               small : BOOLEAN, file : Files \cup {"none"},
               tasks : SUBSET {"state", "revive", "close"}, fate : {"put", "retry", "giveUp"}]

\* The timer looks at an item only while nobody can remove it.
TimerOK ==
    /\ timer \in [token : Tokens \cup {"none"}, plan : {"none", "timeout", "connect"},
                  gone : SUBSET Tokens]
    /\ timer.token # "none" => Present(timer.token)

ItemsOK == items \in [Tokens -> {NoItem} \cup Item]

ConnsOK == conns \in [Conns -> Connection]

SetsOK ==
    /\ expected \subseteq Tokens /\ idlers \subseteq Conns
    /\ queued \subseteq added /\ added \subseteq Files /\ missed \subseteq BOOLEAN
    /\ mislaid \in BOOLEAN /\ user \in Users

TypeInv == ItemsOK /\ ConnsOK /\ SetsOK /\ TimerOK

-----------------------------------------------------------------------------
\* No item is none.
LEMMA NoItemFacts == NoItem \notin Item
<1>1. NoItem.type = "none"
  BY DEF NoItem
<1> QED BY <1>1 DEF Item

\* An item is there when it has the type of one.
LEMMA PresentFacts ==
    ASSUME ItemsOK, NEW t \in Tokens
    PROVE  Present(t) <=> items[t] \in Item
BY NoItemFacts DEF ItemsOK, Present

\* An item gets another value.
LEMMA ItemReplaced ==
    ASSUME ItemsOK, NEW t \in Tokens, NEW y \in Item, items' = [items EXCEPT ![t] = y]
    PROVE  ItemsOK' /\ items'[t] = y /\ \A u \in Tokens \ {t} : items'[u] = items[u]
BY DEF ItemsOK

\* Changes of the fields of an item.
LEMMA ItemState ==
    ASSUME NEW x \in Item, NEW s \in {"WAITING", "CONNECTING", "ACTIVE"}
    PROVE  LET y == [x EXCEPT !.state = s]
           IN  y \in Item /\ y.state = s /\ y.running = x.running
BY DEF Item

\* ... of its error.
LEMMA ItemFatal ==
    ASSUME NEW x \in Item, NEW b \in BOOLEAN
    PROVE  LET y == [x EXCEPT !.fatal = b]
           IN  y \in Item /\ y.state = x.state /\ y.running = x.running
BY DEF Item

\* ... of its attempt.
LEMMA ItemForced ==
    ASSUME NEW x \in Item, NEW b \in BOOLEAN
    PROVE  LET y == [x EXCEPT !.forced = b]
           IN  y \in Item /\ y.state = x.state /\ y.running = x.running
BY DEF Item

\* ... of whether it counts as running.
LEMMA ItemRunning ==
    ASSUME NEW x \in Item, NEW b \in BOOLEAN
    PROVE  LET y == [x EXCEPT !.running = b]
           IN  y \in Item /\ y.state = x.state /\ y.running = b
BY DEF Item

\* ... of what its user supports.
LEMMA ItemMcn ==
    ASSUME NEW x \in Item, NEW b \in BOOLEAN
    PROVE  LET y == [x EXCEPT !.mcn = b]
           IN  y \in Item /\ y.state = x.state /\ y.running = x.running
BY DEF Item

\* ... of its type.
LEMMA ItemType ==
    ASSUME NEW x \in Item, NEW k \in {"ANY", "SMALL", "NORMAL"}
    PROVE  LET y == [x EXCEPT !.type = k]
           IN  y \in Item /\ y.state = x.state /\ y.running = x.running
BY DEF Item

\* A new item waits.
LEMMA NewItemFacts ==
    ASSUME NEW k \in {"ANY", "SMALL", "NORMAL"}, NEW m \in BOOLEAN
    PROVE  NewItem(k, m) \in Item /\ NewItem(k, m).state = "WAITING" /\ ~NewItem(k, m).running
BY DEF NewItem, Item

\* A failed item waits and does not count as running.
LEMMA FailedItemFacts ==
    ASSUME NEW x \in Item, NEW fatal \in BOOLEAN
    PROVE  /\ FailedItem(x, fatal) \in Item /\ FailedItem(x, fatal).state = "WAITING"
           /\ ~FailedItem(x, fatal).running
BY DEF FailedItem, Item

\* The token of a new item is a fresh one.
LEMMA NewTokenFacts ==
    ASSUME FreshTokens # {}
    PROVE  /\ NewToken \in Tokens /\ ~Present(NewToken)
           /\ \A c \in Conns : conns[c].token # NewToken
BY DEF NewToken, FreshTokens

\* Only the types of items are continued with.
LEMMA NextTypeFacts ==
    ASSUME ItemsOK, NEW t \in Tokens, Present(t)
    PROVE  NextType(t) \in {"ANY", "SMALL", "NORMAL"}
BY PresentFacts DEF NextType, Item

\* Changes of the fields of a connection.
LEMMA ConnAt ==
    ASSUME NEW x \in Connection, NEW l \in Steps
    PROVE  LET y == [x EXCEPT !.at = l]
           IN  y \in Connection /\ y.at = l /\ y.state = x.state /\ y.file = x.file
               /\ y.tasks = x.tasks /\ y.token = x.token
BY DEF Connection

\* ... of its state.
LEMMA ConnState ==
    ASSUME NEW x \in Connection, NEW s \in {"INF", "SND", "RUNNING", "IDLE"}
    PROVE  LET y == [x EXCEPT !.state = s]
           IN  y \in Connection /\ y.at = x.at /\ y.state = s /\ y.file = x.file
               /\ y.tasks = x.tasks /\ y.token = x.token
BY DEF Connection

\* ... of its posted tasks.
LEMMA ConnTasks ==
    ASSUME NEW x \in Connection, NEW T \in SUBSET {"state", "revive", "close"}
    PROVE  LET y == [x EXCEPT !.tasks = T]
           IN  y \in Connection /\ y.at = x.at /\ y.state = x.state /\ y.file = x.file
               /\ y.tasks = T /\ y.token = x.token
BY DEF Connection

\* ... of its file.
LEMMA ConnFile ==
    ASSUME NEW x \in Connection, NEW f \in Files \cup {"none"}
    PROVE  LET y == [x EXCEPT !.file = f]
           IN  y \in Connection /\ y.at = x.at /\ y.state = x.state /\ y.file = f
               /\ y.tasks = x.tasks /\ y.token = x.token
BY DEF Connection

\* ... of its token.
LEMMA ConnToken ==
    ASSUME NEW x \in Connection, NEW t \in Tokens
    PROVE  LET y == [x EXCEPT !.token = t]
           IN  y \in Connection /\ y.at = x.at /\ y.state = x.state /\ y.file = x.file
               /\ y.tasks = x.tasks /\ y.token = t
BY DEF Connection

\* ... of its kind.
LEMMA ConnSmall ==
    ASSUME NEW x \in Connection, NEW b \in BOOLEAN
    PROVE  LET y == [x EXCEPT !.small = b]
           IN  y \in Connection /\ y.at = x.at /\ y.state = x.state /\ y.file = x.file
               /\ y.tasks = x.tasks /\ y.token = x.token
BY DEF Connection

\* ... of what it does when it has failed.
LEMMA ConnFate ==
    ASSUME NEW x \in Connection, NEW fate \in {"put", "retry", "giveUp"}
    PROVE  LET y == [x EXCEPT !.fate = fate]
           IN  y \in Connection /\ y.at = x.at /\ y.state = x.state /\ y.file = x.file
               /\ y.tasks = x.tasks /\ y.token = x.token
BY DEF Connection

\* A connection gets another value.
LEMMA ConnReplaced ==
    ASSUME ConnsOK, NEW c \in Conns, NEW y \in Connection, conns' = [conns EXCEPT ![c] = y]
    PROVE  ConnsOK' /\ conns'[c] = y /\ \A d \in Conns \ {c} : conns'[d] = conns[d]
BY DEF ConnsOK

\* No connection.
LEMMA NoConnFacts ==
    /\ NoConn \in Connection /\ NoConn.at = "none" /\ NoConn.file = "none"
    /\ NoConn.token = "none" /\ NoConn.tasks = {} /\ NoConn.state = "INF"
BY DEF NoConn, Connection, Steps
-----------------------------------------------------------------------------
(* The invariant, and what each step has to keep to.                        *)

Attached(c) == conns[c].at \notin {"none", "found", "left", "spawnLeft"}

\* An idle connection that has come to rest: its posted task has been run.
Resting(c) == c \in idlers /\ conns[c].at = "open" /\ "state" \notin conns[c].tasks

\* Only a connection that downloads has a file, and an idle one does not.
ConnInv(c) ==
    /\ conns[c].at # "none" => conns[c].token \in Tokens
    /\ conns[c].at \in {"none", "found", "check", "idling"} => conns[c].file = "none"
    /\ conns[c].at = "idle" => /\ conns[c].state = "IDLE" /\ conns[c].file = "none"
                               /\ "state" \in conns[c].tasks
    /\ c \in idlers => /\ conns[c].state = "IDLE" /\ conns[c].file = "none"
                       /\ conns[c].at \in {"open", "failing", "spawnLeft", "left"}

\* The item of a connection is there and counts as a running one.
Runs(c) == user.mcn /\ Present(conns[c].token) /\ items[conns[c].token].running

\* The item of a connection at rest counts as running for another one only.
RestInv(c) == Resting(c) /\ Runs(c) => Associated(conns[c].token) # {c}

IInv ==
    /\ TypeInv /\ ActiveHasConnection
    /\ \A c \in Conns : ConnInv(c) /\ RestInv(c)

\* No connection comes to rest while its item counts as running.
RestKept(c) == Resting(c)' /\ Runs(c)' => Resting(c) /\ conns'[c].token = conns[c].token

\* An item gets active or running with a connection, and does not lose it while
\* it is.
Settled(t) ==
    Present(t)' =>
        /\ Active(t)' =>
              \/ Present(t) /\ Active(t) /\ Associated(t) \subseteq Associated(t)'
              \/ Associated(t)' # {}
        /\ user.mcn /\ items'[t].running =>
              \/ /\ Present(t) /\ items[t].running
                 /\ Associated(t) \subseteq Associated(t)'
              \/ \E d \in Associated(t)' : d \notin idlers'

Steady ==
    /\ TypeInv' /\ user' = user
    /\ \A c \in Conns : ConnInv(c)' /\ RestKept(c)
    /\ \A t \in Tokens : Settled(t)

LEMMA SteadyKeeps ==
    ASSUME IInv, Steady
    PROVE  IInv'
<1>1. ActiveHasConnection'
  <2> SUFFICES ASSUME NEW t \in Tokens, Present(t)', Active(t)' PROVE Associated(t)' # {}
    BY DEF ActiveHasConnection, Live
  <2>1. \/ Present(t) /\ Active(t) /\ Associated(t) \subseteq Associated(t)'
        \/ Associated(t)' # {}
    BY DEF Steady, Settled
  <2> QED BY <2>1 DEF IInv, ActiveHasConnection, Live
<1>2. ASSUME NEW c \in Conns PROVE RestInv(c)'
  <2> SUFFICES ASSUME Resting(c)', Runs(c)' PROVE Associated(conns[c].token)' # {c}
    BY DEF RestInv
  <2>1. Resting(c) /\ conns'[c].token = conns[c].token /\ user' = user
    BY DEF Steady, RestKept
  <2> DEFINE t == conns[c].token
  <2>2. t \in Tokens
    BY <2>1 DEF IInv, ConnInv, Resting
  <2>3. user.mcn /\ Present(t)' /\ items'[t].running
    BY <2>1 DEF Runs, Present
  <2>4. c \in idlers' /\ c \in Associated(t)
    BY <2>1 DEF Resting, Associated
  <2>5. Present(t) /\ items[t].running => Associated(t) # {c}
    BY <2>1, <2>3 DEF IInv, RestInv, Runs
  <2>6. Associated(t)' = Associated(conns[c].token)'
    BY <2>1 DEF Associated
  <2>7. Settled(t)
    BY <2>2 DEF Steady
  <2> HIDE DEF t
  <2>8. \/ /\ Present(t) /\ items[t].running
           /\ Associated(t) \subseteq Associated(t)'
        \/ \E d \in Associated(t)' : d \notin idlers'
    BY <2>3, <2>7 DEF Settled
  <2>9. Associated(t)' # {c}
    BY <2>4, <2>5, <2>8
  <2> QED BY <2>6, <2>9
<1> QED BY <1>1, <1>2 DEF IInv, Steady

\* An item that does not get active or running.
CalmItem(t) ==
    Present(t)' => \/ ~Active(t)' /\ ~items'[t].running
                   \/ /\ Present(t) /\ (Active(t)' => Active(t))
                      /\ items'[t].running => items[t].running

\* Nobody leaves an item.
NobodyLeaves ==
    \A d \in Conns : Attached(d) => Attached(d)' /\ conns'[d].token = conns[d].token

LEMMA CalmIsSettled ==
    ASSUME NEW t \in Tokens, CalmItem(t), NobodyLeaves
    PROVE  Settled(t)
<1>1. Associated(t) \subseteq Associated(t)'
  BY DEF NobodyLeaves, Attached, Associated
<1> QED BY <1>1 DEF CalmItem, Settled

\* Items that stay as they are.
LEMMA SameItems ==
    ASSUME TypeInv, items' = items, timer' = timer
    PROVE  ItemsOK' /\ TimerOK' /\ \A t \in Tokens : CalmItem(t)
BY DEF TypeInv, ItemsOK, TimerOK, CalmItem, Present, Active

\* An item is changed in place.
LEMMA ItemStep ==
    ASSUME TypeInv, NEW t \in Tokens, Present(t), NEW y \in Item,
           items' = [items EXCEPT ![t] = y],
           y.state = "ACTIVE" => items[t].state = "ACTIVE",
           y.running => items[t].running
    PROVE  /\ ItemsOK' /\ \A u \in Tokens : CalmItem(u)
           /\ \A u \in Tokens : Present(u) => Present(u)'
<1>1. ItemsOK' /\ items'[t] = y /\ \A u \in Tokens \ {t} : items'[u] = items[u]
  BY ItemReplaced DEF TypeInv
<1>2. ASSUME NEW u \in Tokens PROVE Present(u) => Present(u)'
  BY <1>1, NoItemFacts DEF Present
<1> QED BY <1>1, <1>2 DEF CalmItem, Active, Present
\* Items that are put away: the others stay as they were.
LEMMA PutFacts ==
    ASSUME NEW its \in [Tokens -> {NoItem} \cup Item], NEW S, Put(its, S)
    PROVE  /\ ItemsOK'
           /\ \A u \in Tokens : Present(u)' => u \notin S /\ items'[u] = its[u]
<1>1. items' = [t \in Tokens |-> IF t \in S THEN NoItem ELSE its[t]]
  BY DEF Put
<1> QED BY <1>1 DEF ItemsOK, Present

\* While the lock can be written, the timer holds no item.
LEMMA TimerFree ==
    ASSUME TypeInv, timer' = timer,
           WriteLock \/ \A u \in Tokens : Present(u) => Present(u)'
    PROVE  TimerOK'
BY DEF TypeInv, TimerOK, WriteLock, Present

\* Connections that stay as they are.
LEMMA SameConns ==
    ASSUME IInv, conns' = conns, idlers' = idlers, user' = user
    PROVE  ConnsOK' /\ NobodyLeaves /\ \A d \in Conns : ConnInv(d)' /\ RestKept(d)
BY DEF IInv, TypeInv, ConnsOK, NobodyLeaves, Attached, ConnInv, RestKept, Resting

\* Connection c gets the value y.
LEMMA ConnStep ==
    ASSUME IInv, NEW c \in Conns, NEW y \in Connection, conns' = [conns EXCEPT ![c] = y],
           idlers' \subseteq idlers \cup {c},
           y.at # "none" => y.token \in Tokens,
           y.at \in {"none", "found", "check", "idling"} => y.file = "none",
           y.at = "idle" => y.state = "IDLE" /\ y.file = "none" /\ "state" \in y.tasks,
           c \in idlers' => /\ y.state = "IDLE" /\ y.file = "none"
                           /\ y.at \in {"open", "failing", "spawnLeft", "left"},
           c \in idlers' /\ y.at = "open" /\ "state" \notin y.tasks /\ Runs(c)'
               => Resting(c) /\ y.token = conns[c].token
    PROVE  /\ ConnsOK' /\ conns'[c] = y /\ \A d \in Conns \ {c} : conns'[d] = conns[d]
           /\ \A d \in Conns : ConnInv(d)' /\ RestKept(d)
<1>1. ConnsOK' /\ conns'[c] = y /\ \A d \in Conns \ {c} : conns'[d] = conns[d]
  BY ConnReplaced DEF IInv, TypeInv
<1>2. ConnInv(c)' /\ RestKept(c)
  BY <1>1 DEF ConnInv, RestKept, Resting
<1>3. ASSUME NEW d \in Conns \ {c} PROVE ConnInv(d)' /\ RestKept(d)
  <2>1. conns'[d] = conns[d] /\ (d \in idlers' => d \in idlers) /\ ConnInv(d)
    BY <1>1 DEF IInv
  <2> QED BY <2>1 DEF ConnInv, RestKept, Resting
<1> QED BY <1>1, <1>2, <1>3

\* What stays when nobody leaves an item but c, which does not.
LEMMA StaysAttached ==
    ASSUME NEW c \in Conns, \A d \in Conns \ {c} : conns'[d] = conns[d],
           Attached(c) => Attached(c)' /\ conns'[c].token = conns[c].token
    PROVE  NobodyLeaves
BY DEF NobodyLeaves, Attached

\* A task is posted to a connection.
LEMMA TaskPosted ==
    ASSUME IInv, NEW c \in Conns, NEW task \in {"revive", "close"},
           conns' = [conns EXCEPT ![c].tasks = @ \cup {task}],
           idlers' = idlers, user' = user
    PROVE  ConnsOK' /\ NobodyLeaves /\ \A d \in Conns : ConnInv(d)' /\ RestKept(d)
<1> DEFINE y == [conns[c] EXCEPT !.tasks = conns[c].tasks \cup {task}]
<1>1. conns[c] \in Connection
  BY DEF IInv, TypeInv, ConnsOK
<1>2. conns[c].tasks \cup {task} \in SUBSET {"state", "revive", "close"}
  BY <1>1 DEF Connection
<1>3. /\ y \in Connection /\ y.at = conns[c].at /\ y.state = conns[c].state
      /\ y.file = conns[c].file /\ y.token = conns[c].token
      /\ y.tasks = conns[c].tasks \cup {task}
  BY <1>1, <1>2, ConnTasks
<1>4. conns' = [conns EXCEPT ![c] = y]
  OBVIOUS
<1> HIDE DEF y
<1>5. ConnInv(c)
  BY DEF IInv
<1>6. /\ ConnsOK' /\ conns'[c] = y /\ \A d \in Conns \ {c} : conns'[d] = conns[d]
      /\ \A d \in Conns : ConnInv(d)' /\ RestKept(d)
  BY <1>3, <1>4, <1>5, ConnStep DEF ConnInv, Resting
<1>7. NobodyLeaves
  BY <1>3, <1>6, StaysAttached DEF Attached
<1> QED BY <1>6, <1>7

\* getDownloadConnection posts a task to an idle connection, or none.
LEMMA CheckIdleFacts ==
    ASSUME IInv, NEW small \in BOOLEAN, CheckIdle(small), idlers' = idlers, user' = user
    PROVE  /\ ConnsOK' /\ NobodyLeaves /\ \A d \in Conns : ConnInv(d)' /\ RestKept(d)
           /\ missed' \subseteq BOOLEAN /\ mislaid' \in BOOLEAN
<1>1. missed' \subseteq BOOLEAN /\ mislaid' \in BOOLEAN
  BY DEF CheckIdle, IInv, TypeInv, SetsOK
<1>2. CASE conns' = conns
  BY <1>1, <1>2, SameConns
<1>3. CASE \E c \in IdlersFor(small) : conns' = [conns EXCEPT ![c].tasks = @ \cup {"revive"}]
  <2>1. PICK c \in Conns : conns' = [conns EXCEPT ![c].tasks = @ \cup {"revive"}]
    BY <1>3 DEF IdlersFor, IInv, TypeInv, SetsOK
  <2> QED BY <1>1, <2>1, TaskPosted
<1> QED BY <1>2, <1>3 DEF CheckIdle

\* The queue adds a file; a user comes online.
LEMMA QueueSteady ==
    ASSUME IInv, (\E f \in Files : AddFile(f)) \/ ComeOnline
    PROVE  Steady
<1>1. UNCHANGED <<items, expected, idlers, timer, user>>
  BY DEF AddFile, ComeOnline, envVars
<1>2. /\ ConnsOK' /\ NobodyLeaves /\ \A d \in Conns : ConnInv(d)' /\ RestKept(d)
      /\ missed' \subseteq BOOLEAN /\ mislaid' \in BOOLEAN
  <2>1. CASE \E f \in Files : AddFile(f)
    <3>1. PICK f \in Files : CheckIdle(f \in SmallFiles)
      BY <2>1 DEF AddFile
    <3>2. (f \in SmallFiles) \in BOOLEAN
      OBVIOUS
    <3> HIDE DEF AddFile
    <3> QED BY <1>1, <3>1, <3>2, CheckIdleFacts
  <2>2. CASE ComeOnline
    <3>1. CheckIdle(FALSE) \/ UNCHANGED <<conns, missed, mislaid>>
      BY <2>2 DEF ComeOnline
    <3> QED BY <1>1, <3>1, CheckIdleFacts, SameConns DEF IInv, TypeInv, SetsOK
  <2> QED BY <2>1, <2>2
<1>3. queued' \subseteq added' /\ added' \subseteq Files
  BY DEF AddFile, ComeOnline, IInv, TypeInv, SetsOK
<1>4. SetsOK'
  BY <1>1, <1>2, <1>3 DEF SetsOK, IInv, TypeInv
<1> QED BY <1>1, <1>2, <1>4, SameItems, CalmIsSettled DEF Steady, TypeInv, IInv

\* Steps that change no connection and no item.
LEMMA ElsewhereSteady ==
    ASSUME IInv, UNCHANGED <<items, conns, idlers, user, timer>>, SetsOK'
    PROVE  Steady
BY SameItems, SameConns, CalmIsSettled DEF Steady, TypeInv, IInv

LEMMA OutsideSteady ==
    ASSUME IInv, GoOffline \/ LimitsReached \/ LimitsFree \/ \E t \in Tokens : Lose(t)
    PROVE  Steady
<1>1. UNCHANGED <<items, conns, idlers, user, timer>>
  BY DEF GoOffline, LimitsReached, LimitsFree, Lose, queueVars, envVars
<1>2. SetsOK'
  BY DEF GoOffline, LimitsReached, LimitsFree, Lose, queueVars, IInv, TypeInv, SetsOK
<1> QED BY <1>1, <1>2, ElsewhereSteady
\* An item for a fresh token.
LEMMA NewItemStep ==
    ASSUME TypeInv, FreshTokens # {}, NEW k \in {"ANY", "SMALL", "NORMAL"}, NEW m \in BOOLEAN,
           items' = [items EXCEPT ![NewToken] = NewItem(k, m)]
    PROVE  /\ ItemsOK' /\ \A u \in Tokens : CalmItem(u)
           /\ \A u \in Tokens : Present(u) => Present(u)'
<1>1. NewToken \in Tokens /\ ~Present(NewToken)
  BY NewTokenFacts
<1>2. /\ NewItem(k, m) \in Item /\ NewItem(k, m).state = "WAITING"
      /\ ~NewItem(k, m).running
  BY NewItemFacts
<1> DEFINE n == NewToken
           y == NewItem(k, m)
<1> HIDE DEF n, y
<1>3. /\ ItemsOK' /\ items'[n] = y /\ \A u \in Tokens \ {n} : items'[u] = items[u]
  BY <1>1, <1>2, ItemReplaced DEF TypeInv, n, y
<1>4. \A u \in Tokens : CalmItem(u)
  BY <1>2, <1>3 DEF CalmItem, Active, Present, y
<1>5. \A u \in Tokens : Present(u) => Present(u)'
  BY <1>1, <1>3 DEF Present, n
<1> QED BY <1>3, <1>4, <1>5

\* A request asks for an item.
LEMMA RequestSteady ==
    ASSUME IInv, NEW small \in BOOLEAN, RequestItem(small)
    PROVE  Steady
<1>1. /\ UNCHANGED <<expected, conns, idlers, queued, added, timer, user>>
      /\ WriteLock /\ FreshTokens # {} /\ missed' = missed \ {small}
  BY DEF RequestItem, envVars
<1>2. TypeInv /\ ItemsOK
  BY DEF IInv, TypeInv
<1>3. ItemsOK' /\ \A u \in Tokens : CalmItem(u)
  <2>1. CASE items' = [items EXCEPT ![NewToken] = NewItem(IF small THEN "SMALL" ELSE "ANY", FALSE)]
    <3>1. PICK k \in {"SMALL", "ANY"} : items' = [items EXCEPT ![NewToken] = NewItem(k, FALSE)]
      BY <2>1
    <3> QED BY <1>1, <1>2, <3>1, NewItemStep
  <2>2. CASE \E t \in Obstacles(items, small) :
               items' = [items EXCEPT ![t] = IF @.mcn /\ ~@.running THEN ResetFatalError(@) ELSE @]
    <3>1. PICK t \in Obstacles(items, small) :
             items' = [items EXCEPT ![t] = IF @.mcn /\ ~@.running THEN ResetFatalError(@) ELSE @]
      BY <2>2
    <3>2. t \in Tokens /\ Present(t) /\ items[t] \in Item
      BY <1>2, <3>1, PresentFacts DEF Obstacles, Present
    <3> DEFINE y == IF items[t].mcn /\ ~items[t].running THEN ResetFatalError(items[t]) ELSE items[t]
    <3>3. items' = [items EXCEPT ![t] = y]
      BY <3>1
    <3>4. y = items[t] \/ y = [items[t] EXCEPT !.forced = TRUE]
      BY DEF ResetFatalError
    <3> HIDE DEF y
    <3>5. y \in Item /\ y.state = items[t].state /\ y.running = items[t].running
      BY <3>2, <3>4, ItemForced
    <3> QED BY <1>2, <3>2, <3>3, <3>5, ItemStep
  <2>3. CASE items' = items
    BY <1>1, <1>2, <2>3, SameItems
  <2> QED BY <2>1, <2>2, <2>3 DEF RequestItem
<1>4. SetsOK'
  <2>1. mislaid' \in BOOLEAN
    BY DEF RequestItem, IInv, TypeInv, SetsOK
  <2> QED BY <1>1, <2>1 DEF IInv, TypeInv, SetsOK
<1>5. TimerOK'
  BY <1>1, <1>2, TimerFree
<1> QED BY <1>1, <1>3, <1>4, <1>5, SameConns, CalmIsSettled DEF Steady, TypeInv

\* Steps that change items and no connection.
LEMMA ItemsSteady ==
    ASSUME IInv, UNCHANGED <<conns, idlers, queueVars, user>>, expected' \subseteq Tokens,
           ItemsOK', TimerOK', \A u \in Tokens : CalmItem(u)
    PROVE  Steady
<1>1. SetsOK'
  BY DEF IInv, TypeInv, SetsOK, queueVars
<1> QED BY <1>1, SameConns, CalmIsSettled DEF Steady, TypeInv

\* The user wants an item at once.
LEMMA ForceSteady ==
    ASSUME IInv, NEW t \in Tokens, ForceItem(t)
    PROVE  Steady
<1>1. /\ UNCHANGED <<expected, idlers, queueVars, timer, user>> /\ Present(t)
  BY DEF ForceItem
<1>2. TypeInv /\ items[t] \in Item
  BY <1>1, PresentFacts DEF IInv, TypeInv
<1>3. CASE conns' = conns /\ items' = [items EXCEPT ![t].forced = TRUE]
  <2> DEFINE y == [items[t] EXCEPT !.forced = TRUE]
  <2>1. y \in Item /\ y.state = items[t].state /\ y.running = items[t].running
    BY <1>2, ItemForced
  <2>2. items' = [items EXCEPT ![t] = y]
    BY <1>3
  <2> HIDE DEF y
  <2>3. /\ ItemsOK' /\ \A u \in Tokens : CalmItem(u)
        /\ \A u \in Tokens : Present(u) => Present(u)'
    BY <1>1, <1>2, <2>1, <2>2, ItemStep
  <2>4. TimerOK'
    BY <1>1, <1>2, <2>3, TimerFree
  <2>5. expected' \subseteq Tokens
    BY <1>1 DEF IInv, TypeInv, SetsOK
  <2> QED BY <1>1, <1>3, <2>3, <2>4, <2>5, ItemsSteady
<1>4. CASE items' = items /\ \E c \in idlers : conns' = [conns EXCEPT ![c].tasks = @ \cup {"revive"}]
  <2>1. PICK c \in Conns : conns' = [conns EXCEPT ![c].tasks = @ \cup {"revive"}]
    BY <1>4 DEF IInv, TypeInv, SetsOK
  <2>2. ConnsOK' /\ NobodyLeaves /\ \A d \in Conns : ConnInv(d)' /\ RestKept(d)
    BY <1>1, <2>1, TaskPosted
  <2>3. ItemsOK' /\ TimerOK' /\ \A u \in Tokens : CalmItem(u)
    BY <1>1, <1>2, <1>4, SameItems
  <2>4. SetsOK'
    BY <1>1 DEF IInv, TypeInv, SetsOK, queueVars
  <2> QED BY <1>1, <2>2, <2>3, <2>4, CalmIsSettled DEF Steady, TypeInv
<1> QED BY <1>3, <1>4 DEF ForceItem

\* What the timer makes of an item: it changes its type and its attempt only.
LEMMA VisitSteady ==
    ASSUME IInv, NEW t \in Tokens, Visit(t)
    PROVE  Steady
<1>1. UNCHANGED <<expected, conns, idlers, queueVars, user>> /\ Present(t)
  BY DEF Visit
<1>2. TypeInv /\ items[t] \in Item
  BY <1>1, PresentFacts DEF IInv, TypeInv
<1>3. PICK v \in {"remove", "timeout", "nothing", "connect", "later"} :
         /\ timer' = IF v \in {"timeout", "connect"}
                     THEN [timer EXCEPT !.token = t, !.plan = v]
                     ELSE [timer EXCEPT !.gone = IF v = "later" THEN @ ELSE @ \cup {t}]
         /\ items' = IF v \in {"nothing", "later", "connect"}
                     THEN [items EXCEPT ![t].type = NextType(t), ![t].forced = FALSE]
                     ELSE items
  BY DEF Visit, Verdicts
<1>4. /\ ItemsOK' /\ \A u \in Tokens : CalmItem(u)
      /\ \A u \in Tokens : Present(u) => Present(u)'
  <2>1. CASE items' = items
    BY <1>2, <2>1 DEF TypeInv, ItemsOK, CalmItem, Present, Active
  <2>2. CASE items' = [items EXCEPT ![t].type = NextType(t), ![t].forced = FALSE]
    <3> DEFINE x == [items[t] EXCEPT !.type = NextType(t)]
               y == [x EXCEPT !.forced = FALSE]
    <3>1. x \in Item /\ x.state = items[t].state /\ x.running = items[t].running
      BY <1>1, <1>2, NextTypeFacts, ItemType DEF TypeInv
    <3>2. items' = [items EXCEPT ![t] = y]
      BY <2>2
    <3> HIDE DEF x
    <3>3. y \in Item /\ y.state = x.state /\ y.running = x.running
      BY <3>1, ItemForced
    <3> HIDE DEF y
    <3> QED BY <1>1, <1>2, <3>1, <3>2, <3>3, ItemStep
  <2> QED BY <1>3, <2>1, <2>2
<1>5. TimerOK'
  <2>1. timer \in [token : Tokens \cup {"none"}, plan : {"none", "timeout", "connect"},
                    gone : SUBSET Tokens]
    BY <1>2 DEF TypeInv, TimerOK
  <2>2. timer' \in [token : Tokens \cup {"none"}, plan : {"none", "timeout", "connect"},
                     gone : SUBSET Tokens]
    BY <1>3, <2>1
  <2>3. timer'.token \in {t, timer.token}
    BY <1>3, <2>1
  <2> QED BY <1>1, <1>2, <1>4, <2>2, <2>3 DEF TypeInv, TimerOK, Present
<1>6. expected' \subseteq Tokens
  BY <1>1, <1>2 DEF TypeInv, SetsOK
<1> QED BY <1>1, <1>4, <1>5, <1>6, ItemsSteady

\* The timer gives up waiting for a connection, asks for one, or cannot.
LEMMA ApplySteady ==
    ASSUME IInv, NEW t \in Tokens, TimeOut(t) \/ Connect(t) \/ ConnectFails(t)
    PROVE  Steady
<1>1. /\ UNCHANGED <<conns, idlers, queueVars, user>> /\ expected' \subseteq Tokens
      /\ timer.token = t /\ timer' = [timer EXCEPT !.token = "none", !.plan = "none"]
  BY DEF TimeOut, Connect, ConnectFails, Apply, envVars, IInv, TypeInv, SetsOK
<1>2. TypeInv /\ TimerOK
  BY DEF IInv, TypeInv
<1>3. Present(t) /\ items[t] \in Item
  <2>1. t # "none"
    BY ConnectionsAssumption
  <2>2. Present(t)
    BY <1>1, <1>2, <2>1 DEF TimerOK
  <2> QED BY <1>2, <2>2, PresentFacts DEF TypeInv
<1>4. ItemsOK' /\ \A u \in Tokens : CalmItem(u)
  <2>1. PICK s \in {"WAITING", "CONNECTING"}, b \in BOOLEAN :
           \/ items' = [items EXCEPT ![t].fatal = b, ![t].state = s]
           \/ items' = [items EXCEPT ![t].state = s, ![t].fatal = b]
           \/ items' = [items EXCEPT ![t].state = s]
    BY DEF TimeOut, Connect, ConnectFails
  <2> DEFINE x == [items[t] EXCEPT !.fatal = b]
             y == [x EXCEPT !.state = s]
             z == [items[t] EXCEPT !.state = s]
             w == [z EXCEPT !.fatal = b]
  <2>2. x \in Item /\ x.state = items[t].state /\ x.running = items[t].running
    BY <1>3, ItemFatal
  <2>3. y \in Item /\ y.state = s /\ y.running = x.running
    <3> HIDE DEF x
    <3> QED BY <2>2, ItemState
  <2>4. z \in Item /\ z.state = s /\ z.running = items[t].running
    BY <1>3, ItemState
  <2>5. w \in Item /\ w.state = z.state /\ w.running = z.running
    <3> HIDE DEF z
    <3> QED BY <2>4, ItemFatal
  <2>6. \/ items' = [items EXCEPT ![t] = y] \/ items' = [items EXCEPT ![t] = w]
        \/ items' = [items EXCEPT ![t] = z]
    BY <2>1
  <2> HIDE DEF x, y, z, w
  <2>7. CASE items' = [items EXCEPT ![t] = y]
    BY <1>2, <1>3, <2>2, <2>3, <2>7, ItemStep
  <2>8. CASE items' = [items EXCEPT ![t] = w]
    BY <1>2, <1>3, <2>4, <2>5, <2>8, ItemStep
  <2>9. CASE items' = [items EXCEPT ![t] = z]
    BY <1>2, <1>3, <2>4, <2>9, ItemStep
  <2> QED BY <2>6, <2>7, <2>8, <2>9
<1>5. TimerOK'
  BY <1>1, <1>2 DEF TimerOK
<1> QED BY <1>1, <1>4, <1>5, ItemsSteady

\* Items that are put away from items that are like the present ones or calmer.
LEMMA PutCalm ==
    ASSUME TypeInv, NEW S, Put(items, S)
    PROVE  ItemsOK' /\ \A u \in Tokens : CalmItem(u)
<1>1. /\ ItemsOK'
      /\ \A u \in Tokens : Present(u)' => u \notin S /\ items'[u] = items[u]
  BY PutFacts DEF TypeInv, ItemsOK
<1> QED BY <1>1 DEF CalmItem, Active, Present

\* The collected items are removed.
LEMMA RemoveSteady ==
    ASSUME IInv, RemoveCollected
    PROVE  Steady
<1>1. /\ UNCHANGED <<expected, conns, idlers, queueVars, user>>
      /\ WriteLock /\ timer' = [timer EXCEPT !.gone = {}]
      /\ Put(items, timer.gone)
  BY DEF RemoveCollected, envVars
<1>2. TypeInv
  BY DEF IInv
<1>3. ItemsOK' /\ \A u \in Tokens : CalmItem(u)
  BY <1>1, <1>2, PutCalm
<1>4. TimerOK'
  BY <1>1, <1>2 DEF TypeInv, TimerOK, WriteLock
<1>5. expected' \subseteq Tokens
  BY <1>1, <1>2 DEF TypeInv, SetsOK
<1> QED BY <1>1, <1>3, <1>4, <1>5, ItemsSteady

\* An item fails: it waits, and an extra one may go.
LEMMA FailDownloadCalm ==
    ASSUME TypeInv, NEW t \in Tokens, Present(t), NEW fatal \in BOOLEAN,
           FailDownload(t, fatal)
    PROVE  /\ ItemsOK' /\ \A u \in Tokens : CalmItem(u)
           /\ Present(t)' => ~Active(t)' /\ ~items'[t].running
<1> DEFINE its == [items EXCEPT ![t] = FailedItem(items[t], fatal)]
<1>1. items[t] \in Item
  BY PresentFacts DEF TypeInv
<1>2. /\ FailedItem(items[t], fatal) \in Item
      /\ FailedItem(items[t], fatal).state = "WAITING" /\ ~FailedItem(items[t], fatal).running
  BY <1>1, FailedItemFacts
<1>3. /\ its \in [Tokens -> {NoItem} \cup Item]
      /\ its[t].state = "WAITING" /\ ~its[t].running
      /\ \A u \in Tokens \ {t} : its[u] = items[u]
  BY <1>2 DEF TypeInv, ItemsOK
<1>4. PICK S : Put(its, S)
  BY DEF FailDownload
<1> HIDE DEF its
<1>5. /\ ItemsOK'
      /\ \A u \in Tokens : Present(u)' => u \notin S /\ items'[u] = its[u]
  BY <1>3, <1>4, PutFacts
<1> QED BY <1>3, <1>5 DEF CalmItem, Active, Present

\* The remote client does not speak the protocol.
LEMMA UnsupportedSteady ==
    ASSUME IInv, NEW t \in Tokens, Unsupported(t)
    PROVE  Steady
<1>1. /\ UNCHANGED <<conns, idlers, queueVars, timer, user>>
      /\ WriteLock /\ Present(t) /\ FailDownload(t, TRUE) /\ expected' = expected \ {t}
  BY DEF Unsupported
<1>2. TypeInv
  BY DEF IInv
<1>3. ItemsOK' /\ \A u \in Tokens : CalmItem(u)
  BY <1>1, <1>2, FailDownloadCalm
<1>4. TimerOK'
  BY <1>1, <1>2, TimerFree
<1>5. expected' \subseteq Tokens
  BY <1>1, <1>2 DEF TypeInv, SetsOK
<1> QED BY <1>1, <1>3, <1>4, <1>5, ItemsSteady
-----------------------------------------------------------------------------
(* Steps of a connection.                                                   *)

\* Connection c changes, and no item gets active or running. If c leaves its item,
\* that one is neither afterwards.
LEMMA ConnSteady ==
    ASSUME IInv, NEW c \in Conns, NEW y \in Connection, conns' = [conns EXCEPT ![c] = y],
           SetsOK', ItemsOK', TimerOK', user' = user, \A u \in Tokens : CalmItem(u),
           idlers' \subseteq idlers \cup {c},
           y.at # "none" => y.token \in Tokens,
           y.at \in {"none", "found", "check", "idling"} => y.file = "none",
           y.at = "idle" => y.state = "IDLE" /\ y.file = "none" /\ "state" \in y.tasks,
           c \in idlers' => /\ y.state = "IDLE" /\ y.file = "none"
                           /\ y.at \in {"open", "failing", "spawnLeft", "left"},
           c \in idlers' /\ y.at = "open" /\ "state" \notin y.tasks /\ Runs(c)'
               => Resting(c) /\ y.token = conns[c].token,
           NEW t, t = conns[c].token,
           \/ ~Attached(c)
           \/ y.token = t /\ y.at \notin {"none", "found", "left", "spawnLeft"}
           \/ Present(t)' => ~Active(t)' /\ ~items'[t].running
    PROVE  Steady
<1>1. /\ ConnsOK' /\ conns'[c] = y /\ \A d \in Conns \ {c} : conns'[d] = conns[d]
      /\ \A d \in Conns : ConnInv(d)' /\ RestKept(d)
  BY ConnStep
<1>2. ASSUME NEW u \in Tokens PROVE Settled(u)
  <2>1. CalmItem(u)
    OBVIOUS
  <2>2. CASE Present(u)' => ~Active(u)' /\ ~items'[u].running
    BY <2>2 DEF Settled
  <2>3. CASE ~(Present(u)' => ~Active(u)' /\ ~items'[u].running)
    <3>1. c \in Associated(u) => c \in Associated(u)'
      BY <1>1, <2>3 DEF Associated, Attached
    <3>2. Associated(u) \subseteq Associated(u)'
      BY <1>1, <3>1 DEF Associated
    <3> QED BY <2>1, <3>2 DEF Settled, CalmItem
  <2> QED BY <2>2, <2>3
<1> QED BY <1>1, <1>2 DEF Steady, TypeInv

\* Connection c changes and does not leave its item; the items stay as they are.
LEMMA ConnAlone ==
    ASSUME IInv, NEW c \in Conns, NEW y \in Connection, conns' = [conns EXCEPT ![c] = y],
           SetsOK', items' = items, timer' = timer, user' = user,
           idlers' \subseteq idlers \cup {c},
           y.token = conns[c].token, conns[c].at # "none",
           y.at \notin {"none", "found", "left", "spawnLeft"},
           y.at \in {"check", "idling"} => y.file = "none",
           y.at = "idle" => y.state = "IDLE" /\ y.file = "none" /\ "state" \in y.tasks,
           c \in idlers' => /\ y.state = "IDLE" /\ y.file = "none"
                           /\ y.at \in {"open", "failing"},
           c \in idlers' /\ y.at = "open" /\ "state" \notin y.tasks => Resting(c)
    PROVE  Steady
<1>1. ItemsOK' /\ TimerOK' /\ \A u \in Tokens : CalmItem(u)
  BY SameItems DEF IInv
<1>2. y.token \in Tokens
  BY DEF IInv, ConnInv
<1> DEFINE t == conns[c].token
<1>3. t = conns[c].token
  OBVIOUS
<1> HIDE DEF t
<1> QED BY <1>1, <1>2, <1>3, ConnSteady

\* Idle connections are closed after a while.
LEMMA CloseInactiveSteady ==
    ASSUME IInv, NEW c \in Conns, CloseInactive(c)
    PROVE  Steady
<1>1. /\ UNCHANGED <<items, expected, idlers, queueVars, timer, user>>
      /\ conns' = [conns EXCEPT ![c].tasks = @ \cup {"close"}]
  BY DEF CloseInactive, envVars
<1>2. ConnsOK' /\ NobodyLeaves /\ \A d \in Conns : ConnInv(d)' /\ RestKept(d)
  BY <1>1, TaskPosted
<1>3. ItemsOK' /\ TimerOK' /\ \A u \in Tokens : CalmItem(u)
  BY <1>1, SameItems DEF IInv
<1>4. SetsOK'
  BY <1>1 DEF IInv, TypeInv, SetsOK, queueVars
<1> QED BY <1>1, <1>2, <1>3, <1>4, CalmIsSettled DEF Steady, TypeInv

\* The queue gives the connection a file, or it is closed or gets idle.
LEMMA CheckDownloadsSteady ==
    ASSUME IInv, NEW c \in Conns, CheckDownloads(c)
    PROVE  Steady
<1>1. UNCHANGED <<items, idlers, timer, user>> /\ conns[c].at = "check"
  BY DEF CheckDownloads, envVars
<1>2. SetsOK'
  BY DEF CheckDownloads, envVars, queueVars, IInv, TypeInv, SetsOK
<1>3. /\ conns[c] \in Connection /\ ConnInv(c)
      /\ conns[c].file = "none" /\ conns[c].at # "none" /\ c \notin idlers
  BY <1>1 DEF IInv, TypeInv, ConnsOK, ConnInv
<1>4. conns[c].tasks \cup {"state"} \in SUBSET {"state", "revive", "close"}
      /\ conns[c].tasks \cup {"close"} \in SUBSET {"state", "revive", "close"}
  BY <1>3 DEF Connection
<1>5. PICK y \in Connection : /\ conns' = [conns EXCEPT ![c] = y]
                              /\ y.token = conns[c].token /\ y.at \in {"open", "idling"}
                              /\ y.at = "idling" => y.file = "none"
  <2>1. CASE \E f \in Eligible(ConnType(c)) :
               conns' = [conns EXCEPT ![c].at = "open", ![c].state = "SND", ![c].file = f,
                                      ![c].tasks = @ \cup {"state"}]
    <3>1. PICK f \in Eligible(ConnType(c)) :
               conns' = [conns EXCEPT ![c].at = "open", ![c].state = "SND", ![c].file = f,
                                      ![c].tasks = @ \cup {"state"}]
      BY <2>1
    <3>2. f \in Files
      <4>1. ConnType(c) \in {"ANY", "SMALL", "NORMAL"}
        BY DEF ConnType
      <4>2. f \in queued
        BY <4>1 DEF Eligible, Free
      <4> QED BY <4>2 DEF IInv, TypeInv, SetsOK
    <3> DEFINE y == [conns[c] EXCEPT !.at = "open", !.state = "SND", !.file = f,
                                     !.tasks = conns[c].tasks \cup {"state"}]
    <3>3. y \in Connection /\ y.token = conns[c].token /\ y.at = "open"
      BY <1>3, <1>4, <3>2 DEF Connection, Steps
    <3>4. conns' = [conns EXCEPT ![c] = y]
      BY <3>1
    <3> QED BY <3>3, <3>4
  <2>2. CASE conns' = [conns EXCEPT ![c].at = "open", ![c].tasks = @ \cup {"close"}]
    <3> DEFINE y == [conns[c] EXCEPT !.at = "open", !.tasks = conns[c].tasks \cup {"close"}]
    <3>3. y \in Connection /\ y.token = conns[c].token /\ y.at = "open"
      BY <1>3, <1>4 DEF Connection, Steps
    <3>4. conns' = [conns EXCEPT ![c] = y]
      BY <2>2
    <3> QED BY <3>3, <3>4
  <2>3. CASE Goes(c, "idling")
    <3> DEFINE y == [conns[c] EXCEPT !.at = "idling"]
    <3>3. y \in Connection /\ y.token = conns[c].token /\ y.at = "idling" /\ y.file = "none"
      BY <1>3, ConnAt DEF Steps
    <3>4. conns' = [conns EXCEPT ![c] = y]
      BY <2>3 DEF Goes
    <3> QED BY <3>3, <3>4
  <2> QED BY <2>1, <2>2, <2>3 DEF CheckDownloads
<1> QED BY <1>1, <1>2, <1>3, <1>5, ConnAlone

\* The connection is about to get idle, or is closed when another one is idle.
LEMMA CheckIdlersSteady ==
    ASSUME IInv, NEW c \in Conns, CheckIdlers(c)
    PROVE  Steady
<1>1. UNCHANGED <<items, idlers, timer, user>> /\ conns[c].at = "idling"
  BY DEF CheckIdlers, envVars
<1>2. SetsOK'
  BY DEF CheckIdlers, envVars, queueVars, IInv, TypeInv, SetsOK
<1>3. /\ conns[c] \in Connection /\ conns[c].file = "none" /\ c \notin idlers
  BY <1>1 DEF IInv, TypeInv, ConnsOK, ConnInv
<1>4. conns[c].tasks \cup {"state"} \in SUBSET {"state", "revive", "close"}
      /\ conns[c].tasks \cup {"close"} \in SUBSET {"state", "revive", "close"}
  BY <1>3 DEF Connection
<1>5. PICK y \in Connection :
         /\ conns' = [conns EXCEPT ![c] = y]
         /\ y.token = conns[c].token /\ y.at \in {"open", "idle"} /\ y.file = "none"
         /\ y.at = "idle" => y.state = "IDLE" /\ "state" \in y.tasks
  <2>1. CASE conns' = [conns EXCEPT ![c].at = "idle", ![c].state = "IDLE",
                                    ![c].tasks = @ \cup {"state"}]
    <3> DEFINE y == [conns[c] EXCEPT !.at = "idle", !.state = "IDLE",
                                     !.tasks = conns[c].tasks \cup {"state"}]
    <3>1. y \in Connection /\ y.token = conns[c].token /\ y.at = "idle"
          /\ y.file = "none" /\ y.state = "IDLE" /\ "state" \in y.tasks
      BY <1>3, <1>4 DEF Connection, Steps
    <3>2. conns' = [conns EXCEPT ![c] = y]
      BY <2>1
    <3> QED BY <3>1, <3>2
  <2>2. CASE conns' = [conns EXCEPT ![c].at = "open", ![c].tasks = @ \cup {"close"}]
    <3> DEFINE y == [conns[c] EXCEPT !.at = "open", !.tasks = conns[c].tasks \cup {"close"}]
    <3>1. y \in Connection /\ y.token = conns[c].token /\ y.at = "open" /\ y.file = "none"
      BY <1>3, <1>4 DEF Connection, Steps
    <3>2. conns' = [conns EXCEPT ![c] = y]
      BY <2>2
    <3> QED BY <3>1, <3>2
  <2> QED BY <2>1, <2>2 DEF CheckIdlers
<1> QED BY <1>1, <1>2, <1>3, <1>5, ConnAlone

\* The connection gets on the list while its posted task has still to be run.
LEMMA BecomeIdleSteady ==
    ASSUME IInv, NEW c \in Conns, BecomeIdle(c)
    PROVE  Steady
<1>1. /\ UNCHANGED <<items, timer, user>> /\ conns[c].at = "idle"
      /\ idlers' = idlers \cup {c} /\ Goes(c, "open")
  BY DEF BecomeIdle, envVars
<1>2. SetsOK'
  BY <1>1 DEF BecomeIdle, envVars, queueVars, IInv, TypeInv, SetsOK
<1>3. /\ conns[c] \in Connection /\ conns[c].file = "none" /\ conns[c].state = "IDLE"
      /\ "state" \in conns[c].tasks
  BY <1>1 DEF IInv, TypeInv, ConnsOK, ConnInv
<1> DEFINE y == [conns[c] EXCEPT !.at = "open"]
<1>4. /\ y \in Connection /\ y.token = conns[c].token /\ y.at = "open" /\ y.file = "none"
      /\ y.state = "IDLE" /\ "state" \in y.tasks
  BY <1>3, ConnAt DEF Steps
<1>5. conns' = [conns EXCEPT ![c] = y]
  BY <1>1 DEF Goes
<1> HIDE DEF y
<1> QED BY <1>1, <1>2, <1>3, <1>4, <1>5, ConnAlone

\* The data starts or has been received.
LEMMA TransferSteady ==
    ASSUME IInv, NEW c \in Conns, Start(c) \/ Finish(c)
    PROVE  Steady
<1>1. /\ UNCHANGED <<items, idlers, timer, user>> /\ conns[c].at = "open"
      /\ conns[c].state \in {"SND", "RUNNING"}
  BY DEF Start, Finish, envVars
<1>2. SetsOK'
  BY DEF Start, Finish, envVars, queueVars, IInv, TypeInv, SetsOK
<1>3. /\ conns[c] \in Connection /\ c \notin idlers
  BY <1>1 DEF IInv, TypeInv, ConnsOK, ConnInv
<1>4. conns[c].tasks \cup {"state"} \in SUBSET {"state", "revive", "close"}
  BY <1>3 DEF Connection
<1>5. PICK y \in Connection : /\ conns' = [conns EXCEPT ![c] = y]
                              /\ y.token = conns[c].token /\ y.at \in {"open", "check"}
                              /\ y.at = "check" => y.file = "none"
  <2>1. CASE conns' = [conns EXCEPT ![c].state = "RUNNING", ![c].tasks = @ \cup {"state"}]
    <3> DEFINE y == [conns[c] EXCEPT !.state = "RUNNING",
                                     !.tasks = conns[c].tasks \cup {"state"}]
    <3>1. y \in Connection /\ y.token = conns[c].token /\ y.at = "open"
      BY <1>1, <1>3, <1>4 DEF Connection, Steps
    <3>2. conns' = [conns EXCEPT ![c] = y]
      BY <2>1
    <3> QED BY <3>1, <3>2
  <2>2. CASE conns' = [conns EXCEPT ![c].at = "check", ![c].file = "none"]
    <3> DEFINE y == [conns[c] EXCEPT !.at = "check", !.file = "none"]
    <3>1. y \in Connection /\ y.token = conns[c].token /\ y.at = "check" /\ y.file = "none"
      BY <1>3 DEF Connection, Steps
    <3>2. conns' = [conns EXCEPT ![c] = y]
      BY <2>2
    <3> QED BY <3>1, <3>2
  <2> QED BY <2>1, <2>2 DEF Start, Finish
<1> QED BY <1>1, <1>2, <1>3, <1>5, ConnAlone

\* An idle connection looks for a file again.
LEMMA ReviveSteady ==
    ASSUME IInv, NEW c \in Conns, Revive(c)
    PROVE  Steady
<1>1. /\ UNCHANGED <<items, timer, user>> /\ conns[c].at = "open"
      /\ idlers' = idlers \ {c}
      /\ conns' = [conns EXCEPT ![c].tasks = @ \ {"revive"},
                                ![c].at = IF c \in idlers THEN "check" ELSE "open"]
  BY DEF Revive, envVars
<1>2. SetsOK'
  BY <1>1 DEF Revive, envVars, queueVars, IInv, TypeInv, SetsOK
<1>3. conns[c] \in Connection /\ (c \in idlers => conns[c].file = "none")
  BY DEF IInv, TypeInv, ConnsOK, ConnInv
<1>4. conns[c].tasks \ {"revive"} \in SUBSET {"state", "revive", "close"}
  BY <1>3 DEF Connection
<1> DEFINE y == [conns[c] EXCEPT !.tasks = conns[c].tasks \ {"revive"},
                                 !.at = IF c \in idlers THEN "check" ELSE "open"]
<1>5. /\ y \in Connection /\ y.token = conns[c].token /\ y.at \in {"open", "check"}
      /\ y.at = "check" => y.file = "none"
  BY <1>3, <1>4 DEF Connection, Steps
<1>6. conns' = [conns EXCEPT ![c] = y]
  BY <1>1
<1> HIDE DEF y
<1>7. c \notin idlers'
  BY <1>1
<1> QED BY <1>1, <1>2, <1>5, <1>6, <1>7, ConnAlone

\* A connection fails.
LEMMA FailedSteady ==
    ASSUME IInv, NEW c \in Conns, Disconnected(c) \/ Drop(c)
    PROVE  Steady
<1>1. /\ UNCHANGED <<items, expected, idlers, queueVars, timer, user>>
      /\ conns[c].at = "open" /\ (Failed(c, "retry") \/ Failed(c, "giveUp"))
  BY DEF Disconnected, Drop, envVars
<1>2. SetsOK'
  BY <1>1 DEF queueVars, IInv, TypeInv, SetsOK
<1>3. /\ conns[c] \in Connection
      /\ c \in idlers => conns[c].file = "none" /\ conns[c].state = "IDLE"
  BY DEF IInv, TypeInv, ConnsOK, ConnInv
<1>4. PICK fate \in {"put", "retry", "giveUp"} :
         conns' = [conns EXCEPT ![c].at = "failing", ![c].tasks = {}, ![c].fate = fate]
  BY <1>1 DEF Failed
<1> DEFINE y == [conns[c] EXCEPT !.at = "failing", !.tasks = {}, !.fate = fate]
<1>5. /\ y \in Connection /\ y.token = conns[c].token /\ y.at = "failing"
      /\ y.file = conns[c].file /\ y.state = conns[c].state
  BY <1>3 DEF Connection, Steps
<1>6. conns' = [conns EXCEPT ![c] = y]
  BY <1>4
<1> HIDE DEF y
<1> QED BY <1>1, <1>2, <1>3, <1>5, <1>6, ConnAlone

\* Connection c, which has left its item or leaves it now, goes on.
LEMMA LeavingSteady ==
    ASSUME IInv, NEW c \in Conns, NEW l \in {"open", "left", "spawnLeft"}, Goes(c, l),
           SetsOK', ItemsOK', TimerOK', user' = user, \A u \in Tokens : CalmItem(u),
           idlers' = idlers, conns[c].at # "none",
           l = "open" => conns[c].at = "spawn",
           NEW t, t = conns[c].token,
           \/ conns[c].at = "spawnLeft" \/ l = "open"
           \/ Present(t)' => ~Active(t)' /\ ~items'[t].running
    PROVE  Steady
<1> DEFINE y == [conns[c] EXCEPT !.at = l]
<1>1. conns[c] \in Connection /\ ConnInv(c)
  BY DEF IInv, TypeInv, ConnsOK
<1>2. /\ y \in Connection /\ y.at = l /\ y.state = conns[c].state
      /\ y.file = conns[c].file /\ y.token = conns[c].token
  <2>1. l \in Steps
    BY DEF Steps
  <2> QED BY <1>1, <2>1, ConnAt
<1>3. conns' = [conns EXCEPT ![c] = y]
  BY DEF Goes
<1> HIDE DEF y
<1>4. /\ c \in idlers => /\ y.state = "IDLE" /\ y.file = "none"
                        /\ y.at \in {"left", "spawnLeft"}
      /\ y.token \in Tokens
  BY <1>1, <1>2 DEF ConnInv
<1>5. \/ ~Attached(c)
      \/ y.token = t /\ y.at \notin {"none", "found", "left", "spawnLeft"}
      \/ Present(t)' => ~Active(t)' /\ ~items'[t].running
  <2>1. CASE conns[c].at = "spawnLeft"
    BY <2>1 DEF Attached
  <2>2. CASE l = "open"
    BY <1>2, <2>2
  <2> QED BY <2>1, <2>2
<1> QED BY <1>2, <1>3, <1>4, <1>5, ConnSteady

\* Another normal connection is asked for.
LEMMA CreateNewMCNSteady ==
    ASSUME IInv, NEW c \in Conns, CreateNewMCN(c)
    PROVE  Steady
<1>1. /\ UNCHANGED <<expected, idlers, queueVars, timer, user>> /\ WriteLock
      /\ conns[c].at \in {"spawn", "spawnLeft"}
  BY DEF CreateNewMCN, envVars
<1>2. TypeInv
  BY DEF IInv
<1>3. SetsOK'
  BY <1>1, <1>2 DEF queueVars, TypeInv, SetsOK
<1>4. ItemsOK' /\ \A u \in Tokens : CalmItem(u)
  <2>1. CASE items' = items
    BY <1>1, <1>2, <2>1, SameItems
  <2>2. CASE FreshTokens # {} /\ items' = [items EXCEPT ![NewToken] = NewItem("NORMAL", TRUE)]
    BY <1>2, <2>2, NewItemStep
  <2> QED BY <2>1, <2>2 DEF CreateNewMCN
<1>5. TimerOK'
  BY <1>1, <1>2, TimerFree
<1>6. PICK l \in {"open", "left"} : /\ Goes(c, l)
                                    /\ l = "open" => conns[c].at = "spawn"
                                    /\ l = "left" => conns[c].at = "spawnLeft"
  BY <1>1 DEF CreateNewMCN
<1> DEFINE t == conns[c].token
<1>7. t = conns[c].token
  OBVIOUS
<1> HIDE DEF t
<1> QED BY <1>1, <1>3, <1>4, <1>5, <1>6, <1>7, LeavingSteady

\* The item of a failed connection waits for another attempt.
LEMMA FailItemSteady ==
    ASSUME IInv, NEW c \in Conns, FailItem(c)
    PROVE  Steady
<1>0. PICK t \in Tokens : t = conns[c].token
  BY DEF FailItem, IInv, ConnInv
<1> DEFINE fatal == conns[c].fate = "giveUp"
<1>1. /\ UNCHANGED <<expected, idlers, queueVars, timer, user>> /\ WriteLock
      /\ conns[c].at = "failing"
      /\ \/ Present(t) /\ FailDownload(t, fatal)
         \/ ~Present(t) /\ UNCHANGED items
  BY <1>0 DEF FailItem, envVars
<1>2. TypeInv /\ fatal \in BOOLEAN
  BY DEF IInv
<1> HIDE DEF fatal
<1>3. SetsOK' /\ TimerOK'
  BY <1>1, <1>2, TimerFree DEF queueVars, TypeInv, SetsOK
<1>5. PICK l \in {"left", "spawnLeft"} : Goes(c, l)
  BY DEF FailItem
<1>7. /\ ItemsOK' /\ \A u \in Tokens : CalmItem(u)
      /\ Present(t)' => ~Active(t)' /\ ~items'[t].running
  <2>1. CASE Present(t) /\ FailDownload(t, fatal)
    BY <1>2, <2>1, FailDownloadCalm
  <2>2. CASE ~Present(t) /\ items' = items
    BY <1>1, <1>2, <2>2, SameItems DEF Present
  <2> QED BY <1>1, <2>1, <2>2
<1> QED BY <1>0, <1>1, <1>3, <1>5, <1>7, LeavingSteady

\* The item of a failed connection is not needed any more.
LEMMA PutItemSteady ==
    ASSUME IInv, NEW c \in Conns, PutItem(c)
    PROVE  Steady
<1>0. PICK t \in Tokens : t = conns[c].token
  BY DEF PutItem, IInv, ConnInv
<1>1. /\ UNCHANGED <<expected, idlers, queueVars, timer, user>> /\ WriteLock
      /\ conns[c].at = "failing" /\ Put(items, {t}) /\ Goes(c, "left")
  BY <1>0 DEF PutItem, envVars
<1>2. TypeInv
  BY DEF IInv
<1>3. SetsOK' /\ TimerOK'
  BY <1>1, <1>2, TimerFree DEF queueVars, TypeInv, SetsOK
<1>5. ItemsOK' /\ (\A u \in Tokens : CalmItem(u)) /\ ~Present(t)'
  BY <1>1, <1>2, PutCalm, PutFacts DEF TypeInv, ItemsOK
<1> QED BY <1>0, <1>1, <1>3, <1>5, LeavingSteady

\* The download manager forgets a connection.
LEMMA OnFailedSteady ==
    ASSUME IInv, NEW c \in Conns, OnFailed(c)
    PROVE  Steady
<1>1. /\ UNCHANGED <<items, expected, queued, added, missed, timer, user>>
      /\ mislaid' \in BOOLEAN /\ conns[c].at = "left" /\ idlers' = idlers \ {c}
      /\ conns' = [conns EXCEPT ![c] = NoConn]
  BY DEF OnFailed, envVars, IInv, TypeInv, SetsOK
<1>2. SetsOK'
  BY <1>1 DEF IInv, TypeInv, SetsOK
<1>3. ItemsOK' /\ TimerOK' /\ \A u \in Tokens : CalmItem(u)
  BY <1>1, SameItems DEF IInv
<1>4. ~Attached(c) /\ c \notin idlers'
  BY <1>1 DEF Attached
<1> DEFINE t == conns[c].token
<1>5. t = conns[c].token
  OBVIOUS
<1> HIDE DEF t
<1> QED BY <1>1, <1>2, <1>3, <1>4, <1>5, NoConnFacts, ConnSteady

\* The remote client connects.
LEMMA ArriveSteady ==
    ASSUME IInv, NEW c \in Conns, NEW t \in Tokens, Arrive(c, t)
    PROVE  Steady
<1>1. /\ UNCHANGED <<idlers, queueVars, timer, user>> /\ expected' = expected \ {t}
      /\ conns[c] = NoConn
  BY DEF Arrive, envVars
<1>2. TypeInv
  BY DEF IInv
<1>3. SetsOK'
  BY <1>1, <1>2 DEF queueVars, TypeInv, SetsOK
<1>4. CASE ~Present(t)
  <2>1. UNCHANGED <<items, conns>>
    BY <1>4 DEF Arrive
  <2> QED BY <1>1, <1>3, <2>1, ElsewhereSteady
<1>5. CASE Present(t)
  <2> DEFINE x == [items[t] EXCEPT !.fatal = FALSE]
             y == [NoConn EXCEPT !.at = "found", !.token = t]
  <2>1. /\ items' = [items EXCEPT ![t] = x]
        /\ conns' = [conns EXCEPT ![c] = y]
    BY <1>5 DEF Arrive
  <2>2. x \in Item /\ x.state = items[t].state /\ x.running = items[t].running
    BY <1>2, <1>5, PresentFacts, ItemFatal DEF TypeInv
  <2>3. y \in Connection /\ y.at = "found" /\ y.token = t /\ y.file = "none"
    BY NoConnFacts DEF Connection, Steps
  <2> HIDE DEF x, y
  <2>4. /\ ItemsOK' /\ \A u \in Tokens : CalmItem(u)
        /\ \A u \in Tokens : Present(u) => Present(u)'
    BY <1>2, <1>5, <2>1, <2>2, ItemStep
  <2>5. TimerOK'
    BY <1>1, <1>2, <2>4, TimerFree
  <2>6. c \notin idlers /\ ~Attached(c)
    BY <1>1, NoConnFacts DEF IInv, ConnInv, Attached
  <2> DEFINE s == conns[c].token
  <2>7. s = conns[c].token
    OBVIOUS
  <2> HIDE DEF s
  <2> QED BY <1>1, <1>3, <2>1, <2>3, <2>4, <2>5, <2>6, <2>7, ConnSteady
<1> QED BY <1>4, <1>5

\* A connection that has arrived is given an item, or it is not needed.
LEMMA AddDownloadConnectionSteady ==
    ASSUME IInv, NEW c \in Conns, AddDownloadConnection(c)
    PROVE  Steady
<1>1. /\ UNCHANGED <<expected, idlers, queueVars, timer, user>>
      /\ conns[c].at = "found"
  BY DEF AddDownloadConnection, envVars
<1>2. TypeInv
  BY DEF IInv
<1>3. SetsOK'
  BY <1>1, <1>2 DEF queueVars, TypeInv, SetsOK
<1>4. conns[c] \in Connection /\ conns[c].file = "none" /\ c \notin idlers /\ ~Attached(c)
  BY <1>1, <1>2 DEF IInv, TypeInv, ConnsOK, ConnInv, Attached
<1>5. CASE conns' = [conns EXCEPT ![c] = NoConn] /\ items' = items
  <2>1. ItemsOK' /\ TimerOK' /\ \A u \in Tokens : CalmItem(u)
    BY <1>1, <1>2, <1>5, SameItems
  <2>2. PICK t : t = conns[c].token
    OBVIOUS
  <2> QED BY <1>1, <1>3, <1>4, <1>5, <2>1, <2>2, NoConnFacts, ConnSteady
<1>6. CASE \E t \in ItemsOf(c) :
             /\ items' = [items EXCEPT
                  ![t].state = "ACTIVE", ![t].mcn = user.mcn,
                  ![t].type = IF user.mcn /\ @ # "SMALL" THEN "NORMAL" ELSE @]
             /\ conns' = [conns EXCEPT ![c].at = "check", ![c].token = t,
                  ![c].small = user.mcn /\ items[t].type = "SMALL"]
  <2>1. PICK t \in ItemsOf(c) :
             /\ items' = [items EXCEPT
                  ![t].state = "ACTIVE", ![t].mcn = user.mcn,
                  ![t].type = IF user.mcn /\ @ # "SMALL" THEN "NORMAL" ELSE @]
             /\ conns' = [conns EXCEPT ![c].at = "check", ![c].token = t,
                  ![c].small = user.mcn /\ items[t].type = "SMALL"]
    BY <1>6
  <2>2. t \in Tokens /\ Present(t) /\ items[t] \in Item /\ user.mcn \in BOOLEAN
    <3>1. t \in Tokens /\ Present(t)
      BY DEF ItemsOf, Live
    <3>2. user.mcn \in BOOLEAN
      BY <1>2, ConnectionsAssumption DEF TypeInv, SetsOK
    <3> QED BY <1>2, <3>1, <3>2, PresentFacts DEF TypeInv
  <2>3. PICK x \in Item : /\ items' = [items EXCEPT ![t] = x]
                          /\ x.running = items[t].running
    <3> DEFINE x == [items[t] EXCEPT !.state = "ACTIVE", !.mcn = user.mcn,
                       !.type = IF user.mcn /\ items[t].type # "SMALL" THEN "NORMAL"
                                ELSE items[t].type]
    <3>1. x \in Item /\ x.running = items[t].running
      BY <2>2 DEF Item
    <3>2. items' = [items EXCEPT ![t] = x]
      BY <2>1
    <3> QED BY <3>1, <3>2
  <2>4. PICK y \in Connection : /\ conns' = [conns EXCEPT ![c] = y]
                                /\ y.at = "check" /\ y.token = t /\ y.file = "none"
    <3>1. PICK b \in BOOLEAN : conns' = [conns EXCEPT ![c].at = "check", ![c].token = t,
                                                      ![c].small = b]
      BY <2>1, <2>2
    <3> DEFINE y == [conns[c] EXCEPT !.at = "check", !.token = t, !.small = b]
    <3>2. y \in Connection /\ y.at = "check" /\ y.token = t /\ y.file = "none"
      BY <1>4, <2>2 DEF Connection, Steps
    <3>3. conns' = [conns EXCEPT ![c] = y]
      BY <3>1
    <3> QED BY <3>2, <3>3
  <2>5. /\ ConnsOK' /\ conns'[c] = y /\ \A d \in Conns \ {c} : conns'[d] = conns[d]
        /\ \A d \in Conns : ConnInv(d)' /\ RestKept(d)
    BY <1>1, <1>4, <2>2, <2>4, ConnStep
  <2>6. ItemsOK' /\ items'[t] = x /\ \A u \in Tokens \ {t} : items'[u] = items[u]
    BY <1>2, <2>2, <2>3, ItemReplaced DEF TypeInv
  <2>7. \A u \in Tokens : Present(u) => Present(u)'
    BY <2>3, <2>6, NoItemFacts DEF Present
  <2>8. TimerOK'
    BY <1>1, <1>2, <2>7, TimerFree
  <2>9. ASSUME NEW u \in Tokens PROVE Settled(u)
    <3>1. CASE u = t
      <4>1. c \in Associated(u)' /\ c \notin idlers'
        BY <1>1, <1>4, <2>4, <2>5, <3>1 DEF Associated
      <4> QED BY <4>1 DEF Settled
    <3>2. CASE u # t
      <4>1. Associated(u) \subseteq Associated(u)'
        BY <1>4, <2>5 DEF Associated, Attached
      <4>2. items'[u] = items[u]
        BY <2>6, <3>2
      <4> QED BY <4>1, <4>2 DEF Settled, Present, Active
    <3> QED BY <3>1, <3>2
  <2> QED BY <1>1, <1>3, <2>5, <2>6, <2>8, <2>9 DEF Steady, TypeInv
<1> QED BY <1>5, <1>6 DEF AddDownloadConnection

\* The posted task finds the connection downloading.
LEMMA DownloadRunningSteady ==
    ASSUME IInv, NEW c \in Conns, NEW t \in ItemsOf(c), OnDownloadRunning(c, t),
           UNCHANGED <<expected, idlers, queueVars, timer, user>>,
           conns[c].at = "open"
    PROVE  Steady
<1>1. TypeInv
  BY DEF IInv
<1>2. SetsOK'
  BY <1>1 DEF queueVars, TypeInv, SetsOK
<1>3. conns[c] \in Connection /\ conns[c].token \in Tokens /\ c \notin idlers
  BY <1>1 DEF IInv, TypeInv, ConnsOK, ConnInv, OnDownloadRunning
<1>4. t \in Tokens /\ Present(t) /\ items[t] \in Item
  BY <1>1, PresentFacts DEF ItemsOf, Live, TypeInv
<1> DEFINE x == [items[t] EXCEPT !.running = TRUE]
<1>5. x \in Item /\ x.state = items[t].state
  BY <1>4, ItemRunning
<1>6. items' = [items EXCEPT ![t] = x]
  BY DEF OnDownloadRunning
<1> HIDE DEF x
<1>7. ItemsOK' /\ items'[t] = x /\ \A u \in Tokens \ {t} : items'[u] = items[u]
  BY <1>1, <1>4, <1>5, <1>6, ItemReplaced DEF TypeInv
<1>8. TimerOK'
  <2>1. \A u \in Tokens : Present(u) => Present(u)'
    BY <1>5, <1>7, NoItemFacts DEF Present
  <2> QED BY <1>1, <2>1, TimerFree
<1>9. PICK y \in Connection : /\ conns' = [conns EXCEPT ![c] = y]
                              /\ y.at \in {"open", "spawn"} /\ y.token = conns[c].token
  <2>1. PICK l \in {"open", "spawn"} : conns' = [conns EXCEPT ![c].tasks = @ \ {"state"},
                                                              ![c].at = l]
    BY DEF OnDownloadRunning
  <2> DEFINE y == [conns[c] EXCEPT !.tasks = conns[c].tasks \ {"state"}, !.at = l]
  <2>2. y \in Connection /\ y.at = l /\ y.token = conns[c].token
    BY <1>3 DEF Connection, Steps
  <2>3. conns' = [conns EXCEPT ![c] = y]
    BY <2>1
  <2> QED BY <2>2, <2>3
<1>10. /\ ConnsOK' /\ conns'[c] = y /\ \A d \in Conns \ {c} : conns'[d] = conns[d]
       /\ \A d \in Conns : ConnInv(d)' /\ RestKept(d)
  BY <1>3, <1>9, ConnStep
<1>11. ASSUME NEW u \in Tokens PROVE Settled(u)
  <2>1. Associated(u) \subseteq Associated(u)'
    BY <1>9, <1>10 DEF Associated
  <2>2. Present(u)' => Present(u) /\ (Active(u)' => Active(u))
    BY <1>4, <1>5, <1>7 DEF Present, Active
  <2>3. CASE u # t
    BY <1>7, <2>1, <2>2, <2>3 DEF Settled
  <2>4. CASE u = t /\ user.mcn
    <3>1. conns[c].token = t
      BY <2>4 DEF ItemsOf
    <3>2. c \in Associated(u)' /\ c \notin idlers'
      BY <1>3, <1>9, <1>10, <2>4, <3>1 DEF Associated
    <3> QED BY <2>1, <2>2, <3>2 DEF Settled
  <2>5. CASE ~user.mcn
    BY <2>1, <2>2, <2>5 DEF Settled
  <2> QED BY <2>3, <2>4, <2>5
<1> QED BY <1>2, <1>7, <1>8, <1>10, <1>11 DEF Steady, TypeInv

\* Connection c runs its posted task and its item, if any, does not count as running.
LEMMA TaskRunSteady ==
    ASSUME IInv, NEW c \in Conns, UNCHANGED <<expected, idlers, queueVars, timer, user>>,
           conns[c].at = "open", conns' = [conns EXCEPT ![c].tasks = @ \ {"state"}],
           ItemsOK', TimerOK', \A u \in Tokens : CalmItem(u), c \in idlers => ~Runs(c)'
    PROVE  Steady
<1>1. SetsOK' /\ conns[c] \in Connection /\ ConnInv(c)
  BY DEF queueVars, IInv, TypeInv, SetsOK, ConnsOK
<1>2. PICK t : t = conns[c].token
  OBVIOUS
<1> DEFINE y == [conns[c] EXCEPT !.tasks = conns[c].tasks \ {"state"}]
<1>3. conns[c].tasks \ {"state"} \in SUBSET {"state", "revive", "close"}
  BY <1>1 DEF Connection
<1>4. /\ y \in Connection /\ y.at = "open" /\ y.token = t
      /\ y.state = conns[c].state /\ y.file = conns[c].file
  BY <1>1, <1>2, <1>3, ConnTasks
<1>5. conns' = [conns EXCEPT ![c] = y]
  OBVIOUS
<1> HIDE DEF y
<1>6. y.token \in Tokens /\ (c \in idlers => y.state = "IDLE" /\ y.file = "none")
  BY <1>1, <1>2, <1>4 DEF ConnInv
<1> QED BY <1>1, <1>2, <1>4, <1>5, <1>6, ConnSteady

\* The posted task, whatever state it finds.
LEMMA StateTaskSteady ==
    ASSUME IInv, NEW c \in Conns, StateTask(c)
    PROVE  Steady
<1>1. /\ UNCHANGED <<expected, idlers, queueVars, timer, user>> /\ conns[c].at = "open"
  BY DEF StateTask, envVars
<1>2. TypeInv
  BY DEF IInv
<1>3. CASE /\ conns[c].state = "SND" \/ ItemsOf(c) = {}
           /\ conns' = [conns EXCEPT ![c].tasks = @ \ {"state"}]
           /\ UNCHANGED items
  <2>1. ItemsOK' /\ TimerOK' /\ \A u \in Tokens : CalmItem(u)
    BY <1>1, <1>2, <1>3, SameItems
  <2>2. c \in idlers => ~Runs(c)'
    <3>1. conns'[c].token = conns[c].token
      BY <1>2, <1>3 DEF TypeInv, ConnsOK
    <3>2. SUFFICES ASSUME c \in idlers, Runs(c)' PROVE FALSE
      OBVIOUS
    <3>3. conns[c].token \in Tokens /\ conns[c].state # "SND"
      BY <1>1, <3>2 DEF IInv, ConnInv
    <3>4. user.mcn /\ Present(conns[c].token)
      BY <1>1, <1>3, <3>1, <3>2 DEF Runs, Present
    <3> QED BY <1>3, <3>3, <3>4 DEF ItemsOf, Live
  <2> QED BY <1>1, <1>3, <2>1, <2>2, TaskRunSteady
<1>4. CASE \E t \in ItemsOf(c) : OnDownloadRunning(c, t)
  BY <1>1, <1>4, DownloadRunningSteady
<1>5. ASSUME NEW t \in ItemsOf(c), OnIdle(c, t) PROVE Steady
  <2>1. t \in Tokens /\ Present(t) /\ items[t] \in Item
    BY <1>2, PresentFacts DEF ItemsOf, Live, TypeInv
  <2>2. WriteLock /\ conns' = [conns EXCEPT ![c].tasks = @ \ {"state"}]
    BY <1>5 DEF OnIdle
  <2>3. /\ ItemsOK' /\ \A u \in Tokens : CalmItem(u)
        /\ Present(t)' => ~items'[t].running
    <3>1. CASE ~items[t].running /\ items' = items
      BY <1>1, <1>2, <3>1, SameItems
    <3>2. CASE \E S \in Extra(t) : Put([items EXCEPT ![t].running = FALSE], S)
      <4>1. PICK S : Put([items EXCEPT ![t].running = FALSE], S)
        BY <3>2
      <4> DEFINE x == [items[t] EXCEPT !.running = FALSE]
                 its == [items EXCEPT ![t] = x]
      <4>2. x \in Item /\ x.state = items[t].state /\ ~x.running
        BY <2>1, ItemRunning
      <4>3. Put(its, S)
        BY <4>1
      <4> HIDE DEF x
      <4>4. /\ its \in [Tokens -> {NoItem} \cup Item] /\ its[t] = x
            /\ \A u \in Tokens \ {t} : its[u] = items[u]
        BY <1>2, <2>1, <4>2 DEF TypeInv, ItemsOK
      <4> HIDE DEF its
      <4>5. /\ ItemsOK'
            /\ \A u \in Tokens : Present(u)' => u \notin S /\ items'[u] = its[u]
        BY <4>3, <4>4, PutFacts
      <4>6. ASSUME NEW u \in Tokens PROVE CalmItem(u)
        BY <2>1, <4>2, <4>4, <4>5 DEF CalmItem, Active, Present
      <4> QED BY <2>1, <4>2, <4>4, <4>5, <4>6
    <3> QED BY <1>5, <3>1, <3>2 DEF OnIdle
  <2>4. TimerOK'
    BY <1>1, <1>2, <2>2, TimerFree
  <2>5. ~Runs(c)'
    <3>1. conns'[c].token = conns[c].token
      BY <1>2, <2>2 DEF TypeInv, ConnsOK
    <3>2. user.mcn => conns[c].token = t
      BY <1>5 DEF ItemsOf
    <3> QED BY <1>1, <2>3, <3>1, <3>2 DEF Runs, Present
  <2> QED BY <1>1, <2>2, <2>3, <2>4, <2>5, TaskRunSteady
<1> QED BY <1>3, <1>4, <1>5 DEF StateTask
-----------------------------------------------------------------------------
(* The theorems.                                                            *)

\* Nothing happens.
LEMMA IdleSteady ==
    ASSUME IInv, UNCHANGED vars
    PROVE  Steady
<1>1. UNCHANGED <<items, conns, idlers, user, timer>>
  BY DEF vars, envVars
<1>2. SetsOK'
  BY DEF vars, queueVars, envVars, IInv, TypeInv, SetsOK
<1> QED BY <1>1, <1>2, ElsewhereSteady

\* Every step keeps to it.
LEMMA StepSteady ==
    ASSUME IInv, [Next]_vars
    PROVE  Steady
<1>1. CASE (\E f \in Files : AddFile(f)) \/ ComeOnline
  BY <1>1, QueueSteady
<1>2. CASE \E small \in BOOLEAN : RequestItem(small)
  BY <1>2, RequestSteady
<1>3. CASE \E t \in Tokens : TimerStep(t)
  BY <1>3, VisitSteady, ApplySteady DEF TimerStep
<1>4. CASE RemoveCollected
  BY <1>4, RemoveSteady
<1>5. CASE Mishap
  BY <1>5, ApplySteady, UnsupportedSteady, OutsideSteady, ForceSteady, FailedSteady DEF Mishap
<1>6. CASE LimitsFree
  BY <1>6, OutsideSteady
<1>7. ASSUME NEW c \in Conns, Handler(c) PROVE Steady
  BY <1>7, AddDownloadConnectionSteady, CheckDownloadsSteady, CheckIdlersSteady,
     BecomeIdleSteady, StateTaskSteady, ReviveSteady, CreateNewMCNSteady, FailedSteady, FailItemSteady,
     PutItemSteady, OnFailedSteady DEF Handler
<1>8. ASSUME NEW c \in Conns,
             CloseInactive(c) \/ Start(c) \/ Finish(c) \/ \E t \in Tokens : Arrive(c, t)
      PROVE  Steady
  BY <1>8, CloseInactiveSteady, TransferSteady, ArriveSteady
<1>9. CASE UNCHANGED vars
  BY <1>9, IdleSteady
<1> QED BY <1>1, <1>2, <1>3, <1>4, <1>5, <1>6, <1>7, <1>8, <1>9 DEF Next

\* At first there is no item and no connection.
LEMMA InitInv == Init => IInv
<1> SUFFICES ASSUME Init PROVE IInv
  OBVIOUS
<1>1. ItemsOK /\ \A t \in Tokens : ~Present(t)
  BY DEF Init, ItemsOK, Present
<1>2. ConnsOK /\ \A c \in Conns : conns[c] = NoConn
  BY NoConnFacts DEF Init, ConnsOK
<1>3. SetsOK
  <2>1. user \in Users /\ user.queued \subseteq Files
    BY ConnectionsAssumption DEF Init
  <2> QED BY <2>1 DEF Init, SetsOK
<1>4. TimerOK
  BY DEF Init, TimerOK
<1>5. \A c \in Conns : ConnInv(c) /\ RestInv(c)
  BY <1>2, NoConnFacts DEF Init, ConnInv, RestInv, Resting
<1> QED BY <1>1, <1>2, <1>3, <1>4, <1>5 DEF IInv, TypeInv, ActiveHasConnection, Live

\* The invariant that the theorems rest on holds in every reachable state.
THEOREM ConnectionsInvariant == Spec => []IInv
<1>1. IInv /\ [Next]_vars => IInv'
  BY StepSteady, SteadyKeeps
<1> QED BY InitInv, <1>1, PTL DEF Spec

\* Every item, connection and set stays of its type, whatever the threads do
\* between each other's steps (ConnectionManager.cpp).
THEOREM TypeCorrect == Spec => []TypeOK
<1>1. IInv => TypeOK
  BY DEF IInv, TypeInv, ItemsOK, ConnsOK, SetsOK, Item, Connection, TypeOK
<1> QED BY <1>1, ConnectionsInvariant, PTL

\* An item that is active has a connection, for any number of items and connections
\* and any mishaps: no active item is left behind that the timer passes over and
\* that turns every request down (ConnectionManager.cpp:958, 1304).
THEOREM ActiveIsConnected == Spec => []ActiveHasConnection
BY ConnectionsInvariant, PTL DEF IInv

\* A connection in idlers is idle, has no download and is in nobody's hands
\* (DownloadManager.cpp:171, 247, 524); at rest, its item counts as running at most
\* for another connection (ConnectionManager.cpp:1223).
THEOREM IdleIsIdle == Spec => []IdlersAreIdle
<1>1. IInv => IdlersAreIdle
  <2> SUFFICES ASSUME IInv, NEW c \in idlers
      PROVE  /\ conns[c].state = "IDLE" /\ conns[c].file = "none"
             /\ conns[c].at \in {"open", "failing", "spawnLeft", "left"}
             /\ /\ user.mcn /\ conns[c].at = "open" /\ conns[c].tasks = {}
                /\ Present(conns[c].token)
                => ~items[conns[c].token].running \/ Associated(conns[c].token) # {c}
    BY DEF IdlersAreIdle
  <2>1. c \in Conns
    BY DEF IInv, TypeInv, SetsOK
  <2> QED BY <2>1 DEF IInv, ConnInv, RestInv, Resting, Runs
<1> QED BY <1>1, ConnectionsInvariant, PTL
=============================================================================
