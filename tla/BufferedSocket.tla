--------------------------- MODULE BufferedSocket ---------------------------
(* A BufferedSocket: the thread of a connection, the tasks other threads     *)
(* leave for it, and the owner of the socket, which may delete itself in a   *)
(* handler that the thread calls.                                            *)
(*                                                                           *)
(* The owner is a "peer" (UserConnection, deleted when the socket fails), a  *)
(* "hub" (Client, which other threads use and close) or "http"               *)
(* (HttpConnection, which deletes itself when it has what it asked for).     *)
EXTENDS Naturals, Sequences, SequencesExt

CONSTANTS
    FileChunks,  \* a file takes this many writes
    Setups,      \* an owner, how its socket is opened, and what happens to it
    Mishaps      \* "early", "nested": when the connection may be closed besides

Limits == [call : Nat, write : Nat, disconnect : Nat, line : Nat]

\* user: the remote user is known when the connection is opened.
ASSUME BufferedSocketAssumption ==
    /\ FileChunks \in Nat \ {0}
    /\ Setups \subseteq [owner : {"peer", "hub", "http"}, opened : {"connect", "accept"},
                         user : BOOLEAN, limits : Limits]
    /\ \A s \in Setups : s.owner # "peer" => s.opened = "connect" /\ ~s.user
    /\ Mishaps \subseteq {"early", "nested"}

VARIABLES
    setup,          \* one of Setups
    limits,         \* what may still happen
    opening,        \* how far the owner is in connect() or accept()
    released,       \* what the owner has done with its socket
    tasks,
    state,
    disconnecting,
    at,             \* where the thread is
    inFile,         \* its tasks are taken within threadSendFile
    out             \* what there is to send, and what has been sent; serving: a peer
                    \* has been given a file (STATE_RUNNING)

socketVars == <<tasks, state, disconnecting>>
vars == <<setup, limits, opening, released, socketVars, at, inFile, out>>

Tasks == {"connect", "accepted", "data", "file", "disconnect", "shutdown", "call"}
Owner == setup.owner
\* (Mutant: an HTTP request that is over is still told.)
StillListening == released = "no" \/ (setup.owner = "http" /\ state # "failed")
\* The owner is told what happens; putSocket removes it from the listeners.
Listening == released = "no"
\* A client keeps its pointer until the callback of its shutdown has run.
Usable == Listening \/ (released = "shutdown" /\ at # "ended")

Init ==
    /\ setup \in Setups /\ limits = setup.limits
    /\ opening = "created" /\ released = "no"
    /\ tasks = <<>> /\ state = "starting" /\ disconnecting = FALSE
    /\ at = "none" /\ inFile = FALSE
    /\ out = [written |-> 0, writeBuf |-> <<>>, sendBuf |-> <<>>, file |-> <<>>, sent |-> <<>>,
              serving |-> FALSE]

Spend(what) ==
    /\ limits[what] > 0
    /\ limits' = [limits EXCEPT ![what] = @ - 1]

\* The owner has greeted the other side, which it does when the socket connects.
Connected == out.written > 0
Transmitting == out.serving

-----------------------------------------------------------------------------
(* What the owner does with its socket *)

\* (Mutant: nothing to wake the thread for while it is sending.)
AddDataOnce(q) ==
    IF out.writeBuf = <<>> /\ out.sendBuf = <<>> THEN Append(q, "data") ELSE q

\* write: what has been written is numbered.
AddData(q) == IF out.writeBuf = <<>> THEN Append(q, "data") ELSE q
Written(n) == [i \in 1 .. n |-> out.written + i]
Write ==
    /\ Connected /\ Listening
    /\ tasks' = AddData(tasks)
    /\ out' = [out EXCEPT !.written = @ + 1, !.writeBuf = @ \o Written(1)]

\* UploadManager: the answer to a request, the event of the new state, and the file.
TransmitFile ==
    /\ tasks' = AddData(tasks) \o <<"call", "file">>
    /\ out' = [out EXCEPT !.written = @ + 1 + FileChunks,
                          !.writeBuf = @ \o Written(1),
                          !.file = Tail(Written(1 + FileChunks)), !.serving = TRUE]

\* disconnect(graceless)
Disconnect(graceless) ==
    /\ tasks' = Append(tasks, "disconnect")
    /\ disconnecting' = (disconnecting \/ graceless)

\* (Mutant: a thread that is sending is not told.)
PutSocketQuietly(q, how) ==
    /\ tasks' = Append(q, "shutdown") /\ released' = how
    /\ UNCHANGED disconnecting

\* putSocket: the listeners are removed, then shutdown()
PutSocket(q, how) ==
    /\ tasks' = Append(q, "shutdown") /\ released' = how
    /\ disconnecting' = TRUE

\* Failed: a connection is taken from ConnectionManager, which disconnects it, and
\* deleted; an HTTP request is over; a client may connect again later.
OnFailed(q) ==
    CASE Owner = "peer" -> PutSocket(Append(q, "disconnect"), "deleted")
      [] Owner = "http" -> PutSocket(q, "deleted")
      [] OTHER -> tasks' = q /\ UNCHANGED <<disconnecting, released>>

\* fail() when q are the tasks; the thread goes on to take tasks, in a file or not.
Fail(q, nested) ==
    /\ state' = "failed"
    /\ IF state # "failed" /\ Listening THEN OnFailed(q)
       ELSE tasks' = q /\ UNCHANGED <<disconnecting, released>>
    /\ at' = "events" /\ inFile' = nested
    /\ UNCHANGED <<setup, opening, out>>

\* A connection that is closed before it is opened, or within a file in a way that
\* the file goes on, is a mishap.
Unheeded(graceless) == IF opening # "done" THEN "early"
                       ELSE IF Transmitting /\ (graceless => inFile) THEN "nested" ELSE "no"
Close ==
    /\ Owner # "http" /\ Usable /\ Spend("disconnect")
    /\ \E graceless \in BOOLEAN :
         /\ Unheeded(graceless) \in Mishaps \cup {"no"}
         /\ Disconnect(graceless)
    /\ UNCHANGED out

\* What a handler or a posted call may do.
React ==
    \/ UNCHANGED <<limits, tasks, disconnecting, out>>
    \/ Owner = "hub" /\ Spend("write") /\ Write /\ UNCHANGED disconnecting
    \/ Close

-----------------------------------------------------------------------------
(* Opening a socket *)

\* setUser posts a call; the thread is started.
Start ==
    /\ opening = "created" /\ opening' = "started" /\ at' = "events"
    /\ tasks' = IF setup.user THEN Append(tasks, "call") ELSE tasks
    /\ UNCHANGED <<setup, limits, released, state, disconnecting, inFile, out>>

AddTask ==
    /\ opening = "started" /\ opening' = "done"
    /\ tasks' = Append(tasks, IF setup.opened = "connect" THEN "connect" ELSE "accepted")
    /\ UNCHANGED <<setup, limits, released, state, disconnecting, at, inFile, out>>

\* There is no connection to accept, or too many: the connection is deleted, and the
\* socket, which has no thread, with it.
AcceptFails ==
    /\ opening = "created" /\ setup.opened = "accept"
    /\ opening' = "done" /\ at' = "ended"
    /\ PutSocket(Append(tasks, "disconnect"), "deleted")
    /\ UNCHANGED <<setup, limits, state, inFile, out>>

-----------------------------------------------------------------------------
(* checkEvents *)

\* The thread takes a task and is then somewhere else.
Take(task, where) ==
    /\ at = "events" /\ tasks # <<>> /\ Head(tasks) = task
    /\ tasks' = Tail(tasks) /\ at' = where
    /\ UNCHANGED <<setup, limits, opening, released, disconnecting>>

\* (Mutant: a posted call runs whatever has happened to the connection.)
ServesCalls(task) ==
    \/ state = "starting" /\ task \in {"connect", "accepted"}
    \/ state = "running" /\ task \in {"data", "file", "disconnect"}
    \/ task = "call"

\* The tasks that are served; others are dropped.
Serves(task) ==
    \/ state = "starting" /\ task \in {"connect", "accepted"}
    \/ state = "running" /\ task \in {"data", "file", "disconnect", "call"}

Drop ==
    /\ \E task \in Tasks \ {"shutdown"} : ~Serves(task) /\ Take(task, "events")
    /\ UNCHANGED <<state, inFile, out>>

\* The callback of the owner, then the thread ends. Within a file, nobody looks at
\* what checkEvents returns.
Shutdown ==
    /\ Take("shutdown", IF inFile THEN "write" ELSE "ended")
    /\ inFile' = FALSE /\ UNCHANGED <<state, out>>

Connect ==
    /\ \/ Serves("connect") /\ Take("connect", "connecting")
       \/ Serves("accepted") /\ Take("accepted", "accepting")
    /\ state' = "running" /\ UNCHANGED <<inFile, out>>

\* threadSendData swaps the buffers.
SendData ==
    /\ Serves("data") /\ Take("data", IF out.writeBuf = <<>> THEN "events" ELSE "sending")
    /\ out' = IF out.writeBuf = <<>> THEN out
              ELSE [out EXCEPT !.sendBuf = out.writeBuf, !.writeBuf = out.sendBuf]
    /\ UNCHANGED <<state, inFile>>

\* Whatever becomes of the file, no more tasks are taken before the socket is read.
SendFile ==
    /\ Serves("file") /\ Take("file", IF disconnecting THEN "socket" ELSE "file")
    /\ UNCHANGED <<state, inFile, out>>

TakeDisconnect ==
    /\ at = "events" /\ Serves("disconnect") /\ tasks # <<>> /\ Head(tasks) = "disconnect"
    /\ Fail(Tail(tasks), inFile) /\ UNCHANGED limits

TakeCall ==
    /\ Serves("call") /\ Take("call", "call")
    /\ UNCHANGED <<state, inFile, out>>
Call ==
    /\ at = "call" /\ at' = "events"
    /\ React
    /\ UNCHANGED <<setup, opening, released, state, inFile>>

NoTask ==
    /\ at = "events" /\ tasks = <<>> /\ state = "running"
    /\ at' = (IF inFile THEN "write" ELSE "socket") /\ inFile' = FALSE
    /\ UNCHANGED <<setup, limits, opening, released, socketVars, out>>

-----------------------------------------------------------------------------
(* threadConnect, threadAccept, threadRead *)

\* The thread goes on at another place.
Goes(where) ==
    /\ at' = where
    /\ UNCHANGED <<setup, limits, opening, released, state, inFile>>

\* Connected: the owner greets the other side; a peer changes its state.
Connects ==
    /\ at = "connecting" /\ Goes("events")
    /\ IF Listening
       THEN /\ tasks' = AddData(tasks) \o (IF Owner = "peer" THEN <<"call">> ELSE <<>>)
            /\ out' = [out EXCEPT !.written = @ + 1, !.writeBuf = @ \o Written(1)]
       ELSE UNCHANGED <<tasks, out>>
    /\ UNCHANGED disconnecting
Accepts ==
    /\ at = "accepting" /\ Goes("events") /\ UNCHANGED <<disconnecting, tasks, out>>
GivesUpConnecting ==
    /\ at \in {"connecting", "accepting"} /\ disconnecting
    /\ Goes("events") /\ UNCHANGED <<disconnecting, tasks, out>>
\* An error, or 30 seconds.
ConnectFails ==
    /\ at \in {"connecting", "accepting"}
    /\ Fail(tasks, inFile) /\ UNCHANGED limits

\* The places where the socket is read.
Reading == {"socket", "sending", "blocked"}

\* A line. A peer asks for a file, or for one too many; an HTTP response is complete or
\* not acceptable: abortRequest(true).
Line ==
    /\ at \in Reading /\ Listening /\ (setup.opened = "connect" => Connected)
    /\ limits.line > 0
    /\ LET less == [limits EXCEPT !.line = @ - 1] IN
       \/ /\ Owner = "peer" /\ ~Transmitting /\ TransmitFile
          /\ limits' = less /\ UNCHANGED <<disconnecting, released>>
       \/ /\ Owner = "http" /\ PutSocket(Append(tasks, "disconnect"), "deleted")
          /\ limits' = less /\ UNCHANGED out
       \/ /\ Owner = "hub" /\ limits.write > 0 /\ Write
          /\ limits' = [less EXCEPT !.write = @ - 1] /\ UNCHANGED <<disconnecting, released>>
       \/ /\ Owner # "http" /\ limits.disconnect > 0
          /\ \E graceless \in BOOLEAN :
               Unheeded(graceless) \in Mishaps \cup {"no"} /\ Disconnect(graceless)
          /\ limits' = [less EXCEPT !.disconnect = @ - 1] /\ UNCHANGED <<released, out>>
    /\ at' = IF at = "socket" THEN "events" ELSE at
    /\ UNCHANGED <<setup, opening, state, inFile>>

\* The other side closes the connection, it breaks, or a line is too long.
Closed ==
    /\ at \in Reading
    /\ Fail(tasks, FALSE) /\ UNCHANGED limits

Nothing ==
    /\ at = "socket" /\ Goes("events") /\ UNCHANGED <<disconnecting, tasks, out>>

-----------------------------------------------------------------------------
(* threadSendData, threadSendFile *)

SendSome ==
    /\ at = "sending" /\ ~disconnecting
    /\ LET rest == Tail(out.sendBuf) IN
       /\ out' = [out EXCEPT !.sendBuf = rest, !.sent = Append(@, Head(out.sendBuf))]
       /\ Goes(IF rest = <<>> THEN "events" ELSE "sending")
    /\ UNCHANGED <<disconnecting, tasks>>

\* What is left in sendBuf is not sent any more.
GivesUpSending ==
    /\ at = "sending" /\ disconnecting
    /\ Goes("events") /\ UNCHANGED <<disconnecting, tasks, out>>

\* Read from the file, or TransmitDone: the peer has a new state.
ReadFile ==
    /\ at = "file"
    /\ \/ /\ ~disconnecting /\ out.file # <<>> /\ Goes("check")
          /\ UNCHANGED <<disconnecting, tasks, out>>
       \/ /\ ~disconnecting /\ out.file = <<>> /\ Goes("socket")
          /\ tasks' = Append(tasks, "call") /\ out' = [out EXCEPT !.serving = FALSE]
          /\ UNCHANGED disconnecting
       \/ /\ disconnecting /\ Goes("socket")
          /\ UNCHANGED <<disconnecting, tasks, out>>
ReadFails ==
    /\ at = "file" /\ ~disconnecting
    /\ Fail(tasks, FALSE) /\ UNCHANGED limits

\* (Mutant: a file is sent whatever happens to the connection.)
CheckAlways ==
    /\ at = "check"
    /\ at' = "events" /\ inFile' = TRUE
    /\ UNCHANGED <<setup, limits, opening, released, socketVars, out>>

\* Before every write the tasks are looked at, unless there is no point.
Check ==
    /\ at = "check"
    /\ at' = (IF disconnecting THEN "socket" ELSE "events") /\ inFile' = ~disconnecting
    /\ UNCHANGED <<setup, limits, opening, released, socketVars, out>>

\* A socket that has failed is closed; writing to it throws.
WriteChunk ==
    /\ at = "write" /\ state = "running"
    /\ \/ /\ out' = [out EXCEPT !.sent = Append(@, Head(out.file)), !.file = Tail(@)]
          /\ Goes("file")
       \/ /\ \E where \in {"check", "blocked"} : Goes(where)
          /\ UNCHANGED out
    /\ UNCHANGED <<disconnecting, tasks>>
WriteFails ==
    /\ at = "write"
    /\ Fail(tasks, FALSE) /\ UNCHANGED limits

Writable ==
    /\ at = "blocked" /\ Goes("check") /\ UNCHANGED <<disconnecting, tasks, out>>
\* The next check finds disconnecting set.
GivesUpWaiting == disconnecting /\ Writable

-----------------------------------------------------------------------------
(* Other threads *)

Post ==
    /\ Owner # "http" /\ Usable /\ opening = "done" /\ Spend("call")
    /\ tasks' = Append(tasks, "call")
    /\ UNCHANGED <<setup, opening, released, state, disconnecting, at, inFile, out>>

\* Client::send
HubWrite ==
    /\ Owner = "hub" /\ Spend("write") /\ Write
    /\ UNCHANGED <<setup, opening, released, state, disconnecting, at, inFile>>

CloseFromOutside ==
    /\ Close
    /\ UNCHANGED <<setup, opening, released, state, at, inFile>>

\* Client::connect (another socket is made) and Client::shutdown; HttpConnection's
\* destructor.
PutFromOutside ==
    /\ opening = "done" /\ Listening
    /\ \/ Owner = "hub" /\ \E how \in {"reconnect", "shutdown"} : PutSocket(tasks, how)
       \/ Owner = "http" /\ PutSocket(Append(tasks, "disconnect"), "deleted")
    /\ UNCHANGED <<setup, limits, opening, state, at, inFile, out>>

-----------------------------------------------------------------------------
Opening == Start \/ AddTask

\* What the thread does by itself, without data from or room in the network.
ThreadRuns ==
    \/ Drop \/ Shutdown \/ Connect \/ SendData \/ SendFile \/ TakeDisconnect \/ TakeCall
    \/ Call \/ NoTask \/ Connects \/ Accepts \/ GivesUpConnecting \/ ConnectFails
    \/ Nothing \/ GivesUpSending \/ ReadFile \/ Check \/ WriteChunk \/ WriteFails
    \/ GivesUpWaiting
Network == Line \/ Closed \/ SendSome \/ Writable \/ ReadFails \/ AcceptFails
OtherThreads == Post \/ HubWrite \/ CloseFromOutside \/ PutFromOutside

Next == Opening \/ ThreadRuns \/ Network \/ OtherThreads

Spec == Init /\ [][Next]_vars

\* The threads run; a connection attempt ends within 30 seconds. The other side need
\* not do anything.
FairSpec == Spec /\ WF_vars(Opening) /\ WF_vars(ThreadRuns)
-----------------------------------------------------------------------------
(* Properties *)

\* A socket is shut down once, after which only a client leaves it tasks, and an owner
\* that is gone has shut it down (BufferedSocket.cpp:555).
TypeOK ==
    /\ setup \in Setups /\ limits \in Limits
    /\ opening \in {"created", "started", "done"}
    /\ released \in {"no", "deleted", "reconnect", "shutdown"}
    /\ tasks \in Seq(Tasks) /\ state \in {"starting", "running", "failed"}
    /\ disconnecting \in BOOLEAN /\ inFile \in BOOLEAN
    /\ at \in {"none", "events", "call", "connecting", "accepting", "sending", "file", "check",
               "write", "blocked", "socket", "ended"}
    /\ out \in [written : Nat, writeBuf : Seq(Nat), sendBuf : Seq(Nat), file : Seq(Nat),
                sent : Seq(Nat), serving : BOOLEAN]
    /\ \A i, j \in DOMAIN tasks : {tasks[i], tasks[j]} = {"shutdown"} => ~Listening /\ i = j
    /\ released \in {"deleted", "reconnect"} =>
         \A i \in DOMAIN tasks : tasks[i] = "shutdown" <=> i = Len(tasks)

\* A posted call uses the owner: none runs after the owner has been deleted
\* (BufferedSocket.cpp:482, UserConnection.cpp:202).
CallsHaveOwner == at = "call" => released # "deleted"

\* "Call a function from the socket's thread." (BufferedSocket.h:103): a posted call is
\* only dropped when the socket has failed.
CallsAreRun ==
    [][tasks # <<>> /\ Head(tasks) = "call" /\ tasks' = Tail(tasks) =>
         at' = "call" \/ state = "failed"]_vars

\* While a connection is not being closed, everything written is sent, is being sent
\* or waits with a task to wake the thread, once and in order; the file comes after
\* its header (BufferedSocket.cpp:423).
StreamIntact ==
    state = "running" /\ ~disconnecting =>
        /\ out.sent \o out.sendBuf \o out.writeBuf \o out.file = [i \in 1 .. out.written |-> i]
        /\ out.writeBuf # <<>> => "data" \in ToSet(tasks)
        /\ out.sendBuf # <<>> => at = "sending"

\* The line to the other side: cut when the socket has failed or is being closed, apart
\* from the write of a file that has been begun.
LineState ==
    IF state = "failed" \/ at = "ended" THEN "cut"
    ELSE IF ~disconnecting THEN "open"
    ELSE IF at = "write" \/ inFile THEN "closing" ELSE "cut"

Stream == INSTANCE Pipe WITH written <- out.written, received <- out.sent, line <- LineState

\* Whatever is closed when: what the other side receives is the beginning of what was
\* written, and once disconnecting is set at most the write that has been begun still
\* reaches it (threadSendData and threadSendFile, BufferedSocket.cpp:451 and 373).
StreamSpec == Stream!Spec

\* The thread of a socket its owner has given up ends, and a connection that is to be
\* closed without more ado fails, whatever the other side does (BufferedSocket.h:69).
EventuallyEnds ==
    /\ (released # "no") ~> (at = "ended")
    /\ disconnecting ~> (state = "failed" \/ at = "ended")
=============================================================================
