----------------------- MODULE BufferedSocket_proofs -----------------------
(***************************************************************************)
(* What a BufferedSocket keeps to for every length of a file, any number   *)
(* of tasks, messages and lines, and whatever is closed when.              *)
(***************************************************************************)
EXTENDS BufferedSocket, SequenceTheorems, TLAPS

Has(q, t) == \E i \in 1 .. Len(q) : q[i] = t
Once(q, t) == \A i, j \in 1 .. Len(q) : q[i] = t /\ q[j] = t => i = j
Before(q, t, u) == \A i, j \in 1 .. Len(q) : q[i] = t /\ q[j] = u => i < j

\* The owner is gone only when the thread has no use for it; before the socket is
\* opened, nothing happens to it.
OwnerInv ==
    /\ released = "deleted" => state = "failed" \/ Owner = "http" \/ at = "ended"
    /\ ~Listening => disconnecting
    /\ at \notin {"none", "events", "write", "ended"} => state = "running"
    /\ at = "write" \/ inFile => state # "starting"
    /\ Owner = "http" => at # "call" /\ ~Has(tasks, "call")
    /\ opening # "done" => state = "starting" /\ Listening
                           /\ ~Has(tasks, "connect") /\ ~Has(tasks, "accepted")
    /\ opening = "created" <=> at = "none"

\* q continues numbers from n.
Numbered(q, n) == \A i \in 1 .. Len(q) : q[i] = n + i

\* The buffers and the file hold what has been written, one after another.
Pieces(o) ==
    /\ Numbered(o.sent, 0)
    /\ Numbered(o.sendBuf, Len(o.sent))
    /\ Numbered(o.writeBuf, Len(o.sent) + Len(o.sendBuf))
    /\ Numbered(o.file, Len(o.sent) + Len(o.sendBuf) + Len(o.writeBuf))
    /\ o.written = Len(o.sent) + Len(o.sendBuf) + Len(o.writeBuf) + Len(o.file)

FilePlaces == {"file", "check", "write", "blocked"}
InFile == at \in FilePlaces \/ inFile

\* While the connection is not being closed, the thread knows of what there is to
\* send; the file is with the thread, or with a task behind the one for its header.
Flow ==
    state # "failed" /\ ~disconnecting =>
        /\ Pieces(out)
        /\ out.sendBuf # <<>> <=> at = "sending"
        /\ out.writeBuf # <<>> <=> Has(tasks, "data")
        /\ Once(tasks, "data") /\ Once(tasks, "file") /\ Before(tasks, "data", "file")
        /\ ~out.serving => out.file = <<>> /\ ~InFile /\ ~Has(tasks, "file")
        /\ InFile => ~Has(tasks, "file") /\ out.writeBuf = <<>> /\ out.sendBuf = <<>>
        /\ state = "starting" \/ at \in {"connecting", "accepting"} => out.written = 0

\* Whether or not it is being closed.
FileInv ==
    /\ at \in {"check", "write", "blocked"} \/ inFile => out.file # <<>>
    /\ inFile => at \in {"events", "call"} /\ out.writeBuf = <<>> /\ ~Has(tasks, "file")
    /\ Owner # "peer" => ~out.serving /\ ~InFile /\ ~Has(tasks, "file")
    /\ out.serving => out.written > 0

-----------------------------------------------------------------------------
(* Tasks *)

\* What a queue holds when a task has been left in it; the order of two kinds of task is
\* kept when the later one is not in it yet.
LEMMA Appended ==
    ASSUME NEW q \in Seq(Tasks), NEW t \in Tasks
    PROVE  /\ Append(q, t) \in Seq(Tasks)
           /\ \A u : Has(Append(q, t), u) <=> Has(q, u) \/ u = t
           /\ \A u : Once(q, u) /\ (u = t => ~Has(q, u)) => Once(Append(q, t), u)
           /\ \A u, v : Before(q, u, v) /\ u # v /\ (u = t => ~Has(q, v)) =>
                          Before(Append(q, t), u, v)
           /\ ~Has(q, t) => \A i \in 1 .. Len(Append(q, t)) :
                               Append(q, t)[i] = t <=> i = Len(Append(q, t))
<1> DEFINE a == Append(q, t)
           n == Len(q)
<1>1. /\ a \in Seq(Tasks) /\ n \in Nat /\ Len(a) = n + 1
      /\ \A i \in 1 .. n : a[i] = q[i]
      /\ a[n + 1] = t
  BY AppendProperties
<1> HIDE DEF a, n
<1>2. \A i \in 1 .. Len(a) : i \in 1 .. n \/ i = n + 1
  BY <1>1
<1>3. 1 .. n \subseteq 1 .. Len(a) /\ n + 1 \in 1 .. Len(a)
  BY <1>1
<1>4. \A u : Has(a, u) <=> Has(q, u) \/ u = t
  BY <1>1, <1>2, <1>3 DEF Has, n
<1>5. \A u : Once(q, u) /\ (u = t => ~Has(q, u)) => Once(a, u)
  BY <1>1, <1>2, <1>3 DEF Has, Once, n
<1>6. \A u, v : Before(q, u, v) /\ u # v /\ (u = t => ~Has(q, v)) => Before(a, u, v)
  BY <1>1, <1>2, <1>3 DEF Has, Before, n
<1>7. ~Has(q, t) => \A i \in 1 .. Len(a) : a[i] = t <=> i = Len(a)
  BY <1>1, <1>2, <1>3 DEF Has, n
<1> QED BY <1>1, <1>4, <1>5, <1>6, <1>7 DEF a

\* What a queue holds when its first task has been taken; what comes before that task in
\* order is not in it.
LEMMA Taken ==
    ASSUME NEW q \in Seq(Tasks), q # <<>>
    PROVE  /\ Head(q) \in Tasks /\ Tail(q) \in Seq(Tasks) /\ Has(q, Head(q))
           /\ \A u : Has(Tail(q), u) => Has(q, u)
           /\ \A u : Has(q, u) => u = Head(q) \/ Has(Tail(q), u)
           /\ \A u : Once(q, u) => Once(Tail(q), u) /\ (u = Head(q) => ~Has(Tail(q), u))
           /\ \A u, v : Before(q, u, v) => Before(Tail(q), u, v)
                                         /\ (v = Head(q) => ~Has(q, u))
           /\ \A u : (\A i \in 1 .. Len(q) : q[i] = u <=> i = Len(q)) =>
                     \A i \in 1 .. Len(Tail(q)) : Tail(q)[i] = u <=> i = Len(Tail(q))
<1> DEFINE r == Tail(q)
           n == Len(q)
<1>1. /\ Head(q) = q[1] /\ n \in Nat \ {0} /\ r \in Seq(Tasks) /\ Len(r) = n - 1
      /\ \A i \in 1 .. n - 1 : r[i] = q[i + 1]
      /\ Head(q) \in Tasks
  BY HeadTailProperties, EmptySeq
<1> HIDE DEF r, n
<1>2. \A i \in 1 .. n - 1 : i + 1 \in 1 .. n
  BY <1>1
<1>3. \A i \in 1 .. n : i = 1 \/ (i - 1 \in 1 .. n - 1 /\ (i - 1) + 1 = i)
  BY <1>1
<1>4. 1 \in 1 .. n
  BY <1>1
<1>5. \A u : (Has(r, u) => Has(q, u)) /\ (Has(q, u) => u = q[1] \/ Has(r, u))
  <2> TAKE u
  <2>1. Has(r, u) => Has(q, u)
    BY <1>1, <1>2 DEF Has, n
  <2>2. ASSUME NEW i \in 1 .. n, q[i] = u, u # q[1]
        PROVE  i - 1 \in 1 .. Len(r) /\ r[i - 1] = u
    BY <1>1, <1>3, <2>2
  <2> QED BY <2>1, <2>2 DEF Has, n
<1>6. \A u : Once(q, u) => Once(r, u) /\ (u = q[1] => ~Has(r, u))
  BY <1>1, <1>2, <1>4 DEF Has, Once, n
<1>7. \A u, v : Before(q, u, v) => Before(r, u, v) /\ (v = q[1] => ~Has(q, u))
  BY <1>1, <1>2, <1>4 DEF Has, Before, n
<1>8. \A u : (\A i \in 1 .. Len(q) : q[i] = u <=> i = Len(q)) =>
              \A i \in 1 .. Len(r) : r[i] = u <=> i = Len(r)
  BY <1>1, <1>2 DEF n
<1>9. Has(q, q[1])
  BY <1>4 DEF Has, n
<1> QED BY <1>1, <1>5, <1>6, <1>7, <1>8, <1>9 DEF r

\* What TypeOK says about the end of a socket.
QueueOK(q, r) ==
    /\ q \in Seq(Tasks) /\ Once(q, "shutdown")
    /\ r = "no" => ~Has(q, "shutdown")
    /\ r \in {"deleted", "reconnect"} =>
         \A i \in 1 .. Len(q) : q[i] = "shutdown" <=> i = Len(q)

StateOK ==
    /\ setup \in Setups /\ limits \in Limits
    /\ opening \in {"created", "started", "done"}
    /\ released \in {"no", "deleted", "reconnect", "shutdown"}
    /\ state \in {"starting", "running", "failed"}
    /\ disconnecting \in BOOLEAN /\ inFile \in BOOLEAN
    /\ at \in {"none", "events", "call", "connecting", "accepting", "sending", "file", "check",
               "write", "blocked", "socket", "ended"}

OutOK == out \in [written : Nat, writeBuf : Seq(Nat), sendBuf : Seq(Nat), file : Seq(Nat),
                   sent : Seq(Nat), serving : BOOLEAN]

\* TypeOK says what its parts say, the parts on the tasks in terms of Has and Once.
LEMMA TypeParts == TypeOK <=> StateOK /\ OutOK /\ QueueOK(tasks, released)
<1>1. tasks \in Seq(Tasks) => DOMAIN tasks = 1 .. Len(tasks)
  BY LenProperties
<1>2. \A i, j : {tasks[i], tasks[j]} = {"shutdown"} <=> tasks[i] = "shutdown" /\ tasks[j] = "shutdown"
  OBVIOUS
<1>3. tasks \in Seq(Tasks) =>
        ((\A i, j \in DOMAIN tasks : {tasks[i], tasks[j]} = {"shutdown"} => ~Listening /\ i = j)
         <=> Once(tasks, "shutdown") /\ (released = "no" => ~Has(tasks, "shutdown")))
  BY <1>1, <1>2 DEF Once, Has, Listening
<1> QED BY <1>1, <1>3 DEF TypeOK, StateOK, OutOK, QueueOK

IInv ==
    /\ StateOK /\ OutOK /\ QueueOK(tasks, released)
    /\ OwnerInv /\ Flow /\ FileInv

-----------------------------------------------------------------------------
(* Steps of the thread that take a task *)

\* The rest of the tasks keeps what IInv says about them.
LEMMA TakenQueue ==
    ASSUME IInv, tasks # <<>>, tasks' = Tail(tasks), UNCHANGED released
    PROVE  /\ QueueOK(tasks, released)' /\ Head(tasks) \in Tasks
           /\ \A u : Has(tasks', u) => Has(tasks, u)
           /\ Has(tasks, Head(tasks))
           /\ \A u : Has(tasks, u) => u = Head(tasks) \/ Has(tasks', u)
           /\ \A u : Once(tasks, u) => Once(tasks', u) /\ (u = Head(tasks) => ~Has(tasks', u))
           /\ \A u, v : Before(tasks, u, v) => Before(tasks', u, v)
                                             /\ (v = Head(tasks) => ~Has(tasks, u))
BY Taken DEF IInv, QueueOK

\* Nothing is written before the socket is connected.
LEMMA NothingWritten ==
    ASSUME IInv, out.written = 0
    PROVE  /\ ~out.serving
           /\ state # "failed" /\ ~disconnecting =>
                /\ Len(out.sent) = 0 /\ Len(out.file) = 0
                /\ out.sendBuf = <<>> /\ out.writeBuf = <<>> /\ out.file = <<>>
                /\ ~Has(tasks, "data") /\ ~Has(tasks, "file")
<1>1. /\ Len(out.sent) \in Nat /\ Len(out.sendBuf) \in Nat
      /\ Len(out.writeBuf) \in Nat /\ Len(out.file) \in Nat
  BY LenProperties DEF IInv, OutOK
<1>2. ~out.serving
  BY DEF IInv, FileInv
<1>3. ASSUME state # "failed", ~disconnecting
      PROVE  /\ Len(out.sent) = 0 /\ Len(out.sendBuf) = 0
             /\ Len(out.writeBuf) = 0 /\ Len(out.file) = 0
  <2>1. Pieces(out)
    BY <1>3 DEF IInv, Flow
  <2>2. out.written = Len(out.sent) + Len(out.sendBuf) + Len(out.writeBuf) + Len(out.file)
    BY <2>1 DEF Pieces
  <2> DEFINE a == Len(out.sent)
             b == Len(out.sendBuf)
             c == Len(out.writeBuf)
             d == Len(out.file)
  <2>3. a \in Nat /\ b \in Nat /\ c \in Nat /\ d \in Nat /\ a + b + c + d = 0
    BY <1>1, <2>2
  <2> HIDE DEF a, b, c, d
  <2>4. a = 0 /\ b = 0 /\ c = 0 /\ d = 0
    BY <2>3
  <2> QED BY <2>4 DEF a, b, c, d
<1>4. \A q \in Seq(Nat) : Len(q) = 0 => q = <<>>
  BY EmptySeq
<1> QED BY <1>2, <1>3, <1>4 DEF IInv, OutOK, Flow

\* A task that is not served is dropped; as long as the connection is not being closed, it
\* is not one that wakes the thread for something to be sent.
LEMMA DropKeeps == IInv /\ Drop => IInv'
<1> SUFFICES ASSUME IInv, Drop PROVE IInv'
  OBVIOUS
<1> USE DEF IInv
<1>1. PICK t \in Tasks \ {"shutdown"} : ~Serves(t) /\ Take(t, "events")
  BY DEF Drop
<1>2. /\ at = "events" /\ at' = "events" /\ tasks # <<>> /\ Head(tasks) = t
      /\ tasks' = Tail(tasks)
      /\ UNCHANGED <<setup, limits, opening, released, disconnecting, state, inFile, out>>
  BY <1>1 DEF Take, Drop
<1>3. StateOK' /\ OutOK' /\ QueueOK(tasks, released)'
  BY <1>2, TakenQueue DEF StateOK, OutOK
<1>4. OwnerInv'
  BY <1>2, TakenQueue DEF OwnerInv, Listening, Owner
<1>5. FileInv'
  BY <1>2, TakenQueue DEF FileInv, InFile, FilePlaces, Owner
<1>6. ASSUME state # "failed", ~disconnecting
      PROVE  t \notin {"data", "file"}
  BY <1>1, <1>2, <1>6, NothingWritten, TakenQueue DEF Serves, Flow, StateOK
<1>7. Flow'
  BY <1>2, <1>6, TakenQueue DEF Flow, InFile, FilePlaces
<1> QED BY <1>3, <1>4, <1>5, <1>7

\* The thread ends, or goes on in a file, only when the connection is being closed.
LEMMA ShutdownKeeps == IInv /\ Shutdown => IInv'
<1> SUFFICES ASSUME IInv, Shutdown PROVE IInv'
  OBVIOUS
<1> USE DEF IInv
<1>1. /\ at = "events" /\ at' = (IF inFile THEN "write" ELSE "ended") /\ inFile' = FALSE
      /\ tasks # <<>> /\ Head(tasks) = "shutdown" /\ tasks' = Tail(tasks)
      /\ UNCHANGED <<setup, limits, opening, released, disconnecting, state, out>>
  BY DEF Take, Shutdown
<1>2. ~Listening /\ disconnecting /\ opening = "done"
  BY <1>1, TakenQueue DEF QueueOK, OwnerInv, Listening, StateOK
<1>3. StateOK' /\ OutOK' /\ QueueOK(tasks, released)'
  BY <1>1, TakenQueue DEF StateOK, OutOK
<1>4. OwnerInv'
  BY <1>1, <1>2, TakenQueue DEF OwnerInv, Listening, Owner, StateOK
<1>5. FileInv'
  BY <1>1, TakenQueue DEF FileInv, InFile, FilePlaces, Owner, StateOK
<1>6. Flow'
  BY <1>1, <1>2 DEF Flow
<1> QED BY <1>3, <1>4, <1>5, <1>6

\* The thread connects before anything has been written.
LEMMA ConnectKeeps == IInv /\ Connect => IInv'
<1> SUFFICES ASSUME IInv, Connect PROVE IInv'
  OBVIOUS
<1> USE DEF IInv
<1>1. /\ at = "events" /\ at' \in {"connecting", "accepting"}
      /\ state = "starting" /\ state' = "running"
      /\ tasks # <<>> /\ Head(tasks) \in {"connect", "accepted"} /\ tasks' = Tail(tasks)
      /\ UNCHANGED <<setup, limits, opening, released, disconnecting, inFile, out>>
  BY DEF Take, Connect, Serves
<1>2. opening = "done" /\ ~inFile
  BY <1>1, TakenQueue DEF OwnerInv, StateOK
<1>3. StateOK' /\ OutOK' /\ QueueOK(tasks, released)'
  BY <1>1, TakenQueue DEF StateOK, OutOK
<1>4. OwnerInv'
  BY <1>1, <1>2, TakenQueue DEF OwnerInv, Listening, Owner, StateOK
<1>5. FileInv'
  BY <1>1, <1>2, TakenQueue DEF FileInv, InFile, FilePlaces, Owner, StateOK
<1>6. ASSUME state' # "failed", ~disconnecting
      PROVE  /\ out.written = 0 /\ ~out.serving /\ Pieces(out)
             /\ out.sendBuf = <<>> /\ out.writeBuf = <<>> /\ out.file = <<>>
             /\ ~Has(tasks, "data") /\ ~Has(tasks, "file")
  BY <1>1, <1>6, NothingWritten DEF Flow
<1>7. Flow'
  BY <1>1, <1>2, <1>6, TakenQueue DEF Flow, InFile, FilePlaces
<1> QED BY <1>3, <1>4, <1>5, <1>7

\* The buffers are swapped; the one to be sent was empty.
LEMMA SendDataKeeps == IInv /\ SendData => IInv'
<1> SUFFICES ASSUME IInv, SendData PROVE IInv'
  OBVIOUS
<1> USE DEF IInv
<1>1. /\ at = "events" /\ at' = (IF out.writeBuf = <<>> THEN "events" ELSE "sending")
      /\ tasks # <<>> /\ Head(tasks) = "data" /\ tasks' = Tail(tasks)
      /\ state = "running"
      /\ UNCHANGED <<setup, limits, opening, released, disconnecting, state, inFile>>
      /\ out' = IF out.writeBuf = <<>> THEN out
                ELSE [out EXCEPT !.sendBuf = out.writeBuf, !.writeBuf = out.sendBuf]
  BY DEF Take, SendData, Serves
<1>2. StateOK' /\ QueueOK(tasks, released)'
  BY <1>1, TakenQueue DEF StateOK
<1>3. OutOK' /\ out'.written = out.written /\ out'.serving = out.serving
      /\ out'.file = out.file /\ out'.sent = out.sent
  BY <1>1 DEF OutOK
<1>4. OwnerInv'
  BY <1>1, TakenQueue DEF OwnerInv, Listening, Owner, StateOK
<1>5. FileInv'
  BY <1>1, <1>3, TakenQueue DEF FileInv, InFile, FilePlaces, Owner, StateOK
<1>6. ASSUME ~disconnecting PROVE Flow'
  <2>1. /\ Pieces(out) /\ out.sendBuf = <<>> /\ out.writeBuf # <<>> /\ Has(tasks, "data")
        /\ Once(tasks, "data") /\ ~Has(tasks', "data") /\ ~InFile /\ ~inFile
    BY <1>1, <1>6, TakenQueue DEF Flow, InFile
  <2>2. out'.sendBuf = out.writeBuf /\ out'.writeBuf = <<>> /\ at' = "sending"
    BY <1>1, <2>1 DEF OutOK
  <2>3. Len(<<>>) = 0 /\ Len(out.sent) \in Nat /\ Len(out.writeBuf) \in Nat /\ Len(out.file) \in Nat
    BY LenProperties DEF OutOK
  <2>4. Pieces(out)'
    <3> DEFINE m == Len(out.sent)
               k == Len(out.writeBuf)
               l == Len(out.file)
    <3>1. /\ Numbered(out.sent, 0) /\ Numbered(out.writeBuf, m + 0)
          /\ Numbered(out.file, m + 0 + k) /\ out.written = m + 0 + k + l
      BY <2>1, <2>3 DEF Pieces
    <3>2. Numbered(<<>>, m + k)
      BY DEF Numbered
    <3>3. m + 0 = m /\ m + k + 0 = m + k /\ m \in Nat /\ k \in Nat
      BY <2>3
    <3> HIDE DEF m, k, l
    <3>4. m + 0 + k = m + k + 0 /\ m + k + 0 + l = m + 0 + k + l
      BY <3>3
    <3>5. /\ Numbered(out.writeBuf, m) /\ Numbered(out.file, m + k + 0)
          /\ out.written = m + k + 0 + l
      BY <3>1, <3>3, <3>4
    <3> QED BY <1>3, <2>2, <2>3, <3>1, <3>2, <3>3, <3>4, <3>5 DEF Pieces, m, k, l
  <2> QED BY <1>1, <1>3, <2>1, <2>2, <2>4, TakenQueue DEF Flow, InFile, FilePlaces
<1>7. Flow'
  BY <1>1, <1>6 DEF Flow
<1> QED BY <1>2, <1>3, <1>4, <1>5, <1>7

\* The file is next, after what has been written before it.
LEMMA SendFileKeeps == IInv /\ SendFile => IInv'
<1> SUFFICES ASSUME IInv, SendFile PROVE IInv'
  OBVIOUS
<1> USE DEF IInv
<1>1. /\ at = "events" /\ at' = (IF disconnecting THEN "socket" ELSE "file")
      /\ tasks # <<>> /\ Head(tasks) = "file" /\ tasks' = Tail(tasks)
      /\ state = "running"
      /\ UNCHANGED <<setup, limits, opening, released, disconnecting, state, inFile, out>>
  BY DEF Take, SendFile, Serves
<1>2. StateOK' /\ OutOK' /\ QueueOK(tasks, released)'
  BY <1>1, TakenQueue DEF StateOK, OutOK
<1>3. OwnerInv'
  BY <1>1, TakenQueue DEF OwnerInv, Listening, Owner, StateOK
<1>4. FileInv'
  BY <1>1, TakenQueue DEF FileInv, InFile, FilePlaces, Owner, StateOK
<1>5. ASSUME ~disconnecting PROVE Flow'
  <2>1. /\ out.writeBuf = <<>> /\ out.sendBuf = <<>> /\ ~Has(tasks', "file") /\ ~inFile
        /\ out.serving
    BY <1>1, <1>5, TakenQueue DEF Flow, InFile
  <2> QED BY <1>1, <2>1, <1>5, TakenQueue DEF Flow, InFile, FilePlaces
<1>6. Flow'
  BY <1>1, <1>5 DEF Flow
<1> QED BY <1>2, <1>3, <1>4, <1>6

\* The thread takes a posted call of an owner that may post.
LEMMA TakeCallKeeps == IInv /\ TakeCall => IInv'
<1> SUFFICES ASSUME IInv, TakeCall PROVE IInv'
  OBVIOUS
<1> USE DEF IInv
<1>1. /\ at = "events" /\ at' = "call"
      /\ tasks # <<>> /\ Head(tasks) = "call" /\ tasks' = Tail(tasks)
      /\ state = "running"
      /\ UNCHANGED <<setup, limits, opening, released, disconnecting, state, inFile, out>>
  BY DEF Take, TakeCall, Serves
<1>2. StateOK' /\ OutOK' /\ QueueOK(tasks, released)'
  BY <1>1, TakenQueue DEF StateOK, OutOK
<1>3. OwnerInv'
  BY <1>1, TakenQueue DEF OwnerInv, Listening, Owner, StateOK
<1>4. FileInv'
  BY <1>1, TakenQueue DEF FileInv, InFile, FilePlaces, Owner, StateOK
<1>5. Flow'
  BY <1>1, TakenQueue DEF Flow, InFile, FilePlaces
<1> QED BY <1>2, <1>3, <1>4, <1>5

-----------------------------------------------------------------------------
(* Failing *)

\* A task is left for the thread. A socket that has been shut down for good is left none.
LEMMA PostedQueue ==
    ASSUME IInv, NEW t \in Tasks \ {"shutdown"}, NEW q, QueueOK(q, released),
           released \in {"no", "shutdown"}
    PROVE  /\ QueueOK(Append(q, t), released)
           /\ \A u : Has(Append(q, t), u) <=> Has(q, u) \/ u = t
           /\ \A u : Once(q, u) /\ (u = t => ~Has(q, u)) => Once(Append(q, t), u)
           /\ \A u, v : Before(q, u, v) /\ u # v /\ (u = t => ~Has(q, v)) =>
                          Before(Append(q, t), u, v)
BY Appended DEF QueueOK

\* putSocket leaves the last task of a socket, whose connection is then being closed.
LEMMA PutQueue ==
    ASSUME NEW q, QueueOK(q, "no"), NEW how \in {"deleted", "reconnect", "shutdown"},
           PutSocket(q, how)
    PROVE  /\ QueueOK(tasks', released') /\ released' = how /\ disconnecting' = TRUE
           /\ \A u : Has(tasks', u) <=> Has(q, u) \/ u = "shutdown"
<1>1. q \in Seq(Tasks) /\ "shutdown" \in Tasks /\ ~Has(q, "shutdown") /\ Once(q, "shutdown")
  BY DEF QueueOK, Tasks
<1> QED BY <1>1, Appended DEF PutSocket, QueueOK

\* An owner that is gone has a socket that has failed, and is to end.
LEMMA FailKeeps ==
    ASSUME IInv, NEW q, NEW nested \in BOOLEAN, Fail(q, nested), UNCHANGED limits,
           state # "starting", nested => inFile,
           QueueOK(q, released), \A u : Has(q, u) => Has(tasks, u)
    PROVE  IInv'
<1> USE DEF IInv
<1>1. /\ state' = "failed" /\ at' = "events" /\ inFile' = nested
      /\ UNCHANGED <<setup, limits, opening, out>>
  BY DEF Fail
<1>2. opening = "done"
  BY DEF OwnerInv
<1>3. /\ QueueOK(tasks, released)' /\ disconnecting' \in BOOLEAN
      /\ released' \in {"no", "deleted", "reconnect", "shutdown"}
      /\ \A u : Has(tasks', u) => Has(q, u) \/ u \in {"disconnect", "shutdown"}
      /\ released' # "no" => disconnecting'
  <2>1. CASE state # "failed" /\ Listening /\ Owner = "peer"
    <3>1. PutSocket(Append(q, "disconnect"), "deleted")
      BY <2>1 DEF Fail, OnFailed
    <3>2. "disconnect" \in Tasks \ {"shutdown"}
      BY DEF Tasks
    <3>3. QueueOK(Append(q, "disconnect"), "no")
          /\ \A u : Has(Append(q, "disconnect"), u) <=> Has(q, u) \/ u = "disconnect"
      BY <2>1, <3>2, PostedQueue DEF Listening
    <3> QED BY <3>1, <3>3, PutQueue
  <2>2. CASE state # "failed" /\ Listening /\ Owner = "http"
    <3>1. PutSocket(q, "deleted")
      BY <2>2 DEF Fail, OnFailed
    <3> QED BY <2>2, <3>1, PutQueue DEF Listening
  <2>3. CASE ~(state # "failed" /\ Listening /\ Owner \in {"peer", "http"})
    <3>1. tasks' = q /\ UNCHANGED <<disconnecting, released>>
      BY <2>3 DEF Fail, OnFailed
    <3> QED BY <3>1 DEF OwnerInv, Listening, StateOK
  <2> QED BY <2>1, <2>2, <2>3
<1>4. StateOK' /\ OutOK'
  BY <1>1, <1>3 DEF StateOK, OutOK
<1>5. OwnerInv'
  BY <1>1, <1>2, <1>3 DEF OwnerInv, Listening, Owner
<1>6. FileInv'
  BY <1>1, <1>3 DEF FileInv, InFile, FilePlaces, Owner
<1>7. Flow'
  BY <1>1 DEF Flow
<1> QED BY <1>3, <1>4, <1>5, <1>6, <1>7

\* The connection is closed as asked for, within a file or not.
LEMMA TakeDisconnectKeeps == IInv /\ TakeDisconnect => IInv'
<1> SUFFICES ASSUME IInv, TakeDisconnect PROVE IInv'
  OBVIOUS
<1>1. /\ tasks # <<>> /\ state = "running" /\ Fail(Tail(tasks), inFile) /\ UNCHANGED limits
  BY DEF TakeDisconnect, Serves
<1>2. QueueOK(Tail(tasks), released) /\ \A u : Has(Tail(tasks), u) => Has(tasks, u)
  BY <1>1, Taken DEF IInv, QueueOK
<1>3. inFile \in BOOLEAN
  BY DEF IInv, StateOK
<1> QED BY <1>1, <1>2, <1>3, FailKeeps

\* The connection fails by itself, when it is opened, read or written.
LEMMA FailingKeeps ==
    IInv /\ (ConnectFails \/ Closed \/ ReadFails \/ WriteFails) => IInv'
<1> SUFFICES ASSUME IInv, ConnectFails \/ Closed \/ ReadFails \/ WriteFails PROVE IInv'
  OBVIOUS
<1>1. inFile \in BOOLEAN /\ QueueOK(tasks, released)
  BY DEF IInv, StateOK
<1>2. state # "starting"
  BY DEF IInv, OwnerInv, ConnectFails, Closed, Reading, ReadFails, WriteFails
<1>3. PICK nested \in {inFile, FALSE} : Fail(tasks, nested) /\ UNCHANGED limits
  BY DEF ConnectFails, Closed, ReadFails, WriteFails
<1> QED BY <1>1, <1>2, <1>3, FailKeeps

-----------------------------------------------------------------------------
(* Steps that leave the tasks and what is to be sent alone *)

\* The thread goes on at another place; it gives up only what is being closed.
LEMMA MovesKeep ==
    IInv /\ (Accepts \/ GivesUpConnecting \/ Nothing \/ GivesUpSending \/ Writable
             \/ Check \/ NoTask) => IInv'
<1> SUFFICES ASSUME IInv, Accepts \/ GivesUpConnecting \/ Nothing \/ GivesUpSending
                            \/ Writable \/ Check \/ NoTask
             PROVE IInv'
  OBVIOUS
<1> USE DEF IInv
<1>1. UNCHANGED <<setup, limits, opening, released, tasks, state, disconnecting, out>>
  BY DEF Accepts, GivesUpConnecting, Nothing, GivesUpSending, Writable, Check, NoTask, Goes,
         socketVars
<1>2. \/ /\ at \in {"accepting", "socket"} /\ at' = "events" /\ inFile' = inFile
      \/ /\ at \in {"connecting", "accepting", "sending"} /\ disconnecting
         /\ at' = "events" /\ inFile' = inFile
      \/ at = "blocked" /\ at' = "check" /\ inFile' = inFile
      \/ at = "check" /\ disconnecting /\ at' = "socket" /\ inFile' = FALSE
      \/ at = "check" /\ ~disconnecting /\ at' = "events" /\ inFile' = TRUE
      \/ at = "events" /\ inFile /\ at' = "write" /\ inFile' = FALSE
      \/ at = "events" /\ state = "running" /\ ~inFile /\ at' = "socket" /\ inFile' = FALSE
  <2>1. inFile \in BOOLEAN /\ disconnecting \in BOOLEAN
    BY DEF StateOK
  <2> QED BY <2>1 DEF Accepts, GivesUpConnecting, Nothing, GivesUpSending, Writable, Check,
                     NoTask, Goes
<1>3. StateOK' /\ OutOK' /\ QueueOK(tasks, released)'
  BY <1>1, <1>2 DEF StateOK, OutOK
<1>4. OwnerInv'
  BY <1>1, <1>2 DEF OwnerInv, Listening, Owner
<1>5. FileInv'
  <2>1. at = "check" /\ ~disconnecting => out.writeBuf = <<>> /\ ~Has(tasks, "file")
    BY DEF Flow, InFile, FilePlaces, OwnerInv
  <2> QED BY <1>1, <1>2, <2>1 DEF FileInv, InFile, FilePlaces, Owner
<1>6. ASSUME state # "failed", ~disconnecting PROVE Flow'
  BY <1>1, <1>2, <1>6 DEF Flow, InFile, FilePlaces, OwnerInv, StateOK
<1>7. Flow'
  BY <1>1, <1>6 DEF Flow
<1> QED BY <1>3, <1>4, <1>5, <1>7

\* The thread starts, and is given the call that a known user posts.
LEMMA StartKeeps == IInv /\ Start => IInv'
<1> SUFFICES ASSUME IInv, Start PROVE IInv'
  OBVIOUS
<1> USE DEF IInv
<1>1. /\ opening = "created" /\ opening' = "started" /\ at' = "events"
      /\ tasks' = (IF setup.user THEN Append(tasks, "call") ELSE tasks)
      /\ UNCHANGED <<setup, limits, released, state, disconnecting, inFile, out>>
  BY DEF Start
<1>2. at = "none" /\ state = "starting" /\ Listening /\ ~inFile
  BY <1>1 DEF OwnerInv, StateOK
<1>3. setup.user => Owner = "peer"
  BY BufferedSocketAssumption DEF StateOK, Owner
<1>4. /\ QueueOK(tasks, released)'
      /\ \A u : Has(tasks', u) => Has(tasks, u) \/ (u = "call" /\ Owner = "peer")
      /\ \A u : Has(tasks, u) => Has(tasks', u)
      /\ \A u \in {"data", "file"} : Once(tasks, u) => Once(tasks', u)
      /\ Before(tasks, "data", "file") => Before(tasks', "data", "file")
  <2>1. "call" \in Tasks \ {"shutdown"} /\ released \in {"no", "shutdown"}
    BY <1>2 DEF Tasks, Listening
  <2> QED BY <1>1, <1>3, <2>1, PostedQueue
<1>5. StateOK' /\ OutOK'
  BY <1>1 DEF StateOK, OutOK
<1>6. OwnerInv'
  BY <1>1, <1>2, <1>4 DEF OwnerInv, Listening, Owner
<1>7. FileInv'
  BY <1>1, <1>2, <1>4 DEF FileInv, InFile, FilePlaces, Owner
<1>8. Flow'
  BY <1>1, <1>2, <1>4 DEF Flow, InFile, FilePlaces
<1> QED BY <1>4, <1>5, <1>6, <1>7, <1>8

\* The thread is given the task to open the socket.
LEMMA AddTaskKeeps == IInv /\ AddTask => IInv'
<1> SUFFICES ASSUME IInv, AddTask PROVE IInv'
  OBVIOUS
<1> USE DEF IInv
<1>1. PICK t \in {"connect", "accepted"} :
        /\ opening = "started" /\ opening' = "done" /\ tasks' = Append(tasks, t)
        /\ UNCHANGED <<setup, limits, released, state, disconnecting, at, inFile, out>>
  BY DEF AddTask
<1>2. Listening /\ state = "starting"
  BY <1>1 DEF OwnerInv, StateOK
<1>3. /\ QueueOK(tasks, released)' /\ \A u : Has(tasks', u) <=> Has(tasks, u) \/ u = t
      /\ \A u \in {"data", "file"} : Once(tasks, u) => Once(tasks', u)
      /\ Before(tasks, "data", "file") => Before(tasks', "data", "file")
  <2>1. t \in Tasks \ {"shutdown"} /\ released \in {"no", "shutdown"}
    BY <1>2 DEF Tasks, Listening
  <2> QED BY <1>1, <2>1, PostedQueue
<1>4. StateOK' /\ OutOK'
  BY <1>1 DEF StateOK, OutOK
<1>5. OwnerInv'
  BY <1>1, <1>2, <1>3 DEF OwnerInv, Listening, Owner
<1>6. FileInv'
  BY <1>1, <1>3 DEF FileInv, InFile, FilePlaces, Owner
<1>7. Flow'
  BY <1>1, <1>3 DEF Flow, InFile, FilePlaces
<1> QED BY <1>3, <1>4, <1>5, <1>6, <1>7

\* A connection that cannot be accepted is gone, and the thread has not been started.
LEMMA AcceptFailsKeeps == IInv /\ AcceptFails => IInv'
<1> SUFFICES ASSUME IInv, AcceptFails PROVE IInv'
  OBVIOUS
<1> USE DEF IInv
<1>1. /\ opening = "created" /\ opening' = "done" /\ at' = "ended" /\ setup.opened = "accept"
      /\ PutSocket(Append(tasks, "disconnect"), "deleted")
      /\ UNCHANGED <<setup, limits, state, inFile, out>>
  BY DEF AcceptFails
<1>2. Listening /\ at = "none" /\ state = "starting" /\ ~inFile
  BY <1>1 DEF OwnerInv, StateOK
<1>3. /\ QueueOK(tasks, released)' /\ released' = "deleted" /\ disconnecting' = TRUE
      /\ \A u : Has(tasks', u) => Has(tasks, u) \/ u \in {"disconnect", "shutdown"}
  <2>1. "disconnect" \in Tasks \ {"shutdown"} /\ released = "no"
    BY <1>2 DEF Tasks, Listening
  <2>2. QueueOK(Append(tasks, "disconnect"), "no")
        /\ \A u : Has(Append(tasks, "disconnect"), u) <=> Has(tasks, u) \/ u = "disconnect"
    BY <2>1, PostedQueue
  <2> QED BY <1>1, <2>2, PutQueue
<1>4. StateOK' /\ OutOK'
  BY <1>1, <1>3 DEF StateOK, OutOK
<1>5. OwnerInv'
  BY <1>1, <1>2, <1>3 DEF OwnerInv, Listening, Owner
<1>6. FileInv'
  BY <1>1, <1>2, <1>3 DEF FileInv, InFile, FilePlaces, Owner
<1>7. Flow'
  BY <1>3 DEF Flow
<1> QED BY <1>3, <1>4, <1>5, <1>6, <1>7

\* An owner is done with its socket, from outside of the thread or in a handler.
LEMMA PutKeeps ==
    ASSUME IInv, opening = "done", Listening,
           NEW q \in {tasks, Append(tasks, "disconnect")}, NEW how,
           \/ Owner = "hub" /\ how \in {"reconnect", "shutdown"}
           \/ Owner = "http" /\ how = "deleted",
           PutSocket(q, how), UNCHANGED <<setup, opening, state, inFile, out>>,
           limits' \in Limits,
           at' = at \/ (at = "socket" /\ at' = "events")
    PROVE  IInv'
<1> USE DEF IInv
<1>1. "disconnect" \in Tasks \ {"shutdown"} /\ released = "no"
  BY DEF Tasks, Listening
<1>2. QueueOK(q, "no") /\ \A u : Has(q, u) => Has(tasks, u) \/ u = "disconnect"
  <2>1. CASE q = Append(tasks, "disconnect")
    BY <1>1, <2>1, PostedQueue
  <2> QED BY <1>1, <2>1
<1>3. /\ QueueOK(tasks, released)' /\ released' = how /\ disconnecting' = TRUE
      /\ \A u : Has(tasks', u) => Has(tasks, u) \/ u \in {"disconnect", "shutdown"}
  BY <1>2, PutQueue
<1>4. StateOK' /\ OutOK'
  BY <1>3 DEF StateOK, OutOK
<1>5. OwnerInv'
  BY <1>3 DEF OwnerInv, Listening, Owner, StateOK
<1>6. FileInv'
  BY <1>3 DEF FileInv, InFile, FilePlaces, Owner, StateOK
<1>7. Flow'
  BY <1>3 DEF Flow
<1> QED BY <1>3, <1>4, <1>5, <1>6, <1>7

\* Another thread is done with the connection of a client or of an HTTP request.
LEMMA PutFromOutsideKeeps == IInv /\ PutFromOutside => IInv'
<1> SUFFICES ASSUME IInv, PutFromOutside PROVE IInv'
  OBVIOUS
<1>1. limits' \in Limits
  BY DEF PutFromOutside, IInv, StateOK
<1>2. at' = at
  BY DEF PutFromOutside
<1>3. /\ opening = "done" /\ Listening
      /\ UNCHANGED <<setup, opening, state, inFile, out>>
  BY DEF PutFromOutside
<1>4. CASE Owner = "hub"
  <2>1. PICK how \in {"reconnect", "shutdown"} : PutSocket(tasks, how)
    BY <1>4 DEF PutFromOutside
  <2> QED BY <1>1, <1>2, <1>3, <1>4, <2>1, PutKeeps
<1>5. CASE Owner = "http" /\ PutSocket(Append(tasks, "disconnect"), "deleted")
  BY <1>1, <1>2, <1>3, <1>5, PutKeeps
<1> QED BY <1>4, <1>5 DEF PutFromOutside

-----------------------------------------------------------------------------
(* What is to be sent *)

\* One number goes from the front of a buffer to the end of what has been sent.
LEMMA NumberedMove ==
    ASSUME NEW s \in Seq(Nat), NEW b \in Seq(Nat), b # <<>>
    PROVE  /\ Append(s, Head(b)) \in Seq(Nat) /\ Tail(b) \in Seq(Nat)
           /\ Len(Append(s, Head(b))) = Len(s) + 1 /\ Len(Tail(b)) = Len(b) - 1
           /\ Len(s) \in Nat /\ Len(b) \in Nat
           /\ Numbered(s, 0) /\ Numbered(b, Len(s)) =>
                /\ Numbered(Append(s, Head(b)), 0) /\ Numbered(Tail(b), Len(s) + 1)
<1> DEFINE m == Len(s)
           n == Len(b)
           r == Tail(b)
           h == Head(b)
           a == Append(s, h)
<1>1. /\ h = b[1] /\ n \in Nat \ {0} /\ r \in Seq(Nat) /\ Len(r) = n - 1
      /\ \A i \in 1 .. n - 1 : r[i] = b[i + 1]
      /\ h \in Nat
  BY HeadTailProperties, EmptySeq
<1>2. /\ a \in Seq(Nat) /\ m \in Nat /\ Len(a) = m + 1
      /\ \A i \in 1 .. m : a[i] = s[i]
      /\ a[m + 1] = h
  BY <1>1, AppendProperties
<1>3. ASSUME \A i \in 1 .. m : s[i] = 0 + i, \A i \in 1 .. n : b[i] = m + i
      PROVE  /\ \A i \in 1 .. Len(a) : a[i] = 0 + i
             /\ \A i \in 1 .. Len(r) : r[i] = (m + 1) + i
  <2> HIDE DEF m, n, r, h, a
  <2>1. h = m + 1
    BY <1>1, <1>3
  <2>2. ASSUME NEW i \in 1 .. Len(a) PROVE a[i] = 0 + i
    <3>1. i \in 1 .. m \/ i = m + 1
      BY <1>2
    <3> QED BY <1>2, <1>3, <2>1, <3>1
  <2>3. ASSUME NEW i \in 1 .. Len(r) PROVE r[i] = (m + 1) + i
    <3>1. i \in 1 .. n - 1 /\ i + 1 \in 1 .. n /\ i \in Nat
      BY <1>1
    <3>2. r[i] = m + (i + 1)
      BY <1>1, <1>3, <3>1
    <3> QED BY <1>2, <3>1, <3>2
  <2> QED BY <2>2, <2>3
<1> QED BY <1>1, <1>2, <1>3 DEF Numbered

\* What is numbered from n, and what follows.
LEMMA NumberedConcat ==
    ASSUME NEW s \in Seq(Nat), NEW t \in Seq(Nat), NEW n \in Nat
    PROVE  /\ s \o t \in Seq(Nat) /\ Len(s \o t) = Len(s) + Len(t)
           /\ Len(s) \in Nat /\ Len(t) \in Nat
           /\ Numbered(s, n) /\ Numbered(t, n + Len(s)) => Numbered(s \o t, n)
<1> DEFINE m == Len(s)
           k == Len(t)
           c == s \o t
<1>1. /\ c \in Seq(Nat) /\ m \in Nat /\ k \in Nat /\ Len(c) = m + k
      /\ \A i \in 1 .. m + k : c[i] = IF i <= m THEN s[i] ELSE t[i - m]
  BY ConcatProperties, LenProperties
<1>2. ASSUME \A i \in 1 .. m : s[i] = n + i, \A i \in 1 .. k : t[i] = (n + m) + i
      PROVE  \A i \in 1 .. Len(c) : c[i] = n + i
  <2> HIDE DEF m, k, c
  <2>1. ASSUME NEW i \in 1 .. m + k PROVE c[i] = n + i
    <3>1. CASE i <= m
      <4>1. i \in 1 .. m
        BY <1>1, <3>1
      <4> QED BY <1>1, <1>2, <3>1, <4>1
    <3>2. CASE ~(i <= m)
      <4>1. i - m \in 1 .. k /\ (n + m) + (i - m) = n + i
        BY <1>1, <3>2
      <4>2. c[i] = t[i - m]
        BY <1>1, <3>2
      <4> QED BY <1>2, <4>1, <4>2
    <3> QED BY <3>1, <3>2
  <2> QED BY <1>1, <2>1
<1> QED BY <1>1, <1>2 DEF Numbered

\* What is written next is numbered on from what has been written.
LEMMA WrittenSeq ==
    ASSUME NEW n \in Nat, out.written \in Nat
    PROVE  /\ Written(n) \in Seq(Nat) /\ Len(Written(n)) = n
           /\ Numbered(Written(n), out.written)
<1> DEFINE w == out.written
           s == [i \in 1 .. n |-> w + i]
<1>1. \A i \in 1 .. n : w + i \in Nat
  OBVIOUS
<1> HIDE DEF w
<1>2. s \in Seq(Nat) /\ Len(s) = n
  BY <1>1, IsASeq, LenProperties
<1>3. \A i \in 1 .. Len(s) : s[i] = w + i
  BY <1>2
<1> QED BY <1>2, <1>3 DEF Written, Numbered, w

\* The count of what has been written, with one more and what comes after it.
LEMMA Counting ==
    \A w, a, b, c, d, n \in Nat :
      w = a + b + c /\ n = 1 + d =>
        w = (a + b) + c /\ w + 1 = a + b + (c + 1) /\ w + n = a + b + (c + 1) + d
OBVIOUS

\* Something written follows what has been written, if no file is to come after it.
LEMMA WritePieces ==
    ASSUME OutOK, NEW f \in Seq(Nat), NEW serving \in BOOLEAN, NEW n \in Nat,
           out' = [written |-> out.written + n, writeBuf |-> out.writeBuf \o Written(1),
                   sendBuf |-> out.sendBuf, file |-> f, sent |-> out.sent, serving |-> serving]
    PROVE  /\ OutOK' /\ out'.writeBuf # <<>> /\ out'.sendBuf = out.sendBuf
           /\ out'.file = f /\ out'.serving = serving /\ out'.written = out.written + n
           /\ Pieces(out) /\ out.file = <<>> /\ n = 1 + Len(f)
              /\ Numbered(f, out.written + 1) => Pieces(out)'
<1> DEFINE w == out.written
           a == Len(out.sent)
           b == Len(out.sendBuf)
           c == Len(out.writeBuf)
           d == Len(f)
<1>1. /\ w \in Nat /\ a \in Nat /\ b \in Nat /\ c \in Nat /\ d \in Nat
      /\ out.writeBuf \in Seq(Nat) /\ a + b \in Nat
  BY LenProperties DEF OutOK
<1>2. Written(1) \in Seq(Nat) /\ Len(Written(1)) = 1 /\ Numbered(Written(1), w)
  BY <1>1, WrittenSeq
<1>3. /\ out.writeBuf \o Written(1) \in Seq(Nat)
      /\ Len(out.writeBuf \o Written(1)) = c + 1
      /\ Numbered(out.writeBuf, a + b) /\ Numbered(Written(1), (a + b) + c) =>
           Numbered(out.writeBuf \o Written(1), a + b)
  BY <1>1, <1>2, NumberedConcat
<1>4. /\ out'.writeBuf = out.writeBuf \o Written(1) /\ out'.sendBuf = out.sendBuf
      /\ out'.file = f /\ out'.serving = serving /\ out'.written = w + n
      /\ out'.sent = out.sent
  BY DEF OutOK
<1>5. OutOK' /\ out'.writeBuf # <<>>
  <2>1. c + 1 # 0
    BY <1>1
  <2>2. out.writeBuf \o Written(1) # <<>>
    BY <1>3, <2>1, EmptySeq
  <2>3. w + n \in Nat
    BY <1>1
  <2> QED BY <1>3, <1>4, <2>2, <2>3 DEF OutOK
<1>6. ASSUME Pieces(out), out.file = <<>>, n = 1 + d, Numbered(f, w + 1)
      PROVE  Pieces(out)'
  <2> DEFINE e == Len(out.file)
  <2>1. /\ Numbered(out.sent, 0) /\ Numbered(out.sendBuf, a) /\ Numbered(out.writeBuf, a + b)
        /\ w = a + b + c + e /\ e = 0
    BY <1>6, EmptySeq DEF Pieces
  <2> HIDE DEF w, a, b, c, d, e
  <2>2. w = (a + b) + c /\ w + 1 = a + b + (c + 1) /\ w + n = a + b + (c + 1) + d
    <3>1. w = a + b + c /\ n = 1 + d
      BY <1>1, <1>6, <2>1
    <3>2. w \in Nat /\ a \in Nat /\ b \in Nat /\ c \in Nat /\ d \in Nat
      BY <1>1
    <3> QED BY <3>1, <3>2, Counting
  <2>3. Numbered(out.writeBuf \o Written(1), a + b)
    BY <1>2, <1>3, <2>1, <2>2
  <2>4. Numbered(f, a + b + (c + 1))
    BY <1>6, <2>2
  <2> QED BY <1>3, <1>4, <2>1, <2>2, <2>3, <2>4 DEF Pieces, w, a, b, c, d
<1> QED BY <1>4, <1>5, <1>6

\* A task for data is left when there is none, as far as the thread is to send any.
LEMMA AddDataQueue ==
    ASSUME IInv, Listening, state = "running",
           ~disconnecting => ~Has(tasks, "file")
    PROVE  /\ QueueOK(AddData(tasks), released)
           /\ \A u : Has(AddData(tasks), u) => Has(tasks, u) \/ u = "data"
           /\ ~disconnecting =>
                /\ \A u : Has(AddData(tasks), u) <=> Has(tasks, u) \/ u = "data"
                /\ Once(AddData(tasks), "data") /\ Once(AddData(tasks), "file")
                /\ Before(AddData(tasks), "data", "file")
<1> USE DEF IInv
<1>1. "data" \in Tasks \ {"shutdown"} /\ released \in {"no", "shutdown"}
  BY DEF Tasks, Listening
<1>2. CASE out.writeBuf = <<>>
  <2>1. AddData(tasks) = Append(tasks, "data")
    BY <1>2 DEF AddData
  <2>2. ~disconnecting => ~Has(tasks, "data")
    BY <1>2 DEF Flow
  <2>3. ~disconnecting => Once(tasks, "data") /\ Once(tasks, "file") /\ Before(tasks, "data", "file")
    BY DEF Flow
  <2> QED BY <1>1, <2>1, <2>2, <2>3, PostedQueue
<1>3. CASE out.writeBuf # <<>>
  BY <1>3 DEF AddData, Flow
<1> QED BY <1>2, <1>3

\* One more message follows what has been written, if no file is to come after it.
LEMMA WriteOne ==
    ASSUME OutOK, out' = [out EXCEPT !.written = @ + 1, !.writeBuf = @ \o Written(1)]
    PROVE  /\ OutOK' /\ out'.writeBuf # <<>> /\ out'.sendBuf = out.sendBuf
           /\ out'.file = out.file /\ out'.serving = out.serving
           /\ out'.written = out.written + 1 /\ out'.written > 0
           /\ Pieces(out) /\ out.file = <<>> => Pieces(out)'
<1>1. out' = [written |-> out.written + 1, writeBuf |-> out.writeBuf \o Written(1),
              sendBuf |-> out.sendBuf, file |-> out.file, sent |-> out.sent,
              serving |-> out.serving]
  BY DEF OutOK
<1>2. out.file \in Seq(Nat) /\ out.serving \in BOOLEAN /\ 1 \in Nat /\ out.written \in Nat
  BY DEF OutOK
<1>3. out.file = <<>> => 1 = 1 + Len(out.file) /\ Numbered(out.file, out.written + 1)
  BY DEF Numbered
<1>4. out.written + 1 > 0
  BY <1>2
<1>5. /\ OutOK' /\ out'.writeBuf # <<>> /\ out'.sendBuf = out.sendBuf
      /\ out'.file = out.file /\ out'.serving = out.serving /\ out'.written = out.written + 1
      /\ Pieces(out) /\ out.file = <<>> /\ 1 = 1 + Len(out.file)
         /\ Numbered(out.file, out.written + 1) => Pieces(out)'
  BY <1>1, <1>2, WritePieces
<1> QED BY <1>3, <1>4, <1>5

\* A client writes.
LEMMA WriteKeeps ==
    ASSUME IInv, Owner = "hub", Write, UNCHANGED <<setup, opening, released, state,
           disconnecting, inFile>>, limits' \in Limits,
           at' = at \/ (at \in {"socket", "call"} /\ at' = "events")
    PROVE  IInv'
<1> USE DEF IInv
<1>1. /\ Connected /\ Listening /\ tasks' = AddData(tasks)
      /\ out' = [out EXCEPT !.written = @ + 1, !.writeBuf = @ \o Written(1)]
  BY DEF Write
<1>2. ~out.serving /\ ~InFile /\ ~Has(tasks, "file")
  BY DEF FileInv
<1>3. /\ OutOK' /\ out'.writeBuf # <<>> /\ out'.sendBuf = out.sendBuf
      /\ out'.file = out.file /\ out'.serving = out.serving
      /\ out'.written > 0 /\ out.written > 0
      /\ Pieces(out) /\ out.file = <<>> => Pieces(out)'
  BY <1>1, WriteOne DEF Connected
<1>4. /\ QueueOK(tasks, released)'
      /\ \A u : Has(tasks', u) => Has(tasks, u) \/ u = "data"
  <2>1. "data" \in Tasks \ {"shutdown"} /\ released \in {"no", "shutdown"}
    BY <1>1 DEF Tasks, Listening
  <2>2. CASE tasks' = tasks
    BY <2>2
  <2>3. CASE tasks' = Append(tasks, "data")
    BY <2>1, <2>3, PostedQueue
  <2> QED BY <1>1, <2>2, <2>3 DEF AddData
<1>5. StateOK'
  BY DEF StateOK
<1>6. OwnerInv'
  BY <1>4 DEF OwnerInv, Listening, Owner
<1>7. FileInv'
  BY <1>2, <1>3, <1>4 DEF FileInv, InFile, FilePlaces, Owner
<1>8. ASSUME state # "failed", ~disconnecting PROVE Flow'
  <2>1. state = "running" /\ at \notin {"connecting", "accepting"} /\ out.file = <<>> /\ Pieces(out)
    <3>1. out.written # 0
      BY <1>3 DEF OutOK
    <3> QED BY <1>2, <1>8, <3>1 DEF Flow, StateOK
  <2>2. /\ \A u : Has(tasks', u) <=> Has(tasks, u) \/ u = "data"
        /\ Once(tasks', "data") /\ Once(tasks', "file") /\ Before(tasks', "data", "file")
    BY <1>1, <1>2, <1>8, <2>1, AddDataQueue
  <2>3. out.sendBuf # <<>> <=> at = "sending"
    BY <1>8 DEF Flow
  <2> QED BY <1>2, <1>3, <2>1, <2>2, <2>3 DEF Flow, InFile, FilePlaces
<1>9. Flow'
  BY <1>8 DEF Flow
<1> QED BY <1>3, <1>4, <1>5, <1>6, <1>7, <1>9

\* A task that calls or closes is left for the thread.
LEMMA PostKeeps ==
    ASSUME IInv, NEW t \in {"call", "disconnect"}, t = "call" => Owner # "http",
           Usable, tasks' = Append(tasks, t),
           disconnecting' \in BOOLEAN, disconnecting => disconnecting',
           UNCHANGED <<setup, opening, released, state, inFile, out>>, limits' \in Limits,
           at' = at \/ (at \in {"socket", "call"} /\ at' = "events")
    PROVE  IInv'
<1> USE DEF IInv
<1>1. /\ QueueOK(tasks, released)' /\ \A u : Has(tasks', u) <=> Has(tasks, u) \/ u = t
      /\ \A u \in {"data", "file"} : Once(tasks, u) => Once(tasks', u)
      /\ Before(tasks, "data", "file") => Before(tasks', "data", "file")
  <2>1. t \in Tasks \ {"shutdown"} /\ released \in {"no", "shutdown"}
    BY DEF Tasks, Usable, Listening
  <2> QED BY <2>1, PostedQueue
<1>2. StateOK' /\ OutOK'
  BY DEF StateOK, OutOK
<1>3. OwnerInv'
  BY <1>1 DEF OwnerInv, Listening, Owner
<1>4. FileInv'
  BY <1>1 DEF FileInv, InFile, FilePlaces, Owner
<1>5. ASSUME state # "failed", ~disconnecting' PROVE Flow'
  BY <1>1, <1>5 DEF Flow, InFile, FilePlaces
<1>6. Flow'
  BY <1>5 DEF Flow
<1> QED BY <1>1, <1>2, <1>3, <1>4, <1>6

\* What is left of a limit is a limit.
LEMMA Spent ==
    ASSUME NEW what \in {"call", "write", "disconnect", "line"}, limits \in Limits, Spend(what)
    PROVE  limits' \in Limits
BY DEF Spend, Limits

\* Somebody who is not HTTP closes the connection.
LEMMA DisconnectKeeps ==
    ASSUME IInv, NEW graceless \in BOOLEAN, Usable, Disconnect(graceless),
           UNCHANGED <<setup, opening, released, state, inFile, out>>, limits' \in Limits,
           at' = at \/ (at \in {"socket", "call"} /\ at' = "events")
    PROVE  IInv'
<1>1. tasks' = Append(tasks, "disconnect") /\ disconnecting' = (disconnecting \/ graceless)
  BY DEF Disconnect
<1>2. disconnecting \in BOOLEAN
  BY DEF IInv, StateOK
<1>3. "disconnect" \in {"call", "disconnect"} /\ "disconnect" # "call"
  OBVIOUS
<1> QED BY <1>1, <1>2, <1>3, PostKeeps

\* Other threads leave a call, write and close.
LEMMA OthersKeep == IInv /\ (Post \/ HubWrite \/ CloseFromOutside) => IInv'
<1> SUFFICES ASSUME IInv, Post \/ HubWrite \/ CloseFromOutside PROVE IInv'
  OBVIOUS
<1>1. limits \in Limits /\ disconnecting \in BOOLEAN
  BY DEF IInv, StateOK
<1>2. CASE Post
  BY <1>1, <1>2, PostKeeps, Spent DEF Post
<1>3. CASE HubWrite
  BY <1>1, <1>3, WriteKeeps, Spent DEF HubWrite
<1>4. CASE CloseFromOutside
  <2>1. PICK graceless \in BOOLEAN : Disconnect(graceless)
    BY <1>4 DEF CloseFromOutside, Close
  <2>2. limits' \in Limits
    BY <1>1, <1>4, Spent DEF CloseFromOutside, Close
  <2> QED BY <1>4, <2>1, <2>2, DisconnectKeeps DEF CloseFromOutside, Close
<1> QED BY <1>2, <1>3, <1>4

\* A posted call does what it does for its owner, who is there.
LEMMA CallKeeps == IInv /\ Call => IInv'
<1> SUFFICES ASSUME IInv, Call PROVE IInv'
  OBVIOUS
<1>1. limits \in Limits /\ disconnecting \in BOOLEAN
  BY DEF IInv, StateOK
<1>2. /\ at = "call" /\ at' = "events"
      /\ UNCHANGED <<setup, opening, released, state, inFile>>
  BY DEF Call
<1>3. CASE UNCHANGED <<limits, tasks, disconnecting, out>>
  <2> USE DEF IInv
  <2>1. StateOK' /\ OutOK' /\ QueueOK(tasks, released)'
    BY <1>2, <1>3 DEF StateOK, OutOK
  <2>2. OwnerInv'
    BY <1>2, <1>3 DEF OwnerInv, Listening, Owner
  <2>3. FileInv'
    BY <1>2, <1>3 DEF FileInv, InFile, FilePlaces, Owner
  <2>4. Flow'
    BY <1>2, <1>3 DEF Flow, InFile, FilePlaces
  <2> QED BY <2>1, <2>2, <2>3, <2>4
<1>4. CASE Owner = "hub" /\ Spend("write") /\ Write /\ UNCHANGED disconnecting
  BY <1>1, <1>2, <1>4, WriteKeeps, Spent
<1>5. CASE Close
  <2>1. PICK graceless \in BOOLEAN : Disconnect(graceless)
    BY <1>5 DEF Close
  <2>2. limits' \in Limits /\ Usable /\ UNCHANGED out
    BY <1>1, <1>5, Spent DEF Close
  <2> QED BY <1>2, <2>1, <2>2, DisconnectKeeps
<1> QED BY <1>3, <1>4, <1>5 DEF Call, React

\* A part of the buffer is sent; while the connection is not being closed, there is one.
LEMMA SendSomeKeeps == IInv /\ SendSome => IInv'
<1> SUFFICES ASSUME IInv, SendSome PROVE IInv'
  OBVIOUS
<1> USE DEF IInv
<1>1. /\ at = "sending" /\ ~disconnecting /\ state = "running" /\ ~inFile
      /\ out' = [out EXCEPT !.sendBuf = Tail(out.sendBuf),
                            !.sent = Append(@, Head(out.sendBuf))]
      /\ at' = (IF Tail(out.sendBuf) = <<>> THEN "events" ELSE "sending")
      /\ UNCHANGED <<setup, limits, opening, released, state, inFile, disconnecting, tasks>>
  BY DEF SendSome, Goes, OwnerInv, FileInv, StateOK
<1>2. /\ Pieces(out) /\ out.sendBuf # <<>> /\ out.sendBuf \in Seq(Nat) /\ out.sent \in Seq(Nat)
  BY <1>1 DEF Flow, OutOK
<1>3. out' = [written |-> out.written, writeBuf |-> out.writeBuf,
              sendBuf |-> Tail(out.sendBuf), file |-> out.file,
              sent |-> Append(out.sent, Head(out.sendBuf)), serving |-> out.serving]
  BY <1>1 DEF OutOK
<1>4. OutOK'
  BY <1>2, <1>3, NumberedMove DEF OutOK
<1>5. Pieces(out)'
  <2> DEFINE a == Len(out.sent)
             b == Len(out.sendBuf)
             c == Len(out.writeBuf)
             d == Len(out.file)
  <2>1. /\ a \in Nat /\ b \in Nat /\ c \in Nat /\ d \in Nat
        /\ Len(Append(out.sent, Head(out.sendBuf))) = a + 1 /\ Len(Tail(out.sendBuf)) = b - 1
        /\ Numbered(out.sent, 0) /\ Numbered(out.sendBuf, a) =>
             /\ Numbered(Append(out.sent, Head(out.sendBuf)), 0)
             /\ Numbered(Tail(out.sendBuf), a + 1)
    BY <1>2, NumberedMove, LenProperties DEF OutOK
  <2>2. /\ Numbered(out.sent, 0) /\ Numbered(out.sendBuf, a) /\ Numbered(out.writeBuf, a + b)
        /\ Numbered(out.file, a + b + c) /\ out.written = a + b + c + d
    BY <1>2 DEF Pieces
  <2> HIDE DEF a, b, c, d
  <2>3. (a + 1) + (b - 1) = a + b
    BY <2>1
  <2> QED BY <1>3, <2>1, <2>2, <2>3 DEF Pieces, c, d
<1>6. StateOK'
  BY <1>1 DEF StateOK
<1>7. OwnerInv'
  BY <1>1 DEF OwnerInv, Listening, Owner
<1>8. FileInv'
  BY <1>1, <1>3 DEF FileInv, InFile, FilePlaces, Owner
<1>9. Flow'
  BY <1>1, <1>3, <1>5 DEF Flow, InFile, FilePlaces
<1> QED BY <1>1, <1>4, <1>6, <1>7, <1>8, <1>9

\* A part of the file is sent, after all that has been written before.
LEMMA WriteChunkKeeps == IInv /\ WriteChunk => IInv'
<1> SUFFICES ASSUME IInv, WriteChunk PROVE IInv'
  OBVIOUS
<1> USE DEF IInv
<1>1. /\ at = "write" /\ state = "running" /\ at' \in {"file", "check", "blocked"}
      /\ \/ at' = "file" /\ out' = [out EXCEPT !.sent = Append(@, Head(out.file)),
                                               !.file = Tail(@)]
         \/ at' \in {"check", "blocked"} /\ out' = out
      /\ UNCHANGED <<setup, limits, opening, released, state, inFile, disconnecting, tasks>>
  BY DEF WriteChunk, Goes
<1>2. out.file # <<>> /\ out.file \in Seq(Nat) /\ out.sent \in Seq(Nat)
  BY <1>1 DEF FileInv, OutOK
<1>3. StateOK'
  BY <1>1 DEF StateOK
<1>4. OwnerInv'
  BY <1>1 DEF OwnerInv, Listening, Owner
<1>5. CASE out' = out
  <2>1. OutOK'
    BY <1>5 DEF OutOK
  <2>2. FileInv'
    BY <1>1, <1>5, <1>2 DEF FileInv, InFile, FilePlaces, Owner
  <2>3. Flow'
    BY <1>1, <1>5 DEF Flow, InFile, FilePlaces
  <2> QED BY <1>1, <1>3, <1>4, <2>1, <2>2, <2>3
<1>6. CASE at' = "file" /\ out' = [out EXCEPT !.sent = Append(@, Head(out.file)),
                                              !.file = Tail(@)]
  <2>1. out' = [written |-> out.written, writeBuf |-> out.writeBuf, sendBuf |-> out.sendBuf,
                file |-> Tail(out.file), sent |-> Append(out.sent, Head(out.file)),
                serving |-> out.serving]
    BY <1>6 DEF OutOK
  <2>2. OutOK'
    BY <1>2, <2>1, NumberedMove DEF OutOK
  <2>3. ~inFile
    BY <1>1 DEF FileInv
  <2>4. FileInv'
    BY <1>1, <1>6, <2>1, <2>3 DEF FileInv, InFile, FilePlaces, Owner
  <2>5. ASSUME ~disconnecting PROVE Flow'
    <3>1. Pieces(out) /\ out.writeBuf = <<>> /\ out.sendBuf = <<>> /\ out.serving
      BY <1>1, <2>5 DEF Flow, InFile, FilePlaces
    <3>2. Pieces(out)'
      <4> DEFINE a == Len(out.sent)
                 d == Len(out.file)
      <4>1. /\ a \in Nat /\ d \in Nat
            /\ Len(Append(out.sent, Head(out.file))) = a + 1 /\ Len(Tail(out.file)) = d - 1
            /\ Numbered(out.sent, 0) /\ Numbered(out.file, a) =>
                 /\ Numbered(Append(out.sent, Head(out.file)), 0)
                 /\ Numbered(Tail(out.file), a + 1)
        BY <1>2, NumberedMove, LenProperties DEF OutOK
      <4>2. /\ Numbered(out.sent, 0) /\ Numbered(out.file, a + 0 + 0)
            /\ out.written = a + 0 + 0 + d
        <5>1. Len(<<>>) = 0
          BY EmptySeq
        <5> QED BY <3>1, <5>1 DEF Pieces
      <4> HIDE DEF a, d
      <4>3. a + 0 + 0 = a /\ (a + 1) + 0 + 0 = a + 1
            /\ (a + 1) + 0 + 0 + (d - 1) = a + 0 + 0 + d
        BY <4>1
      <4>4. Numbered(<<>>, a + 1) /\ Numbered(<<>>, (a + 1) + 0) /\ Len(<<>>) = 0
        BY EmptySeq DEF Numbered
      <4> QED BY <2>1, <3>1, <4>1, <4>2, <4>3, <4>4 DEF Pieces
    <3> QED BY <1>1, <1>6, <2>1, <2>3, <2>5, <3>1, <3>2 DEF Flow, InFile, FilePlaces
  <2>6. Flow'
    BY <1>1, <2>5 DEF Flow
  <2> QED BY <1>1, <1>3, <1>4, <2>2, <2>4, <2>6
<1> QED BY <1>1, <1>5, <1>6

\* The file is read, or has been sent: the peer may ask for another one.
LEMMA ReadFileKeeps == IInv /\ ReadFile => IInv'
<1> SUFFICES ASSUME IInv, ReadFile PROVE IInv'
  OBVIOUS
<1> USE DEF IInv
<1>1. at = "file" /\ state = "running"
      /\ UNCHANGED <<setup, limits, opening, released, state, inFile, disconnecting>>
  BY DEF ReadFile, Goes, OwnerInv
<1>2. Owner = "peer"
  BY <1>1 DEF FileInv, InFile, FilePlaces
<1>3. CASE /\ \/ ~disconnecting /\ out.file # <<>> /\ at' = "check"
              \/ disconnecting /\ at' = "socket"
           /\ UNCHANGED <<tasks, out>>
  <2>1. StateOK' /\ OutOK' /\ QueueOK(tasks, released)'
    BY <1>1, <1>3 DEF StateOK, OutOK
  <2>2. OwnerInv'
    BY <1>1, <1>3 DEF OwnerInv, Listening, Owner
  <2>3. FileInv'
    BY <1>1, <1>2, <1>3 DEF FileInv, InFile, FilePlaces, Owner
  <2>4. Flow'
    BY <1>1, <1>3 DEF Flow, InFile, FilePlaces
  <2> QED BY <2>1, <2>2, <2>3, <2>4
<1>4. CASE /\ ~disconnecting /\ out.file = <<>> /\ at' = "socket"
           /\ tasks' = Append(tasks, "call") /\ out' = [out EXCEPT !.serving = FALSE]
  <2>1. Listening /\ ~inFile
    BY <1>1, <1>4 DEF OwnerInv, FileInv
  <2>2. /\ QueueOK(tasks, released)' /\ \A u : Has(tasks', u) <=> Has(tasks, u) \/ u = "call"
        /\ \A u \in {"data", "file"} : Once(tasks, u) => Once(tasks', u)
        /\ Before(tasks, "data", "file") => Before(tasks', "data", "file")
    <3>1. "call" \in Tasks \ {"shutdown"} /\ released \in {"no", "shutdown"}
      BY <2>1 DEF Tasks, Listening
    <3> QED BY <1>1, <1>4, <3>1, PostedQueue
  <2>3. out' = [written |-> out.written, writeBuf |-> out.writeBuf, sendBuf |-> out.sendBuf,
                file |-> out.file, sent |-> out.sent, serving |-> FALSE]
    BY <1>4 DEF OutOK
  <2>4. StateOK' /\ OutOK'
    BY <1>1, <1>4, <2>3 DEF StateOK, OutOK
  <2>5. OwnerInv'
    BY <1>1, <1>2, <1>4, <2>2 DEF OwnerInv, Listening, Owner
  <2>6. FileInv'
    BY <1>1, <1>2, <1>4, <2>1, <2>3 DEF FileInv, InFile, FilePlaces, Owner
  <2>7. Pieces(out) => Pieces(out)'
    BY <2>3 DEF Pieces
  <2>8. Flow'
    BY <1>1, <1>4, <2>1, <2>2, <2>3, <2>7 DEF Flow, InFile, FilePlaces
  <2> QED BY <2>2, <2>4, <2>5, <2>6, <2>8
<1> QED BY <1>3, <1>4 DEF ReadFile, Goes

\* The owner greets the other side; a peer has a new state.
LEMMA ConnectsKeeps == IInv /\ Connects => IInv'
<1> SUFFICES ASSUME IInv, Connects PROVE IInv'
  OBVIOUS
<1> USE DEF IInv
<1>1. /\ at = "connecting" /\ at' = "events" /\ state = "running"
      /\ UNCHANGED <<setup, limits, opening, released, state, inFile, disconnecting>>
  BY DEF Connects, Goes, OwnerInv
<1>2. ~inFile /\ StateOK'
  BY <1>1 DEF FileInv, StateOK
<1>3. CASE ~Listening
  <2>1. UNCHANGED <<tasks, out>> /\ disconnecting
    BY <1>3 DEF Connects, OwnerInv
  <2>2. OutOK' /\ QueueOK(tasks, released)'
    BY <1>1, <2>1 DEF OutOK
  <2>3. OwnerInv'
    BY <1>1, <2>1 DEF OwnerInv, Listening, Owner
  <2>4. FileInv'
    BY <1>1, <2>1 DEF FileInv, InFile, FilePlaces, Owner
  <2>5. Flow'
    BY <1>1, <2>1 DEF Flow
  <2> QED BY <1>2, <2>2, <2>3, <2>4, <2>5
<1>4. CASE Listening
  <2>1. /\ tasks' = AddData(tasks) \o (IF Owner = "peer" THEN <<"call">> ELSE <<>>)
        /\ out' = [out EXCEPT !.written = @ + 1, !.writeBuf = @ \o Written(1)]
    BY <1>4 DEF Connects
  <2>2. ~disconnecting => /\ ~out.serving /\ ~Has(tasks, "file") /\ ~Has(tasks, "data")
                          /\ Pieces(out) /\ out.file = <<>> /\ out.sendBuf = <<>>
    BY <1>1, NothingWritten DEF Flow
  <2>3. /\ OutOK' /\ out'.writeBuf # <<>> /\ out'.sendBuf = out.sendBuf
        /\ out'.file = out.file /\ out'.serving = out.serving /\ out'.written > 0
        /\ ~disconnecting => Pieces(out)'
    BY <2>1, <2>2, WriteOne
  <2>4. /\ QueueOK(AddData(tasks), released)
        /\ \A u : Has(AddData(tasks), u) => Has(tasks, u) \/ u = "data"
        /\ ~disconnecting =>
             /\ \A u : Has(AddData(tasks), u) <=> Has(tasks, u) \/ u = "data"
             /\ Once(AddData(tasks), "data") /\ Once(AddData(tasks), "file")
             /\ Before(AddData(tasks), "data", "file")
    BY <1>1, <1>4, <2>2, AddDataQueue
  <2>5. /\ QueueOK(tasks, released)'
        /\ \A u : Has(tasks', u) => Has(tasks, u) \/ u \in {"data", "call"}
        /\ Has(tasks', "call") => Has(tasks, "call") \/ Owner = "peer"
        /\ ~disconnecting =>
             /\ Has(tasks', "data") /\ ~Has(tasks', "file")
             /\ Once(tasks', "data") /\ Once(tasks', "file") /\ Before(tasks', "data", "file")
    <3>1. AddData(tasks) \in Seq(Tasks) /\ "call" \in Tasks \ {"shutdown"} /\ released = "no"
      BY <1>4, <2>4 DEF QueueOK, Tasks, Listening
    <3>2. CASE Owner = "peer"
      <4>1. tasks' = Append(AddData(tasks), "call")
        BY <2>1, <3>1, <3>2, AppendIsConcat
      <4> HIDE DEF IInv
      <4>2. /\ QueueOK(tasks', released)
            /\ \A u : Has(tasks', u) <=> Has(AddData(tasks), u) \/ u = "call"
            /\ \A u \in {"data", "file"} : Once(AddData(tasks), u) => Once(tasks', u)
            /\ Before(AddData(tasks), "data", "file") => Before(tasks', "data", "file")
        BY <2>4, <3>1, <4>1, PostedQueue
      <4> QED BY <1>1, <2>2, <2>4, <3>2, <4>2
    <3>3. CASE Owner # "peer"
      <4>1. tasks' = AddData(tasks)
        BY <2>1, <3>1, <3>3, ConcatEmptySeq
      <4> QED BY <1>1, <2>2, <2>4, <4>1
    <3> QED BY <3>2, <3>3
  <2>6. OwnerInv'
    BY <1>1, <1>4, <2>5 DEF OwnerInv, Listening, Owner, StateOK
  <2>7. FileInv'
    BY <1>1, <1>2, <2>3, <2>5 DEF FileInv, InFile, FilePlaces, Owner
  <2>8. Flow'
    BY <1>1, <1>2, <2>2, <2>3, <2>5 DEF Flow, InFile, FilePlaces
  <2> QED BY <1>2, <2>3, <2>5, <2>6, <2>7, <2>8
<1> QED BY <1>3, <1>4

-----------------------------------------------------------------------------
(* A line *)

\* The file is what is written after the header.
LEMMA FileWritten ==
    ASSUME out.written \in Nat, NEW n \in Nat
    PROVE  LET f == Tail(Written(1 + n)) IN
           /\ f \in Seq(Nat) /\ Len(f) = n /\ Numbered(f, out.written + 1)
<1> DEFINE w == out.written
           s == Written(1 + n)
           f == Tail(s)
<1>1. 1 + n \in Nat /\ 1 + n # 0 /\ (1 + n) - 1 = n
  OBVIOUS
<1>2. s \in Seq(Nat) /\ Len(s) = 1 + n /\ Numbered(s, w)
  BY <1>1, WrittenSeq
<1>3. s # <<>>
  BY <1>1, <1>2, EmptySeq
<1>4. f \in Seq(Nat) /\ Len(f) = (1 + n) - 1 /\ \A i \in 1 .. (1 + n) - 1 : f[i] = s[i + 1]
  BY <1>2, <1>3, HeadTailProperties
<1>5. \A i \in 1 .. 1 + n : s[i] = w + i
  BY <1>2 DEF Numbered
<1>6. ASSUME NEW i \in 1 .. n PROVE f[i] = (w + 1) + i
  <2> HIDE DEF w, s, f
  <2>1. f[i] = s[i + 1] /\ i + 1 \in 1 .. 1 + n /\ i \in Nat
    BY <1>1, <1>4
  <2>2. f[i] = w + (i + 1)
    BY <1>5, <2>1
  <2>3. w \in Nat
    BY DEF w
  <2> QED BY <2>1, <2>2, <2>3
<1> HIDE DEF f, s
<1>7. f \in Seq(Nat) /\ Len(f) = n /\ \A i \in 1 .. Len(f) : f[i] = (w + 1) + i
  BY <1>1, <1>4, <1>6
<1> QED BY <1>7 DEF Numbered, f, s

\* Two tasks left at once are left one after the other.
LEMMA TwoMore ==
    ASSUME NEW q \in Seq(Tasks), NEW t \in Tasks, NEW u \in Tasks
    PROVE  q \o <<t, u>> = Append(Append(q, t), u)
<1>1. Append(q, t) = q \o <<t>> /\ Append(q, t) \in Seq(Tasks)
  BY AppendIsConcat, AppendProperties
<1>2. Append(Append(q, t), u) = (q \o <<t>>) \o <<u>>
  BY <1>1, AppendIsConcat
<1>3. <<t>> \in Seq(Tasks) /\ <<u>> \in Seq(Tasks) /\ q \in Seq(Tasks)
  OBVIOUS
<1>4. Append(<<t>>, u) = <<t>> \o <<u>>
  BY <1>3, AppendIsConcat
<1>5. Append(<<t>>, u) = <<t, u>>
  <2>1. <<t, u>> \in Seq(Tasks) /\ Len(<<t, u>>) = 2 /\ <<t, u>>[1] = t /\ <<t, u>>[2] = u
    OBVIOUS
  <2>2. Len(<<t>>) = 1 /\ <<t>>[1] = t
    OBVIOUS
  <2>3. /\ Append(<<t>>, u) \in Seq(Tasks) /\ Len(Append(<<t>>, u)) = 2
        /\ Append(<<t>>, u)[1] = t /\ Append(<<t>>, u)[2] = u
    BY <1>3, <2>2, AppendProperties
  <2>4. \A i \in 1 .. 2 : i = 1 \/ i = 2
    OBVIOUS
  <2>5. \A i \in 1 .. Len(<<t, u>>) : Append(<<t>>, u)[i] = <<t, u>>[i]
    BY <2>1, <2>3, <2>4
  <2> QED BY <2>1, <2>3, <2>5, SeqEqual
<1>6. (q \o <<t>>) \o <<u>> = q \o (<<t>> \o <<u>>)
  BY <1>3, ConcatAssociative
<1> QED BY <1>2, <1>4, <1>5, <1>6

\* A peer asks for a file: the header is written, and the file comes after it.
LEMMA TransmitKeeps ==
    ASSUME IInv, TransmitFile, at \in Reading, Listening, Owner = "peer", ~Transmitting,
           limits' \in Limits, at' = IF at = "socket" THEN "events" ELSE at,
           UNCHANGED <<setup, opening, released, state, inFile, disconnecting>>
    PROVE  IInv'
<1> USE DEF IInv
<1>1. /\ tasks' = AddData(tasks) \o <<"call", "file">>
      /\ out' = [out EXCEPT !.written = @ + 1 + FileChunks, !.writeBuf = @ \o Written(1),
                            !.file = Tail(Written(1 + FileChunks)), !.serving = TRUE]
  BY DEF TransmitFile
<1>2. FileChunks \in Nat \ {0} /\ out.written \in Nat
  BY BufferedSocketAssumption DEF OutOK
<1>3. /\ state = "running" /\ at \in {"socket", "sending", "blocked"} /\ ~inFile /\ ~out.serving
  BY DEF OwnerInv, FileInv, Reading, Transmitting
<1> DEFINE f == Tail(Written(1 + FileChunks))
<1>4. f \in Seq(Nat) /\ Len(f) = FileChunks /\ Numbered(f, out.written + 1)
  BY <1>2, FileWritten
<1> HIDE DEF f
<1>5. ~disconnecting => /\ Pieces(out) /\ out.file = <<>> /\ ~InFile /\ ~Has(tasks, "file")
                        /\ at \in {"socket", "sending"}
                        /\ (out.sendBuf # <<>> <=> at = "sending")
  BY <1>3 DEF Flow, InFile, FilePlaces
<1>6. /\ OutOK' /\ out'.writeBuf # <<>> /\ out'.sendBuf = out.sendBuf
      /\ out'.file = f /\ out'.serving = TRUE /\ out'.written = out.written + (1 + FileChunks)
      /\ Pieces(out) /\ out.file = <<>> /\ 1 + FileChunks = 1 + Len(f)
         /\ Numbered(f, out.written + 1) => Pieces(out)'
  <2>1. out.written + 1 + FileChunks = out.written + (1 + FileChunks)
    BY <1>2
  <2>2. out' = [written |-> out.written + (1 + FileChunks),
                writeBuf |-> out.writeBuf \o Written(1), sendBuf |-> out.sendBuf,
                file |-> f, sent |-> out.sent, serving |-> TRUE]
    BY <1>1, <2>1 DEF OutOK, f
  <2>3. 1 + FileChunks \in Nat
    BY <1>2
  <2> QED BY <1>4, <2>2, <2>3, WritePieces
<1>7. f # <<>> /\ out'.written > 0
  <2>1. FileChunks # 0 /\ out.written + (1 + FileChunks) > 0
    BY <1>2
  <2> QED BY <1>4, <1>6, <2>1, EmptySeq
<1>8. /\ QueueOK(AddData(tasks), released)
      /\ \A u : Has(AddData(tasks), u) => Has(tasks, u) \/ u = "data"
      /\ ~disconnecting =>
           /\ \A u : Has(AddData(tasks), u) <=> Has(tasks, u) \/ u = "data"
           /\ Once(AddData(tasks), "data") /\ Once(AddData(tasks), "file")
           /\ Before(AddData(tasks), "data", "file")
  BY <1>3, <1>5, AddDataQueue
<1>9. /\ QueueOK(tasks, released)'
      /\ \A u : Has(tasks', u) => Has(tasks, u) \/ u \in {"data", "call", "file"}
      /\ ~disconnecting =>
           /\ Has(tasks', "data")
           /\ Once(tasks', "data") /\ Once(tasks', "file") /\ Before(tasks', "data", "file")
  <2> DEFINE q == AddData(tasks)
             r == Append(q, "call")
  <2>1. /\ q \in Seq(Tasks) /\ released = "no"
        /\ "call" \in Tasks \ {"shutdown"} /\ "file" \in Tasks \ {"shutdown"}
    BY <1>8 DEF QueueOK, Tasks, Listening
  <2>2. tasks' = Append(r, "file")
    BY <1>1, <2>1, TwoMore
  <2> HIDE DEF q, IInv
  <2>3. /\ QueueOK(r, released) /\ \A u : Has(r, u) <=> Has(q, u) \/ u = "call"
        /\ \A u \in {"data", "file"} : Once(q, u) => Once(r, u)
        /\ Before(q, "data", "file") => Before(r, "data", "file")
    BY <1>8, <2>1, PostedQueue DEF q
  <2> HIDE DEF r
  <2>4. /\ QueueOK(tasks', released) /\ \A u : Has(tasks', u) <=> Has(r, u) \/ u = "file"
        /\ Once(r, "data") => Once(tasks', "data")
        /\ Once(r, "file") /\ ~Has(r, "file") => Once(tasks', "file")
        /\ Before(r, "data", "file") => Before(tasks', "data", "file")
    BY <2>1, <2>2, <2>3, PostedQueue
  <2> QED BY <1>5, <1>8, <2>3, <2>4 DEF q
<1>10. StateOK'
  BY DEF StateOK
<1>11. OwnerInv'
  BY <1>3, <1>9 DEF OwnerInv, Listening, Owner
<1>12. FileInv'
  BY <1>3, <1>6, <1>7 DEF FileInv, InFile, FilePlaces, Owner
<1>13. Flow'
  BY <1>3, <1>4, <1>5, <1>6, <1>9 DEF Flow, InFile, FilePlaces
<1> QED BY <1>6, <1>9, <1>10, <1>11, <1>12, <1>13

\* What the owner does with a line.
LEMMA LineKeeps == IInv /\ Line => IInv'
<1> SUFFICES ASSUME IInv, Line PROVE IInv'
  OBVIOUS
<1> DEFINE less == [limits EXCEPT !.line = @ - 1]
<1>1. /\ at \in Reading /\ Listening /\ at' = (IF at = "socket" THEN "events" ELSE at)
      /\ UNCHANGED <<setup, opening, state, inFile>>
      /\ limits \in Limits /\ disconnecting \in BOOLEAN
  BY DEF Line, IInv, StateOK
<1>2. less \in Limits
  BY <1>1 DEF Line, Limits
<1>3. opening = "done"
  BY <1>1 DEF IInv, OwnerInv, Reading
<1>4. at' = at \/ (at = "socket" /\ at' = "events")
  BY <1>1
<1>5. CASE Owner = "peer" /\ ~Transmitting /\ TransmitFile
           /\ limits' = less /\ UNCHANGED <<disconnecting, released>>
  BY <1>1, <1>2, <1>5, TransmitKeeps
<1>6. CASE Owner = "http" /\ PutSocket(Append(tasks, "disconnect"), "deleted")
           /\ limits' = less /\ UNCHANGED out
  BY <1>1, <1>2, <1>3, <1>4, <1>6, PutKeeps
<1>7. CASE Owner = "hub" /\ limits.write > 0 /\ Write
           /\ limits' = [less EXCEPT !.write = @ - 1] /\ UNCHANGED <<disconnecting, released>>
  <2>1. limits' \in Limits
    <3>1. less.write = limits.write
      BY <1>1 DEF Limits
    <3> HIDE DEF less
    <3> QED BY <1>2, <1>7, <3>1 DEF Limits
  <2> QED BY <1>1, <1>4, <1>7, <2>1, WriteKeeps
<1>8. CASE /\ Owner # "http" /\ limits.disconnect > 0
           /\ \E graceless \in BOOLEAN : Disconnect(graceless)
           /\ limits' = [less EXCEPT !.disconnect = @ - 1] /\ UNCHANGED <<released, out>>
  <2>1. limits' \in Limits
    <3>1. less.disconnect = limits.disconnect
      BY <1>1 DEF Limits
    <3> HIDE DEF less
    <3> QED BY <1>2, <1>8, <3>1 DEF Limits
  <2>2. PICK graceless \in BOOLEAN : Disconnect(graceless)
    BY <1>8
  <2>3. Usable
    BY <1>1 DEF Usable
  <2> QED BY <1>1, <1>4, <1>8, <2>1, <2>2, <2>3, DisconnectKeeps
<1> QED BY <1>5, <1>6, <1>7, <1>8 DEF Line

-----------------------------------------------------------------------------
(* The theorems *)

\* A socket that has been made keeps to the invariant.
LEMMA InitInv == Init => IInv
<1> SUFFICES ASSUME Init PROVE IInv
  OBVIOUS
<1>1. setup \in Setups /\ limits \in Limits
  BY BufferedSocketAssumption DEF Init
<1>2. tasks \in Seq(Tasks) /\ Len(tasks) = 0 /\ \A u : ~Has(tasks, u)
  BY EmptySeq DEF Init, Has
<1>3. StateOK /\ OutOK
  <2>1. StateOK
    BY <1>1 DEF Init, StateOK
  <2>2. <<>> \in Seq(Nat) /\ 0 \in Nat /\ FALSE \in BOOLEAN
    BY EmptySeq
  <2>3. OutOK
    BY <2>2 DEF Init, OutOK
  <2> QED BY <2>1, <2>3
<1>4. QueueOK(tasks, released)
  BY <1>2 DEF Init, QueueOK, Once
<1>5. OwnerInv
  BY <1>2 DEF Init, OwnerInv, Listening
<1>6. FileInv
  BY <1>2 DEF Init, FileInv, InFile, FilePlaces
<1>7. Pieces(out)
  <2>1. Len(<<>>) = 0
    BY EmptySeq
  <2> QED BY <2>1 DEF Init, Pieces, Numbered
<1>8. Flow
  BY <1>2, <1>7 DEF Init, Flow, InFile, FilePlaces, Once, Before
<1> QED BY <1>3, <1>4, <1>5, <1>6, <1>8 DEF IInv

\* The invariant is about the variables of the socket alone.
LEMMA StutterKeeps == IInv /\ UNCHANGED vars => IInv'
<1> SUFFICES ASSUME IInv, UNCHANGED vars PROVE IInv'
  OBVIOUS
<1> USE DEF IInv, vars, socketVars
<1>1. StateOK' /\ OutOK' /\ QueueOK(tasks, released)'
  BY DEF StateOK, OutOK
<1>2. OwnerInv'
  BY DEF OwnerInv, Listening, Owner
<1>3. FileInv'
  BY DEF FileInv, InFile, FilePlaces, Owner
<1>4. Flow'
  BY DEF Flow, InFile, FilePlaces
<1> QED BY <1>1, <1>2, <1>3, <1>4

\* Every step of the thread, the network, the owner and other threads keeps the invariant.
LEMMA NextKeeps == IInv /\ [Next]_vars => IInv'
<1> SUFFICES ASSUME IInv, [Next]_vars PROVE IInv'
  OBVIOUS
<1>1. CASE Opening
  BY <1>1, StartKeeps, AddTaskKeeps DEF Opening
<1>2. CASE ThreadRuns
  BY <1>2, DropKeeps, ShutdownKeeps, ConnectKeeps, SendDataKeeps, SendFileKeeps,
     TakeDisconnectKeeps, TakeCallKeeps, CallKeeps, MovesKeep, ConnectsKeeps, FailingKeeps,
     ReadFileKeeps, WriteChunkKeeps
  DEF ThreadRuns, GivesUpWaiting
<1>3. CASE Network
  BY <1>3, LineKeeps, FailingKeeps, SendSomeKeeps, MovesKeep, AcceptFailsKeeps DEF Network
<1>4. CASE OtherThreads
  BY <1>4, OthersKeep, PutFromOutsideKeeps DEF OtherThreads
<1> QED BY <1>1, <1>2, <1>3, <1>4, StutterKeeps DEF Next

\* A socket is shut down once, after which only a client leaves it tasks, and an owner
\* that is gone has shut it down.
THEOREM TypeCorrect == Spec => []TypeOK
<1>1. IInv => TypeOK
  BY TypeParts DEF IInv
<1> QED BY <1>1, InitInv, NextKeeps, PTL DEF Spec

\* A posted call runs only when its owner has not been deleted: an owner that has been
\* deleted has a socket that has failed, has a thread that was never started, or is an
\* HTTP request, which posts none.
THEOREM NoCallWithoutOwner == Spec => []CallsHaveOwner
<1>1. IInv => CallsHaveOwner
  BY DEF IInv, OwnerInv, CallsHaveOwner
<1> QED BY <1>1, InitInv, NextKeeps, PTL DEF Spec

\* What Pieces says of the numbers is that they are those written, in order.
LEMMA PiecesInOrder ==
    ASSUME OutOK, Pieces(out)
    PROVE  out.sent \o out.sendBuf \o out.writeBuf \o out.file = [i \in 1 .. out.written |-> i]
<1> DEFINE a == Len(out.sent)
           b == Len(out.sendBuf)
           c == Len(out.writeBuf)
           d == Len(out.file)
           x == out.sent \o out.sendBuf
           y == x \o out.writeBuf
           z == y \o out.file
           w == out.written
           s == [i \in 1 .. w |-> i]
<1>1. /\ out.sent \in Seq(Nat) /\ out.sendBuf \in Seq(Nat) /\ out.writeBuf \in Seq(Nat)
      /\ out.file \in Seq(Nat) /\ w \in Nat
      /\ a \in Nat /\ b \in Nat /\ c \in Nat /\ d \in Nat
  BY LenProperties DEF OutOK
<1>2. /\ Numbered(out.sent, 0) /\ Numbered(out.sendBuf, a) /\ Numbered(out.writeBuf, a + b)
      /\ Numbered(out.file, a + b + c) /\ w = a + b + c + d
  BY DEF Pieces
<1>3. 0 + a = a /\ 0 + (a + b) = a + b /\ 0 + (a + b + c) = a + b + c /\ 0 \in Nat
  BY <1>1
<1>4. x \in Seq(Nat) /\ Len(x) = a + b /\ Numbered(x, 0)
  BY <1>1, <1>2, <1>3, NumberedConcat
<1> HIDE DEF x
<1>5. y \in Seq(Nat) /\ Len(y) = a + b + c /\ Numbered(y, 0)
  <2>1. y \in Seq(Nat) /\ Len(y) = Len(x) + Len(out.writeBuf)
        /\ (Numbered(x, 0) /\ Numbered(out.writeBuf, 0 + Len(x)) => Numbered(y, 0))
    BY <1>1, <1>3, <1>4, NumberedConcat
  <2> QED BY <1>2, <1>3, <1>4, <2>1
<1> HIDE DEF y
<1>6. z \in Seq(Nat) /\ Len(z) = w /\ Numbered(z, 0)
  <2>1. z \in Seq(Nat) /\ Len(z) = Len(y) + Len(out.file)
        /\ (Numbered(y, 0) /\ Numbered(out.file, 0 + Len(y)) => Numbered(z, 0))
    BY <1>1, <1>3, <1>5, NumberedConcat
  <2> QED BY <1>2, <1>3, <1>5, <2>1
<1>7. s \in Seq(Nat) /\ Len(s) = w /\ \A i \in 1 .. w : s[i] = i
  <2>1. \A i \in 1 .. w : i \in Nat
    OBVIOUS
  <2> HIDE DEF w
  <2> QED BY <1>1, <2>1, IsASeq, LenProperties
<1>8. \A i \in 1 .. w : z[i] = s[i]
  <2> HIDE DEF w, z, s
  <2>1. \A i \in 1 .. w : z[i] = 0 + i /\ 0 + i = i
    BY <1>1, <1>6 DEF Numbered
  <2> QED BY <1>7, <2>1
<1> HIDE DEF w, z, s
<1>9. z = s
  BY <1>6, <1>7, <1>8, SeqEqual
<1> QED BY <1>9 DEF x, y, z, s, w

\* While a connection is not being closed, everything written is sent or waits to be sent,
\* once and in order, and there is a task to wake the thread for it, however many
\* messages are written while the thread sends others.
THEOREM StreamCorrect == Spec => []StreamIntact
<1>1. IInv => StreamIntact
  <2> SUFFICES ASSUME IInv, state = "running", ~disconnecting
               PROVE  /\ out.sent \o out.sendBuf \o out.writeBuf \o out.file
                           = [i \in 1 .. out.written |-> i]
                      /\ out.writeBuf # <<>> => "data" \in ToSet(tasks)
                      /\ out.sendBuf # <<>> => at = "sending"
    BY DEF StreamIntact
  <2>1. /\ OutOK /\ Pieces(out)
        /\ out.sendBuf # <<>> => at = "sending"
        /\ out.writeBuf # <<>> => Has(tasks, "data")
        /\ tasks \in Seq(Tasks)
    BY DEF IInv, Flow, QueueOK
  <2>2. Has(tasks, "data") => "data" \in ToSet(tasks)
    <3>1. DOMAIN tasks = 1 .. Len(tasks)
      BY <2>1, LenProperties
    <3> QED BY <3>1 DEF Has, ToSet
  <2>3. out.sent \o out.sendBuf \o out.writeBuf \o out.file = [i \in 1 .. out.written |-> i]
    BY <2>1, PiecesInOrder
  <2> QED BY <2>1, <2>2, <2>3, Zenon
<1> QED BY <1>1, InitInv, NextKeeps, PTL DEF Spec

-----------------------------------------------------------------------------
(* What the other side receives                                            *)

\* The thread has begun to write a part of a file.
Looping == at \in {"check", "write", "blocked"} \/ inFile

\* Then that part comes next, whether or not the connection is being closed.
WireInv ==
    Looping =>
        /\ out.serving
        /\ Head(out.file) = Len(out.sent) + 1
        /\ Len(out.sent) + 1 <= out.written

\* A write of a file has been begun.
Begun == at = "write" \/ inFile

\* What has failed, is being closed or has ended remains so, and nobody begins to write
\* when the connection is being closed; who writes to the socket changes nothing of this.
Onward ==
    /\ state = "failed" => state' = "failed"
    /\ disconnecting => disconnecting'
    /\ at = "ended" => at' = "ended"
    /\ Begun' => Begun \/ ~disconnecting'
    /\ out'.written # out.written =>
         /\ state' = state /\ disconnecting' = disconnecting
         /\ (at' = "ended" <=> at = "ended") /\ (Begun' <=> Begun)

\* A step that sends nothing and leaves the file alone.
Quiet ==
    /\ out'.sent = out.sent /\ out'.file = out.file /\ out'.serving = out.serving
    /\ out'.written \in Nat /\ out.written <= out'.written
    /\ Looping' => Looping
    /\ Onward

\* Steps of the thread between two places.
LEMMA ThreadIsQuiet ==
    ASSUME IInv,
           \/ Drop \/ Shutdown \/ Connect \/ SendData \/ SendFile \/ TakeCall \/ NoTask
           \/ Accepts \/ GivesUpConnecting \/ Nothing \/ GivesUpSending \/ Check \/ Writable
    PROVE  Quiet
<1> USE DEF Quiet, Onward, Begun, Looping, Take, Goes, socketVars
<1>1. /\ out.written \in Nat /\ out.written <= out.written
      /\ at \notin {"none", "events", "write", "ended"} => state = "running"
  BY DEF IInv, OutOK, OwnerInv
<1>2. CASE Drop \/ Shutdown \/ Connect
  BY <1>1, <1>2 DEF Drop, Shutdown, Connect, Serves
<1>3. CASE SendData
  <2>1. /\ out'.sent = out.sent /\ out'.file = out.file /\ out'.serving = out.serving
        /\ out'.written = out.written
    BY <1>3 DEF SendData, IInv, OutOK
  <2> QED BY <1>1, <1>3, <2>1 DEF SendData
<1>4. CASE SendFile \/ TakeCall \/ NoTask \/ Nothing
  BY <1>1, <1>4 DEF SendFile, TakeCall, NoTask, Nothing
<1>5. CASE Accepts \/ GivesUpConnecting \/ GivesUpSending \/ Writable
  BY <1>1, <1>5 DEF Accepts, GivesUpConnecting, GivesUpSending, Writable
<1>6. CASE Check
  <2>1. /\ at = "check" /\ at' \in {"socket", "events"} /\ inFile' = ~disconnecting
        /\ UNCHANGED <<state, disconnecting, out>>
    BY <1>6 DEF Check
  <2> QED BY <1>1, <2>1
<1> QED BY <1>2, <1>3, <1>4, <1>5, <1>6

\* Failures.
LEMMA FailingIsQuiet ==
    ASSUME IInv, TakeDisconnect \/ ConnectFails \/ Closed \/ ReadFails \/ WriteFails
    PROVE  Quiet
<1>1. out.written \in Nat /\ out.written <= out.written
  BY DEF IInv, OutOK
<1>2. PICK q, nested : Fail(q, nested) /\ (nested => inFile) /\ at # "ended"
  BY DEF TakeDisconnect, ConnectFails, Closed, ReadFails, WriteFails, IInv, StateOK, FileInv, Reading
<1>3. /\ UNCHANGED out /\ state' = "failed" /\ at' = "events" /\ inFile' = nested
      /\ disconnecting => disconnecting'
  BY <1>2 DEF Fail, OnFailed, PutSocket
<1> QED BY <1>1, <1>2, <1>3 DEF Quiet, Onward, Begun, Looping

\* One more piece is written.
LEMMA WriteIsQuiet ==
    ASSUME IInv, Write, UNCHANGED <<state, disconnecting, inFile>>,
           at' = at \/ (at = "call" /\ at' = "events") \/ (at = "socket" /\ at' = "events")
    PROVE  Quiet
<1>1. /\ out.written \in Nat /\ out'.written = out.written + 1
      /\ out'.sent = out.sent /\ out'.file = out.file /\ out'.serving = out.serving
  BY DEF Write, IInv, OutOK
<1> QED BY <1>1 DEF Quiet, Onward, Begun, Looping

\* The connection is to be closed, or given up by its owner.
LEMMA ClosingIsQuiet ==
    ASSUME IInv, UNCHANGED <<state, inFile, out>>, disconnecting => disconnecting',
           at' = at \/ (at = "call" /\ at' = "events") \/ (at = "socket" /\ at' = "events")
    PROVE  Quiet
<1>1. out.written \in Nat /\ out.written <= out.written
  BY DEF IInv, OutOK
<1> QED BY <1>1 DEF Quiet, Onward, Begun, Looping

\* The socket is opened; the owner, handlers and other threads.
LEMMA OthersAreQuiet ==
    ASSUME IInv, Opening \/ AcceptFails \/ Connects \/ Call \/ OtherThreads
    PROVE  Quiet
<1>1. CASE Opening \/ AcceptFails
  <2>1. /\ out.written \in Nat /\ out.written <= out.written /\ UNCHANGED <<out, state, inFile>>
        /\ disconnecting => disconnecting'
        /\ at' = at \/ (at = "none" /\ at' \in {"events", "ended"})
    BY <1>1 DEF IInv, OutOK, OwnerInv, Opening, Start, AddTask, AcceptFails, PutSocket
  <2> QED BY <2>1 DEF Quiet, Onward, Begun, Looping
<1>2. CASE Connects
  <2>1. /\ at = "connecting" /\ at' = "events" /\ UNCHANGED <<state, inFile, disconnecting>>
        /\ out.written \in Nat /\ out'.written \in {out.written, out.written + 1}
        /\ out'.sent = out.sent /\ out'.file = out.file /\ out'.serving = out.serving
    BY <1>2 DEF Connects, Goes, IInv, OutOK
  <2> QED BY <2>1 DEF Quiet, Onward, Begun, Looping
<1>3. CASE Call
  <2>1. at = "call" /\ at' = "events" /\ React /\ UNCHANGED <<state, inFile>>
    BY <1>3 DEF Call
  <2>2. \/ Write /\ UNCHANGED disconnecting
        \/ UNCHANGED out /\ (disconnecting => disconnecting')
    BY <2>1 DEF React, Close, Disconnect
  <2> QED BY <2>1, <2>2, WriteIsQuiet, ClosingIsQuiet
<1>4. CASE OtherThreads
  <2>1. at' = at /\ UNCHANGED <<state, inFile>>
    BY <1>4 DEF OtherThreads, Post, HubWrite, CloseFromOutside, PutFromOutside
  <2>2. CASE HubWrite
    BY <2>1, <2>2, WriteIsQuiet DEF HubWrite
  <2>3. CASE Post \/ CloseFromOutside \/ PutFromOutside
    <3>1. UNCHANGED out
      BY <2>3 DEF Post, CloseFromOutside, Close, PutFromOutside
    <3>2. ASSUME Post PROVE disconnecting => disconnecting'
      BY <3>2 DEF Post
    <3>3. ASSUME CloseFromOutside PROVE disconnecting => disconnecting'
      BY <3>3 DEF CloseFromOutside, Close, Disconnect
    <3>4. ASSUME PutFromOutside PROVE disconnecting => disconnecting'
      BY <3>4 DEF PutFromOutside, PutSocket
    <3> QED BY <2>1, <2>3, <3>1, <3>2, <3>3, <3>4, ClosingIsQuiet
  <2> QED BY <1>4, <2>2, <2>3 DEF OtherThreads
<1> QED BY <1>1, <1>2, <1>3, <1>4

\* A line is quiet unless it asks for a file.
LEMMA LineIsQuiet ==
    ASSUME IInv, Line
    PROVE  Quiet \/ (/\ at \in Reading /\ ~out.serving /\ TransmitFile
                     /\ at' = (IF at = "socket" THEN "events" ELSE at)
                     /\ UNCHANGED <<state, inFile, disconnecting>>)
<1>1. /\ at' = at \/ (at = "socket" /\ at' = "events")
      /\ UNCHANGED <<state, inFile>>
  BY DEF Line
<1>2. CASE Write /\ UNCHANGED disconnecting
  BY <1>1, <1>2, WriteIsQuiet
<1>3. CASE UNCHANGED out /\ (disconnecting => disconnecting')
  BY <1>1, <1>3, ClosingIsQuiet
<1>4. CASE ~Transmitting /\ TransmitFile /\ UNCHANGED disconnecting
  BY <1>4 DEF Line, Transmitting
<1> QED BY <1>2, <1>3, <1>4 DEF Line, PutSocket, Disconnect

\* The file continues what has been sent when nothing else waits.
LEMMA FileComesNext ==
    ASSUME OutOK, Pieces(out), out.sendBuf = <<>>, out.writeBuf = <<>>, out.file # <<>>
    PROVE  Head(out.file) = Len(out.sent) + 1 /\ Len(out.sent) + 1 <= out.written
<1>1. /\ Len(out.sent) \in Nat /\ Len(out.sendBuf) = 0 /\ Len(out.writeBuf) = 0
      /\ Len(out.file) \in Nat \ {0} /\ Head(out.file) = out.file[1]
  BY HeadTailProperties, LenProperties, EmptySeq DEF OutOK
<1>2. /\ out.file[1] = Len(out.sent) + 0 + 0 + 1
      /\ out.written = Len(out.sent) + 0 + 0 + Len(out.file)
  BY <1>1 DEF Pieces, Numbered
<1> QED BY <1>1, <1>2

\* The steps that send something, read the file or are given one.
LEMMA WireKeeps == IInv /\ WireInv /\ [Next]_vars => WireInv'
<1> SUFFICES ASSUME IInv, WireInv, [Next]_vars PROVE WireInv'
  OBVIOUS
<1>1. CASE Quiet
  <2>1. Len(out.sent) \in Nat /\ out.written \in Nat
    BY LenProperties DEF IInv, OutOK
  <2> QED BY <1>1, <2>1 DEF Quiet, WireInv
<1>2. CASE SendSome
  <2>1. ~Looping'
    BY <1>2 DEF SendSome, Goes, IInv, OwnerInv, FileInv, Looping
  <2> QED BY <2>1 DEF WireInv
<1>3. CASE WriteChunk
  <2>1. at = "write" /\ ~inFile' /\ (at' = "file" \/ UNCHANGED out)
    BY <1>3 DEF WriteChunk, Goes, IInv, FileInv
  <2> QED BY <2>1 DEF WireInv, Looping
<1>4. CASE ReadFile
  <2>1. /\ at = "file" /\ ~inFile' /\ at' \in {"check", "socket"}
        /\ at' = "check" => ~disconnecting /\ out.file # <<>> /\ UNCHANGED out
        /\ state = "running"
    BY <1>4 DEF ReadFile, Goes, IInv, FileInv, OwnerInv
  <2>2. CASE at' = "check"
    <3>1. /\ Pieces(out) /\ out.writeBuf = <<>> /\ out.sendBuf = <<>> /\ out.serving
      BY <2>1, <2>2 DEF IInv, Flow, InFile, FilePlaces
    <3> QED BY <2>1, <2>2, <3>1, FileComesNext DEF WireInv, IInv
  <2> QED BY <2>1, <2>2 DEF WireInv, Looping
<1>5. CASE Line
  <2>1. CASE ~Quiet
    <3>1. at \in Reading /\ ~out.serving /\ at' = (IF at = "socket" THEN "events" ELSE at)
          /\ UNCHANGED inFile
      BY <1>5, <2>1, LineIsQuiet
    <3>2. ~Looping'
      BY <3>1 DEF WireInv, Looping
    <3> QED BY <3>2 DEF WireInv
  <2> QED BY <1>1, <2>1
<1>6. CASE UNCHANGED vars
  BY <1>6 DEF vars, socketVars, WireInv, Looping
<1>7. ASSUME Next, ~SendSome, ~WriteChunk, ~ReadFile, ~Line PROVE Quiet
  BY <1>7, ThreadIsQuiet, FailingIsQuiet, OthersAreQuiet
  DEF Next, ThreadRuns, Network, GivesUpWaiting
<1> QED BY <1>1, <1>2, <1>3, <1>4, <1>5, <1>6, <1>7

\* A quiet step writes, closes, or is none of the line.
LEMMA QuietIsLine == IInv /\ Quiet => [Stream!Next]_Stream!vars
<1> SUFFICES ASSUME IInv, Quiet PROVE [Stream!Next]_Stream!vars
  OBVIOUS
<1>1. /\ out'.sent = out.sent /\ out'.written \in Nat
      /\ out.written \in Nat /\ (out'.written # out.written => out'.written > out.written)
  BY DEF Quiet, IInv, OutOK
<1>2. CASE out'.written # out.written
  <2>1. LineState' = LineState
    <3>1. /\ state' = state /\ disconnecting' = disconnecting
          /\ (at' = "ended" <=> at = "ended") /\ (Begun' <=> Begun)
      BY <1>2 DEF Quiet, Onward
    <3> QED BY <3>1 DEF LineState, Begun
  <2> QED BY <1>1, <1>2, <2>1 DEF Stream!Next, Stream!Write
<1>3. CASE out'.written = out.written
  <2>1. /\ LineState' = LineState
           \/ (LineState = "open" /\ LineState' \in {"closing", "cut"})
           \/ (LineState = "closing" /\ LineState' = "cut")
    BY DEF Quiet, Onward, LineState, Begun
  <2> QED BY <1>1, <1>3, <2>1 DEF Stream!Next, Stream!Close, Stream!vars
<1> QED BY <1>2, <1>3

\* Every step of the socket is one of the line, or none.
LEMMA LineStep == IInv /\ WireInv /\ [Next]_vars => [Stream!Next]_Stream!vars
<1> SUFFICES ASSUME IInv, WireInv, [Next]_vars PROVE [Stream!Next]_Stream!vars
  OBVIOUS
<1>1. CASE SendSome
  <2>1. /\ at = "sending" /\ ~disconnecting /\ state = "running" /\ ~inFile
        /\ out'.sent = Append(out.sent, Head(out.sendBuf)) /\ out'.written = out.written
        /\ at' \in {"events", "sending"} /\ UNCHANGED <<state, inFile, disconnecting>>
    BY <1>1 DEF SendSome, Goes, OwnerInv, FileInv, StateOK, IInv, OutOK
  <2>2. Pieces(out) /\ out.sendBuf # <<>>
    BY <2>1 DEF Flow, IInv
  <2>3. Head(out.sendBuf) = Len(out.sent) + 1 /\ Len(out.sent) + 1 <= out.written
    <3>1. /\ Len(out.sent) \in Nat /\ Len(out.sendBuf) \in Nat \ {0}
          /\ Len(out.writeBuf) \in Nat /\ Len(out.file) \in Nat
          /\ Head(out.sendBuf) = out.sendBuf[1]
      BY <2>2, HeadTailProperties, LenProperties, EmptySeq DEF IInv, OutOK
    <3>2. out.sendBuf[1] = Len(out.sent) + 1
      BY <2>2, <3>1 DEF Pieces, Numbered
    <3>3. out.written = Len(out.sent) + Len(out.sendBuf) + Len(out.writeBuf) + Len(out.file)
      BY <2>2 DEF Pieces
    <3>4. \A a, c, d \in Nat, b \in Nat \ {0} : a + 1 <= a + b + c + d
      OBVIOUS
    <3>5. Len(out.sent) + 1
            <= Len(out.sent) + Len(out.sendBuf) + Len(out.writeBuf) + Len(out.file)
      BY <3>1, <3>4
    <3> QED BY <3>1, <3>2, <3>3, <3>5
  <2>4. LineState = "open" /\ LineState' = "open"
    BY <2>1 DEF LineState
  <2> QED BY <2>1, <2>3, <2>4 DEF Stream!Next, Stream!Send, Stream!NextPiece
<1>2. CASE WriteChunk
  <2>1. /\ at = "write" /\ state = "running" /\ ~inFile
        /\ \/ at' = "file" /\ out'.sent = Append(out.sent, Head(out.file))
              /\ out'.written = out.written
           \/ at' \in {"check", "blocked"} /\ UNCHANGED out
        /\ UNCHANGED <<state, inFile, disconnecting>>
    BY <1>2 DEF WriteChunk, Goes, FileInv, IInv, OutOK
  <2>2. /\ LineState = IF disconnecting THEN "closing" ELSE "open"
        /\ LineState' = IF disconnecting THEN "cut" ELSE "open"
    BY <2>1 DEF LineState
  <2>3. CASE UNCHANGED out
    BY <2>2, <2>3 DEF Stream!Next, Stream!Close, Stream!vars
  <2>4. CASE out'.sent = Append(out.sent, Head(out.file)) /\ out'.written = out.written
    <3>1. Head(out.file) = Len(out.sent) + 1 /\ Len(out.sent) + 1 <= out.written
      BY <2>1 DEF WireInv, Looping
    <3> QED BY <2>2, <2>4, <3>1 DEF Stream!Next, Stream!Send, Stream!NextPiece
  <2> QED BY <2>1, <2>3, <2>4
<1>3. CASE ReadFile
  <2>1. /\ at = "file" /\ at' \in {"check", "socket"} /\ ~inFile /\ state = "running"
        /\ out'.sent = out.sent /\ out'.written = out.written
        /\ UNCHANGED <<state, inFile, disconnecting>>
    BY <1>3 DEF ReadFile, Goes, IInv, FileInv, OwnerInv, OutOK
  <2>2. LineState' = LineState
    BY <2>1 DEF LineState
  <2> QED BY <2>1, <2>2 DEF Stream!vars
<1>4. CASE Line
  <2>1. CASE Quiet
    BY <2>1, QuietIsLine
  <2>2. CASE ~Quiet
    <3>1. /\ at \in Reading /\ TransmitFile
          /\ at' = (IF at = "socket" THEN "events" ELSE at)
          /\ UNCHANGED <<state, inFile, disconnecting>>
      BY <1>4, <2>2, LineIsQuiet
    <3>2. /\ out'.sent = out.sent /\ out'.written = out.written + 1 + FileChunks
          /\ out.written \in Nat /\ FileChunks \in Nat
      BY <3>1, BufferedSocketAssumption DEF TransmitFile, IInv, OutOK
    <3>3. LineState' = LineState
      BY <3>1 DEF LineState, Reading
    <3> QED BY <3>2, <3>3 DEF Stream!Next, Stream!Write
  <2> QED BY <2>1, <2>2
<1>5. CASE UNCHANGED vars
  BY <1>5 DEF vars, socketVars, Stream!vars, LineState
<1>6. ASSUME Next, ~SendSome, ~WriteChunk, ~ReadFile, ~Line PROVE Quiet
  BY <1>6, ThreadIsQuiet, FailingIsQuiet, OthersAreQuiet
  DEF Next, ThreadRuns, Network, GivesUpWaiting
<1> QED BY <1>1, <1>2, <1>3, <1>4, <1>5, <1>6, QuietIsLine

\* For files of any length and whatever is closed when and how: the other side receives
\* the pieces that were written, from the first on, without a gap and none twice, and after
\* a closing that does not wait at most the one whose write had begun.
THEOREM ImplementsPipe == Spec => StreamSpec
<1>1. Init => WireInv /\ Stream!Init
  BY DEF Init, WireInv, Looping, Stream!Init, LineState
<1> QED BY <1>1, InitInv, NextKeeps, WireKeeps, LineStep, PTL DEF Spec, StreamSpec, Stream!Spec
=============================================================================
