-------------------------- MODULE MCBufferedSocket --------------------------
(* Instances of BufferedSocket for TLC. *)
EXTENDS BufferedSocket

Setup(owner, opened, user, calls, writes, disconnects, lines) ==
    [owner |-> owner, opened |-> opened, user |-> user,
     limits |-> [call |-> calls, write |-> writes, disconnect |-> disconnects, line |-> lines]]

SomeSetups ==
    { \* a client: messages from several threads, calls, a new connection
      Setup("hub", "connect", FALSE, 1, 2, 2, 2),
      \* connections to and from a peer that asks for files
      Setup("peer", "connect", TRUE, 1, 0, 2, 2),
      Setup("peer", "accept", FALSE, 2, 0, 2, 3),
      \* an HTTP request
      Setup("http", "connect", FALSE, 0, 0, 0, 2)}
==============================================================================
