---------------------------- MODULE PullListener ----------------------------
(***************************************************************************)
(* NngUdsRpcPullListener: the thread that owns the object calls init(),    *)
(* startRecvLoop() and close(), which the destructor calls as well, and    *)
(* the thread startRecvLoop() creates runs the receive loop.  What the     *)
(* actions do to the data under way is added by DataStream.                *)
(***************************************************************************)
EXTENDS Naturals

CONSTANT MaxInits  \* bound: how often the receiving end calls init()

ASSUME PullAssumption == MaxInits \in Nat

NoSocket == 0

VARIABLES
  inits,       \* how often init() opened a socket
  sock,        \* the member sock: a socket, or NoSocket for sock.id = 0
  open,        \* the sockets that are not closed
  listening,   \* the socket nng_listen() succeeded for
  running,     \* the member running
  loop,        \* recvThread: not joinable, or where the loop is
  recvSock,    \* the socket nng_recv() was called with
  closing,     \* where the owner is in close()
  late         \* callbacks begun since close() was called

pullVars ==
  <<inits, sock, open, listening, running, loop, recvSock, closing, late>>

PullInit ==
  /\ inits = 0
  /\ sock = NoSocket
  /\ open = {}
  /\ listening = NoSocket
  /\ running = FALSE
  /\ loop = "none"
  /\ recvSock = NoSocket
  /\ closing = "no"
  /\ late = 0

(* init(): the new socket replaces the member sock and stays open even if  *)
(* nng_listen() fails, as it does while another one listens.               *)
Init0(listens) ==
  /\ closing = "no"
  /\ inits < MaxInits
  /\ listens => listening = NoSocket
  /\ inits' = inits + 1
  /\ sock' = inits'
  /\ open' = open \cup {inits'}
  /\ listening' = IF listens THEN inits' ELSE listening
  /\ UNCHANGED <<running, loop, recvSock, closing, late>>

(* startRecvLoop() does nothing while a loop is running.                   *)
StartRecvLoop ==
  /\ closing = "no"
  /\ ~ running
  /\ running' = TRUE
  /\ loop' = "testing"
  /\ UNCHANGED <<inits, sock, open, listening, recvSock, closing, late>>

(* Mutant: while (true) nng_recv() ...                                     *)
TestNothing ==
  /\ loop = "testing"
  /\ loop' = "receiving"
  /\ recvSock' = sock
  /\ UNCHANGED <<inits, sock, open, listening, running, closing, late>>

(* The loop: while (running) nng_recv(sock) ...                            *)
TestRunning ==
  /\ loop = "testing"
  /\ \/ running /\ loop' = "receiving" /\ recvSock' = sock
     \/ ~ running /\ loop' = "ended" /\ UNCHANGED recvSock
  /\ UNCHANGED <<inits, sock, open, listening, running, closing, late>>

(* nng_recv() returns data: the callback runs.                             *)
Receive ==
  /\ loop = "receiving"
  /\ loop' = "calling"
  /\ late' = IF closing = "no" THEN 0 ELSE late + 1
  /\ UNCHANGED <<inits, sock, open, listening, running, recvSock, closing>>

(* nng_recv() on an open socket returns an error, or data in no memory:    *)
(* there is no callback, and the loop sleeps 10 ms.                        *)
ReceiveNothing ==
  /\ loop = "receiving"
  /\ recvSock \in open
  /\ loop' = "testing"
  /\ UNCHANGED <<inits, sock, open, listening, running, recvSock, closing,
                 late>>

(* Mutant: nng_recv() is tried again without a look at running.            *)
ReceiveRetries ==
  /\ loop = "receiving"
  /\ recvSock \notin open
  /\ UNCHANGED pullVars

(* nng_recv() fails on a socket that is not open; the loop sleeps 10 ms.   *)
ReceiveFails ==
  /\ loop = "receiving"
  /\ recvSock \notin open
  /\ loop' = "testing"
  /\ UNCHANGED <<inits, sock, open, listening, running, recvSock, closing,
                 late>>

CallbackReturns ==
  /\ loop = "calling"
  /\ loop' = "testing"
  /\ UNCHANGED <<inits, sock, open, listening, running, recvSock, closing,
                 late>>

(* Mutant: close() does not join the loop.                                 *)
CloseWithoutJoin ==
  /\ closing = "no"
  /\ closing' = "closing"
  /\ running' = FALSE
  /\ late' = 0
  /\ UNCHANGED <<inits, sock, open, listening, loop, recvSock>>

(* close(): with a loop, it is told to stop and joined first.              *)
CloseCalled ==
  /\ closing = "no"
  /\ closing' = IF running THEN "joining" ELSE "closing"
  /\ running' = FALSE
  /\ late' = 0
  /\ UNCHANGED <<inits, sock, open, listening, loop, recvSock>>

Join ==
  /\ closing = "joining"
  /\ loop = "ended"
  /\ loop' = "none"
  /\ closing' = "closing"
  /\ UNCHANGED <<inits, sock, open, listening, running, recvSock, late>>

(* Mutants: only one of nng_close() and sock.id = 0.                       *)
ForgetSocket ==
  /\ closing = "closing"
  /\ sock' = NoSocket
  /\ closing' = "no"
  /\ UNCHANGED <<inits, open, listening, running, loop, recvSock, late>>

KeepSocketId ==
  /\ closing = "closing"
  /\ open' = open \ {sock}
  /\ listening' = IF listening = sock THEN NoSocket ELSE listening
  /\ closing' = "no"
  /\ UNCHANGED <<inits, sock, running, loop, recvSock, late>>

(* nng_close() and sock.id = 0.                                            *)
CloseSocket ==
  /\ closing = "closing"
  /\ open' = open \ {sock}
  /\ listening' = IF listening = sock THEN NoSocket ELSE listening
  /\ sock' = NoSocket
  /\ closing' = "no"
  /\ UNCHANGED <<inits, running, loop, recvSock, late>>

PullTypeOK ==
  /\ inits \in 0 .. MaxInits
  /\ open \subseteq 1 .. MaxInits
  /\ sock \in open \cup {NoSocket}
  /\ listening \in 0 .. MaxInits
  /\ running \in BOOLEAN
  /\ loop \in {"none", "testing", "receiving", "calling", "ended"}
  /\ recvSock \in 0 .. MaxInits
  /\ closing \in {"no", "joining", "closing"}
  /\ late \in Nat
=============================================================================
