------------------------------ MODULE PushDial ------------------------------
(* NngUdsRpcPushDial, used by one thread: init(), sendData() and close(),  *)
(* which the destructor calls as well.                                     *)
EXTENDS Naturals

CONSTANTS
  MaxDials,  \* bound: how often the sending end calls init()
  MaxSends   \* bound: how often sendData() is called

VARIABLES
  pushInits,  \* how often init() opened a socket
  pushSock,   \* the member sock, 0 for sock.id = 0
  pushOpen,   \* the sockets that are not closed
  dialed,     \* the sockets nng_dial() succeeded for
  sending,    \* sendData() is waiting in nng_send()
  sends       \* the number of the last call of sendData()

pushVars == <<pushInits, pushSock, pushOpen, dialed, sending, sends>>

PushInit ==
  /\ pushInits = 0
  /\ pushSock = 0
  /\ pushOpen = {}
  /\ dialed = {}
  /\ sending = FALSE
  /\ sends = 0

(* init(): the new socket replaces sock and stays open if nng_dial() fails. *)
Dial(succeeds) ==
  /\ ~ sending
  /\ pushInits < MaxDials
  /\ pushInits' = pushInits + 1
  /\ pushSock' = pushInits'
  /\ pushOpen' = pushOpen \cup {pushInits'}
  /\ dialed' = IF succeeds THEN dialed \cup {pushInits'} ELSE dialed
  /\ UNCHANGED <<sending, sends>>

(* sendData() calls nng_send(), which waits for a connection and for room. *)
SendData ==
  /\ ~ sending
  /\ sends < MaxSends
  /\ sends' = sends + 1
  /\ sending' = TRUE
  /\ UNCHANGED <<pushInits, pushSock, pushOpen, dialed>>

SendReturns ==
  /\ sending
  /\ sending' = FALSE
  /\ UNCHANGED <<pushInits, pushSock, pushOpen, dialed, sends>>

(* Mutant: sendData() tries again after an error.                          *)
SendRetries == FALSE

(* nng_send() fails at once on a socket that is not open: false.           *)
SendFails ==
  /\ pushSock \notin pushOpen
  /\ SendReturns

PushClose ==
  /\ ~ sending
  /\ pushOpen' = pushOpen \ {pushSock}
  /\ dialed' = dialed \ {pushSock}
  /\ pushSock' = 0
  /\ UNCHANGED <<pushInits, sending, sends>>

PushTypeOK ==
  /\ pushInits \in 0 .. MaxDials
  /\ pushOpen \subseteq 1 .. MaxDials
  /\ pushSock \in pushOpen \cup {0}
  /\ dialed \subseteq pushOpen
  /\ sending \in BOOLEAN
  /\ sends \in 0 .. MaxSends
=============================================================================
