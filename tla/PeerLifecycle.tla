--------------------------- MODULE PeerLifecycle ---------------------------
(***************************************************************************)
(* start() and stop() of one peer object, called by the thread that owns   *)
(* it, against the recv_cb() callbacks of its aios, which nng runs on its  *)
(* own threads.  The owner calls start() again only after stop() or after  *)
(* a start() that returned false, and registers methods only while no      *)
(* start() has succeeded.  The two classes differ in three ways: what      *)
(* start() does when nng_aio_alloc() fails, whether only one socket may    *)
(* have the address, and whether stop() clears method_map.                 *)
(***************************************************************************)
EXTENDS Naturals

CONSTANTS
  NumWorkers,  \* num_workers
  MaxStarts    \* bound: how often start() gets as far as opening a socket

ASSUME LifecycleAssumption ==
  /\ NumWorkers \in Nat \ {0}
  /\ MaxStarts \in Nat

(* start() opens a new socket and allocates new aios each time.            *)
Sockets == 1 .. MaxStarts

Aios == Sockets \X (1 .. NumWorkers)

NoSocket == 0

NoAio == <<0, 0>>

VARIABLES
  is_listener, \* a NngUdsRpcPeerListener, or a NngUdsRpcPeerDial
  pc,          \* where the owner is
  opened,      \* how many sockets were opened so far
  sock,        \* the member sock
  open,        \* the sockets not closed yet
  todo,        \* start(): the aios still to be allocated
  aio_list,    \* the member aio_list
  aio,         \* per aio: "absent", "live" or "freed"
  cb,          \* per aio: no operation, receiving, or where its callback is
  on,          \* per aio: the socket it receives on, or sends its answer on
  stopped,     \* the aios nng_aio_stop() was called for
  stopping,    \* stop(): the aio it waits for
  registered,  \* method_map has the application's methods
  handler,     \* on_pipe_event is set
  pipe,        \* per socket: pipe_cb() runs on an nng thread
  status,      \* what the last start() or stop() has left
  replaced     \* start() replaced the member sock while a socket was open

socketVars == <<is_listener, opened, sock, open, replaced>>

listVars == <<todo, aio_list>>

aioVars == <<aio, cb, on>>

stopVars == <<stopped, stopping>>

appVars == <<registered, handler, pipe>>

vars == <<socketVars, listVars, aioVars, stopVars, appVars, pc, status>>

Init ==
  /\ is_listener \in BOOLEAN
  /\ pc = "idle"
  /\ opened = 0
  /\ sock = NoSocket
  /\ open = {}
  /\ todo = {}
  /\ aio_list = {}
  /\ aio = [a \in Aios |-> "absent"]
  /\ cb = [a \in Aios |-> "none"]
  /\ on = [a \in Aios |-> NoSocket]
  /\ stopped = {}
  /\ stopping = NoAio
  /\ registered = FALSE
  /\ handler = FALSE
  /\ pipe = [s \in Sockets |-> FALSE]
  /\ status = "stopped"
  /\ replaced = FALSE

-----------------------------------------------------------------------------
(* The owner calls register_method() or set_pipe_handler(): while it is in *)
(* one of them, nothing else may look at what it changes.                  *)
Configure ==
  /\ pc = "idle"
  /\ status # "started"
  /\ pc' = "configuring"
  /\ UNCHANGED <<socketVars, listVars, aioVars, stopVars, appVars, status>>

RegisterMethod ==
  /\ pc = "configuring"
  /\ registered' = TRUE
  /\ pc' = "idle"
  /\ UNCHANGED <<socketVars, listVars, aioVars, stopVars, handler, pipe,
                 status>>

SetPipeHandler ==
  /\ pc = "configuring"
  /\ ~ is_listener
  /\ handler' = TRUE
  /\ pc' = "idle"
  /\ UNCHANGED <<socketVars, listVars, aioVars, stopVars, registered, pipe,
                 status>>

MayStart ==
  /\ pc = "idle"
  /\ status # "started"
  /\ opened < MaxStarts
  /\ opened' = opened + 1
  /\ replaced' = (replaced \/ open # {})

(* Mutant: start() does not look at the result of nng_listen().            *)
AddressIgnored == TRUE

(* nng_listen() cannot bind an address another socket still listens on.    *)
AddressFree == is_listener => open = {}

(* Mutant: the loop runs from 0 to num_workers.                            *)
StartOpensForTooMany ==
  /\ MayStart
  /\ AddressFree
  /\ sock' = opened'
  /\ open' = open \cup {opened'}
  /\ todo' = {opened'} \X (0 .. NumWorkers)
  /\ pc' = "arming"
  /\ UNCHANGED <<aioVars, stopVars, appVars, is_listener, aio_list, status>>

(* start() up to its loop: the new socket replaces the member sock.        *)
StartOpens ==
  /\ MayStart
  /\ AddressFree
  /\ sock' = opened'
  /\ open' = open \cup {opened'}
  /\ todo' = {opened'} \X (1 .. NumWorkers)
  /\ pc' = "arming"
  /\ UNCHANGED <<aioVars, stopVars, appVars, is_listener, aio_list, status>>

(* nng_pair0_open() fails: the member sock stays what it was.              *)
StartUnopened ==
  /\ pc = "idle"
  /\ status # "started"
  /\ status' = "failed"
  /\ UNCHANGED <<socketVars, listVars, aioVars, stopVars, appVars, pc>>

(* nng_dial() or nng_listen() fails: the new socket is closed again.       *)
StartRefused ==
  /\ MayStart
  /\ sock' = opened'
  /\ status' = "failed"
  /\ UNCHANGED <<listVars, aioVars, stopVars, appVars, is_listener, pc, open>>

(* nng_aio_alloc(), push_back() and nng_recv_aio().                        *)
ArmNext(a) ==
  /\ pc = "arming"
  /\ a \in todo
  /\ todo' = todo \ {a}
  /\ aio_list' = aio_list \cup {a}
  /\ aio' = [aio EXCEPT ![a] = "live"]
  /\ cb' = [cb EXCEPT ![a] = "armed"]
  /\ on' = [on EXCEPT ![a] = sock]
  /\ UNCHANGED <<socketVars, stopVars, appVars, pc, status>>

(* nng_aio_alloc() fails: the dialing peer goes on without this worker,    *)
(* the listener gives up and leaves everything as it is.                   *)
AllocFails(a) ==
  /\ pc = "arming"
  /\ a \in todo
  /\ IF is_listener
       THEN todo' = {} /\ pc' = "idle" /\ status' = "failed"
       ELSE todo' = todo \ {a} /\ UNCHANGED <<pc, status>>
  /\ UNCHANGED <<socketVars, aioVars, stopVars, appVars, aio_list>>

StartReturns ==
  /\ pc = "arming"
  /\ todo = {}
  /\ pc' = "idle"
  /\ status' = "started"
  /\ UNCHANGED <<socketVars, listVars, aioVars, stopVars, appVars>>

-----------------------------------------------------------------------------
(* Mutant: stop() clears method_map first, and only that.                  *)
StopClearsFirst ==
  /\ pc = "idle"
  /\ pc' = "clearing"
  /\ UNCHANGED <<socketVars, listVars, aioVars, stopVars, appVars, status>>

(* Mutant: stop() closes the socket before it stops the aios.              *)
StopClosesFirst ==
  /\ pc = "idle"
  /\ pc' = "stopping"
  /\ open' = open \ {sock}
  /\ UNCHANGED <<listVars, aioVars, stopVars, appVars, is_listener, opened,
                 sock, replaced, status>>

(* stop(), which the destructor calls as well.                             *)
StopCalled ==
  /\ pc = "idle"
  /\ pc' = "stopping"
  /\ UNCHANGED <<socketVars, listVars, aioVars, stopVars, appVars, status>>

(* Mutant: stop() waits for the callback without stopping the aio.         *)
StopAioWaits(a) ==
  /\ pc = "stopping"
  /\ a \in aio_list
  /\ stopping' = a
  /\ pc' = "waiting"
  /\ UNCHANGED <<socketVars, listVars, aioVars, appVars, stopped, status>>

(* nng_aio_stop() forbids any further operation of the aio, cancels a      *)
(* receive that is under way and waits until the callback has returned.    *)
StopAio(a) ==
  /\ pc = "stopping"
  /\ a \in aio_list
  /\ stopped' = stopped \cup {a}
  /\ stopping' = a
  /\ pc' = "waiting"
  /\ UNCHANGED <<socketVars, listVars, aioVars, appVars, status>>

(* Mutant: stop() frees the aio without waiting for its callback.          *)
NotAwaited(a) == TRUE

(* nng_aio_stop() returns; nng_aio_free() and delete follow.               *)
CallbackDone(a) == cb[a] = "none"

FreeAio ==
  /\ pc = "waiting"
  /\ CallbackDone(stopping)
  /\ aio' = [aio EXCEPT ![stopping] = "freed"]
  /\ aio_list' = aio_list \ {stopping}
  /\ stopping' = NoAio
  /\ pc' = "stopping"
  /\ UNCHANGED <<socketVars, appVars, todo, cb, on, stopped, status>>

(* Mutant: no nng_close().                                                 *)
StopForgetsSocket ==
  /\ pc = "stopping"
  /\ aio_list = {}
  /\ pc' = "clearing"
  /\ UNCHANGED <<socketVars, listVars, aioVars, stopVars, appVars, status>>

(* nng_close(), which waits for the callbacks of the socket's pipes.       *)
StopCloses ==
  /\ pc = "stopping"
  /\ aio_list = {}
  /\ sock \in open => ~ pipe[sock]
  /\ open' = open \ {sock}
  /\ pc' = "clearing"
  /\ UNCHANGED <<listVars, aioVars, stopVars, appVars, is_listener, opened,
                 sock, replaced, status>>

(* method_map.clear(), which only the dialing peer does.                   *)
StopReturns ==
  /\ pc = "clearing"
  /\ registered' = (registered /\ is_listener)
  /\ status' = "stopped"
  /\ pc' = "idle"
  /\ UNCHANGED <<socketVars, listVars, aioVars, stopVars, handler, pipe>>

-----------------------------------------------------------------------------
(* The callback of aio a: it begins with a message, or with an error when  *)
(* the receive is cancelled or the socket is closed.                       *)
Received(a) ==
  /\ cb[a] = "armed"
  /\ on[a] \in open
  /\ a \notin stopped
  /\ cb' = [cb EXCEPT ![a] = "called"]
  /\ UNCHANGED <<socketVars, listVars, stopVars, appVars, pc, aio, on, status>>

Failed(a) ==
  /\ cb[a] = "armed"
  /\ on[a] \notin open \/ a \in stopped
  /\ cb' = [cb EXCEPT ![a] = "rearming"]
  /\ UNCHANGED <<socketVars, listVars, stopVars, appVars, pc, aio, on, status>>

(* The message does not verify: the callback ends and arms no receive.     *)
Rejects(a) ==
  /\ cb[a] = "called"
  /\ cb' = [cb EXCEPT ![a] = "none"]
  /\ UNCHANGED <<socketVars, listVars, stopVars, appVars, pc, aio, on, status>>

(* recv_cb() looks the method of a request up and calls nng_sendmsg() with *)
(* the answer and the socket the member sock names by now.                 *)
Answers(a) ==
  /\ cb[a] = "called"
  /\ registered
  /\ cb' = [cb EXCEPT ![a] = "sending"]
  /\ on' = [on EXCEPT ![a] = sock]
  /\ UNCHANGED <<socketVars, listVars, stopVars, appVars, pc, aio, status>>

(* The message is a response, or a request of a method not in the map.     *)
DoesNotAnswer(a) ==
  /\ cb[a] = "called"
  /\ cb' = [cb EXCEPT ![a] = "rearming"]
  /\ UNCHANGED <<socketVars, listVars, stopVars, appVars, pc, aio, on, status>>

(* nng_sendmsg() of the answer returns: the answer was accepted, or the    *)
(* socket is closed.                                                       *)
Sent(a) ==
  /\ cb[a] = "sending"
  /\ cb' = [cb EXCEPT ![a] = "rearming"]
  /\ UNCHANGED <<socketVars, listVars, stopVars, appVars, pc, aio, on, status>>

SendFails(a) == on[a] \notin open /\ Sent(a)

(* nng_recv_aio() with the socket the member sock names by now; nng does   *)
(* nothing if the aio was stopped.                                         *)
Rearm(a) ==
  /\ cb[a] = "rearming"
  /\ IF a \in stopped
       THEN cb' = [cb EXCEPT ![a] = "none"] /\ UNCHANGED on
       ELSE cb' = [cb EXCEPT ![a] = "armed"] /\ on' = [on EXCEPT ![a] = sock]
  /\ UNCHANGED <<socketVars, listVars, stopVars, appVars, pc, aio, status>>

(* A pipe of socket s comes or goes: pipe_cb() of the dialing peer runs    *)
(* the application's handler.                                              *)
PipeEvent(s) ==
  /\ s \in open
  /\ ~ is_listener
  /\ handler
  /\ ~ pipe[s]
  /\ pipe' = [pipe EXCEPT ![s] = TRUE]
  /\ UNCHANGED <<socketVars, listVars, aioVars, stopVars, registered, handler,
                 pc, status>>

PipeHandled(s) ==
  /\ pipe[s]
  /\ pipe' = [pipe EXCEPT ![s] = FALSE]
  /\ UNCHANGED <<socketVars, listVars, aioVars, stopVars, registered, handler,
                 pc, status>>

CallbackStep(a) ==
  Failed(a) \/ Rejects(a) \/ Answers(a) \/ DoesNotAnswer(a) \/ Rearm(a)

OwnerStep ==
  \/ \E a \in Aios : ArmNext(a) \/ AllocFails(a) \/ StopAio(a)
  \/ StartReturns
  \/ FreeAio
  \/ StopCloses
  \/ StopReturns

Next ==
  \/ Configure
  \/ RegisterMethod
  \/ SetPipeHandler
  \/ StartOpens
  \/ StartUnopened
  \/ StartRefused
  \/ StopCalled
  \/ OwnerStep
  \/ \E a \in Aios : Received(a) \/ CallbackStep(a) \/ Sent(a)
  \/ \E s \in Sockets : PipeEvent(s) \/ PipeHandled(s)

Spec == Init /\ [][Next]_vars

(* The owner and the callbacks run, pipe handlers return, and nng_close()  *)
(* lets no new pipe come once it has begun.  That an answer is ever        *)
(* accepted is not assumed: the other peer may not read it.                *)
FairSpec ==
  /\ Spec
  /\ WF_vars(OwnerStep)
  /\ SF_vars(StopCloses)
  /\ \A a \in Aios : WF_vars(CallbackStep(a)) /\ WF_vars(SendFails(a))
  /\ \A s \in Sockets : WF_vars(PipeHandled(s))

-----------------------------------------------------------------------------
TypeOK ==
  /\ is_listener \in BOOLEAN
  /\ pc \in {"idle", "configuring", "arming", "stopping", "waiting",
             "clearing"}
  /\ opened \in 0 .. MaxStarts
  /\ sock \in Sockets \cup {NoSocket}
  /\ open \subseteq Sockets
  /\ todo \subseteq Aios
  /\ aio_list \subseteq Aios
  /\ aio \in [Aios -> {"absent", "live", "freed"}]
  /\ cb \in [Aios -> {"none", "armed", "called", "sending", "rearming"}]
  /\ on \in [Aios -> Sockets \cup {NoSocket}]
  /\ stopped \subseteq Aios
  /\ stopping \in Aios \cup {NoAio}
  /\ registered \in BOOLEAN
  /\ handler \in BOOLEAN
  /\ pipe \in [Sockets -> BOOLEAN]
  /\ status \in {"stopped", "started", "failed"}
  /\ replaced \in BOOLEAN

(* recv_cb() runs, and nng receives, only on aios that are not freed.      *)
NoCallbackAfterFree ==
  \A a \in Aios : cb[a] # "none" => aio[a] = "live"

MapReadersGone ==
  pc = "clearing" => \A a \in Aios : cb[a] # "called"

ConfiguresAlone ==
  pc = "configuring" =>
    /\ \A s \in Sockets : ~ pipe[s]
    /\ \A a \in Aios : cb[a] = "called" => is_listener /\ status = "failed"

(* What has no lock needs none.  No callback looks into method_map while   *)
(* stop() clears it: all have returned by then, those of earlier starts    *)
(* included.  And an application that sets its methods and pipe handler    *)
(* before it calls start() does so alone: only a listener whose start()    *)
(* failed half-way still has callbacks that search method_map.             *)
UnlockedStateIsAlone == MapReadersGone /\ ConfiguresAlone

(* recv_cb() arms its aio again after an error too, so on a closed socket  *)
(* it is called over and over.  That happens only to the aios a failed     *)
(* start() has left behind, once start() has replaced the member sock.     *)
SpinsOnlyIfReplaced ==
  \A a \in Aios :
    cb[a] = "armed" /\ a \notin stopped /\ on[a] \notin open => replaced

Nothing ==
  /\ open = {}
  /\ \A a \in Aios : aio[a] # "live"

StopLeavesNothing ==
  pc = "idle" /\ status = "stopped" /\ ~ replaced => Nothing

FailedStartLeavesNothing ==
  pc = "idle" /\ status = "failed" /\ ~ is_listener => Nothing

(* After stop() no socket is open and no aio is left, unless start() was   *)
(* called again on what a failed start() had left behind and has replaced  *)
(* the member sock, which names the socket to close.  start() of the       *)
(* dialing peer returns false only with everything released again, so that *)
(* it may simply be called once more.  The listener's does not keep to     *)
(* this: it returns where nng_aio_alloc() fails.                           *)
ReleasesEverything == StopLeavesNothing /\ FailedStartLeavesNothing

(* A socket is leaked for good only by a start() that opens another one on *)
(* what a start() that failed half-way has left; while one is leaked, no   *)
(* start() can succeed.  Where the second start() opens none, stop() still *)
(* finds the first, and a third start() may succeed.                       *)
LeakBlocksAddress ==
  replaced => status # "started"

(* stop() returns, unless a callback waits in nng_sendmsg() for ever: the  *)
(* socket is closed only after the callbacks have returned.                *)
StopCompletes ==
  [](pc \in {"stopping", "waiting", "clearing"} =>
       \/ <>(pc = "idle")
       \/ <>[](\E a \in Aios : cb[a] = "sending"))
-----------------------------------------------------------------------------
(* The inductive invariant behind the properties above.  aio_list is what  *)
(* stop() has to go by: it names every aio that is not freed.              *)
ListsLiveAios == aio_list = {a \in Aios : aio[a] = "live"}

(* Where the owner is, and what it knows there.                            *)
OwnerKnows ==
  /\ pc = "waiting" => stopping \in aio_list
  /\ pc = "clearing" => aio_list = {} /\ sock \notin open
  /\ pc = "arming" => sock \in open
  /\ pc = "configuring" => status # "started"

(* The member sock names the only open socket, as long as start() was not  *)
(* called on the leftovers of another; after that it never does again.     *)
OneSocket ==
  /\ open \subseteq 1 .. opened
  /\ ~ replaced => open \subseteq {sock}
  /\ replaced => /\ is_listener
                /\ open \ {sock} # {}
                /\ status # "started"
                /\ pc # "arming"

(* An aio is not outlived by the socket it receives on.                    *)
SocketOfAios ==
  ~ replaced => \A a \in aio_list : on[a] = sock /\ sock \in open

(* What the owner may rely on while it is in no call, or sets its methods. *)
LeftBehind ==
  pc \in {"idle", "configuring"} =>
    /\ status = "stopped" => aio_list = {} /\ (~ replaced => open = {})
    /\ status = "failed" /\ ~ is_listener => open = {}

PipesAreOpen ==
  \A s \in Sockets : pipe[s] => s \in open /\ ~ is_listener

LifecycleInv ==
  /\ TypeOK
  /\ ListsLiveAios
  /\ NoCallbackAfterFree
  /\ OwnerKnows
  /\ OneSocket
  /\ SocketOfAios
  /\ LeftBehind
  /\ PipesAreOpen
=============================================================================
