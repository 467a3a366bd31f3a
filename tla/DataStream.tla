----------------------------- MODULE DataStream -----------------------------
(***************************************************************************)
(* The one-way data stream: a NngUdsRpcPushDial and a NngUdsRpcPullListener*)
(* with an nng push0/pull0 connection between them, which buffers data     *)
(* (NNG_OPT_SENDBUF, NNG_OPT_RECVBUF) and makes nng_send() wait as long as *)
(* there is no connection or no room.  Nothing is assumed about its order. *)
(***************************************************************************)
EXTENDS PullListener, PushDial, FiniteSets

CONSTANT Capacity  \* how much data the connection buffers: 240 in the code

ASSUME StreamAssumption ==
  /\ Capacity \in Nat \ {0}
  /\ MaxSends \in Nat
  /\ MaxDials \in Nat

VARIABLE data  \* data accepted by nng_send() and not yet received

vars == <<pullVars, pushVars, data>>

Init == PullInit /\ PushInit /\ data = {}

-----------------------------------------------------------------------------
CanTransmit ==
  /\ pushSock \in dialed
  /\ listening # NoSocket
  /\ Cardinality(data) < Capacity

CanReceive ==
  /\ listening # NoSocket
  /\ recvSock = listening
  /\ data # {}

(* nng_send() accepts the data: sendData() returns true.                   *)
Transmit ==
  /\ CanTransmit
  /\ SendReturns
  /\ data' = data \cup {sends}
  /\ UNCHANGED pullVars

(* nng_recv() returns data to the loop.                                    *)
Take ==
  /\ CanReceive
  /\ Receive
  /\ \E d \in data : data' = data \ {d}
  /\ UNCHANGED pushVars

(* nng_recv() returns, with or without data, and the callback is not run.  *)
TakeNothing ==
  /\ ReceiveNothing
  /\ \/ UNCHANGED data
     \/ CanReceive /\ \E d \in data : data' = data \ {d}
  /\ UNCHANGED pushVars

(* Closing an end loses data, unless the other end has it already.         *)
ClosePush == PushClose /\ data' \in SUBSET data /\ UNCHANGED pullVars

ClosePull == CloseSocket /\ data' \in SUBSET data /\ UNCHANGED pushVars

(* nng_dial() needs a listener, and can fail all the same.                 *)
InitPush ==
  \E succeeds \in BOOLEAN :
    /\ succeeds => listening # NoSocket
    /\ Dial(succeeds)
    /\ UNCHANGED <<pullVars, data>>

InitPull ==
  /\ \E listens \in BOOLEAN : Init0(listens)
  /\ UNCHANGED <<pushVars, data>>

PushStep == SendFails /\ UNCHANGED <<pullVars, data>>

LoopStep ==
  /\ TestRunning \/ ReceiveFails \/ CallbackReturns
  /\ UNCHANGED <<pushVars, data>>

Next ==
  \/ InitPush
  \/ SendData /\ UNCHANGED <<pullVars, data>>
  \/ Transmit
  \/ PushStep
  \/ ClosePush
  \/ InitPull
  \/ StartRecvLoop /\ UNCHANGED <<pushVars, data>>
  \/ LoopStep
  \/ Take
  \/ TakeNothing
  \/ CloseCalled /\ UNCHANGED <<pushVars, data>>
  \/ Join /\ UNCHANGED <<pushVars, data>>
  \/ ClosePull

Spec == Init /\ [][Next]_vars

(* The threads run, callbacks return, and nng moves what it can.  Nothing  *)
(* makes the sender send, the receiver close or an open socket fail.       *)
FairSpec ==
  /\ Spec
  /\ WF_vars(Transmit)
  /\ WF_vars(PushStep)
  /\ WF_vars(LoopStep)
  /\ WF_vars(Take)
  /\ WF_vars(Join /\ UNCHANGED <<pushVars, data>>)
  /\ WF_vars(ClosePull)

-----------------------------------------------------------------------------
TypeOK ==
  /\ PullTypeOK
  /\ PushTypeOK
  /\ data \subseteq 1 .. MaxSends
  /\ Cardinality(data) <= Capacity

(* startRecvLoop() never assigns to a recvThread that is still joinable,   *)
(* which would end the process: close() has joined every earlier loop.     *)
ThreadIsFree == closing = "no" /\ ~ running => loop = "none"

(* After the application has called close(), its callback is begun at most *)
(* once more: for data nng_recv() was about to return.                     *)
OneLateCallback == late <= 1

(* The object loses track of an open socket only when init() is called     *)
(* while it has one, as after an init() that returned false; close() and   *)
(* the loop never do.                                                      *)
OnlyInitLeaks ==
  [][\/ open' \ {sock'} \subseteq open \ {sock}
     \/ sock # NoSocket /\ inits' = inits + 1]_vars

(* close() returns unless the loop stays in nng_recv() for ever: the       *)
(* socket is closed only after the loop has ended, and the loop looks at   *)
(* running only when data arrives.                                         *)
CloseCompletes ==
  [](closing # "no" =>
       \/ <>(closing = "no")
       \/ <>[](loop = "receiving" /\ recvSock \in open /\ ~ CanReceive))

(* sendData() returns unless there is no connection or no room for ever;   *)
(* without a socket it fails at once.                                      *)
SendCompletes ==
  [](sending => \/ <>(~ sending)
                \/ <>[](pushSock \in pushOpen /\ ~ CanTransmit))
-----------------------------------------------------------------------------
(* The inductive invariant behind ThreadIsFree and OneLateCallback: what   *)
(* close() and the loop know of each other.                                *)
LoopMatchesOwner ==
  /\ closing = "no" /\ running => loop \notin {"none", "ended"}
  /\ closing = "joining" => /\ ~ running
                            /\ loop # "none"
                            /\ loop = "receiving" => late = 0
  /\ closing = "closing" => ~ running /\ loop = "none"

SendsCounted == sending => sends # 0

StreamInv ==
  /\ TypeOK
  /\ SendsCounted
  /\ LoopMatchesOwner
  /\ ThreadIsFree
  /\ OneLateCallback
=============================================================================
