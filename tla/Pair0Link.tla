----------------------------- MODULE Pair0Link -----------------------------
(***************************************************************************)
(* The nng pair0 connection between the two sockets, as the peers use it:  *)
(* at most one pipe at a time, messages of one direction in order, and     *)
(* nng_sendmsg() without a timeout, which waits as long as there is no     *)
(* pipe or no room.  nng is not part of the repository, so this module is  *)
(* an assumption about it and not a translation.                           *)
(***************************************************************************)
EXTENDS RpcMessage, Sequences

CONSTANTS
  Capacity,  \* messages that fit between nng_sendmsg() and the receiver's aio
  MaxDrops   \* bound: how often the pipe is lost

ASSUME LinkAssumption ==
  /\ \E p, q \in Peers : p # q /\ Peers = {p, q}
  /\ Capacity \in Nat \ {0}
  /\ MaxDrops \in Nat

VARIABLES
  link,       \* per peer: the messages on their way to it
  connected,  \* there is a pipe
  drops       \* how often the pipe was lost

linkVars == <<link, connected, drops>>

Other(p) == CHOOSE q \in Peers : q # p

LinkInit ==
  /\ link = [p \in Peers |-> <<>>]
  /\ connected = TRUE
  /\ drops = 0

(* nng_sendmsg() of peer p accepts message m.                              *)
CanTransmit(p) == connected /\ Len(link[Other(p)]) < Capacity

Transmit(p, m) ==
  /\ CanTransmit(p)
  /\ link' = [link EXCEPT ![Other(p)] = Append(@, m)]
  /\ UNCHANGED <<connected, drops>>

(* The next message for peer p is handed to an aio.                        *)
TakeNext(p) ==
  /\ link[p] # <<>>
  /\ link' = [link EXCEPT ![p] = Tail(@)]
  /\ UNCHANGED <<connected, drops>>

(* What may be left of the messages to each peer when the pipe is lost:    *)
(* those that had reached the receiving socket.                            *)
Remainders ==
  {[p \in Peers |-> SubSeq(link[p], 1, n[p])] :
     n \in {k \in [Peers -> 0 .. Capacity] :
              \A p \in Peers : k[p] <= Len(link[p])}}

(* The pipe is lost (NNG_PIPE_EV_REM_POST).                                *)
Disconnect ==
  /\ connected
  /\ drops < MaxDrops
  /\ drops' = drops + 1
  /\ connected' = FALSE
  /\ link' \in Remainders

(* The dialer reconnects (NNG_OPT_RECONNMINT, NNG_OPT_RECONNMAXT).         *)
Reconnect ==
  /\ ~ connected
  /\ connected' = TRUE
  /\ UNCHANGED <<link, drops>>
=============================================================================
