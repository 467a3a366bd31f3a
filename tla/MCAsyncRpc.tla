----------------------------- MODULE MCAsyncRpc -----------------------------
(* Instances of AsyncRpc for TLC: threads that share one peer.  The peers  *)
(* share nothing in AsyncRpc, so one is enough here; RpcPeers has both.    *)
EXTENDS AtMostOnceRefinement

CONSTANTS dial, DialCalls

OnDial == [c \in Callers |-> dial]

CallsOnDial == [p \in Peers |-> DialCalls]
=============================================================================
