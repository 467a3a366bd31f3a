---------------------------- MODULE MCRpcPeers ----------------------------
(* Instances of RpcPeers for TLC.                                          *)
EXTENDS RpcPeers

CONSTANTS dial, listener,
  DialCalls, ListenerCalls,  \* how many calls each side makes
  DialCallers,  \* the threads that call on the dial side
  DialWorkers,  \* the aios of the dial side
  Unknown,      \* methods nobody registers
  Malformed     \* the numbers of the calls whose arguments do not verify

HomeOf == [c \in Callers |-> IF c \in DialCallers THEN dial ELSE listener]

CallsOf == [p \in Peers |-> IF p = dial THEN DialCalls ELSE ListenerCalls]

ServerOf == [w \in Workers |-> IF w \in DialWorkers THEN dial ELSE listener]

WellFormedCalls == {k \in CallNumbers : k[2] \notin Malformed}

RegisteredAt == [p \in Peers |-> Methods \ Unknown]
===========================================================================
