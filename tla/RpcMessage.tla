----------------------------- MODULE RpcMessage -----------------------------
(***************************************************************************)
(* The message both peers exchange (include/rpc_generated.h): a type, a    *)
(* uint32_t id, a method name and a payload.  Payload bytes are abstracted *)
(* to what the correlation of answers with calls can tell apart: for which *)
(* call they were built - a call is named by the peer that made it and the *)
(* number of the call on that peer - and whether there are any: a response *)
(* is empty when the remote handler left resp_bin empty.                   *)
(***************************************************************************)
EXTENDS Naturals

CONSTANTS
  Peers,      \* the two endpoints of the pair0 connection
  Methods,    \* method names
  IdModulus,  \* how many values a request id has: 2^32 in the code
  MaxCalls    \* bound, per peer: how many calls are made on it

ASSUME MessageAssumption ==
  /\ IdModulus \in Nat \ {0, 1}
  /\ MaxCalls \in [Peers -> Nat]

Ids == 0 .. IdModulus - 1

CallNumbers == UNION {{p} \X (1 .. MaxCalls[p]) : p \in Peers}

Payloads == [of : CallNumbers, filled : BOOLEAN]

Requests ==
  [type : {"REQUEST"}, id : Ids, method : Methods, payload : Payloads]

Responses ==
  [type : {"RESPONSE"}, id : Ids, method : Methods, payload : Payloads]

(* CreateRpcMessage, as call_remote calls it: the arguments of call k.     *)
Request(i, m, k) ==
  [type |-> "REQUEST", id |-> i, method |-> m,
   payload |-> [of |-> k, filled |-> TRUE]]

(* Mutant: the answer carries the id after that of the request.            *)
ResponseWithNextId(q, filled) ==
  [type |-> "RESPONSE", id |-> (q.id + 1) % IdModulus, method |-> q.method,
   payload |-> [of |-> q.payload.of, filled |-> filled]]

(* CreateRpcMessage, as recv_cb calls it to answer request q: the id and   *)
(* the method are copied from the request.                                 *)
Response(q, filled) ==
  [type |-> "RESPONSE", id |-> q.id, method |-> q.method,
   payload |-> [of |-> q.payload.of, filled |-> filled]]

(* Bytes that VerifyBuffer<rpc::RpcMessage> rejects.                       *)
Garbled == [type |-> "GARBLED"]

Verifies(m) == m.type # "GARBLED"
=============================================================================
