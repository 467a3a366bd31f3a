------------------------------ MODULE AsyncRpc ------------------------------
(***************************************************************************)
(* call_remote() of both peers over a network that may delay, reorder and  *)
(* lose messages but neither duplicates nor invents them, with a remote    *)
(* side reduced to what its callers can see of it: a request is consumed   *)
(* and possibly answered, once.  RpcPeers, which has the workers and the   *)
(* pair0 connection, implements this module.                               *)
(***************************************************************************)
EXTENDS CallRemote

VARIABLES
  net,        \* requests and responses on their way, wherever they are held
  executions  \* how often the registered handler ran for each call

vars == <<callVars, net, executions>>

Init ==
  /\ CallInit
  /\ net = {}
  /\ executions = [k \in CallNumbers |-> 0]

(* nng_sendmsg() takes the request of thread c.                            *)
SendRequest(c) ==
  /\ SendAccepted(c)
  /\ net' = net \cup {RequestOf(c)}
  /\ UNCHANGED executions

(* Mutant: the request is answered and kept, to be answered again.         *)
ServeAndKeep(q, filled) ==
  /\ q.type = "REQUEST"
  /\ net' = net \cup {Response(q, filled)}
  /\ executions' = IF filled THEN [executions EXCEPT ![q.payload.of] = @ + 1]
                              ELSE executions
  /\ UNCHANGED callVars

(* The remote peer answers request q.  The application's handler runs only *)
(* if the argument bytes verify; otherwise the answer is empty.            *)
Serve(q, filled) ==
  /\ q.type = "REQUEST"
  /\ net' = (net \ {q}) \cup {Response(q, filled)}
  /\ executions' = IF filled THEN [executions EXCEPT ![q.payload.of] = @ + 1]
                              ELSE executions
  /\ UNCHANGED callVars

(* Response r reaches the peer that made the call.                         *)
Deliver(r) ==
  /\ r.type = "RESPONSE"
  /\ KeepPromise(r.payload.of[1], r)
  /\ net' = net \ {r}
  /\ UNCHANGED executions

(* Messages disappear: the connection drops, a method is not registered,   *)
(* an answer cannot be sent.                                               *)
Lose(lost) ==
  /\ net' = net \ lost
  /\ UNCHANGED <<callVars, executions>>

Next ==
  \/ \E c \in Callers, m \in Methods :
       BeginCall(c, m) /\ UNCHANGED <<net, executions>>
  \/ \E c \in Callers : LocalStep(c) /\ UNCHANGED <<net, executions>>
  \/ \E c \in Callers : SendRequest(c)
  \/ \E q \in net, filled \in BOOLEAN : Serve(q, filled)
  \/ \E r \in net : Deliver(r)
  \/ \E lost \in SUBSET net : Lose(lost)

Spec == Init /\ [][Next]_vars

-----------------------------------------------------------------------------
TypeOK ==
  /\ CallTypeOK
  /\ net \subseteq (Requests \cup Responses)
  /\ executions \in [CallNumbers -> Nat]

(* The inductive invariant behind TableExact; it needs no assumption about *)
(* the id counter.                                                         *)
TableInv == TypeOK /\ TableExact /\ BuiltUnset

(***************************************************************************)
(* The inductive invariant behind AnswersOwnCall and NeverThrows, for the  *)
(* first IdModulus calls of a peer object: ids identify calls, and a       *)
(* message carries the id and the arguments of one call.                   *)
(***************************************************************************)
NoWrap == \A p \in Peers : MaxCalls[p] <= IdModulus

(* The id handed to call number n.                                         *)
IdOf(n) == IF n < IdModulus THEN n ELSE n - IdModulus

(* The call a message belongs to.                                          *)
Origin(m) == m.payload.of

CallIds ==
  /\ \A p \in Peers : next_request_id[p] = IdOf(calls[p] + 1)
  /\ \A c \in Callers : serial[c] <= calls[Home[c]]
  /\ \A c \in Callers : pc[c] # "idle" => request_id[c] = IdOf(serial[c])
  /\ \A c, d \in Callers :
       pc[c] # "idle" /\ pc[d] # "idle" /\ CallOf(c) = CallOf(d) => c = d

MessageIds ==
  \A m \in net :
    m.id = IdOf(Origin(m)[2]) /\ Origin(m)[2] <= calls[Origin(m)[1]]

Unbroken ==
  \A c \in Callers : Outstanding(c) => future[c] # Broken

OwnInv ==
  /\ TableInv
  /\ CallIds
  /\ MessageIds
  /\ Unbroken
  /\ AnswersOwnCall
  /\ NeverThrows

(* What the refinement of AtMostOnceRpc adds: a call has at most one       *)
(* message at a time, and its handler ran exactly if a filled answer left. *)
OneMessagePerCall ==
  \A m1, m2 \in net : Origin(m1) = Origin(m2) => m1 = m2

ServedOnce ==
  /\ \A k \in CallNumbers :
       /\ executions[k] <= 1
       /\ k[2] > calls[k[1]] => executions[k] = 0
  /\ \A m \in net :
       /\ m.type = "REQUEST" => executions[m.payload.of] = 0
       /\ m.type = "RESPONSE" /\ m.payload.filled
            => executions[m.payload.of] = 1
  /\ \A c \in Callers :
       /\ pc[c] \in {"built", "registered"} =>
            /\ executions[CallOf(c)] = 0
            /\ \A m \in net : Origin(m) # CallOf(c)
       /\ Outstanding(c) /\ future[c] \in Payloads /\ future[c].filled
            => executions[CallOf(c)] = 1

RefinementInv == OwnInv /\ OneMessagePerCall /\ ServedOnce
=============================================================================
