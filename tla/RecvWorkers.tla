---------------------------- MODULE RecvWorkers ----------------------------
(***************************************************************************)
(* The aio workers of both peers.  start() arms num_workers aios with      *)
(* nng_recv_aio(); nng runs recv_cb() once for each message it hands to an *)
(* armed aio, and recv_cb() arms the aio again where it ends, on all of    *)
(* its paths but one: a message that does not verify.  The callbacks of    *)
(* different workers run concurrently, and one that answers a request      *)
(* stays in nng_sendmsg() until the answer is accepted.                    *)
(***************************************************************************)
EXTENDS RpcMessage

CONSTANTS
  Workers,     \* the aios of both peers
  Server,      \* the peer an aio belongs to: the member ctx->server
  Registered,  \* per peer: the methods in method_map, fixed after start()
  NoMessage    \* an aio that holds no message

ASSUME WorkersAssumption ==
  /\ Server \in [Workers -> Peers]
  /\ Registered \in [Peers -> SUBSET Methods]
  /\ NoMessage \notin Requests \cup Responses \cup {Garbled}

VARIABLES
  stage,  \* per worker: where its callback is
  held    \* per worker: the message received, then the answer to be sent

workerVars == <<stage, held>>

WorkerStages == {"armed", "called", "nested", "replying", "lost"}

WorkersInit ==
  /\ stage = [w \in Workers |-> "armed"]
  /\ held = [w \in Workers |-> NoMessage]

(* nng_recv_aio() at the end of recv_cb().                                 *)
Rearm(w) ==
  /\ stage' = [stage EXCEPT ![w] = "armed"]
  /\ held' = [held EXCEPT ![w] = NoMessage]

(* recv_cb() is called with message m.                                     *)
Enter(w, m) ==
  /\ stage[w] = "armed"
  /\ stage' = [stage EXCEPT ![w] = "called"]
  /\ held' = [held EXCEPT ![w] = m]

(* VerifyBuffer() fails: recv_cb() returns before nng_msg_free() and       *)
(* before nng_recv_aio(), so this aio never receives again.                *)
RejectMessage(w) ==
  /\ stage[w] = "called"
  /\ ~ Verifies(held[w])
  /\ stage' = [stage EXCEPT ![w] = "lost"]
  /\ UNCHANGED held

(* The dispatch on rpc_msg->type().                                        *)
Handling(w, type) ==
  /\ stage[w] = "called"
  /\ Verifies(held[w])
  /\ held[w].type = type

(* A request for a method nobody registered is dropped without an answer.  *)
IgnoreRequest(w) ==
  /\ Handling(w, "REQUEST")
  /\ held[w].method \notin Registered[Server[w]]
  /\ Rearm(w)

(* Mutant: recv_cb() arms its aio again before the handler has run.        *)
HandlerRearms(w) ==
  /\ Handling(w, "REQUEST")
  /\ held[w].method \in Registered[Server[w]]
  /\ Rearm(w)

(* The application's handler makes a remote call of its own: its worker    *)
(* stays in recv_cb() until that call has returned.                        *)
HandlerCalls(w) ==
  /\ Handling(w, "REQUEST")
  /\ held[w].method \in Registered[Server[w]]
  /\ stage' = [stage EXCEPT ![w] = "nested"]
  /\ UNCHANGED held

(* The registered wrapper runs, to its end.  It fills resp_bin if the      *)
(* argument bytes verify and then the application's handler has run; the   *)
(* answer is sent either way.  If the answer cannot be allocated, which    *)
(* nobody looks at, sending it has the outcomes of a spoilt answer.        *)
RunHandler(w, filled) ==
  /\ Handling(w, "REQUEST") \/ stage[w] = "nested"
  /\ held[w].method \in Registered[Server[w]]
  /\ held' = [held EXCEPT ![w] = Response(held[w], filled)]
  /\ stage' = [stage EXCEPT ![w] = "replying"]

(* Mutant: the aio is armed while the callback still holds its message.    *)
FinishReplyHolding(w) ==
  /\ stage[w] = "replying"
  /\ stage' = [stage EXCEPT ![w] = "armed"]
  /\ UNCHANGED held

(* Mutant: recv_cb() returns after an answer without arming the aio.       *)
FinishReplyUnarmed(w) ==
  /\ stage[w] = "replying"
  /\ stage' = [stage EXCEPT ![w] = "lost"]
  /\ UNCHANGED held

(* nng_sendmsg() of the answer has returned; its result is ignored.        *)
FinishReply(w) ==
  /\ stage[w] = "replying"
  /\ Rearm(w)

(* Mutant: the response stays with the callback and is handled again.      *)
HandleResponseAgain(w) ==
  /\ Handling(w, "RESPONSE")
  /\ UNCHANGED workerVars

(* The RESPONSE branch, whose critical section is KeepPromise.             *)
HandleResponse(w) ==
  /\ Handling(w, "RESPONSE")
  /\ Rearm(w)

WorkersTypeOK ==
  /\ stage \in [Workers -> WorkerStages]
  /\ held \in [Workers -> Requests \cup Responses \cup {Garbled, NoMessage}]
  /\ \A w \in Workers :
       /\ stage[w] = "armed" => held[w] = NoMessage
       /\ stage[w] = "called" => held[w] # NoMessage
       /\ stage[w] = "nested" => held[w] \in Requests
       /\ stage[w] = "replying" => held[w] \in Responses
       /\ stage[w] = "lost" => held[w] = Garbled
=============================================================================
