-------------------------- MODULE MessageOwnership --------------------------
(***************************************************************************)
(* Who has to free an nng_msg.  nng passes a received message to recv_cb() *)
(* and takes over a message nng_sendmsg() accepts; one it refuses stays    *)
(* with the caller.  Messages are memory: one that is freed may be handed  *)
(* out again at once, to another worker or thread.  The module models what *)
(* recv_cb() and call_remote() of one peer object do with their messages;  *)
(* DoubleFree selects the listener's recv_cb(), which frees the answer it  *)
(* has sent, against that of the dialing peer, which never does.           *)
(***************************************************************************)
EXTENDS Naturals

CONSTANTS
  Messages,    \* the memory nng_msg_alloc() hands out
  Workers,     \* aio workers, in recv_cb()
  Threads,     \* application threads, in call_remote()
  DoubleFree,  \* whether recv_cb() frees its answer after nng_sendmsg()
  None         \* no message

Actors == Workers \cup Threads

ASSUME OwnershipAssumption ==
  /\ Workers \cap Threads = {}
  /\ {"nobody", "nng"} \cap Actors = {}
  /\ DoubleFree \in BOOLEAN
  /\ None \notin Messages

VARIABLES
  owner,    \* per message: the actor that must free it, "nng", or "nobody"
  stage,    \* per actor: where its callback or its call is
  msg,      \* per actor: the local variable msg
  rsp_msg,  \* per worker: the local variable nng_rsp_msg
  misused,  \* an actor has freed or sent a message that was not its own
  faulty,   \* messages that were refused or rejected since they were handed out
  unallocated  \* an answer was built though nng_msg_alloc() had failed

vars == <<owner, stage, msg, rsp_msg, misused, faulty, unallocated>>

Init ==
  /\ owner = [m \in Messages |-> "nobody"]
  /\ stage = [a \in Actors |-> "idle"]
  /\ msg = [a \in Actors |-> None]
  /\ rsp_msg = [w \in Workers |-> None]
  /\ misused = FALSE
  /\ faulty = {}
  /\ unallocated = FALSE

GoTo(a, s) == stage' = [stage EXCEPT ![a] = s]

Own(m, a) == owner' = [owner EXCEPT ![m] = a]

(* nng_sendmsg() accepts message m of actor a, or refuses it.              *)
Sent(m, a) ==
  /\ misused' = (misused \/ owner[m] # a)
  /\ \/ Own(m, "nng") /\ UNCHANGED faulty
     \/ faulty' = faulty \cup {m} /\ UNCHANGED owner

-----------------------------------------------------------------------------
(* nng: it frees what it has sent, and completes an aio with a message,    *)
(* which becomes recv_cb()'s (nng_aio_get_msg).                            *)
Transmitted(m) ==
  /\ owner[m] = "nng"
  /\ Own(m, "nobody")
  /\ UNCHANGED <<stage, msg, rsp_msg, misused, faulty, unallocated>>

Deliver(w, m) ==
  /\ stage[w] = "idle"
  /\ owner[m] = "nobody"
  /\ Own(m, w)
  /\ msg' = [msg EXCEPT ![w] = m]
  /\ GoTo(w, "called")
  /\ UNCHANGED <<rsp_msg, misused, faulty, unallocated>>

-----------------------------------------------------------------------------
(* recv_cb(): return on a message that does not verify.                    *)
RejectMessage(w) ==
  /\ stage[w] = "called"
  /\ faulty' = faulty \cup {msg[w]}
  /\ msg' = [msg EXCEPT ![w] = None]
  /\ GoTo(w, "lost")
  /\ UNCHANGED <<owner, rsp_msg, misused, unallocated>>

(* Mutant: the request is freed before the answer is built.                *)
BuildReplyLate(w, m) ==
  /\ stage[w] = "called"
  /\ owner[m] = "nobody"
  /\ owner' = [owner EXCEPT ![m] = w, ![msg[w]] = "nobody"]
  /\ rsp_msg' = [rsp_msg EXCEPT ![w] = m]
  /\ GoTo(w, "replying")
  /\ UNCHANGED <<msg, misused, faulty, unallocated>>

(* A request of a registered method: nng_msg_alloc() of the answer.        *)
BuildReply(w, m) ==
  /\ stage[w] = "called"
  /\ owner[m] = "nobody"
  /\ Own(m, w)
  /\ rsp_msg' = [rsp_msg EXCEPT ![w] = m]
  /\ GoTo(w, "replying")
  /\ UNCHANGED <<msg, misused, faulty, unallocated>>

(* nng_msg_alloc() of the answer fails and recv_cb() goes on with a pointer *)
(* nobody has set: to any message there is, whoever it belongs to.  Other  *)
(* values of the pointer end the process in the memcpy() that follows.     *)
BuildReplyUnallocated(w, m) ==
  /\ stage[w] = "called"
  /\ unallocated' = TRUE
  /\ rsp_msg' = [rsp_msg EXCEPT ![w] = m]
  /\ GoTo(w, "replying")
  /\ UNCHANGED <<owner, msg, misused, faulty>>

(* nng_sendmsg() of the answer; its result is ignored.                     *)
SendReply(w) ==
  /\ stage[w] = "replying"
  /\ Sent(rsp_msg[w], w)
  /\ GoTo(w, "replied")
  /\ UNCHANGED <<msg, rsp_msg, unallocated>>

(* Mutants: the answer is freed as if it were ours, or still pointed to.    *)
LeaveReplyFreed(w) ==
  /\ stage[w] = "replied"
  /\ misused' = (misused \/ owner[rsp_msg[w]] # w)
  /\ Own(rsp_msg[w], "nobody")
  /\ rsp_msg' = [rsp_msg EXCEPT ![w] = None]
  /\ GoTo(w, "done")
  /\ faulty' = faulty \ {rsp_msg[w]}
  /\ UNCHANGED <<msg, unallocated>>

LeaveReplyDangling(w) ==
  /\ stage[w] = "replied"
  /\ GoTo(w, "done")
  /\ UNCHANGED <<owner, msg, rsp_msg, misused, faulty, unallocated>>

(* The listener: nng_msg_free(nng_rsp_msg).  The dialing peer lets the     *)
(* pointer go out of scope.                                                *)
LeaveReply(w) ==
  /\ stage[w] = "replied"
  /\ IF DoubleFree
       THEN /\ misused' = (misused \/ owner[rsp_msg[w]] # w)
            /\ Own(rsp_msg[w], "nobody")
            /\ faulty' = faulty \ {rsp_msg[w]}
       ELSE UNCHANGED <<owner, misused, faulty>>
  /\ rsp_msg' = [rsp_msg EXCEPT ![w] = None]
  /\ GoTo(w, "done")
  /\ UNCHANGED <<msg, unallocated>>

(* Mutant: recv_cb() ends without nng_msg_free(msg).                       *)
ReceivedUnfreed(w) ==
  /\ stage[w] \in {"called", "done"}
  /\ msg' = [msg EXCEPT ![w] = None]
  /\ GoTo(w, "idle")
  /\ UNCHANGED <<owner, rsp_msg, misused, faulty, unallocated>>

(* nng_msg_free(msg) and nng_recv_aio() at the end of recv_cb(), after an  *)
(* answer, a response or a request of an unknown method.                   *)
FreeReceived(w) ==
  /\ stage[w] \in {"called", "done"}
  /\ misused' = (misused \/ owner[msg[w]] # w)
  /\ Own(msg[w], "nobody")
  /\ msg' = [msg EXCEPT ![w] = None]
  /\ GoTo(w, "idle")
  /\ UNCHANGED <<rsp_msg, faulty, unallocated>>

-----------------------------------------------------------------------------
(* call_remote(): nng_msg_alloc(), then nng_sendmsg().                     *)
BuildRequest(t, m) ==
  /\ stage[t] = "idle"
  /\ owner[m] = "nobody"
  /\ Own(m, t)
  /\ msg' = [msg EXCEPT ![t] = m]
  /\ GoTo(t, "sending")
  /\ UNCHANGED <<rsp_msg, misused, faulty, unallocated>>

SendRequest(t) ==
  /\ stage[t] = "sending"
  /\ Sent(msg[t], t)
  /\ msg' = [msg EXCEPT ![t] = None]
  /\ GoTo(t, "idle")
  /\ UNCHANGED <<rsp_msg, unallocated>>

Next ==
  \/ \E m \in Messages :
       \/ Transmitted(m)
       \/ \E w \in Workers :
            Deliver(w, m) \/ BuildReply(w, m) \/ BuildReplyUnallocated(w, m)
       \/ \E t \in Threads : BuildRequest(t, m)
  \/ \E w \in Workers :
       RejectMessage(w) \/ SendReply(w) \/ LeaveReply(w) \/ FreeReceived(w)
  \/ \E t \in Threads : SendRequest(t)

Spec == Init /\ [][Next]_vars

-----------------------------------------------------------------------------
TypeOK ==
  /\ owner \in [Messages -> Actors \cup {"nobody", "nng"}]
  /\ stage \in [Actors -> {"idle", "called", "replying", "replied", "done",
                           "sending", "lost"}]
  /\ msg \in [Actors -> Messages \cup {None}]
  /\ rsp_msg \in [Workers -> Messages \cup {None}]
  /\ misused \in BOOLEAN
  /\ faulty \subseteq Messages
  /\ unallocated \in BOOLEAN
  /\ \A w \in Workers :
       rsp_msg[w] # None <=> stage[w] \in {"replying", "replied"}

(* What an actor still has a pointer to.                                   *)
Held(a) ==
  {msg[a]} \cup (IF a \in Workers THEN {rsp_msg[a]} ELSE {})

(* Nobody frees, or hands to nng, a message that belongs to nng, to        *)
(* another worker or to another thread, however memory is reused meanwhile,*)
(* as long as every answer gets the memory it asks for.                    *)
FreesOnlyOwn == misused => unallocated

Leaked(m) == \E a \in Actors : owner[m] = a /\ m \notin Held(a)

(* Every message recv_cb() or call_remote() has to free is one it can      *)
(* still free: none is leaked.                                             *)
NoLeak == \A m \in Messages : ~ Leaked(m)

(* What is leaked are the messages nng_sendmsg() has refused and those     *)
(* that did not verify; no ordinary path of recv_cb() or call_remote()     *)
(* leaks one, whatever else is going on, until an answer is written to a   *)
(* message that was not allocated for it.                                  *)
OnlyFaultsLeak ==
  \A m \in Messages : Leaked(m) => m \in faulty \/ unallocated

(* What an actor points to is its own, so that no two actors use the same  *)
(* memory.  There are two exceptions.  An answer that nng_sendmsg() took   *)
(* is nng's, or already someone else's, while recv_cb() still has the      *)
(* pointer; and after a failed allocation of an answer nothing is certain. *)
NoSharing ==
  unallocated \/
    \A a \in Actors : \A m \in Held(a) \ {None} :
      \/ owner[m] = a
      \/ stage[a] = "replied" /\ m = rsp_msg[a]

-----------------------------------------------------------------------------
(* The inductive invariant behind FreesOnlyOwn, OnlyFaultsLeak and         *)
(* NoSharing.  Pointers: msg is set exactly while recv_cb() or             *)
(* call_remote() is at work.                                               *)
Pointers ==
  /\ \A a \in Actors : msg[a] # None <=> stage[a] \notin {"idle", "lost"}
  /\ \A w \in Workers : stage[w] # "sending"
  /\ \A t \in Threads : stage[t] \in {"idle", "sending"}

(* What a pointer points to belongs to its actor; the answer is a message  *)
(* of its own, and nng may have it once nng_sendmsg() has returned.        *)
Owned ==
  /\ \A a \in Actors : msg[a] # None => owner[msg[a]] = a
  /\ \A w \in Workers :
       /\ stage[w] = "replying" => owner[rsp_msg[w]] = w
       /\ rsp_msg[w] # None => rsp_msg[w] # msg[w]

(* An answer that is still the worker's after nng_sendmsg() was refused.   *)
RefusedKept ==
  \A w \in Workers :
    stage[w] = "replied" /\ owner[rsp_msg[w]] = w => rsp_msg[w] \in faulty

OwnershipInv ==
  /\ TypeOK
  /\ Pointers
  /\ FreesOnlyOwn
  /\ OnlyFaultsLeak
  /\ unallocated \/ (Owned /\ RefusedKept)
=============================================================================
