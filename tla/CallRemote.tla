----------------------------- MODULE CallRemote -----------------------------
(***************************************************************************)
(* call_remote() of NngUdsRpcPeerDial and NngUdsRpcPeerListener, whose     *)
(* control flow is the same, and the critical section of recv_cb() that    *)
(* answers a call.  Any number of application threads may be inside        *)
(* call_remote() of a peer; they share the id counter and the table of     *)
(* promises.  Each critical section under pending_mutex is one step, and   *)
(* so is every other shared access: the atomic fetch_add, the hand-over of *)
(* the message to nng_sendmsg and the two ways out of fut.wait_for().      *)
(*                                                                         *)
(* The actions of this module change the variables of this module; the     *)
(* modules that extend it add what happens to the message.                 *)
(***************************************************************************)
EXTENDS RpcMessage

CONSTANTS
  Callers,    \* application threads that call call_remote()
  Home,       \* the peer object whose call_remote() a thread uses
  NoCaller,   \* an id with no entry in pending_requests
  Unset,      \* a future whose promise has not been kept yet
  Broken      \* a future whose promise was destroyed before it was kept

ASSUME CallRemoteAssumption ==
  /\ Methods # {}
  /\ Home \in [Callers -> Peers]
  /\ NoCaller \notin Callers
  /\ Unset \notin Payloads
  /\ Broken \notin Payloads
  /\ Unset # Broken

VARIABLES
  next_request_id,   \* per peer: the atomic counter
  pending_requests,  \* per peer: id -> the thread whose promise is stored
  calls,             \* per peer: calls begun so far (gives calls their numbers)
  pc,                \* per thread: how far it is in call_remote()
  serial,            \* per thread: the number of its current or last call
  request_id,        \* per thread: the local variable id
  method,            \* per thread: the argument method
  future,            \* per thread: the shared state of prom and fut
  result,            \* per thread: what the last call returned, or "none"
  resp_buf           \* per thread: the out-parameter resp_buf

callVars == <<next_request_id, pending_requests, calls, pc, serial,
              request_id, method, future, result, resp_buf>>

Stages == {"idle", "built", "registered", "waiting", "refused", "timed_out"}

CallInit ==
  /\ next_request_id = [p \in Peers |-> 1]
  /\ pending_requests = [p \in Peers |-> [i \in Ids |-> NoCaller]]
  /\ calls = [p \in Peers |-> 0]
  /\ pc = [c \in Callers |-> "idle"]
  /\ serial = [c \in Callers |-> 0]
  /\ request_id = [c \in Callers |-> 0]
  /\ method = [c \in Callers |-> CHOOSE m \in Methods : TRUE]
  /\ future = [c \in Callers |-> Unset]
  /\ result = [c \in Callers |-> "none"]
  /\ resp_buf = [c \in Callers |-> Unset]

-----------------------------------------------------------------------------
(* The call thread c is in, and the message it builds for it.              *)
CallOf(c) == <<Home[c], serial[c]>>

RequestOf(c) == Request(request_id[c], method[c], CallOf(c))

(* Mutants: the counter does not wrap, and it is read but not incremented. *)
NextIdUnbounded(i) == i + 1

NextIdStuck(i) == i

(* fetch_add on a uint32_t.                                                *)
NextId(i) == IF i = IdModulus - 1 THEN 0 ELSE i + 1

(* The promise stored under the id of thread c's call, and what is left of *)
(* the futures when that promise is destroyed without having been kept.    *)
Entry(c) == pending_requests[Home[c]][request_id[c]]

Abandoned(o) ==
  IF o \in Callers THEN [future EXCEPT ![o] = Broken] ELSE future

(* pending_requests after the entry of id i on peer p is set or erased.    *)
Stored(p, i, c) == [pending_requests EXCEPT ![p][i] = c]

(* Mutant: the entry stays.                                                *)
NotErased(p, i) == pending_requests

Erased(p, i) == [pending_requests EXCEPT ![p][i] = NoCaller]

Return(c, r) ==
  /\ pc' = [pc EXCEPT ![c] = "idle"]
  /\ result' = [result EXCEPT ![c] = r]

-----------------------------------------------------------------------------
(* Entry, generate_request_id() and the building of the request.           *)
BeginCall(c, m) ==
  /\ pc[c] = "idle"
  /\ calls[Home[c]] < MaxCalls[Home[c]]
  /\ calls' = [calls EXCEPT ![Home[c]] = @ + 1]
  /\ serial' = [serial EXCEPT ![c] = calls[Home[c]] + 1]
  /\ request_id' = [request_id EXCEPT ![c] = next_request_id[Home[c]]]
  /\ next_request_id' = [next_request_id EXCEPT ![Home[c]] = NextId(@)]
  /\ method' = [method EXCEPT ![c] = m]
  /\ future' = [future EXCEPT ![c] = Unset]
  /\ result' = [result EXCEPT ![c] = "none"]
  /\ resp_buf' = [resp_buf EXCEPT ![c] = Unset]
  /\ pc' = [pc EXCEPT ![c] = "built"]
  /\ UNCHANGED pending_requests

(* nng_msg_alloc() fails.                                                  *)
AllocFails(c) ==
  /\ pc[c] = "built"
  /\ Return(c, "false")
  /\ UNCHANGED <<next_request_id, pending_requests, calls, serial,
                 request_id, method, future, resp_buf>>

(* pending_requests[id] = std::move(prom): an entry already stored under   *)
(* the id is overwritten and its promise destroyed.                        *)
Register(c) ==
  /\ pc[c] = "built"
  /\ pending_requests' = Stored(Home[c], request_id[c], c)
  /\ future' = Abandoned(Entry(c))
  /\ pc' = [pc EXCEPT ![c] = "registered"]
  /\ UNCHANGED <<next_request_id, calls, serial, request_id, method,
                 result, resp_buf>>

(* nng_sendmsg() has accepted the message: the thread waits for the answer. *)
SendAccepted(c) ==
  /\ pc[c] = "registered"
  /\ pc' = [pc EXCEPT ![c] = "waiting"]
  /\ UNCHANGED <<next_request_id, pending_requests, calls, serial,
                 request_id, method, future, result, resp_buf>>

(* Mutant: return false without erasing the entry.                         *)
SendRefusedReturns(c) ==
  /\ pc[c] = "registered"
  /\ Return(c, "false")
  /\ UNCHANGED <<next_request_id, pending_requests, calls, serial,
                 request_id, method, future, resp_buf>>

(* nng_sendmsg() has returned an error.                                    *)
SendRefused(c) ==
  /\ pc[c] = "registered"
  /\ pc' = [pc EXCEPT ![c] = "refused"]
  /\ UNCHANGED <<next_request_id, pending_requests, calls, serial,
                 request_id, method, future, result, resp_buf>>

(* Mutants: fut.wait() in place of fut.wait_for(), and a timeout that does *)
(* not erase the entry.                                                    *)
WaitsForever(c) == FALSE

TimeoutReturns(c) ==
  /\ pc[c] = "waiting"
  /\ future[c] = Unset
  /\ Return(c, "false")
  /\ UNCHANGED <<next_request_id, pending_requests, calls, serial,
                 request_id, method, future, resp_buf>>

(* fut.wait_for() gives up after 3 seconds.  The mutex is not held yet, so *)
(* an answer may still arrive before DropEntry.                            *)
WaitTimesOut(c) ==
  /\ pc[c] = "waiting"
  /\ future[c] = Unset
  /\ pc' = [pc EXCEPT ![c] = "timed_out"]
  /\ UNCHANGED <<next_request_id, pending_requests, calls, serial,
                 request_id, method, future, result, resp_buf>>

(* pending_requests.erase(id) on either error path, then return false.     *)
DropEntry(c) ==
  /\ pc[c] \in {"refused", "timed_out"}
  /\ pending_requests' = Erased(Home[c], request_id[c])
  /\ future' = Abandoned(Entry(c))
  /\ Return(c, "false")
  /\ UNCHANGED <<next_request_id, calls, serial, request_id, method,
                 resp_buf>>

(* fut.wait_for() reports ready; fut.get() throws if the promise was       *)
(* broken, and an empty answer counts as a failed call.                    *)
TakeAnswer(c) ==
  /\ pc[c] = "waiting"
  /\ future[c] # Unset
  /\ \/ /\ future[c] = Broken
        /\ Return(c, "threw")
        /\ UNCHANGED resp_buf
     \/ /\ future[c] # Broken
        /\ ~ future[c].filled
        /\ Return(c, "false")
        /\ UNCHANGED resp_buf
     \/ /\ future[c] # Broken
        /\ future[c].filled
        /\ Return(c, "true")
        /\ resp_buf' = [resp_buf EXCEPT ![c] = future[c]]
  /\ UNCHANGED <<next_request_id, pending_requests, calls, serial,
                 request_id, method, future>>

(* The RESPONSE branch of recv_cb() on peer p: keep the promise stored     *)
(* under the id of response r and erase the entry, or ignore r.            *)
KeepPromise(p, r) ==
  LET o == pending_requests[p][r.id] IN
  /\ \/ /\ o \in Callers
        /\ future' = [future EXCEPT ![o] = r.payload]
        /\ pending_requests' = Erased(p, r.id)
     \/ /\ o = NoCaller
        /\ UNCHANGED <<future, pending_requests>>
  /\ UNCHANGED <<next_request_id, calls, pc, serial, request_id, method,
                 result, resp_buf>>

(* The steps a thread takes on its own once it is inside call_remote().    *)
LocalStep(c) ==
  \/ AllocFails(c)
  \/ Register(c)
  \/ SendRefused(c)
  \/ WaitTimesOut(c)
  \/ DropEntry(c)
  \/ TakeAnswer(c)

-----------------------------------------------------------------------------
CallTypeOK ==
  /\ next_request_id \in [Peers -> Ids]
  /\ pending_requests \in [Peers -> [Ids -> Callers \cup {NoCaller}]]
  /\ calls \in [Peers -> Nat]
  /\ \A p \in Peers : calls[p] <= MaxCalls[p]
  /\ pc \in [Callers -> Stages]
  /\ serial \in [Callers -> Nat]
  /\ \A c \in Callers : serial[c] <= MaxCalls[Home[c]]
  /\ request_id \in [Callers -> Ids]
  /\ method \in [Callers -> Methods]
  /\ future \in [Callers -> Payloads \cup {Unset, Broken}]
  /\ result \in [Callers -> {"none", "true", "false", "threw"}]
  /\ resp_buf \in [Callers -> Payloads \cup {Unset}]
  /\ \A c \in Callers : pc[c] # "idle" => serial[c] # 0

(* A thread between the insertion of its promise and its return.           *)
Outstanding(c) == pc[c] \in {"registered", "waiting", "refused", "timed_out"}

(* The table holds exactly the promises of the outstanding calls that are  *)
(* not answered yet, each under the id of its own call: no error path and  *)
(* no late answer leaks an entry, and none removes the entry of another    *)
(* call (the insertion and the two erase() of call_remote() against the    *)
(* find, set_value and erase of recv_cb()).                                *)
TableExact ==
  \A p \in Peers, i \in Ids, c \in Callers :
    pending_requests[p][i] = c
      <=> /\ Home[c] = p
          /\ request_id[c] = i
          /\ Outstanding(c)
          /\ future[c] = Unset

(* A promise that is not in the table yet is not kept or destroyed either. *)
BuiltUnset ==
  \A c \in Callers : pc[c] = "built" => future[c] = Unset

(* An answer reaches only the call it was computed for, whatever the       *)
(* number of threads, the order of the answers, the timeouts and the late  *)
(* answers: both in the future a thread still looks at and in the buffer   *)
(* it was handed with true.                                                *)
AnswersOwnCall ==
  \A c \in Callers :
    /\ Outstanding(c) /\ future[c] \in Payloads => future[c].of = CallOf(c)
    /\ result[c] = "true" => resp_buf[c].of = CallOf(c)

(* fut.get() never throws: no promise is destroyed while the thread that   *)
(* holds its future waits for it.                                          *)
NeverThrows ==
  \A c \in Callers : result[c] # "threw"
=============================================================================
