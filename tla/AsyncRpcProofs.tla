--------------------------- MODULE AsyncRpcProofs ---------------------------
(* Proofs about AsyncRpc, for every number of threads, methods, calls and  *)
(* id values: its invariants, and that it implements AtMostOnceRpc within  *)
(* one turn of the id counter.                                             *)
EXTENDS AtMostOnceRefinement, CallRemoteProofs

(* A step of AsyncRpc is one of CallRemote as far as its variables go.     *)
LEMMA StepIsCallStep ==
  ASSUME TypeOK, [Next]_vars
  PROVE  CallStep
<1>1. ASSUME NEW r \in net, Deliver(r)
      PROVE  CallStep
  <2>1. r \in Responses
    BY <1>1 DEF Deliver, TypeOK, Requests, Responses
  <2>2. r.payload.of[1] \in Peers
    BY <2>1 DEF Responses, Payloads, CallNumbers
  <2>. QED
    BY <1>1, <2>1, <2>2 DEF Deliver, CallStep
<1>. QED
  BY <1>1 DEF Next, vars, SendRequest, Serve, Lose, CallStep

(* The network and the execution counts keep their types as well.          *)
THEOREM TypeCorrect == Spec => []TypeOK
<1>1. Init => TypeOK
  BY CallInitInv DEF Init, TypeOK
<1>2. TypeOK /\ [Next]_vars => TypeOK'
  <2>. SUFFICES ASSUME TypeOK, [Next]_vars
                PROVE  TypeOK'
    OBVIOUS
  <2>1. CallTypeOK'
    BY CallTypeSteps, StepIsCallStep DEF TypeOK
  <2>. USE DEF TypeOK
  <2>2. ASSUME NEW c \in Callers, SendRequest(c)
        PROVE  TypeOK'
    <3>1. RequestOf(c) \in Requests
      BY <2>2, RequestType DEF SendRequest, SendAccepted
    <3>. QED
      BY <2>1, <2>2, <3>1 DEF SendRequest
  <2>3. ASSUME NEW q \in net, NEW filled \in BOOLEAN, Serve(q, filled)
        PROVE  TypeOK'
    <3>1. q \in Requests
      BY <2>3 DEF Serve, Requests, Responses
    <3>2. Response(q, filled) \in Responses /\ q.payload.of \in CallNumbers
      BY <3>1, ResponseType DEF Requests, Payloads
    <3>. QED
      BY <2>1, <2>3, <3>2 DEF Serve
  <2>4. CASE net' \subseteq net /\ UNCHANGED executions
    BY <2>1, <2>4
  <2>. QED
    BY <2>2, <2>3, <2>4 DEF Next, Deliver, Lose, vars
<1>. QED
  BY <1>1, <1>2, PTL DEF Spec

-----------------------------------------------------------------------------
(* The table does not depend on the network.                               *)
LEMMA TableSteps ==
  ASSUME TypeOK, TableExact, BuiltUnset, [Next]_vars
  PROVE  TableExact' /\ BuiltUnset'
BY CallTableSteps, StepIsCallStep DEF TypeOK

(* The table of promises is exact: no path out of call_remote() leaks an   *)
(* entry and none removes the entry of another call, even when the id      *)
(* counter has wrapped and ids are handed out twice.                       *)
THEOREM TableCorrect == Spec => []TableExact
<1>1. Init => TableExact /\ BuiltUnset
  BY CallInitInv DEF Init
<1>2. TypeOK /\ (TableExact /\ BuiltUnset) /\ [Next]_vars
        => (TableExact /\ BuiltUnset)'
  BY TableSteps
<1>. QED
  BY <1>1, <1>2, TypeCorrect, PTL DEF Spec

-----------------------------------------------------------------------------
(* The first IdModulus calls of a peer have different ids.                 *)
LEMMA IdOfInjective ==
  ASSUME NoWrap, NEW p \in Peers,
         NEW m \in 1 .. MaxCalls[p], NEW n \in 1 .. MaxCalls[p],
         IdOf(m) = IdOf(n)
  PROVE  m = n
BY MessageAssumption DEF NoWrap, IdOf

(* The counter passes from the id of a call to that of the next one.       *)
LEMMA NextIdOf ==
  ASSUME NoWrap, NEW p \in Peers, NEW n \in 1 .. MaxCalls[p]
  PROVE  NextId(IdOf(n)) = IdOf(n + 1)
BY MessageAssumption DEF NoWrap, IdOf, NextId

(* The call a message on the network belongs to.                           *)
LEMMA OriginType ==
  ASSUME TypeOK, NEW m \in net
  PROVE  Origin(m) \in CallNumbers /\ m.id \in Ids
BY DEF TypeOK, Origin, Requests, Responses, Payloads

(* Two threads of a peer that are inside call_remote() have different ids. *)
LEMMA IdsDiffer ==
  ASSUME NoWrap, TypeOK, CallIds, NEW c \in Callers, NEW d \in Callers,
         pc[c] # "idle", pc[d] # "idle",
         Home[c] = Home[d], request_id[c] = request_id[d]
  PROVE  c = d
<1>1. /\ Home[c] \in Peers
      /\ serial[c] \in 1 .. MaxCalls[Home[c]]
      /\ serial[d] \in 1 .. MaxCalls[Home[c]]
  BY CallRemoteAssumption, MessageAssumption DEF TypeOK, CallTypeOK
<1>2. serial[c] = serial[d]
  BY <1>1, IdOfInjective DEF CallIds
<1>. QED
  BY <1>2 DEF CallIds, CallOf

(* So the entry under a thread's id is its own or nobody's.                *)
LEMMA OwnEntry ==
  ASSUME NoWrap, TypeOK, CallIds, TableExact, NEW c \in Callers,
         pc[c] # "idle", Entry(c) \in Callers
  PROVE  Entry(c) = c /\ Outstanding(c)
<1>1. Home[c] \in Peers /\ request_id[c] \in Ids
  BY CallRemoteAssumption DEF TypeOK, CallTypeOK
<1>2. /\ Home[Entry(c)] = Home[c]
      /\ request_id[Entry(c)] = request_id[c]
      /\ Outstanding(Entry(c))
  BY <1>1, StoredOutstanding DEF Entry
<1>3. pc[Entry(c)] # "idle"
  BY <1>2 DEF Outstanding
<1>. QED
  BY <1>2, <1>3, IdsDiffer

(* And the thread an answer is handed to is the one it was computed for.   *)
LEMMA OwnAnswer ==
  ASSUME NoWrap, TypeOK, CallIds, MessageIds, TableExact,
         NEW r \in net, r.type = "RESPONSE",
         NEW o \in Callers, pending_requests[r.payload.of[1]][r.id] = o
  PROVE  r.payload.of = CallOf(o)
<1>1. r \in Responses
  BY DEF TypeOK, Requests, Responses
<1>2. /\ r.payload.of \in CallNumbers
      /\ r.payload.of = <<r.payload.of[1], r.payload.of[2]>>
      /\ r.payload.of[1] \in Peers
      /\ r.payload.of[2] \in 1 .. MaxCalls[r.payload.of[1]]
      /\ r.id \in Ids
  BY <1>1 DEF Responses, Payloads, CallNumbers
<1>3. r.id = IdOf(r.payload.of[2])
  BY DEF MessageIds, Origin
<1>4. /\ Home[o] = r.payload.of[1]
      /\ request_id[o] = r.id
      /\ Outstanding(o)
  BY <1>2, StoredOutstanding
<1>5. pc[o] # "idle"
  BY <1>4 DEF Outstanding
<1>6. serial[o] \in 1 .. MaxCalls[Home[o]] /\ request_id[o] = IdOf(serial[o])
  BY <1>5, MessageAssumption DEF TypeOK, CallTypeOK, CallIds
<1>7. serial[o] = r.payload.of[2]
  BY <1>2, <1>3, <1>4, <1>6, IdOfInjective
<1>. QED
  BY <1>2, <1>4, <1>7 DEF CallOf

(* CallIds says how ids are handed out to calls: only a new call disturbs  *)
(* it.                                                                     *)
LEMMA CallIdsSteps ==
  ASSUME NoWrap, TypeOK, CallIds, [Next]_vars
  PROVE  CallIds'
<1>. USE DEF TypeOK, CallTypeOK, CallIds, CallOf
<1>1. ASSUME NEW c \in Callers, NEW m \in Methods, BeginCall(c, m)
      PROVE  CallIds'
  <2>. DEFINE p == Home[c]  n == calls[p] + 1
  <2>1. p \in Peers /\ n \in 1 .. MaxCalls[p]
    <3>1. p \in Peers
      BY CallRemoteAssumption
    <3>2. calls[p] \in Nat /\ calls[p] < MaxCalls[p]
      BY <1>1, <3>1 DEF BeginCall
    <3>. QED
      BY <3>1, <3>2, MessageAssumption
  <2>2. /\ request_id'[c] = IdOf(n)
        /\ serial'[c] = n
        /\ \A d \in Callers \ {c} :
             request_id'[d] = request_id[d] /\ serial'[d] = serial[d]
    BY <1>1, <2>1 DEF BeginCall
  <2>3. /\ next_request_id'[p] = IdOf(n + 1)
        /\ \A q \in Peers \ {p} : next_request_id'[q] = next_request_id[q]
    BY <1>1, <2>1, NextIdOf DEF BeginCall
  <2>4. /\ calls'[p] = n
        /\ \A q \in Peers \ {p} : calls'[q] = calls[q]
    BY <1>1, <2>1 DEF BeginCall
  <2>5. \A d \in Callers \ {c} : pc'[d] = pc[d]
    BY <1>1 DEF BeginCall
  <2>6. \A q \in Peers : next_request_id'[q] = IdOf(calls'[q] + 1)
    BY <2>1, <2>3, <2>4
  <2>7. ASSUME NEW d \in Callers
        PROVE  serial'[d] <= calls'[Home[d]]
    <3>1. Home[d] \in Peers /\ serial[d] \in Nat /\ calls[Home[d]] \in Nat
      BY CallRemoteAssumption
    <3>2. serial[d] <= calls[Home[d]]
      OBVIOUS
    <3>3. calls[Home[d]] <= calls'[Home[d]]
      BY <2>1, <2>4, <3>1
    <3>4. CASE d = c
      BY <2>1, <2>2, <2>4, <3>4
    <3>5. CASE d # c
      <4>1. serial'[d] = serial[d]
        BY <2>2, <3>5
      <4>2. calls'[Home[d]] \in Nat
        BY <2>1, <2>4, <3>1
      <4>. QED
        BY <3>1, <3>2, <3>3, <4>1, <4>2
    <3>. QED
      BY <3>4, <3>5
  <2>8. \A d \in Callers : pc'[d] # "idle" => request_id'[d] = IdOf(serial'[d])
    BY <2>2, <2>5
  <2>9. ASSUME NEW d \in Callers \ {c}, Home[d] = Home[c]
        PROVE  serial'[d] # serial'[c]
    BY <2>1, <2>2, <2>9, MessageAssumption
  <2>10. \A d, e \in Callers :
           pc'[d] # "idle" /\ pc'[e] # "idle"
             /\ <<Home[d], serial'[d]>> = <<Home[e], serial'[e]>> => d = e
    BY <2>2, <2>5, <2>9
  <2>. QED
    BY <2>6, <2>7, <2>8, <2>10
<1>2. ASSUME NEW c \in Callers, AllocFails(c)
      PROVE  CallIds'
  BY <1>2 DEF AllocFails, Return
<1>3. ASSUME NEW c \in Callers, Register(c)
      PROVE  CallIds'
  BY <1>3 DEF Register
<1>4. ASSUME NEW c \in Callers, SendAccepted(c)
      PROVE  CallIds'
  BY <1>4 DEF SendAccepted
<1>5. ASSUME NEW c \in Callers, SendRefused(c)
      PROVE  CallIds'
  BY <1>5 DEF SendRefused
<1>6. ASSUME NEW c \in Callers, WaitTimesOut(c)
      PROVE  CallIds'
  BY <1>6 DEF WaitTimesOut
<1>7. ASSUME NEW c \in Callers, DropEntry(c)
      PROVE  CallIds'
  BY <1>7 DEF DropEntry, Return
<1>8. ASSUME NEW c \in Callers, TakeAnswer(c)
      PROVE  CallIds'
  BY <1>8 DEF TakeAnswer, Return
<1>9. ASSUME NEW r \in net, Deliver(r)
      PROVE  CallIds'
  BY <1>9 DEF Deliver, KeepPromise
<1>10. CASE UNCHANGED callVars
  BY <1>10 DEF callVars
<1>. QED
  BY <1>1, <1>2, <1>3, <1>4, <1>5, <1>6, <1>7, <1>8, <1>9, <1>10
     DEF Next, LocalStep, SendRequest, Serve, Lose, vars

(* A message that is sent carries the id of the call it belongs to.        *)
LEMMA MessageIdsSteps ==
  ASSUME TypeOK, CallIds, MessageIds, [Next]_vars
  PROVE  MessageIds'
<1>1. ASSUME NEW p \in Peers
      PROVE  calls'[p] \in Nat /\ calls[p] \in Nat /\ calls[p] <= calls'[p]
  <2>1. calls \in [Peers -> Nat]
    BY MessageAssumption DEF TypeOK, CallTypeOK
  <2>2. ASSUME NEW c \in Callers, NEW m \in Methods, BeginCall(c, m)
        PROVE  calls' = [calls EXCEPT ![Home[c]] = @ + 1]
    BY <2>2 DEF BeginCall
  <2>3. \/ \E c \in Callers, m \in Methods : BeginCall(c, m)
        \/ UNCHANGED calls
    BY DEF Next, vars, callVars, LocalStep, AllocFails, Register,
           SendRefused, WaitTimesOut, DropEntry, TakeAnswer, SendRequest,
           SendAccepted, Serve, Deliver, KeepPromise, Lose
  <2>. QED
    BY <2>1, <2>2, <2>3, CallRemoteAssumption
<1>2. ASSUME NEW m \in net
      PROVE  /\ Origin(m)[1] \in Peers
             /\ Origin(m)[2] \in Nat
             /\ Origin(m)[2] <= calls'[Origin(m)[1]]
  <2>1. Origin(m)[1] \in Peers /\ Origin(m)[2] \in Nat
    BY OriginType, MessageAssumption DEF CallNumbers
  <2>2. Origin(m)[2] <= calls[Origin(m)[1]]
    BY DEF MessageIds
  <2>. QED
    BY <1>1, <2>1, <2>2
<1>3. CASE net' \subseteq net
  BY <1>2, <1>3 DEF MessageIds
<1>4. ASSUME NEW c \in Callers, SendRequest(c)
      PROVE  MessageIds'
  <2>. DEFINE m == RequestOf(c)
  <2>1. /\ pc[c] = "registered"
        /\ net' = net \cup {m}
        /\ UNCHANGED calls
    BY <1>4 DEF SendRequest, SendAccepted
  <2>2. Origin(m) = CallOf(c) /\ m.id = request_id[c]
    BY DEF Origin, RequestOf, Request
  <2>3. /\ m.id = IdOf(Origin(m)[2])
        /\ Origin(m)[2] <= calls'[Origin(m)[1]]
    BY <2>1, <2>2 DEF CallIds, CallOf
  <2>. QED
    BY <1>2, <2>1, <2>3 DEF MessageIds
<1>5. ASSUME NEW q \in net, NEW filled \in BOOLEAN, Serve(q, filled)
      PROVE  MessageIds'
  <2>. DEFINE m == Response(q, filled)
  <2>1. m.id = q.id /\ Origin(m) = Origin(q)
    BY <1>5 DEF Serve, Response, Origin
  <2>2. net' \subseteq net \cup {m}
    BY <1>5 DEF Serve
  <2>. QED
    BY <1>2, <2>1, <2>2 DEF MessageIds
<1>6. CASE UNCHANGED vars
  BY <1>3, <1>6 DEF vars
<1>7. ASSUME NEW r \in net, Deliver(r)
      PROVE  net' \subseteq net
  BY <1>7 DEF Deliver
<1>8. ASSUME NEW lost \in SUBSET net, Lose(lost)
      PROVE  net' \subseteq net
  BY <1>8 DEF Lose
<1>. QED
  BY <1>3, <1>4, <1>5, <1>6, <1>7, <1>8 DEF Next

(* No promise is destroyed while its thread waits, and no thread is handed *)
(* the answer of another call.                                             *)
LEMMA OwnSteps ==
  ASSUME NoWrap, OwnInv, [Next]_vars
  PROVE  Unbroken' /\ AnswersOwnCall' /\ NeverThrows'
<1>. USE DEF TypeOK, CallTypeOK, Unbroken, AnswersOwnCall, NeverThrows,
             Outstanding, CallOf
<1>0. TypeOK /\ TableExact /\ BuiltUnset /\ CallIds /\ MessageIds
  BY DEF OwnInv, TableInv
<1>1. ASSUME NEW c \in Callers, NEW m \in Methods, BeginCall(c, m)
      PROVE  Unbroken' /\ AnswersOwnCall' /\ NeverThrows'
  BY <1>0, <1>1 DEF OwnInv, BeginCall
<1>2. ASSUME NEW c \in Callers, AllocFails(c)
      PROVE  Unbroken' /\ AnswersOwnCall' /\ NeverThrows'
  BY <1>0, <1>2 DEF OwnInv, AllocFails, Return
<1>3. ASSUME NEW c \in Callers, Register(c)
      PROVE  Unbroken' /\ AnswersOwnCall' /\ NeverThrows'
  <2>1. pc[c] = "built" /\ future[c] = Unset
    BY <1>0, <1>3 DEF Register, BuiltUnset
  <2>2. Entry(c) \notin Callers
    <3>1. ~ Outstanding(c) /\ pc[c] # "idle"
      BY <2>1
    <3>. HIDE DEF Outstanding, TypeOK
    <3>. QED
      BY <1>0, <3>1, OwnEntry
  <2>3. UNCHANGED future
    BY <1>3, <2>2 DEF Register, Abandoned
  <2>. QED
    BY <1>0, <1>3, <2>1, <2>3, CallRemoteAssumption DEF OwnInv, Register
<1>4. ASSUME NEW c \in Callers, SendAccepted(c)
      PROVE  Unbroken' /\ AnswersOwnCall' /\ NeverThrows'
  BY <1>0, <1>4 DEF OwnInv, SendAccepted
<1>5. ASSUME NEW c \in Callers, SendRefused(c)
      PROVE  Unbroken' /\ AnswersOwnCall' /\ NeverThrows'
  BY <1>0, <1>5 DEF OwnInv, SendRefused
<1>6. ASSUME NEW c \in Callers, WaitTimesOut(c)
      PROVE  Unbroken' /\ AnswersOwnCall' /\ NeverThrows'
  BY <1>0, <1>6 DEF OwnInv, WaitTimesOut
<1>7. ASSUME NEW c \in Callers, DropEntry(c)
      PROVE  Unbroken' /\ AnswersOwnCall' /\ NeverThrows'
  <2>1. Entry(c) \in Callers => Entry(c) = c
    <3>1. pc[c] # "idle"
      BY <1>7 DEF DropEntry
    <3>. HIDE DEF Outstanding, TypeOK
    <3>. QED
      BY <1>0, <3>1, OwnEntry
  <2>2. \A d \in Callers \ {c} : future'[d] = future[d]
    BY <1>0, <1>7, <2>1 DEF DropEntry, Abandoned
  <2>3. /\ pc' = [pc EXCEPT ![c] = "idle"]
        /\ result' = [result EXCEPT ![c] = "false"]
        /\ UNCHANGED <<serial, resp_buf>>
    BY <1>7 DEF DropEntry, Return
  <2>. QED
    BY <1>0, <2>2, <2>3 DEF OwnInv
<1>8. ASSUME NEW c \in Callers, TakeAnswer(c)
      PROVE  Unbroken' /\ AnswersOwnCall' /\ NeverThrows'
  BY <1>0, <1>8 DEF OwnInv, TakeAnswer, Return
<1>9. ASSUME NEW r \in net, Deliver(r)
      PROVE  Unbroken' /\ AnswersOwnCall' /\ NeverThrows'
  <2>. DEFINE o == pending_requests[r.payload.of[1]][r.id]
  <2>1. r.type = "RESPONSE" /\ r.payload \in Payloads
    BY <1>0, <1>9 DEF Deliver, Requests, Responses
  <2>2. UNCHANGED <<pc, serial, result, resp_buf>>
    BY <1>9 DEF Deliver, KeepPromise
  <2>3. CASE o \in Callers
    <3>1. future' = [future EXCEPT ![o] = r.payload]
      BY <1>9, <2>3, CallRemoteAssumption DEF Deliver, KeepPromise
    <3>2. r.payload.of = CallOf(o)
      <4>. HIDE DEF TypeOK
      <4>. QED
        BY <1>0, <2>1, <2>3, OwnAnswer
    <3>3. r.payload # Broken
      BY <2>1, CallRemoteAssumption
    <3>. QED
      BY <1>0, <2>2, <2>3, <3>1, <3>2, <3>3 DEF OwnInv
  <2>4. CASE o \notin Callers
    <3>1. UNCHANGED future
      BY <1>9, <2>4 DEF Deliver, KeepPromise
    <3>. QED
      BY <1>0, <2>2, <3>1 DEF OwnInv
  <2>. QED
    BY <2>3, <2>4
<1>10. CASE UNCHANGED callVars
  BY <1>0, <1>10 DEF OwnInv, callVars
<1>. QED
  BY <1>1, <1>2, <1>3, <1>4, <1>5, <1>6, <1>7, <1>8, <1>9, <1>10
     DEF Next, LocalStep, SendRequest, Serve, Lose, vars

(* The invariant as a whole.                                               *)
LEMMA OwnInvariant ==
  ASSUME NoWrap
  PROVE  Spec => []OwnInv
<1>1. Init => OwnInv
  <2>. SUFFICES ASSUME Init PROVE OwnInv
    OBVIOUS
  <2>1. TableInv
    BY CallInitInv DEF Init, TableInv, TypeOK
  <2>2. CallIds
    BY CallRemoteAssumption, MessageAssumption
       DEF Init, CallInit, CallIds, IdOf
  <2>. QED
    BY <2>1, <2>2 DEF Init, CallInit, OwnInv, MessageIds, Unbroken,
                      AnswersOwnCall, NeverThrows, Outstanding
<1>2. OwnInv /\ TypeOK' /\ [Next]_vars => OwnInv'
  <2>. SUFFICES ASSUME OwnInv, TypeOK', [Next]_vars PROVE OwnInv'
    OBVIOUS
  <2>1. TableInv'
    BY TableSteps DEF OwnInv, TableInv
  <2>2. CallIds'
    BY CallIdsSteps DEF OwnInv, TableInv
  <2>3. MessageIds'
    BY MessageIdsSteps DEF OwnInv, TableInv
  <2>. QED
    BY <2>1, <2>2, <2>3, OwnSteps DEF OwnInv
<1>. QED
  BY <1>1, <1>2, TypeCorrect, PTL DEF Spec

(* As long as the uint32_t counter does not wrap within the life of a peer *)
(* object, call_remote() hands a thread no answer but its own, in whatever *)
(* order answers and timeouts come.                                        *)
THEOREM AnswersCorrect ==
  ASSUME NoWrap
  PROVE  Spec => []AnswersOwnCall
<1>1. OwnInv => AnswersOwnCall
  BY DEF OwnInv
<1>. QED
  BY <1>1, OwnInvariant, PTL

(* Under the same condition fut.get() never throws broken_promise out of   *)
(* call_remote().                                                          *)
THEOREM NoBrokenPromise ==
  ASSUME NoWrap
  PROVE  Spec => []NeverThrows
<1>1. OwnInv => NeverThrows
  BY DEF OwnInv
<1>. QED
  BY <1>1, OwnInvariant, PTL

-----------------------------------------------------------------------------
(* The number of a call, and the call of a thread that is inside           *)
(* call_remote().                                                          *)
LEMMA CallNumberType ==
  ASSUME NEW k \in CallNumbers
  PROVE  /\ k[1] \in Peers /\ k[2] \in Nat \ {0}
         /\ k = <<k[1], k[2]>>
         /\ k[2] <= MaxCalls[k[1]]
BY MessageAssumption DEF CallNumbers

LEMMA ThreadCall ==
  ASSUME TypeOK, NEW c \in Callers, pc[c] # "idle"
  PROVE  CallOf(c) \in CallNumbers /\ CallOf(c) # NoCall
BY RequestType, NoCallAssumption DEF TypeOK

(* A message is consumed before the next one of its call is sent.          *)
LEMMA OneMessageSteps ==
  ASSUME TypeOK, OneMessagePerCall, ServedOnce, [Next]_vars
  PROVE  OneMessagePerCall'
<1>. USE DEF OneMessagePerCall
<1>1. CASE net' \subseteq net
  BY <1>1
<1>2. ASSUME NEW c \in Callers, SendRequest(c)
      PROVE  OneMessagePerCall'
  <2>1. net' = net \cup {RequestOf(c)} /\ pc[c] = "registered"
    BY <1>2 DEF SendRequest, SendAccepted
  <2>2. \A m \in net : Origin(m) # CallOf(c)
    BY <2>1 DEF ServedOnce
  <2>3. Origin(RequestOf(c)) = CallOf(c)
    BY DEF Origin, RequestOf, Request
  <2>. QED
    BY <2>1, <2>2, <2>3
<1>3. ASSUME NEW q \in net, NEW filled \in BOOLEAN, Serve(q, filled)
      PROVE  OneMessagePerCall'
  <2>1. net' = (net \ {q}) \cup {Response(q, filled)}
    BY <1>3 DEF Serve
  <2>2. Origin(Response(q, filled)) = Origin(q)
    BY DEF Origin, Response
  <2>. QED
    BY <2>1, <2>2
<1>4. CASE UNCHANGED vars
  BY <1>1, <1>4 DEF vars
<1>. QED
  BY <1>1, <1>2, <1>3, <1>4 DEF Next, Deliver, Lose

(* Only Serve counts an execution, and it consumes the request.            *)
LEMMA ServedOnceSteps ==
  ASSUME NoWrap, RefinementInv, [Next]_vars
  PROVE  ServedOnce'
<1>0. /\ TypeOK /\ TableExact /\ BuiltUnset /\ CallIds /\ MessageIds
      /\ OneMessagePerCall /\ ServedOnce
  BY DEF RefinementInv, OwnInv, TableInv
<1>. USE <1>0
<1>1. ASSUME NEW c \in Callers, NEW m \in Methods,
             BeginCall(c, m), UNCHANGED <<net, executions>>
      PROVE  ServedOnce'
  <2>. DEFINE k == <<Home[c], calls[Home[c]] + 1>>
  <2>1. Home[c] \in Peers /\ calls[Home[c]] \in Nat
    BY CallRemoteAssumption DEF TypeOK, CallTypeOK
  <2>2. /\ calls' = [calls EXCEPT ![Home[c]] = @ + 1]
        /\ serial' = [serial EXCEPT ![c] = calls[Home[c]] + 1]
        /\ pc' = [pc EXCEPT ![c] = "built"]
        /\ future' = [future EXCEPT ![c] = Unset]
    BY <1>1 DEF BeginCall
  <2>3. k \in CallNumbers /\ k[1] = Home[c] /\ k[2] = calls[Home[c]] + 1
    BY <1>1, <2>1, MessageAssumption DEF BeginCall, CallNumbers
  <2>4. executions[k] = 0
    BY <2>1, <2>3 DEF ServedOnce
  <2>5. \A m1 \in net : Origin(m1) # k
    BY <2>1 DEF MessageIds
  <2>6. \A d \in Callers :
          CallOf(d)' = IF d = c THEN k ELSE CallOf(d)
    BY <2>2 DEF CallOf, TypeOK, CallTypeOK
  <2>7. \A p \in Peers : /\ calls[p] \in Nat /\ calls'[p] \in Nat
                           /\ calls[p] <= calls'[p]
    BY <2>1, <2>2 DEF TypeOK, CallTypeOK
  <2>8. \A l \in CallNumbers : l[2] > calls'[l[1]] => executions[l] = 0
    <3>. SUFFICES ASSUME NEW l \in CallNumbers, l[2] > calls'[l[1]]
                  PROVE  l[2] > calls[l[1]]
      BY DEF ServedOnce
    <3>. QED
      BY <2>7, CallNumberType
  <2>9. ASSUME NEW d \in Callers
        PROVE  /\ pc'[d] \in {"built", "registered"} =>
                    /\ executions[CallOf(d)'] = 0
                    /\ \A m1 \in net : Origin(m1) # CallOf(d)'
               /\ /\ Outstanding(d)'
                  /\ future'[d] \in Payloads /\ future'[d].filled
                  => executions[CallOf(d)'] = 1
    <3>1. CASE d = c
      BY <2>2, <2>4, <2>5, <2>6, <3>1
         DEF TypeOK, CallTypeOK, Outstanding
    <3>2. CASE d # c
      BY <2>2, <2>6, <3>2 DEF TypeOK, CallTypeOK, Outstanding, ServedOnce
    <3>. QED
      BY <3>1, <3>2
  <2>. QED
    BY <1>1, <2>8, <2>9 DEF ServedOnce
<1>2. ASSUME NEW c \in Callers, LocalStep(c), UNCHANGED <<net, executions>>
      PROVE  ServedOnce'
  <2>1. UNCHANGED <<calls, serial>>
    BY <1>2 DEF LocalStep, AllocFails, Register, SendRefused, WaitTimesOut,
                DropEntry, TakeAnswer
  <2>2. \A d \in Callers :
          /\ future'[d] \in {future[d], Broken}
          /\ \/ pc'[d] = pc[d]
             \/ pc[d] = "built" /\ pc'[d] = "registered" /\ future[d] = Unset
             \/ pc'[d] = "idle"
             \/ Outstanding(d) /\ pc'[d] \in {"refused", "timed_out"}
    BY <1>2 DEF LocalStep, AllocFails, Register, SendRefused, WaitTimesOut,
                DropEntry, TakeAnswer, Abandoned, Return, TypeOK, CallTypeOK,
                BuiltUnset, Outstanding
  <2>3. \A d \in Callers : CallOf(d)' = CallOf(d)
    BY <2>1 DEF CallOf
  <2>4. Broken \notin Payloads /\ Unset \notin Payloads
    BY CallRemoteAssumption
  <2>. QED
    BY <1>2, <2>1, <2>2, <2>3, <2>4 DEF ServedOnce, Outstanding
<1>3. ASSUME NEW c \in Callers, SendRequest(c)
      PROVE  ServedOnce'
  <2>1. /\ net' = net \cup {RequestOf(c)} /\ pc[c] = "registered"
        /\ pc' = [pc EXCEPT ![c] = "waiting"]
        /\ UNCHANGED <<calls, serial, future, executions>>
    BY <1>3 DEF SendRequest, SendAccepted
  <2>2. /\ Origin(RequestOf(c)) = CallOf(c)
        /\ RequestOf(c).type = "REQUEST"
        /\ RequestOf(c).payload.of = CallOf(c)
    BY DEF Origin, RequestOf, Request
  <2>3. executions[CallOf(c)] = 0
    BY <2>1 DEF ServedOnce
  <2>4. \A d \in Callers : CallOf(d)' = CallOf(d)
    BY <2>1 DEF CallOf
  <2>5. \A d \in Callers \ {c} : pc[d] # "idle" => CallOf(d) # CallOf(c)
    BY <2>1 DEF CallIds
  <2>. QED
    BY <2>1, <2>2, <2>3, <2>4, <2>5
       DEF ServedOnce, Outstanding, TypeOK, CallTypeOK
<1>4. ASSUME NEW q \in net, NEW filled \in BOOLEAN, Serve(q, filled)
      PROVE  ServedOnce'
  <2>. DEFINE k == Origin(q)
  <2>1. /\ net' = (net \ {q}) \cup {Response(q, filled)}
        /\ q.type = "REQUEST"
        /\ UNCHANGED <<calls, serial, pc, future>>
    BY <1>4 DEF Serve, callVars
  <2>2. k \in CallNumbers /\ executions[k] = 0 /\ k[2] <= calls[k[1]]
    BY <2>1, OriginType DEF ServedOnce, MessageIds, Origin
  <2>3. \A l \in CallNumbers :
          executions'[l] = IF filled /\ l = k THEN 1 ELSE executions[l]
    BY <1>4, <2>2 DEF Serve, Origin, TypeOK
  <2>4. /\ Origin(Response(q, filled)) = k
        /\ Response(q, filled).type = "RESPONSE"
        /\ Response(q, filled).payload.filled = filled
    BY DEF Origin, Response
  <2>5. \A m \in net \ {q} : Origin(m) # k
    BY DEF OneMessagePerCall
  <2>6. \A d \in Callers : CallOf(d)' = CallOf(d)
    BY <2>1 DEF CallOf
  <2>7. \A l \in CallNumbers :
          /\ executions'[l] <= 1
          /\ l[2] > calls'[l[1]] => executions'[l] = 0
    BY <2>1, <2>2, <2>3, CallNumberType DEF ServedOnce, TypeOK, CallTypeOK
  <2>8. ASSUME NEW m \in net'
        PROVE  /\ m.type = "REQUEST" => executions'[m.payload.of] = 0
               /\ m.type = "RESPONSE" /\ m.payload.filled
                    => executions'[m.payload.of] = 1
    <3>1. CASE m = Response(q, filled)
      BY <2>2, <2>3, <2>4, <3>1 DEF Origin
    <3>2. CASE m \in net \ {q}
      BY <2>3, <2>5, <3>2, OriginType DEF Origin, ServedOnce
    <3>. QED
      BY <2>1, <3>1, <3>2
  <2>9. ASSUME NEW d \in Callers, pc[d] # "idle"
        PROVE  CallOf(d) \in CallNumbers
    BY <2>9, RequestType DEF TypeOK
  <2>10. ASSUME NEW d \in Callers
         PROVE  /\ pc[d] \in {"built", "registered"} =>
                     /\ executions'[CallOf(d)] = 0
                     /\ \A m \in net' : Origin(m) # CallOf(d)
                /\ /\ Outstanding(d)
                   /\ future[d] \in Payloads /\ future[d].filled
                   => executions'[CallOf(d)] = 1
    BY <2>1, <2>2, <2>3, <2>4, <2>9 DEF ServedOnce, Outstanding
  <2>. QED
    BY <2>1, <2>6, <2>7, <2>8, <2>10 DEF ServedOnce, Outstanding
<1>5. ASSUME NEW r \in net, Deliver(r)
      PROVE  ServedOnce'
  <2>. DEFINE o == pending_requests[r.payload.of[1]][r.id]
  <2>1. /\ r.type = "RESPONSE"
        /\ net' = net \ {r}
        /\ UNCHANGED <<calls, serial, pc, executions>>
    BY <1>5 DEF Deliver, KeepPromise
  <2>2. \A d \in Callers : CallOf(d)' = CallOf(d)
    BY <2>1 DEF CallOf
  <2>3. ASSUME NEW d \in Callers
        PROVE  \/ future'[d] = future[d]
               \/ future'[d] = r.payload /\ r.payload.of = CallOf(d)
    <3>1. CASE o = d
      BY <1>5, <2>1, <3>1, OwnAnswer
         DEF Deliver, KeepPromise, TypeOK, CallTypeOK
    <3>2. CASE o # d
      BY <1>5, <3>2 DEF Deliver, KeepPromise, TypeOK, CallTypeOK
    <3>. QED
      BY <3>1, <3>2
  <2>4. r.payload.filled => executions[r.payload.of] = 1
    BY <2>1 DEF ServedOnce
  <2>. QED
    BY <2>1, <2>2, <2>3, <2>4 DEF ServedOnce, Outstanding
<1>6. ASSUME NEW lost \in SUBSET net, Lose(lost)
      PROVE  ServedOnce'
  BY <1>6 DEF Lose, callVars, ServedOnce, Outstanding, CallOf
<1>7. CASE UNCHANGED vars
  BY <1>7 DEF vars, callVars, ServedOnce, Outstanding, CallOf
<1>. QED
  BY <1>1, <1>2, <1>3, <1>4, <1>5, <1>6, <1>7 DEF Next

(* RefinementInv is inductive.                                             *)
LEMMA RefinementInvariant ==
  ASSUME NoWrap
  PROVE  Spec => []RefinementInv
<1>1. Init => OneMessagePerCall /\ ServedOnce
  BY DEF Init, CallInit, OneMessagePerCall, ServedOnce, Outstanding
<1>2. /\ OwnInv /\ OwnInv' /\ OneMessagePerCall /\ ServedOnce /\ [Next]_vars
      => (OneMessagePerCall /\ ServedOnce)'
  BY OneMessageSteps, ServedOnceSteps DEF RefinementInv, OwnInv, TableInv
<1>3. OwnInv /\ OneMessagePerCall /\ ServedOnce => RefinementInv
  BY DEF RefinementInv
<1>. QED
  BY <1>1, <1>2, <1>3, OwnInvariant, PTL DEF Spec

-----------------------------------------------------------------------------
(* A new peer has promised nothing yet.                                    *)
LEMMA InitPromise == Init => Promise!Init
<1>. SUFFICES ASSUME Init PROVE Promise!Init
  OBVIOUS
<1>1. Begun = {}
  <2>1. \A k \in CallNumbers : ~ (k[2] <= calls[k[1]])
    BY CallNumberType DEF Init, CallInit
  <2>. QED
    BY <2>1 DEF Begun
<1>2. CurrentCall = [c \in Callers |-> NoCall]
  BY DEF CurrentCall, Init, CallInit
<1>3. AnsweredCall = [c \in Callers |-> NoCall]
  BY DEF AnsweredCall, Init, CallInit
<1>. QED
  BY <1>1, <1>2, <1>3 DEF Promise!Init, Init, CallInit

(* What a step that returns from no call and begins none leaves alone.     *)
LEMMA SameCalls ==
  ASSUME TypeOK, UNCHANGED <<calls, serial, resp_buf>>,
         \A c \in Callers : pc'[c] = "idle" <=> pc[c] = "idle"
  PROVE  UNCHANGED <<Begun, CurrentCall, AnsweredCall>>
<1>1. Begun' = Begun
  BY DEF Begun
<1>2. CurrentCall' = CurrentCall
  BY DEF CurrentCall, CallOf
<1>3. AnsweredCall' = AnsweredCall
  BY DEF AnsweredCall
<1>. QED
  BY <1>1, <1>2, <1>3

(* A call that returns without an answer.                                  *)
LEMMA ReturnsFalse ==
  ASSUME TypeOK, NEW c \in Callers, pc[c] # "idle", Return(c, "false"),
         UNCHANGED <<calls, serial, resp_buf, executions>>
  PROVE  Promise!Fail(c)
<1>1. CurrentCall[c] # NoCall
  BY ThreadCall DEF CurrentCall
<1>2. CurrentCall' = [CurrentCall EXCEPT ![c] = NoCall]
  BY DEF CurrentCall, CallOf, Return, TypeOK, CallTypeOK
<1>3. Begun' = Begun /\ AnsweredCall' = AnsweredCall
  BY DEF Begun, AnsweredCall
<1>4. result' = [result EXCEPT ![c] = "false"]
  BY DEF Return
<1>. QED
  BY <1>1, <1>2, <1>3, <1>4 DEF Promise!Fail

(* Entry into call_remote() begins a call that was not made before.        *)
LEMMA BeginsCall ==
  ASSUME TypeOK, TypeOK', NEW c \in Callers, NEW m \in Methods,
         BeginCall(c, m), UNCHANGED executions
  PROVE  \E k \in CallNumbers : Promise!Begin(c, k)
<1>. DEFINE k == <<Home[c], calls[Home[c]] + 1>>
<1>1. Home[c] \in Peers /\ calls[Home[c]] \in Nat
  BY CallRemoteAssumption DEF TypeOK, CallTypeOK
<1>2. /\ calls' = [calls EXCEPT ![Home[c]] = @ + 1]
      /\ serial' = [serial EXCEPT ![c] = calls[Home[c]] + 1]
      /\ pc' = [pc EXCEPT ![c] = "built"]
      /\ resp_buf' = [resp_buf EXCEPT ![c] = Unset]
      /\ result' = [result EXCEPT ![c] = "none"]
      /\ pc[c] = "idle"
  BY DEF BeginCall
<1>3. k \in CallNumbers /\ k[1] = Home[c] /\ k[2] = calls[Home[c]] + 1
  BY <1>1, MessageAssumption DEF BeginCall, CallNumbers
<1>4. Begun' = Begun \cup {k}
  <2>1. ASSUME NEW l \in CallNumbers
        PROVE  l[2] <= calls'[l[1]] <=> l[2] <= calls[l[1]] \/ l = k
    <3>1. /\ l[1] \in Peers /\ l[2] \in Nat /\ l = <<l[1], l[2]>>
          /\ calls[l[1]] \in Nat
      BY CallNumberType DEF TypeOK, CallTypeOK
    <3>2. CASE l[1] = Home[c]
      <4>1. calls'[l[1]] = calls[l[1]] + 1
        BY <1>1, <1>2, <3>2 DEF TypeOK, CallTypeOK
      <4>. QED
        BY <1>3, <3>1, <3>2, <4>1
    <3>3. CASE l[1] # Home[c]
      <4>1. calls'[l[1]] = calls[l[1]]
        BY <1>2, <3>1, <3>3 DEF TypeOK, CallTypeOK
      <4>. QED
        BY <1>3, <3>3, <4>1
    <3>. QED
      BY <3>2, <3>3
  <2>. QED
    BY <1>3, <2>1 DEF Begun
<1>5. k \notin Begun
  BY <1>1, <1>3 DEF Begun
<1>6. CurrentCall[c] = NoCall /\ CurrentCall' = [CurrentCall EXCEPT ![c] = k]
  BY <1>2 DEF CurrentCall, CallOf, TypeOK, CallTypeOK
<1>7. AnsweredCall' = [AnsweredCall EXCEPT ![c] = NoCall]
  BY <1>2 DEF AnsweredCall, TypeOK, CallTypeOK
<1>. QED
  BY <1>2, <1>3, <1>4, <1>5, <1>6, <1>7 DEF Promise!Begin

(* fut.get() hands back the answer to this call, whose handler has run;    *)
(* no step of a thread inside call_remote() does anything else that its    *)
(* caller can see but return false.                                        *)
LEMMA TakesAnswer ==
  ASSUME RefinementInv, NEW c \in Callers, TakeAnswer(c), UNCHANGED executions
  PROVE  Promise!Succeed(c) \/ Promise!Fail(c)
<1>1. TypeOK /\ Unbroken /\ AnswersOwnCall /\ ServedOnce
  BY DEF RefinementInv, OwnInv, TableInv
<1>2. /\ pc[c] = "waiting" /\ Outstanding(c)
      /\ future[c] # Unset /\ future[c] # Broken
      /\ UNCHANGED <<calls, serial>>
  BY <1>1 DEF TakeAnswer, Unbroken, Outstanding
<1>3. future[c] \in Payloads /\ future[c].of = CallOf(c)
  BY <1>1, <1>2 DEF AnswersOwnCall, TypeOK, CallTypeOK
<1>4. CASE ~ future[c].filled
  BY <1>1, <1>2, <1>4, ReturnsFalse DEF TakeAnswer
<1>5. CASE future[c].filled
  <2>1. /\ Return(c, "true")
        /\ resp_buf' = [resp_buf EXCEPT ![c] = future[c]]
    BY <1>2, <1>5 DEF TakeAnswer
  <2>2. CurrentCall[c] = CallOf(c) /\ CurrentCall[c] # NoCall
    BY <1>1, <1>2, ThreadCall DEF CurrentCall
  <2>3. executions[CurrentCall[c]] = 1
    BY <1>1, <1>2, <1>3, <1>5, <2>2 DEF ServedOnce
  <2>4. CurrentCall' = [CurrentCall EXCEPT ![c] = NoCall]
    BY <1>1, <1>2, <2>1 DEF CurrentCall, CallOf, Return, TypeOK, CallTypeOK
  <2>5. AnsweredCall' = [AnsweredCall EXCEPT ![c] = CurrentCall[c]]
    BY <1>1, <1>2, <1>3, <2>1, <2>2 DEF AnsweredCall, TypeOK, CallTypeOK
  <2>6. Begun' = Begun
    BY <1>2 DEF Begun
  <2>. QED
    BY <2>1, <2>2, <2>3, <2>4, <2>5, <2>6 DEF Promise!Succeed, Return
<1>. QED
  BY <1>4, <1>5

(* Every step of AsyncRpc is one of AtMostOnceRpc or none at all.          *)
LEMMA PromiseSteps ==
  ASSUME RefinementInv, TypeOK', [Next]_vars
  PROVE  [Promise!Next]_(Promise!vars)
<1>0. TypeOK /\ ServedOnce /\ MessageIds
  BY DEF RefinementInv, OwnInv, TableInv
<1>. DEFINE Stutter == UNCHANGED Promise!vars
<1>1. ASSUME NEW c \in Callers, NEW m \in Methods,
             BeginCall(c, m), UNCHANGED <<net, executions>>
      PROVE  Promise!Next
  BY <1>0, <1>1, BeginsCall DEF Promise!Next
<1>2. ASSUME NEW c \in Callers, LocalStep(c), UNCHANGED <<net, executions>>
      PROVE  Promise!Next \/ Stutter
  <2>1. CASE AllocFails(c)
    BY <1>0, <1>2, <2>1, ReturnsFalse DEF AllocFails, Promise!Next
  <2>2. CASE Register(c) \/ SendRefused(c) \/ WaitTimesOut(c)
    <3>1. /\ UNCHANGED <<calls, serial, resp_buf, result>>
          /\ \A d \in Callers : pc'[d] = "idle" <=> pc[d] = "idle"
      BY <1>0, <2>2
         DEF Register, SendRefused, WaitTimesOut, TypeOK, CallTypeOK
    <3>. QED
      BY <1>0, <1>2, <3>1, SameCalls DEF Promise!vars
  <2>3. CASE DropEntry(c)
    BY <1>0, <1>2, <2>3, ReturnsFalse DEF DropEntry, Promise!Next
  <2>4. CASE TakeAnswer(c)
    BY <1>2, <2>4, TakesAnswer DEF Promise!Next
  <2>. QED
    BY <1>2, <2>1, <2>2, <2>3, <2>4 DEF LocalStep
<1>3. ASSUME NEW c \in Callers, SendRequest(c)
      PROVE  Stutter
  <2>1. /\ UNCHANGED <<calls, serial, resp_buf, result, executions>>
        /\ \A d \in Callers : pc'[d] = "idle" <=> pc[d] = "idle"
    BY <1>0, <1>3 DEF SendRequest, SendAccepted, TypeOK, CallTypeOK
  <2>. QED
    BY <1>0, <2>1, SameCalls DEF Promise!vars
<1>4. ASSUME NEW q \in net, NEW filled \in BOOLEAN, Serve(q, filled)
      PROVE  Promise!Next \/ Stutter
  <2>1. UNCHANGED <<calls, serial, resp_buf, result, pc>>
    BY <1>4 DEF Serve, callVars
  <2>2. UNCHANGED <<Begun, CurrentCall, AnsweredCall>>
    BY <1>0, <2>1, SameCalls
  <2>3. CASE filled
    <3>1. Origin(q) \in CallNumbers /\ Origin(q) \in Begun
      BY <1>0, OriginType DEF MessageIds, Begun
    <3>2. executions[Origin(q)] = 0
      BY <1>0, <1>4 DEF Serve, ServedOnce, Origin
    <3>3. executions' = [executions EXCEPT ![Origin(q)] = 1]
      BY <1>0, <1>4, <2>3, <3>1, <3>2 DEF Serve, Origin, TypeOK
    <3>. QED
      BY <2>1, <2>2, <3>1, <3>2, <3>3 DEF Promise!Next, Promise!Execute
  <2>4. CASE ~ filled
    BY <1>4, <2>1, <2>2, <2>4 DEF Serve, Promise!vars
  <2>. QED
    BY <2>3, <2>4
<1>5. ASSUME NEW r \in net, Deliver(r)
      PROVE  Stutter
  <2>1. UNCHANGED <<calls, serial, resp_buf, result, pc, executions>>
    BY <1>5 DEF Deliver, KeepPromise
  <2>. QED
    BY <1>0, <2>1, SameCalls DEF Promise!vars
<1>6. ASSUME NEW lost \in SUBSET net, Lose(lost)
      PROVE  Stutter
  <2>1. UNCHANGED <<calls, serial, resp_buf, result, pc, executions>>
    BY <1>6 DEF Lose, callVars
  <2>. QED
    BY <1>0, <2>1, SameCalls DEF Promise!vars
<1>7. CASE UNCHANGED vars
  <2>1. UNCHANGED <<calls, serial, resp_buf, result, pc, executions>>
    BY <1>7 DEF vars, callVars
  <2>. QED
    BY <1>0, <2>1, SameCalls DEF Promise!vars
<1>. QED
  BY <1>1, <1>2, <1>3, <1>4, <1>5, <1>6, <1>7 DEF Next

(* Within one turn of the id counter, what call_remote() promises holds    *)
(* for any number of threads, whatever the network does: a call returns    *)
(* true only with what the remote handler computed for it, and the handler *)
(* of a call runs at most once.                                            *)
THEOREM KeepsPromiseCorrect ==
  ASSUME NoWrap
  PROVE  Spec => KeepsPromise
<1>1. RefinementInv /\ RefinementInv' /\ [Next]_vars
        => [Promise!Next]_(Promise!vars)
  BY PromiseSteps DEF RefinementInv, OwnInv, TableInv
<1>. QED
  BY <1>1, InitPromise, RefinementInvariant, PTL
     DEF Spec, KeepsPromise, Promise!Spec
=============================================================================
