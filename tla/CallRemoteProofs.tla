-------------------------- MODULE CallRemoteProofs --------------------------
(* What the actions of CallRemote preserve, for the modules that extend it *)
(* with what happens to the messages.                                      *)
EXTENDS CallRemote, TLAPS

(* Fields of the messages recv_cb() and call_remote() build.               *)
LEMMA ResponseType ==
  ASSUME NEW q \in Requests, NEW filled \in BOOLEAN
  PROVE  Response(q, filled) \in Responses
BY DEF Requests, Responses, Payloads, Response

(* call_remote() builds well-formed requests from the state of a thread.   *)
LEMMA RequestType ==
  ASSUME CallTypeOK, NEW c \in Callers, pc[c] # "idle"
  PROVE  /\ CallOf(c) \in CallNumbers
         /\ RequestOf(c) \in Requests
<1>1. Home[c] \in Peers /\ serial[c] \in 1 .. MaxCalls[Home[c]]
  BY CallRemoteAssumption, MessageAssumption DEF CallTypeOK
<1>2. CallOf(c) \in CallNumbers
  BY <1>1 DEF CallOf, CallNumbers
<1>. QED
  BY <1>2 DEF Payloads, RequestOf, Request, Requests, CallTypeOK

(* fetch_add stays within the values of a uint32_t.                        *)
LEMMA NextIdType ==
  ASSUME NEW i \in Ids
  PROVE  NextId(i) \in Ids
BY MessageAssumption DEF Ids, NextId

(* Destroying a promise leaves every future of the right type.             *)
LEMMA AbandonedType ==
  ASSUME CallTypeOK, NEW o
  PROVE  Abandoned(o) \in [Callers -> Payloads \cup {Unset, Broken}]
BY DEF Abandoned, CallTypeOK

(* The table after an entry of peer p is set or erased.                    *)
LEMMA StoredType ==
  ASSUME CallTypeOK, NEW p \in Peers, NEW i \in Ids,
         NEW o \in Callers \cup {NoCaller}
  PROVE  [pending_requests EXCEPT ![p][i] = o]
           \in [Peers -> [Ids -> Callers \cup {NoCaller}]]
BY DEF CallTypeOK

(* A step of call_remote(), or the critical section of recv_cb().          *)
CallStep ==
  \/ \E c \in Callers, m \in Methods : BeginCall(c, m)
  \/ \E c \in Callers : LocalStep(c) \/ SendAccepted(c)
  \/ \E p \in Peers, r \in Responses : KeepPromise(p, r)
  \/ UNCHANGED callVars

(* A newly constructed peer has the right types and an exact table.        *)
LEMMA CallInitInv ==
  ASSUME CallInit
  PROVE  CallTypeOK /\ TableExact /\ BuiltUnset
<1>1. (CHOOSE m \in Methods : TRUE) \in Methods
  BY CallRemoteAssumption
<1>2. 0 \in Ids /\ 1 \in Ids
  BY MessageAssumption DEF Ids
<1>3. \A p \in Peers : 0 <= MaxCalls[p]
  BY MessageAssumption
<1>4. CallTypeOK
  BY <1>1, <1>2, <1>3, CallRemoteAssumption DEF CallInit, CallTypeOK, Stages
<1>. QED
  BY <1>4, CallRemoteAssumption
     DEF CallInit, TableExact, BuiltUnset, Outstanding

(* Every variable of call_remote() keeps its type.                         *)
LEMMA CallTypeSteps ==
  ASSUME CallTypeOK, CallStep
  PROVE  CallTypeOK'
<1>. USE DEF CallTypeOK, Stages
<1>1. ASSUME NEW c \in Callers, NEW m \in Methods, BeginCall(c, m)
      PROVE  CallTypeOK'
  <2>1. Home[c] \in Peers
    BY CallRemoteAssumption
  <2>2. /\ calls[Home[c]] + 1 \in Nat
        /\ calls[Home[c]] + 1 <= MaxCalls[Home[c]]
    <3>1. calls[Home[c]] \in Nat /\ MaxCalls[Home[c]] \in Nat
      BY <2>1, MessageAssumption
    <3>2. calls[Home[c]] < MaxCalls[Home[c]]
      BY <1>1 DEF BeginCall
    <3>. QED
      BY <3>1, <3>2
  <2>3. NextId(next_request_id[Home[c]]) \in Ids
    BY <2>1, NextIdType
  <2>. QED
    BY <1>1, <2>1, <2>2, <2>3, MessageAssumption DEF BeginCall
<1>2. ASSUME NEW c \in Callers, AllocFails(c)
      PROVE  CallTypeOK'
  BY <1>2 DEF AllocFails, Return
<1>3. ASSUME NEW c \in Callers, Register(c)
      PROVE  CallTypeOK'
  <2>1. pending_requests' \in [Peers -> [Ids -> Callers \cup {NoCaller}]]
    BY <1>3, StoredType, CallRemoteAssumption DEF Register, Stored
  <2>2. future' \in [Callers -> Payloads \cup {Unset, Broken}]
    BY <1>3, AbandonedType DEF Register
  <2>. QED
    BY <1>3, <2>1, <2>2 DEF Register
<1>4. ASSUME NEW c \in Callers, SendRefused(c)
      PROVE  CallTypeOK'
  BY <1>4 DEF SendRefused
<1>5. ASSUME NEW c \in Callers, WaitTimesOut(c)
      PROVE  CallTypeOK'
  BY <1>5 DEF WaitTimesOut
<1>6. ASSUME NEW c \in Callers, DropEntry(c)
      PROVE  CallTypeOK'
  <2>1. pending_requests' \in [Peers -> [Ids -> Callers \cup {NoCaller}]]
    BY <1>6, StoredType, CallRemoteAssumption DEF DropEntry, Erased
  <2>2. future' \in [Callers -> Payloads \cup {Unset, Broken}]
    BY <1>6, AbandonedType DEF DropEntry
  <2>. QED
    BY <1>6, <2>1, <2>2 DEF DropEntry, Return
<1>7. ASSUME NEW c \in Callers, TakeAnswer(c)
      PROVE  CallTypeOK'
  BY <1>7 DEF TakeAnswer, Return
<1>8. ASSUME NEW c \in Callers, SendAccepted(c)
      PROVE  CallTypeOK'
  BY <1>8 DEF SendAccepted
<1>9. ASSUME NEW p \in Peers, NEW r \in Responses, KeepPromise(p, r)
      PROVE  CallTypeOK'
  <2>1. r.id \in Ids /\ r.payload \in Payloads
    BY DEF Responses
  <2>2. pending_requests' \in [Peers -> [Ids -> Callers \cup {NoCaller}]]
    <3>1. Erased(p, r.id) \in [Peers -> [Ids -> Callers \cup {NoCaller}]]
      BY <2>1, StoredType DEF Erased
    <3>. QED
      BY <1>9, <3>1 DEF KeepPromise
  <2>. QED
    BY <1>9, <2>1, <2>2 DEF KeepPromise
<1>10. CASE UNCHANGED callVars
  BY <1>10 DEF callVars
<1>. QED
  BY <1>1, <1>2, <1>3, <1>4, <1>5, <1>6, <1>7, <1>8, <1>9, <1>10
     DEF CallStep, LocalStep

-----------------------------------------------------------------------------
(* A thread found in the table is outstanding, under its own id.           *)
LEMMA StoredOutstanding ==
  ASSUME TableExact, NEW p \in Peers, NEW i \in Ids, NEW d \in Callers,
         pending_requests[p][i] = d
  PROVE  Home[d] = p /\ request_id[d] = i /\ Outstanding(d) /\ future[d] = Unset
BY DEF TableExact

(* The table stays exact: one case per action.                             *)
LEMMA CallTableSteps ==
  ASSUME CallTypeOK, TableExact, BuiltUnset, CallStep
  PROVE  TableExact' /\ BuiltUnset'
<1>. USE DEF CallTypeOK, TableExact, BuiltUnset, Outstanding
<1>1. ASSUME NEW c \in Callers, NEW m \in Methods, BeginCall(c, m)
      PROVE  TableExact' /\ BuiltUnset'
  BY <1>1 DEF BeginCall
<1>2. ASSUME NEW c \in Callers, AllocFails(c)
      PROVE  TableExact' /\ BuiltUnset'
  BY <1>2 DEF AllocFails, Return
<1>3. ASSUME NEW c \in Callers, Register(c)
      PROVE  TableExact' /\ BuiltUnset'
  <2>1. Home[c] \in Peers /\ request_id[c] \in Ids
    BY CallRemoteAssumption
  <2>2. /\ future[c] = Unset
        /\ \A p \in Peers, i \in Ids : pending_requests[p][i] # c
    <3>1. pc[c] = "built"
      BY <1>3 DEF Register
    <3>2. future[c] = Unset
      BY <3>1
    <3>3. ~ Outstanding(c)
      BY <3>1
    <3>4. ASSUME NEW p \in Peers, NEW i \in Ids
          PROVE  pending_requests[p][i] # c
      <4>. HIDE DEF TableExact, CallTypeOK, Outstanding, BuiltUnset
      <4>. QED
        BY <3>3, StoredOutstanding
    <3>. QED
      BY <3>2, <3>4
  <2>3. \A d \in Callers :
          future'[d] = IF d = Entry(c) THEN Broken ELSE future[d]
    BY <1>3 DEF Register, Abandoned
  <2>4. \A p \in Peers, i \in Ids :
          pending_requests'[p][i] =
            IF p = Home[c] /\ i = request_id[c] THEN c
                                                ELSE pending_requests[p][i]
    BY <1>3, <2>1 DEF Register, Stored
  <2>5. BuiltUnset'
    BY <1>3, <2>1, <2>3 DEF Register, Entry
  <2>6. TableExact'
    BY <1>3, <2>1, <2>2, <2>3, <2>4, CallRemoteAssumption DEF Register, Entry
  <2>. QED
    BY <2>5, <2>6
<1>4. ASSUME NEW c \in Callers, SendAccepted(c)
      PROVE  TableExact' /\ BuiltUnset'
  BY <1>4 DEF SendAccepted
<1>5. ASSUME NEW c \in Callers, SendRefused(c)
      PROVE  TableExact' /\ BuiltUnset'
  BY <1>5 DEF SendRefused
<1>6. ASSUME NEW c \in Callers, WaitTimesOut(c)
      PROVE  TableExact' /\ BuiltUnset'
  BY <1>6 DEF WaitTimesOut
<1>7. ASSUME NEW c \in Callers, DropEntry(c)
      PROVE  TableExact' /\ BuiltUnset'
  <2>1. Home[c] \in Peers /\ request_id[c] \in Ids
    BY CallRemoteAssumption
  <2>2. \A d \in Callers :
          future'[d] = IF d = Entry(c) THEN Broken ELSE future[d]
    BY <1>7 DEF DropEntry, Abandoned
  <2>3. \A p \in Peers, i \in Ids :
          pending_requests'[p][i] =
            IF p = Home[c] /\ i = request_id[c] THEN NoCaller
                                                ELSE pending_requests[p][i]
    BY <1>7, <2>1 DEF DropEntry, Erased
  <2>4. pc' = [pc EXCEPT ![c] = "idle"]
    BY <1>7 DEF DropEntry, Return
  <2>5. BuiltUnset'
    <3>1. Entry(c) \in Callers => Outstanding(Entry(c))
      <4>. HIDE DEF TableExact, CallTypeOK, Outstanding, BuiltUnset
      <4>. QED
        BY <2>1, StoredOutstanding DEF Entry
    <3>. QED
      BY <2>1, <2>2, <2>4, <3>1
  <2>6. TableExact'
    BY <1>7, <2>1, <2>2, <2>3, <2>4, CallRemoteAssumption DEF DropEntry, Entry
  <2>. QED
    BY <2>5, <2>6
<1>8. ASSUME NEW c \in Callers, TakeAnswer(c)
      PROVE  TableExact' /\ BuiltUnset'
  BY <1>8 DEF TakeAnswer, Return
<1>9. ASSUME NEW p \in Peers, NEW r \in Responses, KeepPromise(p, r)
      PROVE  TableExact' /\ BuiltUnset'
  <2>. DEFINE o == pending_requests[p][r.id]
  <2>1. r.id \in Ids /\ r.payload \in Payloads
    BY DEF Responses
  <2>2. CASE o \in Callers
    <3>0. Home[o] = p /\ request_id[o] = r.id /\ Outstanding(o)
      BY <2>1, <2>2, StoredOutstanding
    <3>1. future' = [future EXCEPT ![o] = r.payload]
      BY <1>9, <2>2, CallRemoteAssumption DEF KeepPromise
    <3>2. \A q \in Peers, i \in Ids :
            pending_requests'[q][i] =
              IF q = p /\ i = r.id THEN NoCaller ELSE pending_requests[q][i]
      BY <1>9, <2>1, <2>2, CallRemoteAssumption DEF KeepPromise, Erased
    <3>3. r.payload # Unset
      BY <2>1, CallRemoteAssumption
    <3>4. UNCHANGED <<pc, request_id>>
      BY <1>9 DEF KeepPromise
    <3>5. BuiltUnset'
      BY <3>0, <3>1, <3>4
    <3>6. TableExact'
      BY <2>1, <2>2, <3>0, <3>1, <3>2, <3>3, <3>4, CallRemoteAssumption
    <3>. QED
      BY <3>5, <3>6
  <2>3. CASE o = NoCaller
    BY <1>9, <2>3, CallRemoteAssumption DEF KeepPromise
  <2>. QED
    BY <1>9, <2>2, <2>3 DEF KeepPromise
<1>10. CASE UNCHANGED callVars
  BY <1>10 DEF callVars
<1>. QED
  BY <1>1, <1>2, <1>3, <1>4, <1>5, <1>6, <1>7, <1>8, <1>9, <1>10
     DEF CallStep, LocalStep
=============================================================================
