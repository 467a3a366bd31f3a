--------------------------- MODULE RpcPeersProofs ---------------------------
(* Proofs about RpcPeers: two peers with any number of threads, workers,   *)
(* methods, calls and id values, any capacity of the connection and any    *)
(* number of crashes and lost connections.                                 *)
EXTENDS RpcPeers, CallRemoteProofs, Integers

(* Whatever is received, held or sent.                                     *)
Messages == Requests \cup Responses \cup {Garbled}

LEMMA MessageKinds ==
  /\ \A m \in Requests : m.type = "REQUEST"
  /\ \A m \in Responses : m.type = "RESPONSE"
  /\ Garbled.type = "GARBLED"
  /\ Garbled \notin Requests \cup Responses
  /\ NoMessage \notin Messages
<1>1. /\ \A m \in Requests : m.type = "REQUEST"
      /\ \A m \in Responses : m.type = "RESPONSE"
      /\ Garbled.type = "GARBLED"
  BY DEF Requests, Responses, Garbled
<1>. QED
  BY <1>1, WorkersAssumption DEF Messages

(* There are two peers.                                                    *)
LEMMA OtherPeer ==
  ASSUME NEW p \in Peers
  PROVE  /\ Other(p) \in Peers
         /\ Other(p) # p
         /\ Other(Other(p)) = p
         /\ \A q \in Peers : q = p \/ q = Other(p)
<1>1. PICK a, b \in Peers : a # b /\ Peers = {a, b}
  BY LinkAssumption
<1>2. \A q \in Peers : Other(q) \in Peers /\ Other(q) # q
  BY <1>1 DEF Other
<1>. QED
  BY <1>1, <1>2

(* What a step does to the messages in the connection.                     *)
LinkTypeOK ==
  /\ link \in [Peers -> Seq(Messages)]
  /\ \A p \in Peers : Len(link[p]) <= Capacity

LEMMA Transmitted ==
  ASSUME LinkTypeOK, NEW p \in Peers, NEW m \in Messages, Transmit(p, m)
  PROVE  /\ LinkTypeOK'
         /\ InLink(Other(p))' = InLink(Other(p)) \cup {m}
         /\ \A q \in Peers \ {Other(p)} : InLink(q)' = InLink(q)
<1>. DEFINE o == Other(p)
<1>1. o \in Peers /\ Len(link[o]) < Capacity
  BY OtherPeer DEF Transmit, CanTransmit
<1>2. link' = [link EXCEPT ![o] = Append(link[o], m)]
  BY DEF Transmit
<1>3. /\ link'[o] = Append(link[o], m)
      /\ \A q \in Peers \ {o} : link'[q] = link[q]
  BY <1>1, <1>2 DEF LinkTypeOK
<1>. HIDE DEF o
<1>4. link[o] \in Seq(Messages)
  BY <1>1 DEF LinkTypeOK
<1>5. /\ Append(link[o], m) \in Seq(Messages)
      /\ Len(Append(link[o], m)) = Len(link[o]) + 1
  BY <1>4
<1>6. LinkTypeOK'
  <2>1. link' \in [Peers -> Seq(Messages)]
    BY <1>1, <1>2, <1>5 DEF LinkTypeOK
  <2>2. Len(link[o]) \in Nat /\ Capacity \in Nat
    BY <1>4, LinkAssumption
  <2>3. ASSUME NEW q \in Peers
        PROVE  Len(link'[q]) <= Capacity
    BY <1>1, <1>3, <1>5, <2>2 DEF LinkTypeOK
  <2>. QED
    BY <2>1, <2>3 DEF LinkTypeOK
<1>7. {Append(link[o], m)[i] : i \in DOMAIN Append(link[o], m)}
        = {link[o][i] : i \in DOMAIN link[o]} \cup {m}
  <2>. DEFINE s == link[o]  t == Append(s, m)  n == Len(s)
  <2>1. /\ n \in Nat /\ DOMAIN s = 1 .. n /\ DOMAIN t = 1 .. n + 1
        /\ t[n + 1] = m
        /\ \A i \in 1 .. n : t[i] = s[i]
    BY <1>4
  <2>. HIDE DEF s, t, n
  <2>2. \A i \in 1 .. n + 1 : i = n + 1 \/ i \in 1 .. n
    BY <2>1
  <2>3. n + 1 \in 1 .. n + 1 /\ \A i \in 1 .. n : i \in 1 .. n + 1
    BY <2>1
  <2>4. {t[i] : i \in DOMAIN t} = {s[i] : i \in DOMAIN s} \cup {m}
    BY <2>1, <2>2, <2>3
  <2>. QED
    BY <2>4 DEF s, t
<1>8. InLink(o)' = InLink(o) \cup {m}
  BY <1>3, <1>7 DEF InLink
<1>9. \A q \in Peers \ {o} : InLink(q)' = InLink(q)
  BY <1>3 DEF InLink
<1>. QED
  BY <1>6, <1>8, <1>9 DEF o

LEMMA Taken ==
  ASSUME LinkTypeOK, NEW p \in Peers, TakeNext(p)
  PROVE  /\ LinkTypeOK'
         /\ Head(link[p]) \in InLink(p) /\ Head(link[p]) \in Messages
         /\ \A q \in Peers : InLink(q)' \subseteq InLink(q)
<1>1. /\ link[p] \in Seq(Messages) /\ link[p] # <<>>
      /\ link' = [link EXCEPT ![p] = Tail(link[p])]
  BY DEF TakeNext, LinkTypeOK
<1>2. /\ Tail(link[p]) \in Seq(Messages)
      /\ Len(Tail(link[p])) = Len(link[p]) - 1
      /\ \A i \in 1 .. Len(link[p]) - 1 : Tail(link[p])[i] = link[p][i + 1]
      /\ Len(link[p]) \in Nat \ {0}
  BY <1>1
<1>3. Head(link[p]) \in InLink(p) /\ Head(link[p]) \in Messages
  BY <1>1, <1>2 DEF InLink
<1>4. LinkTypeOK'
  BY <1>1, <1>2, LinkAssumption DEF LinkTypeOK
<1>5. ASSUME NEW q \in Peers
      PROVE  InLink(q)' \subseteq InLink(q)
  <2>1. CASE q = p
    <3>1. link'[q] = Tail(link[p])
      BY <1>1, <2>1 DEF LinkTypeOK
    <3>2. \A i \in DOMAIN Tail(link[p]) :
            /\ i + 1 \in DOMAIN link[p]
            /\ Tail(link[p])[i] = link[p][i + 1]
      BY <1>1, <1>2
    <3>. QED
      BY <2>1, <3>1, <3>2 DEF InLink
  <2>2. CASE q # p
    BY <1>1, <2>2 DEF LinkTypeOK, InLink
  <2>. QED
    BY <2>1, <2>2
<1>. QED
  BY <1>3, <1>4, <1>5

LEMMA Remained ==
  ASSUME LinkTypeOK, link' \in Remainders
  PROVE  /\ LinkTypeOK'
         /\ \A q \in Peers : InLink(q)' \subseteq InLink(q)
<1>1. PICK n \in [Peers -> 0 .. Capacity] :
        /\ \A p \in Peers : n[p] <= Len(link[p])
        /\ link' = [p \in Peers |-> SubSeq(link[p], 1, n[p])]
  BY DEF Remainders
<1>2. ASSUME NEW p \in Peers
      PROVE  /\ link'[p] \in Seq(Messages)
             /\ Len(link'[p]) = n[p]
             /\ \A i \in 1 .. n[p] : link'[p][i] = link[p][i]
             /\ n[p] \in Nat /\ n[p] <= Capacity
             /\ n[p] <= Len(link[p]) /\ link[p] \in Seq(Messages)
  <2>1. link[p] \in Seq(Messages) /\ n[p] \in 0 .. Len(link[p])
    BY <1>1, LinkAssumption DEF LinkTypeOK
  <2>2. link'[p] = SubSeq(link[p], 1, n[p])
    BY <1>1
  <2>3. n[p] \in Nat /\ n[p] <= Capacity
    BY <1>1, LinkAssumption
  <2>. QED
    BY <2>1, <2>2, <2>3
<1>3. LinkTypeOK'
  BY <1>1, <1>2 DEF LinkTypeOK
<1>4. ASSUME NEW q \in Peers
      PROVE  InLink(q)' \subseteq InLink(q)
  <2>1. \A i \in DOMAIN link'[q] :
          i \in DOMAIN link[q] /\ link'[q][i] = link[q][i]
    BY <1>2
  <2>. QED
    BY <2>1 DEF InLink
<1>. QED
  BY <1>3, <1>4

-----------------------------------------------------------------------------
(* The message a worker handles, by where its callback is.                 *)
LEMMA HeldKinds ==
  ASSUME TypeOK, NEW w \in Workers
  PROVE  /\ Server[w] \in Peers
         /\ Handling(w, "REQUEST") => held[w] \in Requests
         /\ Handling(w, "RESPONSE") => held[w] \in Responses
         /\ stage[w] = "called" /\ ~ Verifies(held[w]) => held[w] = Garbled
         /\ held[w] \in Messages \cup {NoMessage}
BY MessageKinds, WorkersAssumption
   DEF TypeOK, WorkersTypeOK, Handling, Verifies, Messages

(* The parts of TypeOK.                                                    *)
CountsTypeOK ==
  /\ connected \in BOOLEAN
  /\ executions \in [CallNumbers -> Nat]
  /\ garbled \in 0 .. MaxGarbled
  /\ crashes \in 0 .. MaxCrashes

BornTypeOK ==
  /\ born \in [Peers -> Nat]
  /\ \A p \in Peers : born[p] <= calls[p]
  /\ idOf \in [CallNumbers -> Ids]

LEMMA TypeParts ==
  TypeOK <=> /\ CallTypeOK /\ WorkersTypeOK /\ LinkTypeOK
             /\ CountsTypeOK /\ BornTypeOK
BY DEF TypeOK, LinkTypeOK, CountsTypeOK, BornTypeOK, Messages

(* Everything but a crash is a step of CallRemote.                         *)
LEMMA StepKinds ==
  ASSUME TypeOK, [Next]_vars
  PROVE  CallStep \/ \E p \in Peers : Crash(p)
<1>1. ASSUME NEW w \in Workers, KeepAnswer(w)
      PROVE  CallStep
  BY <1>1, HeldKinds DEF KeepAnswer, HandleResponse, CallStep
<1>2. ASSUME NEW w \in Workers,
             Receive(w) \/ Reject(w) \/ Ignore(w) \/ Serve(w) \/ SendReply(w)
               \/ ReplyRefused(w)
      PROVE  UNCHANGED callVars
  BY <1>2 DEF Receive, Reject, Ignore, Serve, SendReply, Reply, ReplySpoilt,
              ReplyRefused
<1>3. ASSUME NEW c \in Callers, NEW m \in Methods, Call(c, m)
      PROVE  CallStep
  BY <1>3 DEF Call, CallStep
<1>4. ASSUME NEW w \in Callers \cap Workers, NEW m \in Methods,
             NestedCall(w, m)
      PROVE  CallStep
  BY <1>4 DEF NestedCall, CallStep
<1>5. ASSUME NEW c \in Callers, Local(c) \/ SendRequest(c)
      PROVE  CallStep
  BY <1>5 DEF Local, SendRequest, CallStep
<1>6. CASE LinkLost \/ LinkBack \/ UNCHANGED vars
  BY <1>6 DEF LinkLost, LinkBack, vars, CallStep
<1>. QED
  BY <1>1, <1>2, <1>3, <1>4, <1>5, <1>6 DEF Next, Handle, CallStep

(* What a crash of peer p leaves of the calls.                             *)
LEMMA CrashTypes ==
  ASSUME CallTypeOK, NEW p \in Peers, Crash(p)
  PROVE  CallTypeOK'
<1>1. 1 \in Ids
  BY MessageAssumption DEF Ids
<1>2. next_request_id' \in [Peers -> Ids]
  BY <1>1 DEF Crash, CallTypeOK
<1>3. pending_requests' \in [Peers -> [Ids -> Callers \cup {NoCaller}]]
  <2>1. [i \in Ids |-> NoCaller] \in [Ids -> Callers \cup {NoCaller}]
    OBVIOUS
  <2>. QED
    BY <2>1 DEF Crash, CallTypeOK
<1>4. /\ pc' \in [Callers -> Stages]
      /\ \A c \in Callers : pc'[c] # "idle" => pc[c] # "idle"
  BY DEF Crash, CallTypeOK, Stages
<1>5. result' \in [Callers -> {"none", "true", "false", "threw"}]
  BY DEF Crash, CallTypeOK
<1>6. UNCHANGED <<calls, serial, request_id, method, future, resp_buf>>
  BY DEF Crash
<1>. QED
  BY <1>2, <1>3, <1>4, <1>5, <1>6 DEF CallTypeOK

(* Workers hold what their stage says.                                     *)
LEMMA WorkerSteps ==
  ASSUME TypeOK, [Next]_vars
  PROVE  WorkersTypeOK'
<1>. USE DEF WorkersTypeOK, WorkerStages
<1>0. WorkersTypeOK
  BY DEF TypeOK
<1>1. ASSUME NEW w \in Workers, Receive(w)
      PROVE  WorkersTypeOK'
  <2>1. Head(link[Server[w]]) \in Messages
    BY <1>1, HeldKinds, TypeParts, Taken DEF Receive
  <2>. QED
    BY <1>0, <1>1, <2>1, MessageKinds DEF Receive, Enter, Messages
<1>2. ASSUME NEW w \in Workers, Reject(w)
      PROVE  WorkersTypeOK'
  BY <1>0, <1>2, HeldKinds DEF Reject, RejectMessage
<1>3. ASSUME NEW w \in Workers, Rearm(w)
      PROVE  WorkersTypeOK'
  BY <1>0, <1>3 DEF Rearm
<1>4. ASSUME NEW w \in Workers, Serve(w)
      PROVE  WorkersTypeOK'
  <2>1. held[w] \in Requests
    BY <1>0, <1>4, HeldKinds DEF Serve, RunHandler
  <2>2. Response(held[w], held[w].payload.of \in WellFormed) \in Responses
    <3>. DEFINE filled == held[w].payload.of \in WellFormed
    <3>1. filled \in BOOLEAN
      OBVIOUS
    <3>. HIDE DEF filled
    <3>2. Response(held[w], filled) \in Responses
      BY <2>1, <3>1, ResponseType
    <3>. QED
      BY <3>2 DEF filled
  <2>. QED
    BY <1>0, <1>4, <2>2 DEF Serve, RunHandler
<1>5. ASSUME NEW w \in Callers \cap Workers, HandlerCalls(w)
      PROVE  WorkersTypeOK'
  BY <1>0, <1>5, HeldKinds DEF HandlerCalls
<1>6. ASSUME NEW p \in Peers, Crash(p)
      PROVE  WorkersTypeOK'
  BY <1>0, <1>6 DEF Crash
<1>7. CASE UNCHANGED workerVars
  BY <1>0, <1>7 DEF workerVars
<1>. QED
  BY <1>1, <1>2, <1>3, <1>4, <1>5, <1>6, <1>7
     DEF Next, Handle, SendReply, Ignore, IgnoreRequest, KeepAnswer,
         HandleResponse, Reply, ReplySpoilt, ReplyRefused, FinishReply, Call,
         NestedCall, Local, SendRequest, LinkLost, LinkBack, vars

(* The connection carries only messages, and no more than it has room for. *)
LEMMA LinkSteps ==
  ASSUME TypeOK, [Next]_vars
  PROVE  LinkTypeOK'
<1>0. LinkTypeOK
  BY TypeParts
<1>1. ASSUME NEW c \in Callers, SendRequest(c)
      PROVE  LinkTypeOK'
  <2>1. RequestOf(c) \in Messages /\ Home[c] \in Peers
    BY <1>1, RequestType, CallRemoteAssumption
       DEF SendRequest, SendAccepted, TypeOK, Messages
  <2>. QED
    BY <1>0, <1>1, <2>1, Transmitted DEF SendRequest
<1>2. ASSUME NEW w \in Workers, Receive(w)
      PROVE  LinkTypeOK'
  BY <1>0, <1>2, HeldKinds, Taken DEF Receive
<1>3. ASSUME NEW w \in Workers, SendReply(w)
      PROVE  LinkTypeOK'
  <2>1. Server[w] \in Peers /\ held[w] \in Messages /\ Garbled \in Messages
    BY <1>3, HeldKinds
       DEF SendReply, Reply, ReplySpoilt, FinishReply, TypeOK, WorkersTypeOK,
           Messages
  <2>. QED
    BY <1>0, <1>3, <2>1, Transmitted DEF SendReply, Reply, ReplySpoilt
<1>4. CASE LinkLost
  BY <1>0, <1>4, Remained DEF LinkLost, Disconnect
<1>5. ASSUME NEW p \in Peers, Crash(p)
      PROVE  LinkTypeOK'
  BY <1>0, <1>5, Remained DEF Crash
<1>6. CASE UNCHANGED link
  BY <1>0, <1>6 DEF LinkTypeOK
<1>. QED
  BY <1>1, <1>2, <1>3, <1>4, <1>5, <1>6
     DEF Next, Handle, Reject, Ignore, Serve, KeepAnswer, ReplyRefused, Call,
         NestedCall, Local, LinkBack, Reconnect, linkVars, vars

LEMMA CountSteps ==
  ASSUME TypeOK, [Next]_vars
  PROVE  CountsTypeOK'
<1>0. CountsTypeOK
  BY TypeParts
<1>. USE PeersAssumption DEF CountsTypeOK
<1>1. ASSUME NEW w \in Workers, Serve(w)
      PROVE  CountsTypeOK'
  <2>1. held[w] \in Requests
    BY <1>1, HeldKinds DEF Serve, RunHandler, TypeOK, WorkersTypeOK
  <2>2. held[w].payload.of \in CallNumbers
    BY <2>1 DEF Requests, Payloads
  <2>. QED
    BY <1>0, <1>1, <2>2 DEF Serve, linkVars
<1>2. ASSUME NEW w \in Workers, ReplySpoilt(w)
      PROVE  CountsTypeOK'
  <2>1. garbled' \in 0 .. MaxGarbled
    BY <1>0, <1>2 DEF ReplySpoilt
  <2>2. UNCHANGED connected /\ UNCHANGED executions /\ UNCHANGED crashes
    BY <1>2 DEF ReplySpoilt, Transmit
  <2>3. connected' \in BOOLEAN
    BY <1>0, <2>2, Zenon
  <2>4. executions' \in [CallNumbers -> Nat] /\ crashes' \in 0 .. MaxCrashes
    BY <1>0, <2>2
  <2>. QED
    BY <2>1, <2>3, <2>4, Zenon
<1>3. ASSUME NEW p \in Peers, Crash(p)
      PROVE  CountsTypeOK'
  <2>1. crashes' \in 0 .. MaxCrashes
    BY <1>0, <1>3 DEF Crash
  <2>2. connected' \in BOOLEAN
    BY <1>3, Zenon DEF Crash
  <2>3. executions' \in [CallNumbers -> Nat] /\ garbled' \in 0 .. MaxGarbled
    BY <1>0, <1>3 DEF Crash
  <2>. QED
    BY <2>1, <2>2, <2>3, Zenon
<1>4. CASE LinkLost \/ LinkBack
  BY <1>0, <1>4 DEF LinkLost, LinkBack, Disconnect, Reconnect, countVars
<1>5. CASE UNCHANGED <<connected, executions, garbled, crashes>>
  BY <1>0, <1>5
<1>. QED
  BY <1>1, <1>2, <1>3, <1>4, <1>5
     DEF Next, Handle, Reject, Ignore, KeepAnswer, SendReply, Reply, Receive,
         ReplyRefused, Call, NestedCall, Local, SendRequest, TakeNext,
         Transmit, linkVars, countVars, vars

(* Calls are only ever added.                                              *)
LEMMA CallsGrow ==
  ASSUME TypeOK, [Next]_vars
  PROVE  \A p \in Peers : /\ calls[p] \in Nat /\ calls'[p] \in Nat
                          /\ calls[p] <= calls'[p]
<1>0. calls \in [Peers -> Nat]
  BY MessageAssumption DEF TypeOK, CallTypeOK
<1>1. ASSUME NEW c \in Callers, NEW m \in Methods, BeginCall(c, m)
      PROVE  calls' = [calls EXCEPT ![Home[c]] = @ + 1]
  BY <1>1 DEF BeginCall
<1>2. \/ \E c \in Callers, m \in Methods : BeginCall(c, m)
      \/ UNCHANGED calls
  BY StepKinds
     DEF CallStep, callVars, LocalStep, AllocFails, Register, SendRefused,
         WaitTimesOut, DropEntry, TakeAnswer, SendAccepted, KeepPromise, Crash
<1>. QED
  BY <1>0, <1>1, <1>2, CallRemoteAssumption

(* Ids are given to calls as these begin, and each is given only once.     *)
LEMMA IdOfSteps ==
  ASSUME TypeOK, [Next]_vars
  PROVE  \/ UNCHANGED <<idOf, calls>>
         \/ \E p \in Peers :
              /\ <<p, calls[p] + 1>> \in CallNumbers
              /\ calls' = [calls EXCEPT ![p] = @ + 1]
              /\ idOf' = [idOf EXCEPT ![<<p, calls[p] + 1>>]
                                        = next_request_id[p]]
<1>1. ASSUME NEW c \in Callers, NEW m \in Methods, BeginCall(c, m), GivesId(c)
      PROVE  \E p \in Peers :
              /\ <<p, calls[p] + 1>> \in CallNumbers
              /\ calls' = [calls EXCEPT ![p] = @ + 1]
              /\ idOf' = [idOf EXCEPT ![<<p, calls[p] + 1>>]
                                        = next_request_id[p]]
  <2>1. /\ Home[c] \in Peers
        /\ calls[Home[c]] \in Nat /\ MaxCalls[Home[c]] \in Nat
        /\ calls[Home[c]] < MaxCalls[Home[c]]
    BY <1>1, MessageAssumption, CallRemoteAssumption
       DEF BeginCall, TypeOK, CallTypeOK
  <2>2. calls[Home[c]] + 1 \in 1 .. MaxCalls[Home[c]]
    BY <2>1
  <2>3. <<Home[c], calls[Home[c]] + 1>> \in CallNumbers
    BY <2>1, <2>2 DEF CallNumbers
  <2>. QED
    BY <1>1, <2>1, <2>3 DEF BeginCall, GivesId
<1>2. CASE \E c \in Callers, m \in Methods : BeginCall(c, m) /\ GivesId(c)
  BY <1>1, <1>2
<1>3. ASSUME NEW c \in Callers, LocalStep(c) \/ SendAccepted(c)
      PROVE  UNCHANGED calls
  BY <1>3 DEF LocalStep, AllocFails, Register, SendRefused, WaitTimesOut,
              DropEntry, TakeAnswer, SendAccepted
<1>4. CASE UNCHANGED <<idOf, calls>>
  BY <1>4
<1>. QED
  BY <1>2, <1>3, <1>4
     DEF Next, Handle, Reject, Ignore, Serve, KeepAnswer, KeepPromise,
         SendReply, Reply, ReplySpoilt, ReplyRefused, Receive, Call,
         NestedCall, Local, SendRequest, LinkLost, LinkBack, Crash,
         callVars, countVars, vars

LEMMA IdOfKept ==
  ASSUME TypeOK, [Next]_vars, NEW k \in CallNumbers, k[2] <= calls[k[1]]
  PROVE  idOf'[k] = idOf[k]
<1>1. calls \in [Peers -> Nat] /\ idOf \in [CallNumbers -> Ids]
  BY DEF TypeOK, CallTypeOK
<1>2. ASSUME NEW p \in Peers
      PROVE  <<p, calls[p] + 1>> # k
  BY <1>1
<1>. QED
  BY <1>1, <1>2, IdOfSteps

LEMMA IdOfGiven ==
  ASSUME TypeOK, [Next]_vars, NEW p \in Peers, calls'[p] = calls[p] + 1
  PROVE  idOf'[<<p, calls[p] + 1>>] = next_request_id[p]
<1>1. /\ calls \in [Peers -> Nat] /\ idOf \in [CallNumbers -> Ids]
      /\ calls[p] + 1 # calls[p]
  BY DEF TypeOK, CallTypeOK
<1>. QED
  BY <1>1, IdOfSteps

LEMMA BornSteps ==
  ASSUME TypeOK, [Next]_vars
  PROVE  BornTypeOK'
<1>. DEFINE BornOK == /\ born \in [Peers -> Nat]
                      /\ \A p \in Peers : born[p] <= calls[p]
<1>0. BornOK
  BY DEF TypeOK
<1>1. ASSUME NEW p \in Peers, Crash(p)
      PROVE  BornOK'
  <2>1. UNCHANGED calls /\ born' = [born EXCEPT ![p] = calls[p]]
    BY <1>1 DEF Crash
  <2>2. \A q \in Peers : calls[q] \in Nat
    BY CallsGrow
  <2>. QED
    BY <1>0, <2>1, <2>2
<1>2. ASSUME UNCHANGED born
      PROVE  BornOK'
  BY <1>0, <1>2, CallsGrow
<1>3. \/ UNCHANGED born
      \/ \E p \in Peers : Crash(p)
  BY DEF Next, Handle, Reject, Ignore, Serve, KeepAnswer, SendReply, Reply,
         ReplySpoilt, ReplyRefused, Receive, Call, NestedCall, Local,
         SendRequest, LinkLost, LinkBack, countVars, vars
<1>4. idOf' \in [CallNumbers -> Ids]
  <2>1. next_request_id \in [Peers -> Ids] /\ idOf \in [CallNumbers -> Ids]
    BY DEF TypeOK, CallTypeOK
  <2>. QED
    BY <2>1, IdOfSteps
<1>. QED
  BY <1>1, <1>2, <1>3, <1>4 DEF BornTypeOK

LEMMA TypeSteps ==
  ASSUME TypeOK, [Next]_vars
  PROVE  TypeOK'
<1>1. CallTypeOK'
  BY StepKinds, CallTypeSteps, CrashTypes DEF TypeOK
<1>. QED
  BY <1>1, WorkerSteps, LinkSteps, CountSteps, BornSteps
     DEF TypeOK, LinkTypeOK, CountsTypeOK, BornTypeOK, Messages

LEMMA InitTypeOK == Init => TypeOK
<1>. SUFFICES ASSUME Init PROVE TypeOK
  OBVIOUS
<1>1. CallTypeOK
  BY CallInitInv DEF Init
<1>2. WorkersTypeOK
  BY DEF Init, WorkersInit, WorkersTypeOK, WorkerStages
<1>3. LinkTypeOK
  <2>1. <<>> \in Seq(Messages) /\ Len(<<>>) = 0
    OBVIOUS
  <2>. QED
    BY <2>1, LinkAssumption DEF Init, LinkInit, LinkTypeOK
<1>4. CountsTypeOK
  <2>1. 0 \in 0 .. MaxGarbled /\ 0 \in 0 .. MaxCrashes /\ 0 \in Nat
    BY PeersAssumption
  <2>2. executions \in [CallNumbers -> Nat]
    BY DEF Init
  <2>3. garbled \in 0 .. MaxGarbled /\ crashes \in 0 .. MaxCrashes
    BY <2>1 DEF Init
  <2>4. connected \in BOOLEAN
    BY Zenon DEF Init, LinkInit
  <2>. QED
    BY <2>2, <2>3, <2>4, Zenon DEF CountsTypeOK
<1>5. BornTypeOK
  <2>1. born = [p \in Peers |-> 0]
    BY DEF Init
  <2>2. \A p \in Peers : calls[p] \in Nat
    BY <1>1 DEF CallTypeOK
  <2>3. idOf = [k \in CallNumbers |-> 0] /\ 0 \in Ids
    BY MessageAssumption DEF Init, Ids
  <2>. QED
    BY <2>1, <2>2, <2>3 DEF BornTypeOK
<1>. QED
  BY <1>1, <1>2, <1>3, <1>4, <1>5, TypeParts

(* Both peers, their workers and the connection keep their types, through  *)
(* crashes, restarts and spoilt answers.                                   *)
THEOREM PeersTypes == Spec => []TypeOK
BY InitTypeOK, TypeSteps, PTL DEF Spec

-----------------------------------------------------------------------------
(* A restarted peer has an empty table and no thread inside a call.        *)
LEMMA CrashTable ==
  ASSUME CallTypeOK, TableExact, BuiltUnset, NEW p \in Peers, Crash(p)
  PROVE  TableExact' /\ BuiltUnset'
<1>1. /\ \A c \in Callers :
           pc'[c] = IF Home[c] = p THEN "idle" ELSE pc[c]
      /\ UNCHANGED request_id /\ UNCHANGED future
  BY DEF Crash
<1>2. \A q \in Peers, i \in Ids :
        pending_requests'[q][i] =
          IF q = p THEN NoCaller ELSE pending_requests[q][i]
  BY DEF Crash, CallTypeOK
<1>3. \A c \in Callers : c # NoCaller
  BY CallRemoteAssumption
<1>4. BuiltUnset'
  BY <1>1 DEF BuiltUnset
<1>5. TableExact'
  BY <1>1, <1>2, <1>3 DEF TableExact, Outstanding
<1>. QED
  BY <1>4, <1>5

LEMMA TableSteps ==
  ASSUME TypeOK, TableExact, BuiltUnset, [Next]_vars
  PROVE  TableExact' /\ BuiltUnset'
BY StepKinds, CallTableSteps, CrashTable DEF TypeOK

(* The table of either peer holds exactly the promises of its calls that   *)
(* are outstanding and unanswered, across crashes and restarts of both.    *)
THEOREM PeersTable == Spec => []TableExact
<1>1. Init => TypeOK /\ TableExact /\ BuiltUnset
  BY InitTypeOK, CallInitInv DEF Init
<1>2. (TypeOK /\ TableExact /\ BuiltUnset) /\ [Next]_vars
        => (TypeOK /\ TableExact /\ BuiltUnset)'
  BY TypeSteps, TableSteps
<1>. QED
  BY <1>1, <1>2, PTL DEF Spec

-----------------------------------------------------------------------------
(* Where messages come from.                                               *)
LEMMA WhatIsSent ==
  ASSUME TypeOK, [Next]_vars, NEW q \in Peers, NEW m \in InLink(q)'
  PROVE  \/ m \in InLink(q)
         \/ \E c \in Callers :
              SendRequest(c) /\ q = Other(Home[c]) /\ m = RequestOf(c)
         \/ \E w \in Workers :
              Reply(w) /\ q = Other(Server[w]) /\ m = held[w]
         \/ m = Garbled /\ garbled' = garbled + 1
<1>0. LinkTypeOK
  BY TypeParts
<1>1. ASSUME NEW c \in Callers, SendRequest(c)
      PROVE  m \in InLink(q) \/ (q = Other(Home[c]) /\ m = RequestOf(c))
  <2>1. RequestOf(c) \in Messages /\ Home[c] \in Peers
    BY <1>1, RequestType, CallRemoteAssumption
       DEF SendRequest, SendAccepted, TypeOK, Messages
  <2>2. /\ InLink(Other(Home[c]))' = InLink(Other(Home[c])) \cup {RequestOf(c)}
        /\ \A r \in Peers \ {Other(Home[c])} : InLink(r)' = InLink(r)
    BY <1>0, <1>1, <2>1, Transmitted DEF SendRequest
  <2>. QED
    BY <2>2
<1>2. ASSUME NEW w \in Workers, Receive(w)
      PROVE  m \in InLink(q)
  BY <1>0, <1>2, HeldKinds, Taken DEF Receive
<1>3. ASSUME NEW w \in Workers, Reply(w)
      PROVE  m \in InLink(q) \/ (q = Other(Server[w]) /\ m = held[w])
  <2>1. Server[w] \in Peers /\ held[w] \in Messages
    BY <1>3, HeldKinds
       DEF Reply, FinishReply, TypeOK, WorkersTypeOK, Messages
  <2>2. /\ InLink(Other(Server[w]))' = InLink(Other(Server[w])) \cup {held[w]}
        /\ \A r \in Peers \ {Other(Server[w])} : InLink(r)' = InLink(r)
    BY <1>0, <1>3, <2>1, Transmitted DEF Reply
  <2>. QED
    BY <2>2
<1>4. ASSUME NEW w \in Workers, ReplySpoilt(w)
      PROVE  m \in InLink(q) \/ (m = Garbled /\ garbled' = garbled + 1)
  <2>1. Server[w] \in Peers /\ Garbled \in Messages
    BY HeldKinds DEF Messages
  <2>. QED
    BY <1>0, <1>4, <2>1, Transmitted DEF ReplySpoilt
<1>5. CASE LinkLost
  BY <1>0, <1>5, Remained DEF LinkLost, Disconnect
<1>6. ASSUME NEW p \in Peers, Crash(p)
      PROVE  m \in InLink(q)
  BY <1>0, <1>6, Remained DEF Crash
<1>7. CASE UNCHANGED link
  BY <1>7 DEF InLink
<1>. QED
  BY <1>1, <1>2, <1>3, <1>4, <1>5, <1>6, <1>7
     DEF Next, Handle, SendReply, Reject, Ignore, Serve, KeepAnswer,
         ReplyRefused, Call, NestedCall, Local, LinkBack, Reconnect,
         linkVars, vars

LEMMA WhatIsHeld ==
  ASSUME TypeOK, [Next]_vars, NEW w \in Workers
  PROVE  \/ held'[w] = NoMessage
         \/ /\ held'[w] = held[w]
            /\ stage'[w] = "replying" <=> stage[w] = "replying"
         \/ /\ held'[w] \in InLink(Server[w])
            /\ stage'[w] = "called"
         \/ /\ stage[w] # "replying" /\ stage'[w] = "replying"
            /\ held[w] \in Requests
            /\ \E filled \in BOOLEAN : held'[w] = Response(held[w], filled)
<1>0. WorkersTypeOK /\ LinkTypeOK
  BY TypeParts
<1>. USE DEF WorkersTypeOK
<1>1. ASSUME NEW v \in Workers, Receive(v)
      PROVE  \/ /\ held'[w] = held[w]
                /\ stage'[w] = stage[w]
             \/ /\ held'[w] \in InLink(Server[w])
                /\ stage'[w] = "called"
  <2>1. Head(link[Server[v]]) \in InLink(Server[v])
    BY <1>0, <1>1, HeldKinds, Taken DEF Receive
  <2>. QED
    BY <1>0, <1>1, <2>1 DEF Receive, Enter
<1>2. ASSUME NEW v \in Workers, Rearm(v)
      PROVE  \/ held'[w] = NoMessage
             \/ held'[w] = held[w] /\ stage'[w] = stage[w]
  BY <1>0, <1>2 DEF Rearm
<1>3. ASSUME NEW v \in Workers, Serve(v)
      PROVE  \/ held'[w] = held[w] /\ stage'[w] = stage[w]
             \/ /\ stage[w] # "replying" /\ stage'[w] = "replying"
                /\ held[w] \in Requests
                /\ \E filled \in BOOLEAN : held'[w] = Response(held[w], filled)
  <2>. DEFINE filled == held[v].payload.of \in WellFormed
  <2>1. /\ held' = [held EXCEPT ![v] = Response(held[v], filled)]
        /\ stage' = [stage EXCEPT ![v] = "replying"]
        /\ stage[v] # "replying"
        /\ held[v] \in Requests
    BY <1>0, <1>3, HeldKinds DEF Serve, RunHandler, Handling
  <2>2. filled \in BOOLEAN
    OBVIOUS
  <2>. HIDE DEF filled
  <2>. QED
    BY <1>0, <2>1, <2>2
<1>4. ASSUME NEW v \in Workers,
             RejectMessage(v) \/ HandlerCalls(v)
      PROVE  /\ held'[w] = held[w]
             /\ stage'[w] = "replying" <=> stage[w] = "replying"
  BY <1>0, <1>4 DEF RejectMessage, HandlerCalls, Handling
<1>5. ASSUME NEW p \in Peers, Crash(p)
      PROVE  \/ held'[w] = NoMessage
             \/ held'[w] = held[w] /\ stage'[w] = stage[w]
  BY <1>0, <1>5 DEF Crash
<1>6. CASE UNCHANGED workerVars
  BY <1>6 DEF workerVars
<1>. QED
  BY <1>1, <1>2, <1>3, <1>4, <1>5, <1>6
     DEF Next, Handle, SendReply, Ignore, IgnoreRequest, KeepAnswer,
         HandleResponse, Reject, Reply, ReplySpoilt, ReplyRefused, FinishReply,
         Call, NestedCall, Local, SendRequest, LinkLost, LinkBack, vars

-----------------------------------------------------------------------------
(* What a message says of its call stays true while the call numbers grow. *)
LEMMA GarbledGrows ==
  ASSUME TypeOK, [Next]_vars
  PROVE  garbled \in Nat /\ garbled' \in Nat /\ garbled <= garbled'
<1>1. garbled \in Nat
  BY PeersAssumption DEF TypeOK
<1>2. garbled' = garbled \/ garbled' = garbled + 1
  BY DEF Next, Handle, SendReply, Reject, Ignore, Serve, KeepAnswer, Reply,
         ReplySpoilt, ReplyRefused, Receive, Call, NestedCall, Local,
         SendRequest, LinkLost, LinkBack, Crash, countVars, vars
<1>. QED
  BY <1>1, <1>2

LEMMA CallOfMessage ==
  ASSUME NEW m \in Requests \cup Responses
  PROVE  /\ m.payload.of[1] \in Peers
         /\ m.payload.of[2] \in Nat \ {0}
         /\ m.id \in Ids
<1>1. m.payload.of \in CallNumbers /\ m.id \in Ids
  BY DEF Requests, Responses, Payloads
<1>. QED
  BY <1>1, MessageAssumption DEF CallNumbers

LEMMA AddressedGrows ==
  ASSUME TypeOK, [Next]_vars, NEW m, NEW p, Addressed(m, p)
  PROVE  Addressed(m, p)'
<1>1. m \in Requests \cup Responses
        => m.payload.of[2] <= calls'[m.payload.of[1]]
  BY CallsGrow, CallOfMessage DEF Addressed
<1>2. m = Garbled => garbled' > 0
  BY GarbledGrows DEF Addressed
<1>. QED
  BY <1>1, <1>2 DEF Addressed

(* No thread's call has a number its peer has not reached.                 *)
LEMMA SerialSteps ==
  ASSUME TypeOK, [Next]_vars, \A c \in Callers : serial[c] <= calls[Home[c]]
  PROVE  \A c \in Callers : serial'[c] <= calls'[Home[c]]
<1>1. ASSUME NEW d \in Callers, NEW m \in Methods, BeginCall(d, m)
      PROVE  \A c \in Callers : serial'[c] <= calls'[Home[c]]
  <2>1. /\ calls' = [calls EXCEPT ![Home[d]] = @ + 1]
        /\ serial' = [serial EXCEPT ![d] = calls[Home[d]] + 1]
    BY <1>1 DEF BeginCall
  <2>2. /\ calls \in [Peers -> Nat] /\ serial \in [Callers -> Nat]
        /\ \A c \in Callers : Home[c] \in Peers
    BY CallRemoteAssumption DEF TypeOK, CallTypeOK
  <2>. QED
    BY <2>1, <2>2
<1>2. CASE UNCHANGED <<serial, calls>>
  BY <1>2
<1>. QED
  BY <1>1, <1>2, StepKinds
     DEF CallStep, callVars, LocalStep, AllocFails, Register, SendRefused,
         WaitTimesOut, DropEntry, TakeAnswer, SendAccepted, KeepPromise, Crash

(* A request goes from the peer that makes the call, its answer goes back. *)
LEMMA DirectedSteps ==
  ASSUME TypeOK, Directed, [Next]_vars
  PROVE  Directed'
<1>1. \A c \in Callers : serial'[c] <= calls'[Home[c]]
  BY SerialSteps DEF Directed
<1>2. ASSUME NEW q \in Peers, NEW m \in InLink(q)'
      PROVE  Addressed(m, q)'
  <2>1. CASE m \in InLink(q)
    BY <2>1, AddressedGrows DEF Directed
  <2>2. ASSUME NEW c \in Callers, SendRequest(c), q = Other(Home[c]),
               m = RequestOf(c)
        PROVE  Addressed(m, q)'
    <3>1. /\ pc[c] # "idle" /\ Home[c] \in Peers
          /\ serial[c] <= calls[Home[c]]
      BY <2>2, CallRemoteAssumption DEF SendRequest, SendAccepted, Directed
    <3>2. RequestOf(c) \in Requests
      BY <3>1, RequestType DEF TypeOK
    <3>3. RequestOf(c).payload.of = <<Home[c], serial[c]>>
      BY DEF RequestOf, Request, CallOf
    <3>4. Addressed(m, q)
      BY <2>2, <3>1, <3>2, <3>3, MessageKinds, OtherPeer DEF Addressed
    <3>. QED
      BY <3>4, AddressedGrows
  <2>3. ASSUME NEW w \in Workers, Reply(w), q = Other(Server[w]), m = held[w]
        PROVE  Addressed(m, q)'
    <3>1. Addressed(m, q)
      BY <2>3 DEF Reply, FinishReply, Directed
    <3>. QED
      BY <3>1, AddressedGrows
  <2>4. ASSUME m = Garbled, garbled' = garbled + 1
        PROVE  Addressed(m, q)'
    <3>1. garbled' > 0
      BY <2>4, GarbledGrows
    <3>. QED
      BY <2>4, <3>1, MessageKinds DEF Addressed
  <2>. QED
    BY <2>1, <2>2, <2>3, <2>4, WhatIsSent
<1>3. ASSUME NEW w \in Workers
      PROVE  Addressed(held[w], IF stage[w] = "replying"
                                  THEN Other(Server[w]) ELSE Server[w])'
  <2>0. Server[w] \in Peers
    BY HeldKinds
  <2>1. CASE held'[w] = NoMessage
    BY <2>1, MessageKinds DEF Addressed, Messages
  <2>2. ASSUME held'[w] = held[w],
               stage'[w] = "replying" <=> stage[w] = "replying"
        PROVE  Addressed(held[w], IF stage[w] = "replying"
                                    THEN Other(Server[w]) ELSE Server[w])'
    BY <2>2, AddressedGrows DEF Directed, Addressed
  <2>3. ASSUME held'[w] \in InLink(Server[w]), stage'[w] = "called"
        PROVE  Addressed(held[w], IF stage[w] = "replying"
                                    THEN Other(Server[w]) ELSE Server[w])'
    <3>1. PICK m \in InLink(Server[w]) : held'[w] = m
      BY <2>3
    <3>2. Addressed(m, Server[w])
      BY <2>0 DEF Directed
    <3>3. Addressed(m, Server[w])'
      BY <3>2, AddressedGrows
    <3>. QED
      BY <2>3, <3>1, <3>3 DEF Addressed
  <2>4. ASSUME stage[w] # "replying", stage'[w] = "replying",
               held[w] \in Requests,
               NEW filled \in BOOLEAN, held'[w] = Response(held[w], filled)
        PROVE  Addressed(held[w], IF stage[w] = "replying"
                                    THEN Other(Server[w]) ELSE Server[w])'
    <3>1. Addressed(held[w], Server[w])
      BY <2>4 DEF Directed
    <3>2. /\ held'[w] \in Responses
          /\ held'[w].payload.of = held[w].payload.of
      BY <2>4, ResponseType DEF Response
    <3>3. /\ held'[w].payload.of[1] = Other(Server[w])
          /\ held'[w].payload.of[2] <= calls[held'[w].payload.of[1]]
      BY <2>4, <3>1, <3>2 DEF Addressed
    <3>4. PICK m \in Responses : held'[w] = m
      BY <3>2
    <3>5. Addressed(m, Other(Server[w]))
      BY <3>3, <3>4, MessageKinds DEF Addressed
    <3>6. Addressed(m, Other(Server[w]))'
      BY <3>5, AddressedGrows
    <3>. QED
      BY <2>4, <3>4, <3>6 DEF Addressed
  <2>. QED
    BY <2>1, <2>2, <2>3, <2>4, WhatIsHeld
<1>. QED
  BY <1>1, <1>2, <1>3 DEF Directed

(* Nothing is under way at first.                                          *)
LEMMA InitEmpty ==
  ASSUME Init
  PROVE  /\ \A p \in Peers : InLink(p) = {}
         /\ \A w \in Workers : held[w] = NoMessage
<1>1. \A p \in Peers : link[p] = <<>>
  BY DEF Init, LinkInit
<1>2. DOMAIN <<>> = {}
  OBVIOUS
<1>3. \A p \in Peers : \A m \in InLink(p) : FALSE
  BY <1>1, <1>2 DEF InLink
<1>. QED
  BY <1>3 DEF Init, WorkersInit

LEMMA InitDirected == Init => Directed
<1>. SUFFICES ASSUME Init PROVE Directed
  OBVIOUS
<1>1. \A c \in Callers : serial[c] <= calls[Home[c]]
  BY CallRemoteAssumption DEF Init, CallInit
<1>. QED
  BY <1>1, InitEmpty, MessageKinds DEF Directed, Addressed, Messages

(* Peers that have workers get stuck only if both have called or an answer *)
(* was spoilt: full connections whose messages come from calls of one side *)
(* cannot keep all workers of both sides busy.                             *)
LEMMA DirectedNotStuck ==
  ASSUME TypeOK, Directed, \A p \in Peers : WorkersOf(p) # {}
  PROVE  StuckOnlyTogether
<1>. SUFFICES ASSUME NEW p \in Peers, Wedged(p), garbled = 0,
                     NEW q \in Peers
              PROVE  calls[q] > 0
  <2>. QED
    BY PeersAssumption DEF StuckOnlyTogether, TypeOK
<1>1. \A w \in Workers : stage[w] # "lost"
  BY DEF Directed, Addressed, TypeOK, WorkersTypeOK
<1>2. \A o \in Peers : Clogged(o)
  <2>1. PICK w \in WorkersOf(p) : TRUE
    OBVIOUS
  <2>2. Clogged(p) /\ Clogged(Other(p))
    BY <1>1, <2>1 DEF Wedged, WorkersOf
  <2>. QED
    BY <2>2, OtherPeer
<1>3. Other(q) \in Peers /\ Other(Other(q)) = q
  BY OtherPeer
<1>4. PICK w \in Workers : Server[w] = Other(q)
  BY <1>3 DEF WorkersOf
<1>5. stage[w] = "replying" \/ stage[w] = "nested"
  BY <1>1, <1>2, <1>3, <1>4 DEF Clogged, WorkersOf, SendsNested
<1>6. /\ held[w] \in Requests \cup Responses
      /\ held[w].payload.of[1] = q
      /\ held[w].payload.of[2] <= calls[held[w].payload.of[1]]
  <2>1. CASE stage[w] = "replying"
    BY <1>3, <1>4, <2>1 DEF Directed, Addressed, TypeOK, WorkersTypeOK
  <2>2. CASE stage[w] = "nested"
    BY <1>3, <1>4, <2>2 DEF Directed, Addressed, TypeOK, WorkersTypeOK
  <2>. QED
    BY <1>5, <2>1, <2>2
<1>7. calls[q] \in Nat
  BY DEF TypeOK, CallTypeOK
<1>. QED
  BY <1>6, <1>7, CallOfMessage

(* Peers get stuck only together: a full connection in both directions     *)
(* takes calls of both sides, unless an answer was spoilt.                 *)
THEOREM StuckOnlyTogetherCorrect ==
  ASSUME \A p \in Peers : WorkersOf(p) # {}
  PROVE  Spec => []StuckOnlyTogether
<1>1. Init => TypeOK /\ Directed
  BY InitTypeOK, InitDirected
<1>2. (TypeOK /\ Directed) /\ [Next]_vars => (TypeOK /\ Directed)'
  BY TypeSteps, DirectedSteps
<1>3. TypeOK /\ Directed => StuckOnlyTogether
  BY DirectedNotStuck
<1>. QED
  BY <1>1, <1>2, <1>3, PTL DEF Spec

-----------------------------------------------------------------------------
(* How an answer gets to a thread: by the critical section of recv_cb() of *)
(* a worker of its peer into its future, and from there into the buffer.   *)
LEMMA WhatIsAnswered ==
  ASSUME TypeOK, TableExact, [Next]_vars, NEW c \in Callers,
         future'[c] \in Payloads
  PROVE  \/ /\ future'[c] = future[c]
            /\ serial'[c] = serial[c]
            /\ pc'[c] # "idle" => pc[c] # "idle"
         \/ \E w \in Workers :
              /\ stage[w] = "called" /\ held[w] \in Responses
              /\ Home[c] = Server[w] /\ request_id[c] = held[w].id
              /\ Outstanding(c) /\ serial'[c] = serial[c]
              /\ future'[c] = held[w].payload
<1>. DEFINE Kept == /\ future'[c] = future[c]
                    /\ serial'[c] = serial[c]
                    /\ pc'[c] # "idle" => pc[c] # "idle"
<1>0. CallTypeOK /\ Unset \notin Payloads /\ Broken \notin Payloads
  BY CallRemoteAssumption DEF TypeOK
<1>1. ASSUME NEW d \in Callers, NEW m \in Methods, BeginCall(d, m)
      PROVE  Kept
  BY <1>0, <1>1 DEF BeginCall, CallTypeOK
<1>2. ASSUME NEW d \in Callers, LocalStep(d) \/ SendAccepted(d)
      PROVE  Kept
  BY <1>0, <1>2
     DEF LocalStep, AllocFails, Register, SendRefused, WaitTimesOut,
         DropEntry, TakeAnswer, SendAccepted, Return, Abandoned, CallTypeOK
<1>3. ASSUME NEW w \in Workers, KeepAnswer(w), ~ Kept
      PROVE  /\ stage[w] = "called" /\ held[w] \in Responses
             /\ Home[c] = Server[w] /\ request_id[c] = held[w].id
             /\ Outstanding(c) /\ serial'[c] = serial[c]
             /\ future'[c] = held[w].payload
  <2>1. /\ stage[w] = "called" /\ held[w] \in Responses
        /\ Server[w] \in Peers /\ held[w].id \in Ids
    BY <1>3, HeldKinds DEF KeepAnswer, HandleResponse, Handling, Responses
  <2>2. UNCHANGED <<serial, pc, request_id>>
    BY <1>3 DEF KeepAnswer, KeepPromise
  <2>. DEFINE o == pending_requests[Server[w]][held[w].id]
  <2>3. c = o /\ future'[c] = held[w].payload
    BY <1>0, <1>3, <2>2 DEF KeepAnswer, KeepPromise, CallTypeOK
  <2>4. Home[c] = Server[w] /\ request_id[c] = held[w].id /\ Outstanding(c)
    BY <2>1, <2>3, StoredOutstanding
  <2>. QED
    BY <2>1, <2>2, <2>3, <2>4
<1>4. ASSUME NEW p \in Peers, Crash(p)
      PROVE  Kept
  BY <1>0, <1>4 DEF Crash, CallTypeOK
<1>5. CASE UNCHANGED callVars
  BY <1>5 DEF callVars
<1>. QED
  BY <1>1, <1>2, <1>3, <1>4, <1>5
     DEF Next, Handle, SendReply, Reject, Ignore, Serve, Reply, ReplySpoilt,
         ReplyRefused, Receive, Call, NestedCall, Local, SendRequest,
         LinkLost, LinkBack, vars

LEMMA WhatIsReturned ==
  ASSUME TypeOK, [Next]_vars, NEW c \in Callers, result'[c] = "true"
  PROVE  /\ serial'[c] = serial[c]
         /\ \/ result[c] = "true" /\ resp_buf'[c] = resp_buf[c]
            \/ /\ pc[c] = "waiting" /\ future[c] \in Payloads
               /\ resp_buf'[c] = future[c]
<1>0. CallTypeOK
  BY DEF TypeOK
<1>1. ASSUME NEW d \in Callers, NEW m \in Methods, BeginCall(d, m)
      PROVE  /\ serial'[c] = serial[c]
             /\ result[c] = "true" /\ resp_buf'[c] = resp_buf[c]
  BY <1>0, <1>1 DEF BeginCall, CallTypeOK
<1>2. ASSUME NEW d \in Callers, LocalStep(d) \/ SendAccepted(d), ~ TakeAnswer(d)
      PROVE  /\ serial'[c] = serial[c]
             /\ result[c] = "true" /\ resp_buf'[c] = resp_buf[c]
  BY <1>0, <1>2
     DEF LocalStep, AllocFails, Register, SendRefused, WaitTimesOut,
         DropEntry, SendAccepted, Return, CallTypeOK
<1>3. ASSUME NEW d \in Callers, TakeAnswer(d)
      PROVE  /\ serial'[c] = serial[c]
             /\ \/ result[c] = "true" /\ resp_buf'[c] = resp_buf[c]
                \/ /\ pc[c] = "waiting" /\ future[c] \in Payloads
                   /\ resp_buf'[c] = future[c]
  <2>1. CASE c = d
    BY <1>0, <1>3, <2>1 DEF TakeAnswer, Return, CallTypeOK
  <2>2. CASE c # d
    BY <1>0, <1>3, <2>2 DEF TakeAnswer, Return, CallTypeOK
  <2>. QED
    BY <2>1, <2>2
<1>4. ASSUME NEW p \in Peers, Crash(p)
      PROVE  /\ serial'[c] = serial[c]
             /\ result[c] = "true" /\ resp_buf'[c] = resp_buf[c]
  BY <1>0, <1>4 DEF Crash, CallTypeOK
<1>5. CASE UNCHANGED <<serial, result, resp_buf>>
  BY <1>5
<1>. QED
  BY <1>1, <1>2, <1>3, <1>4, <1>5, StepKinds
     DEF CallStep, KeepPromise, callVars

-----------------------------------------------------------------------------
(* A worker in call_remote() is in the handler of a request all the time.  *)
LEMMA CallingKeepsStage ==
  ASSUME TypeOK, [Next]_vars, NEW w \in Callers \cap Workers,
         pc[w] # "idle" => stage[w] = "nested",
         pc'[w] # "idle"
  PROVE  stage'[w] = "nested"
<1>0. CallTypeOK /\ WorkersTypeOK
  BY DEF TypeOK
<1>1. ASSUME NEW c \in Callers, NEW m \in Methods, Call(c, m)
      PROVE  stage'[w] = "nested"
  BY <1>0, <1>1 DEF Call, BeginCall, CallTypeOK, workerVars
<1>2. ASSUME NEW v \in Callers \cap Workers, NEW m \in Methods,
             NestedCall(v, m)
      PROVE  stage'[w] = "nested"
  BY <1>0, <1>2
     DEF NestedCall, HandlerCalls, BeginCall, CallTypeOK, WorkersTypeOK
<1>3. ASSUME NEW c \in Callers, Local(c) \/ SendRequest(c)
      PROVE  stage'[w] = "nested"
  <2>1. UNCHANGED stage /\ (pc'[w] # "idle" => pc[w] # "idle")
    BY <1>0, <1>3
       DEF Local, SendRequest, LocalStep, AllocFails, Register, SendRefused,
           WaitTimesOut, DropEntry, TakeAnswer, SendAccepted, Return,
           CallTypeOK, workerVars
  <2>. QED
    BY <2>1
<1>4. ASSUME NEW v \in Workers,
             Receive(v) \/ Reject(v) \/ Ignore(v) \/ Serve(v) \/ KeepAnswer(v)
               \/ SendReply(v) \/ ReplyRefused(v)
      PROVE  stage'[w] = "nested"
  <2>1. UNCHANGED pc
    BY <1>4 DEF Receive, Reject, Ignore, Serve, KeepAnswer, KeepPromise,
                SendReply, Reply, ReplySpoilt, ReplyRefused, callVars
  <2>2. stage[v] = "nested" => v # w
    BY <1>4, <2>1
       DEF Receive, Enter, Reject, RejectMessage, Ignore, IgnoreRequest,
           Serve, KeepAnswer, HandleResponse, Handling, SendReply, Reply,
           ReplySpoilt, ReplyRefused, FinishReply
  <2>3. \A u \in Workers \ {v} : stage'[u] = stage[u]
    BY <1>0, <1>4
       DEF Receive, Enter, Reject, RejectMessage, Ignore, IgnoreRequest,
           Serve, RunHandler, KeepAnswer, HandleResponse, SendReply, Reply,
           ReplySpoilt, ReplyRefused, FinishReply, Rearm, WorkersTypeOK
  <2>. QED
    BY <2>1, <2>2, <2>3
<1>5. ASSUME NEW p \in Peers, Crash(p)
      PROVE  stage'[w] = "nested"
  BY <1>0, <1>5, PeersAssumption DEF Crash, CallTypeOK, WorkersTypeOK
<1>6. CASE UNCHANGED <<pc, stage>>
  BY <1>6
<1>. QED
  BY <1>1, <1>2, <1>3, <1>4, <1>5, <1>6
     DEF Next, Handle, LinkLost, LinkBack, callVars, workerVars, vars

LEMMA NestedSteps ==
  ASSUME TypeOK, NestedKeepsWorker, [Next]_vars
  PROVE  NestedKeepsWorker'
BY CallingKeepsStage DEF NestedKeepsWorker

(* The future of a handler's own call is answered by another worker of its *)
(* peer and never by the worker that waits for it, however many workers    *)
(* there are and however those of the two peers and crashes interleave.    *)
THEOREM NestedNeedsSecondWorkerCorrect == Spec => NestedNeedsSecondWorker
<1>. DEFINE Inv == TypeOK /\ TableExact /\ BuiltUnset /\ NestedKeepsWorker
            Answered == \A w \in Callers \cap Workers :
              future'[w] # future[w] /\ future'[w] \in Payloads
                => AnsweredByAnother(w)
<1>1. Init => Inv
  <2>1. Init => NestedKeepsWorker
    BY CallRemoteAssumption DEF Init, CallInit, NestedKeepsWorker
  <2>. QED
    BY <2>1, InitTypeOK, CallInitInv DEF Init
<1>2. Inv /\ [Next]_vars => Inv'
  BY TypeSteps, TableSteps, NestedSteps
<1>3. Inv /\ [Next]_vars => [Answered]_vars
  <2>. SUFFICES ASSUME Inv, [Next]_vars, NEW w \in Callers \cap Workers,
                       future'[w] # future[w], future'[w] \in Payloads
                PROVE  AnsweredByAnother(w)
    OBVIOUS
  <2>1. PICK v \in Workers :
          /\ stage[v] = "called" /\ held[v] \in Responses
          /\ Home[w] = Server[v] /\ Outstanding(w)
          /\ future'[w] = held[v].payload
    BY WhatIsAnswered
  <2>2. stage[w] = "nested"
    BY <2>1 DEF NestedKeepsWorker, Outstanding
  <2>3. v # w /\ Server[v] = Server[w]
    BY <2>1, <2>2, PeersAssumption
  <2>. QED
    BY <2>1, <2>3 DEF AnsweredByAnother
<1>. QED
  BY <1>1, <1>2, <1>3, PTL DEF Spec, NestedNeedsSecondWorker

-----------------------------------------------------------------------------
(* Arithmetic of ids.                                                      *)
LEMMA Division ==
  ASSUME NEW n \in Nat \ {0}, NEW a \in Int
  PROVE  /\ a \div n \in Int
         /\ a % n \in 0 .. n - 1
         /\ a = n * (a \div n) + (a % n)
OBVIOUS

LEMMA Remainder ==
  ASSUME NEW n \in Nat \ {0}, NEW q \in Int, NEW r \in 0 .. n - 1
  PROVE  (n * q + r) % n = r
OBVIOUS

LEMMA SuccessorRemainder ==
  ASSUME NEW n \in Nat \ {0, 1}, NEW a \in Int
  PROVE  (a + 1) % n = IF a % n = n - 1 THEN 0 ELSE (a % n) + 1
<1>. DEFINE q == a \div n  r == a % n
<1>1. q \in Int /\ r \in 0 .. n - 1 /\ a = n * q + r
  BY Division
<1>2. CASE r = n - 1
  <2>1. a + 1 = n * (q + 1) + 0
    BY <1>1, <1>2
  <2>2. (n * (q + 1) + 0) % n = 0
    BY <1>1, Remainder
  <2>. QED
    BY <1>2, <2>1, <2>2
<1>3. CASE r # n - 1
  <2>1. a + 1 = n * q + (r + 1) /\ r + 1 \in 0 .. n - 1
    BY <1>1, <1>3
  <2>. QED
    BY <1>1, <1>3, <2>1, Remainder
<1>. QED
  BY <1>2, <1>3

LEMMA ShiftedRemainder ==
  ASSUME NEW n \in Nat \ {0}, NEW a \in Int, NEW b \in Int, NEW c \in Int,
         (a - c) % n = (b - c) % n
  PROVE  a % n = b % n
<1>. DEFINE q == (a - c) \div n  s == (b - c) \div n  r == (a - c) % n
            t == b \div n  u == b % n
<1>1. q \in Int /\ r \in 0 .. n - 1 /\ a - c = n * q + r
  BY Division
<1>2. s \in Int /\ b - c = n * s + r
  BY Division
<1>3. t \in Int /\ u \in 0 .. n - 1 /\ b = n * t + u
  BY Division
<1>4. a = n * (q - s + t) + u
  <2>. HIDE DEF q, s, r, t, u
  <2>. QED
    BY <1>1, <1>2, <1>3
<1>5. (n * (q - s + t) + u) % n = u
  <2>. DEFINE v == q - s + t
  <2>1. v \in Int
    BY <1>1, <1>2, <1>3
  <2>. HIDE DEF v, u
  <2>2. (n * v + u) % n = u
    BY <1>3, <2>1, Remainder
  <2>. QED
    BY <2>2 DEF v
<1>. QED
  BY <1>4, <1>5

-----------------------------------------------------------------------------
(* Where the id counter of a peer, its restart and the id of a call stand. *)
LEMMA IdSteps ==
  ASSUME TypeOK, [Next]_vars, NEW p \in Peers
  PROVE  \/ /\ born'[p] = born[p]
            /\ next_request_id'[p] = next_request_id[p]
            /\ calls'[p] = calls[p]
         \/ /\ born'[p] = born[p]
            /\ next_request_id'[p] = NextId(next_request_id[p])
            /\ calls'[p] = calls[p] + 1
         \/ /\ born'[p] = calls[p]
            /\ next_request_id'[p] = 1
            /\ calls'[p] = calls[p]
<1>0. CallTypeOK /\ BornTypeOK
  BY TypeParts
<1>1. \/ UNCHANGED born
      \/ \E q \in Peers : Crash(q)
  BY DEF Next, Handle, SendReply, Reject, Ignore, Serve, KeepAnswer, Reply,
         ReplySpoilt, ReplyRefused, Receive, Call, NestedCall, Local,
         SendRequest, LinkLost, LinkBack, countVars, vars
<1>2. ASSUME NEW q \in Peers, Crash(q)
      PROVE  /\ born' = [born EXCEPT ![q] = calls[q]]
             /\ next_request_id' = [next_request_id EXCEPT ![q] = 1]
             /\ calls' = calls
  BY <1>2 DEF Crash
<1>3. ASSUME NEW c \in Callers, NEW m \in Methods, BeginCall(c, m)
      PROVE  /\ next_request_id' =
                  [next_request_id EXCEPT ![Home[c]] = NextId(@)]
             /\ calls' = [calls EXCEPT ![Home[c]] = @ + 1]
  BY <1>3 DEF BeginCall
<1>4. \/ \E c \in Callers, m \in Methods : BeginCall(c, m)
      \/ UNCHANGED <<next_request_id, calls>>
      \/ \E q \in Peers : Crash(q)
  BY StepKinds
     DEF CallStep, callVars, LocalStep, AllocFails, Register, SendRefused,
         WaitTimesOut, DropEntry, TakeAnswer, SendAccepted, KeepPromise
<1>5. /\ born \in [Peers -> Nat] /\ calls \in [Peers -> Nat]
      /\ next_request_id \in [Peers -> Ids]
      /\ \A c \in Callers : Home[c] \in Peers
  BY <1>0, CallRemoteAssumption DEF BornTypeOK, CallTypeOK
<1>6. CASE \E q \in Peers : Crash(q)
  BY <1>2, <1>5, <1>6
<1>7. CASE UNCHANGED born
  BY <1>3, <1>4, <1>5, <1>6, <1>7
<1>. QED
  BY <1>1, <1>6, <1>7

(* A thread in a call keeps its call's number and id, or has just got them *)
(* from the counters; it loses them only by a crash of its own peer.       *)
LEMMA CallerSteps ==
  ASSUME TypeOK, [Next]_vars, NEW c \in Callers, pc'[c] # "idle"
  PROVE  /\ born'[Home[c]] = born[Home[c]]
         /\ \/ /\ pc[c] # "idle"
               /\ serial'[c] = serial[c] /\ request_id'[c] = request_id[c]
            \/ /\ calls'[Home[c]] = calls[Home[c]] + 1
               /\ serial'[c] = calls[Home[c]] + 1
               /\ request_id'[c] = next_request_id[Home[c]]
<1>0. CallTypeOK /\ BornTypeOK /\ Home[c] \in Peers
  BY TypeParts, CallRemoteAssumption
<1>1. ASSUME NEW q \in Peers, Crash(q)
      PROVE  /\ born'[Home[c]] = born[Home[c]] /\ pc[c] # "idle"
             /\ serial'[c] = serial[c] /\ request_id'[c] = request_id[c]
  <2>1. Home[c] # q
    BY <1>1 DEF Crash
  <2>. QED
    BY <1>0, <1>1, <2>1 DEF Crash, BornTypeOK, CallTypeOK
<1>2. \/ UNCHANGED born
      \/ \E q \in Peers : Crash(q)
  BY DEF Next, Handle, SendReply, Reject, Ignore, Serve, KeepAnswer, Reply,
         ReplySpoilt, ReplyRefused, Receive, Call, NestedCall, Local,
         SendRequest, LinkLost, LinkBack, countVars, vars
<1>3. ASSUME NEW d \in Callers, NEW m \in Methods, BeginCall(d, m)
      PROVE  \/ /\ pc[c] # "idle"
                /\ serial'[c] = serial[c] /\ request_id'[c] = request_id[c]
             \/ /\ calls'[Home[c]] = calls[Home[c]] + 1
               /\ serial'[c] = calls[Home[c]] + 1
                /\ request_id'[c] = next_request_id[Home[c]]
  BY <1>0, <1>3 DEF BeginCall, CallTypeOK
<1>4. ASSUME NEW d \in Callers, LocalStep(d) \/ SendAccepted(d)
      PROVE  /\ pc[c] # "idle"
             /\ serial'[c] = serial[c] /\ request_id'[c] = request_id[c]
  BY <1>0, <1>4
     DEF LocalStep, AllocFails, Register, SendRefused, WaitTimesOut,
         DropEntry, TakeAnswer, SendAccepted, Return, CallTypeOK
<1>5. ASSUME UNCHANGED <<pc, serial, request_id>>
      PROVE  /\ pc[c] # "idle"
             /\ serial'[c] = serial[c] /\ request_id'[c] = request_id[c]
  BY <1>5
<1>. QED
  BY <1>1, <1>2, <1>3, <1>4, <1>5, StepKinds
     DEF CallStep, KeepPromise, callVars

(* What a message says of its id is said for good: a restart of its peer   *)
(* leaves the message behind.                                              *)
LEMMA IdKept ==
  ASSUME TypeOK, [Next]_vars, NEW m, NEW p, Addressed(m, p), CarriesId(m)
  PROVE  CarriesId(m)'
<1>. SUFFICES ASSUME m \in Requests \cup Responses
              PROVE  m.id = idOf'[m.payload.of]
  BY DEF CarriesId
<1>1. m.payload.of \in CallNumbers
  BY DEF Requests, Responses, Payloads
<1>2. m.payload.of[2] <= calls[m.payload.of[1]]
  BY DEF Addressed
<1>. QED
  BY <1>1, <1>2, IdOfKept DEF CarriesId

(* The call of a thread in call_remote(), or back from it with an answer.  *)
LEMMA CallBegun ==
  ASSUME TypeOK, Directed, NEW c \in Callers, serial[c] # 0
  PROVE  /\ CallOf(c) \in CallNumbers
         /\ CallOf(c)[1] = Home[c] /\ CallOf(c)[2] = serial[c]
         /\ serial[c] \in Nat /\ serial[c] <= calls[Home[c]]
<1>1. /\ Home[c] \in Peers /\ serial[c] \in Nat
      /\ MaxCalls[Home[c]] \in Nat /\ serial[c] <= MaxCalls[Home[c]]
  BY MessageAssumption, CallRemoteAssumption DEF TypeOK, CallTypeOK
<1>2. serial[c] \in 1 .. MaxCalls[Home[c]]
  BY <1>1
<1>. QED
  BY <1>1, <1>2 DEF CallOf, CallNumbers, Directed

LEMMA IdCountSteps ==
  ASSUME TypeOK, Directed, IdsCountCalls, [Next]_vars
  PROVE  IdsCountCalls'
<1>0. /\ IdModulus \in Nat \ {0, 1}
      /\ born \in [Peers -> Nat] /\ calls \in [Peers -> Nat]
      /\ \A p \in Peers : born[p] <= calls[p]
      /\ \A c \in Callers : Home[c] \in Peers
  BY MessageAssumption, CallRemoteAssumption DEF TypeOK, CallTypeOK
<1>1. ASSUME NEW p \in Peers
      PROVE  next_request_id'[p] = TurnOf(p, calls[p] + 1)'
  <2>0. next_request_id[p] = ((calls[p] + 1) - born[p]) % IdModulus
    BY Zenon DEF IdsCountCalls, TurnOf
  <2>1. CASE born'[p] = born[p] /\ calls'[p] = calls[p]
             /\ next_request_id'[p] = next_request_id[p]
    BY <2>0, <2>1, Zenon DEF TurnOf
  <2>2. CASE born'[p] = born[p] /\ calls'[p] = calls[p] + 1
             /\ next_request_id'[p] = NextId(next_request_id[p])
    <3>. DEFINE a == (calls[p] + 1) - born[p]
    <3>1. a \in Int /\ ((calls[p] + 1) + 1) - born[p] = a + 1
      BY <1>0
    <3>2. (a + 1) % IdModulus = NextId(a % IdModulus)
      <4>. HIDE DEF a
      <4>. QED
        BY <1>0, <3>1, SuccessorRemainder DEF NextId
    <3>. QED
      BY <2>0, <2>2, <3>1, <3>2, Zenon DEF TurnOf
  <2>3. CASE born'[p] = calls[p] /\ calls'[p] = calls[p]
             /\ next_request_id'[p] = 1
    <3>1. /\ (calls[p] + 1) - calls[p] = IdModulus * 0 + 1
          /\ 1 \in 0 .. IdModulus - 1
      BY <1>0
    <3>2. (IdModulus * 0 + 1) % IdModulus = 1
      BY <1>0, <3>1, Remainder
    <3>. QED
      BY <2>3, <3>1, <3>2, Zenon DEF TurnOf
  <2>. QED
    BY <2>1, <2>2, <2>3, IdSteps
<1>2. ASSUME NEW c \in Callers, pc'[c] # "idle"
      PROVE  /\ serial'[c] > born'[Home[c]]
             /\ request_id'[c] = idOf'[CallOf(c)']
  <2>1. born'[Home[c]] = born[Home[c]]
    BY <1>2, CallerSteps
  <2>2. CASE pc[c] # "idle" /\ serial'[c] = serial[c]
             /\ request_id'[c] = request_id[c]
    <3>1. /\ serial[c] > born[Home[c]] /\ serial[c] # 0
          /\ request_id[c] = idOf[CallOf(c)]
      BY <2>2 DEF IdsCountCalls, TypeOK, CallTypeOK
    <3>2. idOf'[CallOf(c)] = idOf[CallOf(c)]
      BY <3>1, CallBegun, IdOfKept
    <3>3. CallOf(c)' = CallOf(c)
      BY <2>2 DEF CallOf
    <3>. QED
      BY <2>1, <2>2, <3>1, <3>2, <3>3
  <2>3. CASE /\ calls'[Home[c]] = calls[Home[c]] + 1
             /\ serial'[c] = calls[Home[c]] + 1
             /\ request_id'[c] = next_request_id[Home[c]]
    <3>1. serial'[c] > born'[Home[c]]
      BY <1>0, <2>1, <2>3
    <3>2. CallOf(c)' = <<Home[c], calls[Home[c]] + 1>>
      BY <2>3 DEF CallOf
    <3>. QED
      BY <1>0, <2>3, <3>1, <3>2, IdOfGiven
  <2>. QED
    BY <1>2, <2>2, <2>3, CallerSteps
<1>5. ASSUME NEW k \in CallNumbers,
             born'[k[1]] < k[2], k[2] <= calls'[k[1]]
      PROVE  idOf'[k] = TurnOf(k[1], k[2])'
  <2>1. k[1] \in Peers /\ k[2] \in Nat /\ k = <<k[1], k[2]>>
    BY MessageAssumption DEF CallNumbers
  <2>. DEFINE p == k[1]  n == k[2]
  <2>2. /\ born'[p] = born[p]
        /\ n <= calls[p] \/ n = calls[p] + 1
        /\ n = calls[p] + 1 => calls'[p] = calls[p] + 1
    <3>1. \/ born'[p] = born[p] /\ calls'[p] = calls[p]
          \/ born'[p] = born[p] /\ calls'[p] = calls[p] + 1
          \/ born'[p] = calls[p] /\ calls'[p] = calls[p]
      BY <2>1, IdSteps
    <3>2. calls[p] \in Nat
      BY <1>0, <2>1
    <3>. QED
      BY <1>5, <2>1, <3>1, <3>2
  <2>3. CASE n <= calls[p]
    <3>1. idOf'[k] = idOf[k]
      BY <2>3, IdOfKept
    <3>2. idOf[k] = TurnOf(p, n)
      BY <1>5, <2>2, <2>3 DEF IdsCountCalls
    <3>. QED
      BY <2>2, <3>1, <3>2, Zenon DEF TurnOf
  <2>4. CASE n = calls[p] + 1
    <3>1. idOf'[<<p, n>>] = next_request_id[p]
      BY <2>1, <2>2, <2>4, IdOfGiven
    <3>2. next_request_id[p] = TurnOf(p, n)
      BY <2>1, <2>4 DEF IdsCountCalls
    <3>. QED
      BY <2>1, <2>2, <3>1, <3>2, Zenon DEF TurnOf
  <2>. QED
    BY <2>2, <2>3, <2>4
<1>3. ASSUME NEW q \in Peers, NEW m \in InLink(q)'
      PROVE  CarriesId(m)'
  <2>1. CASE m \in InLink(q)
    BY <2>1, IdKept DEF Directed, IdsCountCalls
  <2>2. ASSUME NEW c \in Callers, SendRequest(c), m = RequestOf(c)
        PROVE  CarriesId(m)'
    <3>1. pc'[c] # "idle"
      BY <2>2 DEF SendRequest, SendAccepted, TypeOK, CallTypeOK
    <3>2. UNCHANGED <<serial, request_id>>
      BY <2>2 DEF SendRequest, SendAccepted
    <3>3. /\ m.id = request_id[c]
          /\ m.payload.of = CallOf(c) /\ CallOf(c)' = CallOf(c)
      BY <2>2, <3>2 DEF RequestOf, Request, CallOf
    <3>. QED
      BY <1>2, <3>1, <3>2, <3>3 DEF CarriesId
  <2>3. ASSUME NEW w \in Workers, Reply(w), m = held[w]
        PROVE  CarriesId(m)'
    BY <2>3, IdKept DEF Directed, IdsCountCalls
  <2>4. CASE m = Garbled
    BY <2>4, MessageKinds DEF CarriesId
  <2>. QED
    BY <2>1, <2>2, <2>3, <2>4, WhatIsSent
<1>4. ASSUME NEW w \in Workers
      PROVE  CarriesId(held[w])'
  <2>1. CASE held'[w] = NoMessage
    BY <2>1, MessageKinds DEF CarriesId, Messages
  <2>2. CASE held'[w] = held[w]
    <3>1. PICK m : held[w] = m
      OBVIOUS
    <3>2. CarriesId(m)'
      BY <3>1, IdKept DEF Directed, IdsCountCalls
    <3>. QED
      BY <2>2, <3>1, <3>2 DEF CarriesId
  <2>3. CASE held'[w] \in InLink(Server[w])
    <3>1. PICK m \in InLink(Server[w]) : held'[w] = m
      BY <2>3
    <3>2. CarriesId(m)'
      BY HeldKinds, IdKept DEF Directed, IdsCountCalls
    <3>. QED
      BY <3>1, <3>2 DEF CarriesId
  <2>4. ASSUME held[w] \in Requests,
               NEW filled \in BOOLEAN, held'[w] = Response(held[w], filled)
        PROVE  CarriesId(held[w])'
    <3>1. PICK m \in Requests : held[w] = m
      BY <2>4
    <3>2. CarriesId(m)'
      BY <3>1, IdKept DEF Directed, IdsCountCalls
    <3>3. held'[w].id = m.id /\ held'[w].payload.of = m.payload.of
      BY <2>4, <3>1 DEF Response
    <3>. QED
      BY <2>4, <3>2, <3>3 DEF CarriesId, Requests, Responses, Response
  <2>. QED
    BY <2>1, <2>2, <2>3, <2>4, WhatIsHeld
<1>. QED
  BY <1>1, <1>2, <1>3, <1>4, <1>5 DEF IdsCountCalls

(* Two calls with the same id count alike: an answer found by its id is    *)
(* one of this thread's peer, of before its restart or of the same turn.   *)
LEMMA SameTurn ==
  ASSUME NEW b \in Nat, NEW m \in Nat, NEW n \in Nat,
         (m - b) % IdModulus = (n - b) % IdModulus
  PROVE  m % IdModulus = n % IdModulus
<1>1. IdModulus \in Nat \ {0} /\ m \in Int /\ n \in Int /\ b \in Int
  BY MessageAssumption
<1>. QED
  BY <1>1, ShiftedRemainder

(* Two calls that had the same id keep it, through restarts of their peer. *)
LEMMA SameIdKept ==
  ASSUME TypeOK, Directed, [Next]_vars, NEW c \in Callers,
         serial[c] # 0, serial'[c] = serial[c],
         NEW k \in CallNumbers, SameId(c, k)
  PROVE  SameId(c, k)'
<1>1. /\ k[1] = Home[c] /\ k[2] <= calls[Home[c]]
      /\ idOf[k] = idOf[CallOf(c)]
  BY DEF SameId
<1>2. idOf'[k] = idOf[k] /\ idOf'[CallOf(c)] = idOf[CallOf(c)]
  BY <1>1, CallBegun, IdOfKept
<1>3. k[2] <= calls'[Home[c]]
  <2>1. k[2] \in Nat /\ Home[c] \in Peers
    BY MessageAssumption, CallRemoteAssumption DEF CallNumbers
  <2>. QED
    BY <1>1, <2>1, CallsGrow
<1>4. CallOf(c)' = CallOf(c)
  BY DEF CallOf
<1>. QED
  BY <1>1, <1>2, <1>3, <1>4 DEF SameId

(* A peer whose process was restarted has no thread back from a call.      *)
LEMMA ReturnedNotReborn ==
  ASSUME TypeOK, [Next]_vars, NEW c \in Callers, result'[c] = "true"
  PROVE  born'[Home[c]] = born[Home[c]]
<1>0. /\ Home[c] \in Peers /\ born \in [Peers -> Nat]
      /\ result \in [Callers -> {"none", "true", "false", "threw"}]
  BY CallRemoteAssumption DEF TypeOK, CallTypeOK
<1>1. ASSUME NEW p \in Peers, Crash(p)
      PROVE  born'[Home[c]] = born[Home[c]]
  <2>1. Home[c] # p
    BY <1>0, <1>1 DEF Crash
  <2>. QED
    BY <1>0, <1>1, <2>1 DEF Crash
<1>2. \/ UNCHANGED born
      \/ \E p \in Peers : Crash(p)
  BY DEF Next, Handle, SendReply, Reject, Ignore, Serve, KeepAnswer, Reply,
         ReplySpoilt, ReplyRefused, Receive, Call, NestedCall, Local,
         SendRequest, LinkLost, LinkBack, countVars, vars
<1>. QED
  BY <1>1, <1>2

LEMMA CollideSteps ==
  ASSUME TypeOK, TableExact, BuiltUnset, Directed, IdsCountCalls,
         AnswersCollide, [Next]_vars
  PROVE  AnswersCollide'
<1>0. /\ \A k \in Payloads : k.of \in CallNumbers
      /\ \A c \in Callers : pc[c] # "idle" => serial[c] # 0
      /\ \A c \in Callers : Home[c] \in Peers
      /\ born \in [Peers -> Nat]
  BY CallRemoteAssumption DEF Payloads, TypeOK, CallTypeOK
<1>1. ASSUME NEW c \in Callers, Outstanding(c)', future'[c] \in Payloads
      PROVE  SameId(c, future[c].of)'
  <2>1. ASSUME future'[c] = future[c], serial'[c] = serial[c], pc[c] # "idle"
        PROVE  SameId(c, future[c].of)'
    <3>1. Outstanding(c)
      BY <1>1, <2>1, CallRemoteAssumption
         DEF Outstanding, BuiltUnset, TypeOK, CallTypeOK, Stages
    <3>2. PICK k \in CallNumbers : k = future[c].of /\ SameId(c, k)
      BY <1>0, <1>1, <2>1, <3>1 DEF AnswersCollide
    <3>3. SameId(c, k)'
      BY <1>0, <2>1, <3>2, SameIdKept
    <3>. QED
      BY <2>1, <3>2, <3>3 DEF SameId
  <2>2. ASSUME NEW w \in Workers, stage[w] = "called", held[w] \in Responses,
               Home[c] = Server[w], request_id[c] = held[w].id,
               Outstanding(c), serial'[c] = serial[c],
               future'[c] = held[w].payload
        PROVE  SameId(c, future[c].of)'
    <3>1. PICK k \in CallNumbers : k = held[w].payload.of
      BY <1>0, <2>2 DEF Responses
    <3>2. k[1] = Home[c] /\ k[2] <= calls[Home[c]]
      BY <2>2, <3>1 DEF Directed, Addressed
    <3>3. pc[c] # "idle" /\ request_id[c] = idOf[CallOf(c)]
      BY <2>2 DEF IdsCountCalls, Outstanding
    <3>4. held[w].id = idOf[k]
      BY <2>2, <3>1 DEF IdsCountCalls, CarriesId
    <3>5. SameId(c, k)
      BY <2>2, <3>2, <3>3, <3>4 DEF SameId
    <3>6. SameId(c, k)'
      BY <1>0, <2>2, <3>3, <3>5, SameIdKept
    <3>. QED
      BY <2>2, <3>1, <3>6 DEF SameId
  <2>. QED
    BY <1>1, <2>1, <2>2, WhatIsAnswered DEF Outstanding
<1>2. ASSUME NEW c \in Callers, result'[c] = "true"
      PROVE  /\ serial'[c] > born'[Home[c]]
             /\ resp_buf'[c] \in Payloads
             /\ SameId(c, resp_buf[c].of)'
  <2>1. PICK k \in Payloads :
          /\ resp_buf'[c] = k /\ serial'[c] = serial[c]
          /\ SameId(c, k.of)
          /\ serial[c] > born[Home[c]]
    BY <1>2, WhatIsReturned DEF AnswersCollide, IdsCountCalls, Outstanding
  <2>2. serial[c] # 0
    BY <1>0, <2>1
  <2>3. PICK n \in CallNumbers : n = k.of
    BY <1>0
  <2>4. SameId(c, n)'
    BY <2>1, <2>2, <2>3, SameIdKept
  <2>5. born'[Home[c]] = born[Home[c]]
    BY <1>2, ReturnedNotReborn
  <2>. QED
    BY <2>1, <2>3, <2>4, <2>5 DEF SameId
<1>. QED
  BY <1>1, <1>2 DEF AnswersCollide

CollideInv ==
  /\ TypeOK /\ TableExact /\ BuiltUnset /\ Directed
  /\ IdsCountCalls /\ AnswersCollide

LEMMA CollideInvariant == Spec => []CollideInv
<1>1. Init => CollideInv
  <2>. SUFFICES ASSUME Init PROVE IdsCountCalls /\ AnswersCollide
    BY InitTypeOK, InitDirected, CallInitInv DEF Init, CollideInv
  <2>1. \A p \in Peers : next_request_id[p] = TurnOf(p, calls[p] + 1)
    <3>1. \A p \in Peers :
            next_request_id[p] = 1 /\ calls[p] = 0 /\ born[p] = 0
      BY DEF Init, CallInit
    <3>2. /\ IdModulus \in Nat \ {0} /\ 1 \in 0 .. IdModulus - 1
          /\ (0 + 1) - 0 = IdModulus * 0 + 1
      BY MessageAssumption
    <3>3. (IdModulus * 0 + 1) % IdModulus = 1
      BY <3>2, Remainder
    <3>4. ((0 + 1) - 0) % IdModulus = 1
      BY <3>2, <3>3
    <3>. QED
      BY <3>1, <3>4, Zenon DEF TurnOf
  <2>2. /\ \A p \in Peers : InLink(p) = {}
        /\ \A w \in Workers : held[w] = NoMessage
    BY InitEmpty
  <2>3. \A c \in Callers : pc[c] = "idle" /\ result[c] = "none"
    BY DEF Init, CallInit
  <2>4. \A k \in CallNumbers :
          ~ (born[k[1]] < k[2] /\ k[2] <= calls[k[1]])
    <3>1. ASSUME NEW k \in CallNumbers
          PROVE  k[1] \in Peers /\ k[2] \in Nat
      BY MessageAssumption DEF CallNumbers
    <3>. QED
      BY <3>1 DEF Init, CallInit
  <2>. QED
    BY <2>1, <2>2, <2>3, <2>4, MessageKinds
       DEF IdsCountCalls, AnswersCollide, Outstanding, CarriesId, Messages
<1>2. CollideInv /\ [Next]_vars => CollideInv'
  <2>. SUFFICES ASSUME CollideInv, [Next]_vars
                PROVE  CollideInv'
    OBVIOUS
  <2>. USE DEF CollideInv
  <2>. QED
    BY TypeSteps, TableSteps, DirectedSteps, IdCountSteps, CollideSteps
<1>. QED
  BY <1>1, <1>2, PTL DEF Spec

(* Two calls of one id since the last restart are a multiple of the number *)
(* of ids apart.                                                           *)
LEMMA CollidesModulo ==
  ASSUME CollideInv, NEW c \in Callers, result[c] = "true",
         ~ (resp_buf[c].of[2] <= born[Home[c]])
  PROVE  resp_buf[c].of[2] % IdModulus = serial[c] % IdModulus
<1>. DEFINE p == Home[c]  k == resp_buf[c].of
<1>1. /\ p \in Peers /\ born[p] \in Nat
      /\ k \in CallNumbers /\ SameId(c, k) /\ serial[c] > born[p]
  BY CallRemoteAssumption
     DEF CollideInv, AnswersCollide, Payloads, TypeOK
<1>2. /\ CallOf(c) \in CallNumbers /\ serial[c] \in Nat
      /\ CallOf(c)[1] = p /\ CallOf(c)[2] = serial[c]
      /\ serial[c] <= calls[p]
  <2>1. serial[c] # 0
    BY <1>1
  <2>. QED
    BY <2>1, CallBegun DEF CollideInv
<1>3. k[2] \in Nat /\ k[1] = p /\ k[2] <= calls[p] /\ born[p] < k[2]
  BY <1>1, MessageAssumption DEF SameId, CallNumbers
<1>4. idOf[k] = TurnOf(p, k[2]) /\ idOf[CallOf(c)] = TurnOf(p, serial[c])
  <2>. HIDE DEF k
  <2>. QED
    BY <1>1, <1>2, <1>3 DEF CollideInv, IdsCountCalls
<1>5. TurnOf(p, k[2]) = TurnOf(p, serial[c])
  BY <1>1, <1>4 DEF SameId
<1>. QED
  <2>. HIDE DEF k, p
  <2>1. k[2] % IdModulus = serial[c] % IdModulus
    BY <1>1, <1>2, <1>3, <1>5, SameTurn DEF TurnOf
  <2>. QED
    BY <2>1 DEF k

(* A thread is handed the answer to another call only if both calls are of *)
(* its peer and were given the same id; if no restart lies between them,   *)
(* they are a multiple of the number of ids apart.  This holds for every   *)
(* number of threads, crashes and lost connections, without the bound      *)
(* NoWrap of AsyncRpcProofs.                                               *)
THEOREM WrongAnswersCollideCorrect == Spec => []WrongAnswersCollide
<1>1. CollideInv => WrongAnswersCollide
  BY CollidesModulo
     DEF CollideInv, AnswersCollide, WrongAnswersCollide, SameId
<1>. QED
  BY <1>1, CollideInvariant, PTL

(* Numbers of one block of IdModulus calls have different ids.             *)
LEMMA SmallRemainders ==
  ASSUME NEW n \in Nat \ {0}, NEW a \in 1 .. n, NEW b \in 1 .. n,
         a % n = b % n
  PROVE  a = b
<1>1. ASSUME NEW d \in 1 .. n
      PROVE  d % n = IF d = n THEN 0 ELSE d
  <2>1. CASE d = n
    <3>1. d = n * 1 + 0 /\ 0 \in 0 .. n - 1
      BY <2>1
    <3>. QED
      BY <2>1, <3>1, Remainder
  <2>2. CASE d # n
    <3>1. d = n * 0 + d /\ d \in 0 .. n - 1
      BY <2>2
    <3>2. (n * 0 + d) % n = d
      BY <3>1, Remainder
    <3>. QED
      BY <2>2, <3>1, <3>2
  <2>. QED
    BY <2>1, <2>2
<1>. QED
  BY <1>1

(* A thread is handed the answer to its own call, or one to a call that    *)
(* its peer made before it was last restarted.                             *)
OwnOrOlder ==
  \A c \in Callers : result[c] = "true" =>
    \/ resp_buf[c].of = CallOf(c)
    \/ /\ resp_buf[c].of[1] = Home[c]
       /\ resp_buf[c].of[2] <= born[Home[c]]

(* While the id counter has not wrapped, an answer that is not a thread's  *)
(* own comes from before the last restart of its peer: only a crash of the *)
(* peer that calls can mix up answers within the first IdModulus calls.    *)
THEOREM OwnAnswerOrOlder ==
  ASSUME \A p \in Peers : MaxCalls[p] <= IdModulus
  PROVE  Spec => []OwnOrOlder
<1>1. CollideInv => OwnOrOlder
  <2>. SUFFICES ASSUME CollideInv,
                       NEW c \in Callers, result[c] = "true",
                       ~ (resp_buf[c].of[2] <= born[Home[c]])
                PROVE  resp_buf[c].of = CallOf(c)
    BY DEF CollideInv, OwnOrOlder, AnswersCollide, SameId
  <2>. DEFINE k == resp_buf[c].of  p == Home[c]
  <2>1. k \in CallNumbers /\ k[1] = p
    BY DEF CollideInv, AnswersCollide, SameId, Payloads
  <2>2. /\ p \in Peers /\ serial[c] \in 1 .. MaxCalls[p]
        /\ born[p] \in Nat /\ MaxCalls[p] \in Nat
        /\ IdModulus \in Nat \ {0}
    BY MessageAssumption, CallRemoteAssumption
       DEF CollideInv, AnswersCollide, TypeOK, CallTypeOK
  <2>3. k[2] \in 1 .. MaxCalls[p] /\ k = <<k[1], k[2]>>
    BY <2>1 DEF CallNumbers
  <2>4. k[2] % IdModulus = serial[c] % IdModulus
    BY CollidesModulo
  <2>5. k[2] = serial[c]
    <3>1. k[2] \in 1 .. IdModulus /\ serial[c] \in 1 .. IdModulus
      BY <2>2, <2>3
    <3>. HIDE DEF k
    <3>. QED
      BY <2>2, <2>4, <3>1, SmallRemainders
  <2>. QED
    BY <2>1, <2>3, <2>5 DEF CallOf
<1>. QED
  BY <1>1, CollideInvariant, PTL

-----------------------------------------------------------------------------
(* Two peers that do not crash, with their workers and their connection,   *)
(* implement the network of AsyncRpc.  What carries it is that a call      *)
(* never has two messages under way, in the connection or held by a        *)
(* worker, so that consuming one leaves none behind.                       *)

(* Sequences of messages with at most one of each call.                    *)
OnceIn(s) == \A i, j \in DOMAIN s : SameCall(s[i], s[j]) => i = j

LEMMA SameCallSymmetric ==
  \A m, n : SameCall(m, n) => SameCall(n, m)
BY DEF SameCall

LEMMA AppendOnce ==
  ASSUME NEW s \in Seq(Messages), NEW m \in Messages, OnceIn(s),
         \A i \in DOMAIN s : ~ SameCall(m, s[i])
  PROVE  OnceIn(Append(s, m))
<1>. DEFINE t == Append(s, m)  n == Len(s)
<1>1. /\ n \in Nat /\ DOMAIN s = 1 .. n /\ DOMAIN t = 1 .. n + 1
      /\ t[n + 1] = m
      /\ \A i \in 1 .. n : t[i] = s[i]
  OBVIOUS
<1>. HIDE DEF t, n
<1>2. \A i \in 1 .. n + 1 : i = n + 1 \/ i \in 1 .. n
  BY <1>1
<1>3. OnceIn(t)
  BY <1>1, <1>2, SameCallSymmetric DEF OnceIn
<1>. QED
  BY <1>3 DEF t

LEMMA TailOnce ==
  ASSUME NEW s \in Seq(Messages), s # <<>>, OnceIn(s)
  PROVE  /\ OnceIn(Tail(s))
         /\ \A i \in DOMAIN Tail(s) : ~ SameCall(Head(s), Tail(s)[i])
         /\ {s[i] : i \in DOMAIN s}
              = {Tail(s)[i] : i \in DOMAIN Tail(s)} \cup {Head(s)}
<1>. DEFINE t == Tail(s)  n == Len(s)  h == Head(s)
<1>1. /\ n \in Nat \ {0} /\ DOMAIN s = 1 .. n /\ DOMAIN t = 1 .. n - 1
      /\ h = s[1]
      /\ \A i \in 1 .. n - 1 : t[i] = s[i + 1]
  OBVIOUS
<1>. HIDE DEF t, n, h
<1>2. \A i \in 1 .. n - 1 : i + 1 \in 1 .. n /\ i + 1 # 1
  BY <1>1
<1>3. \A i, j \in 1 .. n - 1 : i + 1 = j + 1 => i = j
  BY <1>1
<1>4. OnceIn(t)
  BY <1>1, <1>2, <1>3 DEF OnceIn
<1>5. \A i \in DOMAIN t : ~ SameCall(h, t[i])
  <2>1. 1 \in 1 .. n
    BY <1>1
  <2>. QED
    BY <1>1, <1>2, <2>1 DEF OnceIn
<1>6. {s[i] : i \in DOMAIN s} = {t[i] : i \in DOMAIN t} \cup {h}
  <2>1. \A i \in 1 .. n : i = 1 \/ \E j \in 1 .. n - 1 : i = j + 1
    <3>1. \A i \in 1 .. n : i # 1 => i - 1 \in 1 .. n - 1 /\ i = (i - 1) + 1
      BY <1>1
    <3>. QED
      BY <3>1
  <2>2. 1 \in 1 .. n
    BY <1>1
  <2>3. ASSUME NEW i \in DOMAIN s
        PROVE  s[i] \in {t[j] : j \in DOMAIN t} \cup {h}
    <3>1. CASE i = 1
      BY <1>1, <3>1
    <3>2. ASSUME NEW j \in 1 .. n - 1, i = j + 1
          PROVE  s[i] = t[j] /\ j \in DOMAIN t
      BY <1>1, <3>2
    <3>. QED
      BY <1>1, <2>1, <3>1, <3>2
  <2>4. \A j \in DOMAIN t : t[j] \in {s[i] : i \in DOMAIN s}
    BY <1>1, <1>2
  <2>5. h \in {s[i] : i \in DOMAIN s}
    BY <1>1, <2>2
  <2>. QED
    BY <2>3, <2>4, <2>5
<1>. QED
  BY <1>4, <1>5, <1>6 DEF t, h

LEMMA PrefixOnce ==
  ASSUME NEW s \in Seq(Messages), NEW n \in 0 .. Len(s), OnceIn(s)
  PROVE  OnceIn(SubSeq(s, 1, n))
<1>. DEFINE t == SubSeq(s, 1, n)
<1>1. DOMAIN t = 1 .. n /\ \A i \in 1 .. n : t[i] = s[i] /\ i \in DOMAIN s
  OBVIOUS
<1>. HIDE DEF t
<1>2. OnceIn(t)
  BY <1>1 DEF OnceIn
<1>. QED
  BY <1>2 DEF t

-----------------------------------------------------------------------------
(* The part of OneMessagePerCall about the connection, and the rest.       *)
LinkOnce ==
  /\ \A p \in Peers : OnceIn(link[p])
  /\ \A p \in Peers : \A m \in InLink(p), n \in InLink(Other(p)) :
       ~ SameCall(m, n)

HeldOnce ==
  /\ \A w \in Workers, p \in Peers : \A m \in InLink(p) :
       ~ SameCall(held[w], m)
  /\ \A v, w \in Workers : SameCall(held[v], held[w]) => v = w

LEMMA OnceParts == OneMessagePerCall <=> LinkOnce /\ HeldOnce
BY DEF OneMessagePerCall, LinkOnce, HeldOnce, OnceIn

(* A message of no call that is in the connection may be sent.             *)
LEMMA SentOnce ==
  ASSUME LinkTypeOK, LinkOnce, NEW p \in Peers, NEW m \in Messages,
         Transmit(p, m),
         \A q \in Peers : \A n \in InLink(q) : ~ SameCall(m, n)
  PROVE  LinkOnce'
<1>. DEFINE o == Other(p)
<1>0. o \in Peers /\ Other(o) = p
  BY OtherPeer
<1>1. /\ InLink(o)' = InLink(o) \cup {m}
      /\ \A q \in Peers \ {o} : InLink(q)' = InLink(q)
  BY Transmitted
<1>2. /\ link'[o] = Append(link[o], m)
      /\ \A q \in Peers \ {o} : link'[q] = link[q]
  BY <1>0 DEF Transmit, LinkTypeOK
<1>. HIDE DEF o
<1>3. OnceIn(Append(link[o], m))
  <2>1. \A i \in DOMAIN link[o] : ~ SameCall(m, link[o][i])
    BY <1>0 DEF InLink
  <2>. QED
    BY <1>0, <2>1, AppendOnce DEF LinkTypeOK, LinkOnce
<1>4. \A q \in Peers : OnceIn(link'[q])
  BY <1>2, <1>3 DEF LinkOnce
<1>5. ASSUME NEW q \in Peers, NEW a \in InLink(q)', NEW b \in InLink(Other(q))'
      PROVE  ~ SameCall(a, b)
  <2>0. Other(q) \in Peers /\ Other(q) # q
    BY OtherPeer
  <2>1. CASE q = o
    <3>1. a \in InLink(q) \/ a = m
      BY <1>1, <2>1
    <3>2. b \in InLink(Other(q))
      BY <1>1, <2>0, <2>1
    <3>. QED
      BY <2>0, <3>1, <3>2 DEF LinkOnce
  <2>2. CASE Other(q) = o
    <3>1. b \in InLink(Other(q)) \/ b = m
      BY <1>1, <2>2
    <3>2. a \in InLink(q)
      BY <1>1, <2>0, <2>2
    <3>. QED
      BY <2>0, <3>1, <3>2, SameCallSymmetric DEF LinkOnce
  <2>. QED
    BY <1>0, <2>0, <2>1, <2>2, OtherPeer
<1>. QED
  BY <1>4, <1>5 DEF LinkOnce, OnceIn

(* The message taken was the only one of its call in the connection.       *)
LEMMA TakenOnce ==
  ASSUME LinkTypeOK, LinkOnce, NEW p \in Peers, TakeNext(p)
  PROVE  /\ LinkOnce'
         /\ \A q \in Peers : \A n \in InLink(q)' : ~ SameCall(Head(link[p]), n)
         /\ InLink(p) = InLink(p)' \cup {Head(link[p])}
         /\ \A q \in Peers \ {p} : InLink(q)' = InLink(q)
<1>0. link[p] \in Seq(Messages) /\ link[p] # <<>> /\ OnceIn(link[p])
  BY DEF LinkTypeOK, TakeNext, LinkOnce
<1>1. /\ link'[p] = Tail(link[p])
      /\ \A q \in Peers \ {p} : link'[q] = link[q]
  BY DEF TakeNext, LinkTypeOK
<1>2. /\ OnceIn(Tail(link[p]))
      /\ \A i \in DOMAIN Tail(link[p]) :
           ~ SameCall(Head(link[p]), Tail(link[p])[i])
      /\ InLink(p) = {Tail(link[p])[i] : i \in DOMAIN Tail(link[p])}
                       \cup {Head(link[p])}
  BY <1>0, TailOnce DEF InLink
<1>3. InLink(p) = InLink(p)' \cup {Head(link[p])}
  BY <1>1, <1>2 DEF InLink
<1>4. \A q \in Peers \ {p} : InLink(q)' = InLink(q)
  BY <1>1 DEF InLink
<1>5. \A q \in Peers : InLink(q)' \subseteq InLink(q)
  BY <1>3, <1>4
<1>6. ASSUME NEW q \in Peers, NEW n \in InLink(q)'
      PROVE  ~ SameCall(Head(link[p]), n)
  <2>1. CASE q = p
    <3>1. PICK i \in DOMAIN Tail(link[p]) : n = Tail(link[p])[i]
      BY <1>1, <2>1 DEF InLink
    <3>. QED
      BY <1>2, <3>1
  <2>2. CASE q # p
    <3>1. n \in InLink(Other(p)) /\ Head(link[p]) \in InLink(p)
      BY <1>3, <1>4, <2>2, OtherPeer
    <3>. QED
      BY <3>1 DEF LinkOnce
  <2>. QED
    BY <2>1, <2>2
<1>7. LinkOnce'
  <2>1. \A q \in Peers : OnceIn(link'[q])
    BY <1>1, <1>2 DEF LinkOnce
  <2>2. ASSUME NEW q \in Peers,
               NEW a \in InLink(q)', NEW b \in InLink(Other(q))'
        PROVE  ~ SameCall(a, b)
    BY <1>5, OtherPeer DEF LinkOnce
  <2>. QED
    BY <2>1, <2>2 DEF LinkOnce, OnceIn
<1>. QED
  BY <1>3, <1>4, <1>6, <1>7

LEMMA RemainedOnce ==
  ASSUME LinkTypeOK, LinkOnce, link' \in Remainders
  PROVE  LinkOnce'
<1>1. PICK n \in [Peers -> 0 .. Capacity] :
        /\ \A p \in Peers : n[p] <= Len(link[p])
        /\ link' = [p \in Peers |-> SubSeq(link[p], 1, n[p])]
  BY DEF Remainders
<1>2. ASSUME NEW p \in Peers
      PROVE  OnceIn(link'[p])
  <2>1. link[p] \in Seq(Messages) /\ n[p] \in 0 .. Len(link[p])
    BY <1>1, LinkAssumption DEF LinkTypeOK
  <2>2. OnceIn(SubSeq(link[p], 1, n[p]))
    BY <2>1, PrefixOnce DEF LinkOnce
  <2>. QED
    BY <1>1, <2>2
<1>3. ASSUME NEW q \in Peers, NEW a \in InLink(q)', NEW b \in InLink(Other(q))'
      PROVE  ~ SameCall(a, b)
  BY Remained, OtherPeer DEF LinkOnce
<1>. QED
  BY <1>2, <1>3 DEF LinkOnce, OnceIn

-----------------------------------------------------------------------------
(* What a worker holds after most steps belongs to the call of what it     *)
(* held before, if it holds anything.                                      *)
HeldInherits ==
  \A w \in Workers : \A m : SameCall(held'[w], m) => SameCall(held[w], m)

LEMMA InheritedOnce ==
  ASSUME HeldOnce, HeldInherits,
         \A w \in Workers, p \in Peers : \A m \in InLink(p)' :
           m \in InLink(p) \/ ~ SameCall(held'[w], m)
  PROVE  HeldOnce'
<1>1. ASSUME NEW w \in Workers, NEW p \in Peers, NEW m \in InLink(p)'
      PROVE  ~ SameCall(held'[w], m)
  BY DEF HeldOnce, HeldInherits
<1>2. ASSUME NEW v \in Workers, NEW w \in Workers,
             SameCall(held'[v], held'[w])
      PROVE  v = w
  <2>1. SameCall(held[v], held'[w])
    BY <1>2 DEF HeldInherits
  <2>2. SameCall(held[w], held[v])
    BY <2>1, SameCallSymmetric DEF HeldInherits
  <2>. QED
    BY <2>2 DEF HeldOnce
<1>. QED
  BY <1>1, <1>2 DEF HeldOnce, SameCall

LEMMA NoCallOf ==
  /\ \A m : ~ SameCall(Garbled, m) /\ ~ SameCall(m, Garbled)
  /\ \A m : ~ SameCall(NoMessage, m)
BY MessageKinds DEF SameCall, Messages

LEMMA AnswerInherits ==
  ASSUME NEW q \in Requests, NEW filled \in BOOLEAN
  PROVE  \A m : SameCall(Response(q, filled), m) => SameCall(q, m)
<1>1. Response(q, filled).payload.of = q.payload.of
  BY DEF Response
<1>. QED
  BY <1>1 DEF SameCall

(* Everything but a receiving worker passes messages on within their call. *)
LEMMA StepInherits ==
  ASSUME TypeOK, [Next]_vars, \A w \in Workers : ~ Receive(w)
  PROVE  HeldInherits
<1>0. WorkersTypeOK
  BY TypeParts
<1>. USE DEF WorkersTypeOK
<1>1. ASSUME NEW w \in Workers, Rearm(w)
      PROVE  HeldInherits
  <2>1. \A v \in Workers : held'[v] = held[v] \/ held'[v] = NoMessage
    BY <1>0, <1>1 DEF Rearm
  <2>. QED
    BY <2>1, NoCallOf DEF HeldInherits
<1>2. ASSUME NEW w \in Workers, Serve(w)
      PROVE  HeldInherits
  <2>. DEFINE filled == held[w].payload.of \in WellFormed
  <2>1. held[w] \in Requests
    BY <1>0, <1>2, HeldKinds DEF Serve, RunHandler
  <2>2. held' = [held EXCEPT ![w] = Response(held[w], filled)]
    BY <1>2 DEF Serve, RunHandler
  <2>3. filled \in BOOLEAN
    OBVIOUS
  <2>. HIDE DEF filled
  <2>4. \A v \in Workers :
          held'[v] = IF v = w THEN Response(held[w], filled) ELSE held[v]
    BY <1>0, <2>2
  <2>. QED
    BY <2>1, <2>3, <2>4, AnswerInherits DEF HeldInherits
<1>3. ASSUME NEW p \in Peers, Crash(p)
      PROVE  HeldInherits
  <2>1. \A v \in Workers : held'[v] = held[v] \/ held'[v] = NoMessage
    BY <1>3 DEF Crash
  <2>. QED
    BY <2>1, NoCallOf DEF HeldInherits
<1>4. CASE UNCHANGED held
  BY <1>4 DEF HeldInherits
<1>. QED
  BY <1>1, <1>2, <1>3, <1>4
     DEF Next, Handle, SendReply, Ignore, IgnoreRequest, KeepAnswer,
         HandleResponse, Reject, RejectMessage, Reply, ReplySpoilt,
         ReplyRefused, FinishReply, Call, NestedCall, HandlerCalls, Local,
         SendRequest, LinkLost, LinkBack, workerVars, vars

(* What is under way.                                                      *)
UnderwayIs ==
  \A m : m \in InFlight <=> \/ \E p \in Peers : m \in InLink(p)
                            \/ \E w \in Workers : m = held[w]

LEMMA Underway == UnderwayIs
<1>1. ASSUME NEW m
      PROVE  m \in UNION {InLink(p) : p \in Peers}
               <=> \E p \in Peers : m \in InLink(p)
  BY Zenon
<1>2. ASSUME NEW m
      PROVE  m \in {held[w] : w \in Workers} <=> \E w \in Workers : m = held[w]
  OBVIOUS
<1>. DEFINE U == UNION {InLink(p) : p \in Peers}
            H == {held[w] : w \in Workers}
<1>3. InFlight = U \cup H
  BY DEF InFlight
<1>4. /\ \A m : m \in U <=> \E p \in Peers : m \in InLink(p)
      /\ \A m : m \in H <=> \E w \in Workers : m = held[w]
  BY <1>1, <1>2, Zenon
<1>. HIDE DEF U, H
<1>. QED
  BY <1>3, <1>4 DEF UnderwayIs

LEMMA UnderwayNext == UnderwayIs'
BY Underway, PTL

(* A call never gets a second message: the one it has is consumed before   *)
(* the answer leaves, and what the other side sends is of another call.    *)
LEMMA OnceSteps ==
  ASSUME TypeOK, OneMessagePerCall, CallsApart, [Next]_vars
  PROVE  OneMessagePerCall'
<1>0. LinkTypeOK /\ WorkersTypeOK /\ LinkOnce /\ HeldOnce
  BY TypeParts, OnceParts
<1>1. ASSUME NEW w \in Workers, Receive(w)
      PROVE  LinkOnce' /\ HeldOnce'
  <2>. DEFINE p == Server[w]  m == Head(link[p])
  <2>1. /\ p \in Peers /\ TakeNext(p)
        /\ held' = [held EXCEPT ![w] = m]
    BY <1>1, HeldKinds DEF Receive, Enter
  <2>2. /\ LinkOnce'
        /\ \A q \in Peers : \A n \in InLink(q)' : ~ SameCall(m, n)
        /\ \A q \in Peers : InLink(q)' \subseteq InLink(q)
        /\ m \in InLink(p)
    BY <1>0, <2>1, TakenOnce
  <2>3. \A v \in Workers : held'[v] = IF v = w THEN m ELSE held[v]
    BY <1>0, <2>1 DEF WorkersTypeOK
  <2>. HIDE DEF m, p
  <2>4. ASSUME NEW v \in Workers, NEW q \in Peers, NEW n \in InLink(q)'
        PROVE  ~ SameCall(held'[v], n)
    BY <1>0, <2>2, <2>3 DEF HeldOnce
  <2>5. ASSUME NEW u \in Workers, NEW v \in Workers,
               SameCall(held'[u], held'[v])
        PROVE  u = v
    BY <1>0, <2>1, <2>2, <2>3, <2>5, SameCallSymmetric DEF HeldOnce
  <2>6. HeldOnce'
    BY <2>4, <2>5 DEF HeldOnce, SameCall
  <2>. QED
    BY <2>2, <2>6
<1>2. ASSUME NEW c \in Callers, SendRequest(c)
      PROVE  LinkOnce' /\ HeldOnce'
  <2>1. /\ Home[c] \in Peers /\ pc[c] = "registered"
        /\ RequestOf(c) \in Requests
        /\ RequestOf(c).payload.of = CallOf(c)
    BY <1>2, CallRemoteAssumption, RequestType
       DEF SendRequest, SendAccepted, TypeOK, RequestOf, Request
  <2>2. \A n \in InFlight : ~ SameCall(RequestOf(c), n)
    BY <2>1 DEF CallsApart, SameCall
  <2>3. /\ \A q \in Peers : \A n \in InLink(q) : n \in InFlight
        /\ \A v \in Workers : held[v] \in InFlight
    BY Underway DEF UnderwayIs
  <2>4. UNCHANGED held
    BY <1>2 DEF SendRequest, workerVars
  <2>5. RequestOf(c) \in Messages
    BY <2>1 DEF Messages
  <2>6. LinkOnce'
    BY <1>0, <1>2, <2>1, <2>2, <2>3, <2>5, SentOnce DEF SendRequest
  <2>7. \A q \in Peers : InLink(q)' \subseteq InLink(q) \cup {RequestOf(c)}
    BY <1>0, <1>2, <2>1, <2>5, Transmitted DEF SendRequest
  <2>8. HeldOnce'
    BY <1>0, <2>2, <2>3, <2>4, <2>7, SameCallSymmetric, InheritedOnce
       DEF HeldInherits
  <2>. QED
    BY <2>6, <2>8
<1>3. ASSUME NEW w \in Workers, Reply(w)
      PROVE  LinkOnce' /\ HeldOnce'
  <2>1. Server[w] \in Peers /\ held[w] \in Messages
    BY <1>0, <1>3, HeldKinds
       DEF Reply, FinishReply, WorkersTypeOK, Messages
  <2>2. LinkOnce'
    BY <1>0, <1>3, <2>1, SentOnce DEF Reply, HeldOnce
  <2>3. \A q \in Peers : InLink(q)' \subseteq InLink(q) \cup {held[w]}
    BY <1>0, <1>3, <2>1, Transmitted DEF Reply
  <2>4. \A v \in Workers : held'[v] = IF v = w THEN NoMessage ELSE held[v]
    BY <1>0, <1>3 DEF Reply, FinishReply, Rearm, WorkersTypeOK
  <2>5. \A v \in Workers : ~ SameCall(held'[v], held[w])
    BY <1>0, <2>4, NoCallOf DEF HeldOnce
  <2>6. HeldInherits
    BY <2>4, NoCallOf DEF HeldInherits
  <2>7. HeldOnce'
    BY <1>0, <2>3, <2>5, <2>6, InheritedOnce
  <2>. QED
    BY <2>2, <2>7
<1>4. ASSUME NEW w \in Workers, ReplySpoilt(w)
      PROVE  LinkOnce' /\ HeldOnce'
  <2>1. Server[w] \in Peers /\ Garbled \in Messages
    BY HeldKinds DEF Messages
  <2>2. LinkOnce'
    BY <1>0, <1>4, <2>1, NoCallOf, SentOnce DEF ReplySpoilt
  <2>3. \A q \in Peers : InLink(q)' \subseteq InLink(q) \cup {Garbled}
    BY <1>0, <1>4, <2>1, Transmitted DEF ReplySpoilt
  <2>4. \A v \in Workers : held'[v] = IF v = w THEN NoMessage ELSE held[v]
    BY <1>0, <1>4 DEF ReplySpoilt, FinishReply, Rearm, WorkersTypeOK
  <2>5. HeldInherits
    BY <2>4, NoCallOf DEF HeldInherits
  <2>6. HeldOnce'
    BY <1>0, <2>3, <2>5, NoCallOf, InheritedOnce
  <2>. QED
    BY <2>2, <2>6
<1>5. ASSUME link' \in Remainders, HeldInherits
      PROVE  LinkOnce' /\ HeldOnce'
  BY <1>0, <1>5, Remained, RemainedOnce, InheritedOnce
<1>6. ASSUME UNCHANGED link, HeldInherits
      PROVE  LinkOnce' /\ HeldOnce'
  <2>1. \A p \in Peers : InLink(p)' = InLink(p)
    BY <1>6 DEF InLink
  <2>2. HeldOnce'
    BY <1>0, <1>6, <2>1, InheritedOnce
  <2>3. LinkOnce'
    BY <1>0, <1>6, <2>1, OtherPeer DEF LinkOnce, OnceIn
  <2>. QED
    BY <2>2, <2>3
<1>7. \/ \E w \in Workers : Receive(w) \/ Reply(w) \/ ReplySpoilt(w)
      \/ \E c \in Callers : SendRequest(c)
      \/ link' \in Remainders
      \/ UNCHANGED link
  BY DEF Next, Handle, SendReply, Reject, Ignore, Serve, KeepAnswer,
         ReplyRefused, Call, NestedCall, Local, LinkLost, Disconnect,
         LinkBack, Reconnect, Crash, linkVars, vars
<1>8. LinkOnce' /\ HeldOnce'
  BY <1>1, <1>2, <1>3, <1>4, <1>5, <1>6, <1>7, StepInherits
<1>. QED
  BY <1>8 DEF OneMessagePerCall, LinkOnce, HeldOnce, OnceIn

-----------------------------------------------------------------------------
(* The calls messages under way belong to.                                 *)
LEMMA OriginKept ==
  ASSUME TypeOK, [Next]_vars,
         NEW m \in Requests \cup Responses, m \in InFlight'
  PROVE  \/ \E n \in InFlight :
              n \in Requests \cup Responses /\ n.payload.of = m.payload.of
         \/ \E c \in Callers : SendRequest(c) /\ m = RequestOf(c)
<1>1. \/ \E p \in Peers : m \in InLink(p)'
      \/ \E w \in Workers : m = held'[w]
  BY UnderwayNext DEF UnderwayIs
<1>2. ASSUME NEW p \in Peers, m \in InLink(p)'
      PROVE  m \in InFlight
               \/ \E c \in Callers : SendRequest(c) /\ m = RequestOf(c)
  <2>1. m # Garbled
    BY MessageKinds
  <2>. QED
    BY <1>2, <2>1, WhatIsSent, Underway DEF UnderwayIs
<1>3. ASSUME NEW w \in Workers, m = held'[w]
      PROVE  \E n \in InFlight :
               n \in Requests \cup Responses /\ n.payload.of = m.payload.of
  <2>1. m # NoMessage
    BY MessageKinds DEF Messages
  <2>2. CASE m = held[w]
    BY <2>2, Underway DEF UnderwayIs
  <2>3. CASE m \in InLink(Server[w])
    BY <2>3, HeldKinds, Underway DEF UnderwayIs
  <2>4. ASSUME held[w] \in Requests,
               NEW filled \in BOOLEAN, m = Response(held[w], filled)
        PROVE  \E n \in InFlight :
                 n \in Requests \cup Responses /\ n.payload.of = m.payload.of
    <3>1. m.payload.of = held[w].payload.of
      BY <2>4 DEF Response
    <3>. QED
      BY <2>4, <3>1, Underway DEF UnderwayIs
  <2>. QED
    BY <1>3, <2>1, <2>2, <2>3, <2>4, WhatIsHeld
<1>. QED
  BY <1>1, <1>2, <1>3

(* No message is under way for a call its peer has not made yet.           *)
LEMMA UnderwayCalls ==
  ASSUME TypeOK, Directed, NEW m \in InFlight,
         m \in Requests \cup Responses
  PROVE  m.payload.of[2] <= calls[m.payload.of[1]]
BY Underway DEF UnderwayIs, Directed, Addressed

(* Calls in progress have numbers of their own, and nothing is under way   *)
(* for a call that has not been sent.                                      *)
LEMMA ApartSteps ==
  ASSUME TypeOK, Directed, CallsApart, [Next]_vars
  PROVE  CallsApart'
<1>0. /\ CallTypeOK
      /\ calls \in [Peers -> Nat] /\ serial \in [Callers -> Nat]
      /\ pc \in [Callers -> Stages]
      /\ \A c \in Callers : Home[c] \in Peers /\ serial[c] <= calls[Home[c]]
  BY CallRemoteAssumption DEF TypeOK, CallTypeOK, Directed
<1>1. ASSUME NEW c \in Callers, NEW m \in Methods, BeginCall(c, m)
      PROVE  CallsApart'
  <2>1. /\ pc' = [pc EXCEPT ![c] = "built"]
        /\ serial' = [serial EXCEPT ![c] = calls[Home[c]] + 1]
    BY <1>1 DEF BeginCall
  <2>2. \A d \in Callers \ {c} : pc'[d] = pc[d] /\ CallOf(d)' = CallOf(d)
    BY <1>0, <2>1 DEF CallOf
  <2>3. CallOf(c)' = <<Home[c], calls[Home[c]] + 1>>
    BY <1>0, <2>1 DEF CallOf
  <2>4. \A d \in Callers : CallOf(d) # CallOf(c)'
    BY <1>0, <2>3 DEF CallOf
  <2>5. ASSUME NEW d \in Callers, NEW e \in Callers,
               pc'[d] # "idle", pc'[e] # "idle", CallOf(d)' = CallOf(e)'
        PROVE  d = e
    BY <2>2, <2>4, <2>5 DEF CallsApart
  <2>6. ASSUME NEW d \in Callers, pc'[d] \in {"built", "registered"},
               NEW n \in InFlight', n \in Requests \cup Responses
        PROVE  n.payload.of # CallOf(d)'
    <3>1. \A e \in Callers : ~ SendRequest(e)
      <4>1. ASSUME NEW e \in Callers, SendRequest(e)
            PROVE  FALSE
        BY <1>0, <1>1, <4>1 DEF SendRequest, SendAccepted, BeginCall
      <4>. QED
        BY <4>1
    <3>2. PICK k \in InFlight :
            k \in Requests \cup Responses /\ k.payload.of = n.payload.of
      BY <2>6, <3>1, OriginKept
    <3>3. CASE d = c
      <4>1. k.payload.of[2] <= calls[k.payload.of[1]]
        BY <3>2, UnderwayCalls
      <4>2. k.payload.of # <<Home[c], calls[Home[c]] + 1>>
        BY <1>0, <4>1
      <4>. QED
        BY <2>3, <3>2, <3>3, <4>2
    <3>4. CASE d # c
      BY <2>2, <2>6, <3>2, <3>4 DEF CallsApart
    <3>. QED
      BY <3>3, <3>4
  <2>. QED
    BY <2>5, <2>6 DEF CallsApart
<1>2. ASSUME UNCHANGED serial,
             \A c \in Callers :
               /\ pc'[c] # "idle" => pc[c] # "idle"
               /\ pc'[c] \in {"built", "registered"}
                    => pc[c] \in {"built", "registered"}
      PROVE  CallsApart'
  <2>1. \A c \in Callers : CallOf(c)' = CallOf(c)
    BY <1>2 DEF CallOf
  <2>2. ASSUME NEW c \in Callers, pc'[c] \in {"built", "registered"},
               NEW n \in InFlight', n \in Requests \cup Responses
        PROVE  n.payload.of # CallOf(c)
    <3>1. ASSUME NEW k \in InFlight, k \in Requests \cup Responses,
                 k.payload.of = n.payload.of
          PROVE  n.payload.of # CallOf(c)
      BY <1>2, <2>2, <3>1 DEF CallsApart
    <3>2. ASSUME NEW d \in Callers, SendRequest(d), n = RequestOf(d)
          PROVE  n.payload.of # CallOf(c)
      <4>1. pc[d] = "registered" /\ pc'[d] = "waiting"
        BY <1>0, <3>2 DEF SendRequest, SendAccepted
      <4>2. c # d /\ n.payload.of = CallOf(d)
        BY <2>2, <3>2, <4>1 DEF RequestOf, Request
      <4>3. pc[c] # "idle"
        BY <1>2, <2>2
      <4>. QED
        BY <4>1, <4>2, <4>3 DEF CallsApart
    <3>. QED
      BY <2>2, <3>1, <3>2, OriginKept
  <2>. QED
    BY <1>2, <2>1, <2>2 DEF CallsApart
<1>3. ASSUME NEW c \in Callers, LocalStep(c) \/ SendAccepted(c)
      PROVE  CallsApart'
  BY <1>0, <1>2, <1>3
     DEF LocalStep, AllocFails, Register, SendRefused, WaitTimesOut,
         DropEntry, TakeAnswer, SendAccepted, Return
<1>4. ASSUME NEW p \in Peers, Crash(p)
      PROVE  CallsApart'
  BY <1>2, <1>4 DEF Crash
<1>5. CASE UNCHANGED <<pc, serial>>
  BY <1>2, <1>5
<1>. QED
  BY <1>1, <1>3, <1>4, <1>5, StepKinds DEF CallStep, KeepPromise, callVars

LEMMA InitNetworkInv == Init => NetworkInv
<1>. SUFFICES ASSUME Init PROVE NetworkInv
  OBVIOUS
<1>1. \A m : m \in InFlight => m = NoMessage
  BY InitEmpty, Underway DEF UnderwayIs
<1>2. OneMessagePerCall
  <2>1. \A p \in Peers : link[p] = <<>>
    BY DEF Init, LinkInit
  <2>2. DOMAIN <<>> = {}
    OBVIOUS
  <2>. QED
    BY <2>1, <2>2, InitEmpty, NoCallOf DEF OneMessagePerCall
<1>3. CallsApart
  BY DEF Init, CallInit, CallsApart
<1>. QED
  BY <1>2, <1>3, InitTypeOK, InitDirected DEF NetworkInv

LEMMA NetworkInvSteps ==
  NetworkInv /\ [Next]_vars => NetworkInv'
BY TypeSteps, DirectedSteps, OnceSteps, ApartSteps DEF NetworkInv

-----------------------------------------------------------------------------
(* What is on the network of AsyncRpc: every message under way that will   *)
(* verify.                                                                 *)
Net == InFlight \ {Garbled, NoMessage}

(* The network after a step that changes what worker w holds, and no more. *)
LEMMA HeldChanges ==
  ASSUME UNCHANGED link, NEW w \in Workers, NEW m,
         \A v \in Workers : held'[v] = IF v = w THEN m ELSE held[v]
  PROVE  InFlight' \subseteq InFlight \cup {m}
<1>1. \A p \in Peers : InLink(p)' = InLink(p)
  BY DEF InLink
<1>2. ASSUME NEW n \in InFlight'
      PROVE  n \in InFlight \cup {m}
  <2>1. CASE \E p \in Peers : n \in InLink(p)'
    BY <1>1, <2>1, Underway DEF UnderwayIs
  <2>2. CASE \E v \in Workers : n = held'[v]
    BY <2>2, Underway DEF UnderwayIs
  <2>. QED
    BY <1>2, <2>1, <2>2, UnderwayNext DEF UnderwayIs
<1>. QED
  BY <1>2

(* It loses the message w held, which nobody else has.                     *)
LEMMA HeldReplaced ==
  ASSUME OneMessagePerCall, UNCHANGED link, NEW w \in Workers, NEW m,
         \A v \in Workers : held'[v] = IF v = w THEN m ELSE held[v],
         held[w] \in Requests \cup Responses, held[w] # m
  PROVE  InFlight' = (InFlight \ {held[w]}) \cup {m}
<1>1. \A p \in Peers : InLink(p)' = InLink(p)
  BY DEF InLink
<1>2. SameCall(held[w], held[w])
  BY DEF SameCall
<1>3. \A p \in Peers : held[w] \notin InLink(p)
  BY <1>2 DEF OneMessagePerCall
<1>4. \A v \in Workers : v # w => held[v] # held[w]
  BY <1>2 DEF OneMessagePerCall
<1>5. held[w] \notin InFlight'
  BY <1>1, <1>3, <1>4, UnderwayNext DEF UnderwayIs
<1>6. m \in InFlight'
  BY UnderwayNext DEF UnderwayIs
<1>7. ASSUME NEW n \in InFlight, n # held[w]
      PROVE  n \in InFlight'
  <2>1. CASE \E p \in Peers : n \in InLink(p)
    BY <1>1, <2>1, UnderwayNext DEF UnderwayIs
  <2>2. CASE \E v \in Workers : n = held[v]
    BY <1>7, <2>2, UnderwayNext DEF UnderwayIs
  <2>. QED
    BY <2>1, <2>2, Underway DEF UnderwayIs
<1>. QED
  BY <1>5, <1>6, <1>7, HeldChanges

(* Sending moves a message from the worker into the connection.            *)
LEMMA LinkGains ==
  ASSUME LinkTypeOK, NEW p \in Peers, NEW m \in Messages, Transmit(p, m),
         \A v \in Workers : held'[v] \in {held[v], NoMessage}
  PROVE  /\ InFlight' \subseteq InFlight \cup {m, NoMessage}
         /\ m \in InFlight'
         /\ \A n \in InFlight :
              (\A v \in Workers : n = held[v] => n = m \/ held'[v] = n)
                => n \in InFlight'
<1>1. /\ Other(p) \in Peers
      /\ InLink(Other(p))' = InLink(Other(p)) \cup {m}
      /\ \A q \in Peers \ {Other(p)} : InLink(q)' = InLink(q)
  BY OtherPeer, Transmitted
<1>2. ASSUME NEW n \in InFlight'
      PROVE  n \in InFlight \cup {m, NoMessage}
  <2>1. CASE \E q \in Peers : n \in InLink(q)'
    BY <1>1, <2>1, Underway DEF UnderwayIs
  <2>2. CASE \E v \in Workers : n = held'[v]
    BY <2>2, Underway DEF UnderwayIs
  <2>. QED
    BY <1>2, <2>1, <2>2, UnderwayNext DEF UnderwayIs
<1>3. m \in InFlight'
  BY <1>1, UnderwayNext DEF UnderwayIs
<1>4. ASSUME NEW n \in InFlight,
             \A v \in Workers : n = held[v] => n = m \/ held'[v] = n
      PROVE  n \in InFlight'
  <2>1. CASE \E q \in Peers : n \in InLink(q)
    BY <1>1, <2>1, UnderwayNext DEF UnderwayIs
  <2>2. CASE \E v \in Workers : n = held[v]
    BY <1>3, <1>4, <2>2, UnderwayNext DEF UnderwayIs
  <2>. QED
    BY <2>1, <2>2, Underway DEF UnderwayIs
<1>. QED
  BY <1>2, <1>3, <1>4

(* Receiving moves a message from the connection to the worker.            *)
LEMMA LinkGives ==
  ASSUME LinkTypeOK, LinkOnce, NEW w \in Workers, Server[w] \in Peers,
         held[w] = NoMessage, TakeNext(Server[w]),
         \A v \in Workers :
           held'[v] = IF v = w THEN Head(link[Server[w]]) ELSE held[v]
  PROVE  Net' = Net
<1>. DEFINE p == Server[w]  m == Head(link[p])
<1>1. /\ InLink(p) = InLink(p)' \cup {m}
      /\ \A q \in Peers \ {p} : InLink(q)' = InLink(q)
  BY TakenOnce
<1>2. p \in Peers /\ \A v \in Workers : held'[v] = IF v = w THEN m ELSE held[v]
  OBVIOUS
<1>. HIDE DEF m, p
<1>3. ASSUME NEW n \in InFlight'
      PROVE  n \in InFlight
  <2>1. CASE \E q \in Peers : n \in InLink(q)'
    BY <1>1, <1>2, <2>1, Underway DEF UnderwayIs
  <2>2. CASE \E v \in Workers : n = held'[v]
    BY <1>1, <1>2, <2>2, Underway DEF UnderwayIs
  <2>. QED
    BY <1>3, <2>1, <2>2, UnderwayNext DEF UnderwayIs
<1>4. ASSUME NEW n \in InFlight, n # NoMessage
      PROVE  n \in InFlight'
  <2>0. m \in InFlight'
    BY <1>2, UnderwayNext DEF UnderwayIs
  <2>1. CASE \E q \in Peers : n \in InLink(q)
    BY <1>1, <1>2, <2>0, <2>1, UnderwayNext DEF UnderwayIs
  <2>2. CASE \E v \in Workers : n = held[v]
    BY <1>2, <1>4, <2>2, UnderwayNext DEF UnderwayIs
  <2>. QED
    BY <2>1, <2>2, Underway DEF UnderwayIs
<1>. QED
  BY <1>3, <1>4 DEF Net

-----------------------------------------------------------------------------
(* Both specifications have the actions of CallRemote in common.           *)
LEMMA SameActions ==
  /\ \A c \in Callers, m \in Methods :
       BeginCall(c, m) => Network!BeginCall(c, m)
  /\ \A c \in Callers : LocalStep(c) => Network!LocalStep(c)
  /\ \A c \in Callers : SendAccepted(c) => Network!SendAccepted(c)
  /\ \A c \in Callers : RequestOf(c) = Network!RequestOf(c)
  /\ \A q \in Requests, filled \in BOOLEAN :
       Response(q, filled) = Network!Response(q, filled)
  /\ \A p \in Peers, r \in Responses :
       KeepPromise(p, r) => Network!KeepPromise(p, r)
<1>. USE DEF NextId, Network!NextId, Entry, Network!Entry, Return,
         Network!Return, Stored, Network!Stored, Erased, Network!Erased,
         Abandoned, Network!Abandoned, Ids, Network!Ids
<1>1. ASSUME NEW c \in Callers, NEW m \in Methods, BeginCall(c, m)
      PROVE  Network!BeginCall(c, m)
  BY <1>1 DEF BeginCall, Network!BeginCall
<1>2. ASSUME NEW c \in Callers, AllocFails(c)
      PROVE  Network!AllocFails(c)
  BY <1>2 DEF AllocFails, Network!AllocFails
<1>3. ASSUME NEW c \in Callers, Register(c)
      PROVE  Network!Register(c)
  BY <1>3 DEF Register, Network!Register
<1>4. ASSUME NEW c \in Callers, SendRefused(c)
      PROVE  Network!SendRefused(c)
  BY <1>4 DEF SendRefused, Network!SendRefused
<1>5. ASSUME NEW c \in Callers, WaitTimesOut(c)
      PROVE  Network!WaitTimesOut(c)
  BY <1>5 DEF WaitTimesOut, Network!WaitTimesOut
<1>6. ASSUME NEW c \in Callers, DropEntry(c)
      PROVE  Network!DropEntry(c)
  BY <1>6 DEF DropEntry, Network!DropEntry
<1>7. ASSUME NEW c \in Callers, TakeAnswer(c)
      PROVE  Network!TakeAnswer(c)
  BY <1>7 DEF TakeAnswer, Network!TakeAnswer
<1>8. ASSUME NEW c \in Callers, SendAccepted(c)
      PROVE  Network!SendAccepted(c)
  BY <1>8 DEF SendAccepted, Network!SendAccepted
<1>9. \A c \in Callers : RequestOf(c) = Network!RequestOf(c)
  BY DEF RequestOf, Network!RequestOf, CallOf, Network!CallOf, Request,
         Network!Request
<1>10. \A q \in Requests, filled \in BOOLEAN :
         Response(q, filled) = Network!Response(q, filled)
  BY DEF Response, Network!Response
<1>11. ASSUME NEW p \in Peers, NEW r \in Responses, KeepPromise(p, r)
       PROVE  Network!KeepPromise(p, r)
  BY <1>11 DEF KeepPromise, Network!KeepPromise
<1>. QED
  BY <1>1, <1>2, <1>3, <1>4, <1>5, <1>6, <1>7, <1>8, <1>9, <1>10, <1>11
     DEF LocalStep, Network!LocalStep

(* Losing messages of the network, with the peers as they are.             *)
LEMMA LosesMessages ==
  ASSUME Net' \subseteq Net, UNCHANGED callVars, UNCHANGED executions
  PROVE  Network!Next
<1>. DEFINE lost == Net \ Net'
<1>1. Net' = Net \ lost
  OBVIOUS
<1>2. lost \in SUBSET (InFlight \ {Garbled, NoMessage})
  BY DEF Net
<1>3. Network!Lose(lost)
  BY <1>1, Zenon DEF Network!Lose, Network!callVars, callVars, Net
<1>. QED
  BY <1>2, <1>3, Zenon DEF Network!Next

(* A step of the peers that do not crash is one of the network, or none.   *)
LEMMA NetworkSteps ==
  ASSUME MaxCrashes = 0, NetworkInv, [Next]_vars
  PROVE  [Network!Next]_Network!vars
<1>0. /\ TypeOK /\ Directed /\ OneMessagePerCall /\ CallsApart
      /\ LinkTypeOK /\ WorkersTypeOK /\ LinkOnce
  BY TypeParts, OnceParts DEF NetworkInv
<1>. SUFFICES Network!Next \/ (Net' = Net /\ UNCHANGED <<callVars, executions>>)
  BY Zenon DEF Network!vars, Network!callVars, callVars, Net
<1>1. (UNCHANGED link /\ UNCHANGED held) => Net' = Net
  BY DEF Net, InFlight, InLink
<1>2. ASSUME NEW c \in Callers, NEW m \in Methods, BeginCall(c, m),
             UNCHANGED <<link, held, executions>>
      PROVE  Network!Next
  <2>1. Network!BeginCall(c, m)
    BY <1>2, SameActions
  <2>2. Net' = Net
    BY <1>1, <1>2
  <2>. QED
    BY <1>2, <2>1, <2>2 DEF Network!Next, Net
<1>3. ASSUME NEW c \in Callers, Local(c)
      PROVE  Network!Next
  <2>1. Network!LocalStep(c)
    BY <1>3, SameActions DEF Local
  <2>2. Net' = Net /\ UNCHANGED executions
    BY <1>1, <1>3 DEF Local, workerVars, linkVars, countVars
  <2>. QED
    BY <2>1, <2>2 DEF Network!Next, Net
<1>4. ASSUME NEW c \in Callers, SendRequest(c)
      PROVE  Network!Next
  <2>1. /\ Home[c] \in Peers /\ RequestOf(c) \in Requests
        /\ UNCHANGED held /\ UNCHANGED executions
    BY <1>4, <1>0, CallRemoteAssumption, RequestType
       DEF SendRequest, SendAccepted, TypeOK, workerVars, countVars
  <2>2. RequestOf(c) \in Messages \ {Garbled, NoMessage}
    BY <2>1, MessageKinds DEF Messages
  <2>3. /\ InFlight' \subseteq InFlight \cup {RequestOf(c), NoMessage}
        /\ RequestOf(c) \in InFlight'
        /\ \A n \in InFlight : n \in InFlight'
    BY <1>0, <1>4, <2>1, <2>2, LinkGains DEF SendRequest
  <2>4. Net' = Net \cup {RequestOf(c)}
    BY <2>2, <2>3 DEF Net
  <2>5. Network!SendAccepted(c) /\ Network!RequestOf(c) = RequestOf(c)
    BY <1>4, SameActions DEF SendRequest
  <2>6. Network!SendRequest(c)
    BY <2>1, <2>4, <2>5 DEF Network!SendRequest, Net
  <2>. QED
    BY <2>6 DEF Network!Next
<1>5. ASSUME NEW w \in Workers, Receive(w)
      PROVE  Net' = Net /\ UNCHANGED <<callVars, executions>>
  <2>1. /\ held[w] = NoMessage /\ Server[w] \in Peers
        /\ TakeNext(Server[w])
        /\ \A v \in Workers :
             held'[v] = IF v = w THEN Head(link[Server[w]]) ELSE held[v]
    BY <1>0, <1>5, HeldKinds DEF Receive, Enter, WorkersTypeOK
  <2>. QED
    BY <1>0, <1>5, <2>1, LinkGives DEF Receive, countVars
<1>6. ASSUME NEW w \in Workers, Rearm(w), UNCHANGED link,
             UNCHANGED callVars, UNCHANGED executions
      PROVE  Network!Next
  <2>1. \A v \in Workers : held'[v] = IF v = w THEN NoMessage ELSE held[v]
    BY <1>0, <1>6 DEF Rearm, WorkersTypeOK
  <2>2. InFlight' \subseteq InFlight \cup {NoMessage}
    BY <1>6, <2>1, HeldChanges
  <2>3. Net' \subseteq Net
    BY <2>2 DEF Net
  <2>. QED
    BY <1>6, <2>3, LosesMessages
<1>7. ASSUME NEW w \in Workers, Serve(w)
      PROVE  Network!Next
  <2>. DEFINE filled == held[w].payload.of \in WellFormed  q == held[w]
              r == Response(q, filled)
  <2>1. q \in Requests /\ q.type = "REQUEST"
    BY <1>0, <1>7, HeldKinds, MessageKinds DEF Serve, RunHandler, WorkersTypeOK
  <2>2. filled \in BOOLEAN
    OBVIOUS
  <2>3. /\ held' = [held EXCEPT ![w] = r]
        /\ executions' = IF filled
                           THEN [executions EXCEPT ![q.payload.of] = @ + 1]
                           ELSE executions
        /\ UNCHANGED link /\ UNCHANGED callVars
    BY <1>7 DEF Serve, RunHandler, linkVars
  <2>. HIDE DEF filled
  <2>4. r \in Responses /\ r # q
    BY <2>1, <2>2, ResponseType, MessageKinds
  <2>5. \A v \in Workers : held'[v] = IF v = w THEN r ELSE held[v]
    BY <1>0, <2>3 DEF WorkersTypeOK
  <2>. HIDE DEF r
  <2>6. InFlight' = (InFlight \ {q}) \cup {r}
    BY <1>0, <2>1, <2>3, <2>4, <2>5, HeldReplaced
  <2>7. r \notin {Garbled, NoMessage} /\ q \notin {Garbled, NoMessage}
    BY <2>1, <2>4, MessageKinds DEF Messages
  <2>8. q \in Net /\ Net' = (Net \ {q}) \cup {r}
    BY <2>6, <2>7, Underway DEF UnderwayIs, Net
  <2>9. r = Network!Response(q, filled)
    BY <2>1, <2>2, SameActions DEF r
  <2>10. Network!Serve(q, filled)
    BY <2>1, <2>3, <2>8, <2>9, Zenon
       DEF Network!Serve, Net, Network!callVars, callVars
  <2>. HIDE DEF q
  <2>. QED
    BY <2>2, <2>8, <2>10, Zenon DEF Network!Next, Net
<1>8. ASSUME NEW w \in Workers, KeepAnswer(w)
      PROVE  Network!Next
  <2>. DEFINE r == held[w]
  <2>1. /\ r \in Responses /\ r.type = "RESPONSE" /\ Server[w] \in Peers
        /\ stage[w] = "called"
    BY <1>8, <1>0, HeldKinds, MessageKinds
       DEF KeepAnswer, HandleResponse, Handling
  <2>2. r.payload.of[1] = Server[w]
    BY <1>0, <2>1 DEF Directed, Addressed
  <2>3. KeepPromise(Server[w], r) /\ UNCHANGED link /\ UNCHANGED executions
    BY <1>8 DEF KeepAnswer, linkVars, countVars
  <2>4. \A v \in Workers : held'[v] = IF v = w THEN NoMessage ELSE held[v]
    BY <1>0, <1>8 DEF KeepAnswer, HandleResponse, Rearm, WorkersTypeOK
  <2>5. r \notin {Garbled, NoMessage}
    BY <2>1, MessageKinds DEF Messages
  <2>6. InFlight' = (InFlight \ {r}) \cup {NoMessage}
    BY <1>0, <2>1, <2>3, <2>4, <2>5, HeldReplaced
  <2>7. r \in Net /\ Net' = Net \ {r}
    BY <2>5, <2>6, Underway DEF UnderwayIs, Net
  <2>8. Network!KeepPromise(r.payload.of[1], r)
    BY <2>1, <2>2, <2>3, SameActions
  <2>. HIDE DEF r
  <2>9. Network!Deliver(r)
    BY <2>1, <2>3, <2>7, <2>8 DEF Network!Deliver, Net
  <2>. QED
    BY <2>7, <2>9 DEF Network!Next, Net
<1>9. ASSUME NEW w \in Workers, Reply(w)
      PROVE  Net' = Net /\ UNCHANGED <<callVars, executions>>
  <2>1. /\ Server[w] \in Peers /\ held[w] \in Messages
        /\ held[w] \notin {NoMessage}
    BY <1>0, <1>9, HeldKinds, MessageKinds
       DEF Reply, FinishReply, WorkersTypeOK, Messages
  <2>2. \A v \in Workers : held'[v] = IF v = w THEN NoMessage ELSE held[v]
    BY <1>0, <1>9 DEF Reply, FinishReply, Rearm, WorkersTypeOK
  <2>3. /\ InFlight' \subseteq InFlight \cup {held[w], NoMessage}
        /\ \A n \in InFlight : n \in InFlight'
    BY <1>0, <1>9, <2>1, <2>2, LinkGains DEF Reply
  <2>4. held[w] \in InFlight
    BY Underway DEF UnderwayIs
  <2>5. Net' = Net
    BY <2>3, <2>4 DEF Net
  <2>. QED
    BY <1>9, <2>5 DEF Reply, countVars
<1>10. ASSUME NEW w \in Workers, ReplySpoilt(w)
       PROVE  Network!Next
  <2>1. Server[w] \in Peers /\ Garbled \in Messages
    BY <1>0, HeldKinds DEF Messages
  <2>2. \A v \in Workers : held'[v] = IF v = w THEN NoMessage ELSE held[v]
    BY <1>0, <1>10 DEF ReplySpoilt, FinishReply, Rearm, WorkersTypeOK
  <2>3. InFlight' \subseteq InFlight \cup {Garbled, NoMessage}
    BY <1>0, <1>10, <2>1, <2>2, LinkGains DEF ReplySpoilt
  <2>4. Net' \subseteq Net
    BY <2>3 DEF Net
  <2>. QED
    BY <1>10, <2>4, LosesMessages DEF ReplySpoilt
<1>11. CASE LinkLost
  <2>1. /\ \A q \in Peers : InLink(q)' \subseteq InLink(q)
        /\ UNCHANGED held /\ UNCHANGED callVars /\ UNCHANGED executions
    BY <1>0, <1>11, Remained DEF LinkLost, Disconnect, workerVars, countVars
  <2>2. ASSUME NEW n \in InFlight'
        PROVE  n \in InFlight
    BY <2>1, <2>2, Underway, UnderwayNext DEF UnderwayIs
  <2>3. Net' \subseteq Net
    BY <2>2 DEF Net
  <2>. QED
    BY <2>1, <2>3, LosesMessages
<1>12. CASE LinkBack \/ UNCHANGED vars
  BY <1>1, <1>12 DEF LinkBack, Reconnect, vars, workerVars, linkVars, countVars
<1>13. ASSUME NEW w \in Workers, Reject(w)
       PROVE  Net' = Net /\ UNCHANGED <<callVars, executions>>
  BY <1>1, <1>13 DEF Reject, RejectMessage, linkVars, countVars
<1>14. ASSUME NEW w \in Workers, Ignore(w) \/ ReplyRefused(w)
       PROVE  Network!Next
  BY <1>6, <1>14
     DEF Ignore, IgnoreRequest, ReplyRefused, FinishReply, linkVars, countVars
<1>15. ASSUME NEW c \in Callers, NEW m \in Methods, Call(c, m)
       PROVE  Network!Next
  BY <1>2, <1>15 DEF Call, workerVars, linkVars, countVars
<1>16. ASSUME NEW w \in Callers \cap Workers, NEW m \in Methods,
              NestedCall(w, m)
       PROVE  Network!Next
  BY <1>2, <1>16 DEF NestedCall, HandlerCalls, linkVars, countVars
<1>17. ASSUME NEW p \in Peers
       PROVE  ~ Crash(p)
  BY <1>0 DEF Crash, TypeOK
<1>. QED
  BY <1>3, <1>4, <1>5, <1>7, <1>8, <1>9, <1>10, <1>11, <1>12, <1>13, <1>14,
     <1>15, <1>16, <1>17
     DEF Next, Handle, SendReply

(* Peers that do not crash behave like callers on a network that delays,   *)
(* reorders and loses messages, but neither invents nor duplicates them:   *)
(* the workers, the bounded connection, its losses, the nested calls and   *)
(* the answers that are spoilt while they are sent add no behaviour.       *)
THEOREM ImplementsNetworkCorrect ==
  ASSUME MaxCrashes = 0
  PROVE  Spec => ImplementsNetwork
<1>1. Init => Network!Init
  <2>. SUFFICES ASSUME Init PROVE Network!Init
    OBVIOUS
  <2>1. \A m : m \in InFlight => m = NoMessage
    BY InitEmpty, Underway DEF UnderwayIs
  <2>2. InFlight \ {Garbled, NoMessage} = {}
    BY <2>1
  <2>3. Network!CallInit
    BY DEF Init, CallInit, Network!CallInit, Ids, Network!Ids
  <2>. QED
    BY <2>2, <2>3 DEF Init, Network!Init, CallNumbers, Network!CallNumbers
<1>2. NetworkInv /\ [Next]_vars => [Network!Next]_Network!vars
  BY NetworkSteps
<1>. QED
  BY <1>1, <1>2, InitNetworkInv, NetworkInvSteps, PTL
     DEF Spec, ImplementsNetwork, Network!Spec

-----------------------------------------------------------------------------
(* The handler ran at most once for every call, and not yet for one whose  *)
(* request has not been sent or is still under way.                        *)
ExecutedOnce ==
  /\ \A k \in CallNumbers :
       /\ executions[k] <= 1
       /\ k[2] > calls[k[1]] => executions[k] = 0
  /\ \A m \in InFlight : m \in Requests => executions[m.payload.of] = 0
  /\ \A c \in Callers :
       pc[c] \in {"built", "registered"} => executions[CallOf(c)] = 0

LEMMA RequestKept ==
  ASSUME TypeOK, [Next]_vars, NEW m \in Requests, m \in InFlight'
  PROVE  \/ m \in InFlight
         \/ \E c \in Callers : SendRequest(c) /\ m = RequestOf(c)
<1>0. m # Garbled /\ m # NoMessage /\ m \notin Responses
  BY MessageKinds DEF Messages
<1>1. ASSUME NEW p \in Peers, m \in InLink(p)'
      PROVE  m \in InFlight
               \/ \E c \in Callers : SendRequest(c) /\ m = RequestOf(c)
  BY <1>0, <1>1, WhatIsSent, Underway DEF UnderwayIs
<1>2. ASSUME NEW w \in Workers, m = held'[w]
      PROVE  m \in InFlight
  BY <1>0, <1>2, WhatIsHeld, HeldKinds, ResponseType, Underway
     DEF UnderwayIs
<1>. QED
  BY <1>1, <1>2, UnderwayNext DEF UnderwayIs

LEMMA ExecutedSteps ==
  ASSUME NetworkInv, ExecutedOnce, [Next]_vars
  PROVE  ExecutedOnce'
<1>0. /\ TypeOK /\ Directed /\ OneMessagePerCall /\ CallsApart /\ CallTypeOK
      /\ executions \in [CallNumbers -> Nat]
      /\ \A c \in Callers :
           Home[c] \in Peers /\ serial[c] <= calls[Home[c]]
  BY CallRemoteAssumption DEF NetworkInv, TypeOK, Directed
<1>1. \A k \in CallNumbers :
        /\ k[1] \in Peers /\ k[2] \in Nat
        /\ calls[k[1]] \in Nat /\ calls'[k[1]] \in Nat
        /\ calls[k[1]] <= calls'[k[1]]
  <2>1. \A k \in CallNumbers : k[1] \in Peers /\ k[2] \in Nat
    BY MessageAssumption DEF CallNumbers
  <2>. QED
    BY <1>0, <2>1, CallsGrow
<1>2. \A m \in Requests : m.payload.of \in CallNumbers
  BY DEF Requests, Payloads
<1>3. ASSUME NEW w \in Workers, Serve(w)
      PROVE  ExecutedOnce'
  <2>. DEFINE q == held[w]  k == q.payload.of
  <2>1. /\ q \in Requests /\ q \in InFlight
        /\ UNCHANGED link /\ UNCHANGED <<pc, serial, calls>>
        /\ held' = [held EXCEPT ![w] = Response(q, k \in WellFormed)]
    BY <1>0, <1>3, HeldKinds, Underway
       DEF UnderwayIs, Serve, RunHandler, TypeOK, WorkersTypeOK, linkVars,
           callVars
  <2>2. executions' = [executions EXCEPT ![k] = @ + 1]
          \/ executions' = executions
    BY <1>3 DEF Serve
  <2>3. k \in CallNumbers /\ executions[k] = 0 /\ k[2] <= calls[k[1]]
    BY <1>0, <1>2, <2>1, UnderwayCalls DEF ExecutedOnce
  <2>4. ASSUME NEW m \in InFlight', m \in Requests
        PROVE  m \in InFlight /\ m.payload.of # k
    <3>1. \A c \in Callers : ~ SendRequest(c)
      <4>1. ASSUME NEW c \in Callers, SendRequest(c)
            PROVE  FALSE
        BY <1>0, <2>1, <4>1 DEF SendRequest, SendAccepted, CallTypeOK
      <4>. QED
        BY <4>1
    <3>2. m \in InFlight
      BY <1>0, <2>4, <3>1, RequestKept
    <3>3. m.payload.of = k => m = q
      <4>1. SUFFICES ASSUME m.payload.of = k PROVE m = q
        OBVIOUS
      <4>2. SameCall(q, m)
        BY <2>1, <2>4, <4>1 DEF SameCall
      <4>. QED
        BY <1>0, <3>2, <4>2, Underway DEF UnderwayIs, OneMessagePerCall
    <3>4. m # q
      <4>. DEFINE r == Response(q, k \in WellFormed)
      <4>1. r # q /\ r # m
        <5>. DEFINE filled == k \in WellFormed
        <5>1. filled \in BOOLEAN
          OBVIOUS
        <5>. HIDE DEF filled
        <5>2. Response(q, filled) \in Responses
          BY <2>1, <5>1, ResponseType
        <5>3. q \notin Responses /\ m \notin Responses
          BY <2>1, <2>4, MessageKinds
        <5>. QED
          BY <5>2, <5>3 DEF filled
      <4>. HIDE DEF r
      <4>2. \A v \in Workers : held'[v] = IF v = w THEN r ELSE held[v]
        BY <1>0, <2>1 DEF TypeOK, WorkersTypeOK, r
      <4>3. q \notin Responses
        BY <2>1, MessageKinds
      <4>4. q \in Requests \cup Responses /\ q # r
        BY <2>1, <4>1
      <4>5. InFlight' = (InFlight \ {q}) \cup {r}
        BY <1>0, <2>1, <4>2, <4>4, HeldReplaced
      <4>. QED
        BY <2>4, <4>1, <4>5
    <3>. QED
      BY <3>2, <3>3, <3>4
  <2>5. ASSUME NEW c \in Callers, pc'[c] \in {"built", "registered"}
        PROVE  executions'[CallOf(c)] = 0 /\ CallOf(c)' = CallOf(c)
    <3>1. pc[c] \in {"built", "registered"} /\ CallOf(c)' = CallOf(c)
      BY <2>1, <2>5 DEF CallOf
    <3>2. CallOf(c) # k
      BY <1>0, <2>1, <3>1 DEF CallsApart
    <3>3. executions[CallOf(c)] = 0 /\ CallOf(c) \in CallNumbers
      BY <1>0, <3>1, RequestType DEF ExecutedOnce
    <3>. QED
      BY <1>0, <2>2, <2>3, <3>1, <3>2, <3>3
  <2>. HIDE DEF k
  <2>6. \A j \in CallNumbers :
          /\ executions'[j] <= 1
          /\ j # k => executions'[j] = executions[j]
    BY <1>0, <2>2, <2>3 DEF ExecutedOnce
  <2>7. \A j \in CallNumbers : j[2] > calls'[j[1]] => executions'[j] = 0
    BY <1>1, <2>1, <2>3, <2>6 DEF ExecutedOnce
  <2>8. \A m \in InFlight' : m \in Requests => executions'[m.payload.of] = 0
    BY <1>2, <2>4, <2>6 DEF ExecutedOnce
  <2>. QED
    BY <2>5, <2>6, <2>7, <2>8 DEF ExecutedOnce
<1>4. ASSUME UNCHANGED executions
      PROVE  ExecutedOnce'
  <2>1. \A k \in CallNumbers :
          /\ executions'[k] <= 1
          /\ k[2] > calls'[k[1]] => executions'[k] = 0
    BY <1>1, <1>4 DEF ExecutedOnce
  <2>2. ASSUME NEW m \in InFlight', m \in Requests
        PROVE  executions'[m.payload.of] = 0
    <3>1. CASE m \in InFlight
      BY <1>4, <2>2, <3>1 DEF ExecutedOnce
    <3>2. ASSUME NEW c \in Callers, SendRequest(c), m = RequestOf(c)
          PROVE  executions'[m.payload.of] = 0
      BY <1>4, <3>2
         DEF ExecutedOnce, SendRequest, SendAccepted, RequestOf, Request
    <3>. QED
      BY <1>0, <2>2, <3>1, <3>2, RequestKept
  <2>3. ASSUME NEW c \in Callers, pc'[c] \in {"built", "registered"}
        PROVE  executions'[CallOf(c)'] = 0
    <3>1. CASE pc[c] \in {"built", "registered"} /\ serial'[c] = serial[c]
      BY <1>4, <3>1 DEF ExecutedOnce, CallOf
    <3>2. CASE serial'[c] = calls[Home[c]] + 1 /\ pc'[c] = "built"
               /\ calls[Home[c]] < MaxCalls[Home[c]]
      <4>1. calls[Home[c]] \in Nat /\ MaxCalls[Home[c]] \in Nat
        BY <1>0, MessageAssumption DEF CallTypeOK
      <4>2. CallOf(c)' = <<Home[c], calls[Home[c]] + 1>>
        BY <3>2 DEF CallOf
      <4>3. CallOf(c)' \in CallNumbers
        BY <1>0, <3>2, <4>1, <4>2 DEF CallNumbers
      <4>. QED
        BY <1>4, <4>1, <4>2, <4>3 DEF ExecutedOnce
    <3>3. \/ pc[c] \in {"built", "registered"} /\ serial'[c] = serial[c]
          \/ /\ serial'[c] = calls[Home[c]] + 1 /\ pc'[c] = "built"
             /\ calls[Home[c]] < MaxCalls[Home[c]]
      <4>1. ASSUME NEW d \in Callers, NEW m \in Methods, BeginCall(d, m)
            PROVE  \/ /\ pc[c] \in {"built", "registered"}
                      /\ serial'[c] = serial[c]
                   \/ /\ serial'[c] = calls[Home[c]] + 1 /\ pc'[c] = "built"
                      /\ calls[Home[c]] < MaxCalls[Home[c]]
        BY <1>0, <2>3, <4>1 DEF BeginCall, CallTypeOK
      <4>2. ASSUME NEW d \in Callers, LocalStep(d) \/ SendAccepted(d)
            PROVE  pc[c] \in {"built", "registered"} /\ serial'[c] = serial[c]
        BY <1>0, <2>3, <4>2
           DEF LocalStep, AllocFails, Register, SendRefused, WaitTimesOut,
               DropEntry, TakeAnswer, SendAccepted, Return, CallTypeOK
      <4>3. ASSUME NEW p \in Peers, Crash(p)
            PROVE  pc[c] \in {"built", "registered"} /\ serial'[c] = serial[c]
        BY <2>3, <4>3 DEF Crash
      <4>4. CASE UNCHANGED <<pc, serial>>
        BY <2>3, <4>4
      <4>. QED
        BY <1>0, <4>1, <4>2, <4>3, <4>4, StepKinds
           DEF CallStep, KeepPromise, callVars
    <3>. QED
      BY <3>1, <3>2, <3>3
  <2>. QED
    BY <2>1, <2>2, <2>3 DEF ExecutedOnce
<1>5. UNCHANGED executions \/ \E w \in Workers : Serve(w)
  BY DEF Next, Handle, SendReply, Reject, Ignore, KeepAnswer, Reply,
         ReplySpoilt, ReplyRefused, Receive, Call, NestedCall, Local,
         SendRequest, LinkLost, LinkBack, Crash, countVars, vars
<1>. QED
  BY <1>3, <1>4, <1>5

(* The handler runs at most once for each call, whatever is lost, delayed, *)
(* timed out or crashes: nothing is ever sent again.                       *)
THEOREM HandlerRunsAtMostOnce ==
  Spec => [](\A k \in CallNumbers : executions[k] <= 1)
<1>1. Init => NetworkInv /\ ExecutedOnce
  <2>. SUFFICES ASSUME Init PROVE ExecutedOnce
    BY InitNetworkInv
  <2>1. \A k \in CallNumbers : executions[k] = 0
    BY DEF Init
  <2>2. \A m : m \in InFlight => m \notin Requests
    BY InitEmpty, Underway, MessageKinds DEF UnderwayIs, Messages
  <2>3. \A c \in Callers : pc[c] = "idle"
    BY DEF Init, CallInit
  <2>. QED
    BY <2>1, <2>2, <2>3 DEF ExecutedOnce
<1>2. (NetworkInv /\ ExecutedOnce) /\ [Next]_vars
        => (NetworkInv /\ ExecutedOnce)'
  BY NetworkInvSteps, ExecutedSteps
<1>3. ExecutedOnce => \A k \in CallNumbers : executions[k] <= 1
  BY DEF ExecutedOnce
<1>. QED
  BY <1>1, <1>2, <1>3, PTL DEF Spec
=============================================================================
