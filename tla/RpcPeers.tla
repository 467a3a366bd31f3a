------------------------------ MODULE RpcPeers ------------------------------
(***************************************************************************)
(* A NngUdsRpcPeerDial and a NngUdsRpcPeerListener at work after start():  *)
(* application threads in call_remote() and aio workers in recv_cb() on    *)
(* both sides of a pair0 connection that may be lost and reestablished, by *)
(* peer processes that may crash and be started again.                     *)
(***************************************************************************)
EXTENDS CallRemote, RecvWorkers, Pair0Link, FiniteSets

CONSTANTS
  WellFormed,  \* calls whose arguments verify as the handler's request type
  SpoilsReply, \* bound: peers whose recv_cb() may spoil the answer it sends
  MaxGarbled,  \* bound: how many answers are spoilt
  MaxCrashes   \* bound: how often a peer process is killed and restarted

ASSUME PeersAssumption ==
  /\ WellFormed \subseteq CallNumbers
  /\ SpoilsReply \subseteq Peers
  /\ MaxGarbled \in Nat
  /\ MaxCrashes \in Nat
  /\ \A w \in Callers \cap Workers : Home[w] = Server[w]

VARIABLES
  executions,  \* how often the registered handler ran for each call
  garbled,     \* answers spoilt so far
  crashes,     \* crashes so far
  born,        \* per peer: the calls made before its last restart
  idOf         \* per call: the id it was given

countVars == <<executions, garbled, crashes, born, idOf>>

vars == <<callVars, workerVars, linkVars, countVars>>

Init ==
  /\ CallInit
  /\ WorkersInit
  /\ LinkInit
  /\ executions = [k \in CallNumbers |-> 0]
  /\ garbled = 0
  /\ crashes = 0
  /\ born = [p \in Peers |-> 0]
  /\ idOf = [k \in CallNumbers |-> 0]

-----------------------------------------------------------------------------
(* Steps of application threads.  A worker that is among the callers calls *)
(* only from the handler it runs.                                          *)
GivesId(c) ==
  idOf' = [idOf EXCEPT ![<<Home[c], calls[Home[c]] + 1>>]
                         = next_request_id[Home[c]]]

Call(c, m) ==
  /\ c \notin Workers
  /\ BeginCall(c, m)
  /\ GivesId(c)
  /\ UNCHANGED <<workerVars, linkVars, executions, garbled, crashes, born>>

NestedCall(w, m) ==
  /\ HandlerCalls(w)
  /\ held[w].payload.of \in WellFormed
  /\ BeginCall(w, m)
  /\ GivesId(w)
  /\ UNCHANGED <<linkVars, executions, garbled, crashes, born>>

Local(c) ==
  /\ LocalStep(c)
  /\ UNCHANGED <<workerVars, linkVars, countVars>>

(* nng_sendmsg() in call_remote() returns 0.                               *)
SendRequest(c) ==
  /\ SendAccepted(c)
  /\ Transmit(Home[c], RequestOf(c))
  /\ UNCHANGED <<workerVars, countVars>>

-----------------------------------------------------------------------------
(* Steps of workers: nng completes the aio, and what recv_cb() then does.  *)
Receive(w) ==
  /\ TakeNext(Server[w])
  /\ Enter(w, Head(link[Server[w]]))
  /\ UNCHANGED <<callVars, countVars>>

Reject(w) ==
  /\ RejectMessage(w)
  /\ UNCHANGED <<callVars, linkVars, countVars>>

Ignore(w) ==
  /\ IgnoreRequest(w)
  /\ UNCHANGED <<callVars, linkVars, countVars>>

(* The wrapper runs the application's handler if the arguments verify.     *)
Serve(w) ==
  LET k == held[w].payload.of IN
  /\ stage[w] = "nested" => pc[w] = "idle"
  /\ RunHandler(w, k \in WellFormed)
  /\ executions' =
       IF k \in WellFormed THEN [executions EXCEPT ![k] = @ + 1]
                           ELSE executions
  /\ UNCHANGED <<callVars, linkVars, garbled, crashes, born, idOf>>

KeepAnswer(w) ==
  /\ HandleResponse(w)
  /\ KeepPromise(Server[w], held[w])
  /\ UNCHANGED <<linkVars, countVars>>

(* nng_sendmsg() of an answer returns 0.                                   *)
Reply(w) ==
  /\ FinishReply(w)
  /\ Transmit(Server[w], held[w])
  /\ UNCHANGED <<callVars, countVars>>

(* What nng sends is not the answer.  The listener frees the message once  *)
(* nng owns it; and neither peer looks at the result of nng_msg_alloc() of *)
(* its answer, so that it may send what an unset pointer points to.  One   *)
(* outcome is that nng sends whatever that memory holds; the others are    *)
(* that the answer is sent all the same (Reply) and that the process dies  *)
(* (Crash).                                                                *)
ReplySpoilt(w) ==
  /\ Server[w] \in SpoilsReply
  /\ garbled < MaxGarbled
  /\ garbled' = garbled + 1
  /\ FinishReply(w)
  /\ Transmit(Server[w], Garbled)
  /\ UNCHANGED <<callVars, executions, crashes, born, idOf>>

(* nng_sendmsg() of an answer returns an error, which nobody looks at.     *)
ReplyRefused(w) ==
  /\ FinishReply(w)
  /\ UNCHANGED <<callVars, linkVars, countVars>>

-----------------------------------------------------------------------------
LinkLost ==
  /\ Disconnect
  /\ UNCHANGED <<callVars, workerVars, countVars>>

LinkBack ==
  /\ Reconnect
  /\ UNCHANGED <<callVars, workerVars, countVars>>

(* The process of peer p dies and is started again: a new object with its  *)
(* id counter at 1, no promises, all its aios armed, and no thread of it   *)
(* in a call.  calls, which only gives calls their numbers, goes on.       *)
Crash(p) ==
  /\ crashes < MaxCrashes
  /\ crashes' = crashes + 1
  /\ born' = [born EXCEPT ![p] = calls[p]]
  /\ next_request_id' = [next_request_id EXCEPT ![p] = 1]
  /\ pending_requests' =
       [pending_requests EXCEPT ![p] = [i \in Ids |-> NoCaller]]
  /\ pc' = [c \in Callers |-> IF Home[c] = p THEN "idle" ELSE pc[c]]
  /\ result' = [c \in Callers |-> IF Home[c] = p THEN "none" ELSE result[c]]
  /\ stage' = [w \in Workers |-> IF Server[w] = p THEN "armed" ELSE stage[w]]
  /\ held' = [w \in Workers |-> IF Server[w] = p THEN NoMessage ELSE held[w]]
  /\ connected' = FALSE
  /\ link' \in {rest \in Remainders : rest[p] = <<>>}
  /\ UNCHANGED <<calls, serial, request_id, method, future, resp_buf, drops,
                 executions, garbled, idOf>>

-----------------------------------------------------------------------------
Handle(w) ==
  \/ Reject(w)
  \/ Ignore(w)
  \/ Serve(w)
  \/ KeepAnswer(w)

SendReply(w) == Reply(w) \/ ReplySpoilt(w)

Next ==
  \/ \E c \in Callers, m \in Methods : Call(c, m)
  \/ \E w \in Callers \cap Workers, m \in Methods : NestedCall(w, m)
  \/ \E c \in Callers : Local(c) \/ SendRequest(c)
  \/ \E w \in Workers :
       Receive(w) \/ Handle(w) \/ SendReply(w) \/ ReplyRefused(w)
  \/ LinkLost
  \/ LinkBack
  \/ \E p \in Peers : Crash(p)

Spec == Init /\ [][Next]_vars

(***************************************************************************)
(* Threads and callbacks that can run do so; wait_for() ends by an answer  *)
(* or by its timeout; handlers return; nng hands a message to an armed aio *)
(* and redials.  nng queues the senders of a socket, so a sender is served *)
(* if there is room again and again (strong fairness).  Nothing is said of *)
(* failing allocations, refused sends, lost pipes or crashes.              *)
(***************************************************************************)
Progress(c) ==
  Register(c) \/ DropEntry(c) \/ WaitTimesOut(c) \/ TakeAnswer(c)

Fairness ==
  /\ \A c \in Callers :
       /\ WF_vars(Local(c) /\ Progress(c))
       /\ SF_vars(SendRequest(c))
  /\ \A p \in Peers :
       WF_vars(\E w \in Workers : Server[w] = p /\ Receive(w))
  /\ \A w \in Workers : WF_vars(Handle(w)) /\ SF_vars(SendReply(w))
  /\ WF_vars(LinkBack)

FairSpec == Spec /\ Fairness

-----------------------------------------------------------------------------
TypeOK ==
  /\ CallTypeOK
  /\ WorkersTypeOK
  /\ link \in [Peers -> Seq(Requests \cup Responses \cup {Garbled})]
  /\ \A p \in Peers : Len(link[p]) <= Capacity
  /\ connected \in BOOLEAN
  /\ executions \in [CallNumbers -> Nat]
  /\ garbled \in 0 .. MaxGarbled
  /\ crashes \in 0 .. MaxCrashes
  /\ born \in [Peers -> Nat]
  /\ \A p \in Peers : born[p] <= calls[p]
  /\ idOf \in [CallNumbers -> Ids]

(***************************************************************************)
(* RpcPeers without crashes implements AsyncRpc: a message that call_remote*)
(* or recv_cb builds is in flight until a callback has consumed it, whether*)
(* it sits in the connection or in a worker.                               *)
(***************************************************************************)
InLink(p) == {link[p][i] : i \in DOMAIN link[p]}

InFlight ==
  (UNION {InLink(p) : p \in Peers}) \cup {held[w] : w \in Workers}

Network == INSTANCE AsyncRpc WITH net <- InFlight \ {Garbled, NoMessage}

ImplementsNetwork == Network!Spec

(* What connects an answer with a call is the id alone.  A thread may be   *)
(* handed the answer to another call of its peer, but only if both had the *)
(* same id: the other one was made before a restart, after which the ids   *)
(* begin at 1 again (the other peer's worker sends its answer over         *)
(* whatever pipe there is), or a multiple of IdModulus calls apart.        *)
WrongAnswersCollide ==
  \A c \in Callers :
    LET p == Home[c]
        of == resp_buf[c].of IN
    result[c] = "true" =>
      /\ of[1] = p
      /\ idOf[of] = idOf[CallOf(c)]
      /\ of[2] <= born[p] \/ of[2] % IdModulus = serial[c] % IdModulus

(* A call that a crash has not interrupted returns, unless the peers can   *)
(* send nothing any more.  A peer can be clogged for good: the connection  *)
(* to it is full and none of its workers takes a message, because each is  *)
(* lost or waits itself to send an answer or the request of its handler.   *)
SendsNested(w) == stage[w] = "nested" /\ pc[w] = "registered"

WorkersOf(p) == {w \in Workers : Server[w] = p}

Clogged(p) ==
  /\ Len(link[p]) = Capacity
  /\ \A w \in WorkersOf(p) :
       stage[w] \in {"replying", "lost"} \/ SendsNested(w)

Wedged(p) ==
  /\ Clogged(p)
  /\ \/ \A w \in WorkersOf(p) : stage[w] = "lost"
     \/ Clogged(Other(p))

(* Peers get stuck only if both of them have called, or if an answer was   *)
(* spoilt: where one side calls and nothing is freed twice, calls return   *)
(* (with CallReturnsUnlessWedged), over a lost connection too.             *)
StuckOnlyTogether ==
  \A p \in Peers :
    Wedged(p) => garbled > 0 \/ \A q \in Peers : calls[q] > 0

(* A handler's own call keeps its worker in recv_cb(): whenever its future *)
(* is answered, that is done by another worker of the same peer, which is  *)
(* in recv_cb() with that answer.  Where there is no other worker, such a  *)
(* call only ever ends by its timeout.                                     *)
AnsweredByAnother(w) ==
  \E v \in Workers \ {w} :
    /\ Server[v] = Server[w]
    /\ stage[v] = "called"
    /\ held[v] \in Responses
    /\ future'[w] = held[v].payload

NestedNeedsSecondWorker ==
  [][\A w \in Callers \cap Workers :
       future'[w] # future[w] /\ future'[w] \in Payloads
         => AnsweredByAnother(w)]_vars

(* The same without the exception: what holds where calls of one side are  *)
(* answered, or answered by calls of the other side's handlers, as long as *)
(* there is a worker to spare.                                             *)
CallReturns ==
  \A c \in Callers : pc[c] # "idle" ~> pc[c] = "idle"

CallReturnsUnlessWedged ==
  \A c \in Callers :
    [](pc[c] # "idle" => \/ <>(pc[c] = "idle")
                        \/ <>[]Wedged(Other(Home[c])))

-----------------------------------------------------------------------------
(* The inductive invariants behind the properties above.  They hold across *)
(* crashes: what is in the connection may be older than the peer it is for.*)

(* A message on its way to peer p is a request of the other peer or the    *)
(* answer to a call of p, unless it is spoilt.                             *)
Addressed(m, p) ==
  /\ m \in Requests => m.payload.of[1] = Other(p)
  /\ m \in Responses => m.payload.of[1] = p
  /\ m \in Requests \cup Responses
       => m.payload.of[2] <= calls[m.payload.of[1]]
  /\ m = Garbled => garbled > 0

Directed ==
  /\ \A c \in Callers : serial[c] <= calls[Home[c]]
  /\ \A p \in Peers : \A m \in InLink(p) : Addressed(m, p)
  /\ \A w \in Workers :
       Addressed(held[w],
                 IF stage[w] = "replying" THEN Other(Server[w]) ELSE Server[w])

(* The call of a handler keeps its worker in recv_cb().                    *)
NestedKeepsWorker ==
  \A w \in Callers \cap Workers : pc[w] # "idle" => stage[w] = "nested"

(* The id of call number n of peer p, counted from the last restart.       *)
TurnOf(p, n) == (n - born[p]) % IdModulus

CarriesId(m) == m \in Requests \cup Responses => m.id = idOf[m.payload.of]

(* Since the last restart ids count the calls, modulo IdModulus.  A thread *)
(* in a call, and every message under way, has the id of its call.         *)
IdsCountCalls ==
  /\ \A p \in Peers : next_request_id[p] = TurnOf(p, calls[p] + 1)
  /\ \A k \in CallNumbers :
       born[k[1]] < k[2] /\ k[2] <= calls[k[1]] => idOf[k] = TurnOf(k[1], k[2])
  /\ \A c \in Callers : pc[c] # "idle" =>
       /\ serial[c] > born[Home[c]]
       /\ request_id[c] = idOf[CallOf(c)]
  /\ \A p \in Peers : \A m \in InLink(p) : CarriesId(m)
  /\ \A w \in Workers : CarriesId(held[w])

(* What WrongAnswersCollide says, for the future as well.                  *)
SameId(c, of) ==
  /\ of[1] = Home[c]
  /\ of[2] <= calls[Home[c]]
  /\ idOf[of] = idOf[CallOf(c)]

AnswersCollide ==
  \A c \in Callers :
    /\ Outstanding(c) /\ future[c] \in Payloads => SameId(c, future[c].of)
    /\ result[c] = "true" =>
         /\ serial[c] > born[Home[c]]
         /\ resp_buf[c] \in Payloads
         /\ SameId(c, resp_buf[c].of)

(* A call has at most one message under way, and none before it is sent.   *)
SameCall(m, n) ==
  /\ m \in Requests \cup Responses
  /\ n \in Requests \cup Responses
  /\ m.payload.of = n.payload.of

OneMessagePerCall ==
  /\ \A p \in Peers : \A i, j \in DOMAIN link[p] :
       SameCall(link[p][i], link[p][j]) => i = j
  /\ \A p \in Peers : \A m \in InLink(p), n \in InLink(Other(p)) :
       ~ SameCall(m, n)
  /\ \A w \in Workers, p \in Peers : \A m \in InLink(p) :
       ~ SameCall(held[w], m)
  /\ \A v, w \in Workers : SameCall(held[v], held[w]) => v = w

CallsApart ==
  /\ \A c, d \in Callers :
       pc[c] # "idle" /\ pc[d] # "idle" /\ CallOf(c) = CallOf(d) => c = d
  /\ \A c \in Callers : pc[c] \in {"built", "registered"} =>
       \A m \in InFlight :
         m \in Requests \cup Responses => m.payload.of # CallOf(c)

NetworkInv == TypeOK /\ Directed /\ OneMessagePerCall /\ CallsApart
=============================================================================
