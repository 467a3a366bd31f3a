-------------------------- MODULE DataStreamProofs --------------------------
(* Proofs about DataStream, for every capacity of the connection and every *)
(* number of sockets and data.                                             *)
EXTENDS DataStream, FiniteSetTheorems, TLAPS

(* How much is under way, after one item more, or after fewer.             *)
LEMMA DataCounted ==
  ASSUME NEW S, S \subseteq 1 .. MaxSends
  PROVE  /\ IsFiniteSet(S)
         /\ Cardinality(S) \in Nat
         /\ \A d : Cardinality(S \cup {d}) <= Cardinality(S) + 1
         /\ \A R \in SUBSET S : Cardinality(R) <= Cardinality(S)
<1>1. IsFiniteSet(1 .. MaxSends)
  BY FS_Interval, StreamAssumption
<1>2. IsFiniteSet(S)
  BY <1>1, FS_Subset
<1>3. Cardinality(S) \in Nat
  BY <1>2, FS_CardinalityType
<1>4. \A d : Cardinality(S \cup {d}) <= Cardinality(S) + 1
  BY <1>2, <1>3, FS_AddElement
<1>5. \A R \in SUBSET S : Cardinality(R) <= Cardinality(S)
  BY <1>2, FS_Subset
<1>. QED
  BY <1>2, <1>3, <1>4, <1>5

LEMMA InitInv == Init => StreamInv
<1>1. Cardinality({}) = 0
  BY FS_EmptySet
<1>2. ASSUME PullInit
      PROVE  PullTypeOK /\ LoopMatchesOwner /\ ThreadIsFree /\ OneLateCallback
  <2>1. PullTypeOK
    <3>1. 0 \in 0 .. MaxInits /\ 0 \in Nat
      BY PullAssumption
    <3>. QED
      BY <1>2, <3>1, Zenon DEF PullInit, PullTypeOK, NoSocket
  <2>2. LoopMatchesOwner
    BY <1>2 DEF PullInit, LoopMatchesOwner
  <2>3. ThreadIsFree /\ OneLateCallback
    BY <1>2 DEF PullInit, ThreadIsFree, OneLateCallback
  <2>. QED
    BY <2>1, <2>2, <2>3
<1>3. ASSUME PushInit
      PROVE  PushTypeOK /\ SendsCounted
  <2>1. PushTypeOK
    <3>1. 0 \in 0 .. MaxDials /\ 0 \in 0 .. MaxSends
      BY StreamAssumption
    <3>. QED
      BY <1>3, <3>1, Zenon DEF PushInit, PushTypeOK
  <2>2. SendsCounted
    BY <1>3 DEF PushInit, SendsCounted
  <2>. QED
    BY <2>1, <2>2
<1>. QED
  BY <1>1, <1>2, <1>3, StreamAssumption DEF Init, StreamInv, TypeOK

-----------------------------------------------------------------------------
(* The receiving end, whatever happens to the data.                        *)
PullInv == PullTypeOK /\ LoopMatchesOwner /\ ThreadIsFree /\ OneLateCallback

LEMMA PullSteps ==
  ASSUME PullInv,
         \/ \E listens \in BOOLEAN : Init0(listens)
         \/ StartRecvLoop \/ TestRunning \/ Receive \/ ReceiveFails
         \/ ReceiveNothing \/ CallbackReturns \/ CloseCalled \/ Join
         \/ CloseSocket
         \/ UNCHANGED pullVars
  PROVE  PullInv'
<1>. USE PullAssumption
     DEF PullInv, PullTypeOK, LoopMatchesOwner, ThreadIsFree, OneLateCallback,
         NoSocket
<1>1. ASSUME NEW listens \in BOOLEAN, Init0(listens)
      PROVE  PullInv'
  BY <1>1 DEF Init0
<1>2. CASE StartRecvLoop
  BY <1>2 DEF StartRecvLoop
<1>3. CASE TestRunning
  BY <1>3 DEF TestRunning
<1>4. CASE Receive
  BY <1>4 DEF Receive
<1>5. CASE ReceiveFails
  BY <1>5 DEF ReceiveFails
<1>11. CASE ReceiveNothing
  BY <1>11 DEF ReceiveNothing
<1>6. CASE CallbackReturns
  BY <1>6 DEF CallbackReturns
<1>7. CASE CloseCalled
  <2>1. PullTypeOK'
    BY <1>7 DEF CloseCalled
  <2>2. LoopMatchesOwner'
    BY <1>7 DEF CloseCalled
  <2>3. ThreadIsFree' /\ OneLateCallback'
    BY <1>7 DEF CloseCalled
  <2>. QED
    BY <2>1, <2>2, <2>3
<1>8. CASE Join
  BY <1>8 DEF Join
<1>9. CASE CloseSocket
  BY <1>9 DEF CloseSocket
<1>10. CASE UNCHANGED pullVars
  BY <1>10 DEF pullVars
<1>. QED
  BY <1>1, <1>2, <1>3, <1>4, <1>5, <1>6, <1>7, <1>8, <1>9, <1>10, <1>11

(* The sending end.                                                        *)
PushInv == PushTypeOK /\ SendsCounted

LEMMA PushSteps ==
  ASSUME PushInv,
         \/ \E succeeds \in BOOLEAN : Dial(succeeds)
         \/ SendData \/ SendReturns \/ SendFails \/ PushClose
         \/ UNCHANGED pushVars
  PROVE  PushInv'
<1>. USE StreamAssumption DEF PushInv, PushTypeOK, SendsCounted
<1>1. ASSUME NEW succeeds \in BOOLEAN, Dial(succeeds)
      PROVE  PushInv'
  BY <1>1 DEF Dial
<1>2. CASE SendData
  BY <1>2 DEF SendData
<1>3. CASE SendReturns \/ SendFails
  BY <1>3 DEF SendReturns, SendFails
<1>4. CASE PushClose
  BY <1>4 DEF PushClose
<1>5. CASE UNCHANGED pushVars
  BY <1>5 DEF pushVars
<1>. QED
  BY <1>1, <1>2, <1>3, <1>4, <1>5

(* The connection never holds more than its buffers.                       *)
DataInv == data \subseteq 1 .. MaxSends /\ Cardinality(data) <= Capacity

LEMMA DataSteps ==
  ASSUME DataInv, PushInv,
         Transmit \/ Take \/ TakeNothing \/ data' \in SUBSET data
  PROVE  DataInv'
<1>. USE StreamAssumption DEF DataInv
<1>0. Cardinality(data) \in Nat
  BY DataCounted
<1>1. CASE Transmit
  <2>1. data' = data \cup {sends} /\ Cardinality(data) < Capacity
    BY <1>1 DEF Transmit, CanTransmit
  <2>2. sends \in 1 .. MaxSends
    BY <1>1 DEF Transmit, SendReturns, PushInv, PushTypeOK, SendsCounted
  <2>3. data' \subseteq 1 .. MaxSends
    BY <2>1, <2>2
  <2>4. Cardinality(data') \in Nat
    BY <2>3, DataCounted
  <2>5. Cardinality(data') <= Cardinality(data) + 1
    BY <2>1, DataCounted
  <2>. QED
    BY <1>0, <2>1, <2>3, <2>4, <2>5
<1>2. CASE Take \/ TakeNothing \/ data' \in SUBSET data
  <2>1. data' \in SUBSET data
    BY <1>2 DEF Take, TakeNothing
  <2>2. Cardinality(data') <= Cardinality(data)
    BY <2>1, DataCounted
  <2>3. data' \subseteq 1 .. MaxSends
    BY <2>1
  <2>4. Cardinality(data') \in Nat
    BY <2>3, DataCounted
  <2>. QED
    BY <1>0, <2>2, <2>3, <2>4
<1>. QED
  BY <1>1, <1>2

LEMMA StreamInductive ==
  ASSUME StreamInv, [Next]_vars
  PROVE  StreamInv'
<1>1. StreamInv <=> PullInv /\ PushInv /\ DataInv
  BY DEF StreamInv, TypeOK, PullInv, PushInv, DataInv
<1>2. StreamInv' <=> PullInv' /\ PushInv' /\ DataInv'
  BY DEF StreamInv, TypeOK, PullInv, PushInv, DataInv
<1>3. PullInv'
  BY <1>1, PullSteps
     DEF Next, InitPush, Transmit, PushStep, ClosePush, InitPull, LoopStep,
         Take, TakeNothing, ClosePull, vars
<1>4. PushInv'
  BY <1>1, PushSteps
     DEF Next, InitPush, Transmit, PushStep, ClosePush, InitPull, LoopStep,
         Take, TakeNothing, ClosePull, vars
<1>5. Transmit \/ Take \/ TakeNothing \/ data' \in SUBSET data
  BY DEF Next, InitPush, PushStep, ClosePush, InitPull, LoopStep, ClosePull,
         vars
<1>6. DataInv'
  BY <1>1, <1>5, DataSteps
<1>. QED
  BY <1>2, <1>3, <1>4, <1>6

LEMMA StreamInvariant == Spec => []StreamInv
BY InitInv, StreamInductive, PTL DEF Spec

-----------------------------------------------------------------------------
(* Both ends and the connection keep their types; no more data is under    *)
(* way than the connection has room for.                                   *)
THEOREM StreamTypes == Spec => []TypeOK
<1>1. StreamInv => TypeOK
  BY DEF StreamInv
<1>. QED
  BY <1>1, StreamInvariant, PTL

(* startRecvLoop() always finds recvThread joined.                         *)
THEOREM ThreadIsFreeCorrect == Spec => []ThreadIsFree
<1>1. StreamInv => ThreadIsFree
  BY DEF StreamInv
<1>. QED
  BY <1>1, StreamInvariant, PTL

(* At most one callback is begun after close() was called.                 *)
THEOREM OneLateCallbackCorrect == Spec => []OneLateCallback
<1>1. StreamInv => OneLateCallback
  BY DEF StreamInv
<1>. QED
  BY <1>1, StreamInvariant, PTL

(* Only an init() on top of another loses track of an open socket.         *)
THEOREM OnlyInitLeaksCorrect == Spec => OnlyInitLeaks
<1>1. StreamInv /\ [Next]_vars =>
        [\/ open' \ {sock'} \subseteq open \ {sock}
         \/ sock # NoSocket /\ inits' = inits + 1]_vars
  <2>. SUFFICES ASSUME StreamInv, Next
                PROVE  \/ open' \ {sock'} \subseteq open \ {sock}
                       \/ sock # NoSocket /\ inits' = inits + 1
    OBVIOUS
  <2>1. NoSocket \notin open
    BY DEF StreamInv, TypeOK, PullTypeOK, NoSocket
  <2>2. CASE \E listens \in BOOLEAN : Init0(listens)
    BY <2>1, <2>2 DEF Init0
  <2>3. CASE CloseSocket
    BY <2>3 DEF CloseSocket
  <2>4. CASE UNCHANGED <<open, sock>>
    BY <2>4
  <2>. QED
    BY <2>2, <2>3, <2>4
       DEF Next, InitPush, Transmit, PushStep, ClosePush, InitPull, LoopStep,
           Take, TakeNothing, ClosePull, pullVars, StartRecvLoop,
           TestRunning, Receive,
           ReceiveFails, ReceiveNothing, CallbackReturns, CloseCalled, Join
<1>. QED
  BY <1>1, StreamInvariant, PTL DEF Spec, OnlyInitLeaks
=============================================================================
