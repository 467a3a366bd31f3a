------------------------ MODULE PeerLifecycleProofs ------------------------
(* Proofs about PeerLifecycle: for both classes, every number of workers   *)
(* and every number of starts.                                             *)
EXTENDS PeerLifecycle, TLAPS

(* The aios start() goes through belong to the socket it has opened.       *)
LEMMA NewAios ==
  ASSUME NEW s \in Sockets
  PROVE  {s} \X (1 .. NumWorkers) \subseteq Aios
BY DEF Aios

LEMMA InitInv == Init => LifecycleInv
<1>. SUFFICES ASSUME Init PROVE LifecycleInv
  OBVIOUS
<1>. USE LifecycleAssumption DEF Init
<1>1. TypeOK
  <2>1. 0 \in 0 .. MaxStarts
    OBVIOUS
  <2>. QED
    BY <2>1, Zenon DEF TypeOK
<1>2. ListsLiveAios /\ NoCallbackAfterFree
  BY DEF ListsLiveAios, NoCallbackAfterFree
<1>3. OwnerKnows /\ OneSocket /\ SocketOfAios /\ LeftBehind /\ PipesAreOpen
  BY DEF OwnerKnows, OneSocket, SocketOfAios, LeftBehind, PipesAreOpen
<1>. QED
  BY <1>1, <1>2, <1>3 DEF LifecycleInv

-----------------------------------------------------------------------------
(* start() and the application's calls between two of them.                *)
LEMMA OwnerSets ==
  ASSUME LifecycleInv,
         Configure \/ RegisterMethod \/ SetPipeHandler
  PROVE  LifecycleInv'
<1>. USE DEF LifecycleInv, TypeOK, ListsLiveAios, NoCallbackAfterFree,
             OwnerKnows, OneSocket, SocketOfAios, LeftBehind, PipesAreOpen,
             socketVars, listVars, aioVars, stopVars, appVars
<1>1. CASE Configure
  BY <1>1 DEF Configure
<1>2. CASE RegisterMethod
  BY <1>2 DEF RegisterMethod
<1>3. CASE SetPipeHandler
  BY <1>3 DEF SetPipeHandler
<1>. QED
  BY <1>1, <1>2, <1>3

LEMMA StartInv ==
  ASSUME LifecycleInv,
         \/ StartOpens \/ StartUnopened \/ StartRefused \/ StartReturns
         \/ \E a \in Aios : ArmNext(a) \/ AllocFails(a)
  PROVE  LifecycleInv'
<1>. USE LifecycleAssumption
     DEF LifecycleInv, TypeOK, ListsLiveAios, NoCallbackAfterFree, OwnerKnows,
         OneSocket, SocketOfAios, LeftBehind, PipesAreOpen,
         socketVars, listVars, aioVars, stopVars, appVars
<1>1. CASE StartOpens
  <2>1. opened' \in Sockets /\ opened' \notin open
    BY <1>1 DEF StartOpens, MayStart, Sockets
  <2>2. TypeOK'
    BY <1>1, <2>1, NewAios DEF StartOpens, MayStart
  <2>3. ListsLiveAios' /\ NoCallbackAfterFree' /\ OwnerKnows'
    BY <1>1 DEF StartOpens, MayStart
  <2>4. OneSocket'
    <3>1. /\ opened \in Nat /\ open \subseteq 1 .. opened
          /\ opened' = opened + 1
      BY <1>1 DEF StartOpens, MayStart
    <3>2. open' \subseteq 1 .. opened'
      BY <1>1, <3>1 DEF StartOpens
    <3>3. replaced' <=> (replaced \/ open # {})
      BY <1>1 DEF StartOpens, MayStart
    <3>. QED
      BY <1>1, <2>1, <3>2, <3>3 DEF StartOpens, MayStart, AddressFree
  <2>5. SocketOfAios' /\ LeftBehind' /\ PipesAreOpen'
    BY <1>1 DEF StartOpens, MayStart, AddressFree
  <2>. QED
    BY <2>2, <2>3, <2>4, <2>5
<1>2. CASE StartRefused
  <2>1. opened' \in Sockets /\ opened' \notin open
    BY <1>2 DEF StartRefused, MayStart, Sockets
  <2>2. TypeOK'
    BY <1>2, <2>1 DEF StartRefused, MayStart
  <2>3. ListsLiveAios' /\ NoCallbackAfterFree' /\ OwnerKnows'
    BY <1>2 DEF StartRefused, MayStart
  <2>4. OneSocket'
    <3>1. /\ opened \in Nat /\ open \subseteq 1 .. opened
          /\ opened' = opened + 1
      BY <1>2 DEF StartRefused, MayStart
    <3>2. open' \subseteq 1 .. opened'
      BY <1>2, <3>1 DEF StartRefused
    <3>3. replaced' <=> (replaced \/ open # {})
      BY <1>2 DEF StartRefused, MayStart
    <3>. QED
      BY <1>2, <2>1, <3>2, <3>3 DEF StartRefused, MayStart
  <2>5. SocketOfAios' /\ LeftBehind' /\ PipesAreOpen'
    BY <1>2 DEF StartRefused, MayStart
  <2>. QED
    BY <2>2, <2>3, <2>4, <2>5
<1>3. CASE StartReturns
  BY <1>3 DEF StartReturns
<1>4. ASSUME NEW a \in Aios, ArmNext(a)
      PROVE  LifecycleInv'
  BY <1>4 DEF ArmNext
<1>5. ASSUME NEW a \in Aios, AllocFails(a)
      PROVE  LifecycleInv'
  BY <1>5 DEF AllocFails
<1>6. CASE StartUnopened
  BY <1>6 DEF StartUnopened
<1>. QED
  BY <1>1, <1>2, <1>3, <1>4, <1>5, <1>6

(* stop() and the destructor.                                              *)
LEMMA StopInv ==
  ASSUME LifecycleInv,
         \/ StopCalled \/ FreeAio \/ StopCloses \/ StopReturns
         \/ \E a \in Aios : StopAio(a)
  PROVE  LifecycleInv'
<1>. USE LifecycleAssumption
     DEF LifecycleInv, TypeOK, ListsLiveAios, NoCallbackAfterFree, OwnerKnows,
         OneSocket, SocketOfAios, LeftBehind, PipesAreOpen,
         socketVars, listVars, aioVars, stopVars, appVars
<1>1. CASE StopCalled
  BY <1>1 DEF StopCalled
<1>2. CASE FreeAio
  BY <1>2 DEF FreeAio, CallbackDone
<1>3. CASE StopCloses
  BY <1>3 DEF StopCloses
<1>4. CASE StopReturns
  BY <1>4 DEF StopReturns
<1>5. ASSUME NEW a \in Aios, StopAio(a)
      PROVE  LifecycleInv'
  BY <1>5 DEF StopAio
<1>. QED
  BY <1>1, <1>2, <1>3, <1>4, <1>5

(* recv_cb() and pipe_cb().                                                *)
LEMMA CallbackInv ==
  ASSUME LifecycleInv,
         \/ \E a \in Aios : Received(a) \/ CallbackStep(a) \/ Sent(a)
         \/ \E s \in Sockets : PipeEvent(s) \/ PipeHandled(s)
  PROVE  LifecycleInv'
<1>. USE LifecycleAssumption
     DEF LifecycleInv, TypeOK, ListsLiveAios, NoCallbackAfterFree, OwnerKnows,
         OneSocket, SocketOfAios, LeftBehind, PipesAreOpen,
         socketVars, listVars, aioVars, stopVars, appVars
<1>1. ASSUME NEW a \in Aios,
             Received(a) \/ Failed(a) \/ DoesNotAnswer(a) \/ Sent(a)
      PROVE  LifecycleInv'
  <2>1. /\ cb[a] # "none"
        /\ \/ cb' = [cb EXCEPT ![a] = "called"]
           \/ cb' = [cb EXCEPT ![a] = "rearming"]
        /\ UNCHANGED <<socketVars, listVars, stopVars, appVars, pc, aio, on,
                       status>>
    BY <1>1 DEF Received, Failed, DoesNotAnswer, Sent
  <2>. QED
    BY <2>1
<1>2. ASSUME NEW a \in Aios, Answers(a)
      PROVE  LifecycleInv'
  BY <1>2 DEF Answers
<1>3. ASSUME NEW a \in Aios, Rearm(a)
      PROVE  LifecycleInv'
  BY <1>3 DEF Rearm
<1>4. ASSUME NEW a \in Aios, Rejects(a)
      PROVE  LifecycleInv'
  BY <1>4 DEF Rejects
<1>5. ASSUME NEW s \in Sockets, PipeEvent(s) \/ PipeHandled(s)
      PROVE  LifecycleInv'
  <2>1. CASE PipeEvent(s)
    BY <2>1 DEF PipeEvent
  <2>2. CASE PipeHandled(s)
    BY <2>2 DEF PipeHandled
  <2>. QED
    BY <1>5, <2>1, <2>2
<1>. QED
  BY <1>1, <1>2, <1>3, <1>4, <1>5 DEF CallbackStep

(* Every step preserves the invariant.                                     *)
LEMMA LifecycleInductive ==
  ASSUME LifecycleInv, [Next]_vars
  PROVE  LifecycleInv'
<1>1. CASE UNCHANGED vars
  BY <1>1 DEF LifecycleInv, TypeOK, ListsLiveAios, NoCallbackAfterFree,
       OwnerKnows, OneSocket, SocketOfAios, LeftBehind, PipesAreOpen, vars,
       socketVars, listVars, aioVars, stopVars, appVars
<1>2. CASE Next
  BY <1>2, OwnerSets, StartInv, StopInv, CallbackInv DEF Next, OwnerStep
<1>. QED
  BY <1>1, <1>2

LEMMA LifecycleInvariant == Spec => []LifecycleInv
BY InitInv, LifecycleInductive, PTL DEF Spec

-----------------------------------------------------------------------------
(* The state of a peer object and of its aios keeps its types.             *)
THEOREM LifecycleTypes == Spec => []TypeOK
<1>1. LifecycleInv => TypeOK
  BY DEF LifecycleInv
<1>. QED
  BY <1>1, LifecycleInvariant, PTL

(* However start(), stop() and the callbacks interleave, no callback runs  *)
(* on an aio that stop() has freed, those a failed start() left included.  *)
THEOREM NoCallbackAfterFreeCorrect == Spec => []NoCallbackAfterFree
<1>1. LifecycleInv => NoCallbackAfterFree
  BY DEF LifecycleInv
<1>. QED
  BY <1>1, LifecycleInvariant, PTL

(* method_map and on_pipe_event, which have no lock, are written alone.    *)
THEOREM UnlockedStateIsAloneCorrect == Spec => []UnlockedStateIsAlone
<1>1. LifecycleInv => MapReadersGone
  BY DEF LifecycleInv, TypeOK, ListsLiveAios, NoCallbackAfterFree, OwnerKnows,
         MapReadersGone
<1>2. LifecycleInv => ConfiguresAlone
  BY DEF LifecycleInv, TypeOK, ListsLiveAios, NoCallbackAfterFree, OwnerKnows,
         OneSocket, SocketOfAios, LeftBehind, PipesAreOpen, ConfiguresAlone
<1>. QED
  BY <1>1, <1>2, LifecycleInvariant, PTL DEF UnlockedStateIsAlone

(* An aio is never armed on a closed socket unless start() has replaced    *)
(* the member sock while a failed start()'s socket was still open.         *)
THEOREM SpinsOnlyIfReplacedCorrect == Spec => []SpinsOnlyIfReplaced
<1>1. LifecycleInv => SpinsOnlyIfReplaced
  BY DEF LifecycleInv, ListsLiveAios, NoCallbackAfterFree, SocketOfAios,
         SpinsOnlyIfReplaced
<1>. QED
  BY <1>1, LifecycleInvariant, PTL

(* stop(), and a failed start() of the dialing peer, release everything.   *)
THEOREM ReleasesEverythingCorrect == Spec => []ReleasesEverything
<1>1. LifecycleInv => ReleasesEverything
  BY DEF LifecycleInv, TypeOK, ListsLiveAios, OneSocket, SocketOfAios,
         LeftBehind, ReleasesEverything, StopLeavesNothing,
         FailedStartLeavesNothing, Nothing
<1>. QED
  BY <1>1, LifecycleInvariant, PTL

(* No start() succeeds once a socket was leaked.                           *)
THEOREM LeakBlocksAddressCorrect == Spec => []LeakBlocksAddress
<1>1. LifecycleInv => LeakBlocksAddress
  BY DEF LifecycleInv, OneSocket, LeakBlocksAddress
<1>. QED
  BY <1>1, LifecycleInvariant, PTL
=============================================================================
