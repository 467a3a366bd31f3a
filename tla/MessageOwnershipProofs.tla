----------------------- MODULE MessageOwnershipProofs -----------------------
(* Proofs about MessageOwnership, for every number of messages, workers    *)
(* and threads.                                                            *)
EXTENDS MessageOwnership, TLAPS

(* The pieces of memory and the actors are told apart from what stands for *)
(* none of them.                                                           *)
LEMMA ActorsDiffer ==
  ASSUME NEW a \in Actors
  PROVE  a # "nobody" /\ a # "nng"
BY OwnershipAssumption

(* TypeOK and Pointers are inductive for either class.                     *)
LEMMA PointersInductive ==
  ASSUME TypeOK, Pointers, [Next]_vars
  PROVE  TypeOK' /\ Pointers'
<1>. USE OwnershipAssumption DEF TypeOK, Pointers, Actors, GoTo, Own, Sent
<1>1. ASSUME NEW m \in Messages, Transmitted(m)
      PROVE  TypeOK' /\ Pointers'
  BY <1>1 DEF Transmitted
<1>2. ASSUME NEW m \in Messages, NEW w \in Workers, Deliver(w, m)
      PROVE  TypeOK' /\ Pointers'
  BY <1>2 DEF Deliver
<1>3. ASSUME NEW m \in Messages, NEW w \in Workers, BuildReply(w, m)
      PROVE  TypeOK' /\ Pointers'
  BY <1>3 DEF BuildReply
<1>4. ASSUME NEW m \in Messages, NEW t \in Threads, BuildRequest(t, m)
      PROVE  TypeOK' /\ Pointers'
  BY <1>4 DEF BuildRequest
<1>5. ASSUME NEW w \in Workers, RejectMessage(w)
      PROVE  TypeOK' /\ Pointers'
  BY <1>5 DEF RejectMessage
<1>6. ASSUME NEW w \in Workers, SendReply(w)
      PROVE  TypeOK' /\ Pointers'
  BY <1>6 DEF SendReply
<1>7. ASSUME NEW w \in Workers, LeaveReply(w)
      PROVE  TypeOK' /\ Pointers'
  BY <1>7 DEF LeaveReply
<1>8. ASSUME NEW w \in Workers, FreeReceived(w)
      PROVE  TypeOK' /\ Pointers'
  BY <1>8 DEF FreeReceived
<1>9. ASSUME NEW t \in Threads, SendRequest(t)
      PROVE  TypeOK' /\ Pointers'
  BY <1>9 DEF SendRequest
<1>10. ASSUME NEW m \in Messages, NEW w \in Workers,
              BuildReplyUnallocated(w, m)
       PROVE  TypeOK' /\ Pointers'
  BY <1>10 DEF BuildReplyUnallocated
<1>11. CASE UNCHANGED vars
  BY <1>11 DEF vars
<1>. QED
  BY <1>1, <1>2, <1>3, <1>4, <1>5, <1>6, <1>7, <1>8, <1>9, <1>10, <1>11
     DEF Next

LEMMA InitPointers == Init => TypeOK /\ Pointers
BY OwnershipAssumption DEF Init, TypeOK, Pointers, Actors

(* Owners, stages and pointers keep their types, for the dialing peer and  *)
(* for the listener.                                                       *)
THEOREM OwnershipTypes == Spec => []TypeOK
<1>1. TypeOK /\ Pointers /\ [Next]_vars => (TypeOK /\ Pointers)'
  BY PointersInductive
<1>. QED
  BY <1>1, InitPointers, PTL DEF Spec

-----------------------------------------------------------------------------
(* The other conjuncts of OwnershipInv, where nothing is freed twice and   *)
(* every answer was allocated.                                             *)
OwnershipRest == Owned /\ RefusedKept /\ FreesOnlyOwn /\ OnlyFaultsLeak

LEMMA RestEquivalent ==
  OwnershipInv <=>
    TypeOK /\ Pointers /\ (unallocated \/ OwnershipRest)
BY DEF OwnershipInv, OwnershipRest, FreesOnlyOwn, OnlyFaultsLeak

LEMMA OwnershipSteps ==
  ASSUME ~ DoubleFree, TypeOK, Pointers, OwnershipRest, TypeOK', Pointers',
         [Next]_vars, ~ unallocated'
  PROVE  OwnershipRest'
<1>. USE OwnershipAssumption, ActorsDiffer
     DEF OwnershipRest, TypeOK, Pointers, GoTo, Own, Actors
<1>1. ASSUME NEW m \in Messages, Transmitted(m)
      PROVE  OwnershipRest'
  <2>1. Owned'
    BY <1>1 DEF Transmitted, Owned
  <2>2. RefusedKept'
    BY <1>1 DEF Transmitted, Owned, RefusedKept
  <2>3. FreesOnlyOwn'
    BY <1>1 DEF Transmitted, Owned, FreesOnlyOwn
  <2>4. OnlyFaultsLeak'
    BY <1>1
       DEF Transmitted, Owned, RefusedKept, OnlyFaultsLeak, Leaked, Held
  <2>. QED
    BY <2>1, <2>2, <2>3, <2>4
<1>2. ASSUME NEW m \in Messages, NEW w \in Workers, Deliver(w, m)
      PROVE  OwnershipRest'
  <2>1. Owned'
    BY <1>2 DEF Deliver, Owned
  <2>2. RefusedKept'
    BY <1>2 DEF Deliver, Owned, RefusedKept
  <2>3. FreesOnlyOwn'
    BY <1>2 DEF Deliver, Owned, FreesOnlyOwn
  <2>4. OnlyFaultsLeak'
    BY <1>2
       DEF Deliver, Owned, RefusedKept, OnlyFaultsLeak, Leaked, Held
  <2>. QED
    BY <2>1, <2>2, <2>3, <2>4
<1>3. ASSUME NEW m \in Messages, NEW w \in Workers, BuildReply(w, m)
      PROVE  OwnershipRest'
  <2>1. Owned'
    BY <1>3 DEF BuildReply, Owned
  <2>2. RefusedKept'
    BY <1>3 DEF BuildReply, Owned, RefusedKept
  <2>3. FreesOnlyOwn'
    BY <1>3 DEF BuildReply, Owned, FreesOnlyOwn
  <2>4. OnlyFaultsLeak'
    BY <1>3
       DEF BuildReply, Owned, RefusedKept, OnlyFaultsLeak, Leaked, Held
  <2>. QED
    BY <2>1, <2>2, <2>3, <2>4
<1>4. ASSUME NEW m \in Messages, NEW t \in Threads, BuildRequest(t, m)
      PROVE  OwnershipRest'
  <2>1. Owned'
    BY <1>4 DEF BuildRequest, Owned
  <2>2. RefusedKept'
    BY <1>4 DEF BuildRequest, Owned, RefusedKept
  <2>3. FreesOnlyOwn'
    BY <1>4 DEF BuildRequest, Owned, FreesOnlyOwn
  <2>4. OnlyFaultsLeak'
    BY <1>4
       DEF BuildRequest, Owned, RefusedKept, OnlyFaultsLeak, Leaked, Held
  <2>. QED
    BY <2>1, <2>2, <2>3, <2>4
<1>5. ASSUME NEW w \in Workers, RejectMessage(w)
      PROVE  OwnershipRest'
  <2>1. Owned'
    BY <1>5 DEF RejectMessage, Owned
  <2>2. RefusedKept'
    BY <1>5 DEF RejectMessage, Owned, RefusedKept
  <2>3. FreesOnlyOwn'
    BY <1>5 DEF RejectMessage, Owned, FreesOnlyOwn
  <2>4. OnlyFaultsLeak'
    BY <1>5
       DEF RejectMessage, Owned, RefusedKept, OnlyFaultsLeak, Leaked, Held
  <2>. QED
    BY <2>1, <2>2, <2>3, <2>4
<1>6. ASSUME NEW w \in Workers, SendReply(w)
      PROVE  OwnershipRest'
  <2>1. Owned'
    BY <1>6 DEF SendReply, Sent, Owned
  <2>2. RefusedKept'
    BY <1>6 DEF SendReply, Sent, Owned, RefusedKept
  <2>3. FreesOnlyOwn'
    BY <1>6 DEF SendReply, Sent, Owned, FreesOnlyOwn
  <2>4. OnlyFaultsLeak'
    BY <1>6
       DEF SendReply, Sent, Owned, RefusedKept, OnlyFaultsLeak, Leaked, Held
  <2>. QED
    BY <2>1, <2>2, <2>3, <2>4
<1>7. ASSUME NEW w \in Workers, LeaveReply(w)
      PROVE  OwnershipRest'
  <2>1. Owned'
    BY <1>7 DEF LeaveReply, Owned
  <2>2. RefusedKept'
    BY <1>7 DEF LeaveReply, Owned, RefusedKept
  <2>3. FreesOnlyOwn'
    BY <1>7 DEF LeaveReply, Owned, FreesOnlyOwn
  <2>4. OnlyFaultsLeak'
    BY <1>7
       DEF LeaveReply, Owned, RefusedKept, OnlyFaultsLeak, Leaked, Held
  <2>. QED
    BY <2>1, <2>2, <2>3, <2>4
<1>8. ASSUME NEW w \in Workers, FreeReceived(w)
      PROVE  OwnershipRest'
  <2>1. Owned'
    BY <1>8 DEF FreeReceived, Owned
  <2>2. RefusedKept'
    BY <1>8 DEF FreeReceived, Owned, RefusedKept
  <2>3. FreesOnlyOwn'
    BY <1>8 DEF FreeReceived, Owned, FreesOnlyOwn
  <2>4. OnlyFaultsLeak'
    BY <1>8
       DEF FreeReceived, Owned, RefusedKept, OnlyFaultsLeak, Leaked, Held
  <2>. QED
    BY <2>1, <2>2, <2>3, <2>4
<1>9. ASSUME NEW t \in Threads, SendRequest(t)
      PROVE  OwnershipRest'
  <2>1. Owned'
    BY <1>9 DEF SendRequest, Sent, Owned
  <2>2. RefusedKept'
    BY <1>9 DEF SendRequest, Sent, Owned, RefusedKept
  <2>3. FreesOnlyOwn'
    BY <1>9 DEF SendRequest, Sent, Owned, FreesOnlyOwn
  <2>4. OnlyFaultsLeak'
    BY <1>9
       DEF SendRequest, Sent, Owned, RefusedKept, OnlyFaultsLeak, Leaked, Held
  <2>. QED
    BY <2>1, <2>2, <2>3, <2>4
<1>10. CASE UNCHANGED vars
  BY <1>10 DEF vars, Owned, RefusedKept, FreesOnlyOwn, OnlyFaultsLeak, Leaked,
               Held
<1>11. ASSUME NEW m \in Messages, NEW w \in Workers
       PROVE  ~ BuildReplyUnallocated(w, m)
  BY DEF BuildReplyUnallocated
<1>. QED
  BY <1>1, <1>2, <1>3, <1>4, <1>5, <1>6, <1>7, <1>8, <1>9, <1>10, <1>11
     DEF Next

(* An answer without memory is not forgotten.                              *)
LEMMA UnallocatedStays ==
  ASSUME [Next]_vars, unallocated
  PROVE  unallocated'
BY DEF Next, Transmitted, Deliver, BuildReply, BuildReplyUnallocated,
       BuildRequest, RejectMessage, SendReply, LeaveReply, FreeReceived,
       SendRequest, vars

LEMMA OwnershipInvariant ==
  ASSUME ~ DoubleFree
  PROVE  Spec => []OwnershipInv
<1>1. Init => OwnershipInv
  BY InitPointers, ActorsDiffer
     DEF Init, OwnershipInv, Owned, RefusedKept, FreesOnlyOwn,
         OnlyFaultsLeak, Leaked, Actors
<1>2. OwnershipInv /\ [Next]_vars => OwnershipInv'
  <2>. SUFFICES ASSUME OwnershipInv, [Next]_vars
                PROVE  OwnershipInv'
    OBVIOUS
  <2>1. /\ TypeOK /\ Pointers
        /\ unallocated \/ OwnershipRest
    BY RestEquivalent
  <2>2. TypeOK' /\ Pointers'
    BY <2>1, PointersInductive
  <2>3. unallocated' \/ OwnershipRest'
    BY <2>1, <2>2, OwnershipSteps, UnallocatedStays
  <2>4. (OwnershipInv <=>
           TypeOK /\ Pointers /\ (unallocated \/ OwnershipRest))'
    BY RestEquivalent, PTL
  <2>. QED
    BY <2>2, <2>3, <2>4
<1>. QED
  BY <1>1, <1>2, PTL DEF Spec

(* recv_cb() of the dialing peer and call_remote() of either peer free no  *)
(* message that belongs to nng, to another worker or to another thread,    *)
(* and hand none to nng, unless an answer was built without memory of its  *)
(* own.                                                                    *)
THEOREM FreesOnlyOwnCorrect ==
  ASSUME ~ DoubleFree
  PROVE  Spec => []FreesOnlyOwn
<1>1. OwnershipInv => FreesOnlyOwn
  BY DEF OwnershipInv
<1>. QED
  BY <1>1, OwnershipInvariant, PTL

(* They leak only what nng_sendmsg() refused and what did not verify, with *)
(* the same exception.                                                     *)
THEOREM OnlyFaultsLeakCorrect ==
  ASSUME ~ DoubleFree
  PROVE  Spec => []OnlyFaultsLeak
<1>1. OwnershipInv => OnlyFaultsLeak
  BY DEF OwnershipInv
<1>. QED
  BY <1>1, OwnershipInvariant, PTL

(* What they point to is their own, with the same exception, and but for   *)
(* the answer that recv_cb() has already sent.                             *)
THEOREM NoSharingCorrect ==
  ASSUME ~ DoubleFree
  PROVE  Spec => []NoSharing
<1>1. OwnershipInv => NoSharing
  BY DEF OwnershipInv, TypeOK, Owned, NoSharing, Held
<1>. QED
  BY <1>1, OwnershipInvariant, PTL
=============================================================================
