------------------------ MODULE AtMostOnceRefinement ------------------------
(* AsyncRpc seen as AtMostOnceRpc: what call_remote() promises, read off   *)
(* the id counter, the threads and the answers they were handed.           *)
EXTENDS AsyncRpc

CONSTANT NoCall  \* no call

ASSUME NoCallAssumption == NoCall \notin CallNumbers

Begun == {k \in CallNumbers : k[2] <= calls[k[1]]}

CurrentCall ==
  [c \in Callers |-> IF pc[c] = "idle" THEN NoCall ELSE CallOf(c)]

AnsweredCall ==
  [c \in Callers |-> IF resp_buf[c] = Unset THEN NoCall ELSE resp_buf[c].of]

Promise == INSTANCE AtMostOnceRpc WITH
  Calls <- CallNumbers,
  begun <- Begun,
  current <- CurrentCall,
  answer <- AnsweredCall

(* Whatever the threads, the timeouts and the network do: a call that      *)
(* returns true hands back what the remote handler computed for it, and no *)
(* handler runs twice for a call.                                          *)
KeepsPromise == Promise!Spec
=============================================================================
