---------------------------- MODULE AtMostOnceRpc ----------------------------
(***************************************************************************)
(* What call_remote() promises to its callers, with no id, table, worker   *)
(* or connection in sight.  A call that returns true hands back what the   *)
(* remote handler computed for this very call, and the handler ran exactly *)
(* once for it.  A call that returns false says nothing about the handler: *)
(* it may have run, may still run later, but runs at most once.            *)
(***************************************************************************)
EXTENDS Naturals

CONSTANTS
  Callers,  \* threads that make calls
  Calls,    \* identities of calls
  NoCall    \* no call, not one of Calls

VARIABLES
  begun,       \* the calls made so far
  current,     \* the call each thread is in, or NoCall
  executions,  \* how often the remote handler ran for each call
  result,      \* what the last call of each thread returned, or "none"
  answer       \* the call whose answer the last call handed back, or NoCall

vars == <<begun, current, executions, result, answer>>

Init ==
  /\ begun = {}
  /\ current = [c \in Callers |-> NoCall]
  /\ executions = [k \in Calls |-> 0]
  /\ result = [c \in Callers |-> "none"]
  /\ answer = [c \in Callers |-> NoCall]

(* A thread makes a new call.                                              *)
Begin(c, k) ==
  /\ current[c] = NoCall
  /\ k \notin begun
  /\ begun' = begun \cup {k}
  /\ current' = [current EXCEPT ![c] = k]
  /\ result' = [result EXCEPT ![c] = "none"]
  /\ answer' = [answer EXCEPT ![c] = NoCall]
  /\ UNCHANGED executions

(* The remote handler runs for a call, perhaps after the call returned.    *)
Execute(k) ==
  /\ k \in begun
  /\ executions[k] = 0
  /\ executions' = [executions EXCEPT ![k] = 1]
  /\ UNCHANGED <<begun, current, result, answer>>

(* The call returns true with its own answer.                              *)
Succeed(c) ==
  /\ current[c] # NoCall
  /\ executions[current[c]] = 1
  /\ answer' = [answer EXCEPT ![c] = current[c]]
  /\ result' = [result EXCEPT ![c] = "true"]
  /\ current' = [current EXCEPT ![c] = NoCall]
  /\ UNCHANGED <<begun, executions>>

(* The call returns false.                                                 *)
Fail(c) ==
  /\ current[c] # NoCall
  /\ result' = [result EXCEPT ![c] = "false"]
  /\ current' = [current EXCEPT ![c] = NoCall]
  /\ UNCHANGED <<begun, executions, answer>>

Next ==
  \/ \E c \in Callers, k \in Calls : Begin(c, k)
  \/ \E k \in Calls : Execute(k)
  \/ \E c \in Callers : Succeed(c) \/ Fail(c)

Spec == Init /\ [][Next]_vars
=============================================================================
