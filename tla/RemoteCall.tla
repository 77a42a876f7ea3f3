------------------------------ MODULE RemoteCall ------------------------------
(***************************************************************************)
(* What ModelRunner.call promises to LLMEngine when there are workers: a   *)
(* synchronous broadcast.  Every worker receives every call once and in    *)
(* order, and a call returns after all the workers have received it.       *)
(***************************************************************************)
EXTENDS Sequences, Naturals

CONSTANTS
  Receivers,   \* the worker ranks
  MaxCalls     \* bound: calls made in a run of the model

VARIABLES
  calls,       \* the methods called so far: "run" or "exit"
  received,    \* worker -> the numbers of the calls it received
  answered     \* how many calls have returned

callVars == <<calls, received, answered>>

CallInit ==
  /\ calls = <<>>
  /\ received = [w \in Receivers |-> <<>>]
  /\ answered = 0

(* One call at a time, and none after exit.                                *)
Issue(m) ==
  /\ answered = Len(calls)
  /\ "exit" \notin {calls[i] : i \in 1 .. Len(calls)}
  /\ Len(calls) < MaxCalls
  /\ calls' = Append(calls, m)
  /\ UNCHANGED <<received, answered>>

Receive(w) ==
  /\ Len(received[w]) < Len(calls)
  /\ received' = [received EXCEPT ![w] = Append(@, Len(@) + 1)]
  /\ UNCHANGED <<calls, answered>>

Return ==
  /\ answered < Len(calls)
  /\ \A w \in Receivers : Len(received[w]) = Len(calls)
  /\ answered' = Len(calls)
  /\ UNCHANGED <<calls, received>>

CallNext ==
  \/ \E m \in {"run", "exit"} : Issue(m)
  \/ \E w \in Receivers : Receive(w)
  \/ Return

CallSpec ==
  /\ CallInit /\ [][CallNext]_callVars
  /\ \A w \in Receivers : WF_callVars(Receive(w))
  /\ WF_callVars(Return)
=============================================================================
