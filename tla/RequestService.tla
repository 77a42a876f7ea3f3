---------------------------- MODULE RequestService ----------------------------
(***************************************************************************)
(* What an engine promises to its clients.  A request is answered token by *)
(* token until its completion is complete; a step of the engine gives out  *)
(* the completions that are, each of them once and whole; and a call of    *)
(* generate returns those of its requests, in the order of its prompts.    *)
(***************************************************************************)
EXTENDS Sequences, Naturals, FiniteSets

CONSTANTS
  Requests,      \* request identifiers
  Vocabulary,    \* tokens
  MaxLength,     \* the length at which a completion ends
  Stop,          \* the token that ends a completion
  NeverStopped   \* the requests whose completion Stop does not end

VARIABLES
  asked,    \* the requests made so far
  said,     \* request -> the tokens of its completion so far
  given,    \* request -> the completions given out for it, by any step
  called,   \* the requests of the generate call in progress, or <<>>
  results   \* what the last generate call returned

serviceVars == <<asked, said, given, called, results>>

Complete(r) ==
  /\ said[r] # <<>>
  /\ \/ Len(said[r]) = MaxLength
     \/ r \notin NeverStopped /\ said[r][Len(said[r])] = Stop

ServiceInit ==
  /\ asked = {}
  /\ said = [r \in Requests |-> <<>>]
  /\ given = [r \in Requests |-> <<>>]
  /\ called = <<>>
  /\ results = <<>>

Ask(r) ==
  /\ r \notin asked
  /\ asked' = asked \cup {r}
  /\ UNCHANGED <<said, given, called, results>>

(* The last of its requests makes the call.                                *)
Generate(rs) ==
  /\ called = <<>>
  /\ \E i \in 1 .. Len(rs) : rs[i] \notin asked /\ asked' = asked \cup {rs[i]}
  /\ \A i \in 1 .. Len(rs) : rs[i] \in asked' /\ given[rs[i]] = <<>>
  /\ called' = rs
  /\ UNCHANGED <<said, given, results>>

Say(r, t) ==
  /\ r \in asked /\ ~Complete(r)
  /\ said' = [said EXCEPT ![r] = Append(@, t)]
  /\ UNCHANGED <<asked, given, called, results>>

(* All the completions that are complete, together.                        *)
Give ==
  LET ready == {r \in asked : Complete(r) /\ given[r] = <<>>}
  IN  /\ ready # {}
      /\ given' = [r \in Requests |-> IF r \in ready THEN <<said[r]>> ELSE given[r]]
      /\ UNCHANGED <<asked, said, called, results>>

Return ==
  /\ called # <<>>
  /\ \A i \in 1 .. Len(called) : given[called[i]] # <<>>
  /\ results' = [i \in 1 .. Len(called) |-> given[called[i]][1]]
  /\ called' = <<>>
  /\ UNCHANGED <<asked, said, given>>

Work ==
  \/ \E r \in Requests, t \in Vocabulary : Say(r, t)
  \/ Give
  \/ Return

ServiceNext ==
  \/ \E r \in Requests : Ask(r)
  \/ \E n \in 1 .. Cardinality(Requests) : \E rs \in [1 .. n -> Requests] : Generate(rs)
  \/ Work

(* While there is work some of it is done.  As a completion is finite that *)
(* is enough for every request to be completed and given out, and every    *)
(* call to return.                                                         *)
ServiceSpec ==
  ServiceInit /\ [][ServiceNext]_serviceVars /\ WF_serviceVars(Work)
=============================================================================
