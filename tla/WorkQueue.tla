------------------------------ MODULE WorkQueue ------------------------------
(***************************************************************************)
(* What the thread pool promises its caller: messages are started in the   *)
(* order they were handed over, each by one thread and once, and at most   *)
(* Width of them are in progress together.  Messages still pending may be  *)
(* dropped for good when the pool is shut down.                            *)
(***************************************************************************)
EXTENDS Integers, Sequences, FiniteSets

CONSTANTS
  Messages,  \* what can be handed over, each at most once
  Width      \* the number of threads

VARIABLES
  pending,   \* handed over, not started
  started,   \* in progress
  finished   \* completely processed

vars == <<pending, started, finished>>

Init == pending = <<>> /\ started = {} /\ finished = {}

Submit(m) ==
  /\ m \notin started \cup finished
  /\ \A i \in 1..Len(pending) : pending[i] # m
  /\ pending' = Append(pending, m)
  /\ UNCHANGED <<started, finished>>

Start ==
  /\ pending # <<>> /\ Cardinality(started) < Width
  /\ started' = started \cup {Head(pending)}
  /\ pending' = Tail(pending)
  /\ UNCHANGED finished

Finish(m) ==
  /\ m \in started
  /\ started' = started \ {m}
  /\ finished' = finished \cup {m}
  /\ UNCHANGED pending

Drop ==
  /\ started = {} /\ pending # <<>>
  /\ pending' = Tail(pending)
  /\ UNCHANGED <<started, finished>>

Next == (\E m \in Messages : Submit(m) \/ Finish(m)) \/ Start \/ Drop

Spec == Init /\ [][Next]_vars
=============================================================================
