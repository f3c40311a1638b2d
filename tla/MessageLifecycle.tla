-------------------------- MODULE MessageLifecycle --------------------------
(***************************************************************************)
(* What the outbox promises, without workers, leases or time.  A message   *)
(* is submitted once; while it is open it may be attempted, at most        *)
(* MaxAttempts times; it is closed once and for all, as delivered only if  *)
(* the provider took it.  The provider may take the message of an attempt  *)
(* at any later moment, even after the message was closed.                 *)
(***************************************************************************)
EXTENDS Integers

CONSTANTS Message, MaxAttempts, Permanent  \* Permanent: messages without an expiry

VARIABLES phase, tried, taken

lifecycle == <<phase, tried, taken>>

Closing == {"delivered", "failed", "expired"}

Init ==
  /\ phase = [m \in Message |-> "absent"]
  /\ tried = [m \in Message |-> 0]
  /\ taken = [m \in Message |-> FALSE]

Submit(m) ==
  /\ phase[m] = "absent"
  /\ phase' = [phase EXCEPT ![m] = "open"]
  /\ UNCHANGED <<tried, taken>>

Attempt(m) ==
  /\ phase[m] = "open"
  /\ tried[m] < MaxAttempts
  /\ tried' = [tried EXCEPT ![m] = @ + 1]
  /\ UNCHANGED <<phase, taken>>

Take(m) ==
  /\ tried[m] > 0
  /\ taken' = [taken EXCEPT ![m] = TRUE]
  /\ UNCHANGED <<phase, tried>>

\* Maintenance closes any number of messages at once.
Close(outcome) ==
  /\ \A m \in Message : outcome[m] # phase[m] =>
       /\ phase[m] = "open"
       /\ outcome[m] \in Closing
       /\ outcome[m] = "delivered" => taken[m]
       /\ outcome[m] = "expired" => m \notin Permanent
  /\ phase' = outcome
  /\ UNCHANGED <<tried, taken>>

Next ==
  \/ \E m \in Message : Submit(m) \/ Attempt(m) \/ Take(m)
  \/ \E outcome \in [Message -> {"absent", "open"} \cup Closing] : Close(outcome)

Spec == Init /\ [][Next]_lifecycle

=============================================================================
