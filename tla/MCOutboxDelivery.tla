-------------------------- MODULE MCOutboxDelivery --------------------------
(* Instances of OutboxDelivery for TLC. *)
EXTENDS OutboxDelivery, TLC

CONSTANTS e1, e2

\* compute_next_attempt_at with a base and a cap of one and two ticks.
MCBackoff == [n \in 1 .. MaxAttempts |-> IF n = 1 THEN 1 ELSE 2]

OneDebt == e1 :> "debt"
EmailAndNotification == e1 :> "email" @@ e2 :> "notification"

Owners == Permutations(Worker)

=============================================================================
