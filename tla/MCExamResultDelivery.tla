------------------------ MODULE MCExamResultDelivery ------------------------
(* Instances of ExamResultDelivery for TLC. *)
EXTENDS ExamResultDelivery, TLC

MCBackoff == [n \in 0 .. MaxAttempts |-> 1]

Owners == Permutations(Worker)

=============================================================================
