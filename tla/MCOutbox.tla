------------------------------ MODULE MCOutbox ------------------------------
(* Small instances of Outbox for TLC. *)
EXTENDS Outbox, TLC

\* Events, dispatchers and tokens are interchangeable.
Symmetry == Permutations(Event) \cup Permutations(Dispatcher) \cup Permutations(Token)
=============================================================================
