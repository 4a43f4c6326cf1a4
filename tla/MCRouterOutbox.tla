-------------------------- MODULE MCRouterOutbox --------------------------
(* Small instances of RouterOutbox: tasks and slots are interchangeable.   *)
EXTENDS RouterOutbox, TLC

Interchangeable == Permutations(Tasks) \cup Permutations(Slots)

=============================================================================
