------------------------------ MODULE MCKfSync ------------------------------
(* Small instances of KfSync: the second message is a system event.        *)
EXTENDS KfSync

SecondIsEvent == {2}

=============================================================================
