-------------------------- MODULE MCChannelDispatch --------------------------
(* Small instances of ChannelDispatch: calls, hashes and processes are     *)
(* model values; calls and hashes are interchangeable.                     *)
EXTENDS ChannelDispatch, TLC

Interchangeable == Permutations(Calls) \cup Permutations(Hashes)

=============================================================================
