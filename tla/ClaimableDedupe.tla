--------------------------- MODULE ClaimableDedupe ---------------------------
(***************************************************************************)
(* The claimable deduplication of message-sdk, with its persistent store:  *)
(* what claim, commit and release do to the entries of the keys.           *)
(*                                                                         *)
(* memory[k] is the entry of key k, file the keys recorded on disk.  An    *)
(* entry older than the TTL is "none", or not in the file.  claim awaits   *)
(* the file between its look at the memory and its entry there: the users  *)
(* of these operators claim a key in one task at a time.                   *)
(***************************************************************************)

Claims == {"none", "inflight", "committed"}

ClaimKind(memory, file, k) ==
  CASE memory[k] = "committed" -> "duplicate"
    [] memory[k] = "inflight"  -> "inflight"
    [] OTHER                   -> IF k \in file THEN "duplicate" ELSE "claimed"

AfterClaim(memory, file, k) ==
  CASE ClaimKind(memory, file, k) = "claimed"   -> [memory EXCEPT ![k] = "inflight"]
    [] ClaimKind(memory, file, k) = "duplicate" -> [memory EXCEPT ![k] = "committed"]
    [] OTHER                                    -> memory

AfterCommit(memory, k) == [memory EXCEPT ![k] = "committed"]

(* Recording is best effort: a failing disk is logged, and no more.        *)
Recorded(file, k) == {file \cup {k}, file}

(* What is committed stays a duplicate.                                    *)
AfterRelease(memory, k) == [memory EXCEPT ![k] = IF @ = "inflight" THEN "none" ELSE @]

=============================================================================
