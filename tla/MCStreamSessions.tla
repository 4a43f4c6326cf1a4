------------------------- MODULE MCStreamSessions --------------------------
(* Small instances of StreamSessions: its constants are given in the cfg.  *)
EXTENDS StreamSessions
=============================================================================
