-------------------------- MODULE MCRabbitInbound --------------------------
(* A small instance of RabbitInbound: one message for every identity and   *)
(* fingerprint.                                                            *)
EXTENDS RabbitInbound

AllMessages == Ids \X Fingerprints

=============================================================================
