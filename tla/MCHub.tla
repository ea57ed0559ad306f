------------------------------- MODULE MCHub -------------------------------
(* Hub with a client that throws and a WebSocket behind it, a thread beside *)
(* the consumer, and batches of up to two events.                           *)
EXTENDS Hub

CONSTANTS b, w, r, k

=============================================================================
