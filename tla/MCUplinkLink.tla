---------------------------- MODULE MCUplinkLink ----------------------------
(* An instance of UplinkLink for TLC. *)
EXTENDS UplinkLink

\* A flag and a run of ones across two bytes, a zero byte at the end, and nothing
\* but ones, which stuffing makes a byte longer.
Sent == <<<<126, 127>>, <<3, 0>>, <<255, 255, 255>>>>
=============================================================================
