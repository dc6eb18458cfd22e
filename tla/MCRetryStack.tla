---------------------------- MODULE MCRetryStack -----------------------------
(* Bounded instances of RetryStack for TLC. *)
EXTENDS RetryStack

(* Absent; at once; shorter and longer than the backoff; and one whose      *)
(* duration overflows to a negative number, as 18446744073 seconds do.      *)
SomeRetryAfters == {-1, 0, 1, 5, 9}
=============================================================================
