------------------------------ MODULE MCRetry ------------------------------
(* Retry for TLC: every setting of the switches with one retry, two, or    *)
(* the three that a zero stands for, and the negative numbers that a file  *)
(* may hold.                                                               *)
EXTENDS Retry

MCFiles ==
  [enabled : BOOLEAN, maxRetries : {-2, 0, 1, 2}, delay : {-1, 0, 1}, backoff : BOOLEAN]
============================================================================
