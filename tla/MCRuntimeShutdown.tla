---- MODULE MCRuntimeShutdown ----
(* TLC instances of RuntimeShutdown: two of main()'s threads. *)
EXTENDS RuntimeShutdown
CONSTANTS audio, worker
TwoThreads == <<audio, worker>>
====
