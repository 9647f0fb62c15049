---------------------------- MODULE MCWorkerPool ----------------------------
(* Instances of WorkerPool small enough for TLC. *)
EXTENDS WorkerPool

(* Two statuses a path can get: enough to tell one path's result from      *)
(* another's.                                                              *)
MCAnswers == {"exists", "missing"}
=============================================================================
