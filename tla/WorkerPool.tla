------------------------------ MODULE WorkerPool ------------------------------
(***************************************************************************)
(* How pkgcheck evaluates a list of paths with a pool of threads.          *)
(*                                                                         *)
(* verifier._run_workers keeps a bounded window of futures in flight,      *)
(* waits for the first of them, stores each result at the position its     *)
(* path had, reports progress and refills the window.  The pools of        *)
(* libdeps.py (ldd and nm) are the same loop with Window = N, no           *)
(* synchronous fallback, and the value of a failed call as their default.  *)
(* The executor is concurrent.futures.ThreadPoolExecutor: a FIFO queue and *)
(* threads that submit() starts on demand, up to MaxWorkers.               *)
(***************************************************************************)
EXTENDS Naturals, FiniteSets

CONSTANTS
  N,           (* total: how many paths the caller gave.                    *)
  MaxWorkers,  (* workers: the largest number of threads.                   *)
  Window,      (* window: the largest number of futures in flight.          *)
  Answers,     (* What worker(path) may return.                             *)
  Raised,      (* worker(path) raised an Exception.                         *)
  Default,     (* What `results` holds where nothing, or Raised, was stored.*)
  OnFailure,   (* What the caller reports for Default.                      *)
  Fallback     (* Whether a refused ThreadPoolExecutor() is caught.         *)

Paths    == 1..N
Outcomes == Answers \cup {Raised}
Waiting  == {"queued", "running"}

ASSUME PoolAssumption ==
  /\ N \in Nat
  /\ MaxWorkers \in Nat \ {0}
  /\ Window \in Nat \ {0}
  /\ Fallback \in BOOLEAN
  /\ Outcomes \cap ({"new"} \cup Waiting) = {}
  /\ Default \in Answers => OnFailure = Default

VARIABLES
  pc,          (* Where the calling thread is.                              *)
  cause,       (* Why the call is ending early: "none" or what was raised.  *)
  index,       (* Paths submitted (evaluated, on the synchronous path).     *)
  inFlight,    (* The futures in the in_flight dict, named by their path.   *)
  completed,   (* What wait() returned and the loop has not popped yet.     *)
  done,        (* Futures popped so far.                                    *)
  results,     (* The list being filled.                                    *)
  progress,    (* The last number given to on_progress, 0 before the first. *)
  future,      (* The task of each path: "new", "queued", "running" or its  *)
               (* outcome.                                                  *)
  threads      (* Threads the executor has started.                         *)

call == <<pc, cause, index, inFlight, completed, done, results, progress>>
pool == <<future, threads>>
vars == <<call, pool>>

Finished(i) == future[i] \in Outcomes
Running     == {i \in Paths : future[i] = "running"}
Unfinished  == {i \in Paths : future[i] \in Waiting}

(* What is stored for an outcome: `except Exception` turns a raise into    *)
(* the default.                                                            *)
StoredFor(o) == IF o = Raised THEN Default ELSE o

(* What verify_paths and verify_paths_with_elf make of a stored result.    *)
Reported(r) == IF r = Default THEN OnFailure ELSE r

(* The window verify uses for a number of workers.                         *)
WindowFor(workers) ==
  LET atLeast == IF 2 * workers > 64 THEN 2 * workers ELSE 64
  IN  IF atLeast < 256 THEN atLeast ELSE 256

-----------------------------------------------------------------------------
(* The calling thread.                                                     *)

Init ==
  /\ pc = "create" /\ cause = "none"
  /\ index = 0 /\ done = 0 /\ progress = 0
  /\ inFlight = {} /\ completed = {}
  /\ results = [i \in Paths |-> Default]
  /\ future = [i \in Paths |-> "new"]
  /\ threads = 0

CreatePool ==
  /\ pc = "create"
  /\ pc' = "fill"
  /\ UNCHANGED <<cause, index, inFlight, completed, done, results, progress, pool>>

(* ThreadPoolExecutor() itself raises OSError, ValueError or RuntimeError. *)
CreateFails ==
  /\ pc = "create"
  /\ cause' = "create"
  /\ pc' = IF Fallback THEN "sync" ELSE "raised"
  /\ UNCHANGED <<index, inFlight, completed, done, results, progress, pool>>

(* Seeded bugs (names in Bad...) stand before the definition they replace; *)
(* no run of the specification itself uses them.                           *)
BadCanSubmitPastTheEnd == pc = "fill" /\ Cardinality(inFlight) < Window
BadCanSubmitOneMore    == pc = "fill" /\ index < N /\ Cardinality(inFlight) <= Window

CanSubmit == pc = "fill" /\ index < N /\ Cardinality(inFlight) < Window

(* submit() queues the task and starts a thread unless enough exist or one *)
(* is idle.                                                                *)
Submit ==
  /\ CanSubmit
  /\ future' = [future EXCEPT ![index + 1] = "queued"]
  /\ threads' \in {threads, threads + 1} \cap 1..MaxWorkers
  /\ inFlight' = inFlight \cup {index + 1}
  /\ index' = index + 1
  /\ UNCHANGED <<pc, cause, completed, done, results, progress>>

(* Seeded bug: the refusal is swallowed and the future kept.               *)
BadSubmitRefusedIgnored ==
  /\ CanSubmit
  /\ threads < MaxWorkers
  /\ future' = [future EXCEPT ![index + 1] = "queued"]
  /\ inFlight' = inFlight \cup {index + 1}
  /\ index' = index + 1
  /\ UNCHANGED <<pc, cause, completed, done, results, progress, threads>>

(* submit() queues the task, then Thread.start() refuses with RuntimeError *)
(* and neither in_flight nor index has changed: `with executor` is left.   *)
SubmitRefused ==
  /\ CanSubmit
  /\ threads < MaxWorkers
  /\ future' = [future EXCEPT ![index + 1] = "queued"]
  /\ cause' = "spawn"
  /\ pc' = "abort"
  /\ UNCHANGED <<index, inFlight, completed, done, results, progress, threads>>

FillDone ==
  /\ pc = "fill"
  /\ ~CanSubmit
  /\ pc' = IF inFlight = {} THEN "join" ELSE "wait"
  /\ UNCHANGED <<cause, index, inFlight, completed, done, results, progress, pool>>

(* wait(FIRST_COMPLETED): some of the finished futures, at least one.      *)
Wait ==
  /\ pc = "wait"
  /\ completed' \in SUBSET {i \in inFlight : Finished(i)} \ {{}}
  /\ pc' = "collect"
  /\ UNCHANGED <<cause, index, inFlight, done, results, progress, pool>>

(* Seeded bugs: results stored in the order they arrive; the bar shows the *)
(* submitted paths; the bar shows the position of the last result.         *)
BadCollect(i, position, reported) ==
  /\ pc = "collect"
  /\ i \in completed
  /\ inFlight' = inFlight \ {i}
  /\ completed' = completed \ {i}
  /\ results' = [results EXCEPT ![position] = StoredFor(future[i])]
  /\ done' = done + 1
  /\ progress' = reported
  /\ pc' = IF completed' = {} THEN "fill" ELSE "collect"
  /\ UNCHANGED <<cause, index, pool>>
BadCollectAsTheyArrive(i) == BadCollect(i, done + 1, done + 1)
BadCollectSubmitted(i)    == BadCollect(i, i, index)
BadCollectLast(i)         == BadCollect(i, i, i)

(* One turn of the loop over `completed`, a set: any order.  Progress is   *)
(* reported at the end for sure, before that when enough time has passed.  *)
Collect(i) ==
  /\ pc = "collect"
  /\ i \in completed
  /\ inFlight' = inFlight \ {i}
  /\ completed' = completed \ {i}
  /\ results' = [results EXCEPT ![i] = StoredFor(future[i])]
  /\ done' = done + 1
  /\ progress' \in {done + 1} \cup (IF done + 1 >= N THEN {} ELSE {progress})
  /\ pc' = IF completed' = {} THEN "fill" ELSE "collect"
  /\ UNCHANGED <<cause, index, pool>>

(* The loop that runs without threads, in order.                           *)
SyncStep ==
  /\ pc = "sync"
  /\ index < N
  /\ \E o \in Outcomes :
       /\ future' = [future EXCEPT ![index + 1] = o]
       /\ results' = [results EXCEPT ![index + 1] = StoredFor(o)]
  /\ index' = index + 1
  /\ progress' = index + 1
  /\ UNCHANGED <<pc, cause, inFlight, completed, done, threads>>

SyncReturn ==
  /\ pc = "sync"
  /\ index = N
  /\ pc' = "returned"
  /\ UNCHANGED <<cause, index, inFlight, completed, done, results, progress, pool>>

(* shutdown(wait=True), on leaving `with executor` normally or by a raise: *)
(* the threads first empty the queue, nothing is cancelled.                *)
Join ==
  /\ pc \in {"join", "abort"}
  /\ threads = 0 \/ Unfinished = {}
  /\ pc' = IF pc = "join" THEN "returned" ELSE "raised"
  /\ UNCHANGED <<cause, index, inFlight, completed, done, results, progress, pool>>

(* Ctrl-C, or an error from the progress display, reaches the caller.      *)
(* Inside `with executor` the pool is joined first; during that join, or   *)
(* where there is no pool, the call raises at once.                        *)
Interrupt ==
  /\ pc \notin {"returned", "raised"}
  /\ cause' = "interrupt"
  /\ pc' = IF pc \in {"fill", "wait", "collect"} THEN "abort" ELSE "raised"
  /\ UNCHANGED <<index, inFlight, completed, done, results, progress, pool>>

-----------------------------------------------------------------------------
(* The threads of the executor.                                            *)

(* An idle thread takes the oldest task of the queue.                      *)
Start(i) ==
  /\ future[i] = "queued"
  /\ \A j \in Paths : future[j] = "queued" => i <= j
  /\ Cardinality(Running) < threads
  /\ future' = [future EXCEPT ![i] = "running"]
  /\ UNCHANGED <<call, threads>>

Finish(i) ==
  /\ future[i] = "running"
  /\ \E o \in Outcomes : future' = [future EXCEPT ![i] = o]
  /\ UNCHANGED <<call, threads>>

-----------------------------------------------------------------------------

CallerStep ==
  \/ CreatePool \/ CreateFails
  \/ Submit \/ SubmitRefused \/ FillDone
  \/ Wait \/ (\E i \in Paths : Collect(i))
  \/ SyncStep \/ SyncReturn
  \/ Join

(* The call is over and no thread has anything left to do.                 *)
Terminated ==
  /\ pc \in {"returned", "raised"}
  /\ threads = 0 \/ Unfinished = {}
  /\ UNCHANGED vars

Next ==
  \/ CallerStep
  \/ Interrupt
  \/ \E i \in Paths : Start(i) \/ Finish(i)
  \/ Terminated

(* The caller keeps running, a free thread takes the next task, and every  *)
(* evaluation ends: lstat and a 4-byte read do, and ldd and nm run under a *)
(* timeout.  Nothing forces an interrupt or a refusal.                     *)
Fairness ==
  /\ WF_vars(CallerStep)
  /\ \A i \in Paths : WF_vars(Start(i)) /\ WF_vars(Finish(i))

Spec == Init /\ [][Next]_vars /\ Fairness

-----------------------------------------------------------------------------
(* Properties.                                                             *)

(* Type invariant of _run_workers' locals and of the executor.             *)
TypeOK ==
  /\ pc \in {"create", "fill", "wait", "collect", "sync", "join", "abort",
             "returned", "raised"}
  /\ cause \in {"none", "create", "spawn", "interrupt"}
  /\ index \in 0..N
  /\ inFlight \subseteq Paths
  /\ completed \subseteq Paths
  /\ done \in 0..N
  /\ results \in [Paths -> Answers \cup {Default}]
  /\ progress \in 0..N
  /\ future \in [Paths -> Outcomes \cup {"new"} \cup Waiting]
  /\ threads \in 0..MaxWorkers

(* "Only a bounded window of tasks is in flight at once": whatever threads *)
(* are refused or interrupted, the executor never holds more than Window   *)
(* unfinished tasks, which is also the most an interrupt can have to wait. *)
WindowBound == Cardinality(Unfinished) <= Window

(* "preserving input order": when the call returns, every path was         *)
(* evaluated and the status at its position is the one its own evaluation  *)
(* gave, with a failed evaluation reported as such and not as an answer.   *)
ReturnsEveryResult ==
  pc = "returned" =>
    \A i \in Paths :
      /\ Finished(i)
      /\ Reported(results[i]) = IF future[i] = Raised THEN OnFailure ELSE future[i]

(* The number on the progress bar never exceeds the paths evaluated so far *)
(* and the bar is full when the call returns, whatever was throttled.      *)
ProgressHonest ==
  /\ progress <= Cardinality({i \in Paths : Finished(i)})
  /\ pc = "returned" => progress = N

(* The progress bar never goes back, in whatever order results arrive.     *)
ProgressNeverRetreats == [][progress' >= progress]_vars

(* Every call ends: the caller never waits for a future nobody will run,   *)
(* and an interrupt always gets through.                                   *)
CallEnds == <>(pc \in {"returned", "raised"})

(* What the caller sees is an ordered map over the paths.                  *)
Map == INSTANCE OrderedMap WITH
  Pending <- "new",
  Visible <- [o \in Outcomes |-> Reported(StoredFor(o))],
  value   <- [i \in Paths |-> IF Finished(i) THEN future[i] ELSE "new"],
  state   <- IF pc \in {"returned", "raised"} THEN pc ELSE "running",
  output  <- IF pc = "returned" THEN [i \in Paths |-> Reported(results[i])]
             ELSE << >>

(* _run_workers implements OrderedMap.                                     *)
ImplementsOrderedMap == Map!Spec

-----------------------------------------------------------------------------
(* The inductive invariant behind the theorems of WorkerPool_proofs: what  *)
(* _run_workers' locals say of each other while a pool exists.             *)

Pooled == pc \in {"create", "fill", "wait", "collect", "join", "abort"}

(* in_flight holds submitted paths only, and `completed` finished ones.    *)
InFlightSubmitted ==
  /\ inFlight \subseteq 1..index
  /\ completed \subseteq inFlight
  /\ \A i \in completed : Finished(i)

(* Nothing beyond `index` was given to the executor, but for the task of a *)
(* submit() that raised; there was room for it.                            *)
NothingBeyondIndex ==
  \A i \in Paths : i > index /\ future[i] # "new" =>
    /\ i = index + 1
    /\ pc \in {"abort", "raised"}
    /\ Cardinality(inFlight) < Window

(* What left in_flight is finished and stored.                             *)
PoppedIsStored ==
  \A i \in 1..index \ inFlight : Finished(i) /\ results[i] = StoredFor(future[i])

(* `done` counts what was popped, and progress follows it.                 *)
Counted ==
  /\ done + Cardinality(inFlight) <= index
  /\ Pooled => done + Cardinality(inFlight) = index
  /\ progress + Cardinality(inFlight) <= index
  /\ Pooled /\ done = N => progress = N
  /\ pc = "sync" => progress = index

AtTheEnd ==
  /\ pc \in {"join", "returned"} => index = N /\ inFlight = {} /\ progress = N
  /\ pc \in {"create", "sync"} => inFlight = {}
  /\ pc = "create" => index = 0

IInv ==
  /\ TypeOK
  /\ InFlightSubmitted
  /\ NothingBeyondIndex
  /\ PoppedIsStored
  /\ Cardinality(inFlight) <= Window
  /\ Counted
  /\ AtTheEnd
=============================================================================
