------------------------------ MODULE OrderedMap ------------------------------
(***************************************************************************)
(* What the callers of verifier.py and libdeps.py rely on when they hand a *)
(* list of paths to a pool of threads: a map.  Each path is evaluated at   *)
(* most once, whoever evaluates it and in whatever order; a call that      *)
(* returns has evaluated them all and its output has, at position i, what  *)
(* the evaluation of path i gave; a call may raise instead, at any time,   *)
(* and then it has no output (evaluations already accepted may still run). *)
(***************************************************************************)
EXTENDS Naturals

CONSTANTS
  N,           (* How many paths the call was given.                        *)
  Outcomes,    (* What one evaluation may end with, exceptions included.    *)
  Pending,     (* The value of a path nobody has evaluated yet.             *)
  Visible      (* A function: what the caller sees of each outcome.         *)

VARIABLES
  value,       (* value[i]: the outcome of the i-th path, or Pending.       *)
  state,       (* "running", "returned" or "raised".                        *)
  output       (* The list the call returned, << >> until it has.           *)

vars == <<value, state, output>>

Init ==
  /\ value = [i \in 1..N |-> Pending]
  /\ state = "running"
  /\ output = << >>

Evaluate(i) ==
  /\ value[i] = Pending
  /\ \E o \in Outcomes : value' = [value EXCEPT ![i] = o]
  /\ UNCHANGED <<state, output>>

Return ==
  /\ state = "running"
  /\ \A i \in 1..N : value[i] # Pending
  /\ state' = "returned"
  /\ output' = [i \in 1..N |-> Visible[value[i]]]
  /\ UNCHANGED value

Raise ==
  /\ state = "running"
  /\ state' = "raised"
  /\ UNCHANGED <<value, output>>

Next ==
  \/ \E i \in 1..N : Evaluate(i)
  \/ Return
  \/ Raise

Spec == Init /\ [][Next]_vars
=============================================================================
