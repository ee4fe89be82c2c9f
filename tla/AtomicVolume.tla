----------------------------- MODULE AtomicVolume -----------------------------
(***************************************************************************)
(* What the worker's commits promise: a stored volume that changes by one  *)
(* mutation at a time, each of them entirely or not at all, whatever       *)
(* becomes of the process that carries it out.                             *)
(***************************************************************************)
EXTENDS Volume

VARIABLES
  stored,   (* the content that survives whatever happens                    *)
  pending   (* the content a mutation is about to install, or None           *)

vars == <<stored, pending>>

Init == stored \in Content /\ pending = None

Begin ==
  /\ pending = None
  /\ \E m \in Mutation : Legal(stored, m) /\ pending' = Apply(stored, m)
  /\ UNCHANGED stored

Install ==
  /\ pending # None
  /\ stored' = pending
  /\ pending' = None

(* The mutation fails, or the process that carries it out dies. *)
Forget ==
  /\ pending' = None
  /\ UNCHANGED stored

Next == Begin \/ Install \/ Forget

Spec == Init /\ [][Next]_vars

=============================================================================
