---------------------------- MODULE MCOrderLifecycle ----------------------------
(***************************************************************************)
(* Orders, payments and stock on small instances.  Each configuration picks *)
(* the requests, jobs and gateway behaviours that meet; a set of actors     *)
(* that is empty does not take part.                                        *)
(***************************************************************************)
EXTENDS OrderLifecycle, TLC

\* Sound for the runs that check invariants only.
RequestSymmetry == Permutations(Deliveries) \cup Permutations(Events)
                   \cup Permutations(Completions)
=============================================================================
