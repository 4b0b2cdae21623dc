---------------------------- MODULE MCGraphStore ----------------------------
(* Values for the model-checking runs of GraphStore.                       *)
EXTENDS GraphStore, TLC

CONSTANTS w1, w2, A, B, places, bare

MCUnder ==
  A :> {} @@ B :> {} @@ places :> {A, B} @@ bare :> {A, B} @@ Root :> {A, B}

WorkerSymmetry == Permutations(Workers)
=============================================================================
