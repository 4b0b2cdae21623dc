----------------------------- MODULE MCBagStore -----------------------------
(* Values for the model-checking run of BagStore and Access.               *)
EXTENDS Access, TLC

CONSTANTS w1, w2, maker, other, newcomer, b1, q1, q2, q3

MCMaker == b1 :> maker
MCListings == {<<q1>>, <<q1, q2>>, <<q2, q3>>}

(* Overlapping PUTs and a changing dataset are explored while nothing      *)
(* happens to the users; what does happen to the maker and the newcomer,   *)
(* with one PUT at a time until the bag has MCVersions versions.           *)
MCVersions == 1
MCNothingHappens == tab = <<>> /\ \A u \in Users : user[u] \in {NoAccount, NewAccount(EarlierToken(u))}
MCOnePut ==
  /\ user[other] = NewAccount(EarlierToken(other)) /\ \A k \in DOMAIN tab : tab[k].user # other
  /\ Len(dataset) = 1 /\ Len(bag[b1]) <= MCVersions
  /\ Cardinality({w \in Workers : worker[w] # Idle}) <= 1
MCBound == MCNothingHappens' \/ MCOnePut'

WorkerSymmetry == Permutations(Workers)
=============================================================================
