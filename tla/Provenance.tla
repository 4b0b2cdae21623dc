----------------------------- MODULE Provenance -----------------------------
(***************************************************************************)
(* What readers are told about an authority or a period: which version an  *)
(* /<id>?version=v is redirected to, and whether an identifier that is not *)
(* in the data was removed (410) or never existed (404).                   *)
(***************************************************************************)
EXTENDS Patching, FiniteSetsExt

(* find_version_of_last_update(): the newest request wins, not the newest  *)
(* result.                                                                 *)
LastUpdateBefore(e, v) ==
  LET touching == {i \in Merged : /\ request[i].resulted_in < v
                                  /\ e \in request[i].created \cup request[i].updated}
  IN IF touching = {} THEN Null ELSE request[Max(touching)].resulted_in
LastUpdate(e, v) ==
  LET touching == {i \in Merged : /\ request[i].resulted_in <= v
                                  /\ e \in request[i].created \cup request[i].updated}
  IN IF touching = {} THEN Null ELSE request[Max(touching)].resulted_in

(* Authority.get and Period.get for the current version: the status, with  *)
(* the key that extract_authority or extract_period reports as missing.    *)
MissingKeyItself(e) == e
MissingKey(e) ==
  IF e \in PeriodIds /\ AuthorityOf[e] \notin DOMAIN Version(Latest)
  THEN AuthorityOf[e] ELSE e

StatusOf(e) ==
  IF e \in DOMAIN Version(Latest) THEN 200
  ELSE IF MissingKey(e) \in RemovedKeys THEN 410
  ELSE 404

-----------------------------------------------------------------------------
(* Every entity of every version can be asked for by that version: the     *)
(* lookup never answers 404 for it.                                        *)
EveryEntityHasAnUpdate ==
  \A v \in 1..Latest : \A e \in DOMAIN dataset[v] : LastUpdate(e, v) # Null

(* The redirect of /<id>?version=v leads to the same content as version v  *)
(* has.                                                                    *)
RedirectKeepsContent ==
  \A v \in 1..Latest : \A e \in DOMAIN dataset[v] :
    LET u == LastUpdate(e, v)
    IN u # Null => e \in DOMAIN dataset[u] /\ dataset[u][e] = dataset[v][e]

(* The same, when requests have been merged in the order of their ids.     *)
InOrder ==
  \A i, j \in Merged : i < j => request[i].resulted_in < request[j].resulted_in

RedirectKeepsContentInOrder == InOrder => RedirectKeepsContent

(* An entity that was in some version and is no longer in the data is      *)
(* reported as gone, not as never heard of.                                *)
RemovedMeansGone ==
  \A v \in 1..Latest : \A e \in DOMAIN dataset[v] : StatusOf(e) # 404

(* A permanent identifier is given to one entity only.                     *)
IdsNeverReused ==
  \A i, j \in Merged : i # j => request[i].created \cap request[j].created = {}
=============================================================================
