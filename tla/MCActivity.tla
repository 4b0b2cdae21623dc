----------------------------- MODULE MCActivity -----------------------------
(* Values for the model-checking run of Activity.                          *)
EXTENDS Activity

Query(sort, order, filter, limit) ==
  [sort |-> sort, order |-> order, filter |-> filter, limit |-> limit]

MCQueries == {
  Query("updated_at", "desc", "none", 1),
  Query("updated_at", "desc", "none", 0),
  Query("updated_at", "asc", "none", 1),
  Query("created_at", "desc", "open", 1),
  Query("created_at", "asc", "none", 2),
  Query("updated_at", "desc", "merged", 1),
  Query("created_at", "desc", "none", -1) }
=============================================================================
