------------------------------- MODULE Export -------------------------------
(***************************************************************************)
(* GET /export.sql: database.dump(), streamed to a client while the other  *)
(* worker goes on.  iterdump() of sqlite3 selects one table after another, *)
(* in the order of their names, and each SELECT sees the table as it is by *)
(* then: there is no transaction around them.  Of the tables, the two that *)
(* refer to each other most are here.                                      *)
(***************************************************************************)
EXTENDS History

VARIABLE dump            \* the tables sent so far

exportVars == <<vars, dump>>

(* The order of iterdump(), and another that would do as well for a        *)
(* database at rest.                                                       *)
DumpOrderReversed == <<"patch_request", "dataset">>
DumpOrder == <<"dataset", "patch_request">>

TableRows(table) == IF table = "dataset" THEN dataset ELSE request

DumpTable ==
  /\ Len(dump) < Len(DumpOrder)
  /\ dump' = Append(dump, TableRows(DumpOrder[Len(dump) + 1]))
  /\ UNCHANGED vars

(* The dump is complete, or its client or worker went away.                *)
DumpEnd ==
  /\ dump # <<>>
  /\ dump' = <<>>
  /\ UNCHANGED vars

ExportInit == Init /\ dump = <<>>

ExportNext ==
  \/ Next /\ UNCHANGED dump
  \/ DumpTable
  \/ DumpEnd

ExportSpec == ExportInit /\ [][ExportNext]_exportVars

-----------------------------------------------------------------------------
(* The tables of a complete dump.                                          *)
Complete == Len(dump) = Len(DumpOrder)
Dumped(table) == dump[CHOOSE k \in DOMAIN DumpOrder : DumpOrder[k] = table]

(* In a dump, every version of the dataset comes with the merged request   *)
(* that made it, however the dump and merges overlap: a copy of the server *)
(* (Makefile:31-42) has a history of all it shows.  The converse is not    *)
(* so: a request may be dumped as merged into a version that is not there. *)
DumpedVersionsHaveASource ==
  Complete =>
    \A v \in DOMAIN Dumped("dataset") :
      \E i \in DOMAIN Dumped("patch_request") :
        LET row == Dumped("patch_request")[i]
        IN row.merged /\ row.resulted_in = v
=============================================================================
