------------------------------ MODULE MCExport ------------------------------
(* The values of MCPatching, for the run that has Export beside Patching.  *)
EXTENDS Export, MCPatching

(* Nothing needs to happen beside a dump that is complete, nor a dump to   *)
(* begin before there is a version after the loaded one.                   *)
MCShortDumps ==
  /\ Complete => dump' = <<>>
  /\ dump = <<>> /\ dump' # <<>> => Latest \in 2..(MaxVersions - 1)
=============================================================================
