--------------------------- MODULE MCControlClients ---------------------------
(***************************************************************************)
(* The instance of ControlClients that TLC checks: two partitions, two     *)
(* letters, one of which stays in use.  Users add the first partition on   *)
(* the letter of the second one or clear the table; the manager's rows     *)
(* give the other commands.                                                *)
(***************************************************************************)
EXTENDS ControlClients

MCTarget    == {"p1", "p2"}
MCRegion    == {"r1", "r2"}
MCRegionOf  == [t \in MCTarget |-> IF t = "p1" THEN "r1" ELSE "r2"]
MCScanName  == [r \in MCRegion |-> IF r = "r1" THEN "p1" ELSE "p2"]
MCScanRank  == [r \in MCRegion |-> IF r = "r1" THEN 0 ELSE 1]

Saved(l) == [mount |-> l, read_only |-> TRUE, allow_raw_writes |-> FALSE, enabled |-> TRUE]

MCFirstTables == {[t \in MCTarget |-> Saved(IF t = "p1" THEN 1 ELSE 2)]}

MCCommands ==
  {[op |-> "add_mount", target |-> "p1", mount |-> 2, read_only |-> TRUE,
    allow_raw_writes |-> FALSE],
   [op |-> "clear_mounts"]}

=============================================================================
