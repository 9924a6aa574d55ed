---------------------------- MODULE MCReplication ----------------------------
(* Small instances of Replication; the constants are in the cfg files. *)
EXTENDS Replication
==============================================================================
