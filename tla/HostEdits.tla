------------------------------- MODULE HostEdits -------------------------------
(***************************************************************************)
(* The edits the SSH section makes to ~/.ssh/config, a set of hosts here:  *)
(* add a host, remove one, or replace one.                                 *)
(***************************************************************************)
CONSTANTS
  Calls,         \* the edits, each made once
  Hosts,         \* the names of Host blocks
  EditOf         \* the hosts each edit takes out and puts in

ASSUME EditAssumption ==
  EditOf \in [Calls -> [from : SUBSET Hosts, to : SUBSET Hosts]]

\* remove_host wants its host to be there, unless a replacement follows, which
\* ignores that; add_host wants its host not to be there.
Fits(c, hosts) ==
  /\ EditOf[c].to = {} => EditOf[c].from \subseteq hosts
  /\ EditOf[c].to \cap (hosts \ EditOf[c].from) = {}

Edited(c, hosts) == (hosts \ EditOf[c].from) \cup EditOf[c].to
=============================================================================
