----------------------------- MODULE MCConfigEdit -----------------------------
(***************************************************************************)
(* Edits for TLC: c1 adds a host, and c2 removes another.  c2 shares its   *)
(* process, and so its cache, with the reader.                             *)
(***************************************************************************)
EXTENDS ConfigEdit

CONSTANTS c1, c2, r, p, q, h1, old

MCEditOf ==
  [c \in Calls |->
    CASE c = c1 -> [from |-> {}, to |-> {h1}]
      [] c = c2 -> [from |-> {old}, to |-> {}]]

MCProcOf == [l \in Loaders |-> IF l = c1 THEN p ELSE q]
=============================================================================
