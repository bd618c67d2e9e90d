--------------------------- MODULE MCDynamicRefresh ---------------------------
(* Instance of DynamicRefresh: ranks that disagree between the two seeds. *)
EXTENDS DynamicRefresh

MCRank(s, i, e) == (e * (2 * s + i) + i) % 5
MCSets == {{1, 2, 3}, {2}}
===============================================================================
