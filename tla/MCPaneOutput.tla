---------------------------- MODULE MCPaneOutput ----------------------------
(* The pane output channel on small instances. *)
EXTENDS PaneOutput
CONSTANTS l1, l2, p1, w1, s1, s2

MCPopulations == {{l1, w1}, {p1}, {s1, s2}}
MCTwoLive == {{l1, l2, p1}}
=============================================================================
