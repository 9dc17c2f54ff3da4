----------------------------- MODULE MCPaneState -----------------------------
(* Pane state streams on small instances: a stream of options among title  *)
(* changes and large values; a stream of titles that are set in two ways;  *)
(* one over kept exits, reported twice, and respawns; two streams of       *)
(* different kinds; a foreground stream over respawns; two foreground      *)
(* streams while the server shuts down.                                    *)
EXTENDS PaneState
CONSTANTS c1, c2, p1

MCBytes == [none |-> 0, a |-> 1, b |-> 1, large |-> 6, huge |-> 7, giant |-> 8]

Alone == c1 :> p1
Both == Alone @@ (c2 :> p1)

MCScenarios ==
    {[target |-> Alone, include |-> c1 :> {"options"}, max_per_pane |-> 1,
      options |-> {"none", "a", "large", "huge", "giant"}, ops |-> {"options", "select", "kill"}, revisions |-> 4, subscriptions |-> 2],
     [target |-> Alone, include |-> c1 :> {"title"}, max_per_pane |-> 1,
      options |-> {}, ops |-> {"title", "select", "exit", "eof", "respawn"}, revisions |-> 4, subscriptions |-> 2],
     [target |-> Alone, include |-> c1 :> {"title"}, max_per_pane |-> 1,
      options |-> {}, ops |-> {"title", "keep", "exit", "eof", "child", "respawn"}, revisions |-> 4, subscriptions |-> 2],
     [target |-> Both, include |-> (c1 :> {"title"}) @@ (c2 :> {"options"}), max_per_pane |-> 2,
      options |-> {"none", "a"}, ops |-> {"title", "options", "kill"}, revisions |-> 3, subscriptions |-> 2],
     [target |-> Alone, include |-> c1 :> {"foreground"}, max_per_pane |-> 1,
      options |-> {}, ops |-> {"keep", "respawn", "eof"}, revisions |-> 4, subscriptions |-> 2],
     [target |-> Both, include |-> (c1 :> {"foreground"}) @@ (c2 :> {"foreground"}), max_per_pane |-> 2,
      options |-> {}, ops |-> {"shutdown"}, revisions |-> 3, subscriptions |-> 2]}
=============================================================================
