--------------------------- MODULE MCSdkTransport ---------------------------
(* Callers of one connection: plain requests, a subscription and a drop    *)
(* guard that may be dropped; a wait with the daemon dying; a shutdown     *)
(* behind a subscription; requests that cannot be encoded and answers      *)
(* nobody asked for; and as many requests as fill both queues, the frame   *)
(* buffer and both directions of the connection.                           *)
EXTENDS SdkTransport, TLC
CONSTANTS c1, c2, c3, c4, c5

MCScenarios ==
    {[kind |-> c1 :> "subscribe" @@ c2 :> "request" @@ c3 :> "guard", deadline |-> {}, order |-> <<>>, faults |-> {"drop", "refuse"}],
     [kind |-> c1 :> "subscribe" @@ c2 :> "subscribe" @@ c3 :> "request", deadline |-> {c3}, order |-> <<>>, faults |-> {"refuse"}],
     [kind |-> c1 :> "wait" @@ c2 :> "request", deadline |-> {c1, c2}, order |-> <<>>, faults |-> {"drop", "crash", "refuse"}],
     [kind |-> c1 :> "subscribe" @@ c2 :> "request" @@ c3 :> "shutdown", deadline |-> {}, order |-> <<>>, faults |-> {"drop", "abort", "refuse"}],
     [kind |-> c1 :> "large" @@ c2 :> "wait" @@ c3 :> "shutdown", deadline |-> {}, order |-> <<>>, faults |-> {"crash", "refuse"}],
     [kind |-> c1 :> "request" @@ c2 :> "wait", deadline |-> {}, order |-> <<>>, faults |-> {"stray", "refuse"}],
     [kind |-> [c \in {c1, c2, c3, c4, c5} |-> "request"], deadline |-> {}, order |-> <<c1, c2, c3, c4, c5>>, faults |-> {}]}
=============================================================================
