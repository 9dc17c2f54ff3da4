----------------------------- MODULE MCSdkWaits -----------------------------
(* SDK waits on one pane that emits the bytes 1 and 2; they wait for 2, 2. *)
EXTENDS SdkWaits

CONSTANTS r1, r2, c1, c2, o1, w1, w2

MCPayloads == {<<1>>, <<2>>, <<1, 2>>}
MCNeedle == <<2, 2>>

(* Nothing distinguishes two requests, two connections or two wait ids. *)
MCSymmetry == Permutations({r1, r2}) \cup Permutations({c1, c2}) \cup Permutations({w1, w2})
=============================================================================
