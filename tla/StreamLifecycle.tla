--------------------------- MODULE StreamLifecycle ---------------------------
(***************************************************************************)
(* The life of a camera stream as an observer may see it: an attempt either*)
(* connects or fails, a connection streams or fails, and every failure is  *)
(* followed by another attempt.                                            *)
(***************************************************************************)
VARIABLE state

States ==
  {"Unknown", "Connecting", "Connected", "Streaming", "Reconnecting", "Failed"}

Successors ==
  [Unknown      |-> {"Connecting"},
   Connecting   |-> {"Connected", "Reconnecting", "Failed"},
   Connected    |-> {"Streaming", "Reconnecting", "Failed"},
   Streaming    |-> {"Reconnecting", "Failed"},
   Reconnecting |-> {"Connecting"},
   Failed       |-> {"Connecting"}]

Init == state = "Unknown"

Next == state' \in Successors[state]

Spec == Init /\ [][Next]_state
=============================================================================
