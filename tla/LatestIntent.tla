---------------------------- MODULE LatestIntent ----------------------------
(***************************************************************************)
(* What a transmit-only radio promises (internal/rf): for each device only *)
(* the latest command matters.  A command that is still waiting when the   *)
(* next one for the same device arrives is superseded; a waiting command   *)
(* is taken on exactly once.                                               *)
(***************************************************************************)
CONSTANTS Device, Tx, None

VARIABLES
  intent,   \* the waiting transmission of each device, or None
  taken     \* the last transmission each device was served, or None

Init ==
  /\ intent = [d \in Device |-> None]
  /\ taken = [d \in Device |-> None]

Ask(d, t) ==
  /\ intent' = [intent EXCEPT ![d] = t]
  /\ UNCHANGED taken

Serve(d) ==
  /\ intent[d] # None
  /\ taken' = [taken EXCEPT ![d] = intent[d]]
  /\ intent' = [intent EXCEPT ![d] = None]

Next == \E d \in Device : Serve(d) \/ \E t \in Tx : Ask(d, t)

Spec == Init /\ [][Next]_<<intent, taken>>

=============================================================================
