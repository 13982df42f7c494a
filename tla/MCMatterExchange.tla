-------------------------- MODULE MCMatterExchange --------------------------
(***************************************************************************)
(* The conditions under which TLC checks MatterExchange.                   *)
(***************************************************************************)
EXTENDS MatterExchange

\* Two calls with arbitrary delays, spurious timeouts and reordering.
Delayed == [retransmits |-> 1, messages |-> 3, calls |-> 2, reports |-> 0,
            sealed |-> 6, losses |-> 0, timely |-> FALSE]

\* A subscription under the same network.
Subscribed == [Delayed EXCEPT !.messages = 2, !.calls = 0, !.reports = 2, !.sealed = 5]

\* Calls and a subscription with timers that fire only on loss, and as many
\* losses as there are retransmissions.
Lossy == [retransmits |-> 2, messages |-> 12, calls |-> 2, reports |-> 2,
          sealed |-> 20, losses |-> 2, timely |-> TRUE]

AllScenarios == {Delayed, Subscribed, Lossy}

=============================================================================
