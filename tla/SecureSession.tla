--------------------------- MODULE SecureSession ---------------------------
(***************************************************************************)
(* One direction of an established Matter secure session                   *)
(* (go-matter/session): the sender stamps each message with a transmit     *)
(* counter that is part of the AES-CCM nonce, the receiver filters         *)
(* counters through a sliding replay window.                               *)
(*                                                                         *)
(* The code's window is 32 counters wide and its counters are uint32;      *)
(* Window and MaxCounter are parameters here.  The uint32 bitmap is the    *)
(* set of its set bits: distance d is in `bitmap' iff bit d-1 is set,      *)
(* that is, iff counter max-d is recorded as accepted.                     *)
(*                                                                         *)
(* The network may lose, duplicate, delay and reorder frames: a frame that *)
(* was sent stays in `sent' and may be received any number of times.       *)
(***************************************************************************)
EXTENDS Naturals, FiniteSets

CONSTANTS
  Window,      \* width of the replay window (32 in the code)
  MaxCounter,  \* largest transmit counter (2^32 - 1 in the code)
  Payload      \* protocol payloads, told apart by identity only

ASSUME WindowAssumption == Window \in Nat \ {0}
ASSUME MaxCounterAssumption == MaxCounter \in Nat

VARIABLES
  txCounter,   \* sender: counter of the next message
  sent,        \* frames put on the wire: [counter, payload]
  rx,          \* receiver: replayWindow, [init, max, bitmap]
  accepted,    \* history: counters DecryptMsg accepted
  again        \* history: counters DecryptMsg accepted a second time

vars == <<txCounter, sent, rx, accepted, again>>

Counter == 0..MaxCounter
Distance == 1..Window

Frame == [counter : Counter, payload : Payload]
ReplayWindow == [init : BOOLEAN, max : Counter, bitmap : SUBSET Distance]

TypeOK ==
  /\ txCounter \in Counter
  /\ sent \in SUBSET Frame
  /\ rx \in ReplayWindow
  /\ accepted \in SUBSET Counter
  /\ again \in SUBSET Counter

-----------------------------------------------------------------------------
(***************************************************************************)
(* replayWindow.accept.                                                    *)
(***************************************************************************)

\* Mutant of Shifted: the bit of the old maximum lands one place too high.
ShiftedOffByOne(w, shift) ==
  IF shift < Window
    THEN {d \in Distance : d = shift + 1 \/ (d > shift /\ d - shift \in w.bitmap)}
    ELSE {}

\* The bitmap after the window moved up by `shift' counters.
Shifted(w, shift) ==
  IF shift < Window
    THEN {d \in Distance : d = shift \/ (d > shift /\ d - shift \in w.bitmap)}
    ELSE {}

\* Mutant of Fresh: the window is consulted for staleness only.
FreshNoBitmap(w, c) == ~w.init \/ c > w.max \/ (c < w.max /\ w.max - c <= Window)

\* Whether accept(c) returns nil.
Fresh(w, c) ==
  \/ ~w.init
  \/ c > w.max
  \/ /\ c < w.max
     /\ w.max - c <= Window
     /\ w.max - c \notin w.bitmap

\* The window after accept(c) returned nil.
Accept(w, c) ==
  IF ~w.init THEN [init |-> TRUE, max |-> c, bitmap |-> w.bitmap]
  ELSE IF c > w.max
    THEN [w EXCEPT !.max = c, !.bitmap = Shifted(w, c - w.max)]
    ELSE [w EXCEPT !.bitmap = @ \cup {w.max - c}]

-----------------------------------------------------------------------------

\* NewSecure: a randomized initial transmit counter and an empty window.
Init ==
  /\ txCounter \in Counter
  /\ sent = {}
  /\ rx = [init |-> FALSE, max |-> 0, bitmap |-> {}]
  /\ accepted = {}
  /\ again = {}

\* Mutant of Encrypt: the counter wraps.
EncryptWraps(p) ==
  /\ sent' = sent \cup {[counter |-> txCounter, payload |-> p]}
  /\ txCounter' = (txCounter + 1) % (MaxCounter + 1)
  /\ UNCHANGED <<rx, accepted, again>>

\* Secure.Encrypt refuses the last counter value instead of wrapping.
Encrypt(p) ==
  /\ txCounter # MaxCounter
  /\ sent' = sent \cup {[counter |-> txCounter, payload |-> p]}
  /\ txCounter' = txCounter + 1
  /\ UNCHANGED <<rx, accepted, again>>

\* Secure.DecryptMsg on an authentic frame: accepted, or ErrReplay.
DecryptMsg(f) ==
  /\ f \in sent
  /\ IF Fresh(rx, f.counter)
       THEN /\ rx' = Accept(rx, f.counter)
            /\ accepted' = accepted \cup {f.counter}
            /\ again' = again \cup ({f.counter} \cap accepted)
       ELSE UNCHANGED <<rx, accepted, again>>
  /\ UNCHANGED <<txCounter, sent>>

Next ==
  \/ \E p \in Payload : Encrypt(p)
  \/ \E f \in sent : DecryptMsg(f)

Spec == Init /\ [][Next]_vars

-----------------------------------------------------------------------------

\* No (key, nonce) pair is ever used for two messages: Encrypt never stamps a
\* counter a second time, not even when the counter space runs out.
NonceUnique ==
  \A f, g \in sent : f.counter = g.counter => f = g

\* Counters at distance 1..Window-1 below the highest accepted one are
\* remembered exactly, and every accepted counter is at or below the highest.
\* So in that range a duplicate is never accepted and a fresh frame that was
\* merely late is never mistaken for a replay.
WindowFaithful ==
  /\ ~rx.init => accepted = {} /\ rx.bitmap = {}
  /\ rx.init => rx.max \in accepted
  /\ \A c \in accepted : c <= rx.max
  /\ \A d \in Distance : rx.init /\ d < Window /\ d <= rx.max =>
        (d \in rx.bitmap <=> rx.max - d \in accepted)

\* DecryptMsg can accept an already accepted counter only at the far edge of
\* the window, exactly Window counters below the highest one.
DuplicateOnlyAtEdge ==
  \A c \in accepted : Fresh(rx, c) => rx.max - c = Window

\* replay.go: "replayWindow rejects duplicate and stale message counters".
NoDuplicateAccepted == again = {}

=============================================================================
