------------------------------ MODULE MessageBus ------------------------------
(***************************************************************************)
(* The bus every agent hangs on: the inbox of one agent, a priority queue  *)
(* with back-pressure, the loop that takes from it, and the dead letters   *)
(* the health loop of the orchestrator watches.                            *)
(*                                                                         *)
(* A message is its priority and its number.                               *)
(***************************************************************************)
EXTENDS Naturals, FiniteSets

CONSTANTS
    SoftLimit, HardLimit,   \* sizes of the inbox at which messages are dropped
    DlqMax,                 \* dead letters kept
    MaxMessages             \* bound on messages published

Critical == 0
High == 1
Normal == 2
Low == 3
Priorities == Critical .. Low
None == 0

VARIABLES
    inbox,       \* messages waiting, as [priority, seq]
    seq,         \* numbers given so far
    handling,    \* the number of the message being handled, or None
    taken,       \* [Priorities -> number of the last one taken]
    lost,        \* priorities of which a message was dropped
    skipped,     \* a message was taken before an older one of its priority
    dead,        \* dead letters kept
    died,        \* dead letters there have been
    seen, told   \* dead letters the health loop saw, and has told of

vars == <<inbox, seq, handling, taken, lost, skipped, dead, died, seen, told>>

Init ==
    /\ inbox = {} /\ seq = 0 /\ handling = None
    /\ taken = [p \in Priorities |-> 0] /\ lost = {} /\ skipped = FALSE
    /\ dead = 0 /\ died = 0 /\ seen = 0 /\ told = 0

\* Beyond the soft limit what is low is dropped, beyond the hard limit what is
\* normal too.
DroppedMore(p) ==
    \/ Cardinality(inbox) >= HardLimit /\ p >= High
    \/ Cardinality(inbox) >= SoftLimit /\ p >= Low
Dropped(p) ==
    \/ Cardinality(inbox) >= HardLimit /\ p >= Normal
    \/ Cardinality(inbox) >= SoftLimit /\ p >= Low

\* Bound: messages are numbered up to MaxMessages.
Publish(p) ==
    /\ seq < MaxMessages /\ seq' = seq + 1
    /\ inbox' = IF Dropped(p) THEN inbox
                ELSE inbox \union {[priority |-> p, seq |-> seq + 1]}
    /\ lost' = IF Dropped(p) THEN lost \union {p} ELSE lost
    /\ UNCHANGED <<handling, taken, skipped, dead, died, seen, told>>

\* The most urgent first, and of those the oldest.
First(m) ==
    \A n \in inbox : \/ m.priority < n.priority
                     \/ m.priority = n.priority /\ m.seq <= n.seq

Receive(m) ==
    /\ handling = None /\ m \in inbox /\ First(m)
    /\ inbox' = inbox \ {m} /\ handling' = m.seq
    /\ skipped' = (skipped \/ taken[m.priority] > m.seq)
    /\ taken' = [taken EXCEPT ![m.priority] = m.seq]
    /\ UNCHANGED <<seq, lost, dead, died, seen, told>>

\* A handler that raises is logged; its message is not put back.
Handled ==
    /\ handling # None /\ handling' = None
    /\ UNCHANGED <<inbox, seq, taken, lost, skipped, dead, died, seen, told>>

\* An important message without a subscriber.
Dies ==
    /\ died < MaxMessages /\ died' = died + 1
    /\ dead' = IF dead < DlqMax THEN dead + 1 ELSE DlqMax
    /\ UNCHANGED <<inbox, seq, handling, taken, lost, skipped, seen, told>>

\* The health loop compares the size with the one it saw before.
Health ==
    /\ told' = IF dead > seen THEN died ELSE told
    /\ seen' = dead
    /\ UNCHANGED <<inbox, seq, handling, taken, lost, skipped, dead, died>>

Next ==
    \/ \E p \in Priorities : Publish(p)
    \/ \E m \in inbox : Receive(m)
    \/ Handled \/ Dies \/ Health

Spec ==
    /\ Init /\ [][Next]_vars
    /\ WF_vars(\E m \in inbox : Receive(m)) /\ WF_vars(Handled) /\ WF_vars(Health)

-----------------------------------------------------------------------------
(* Properties.                                                                *)

\* Of two waiting messages the more urgent, then the older, is handled first.
Ordered == ~skipped

\* Back-pressure never drops an urgent message.
UrgentKept == lost \intersect {Critical, High} = {}

\* What a busy agent may do to a message: delay it or drop it, by urgency only.
UrgencyRespected == Ordered /\ UrgentKept

\* Growth of the dead letters is told (orchestrator.py:371).
GrowthTold == died > told ~> told = died
=============================================================================
