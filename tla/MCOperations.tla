---------------------------- MODULE MCOperations -----------------------------
(****************************************************************************)
(* Model checking of what runs beside the two lanes: the loss guard that    *)
(* pauses admission, the halts that stop trading, the ledger that resolves  *)
(* the profit of closes, and the sidecar that is drained before the         *)
(* tactical lane goes live. They do not share state here, so one run takes  *)
(* them one after the other.                                                *)
(****************************************************************************)
EXTENDS LossGuard

CONSTANTS
    MaxTime, MaxFinals,                                \* bounds of the loss guard
    Symbols, NoSymbol, MaxHalts,                       \* of the halts
    PnlCloses, Lanes, MaxCrashes,                      \* of the ledger
    Plans, PlanSymbols, NoPlan, SymbolOf, SideOf,      \* of the sidecar
    MaxActive, MaxFaults, MaxStops

\* The closes of a symbol are numbered in their order, from one.
ASSUME PnlAssumption == IsFiniteSet(PnlCloses) /\ PnlCloses = 1 .. Cardinality(PnlCloses)
ASSUME SidecarAssumption == SymbolOf \in [Plans -> PlanSymbols] /\ NoPlan \notin Plans

VARIABLES
    part,   \* the component that moves
    haltsGlobal, haltsStopped, haltsSymbolHalt, haltsProtection,
    haltsAlerted, haltsOpening, haltsClearing, haltsResume, haltsOrdered,
    haltsEvents,
    pnlLane, pnlStage, pnlSpread, pnlAged, pnlVisible, pnlBooked, pnlPend,
    pnlAlerted, pnlCorrections, pnlLife, pnlAcked, pnlWork, pnlOutbox,
    pnlRouting, pnlSettled, pnlBus, pnlHistory, pnlKnown, pnlRaced,
    pnlCrashes,
    sidecarHeld, sidecarSeen, sidecarAdmission, sidecarRows, sidecarFile,
    sidecarRun, sidecarMem, sidecarHalted, sidecarStop, sidecarRetired,
    sidecarFaults, sidecarStops

\* Results of -2 and +1 against a limit of -4, cut off at MaxTime and MaxFinals.
MCOutcomes == {-2, 1}
MCLimit == -4
Bounded == clock <= MaxTime /\ Cardinality(issued) <= MaxFinals
\* Closes differ by number only: the first final of each comes in their order.
InOrder == \A r \in issued : r.close = 1 \/ \E q \in issued : q.close + 1 = r.close

\* MaxHalts bounds halts of any kind and restarts.
Halts == INSTANCE TradingHalts WITH
    global <- haltsGlobal, stopped <- haltsStopped,
    symbolHalt <- haltsSymbolHalt, protection <- haltsProtection,
    alerted <- haltsAlerted, opening <- haltsOpening,
    clearing <- haltsClearing, resume <- haltsResume,
    ordered <- haltsOrdered, events <- haltsEvents
halts == <<haltsGlobal, haltsStopped, haltsSymbolHalt, haltsProtection,
           haltsAlerted, haltsOpening, haltsClearing, haltsResume,
           haltsOrdered, haltsEvents>>

\* MaxCrashes bounds crashes and lost writes.
Pnl == INSTANCE PnlLedger WITH
    Closes <- PnlCloses, lane <- pnlLane, stage <- pnlStage, spread <- pnlSpread,
    aged <- pnlAged, visible <- pnlVisible, booked <- pnlBooked,
    pend <- pnlPend, alerted <- pnlAlerted, corrections <- pnlCorrections,
    life <- pnlLife, acked <- pnlAcked, work <- pnlWork,
    outbox <- pnlOutbox, routing <- pnlRouting, settled <- pnlSettled,
    bus <- pnlBus, history <- pnlHistory, known <- pnlKnown,
    raced <- pnlRaced, crashes <- pnlCrashes
pnl == <<pnlLane, pnlStage, pnlSpread, pnlAged, pnlVisible, pnlBooked,
         pnlPend, pnlAlerted, pnlCorrections, pnlLife, pnlAcked, pnlWork,
         pnlOutbox, pnlRouting, pnlSettled, pnlBus, pnlHistory, pnlKnown,
         pnlRaced, pnlCrashes>>

\* Two plans of one symbol on opposite sides.
MCSymbolOf == [p \in Plans |-> CHOOSE s \in PlanSymbols : TRUE]
MCSideOf == <<"long", "short">>
Sidecar == INSTANCE SidecarOwners WITH
    Symbols <- PlanSymbols, held <- sidecarHeld, seen <- sidecarSeen,
    admission <- sidecarAdmission, rows <- sidecarRows, file <- sidecarFile,
    run <- sidecarRun, mem <- sidecarMem, halted <- sidecarHalted,
    stop <- sidecarStop, retired <- sidecarRetired, faults <- sidecarFaults,
    stops <- sidecarStops
sidecar == <<sidecarHeld, sidecarSeen, sidecarAdmission, sidecarRows,
             sidecarFile, sidecarRun, sidecarMem, sidecarHalted,
             sidecarStop, sidecarRetired, sidecarFaults, sidecarStops>>

all == <<part, gvars, halts, pnl, sidecar>>

\* A behaviour is one of a component; the others stand where they begin.
MCInit ==
    /\ part \in {"losses", "halts", "pnl", "sidecar"}
    /\ GuardInit
    /\ Halts!Init
    /\ Pnl!Init
    /\ part # "pnl" => pnlLane = "main"
    /\ Sidecar!Init

\* Bound: faults in the live lane only, whose finals are replayed.
MCNext ==
    \/ part = "losses" /\ GuardNext /\ (Bounded /\ InOrder)'
       /\ UNCHANGED <<part, halts, pnl, sidecar>>
    \/ part = "halts" /\ Halts!Next /\ UNCHANGED <<part, gvars, pnl, sidecar>>
    \/ /\ part = "pnl" /\ Pnl!Next /\ (pnlLane = "main" => pnlCrashes' = 0)
       /\ UNCHANGED <<part, gvars, halts, sidecar>>
    \/ part = "sidecar" /\ Sidecar!Next /\ UNCHANGED <<part, gvars, halts, pnl>>

\* The fairness of each component while it moves.
MCSpec ==
    /\ MCInit /\ [][MCNext]_all
    /\ WF_halts(part = "halts" /\ Halts!FinishClear)
    /\ \A s \in Symbols :
             SF_halts(part = "halts" /\ haltsProtection[s] = "protected" /\ Halts!FoundSL(s))
    /\ \A c \in PnlCloses :
          /\ WF_pnl(part = "pnl" /\ Pnl!Notify(c))
          /\ WF_pnl(part = "pnl" /\ Pnl!DayPasses(c))
    /\ WF_pnl(part = "pnl" /\ Pnl!Scan)
    /\ \A r \in Pnl!Resolvers :
          /\ WF_pnl(part = "pnl" /\ Pnl!Resolve(r))
          /\ WF_pnl(part = "pnl" /\ Pnl!ApplyAnswer(r))
    /\ WF_pnl(part = "pnl" /\ \E i \in DOMAIN pnlCorrections : Pnl!Route(i))
    /\ WF_pnl(part = "pnl" /\ Pnl!Acknowledge)
    /\ WF_pnl(part = "pnl" /\ Pnl!Replay)
    /\ WF_pnl(part = "pnl" /\ Pnl!Review)
    /\ WF_sidecar(part = "sidecar" /\ Sidecar!Run)
    /\ WF_sidecar(part = "sidecar" /\ (Sidecar!StopRow \/ Sidecar!StopSave))

-----------------------------------------------------------------------------
(* What is checked.                                                         *)

\* Healing one symbol never opens trading while another that was halted for a
\* lost stop still has none; a halt heals only when the stop is back or the
\* position gone; and it does not stay after that.
HaltsHeal == Halts!HaltsHeal

\* The day's profit counts the closing fill of a position at most once,
\* unless two resolutions of the close were under way together or a final was
\* written over the pending event of another close.
CountedOnce == Pnl!CountedOnce

\* A pending close gets a final or is left to a human, and the final of a
\* live one is delivered.
ClosesAnswered == Pnl!ClosesAnswered

\* On the way to retirement nothing new is opened, an owner of a flat symbol
\* is let go, and the report does not call flat what is not.
SidecarDrains == Sidecar!SidecarDrains
==============================================================================
