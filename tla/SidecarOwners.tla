---------------------------- MODULE SidecarOwners ----------------------------
(***************************************************************************)
(* The live sidecar: a process that copies shadow tactical plans to the    *)
(* exchange, the registry of what it owns, its monitor, the operator's     *)
(* commands, which run in processes of their own, and the drain report     *)
(* that lets the tactical lane go live.                                    *)
(*                                                                         *)
(* One position per symbol at the exchange, whoever opened it.  A plan is  *)
(* the shadow record it was read from; sizes, prices, stop orders and the  *)
(* partial exits, which keep the position, are left out, and so is the PnL *)
(* of a flat close, which the operator documents.                          *)
(***************************************************************************)
EXTENDS Naturals, FiniteSets

CONSTANTS
    Plans, Symbols, NoPlan,
    SymbolOf, SideOf,     \* [Plans -> Symbols], [Plans -> sides]
    MaxActive,            \* owners open at a time
    MaxFaults,            \* bound: crashes, and questions the exchange leaves open
    MaxStops              \* bound: stop commands

Idle == [at |-> "idle", plan |-> NoPlan, admit |-> TRUE,
         rows |-> [p \in Plans |-> "none"], todo |-> {}, stacked |-> {}]
NoHalt == "none"

VARIABLES
    held,       \* at the exchange: the plan whose position a symbol has
    seen, admission,   \* state file: records seen, and the admission flag
    rows, file, \* owner registry and positions file
    run, mem,   \* the resident process: where it is, its positions,
    halted,     \*   its symbol halts
    stop,       \* the stop command, its copies of registry and positions
    retired,    \* the archived drain report
    faults, stops

vars == <<held, seen, admission, rows, file, run, mem, halted, stop, retired,
          faults, stops>>
files == <<seen, admission, rows, file>>
counts == <<faults, stops>>

Nobody == [s \in Symbols |-> NoPlan]
NotStopping == [on |-> FALSE, rows |-> Idle.rows, mem |-> Nobody, todo |-> {}]

Init ==
    /\ held = Nobody /\ seen = {} /\ admission = TRUE
    /\ rows = Idle.rows /\ file = Nobody
    /\ run = Idle /\ mem = Nobody /\ halted = [s \in Symbols |-> NoHalt]
    /\ stop = NotStopping /\ retired = FALSE
    /\ faults = 0 /\ stops = 0

Open(r) == {p \in Plans : r[p] = "open"}

-----------------------------------------------------------------------------
(* One event of the shadow log, under the lock of the state file. *)

Locked == run.at \in {"event", "ordered", "opened", "handled"}

Begin ==
    \E p \in Plans \ seen :
        /\ run.at = "idle"
        /\ run' = [Idle EXCEPT !.at = "event", !.plan = p, !.admit = admission]
    /\ UNCHANGED <<held, files, mem, halted, stop, retired, counts>>

\* What keeps a record from being traded whatever the account looks like.
Blocked(p) ==
    \/ ~run.admit
    \/ Cardinality(Open(rows)) >= MaxActive
    \/ \E q \in Open(rows) : SymbolOf[q] = SymbolOf[p] /\ SideOf[q] = SideOf[p]
    \/ halted[SymbolOf[p]] # NoHalt

\* The policy, its five seconds, the drift of the price, the balance or the
\* depth may refuse any record; an account that cannot be read refuses it.
Refuse ==
    /\ run.at = "event"
    /\ run' = [run EXCEPT !.at = "handled"]
    /\ UNCHANGED <<held, files, mem, halted, stop, retired, counts>>

Order ==
    LET s == SymbolOf[run.plan] IN
    /\ run.at = "event" /\ ~Blocked(run.plan) /\ held[s] = NoPlan
    /\ held' = [held EXCEPT ![s] = run.plan]
    /\ run' = [run EXCEPT !.at = "ordered"]
    /\ UNCHANGED <<files, mem, halted, stop, retired, counts>>

\* The attached stop is looked for; without it the order is not remembered.
Verified ==
    LET s == SymbolOf[run.plan] IN
    /\ run.at = "ordered"
    /\ mem' = [mem EXCEPT ![s] = run.plan] /\ file' = mem'
    /\ run' = [run EXCEPT !.at = "opened"]
    /\ UNCHANGED <<held, seen, admission, rows, halted, stop, retired, counts>>

Unverified ==
    /\ run.at = "ordered"
    /\ halted' = [halted EXCEPT ![SymbolOf[run.plan]] = "sl_unverified"]
    /\ run' = [run EXCEPT !.at = "handled"]
    /\ UNCHANGED <<held, files, mem, stop, retired, counts>>

RecordOpen ==
    /\ run.at = "opened"
    /\ rows' = [rows EXCEPT ![run.plan] = "open"]
    /\ run' = [run EXCEPT !.at = "handled"]
    /\ UNCHANGED <<held, seen, admission, file, mem, halted, stop, retired, counts>>

Save ==
    /\ run.at = "handled"
    /\ seen' = seen \union {run.plan} /\ admission' = run.admit
    /\ run' = Idle
    /\ UNCHANGED <<held, rows, file, mem, halted, stop, retired, counts>>

-----------------------------------------------------------------------------
(* A pass of the monitor over the open owners, when no event is waiting;   *)
(* it works on a copy of the registry that it saves at the end.            *)

Stacked(r) ==
    {s \in Symbols : Cardinality({p \in Open(r) : SymbolOf[p] = s}) > 1}

MonitorBegin ==
    /\ run.at = "idle" /\ Open(rows) # {}
    /\ run' = [Idle EXCEPT !.at = "monitor", !.rows = rows, !.todo = Open(rows),
                           !.stacked = Stacked(rows)]
    /\ UNCHANGED <<held, files, mem, halted, stop, retired, counts>>

Looks(p, row) ==
    run' = [run EXCEPT !.todo = @ \ {p}, !.rows = [@ EXCEPT ![p] = row]]

Proven(p, m) == m[SymbolOf[p]] = p

FlatCleared == {"sl_unverified"}

MonitorFlatProven(p) ==
    LET s == SymbolOf[p] IN
    /\ held[s] = NoPlan
    /\ Looks(p, IF Proven(p, mem) THEN "closed" ELSE "open")
    /\ mem' = IF Proven(p, mem) THEN [mem EXCEPT ![s] = NoPlan] ELSE mem
    /\ file' = IF Proven(p, mem) THEN mem' ELSE file
    /\ halted' = [halted EXCEPT ![s] = IF @ \in FlatCleared THEN NoHalt ELSE @]
    /\ UNCHANGED <<held, faults>>

\* A flat symbol closes the owner, proven or not.
MonitorFlat(p) ==
    LET s == SymbolOf[p] IN
    /\ held[s] = NoPlan
    /\ Looks(p, "closed")
    /\ IF Proven(p, mem)
       THEN mem' = [mem EXCEPT ![s] = NoPlan] /\ file' = mem'
       ELSE UNCHANGED <<mem, file>>
    /\ halted' = [halted EXCEPT ![s] = IF @ \in FlatCleared THEN NoHalt ELSE @]
    /\ UNCHANGED <<held, faults>>

\* An owner without its position halts the symbol; one with it is skipped
\* when the exchange did not answer.
MonitorUnknown(p) ==
    LET s == SymbolOf[p] IN
    /\ faults < MaxFaults /\ faults' = faults + 1
    /\ Looks(p, "open")
    /\ halted' = IF Proven(p, mem) THEN halted
                 ELSE [halted EXCEPT ![s] = "ghost_exposure"]
    /\ UNCHANGED <<held, mem, file>>

MonitorGhost(p) ==
    LET s == SymbolOf[p] IN
    /\ held[s] # NoPlan /\ ~Proven(p, mem)
    /\ Looks(p, "open")
    /\ halted' = [halted EXCEPT ![s] = "ghost_exposure"]
    /\ UNCHANGED <<held, mem, file, faults>>

\* No trigger, two owners of one netted position, or a close the exchange
\* rejected, which halts the symbol.
MonitorKeeps(p) ==
    LET s == SymbolOf[p] IN
    /\ held[s] # NoPlan /\ Proven(p, mem)
    /\ Looks(p, "open")
    /\ \/ UNCHANGED halted
       \/ s \notin run.stacked /\ halted' = [halted EXCEPT ![s] = "close_rejected"]
    /\ UNCHANGED <<held, mem, file, faults>>

MonitorCloses(p) ==
    LET s == SymbolOf[p] IN
    /\ held[s] = p /\ Proven(p, mem) /\ s \notin run.stacked
    /\ Looks(p, "closed")
    /\ held' = [held EXCEPT ![s] = NoPlan]
    /\ mem' = [mem EXCEPT ![s] = NoPlan] /\ file' = mem'
    /\ UNCHANGED <<halted, faults>>

MonitorRow ==
    /\ run.at = "monitor"
    /\ \E p \in run.todo :
           \/ MonitorFlat(p) \/ MonitorUnknown(p) \/ MonitorGhost(p)
           \/ MonitorKeeps(p) \/ MonitorCloses(p)
    /\ UNCHANGED <<seen, admission, rows, stop, retired, stops>>

MonitorSave ==
    /\ run.at = "monitor" /\ run.todo = {}
    /\ rows' = run.rows /\ run' = Idle
    /\ UNCHANGED <<held, seen, admission, file, mem, halted, stop, retired, counts>>

Run == Begin \/ Refuse \/ Order \/ Verified \/ Unverified \/ RecordOpen \/ Save
         \/ MonitorBegin \/ MonitorRow \/ MonitorSave

-----------------------------------------------------------------------------
(* The commands, and what happens outside. *)

StopBegin ==
    /\ ~stop.on /\ stops < MaxStops /\ stops' = stops + 1
    /\ stop' = [on |-> TRUE, rows |-> rows, mem |-> file, todo |-> Open(rows)]
    /\ UNCHANGED <<held, files, run, mem, halted, retired, faults>>

\* An owner whose position the command did not load is left alone; one it
\* tried to close keeps no open row, whatever became of the close.
StopRow ==
    /\ stop.on
    /\ \E p \in stop.todo :
        LET s == SymbolOf[p]
            tried(row) == [stop EXCEPT !.todo = @ \ {p}, !.rows[p] = row]
        IN
        \/ /\ ~Proven(p, stop.mem)
           /\ stop' = tried("open") /\ UNCHANGED <<held, file>>
        \/ /\ Proven(p, stop.mem)
           /\ stop' = [tried("closed") EXCEPT !.mem = [@ EXCEPT ![s] = NoPlan]]
           /\ file' = stop'.mem
           /\ held' = IF held[s] = p THEN [held EXCEPT ![s] = NoPlan] ELSE held
        \/ /\ Proven(p, stop.mem)
           /\ stop' = tried("close_attempted") /\ UNCHANGED <<held, file>>
    /\ UNCHANGED <<seen, admission, rows, run, mem, halted, retired, counts>>

StopSave ==
    /\ stop.on /\ stop.todo = {}
    /\ rows' = stop.rows /\ stop' = NotStopping
    /\ UNCHANGED <<held, seen, admission, file, run, mem, halted, retired, counts>>

TakesLock == ~Locked

StopAdmission ==
    /\ admission /\ TakesLock
    /\ admission' = FALSE
    /\ UNCHANGED <<held, seen, rows, file, run, mem, halted, stop, retired, counts>>

\* Every row ever written names a symbol the report looks at, and so does
\* every position in the positions file.
Named ==
    {SymbolOf[p] : p \in {q \in Plans : rows[q] # "none"}}
        \union {s \in Symbols : file[s] # NoPlan}

\* How the exchange looks to the report; it may not answer.
Flat(answered) == answered /\ \A s \in Named : held[s] = NoPlan

Drained(answered) ==
    /\ ~admission
    /\ \A p \in Plans : rows[p] \in {"none", "closed"}
    /\ \A s \in Symbols : file[s] = NoPlan
    /\ Flat(answered)

Archive ==
    /\ ~retired
    /\ \E answered \in BOOLEAN : Drained(answered)
    /\ retired' = TRUE
    /\ UNCHANGED <<held, files, run, mem, halted, stop, counts>>

\* A stop-loss, a liquidation or the user at the exchange.
ClosedOutside ==
    /\ \E s \in Symbols : held[s] # NoPlan /\ held' = [held EXCEPT ![s] = NoPlan]
    /\ UNCHANGED <<files, run, mem, halted, stop, retired, counts>>

\* The process dies, in an exception of the order too, and is started again.
Crash ==
    /\ faults < MaxFaults /\ faults' = faults + 1
    /\ run' = Idle /\ mem' = file /\ halted' = [s \in Symbols |-> NoHalt]
    /\ UNCHANGED <<held, files, stop, retired, stops>>

Next ==
    \/ Run \/ StopBegin \/ StopRow \/ StopSave \/ StopAdmission \/ Archive
    \/ ClosedOutside \/ Crash

Spec == Init /\ [][Next]_vars /\ WF_vars(Run) /\ WF_vars(StopRow \/ StopSave)

-----------------------------------------------------------------------------
(* Properties.                                                                *)

\* Once admission is off no position is opened, not by an event that was being
\* handled when the command came either.
AdmissionStops ==
    [][~admission => \A s \in Symbols : held'[s] \in {held[s], NoPlan}]_vars

\* When the report is archived, and ever after, no symbol the sidecar has an
\* owner row of has a position, unless a stop command ran.
DrainHonest ==
    retired /\ stops = 0 =>
        \A p \in Plans : rows[p] # "none" => held[SymbolOf[p]] = NoPlan

\* An owner whose symbol is flat does not keep its slot, proven or not, with a
\* stop command or a restart in between.
FlatFreesSlot ==
    \A p \in Plans :
        rows[p] = "open" /\ held[SymbolOf[p]] = NoPlan
            ~> rows[p] # "open" \/ held[SymbolOf[p]] # NoPlan

\* The way to retirement: nothing new, what is flat is let go, and the report
\* does not call flat what is not.
SidecarDrains == AdmissionStops /\ []DrainHonest /\ FlatFreesSlot

\* A retired sidecar has no position (promotion design, "proven exposure is
\* exchange-flat").
DrainMeansFlat == retired => held = Nobody
=============================================================================
