--------------------------- MODULE TacticalGovernor ---------------------------
(* The loss and admission governor of Tactical V2                             *)
(* (src/utils/tactical_v2/governor.py): it appends every final result and     *)
(* every halt to the ledger, folds the events into its memory, caches the     *)
(* rolling sum and decides admission.  A restart folds the ledger afresh.     *)
(*                                                                            *)
(* A method runs under one lock, so it is one action; ApplyFinalCut is the    *)
(* crash between the two appends of apply_final.  Finals come from the trade  *)
(* ledger, which stamps them with its own clock (agents/trading/executor.py   *)
(* 424, 1696) and delivers them late, again, or out of order.                 *)
EXTENDS Integers, Sequences, FiniteSets, FiniteSetsExt

CONSTANTS
    Closes, Outcomes, Limit, LossStreak, PauseLen, Window,
    MaxTime,        \* bound: the clock
    MaxFinals,      \* bound: finals the trade ledger issues
    MaxHalts,       \* bound: halts of one behaviour
    MaxCrashes,     \* bound: crashes between two calls
    MaxCuts         \* bound: crashes between the two appends of apply_final

ASSUME GovernorAssumption ==
    /\ IsFiniteSet(Closes) /\ Outcomes \subseteq Int /\ Limit \in Int
    /\ LossStreak \in Nat \ {0} /\ PauseLen \in Nat \ {0} /\ Window \in Nat \ {0}

VARIABLES
    clock,
    issued,     \* final resolutions the trade ledger has issued
    events,     \* the governor's events in the ledger, in order of seq
    mem,        \* what the governor folded from them
    rolling,    \* _rolling_pnl as last computed
    verdict,    \* the answer of the last can_open, "none" after other calls
    crashes, cuts

vars == <<clock, issued, events, mem, rolling, verdict, crashes, cuts>>

Reasons == {"integrity_halt", "loss_streak_pause", "rolling_loss_pause", "capacity_full",
            "same_symbol_exposure", "account_reject"}
NoFinal == [pnl |-> 0, at |-> 0, first |-> 0]
NoResolution == [id |-> 0, close |-> "none", pnl |-> 0, at |-> 0]

\* An event of the ledger; fields its kind does not use are blank.
Event(kind, res, trigger, until) ==
    [kind |-> kind, res |-> res, trigger |-> trigger, until |-> until]
FinalEvent(r) == Event("final", r, 0, 0)
CooldownEvent(trigger, until) == Event("cooldown", NoResolution, trigger, until)
HaltEvent == Event("halted", NoResolution, 0, 0)
ClearEvent == Event("cleared", NoResolution, 0, 0)

\* seen: _seen_resolution_ids; book: _finals; trigger, pause, halt: the last
\* consumed seq, _pause_until and _integrity_halt.
Blank == [seen |-> {}, book |-> [k \in Closes |-> NoFinal],
          trigger |-> 0, pause |-> 0, halt |-> FALSE]

Larger(x, y) == IF x >= y THEN x ELSE y

\* _apply_event.  A correction keeps the turn of the close it corrects.
AbsorbFinalAnew(m, r, seq) ==
    [m EXCEPT !.seen = @ \cup {r.id},
              !.book[r.close] = [pnl |-> r.pnl, at |-> r.at, first |-> seq]]
AbsorbFinal(m, r, seq) ==
    [m EXCEPT !.seen = @ \cup {r.id},
              !.book[r.close] = [pnl |-> r.pnl, at |-> r.at,
                                 first |-> IF @.first > 0 THEN @.first ELSE seq]]
Absorb(m, e, seq) ==
    CASE e.kind = "final" -> AbsorbFinal(m, e.res, seq)
      [] e.kind = "cooldown" -> [m EXCEPT !.trigger = Larger(@, e.trigger),
                                          !.pause = Larger(@, e.until)]
      [] e.kind = "halted" -> [m EXCEPT !.halt = TRUE]
      [] e.kind = "cleared" -> [m EXCEPT !.halt = FALSE]

\* _restore: the events folded from the start.
Restore(log) ==
    LET fold[n \in 0..Len(log)] ==
          IF n = 0 THEN Blank ELSE Absorb(fold[n - 1], log[n], n)
    IN fold[Len(log)]

\* The sum of what a function takes each of its points to.
Total(f) == MapThenSumSet(LAMBDA k : f[k], DOMAIN f)

\* _recompute: the rolling sum at a time, and the streak of losses no
\* cooldown has consumed, in the order of (resolved_at, _first_seq).
Rolling(m, now) ==
    LET counted == {k \in Closes : /\ m.book[k].first > 0
                                   /\ now - Window < m.book[k].at
                                   /\ m.book[k].at <= now} IN
    Total([k \in counted |-> m.book[k].pnl])
Streak(m) ==
    LET open == {k \in Closes : m.book[k].first > m.trigger}
        before(j, k) == \/ m.book[j].at < m.book[k].at
                        \/ /\ m.book[j].at = m.book[k].at
                           /\ m.book[j].first < m.book[k].first IN
    Cardinality({k \in open : \A j \in open : ~before(j, k) => m.book[j].pnl < 0})

\* The streak is complete: apply_final must start a pause.
Due(m) == Streak(m) >= LossStreak

Init ==
    /\ clock = 0 /\ issued = {} /\ events = <<>>
    /\ mem = Blank /\ rolling = 0 /\ verdict = "none"
    /\ crashes = 0 /\ cuts = 0

-----------------------------------------------------------------------------
(* The surroundings.                                                          *)

Pass ==
    /\ clock < MaxTime /\ clock' = clock + 1
    /\ verdict' = "none"
    /\ UNCHANGED <<issued, events, mem, rolling, crashes, cuts>>

Issue ==
    /\ Cardinality(issued) < MaxFinals
    /\ \E k \in Closes, p \in Outcomes :
         issued' = issued \cup
            {[id |-> Cardinality(issued) + 1, close |-> k, pnl |-> p, at |-> clock]}
    /\ verdict' = "none"
    /\ UNCHANGED <<clock, events, mem, rolling, crashes, cuts>>

-----------------------------------------------------------------------------
(* apply_final.                                                               *)

\* The cooldown a complete streak appends, its trigger the seq of the final
\* that completed it (trigger_seq), and the pause it starts.
StartCooldownUnwritten(log, m) ==
    /\ events' = log
    /\ mem' = Absorb(m, CooldownEvent(Len(log), clock + PauseLen), Len(log) + 1)
StartCooldown(log, m) ==
    LET e == CooldownEvent(Len(log), Larger(m.pause, clock + PauseLen)) IN
    /\ events' = Append(log, e)
    /\ mem' = Absorb(m, e, Len(log) + 1)

\* A resolution id that was accepted before is a duplicate and changes
\* nothing.  (A final that is pending, estimated, mismatched or not a number
\* is refused before; the trade ledger's finals are none of these.)
NewAnyTime(r) == r \in issued
New(r) == r \in issued /\ r.id \notin mem.seen

ApplyFinal(r) ==
    LET log == Append(events, FinalEvent(r))
        m == Absorb(mem, FinalEvent(r), Len(log)) IN
    /\ New(r)
    /\ IF Due(m)
       THEN StartCooldown(log, m)
       ELSE events' = log /\ mem' = m
    /\ rolling' = Rolling(m, clock)
    /\ verdict' = "none"
    /\ UNCHANGED <<clock, issued, crashes, cuts>>

-----------------------------------------------------------------------------
(* can_open and the integrity halt.                                           *)

\* What a question may bring along: the controller's own integrity state, no
\* free slot, exposure in the symbol, a refusal by the account gate.
Asked == [external |-> FALSE, full |-> FALSE, symbol |-> FALSE, account |-> TRUE]
Questions == {Asked, [Asked EXCEPT !.external = TRUE], [Asked EXCEPT !.full = TRUE],
              [Asked EXCEPT !.symbol = TRUE], [Asked EXCEPT !.account = FALSE]}

\* can_open recomputes first, then asks in this order.
Answers(sum, q) ==
    IF mem.halt \/ q.external THEN "integrity_halt"
    ELSE IF clock < mem.pause THEN "loss_streak_pause"
    ELSE IF sum <= Limit THEN "rolling_loss_pause"
    ELSE IF q.full THEN "capacity_full"
    ELSE IF q.symbol THEN "same_symbol_exposure"
    ELSE IF ~q.account THEN "account_reject"
    ELSE "admitted"
CanOpenCached(q) ==
    /\ verdict' = Answers(rolling, q)
    /\ rolling' = Rolling(mem, clock)
    /\ UNCHANGED <<clock, issued, events, mem, crashes, cuts>>
CanOpen(q) ==
    /\ verdict' = Answers(Rolling(mem, clock), q)
    /\ rolling' = Rolling(mem, clock)
    /\ UNCHANGED <<clock, issued, events, mem, crashes, cuts>>

Record(e) ==
    /\ events' = Append(events, e)
    /\ mem' = Absorb(mem, e, Len(events) + 1)
    /\ verdict' = "none"
    /\ UNCHANGED <<clock, issued, rolling, crashes, cuts>>

Halts == Cardinality({n \in DOMAIN events : events[n].kind = "halted"})

\* activate_integrity_halt replaces a halt; .._if_clear leaves one in place.
ActivateHalt == Halts < MaxHalts /\ Record(HaltEvent)
ActivateHaltIfClear == Halts < MaxHalts /\ ~mem.halt /\ Record(HaltEvent)
\* clear_integrity_halt: all four parts of the proof must be true.
ProofKeys == {"ownership", "orders", "positions", "protection"}
ClearHalt(proof) == mem.halt /\ proof = ProofKeys /\ Record(ClearEvent)

-----------------------------------------------------------------------------
(* Crashes: the ledger survives, the memory is folded again.                  *)

Restart(log) ==
    /\ events' = log
    /\ mem' = Restore(log)
    /\ rolling' = Rolling(Restore(log), clock)
    /\ verdict' = "none"
    /\ UNCHANGED <<clock, issued>>

Crash == crashes < MaxCrashes /\ crashes' = crashes + 1 /\ Restart(events) /\ UNCHANGED cuts

\* The process dies, or the append fails, after the final and before the
\* cooldown it calls for.
ApplyFinalCut(r) ==
    LET log == Append(events, FinalEvent(r)) IN
    /\ cuts < MaxCuts /\ cuts' = cuts + 1
    /\ New(r)
    /\ Due(Absorb(mem, FinalEvent(r), Len(log)))
    /\ Restart(log) /\ UNCHANGED crashes

Next ==
    \/ Pass \/ Issue
    \/ \E r \in issued : ApplyFinal(r) \/ ApplyFinalCut(r)
    \/ \E q \in Questions : CanOpen(q)
    \/ ActivateHalt \/ ActivateHaltIfClear
    \/ \E proof \in {ProofKeys, ProofKeys \ {"protection"}} : ClearHalt(proof)
    \/ Crash

Spec == Init /\ [][Next]_vars

-----------------------------------------------------------------------------
(* Properties.                                                                *)

TypeOK ==
    /\ clock \in 0..MaxTime /\ crashes \in 0..MaxCrashes /\ cuts \in 0..MaxCuts
    /\ issued \subseteq [id : 1..MaxFinals, close : Closes, pnl : Outcomes, at : 0..MaxTime]
    /\ mem.seen \subseteq 1..MaxFinals
    /\ mem.book \in [Closes -> [pnl : Outcomes \cup {0}, at : 0..MaxTime,
                                first : 0..Len(events)]]
    /\ mem.trigger \in 0..Len(events)
    /\ mem.pause \in 0..(MaxTime + PauseLen)
    /\ mem.halt \in BOOLEAN
    /\ rolling \in Int
    /\ verdict \in {"none", "admitted"} \cup Reasons

\* A restart reconstructs exactly what the running governor knew: nothing it
\* decides on lives in memory alone.
RestoreExact == mem = Restore(events)

\* The seqs of the ledger's cooldowns, and the closes first booked between
\* two of them.
Cooldowns == {n \in DOMAIN events : events[n].kind = "cooldown"}
FirstBooked(k) ==
    Min({n \in DOMAIN events : events[n].kind = "final" /\ events[n].res.close = k})
BookedIn(from, to) ==
    {k \in Closes : mem.book[k].first > 0 /\ FirstBooked(k) \in from..to}

\* Each cooldown is paid for by losses of its own: between the trigger of the
\* one before and its own trigger at least LossStreak closes were new, so no
\* correction and no restart makes old losses pay twice.
CooldownsDisjoint ==
    \A n \in Cooldowns :
        LET earlier == {events[m].trigger : m \in {m \in Cooldowns : m < n}} IN
        Cardinality(BookedIn(Max(earlier \cup {0}) + 1, events[n].trigger)) >= LossStreak

\* An admission never overlooks what the ledger says: no halt stands, no
\* cooldown runs, and the closes resolved in the window lost less than Limit.
LatestFinal(k) ==
    events[Max({n \in DOMAIN events : events[n].kind = "final" /\ events[n].res.close = k})].res
AdmissionWithinLimits ==
    verdict = "admitted" =>
        /\ \A n \in Cooldowns : clock >= events[n].until
        /\ \A n \in DOMAIN events : events[n].kind = "halted" =>
             \E m \in DOMAIN events : m > n /\ events[m].kind = "cleared"
        /\ LET known == {e.res.close : e \in {events[n] : n \in
                            {n \in DOMAIN events : events[n].kind = "final"}}}
               recent == {k \in known : LatestFinal(k).at > clock - Window} IN
           Total([k \in recent |-> LatestFinal(k).pnl]) > Limit

\* Admission is never given on an unpaid streak: LossStreak losses in a row
\* have always started a pause.  (False when apply_final is cut short.)
NoUnpaidStreak == verdict = "admitted" => Streak(mem) < LossStreak

\* The ledger, its folding and its restarts implement the promise: each close
\* counted once with its latest result, each loss paying for one pause.
Turn(k) == Cardinality({j \in Closes : /\ mem.book[j].first > 0
                                       /\ mem.book[j].first <= mem.book[k].first})
Guard == INSTANCE LossGuard WITH
    heard <- {r \in issued : r.id \in mem.seen},
    book <- [k \in Closes |-> [pnl |-> mem.book[k].pnl, at |-> mem.book[k].at,
                               turn |-> IF mem.book[k].first = 0 THEN 0 ELSE Turn(k)]],
    consumed <- {k \in Closes : mem.book[k].first \in 1..mem.trigger},
    pause <- mem.pause,
    halted <- mem.halt,
    verdict <- IF verdict \in Reasons THEN "refused" ELSE verdict
ImplementsLossGuard == Guard!GuardSpec

\* Losses are paid for by a pause, and by one only, as long as apply_final is not
\* cut between its two appends.
LossesPaidOnce == CooldownsDisjoint /\ NoUnpaidStreak
=============================================================================
