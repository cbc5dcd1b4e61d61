------------------------------ MODULE LossGuard ------------------------------
(* What the Tactical V2 governor promises about losses, whatever its ledger   *)
(* goes through (docs/superpowers/specs/2026-07-28-promote-shadow-tactical-   *)
(* v2-live-design.md 202-212): every close counts once, with its latest final *)
(* result; LossStreak losses in a row pause admission for PauseLen and are    *)
(* never counted towards another pause; the losses of the last Window hold    *)
(* admission back as long as they reach Limit.                                *)
(*                                                                            *)
(* There is no ledger, no restart and no cached sum here: TacticalGovernor    *)
(* has them and is shown to implement this specification.                     *)
EXTENDS Integers, FiniteSets, FiniteSetsExt

CONSTANTS
    Closes,     \* close identities
    Outcomes,   \* final results of a close
    Limit,      \* the rolling result that pauses admission (-15 in the code)
    LossStreak, \* losses in a row that pause admission (3 in the code)
    PauseLen,   \* length of that pause
    Window      \* length of the rolling window

ASSUME OutcomesAssumption == Outcomes \subseteq Int /\ Limit \in Int
ASSUME GuardAssumption ==
    /\ IsFiniteSet(Closes)
    /\ LossStreak \in Nat \ {0} /\ PauseLen \in Nat \ {0} /\ Window \in Nat \ {0}

VARIABLES
    clock,
    issued,     \* final resolutions the trade ledger has issued
    heard,      \* those the governor has accepted
    book,       \* per close: the latest result, its time and its turn
    consumed,   \* closes whose losses have paid for a pause
    pause,      \* admission is paused before this time
    halted,     \* an integrity halt is set
    verdict     \* the answer to the last question, "none" after any other step

gvars == <<clock, issued, heard, book, consumed, pause, halted, verdict>>

NoFinal == [pnl |-> 0, at |-> 0, turn |-> 0]

Booked(b) == {k \in Closes : b[k].turn > 0}
\* The streak's order: by the time of the result, then by turn.
Before(b, j, k) ==
    b[j].at < b[k].at \/ (b[j].at = b[k].at /\ b[j].turn < b[k].turn)
\* Losses at the end of that order, among the closes not consumed yet.
Streak(b, used) ==
    LET open == Booked(b) \ used IN
    Cardinality({k \in open : \A j \in open : ~Before(b, j, k) => b[j].pnl < 0})
Total(f) == MapThenSumSet(LAMBDA k : f[k], DOMAIN f)
Rolling(b, now) ==
    LET counted == {k \in Booked(b) : now - Window < b[k].at /\ b[k].at <= now} IN
    Total([k \in counted |-> b[k].pnl])

GuardInit ==
    /\ clock = 0 /\ issued = {} /\ heard = {}
    /\ book = [k \in Closes |-> NoFinal]
    /\ consumed = {} /\ pause = 0 /\ halted = FALSE /\ verdict = "none"

\* Time passes; the trade ledger issues a final, or corrects an earlier one.
Pass == clock' = clock + 1 /\ UNCHANGED <<issued, heard, book, consumed, pause, halted>>
Issue ==
    /\ \E k \in Closes, p \in Outcomes :
         issued' = issued \cup
            {[id |-> Cardinality(issued) + 1, close |-> k, pnl |-> p, at |-> clock]}
    /\ UNCHANGED <<clock, heard, book, consumed, pause, halted>>

\* The streak is complete, and the end of the pause that it starts.
Complete(b) == Streak(b, consumed) >= LossStreak
PauseEndOfResult(r) == r.at + PauseLen
PauseEnd(r) == IF clock + PauseLen > pause THEN clock + PauseLen ELSE pause

\* A final is booked.  If it makes the streak complete, the pause starts and
\* everything booked so far is consumed.
BookWith(r) ==
    LET turn == IF book[r.close].turn > 0 THEN book[r.close].turn
                ELSE Cardinality(Booked(book)) + 1
    IN [book EXCEPT ![r.close] = [pnl |-> r.pnl, at |-> r.at, turn |-> turn]]
Hear(r) ==
    /\ r \in issued /\ r.id \notin {x.id : x \in heard}
    /\ heard' = heard \cup {r}
    /\ book' = BookWith(r)
    /\ consumed' = IF Complete(book') THEN Booked(book') ELSE consumed
    /\ pause' = IF Complete(book') THEN PauseEnd(r) ELSE pause
    /\ UNCHANGED <<clock, issued, halted>>

SwitchHalt ==
    halted' \in BOOLEAN /\ UNCHANGED <<clock, issued, heard, book, consumed, pause>>

\* The question: may a new entry be admitted?  Capacity, symbol and account
\* may refuse what the loss guard would admit.
Ask ==
    /\ verdict' \in {"admitted", "refused"}
    /\ verdict' = "admitted" =>
         ~halted /\ clock >= pause /\ Rolling(book, clock) > Limit
    /\ UNCHANGED <<clock, issued, heard, book, consumed, pause, halted>>

GuardNext ==
    \/ verdict' = "none" /\ (Pass \/ Issue \/ SwitchHalt \/ \E r \in issued : Hear(r))
    \/ Ask

GuardSpec == GuardInit /\ [][GuardNext]_gvars

-----------------------------------------------------------------------------
\* A pause once issued is not taken back, nor are the losses that paid for it:
\* no later final, correction or answer ends the pause sooner or lets a
\* consumed close count towards another one.
PauseStands == [][pause' >= pause /\ consumed \subseteq consumed']_gvars

\* The losses at the end of the book never make a complete streak: the final
\* that completes one starts the pause and consumes them in the same step.
StreakPaidFor == Streak(book, consumed) < LossStreak

\* The promise of the loss guard: a complete streak is paused for, and the
\* pause stands.
PausePromised == []StreakPaidFor /\ PauseStands
=============================================================================
