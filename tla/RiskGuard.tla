------------------------------- MODULE RiskGuard -------------------------------
(***************************************************************************)
(* The portfolio risk guard beside the executor it commands: the copy of   *)
(* the positions it keeps from execution results, the alerts that close a  *)
(* position, the daily hard stop of the reviewer, and the halt flags each  *)
(* of them keeps for itself.                                               *)
(*                                                                         *)
(* The positions are those of the main lane.  How far a price has gone is  *)
(* one fact per symbol (danger): the thresholds, the trailing ladder and   *)
(* the flash window decide it.  A queue keeps the order of the bus: what   *)
(* is critical overtakes what is not, and within a priority the first in   *)
(* is the first out.                                                       *)
(***************************************************************************)
EXTENDS Integers, SequencesExt

CONSTANTS
    Symbols,
    LossLimit,     \* losses that stop it all
    DrawdownAt,    \* tracked positions in danger that make a drawdown
    MaxOpens,      \* bound on positions opened
    MaxFaults      \* bound on failed closes, operator commands and restarts

VARIABLES
    held,          \* positions of the executor, as in positions.json
    tracked,       \* positions the guard knows, in memory and in its file
    danger,        \* symbols whose price is past what the guard tolerates
    recent,        \* alerts sent within their cooldown
    orders,        \* critical messages to the executor, in order
    closing,       \* positions the executor is closing all together
    results,       \* execution results and commands on their way to the guard
    commands,      \* commands on their way to the executor
    trades,        \* closes on their way to the reviewer
    stopping,      \* a hard stop is on its way to the guard
    losses,        \* losses in a row, which stand for the loss of the day too
    latched,       \* the reviewer has stopped this day already
    halt,          \* the shared halt state
    executorHalted, guardHalted,
    stranded,      \* closes whose result a crash lost
    opens, faults

executor == <<held, orders, closing, commands, executorHalted>>
guard == <<tracked, recent, results, stopping, guardHalted>>
reviewer == <<trades, losses, latched>>
counters == <<opens, faults>>
vars == <<held, tracked, danger, recent, orders, closing, results, commands, trades,
          stopping, losses, latched, halt, executorHalted, guardHalted, stranded,
          opens, faults>>

Opened(s) == [kind |-> "opened", of |-> s]
Closed(s) == [kind |-> "closed", of |-> s]
Command(c) == [kind |-> c, of |-> "all"]
Close(s) == [kind |-> "close", of |-> s]
CloseAll == [kind |-> "close_all", of |-> "all"]
Stop == [kind |-> "stop", of |-> "all"]

Init ==
    /\ held = {} /\ tracked = {} /\ danger = {} /\ recent = {}
    /\ orders = <<>> /\ closing = {} /\ results = <<>> /\ commands = <<>>
    /\ trades = <<>> /\ stopping = FALSE
    /\ losses = 0 /\ latched = FALSE
    /\ halt = FALSE /\ executorHalted = FALSE /\ guardHalted = FALSE
    /\ stranded = {}
    /\ opens = 0 /\ faults = 0

-----------------------------------------------------------------------------
(* The executor.  Its loop takes one message at a time, the critical ones
   first; closing everything runs in threads and its results are published as
   they come. *)

Idle == closing = {} /\ orders = <<>>

Open(s) ==
    /\ Idle /\ s \notin held /\ ~executorHalted /\ ~halt /\ opens < MaxOpens
    /\ held' = held \union {s} /\ opens' = opens + 1
    /\ results' = Append(results, Opened(s))
    /\ UNCHANGED <<tracked, danger, recent, orders, closing, commands, stopping,
                   reviewer, halt, executorHalted, guardHalted, stranded, faults>>

\* The position is gone; the result goes to the guard and to the reviewer.
Gone(s) ==
    /\ held' = held \ {s}
    /\ results' = Append(results, Closed(s))
    /\ \E lost \in BOOLEAN : trades' = Append(trades, lost)

\* The exchange closed it and the sync noticed, also while all are being closed.
ExternalClose(s) ==
    /\ s \in held
    /\ Gone(s)
    /\ UNCHANGED <<tracked, danger, recent, orders, closing, commands, stopping,
                   losses, latched, halt, executorHalted, guardHalted, stranded,
                   counters>>

\* A close that fails leaves the position; nothing is published of it.
Attempt(s) ==
    \/ Gone(s) /\ UNCHANGED faults
    \/ faults < MaxFaults /\ faults' = faults + 1 /\ UNCHANGED <<held, results, trades>>

TakeOrder ==
    /\ closing = {} /\ orders # <<>>
    /\ orders' = Tail(orders)
    /\ LET o == Head(orders) IN
          CASE o.kind = "close" /\ o.of \in held ->
                  /\ Attempt(o.of) /\ UNCHANGED <<closing, halt, executorHalted>>
            [] o.kind = "close" /\ o.of \notin held ->
                  UNCHANGED <<held, results, trades, faults, closing, halt, executorHalted>>
            [] o.kind = "close_all" ->
                  /\ closing' = held
                  /\ UNCHANGED <<held, results, trades, faults, halt, executorHalted>>
            [] o.kind = "stop" ->
                  /\ closing' = held /\ halt' = TRUE /\ executorHalted' = TRUE
                  /\ UNCHANGED <<held, results, trades, faults>>
    /\ UNCHANGED <<tracked, danger, recent, commands, stopping, losses, latched,
                   guardHalted, stranded, opens>>

CloseOne(s) ==
    /\ s \in closing /\ closing' = closing \ {s}
    /\ IF s \in held THEN Attempt(s) ELSE UNCHANGED <<held, results, trades, faults>>
    /\ UNCHANGED <<tracked, danger, recent, orders, commands, stopping, losses,
                   latched, halt, executorHalted, guardHalted, stranded, opens>>

\* A resume lifts the halt when a reconciliation came back clean with it; a
\* forced one always.
OwnAfter(c) == c = "halt" \/ (c = "refused" /\ executorHalted)
SharedAfter(c) == c = "halt" \/ (c = "refused" /\ halt)

TakeCommand ==
    /\ Idle /\ commands # <<>> /\ commands' = Tail(commands)
    /\ LET c == Head(commands).kind IN
          executorHalted' = OwnAfter(c) /\ halt' = SharedAfter(c)
    /\ UNCHANGED <<held, tracked, danger, recent, orders, closing, results, trades,
                   stopping, losses, latched, guardHalted, stranded, counters>>

-----------------------------------------------------------------------------
(* The guard. *)

Tracks(s) == tracked \union {s}
ForgetsAwake(s) == IF guardHalted THEN tracked ELSE tracked \ {s}
Forgets(s) == tracked \ {s}

\* What a command does to the flag of the guard: it hears halt and resume, the
\* latter before anyone has decided on it, and does not hear a forced one.
Heard(c) == CASE c = "halt" -> TRUE [] c \in {"matched", "refused"} -> FALSE
              [] OTHER -> guardHalted

TakeResult ==
    /\ ~stopping /\ results # <<>> /\ results' = Tail(results)
    /\ LET m == Head(results) IN
          /\ tracked' = CASE m.kind = "opened" -> Tracks(m.of)
                          [] m.kind = "closed" -> Forgets(m.of)
                          [] OTHER -> tracked
          /\ guardHalted' = Heard(m.kind)
    /\ UNCHANGED <<executor, danger, recent, stopping, reviewer, halt, stranded, counters>>

\* A hard stop: an emergency close of every position it knows, once.
TakeStop ==
    /\ stopping /\ stopping' = FALSE
    /\ orders' = LET each == SetToSeq(tracked) IN orders \o [i \in DOMAIN each |-> Close(each[i])]
    /\ guardHalted' = TRUE /\ halt' = TRUE
    /\ UNCHANGED <<held, tracked, danger, recent, closing, results, commands, reviewer,
                   executorHalted, stranded, counters>>

CanAlert(k) == k \notin recent

\* One check of one position: a price past its bounds asks to close it.
Warn(s) ==
    /\ ~guardHalted /\ s \in tracked \intersect danger /\ CanAlert(s)
    /\ recent' = recent \union {s}
    /\ orders' = Append(orders, Close(s))
    /\ UNCHANGED <<held, tracked, danger, closing, results, commands, stopping, reviewer,
                   halt, executorHalted, guardHalted, stranded, counters>>

\* The drawdown of all it tracks asks to close everything, and the reviewer adds
\* it to the day.
Unrealised == Cardinality(tracked \intersect danger)
HitsWith(extra) == ~latched /\ losses + extra >= LossLimit

Drawdown ==
    /\ ~guardHalted /\ Unrealised >= DrawdownAt /\ CanAlert("drawdown")
    /\ recent' = recent \union {"drawdown"}
    /\ orders' = IF HitsWith(Unrealised) THEN orders \o <<CloseAll, Stop>>
                 ELSE Append(orders, CloseAll)
    /\ stopping' = (stopping \/ HitsWith(Unrealised))
    /\ latched' = (latched \/ HitsWith(Unrealised))
    /\ UNCHANGED <<held, tracked, danger, closing, results, commands, trades, losses, halt,
                   executorHalted, guardHalted, stranded, counters>>

CooledNever(k) == recent
Cooled(k) == recent \ {k}
CooldownEnds(k) ==
    /\ k \in recent /\ recent' = Cooled(k)
    \* Bound: an alert is not sent again before the executor took it.
    /\ orders = <<>> /\ closing = {}
    /\ UNCHANGED <<executor, tracked, danger, results, stopping, guardHalted, reviewer, halt,
                   stranded, counters>>

-----------------------------------------------------------------------------
(* The reviewer: a losing close may stop the day, once a day. *)

After(lost) == IF lost /\ losses < LossLimit THEN losses + 1 ELSE IF lost THEN losses ELSE 0
Hits(l) == ~latched /\ l >= LossLimit

Review ==
    /\ trades # <<>> /\ trades' = Tail(trades)
    /\ LET l == After(Head(trades)) IN
          /\ losses' = l
          /\ latched' = (latched \/ Hits(l)) /\ stopping' = (stopping \/ Hits(l))
          /\ orders' = IF Hits(l) THEN Append(orders, Stop) ELSE orders
    /\ UNCHANGED <<held, tracked, danger, recent, closing, results, commands, halt,
                   executorHalted, guardHalted, stranded, counters>>

-----------------------------------------------------------------------------
(* The market, the operator, the process. *)

PriceMoves(s) ==
    /\ danger' \in {danger \union {s}, danger \ {s}}
    /\ UNCHANGED <<executor, guard, reviewer, halt, stranded, counters>>

Commands == {"halt", "matched", "refused", "force"}
Operator(c) ==
    /\ faults < MaxFaults /\ faults' = faults + 1
    /\ commands' = Append(commands, Command(c))
    /\ results' = Append(results, Command(c))
    /\ UNCHANGED <<held, tracked, danger, recent, orders, closing, trades, stopping,
                   losses, latched, halt, executorHalted, guardHalted, stranded, opens>>

NewDay ==
    /\ latched /\ latched' = FALSE
    /\ UNCHANGED <<executor, guard, trades, losses, danger, halt, stranded, counters>>

\* What the guard knows after a restart: its own file and what positions.json
\* has besides.
Restored == tracked \union held

Crash ==
    /\ faults < MaxFaults /\ faults' = faults + 1
    /\ tracked' = Restored /\ recent' = recent
    /\ orders' = <<>> /\ closing' = {} /\ results' = <<>> /\ commands' = <<>>
    /\ trades' = <<>> /\ stopping' = FALSE /\ latched' = FALSE
    /\ guardHalted' = (guardHalted \/ halt) /\ executorHalted' = halt
    /\ stranded' = tracked \ held
    /\ UNCHANGED <<held, danger, losses, halt, opens>>

Next ==
    \/ \E s \in Symbols : \/ Open(s) \/ ExternalClose(s) \/ CloseOne(s)
                          \/ Warn(s) \/ PriceMoves(s)
    \/ TakeOrder \/ TakeCommand \/ TakeResult \/ TakeStop \/ Drawdown
    \/ \E k \in Symbols \union {"drawdown"} : CooldownEnds(k)
    \/ Review \/ (\E c \in Commands : Operator(c)) \/ NewDay \/ Crash

\* Every loop runs on, and a check of the guard follows the one before.
Spec ==
    /\ Init /\ [][Next]_vars
    /\ WF_vars(TakeOrder) /\ WF_vars(TakeCommand) /\ WF_vars(TakeResult)
    /\ WF_vars(TakeStop) /\ WF_vars(Review)
    /\ \A s \in Symbols : WF_vars(CloseOne(s)) /\ WF_vars(Warn(s))
    /\ \A k \in Symbols \union {"drawdown"} : SF_vars(CooldownEnds(k))

-----------------------------------------------------------------------------
(* Properties.                                                                *)

Has(q, m) == \E i \in DOMAIN q : q[i] = m

\* Types; and an executor with nothing left to do does not trade on while the
\* shared state says halted.
TypeOK ==
    /\ held \subseteq Symbols /\ tracked \subseteq Symbols
    /\ closing \subseteq Symbols /\ stranded \subseteq Symbols
    /\ {halt, executorHalted, guardHalted, latched, stopping} \subseteq BOOLEAN
    /\ Idle /\ commands = <<>> => (executorHalted => halt)

\* A position the guard does not track is one it is about to hear of, restarts
\* included: no position is held unwatched.
Watched == \A s \in held \ tracked : Has(results, Opened(s))

\* It does not go on watching a position that is closed, unless the process
\* died between the close and its message.
NoGhosts == \A s \in tracked \ held : s \in stranded \/ Has(results, Closed(s))

\* The guard watches what is held and nothing else.
PositionsTracked == Watched /\ NoGhosts

\* A position past its danger threshold is acted on: it is reduced or closed,
\* or recovers, or everything is halted, although alerts are throttled and
\* orders fail.
DangerActed ==
    \A s \in Symbols :
        [](s \in held \intersect danger /\ ~guardHalted =>
            <>(s \notin held \intersect danger \/ guardHalted))

\* When trading was resumed and nothing is under way, the guard watches again.
GuardWatches ==
    (/\ ~halt /\ ~executorHalted /\ ~stopping
     /\ results = <<>> /\ commands = <<>> /\ orders = <<>>) => ~guardHalted
=============================================================================
