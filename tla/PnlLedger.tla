------------------------------- MODULE PnlLedger -------------------------------
(***************************************************************************)
(* What becomes of the profit of a position the exchange closed: the       *)
(* pending event, the resolutions of the background task and of the        *)
(* reconciler, the correction that supersedes the pending one, its way     *)
(* over the bus with a durable acknowledgement, and the trade history the  *)
(* reviewer keeps of it.                                                   *)
(*                                                                         *)
(* The closes are of one symbol and side, one after the other.  An amount  *)
(* is the set of fills it is the sum of.                                   *)
(***************************************************************************)
EXTENDS Naturals, Sequences, FiniteSets

CONSTANTS
    Closes,      \* 1 .. n: the positions of the symbol and side, in order
    Lanes,       \* subset of {"main", "tactical"}
    MaxCrashes   \* bound on restarts and lost acknowledgements

Exit == {"part", "exit"}          \* the closing order, filled in two parts
Legs == Exit \union {"tp"}
Fills == Closes \X Legs
NoCorrection == 0
Reconciler == 0
Resolvers == Closes \union {Reconciler}   \* the background task of a close, or
                                         \* the reconciler

VARIABLES
    lane,        \* who owns the positions of the symbol
    stage,       \* [Closes -> Stages]: the position as the executor knows it
    spread,      \* closes with more than twice the grace between their fills
    aged,        \* closes whose position is older than a day
    visible,     \* fills the fills-history of the exchange answers with
    booked,      \* fills counted by an event the process wrote of its own order
    pend,        \* [Closes -> {"none", "open", "manual"}]: the pending event
    alerted,     \* closes with a mismatch alert, which asks for a human
    corrections, \* the final corrections of the ledger, in order
    life,        \* [Closes -> Seq of sets of fills]: what a lifecycle adds up
    acked,       \* corrections with a durable publication acknowledgement
    work,        \* [Resolvers -> what the resolver holds]
    outbox,      \* corrections resolvers still have to route
    routing,     \* the correction under the route lock, or NoCorrection
    settled,     \* [Closes -> correction]: the final the live lane consumed
    bus,         \* messages on their way to the reviewer
    history,     \* the trade history of the reviewer
    known,       \* resolution ids the reviewer has seen, in memory
    raced,       \* closes resolved twice at a time
    crashes

vars == <<lane, stage, spread, aged, visible, booked, pend, alerted, corrections,
          life, acked, work, outbox, routing, settled, bus, history, known, raced,
          crashes>>

market == <<lane, spread, aged, visible>>
ledger == <<booked, pend, alerted, corrections, life>>
delivery == <<acked, outbox, routing, settled>>
reviewer == <<bus, history, known>>

Stages == {"none", "open", "reduced", "exited", "dropped", "noticed",
           "closed", "forgotten"}
\* A resolver: idle, reading the exchange for a close, or with its answer.
Idle == [at |-> "idle", todo |-> {}]
Reading(cs) == [at |-> "read", todo |-> cs]
Final(c, counts, bills) == [close |-> c, status |-> "final", counts |-> counts,
                            bills |-> bills]
Unfinal(c, status) == [close |-> c, status |-> status, counts |-> {},
                       bills |-> FALSE]

Init ==
    /\ lane \in Lanes
    /\ stage = [c \in Closes |-> "none"]
    /\ spread = {} /\ aged = {} /\ visible = {} /\ booked = {}
    /\ pend = [c \in Closes |-> "none"] /\ alerted = {}
    /\ corrections = <<>>
    /\ life = [c \in Closes |-> <<>>]
    /\ acked = {} /\ outbox = {} /\ routing = NoCorrection
    /\ settled = [c \in Closes |-> NoCorrection]
    /\ work = [r \in Resolvers |-> Idle]
    /\ bus = <<>> /\ history = <<>> /\ known = {}
    /\ raced = {} /\ crashes = 0

---------------------------------------------------------------------------
(* The position and what the exchange does with it.                        *)

\* A lifecycle adds up what is written to it.
Adds(total, counts) == Append(total, counts)

Says(type, c, counts) == [type |-> type, close |-> c, counts |-> counts,
                          id |-> NoCorrection]

Open(c) ==
    /\ stage[c] = "none"
    /\ \A d \in Closes : d < c => stage[d] \in {"noticed", "closed", "forgotten"}
    /\ stage' = [stage EXCEPT ![c] = "open"]
    /\ UNCHANGED <<market, ledger, delivery, reviewer, work, raced, crashes>>

\* A target taken by an order of the process: booked at once.
Reduce(c) ==
    /\ lane = "main" /\ stage[c] = "open"
    /\ stage' = [stage EXCEPT ![c] = "reduced"]
    /\ booked' = booked \union {<<c, "tp">>}
    /\ life' = [life EXCEPT ![c] = Adds(@, {<<c, "tp">>})]
    /\ visible' = visible \union {<<c, "tp">>}
    /\ bus' = Append(bus, Says("reduce", c, {<<c, "tp">>}))
    /\ UNCHANGED <<lane, spread, aged, pend, alerted, corrections, delivery, history,
                   known, work, raced, crashes>>

\* A close by an order of the process: final at once, nothing to resolve.
CloseOwn(c) ==
    /\ lane = "main" /\ stage[c] \in {"open", "reduced"}
    /\ stage' = [stage EXCEPT ![c] = "closed"]
    /\ booked' = booked \union {c} \X Exit
    /\ life' = [life EXCEPT ![c] = Adds(@, {c} \X Exit)]
    /\ bus' = Append(bus, Says("close", c, {c} \X Exit))
    /\ UNCHANGED <<market, pend, alerted, corrections, delivery, history, known, work,
                   raced, crashes>>

\* The stop or the target at the exchange fires; a reduced position may have
\* been reduced long before.
ExchangeExit(c) ==
    /\ stage[c] \in {"open", "reduced"}
    /\ spread' \in {spread} \union
           IF stage[c] = "reduced" THEN {spread \union {c}} ELSE {}
    /\ stage' = [stage EXCEPT ![c] = "exited"]
    /\ UNCHANGED <<lane, aged, visible, ledger, delivery, reviewer, work, raced,
                   crashes>>

\* A fill reaches the fills-history, which may be after it was asked for.
FillShows(c) ==
    /\ stage[c] \in {"exited", "dropped", "noticed", "forgotten"}
    /\ \E f \in ({c} \X Exit) \ visible : visible' = visible \union {f}
    /\ UNCHANGED <<lane, spread, aged, stage, ledger, delivery, reviewer, work,
                   raced, crashes>>

DayPasses(c) ==
    /\ pend[c] = "open" /\ c \notin aged
    /\ aged' = aged \union {c}
    /\ UNCHANGED <<lane, spread, visible, stage, ledger, delivery, reviewer, work,
                   raced, crashes>>

\* A sync drops the record of a position that is gone; the list of what was
\* dropped is in memory until it is notified.
SyncDrops(c) ==
    /\ stage[c] = "exited"
    /\ stage' = [stage EXCEPT ![c] = "dropped"]
    /\ UNCHANGED <<market, ledger, delivery, reviewer, work, raced, crashes>>

---------------------------------------------------------------------------
(* Pending events and corrections.                                         *)

Superseded == {corrections[i].sup : i \in DOMAIN corrections}
Waiting(c) == pend[c] # "none" /\ c \notin Superseded

\* A resolver knows the position id from the pending event; the background
\* task of the main track has only what the dropped record held, which is no
\* position id, and makes the key of symbol, side and opening time.
KnowsId(r) == r = Reconciler \/ lane = "tactical"

\* The pending event a resolution is about: by its key, and without a position
\* id the newest of the symbol and side that is still waiting.
NewestWaiting ==
    {c \in Closes : Waiting(c) /\ \A d \in Closes : Waiting(d) => d <= c}
Pending(r, c) ==
    IF KnowsId(r) THEN {c} \intersect {d \in Closes : Waiting(d)}
    ELSE NewestWaiting

\* What the exchange can answer about a close.  The history may not answer, the
\* bills may not answer (final, of fills alone) or disagree.  The main track
\* takes whatever closing fills of the position it is shown; the live lane
\* insists on the whole quantity.
Shown(c) == {f \in visible : f[1] = c}
Ambiguous(c) == <<c, "tp">> \in visible /\ Cardinality(Shown(c)) > 1 /\ c \in spread
Resolvable(c) ==
    /\ Shown(c) # {}
    /\ lane = "tactical" => {c} \X Exit \subseteq visible
    /\ ~Ambiguous(c)
\* With bills the final includes funding, or they disagree; without, it is final
\* of the fills alone.
Billed(c) == {Unfinal(c, "mismatch"), Final(c, Shown(c), TRUE), Final(c, Shown(c), FALSE)}

Answers(c) ==
    {Unfinal(c, "pending")} \union
    IF Resolvable(c)
    THEN Billed(c)
    ELSE {}

Key(r, res) == <<IF KnowsId(r) THEN "id" ELSE "opened", res.close, res.counts, res.bills>>

\* The correction of the same key that is there already.
Existing(r, res) == {i \in DOMAIN corrections : corrections[i].key = Key(r, res)}

Correction(r, res) ==
    [close |-> res.close, counts |-> res.counts, key |-> Key(r, res),
     sup |-> IF Pending(r, res.close) = {} THEN 0
             ELSE CHOOSE c \in Pending(r, res.close) : TRUE]

\* The lifecycle a correction adds to: that of the position id, its own or the
\* one of the pending event.
LifeOf(r, res) == IF KnowsId(r) THEN {res.close} ELSE Pending(r, res.close)

Added(r, res) == Existing(r, res) = {}

\* A day after the opening an unresolved close is left to a human.
GivesUpNever(c) == FALSE
GivesUp(c) == c \in aged

\* apply_pnl_resolution, under the lock of the ledger file.
Apply(r, res) ==
    CASE res.status = "final" ->
           /\ IF Added(r, res)
              THEN /\ corrections' = Append(corrections, Correction(r, res))
                   /\ life' = [c \in Closes |-> IF c \in LifeOf(r, res)
                                                THEN Adds(life[c], res.counts)
                                                ELSE life[c]]
                   /\ outbox' = outbox \union {Len(corrections) + 1}
              ELSE /\ UNCHANGED <<corrections, life>>
                   /\ outbox' = outbox \union Existing(r, res)
           /\ UNCHANGED <<pend, alerted>>
      [] res.status = "pending" ->
           /\ pend' = [c \in Closes |->
                          IF c \in Pending(r, res.close) /\ GivesUp(c) THEN "manual"
                          ELSE pend[c]]
           /\ UNCHANGED <<corrections, life, outbox, alerted>>
      [] res.status = "mismatch" ->
           /\ alerted' = alerted \union {res.close}
           /\ UNCHANGED <<pend, corrections, life, outbox>>

---------------------------------------------------------------------------
(* The two resolvers.                                                      *)

Busy(c) == \E r \in Resolvers : c \in work[r].todo

\* The pending event of a close is written once.
Recorded(written) == IF written = "none" THEN "open" ELSE written

\* _notify_removed_positions: the pending event, then a task of its own.
Notify(c) ==
    /\ stage[c] = "dropped"
    /\ stage' = [stage EXCEPT ![c] = "noticed"]
    /\ pend' = [pend EXCEPT ![c] = Recorded(@)]
    /\ work' = [work EXCEPT ![c] = Reading({c})]
    /\ UNCHANGED <<market, booked, alerted, corrections, life, delivery, reviewer,
                   raced, crashes>>

\* auto_resolve_pending lists what is waiting and not left to a human.
ScanAll == {c \in Closes : pend[c] # "none"}
Scanned == {c \in Closes : Waiting(c) /\ pend[c] # "manual"}
Scan ==
    /\ work[Reconciler] = Idle /\ Scanned # {}
    /\ work' = [work EXCEPT ![Reconciler] = Reading(Scanned)]
    /\ raced' = raced \union {c \in Scanned : Busy(c)}
    /\ UNCHANGED <<market, stage, ledger, delivery, reviewer, crashes>>

\* The exchange is asked outside the lock of the ledger.
Resolve(r) ==
    /\ work[r].at = "read"
    /\ \E c \in work[r].todo : \E res \in Answers(c) :
          work' = [work EXCEPT ![r] = [at |-> "apply", todo |-> @.todo, res |-> res]]
    /\ UNCHANGED <<market, stage, ledger, delivery, reviewer, raced, crashes>>

ApplyAnswer(r) ==
    /\ work[r].at = "apply"
    /\ Apply(r, work[r].res)
    /\ LET left == work[r].todo \ {work[r].res.close}
       IN work' = [work EXCEPT ![r] = IF left = {} THEN Idle
                                      ELSE Reading(left)]
    /\ UNCHANGED <<market, stage, booked, acked, routing, settled, reviewer, raced,
                   crashes>>

---------------------------------------------------------------------------
(* Delivery: _route_pnl_event and the replay of what was not acknowledged. *)

\* A repeated final carries the id of the correction that is there.
ResolutionId(i) == i

Told(i) == [type |-> "final", close |-> corrections[i].close,
            counts |-> corrections[i].counts, id |-> ResolutionId(i)]

Routable(i) == i \notin acked

\* Under the route lock: the live lane first, then the bus.
Route(i) ==
    /\ routing = NoCorrection /\ i \in outbox
    /\ outbox' = outbox \ {i}
    /\ IF Routable(i)
       THEN /\ routing' = i
            /\ settled' = IF lane = "tactical"
                          THEN [settled EXCEPT ![corrections[i].close] = i]
                          ELSE settled
            /\ bus' = Append(bus, Told(i))
       ELSE UNCHANGED <<routing, settled, bus>>
    /\ UNCHANGED <<market, stage, ledger, acked, history, known, work, raced, crashes>>

Acknowledge ==
    /\ routing # NoCorrection
    /\ acked' = acked \union {routing}
    /\ routing' = NoCorrection
    /\ UNCHANGED <<market, stage, ledger, outbox, settled, reviewer, work, raced,
                   crashes>>

\* The ledger logs and swallows a write that fails.
AcknowledgeLost ==
    /\ routing # NoCorrection /\ crashes < MaxCrashes
    /\ crashes' = crashes + 1 /\ routing' = NoCorrection
    /\ UNCHANGED <<market, stage, ledger, outbox, acked, settled, reviewer, work,
                   raced>>

\* _replay_unconsumed_tactical_v2_finals, before every reconciliation and at a
\* start: finals of the live lane only, and only those its record waits for.
Unpublished(i) == i \in DOMAIN corrections \ acked
Replayable(i) ==
    /\ lane = "tactical" /\ Unpublished(i)
    /\ settled[corrections[i].close] \in {NoCorrection, i}
Replay ==
    LET missing == {i \in DOMAIN corrections : Replayable(i)}
    IN /\ missing # {} /\ ~(missing \subseteq outbox \union {routing})
       /\ outbox' = outbox \union missing
       /\ UNCHANGED <<market, stage, ledger, acked, routing, settled, reviewer, work,
                      raced, crashes>>

---------------------------------------------------------------------------
(* The reviewer.                                                           *)

\* The newest record of the position, of a close or of a reduction.
Target(c) == {k \in DOMAIN history :
                /\ history[k].close = c
                /\ \A l \in DOMAIN history : history[l].close = c => l <= k}

Row(m) == [close |-> m.close, kind |-> IF m.type = "reduce" THEN "reduce" ELSE "close",
           counts |-> m.counts]

Upserted(m) ==
    IF Target(m.close) = {} THEN Append(history, Row(m))
    ELSE [k \in DOMAIN history |->
             IF k \in Target(m.close) THEN [history[k] EXCEPT !.counts = m.counts]
             ELSE history[k]]

Review ==
    /\ bus # <<>>
    /\ LET m == Head(bus)
       IN IF m.type = "final"
          THEN IF m.id \in known THEN UNCHANGED <<history, known>>
               ELSE history' = Upserted(m) /\ known' = known \union {m.id}
          ELSE history' = Append(history, Row(m)) /\ UNCHANGED known
    /\ bus' = Tail(bus)
    /\ UNCHANGED <<market, stage, ledger, delivery, work, raced, crashes>>

\* A restart keeps the files: the ledger, the lifecycles, the records of the
\* live lane and the trade history.  A close dropped by a sync and not yet
\* notified is in no file.
Crash ==
    /\ crashes < MaxCrashes
    /\ crashes' = crashes + 1
    /\ work' = [r \in Resolvers |-> Idle]
    /\ outbox' = {} /\ routing' = NoCorrection
    /\ bus' = <<>> /\ known' = {}
    /\ stage' = [c \in Closes |-> IF stage[c] = "dropped" THEN "forgotten" ELSE stage[c]]
    /\ UNCHANGED <<market, ledger, acked, settled, history, raced>>

\* How often the realised profit of the day counts a fill.
Counted(f) == (IF f \in booked THEN 1 ELSE 0)
              + Cardinality({i \in DOMAIN corrections : f \in corrections[i].counts})

Step(c) == Open(c) \/ Reduce(c) \/ CloseOwn(c) \/ ExchangeExit(c)
           \/ FillShows(c) \/ DayPasses(c) \/ SyncDrops(c) \/ Notify(c)

Next ==
    \/ \E c \in Closes : Step(c)
    \/ Scan
    \/ \E r \in Resolvers : Resolve(r) \/ ApplyAnswer(r)
    \/ \E i \in DOMAIN corrections : Route(i)
    \/ Acknowledge \/ AcknowledgeLost \/ Replay \/ Review \/ Crash

\* The loops of the agent go on: what it holds it finishes, the reconciler runs
\* again and again, and a day passes.  The exchange owes nothing.
Fairness ==
    /\ \A c \in Closes : WF_vars(Notify(c)) /\ WF_vars(DayPasses(c))
    /\ WF_vars(Scan)
    /\ \A r \in Resolvers : WF_vars(Resolve(r)) /\ WF_vars(ApplyAnswer(r))
    /\ WF_vars(\E i \in DOMAIN corrections : Route(i))
    /\ WF_vars(Acknowledge) /\ WF_vars(Replay) /\ WF_vars(Review)

Spec == Init /\ [][Next]_vars /\ Fairness

-----------------------------------------------------------------------------
(* Properties.                                                                *)

\* Types; and a correction always counts some fill.
TypeOK ==
    /\ lane \in Lanes /\ stage \in [Closes -> Stages]
    /\ spread \subseteq Closes /\ aged \subseteq Closes /\ alerted \subseteq Closes
    /\ visible \subseteq Fills /\ booked \subseteq Fills
    /\ pend \in [Closes -> {"none", "open", "manual"}]
    /\ \A i \in DOMAIN corrections :
          /\ corrections[i].counts \in (SUBSET Fills) \ {{}}
          /\ corrections[i].sup \in Closes \union {0}
    /\ \A c \in Closes : \A k \in DOMAIN life[c] : life[c][k] \subseteq Fills
    /\ acked \subseteq DOMAIN corrections /\ outbox \subseteq DOMAIN corrections
    /\ routing \in DOMAIN corrections \union {NoCorrection}
    /\ settled \in [Closes -> DOMAIN corrections \union {NoCorrection}]
    /\ raced \subseteq Closes /\ crashes \in 0 .. MaxCrashes

\* The day's profit counts the closing fill of a position at most once, unless
\* two resolutions of the close were under way together or one of them was
\* written over the pending event of another close.
CountedOnce ==
    \A c \in Closes : (\E l \in Exit : Counted(<<c, l>>) > 1) =>
        \/ c \in raced
        \/ \E i \in DOMAIN corrections :
              corrections[i].close = c /\ corrections[i].sup \notin {0, c}

\* In the live lane a final is of a whole close, however late its fills show.
TacticalWhole ==
    lane = "tactical" =>
        \A i \in DOMAIN corrections :
            {corrections[i].close} \X Exit \subseteq corrections[i].counts

\* On either lane.
Whole ==
    \A i \in DOMAIN corrections :
        {corrections[i].close} \X Exit \subseteq corrections[i].counts

\* The trade history has one record of a close, with repeated finals, two
\* corrections of one close and restarts.
OneRecord ==
    \A c \in Closes :
        Cardinality({k \in DOMAIN history :
                       history[k].close = c /\ history[k].kind = "close"}) <= 1

\* What was acknowledged is not put on the bus again.
AckedStaysSent == [][\A i \in acked : bus' # Append(bus, Told(i))]_vars

\* A final of the live lane reaches the bus, with restarts between writing it
\* and delivering it.
TacticalDelivered ==
    \A c \in Closes :
        (lane = "tactical" /\ \E i \in DOMAIN corrections : corrections[i].close = c)
            ~> \E i \in acked : corrections[i].close = c

\* No pending close is forgotten: it gets a final or is left to a human.
NoneForgotten ==
    \A c \in Closes :
        pend[c] = "open" ~> c \in Superseded \/ pend[c] = "manual" \/ c \in alerted

\* The pending event a final supersedes is that of the close it resolved, on
\* either lane.
SupersedesOwn ==
    \A i \in DOMAIN corrections : corrections[i].sup \in {0, corrections[i].close}

\* No fill is counted twice in the day's profit.
NeverTwice == \A f \in Fills : Counted(f) <= 1

\* Any final reaches the bus.
Delivered ==
    \A c \in Closes :
        (\E i \in DOMAIN corrections : corrections[i].close = c)
            ~> \E i \in acked : corrections[i].close = c

\* A close is answered in the end: a pending one gets a final or is left to a
\* human, and the final of a live one is delivered.
ClosesAnswered == NoneForgotten /\ TacticalDelivered
===============================================================================
