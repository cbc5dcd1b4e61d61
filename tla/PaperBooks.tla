------------------------------ MODULE PaperBooks ------------------------------
(***************************************************************************)
(* The paper executor on one symbol: two shadow books that follow the same *)
(* decisions, one with the entry orders of the plan and one that enters at *)
(* once, their money, and the limit entry that waits in memory.            *)
(*                                                                         *)
(* Positions are long.  A margin is counted in units, a price in steps; a  *)
(* unit gains one for a step and costs one for each way through the        *)
(* market.  What an add averages into one entry price is kept as lots,     *)
(* which gain the same.                                                    *)
(***************************************************************************)
EXTENDS Integers

CONSTANTS
    Initial,     \* equity a book starts with
    Margin,      \* margin of a plan; a position is at most twice that
    MaxOpens, MaxRestarts   \* bounds

Books == {"realistic", "idealized"}
\* The prices of a plan.
Stop == 1
Zone == 2
Target == 3
Prices == Stop .. Target
NoPrice == 0
Nothing == [e \in Prices |-> 0]
NotWaiting == [on |-> FALSE, due |-> FALSE, fallback |-> FALSE]

VARIABLES
    price, fresh,   \* the last tick, and whether it is recent
    book,           \* [Books -> the lots, distance of stop and target, fees
                    \*  paid to enter, equity and recorded net profit]
    waiting,        \* the limit entry of the realistic book
    halted,         \* the own flag, from the commands it heard
    halt,           \* the shared halt state
    opens, restarts

vars == <<price, fresh, book, waiting, halted, halt, opens, restarts>>

Init ==
    /\ price = NoPrice /\ fresh = FALSE
    /\ book = [b \in Books |-> [lots |-> Nothing, sd |-> 0, td |-> 0, fee |-> 0,
                                equity |-> Initial, recorded |-> 0]]
    /\ waiting = NotWaiting /\ halted = FALSE /\ halt = FALSE
    /\ opens = 0 /\ restarts = 0

Units(k) == k.lots[Stop] + k.lots[Zone] + k.lots[Target]
Flat(k) == k.lots = Nothing
Gain(k, p) == k.lots[Stop] * (p - Stop) + k.lots[Zone] * (p - Zone)
                + k.lots[Target] * (p - Target)
Free(k) == k.equity - Units(k)

-----------------------------------------------------------------------------
(* What happens to a book. *)

Entered(k, at) ==
    IF Free(k) < Margin THEN k
    ELSE [k EXCEPT !.lots[at] = Margin, !.sd = at - Stop, !.td = Target - at,
                   !.fee = Margin, !.equity = @ - Margin]

Exited(k, gross) ==
    [k EXCEPT !.lots = Nothing, !.sd = 0, !.td = 0, !.fee = 0,
              !.equity = @ + gross - Units(k),
              !.recorded = @ + gross - k.fee - Units(k)]

\* An add keeps its fee with the position until the close accounts for it.
AddedFeeless(k, p) ==
    LET n == IF 2 * Units(k) <= 2 * Margin THEN Units(k) ELSE 2 * Margin - Units(k) IN
       IF Flat(k) \/ n <= 0 \/ 2 * n > Free(k) THEN k
       ELSE [k EXCEPT !.lots[p] = @ + n, !.equity = @ - n]
Added(k, p) ==
    LET n == IF 2 * Units(k) <= 2 * Margin THEN Units(k) ELSE 2 * Margin - Units(k) IN
       IF Flat(k) \/ n <= 0 \/ 2 * n > Free(k) THEN k
       ELSE [k EXCEPT !.lots[p] = @ + n, !.fee = @ + n, !.equity = @ - n]

\* Half of every lot is sold.  Bound: a lot is not halved below one unit.
Halves(k) == ~Flat(k) /\ \A e \in Prices : k.lots[e] % 2 = 0
Reduced(k, p) ==
    IF ~Halves(k) THEN k
    ELSE LET net == (Gain(k, p) - Units(k)) \div 2 IN
            [k EXCEPT !.lots = [e \in Prices |-> k.lots[e] \div 2],
                      !.equity = @ + net, !.recorded = @ + net]

\* The stop comes before the target, each at its own price.
Checked(k, p) ==
    CASE Flat(k) -> k
      [] ~Flat(k) /\ -Gain(k, p) >= k.sd * Units(k) -> Exited(k, -(k.sd * Units(k)))
      [] ~Flat(k) /\ -Gain(k, p) < k.sd * Units(k) /\ Gain(k, p) >= k.td * Units(k) ->
            Exited(k, k.td * Units(k))
      [] OTHER -> k

-----------------------------------------------------------------------------
Fills(p) == waiting.on /\ p = Zone

Tick(p) ==
    /\ price' = p /\ fresh' = TRUE
    /\ waiting' = IF Fills(p) THEN NotWaiting ELSE waiting
    /\ book' = [b \in Books |->
                  Checked(IF b = "realistic" /\ Fills(p) THEN Entered(book[b], Zone)
                          ELSE book[b], p)]
    /\ UNCHANGED <<halted, halt, opens, restarts>>

\* The idealized book follows at the last price if that is recent.
Follows(k) == IF Flat(k) /\ price # NoPrice /\ fresh THEN Entered(k, price) ELSE k

Refused == halted \/ halt
Enters == ~waiting.on

\* An open decision: refused under a halt, waiting for its price, or at once.
Decide(limit, fallback) ==
    /\ Flat(book["realistic"]) /\ ~Refused
    /\ opens < MaxOpens /\ opens' = opens + 1
    /\ waiting' = IF Enters /\ limit
                  THEN [on |-> TRUE, due |-> FALSE, fallback |-> fallback] ELSE waiting
    /\ book' = [book EXCEPT
          !["realistic"] = IF Enters /\ ~limit
                           THEN Entered(@, IF price = NoPrice THEN Zone ELSE price) ELSE @,
          !["idealized"] = Follows(@)]
    /\ UNCHANGED <<price, fresh, halted, halt, restarts>>

\* Only the position analyst adds, whatever the halt says.
Add ==
    /\ ~Flat(book["realistic"]) /\ price # NoPrice
    /\ book' = [b \in Books |-> Added(book[b], price)]
    /\ UNCHANGED <<price, fresh, waiting, halted, halt, opens, restarts>>

\* Without a price the position closes at its entry.
GainNow(k) == IF price = NoPrice THEN 0 ELSE Gain(k, price)

Close ==
    /\ waiting' = NotWaiting
    /\ book' = [b \in Books |->
                  IF Flat(book[b]) \/ (b = "realistic" /\ waiting.on) THEN book[b]
                  ELSE Exited(book[b], GainNow(book[b]))]
    /\ UNCHANGED <<price, fresh, halted, halt, opens, restarts>>

Reduce ==
    /\ price # NoPrice
    /\ waiting' = NotWaiting
    /\ book' = [b \in Books |-> IF b = "realistic" /\ waiting.on THEN book[b]
                                ELSE Reduced(book[b], price)]
    /\ UNCHANGED <<price, fresh, halted, halt, opens, restarts>>

-----------------------------------------------------------------------------
Deadline ==
    /\ waiting.on /\ ~waiting.due /\ waiting' = [waiting EXCEPT !.due = TRUE]
    /\ UNCHANGED <<price, fresh, book, halted, halt, opens, restarts>>

\* What is left of a limit entry past its deadline: a market entry if the plan
\* allows one and the last tick is recent, or nothing.
AfterScan == NotWaiting
Scan ==
    /\ waiting.on /\ waiting.due
    /\ waiting' = AfterScan
    /\ book' = IF waiting.fallback /\ fresh
               THEN [book EXCEPT !["realistic"] = Entered(@, price)] ELSE book
    /\ UNCHANGED <<price, fresh, halted, halt, opens, restarts>>

GoesStale ==
    /\ fresh /\ fresh' = FALSE
    /\ UNCHANGED <<price, book, waiting, halted, halt, opens, restarts>>

\* A command of the operator, and a halt of the program itself.
Command(c) ==
    /\ halted' = CASE c = "halt" -> TRUE [] c \in {"matched", "refused"} -> FALSE
                   [] c \in {"force", "program"} -> halted
    /\ halt' = CASE c \in {"halt", "program"} -> TRUE [] c \in {"matched", "force"} -> FALSE
                 [] c = "refused" -> halt
    /\ UNCHANGED <<price, fresh, book, waiting, opens, restarts>>

\* The books are kept in files; what waits, the flag and the prices are not.
Restart ==
    /\ restarts < MaxRestarts /\ restarts' = restarts + 1
    /\ waiting' = NotWaiting /\ halted' = FALSE /\ price' = NoPrice /\ fresh' = FALSE
    /\ UNCHANGED <<book, halt, opens>>

Next ==
    \/ \E p \in Prices : Tick(p)
    \/ \E limit, fallback \in BOOLEAN : Decide(limit, fallback)
    \/ Add \/ Close \/ Reduce \/ Deadline \/ Scan \/ GoesStale
    \/ \E c \in {"halt", "matched", "refused", "force", "program"} : Command(c)
    \/ Restart

\* Time passes and the scan runs every half minute.
Spec == Init /\ [][Next]_vars /\ WF_vars(Deadline) /\ WF_vars(Scan)

-----------------------------------------------------------------------------
(* Properties.                                                                *)

\* Types; and a limit entry waits only while the book is flat.
TypeOK ==
    /\ price \in Prices \union {NoPrice}
    /\ \A b \in Books : book[b].lots \in [Prices -> 0 .. 2 * Margin]
    /\ waiting.on => Flat(book["realistic"])

\* The equity of a book is what its recorded trades and the fees of its open
\* position leave of what it began with, through adds, halves and restarts.
BooksBalance ==
    \A b \in Books : book[b].equity = Initial + book[b].recorded - book[b].fee

\* A limit entry does not wait for ever: it fills, falls back or is dropped.
LimitResolved == waiting.on ~> ~waiting.on

\* While the shared halt stands no paper position is opened
\* (paper_executor.py:14).
HaltedOpensNothing ==
    [][halt /\ halt' /\ Flat(book["realistic"]) => Flat(book'["realistic"])]_vars
=============================================================================
