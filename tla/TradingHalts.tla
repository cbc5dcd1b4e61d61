----------------------------- MODULE TradingHalts -----------------------------
(* Who may stop trading and who may start it again: the global halt           *)
(* (utils/halt_state.py, kept in a file), the executor's per-symbol halts     *)
(* (executor.py, memory only), the executor agent's own flag, and the         *)
(* operator's commands.                                                       *)
(*                                                                            *)
(* Positions appear only by what the halts read of them, the recorded         *)
(* protection_state; MainPosition has the positions.  The two reasons of      *)
(* PROTECTION_HALT_REASONS are one, "lost"; every other symbol reason is      *)
(* "trade".  The sync of the tick loop runs in a worker thread, so its        *)
(* automatic clearing is two steps: looking for another halt, and acting.     *)
EXTENDS Naturals, FiniteSets

CONSTANTS
    Symbols,
    NoSymbol,
    MaxHalts    \* bound: halts of any kind, and restarts

VARIABLES
    global,     \* HaltState: [on, cause, pending], the file and the singleton
    stopped,    \* MultiExecutor._trading_halted
    symbolHalt, \* _halted_symbols: the reason of a symbol, or "none"
    protection, \* of the local position: "flat", "protected" or "open"
    alerted,    \* _last_protection_alert: the symbols it names
    opening,    \* symbols with an admitted entry that has not filled
    clearing,   \* the automatic clearing under way: its symbol, another halt it found
    resume,     \* the operator's /resume: "none", "reconciling" or "published"
    ordered,    \* history: a stop was ordered and no resume of it was handled
    events

vars == <<global, stopped, symbolHalt, protection, alerted, opening, clearing, resume,
          ordered, events>>

\* A cause of the global halt: okx_{reason}:{symbol}, or a stop of all trading.
Cause(kind, s) == [kind |-> kind, symbol |-> s]
Causes == [kind : {"lost", "trade"}, symbol : Symbols] \cup {Cause("stop", NoSymbol)}
NoClearing == [symbol |-> NoSymbol, other |-> NoSymbol]

Unresolved(s) == protection[s] = "open"
CanOpenNew == ~global.on /\ ~global.pending

Init ==
    /\ global = [on |-> FALSE, cause |-> Cause("stop", NoSymbol), pending |-> FALSE]
    /\ stopped = FALSE
    /\ symbolHalt = [s \in Symbols |-> "none"]
    /\ protection = [s \in Symbols |-> "flat"]
    /\ alerted = {} /\ opening = {}
    /\ clearing = NoClearing
    /\ resume = "none"
    /\ ordered = FALSE
    /\ events = 0

\* halt() of the global state replaces the cause it had.
Halt(cause) == global' = [on |-> TRUE, cause |-> cause, pending |-> FALSE]
Lift == global' = [global EXCEPT !.on = FALSE, !.pending = FALSE]
HaltSymbol(s, kind) ==
    /\ symbolHalt' = [symbolHalt EXCEPT ![s] = kind]
    /\ Halt(Cause(kind, s))
Event == events < MaxHalts /\ events' = events + 1

-----------------------------------------------------------------------------
(* Entries and what goes wrong with them, on the message loop.                *)

\* _execute_decision and the guards of open_position_with_plan.  An entry takes
\* round trips, a clearing none: it is not admitted and filled during one.
Admit(s) ==
    /\ clearing = NoClearing
    /\ ~stopped /\ CanOpenNew /\ symbolHalt[s] = "none"
    /\ protection[s] = "flat" /\ s \notin opening
    /\ opening' = opening \cup {s}
    /\ UNCHANGED <<global, stopped, symbolHalt, protection, alerted, clearing, resume,
                   ordered, events>>

\* The fill is recorded: its attached SL was found, or was not.
Filled(s) ==
    /\ s \in opening
    /\ opening' = opening \ {s}
    /\ \/ /\ protection' = [protection EXCEPT ![s] = "protected"]
          /\ UNCHANGED <<global, symbolHalt, events>>
       \/ /\ Event
          /\ protection' = [protection EXCEPT ![s] = "open"]
          /\ HaltSymbol(s, "lost")
    /\ UNCHANGED <<stopped, alerted, clearing, resume, ordered>>

\* A replacement of the SL failed, or an order was refused by the exchange.
TradeHalt(s) ==
    /\ Event
    /\ protection[s] # "flat"
    /\ \/ protection' = [protection EXCEPT ![s] = "open"]
       \/ UNCHANGED protection
    /\ HaltSymbol(s, "trade")
    /\ UNCHANGED <<stopped, alerted, opening, clearing, resume, ordered>>

\* close_position, or a reject that shows the position gone.
Close(s) ==
    /\ protection[s] # "flat"
    /\ protection' = [protection EXCEPT ![s] = "flat"]
    /\ UNCHANGED <<global, stopped, symbolHalt, alerted, opening, clearing, resume,
                   ordered, events>>

-----------------------------------------------------------------------------
(* sync_positions and the migration at its end.                               *)

\* No SL at the exchange: alerted once per loss, halted unless the symbol is.
MissingSL(s) ==
    /\ clearing = NoClearing
    /\ s \notin opening
    /\ protection' = [protection EXCEPT ![s] = "open"]
    /\ alerted' = alerted \cup {s}
    /\ IF s \notin alerted /\ symbolHalt[s] = "none"
       THEN Event /\ HaltSymbol(s, "lost")
       ELSE UNCHANGED <<global, symbolHalt, events>>
    /\ UNCHANGED <<stopped, opening, clearing, resume, ordered>>

\* _find_other_unresolved_protection_halt, with positions as they now are.
OtherLostNone(s, state) == {}
OtherLost(s, state) ==
    {o \in Symbols \ {s} : symbolHalt[o] = "lost" /\ state[o] = "open"}
BeginClear(s, state) ==
    IF symbolHalt[s] # "lost" THEN UNCHANGED clearing
    ELSE \/ /\ OtherLost(s, state) = {}
            /\ clearing' = [symbol |-> s, other |-> NoSymbol]
         \/ \E o \in OtherLost(s, state) : clearing' = [symbol |-> s, other |-> o]

FoundSL(s) ==
    /\ clearing = NoClearing
    /\ s \notin opening
    /\ protection' = [protection EXCEPT ![s] = "protected"]
    /\ alerted' = alerted \ {s}
    /\ BeginClear(s, protection')
    /\ UNCHANGED <<global, stopped, symbolHalt, opening, resume, ordered, events>>

\* A position that is not at the exchange is dropped, and with it its alert.
\* _position_protection_unresolved is false of a position that is gone.
Removed(s) ==
    /\ clearing = NoClearing
    /\ protection[s] # "flat"
    /\ protection' = [protection EXCEPT ![s] = "flat"]
    /\ alerted' = alerted \ {s}
    /\ BeginClear(s, protection')
    /\ UNCHANGED <<global, stopped, symbolHalt, opening, resume, ordered, events>>

ClearOwn(s) == symbolHalt' = [symbolHalt EXCEPT ![s] = "none"]
\* auto_clear_if_reason: only the halt with exactly this cause.
Matches(s) == global.on /\ global.cause = Cause("lost", s)
FinishClear ==
    LET s == clearing.symbol
        o == clearing.other
    IN  /\ s # NoSymbol
        /\ clearing' = NoClearing
        /\ \/ Matches(s) /\ o = NoSymbol /\ Lift /\ ClearOwn(s)
           \/ Matches(s) /\ o # NoSymbol /\ Halt(Cause("lost", o)) /\ ClearOwn(s)
           \/ ~Matches(s) /\ UNCHANGED <<global, symbolHalt>>
        /\ UNCHANGED <<stopped, protection, alerted, opening, resume, ordered, events>>

-----------------------------------------------------------------------------
(* Stops and the operator.                                                    *)

\* The daily hard stop and /halt.  All positions are then closed.
Stop ==
    /\ Event
    /\ stopped' = TRUE /\ ordered' = TRUE
    /\ Halt(Cause("stop", NoSymbol))
    /\ UNCHANGED <<symbolHalt, protection, alerted, opening, clearing, resume>>

\* /resume: reconcile first; the executor acts on a published match only.
AskResume ==
    /\ global.on /\ resume = "none"
    /\ global' = [global EXCEPT !.pending = TRUE]
    /\ resume' = "reconciling"
    /\ UNCHANGED <<stopped, symbolHalt, protection, alerted, opening, clearing, ordered, events>>
Reconciled ==
    /\ resume = "reconciling"
    /\ resume' \in {"published", "none"}
    /\ UNCHANGED <<global, stopped, symbolHalt, protection, alerted, opening, clearing,
                   ordered, events>>

ClearAll == symbolHalt' = [s \in Symbols |-> "none"]
Resumed == Lift /\ stopped' = FALSE /\ ordered' = FALSE /\ ClearAll
HandleResume ==
    /\ resume = "published"
    /\ resume' = "none"
    /\ Resumed
    /\ UNCHANGED <<protection, alerted, opening, clearing, events>>
ForceResume ==
    /\ global.on
    /\ Resumed
    /\ UNCHANGED <<protection, alerted, opening, clearing, resume, events>>
ResumeSymbol(s) ==
    /\ symbolHalt[s] # "none"
    /\ ClearOwn(s)
    /\ UNCHANGED <<global, stopped, protection, alerted, opening, clearing, resume,
                   ordered, events>>

\* The file keeps the global halt; everything else of it was memory.
Restart ==
    /\ Event
    /\ stopped' = FALSE /\ alerted' = {} /\ opening' = {}
    /\ clearing' = NoClearing /\ resume' = "none"
    /\ ClearAll
    /\ UNCHANGED <<global, protection, ordered>>

OperatorStep == HandleResume \/ ForceResume \/ Restart \/ \E s \in Symbols : ResumeSymbol(s)
Next ==
    \/ Stop \/ AskResume \/ Reconciled \/ HandleResume \/ ForceResume \/ Restart
    \/ FinishClear
    \/ \E s \in Symbols :
        \/ Admit(s) \/ Filled(s) \/ TradeHalt(s) \/ Close(s)
        \/ MissingSL(s) \/ FoundSL(s) \/ Removed(s) \/ ResumeSymbol(s)

\* The tick loop goes on syncing, so an SL that stays at the exchange is seen
\* again, and what a sync began it finishes.
Spec ==
    /\ Init /\ [][Next]_vars
    /\ WF_vars(FinishClear)
    /\ \A s \in Symbols : SF_vars(protection[s] = "protected" /\ FoundSL(s))

-----------------------------------------------------------------------------
TypeOK ==
    /\ global \in [on : BOOLEAN, cause : Causes, pending : BOOLEAN]
    /\ stopped \in BOOLEAN /\ ordered \in BOOLEAN
    /\ symbolHalt \in [Symbols -> {"none", "lost", "trade"}]
    /\ protection \in [Symbols -> {"flat", "protected", "open"}]
    /\ alerted \subseteq Symbols /\ opening \subseteq Symbols
    /\ clearing \in [symbol : Symbols \cup {NoSymbol}, other : Symbols \cup {NoSymbol}]
    /\ resume \in {"none", "reconciling", "published"}
    /\ events \in 0..MaxHalts

\* Self-healing of one symbol never opens trading while another symbol that was
\* halted for a lost SL still has none: what the clearing found can be old when
\* it acts (_maybe_auto_clear_protection_halt).
LiftsWithAllSafe ==
    global.on /\ ~global'.on /\ ~OperatorStep =>
        \A s \in Symbols : ~(symbolHalt[s] = "lost" /\ Unresolved(s))
LiftKeepsOthersSafe == [][LiftsWithAllSafe]_vars

\* Without the operator a symbol's halt goes only when it was a lost SL and the
\* position is protected again or gone, whatever happened while clearing.
HealsProtected ==
    ~OperatorStep =>
        \A s \in Symbols : symbolHalt[s] # "none" /\ symbolHalt'[s] = "none" =>
            symbolHalt[s] = "lost" /\ ~Unresolved(s)
SelfHealEarned == [][HealsProtected]_vars

\* A global halt for a symbol whose SL is back does not stay for ever: it is
\* lifted or handed to another cause, or the SL is lost again.
StandsForNothing(s) ==
    /\ Matches(s) /\ symbolHalt[s] = "lost" /\ protection[s] = "protected"
HaltHandedOn == \A s \in Symbols : StandsForNothing(s) ~> ~StandsForNothing(s)

\* Halts heal, each on its own account: none lifts the stop of another, none
\* goes while its cause stands, and none stays when its cause is gone.
HaltsHeal == LiftKeepsOthersSafe /\ SelfHealEarned /\ HaltHandedOn

\* A stop that was ordered stands until a resume is handled: auto_clear_if_reason
\* "deliberately does not replace /resume or /force_resume".
OrderedStopStands == ordered => global.on
=============================================================================
