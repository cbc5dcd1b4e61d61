----------------------------- MODULE ResearchCycle -----------------------------
(***************************************************************************)
(* A research cycle, from the trigger of the orchestrator and its watchdog *)
(* through the three collectors, the barrier and the two stages of the     *)
(* synthesizer and the challenge of the censor, to the symbols the router  *)
(* rotates to.  A cycle overlaps the retry that replaces it.               *)
(*                                                                         *)
(* What a model answers is left out, for a rule takes over where it fails; *)
(* a selection is named by the cycle whose data it was made from.          *)
(***************************************************************************)
EXTENDS Naturals, Sequences, FiniteSets

CONSTANTS
    MaxCycles,    \* bound on triggers and retries
    MaxRetries,   \* retries of a cycle that came to nothing
    MaxLost       \* bound on collectors that give no answer

Cycles == 1 .. MaxCycles
NoCycle == 0
Kinds == {"market", "news"}      \* the sentiment data go the way of the news

VARIABLES
    started,      \* cycles triggered so far
    watch,        \* [Cycles -> {"off", "armed", "done", "gave_up", "retried"}]
    retries,      \* [Cycles -> how often this trigger was retried]
    asked,        \* [Kinds -> Seq of cycles a collector still works for]
    lost,         \* answers that never came
    empty,        \* cycles whose market data names no candidate
    mail,         \* messages to the synthesizer, in order
    current,      \* the cycle the synthesizer is in
    bucket,       \* [Cycles -> kinds that have arrived and wait]
    barrier,      \* the cycle the barrier stands for, or NoCycle
    waits,        \* [Cycles -> {"no", "waiting", "set", "cancelled"}]: its task
    thinking,     \* cycles whose first selection is being made
    busy,         \* the selection the message loop makes itself, or NoCycle
    chosen,       \* the cycle of the first selection kept for the second stage
    deciding,     \* [of, under] while the second selection is made
    preliminaries,\* first selections on their way to the censor
    published,    \* [Cycles -> number of first selections published]
    reports,      \* cycles on their way to the orchestrator
    final         \* the results: [of, under]

vars == <<started, watch, retries, asked, lost, empty, mail, current, bucket, barrier,
          waits, thinking, busy, chosen, deciding, preliminaries, published, reports,
          final>>

orchestrator == <<started, watch, retries>>
collectors == <<asked, lost, empty>>
barriers == <<barrier, waits>>
stages == <<thinking, busy, chosen, deciding>>
outgoing == <<preliminaries, published, reports, final>>

NotDeciding == [of |-> NoCycle, under |-> NoCycle]

Init ==
    /\ started = 0 /\ watch = [c \in Cycles |-> "off"] /\ retries = [c \in Cycles |-> 0]
    /\ asked = [k \in Kinds |-> <<>>] /\ lost = 0 /\ empty = {}
    /\ mail = <<>> /\ current = NoCycle /\ bucket = [c \in Cycles |-> {}]
    /\ barrier = NoCycle /\ waits = [c \in Cycles |-> "no"]
    /\ thinking = {} /\ busy = NoCycle /\ chosen = NoCycle /\ deciding = NotDeciding
    /\ preliminaries = <<>> /\ published = [c \in Cycles |-> 0]
    /\ reports = {} /\ final = {}

-----------------------------------------------------------------------------
(* The orchestrator. *)

\* Bound: the triggers stop at MaxCycles.
Begin(retry) ==
    /\ started < MaxCycles /\ started' = started + 1
    /\ retries' = [retries EXCEPT ![started + 1] = retry]
    /\ asked' = [k \in Kinds |-> Append(asked[k], started + 1)]

\* On schedule, or after two idle hours: long after the cycle before.
Trigger ==
    /\ \A c \in Cycles : watch[c] # "armed"
    /\ started + MaxRetries < MaxCycles
    /\ Begin(0) /\ watch' = [watch EXCEPT ![started + 1] = "armed"]
    /\ UNCHANGED <<lost, empty, mail, current, bucket, barriers, stages, outgoing>>

RetryWatchOff == "off"
RetryWatch == "armed"

Expires(c) ==
    /\ watch[c] = "armed"
    /\ IF retries[c] < MaxRetries
       THEN Begin(retries[c] + 1)
            /\ watch' = [watch EXCEPT ![c] = "retried", ![started + 1] = RetryWatch]
       ELSE watch' = [watch EXCEPT ![c] = "gave_up"] /\ UNCHANGED <<started, retries, asked>>
    /\ UNCHANGED <<lost, empty, mail, current, bucket, barriers, stages, outgoing>>

\* A cycle that produced something needs no watch.
Report(c) ==
    /\ c \in reports /\ reports' = reports \ {c}
    /\ watch' = [watch EXCEPT ![c] = IF @ = "armed" THEN "done" ELSE @]
    /\ UNCHANGED <<started, retries, collectors, mail, current, bucket, barriers, stages,
                   preliminaries, published, final>>

-----------------------------------------------------------------------------
(* The collectors: one cycle after the other; the scanner answers without
   candidates when it has none. *)

Answer(k) ==
    /\ asked[k] # <<>> /\ asked' = [asked EXCEPT ![k] = Tail(@)]
    /\ LET c == Head(asked[k]) IN
          /\ mail' = Append(mail, [kind |-> k, cycle |-> c])
          /\ empty' \in IF k = "market" THEN {empty, empty \union {c}} ELSE {empty}
    /\ UNCHANGED <<orchestrator, lost, current, bucket, barriers, stages, outgoing>>

NoAnswer(k) ==
    /\ asked[k] # <<>> /\ asked' = [asked EXCEPT ![k] = Tail(@)]
    /\ lost < MaxLost /\ lost' = lost + 1
    /\ UNCHANGED <<orchestrator, empty, mail, current, bucket, barriers, stages, outgoing>>

-----------------------------------------------------------------------------
(* The synthesizer.  Its message loop takes a message when the one before is
   done; the task of a barrier runs beside it. *)

Free == busy = NoCycle /\ deciding = NotDeciding

\* Two buckets are kept; one of neither the incoming nor the current cycle goes.
Trimmed(b, c) ==
    [x \in Cycles |-> IF x \in {c, current}
                         \/ Cardinality({y \in Cycles : b[y] # {}}) <= 2 THEN b[x] ELSE {}]

\* A first selection starts unless its cycle is past; its bucket is taken.
MayBegin(c) == c = current /\ c \notin empty /\ "market" \in bucket[c]
Taken(c, b) == [b EXCEPT ![c] = {}]

\* What has arrived of the current cycle now decides: wake the task that waits
\* for it, begin at once if none does, or start one; stood is the barrier and w
\* its tasks after a stale one was called off.
Proceed(b, now, stood, w) ==
    LET waiting == stood = now /\ w[now] \in {"waiting", "set"} IN
    \/ /\ "market" \notin b[now] \/ (b[now] # Kinds /\ stood # NoCycle)
       /\ bucket' = b /\ barrier' = stood /\ waits' = w /\ UNCHANGED busy
    \/ /\ b[now] = Kinds /\ waiting
       /\ bucket' = b /\ barrier' = stood /\ waits' = [w EXCEPT ![now] = "set"]
       /\ UNCHANGED busy
    \/ /\ b[now] = Kinds /\ ~waiting
       /\ bucket' = Taken(now, b) /\ barrier' = NoCycle /\ waits' = w
       /\ busy' = IF now \in empty THEN NoCycle ELSE now
    \/ /\ "market" \in b[now] /\ b[now] # Kinds /\ stood = NoCycle
       /\ bucket' = b /\ barrier' = now /\ waits' = [w EXCEPT ![now] = "waiting"]
       /\ UNCHANGED busy

\* The market data of another cycle make it the current one and call off the
\* barrier that stands.
Stale(c) == barrier \notin {NoCycle, c}
CalledOff == [waits EXCEPT ![barrier] = IF @ \in {"waiting", "set"} THEN "cancelled" ELSE @]

TakeData ==
    /\ Free /\ mail # <<>> /\ Head(mail).kind \in Kinds /\ mail' = Tail(mail)
    /\ LET c == Head(mail).cycle
           k == Head(mail).kind
           b == Trimmed([bucket EXCEPT ![c] = @ \union {k}], c) IN
          IF k = "market"
          THEN /\ current' = c
               /\ IF Stale(c) THEN Proceed(b, c, NoCycle, CalledOff)
                  ELSE Proceed(b, c, barrier, waits)
          ELSE /\ UNCHANGED current
               /\ IF c = current THEN Proceed(b, c, barrier, waits)
                  ELSE bucket' = b /\ UNCHANGED <<barriers, busy>>
    /\ UNCHANGED <<orchestrator, collectors, thinking, chosen, deciding, outgoing>>

\* Whoever waited clears the barrier, if it is still its own.
Cleared(c) == IF barrier = c THEN NoCycle ELSE barrier

\* The data are complete or twenty seconds have passed.
Due(c) == waits[c] \in {"waiting", "set"}

Wake(c) ==
    /\ Due(c) /\ waits' = [waits EXCEPT ![c] = "no"]
    /\ barrier' = Cleared(c)
    /\ bucket' = Taken(c, bucket)
    /\ thinking' = IF MayBegin(c) THEN thinking \union {c} ELSE thinking
    /\ UNCHANGED <<orchestrator, collectors, mail, current, busy, chosen, deciding, outgoing>>

Unwind(c) ==
    /\ waits[c] = "cancelled" /\ waits' = [waits EXCEPT ![c] = "no"]
    /\ barrier' = Cleared(c)
    /\ UNCHANGED <<orchestrator, collectors, mail, current, bucket, stages, outgoing>>

\* The first selection is there: it is kept for the second stage and published.
Choose(c) ==
    /\ c \in thinking \union {busy} /\ c # NoCycle
    /\ thinking' = thinking \ {c} /\ busy' = IF busy = c THEN NoCycle ELSE busy
    /\ chosen' = c
    /\ preliminaries' = Append(preliminaries, c)
    /\ published' = [published EXCEPT ![c] = @ + 1]
    /\ reports' = reports \union {c}
    /\ UNCHANGED <<orchestrator, collectors, mail, current, bucket, barriers, deciding, final>>

\* The censor challenges what it is sent, by rule when its model fails.
Challenge ==
    /\ preliminaries # <<>> /\ preliminaries' = Tail(preliminaries)
    /\ mail' = Append(mail, [kind |-> "challenge", cycle |-> Head(preliminaries)])
    /\ UNCHANGED <<orchestrator, collectors, current, bucket, barriers, stages, published,
                   reports, final>>

\* The challenge of a cycle that is past is dropped, as is one with nothing to
\* decide on.
Heard(c) == c = current /\ chosen # NoCycle

TakeChallenge ==
    /\ Free /\ mail # <<>> /\ Head(mail).kind = "challenge" /\ mail' = Tail(mail)
    /\ IF Heard(Head(mail).cycle)
       THEN deciding' = [of |-> chosen, under |-> current] /\ chosen' = NoCycle
       ELSE UNCHANGED <<deciding, chosen>>
    /\ UNCHANGED <<orchestrator, collectors, current, bucket, barriers, thinking, busy, outgoing>>

Decide ==
    /\ deciding # NotDeciding /\ deciding' = NotDeciding
    /\ final' = final \union {deciding}
    /\ reports' = reports \union {deciding.under}
    /\ UNCHANGED <<orchestrator, collectors, mail, current, bucket, barriers, thinking, busy,
                   chosen, preliminaries, published>>

Next ==
    \/ Trigger \/ (\E c \in Cycles : Expires(c) \/ Report(c))
    \/ \E k \in Kinds : Answer(k) \/ NoAnswer(k)
    \/ TakeData \/ TakeChallenge \/ Challenge \/ Decide
    \/ \E c \in Cycles : Wake(c) \/ Unwind(c) \/ Choose(c)

\* A timeout ends every wait, and a model answers or fails; a collector need
\* not answer.
Spec ==
    /\ Init /\ [][Next]_vars
    /\ WF_vars(TakeData) /\ WF_vars(TakeChallenge) /\ WF_vars(Challenge) /\ WF_vars(Decide)
    /\ \A c \in Cycles : /\ WF_vars(Expires(c)) /\ WF_vars(Report(c))
                         /\ WF_vars(Wake(c)) /\ WF_vars(Unwind(c)) /\ WF_vars(Choose(c))

-----------------------------------------------------------------------------
(* Properties.                                                                *)

\* A cycle publishes one preliminary selection, by the barrier or by its
\* deadline, however the two cross.
OnePreliminary == \A c \in Cycles : published[c] <= 1

\* No research cycle ends in silence: it or a retry of it makes a selection, or
\* its watch gives up and says so.
NothingSilent ==
    \A c \in Cycles : started = c ~>
        \E d \in c .. MaxCycles : published[d] > 0 \/ watch[d] = "gave_up"

\* A cycle that got market data makes a selection while it is the current one,
\* whichever other reports are lost.
MarketUsed ==
    \A c \in Cycles : (current = c /\ "market" \in bucket[c] /\ c \notin empty)
                        ~> (published[c] > 0 \/ current # c)

\* A final selection rests on the preliminary one of its own cycle
\* (synthesizer.py:251).
FinalIsOfItsCycle == \A f \in final : f.of = f.under
=============================================================================
