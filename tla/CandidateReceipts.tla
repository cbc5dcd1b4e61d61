-------------------------- MODULE CandidateReceipts --------------------------
(* How the controller answers a candidate exactly once                        *)
(* (utils/tactical_v2/controller.py, handle_candidate): every decision leaves *)
(* a receipt in the event ledger, an interrupted one a gap, and what the      *)
(* ledger contradicts is quarantined and halts admission until acknowledged.  *)
(*                                                                            *)
(* The read model is a fold of the ledger.  A payload stands for its hash and *)
(* its candidate, BadPayload for one that has no canonical form.  A decision  *)
(* is a reason and an episode: EpisodeRegistry and TacticalGovernor decide,   *)
(* here any outcome they can give is possible.  The ledger may be inherited   *)
(* from a version that wrote contradicting receipts.  An append fails without *)
(* a trace (TacticalStore); the process may die between two appends.          *)
EXTENDS Naturals, Sequences, FiniteSets

CONSTANTS
    Messages, NoMessage,    \* message ids; a delivery without one
    Payloads, BadPayload,   \* payloads with and without an identity
    MaxEpisodes,            \* bound: episodes assigned
    MaxLog                  \* bound: events of the ledger

VARIABLES
    log,        \* the ledger: candidate_handled, intent_created and the rest
    memory,     \* the persisted read model
    stale,      \* _observed_store_seq is behind the ledger
    pending,    \* _pending_..._evidence: evidence whose append failed twice
    told        \* history: definite answers given, by identity

vars == <<log, memory, stale, pending, told>>

Kinds == {"handled", "gap", "rejected", "intent", "assigned", "terminal", "conflict",
          "governor_clear", "ack"}
Event(kind, m, p, reason, n) ==
    [kind |-> kind, msg |-> m, pay |-> p, reason |-> reason, n |-> n]
Identity(m, p) == IF m # NoMessage THEN m ELSE p

Blank ==
    [receipts |-> {}, intents |-> {}, episodes |-> 0, gaps |-> {}, rejected |-> {},
     badMsgs |-> {}, badPays |-> {}, quarantined |-> {}, ambiguous |-> [p \in Payloads |-> 0],
     queue |-> <<>>, seen |-> {}, acked |-> {}, conflicts |-> {}, governor |-> FALSE]

-----------------------------------------------------------------------------
(* The read model.                                                            *)

ValidReceipt(M, r) ==
    CASE r.reason = "accepted" -> [pay |-> r.pay, n |-> r.n] \in M.intents
      [] r.reason = "expired"  -> r.n = 0
      [] OTHER                 -> r.n \in 1..M.episodes

SameDecision(r, q) == r.pay = q.pay /\ r.reason = q.reason /\ r.n = q.n
ByMessage(M, m) == {q \in M.receipts : q.msg = m /\ m # NoMessage}
ByPayload(M, p) == {q \in M.receipts : q.pay = p}
Fallback(M, p) == {q \in ByPayload(M, p) : q.msg = NoMessage}

\* An incident is named by the position of its event; it waits in the queue.
Incident(M, i) ==
    IF i \in M.acked \cup M.seen THEN M
    ELSE [M EXCEPT !.queue = Append(@, i), !.seen = @ \cup {i}]
Quarantine(M, rs) ==
    [M EXCEPT !.quarantined = @ \cup {Identity(r.msg, r.pay) : r \in rs} \cup {r.pay : r \in rs},
              !.receipts = @ \ rs]

\* A message's receipt against a fallback one: the fallback is not trusted.
DropFallback(M, r, i) ==
    IF \A q \in Fallback(M, r.pay) : SameDecision(q, r) THEN M
    ELSE Incident([Quarantine(M, Fallback(M, r.pay)) EXCEPT !.badPays = @ \cup {r.pay}], i)
Ambiguity(M, r, i) ==
    IF M.ambiguous[r.pay] = 0 /\ \E q \in ByPayload(M, r.pay) :
            q.msg # NoMessage /\ ~SameDecision(q, r)
    THEN [M EXCEPT !.ambiguous[r.pay] = i] ELSE M
AddReceipt(M, r) ==
    [M EXCEPT !.receipts = @ \cup {r},
              !.gaps = {g \in @ : g.id # Identity(r.msg, r.pay)}]

RememberReceipt(M, r, i) ==
    LET distrusted == IF r.msg # NoMessage THEN r.msg \in M.badMsgs ELSE r.pay \in M.badPays
        other == ByMessage(M, r.msg) \ {r}
        rivals == {q \in ByPayload(M, r.pay) : ~SameDecision(q, r)}
    IN  IF ~ValidReceipt(M, r) \/ distrusted THEN Incident(Quarantine(M, {r}), i)
        ELSE IF r \in M.receipts THEN M
        ELSE IF other # {}
        THEN Incident([Quarantine(M, other \cup {r}) EXCEPT !.badMsgs = @ \cup {r.msg}], i)
        ELSE IF r.msg = NoMessage /\ rivals # {}
        THEN Incident([Quarantine(M, Fallback(M, r.pay) \cup {r})
                           EXCEPT !.badPays = @ \cup {r.pay}], i)
        ELSE IF r.msg = NoMessage THEN AddReceipt(M, r)
        ELSE AddReceipt(Ambiguity(DropFallback(M, r, i), r, i), r)

\* Only the incident at the head of the queue can be acknowledged.
Acknowledged(M, i) ==
    IF M.queue = <<>> \/ Head(M.queue) # i THEN M
    ELSE [M EXCEPT !.acked = @ \cup {i}, !.queue = Tail(@)]

RememberGap(M, e) ==
    LET id == Identity(e.msg, e.pay)
    IN  [M EXCEPT !.gaps = {g \in @ : g.id # id} \cup {[id |-> id, pay |-> e.pay]}]

\* One event of the ledger, as _restore reads it.
Apply(M, e, i) ==
    CASE e.kind = "handled"  -> RememberReceipt(M, e, i)
      [] e.kind \in {"gap", "terminal"} -> RememberGap(M, e)
      [] e.kind = "rejected" -> [M EXCEPT !.rejected = @ \cup {Identity(e.msg, e.pay)}]
      [] e.kind = "intent"   -> [M EXCEPT !.intents = @ \cup {[pay |-> e.pay, n |-> e.n]}]
      [] e.kind = "assigned" -> [M EXCEPT !.episodes = e.n]
      [] e.kind = "ack"      -> Acknowledged(M, e.n)
      [] e.kind = "conflict" -> [M EXCEPT !.conflicts = @ \cup {<<e.msg, e.reason, e.pay>>},
                                          !.governor = TRUE]
      [] e.kind = "governor_clear" -> [M EXCEPT !.governor = FALSE]

ApplyFrom(M, lg, from) ==
    LET f[i \in from..Len(lg)] == IF i = from THEN M ELSE Apply(f[i - 1], lg[i], i)
    IN  f[Len(lg)]
Restored(lg) == ApplyFrom(Blank, lg, 0)

\* Receipts of another version: for one message twice, or with no intent.
OldReceipts ==
    [kind : {"handled"}, msg : Messages, pay : Payloads, reason : {"expired"}, n : {0}]
        \cup
    [kind : {"handled"}, msg : Messages, pay : Payloads, reason : {"accepted"}, n : {1}]
Init ==
    /\ \E old \in UNION {[1..k -> OldReceipts] : k \in 0..2} : log = old
    /\ memory = Restored(log)
    /\ stale = FALSE /\ pending = {} /\ told = {}

-----------------------------------------------------------------------------
(* One delivery.  The operators below are given the read model M and the      *)
(* ledger lg after what the delivery appended first.                          *)

Keep(lg, M) ==
    /\ log' = lg /\ memory' = M
\* Appended, and applied as it was.
Commit(M, lg, events) ==
    Keep(lg \o events, ApplyFrom(M, lg \o events, Len(lg)))
Answered(id, r) == told' = told \cup {[id |-> id, reason |-> r.reason, n |-> r.n]}
NoAnswer == told' = told

\* handle_candidate raised: the next delivery restores the read model.
Raised(M, lg) == Keep(lg, M) /\ stale' = TRUE /\ NoAnswer

\* An append of evidence, tried twice; else it is kept for the next delivery.
Evidence(M, lg, pend, e) ==
    \/ Commit(M, lg, <<e>>) /\ pending' = pend /\ stale' = FALSE
    \/ Keep(lg, M) /\ pending' = pend \cup {e} /\ stale' = TRUE

UnreceiptedNone(M, p) == {}
Unreceipted(M, p) ==
    {x \in M.intents : x.pay = p /\ \A r \in M.receipts :
        ~(r.reason = "accepted" /\ r.pay = x.pay /\ r.n = x.n)}
Gap(M, id) == {g \in M.gaps : g.id = id}
Rejected(M, m, p) == Identity(m, p) \in M.rejected
Quarantined(M, m, p) ==
    IF m # NoMessage THEN m \in M.quarantined \/ m \in M.badMsgs
    ELSE p \in M.quarantined \/ p \in M.badPays

\* message_identity_conflict: the governor is halted once for the identity.
Contradicted(M, lg, m, p, stored) ==
    /\ IF <<m, stored, p>> \in M.conflicts \/ M.governor THEN Keep(lg, M)
       ELSE Commit(M, lg, <<Event("conflict", m, p, stored, 0)>>)
    /\ stale' = FALSE /\ NoAnswer

\* The decision and the events that record it, in their order.
Decisions(M, m, p) ==
    {<<Event("handled", m, p, "expired", 0)>>}
    \cup (IF M.episodes = 0 THEN {} ELSE {<<Event("handled", m, p, "duplicate", M.episodes)>>})
    \cup (IF M.episodes = MaxEpisodes THEN {} ELSE
          LET n == M.episodes + 1
              assigned == Event("assigned", m, p, "", n)
          IN  {<<assigned, Event("terminal", m, p, "", n), Event("handled", m, p, "refused", n)>>}
              \cup IF M.queue # <<>> \/ M.governor THEN {} ELSE
              {<<assigned, Event("intent", m, p, "", n), Event("handled", m, p, "accepted", n)>>})

\* The appends of a decision.  One that fails raises: for an intent or a receipt
\* a gap is left first, unless the refusal has left it.
Decide(M, lg, pend, m, p) ==
    \E d \in Decisions(M, m, p) :
        \/ /\ Commit(M, lg, d)
           /\ Answered(Identity(m, p), d[Len(d)])
           /\ stale' = FALSE /\ pending' = pend
        \/ \E k \in 1..Len(d) :
            LET lgk == lg \o SubSeq(d, 1, k - 1)
                Mk == ApplyFrom(M, lgk, Len(lg))
                gap == Event("gap", m, p, "", 0)
            IN  /\ stale' = TRUE /\ NoAnswer
                /\ IF d[k].kind \in {"assigned", "terminal"} \/ Gap(Mk, Identity(m, p)) # {}
                   THEN Keep(lgk, Mk) /\ pending' = pend
                   ELSE \/ Commit(Mk, lgk, <<gap>>) /\ pending' = pend
                        \/ Keep(lgk, Mk) /\ pending' = pend \cup {gap}
        \/ \E k \in 1..(Len(d) - 1) :   \* the process dies, and restarts
            /\ log' = lg \o SubSeq(d, 1, k)
            /\ memory' = Restored(log')
            /\ stale' = FALSE /\ pending' = {} /\ NoAnswer

RejectPayload(M, lg, pend, m) ==
    Evidence(M, lg, pend, Event("rejected", m, BadPayload, "", 0)) /\ NoAnswer
Same(M, lg, pend) == Keep(lg, M) /\ stale' = FALSE /\ pending' = pend

Answer(M, lg, pend, m, p, replayed) ==
    LET id == Identity(m, p)
        mine == IF m # NoMessage THEN ByMessage(M, m)
                ELSE IF p \in M.badPays THEN {} ELSE ByPayload(M, p)
        ambiguous == m = NoMessage /\ M.ambiguous[p] # 0
    IN  IF Rejected(M, m, p) \/ Quarantined(M, m, p) THEN Same(M, lg, pend) /\ NoAnswer
        ELSE IF p = BadPayload
        THEN RejectPayload(M, lg, pend, m)
        ELSE IF ambiguous
        THEN Same(Incident(M, M.ambiguous[p]), lg, pend) /\ NoAnswer
        ELSE IF mine # {}
        THEN \E r \in mine :
                IF r.pay # p THEN Contradicted(M, lg, m, p, r.pay) /\ pending' = pend
                ELSE Same(M, lg, pend) /\ Answered(id, r)
        ELSE IF Gap(M, id) # {}
        THEN \E g \in Gap(M, id) :
                IF g.pay # p THEN Contradicted(M, lg, m, p, g.pay) /\ pending' = pend
                ELSE Same(M, lg, pend) /\ NoAnswer
        ELSE IF Unreceipted(M, p) # {} THEN Same(M, lg, pend) /\ NoAnswer
        ELSE IF replayed
        THEN Evidence(M, lg, pend, Event("gap", m, p, "", 0)) /\ NoAnswer
        ELSE Decide(M, lg, pend, m, p)

HandleCandidate(m, p, replayed) ==
    LET base == IF stale THEN Restored(log) ELSE memory
        mine == {e \in pending : Identity(e.msg, e.pay) = Identity(m, p)}
    IN  /\ Len(log) + 3 <= MaxLog
        /\ \/ mine = {} /\ Answer(base, log, pending, m, p, replayed)
           \/ \E e \in mine :   \* pending evidence first
                LET lg == Append(log, e)
                IN  \/ Answer(Apply(base, e, Len(lg)), lg, pending \ {e}, m, p, replayed)
                    \/ Raised(base, log) /\ pending' = pending

\* acknowledge_candidate_receipt_integrity with a complete proof.
Acknowledge ==
    /\ memory.queue # <<>>
    /\ Len(log) < MaxLog
    /\ LET e == Event("ack", NoMessage, BadPayload, "", Head(memory.queue))
       IN  log' = Append(log, e) /\ memory' = Apply(memory, e, Len(log'))
    /\ stale' = TRUE
    /\ UNCHANGED <<pending, told>>
\* The governor's halt is reconciled (TacticalGovernor).
GovernorCleared ==
    /\ memory.governor
    /\ Len(log) < MaxLog
    /\ LET e == Event("governor_clear", NoMessage, BadPayload, "", 0)
       IN  log' = Append(log, e) /\ memory' = Apply(memory, e, Len(log'))
    /\ stale' = TRUE
    /\ UNCHANGED <<pending, told>>

\* Another append to the ledger, of a quote, a close or a structure.
OtherAppend == ~stale /\ stale' = TRUE /\ UNCHANGED <<log, memory, pending, told>>
Restart ==
    /\ memory' = Restored(log)
    /\ stale' = FALSE /\ pending' = {}
    /\ UNCHANGED <<log, told>>

Next ==
    \/ \E m \in Messages \cup {NoMessage}, p \in Payloads \cup {BadPayload},
          replayed \in BOOLEAN : HandleCandidate(m, p, replayed)
    \/ Acknowledge \/ GovernorCleared \/ OtherAppend \/ Restart

Spec == Init /\ [][Next]_vars

-----------------------------------------------------------------------------
Ids == Messages \cup Payloads \cup {BadPayload}
TypeOK ==
    /\ Len(log) <= MaxLog + 1
    /\ \A i \in DOMAIN log : log[i].kind \in Kinds /\ log[i].n \in 0..MaxLog
    /\ memory.queue \in Seq(DOMAIN log) /\ memory.gaps \subseteq [id : Ids, pay : Payloads]
    /\ stale \in BOOLEAN
    /\ \A e \in pending : e.kind \in {"gap", "rejected"}
    /\ \A t \in told : t.id \in Ids

\* Whoever asks again with the same message, or with the same payload, is never
\* given another decision, whatever failed or was restarted in between.
AnswersStable == \A s, t \in told : s.id = t.id => s = t

\* A delivery never opens two intents: not when its receipt could not be
\* written, nor when the process died before it was.
OneIntentEach ==
    \A i, j \in DOMAIN log :
        /\ log[i].kind = "intent" /\ log[j].kind = "intent" /\ i # j
        => <<log[i].msg, log[i].pay>> # <<log[j].msg, log[j].pay>>

\* An incident leaves only by its own acknowledgement and no acknowledgement is
\* undone, restarts included.  Not of the ambiguity of a payload: that one is
\* raised by the delivery that asked, and kept in memory only.
Waiting(M) == {M.queue[i] : i \in DOMAIN M.queue}
OfLedger(M) == DOMAIN log \ {M.ambiguous[p] : p \in Payloads}
IncidentsKept ==
    \A i \in OfLedger(memory) \cap OfLedger(memory') :
        /\ i \in Waiting(memory) /\ i \notin Waiting(memory')
               => \E j \in DOMAIN log' : log'[j].kind = "ack" /\ log'[j].n = i
        /\ i \in memory.acked => i \in memory'.acked
IncidentsStand == [][IncidentsKept]_vars

\* An acknowledgement survives a restart.
AcknowledgementKept == \A i \in memory.acked : i \in memory'.acked
AcknowledgementSurvives == [][AcknowledgementKept]_vars

\* Asked again about a candidate the lane answers as before, and acts once.
ReceiptsHonest == AnswersStable /\ OneIntentEach
=============================================================================
