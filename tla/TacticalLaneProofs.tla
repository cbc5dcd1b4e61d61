------------------------- MODULE TacticalLaneProofs -------------------------
(* Proofs about the live lane, second half, on top of the types, the claims   *)
(* and the entry order: who works on which record (WorkInv) keeps a protected *)
(* position guarded; what an order that fills whole says about its record     *)
(* (LotInv) keeps a slot for every exposure; and counting the slots (SlotInv) *)
(* bounds the exposure.                                                       *)
EXTENDS TacticalLiveProofs, FiniteSetTheorems

-----------------------------------------------------------------------------
(* Who works on which record.                                                 *)

\* The handlers of a position, and the states they may find its record in.
Aftercare == {"protected", "boot", "close", "closing"}
AfterStates == {"protected", "closing", "exchange_closed_pending_pnl", "closed_final"}
\* The primitives before and after a recheck takes the fill over.
Looking == {"query", "cancel", "position"}

\* The record a handler works on is in a state that handler expects, although
\* it never looks again; what it has proved of the position still holds.
CallWork(c) ==
    /\ c.goal = "entry" => st[c.i] \in EntryReconcileStates
    /\ c.goal = "recheck" =>
         \/ c.op \in Looking /\ st[c.i] \in {"integrity_required", "closed_final"}
         \/ c.op \notin Looking /\ st[c.i] = "filled_unverified"
    /\ c.goal = "protfail" => st[c.i] \in {"integrity_required", "closed_final"}
    /\ c.goal \in Aftercare => st[c.i] \in AfterStates
    /\ c.goal = "close" => st[c.i] # "protected"
    /\ c.goal = "boot" => c.i \in boot
    /\ c.goal \in Aftercare /\ (c.op = "clean" \/ c.tag = "flat") => held[c.i] = 0
    /\ c.op = "verify" /\ c.tag = "complete" => algos[c.i] = "both" \/ held[c.i] = 0
    /\ c.op \in {"verify", "unguard", "secure"} => c.goal \in {"entry", "recheck", "boot"}
    /\ c.op = "clean" => c.goal \in Aftercare \cup {"protfail"}
    /\ c.op = "close" => c.goal = "close"
    /\ c.op = "submit" => c.goal = "entry"

\* The entry of an intent and its position are never worked on at once.
Apart(c, d) == ~(Owned(c) /\ d.goal \in Aftercare /\ c.i = d.i)

\* ProtectedHasGuard without the excuse of a handler at work.
Guarded(i) == st[i] = "protected" /\ held[i] # 0 /\ i \notin boot => algos[i] = "both"

WorkInv ==
    /\ \A a \in Loops : CallWork(call[a])
    /\ \A a, b \in Loops : Apart(call[a], call[b])
    /\ boot # {} => call["msg"] = Idle
    /\ \A i \in Intents : Guarded(i)

\* An idle loop works on nothing.
LEMMA IdleWork == CallWork(Idle)
  BY DEF CallWork, Idle, Aftercare

\* One loop moves on and one record changes; the exchange stands still.
LEMMA MoveKeepsWorkInv ==
  ASSUME CallType, WorkInv, NEW a \in Loops, NEW c, Goto(a, c), CallWork(c)',
         NEW i,
         \A j \in Intents \ {i} : st'[j] = st[j],
         UNCHANGED <<held, algos>>,
         \A b \in Loops \ {a} : Apart(c, call[b]) /\ Apart(call[b], c),
         \A b \in Loops \ {a} : \/ st'[i] = st[i]
                                \/ ~Busy(call[b]) \/ call[b].i # i
                                \/ /\ call[b].goal \in Aftercare
                                   /\ st'[i] \in {"closing", "exchange_closed_pending_pnl"},
         boot' = boot \/ (boot' = boot \ {i} /\ a = "tick"),
         a = "msg" => boot = {},
         i \in Intents => Guarded(i)'
  PROVE  WorkInv'
  <1>1. ASSUME NEW b \in Loops
        PROVE  CallWork(call[b])'
    <2>1. CASE b = a
      BY <2>1 DEF Goto, CallType
    <2>2. CASE b # a
      <3>1. call'[b] = call[b] /\ CallWork(call[b]) /\ CallFine(call[b])
        BY <2>2 DEF Goto, CallType, WorkInv
      <3>2. CASE ~Busy(call[b])
        BY <3>1, <3>2 DEF CallWork, CallFine, Busy, Aftercare
      <3>3. CASE Busy(call[b])
        <4>1. call[b].i \in Intents /\ (call[b].goal = "boot" => boot' = boot)
          BY <2>2, <3>1, <3>3 DEF CallFine, Loops, WorkInv, CallWork, Idle
        <4>2. CASE st'[call[b].i] = st[call[b].i]
          BY <3>1, <4>1, <4>2 DEF CallWork
        <4>3. CASE st'[call[b].i] # st[call[b].i]
          <5>1. /\ call[b].i = i /\ call[b].goal \in Aftercare
                /\ st'[i] \in {"closing", "exchange_closed_pending_pnl"}
            BY <2>2, <3>3, <4>1, <4>3
          <5> QED BY <3>1, <4>1, <5>1 DEF CallWork, Aftercare, AfterStates
        <4> QED BY <4>2, <4>3
      <3> QED BY <3>2, <3>3
    <2> QED BY <2>1, <2>2
  <1>2. ASSUME NEW b \in Loops, NEW d \in Loops
        PROVE  Apart(call[b], call[d])'
    BY DEF WorkInv, Goto, CallType, Apart, Owned, Aftercare
  <1>3. boot' # {} => call'["msg"] = Idle
    BY DEF WorkInv, Goto, CallType, Loops
  <1>4. ASSUME NEW j \in Intents
        PROVE  Guarded(j)'
    BY DEF WorkInv, Guarded
  <1> QED BY <1>1, <1>2, <1>3, <1>4 DEF WorkInv

\* Two handlers share a record only when both work on its position, and never
\* during recovery.
LEMMA SharedRecord ==
  ASSUME CallType, ClaimInv, WorkInv, NEW a \in Loops, Busy(call[a]),
         NEW b \in Loops \ {a}, Busy(call[b]), call[b].i = call[a].i
  PROVE  {call[a].goal, call[b].goal} \subseteq {"protected", "close", "closing"}
  <1>1. ~(Owned(call[a]) /\ Owned(call[b])) /\ Apart(call[a], call[b]) /\ Apart(call[b], call[a])
    BY DEF ClaimInv, ClaimExclusive, Owns, Owned, WorkInv
  <1>2. /\ Owned(call[b]) \/ call[b].goal \in Aftercare
        /\ Owned(call[a]) \/ call[a].goal \in Aftercare
    BY DEF CallType, CallFine, Calls, Busy, Owned, Aftercare, Goals
  <1>3. call[a].goal # "boot" /\ call[b].goal # "boot"
    BY DEF WorkInv, CallWork, Loops, Idle, Busy
  <1> QED BY <1>1, <1>2, <1>3 DEF Apart, Aftercare

\* Every handler works for an intent.
LEMMA HandlerBusy ==
  ASSUME NEW a \in Loops, Handler(a)
  PROVE  Busy(call[a]) /\ call[a].tag # "none"
  BY DEF Handler, Submitted, RemainderCanceled, Unverified, Unguarded, Protected, Secured,
         EntryMissing, EntryFound, EntryCanceled, RecheckQueried, RecheckCanceled,
         RecheckUnproven, RecheckUnfilled, RecheckFilled, SafeClosePending, SafeCloseFlat,
         SafeCloseConfirmed, StillOpen, RecoverOpen, Recovered, FoundFlat, ClosedFlat,
         SendClose, CloseAnswered, Raised, Resumes, Busy

\* A handler leaves its record in a state it, and the other loop, can work on.
LEMMA HandlerKeepsWorkInv ==
  ASSUME TypeInv, ClaimInv, WorkInv, NEW a \in Loops, Handler(a)
  PROVE  WorkInv' /\ \A j \in Intents \ {call[a].i} : st'[j] = st[j]
  <1>y. PICK c : c = call[a]
    OBVIOUS
  <1>w. PICK i : i = c.i
    OBVIOUS
  <1> USE <1>y, <1>w
  <1> DEFINE Elsewhere == \A j \in Intents \ {i} : st'[j] = st[j]
             Goal == WorkInv' /\ Elsewhere
  <1> USE DEF TypeInv
  <1>0. /\ c \in Calls /\ i \in Intents /\ CallWork(c) /\ Busy(c) /\ CallFine(c)
        /\ c.tag # "none" /\ Guarded(i) /\ UNCHANGED <<held, algos>>
        /\ st \in [Intents -> States]
    BY HandlerBusy, HandlerKeepsExchange DEF CallType, CallFine, WorkInv, RecordType, exch
  <1>b. /\ a = "msg" => boot = {}
        /\ boot # {} => a = "tick" /\ \A b \in Loops \ {a} : ~Busy(call[b])
    BY <1>0 DEF WorkInv, Busy, Idle, Loops
  \* Nobody else works on the record of an entry handler or during recovery.
  <1>x. ASSUME NEW b \in Loops \ {a}, Busy(call[b]), call[b].i = i
        PROVE  ~Owned(c) /\ c.goal # "boot" /\ call[b].goal \in Aftercare
    BY <1>0, <1>x, SharedRecord DEF Owned, Aftercare
  <1> DEFINE Follows(d) == /\ d.i = i /\ (Owned(d) => Owned(c))
                           /\ (d.goal \in Aftercare => c.goal \in Aftercare)
             Tame == \/ st'[i] = st[i] \/ Owned(c) \/ c.goal = "boot"
                     \/ st'[i] \in {"closing", "exchange_closed_pending_pnl"}
             KeepsBoot == boot' = boot \/ (boot' = boot \ {i} /\ c.goal = "boot")
  <1>m. ASSUME NEW d, Goto(a, d), CallWork(d)', d = Idle \/ Follows(d), Elsewhere, Tame,
               KeepsBoot, Guarded(i)'
        PROVE  Goal
    <2>1. ASSUME NEW b \in Loops \ {a}
          PROVE  Apart(d, call[b]) /\ Apart(call[b], d)
      BY <1>m DEF WorkInv, Apart, Idle, Owned, Aftercare
    <2>2. ASSUME NEW b \in Loops \ {a}
          PROVE  \/ st'[i] = st[i]
                 \/ ~Busy(call[b]) \/ call[b].i # i
                 \/ /\ call[b].goal \in Aftercare
                    /\ st'[i] \in {"closing", "exchange_closed_pending_pnl"}
      BY <1>m, <1>x
    <2>3. boot' = boot \/ (boot' = boot \ {i} /\ a = "tick")
      BY <1>0, <1>b, <1>m DEF CallWork
    <2> QED BY <1>0, <1>b, <1>m, <2>1, <2>2, <2>3, MoveKeepsWorkInv
  <1> SUFFICES Goal
    OBVIOUS
  <1> HIDE DEF Follows, Tame, KeepsBoot, Goal
  \* The handler goes on to its next primitive ...
  <1> DEFINE Onward(op) == [c EXCEPT !.op = op, !.tag = "none"]
  <1>o. ASSUME NEW op \in Ops \ {"submit"}, Goto(a, Onward(op)), UNCHANGED <<st, boot>>,
               c.goal = "recheck" => (op \in Looking <=> c.op \in Looking),
               op = "clean" => c.goal \in Aftercare \cup {"protfail"},
               op = "clean" /\ c.goal \in Aftercare => held[i] = 0,
               op \in {"verify", "unguard", "secure"} => c.goal \in {"entry", "recheck", "boot"},
               op = "close" => c.goal = "close"
        PROVE  Goal
    <2>1. LET d == Onward(op) IN
            d.goal = c.goal /\ d.op = op /\ d.tag = "none" /\ d.i = i
      BY <1>0 DEF Calls
    <2> DEFINE d == Onward(op)
    <2>2. CallWork(d)'
      BY <1>0, <1>o, <2>1 DEF CallWork
    <2>3. Follows(d)
      BY <2>1 DEF Follows, Owned
    <2>4. Elsewhere /\ Tame /\ KeepsBoot /\ Guarded(i)'
      BY <1>0, <1>o DEF Tame, KeepsBoot, Guarded
    <2> QED BY <1>m, <1>o, <2>2, <2>3, <2>4
  <1> HIDE DEF Onward
  \* ... or it ends.
  <1>i. ASSUME Goto(a, Idle), Elsewhere, Tame, KeepsBoot, Guarded(i)'
        PROVE  Goal
    <2>1. CallWork(Idle)'
      BY DEF CallWork, Idle, Aftercare
    <2> QED BY <1>i, <1>m, <2>1
  <1>u. ASSUME Goto(a, Idle), UNCHANGED <<st, boot>>
        PROVE  Goal
    BY <1>0, <1>i, <1>u DEF Tame, KeepsBoot, Guarded
  \* An entry handler that ends may leave any state but "protected".
  <1>e. ASSUME Goto(a, Idle), Owned(c), NEW s, s # "protected", SetState(i, s), boot' = boot
        PROVE  Goal
    <2>1. Elsewhere /\ st'[i] = s
      BY <1>0, <1>e DEF SetState
    <2> QED BY <1>i, <1>e, <2>1 DEF Tame, KeepsBoot, Guarded
  <1>s. ASSUME NEW goal \in {"entry", "recheck"}, NEW qty, NEW rem, boot' = boot,
               BeginSettle(a, goal, i, qty, rem), Owned(c)
        PROVE  Goal
    <2> DEFINE d == Await(goal, IF rem THEN "rest" ELSE "verify", i, qty, rem)
    <2>1. Elsewhere /\ st'[i] = "filled_unverified" /\ Goto(a, d)
      BY <1>0, <1>s DEF BeginSettle, SetState
    <2>2. CallWork(d)'
      BY <2>1 DEF CallWork, Await, Aftercare, Looking, EntryReconcileStates
    <2>3. Follows(d) /\ Tame /\ KeepsBoot /\ Guarded(i)'
      BY <1>s, <2>1 DEF Follows, Tame, KeepsBoot, Guarded, Await, Aftercare
    <2> QED BY <1>m, <2>1, <2>2, <2>3
  <1>c. ASSUME BeginCancel(a, i), Owned(c), boot' = boot
        PROVE  Goal
    <2> DEFINE d == Await("entry", "cancel", i, 0, FALSE)
    <2>1. Elsewhere /\ st'[i] = "canceling_entry" /\ Goto(a, d)
      BY <1>0, <1>c DEF BeginCancel, SetState
    <2>2. CallWork(d)'
      BY <2>1 DEF CallWork, Await, Aftercare, EntryReconcileStates
    <2>3. Follows(d) /\ Tame /\ KeepsBoot /\ Guarded(i)'
      BY <1>c, <2>1 DEF Follows, Tame, KeepsBoot, Guarded, Await, Aftercare
    <2> QED BY <1>m, <2>1, <2>2, <2>3
  <1>f. ASSUME FailClosed(a), c.op \in {"rest", "verify"}, boot' = boot,
               c.goal \in {"entry", "recheck", "boot"}
        PROVE  Goal
    <2>d. PICK d : d = [c EXCEPT !.op = "unguard", !.tag = "none", !.old = FALSE]
      OBVIOUS
    <2>1. d.goal = c.goal /\ d.op = "unguard" /\ d.i = i /\ d.tag = "none"
      BY <1>0, <2>d DEF Calls
    <2>2. Goto(a, d) /\ UNCHANGED st
      BY <1>f, <2>d DEF FailClosed, record
    <2>3. CallWork(d)'
      BY <1>0, <1>f, <2>1, <2>2 DEF CallWork, Looking
    <2>4. Follows(d) /\ Tame /\ KeepsBoot /\ Guarded(i)' /\ Elsewhere
      BY <1>0, <1>f, <2>1, <2>2 DEF Follows, Tame, KeepsBoot, Guarded, Owned
    <2> QED BY <1>m, <2>2, <2>3, <2>4
  <1>k. ASSUME BeginClose(a, i), c.goal \in Aftercare, boot' = boot
        PROVE  Goal
    <2>1. CASE Goto(a, Idle) /\ UNCHANGED st
      BY <1>k, <1>u, <2>1
    <2>2. CASE /\ Goto(a, Await("close", "position", i, memo[i].qty, FALSE))
               /\ SetState(i, "closing")
      <3> PICK d : d = Await("close", "position", i, memo[i].qty, FALSE)
        OBVIOUS
      <3>1. Elsewhere /\ st'[i] = "closing"
        BY <1>0, <2>2 DEF SetState
      <3>2. CallWork(d)'
        BY <3>1 DEF CallWork, Await, AfterStates
      <3>3. Follows(d) /\ Tame /\ KeepsBoot /\ Guarded(i)'
        BY <1>k, <3>1 DEF Follows, Tame, KeepsBoot, Guarded, Await, Owned
      <3> QED BY <1>m, <2>2, <3>1, <3>2, <3>3
    <2> QED BY <1>k, <2>1, <2>2 DEF BeginClose
  <1>z. ASSUME MarkExchangeClosed(i), Goto(a, Idle), KeepsBoot
        PROVE  Goal
    <2>1. Elsewhere /\ st'[i] = "exchange_closed_pending_pnl"
      BY <1>0, <1>z DEF MarkExchangeClosed, SetState
    <2> QED BY <1>i, <1>z, <2>1 DEF Tame, Guarded
  <1>p. Owned(c) <=> c.goal \in {"entry", "recheck", "protfail"}
    BY DEF Owned
  <1>n. {"cancel", "position", "clean", "close", "verify", "secure"} \subseteq Ops
    BY DEF Ops
  <1> USE DEF Resumes, record, host, Release, Done, KeepNotes, RequireIntegrity, Terminalize
  <1>1. CASE Submitted(a)
    BY <1>1, <1>p, <1>e, <1>c DEF Submitted
  <1>2. CASE RemainderCanceled(a)
    <2>1. CASE FailClosed(a)
      BY <1>2, <1>f, <2>1 DEF RemainderCanceled
    <2>2. CASE Goto(a, Onward("verify")) /\ UNCHANGED record
      BY <1>2, <1>o, <1>n, <2>2 DEF RemainderCanceled, Looking
    <2> QED BY <1>2, <2>1, <2>2 DEF RemainderCanceled, Onward
  <1>3. CASE Unverified(a)
    BY <1>3, <1>f, <1>u DEF Unverified
  <1>4. CASE Unguarded(a)
    <2>1. Goto(a, Onward("secure")) /\ UNCHANGED record /\ boot' = boot
      BY <1>4 DEF Unguarded, Onward
    <2> QED BY <1>4, <1>o, <1>n, <2>1 DEF Unguarded, Looking
  <1>5. CASE Protected(a)
    <2>1. Elsewhere /\ st'[i] = "protected" /\ Goto(a, Idle) /\ boot' = boot /\ Owned(c)
      BY <1>0, <1>5, <1>p DEF Protected, SetState
    <2>2. algos[i] = "both" \/ held[i] = 0
      BY <1>0, <1>5 DEF Protected, CallWork
    <2> QED BY <1>0, <1>i, <2>1, <2>2 DEF Tame, KeepsBoot, Guarded
  <1>6. CASE Secured(a)
    <2>1. CASE c.goal = "boot"
      <3>1. /\ SetState(i, "integrity_required") /\ Goto(a, Idle) /\ boot' = boot \ {i}
        BY <1>6, <2>1 DEF Secured
      <3>2. Elsewhere /\ st'[i] = "integrity_required"
        BY <1>0, <3>1 DEF SetState
      <3> QED BY <1>i, <2>1, <3>1, <3>2 DEF Tame, KeepsBoot, Guarded
    <2>2. CASE c.goal # "boot"
      BY <1>6, <1>p, <1>e, <2>2 DEF Secured
    <2> QED BY <2>1, <2>2
  <1>7. CASE EntryMissing(a)
    BY <1>7, <1>p, <1>e DEF EntryMissing
  <1>8. CASE EntryFound(a)
    BY <1>8, <1>p, <1>e, <1>s, <1>c DEF EntryFound
  <1>9. CASE EntryCanceled(a)
    BY <1>9, <1>p, <1>e, <1>s DEF EntryCanceled
  <1>10. CASE RecheckQueried(a)
    <2>1. CASE RequireIntegrity(i, "entry_reconciliation_unknown") /\ Release(a)
      BY <1>10, <1>p, <1>e, <2>1 DEF RecheckQueried
    <2>2. CASE Goto(a, Onward("cancel")) /\ UNCHANGED record
      BY <1>10, <1>o, <1>n, <2>2 DEF RecheckQueried, Looking
    <2>3. CASE Goto(a, Onward("position")) /\ UNCHANGED record
      BY <1>10, <1>o, <1>n, <2>3 DEF RecheckQueried, Looking
    <2> QED BY <1>10, <2>1, <2>2, <2>3 DEF RecheckQueried, Onward
  <1>11. CASE RecheckCanceled(a)
    <2>1. CASE RequireIntegrity(i, "entry_reconciliation_unknown") /\ Release(a)
      BY <1>11, <1>p, <1>e, <2>1 DEF RecheckCanceled
    <2>2. CASE Goto(a, Onward("position")) /\ UNCHANGED record
      BY <1>11, <1>o, <1>n, <2>2 DEF RecheckCanceled, Looking
    <2> QED BY <1>11, <2>1, <2>2 DEF RecheckCanceled, Onward
  <1>12. CASE RecheckUnproven(a)
    BY <1>12, <1>p, <1>e DEF RecheckUnproven
  <1>13. CASE RecheckUnfilled(a)
    BY <1>13, <1>p, <1>e DEF RecheckUnfilled
  <1>14. CASE RecheckFilled(a)
    BY <1>14, <1>p, <1>e, <1>s DEF RecheckFilled
  <1>15. CASE SafeClosePending(a)
    BY <1>15, <1>p, <1>e DEF SafeClosePending
  <1>16. CASE SafeCloseFlat(a)
    <2>1. Goto(a, Onward("clean")) /\ UNCHANGED record /\ boot' = boot
      BY <1>16 DEF SafeCloseFlat, Onward
    <2> QED BY <1>16, <1>o, <1>n, <2>1 DEF SafeCloseFlat, Aftercare
  <1>17. CASE SafeCloseConfirmed(a)
    BY <1>17, <1>p, <1>e, <1>u DEF SafeCloseConfirmed
  <1>18. CASE StillOpen(a)
    BY <1>18, <1>u, <1>k DEF StillOpen, Aftercare
  <1>19. CASE RecoverOpen(a)
    <2>1. CASE Goto(a, Onward("verify")) /\ UNCHANGED record /\ boot' = boot
      BY <1>19, <1>o, <1>n, <2>1 DEF RecoverOpen
    <2>2. CASE /\ RequireIntegrity(i, "protected_position_mismatch") /\ Done(a)
               /\ boot' = boot \ {i}
      <3>1. Elsewhere /\ st'[i] = "integrity_required" /\ c.goal = "boot"
        BY <1>0, <1>19, <2>2 DEF RecoverOpen, SetState
      <3> QED BY <1>i, <2>2, <3>1 DEF Tame, KeepsBoot, Guarded
    <2> QED BY <1>19, <2>1, <2>2 DEF RecoverOpen, Onward
  <1>20. CASE Recovered(a)
    <2>1. /\ Goto(a, Idle) /\ UNCHANGED st /\ c.goal = "boot"
          /\ boot' \in {boot, boot \ {i}}
      BY <1>20 DEF Recovered
    <2>2. algos[i] = "both" \/ held[i] = 0
      BY <1>0, <1>20 DEF Recovered, CallWork
    <2> QED BY <1>0, <1>i, <2>1, <2>2 DEF Tame, KeepsBoot, Guarded
  <1>21. CASE FoundFlat(a)
    <2>1. Goto(a, Onward("clean")) /\ UNCHANGED record /\ boot' = boot
      BY <1>21 DEF FoundFlat, Onward
    <2>2. c.goal \in Aftercare /\ held[i] = 0
      BY <1>0, <1>21 DEF FoundFlat, Aftercare, CallWork
    <2> QED BY <1>21, <1>o, <1>n, <2>1, <2>2 DEF FoundFlat, Aftercare
  <1>22. CASE ClosedFlat(a)
    <2>1. KeepsBoot /\ Goto(a, Idle)
      BY <1>22 DEF ClosedFlat, KeepsBoot
    <2>2. CASE UNCHANGED record
      <3>1. held[i] = 0
        BY <1>0, <1>22 DEF ClosedFlat, Aftercare, CallWork
      <3> QED BY <1>0, <1>i, <2>1, <2>2, <3>1 DEF Tame, Guarded
    <2>3. CASE MarkExchangeClosed(i)
      BY <1>z, <2>1, <2>3
    <2> QED BY <1>22, <2>2, <2>3 DEF ClosedFlat
  <1>23. CASE SendClose(a)
    <2>1. Goto(a, Onward("close")) /\ UNCHANGED record /\ boot' = boot
      BY <1>23 DEF SendClose, Onward
    <2> QED BY <1>23, <1>o, <1>n, <2>1 DEF SendClose
  <1>24. CASE CloseAnswered(a)
    <2>1. CASE MarkExchangeClosed(i)
      BY <1>24, <1>z, <2>1 DEF CloseAnswered, KeepsBoot
    <2>2. CASE SetState(i, "closing")
      <3>1. Elsewhere /\ st'[i] = "closing"
        BY <1>0, <2>2 DEF SetState
      <3> QED BY <1>24, <1>i, <3>1 DEF CloseAnswered, Tame, KeepsBoot, Guarded
    <2> QED BY <1>24, <2>1, <2>2 DEF CloseAnswered
  <1>25. CASE Raised(a)
    BY <1>25, <1>u DEF Raised
  <1> QED
    BY <1>1, <1>2, <1>3, <1>4, <1>5, <1>6, <1>7, <1>8, <1>9, <1>10, <1>11, <1>12, <1>13,
       <1>14, <1>15, <1>16, <1>17, <1>18, <1>19, <1>20, <1>21, <1>22, <1>23, <1>24,
       <1>25 DEF Handler

\* What the primitive of call c does when it leaves answer d.
Performs(c, d) ==
    \/ d.op = "submit" /\ SubmitEntry(d.i, d.tag) /\ d.qty = c.qty
    \/ d.op = "query" /\ QueryEntry(d.i, d.tag) /\ d.qty = filled[d.i]
    \/ d.op = "cancel" /\ CancelEntry(d.i, d.tag) /\ d.qty = filled[d.i]
    \/ d.op = "rest" /\ CancelEntry(d.i, d.tag) /\ d.qty \in {c.qty, filled[d.i]}
                     /\ d.qty >= c.qty
    \/ d.op = "verify" /\ VerifyProtection(d.i, d.tag) /\ d.qty = c.qty
    \/ d.op = "position" /\ FetchPosition(d.i, c.qty, d.tag) /\ d.qty = c.qty
    \/ d.op \in {"clean", "unguard"} /\ CancelProtection(d.i, d.tag) /\ d.qty = c.qty
    \/ d.op \in {"secure", "close"} /\ ClosePosition(d.i, c.qty, d.tag) /\ d.qty = c.qty

\* The worker thread answers the call that awaits it.
LEMMA PrimitiveAnswers ==
  ASSUME TypeInv, NEW a \in Loops, Exchange(a)
  PROVE  /\ call[a].tag = "none" /\ Busy(call[a]) /\ call[a].i \in Intents
         /\ \E d : /\ Goto(a, d) /\ d.tag \in Tags \ {"none"} /\ Performs(call[a], d)
                   /\ d.goal = call[a].goal /\ d.op = call[a].op /\ d.i = call[a].i
                   /\ d.op \notin {"query", "cancel"} => d.rem = call[a].rem
  <1>y. PICK c : c = call[a]
    OBVIOUS
  <1>w. PICK i : i = c.i
    OBVIOUS
  <1> USE <1>y, <1>w
  <1>0. /\ c \in Calls /\ c.tag = "none" /\ Busy(c) /\ i \in Intents
        /\ c.qty \in 0..Lots /\ filled[i] \in 0..Lots
    BY DEF Exchange, TypeInv, CallType, CallFine, Busy, Calls, ExchType, ExchangeTypeOK
  <1> DEFINE Good(d) ==
        /\ Goto(a, d) /\ d.tag \in Tags \ {"none"} /\ Performs(c, d)
        /\ d.goal = c.goal /\ d.op = c.op /\ d.i = i
        /\ d.op \notin {"query", "cancel"} => d.rem = c.rem
  <1> SUFFICES \E d : Good(d)
    BY <1>0
  <1>1. ASSUME NEW tag \in Tags \ {"none"}, Answer(a, tag),
               \/ c.op = "submit" /\ SubmitEntry(i, tag)
               \/ c.op = "verify" /\ VerifyProtection(i, tag)
               \/ c.op = "position" /\ FetchPosition(i, c.qty, tag)
               \/ c.op \in {"clean", "unguard"} /\ CancelProtection(i, tag)
               \/ c.op \in {"secure", "close"} /\ ClosePosition(i, c.qty, tag)
        PROVE  \E d : Good(d)
    <2>d. PICK d : d = [c EXCEPT !.tag = tag]
      OBVIOUS
    <2>1. /\ d.goal = c.goal /\ d.op = c.op /\ d.i = i /\ d.qty = c.qty /\ d.rem = c.rem
          /\ d.tag = tag
      BY <1>0, <2>d DEF Calls
    <2>2. Goto(a, d)
      BY <1>1, <2>d DEF Answer
    <2>3. Performs(c, d)
      BY <1>1, <2>1 DEF Performs
    <2> QED BY <2>1, <2>2, <2>3
  <1>2. ASSUME NEW tag \in Tags \ {"none"}, NEW r,
               Goto(a, [c EXCEPT !.tag = tag, !.qty = filled[i], !.rem = r]),
               \/ c.op = "query" /\ QueryEntry(i, tag)
               \/ c.op = "cancel" /\ CancelEntry(i, tag)
        PROVE  \E d : Good(d)
    <2>d. PICK d : d = [c EXCEPT !.tag = tag, !.qty = filled[i], !.rem = r]
      OBVIOUS
    <2>1. /\ d.goal = c.goal /\ d.op = c.op /\ d.i = i /\ d.qty = filled[i]
          /\ d.tag = tag
      BY <1>0, <2>d DEF Calls
    <2>2. Goto(a, d)
      BY <1>2, <2>d
    <2>3. Performs(c, d)
      BY <1>2, <2>1 DEF Performs
    <2> QED BY <1>2, <2>1, <2>2, <2>3
  <1>3. ASSUME NEW tag \in Tags \ {"none"}, c.op = "rest", CancelEntry(i, tag),
               NEW q, q \in {c.qty, filled[i]}, q >= c.qty,
               Goto(a, [c EXCEPT !.tag = tag, !.qty = q])
        PROVE  \E d : Good(d)
    <2>d. PICK d : d = [c EXCEPT !.tag = tag, !.qty = q]
      OBVIOUS
    <2>1. /\ d.goal = c.goal /\ d.op = c.op /\ d.i = i /\ d.qty = q /\ d.rem = c.rem
          /\ d.tag = tag
      BY <1>0, <2>d DEF Calls
    <2>2. Goto(a, d)
      BY <1>3, <2>d
    <2>3. Performs(c, d)
      BY <1>3, <2>1 DEF Performs
    <2> QED BY <2>1, <2>2, <2>3
  <1> HIDE DEF Good
  <1>4. PICK tag \in Tags \ {"none"} :
         \/ c.op = "submit" /\ SubmitEntry(i, tag) /\ Answer(a, tag)
         \/ /\ c.op = "query" /\ QueryEntry(i, tag)
            /\ Goto(a, [c EXCEPT !.tag = tag, !.qty = filled[i],
                                 !.rem = (order[i] = "open")])
         \/ /\ c.op = "cancel" /\ CancelEntry(i, tag)
            /\ Goto(a, [c EXCEPT !.tag = tag, !.qty = filled[i],
                                 !.rem = (tag # "proven")])
         \/ /\ c.op = "rest" /\ CancelEntry(i, tag)
            /\ Goto(a, [c EXCEPT !.tag = tag,
                                 !.qty = IF tag = "proven" /\ filled[i] > @
                                         THEN filled[i] ELSE @])
         \/ c.op = "verify" /\ VerifyProtection(i, tag) /\ Answer(a, tag)
         \/ c.op = "position" /\ FetchPosition(i, c.qty, tag) /\ Answer(a, tag)
         \/ c.op \in {"clean", "unguard"} /\ CancelProtection(i, tag)
            /\ Answer(a, tag)
         \/ c.op \in {"secure", "close"} /\ ClosePosition(i, c.qty, tag)
            /\ Answer(a, tag)
    BY DEF Exchange
  <1>5. CASE /\ c.op = "query" /\ QueryEntry(i, tag)
             /\ Goto(a, [c EXCEPT !.tag = tag, !.qty = filled[i], !.rem = (order[i] = "open")])
    BY <1>2, <1>5
  <1>6. CASE /\ c.op = "cancel" /\ CancelEntry(i, tag)
             /\ Goto(a, [c EXCEPT !.tag = tag, !.qty = filled[i], !.rem = (tag # "proven")])
    BY <1>2, <1>6
  <1>7. CASE /\ c.op = "rest" /\ CancelEntry(i, tag)
             /\ Goto(a, [c EXCEPT !.tag = tag, !.qty = IF tag = "proven" /\ filled[i] > @
                                                       THEN filled[i] ELSE @])
    <2>q. PICK q : q = IF tag = "proven" /\ filled[i] > c.qty THEN filled[i] ELSE c.qty
      OBVIOUS
    <2>1. q \in {c.qty, filled[i]} /\ q >= c.qty
      BY <1>0, <2>q, LotsAssumption
    <2>2. Goto(a, [c EXCEPT !.tag = tag, !.qty = q])
      BY <1>7, <2>q
    <2> QED BY <1>3, <1>7, <2>1, <2>2
  <1> QED BY <1>1, <1>4, <1>5, <1>6, <1>7

\* A primitive takes nothing a handler relies on: only the handler that owns
\* the record touches its algos.
LEMMA PrimitiveKeepsWorkInv ==
  ASSUME TypeInv, ClaimInv, WorkInv, NEW a \in Loops, Exchange(a)
  PROVE  WorkInv'
  <1>y. PICK c : c = call[a]
    OBVIOUS
  <1>w. PICK i : i = c.i
    OBVIOUS
  <1> USE <1>y, <1>w DEF TypeInv, ExchType, ExchangeTypeOK
  <1>1. c.tag = "none" /\ Busy(c) /\ i \in Intents /\ c \in Calls /\ CallWork(c)
    BY PrimitiveAnswers DEF WorkInv, CallType
  <1>2. PICK d : /\ Goto(a, d) /\ d.tag \in Tags \ {"none"} /\ Performs(c, d)
                 /\ d.goal = c.goal /\ d.op = c.op /\ d.i = i
    BY PrimitiveAnswers
  <1>3. UNCHANGED <<st, boot>>
    BY DEF Exchange, record
  \* What a primitive does to the position and its algos.
  <1>4. /\ \A j \in Intents \ {i} : held'[j] = held[j] /\ algos'[j] = algos[j]
        /\ held[i] = 0 => held'[i] = 0
        /\ d.op \notin {"clean", "unguard", "secure", "close"} => UNCHANGED <<held, algos>>
        /\ d.tag = "flat" => held'[i] = 0
        /\ d.op = "verify" /\ d.tag = "complete" => algos'[i] = "both"
    <2>1. CASE d.op \in {"secure", "close"}
      <3>1. ClosePosition(i, c.qty, d.tag)
        BY <1>2, <2>1 DEF Performs
      <3>2. held[i] \in Nat /\ c.qty \in Nat
        BY <1>1, LotsAssumption DEF Calls
      <3>3. PICK h : h = IF held[i] > c.qty THEN held[i] - c.qty ELSE 0
        OBVIOUS
      <3>4. /\ held' = held \/ held' = [held EXCEPT ![i] = h]
            /\ algos' = algos \/ algos' = [algos EXCEPT ![i] = "none"]
            /\ d.tag = "flat" => held[i] = 0 /\ held' = held
        BY <3>1, <3>3 DEF ClosePosition
      <3> QED BY <1>1, <2>1, <3>2, <3>3, <3>4
    <2>2. CASE d.op \notin {"secure", "close"}
      BY <1>1, <1>2, <2>2 DEF Performs, SubmitEntry, QueryEntry, CancelEntry,
             VerifyProtection, FetchPosition, CancelProtection
    <2> QED BY <2>1, <2>2
  \* Another loop that works on the same record is a handler of the position.
  <1>5. ASSUME NEW b \in Loops \ {a}, Busy(call[b]), call[b].i = i
        PROVE  call[b].goal \in {"protected", "close", "closing"}
    BY <1>1, <1>5, SharedRecord
  <1>6. ASSUME NEW b \in Loops
        PROVE  CallWork(call[b])'
    <2>1. CASE b = a
      <3>1. call'[b] = d
        BY <1>2, <2>1 DEF Goto, CallType
      <3>2. CallWork(d)'
        BY <1>1, <1>2, <1>3, <1>4 DEF CallWork
      <3> QED BY <3>1, <3>2
    <2>2. CASE b # a
      <3>1. call'[b] = call[b] /\ CallWork(call[b]) /\ CallFine(call[b])
        BY <1>2, <2>2 DEF Goto, CallType, WorkInv
      <3>2. CASE ~Busy(call[b])
        BY <3>1, <3>2 DEF CallWork, CallFine, Busy, Aftercare
      <3>3. CASE Busy(call[b])
        <4>1. call[b].i \in Intents
          BY <3>1, <3>3 DEF CallFine
        <4>2. /\ held[call[b].i] = 0 => held'[call[b].i] = 0
              /\ call[b].i # i => algos'[call[b].i] = algos[call[b].i]
          BY <1>4, <4>1
        <4>3. call[b].i = i => call[b].op # "verify"
          BY <1>5, <2>2, <3>1, <3>3 DEF CallWork
        <4> QED BY <1>3, <3>1, <4>2, <4>3 DEF CallWork
      <3> QED BY <3>2, <3>3
    <2> QED BY <2>1, <2>2
  <1>7. ASSUME NEW b \in Loops, NEW e \in Loops
        PROVE  Apart(call[b], call[e])'
    BY <1>2 DEF WorkInv, Goto, CallType, Apart, Owned, Aftercare
  <1>8. boot' # {} => call'["msg"] = Idle
    <2>1. CASE a = "msg"
      BY <1>1, <1>3, <2>1 DEF WorkInv, Idle, Busy
    <2>2. CASE a = "tick"
      BY <1>2, <1>3, <2>2 DEF WorkInv, Goto, CallType, Loops
    <2> QED BY <2>1, <2>2 DEF Loops
  <1>9. ASSUME NEW j \in Intents
        PROVE  Guarded(j)'
    <2>1. Guarded(j)
      BY DEF WorkInv
    <2>2. CASE j # i \/ UNCHANGED <<held, algos>> \/ st[i] # "protected" \/ held[i] = 0
      BY <1>3, <1>4, <2>1, <2>2 DEF Guarded
    <2>3. CASE i \in boot
      BY <1>3, <1>4, <2>1, <2>3 DEF Guarded
    <2> QED BY <1>1, <1>2, <1>4, <2>2, <2>3 DEF CallWork, EntryReconcileStates, Aftercare
  <1> QED BY <1>6, <1>7, <1>8, <1>9 DEF WorkInv

\* No handler works on a record before its entry, or on one whose claim is
\* free, unless its position is open or was.
LEMMA NobodyWorks ==
  ASSUME CallType, ClaimInv, WorkInv, NEW i \in Intents, NEW b \in Loops, Busy(call[b]),
         call[b].i = i
  PROVE  /\ st[i] \notin {"none", "ready_for_quote"}
         /\ call[b].goal \in Aftercare => st[i] \in AfterStates
         /\ call[b].goal \notin Aftercare =>
              Owned(call[b]) /\ i \in io /\ st[i] \notin {"protected", "closing"}
  <1>1. Owned(call[b]) \/ call[b].goal \in Aftercare
    BY DEF CallType, CallFine, Calls, Busy, Owned, Aftercare, Goals
  <1>2. CallWork(call[b]) /\ (Owned(call[b]) => i \in io)
    BY DEF WorkInv, ClaimInv
  <1> QED BY <1>1, <1>2 DEF CallWork, Owned, Aftercare, AfterStates, EntryReconcileStates

\* A free loop takes up an intent nobody else can be working on.
LEMMA StartKeepsWorkInv ==
  ASSUME CallType, ClaimInv, WorkInv, NEW a \in Loops, NEW c, Goto(a, c), CallWork(c)',
         NEW i \in Intents, boot' = boot, UNCHANGED <<held, algos>>, a = "msg" => boot = {},
         \A j \in Intents \ {i} : st'[j] = st[j],
         \/ c = Idle
         \/ c.i = i /\ Owned(c) /\ st[i] \notin AfterStates
         \/ c.i = i /\ c.goal \in Aftercare /\ st[i] \in {"protected", "closing"},
         \/ st'[i] = st[i]
         \/ st[i] \notin AfterStates /\ (i \notin io \/ st[i] \in {"none", "ready_for_quote"})
         \/ st[i] \in {"protected", "closing"} /\ st'[i] = "closing",
         st'[i] = "protected" => st[i] = "protected"
  PROVE  WorkInv'
  <1>1. ASSUME NEW b \in Loops \ {a}
        PROVE  Apart(c, call[b]) /\ Apart(call[b], c)
    <2>1. Owned(call[b]) \/ call[b].goal \in Aftercare => Busy(call[b])
      BY DEF CallType, CallFine, Busy, Owned, Aftercare
    <2>2. Owned(c) => c.goal \notin Aftercare
      BY DEF Owned, Aftercare
    <2>3. Owned(call[b]) => call[b].goal \notin Aftercare
      BY DEF Owned, Aftercare
    <2>4. ~Owned(Idle) /\ Idle.goal \notin Aftercare
      BY DEF Owned, Aftercare, Idle
    <2> QED BY <2>1, <2>2, <2>3, <2>4, NobodyWorks DEF Apart
  <1>2. ASSUME NEW b \in Loops \ {a}
        PROVE  \/ st'[i] = st[i]
               \/ ~Busy(call[b]) \/ call[b].i # i
               \/ /\ call[b].goal \in Aftercare
                  /\ st'[i] \in {"closing", "exchange_closed_pending_pnl"}
    BY NobodyWorks
  <1>3. Guarded(i)'
    BY DEF WorkInv, Guarded
  <1> QED BY <1>1, <1>2, <1>3, MoveKeepsWorkInv

\* A cancel request claims an entry nobody works on, or leaves a note.
LEMMA CancelRequestKeepsWorkInv ==
  ASSUME TypeInv, ClaimInv, WorkInv, NEW a \in Loops, NEW i \in Intents, RequestCancel(a, i)
  PROVE  WorkInv'
  <1> USE DEF TypeInv
  <1>0. /\ UNCHANGED <<held, algos, boot>> /\ boot = {} /\ st[i] \notin AfterStates
        /\ call[a] = Idle /\ call \in [Loops -> Calls] /\ st \in [Intents -> States]
    BY DEF RequestCancel, exch, Free, EntryReconcileStates, AfterStates, CallType, RecordType
  <1>1. CASE /\ Claim(i) /\ SetState(i, "canceling_entry")
             /\ Goto(a, Await("entry", "cancel", i, 0, FALSE))
    <2>1. st'[i] = "canceling_entry" /\ \A j \in Intents \ {i} : st'[j] = st[j]
      BY <1>0, <1>1 DEF SetState
    <2>2. CallWork(Await("entry", "cancel", i, 0, FALSE))'
      BY <2>1 DEF CallWork, Await, Aftercare, EntryReconcileStates
    <2>3. LET c == Await("entry", "cancel", i, 0, FALSE) IN c.i = i /\ Owned(c)
      BY DEF Await, Owned
    <2>4. i \notin io
      BY <1>1 DEF Claim
    <2> QED BY <1>0, <1>1, <2>1, <2>2, <2>3, <2>4, StartKeepsWorkInv
  <1>2. CASE UNCHANGED <<st, io, call>>
    <2>1. Goto(a, Idle) /\ CallWork(Idle)'
      BY <1>0, <1>2 DEF Goto, CallWork, Idle, Aftercare
    <2> QED BY <1>0, <1>2, <2>1, StartKeepsWorkInv
  <1> QED BY <1>1, <1>2 DEF RequestCancel

\* Messages begin only what the record allows.
LEMMA MessageKeepsWorkInv ==
  ASSUME TypeInv, ClaimInv, WorkInv, NEW i \in Intents, Message(i)
  PROVE  WorkInv'
  <1> USE DEF TypeInv
  <1>0. /\ "msg" \in Loops /\ "tick" \in Loops /\ call \in [Loops -> Calls]
        /\ st \in [Intents -> States]
        /\ UNCHANGED <<held, algos, boot>> /\ boot = {} /\ call["msg"] = Idle
    BY DEF Message, Admit, DropReady, StartEntry, RequestCancel, CloseForSafety, exch, Loops,
           CallType, RecordType, Free
  <1>i. CallWork(Idle)'
    BY DEF CallWork, Idle, Aftercare
  <1>1. CASE Admit(i)
    <2>d. PICK d : d = [call["tick"] EXCEPT !.old = @ \/ call["tick"].op \in {"rest", "verify"}]
      OBVIOUS
    <2>c. PICK c : c = call["tick"]
      OBVIOUS
    <2>1. /\ d.goal = c.goal /\ d.op = c.op /\ d.tag = c.tag /\ d.i = c.i
          /\ CallFine(c) /\ CallWork(c)
      BY <1>0, <2>c, <2>d DEF CallType, CallFine, Calls, WorkInv
    <2>2. Goto("tick", d) /\ \A b \in Loops \ {"tick"} : call[b] = Idle
      BY <1>0, <1>1, <2>d DEF Admit, Reload, Goto, Loops
    <2>3. /\ st[i] = "none" /\ st'[i] = "ready_for_quote"
          /\ \A j \in Intents \ {i} : st'[j] = st[j]
      BY <1>0, <1>1 DEF Admit, SetState, Eligible
    <2>4. Busy(c) => c.i \in Intents /\ c.i # i
      BY <1>0, <2>c, <2>1, <2>3, NobodyWorks DEF CallFine
    <2>5. CallWork(d)'
      BY <1>0, <2>1, <2>3, <2>4 DEF CallWork, CallFine, Busy, Aftercare
    <2>6. ~Busy(Idle) /\ ~Owned(Idle) /\ Idle.goal \notin Aftercare
      BY DEF Busy, Idle, Owned, Aftercare
    <2>7. \A b \in Loops \ {"tick"} : Apart(d, call[b]) /\ Apart(call[b], d)
      BY <2>2, <2>6 DEF Apart
    <2>8. Guarded(i)'
      BY <2>3 DEF Guarded
    <2> QED BY <1>0, <2>2, <2>3, <2>5, <2>6, <2>7, <2>8, MoveKeepsWorkInv
  <1>2. CASE DropReady(i)
    <2>1. /\ st[i] = "ready_for_quote" /\ st'[i] = "entry_terminal"
          /\ \A j \in Intents \ {i} : st'[j] = st[j]
      BY <1>0, <1>2 DEF DropReady, Terminalize, SetState
    <2>2. Goto("msg", Idle)
      BY <1>0, <1>2 DEF DropReady, Goto
    <2> QED BY <1>0, <1>i, <2>1, <2>2, StartKeepsWorkInv DEF AfterStates
  <1>3. CASE StartEntry(i)
    <2>c. PICK c : c = Await("entry", "submit", i, 0, FALSE)
      OBVIOUS
    <2>1. /\ st[i] = "ready_for_quote" /\ st'[i] = "submitting_entry"
          /\ \A j \in Intents \ {i} : st'[j] = st[j]
      BY <1>0, <1>3 DEF StartEntry, SetState
    <2>2. Goto("msg", c) /\ CallWork(c)' /\ c.i = i /\ Owned(c)
      BY <1>3, <2>c, <2>1 DEF StartEntry, CallWork, Await, Aftercare, EntryReconcileStates,
             Owned
    <2> QED BY <1>0, <2>1, <2>2, StartKeepsWorkInv DEF AfterStates
  <1>4. CASE RequestCancel("msg", i)
    BY <1>0, <1>4, CancelRequestKeepsWorkInv
  <1>5. CASE CloseForSafety(i)
    <2>1. CASE Goto("msg", Idle) /\ UNCHANGED st
      BY <1>0, <1>i, <2>1, StartKeepsWorkInv
    <2>2. CASE /\ Goto("msg", Await("close", "position", i, memo[i].qty, FALSE))
               /\ SetState(i, "closing")
      <3>c. PICK c : c = Await("close", "position", i, memo[i].qty, FALSE)
        OBVIOUS
      <3>1. /\ st[i] \in {"protected", "closing"} /\ st'[i] = "closing"
            /\ \A j \in Intents \ {i} : st'[j] = st[j]
        BY <1>0, <1>5, <2>2 DEF CloseForSafety, SetState
      <3>2. Goto("msg", c) /\ CallWork(c)' /\ c.i = i /\ c.goal \in Aftercare
        BY <2>2, <3>c, <3>1 DEF CallWork, Await, Aftercare, AfterStates
      <3> QED BY <1>0, <3>1, <3>2, StartKeepsWorkInv
    <2> QED BY <1>5, <2>1, <2>2 DEF CloseForSafety, BeginClose
  <1> QED BY <1>1, <1>2, <1>3, <1>4, <1>5 DEF Message

\* A visit of the tick loop begins what the record it has just read allows.
LEMMA TickKeepsWorkInv ==
  ASSUME TypeInv, ClaimInv, WorkInv, NEW i \in Intents, Tick(i)
  PROVE  WorkInv'
  <1> USE DEF TypeInv
  <1>0. /\ "tick" \in Loops /\ call \in [Loops -> Calls] /\ st \in [Intents -> States]
        /\ UNCHANGED <<held, algos>> /\ call["tick"] = Idle
    BY DEF Tick, ReconcileEntry, RequestCancel, Recheck, RecoverProtected, CheckProtected,
           CheckClosing, exch, Loops, CallType, RecordType, Free
  <1>1. CASE ReconcileEntry(i)
    <2>c. PICK c : c = Await("entry", "query", i, 0, FALSE)
      OBVIOUS
    <2>1. /\ st[i] \notin AfterStates /\ st'[i] = "reconciling_entry" /\ i \notin io
          /\ boot' = boot /\ \A j \in Intents \ {i} : st'[j] = st[j]
      BY <1>0, <1>1 DEF ReconcileEntry, SetState, AfterStates, EntryReconcileStates, Claim
    <2>2. Goto("tick", c) /\ CallWork(c)' /\ c.i = i /\ Owned(c)
      BY <1>1, <2>c, <2>1 DEF ReconcileEntry, CallWork, Await, Aftercare, Owned,
             EntryReconcileStates
    <2> QED BY <1>0, <2>1, <2>2, StartKeepsWorkInv
  <1>2. CASE RequestCancel("tick", i)
    BY <1>0, <1>2, CancelRequestKeepsWorkInv
  <1>3. CASE Recheck(i)
    <2>c. PICK c : Goto("tick", c) /\ c \in {Await("protfail", "position", i, 0, FALSE),
                                             Await("recheck", "query", i, 0, FALSE)}
      BY <1>3 DEF Recheck
    <2>1. /\ st[i] = "integrity_required" /\ UNCHANGED <<st, boot>>
      BY <1>0, <1>3 DEF Recheck, RecheckDue, record
    <2>2. CallWork(c)' /\ c.i = i /\ Owned(c)
      BY <2>c, <2>1 DEF CallWork, Await, Aftercare, Owned, Looking
    <2> QED BY <1>0, <2>c, <2>1, <2>2, StartKeepsWorkInv DEF AfterStates
  <1>4. CASE RecoverProtected(i)
    <2>0. i \in boot /\ UNCHANGED st /\ call["msg"] = Idle
      BY <1>4 DEF RecoverProtected, record, WorkInv
    <2>1. CASE st[i] = "protected"
      <3>c. PICK c : c = Await("boot", "position", i, memo[i].qty, FALSE)
        OBVIOUS
      <3>1. Goto("tick", c) /\ boot' = boot
        BY <1>4, <2>1, <3>c DEF RecoverProtected
      <3>2. CallWork(c)' /\ c.i = i /\ c.goal \in Aftercare
        BY <2>0, <2>1, <3>c, <3>1 DEF CallWork, Await, Aftercare, AfterStates
      <3> QED BY <1>0, <2>0, <2>1, <3>1, <3>2, StartKeepsWorkInv
    <2>2. CASE st[i] # "protected"
      <3>1. boot' = boot \ {i} /\ Goto("tick", Idle)
        BY <1>0, <1>4, <2>2 DEF RecoverProtected, Goto
      <3>2. CallWork(Idle)' /\ \A b \in Loops \ {"tick"} : call[b] = Idle
        BY <2>0 DEF CallWork, Idle, Aftercare, Loops
      <3>3. Apart(Idle, Idle) /\ Guarded(i)'
        BY <2>0, <2>2 DEF Apart, Owned, Idle, Guarded
      <3> QED BY <1>0, <2>0, <3>1, <3>2, <3>3, MoveKeepsWorkInv
    <2> QED BY <2>1, <2>2
  <1>5. CASE CheckProtected(i)
    <2>c. PICK c : c = Await("protected", "position", i, memo[i].qty, FALSE)
      OBVIOUS
    <2>1. Goto("tick", c) /\ boot' = boot /\ UNCHANGED st /\ st[i] = "protected"
      BY <1>5, <2>c DEF CheckProtected, record
    <2>2. CallWork(c)' /\ c.i = i /\ c.goal \in Aftercare
      BY <2>1, <2>c DEF CallWork, Await, Aftercare, AfterStates
    <2> QED BY <1>0, <2>1, <2>2, StartKeepsWorkInv
  <1>6. CASE CheckClosing(i)
    <2>c. PICK c : c = Await("closing", "position", i, memo[i].qty, memo[i].sent)
      OBVIOUS
    <2>1. Goto("tick", c) /\ boot' = boot /\ UNCHANGED st /\ st[i] = "closing"
      BY <1>6, <2>c DEF CheckClosing, record
    <2>2. CallWork(c)' /\ c.i = i /\ c.goal \in Aftercare
      BY <2>1, <2>c DEF CallWork, Await, Aftercare, AfterStates
    <2> QED BY <1>0, <2>1, <2>2, StartKeepsWorkInv
  <1> QED BY <1>1, <1>2, <1>3, <1>4, <1>5, <1>6 DEF Tick

\* The exchange by itself: a position that is flat for good stays flat, and the
\* algos of an open one go only with the position.
LEMMA ExchangeKeepsWorkInv ==
  ASSUME TypeInv, FillInv, WorkInv, ExchangeStep
  PROVE  WorkInv'
  <1> USE DEF TypeInv, ExchType, ExchangeTypeOK
  <1>1. UNCHANGED <<st, boot, call>>
    BY DEF ExchangeStep, record
  <1>2. PICK i \in Intents : Fill(i) \/ Trigger(i) \/ OrderEnds(i)
    BY DEF ExchangeStep, ExchangeMoves
  <1>3. \A j \in Intents :
          /\ order[j] = "dead" /\ held[j] = 0 => held'[j] = 0
          /\ \/ algos'[j] = algos[j] /\ held'[j] = held[j]
             \/ algos'[j] = "both"
             \/ held'[j] = 0
    BY <1>2 DEF Fill, Trigger, OrderEnds
  <1>4. ASSUME NEW a \in Loops
        PROVE  CallWork(call[a])'
    <2>1. CallWork(call[a]) /\ CallFill(call[a]) /\ CallFine(call[a])
      BY DEF WorkInv, FillInv, CallType
    <2>2. CASE ~Busy(call[a])
      BY <1>1, <2>1, <2>2 DEF CallWork, CallFine, Busy, Aftercare
    <2>3. CASE Busy(call[a])
      <3>1. call[a].i \in Intents
        BY <2>1, <2>3 DEF CallFine
      <3> QED BY <1>1, <1>3, <2>1, <3>1 DEF CallWork, CallFill, Aftercare
    <2> QED BY <2>2, <2>3
  <1>5. ASSUME NEW a \in Loops, NEW b \in Loops
        PROVE  Apart(call[a], call[b])'
    BY <1>1 DEF WorkInv, Apart, Owned
  <1>6. ASSUME NEW j \in Intents
        PROVE  Guarded(j)'
    BY <1>1, <1>3 DEF WorkInv, Guarded
  <1> QED BY <1>1, <1>4, <1>5, <1>6 DEF WorkInv

\* A final PnL ends a record in a state every handler may find.
LEMMA FinalKeepsWorkInv ==
  ASSUME TypeInv, WorkInv, NEW i \in Intents, FinalPnl(i)
  PROVE  WorkInv'
  <1> USE DEF TypeInv
  <1>1. UNCHANGED <<boot, call, held, algos>>
    BY DEF FinalPnl, Resolve, PnlMismatch, DeliverFinal, AckFinal, exch
  <1>2. /\ \A j \in Intents \ {i} : st'[j] = st[j]
        /\ \/ st'[i] = st[i]
           \/ /\ st[i] \in {"protected", "closing", "integrity_required",
                            "exchange_closed_pending_pnl"}
              /\ st'[i] = "closed_final"
    BY DEF FinalPnl, Resolve, PnlMismatch, DeliverFinal, AckFinal, record, SetState,
           RecordType
  <1>3. ASSUME NEW a \in Loops
        PROVE  CallWork(call[a])'
    <2>1. CallWork(call[a]) /\ CallFine(call[a])
      BY DEF WorkInv, CallType
    <2>2. CASE ~Busy(call[a])
      BY <1>1, <2>1, <2>2 DEF CallWork, CallFine, Busy, Aftercare
    <2>3. CASE Busy(call[a])
      <3>1. call[a].i \in Intents
        BY <2>1, <2>3 DEF CallFine
      <3> QED BY <1>1, <1>2, <2>1, <3>1 DEF CallWork, AfterStates, EntryReconcileStates
    <2> QED BY <2>2, <2>3
  <1>4. ASSUME NEW a \in Loops, NEW b \in Loops
        PROVE  Apart(call[a], call[b])'
    BY <1>1 DEF WorkInv, Apart, Owned
  <1>5. ASSUME NEW j \in Intents
        PROVE  Guarded(j)'
    BY <1>1, <1>2 DEF WorkInv, Guarded
  <1> QED BY <1>1, <1>3, <1>4, <1>5 DEF WorkInv

\* After a crash nobody works, and every protected record is to be verified.
LEMMA RebootKeepsWorkInv ==
  ASSUME NEW states \in [Intents -> States], NEW h, Reboot(states, h)
  PROVE  WorkInv'
  <1>1. /\ st' = states /\ boot' = {j \in Intents : states[j] = "protected"}
        /\ call' = [a \in Loops |-> Idle] /\ "msg" \in Loops
    BY DEF Reboot, Loops
  <1>2. ASSUME NEW a \in Loops
        PROVE  CallWork(call[a])'
    BY <1>1 DEF CallWork, Idle, Aftercare
  <1>3. ASSUME NEW a \in Loops, NEW b \in Loops
        PROVE  Apart(call[a], call[b])'
    BY <1>1 DEF Apart, Owned, Idle
  <1>4. ASSUME NEW j \in Intents
        PROVE  Guarded(j)'
    BY <1>1 DEF Guarded
  <1> QED BY <1>1, <1>2, <1>3, <1>4 DEF WorkInv

\* The tick loop's call is reread or synced: no record and no position changes.
LEMMA ReloadKeepsWorkInv ==
  ASSUME TypeInv, WorkInv, TurnAway \/ SyncFetch \/ SyncApply \/ Notify
  PROVE  WorkInv'
  <1> USE DEF TypeInv
  <1>0. /\ UNCHANGED <<st, boot, held, algos>> /\ "tick" \in Loops
        /\ call \in [Loops -> Calls]
    BY DEF TurnAway, SyncFetch, SyncApply, Notify, record, exch, Loops, CallType
  <1>c. PICK c : c = call["tick"]
    OBVIOUS
  <1>1. PICK d : /\ Goto("tick", d)
                 /\ \/ d.goal = c.goal /\ d.op = c.op /\ d.tag = c.tag /\ d.i = c.i
                    \/ d.goal \in {"idle", "sync"} /\ d.op \in {"none", "apply", "notify"}
    <2>1. CASE TurnAway
      <3>d. PICK d : d = [c EXCEPT !.old = @ \/ c.op \in {"rest", "verify"}]
        OBVIOUS
      <3>1. d.goal = c.goal /\ d.op = c.op /\ d.tag = c.tag /\ d.i = c.i
        BY <1>0, <1>c, <3>d DEF Calls
      <3> QED BY <1>0, <1>c, <2>1, <3>d, <3>1 DEF TurnAway, Reload, Goto
    <2>2. CASE SyncFetch
      <3>1. LET d == Await("sync", "apply", NoIntent, 0, FALSE)
            IN  d.goal = "sync" /\ d.op = "apply"
        BY DEF Await
      <3> QED BY <2>2, <3>1 DEF SyncFetch
    <2>3. CASE SyncApply
      <3>d. PICK d : d = [c EXCEPT !.op = "notify"]
        OBVIOUS
      <3>1. d.goal = "sync" /\ d.op = "notify"
        BY <1>0, <1>c, <2>3, <3>d DEF Calls, SyncApply
      <3> QED BY <1>c, <2>3, <3>d, <3>1 DEF SyncApply
    <2>4. CASE Notify
      <3>1. Idle.goal = "idle" /\ Idle.op = "none"
        BY DEF Idle
      <3> QED BY <2>4, <3>1 DEF Notify, Done
    <2> QED BY <2>1, <2>2, <2>3, <2>4
  <1>2. CallWork(d)'
    BY <1>0, <1>c, <1>1 DEF WorkInv, CallWork, Aftercare
  <1>3. \A b \in Loops \ {"tick"} : Apart(d, call[b]) /\ Apart(call[b], d)
    BY <1>0, <1>c, <1>1 DEF WorkInv, Apart, Owned, Aftercare
  <1> QED BY <1>0, <1>1, <1>2, <1>3, NoIntentAssumption, MoveKeepsWorkInv

\* WorkInv is inductive, given the claims and the settled fills.
LEMMA WorkStep == TypeInv /\ ClaimInv /\ FillInv /\ WorkInv /\ [Next]_vars => WorkInv'
  <1> SUFFICES ASSUME TypeInv, ClaimInv, FillInv, WorkInv, [Next]_vars
               PROVE  WorkInv'
    OBVIOUS
  <1>1. ASSUME NEW a \in Loops, CutShort(a)
        PROVE  WorkInv'
    <2>1. PICK s \in {"protected", "integrity_required"} :
            Reboot([st EXCEPT ![call[a].i] = s], halt)
      BY <1>1 DEF CutShort
    <2>2. [st EXCEPT ![call[a].i] = s] \in [Intents -> States]
      BY StateNames DEF TypeInv, RecordType
    <2> QED BY <2>1, <2>2, RebootKeepsWorkInv
  <1>2. CASE Crash
    BY <1>2, RebootKeepsWorkInv DEF Crash, TypeInv, RecordType
  <1>3. CASE UNCHANGED vars
    <2>1. UNCHANGED <<st, boot, held, algos, call>>
      BY <1>3 DEF vars, record, exch
    <2>2. \A a \in Loops : CallWork(call[a])'
      BY <2>1 DEF WorkInv, CallWork
    <2>3. \A a, b \in Loops : Apart(call[a], call[b])'
      BY <2>1 DEF WorkInv, Apart, Owned
    <2>4. \A i \in Intents : Guarded(i)'
      BY <2>1 DEF WorkInv, Guarded
    <2> QED BY <2>1, <2>2, <2>3, <2>4 DEF WorkInv
  <1> QED BY <1>1, <1>2, <1>3, HandlerKeepsWorkInv, PrimitiveKeepsWorkInv,
             MessageKeepsWorkInv, TickKeepsWorkInv, FinalKeepsWorkInv,
             ExchangeKeepsWorkInv, ReloadKeepsWorkInv DEF Next

\* Nobody works when the program starts.
LEMMA WorkInit == Init => WorkInv
  <1> SUFFICES ASSUME Init
               PROVE  WorkInv
    OBVIOUS
  <1>1. /\ \A a \in Loops : call[a] = Idle
        /\ boot = {} /\ \A i \in Intents : st[i] = "none"
    BY DEF Init
  <1>2. \A a \in Loops : CallWork(call[a])
    BY <1>1, IdleWork
  <1>3. \A a, b \in Loops : Apart(call[a], call[b])
    BY <1>1 DEF Apart, Owned, Idle
  <1>4. \A i \in Intents : Guarded(i)
    BY <1>1 DEF Guarded
  <1> QED BY <1>1, <1>2, <1>3, <1>4 DEF WorkInv

\* The inductive invariants of the lane hold together.
LEMMA LaneInvHolds == Spec => [](TypeInv /\ ClaimInv /\ EntryInv /\ FillInv /\ WorkInv)
  BY TypeInit, TypeStep, ClaimInit, ClaimStep, EntryInit, EntryStep, FillInit, FillStep,
     WorkInit, WorkStep, PTL DEF Spec

\* An open position whose record says protected has both algos on the exchange,
\* whoever cleans up after what, unless recovery has yet to verify it: also
\* while a handler is at work on it (_reconcile_protected, _recover_protected,
\* _close_intent, LiveExchangeAdapter._fail_closed).
THEOREM ProtectedStaysGuarded == Spec => []ProtectedHasGuard
  <1>1. WorkInv => ProtectedHasGuard
    BY DEF WorkInv, Guarded, ProtectedHasGuard
  <1> QED BY <1>1, LaneInvHolds, PTL

\* A handler, or its crash, works on a record that was admitted before.
LEMMA WorkIsAdmitted ==
  ASSUME TypeInv, ClaimInv, WorkInv, NEW a \in Loops, Busy(call[a])
  PROVE  call[a].i \in Intents /\ st[call[a].i] # "none"
  BY NobodyWorks DEF TypeInv, CallType, CallFine

\* A record begins with its admission, and with nothing else.
LEMMA AdmissionOnly ==
  ASSUME TypeInv, ClaimInv, WorkInv, Next, NEW i \in Intents, st[i] = "none", st'[i] # "none"
  PROVE  Admit(i)
  <1> USE DEF TypeInv, RecordType
  <1>1. ASSUME NEW a \in Loops, Exchange(a) \/ Handler(a) \/ CutShort(a)
        PROVE  FALSE
    <2>1. Busy(call[a])
      BY <1>1, HandlerBusy DEF Exchange, CutShort, Resumes, Busy
    <2>2. \A j \in Intents \ {call[a].i} : st[j] = "none" => st'[j] = "none"
      BY <1>1, HandlerKeepsWorkInv DEF Exchange, CutShort, Reboot, record
    <2> QED BY <2>1, <2>2, WorkIsAdmitted
  <1>2. ASSUME NEW j \in Intents, Message(j)
        PROVE  Admit(i)
    <2>1. CASE Admit(j)
      BY <2>1 DEF Admit, SetState
    <2>2. CASE DropReady(j) \/ StartEntry(j) \/ RequestCancel("msg", j) \/ CloseForSafety(j)
      BY <2>2 DEF DropReady, StartEntry, RequestCancel, CloseForSafety, BeginClose,
             Terminalize, SetState, EntryReconcileStates
    <2> QED BY <1>2, <2>1, <2>2 DEF Message
  <1>3. ASSUME NEW j \in Intents, Tick(j) \/ FinalPnl(j)
        PROVE  FALSE
    BY <1>3 DEF Tick, ReconcileEntry, RequestCancel, Recheck, RecoverProtected,
           CheckProtected, CheckClosing, FinalPnl, Resolve, PnlMismatch, DeliverFinal,
           AckFinal, record, SetState, EntryReconcileStates
  <1>4. CASE TurnAway \/ SyncFetch \/ SyncApply \/ Notify \/ Crash \/ ExchangeStep
    BY <1>4 DEF TurnAway, SyncFetch, SyncApply, Notify, Crash, Reboot, ExchangeStep, record
  <1> QED BY <1>1, <1>2, <1>3, <1>4 DEF Next

\* No intent is admitted while the ledger holds a halt: can_open reads the ledger
\* again, also when the halt was raised through an adapter whose governor was
\* replaced since (handle_candidate, governor.can_open).
THEOREM AdmissionReadsTheHalt == Spec => AdmissionHeedsHalt
  <1> DEFINE Heeds == \A i \in Intents : st[i] = "none" /\ st'[i] # "none" => halt = NoHalt
  <1>1. TypeInv /\ ClaimInv /\ WorkInv /\ [Next]_vars => [Heeds]_vars
    BY AdmissionOnly DEF Admit, Reload
  <1> QED BY <1>1, LaneInvHolds, PTL DEF Spec, AdmissionHeedsHalt

-----------------------------------------------------------------------------
(* An entry that fills whole or not at all.                                   *)

\* The position was there and is gone, for good when the fill was whole.
Over(i) == filled[i] > 0 /\ held[i] = 0
\* The reasons of a halt before protection, and a record that was not protected.
EntryReasons == RecheckReasons \ {"tactical_protection_incomplete"}
Early(i) ==
    \/ st[i] \in EntryReconcileStates \cup {"none", "ready_for_quote"}
    \/ st[i] = "integrity_required" /\ why[i] \in EntryReasons
Late(p) == p \in {"routing", "final", "handled", "acked"}

\* A recheck has found the order unfilled, or the position as the order says.
Unfilled(c) ==
    \/ /\ c.qty = 0
       /\ c.op \in {"cancel", "position"} \/ (c.op = "query" /\ c.tag = "found")
    \/ c.op = "position" /\ c.tag = "match"

\* What a handler knows of the position before it is protected, or when its
\* protection failed.
CallLot(c) ==
    /\ c.goal = "protfail" => filled[c.i] > 0
    /\ c.goal \in {"entry", "recheck"} /\ c.op \in {"rest", "verify", "unguard", "secure"}
         => c.qty > 0
    /\ c.goal = "recheck" => /\ local[c.i] # "v2"
                             /\ c.op \in Looking => why[c.i] \in EntryReasons
                             /\ Unfilled(c) => pnl[c.i] = "none" /\ st[c.i] = "integrity_required"
                             /\ c.tag = "flat" /\ c.qty > 0 => held[c.i] = 0
    /\ c.goal = "protfail" /\ (c.op = "clean" \/ c.tag = "flat") => held[c.i] = 0

\* What a record says of the position, the common books and the final PnL.
RecordLot(i) ==
    /\ st[i] \in FreeStates \cup {"none"} => ~Exposed(i)
    /\ st[i] \in AfterStates => filled[i] > 0
    /\ why[i] = "tactical_protection_incomplete" => filled[i] > 0
    /\ memo[i].qty <= filled[i]
    /\ order[i] = "open" => filled[i] = 0
    /\ memo[i].queued \/ pnl[i] # "none" \/ local[i] = "v2" => filled[i] > 0
    /\ Late(pnl[i]) => held[i] = 0
    /\ Early(i) => /\ local[i] # "v2"
                   /\ pnl[i] # "none" \/ memo[i].queued => held[i] = 0

LotInv ==
    /\ \A a \in Loops : CallLot(call[a])
    /\ \A i \in Intents : RecordLot(i)

\* The record holds a slot for something that is not over.
Occupied == {i \in Intents : st[i] \in SlotStates /\ ~Over(i)}

\* Everything the record of an intent says of its position.
Untouched(i) == /\ st'[i] = st[i] /\ why'[i] = why[i] /\ memo'[i] = memo[i]
                /\ local'[i] = local[i] /\ pnl'[i] = pnl[i]

\* ... and what the handlers of its entry rely on.
Steady(i) == /\ st'[i] = st[i] /\ why'[i] = why[i]
             /\ local'[i] = local[i] /\ pnl'[i] = pnl[i]

\* One loop moves on and one record changes; the exchange stands still.
LEMMA MoveKeepsLotInv ==
  ASSUME CallType, LotInv, NEW a \in Loops, NEW c, Goto(a, c), CallLot(c)', NEW i,
         UNCHANGED <<order, filled, held>>,
         \A j \in Intents \ {i} : Untouched(j),
         \A b \in Loops \ {a} :
            \/ ~Busy(call[b]) \/ call[b].i # i \/ call[b].goal \in Aftercare
            \/ Steady(i),
         i \in Intents => RecordLot(i)'
  PROVE  LotInv'
  <1>1. ASSUME NEW b \in Loops
        PROVE  CallLot(call[b])'
    <2>1. CASE b = a
      BY <2>1 DEF Goto, CallType
    <2>2. CASE b # a
      <3>1. call'[b] = call[b] /\ CallLot(call[b]) /\ CallFine(call[b])
        BY <2>2 DEF Goto, CallType, LotInv
      <3>2. CASE ~Busy(call[b]) \/ call[b].goal \in Aftercare
        BY <3>1, <3>2 DEF CallLot, CallFine, Busy, Aftercare
      <3>3. CASE Busy(call[b]) /\ call[b].goal \notin Aftercare
        <4>1. Steady(call[b].i)
          BY <2>2, <3>1, <3>3 DEF CallFine, Untouched, Steady
        <4> QED BY <3>1, <4>1 DEF CallLot, Steady, Unfilled, Looking
      <3> QED BY <3>2, <3>3
    <2> QED BY <2>1, <2>2
  <1>2. ASSUME NEW j \in Intents
        PROVE  RecordLot(j)'
    <2>1. CASE j = i
      BY <2>1
    <2>2. CASE j # i
      BY <2>2 DEF LotInv, Untouched, RecordLot, Early, Exposed
    <2> QED BY <2>1, <2>2
  <1> QED BY <1>1, <1>2 DEF LotInv

\* A handler tells only what the exchange has shown it, and never takes a freed
\* record for an entry.
LEMMA HandlerKeepsLotInv ==
  ASSUME Lots = 1, TypeInv, ClaimInv, FillInv, WorkInv, LotInv, NEW a \in Loops, Handler(a)
  PROVE  /\ LotInv'
         /\ st[call[a].i] \in FreeStates => st'[call[a].i] \notin EntryReconcileStates
  <1>y. PICK c : c = call[a]
    OBVIOUS
  <1>w. PICK i : i = c.i
    OBVIOUS
  <1> USE <1>y, <1>w DEF TypeInv
  <1> DEFINE Elsewhere == \A j \in Intents \ {i} : Untouched(j)
             NoRetry == st[i] \in FreeStates => st'[i] \notin EntryReconcileStates
             Goal == LotInv' /\ NoRetry
  <1>0. /\ c \in Calls /\ i \in Intents /\ Busy(c) /\ CallFine(c) /\ c.tag # "none"
        /\ CallWork(c) /\ CallFill(c) /\ CallLot(c) /\ RecordLot(i)
        /\ UNCHANGED <<order, filled, held>>
    BY HandlerBusy, HandlerKeepsExchange DEF CallType, CallFine, WorkInv, FillInv, LotInv, exch
  <1>t. /\ i \in Intents /\ st \in [Intents -> States] /\ why \in [Intents -> IntegrityReasons]
        /\ memo \in [Intents -> Memos] /\ local \in [Intents -> {"none", "v2", "main"}]
        /\ pnl \in [Intents -> PnlStates]
        /\ memo'[i] \in Memos /\ memo'[i].qty \in {0, 1} /\ memo[i].qty \in {0, 1}
        /\ filled[i] \in {0, 1} /\ held[i] \in {0, 1} /\ held[i] <= filled[i] /\ c.qty \in {0, 1}
    BY <1>0, HandlerRecords DEF RecordType, HostType, ExchType, ExchangeTypeOK, Calls, Memos
  <1>x. ASSUME NEW b \in Loops \ {a}
        PROVE  ~Busy(call[b]) \/ call[b].i # i \/ call[b].goal \in Aftercare
    BY <1>0, SharedRecord DEF Aftercare
  <1>s. FreeStates \cap EntryReconcileStates = {}
    BY DEF FreeStates, EntryReconcileStates
  <1> SUFFICES Goal
    OBVIOUS
  <1>m. ASSUME NEW d, Goto(a, d), CallLot(d)', Elsewhere, RecordLot(i)', NoRetry
        PROVE  Goal
    BY <1>0, <1>x, <1>m, MoveKeepsLotInv
  <1> HIDE DEF Goal
  <1>u. ASSUME NEW d, Goto(a, d), CallLot(d)', UNCHANGED <<st, why, memo, local, pnl>>
        PROVE  Goal
    <2>1. \A j : Untouched(j)
      BY <1>u DEF Untouched
    <2>2. RecordLot(i)' /\ NoRetry
      BY <1>0, <1>s, <1>u DEF RecordLot, Early, Exposed
    <2> QED BY <1>m, <1>u, <2>1, <2>2
  <1>l. CallLot(Idle)'
    BY DEF CallLot, Idle
  <1>i. ASSUME Goto(a, Idle), UNCHANGED <<st, why, memo, local, pnl>>
        PROVE  Goal
    BY <1>i, <1>l, <1>u
  \* The handler goes on to its next primitive.
  <1> DEFINE Onward(op) == [c EXCEPT !.op = op, !.tag = "none"]
  <1>o. ASSUME NEW op \in Ops, Goto(a, Onward(op)), UNCHANGED <<st, why, memo, local, pnl>>,
               c.goal \in {"entry", "recheck"} /\ op \in {"rest", "verify", "unguard", "secure"}
                  => c.qty > 0,
               c.goal = "recheck" /\ op \in Looking =>
                  c.op \in Looking /\ op # "query" /\ (c.qty = 0 => Unfilled(c)),
               c.goal = "protfail" /\ op = "clean" => held[i] = 0
        PROVE  Goal
    <2>d. PICK d : d = Onward(op)
      OBVIOUS
    <2>1. d.goal = c.goal /\ d.op = op /\ d.tag = "none" /\ d.i = i /\ d.qty = c.qty
      BY <1>0, <2>d DEF Calls
    <2>2. CallLot(d)'
      BY <1>0, <1>o, <2>1 DEF CallLot, Unfilled, Looking
    <2> QED BY <1>o, <1>u, <2>d, <2>2
  <1> HIDE DEF Onward
  \* What an entry handler or a recheck knows of its record.
  <1>k. ASSUME c.goal \in {"entry", "recheck"}
        PROVE  /\ local[i] # "v2" /\ (pnl[i] # "none" \/ memo[i].queued => held[i] = 0)
               /\ c.op \in {"rest", "verify", "unguard", "secure"} => filled[i] > 0
               /\ c.qty <= filled[i]
               /\ st[i] \in EntryReconcileStates \/ c.goal = "recheck"
    <2>1. Early(i) \/ (c.goal = "recheck" /\ st[i] = "closed_final")
      <3>1. c.goal = "recheck" /\ c.op \notin Looking => st[i] \in EntryReconcileStates
        BY <1>0 DEF CallWork, EntryReconcileStates
      <3> QED BY <1>0, <1>k, <3>1 DEF CallWork, CallLot, Early
    <2>2. st[i] = "closed_final" => held[i] = 0
      BY <1>0 DEF RecordLot, FreeStates, Exposed
    <2> QED BY <1>0, <1>k, <1>t, <2>1, <2>2 DEF RecordLot, CallLot, CallFill, CallWork
  \* The record is, or is again, that of an entry not protected yet ...
  <1>e. ASSUME c.goal \in {"entry", "recheck"},
               st'[i] \in EntryReconcileStates \cup {"integrity_required"},
               st'[i] = "integrity_required" => why'[i] \in EntryReasons,
               why'[i] \in EntryReasons \cup {why[i]},
               memo'[i].qty <= filled[i], memo'[i].queued = memo[i].queued,
               local'[i] = local[i], pnl'[i] = pnl[i],
               \/ c.goal = "entry" \/ st'[i] \notin EntryReconcileStates
               \/ st[i] \notin FreeStates
        PROVE  RecordLot(i)' /\ NoRetry
    <2>1. st'[i] \notin FreeStates \cup {"none"} \cup AfterStates
      BY <1>e DEF FreeStates, AfterStates, EntryReconcileStates
    <2>2. why'[i] = "tactical_protection_incomplete" => why[i] = why'[i]
      BY <1>e DEF EntryReasons
    <2> QED BY <1>0, <1>k, <1>e, <1>s, <2>1, <2>2 DEF RecordLot
  \* ... or that of a position, or what was one.
  <1>b. ASSUME filled[i] > 0, st'[i] # "none", st'[i] \in FreeStates => held[i] = 0,
               ~Early(i)', Late(pnl'[i]) => Late(pnl[i])
        PROVE  RecordLot(i)' /\ NoRetry
    <2>1. order[i] # "open"
      BY <1>0, <1>b DEF RecordLot
    <2>2. st'[i] \notin EntryReconcileStates
      BY <1>b DEF Early
    <2>3. memo'[i].qty <= filled'[i] /\ filled'[i] > 0
      BY <1>0, <1>t, <1>b
    <2> QED BY <1>0, <1>b, <2>1, <2>2, <2>3 DEF RecordLot, Exposed
  <1>f. ASSUME c.goal \in Aftercare
        PROVE  filled[i] > 0
    BY <1>0, <1>f DEF CallWork, RecordLot
  <1> USE DEF Resumes, record, host, sync, Release, Done, KeepNotes, RequireIntegrity
  <1>2. ASSUME NEW s \in EntryReconcileStates, SetState(i, s), KeepNotes, Goto(a, Idle),
               UNCHANGED host, c.goal = "entry" \/ (c.goal = "recheck" /\ st[i] \notin FreeStates)
        PROVE  Goal
    <2>1. Elsewhere /\ st'[i] = s
      BY <1>t, <1>2 DEF Untouched, SetState
    <2>2. RecordLot(i)' /\ NoRetry
      <3>1. /\ st'[i] # "integrity_required" /\ UNCHANGED <<why, memo, local, pnl>>
            /\ memo[i].qty <= filled[i]
        BY <1>0, <1>2, <2>1 DEF RecordLot, EntryReconcileStates
      <3> QED BY <1>2, <1>e, <2>1, <3>1
    <2> QED BY <1>2, <1>l, <1>m, <2>1, <2>2
  <1>3. ASSUME NEW r \in EntryReasons, RequireIntegrity(i, r), Goto(a, Idle), UNCHANGED host,
               c.goal \in {"entry", "recheck"}
        PROVE  Goal
    <2>1. Elsewhere /\ st'[i] = "integrity_required" /\ why'[i] = r
      BY <1>t, <1>3 DEF Untouched, SetState
    <2>2. RecordLot(i)' /\ NoRetry
      BY <1>0, <1>3, <1>e, <2>1, <1>t DEF RecordLot, EntryReconcileStates
    <2> QED BY <1>3, <1>l, <1>m, <2>1, <2>2
  <1>4. ASSUME Terminalize(i), Goto(a, Idle), UNCHANGED host, Settled(c), c.qty = 0
        PROVE  Goal
    <2>1. Elsewhere /\ st'[i] = "entry_terminal" /\ UNCHANGED <<why, memo, local, pnl>>
      BY <1>t, <1>4 DEF Untouched, SetState, Terminalize
    <2>2. order[i] = "dead" /\ filled[i] = 0 /\ held[i] = 0
      BY <1>0, <1>4, <1>t DEF CallFill
    <2>3. RecordLot(i)'
      BY <1>0, <2>1, <2>2 DEF RecordLot, Exposed, AfterStates, Early, EntryReconcileStates
    <2>4. NoRetry
      BY <2>1 DEF EntryReconcileStates
    <2> QED BY <1>4, <1>l, <1>m, <2>1, <2>3, <2>4
  <1>5. ASSUME NEW goal \in {"entry", "recheck"}, NEW rem, BeginSettle(a, goal, i, c.qty, rem),
               c.qty > 0, UNCHANGED host, c.goal = goal,
               goal = "entry" \/ st[i] \notin FreeStates
        PROVE  Goal
    <2>d. PICK d : d = Await(goal, IF rem THEN "rest" ELSE "verify", i, c.qty, rem)
      OBVIOUS
    <2>1. /\ st'[i] = "filled_unverified" /\ why' = why /\ Elsewhere /\ Goto(a, d)
          /\ memo'[i].qty = c.qty /\ memo'[i].queued = memo[i].queued
      BY <1>t, <1>5, <2>d DEF Untouched, SetState, SetMemo, BeginSettle, Memos
    <2>2. CallLot(d)'
      BY <1>5, <1>k, <2>d DEF CallLot, Await, Unfilled, Looking
    <2>3. RecordLot(i)' /\ NoRetry
      BY <1>5, <1>k, <1>e, <2>1 DEF EntryReconcileStates
    <2> QED BY <1>m, <2>1, <2>2, <2>3
  <1>6. ASSUME BeginCancel(a, i), UNCHANGED host, c.goal = "entry"
        PROVE  Goal
    <2>d. PICK d : d = Await("entry", "cancel", i, 0, FALSE)
      OBVIOUS
    <2>1. /\ st'[i] = "canceling_entry" /\ why' = why /\ Elsewhere /\ Goto(a, d)
          /\ memo'[i].qty = memo[i].qty /\ memo'[i].queued = memo[i].queued
      BY <1>t, <1>6, <2>d DEF Untouched, SetState, SetMemo, BeginCancel, Memos
    <2>2. CallLot(d)'
      BY <2>d DEF CallLot, Await
    <2>3. RecordLot(i)' /\ NoRetry
      BY <1>0, <1>6, <1>e, <2>1 DEF EntryReconcileStates, RecordLot
    <2> QED BY <1>m, <2>1, <2>2, <2>3
  <1>7. ASSUME FailClosed(a), c.op \in {"rest", "verify"}, UNCHANGED host,
               c.goal \in {"entry", "recheck", "boot"}
        PROVE  Goal
    <2>d. PICK d : d = [c EXCEPT !.op = "unguard", !.tag = "none", !.old = FALSE]
      OBVIOUS
    <2>1. d.goal = c.goal /\ d.op = "unguard" /\ d.i = i /\ d.tag = "none" /\ d.qty = c.qty
      BY <1>0, <2>d DEF Calls
    <2>2. CallLot(d)'
      BY <1>0, <1>7, <2>1 DEF CallLot, Looking, Unfilled, FailClosed
    <2> QED BY <1>7, <1>u, <2>d, <2>2 DEF FailClosed
  <1>8. ASSUME MarkExchangeClosed(i), Goto(a, Idle), c.goal \in Aftercare, held[i] = 0
        PROVE  Goal
    <2>1. /\ Elsewhere /\ st'[i] = "exchange_closed_pending_pnl"
          /\ pnl'[i] \in {pnl[i], "memory"}
      BY <1>t, <1>8 DEF MarkExchangeClosed, Untouched, SetState, EmitRemoved
    <2>2. RecordLot(i)' /\ NoRetry
      BY <1>8, <1>b, <1>f, <2>1 DEF Late, Early, EntryReconcileStates
    <2> QED BY <1>8, <1>l, <1>m, <2>1, <2>2
  <1>9. ASSUME BeginClose(a, i), c.goal \in Aftercare, KeepNotes, UNCHANGED host
        PROVE  Goal
    <2>1. CASE Goto(a, Idle) /\ UNCHANGED st
      BY <1>9, <1>i, <2>1
    <2>2. CASE /\ Goto(a, Await("close", "position", i, memo[i].qty, FALSE))
               /\ SetState(i, "closing")
      <3>d. PICK d : d = Await("close", "position", i, memo[i].qty, FALSE)
        OBVIOUS
      <3>1. Elsewhere /\ st'[i] = "closing" /\ UNCHANGED pnl
        BY <1>t, <1>9, <2>2 DEF Untouched, SetState
      <3>2. CallLot(d)'
        BY <3>d DEF CallLot, Await
      <3>3. RecordLot(i)' /\ NoRetry
        BY <1>9, <1>b, <1>f, <3>1 DEF Early, EntryReconcileStates, FreeStates
      <3> QED BY <1>m, <2>2, <3>d, <3>1, <3>2, <3>3
    <2> QED BY <1>9, <2>1, <2>2 DEF BeginClose
  <1>10. ASSUME NEW r \in {"tactical_protection_incomplete", "proof_reason",
                           "protected_position_mismatch"},
                RequireIntegrity(i, r), Goto(a, Idle), UNCHANGED host, filled[i] > 0
         PROVE  Goal
    <2>1. Elsewhere /\ st'[i] = "integrity_required" /\ why'[i] = r /\ UNCHANGED pnl
      BY <1>t, <1>10 DEF Untouched, SetState
    <2>2. r \notin EntryReasons
      BY DEF EntryReasons, RecheckReasons
    <2>3. RecordLot(i)' /\ NoRetry
      BY <1>10, <1>b, <2>1, <2>2 DEF Early, EntryReconcileStates, FreeStates
    <2> QED BY <1>10, <1>l, <1>m, <2>1, <2>3
  <1>n. /\ {"cancel", "position", "clean", "close", "verify", "secure"} \subseteq Ops
        /\ {"entry_reconciliation_unknown", "entry_cancel_unproven",
            "entry_fill_flat_awaiting_final_pnl",
            "entry_recovery_position_mismatch"} \subseteq EntryReasons
        /\ {"reconciling_entry", "pending_entry", "filled_unverified"} \subseteq EntryReconcileStates
    BY DEF Ops, EntryReasons, RecheckReasons, EntryReconcileStates
  <1>11. CASE Submitted(a)
    BY <1>11, <1>n, <1>2, <1>6 DEF Submitted
  <1>12. CASE RemainderCanceled(a)
    <2>1. CASE FailClosed(a)
      BY <1>12, <1>7, <2>1 DEF RemainderCanceled
    <2>2. CASE Goto(a, Onward("verify")) /\ UNCHANGED record
      BY <1>0, <1>12, <1>o, <1>n, <2>2 DEF RemainderCanceled, Looking, CallLot
    <2> QED BY <1>12, <2>1, <2>2 DEF RemainderCanceled, Onward
  <1>13. CASE Unverified(a)
    BY <1>13, <1>7, <1>i DEF Unverified
  <1>14. CASE Unguarded(a)
    <2>1. Goto(a, Onward("secure")) /\ UNCHANGED <<record, host>>
      BY <1>14 DEF Unguarded, Onward
    <2> QED BY <1>0, <1>14, <1>o, <1>n, <2>1 DEF Unguarded, Looking, CallLot
  <1>15. CASE Protected(a)
    <2>1. Elsewhere /\ st'[i] = "protected" /\ Goto(a, Idle) /\ UNCHANGED pnl
      BY <1>t, <1>15 DEF Protected, SetState, SetMemo, PersistCommonPosition, Untouched
    <2>2. filled[i] > 0
      BY <1>15, <1>k DEF Protected
    <2>3. RecordLot(i)' /\ NoRetry
      BY <1>b, <2>1, <2>2 DEF Early, EntryReconcileStates, FreeStates
    <2> QED BY <1>l, <1>m, <2>1, <2>3
  <1>16. CASE Secured(a)
    BY <1>16, <1>k, <1>f, <1>10 DEF Secured, Aftercare
  <1>17. CASE EntryMissing(a)
    BY <1>17, <1>n, <1>2, <1>3 DEF EntryMissing
  <1>18. CASE EntryFound(a)
    <2>1. c.qty = 0 /\ ~c.rem => Settled(c)
      BY <1>18 DEF EntryFound, Settled
    <2> QED BY <1>18, <1>n, <1>2, <1>4, <1>5, <1>6, <2>1 DEF EntryFound
  <1>19. CASE EntryCanceled(a)
    <2>1. c.tag = "proven" => Settled(c)
      BY <1>19 DEF EntryCanceled, Settled
    <2> QED BY <1>19, <1>n, <1>3, <1>4, <1>5, <2>1 DEF EntryCanceled
  <1>20. CASE RecheckQueried(a)
    <2>1. CASE RequireIntegrity(i, "entry_reconciliation_unknown") /\ Release(a)
      BY <1>20, <1>n, <1>3, <2>1 DEF RecheckQueried
    <2>2. CASE Goto(a, Onward("cancel")) /\ UNCHANGED record /\ c.tag = "found"
      BY <1>20, <1>o, <1>n, <2>2 DEF RecheckQueried, Looking, Unfilled
    <2>3. CASE Goto(a, Onward("position")) /\ UNCHANGED record /\ c.tag = "found"
      BY <1>20, <1>o, <1>n, <2>3 DEF RecheckQueried, Looking, Unfilled
    <2> QED BY <1>20, <2>1, <2>2, <2>3 DEF RecheckQueried, Onward
  <1>21. CASE RecheckCanceled(a)
    <2>1. CASE RequireIntegrity(i, "entry_reconciliation_unknown") /\ Release(a)
      BY <1>21, <1>n, <1>3, <2>1 DEF RecheckCanceled
    <2>2. CASE Goto(a, Onward("position")) /\ UNCHANGED record
      BY <1>21, <1>o, <1>n, <2>2 DEF RecheckCanceled, Looking, Unfilled
    <2> QED BY <1>21, <2>1, <2>2 DEF RecheckCanceled, Onward
  <1>22. CASE RecheckUnproven(a)
    BY <1>22, <1>n, <1>3 DEF RecheckUnproven
  <1>23. CASE RecheckUnfilled(a)
    <2>1. st[i] = "integrity_required"
      BY <1>0, <1>23 DEF RecheckUnfilled, CallLot, Unfilled
    <2>2. ~c.rem => Settled(c)
      BY <1>23 DEF RecheckUnfilled, Settled
    <2> QED BY <1>23, <1>n, <1>2, <1>4, <2>1, <2>2 DEF RecheckUnfilled, FreeStates
  <1>24. CASE RecheckFilled(a)
    <2>1. CASE BeginSettle(a, "recheck", i, c.qty, c.rem) /\ c.tag = "match" /\ UNCHANGED pnl
      <3>1. st[i] = "integrity_required"
        BY <1>0, <1>24, <2>1 DEF RecheckFilled, CallLot, Unfilled
      <3> QED BY <1>24, <1>5, <2>1, <3>1 DEF RecheckFilled, FreeStates
    <2>2. CASE /\ c.tag = "flat" /\ SetState(i, "integrity_required")
               /\ why' = [why EXCEPT ![i] = "entry_fill_flat_awaiting_final_pnl"]
               /\ SetMemo(i, [memo[i] EXCEPT !.qty = c.qty, !.queued = TRUE])
               /\ EmitRemoved(i) /\ Goto(a, Idle)
      <3>1. /\ Elsewhere /\ st'[i] = "integrity_required" /\ memo'[i].qty = c.qty
            /\ why'[i] = "entry_fill_flat_awaiting_final_pnl"
            /\ pnl'[i] \in {pnl[i], "memory"} /\ local' = local
        BY <1>t, <1>24, <2>2 DEF RecheckFilled, SetState, SetMemo, EmitRemoved, Untouched, Memos
      <3>2. held[i] = 0 /\ filled[i] > 0 /\ local[i] # "v2" /\ c.qty <= filled[i]
        BY <1>0, <1>t, <1>24, <1>k, <2>2 DEF RecheckFilled, CallLot
      <3>3. RecordLot(i)'
        BY <1>0, <3>1, <3>2 DEF RecordLot, FreeStates, AfterStates
      <3>4. NoRetry
        BY <3>1 DEF EntryReconcileStates
      <3> QED BY <1>l, <1>m, <2>2, <3>1, <3>3, <3>4
    <2> QED BY <1>24, <2>1, <2>2 DEF RecheckFilled
  <1>25. CASE SafeClosePending(a)
    BY <1>0, <1>25, <1>10 DEF SafeClosePending, CallLot
  <1>26. CASE SafeCloseFlat(a)
    <2>1. Goto(a, Onward("clean")) /\ UNCHANGED <<record, host>>
      BY <1>26 DEF SafeCloseFlat, Onward
    <2> QED BY <1>0, <1>26, <1>o, <1>n, <2>1 DEF SafeCloseFlat, Looking, CallLot
  <1>27. CASE SafeCloseConfirmed(a)
    <2>1. CASE UNCHANGED <<record, pnl>>
      BY <1>27, <1>i, <2>1 DEF SafeCloseConfirmed
    <2>2. CASE /\ SetState(i, "exchange_closed_pending_pnl") /\ EmitRemoved(i) /\ UNCHANGED why
               /\ SetMemo(i, [memo[i] EXCEPT !.queued = TRUE, !.failed = TRUE])
      <3>1. /\ Elsewhere /\ st'[i] = "exchange_closed_pending_pnl"
            /\ pnl'[i] \in {pnl[i], "memory"}
        BY <1>t, <1>27, <2>2 DEF SafeCloseConfirmed, SetState, SetMemo, EmitRemoved, Untouched
      <3>2. filled[i] > 0 /\ held[i] = 0
        BY <1>0, <1>27 DEF SafeCloseConfirmed, CallLot
      <3>3. RecordLot(i)' /\ NoRetry
        BY <1>b, <3>1, <3>2 DEF Late, Early, EntryReconcileStates
      <3> QED BY <1>27, <1>l, <1>m, <3>1, <3>3 DEF SafeCloseConfirmed
    <2> QED BY <1>27, <2>1, <2>2 DEF SafeCloseConfirmed
  <1>28. CASE StillOpen(a)
    BY <1>28, <1>i, <1>9 DEF StillOpen, Aftercare
  <1>29. CASE RecoverOpen(a)
    <2>1. CASE Goto(a, Onward("verify")) /\ UNCHANGED record
      BY <1>29, <1>o, <1>n, <2>1 DEF RecoverOpen, Looking
    <2>2. CASE RequireIntegrity(i, "protected_position_mismatch") /\ Done(a)
      BY <1>29, <1>f, <1>10, <2>2 DEF RecoverOpen, Aftercare
    <2> QED BY <1>29, <2>1, <2>2 DEF RecoverOpen, Onward
  <1>30. CASE Recovered(a)
    <2>1. Elsewhere /\ UNCHANGED <<st, pnl>> /\ Goto(a, Idle) /\ c.goal = "boot"
      BY <1>t, <1>30 DEF Recovered, PersistCommonPosition, Untouched
    <2>2. st[i] \in AfterStates /\ filled[i] > 0
      BY <1>0, <1>f, <2>1 DEF CallWork, Aftercare
    <2>3. RecordLot(i)' /\ NoRetry
      BY <1>0, <1>b, <1>s, <2>1, <2>2
         DEF Early, AfterStates, EntryReconcileStates, RecordLot, Exposed
    <2> QED BY <1>l, <1>m, <2>1, <2>3
  <1>31. CASE FoundFlat(a)
    <2>1. Goto(a, Onward("clean")) /\ UNCHANGED <<record, host>>
      BY <1>31 DEF FoundFlat, Onward
    <2> QED BY <1>31, <1>o, <1>n, <2>1 DEF FoundFlat, Looking
  <1>32. CASE ClosedFlat(a)
    <2>1. CASE UNCHANGED <<record, host>>
      BY <1>32, <1>i, <2>1 DEF ClosedFlat
    <2>2. CASE MarkExchangeClosed(i)
      BY <1>0, <1>32, <1>8, <2>2 DEF ClosedFlat, CallWork, Aftercare
    <2> QED BY <1>32, <2>1, <2>2 DEF ClosedFlat
  <1>33. CASE SendClose(a)
    <2>1. Goto(a, Onward("close")) /\ UNCHANGED <<record, host>>
      BY <1>33 DEF SendClose, Onward
    <2> QED BY <1>33, <1>o, <1>n, <2>1 DEF SendClose, Looking
  <1>34. CASE CloseAnswered(a)
    <2>1. CASE MarkExchangeClosed(i) /\ c.tag = "flat"
      BY <1>0, <1>34, <1>8, <2>1 DEF CloseAnswered, CallWork, Aftercare
    <2>2. CASE /\ SetState(i, "closing") /\ UNCHANGED <<why, host>>
               /\ SetMemo(i, [memo[i] EXCEPT !.sent = @ \/ c.tag = "sent"])
      <3>1. Elsewhere /\ st'[i] = "closing" /\ UNCHANGED pnl
        BY <1>t, <2>2 DEF SetState, SetMemo, Untouched
      <3>2. RecordLot(i)' /\ NoRetry
        BY <1>34, <1>b, <1>f, <3>1
           DEF CloseAnswered, Early, EntryReconcileStates, FreeStates, Aftercare
      <3> QED BY <1>34, <1>l, <1>m, <3>1, <3>2 DEF CloseAnswered
    <2> QED BY <1>34, <2>1, <2>2 DEF CloseAnswered
  <1>35. CASE Raised(a)
    BY <1>35, <1>i DEF Raised
  <1> QED
    BY <1>11, <1>12, <1>13, <1>14, <1>15, <1>16, <1>17, <1>18, <1>19, <1>20, <1>21, <1>22,
       <1>23, <1>24, <1>25, <1>26, <1>27, <1>28, <1>29, <1>30, <1>31, <1>32, <1>33, <1>34,
       <1>35 DEF Handler

\* A primitive opens the order only once, never gives back what was closed, and
\* shows a recheck an unfilled order, or a position, only as they are.
LEMMA PrimitiveKeepsLotInv ==
  ASSUME Lots = 1, TypeInv, EntryInv, WorkInv, LotInv, NEW a \in Loops, Exchange(a)
  PROVE  LotInv'
  <1>y. PICK c : c = call[a]
    OBVIOUS
  <1>w. PICK i : i = c.i
    OBVIOUS
  <1> USE <1>y, <1>w DEF TypeInv, ExchType, ExchangeTypeOK
  <1>1. /\ c.tag = "none" /\ Busy(c) /\ i \in Intents /\ c \in Calls
        /\ CallWork(c) /\ CallLot(c) /\ RecordLot(i) /\ c.qty \in {0, 1}
    BY PrimitiveAnswers DEF WorkInv, LotInv, CallType, Calls
  <1>2. PICK d : /\ Goto(a, d) /\ d.tag \in Tags \ {"none"} /\ Performs(c, d)
                 /\ d.goal = c.goal /\ d.op = c.op /\ d.i = i
    BY PrimitiveAnswers
  <1>3. UNCHANGED <<st, why, memo, local, pnl>>
    BY DEF Exchange, record, host
  <1>t. /\ held \in [Intents -> {0, 1}] /\ filled \in [Intents -> {0, 1}]
        /\ order \in [Intents -> OrderStates]
    OBVIOUS
  <1>p. /\ d.op = "submit" => SubmitEntry(i, d.tag)
        /\ d.op = "query" => QueryEntry(i, d.tag) /\ d.qty = filled[i]
        /\ d.op \in {"cancel", "rest"} => CancelEntry(i, d.tag)
        /\ d.op = "cancel" => d.qty = filled[i]
        /\ d.op = "rest" => d.qty >= c.qty /\ d.qty \in {0, 1}
        /\ d.op = "verify" => VerifyProtection(i, d.tag) /\ d.qty = c.qty
        /\ d.op = "position" => FetchPosition(i, c.qty, d.tag) /\ d.qty = c.qty
        /\ d.op \in {"clean", "unguard"} => CancelProtection(i, d.tag) /\ d.qty = c.qty
        /\ d.op \in {"secure", "close"} => ClosePosition(i, c.qty, d.tag) /\ d.qty = c.qty
        /\ d.op \in {"submit", "query", "cancel", "rest", "verify", "position", "clean",
                     "unguard", "secure", "close"}
    BY <1>1, <1>2, <1>t DEF Performs
  <1>h. PICK h : h = IF held[i] > c.qty THEN held[i] - c.qty ELSE 0
    OBVIOUS
  <1>4. /\ filled' = filled
        /\ held' = held \/ held' = [held EXCEPT ![i] = h]
        /\ d.tag = "flat" => held[i] = 0 /\ held' = held
        /\ d.op = "position" /\ d.tag = "match" => held[i] # 0
    BY <1>h, <1>p DEF SubmitEntry, QueryEntry, CancelEntry, VerifyProtection, FetchPosition,
           CancelProtection, ClosePosition
  <1>5. ASSUME NEW j \in Intents, held[j] = 0
        PROVE  held'[j] = 0
    BY <1>1, <1>t, <1>h, <1>4, <1>5
  <1>6. ASSUME NEW j \in Intents, order'[j] = "open"
        PROVE  order[j] = "open" \/ (filled[j] = 0 /\ st[j] \in EntryReconcileStates)
    <2>1. CASE d.op = "submit"
      <3>1. a = "msg" /\ submits[i] = 0 /\ c.goal = "entry"
        BY <1>1, <1>2, <2>1 DEF EntryInv, Loops, CallWork, CallType, Performs, Exchange
      <3>2. filled[i] = 0
        BY <1>1, <3>1 DEF EntryInv
      <3>3. st[i] \in EntryReconcileStates
        BY <1>1, <3>1 DEF CallWork
      <3>4. order' = order \/ order' = [order EXCEPT ![i] = "open"]
        BY <1>p, <2>1 DEF SubmitEntry
      <3> QED BY <1>6, <1>t, <3>2, <3>3, <3>4
    <2>2. CASE d.op # "submit"
      <3>1. order' = order \/ order' = [order EXCEPT ![i] = "dead"]
        BY <1>p, <2>2 DEF QueryEntry, CancelEntry, VerifyProtection, FetchPosition,
               CancelProtection, ClosePosition
      <3> QED BY <1>6, <1>t, <3>1
    <2> QED BY <2>1, <2>2
  <1>7. ASSUME NEW j \in Intents
        PROVE  RecordLot(j)'
    <2>1. RecordLot(j)
      BY DEF LotInv
    <2>2. st[j] \in EntryReconcileStates => st[j] \notin FreeStates \cup {"none"}
      BY DEF EntryReconcileStates, FreeStates
    <2>3. Exposed(j)' => Exposed(j) \/ st[j] \in EntryReconcileStates
      BY <1>t, <1>5, <1>6 DEF Exposed
    <2> QED BY <1>3, <1>4, <1>5, <1>6, <2>1, <2>2, <2>3 DEF RecordLot, Early
  <1>8. CallLot(d)'
    <2>1. ASSUME c.goal = "recheck", Unfilled(d)
          PROVE  pnl[i] = "none" /\ st[i] = "integrity_required"
      <3>1. c.op \in Looking /\ st[i] \in {"integrity_required", "closed_final"}
        BY <1>1, <1>2, <2>1 DEF Unfilled, Looking, CallWork
      <3>2. why[i] \in EntryReasons
        BY <1>1, <2>1, <3>1 DEF CallLot
      <3>3. st[i] = "integrity_required" => Early(i)
        BY <3>2 DEF Early
      <3>4. filled[i] = 0 \/ held[i] # 0 \/ Unfilled(c)
        BY <1>1, <1>2, <1>4, <1>p, <2>1 DEF Unfilled
      <3>5. filled[i] = 0 => pnl[i] = "none" /\ st[i] # "closed_final"
        BY <1>1 DEF RecordLot, AfterStates
      <3>6. held[i] # 0 => pnl[i] = "none" /\ st[i] # "closed_final"
        BY <1>1, <3>1, <3>3 DEF RecordLot, FreeStates, Exposed
      <3>7. Unfilled(c) => pnl[i] = "none" /\ st[i] # "closed_final"
        BY <1>1, <2>1 DEF CallLot
      <3> QED BY <3>1, <3>4, <3>5, <3>6, <3>7
    <2>2. Unfilled(d)' <=> Unfilled(d)
      BY DEF Unfilled
    <2>3. d.op \in {"rest", "verify", "unguard", "secure"} /\ c.qty > 0 => d.qty > 0
      BY <1>1, <1>p
    <2>4. d.tag = "flat" => held'[i] = 0
      BY <1>1, <1>4, <1>5
    <2>5. d.op = "clean" /\ c.goal = "protfail" => held'[i] = 0
      BY <1>1, <1>2, <1>5 DEF CallLot
    <2> QED BY <1>1, <1>2, <1>3, <1>4, <2>1, <2>2, <2>3, <2>4, <2>5 DEF CallLot
  <1>9. ASSUME NEW b \in Loops
        PROVE  CallLot(call[b])'
    <2>1. CASE b = a
      BY <1>2, <1>8, <2>1 DEF Goto, CallType
    <2>2. CASE b # a
      <3>1. call'[b] = call[b] /\ CallLot(call[b]) /\ CallFine(call[b])
        BY <1>2, <2>2 DEF Goto, CallType, LotInv
      <3>2. CASE ~Busy(call[b])
        BY <3>1, <3>2 DEF CallLot, CallFine, Busy
      <3>3. CASE Busy(call[b])
        <4>1. call[b].i \in Intents /\ (Unfilled(call[b])' <=> Unfilled(call[b]))
          BY <3>1, <3>3 DEF CallFine, Unfilled
        <4> QED BY <1>3, <1>4, <1>5, <3>1, <4>1 DEF CallLot
      <3> QED BY <3>2, <3>3
    <2> QED BY <2>1, <2>2
  <1> QED BY <1>7, <1>9 DEF LotInv

\* A loop takes up a record no handler of its entry works on.
LEMMA StartKeepsLotInv ==
  ASSUME CallType, ClaimInv, WorkInv, LotInv, NEW a \in Loops, NEW c, Goto(a, c), CallLot(c)',
         NEW i \in Intents, UNCHANGED <<order, filled, held>>,
         \A j \in Intents \ {i} : Untouched(j),
         \/ Steady(i) \/ i \notin io
         \/ st[i] \in {"none", "ready_for_quote", "protected", "closing"},
         RecordLot(i)'
  PROVE  LotInv'
  <1>1. ASSUME NEW b \in Loops \ {a}, Busy(call[b]), call[b].i = i, call[b].goal \notin Aftercare
        PROVE  Steady(i)
    BY <1>1, NobodyWorks
  <1> QED BY <1>1, MoveKeepsLotInv

\* A cancel request tells nothing new about the position.
LEMMA CancelRequestKeepsLotInv ==
  ASSUME Lots = 1, TypeInv, ClaimInv, WorkInv, LotInv, NEW a \in Loops, NEW i \in Intents,
         RequestCancel(a, i)
  PROVE  LotInv'
  <1> USE DEF TypeInv
  <1>0. /\ UNCHANGED <<order, filled, held, why, local, pnl>> /\ call[a] = Idle
        /\ call \in [Loops -> Calls] /\ st \in [Intents -> States] /\ memo \in [Intents -> Memos]
        /\ st[i] \in EntryReconcileStates /\ RecordLot(i)
    BY DEF RequestCancel, exch, host, Free, CallType, RecordType, LotInv
  <1>1. ASSUME NEW m, memo' = [memo EXCEPT ![i] = m],
               m.qty = memo[i].qty, m.queued = memo[i].queued,
               \/ st' = st /\ Goto(a, Idle)
               \/ /\ st' = [st EXCEPT ![i] = "canceling_entry"] /\ i \notin io
                  /\ Goto(a, Await("entry", "cancel", i, 0, FALSE))
        PROVE  LotInv'
    <2>c. PICK c : Goto(a, c) /\ c \in {Idle, Await("entry", "cancel", i, 0, FALSE)}
      BY <1>1
    <2>1. CallLot(c)'
      BY <2>c DEF CallLot, Idle, Await
    <2>2. /\ st'[i] \in EntryReconcileStates /\ memo'[i] = m
          /\ \A j \in Intents \ {i} : Untouched(j)
          /\ st' = st \/ i \notin io
      BY <1>0, <1>1 DEF Untouched, EntryReconcileStates
    <2>3. RecordLot(i)'
      <3>1. st'[i] \notin FreeStates \cup {"none"} \cup AfterStates
        BY <2>2 DEF EntryReconcileStates, FreeStates, AfterStates
      <3>2. Early(i)
        BY <1>0 DEF Early
      <3> QED BY <1>0, <1>1, <2>2, <3>1, <3>2 DEF RecordLot
    <2>4. Steady(i) \/ i \notin io
      BY <1>0, <2>2 DEF Steady
    <2> QED BY <1>0, <2>c, <2>1, <2>2, <2>3, <2>4, StartKeepsLotInv
  <1>2. CASE /\ Claim(i) /\ SetState(i, "canceling_entry")
             /\ SetMemo(i, [memo[i] EXCEPT !.canceled = TRUE])
             /\ Goto(a, Await("entry", "cancel", i, 0, FALSE))
    <2>m. PICK m : m = [memo[i] EXCEPT !.canceled = TRUE]
      OBVIOUS
    <2>1. m.qty = memo[i].qty /\ m.queued = memo[i].queued
      BY <1>0, <2>m DEF Memos
    <2> QED BY <1>1, <1>2, <2>m, <2>1 DEF SetState, SetMemo, Claim
  <1>3. CASE /\ SetMemo(i, [memo[i] EXCEPT !.deferred = TRUE])
             /\ UNCHANGED <<st, io, call>>
    <2>m. PICK m : m = [memo[i] EXCEPT !.deferred = TRUE]
      OBVIOUS
    <2>1. m.qty = memo[i].qty /\ m.queued = memo[i].queued
      BY <1>0, <2>m DEF Memos
    <2>2. Goto(a, Idle)
      BY <1>0, <1>3 DEF Goto
    <2> QED BY <1>1, <1>3, <2>m, <2>1, <2>2 DEF SetMemo
  <1> QED BY <1>2, <1>3 DEF RequestCancel

\* Messages start nothing that is not, and end only what never was.
LEMMA MessageKeepsLotInv ==
  ASSUME Lots = 1, TypeInv, ClaimInv, EntryInv, WorkInv, LotInv, NEW i \in Intents, Message(i)
  PROVE  LotInv'
  <1> USE DEF TypeInv
  <1>0. /\ "msg" \in Loops /\ "tick" \in Loops /\ call \in [Loops -> Calls]
        /\ st \in [Intents -> States] /\ RecordLot(i)
        /\ UNCHANGED <<order, filled, held>> /\ call["msg"] = Idle
    BY DEF Message, Admit, DropReady, StartEntry, RequestCancel, CloseForSafety, exch, Loops,
           CallType, RecordType, Free, LotInv
  <1>1. CASE Admit(i)
    <2>d. PICK d : d = [call["tick"] EXCEPT !.old = @ \/ call["tick"].op \in {"rest", "verify"}]
      OBVIOUS
    <2>c. PICK c : c = call["tick"]
      OBVIOUS
    <2>1. /\ d.goal = c.goal /\ d.op = c.op /\ d.tag = c.tag /\ d.i = c.i /\ d.qty = c.qty
          /\ CallFine(c) /\ CallLot(c)
      BY <1>0, <2>c, <2>d DEF CallType, CallFine, Calls, LotInv
    <2>2. Goto("tick", d) /\ \A b \in Loops \ {"tick"} : call[b] = Idle
      BY <1>0, <1>1, <2>d DEF Admit, Reload, Goto, Loops
    <2>3. /\ st[i] = "none" /\ st'[i] = "ready_for_quote"
          /\ UNCHANGED <<why, memo, local, pnl>>
          /\ \A j \in Intents \ {i} : Untouched(j)
      BY <1>0, <1>1 DEF Admit, SetState, Eligible, KeepNotes, host, Untouched
    <2>4. Busy(c) => c.i \in Intents /\ c.i # i
      BY <1>0, <2>c, <2>1, <2>3, NobodyWorks DEF CallFine
    <2>5. CallLot(d)'
      <3>1. Unfilled(d)' <=> Unfilled(c)
        BY <2>1 DEF Unfilled
      <3>2. Busy(c) => st'[c.i] = st[c.i]
        BY <2>3, <2>4 DEF Untouched
      <3>3. ~Busy(c) => c.goal \in {"idle", "sync"}
        BY <2>1 DEF CallFine, Busy
      <3> QED BY <1>0, <2>1, <2>3, <3>1, <3>2, <3>3 DEF CallLot
    <2>6. ~Busy(Idle)
      BY DEF Busy, Idle
    <2>7. RecordLot(i)'
      BY <1>0, <2>3 DEF RecordLot, Early, FreeStates, AfterStates
    <2> QED BY <1>0, <2>2, <2>3, <2>5, <2>6, <2>7, MoveKeepsLotInv
  <1>2. CASE DropReady(i)
    <2>1. /\ st[i] = "ready_for_quote" /\ st'[i] = "entry_terminal"
          /\ UNCHANGED <<why, memo, local, pnl>>
          /\ \A j \in Intents \ {i} : Untouched(j)
      BY <1>0, <1>2 DEF DropReady, Terminalize, SetState, host, Untouched
    <2>2. Goto("msg", Idle) /\ CallLot(Idle)'
      BY <1>0, <1>2 DEF DropReady, Goto, CallLot, Idle
    <2>3. order[i] = "none" /\ held[i] = 0
      BY <2>1 DEF EntryInv, Fresh, ExchType, ExchangeTypeOK
    <2>4. RecordLot(i)'
      BY <1>0, <2>1, <2>3 DEF RecordLot, Early, Exposed, AfterStates, EntryReconcileStates
    <2> QED BY <1>0, <2>1, <2>2, <2>4, StartKeepsLotInv
  <1>3. CASE StartEntry(i)
    <2>c. PICK c : c = Await("entry", "submit", i, 0, FALSE)
      OBVIOUS
    <2>1. /\ st[i] = "ready_for_quote" /\ st'[i] = "submitting_entry"
          /\ UNCHANGED <<why, memo, local, pnl>>
          /\ \A j \in Intents \ {i} : Untouched(j)
      BY <1>0, <1>3 DEF StartEntry, SetState, KeepNotes, host, Untouched
    <2>2. Goto("msg", c) /\ CallLot(c)'
      BY <1>3, <2>c DEF StartEntry, CallLot, Await
    <2>3. RecordLot(i)'
      BY <1>0, <2>1 DEF RecordLot, Early, FreeStates, AfterStates
    <2> QED BY <1>0, <2>1, <2>2, <2>3, StartKeepsLotInv
  <1>4. CASE RequestCancel("msg", i)
    BY <1>0, <1>4, CancelRequestKeepsLotInv
  <1>5. CASE CloseForSafety(i)
    <2>c. PICK c : Goto("msg", c) /\ c \in {Idle, Await("close", "position", i, memo[i].qty, FALSE)}
      BY <1>5 DEF CloseForSafety, BeginClose
    <2>1. /\ st[i] \in {"protected", "closing"} /\ st'[i] \in {"protected", "closing"}
          /\ UNCHANGED <<why, memo, local, pnl>>
          /\ \A j \in Intents \ {i} : Untouched(j)
      BY <1>0, <1>5 DEF CloseForSafety, BeginClose, SetState, KeepNotes, host, Untouched
    <2>2. CallLot(c)'
      BY <2>c DEF CallLot, Idle, Await
    <2>3. RecordLot(i)'
      BY <1>0, <2>1 DEF RecordLot, Early, FreeStates, AfterStates, EntryReconcileStates
    <2> QED BY <1>0, <2>c, <2>1, <2>2, <2>3, StartKeepsLotInv
  <1> QED BY <1>1, <1>2, <1>3, <1>4, <1>5 DEF Message

\* A visit of the tick loop starts a recheck only of an entry that was not
\* protected, and looks at a failed protection only of a fill.
LEMMA TickKeepsLotInv ==
  ASSUME Lots = 1, TypeInv, ClaimInv, WorkInv, LotInv, NEW i \in Intents, Tick(i)
  PROVE  LotInv'
  <1> USE DEF TypeInv
  <1>0. /\ "tick" \in Loops /\ call \in [Loops -> Calls] /\ st \in [Intents -> States]
        /\ UNCHANGED <<order, filled, held>> /\ call["tick"] = Idle /\ RecordLot(i)
    BY DEF Tick, ReconcileEntry, RequestCancel, Recheck, RecoverProtected, CheckProtected,
           CheckClosing, exch, Loops, CallType, RecordType, Free, LotInv
  <1>k. ASSUME NEW c, Goto("tick", c), CallLot(c)', UNCHANGED <<record, host>>
        PROVE  LotInv'
    <2>1. \A j \in Intents : Untouched(j) /\ Steady(j)
      BY <1>k DEF record, host, Untouched, Steady
    <2>2. RecordLot(i)'
      BY <1>0, <1>k DEF record, host, RecordLot, Early, Exposed
    <2> QED BY <1>0, <1>k, <2>1, <2>2, StartKeepsLotInv
  <1>1. CASE ReconcileEntry(i)
    <2>c. PICK c : c = Await("entry", "query", i, 0, FALSE)
      OBVIOUS
    <2>1. /\ st[i] \in EntryReconcileStates /\ st'[i] = "reconciling_entry" /\ i \notin io
          /\ UNCHANGED <<why, memo, local, pnl>>
          /\ \A j \in Intents \ {i} : Untouched(j)
      BY <1>0, <1>1 DEF ReconcileEntry, SetState, KeepNotes, host, Untouched, Claim
    <2>2. Goto("tick", c) /\ CallLot(c)'
      BY <1>1, <2>c DEF ReconcileEntry, CallLot, Await
    <2>3. RecordLot(i)'
      BY <1>0, <2>1 DEF RecordLot, Early, FreeStates, AfterStates
    <2> QED BY <1>0, <2>1, <2>2, <2>3, StartKeepsLotInv
  <1>2. CASE RequestCancel("tick", i)
    BY <1>0, <1>2, CancelRequestKeepsLotInv
  <1>3. CASE Recheck(i)
    <2>1. /\ UNCHANGED <<record, host, filled, held>> /\ st[i] = "integrity_required"
          /\ RecheckDue(i)
      BY <1>0, <1>3 DEF Recheck, RecheckDue
    <2>2. CASE ProtectionFailure(i)
      <3>c. PICK c : c = Await("protfail", "position", i, 0, FALSE)
        OBVIOUS
      <3>1. filled[i] > 0
        BY <1>0, <2>2 DEF ProtectionFailure, RecordLot, RecordType, Memos, ExchType,
               ExchangeTypeOK
      <3>2. CallLot(c)' /\ Goto("tick", c)
        BY <1>0, <1>3, <2>2, <3>c, <3>1 DEF CallLot, Await, Recheck
      <3> QED BY <1>k, <2>1, <3>2
    <2>3. CASE ~ProtectionFailure(i)
      <3>c. PICK c : c = Await("recheck", "query", i, 0, FALSE)
        OBVIOUS
      <3>1. why[i] \in EntryReasons /\ Early(i)
        BY <2>1, <2>3 DEF RecheckDue, ProtectionFailure, EntryReasons, Early
      <3>2. CallLot(c)' /\ Goto("tick", c)
        BY <1>0, <1>3, <2>1, <2>3, <3>c, <3>1
           DEF CallLot, Await, Recheck, RecordLot, Unfilled, record, host
      <3> QED BY <1>k, <2>1, <3>2
    <2> QED BY <2>2, <2>3
  <1>4. CASE RecoverProtected(i) \/ CheckProtected(i) \/ CheckClosing(i)
    <2>1. UNCHANGED <<record, host>>
      BY <1>4 DEF RecoverProtected, CheckProtected, CheckClosing
    <2>c. PICK c : /\ Goto("tick", c)
                   /\ c \in {Idle, Await("boot", "position", i, memo[i].qty, FALSE),
                             Await("protected", "position", i, memo[i].qty, FALSE),
                             Await("closing", "position", i, memo[i].qty, memo[i].sent)}
      <3>1. CASE Goto("tick", Idle)
        BY <3>1
      <3>2. CASE ~Goto("tick", Idle)
        BY <1>0, <1>4, <3>2 DEF RecoverProtected, CheckProtected, CheckClosing, Goto
      <3> QED BY <3>1, <3>2
    <2>2. CallLot(c)'
      BY <2>c DEF CallLot, Idle, Await
    <2> QED BY <1>k, <2>1, <2>c, <2>2
  <1> QED BY <1>1, <1>2, <1>3, <1>4 DEF Tick

\* The exchange by itself: an open order has not filled, and its fill is whole.
LEMMA ExchangeKeepsLotInv ==
  ASSUME Lots = 1, TypeInv, FillInv, LotInv, ExchangeStep
  PROVE  LotInv'
  <1> USE DEF TypeInv, ExchType, ExchangeTypeOK
  <1>1. UNCHANGED <<st, why, memo, local, pnl, call>>
    BY DEF ExchangeStep, record, host
  <1>2. PICK i \in Intents : Fill(i) \/ Trigger(i) \/ OrderEnds(i)
    BY DEF ExchangeStep, ExchangeMoves
  <1>t. /\ held \in [Intents -> {0, 1}] /\ filled \in [Intents -> {0, 1}]
        /\ order \in [Intents -> OrderStates] /\ \A j \in Intents : held[j] <= filled[j]
        /\ \A j \in Intents : RecordLot(j)
    BY DEF LotInv
  <1>3. \A j \in Intents :
          \/ /\ filled'[j] = filled[j] /\ (held[j] = 0 => held'[j] = 0)
             /\ order'[j] = "open" => order[j] = "open"
          \/ /\ order[j] = "open" /\ filled[j] = 0
             /\ filled'[j] = 1 /\ order'[j] # "open"
    <2>1. CASE Fill(i)
      <3>1. order[i] = "open" /\ filled[i] = 0
        BY <1>t, <2>1 DEF Fill, RecordLot
      <3>2. filled' = [filled EXCEPT ![i] = 1] /\ order' = [order EXCEPT ![i] = "dead"]
        BY <2>1, <3>1 DEF Fill
      <3>3. \A j \in Intents \ {i} : held'[j] = held[j]
        BY <2>1 DEF Fill
      <3> QED BY <1>t, <3>1, <3>2, <3>3
    <2>2. CASE Trigger(i) \/ OrderEnds(i)
      BY <1>t, <2>2 DEF Trigger, OrderEnds
    <2> QED BY <1>2, <2>1, <2>2
  <1>4. ASSUME NEW a \in Loops
        PROVE  CallLot(call[a])'
    <2>1. /\ CallLot(call[a]) /\ CallFill(call[a]) /\ CallFine(call[a])
          /\ call[a].qty \in {0, 1}
      BY DEF LotInv, FillInv, CallType, Calls
    <2>2. CASE ~Busy(call[a])
      BY <1>1, <2>1, <2>2 DEF CallLot, CallFine, Busy
    <2>3. CASE Busy(call[a])
      <3>1. /\ call[a].i \in Intents /\ (Unfilled(call[a])' <=> Unfilled(call[a]))
        BY <1>1, <2>1, <2>3 DEF CallFine, Unfilled
      <3>2. \/ /\ filled'[call[a].i] = filled[call[a].i]
               /\ held[call[a].i] = 0 => held'[call[a].i] = 0
            \/ filled[call[a].i] = 0 /\ filled'[call[a].i] = 1
        BY <1>3, <3>1
      <3> QED BY <1>1, <2>1, <3>1, <3>2 DEF CallLot, CallFill
    <2> QED BY <2>2, <2>3
  <1>5. ASSUME NEW j \in Intents
        PROVE  RecordLot(j)'
    <2>1. memo[j].qty \in {0, 1}
      BY DEF RecordType, Memos
    <2>2. CASE /\ filled'[j] = filled[j] /\ (held[j] = 0 => held'[j] = 0)
               /\ order'[j] = "open" => order[j] = "open"
      BY <1>1, <1>t, <2>2 DEF RecordLot, Early, Exposed
    <2>3. CASE /\ order[j] = "open" /\ filled[j] = 0
               /\ filled'[j] = 1 /\ order'[j] # "open"
      <3>1. /\ pnl[j] = "none" /\ ~memo[j].queued /\ st[j] \notin FreeStates \cup {"none"}
            /\ local[j] # "v2"
        BY <1>t, <2>3 DEF RecordLot, Exposed
      <3> QED BY <1>1, <1>t, <2>1, <2>3, <3>1 DEF RecordLot, Early, Late
    <2> QED BY <1>3, <2>2, <2>3
  <1> QED BY <1>4, <1>5 DEF LotInv

\* The common books and the final PnL: what they learn is of a fill, a final is
\* found only for a flat position, and it ends the record.
LEMMA BooksKeepLotInv ==
  ASSUME TypeInv, LotInv,
         UNCHANGED <<why, memo, order, filled, held>>,
         \A j \in Intents :
           /\ st'[j] = st[j] \/ (st'[j] = "closed_final" /\ Late(pnl[j]))
           /\ local'[j] = "v2" => local[j] = "v2"
           /\ \/ pnl'[j] = pnl[j]
              \/ pnl[j] = "none" /\ local[j] = "v2" /\ ~Late(pnl'[j])
              \/ pnl[j] # "none" /\ pnl'[j] # "none" /\ (Late(pnl'[j]) => held[j] = 0),
         \A a \in Loops :
           \/ call'[a].goal \in {"idle", "sync"}
           \/ /\ call'[a].goal = call[a].goal /\ call'[a].op = call[a].op
              /\ call'[a].tag = call[a].tag /\ call'[a].i = call[a].i
              /\ call'[a].qty = call[a].qty
  PROVE  LotInv'
  <1> USE DEF TypeInv
  <1>1. ASSUME NEW j \in Intents
        PROVE  RecordLot(j)'
    <2>1. RecordLot(j)
      BY DEF LotInv
    <2>2. CASE st'[j] = "closed_final" /\ Late(pnl[j])
      <3>1. pnl[j] # "none" /\ held[j] = 0 /\ filled[j] > 0
        BY <2>1, <2>2 DEF Late, RecordLot
      <3>2. ~Early(j)' /\ st'[j] # "none" /\ ~Exposed(j)
        BY <2>1, <2>2, <3>1 DEF Early, EntryReconcileStates, Exposed, RecordLot,
               ExchType, ExchangeTypeOK
      <3> QED BY <2>1, <3>1, <3>2 DEF RecordLot, Exposed
    <2>3. CASE st'[j] = st[j]
      BY <2>1, <2>3 DEF RecordLot, Early, Exposed, Late
    <2> QED BY <2>2, <2>3
  <1>2. ASSUME NEW a \in Loops
        PROVE  CallLot(call[a])'
    <2>c. PICK c : c = call[a]
      OBVIOUS
    <2>d. PICK d : d = call'[a]
      OBVIOUS
    <2>1. CallLot(c) /\ CallFine(c) /\ (Busy(c) => c.i \in Intents)
      BY <2>c DEF LotInv, CallType, CallFine
    <2>2. CASE d.goal \in {"idle", "sync"}
      BY <2>d, <2>2 DEF CallLot
    <2>3. CASE d.goal \notin {"idle", "sync"}
      <3>1. /\ d.goal = c.goal /\ d.op = c.op /\ d.tag = c.tag /\ d.i = c.i /\ d.qty = c.qty
            /\ c.i \in Intents
        BY <2>1, <2>2, <2>3, <2>c, <2>d DEF CallFine, Busy
      <3>2. st[c.i] = "integrity_required" /\ pnl[c.i] = "none" => st'[c.i] = st[c.i]
        BY <3>1 DEF Late
      <3>3. Unfilled(d)' <=> Unfilled(c)
        BY <3>1 DEF Unfilled
      <3>4. CallLot(d)'
        BY <2>1, <3>1, <3>2, <3>3 DEF CallLot
      <3> QED BY <2>d, <3>4
    <2> QED BY <2>2, <2>3
  <1> QED BY <1>1, <1>2 DEF LotInv

\* The position sync, a candidate turned away, and the final PnL on its way.
LEMMA HostKeepsLotInv ==
  ASSUME TypeInv, LotInv,
         \/ TurnAway \/ SyncFetch \/ SyncApply \/ Notify
         \/ \E i \in Intents : FinalPnl(i)
  PROVE  LotInv'
  <1> USE DEF TypeInv, CallType, HostType
  <1>0. UNCHANGED <<order, filled, held>> /\ "tick" \in Loops
    BY DEF TurnAway, SyncFetch, SyncApply, Notify, FinalPnl, Resolve, PnlMismatch, DeliverFinal,
           AckFinal, exch, Loops
  <1> DEFINE Same(c, d) == /\ d.goal = c.goal /\ d.op = c.op /\ d.tag = c.tag /\ d.i = c.i
                           /\ d.qty = c.qty
  <1>1. CASE TurnAway
    <2>d. PICK d : d = [call["tick"] EXCEPT !.old = @ \/ call["tick"].op \in {"rest", "verify"}]
      OBVIOUS
    <2>1. Same(call["tick"], d) /\ call' = [call EXCEPT !["tick"] = d]
      BY <1>0, <1>1, <2>d DEF TurnAway, Reload, Calls
    <2>2. \A a \in Loops : Same(call[a], call'[a])
      BY <1>0, <2>1
    <2> QED BY <1>0, <1>1, <2>2, BooksKeepLotInv DEF TurnAway, record, host
  <1>2. CASE SyncFetch
    <2>1. /\ call'["tick"].goal = "sync"
          /\ \A a \in Loops \ {"tick"} : call'[a] = call[a]
      BY <1>0, <1>2 DEF SyncFetch, Goto, Await
    <2> QED BY <1>0, <1>2, <2>1, BooksKeepLotInv DEF SyncFetch, record
  <1>3. CASE SyncApply
    <2>1. /\ call'["tick"].goal = "sync"
          /\ \A a \in Loops \ {"tick"} : call'[a] = call[a]
      BY <1>0, <1>3 DEF SyncApply, Goto, Calls
    <2>2. \A j \in Intents :
            /\ local'[j] = "v2" => local[j] = "v2"
            /\ pnl'[j] = pnl[j] \/ (pnl[j] = "none" /\ local[j] = "v2" /\ pnl'[j] = "memory")
      BY <1>3 DEF SyncApply
    <2> QED BY <1>0, <1>3, <2>1, <2>2, BooksKeepLotInv DEF SyncApply, record, Late
  <1>4. CASE Notify
    <2>1. /\ call'["tick"].goal = "idle"
          /\ \A a \in Loops \ {"tick"} : call'[a] = call[a]
      BY <1>0, <1>4 DEF Notify, Done, Goto, Idle
    <2>2. \A j \in Intents :
            pnl'[j] = pnl[j] \/ (pnl[j] = "memory" /\ pnl'[j] = "pending")
      BY <1>4 DEF Notify
    <2> QED BY <1>0, <1>4, <2>1, <2>2, BooksKeepLotInv DEF Notify, record, Late
  <1>5. ASSUME NEW i \in Intents, Resolve(i) \/ PnlMismatch(i) \/ AckFinal(i)
        PROVE  LotInv'
    <2>1. \A j \in Intents :
            \/ pnl'[j] = pnl[j]
            \/ pnl[j] # "none" /\ pnl'[j] # "none" /\ held[j] = 0
      BY <1>5 DEF Resolve, PnlMismatch, AckFinal, host, LotInv, RecordLot, Late
    <2>2. UNCHANGED <<st, why, memo, call, local>>
      BY <1>5 DEF Resolve, PnlMismatch, AckFinal, record, host
    <2> QED BY <1>0, <2>1, <2>2, BooksKeepLotInv
  <1>6. ASSUME NEW i \in Intents, DeliverFinal(i)
        PROVE  LotInv'
    <2>1. Late(pnl[i]) /\ held[i] = 0
      BY <1>6 DEF DeliverFinal, Late, LotInv, RecordLot
    <2>2. /\ UNCHANGED <<why, memo, call, local>>
          /\ \A j \in Intents \ {i} : st'[j] = st[j] /\ pnl'[j] = pnl[j]
          /\ st'[i] \in {st[i], "closed_final"} /\ pnl'[i] = "handled"
      BY <1>6 DEF DeliverFinal, SetState, RecordType
    <2>3. pnl[i] # "none"
      BY <2>1 DEF Late
    <2> QED BY <1>0, <2>1, <2>2, <2>3, BooksKeepLotInv
  <1> QED BY <1>1, <1>2, <1>3, <1>4, <1>5, <1>6 DEF FinalPnl

\* A crash forgets the handlers; what the records say of the position, recovery
\* finds again.
LEMMA RebootKeepsLotInv ==
  ASSUME TypeInv, LotInv, NEW states \in [Intents -> States], NEW h, Reboot(states, h),
         \A j \in Intents :
           \/ states[j] = st[j] /\ why'[j] = why[j] /\ memo'[j] = memo[j]
           \/ /\ states[j] = "protected" /\ filled[j] > 0 /\ why'[j] = why[j]
              /\ memo'[j].qty <= filled[j] /\ memo'[j].queued = memo[j].queued
           \/ /\ states[j] = "integrity_required" /\ why'[j] \in EntryReasons
              /\ Early(j) /\ memo'[j] = memo[j]
  PROVE  LotInv'
  <1> USE DEF TypeInv, HostType
  <1>1. /\ st' = states /\ UNCHANGED <<order, filled, held, local>>
        /\ call' = [a \in Loops |-> Idle]
        /\ pnl' = [j \in Intents |-> Survives(pnl[j], memo[j].queued)]
    BY DEF Reboot, exch
  <1>2. ASSUME NEW a \in Loops
        PROVE  CallLot(call[a])'
    BY <1>1 DEF CallLot, Idle
  <1>3. ASSUME NEW j \in Intents
        PROVE  RecordLot(j)'
    <2>1. RecordLot(j)
      BY DEF LotInv
    <2>2. /\ pnl'[j] # "none" => pnl[j] # "none" \/ memo[j].queued
          /\ Late(pnl'[j]) => Late(pnl[j])
      BY <1>1 DEF Survives, Late, PnlStates
    <2>3. CASE states[j] = st[j] /\ why'[j] = why[j] /\ memo'[j] = memo[j]
      BY <1>1, <2>1, <2>2, <2>3 DEF RecordLot, Early, Exposed
    <2>4. CASE /\ states[j] = "protected" /\ filled[j] > 0 /\ why'[j] = why[j]
               /\ memo'[j].qty <= filled[j] /\ memo'[j].queued = memo[j].queued
      BY <1>1, <2>1, <2>2, <2>4
         DEF RecordLot, Early, FreeStates, AfterStates, EntryReconcileStates
    <2>5. CASE /\ states[j] = "integrity_required" /\ why'[j] \in EntryReasons
               /\ Early(j) /\ memo'[j] = memo[j]
      BY <1>1, <2>1, <2>2, <2>5
         DEF RecordLot, EntryReasons, FreeStates, AfterStates
    <2> QED BY <2>3, <2>4, <2>5
  <1> QED BY <1>2, <1>3 DEF LotInv

\* A crash between the appends of a fill, or of a failed look-up.
LEMMA CutShortKeepsLotInv ==
  ASSUME Lots = 1, TypeInv, FillInv, WorkInv, LotInv, NEW a \in Loops, CutShort(a)
  PROVE  LotInv'
  <1>y. PICK c : c = call[a]
    OBVIOUS
  <1>w. PICK i : i = c.i
    OBVIOUS
  <1> USE <1>y, <1>w DEF TypeInv, RecordType
  <1>1. /\ Busy(c) /\ i \in Intents /\ CallWork(c) /\ CallLot(c) /\ CallFill(c) /\ RecordLot(i)
        /\ c.tag # "none" /\ memo[i] \in Memos /\ c.qty \in Nat /\ filled[i] \in Nat
    BY LotsAssumption DEF CutShort, Resumes, Busy, CallType, CallFine, WorkInv, LotInv, FillInv,
           ExchType, ExchangeTypeOK, Calls
  <1>2. CASE /\ Resumes(a, {"entry", "recheck"}, "verify") /\ c.tag = "complete"
             /\ Reboot([st EXCEPT ![i] = "protected"], halt)
             /\ SetMemo(i, [memo[i] EXCEPT !.qty = c.qty]) /\ UNCHANGED why
    <2>s. PICK s : s = [st EXCEPT ![i] = "protected"]
      OBVIOUS
    <2>m. PICK m : m = [memo[i] EXCEPT !.qty = c.qty]
      OBVIOUS
    <2>1. /\ s \in [Intents -> States] /\ s[i] = "protected"
          /\ \A j \in Intents \ {i} : s[j] = st[j]
      BY <1>1, <2>s, StateNames
    <2>2. m.qty = c.qty /\ m.queued = memo[i].queued
      BY <1>1, <2>m DEF Memos
    <2>3. memo' = [memo EXCEPT ![i] = m] /\ why' = why /\ Reboot(s, halt)
      BY <1>2, <2>s, <2>m DEF SetMemo
    <2>4. c.qty <= filled[i] /\ filled[i] > 0
      BY <1>1, <1>2 DEF Resumes, CallFill, CallLot
    <2> QED BY <1>1, <2>1, <2>2, <2>3, <2>4, RebootKeepsLotInv
  <1>3. ASSUME NEW r \in EntryReasons, c.goal = "entry", why' = [why EXCEPT ![i] = r],
               Reboot([st EXCEPT ![i] = "integrity_required"], halt), UNCHANGED memo
        PROVE  LotInv'
    <2>s. PICK s : s = [st EXCEPT ![i] = "integrity_required"]
      OBVIOUS
    <2>1. /\ s \in [Intents -> States] /\ s[i] = "integrity_required"
          /\ \A j \in Intents \ {i} : s[j] = st[j]
      BY <1>1, <2>s, StateNames
    <2>2. Early(i)
      BY <1>1, <1>3 DEF CallWork, Early
    <2>3. why'[i] \in EntryReasons /\ \A j \in Intents \ {i} : why'[j] = why[j]
      BY <1>1, <1>3
    <2>4. memo' = memo /\ Reboot(s, halt)
      BY <1>3, <2>s
    <2> QED BY <1>1, <2>1, <2>2, <2>3, <2>4, RebootKeepsLotInv
  <1> QED BY <1>2, <1>3 DEF CutShort, Resumes, EntryReasons, RecheckReasons

\* LotInv is inductive, given the other invariants, when an entry fills whole.
LEMMA LotStep ==
  ASSUME Lots = 1
  PROVE  /\ TypeInv /\ ClaimInv /\ EntryInv /\ FillInv /\ WorkInv /\ LotInv /\ [Next]_vars
         => LotInv'
  <1> SUFFICES ASSUME TypeInv, ClaimInv, EntryInv, FillInv, WorkInv, LotInv, [Next]_vars
               PROVE  LotInv'
    OBVIOUS
  <1>1. CASE Crash
    BY <1>1, RebootKeepsLotInv DEF Crash, TypeInv, RecordType
  <1>2. CASE UNCHANGED vars
    <2>1. UNCHANGED <<st, why, memo, local, pnl, order, filled, held, call>>
      BY <1>2 DEF vars, record, host, exch
    <2>2. \A a \in Loops : CallLot(call[a])'
      BY <2>1 DEF LotInv, CallLot, Unfilled
    <2>3. \A i \in Intents : RecordLot(i)'
      BY <2>1 DEF LotInv, RecordLot, Early, Exposed
    <2> QED BY <2>2, <2>3 DEF LotInv
  <1> QED BY <1>1, <1>2, HandlerKeepsLotInv, PrimitiveKeepsLotInv, MessageKeepsLotInv,
             TickKeepsLotInv, HostKeepsLotInv, ExchangeKeepsLotInv, CutShortKeepsLotInv DEF Next

\* Nothing is known of any position when the program starts.
LEMMA LotInit == Init => LotInv
  <1> SUFFICES ASSUME Init
               PROVE  LotInv
    OBVIOUS
  <1>1. \A a \in Loops : CallLot(call[a])
    BY DEF Init, CallLot, Idle
  <1>2. ASSUME NEW i \in Intents
        PROVE  RecordLot(i)
    <2>1. /\ st[i] = "none" /\ why[i] = "none" /\ memo[i].qty = 0 /\ memo[i].queued = FALSE
          /\ local[i] = "none" /\ pnl[i] = "none"
          /\ order[i] = "none" /\ filled[i] = 0 /\ held[i] = 0
      BY DEF Init, ExchangeInit, BlankMemo
    <2> QED BY <2>1 DEF RecordLot, Exposed, AfterStates, Late
  <1> QED BY <1>1, <1>2 DEF LotInv

\* The invariants of a lane whose entries fill whole or not at all.
WholeInv == TypeInv /\ ClaimInv /\ EntryInv /\ FillInv /\ WorkInv /\ LotInv

LEMMA WholeInvHolds ==
  ASSUME Lots = 1
  PROVE  Spec => []WholeInv
  BY LotInit, LotStep, TypeInit, TypeStep, ClaimInit, ClaimStep, EntryInit, EntryStep,
     FillInit, FillStep, WorkInit, WorkStep, PTL DEF Spec, WholeInv

\* An intent with a live order or an open position holds a slot, and only its
\* record gives the slot back: no cancel that was not proven, no answer that came
\* late and no stale handler frees it (_terminalize, _mark_exchange_closed,
\* handle_pnl_resolution).
THEOREM SlotsCoverExposure ==
  ASSUME Lots = 1
  PROVE  Spec => []SlotCoversExposure
  <1>1. WholeInv => SlotCoversExposure
    BY DEF WholeInv, TypeInv, RecordType, LotInv, RecordLot, SlotCoversExposure, States
  <1> QED BY <1>1, WholeInvHolds, PTL

\* What happens to a record that gave its slot back.
LEMMA FreedStaysFreed ==
  ASSUME Lots = 1, WholeInv, Next, NEW i \in Intents, st[i] \in FreeStates
  PROVE  /\ st'[i] \notin EntryReconcileStates \cup {"none", "ready_for_quote"}
         /\ st[i] = "entry_terminal" => st'[i] = "entry_terminal"
  <1> USE DEF WholeInv, TypeInv, RecordType
  <1>s. st[i] \notin EntryReconcileStates \cup {"none", "ready_for_quote", "protected",
                                                "closing", "integrity_required"}
    BY DEF FreeStates, EntryReconcileStates
  <1>1. ASSUME NEW a \in Loops, Handler(a)
        PROVE  /\ st'[i] \notin EntryReconcileStates \cup {"none", "ready_for_quote"}
               /\ st[i] = "entry_terminal" => st'[i] = "entry_terminal"
    <2>1. CASE i # call[a].i
      BY <1>1, <1>s, <2>1, HandlerKeepsWorkInv
    <2>2. CASE i = call[a].i
      <3>1. st'[i] \notin {"none", "ready_for_quote"}
        BY <1>1, <1>s, HandlerAges DEF Ages, Fresh
      <3>2. st[i] # "entry_terminal"
        BY <1>1, <2>2, HandlerBusy, NobodyWorks, <1>s
           DEF WorkInv, CallWork, CallType, CallFine, Calls, Goals, Busy, AfterStates, Aftercare
      <3> QED BY <1>1, <2>2, <3>1, <3>2, HandlerKeepsLotInv
    <2> QED BY <2>1, <2>2
  <1>2. ASSUME NEW a \in Loops, CutShort(a)
        PROVE  st'[i] = st[i]
    <2>1. /\ st[call[a].i] \in EntryReconcileStates
          /\ \E s : st' = [st EXCEPT ![call[a].i] = s]
      BY <1>2 DEF CutShort, Resumes, Reboot, WorkInv, CallWork, Looking, EntryReconcileStates
    <2> QED BY <1>s, <2>1
  <1>3. ASSUME NEW j \in Intents, Message(j) \/ Tick(j)
        PROVE  st'[i] = st[i]
    <2>1. CASE Message(j)
      BY <1>s, <2>1 DEF Message, Admit, Eligible, DropReady, StartEntry, RequestCancel,
             CloseForSafety, BeginClose, Terminalize, SetState
    <2>2. CASE Tick(j)
      BY <1>s, <2>2 DEF Tick, ReconcileEntry, RequestCancel, Recheck, RecoverProtected,
             CheckProtected, CheckClosing, SetState, record
    <2> QED BY <1>3, <2>1, <2>2
  <1>4. ASSUME NEW j \in Intents, FinalPnl(j)
        PROVE  st'[i] = st[i] \/ (st'[i] = "closed_final" /\ st[i] # "entry_terminal")
    BY <1>4 DEF FinalPnl, Resolve, PnlMismatch, DeliverFinal, AckFinal, record, SetState
  <1>5. CASE \/ \E a \in Loops : Exchange(a)
             \/ TurnAway \/ SyncFetch \/ SyncApply \/ Notify \/ Crash \/ ExchangeStep
    BY <1>5, <1>s DEF Exchange, TurnAway, SyncFetch, SyncApply, Notify, Crash, Reboot, ExchangeStep,
           record
  <1> QED BY <1>1, <1>2, <1>3, <1>4, <1>5, <1>s DEF Next, EntryReconcileStates

\* No signal is let in over a halt, and no record that gave its slot back becomes
\* an entry again, whichever handler was under way when it was freed (can_open;
\* _recheck_entry_integrity_halt, _settle_live_fill).
THEOREM LaneAdmitsSoundly ==
  ASSUME Lots = 1
  PROVE  Spec => AdmissionSound
  <1> DEFINE Freed == \A i \in Intents : st[i] \in FreeStates =>
                        st'[i] \notin EntryReconcileStates \cup {"none", "ready_for_quote"}
  <1>1. WholeInv /\ [Next]_vars => [Freed]_vars
    BY FreedStaysFreed
  <1> QED BY <1>1, AdmissionReadsTheHalt, WholeInvHolds, PTL
          DEF Spec, AdmissionSound, TerminalNeverRetried

\* A position that is over does not come back.
LEMMA OverStaysOver ==
  ASSUME Lots = 1, WholeInv, Next, NEW i \in Intents, Over(i)
  PROVE  Over(i)'
  <1> USE DEF WholeInv, TypeInv, ExchType, ExchangeTypeOK
  <1>1. order[i] # "open"
    BY DEF LotInv, RecordLot, Over
  <1>2. ASSUME NEW a \in Loops, Exchange(a)
        PROVE  filled' = filled /\ held'[i] = 0
    <2>1. PICK d : Performs(call[a], d) /\ d.i = call[a].i /\ d.tag \in Tags \ {"none"}
      BY <1>2, PrimitiveAnswers
    <2>2. CASE ClosePosition(d.i, call[a].qty, d.tag)
      <3>1. PICK h : /\ h = IF held[d.i] > call[a].qty THEN held[d.i] - call[a].qty ELSE 0
                     /\ filled' = filled /\ (held' = held \/ held' = [held EXCEPT ![d.i] = h])
        BY <2>2 DEF ClosePosition
      <3>2. call[a].qty \in Nat /\ held[i] = 0
        BY LotsAssumption DEF CallType, Calls, Over
      <3> QED BY <3>1, <3>2
    <2>3. CASE ~ClosePosition(d.i, call[a].qty, d.tag)
      BY <2>1, <2>3 DEF Performs, SubmitEntry, QueryEntry, CancelEntry, VerifyProtection,
             FetchPosition, CancelProtection, Over
    <2> QED BY <2>2, <2>3
  <1>3. CASE ExchangeStep
    BY <1>1, <1>3 DEF ExchangeStep, ExchangeMoves, Fill, Trigger, OrderEnds, Over
  <1>4. CASE UNCHANGED exch
    BY <1>4 DEF exch, Over
  <1> QED BY <1>2, <1>3, <1>4, ExchangeChanges DEF Over

\* Only an admission occupies a slot.
LEMMA OccupiedGrows ==
  ASSUME Lots = 1, WholeInv, Next, NEW i \in Intents, i \notin Occupied, i \in Occupied'
  PROVE  Admit(i)
  <1>1. st'[i] \in SlotStates /\ ~Over(i)'
    BY DEF Occupied
  <1>2. ~Over(i)
    BY <1>1, OverStaysOver
  <1>3. st[i] \in {"none"} \cup FreeStates
    BY <1>2 DEF Occupied, WholeInv, TypeInv, RecordType, States
  <1>4. CASE st[i] = "none"
    BY <1>1, <1>4, AdmissionOnly DEF WholeInv, SlotStates, EntryReconcileStates
  <1>5. CASE st[i] \in FreeStates
    <2>1. st[i] = "entry_terminal"
      <3>1. ~Exposed(i) /\ (st[i] \in AfterStates => filled[i] > 0)
        BY <1>5 DEF WholeInv, LotInv, RecordLot
      <3> QED BY <1>2, <1>5, <3>1 DEF Exposed, Over, FreeStates, AfterStates
    <2> QED BY <1>1, <1>5, <2>1, FreedStaysFreed DEF SlotStates, EntryReconcileStates
  <1> QED BY <1>3, <1>4, <1>5

\* Finitely many intents are admitted, and no more than the slots are occupied.
Admitted == {i \in Intents : st[i] # "none"}
SlotInv == IsFiniteSet(Admitted) /\ Cardinality(Occupied) <= MaxConcurrent

LEMMA SlotStep ==
  ASSUME Lots = 1
  PROVE  WholeInv /\ SlotInv /\ [Next]_vars => SlotInv'
  <1> SUFFICES ASSUME WholeInv, SlotInv, [Next]_vars
               PROVE  SlotInv'
    OBVIOUS
  <1>1. CASE UNCHANGED vars
    <2>1. Admitted' = Admitted /\ Occupied' = Occupied
      BY <1>1 DEF vars, record, exch, Admitted, Occupied, Over
    <2> QED BY <2>1 DEF SlotInv
  <1>2. Occupied \subseteq Admitted /\ IsFiniteSet(Occupied)
    <2>1. Occupied \subseteq Admitted
      BY DEF Occupied, Admitted, SlotStates, EntryReconcileStates
    <2> QED BY <2>1, FS_Subset DEF SlotInv
  <1>3. ASSUME NEW i \in Intents, Admit(i), Next
        PROVE  SlotInv'
    <2>1. PICK S : S = {j \in Intents : st[j] \in SlotStates}
      OBVIOUS
    <2>2. /\ st[i] = "none" /\ st'[i] = "ready_for_quote"
          /\ \A j \in Intents \ {i} : st'[j] = st[j]
          /\ UNCHANGED <<filled, held>> /\ Cardinality(S) < MaxConcurrent
      BY <1>3, <2>1 DEF Admit, Eligible, SetState, exch, SlotCount, WholeInv, TypeInv, RecordType
    <2>3. Admitted' = Admitted \cup {i} /\ Occupied' \subseteq S \cup {i} /\ S \subseteq Admitted
      BY <2>1, <2>2 DEF Admitted, Occupied, SlotStates, EntryReconcileStates
    <2>4. IsFiniteSet(S) /\ Cardinality(S) \in Nat
      BY <2>3, FS_Subset, FS_CardinalityType DEF SlotInv
    <2>5. /\ IsFiniteSet(Admitted') /\ IsFiniteSet(S \cup {i})
          /\ Cardinality(S \cup {i}) \in Nat /\ Cardinality(S \cup {i}) <= Cardinality(S) + 1
      <3>1. Cardinality(S \cup {i}) = IF i \in S THEN Cardinality(S) ELSE Cardinality(S) + 1
        BY <2>4, FS_AddElement
      <3>2. IsFiniteSet(Admitted \cup {i}) /\ IsFiniteSet(S \cup {i})
        BY <2>4, FS_AddElement DEF SlotInv
      <3> QED BY <2>3, <2>4, <3>1, <3>2
    <2>6. Cardinality(Occupied') <= Cardinality(S \cup {i}) /\ Cardinality(Occupied') \in Nat
      BY <2>3, <2>5, FS_Subset, FS_CardinalityType
    <2> QED BY <2>2, <2>4, <2>5, <2>6, SlotAssumption DEF SlotInv
  <1>4. CASE Next /\ \A i \in Intents : ~Admit(i)
    <2>1. Occupied' \subseteq Occupied
      BY <1>4, OccupiedGrows DEF Occupied
    <2>2. Admitted' \subseteq Admitted
      BY <1>4, AdmissionOnly DEF Admitted, WholeInv
    <2>3. IsFiniteSet(Admitted')
      BY <2>2, FS_Subset DEF SlotInv
    <2>4. /\ Cardinality(Occupied') <= Cardinality(Occupied)
          /\ Cardinality(Occupied') \in Nat /\ Cardinality(Occupied) \in Nat
      BY <1>2, <2>1, FS_Subset, FS_CardinalityType
    <2> QED BY <2>3, <2>4, SlotAssumption DEF SlotInv
  <1> QED BY <1>1, <1>3, <1>4

LEMMA SlotInit == Init => SlotInv
  <1> SUFFICES ASSUME Init
               PROVE  SlotInv
    OBVIOUS
  <1>1. Admitted = {} /\ Occupied = {}
    BY DEF Init, Admitted, Occupied, SlotStates, EntryReconcileStates
  <1> QED BY <1>1, FS_EmptySet, SlotAssumption DEF SlotInv

\* The lane never has more live orders and open positions than slots, although
\* admission counts records and never looks at the exchange (can_open, with the
\* records of _active_slot_count).
THEOREM ExposureStaysBounded ==
  ASSUME Lots = 1
  PROVE  Spec => []ExposureBounded
  <1>1. WholeInv /\ SlotInv => ExposureBounded
    <2> SUFFICES ASSUME WholeInv, SlotInv
                 PROVE  ExposureBounded
      OBVIOUS
    <2>1. PICK E : E = {i \in Intents : Exposed(i)}
      OBVIOUS
    <2>2. E \subseteq Occupied
      <3>1. ASSUME NEW i \in Intents, Exposed(i)
            PROVE  st[i] \in SlotStates /\ ~Over(i)
        BY <3>1 DEF WholeInv, TypeInv, RecordType, LotInv, RecordLot, States, Exposed, Over,
               ExchType, ExchangeTypeOK
      <3> QED BY <2>1, <3>1 DEF Occupied
    <2>3. Occupied \subseteq Admitted
      BY DEF Occupied, Admitted, SlotStates, EntryReconcileStates
    <2>4. IsFiniteSet(Occupied)
      BY <2>3, FS_Subset DEF SlotInv
    <2>5. /\ Cardinality(E) <= Cardinality(Occupied)
          /\ Cardinality(E) \in Nat /\ Cardinality(Occupied) \in Nat
      BY <2>2, <2>4, FS_Subset, FS_CardinalityType
    <2> QED BY <2>1, <2>5, SlotAssumption DEF SlotInv, ExposureBounded
  <1> QED BY <1>1, SlotInit, SlotStep, WholeInvHolds, PTL DEF Spec
====
