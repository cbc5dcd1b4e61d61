--------------------------- MODULE MainLaneProofs ---------------------------
(* Proofs about the main lane.  MainPosition, for any lot, cap and bounds: what *)
(* the record of a position claims is so (RecordHonest).  ExitLadder, for any   *)
(* prices, plans, range and bounds: the stop is never below what the ladder has *)
(* earned, in the record, the file and the exchange (StopsAgree), and between   *)
(* two levels it only rises (StopHolds).                                        *)
EXTENDS MCMainLane, SequenceTheorems, TLAPS

-----------------------------------------------------------------------------
(* The invariant.                                                             *)

Records == [born : Nat, qty : Int, sl : Nat,
            prot : {"none", "unprotected", "unknown", "protected"}, tp : Nat]
Works == [at : Steps, born : Nat, old : Int, qty : Int, sl : Nat, tp : Nat]

\* A record is the youngest there is, and its levels were sold.
GoodRecord(p, born, exits) ==
    p \in Records /\ (p = NoPos \/ p.born = born) /\ p.tp <= exits

\* Who works on the youngest takes the next level at most; who is idle, none.
GoodWork(w, born, exits) ==
    /\ w \in Works /\ w.born <= born
    /\ w.at = "idle" => w = Idle
    /\ w.born = born => w.tp <= exits + 1

Numbers ==
    /\ held \in Int /\ resting \in Int
    /\ births \in Nat /\ placed \in Nat /\ sold \in Nat
    /\ stops \subseteq [id : Nat, qty : Int]

GoodWorks == op \in [Threads -> Works] /\ \A t \in Threads : GoodWork(op[t], births, sold)
HonestInv == Numbers /\ GoodRecord(pos, births, sold) /\ GoodWorks /\ UnknownIsHalted

-----------------------------------------------------------------------------
(* What a step does to the threads and to the record.                         *)

\* Time passes for the threads that are left alone: exits are counted, or a
\* record is born.
Passes ==
    /\ births' \in Nat
    /\ sold' \in Nat
    /\ \/ births' = births /\ sold' >= sold
       \/ births' > births

\* One thread goes on with what it works on, at a step of its own.
GoesOn(t) ==
    /\ op' \in [Threads -> Works]
    /\ \A u \in Threads \ {t} : op'[u] = op[u]
    /\ op'[t].at # "idle"

LEMMA OthersStay ==
    ASSUME GoodWorks, Numbers, Passes, NEW u \in Threads, op'[u] = op[u]
    PROVE  GoodWork(op'[u], births', sold')
  <1>1. op[u] \in Works /\ GoodWork(op[u], births, sold)  BY DEF GoodWorks
  <1> QED  BY <1>1 DEF GoodWork, Works, Numbers, Passes

LEMMA ThreadGoesOn ==
    ASSUME GoodWorks, Numbers, Passes, NEW t \in Threads, GoesOn(t),
           op'[t].born = op[t].born, op'[t].tp \in {op[t].tp, 0}
    PROVE  GoodWorks'
  <1>1. op[t] \in Works /\ GoodWork(op[t], births, sold) /\ op'[t] \in Works
    BY DEF GoodWorks, GoesOn
  <1>2. GoodWork(op'[t], births', sold')
    BY <1>1 DEF GoodWork, Works, Numbers, Passes, GoesOn
  <1>3. \A u \in Threads \ {t} : GoodWork(op'[u], births', sold')
    BY OthersStay DEF GoesOn
  <1> QED  BY <1>2, <1>3 DEF GoodWorks, GoesOn

\* It takes the record there is, for the next level at most.
LEMMA ThreadTakesRecord ==
    ASSUME GoodWorks, Numbers, Passes, NEW t \in Threads, GoesOn(t),
           op'[t].born <= births', op'[t].tp <= sold' + 1
    PROVE  GoodWorks'
  <1>1. op'[t] \in Works  BY DEF GoesOn
  <1>2. GoodWork(op'[t], births', sold')
    BY <1>1 DEF GoodWork, GoesOn
  <1>3. \A u \in Threads \ {t} : GoodWork(op'[u], births', sold')
    BY OthersStay DEF GoesOn
  <1> QED  BY <1>2, <1>3 DEF GoodWorks, GoesOn

LEMMA IdleWork == Idle \in Works
  BY DEF Idle, Works, Steps

LEMMA IdleIsGood ==
    ASSUME NEW b \in Nat, NEW s \in Nat
    PROVE  GoodWork(Idle, b, s)
  BY IdleWork DEF GoodWork, Idle

LEMMA ThreadIsDone ==
    ASSUME GoodWorks, Numbers, Passes, NEW t \in Threads, Done(t)
    PROVE  GoodWorks'
  <1>1. op' \in [Threads -> Works] /\ op'[t] = Idle /\ \A u \in Threads \ {t} : op'[u] = op[u]
    BY IdleWork DEF Done, GoodWorks
  <1>0. GoodWork(Idle, births', sold')
    BY IdleIsGood DEF Passes
  <1>2. GoodWork(op'[t], births', sold')
    BY <1>0, <1>1
  <1>3. \A u \in Threads \ {t} : GoodWork(op'[u], births', sold')
    BY <1>1, OthersStay
  <1> QED  BY <1>1, <1>2, <1>3 DEF GoodWorks

LEMMA NoThreadMoves ==
    ASSUME GoodWorks, Numbers, Passes, op' = op
    PROVE  GoodWorks'
  <1>1. \A u \in Threads : GoodWork(op'[u], births', sold')
    BY OthersStay
  <1> QED  BY <1>1 DEF GoodWorks

-----------------------------------------------------------------------------
(* What the program writes into the work of a thread and into the record.     *)

At(w, step) == [w EXCEPT !.at = step]
Swapping(w, step, q, o, l) == [w EXCEPT !.at = step, !.qty = q, !.old = o, !.tp = l]
Carrying(w, step, q) == [w EXCEPT !.at = step, !.qty = q]
Aiming(w, step, id) == [w EXCEPT !.at = step, !.sl = id]

LEMMA ToIsWork ==
    ASSUME NEW w \in Works, NEW step \in Steps
    PROVE  /\ At(w, step) \in Works /\ At(w, step).at = step
           /\ At(w, step).born = w.born /\ At(w, step).tp = w.tp
  BY DEF At, Works

LEMMA SwappingIsWork ==
    ASSUME NEW w \in Works, NEW step \in Steps, NEW q \in Int, NEW o \in Int, NEW l \in Nat
    PROVE  /\ Swapping(w, step, q, o, l) \in Works /\ Swapping(w, step, q, o, l).at = step
           /\ Swapping(w, step, q, o, l).born = w.born /\ Swapping(w, step, q, o, l).tp = l
  <1>1. Swapping(w, step, q, o, l) \in Works  BY DEF Swapping, Works
  <1>2. /\ Swapping(w, step, q, o, l).at = step
        /\ Swapping(w, step, q, o, l).born = w.born /\ Swapping(w, step, q, o, l).tp = l
    BY DEF Swapping, Works
  <1> QED  BY <1>1, <1>2

LEMMA CarryingIsWork ==
    ASSUME NEW w \in Works, NEW step \in Steps, NEW q \in Int
    PROVE  /\ Carrying(w, step, q) \in Works /\ Carrying(w, step, q).at = step
           /\ Carrying(w, step, q).born = w.born /\ Carrying(w, step, q).tp = w.tp
  BY DEF Carrying, Works

LEMMA AimingIsWork ==
    ASSUME NEW w \in Works, NEW step \in Steps, NEW id \in Nat
    PROVE  /\ Aiming(w, step, id) \in Works /\ Aiming(w, step, id).at = step
           /\ Aiming(w, step, id).born = w.born /\ Aiming(w, step, id).tp = w.tp
  BY DEF Aiming, Works

\* Begins to replace the stop of a record, or to leave it.
Moving(w, born, q, id) == [w EXCEPT !.at = "cancel", !.born = born, !.qty = q, !.sl = id]
Leaving(step, born, q, id, l) ==
    [Idle EXCEPT !.at = step, !.born = born, !.old = q, !.sl = id, !.tp = l]

LEMMA MovingIsWork ==
    ASSUME NEW w \in Works, NEW b \in Nat, NEW q \in Int, NEW id \in Nat
    PROVE  /\ Moving(w, b, q, id) \in Works /\ Moving(w, b, q, id).at = "cancel"
           /\ Moving(w, b, q, id).born = b /\ Moving(w, b, q, id).tp = w.tp
  <1>0. "cancel" \in Steps  BY DEF Steps
  <1>1. Moving(w, b, q, id) \in Works  BY <1>0 DEF Moving, Works
  <1>2. /\ Moving(w, b, q, id).at = "cancel"
        /\ Moving(w, b, q, id).born = b /\ Moving(w, b, q, id).tp = w.tp
    BY DEF Moving, Works
  <1> QED  BY <1>1, <1>2


\* A thread that goes on, by what is written into its work.
LEMMA WriteGoesOn ==
    ASSUME GoodWorks, NEW t \in Threads, NEW w \in Works, op' = [op EXCEPT ![t] = w],
           w.at # "idle"
    PROVE  GoesOn(t) /\ op'[t] = w
  BY DEF GoodWorks, GoesOn

LEMMA ThreadWrites ==
    ASSUME GoodWorks, Numbers, Passes, NEW t \in Threads, NEW w \in Works,
           op' = [op EXCEPT ![t] = w], w.at # "idle",
           w.born = op[t].born, w.tp \in {op[t].tp, 0}
    PROVE  GoodWorks'
  <1>1. GoesOn(t) /\ op'[t] = w  BY WriteGoesOn
  <1> QED  BY <1>1, ThreadGoesOn

LEMMA ThreadBegins ==
    ASSUME GoodWorks, Numbers, Passes, NEW t \in Threads, NEW w \in Works,
           op' = [op EXCEPT ![t] = w], w.at # "idle", w.born <= births', w.tp <= sold' + 1
    PROVE  GoodWorks'
  <1>1. GoesOn(t) /\ op'[t] = w  BY WriteGoesOn
  <1> QED  BY <1>1, ThreadTakesRecord

\* What is written into the record, one field or two.
Sized(p, q) == [p EXCEPT !.qty = q]
Levelled(p, q, l) == [p EXCEPT !.qty = q, !.tp = l]
Doubted(p) == [p EXCEPT !.prot = "unknown"]
Bare(p) == [p EXCEPT !.sl = 0]
Stopped(p, id, known) == [p EXCEPT !.sl = id, !.prot = known]

LEMMA SizedIsRecord ==
    ASSUME NEW p \in Records, NEW q \in Int
    PROVE  /\ Sized(p, q) \in Records /\ Sized(p, q).born = p.born
           /\ Sized(p, q).tp = p.tp /\ Sized(p, q).prot = p.prot
  BY DEF Sized, Records

LEMMA LevelledIsRecord ==
    ASSUME NEW p \in Records, NEW q \in Int, NEW l \in Nat
    PROVE  /\ Levelled(p, q, l) \in Records /\ Levelled(p, q, l).born = p.born
           /\ Levelled(p, q, l).tp = l /\ Levelled(p, q, l).prot = p.prot
  BY DEF Levelled, Records

LEMMA DoubtedIsRecord ==
    ASSUME NEW p \in Records
    PROVE  Doubted(p) \in Records /\ Doubted(p).born = p.born /\ Doubted(p).tp = p.tp
  BY DEF Doubted, Records

LEMMA BareIsRecord ==
    ASSUME NEW p \in Records
    PROVE  /\ Bare(p) \in Records /\ Bare(p).born = p.born
           /\ Bare(p).tp = p.tp /\ Bare(p).prot = p.prot
  BY DEF Bare, Records

LEMMA StoppedIsRecord ==
    ASSUME NEW p \in Records, NEW id \in Nat, NEW known \in {"unknown", "protected"}
    PROVE  /\ Stopped(p, id, known) \in Records /\ Stopped(p, id, known).born = p.born
           /\ Stopped(p, id, known).tp = p.tp /\ Stopped(p, id, known).prot = known
  <1>1. Stopped(p, id, known) \in Records  BY DEF Stopped, Records
  <1>2. /\ Stopped(p, id, known).born = p.born
        /\ Stopped(p, id, known).tp = p.tp /\ Stopped(p, id, known).prot = known
    BY DEF Stopped, Records
  <1> QED  BY <1>1, <1>2

\* A record that is changed in place, or dropped.
LEMMA RecordStays ==
    ASSUME GoodRecord(pos, births, sold), Numbers, births' = births, sold' \in Nat, sold' >= sold,
           \/ pos' \in {pos, NoPos}
           \/ pos' \in Records /\ pos # NoPos /\ pos'.born = pos.born /\ pos'.tp <= sold'
    PROVE  GoodRecord(pos, births, sold)'
  <1>1. CASE pos' = pos  BY <1>1 DEF GoodRecord, Records, Numbers
  <1>2. CASE pos' = NoPos  BY <1>2 DEF GoodRecord, Records, NoPos
  <1>3. CASE pos' \in Records /\ pos # NoPos /\ pos'.born = pos.born /\ pos'.tp <= sold'
    BY <1>3 DEF GoodRecord, Records
  <1> QED  BY <1>1, <1>2, <1>3

\* The halt stands unless the protection is known or the record is gone.
LEMMA HaltStays ==
    ASSUME UnknownIsHalted, synced' = synced, halt' \in {halt, "lost", "trade"},
           \/ pos' = NoPos \/ pos' = pos \/ pos'.prot = pos.prot
           \/ pos'.prot # "unknown" \/ halt' # "no"
    PROVE  UnknownIsHalted'
  BY DEF UnknownIsHalted, Has, NoPos

\* A step that leaves the record, its halt and its history alone.
LEMMA AsideKeeps ==
    ASSUME HonestInv, Numbers', GoodWorks', UNCHANGED <<pos, births, halt, sold, synced>>
    PROVE  HonestInv'
  BY DEF HonestInv, UnknownIsHalted, Has

\* A step that drops the record at most.
LEMMA DropKeeps ==
    ASSUME HonestInv, Numbers', GoodWorks', births' = births, sold' \in {sold, sold + 1},
           synced' = synced, halt' \in {halt, "lost", "trade"}, pos' \in {pos, NoPos}
    PROVE  HonestInv'
  <1>1. GoodRecord(pos, births, sold)'  BY RecordStays DEF HonestInv, Numbers
  <1>2. UnknownIsHalted'  BY HaltStays DEF HonestInv
  <1> QED  BY <1>1, <1>2 DEF HonestInv

\* A step that writes to the record what a thread holds of it.
LEMMA WriteKeeps ==
    ASSUME HonestInv, Numbers', GoodWorks', births' = births, sold' = sold,
           synced' = synced, halt' \in {halt, "lost", "trade"},
           NEW t \in Threads, NEW rec \in Records, Write(t, rec),
           rec.born = pos.born, rec.tp = pos.tp,
           rec.prot = pos.prot \/ rec.prot # "unknown" \/ halt' # "no"
    PROVE  HonestInv'
  <1>1. pos' = pos \/ (pos' = rec /\ pos # NoPos)  BY DEF Write, Mine, Has
  <1>2. pos.tp <= sold  BY DEF HonestInv, GoodRecord
  <1>3. GoodRecord(pos, births, sold)'
    BY <1>1, <1>2, RecordStays DEF HonestInv, Numbers
  <1>4. UnknownIsHalted'  BY <1>1, HaltStays DEF HonestInv
  <1> QED  BY <1>3, <1>4 DEF HonestInv

-----------------------------------------------------------------------------
(* One lemma for each step of the program and of the exchange.                *)

LEMMA Starts == ASSUME Lot \in Int, Init  PROVE  HonestInv
  <1>1. op = [t \in Threads |-> Idle]  BY DEF Init
  <1>2. Numbers  BY DEF Init, Numbers
  <1>3. GoodWorks
    <2>1. GoodWork(Idle, births, sold)
      BY <1>2, IdleWork DEF Init, GoodWork, Idle, Numbers
    <2> QED  BY <1>1, <2>1, IdleWork DEF GoodWorks
  <1>4. GoodRecord(pos, births, sold)
    BY DEF Init, GoodRecord, Records, NoPos
  <1>5. UnknownIsHalted  BY DEF Init, UnknownIsHalted, Has
  <1> QED  BY <1>2, <1>3, <1>4, <1>5 DEF HonestInv

LEMMA BeginOpenKeeps == ASSUME HonestInv, BeginOpen  PROVE  HonestInv'
  <1>1. "message" \in Threads /\ op["message"] \in Works  BY DEF Threads, HonestInv, GoodWorks
  <1>2. UNCHANGED <<exchange, record, control>>  BY DEF BeginOpen
  <1>3. Numbers /\ GoodWorks /\ Passes
    BY <1>2 DEF HonestInv, Passes, Numbers, record
  <1>4. PICK step \in {"open", "limit"} : op' = [op EXCEPT !["message"] = At(op["message"], step)]
    BY <1>1 DEF BeginOpen, To, At
  <1>5. step \in Steps /\ step # "idle"  BY DEF Steps
  <1> DEFINE w == At(op["message"], step)
  <1>0. w \in Works /\ w.at # "idle" /\ w.born = op["message"].born /\ w.tp = op["message"].tp
    BY <1>1, <1>5, ToIsWork
  <1> HIDE DEF w
  <1>6. GoodWorks'
    BY <1>0, <1>1, <1>3, <1>4, WriteGoesOn, ThreadGoesOn DEF w
  <1>7. Numbers'
    BY <1>2, <1>3 DEF Numbers, exchange, record
  <1> QED  BY <1>2, <1>6, <1>7, AsideKeeps DEF record, control

\* Where an entry goes, an order is placed, filled or given up.
LEMMA EntryStaysAside ==
    ASSUME HonestInv, OpenOrder \/ PlaceLimit \/ PollFilled \/ PollTimeout
    PROVE  UNCHANGED <<pos, births, halt, sold, synced>> /\ Passes /\ Numbers /\ GoodWorks
  <1>1. UNCHANGED <<pos, births, halt, sold, synced>>
    BY DEF OpenOrder, PlaceLimit, PollFilled, PollTimeout, record, control
  <1> QED  BY <1>1 DEF HonestInv, Passes, Numbers

LEMMA MessageThread ==
    ASSUME HonestInv
    PROVE  /\ "message" \in Threads /\ "tick" \in Threads
           /\ op["message"] \in Works /\ op["tick"] \in Works
           /\ {"open", "poll", "verify", "apply", "migrate", "cancel", "place", "close.clean",
               "close.order", "reduce.cancel", "reduce.order"} \subseteq Steps \ {"idle"}
  BY DEF Threads, HonestInv, GoodWorks, Steps

\* A new stop order is one.
LEMMA FillKeepsNumbers ==
    ASSUME Numbers, NEW q \in Int, Fill(q), resting' \in Int, births' = births, sold' = sold
    PROVE  Numbers'
  BY DEF Numbers, Fill, Place, NewStop

LEMMA OpenOrderKeeps == ASSUME Lot \in Int, HonestInv, OpenOrder  PROVE  HonestInv'
  <1>1. UNCHANGED <<pos, births, halt, sold, synced>> /\ Passes /\ Numbers /\ GoodWorks
    BY EntryStaysAside
  <1>2. Numbers'
    <2>1. resting' = resting  BY DEF OpenOrder, exchange
    <2>2. CASE Fill(Lot)  BY <1>1, <2>1, <2>2, FillKeepsNumbers DEF Numbers
    <2>3. CASE ~Fill(Lot)
      <3>1. UNCHANGED <<exchange, placed>>  BY <2>3 DEF OpenOrder
      <3> QED  BY <1>1, <3>1 DEF Numbers, exchange
    <2> QED  BY <2>2, <2>3
  <1>3. GoodWorks'
    <2>1. CASE Done("message")  BY <1>1, <2>1, MessageThread, ThreadIsDone
    <2>2. CASE ~Done("message")
      <3> DEFINE w == Aiming(op["message"], "verify", placed + 1)
      <3>1. op' = [op EXCEPT !["message"] = w]
        BY <2>2, MessageThread DEF OpenOrder, Aiming
      <3>2. /\ w \in Works /\ w.at # "idle"
            /\ w.born = op["message"].born /\ w.tp = op["message"].tp
        <4>1. "verify" \in Steps /\ "verify" # "idle" /\ placed + 1 \in Nat
          BY <1>1 DEF Steps, Numbers
        <4>2. op["message"] \in Works  BY MessageThread
        <4> QED  BY <4>1, <4>2, AimingIsWork
      <3> HIDE DEF w
      <3> QED  BY <1>1, <3>1, <3>2, MessageThread, ThreadWrites
    <2> QED  BY <2>1, <2>2
  <1> QED  BY <1>1, <1>2, <1>3, AsideKeeps

LEMMA LimitKeeps ==
    ASSUME Lot \in Int, HonestInv, PlaceLimit \/ PollTimeout  PROVE  HonestInv'
  <1>1. UNCHANGED <<pos, births, halt, sold, synced>> /\ Passes /\ Numbers /\ GoodWorks
    BY EntryStaysAside
  <1>2. Numbers'  BY <1>1 DEF PlaceLimit, PollTimeout, Numbers, record
  <1>3. GoodWorks'
    <2>1. CASE Done("message")  BY <1>1, <2>1, MessageThread, ThreadIsDone
    <2>2. CASE ~Done("message")
      <3>1. PICK step \in {"open", "poll"} :
                op' = [op EXCEPT !["message"] = At(op["message"], step)]
        BY <2>2, MessageThread DEF PlaceLimit, PollTimeout, To, At
      <3> DEFINE w == At(op["message"], step)
      <3>2. /\ w \in Works /\ w.at # "idle"
            /\ w.born = op["message"].born /\ w.tp = op["message"].tp
        <4>1. step \in Steps /\ step # "idle"  BY DEF Steps
        <4> QED  BY <4>1, MessageThread, ToIsWork
      <3>3. op' = [op EXCEPT !["message"] = w]  BY <3>1
      <3> HIDE DEF w
      <3> QED  BY <1>1, <3>2, <3>3, MessageThread, ThreadWrites
    <2> QED  BY <2>1, <2>2
  <1> QED  BY <1>1, <1>2, <1>3, AsideKeeps

LEMMA PollFilledKeeps == ASSUME HonestInv, PollFilled  PROVE  HonestInv'
  <1>1. UNCHANGED <<pos, births, halt, sold, synced>> /\ Passes /\ Numbers /\ GoodWorks
    BY EntryStaysAside
  <1>2. Numbers'  BY <1>1 DEF PollFilled, Numbers, exchange, record
  <1>3. GoodWorks'
    <2> DEFINE w == Aiming(op["message"], "verify", placed)
    <2>1. op' = [op EXCEPT !["message"] = w]
      BY MessageThread DEF PollFilled, Aiming
    <2>2. /\ w \in Works /\ w.at # "idle"
          /\ w.born = op["message"].born /\ w.tp = op["message"].tp
      <3>1. "verify" \in Steps /\ "verify" # "idle" /\ placed \in Nat
        BY <1>1 DEF Steps, Numbers
      <3>2. op["message"] \in Works  BY MessageThread
      <3> QED  BY <3>1, <3>2, AimingIsWork
    <2> HIDE DEF w
    <2> QED  BY <1>1, <2>1, <2>2, MessageThread, ThreadWrites
  <1> QED  BY <1>1, <1>2, <1>3, AsideKeeps

\* A fill, a stop that is hit and a cooldown that ends move no thread.
LEMMA OutsideKeeps ==
    ASSUME HonestInv, LimitFills \/ CoolEnds \/ StopHit  PROVE  HonestInv'
  <1>1. UNCHANGED <<pos, births, halt, sold, synced, op>>
    BY DEF LimitFills, CoolEnds, StopHit, record, control
  <1>2. Numbers /\ GoodWorks /\ Passes  BY <1>1 DEF HonestInv, Passes, Numbers
  <1>3. GoodWorks'  BY <1>1, <1>2, NoThreadMoves
  <1>4. Numbers'
    <2>1. CASE LimitFills
      BY <1>1, <1>2, <2>1, FillKeepsNumbers DEF LimitFills, Numbers
    <2>2. CASE CoolEnds  BY <1>1, <1>2, <2>2 DEF CoolEnds, Numbers, exchange, record
    <2>3. CASE StopHit
      BY <1>1, <1>2, <2>3 DEF StopHit, Numbers, Lower, record
    <2> QED  BY <2>1, <2>2, <2>3
  <1> QED  BY <1>1, <1>3, <1>4, AsideKeeps

\* A new record has no level taken, and what is not known of it halts.
LEMMA VerifyKeeps == ASSUME Lot \in Int, HonestInv, Verify  PROVE  HonestInv'
  <1>1. /\ births' = births + 1 /\ sold' = 0 /\ Done("message")
         /\ UNCHANGED <<exchange, placed, control>>
    BY DEF Verify
  <1>2. Numbers /\ GoodWorks /\ Passes  BY <1>1 DEF HonestInv, Passes, Numbers
  <1>3. GoodWorks'  BY <1>1, <1>2, MessageThread, ThreadIsDone
  <1>4. Numbers'  BY <1>1, <1>2 DEF Numbers, exchange
  <1>5. PICK id \in Nat, known \in {"protected", "unknown"} :
            /\ pos' = [born |-> births + 1, qty |-> Lot, sl |-> id, prot |-> known, tp |-> 0]
            /\ known = "unknown" => halt' = "lost"
    <2>1. op["message"].sl \in Nat  BY MessageThread DEF Works
    <2> QED  BY <2>1 DEF Verify
  <1>6. /\ births + 1 \in Nat /\ pos'.born = births + 1 /\ pos'.tp = 0
        /\ pos'.prot = known /\ pos' \in Records
    BY <1>2, <1>5 DEF Records, Numbers
  <1>7. GoodRecord(pos, births, sold)'  BY <1>1, <1>6 DEF GoodRecord
  <1>8. UnknownIsHalted'  BY <1>5, <1>6 DEF UnknownIsHalted
  <1> QED  BY <1>3, <1>4, <1>7, <1>8 DEF HonestInv

\* What is known of any thread before it moves.
LEMMA ThreadFacts ==
    ASSUME HonestInv, NEW t \in Threads
    PROVE  /\ op[t] \in Works /\ GoodWork(op[t], births, sold)
           /\ op[t].born \in Nat /\ op[t].born <= births /\ op[t].old \in Int
           /\ op[t].qty \in Int /\ op[t].sl \in Nat /\ op[t].tp \in Nat
           /\ op[t].at = "idle" => op[t].tp = 0
  <1>1. op[t] \in Works /\ GoodWork(op[t], births, sold)  BY DEF HonestInv, GoodWorks
  <1>2. op[t].at = "idle" => op[t].tp = 0  BY <1>1 DEF GoodWork, Idle
  <1> QED  BY <1>1, <1>2 DEF GoodWork, Works

LEMMA RecordFacts ==
    ASSUME HonestInv
    PROVE  /\ pos \in Records /\ pos.born \in Nat /\ pos.qty \in Int /\ pos.sl \in Nat
           /\ pos.tp \in Nat /\ pos.tp <= sold
           /\ pos # NoPos => pos.born = births
           /\ births \in Nat /\ sold \in Nat /\ placed \in Nat /\ held \in Int /\ Numbers
  BY DEF HonestInv, GoodRecord, Records, Numbers

LEMMA MoveStopKeeps == ASSUME HonestInv, MoveStop  PROVE  HonestInv'
  <1>1. UNCHANGED <<exchange, record, control>> /\ op["tick"].at = "idle" /\ pos # NoPos
    BY DEF MoveStop, Has
  <1>2. Numbers /\ GoodWorks /\ Passes  BY <1>1 DEF HonestInv, Passes, Numbers, record
  <1>3. Numbers'  BY <1>1, <1>2 DEF Numbers, exchange, record
  <1> DEFINE w == Moving(op["tick"], pos.born, pos.qty, pos.sl)
  <1>4. op' = [op EXCEPT !["tick"] = w]
    BY MessageThread DEF MoveStop, BeginSwap, Moving
  <1>5. "tick" \in Threads /\ op["tick"] \in Works /\ op["tick"].tp = 0
    BY <1>1, MessageThread, ThreadFacts
  <1>6. w \in Works /\ w.at = "cancel" /\ w.born = pos.born /\ w.tp = 0
    BY <1>5, RecordFacts, MovingIsWork
  <1> HIDE DEF w
  <1>7. w.born <= births' /\ w.tp <= sold' + 1
    BY <1>1, <1>6, RecordFacts DEF record
  <1>8. GoodWorks'  BY <1>2, <1>4, <1>5, <1>6, <1>7, ThreadBegins
  <1> QED  BY <1>1, <1>3, <1>8, AsideKeeps DEF record, control

LEMMA AddKeeps == ASSUME HonestInv, Add  PROVE  HonestInv'
  <1>1. /\ UNCHANGED <<stops, resting, births, placed, halt, sold, control>>
        /\ op["message"].at = "idle" /\ pos # NoPos /\ held' = held + 1
    BY DEF Add, Has
  <1>2. Numbers /\ GoodWorks /\ Passes  BY <1>1 DEF HonestInv, Passes, Numbers
  <1>3. Numbers'  BY <1>1, <1>2 DEF Numbers
  <1>4. CASE pos' = pos /\ op' = op
    <2>1. GoodWorks'  BY <1>2, <1>4, NoThreadMoves
    <2> QED  BY <1>1, <1>3, <1>4, <2>1, AsideKeeps DEF control
  <1>5. CASE ~(pos' = pos /\ op' = op)
    <2> DEFINE w == Moving(op["message"], pos.born, pos.qty + 1, pos.sl)
               rec == Sized(pos, pos.qty + 1)
    <2>1. op' = [op EXCEPT !["message"] = w]
      BY <1>5, MessageThread DEF Add, Moving
    <2>2. pos' = rec  BY <1>5 DEF Add, Sized
    <2>3. "message" \in Threads /\ op["message"] \in Works /\ op["message"].tp = 0
      BY <1>1, MessageThread, ThreadFacts
    <2>4. pos.qty + 1 \in Int /\ pos.born \in Nat /\ pos.sl \in Nat /\ pos \in Records
      BY RecordFacts
    <2>5. w \in Works /\ w.at = "cancel" /\ w.born = pos.born /\ w.tp = 0
      BY <2>3, <2>4, MovingIsWork
    <2>6. rec \in Records /\ rec.born = pos.born /\ rec.tp = pos.tp /\ rec.prot = pos.prot
      BY <2>4, SizedIsRecord
    <2> HIDE DEF w, rec
    <2>7. w.born <= births' /\ w.tp <= sold' + 1  BY <1>1, <2>5, RecordFacts
    <2>8. GoodWorks'  BY <1>2, <2>1, <2>3, <2>5, <2>7, ThreadBegins
    <2>9. GoodRecord(pos, births, sold)'
      BY <1>1, <2>2, <2>6, RecordFacts, RecordStays DEF HonestInv
    <2>10. UnknownIsHalted'
      BY <1>1, <2>2, <2>6, HaltStays DEF HonestInv, control
    <2> QED  BY <1>3, <2>8, <2>9, <2>10 DEF HonestInv
  <1> QED  BY <1>4, <1>5

LEMMA BeginExitKeeps ==
    ASSUME HonestInv, NEW t \in Threads, BeginExit(t)  PROVE  HonestInv'
  <1>1. UNCHANGED <<exchange, record, synced>> /\ pos # NoPos
    BY DEF BeginExit, Has
  <1>2. Numbers /\ GoodWorks /\ Passes  BY <1>1 DEF HonestInv, Passes, Numbers, record
  <1>3. Numbers'  BY <1>1, <1>2 DEF Numbers, exchange, record
  <1>4. PICK step \in {"close.look", "reduce.look"}, l \in {0, pos.tp + 1} :
            op' = [op EXCEPT ![t] = Leaving(step, pos.born, pos.qty, pos.sl, l)]
    BY DEF BeginExit, Leaving
  <1> DEFINE w == Leaving(step, pos.born, pos.qty, pos.sl, l)
  <1>5. step \in Steps /\ step # "idle"  BY DEF Steps
  <1>6. l \in Nat /\ l <= sold + 1  BY RecordFacts
  <1>7. w \in Works /\ w.at = step /\ w.born = pos.born /\ w.tp = l
    <2>1. pos.born \in Nat /\ pos.qty \in Int /\ pos.sl \in Nat  BY RecordFacts
    <2>2. w \in Works  BY <1>5, <1>6, <2>1, IdleWork DEF Leaving, Works
    <2>3. w.at = step /\ w.born = pos.born /\ w.tp = l  BY IdleWork DEF Leaving, Works
    <2> QED  BY <2>2, <2>3
  <1>8. op' = [op EXCEPT ![t] = w]  BY <1>4
  <1> HIDE DEF w
  <1>9. w.born <= births' /\ w.tp <= sold' + 1
    BY <1>1, <1>6, <1>7, RecordFacts DEF record
  <1>10. GoodWorks'  BY <1>2, <1>5, <1>7, <1>8, <1>9, ThreadBegins
  <1> QED  BY <1>1, <1>3, <1>10, AsideKeeps DEF record

LEMMA LookKeeps ==
    ASSUME HonestInv, NEW t \in Threads, Look(t)  PROVE  HonestInv'
  <1>1. UNCHANGED <<exchange, births, placed, halt, sold, synced>>
    BY DEF Look
  <1>2. Numbers /\ GoodWorks /\ Passes  BY <1>1 DEF HonestInv, Passes, Numbers
  <1>3. Numbers'  BY <1>1, <1>2 DEF Numbers, exchange
  <1>4. pos' \in {pos, NoPos}  BY DEF Look, Closed, Drop
  <1>5. GoodWorks'
    <2>1. CASE Done(t)  BY <1>2, <2>1, ThreadIsDone
    <2>2. CASE ~Done(t)
      <3>1. PICK step \in {"close.order", "reduce.cancel"}, q \in Int :
                op' = [op EXCEPT ![t] = Carrying(op[t], step, q)]
        <4>0. op[t].old \in Int /\ held \in Int  BY ThreadFacts, RecordFacts
        <4>1. PICK q \in 1 .. Lower(op[t].old, held) :
                  op' = [op EXCEPT ![t].qty = q,
                    ![t].at = IF @ = "close.look" THEN "close.order" ELSE "reduce.cancel"]
          BY <2>2 DEF Look, Leave
        <4>2. q \in Int  BY <4>0, <4>1 DEF Lower
        <4>3. CASE op[t].at = "close.look"
          <5>1. op' = [op EXCEPT ![t] = Carrying(op[t], "close.order", q)]
            BY <4>1, <4>3, ThreadFacts, <1>2 DEF Carrying, GoodWorks, Works
          <5> QED  BY <5>1, <4>2
        <4>4. CASE op[t].at # "close.look"
          <5>1. op' = [op EXCEPT ![t] = Carrying(op[t], "reduce.cancel", q)]
            BY <4>1, <4>4, ThreadFacts, <1>2 DEF Carrying, GoodWorks, Works
          <5> QED  BY <5>1, <4>2
        <4> QED  BY <4>3, <4>4
      <3> DEFINE w == Carrying(op[t], step, q)
      <3>2. w \in Works /\ w.at # "idle" /\ w.born = op[t].born /\ w.tp = op[t].tp
        <4>1. step \in Steps /\ step # "idle"  BY DEF Steps
        <4>2. op[t] \in Works  BY ThreadFacts
        <4> QED  BY <4>1, <4>2, CarryingIsWork
      <3>3. op' = [op EXCEPT ![t] = w]  BY <3>1
      <3> HIDE DEF w
      <3> QED  BY <1>2, <3>2, <3>3, ThreadWrites
    <2> QED  BY <2>1, <2>2
  <1> QED  BY <1>1, <1>3, <1>4, <1>5, RecordFacts, DropKeeps

LEMMA CloseOrderKeeps ==
    ASSUME HonestInv, NEW t \in Threads, CloseOrder(t)  PROVE  HonestInv'
  <1>1. /\ UNCHANGED <<stops, resting, births, placed, synced>>
        /\ sold' \in {sold, sold + 1} /\ halt' \in {halt, "trade"}
        /\ pos' \in {pos, NoPos}
    BY DEF CloseOrder, Rejected, Closed, Drop
  <1>2. Numbers /\ GoodWorks /\ Passes  BY <1>1 DEF HonestInv, Passes, Numbers
  <1>3. Numbers'
    BY <1>1, <1>2, ThreadFacts DEF Numbers, CloseOrder, Sold, Lower
  <1>4. GoodWorks'
    <2>1. CASE Done(t)  BY <1>2, <2>1, ThreadIsDone
    <2>2. CASE ~Done(t)
      <3> DEFINE w == At(Idle, "close.clean")
      <3>1. op' = [op EXCEPT ![t] = w]  BY <2>2 DEF CloseOrder, Leave, At
      <3>2. w \in Works /\ w.at = "close.clean" /\ w.born = Idle.born /\ w.tp = Idle.tp
        <4>1. "close.clean" \in Steps  BY DEF Steps
        <4> QED  BY <4>1, IdleWork, ToIsWork
      <3>3. Idle.born = 0 /\ Idle.tp = 0  BY DEF Idle
      <3> HIDE DEF w
      <3>4. w.born <= births' /\ w.tp <= sold' + 1
        BY <1>1, <3>2, <3>3, RecordFacts
      <3> QED  BY <1>2, <3>1, <3>2, <3>4, ThreadBegins
    <2> QED  BY <2>1, <2>2
  <1> QED  BY <1>1, <1>3, <1>4, DropKeeps

LEMMA CloseCleanKeeps ==
    ASSUME HonestInv, NEW t \in Threads, CloseClean(t)  PROVE  HonestInv'
  <1>1. /\ UNCHANGED <<held, resting, births, placed, halt, sold, synced>>
        /\ stops' \in {stops, {}} /\ pos' \in {pos, NoPos} /\ Done(t)
    BY DEF CloseClean, Drop, Leave
  <1>2. Numbers /\ GoodWorks /\ Passes  BY <1>1 DEF HonestInv, Passes, Numbers
  <1>3. Numbers'  BY <1>1, <1>2 DEF Numbers
  <1>4. GoodWorks'  BY <1>1, <1>2, ThreadIsDone
  <1> QED  BY <1>1, <1>3, <1>4, RecordFacts, DropKeeps

\* A protection that is in doubt halts, whoever holds the record.
LEMMA AlarmKeeps ==
    ASSUME HonestInv, NEW t \in Threads, NEW rec \in Records, Alarm(t, rec),
           rec.born = pos.born, rec.tp = pos.tp, Done(t), Numbers',
           births' = births, sold' = sold, synced' = synced
    PROVE  HonestInv'
  <1>1. Numbers /\ GoodWorks /\ Passes  BY DEF HonestInv, Passes, Numbers
  <1>2. GoodWorks'  BY <1>1, ThreadIsDone
  <1>3. Write(t, rec) /\ halt' = "trade"  BY DEF Alarm
  <1> QED  BY <1>2, <1>3, WriteKeeps

LEMMA ReduceCancelKeeps ==
    ASSUME HonestInv, NEW t \in Threads, ReduceCancel(t)  PROVE  HonestInv'
  <1>1. /\ UNCHANGED <<held, resting, births, placed, sold, synced>>
        /\ stops' \subseteq stops
    BY DEF ReduceCancel, Cancelled
  <1>2. Numbers /\ GoodWorks /\ Passes  BY <1>1 DEF HonestInv, Passes, Numbers
  <1>3. Numbers'  BY <1>1, <1>2 DEF Numbers
  <1>4. CASE Alarm(t, Doubted(pos)) /\ Done(t)
    <2>1. Doubted(pos) \in Records /\ Doubted(pos).born = pos.born /\ Doubted(pos).tp = pos.tp
      BY RecordFacts, DoubtedIsRecord
    <2> QED  BY <1>1, <1>3, <1>4, <2>1, AlarmKeeps
  <1>5. CASE ~(Alarm(t, Doubted(pos)) /\ Done(t))
    <2> DEFINE w == Aiming(op[t], "reduce.order", 0)
    <2>1. op' = [op EXCEPT ![t] = w] /\ Write(t, Bare(pos)) /\ halt' = halt
      BY <1>5 DEF ReduceCancel, Aiming, Bare, Leave, Doubted
    <2>2. w \in Works /\ w.at # "idle" /\ w.born = op[t].born /\ w.tp = op[t].tp
      <3>1. "reduce.order" \in Steps  BY DEF Steps
      <3>2. op[t] \in Works  BY ThreadFacts
      <3> QED  BY <3>1, <3>2, AimingIsWork
    <2> HIDE DEF w
    <2>3. GoodWorks'  BY <1>2, <2>1, <2>2, ThreadWrites
    <2>4. /\ Bare(pos) \in Records /\ Bare(pos).born = pos.born
          /\ Bare(pos).tp = pos.tp /\ Bare(pos).prot = pos.prot
      BY RecordFacts, BareIsRecord
    <2> QED  BY <1>1, <1>3, <2>1, <2>3, <2>4, WriteKeeps
  <1> QED  BY <1>4, <1>5

LEMMA SwapCancelKeeps ==
    ASSUME HonestInv, NEW t \in Threads, SwapCancel(t)  PROVE  HonestInv'
  <1>1. /\ UNCHANGED <<held, resting, births, placed, sold, synced>>
        /\ stops' \subseteq stops
    BY DEF SwapCancel, Cancelled
  <1>2. Numbers /\ GoodWorks /\ Passes  BY <1>1 DEF HonestInv, Passes, Numbers
  <1>3. Numbers'  BY <1>1, <1>2 DEF Numbers
  <1>4. CASE Alarm(t, Doubted(pos)) /\ Done(t)
    <2>1. Doubted(pos) \in Records /\ Doubted(pos).born = pos.born /\ Doubted(pos).tp = pos.tp
      BY RecordFacts, DoubtedIsRecord
    <2> QED  BY <1>1, <1>3, <1>4, <2>1, AlarmKeeps
  <1>5. CASE ~(Alarm(t, Doubted(pos)) /\ Done(t))
    <2> DEFINE w == At(op[t], "place")
    <2>1. op' = [op EXCEPT ![t] = w] /\ UNCHANGED <<pos, halt>>
      BY <1>5, ThreadFacts DEF SwapCancel, To, At, Leave, Doubted
    <2>2. w \in Works /\ w.at # "idle" /\ w.born = op[t].born /\ w.tp = op[t].tp
      <3>1. "place" \in Steps  BY DEF Steps
      <3>2. op[t] \in Works  BY ThreadFacts
      <3> QED  BY <3>1, <3>2, ToIsWork
    <2> HIDE DEF w
    <2>3. GoodWorks'  BY <1>2, <2>1, <2>2, ThreadWrites
    <2> QED  BY <1>1, <1>3, <2>1, <2>3, AsideKeeps
  <1> QED  BY <1>4, <1>5

LEMMA SwapPlaceKeeps ==
    ASSUME HonestInv, NEW t \in Threads, SwapPlace(t)  PROVE  HonestInv'
  <1>1. UNCHANGED <<held, resting, births, sold, synced>> /\ Done(t)
    BY DEF SwapPlace, Leave
  <1>2. Numbers /\ GoodWorks /\ Passes  BY <1>1 DEF HonestInv, Passes, Numbers
  <1>3. Numbers'
    BY <1>1, <1>2, ThreadFacts DEF Numbers, SwapPlace, Place, NewStop
  <1>4. GoodWorks'  BY <1>1, <1>2, ThreadIsDone
  <1>5. CASE Alarm(t, Stopped(pos, 0, "unknown"))
    <2> DEFINE rec == Stopped(pos, 0, "unknown")
    <2>1. rec \in Records /\ rec.born = pos.born /\ rec.tp = pos.tp
      BY RecordFacts, StoppedIsRecord
    <2> HIDE DEF rec
    <2>2. Alarm(t, rec)  BY <1>5 DEF rec
    <2> QED  BY <1>1, <1>3, <2>1, <2>2, AlarmKeeps
  <1>6. CASE ~Alarm(t, Stopped(pos, 0, "unknown"))
    <2> DEFINE rec == Stopped(pos, placed + 1, "protected")
    <2>1. Write(t, rec) /\ halt' = halt
      BY <1>6 DEF SwapPlace, Stopped, NoStop
    <2>2. rec \in Records /\ rec.born = pos.born /\ rec.tp = pos.tp /\ rec.prot = "protected"
      <3>1. pos \in Records /\ placed + 1 \in Nat  BY RecordFacts
      <3> QED  BY <3>1, StoppedIsRecord
    <2> HIDE DEF rec
    <2> QED  BY <1>1, <1>3, <1>4, <2>1, <2>2, WriteKeeps
  <1> QED  BY <1>5, <1>6

LEMMA ZeroFits ==
    ASSUME NEW b \in Nat, NEW s \in Nat, NEW w, w.born = 0, w.tp = 0
    PROVE  w.born <= b /\ w.tp <= s + 1
  OBVIOUS

LEMMA SyncFetchKeeps == ASSUME HonestInv, SyncFetch  PROVE  HonestInv'
  <1>1. UNCHANGED <<exchange, record, control>>  BY DEF SyncFetch
  <1>2. Numbers /\ GoodWorks /\ Passes  BY <1>1 DEF HonestInv, Passes, Numbers, record
  <1>3. Numbers'  BY <1>1, <1>2 DEF Numbers, exchange, record
  <1> DEFINE w == Carrying(op["tick"], "apply", held)
  <1>4. op' = [op EXCEPT !["tick"] = w]
    BY MessageThread DEF SyncFetch, Carrying
  <1>5. w \in Works /\ w.at # "idle" /\ w.born = op["tick"].born /\ w.tp = op["tick"].tp
    <2>1. "apply" \in Steps  BY DEF Steps
    <2>2. op["tick"] \in Works /\ held \in Int  BY MessageThread, RecordFacts
    <2> QED  BY <2>1, <2>2, CarryingIsWork
  <1> HIDE DEF w
  <1>6. GoodWorks'  BY <1>2, <1>4, <1>5, MessageThread, ThreadWrites
  <1> QED  BY <1>1, <1>3, <1>6, AsideKeeps DEF record, control

\* The sync corrects, drops or adopts a record; an adopted one is a new one.
LEMMA SyncApplyKeeps == ASSUME HonestInv, SyncApply  PROVE  HonestInv'
  <1> DEFINE seen == op["tick"].qty
             w == At(Idle, "migrate")
  <1>0. "tick" \in Threads /\ seen \in Int
    BY MessageThread DEF Works
  <1>1. /\ UNCHANGED <<exchange, placed, halt, synced>>
        /\ op' = [op EXCEPT !["tick"] = w]
        /\ \/ UNCHANGED <<births, sold>> /\ pos' \in {pos, NoPos}
           \/ UNCHANGED <<births, sold>> /\ pos # NoPos /\ pos' = Sized(pos, seen)
           \/ births' = births + 1 /\ sold' = 0 /\ pos' = Adopted(seen)
    BY DEF SyncApply, Corrected, Sized, Has, At
  <1>2. Numbers /\ GoodWorks /\ Passes  BY <1>1 DEF HonestInv, Passes, Numbers
  <1>3. Numbers'  BY <1>1, <1>2 DEF Numbers, exchange
  <1>4. w \in Works /\ w.at # "idle" /\ w.born = 0 /\ w.tp = 0
    <2>1. "migrate" \in Steps /\ Idle.born = 0 /\ Idle.tp = 0  BY DEF Steps, Idle
    <2> QED  BY <2>1, IdleWork, ToIsWork
  <1> HIDE DEF seen, w
  <1>5. births' \in Nat /\ sold' \in Nat  BY <1>2 DEF Passes
  <1>6. w.born <= births' /\ w.tp <= sold' + 1  BY <1>4, <1>5, ZeroFits
  <1>7. GoodWorks'  BY <1>0, <1>1, <1>2, <1>4, <1>6, ThreadBegins
  <1>8. CASE UNCHANGED <<births, sold>> /\ pos' \in {pos, NoPos}
    BY <1>1, <1>3, <1>7, <1>8, RecordFacts, DropKeeps
  <1>9. CASE UNCHANGED <<births, sold>> /\ pos # NoPos /\ pos' = Sized(pos, seen)
    <2> DEFINE rec == Sized(pos, seen)
    <2>1. rec \in Records /\ rec.born = pos.born /\ rec.tp = pos.tp /\ rec.prot = pos.prot
      BY <1>0, RecordFacts, SizedIsRecord
    <2>2. pos' = rec  BY <1>9
    <2> HIDE DEF rec
    <2>3. GoodRecord(pos, births, sold)'
      BY <1>9, <2>1, <2>2, RecordFacts, RecordStays DEF HonestInv
    <2>4. UnknownIsHalted'  BY <1>1, <2>1, <2>2, HaltStays DEF HonestInv
    <2> QED  BY <1>3, <1>7, <2>3, <2>4 DEF HonestInv
  <1>10. CASE births' = births + 1 /\ sold' = 0 /\ pos' = Adopted(seen)
    <2>1. births + 1 \in Nat  BY RecordFacts
    <2>2. pos' \in Records /\ pos'.born = births + 1 /\ pos'.tp = 0 /\ pos'.prot = "unprotected"
      BY <1>0, <1>10, <2>1 DEF Adopted, Records
    <2>3. GoodRecord(pos, births, sold)'  BY <1>10, <2>2 DEF GoodRecord
    <2>4. UnknownIsHalted'  BY <2>2 DEF UnknownIsHalted
    <2> QED  BY <1>3, <1>7, <2>3, <2>4 DEF HonestInv
  <1> QED  BY <1>1, <1>8, <1>9, <1>10

\* What the migration does not know it halts; what it finds it knows.
LEMMA MigrateKeeps == ASSUME HonestInv, Migrate  PROVE  HonestInv'
  <1>1. UNCHANGED <<held, resting, births, placed, sold>> /\ Done("tick")
    BY DEF Migrate
  <1>2. stops' \subseteq stops
    BY DEF Migrate, MigrateNone, MigrateOne, MigrateMany, MigrateResidue
  <1>3. Numbers /\ GoodWorks /\ Passes  BY <1>1 DEF HonestInv, Passes, Numbers
  <1>4. Numbers'  BY <1>1, <1>2, <1>3 DEF Numbers
  <1>5. GoodWorks'  BY <1>1, <1>3, MessageThread, ThreadIsDone
  <1> DEFINE Found(id, known) ==
          pos # NoPos /\ pos' = Stopped(pos, id, known) /\ (known = "unknown" => halt' # "no")
  <1>6. \/ pos = NoPos /\ pos' = pos
        \/ \E id \in Nat, known \in {"unknown", "protected"} : Found(id, known)
    <2>1. \/ pos = NoPos /\ pos' = pos
          \/ Found(0, "unknown")
          \/ \E s \in stops : Found(s.id, "protected")
      BY DEF Migrate, MigrateNone, MigrateOne, MigrateMany, MigrateResidue, NoStop, Stopped, Has
    <2>2. \A s \in stops : s.id \in Nat  BY <1>3 DEF Numbers
    <2> HIDE DEF Found
    <2> QED  BY <2>1, <2>2
  <1>7. CASE pos = NoPos /\ pos' = pos
    <2>1. GoodRecord(pos, births, sold)'
      BY <1>1, <1>7, RecordFacts, RecordStays DEF HonestInv
    <2>2. UnknownIsHalted'  BY <1>7 DEF UnknownIsHalted, Has
    <2> QED  BY <1>4, <1>5, <2>1, <2>2 DEF HonestInv
  <1>8. ASSUME NEW id \in Nat, NEW known \in {"unknown", "protected"}, Found(id, known)
        PROVE  HonestInv'
    <2> DEFINE rec == Stopped(pos, id, known)
    <2>1. rec \in Records /\ rec.born = pos.born /\ rec.tp = pos.tp /\ rec.prot = known
      <3>1. pos \in Records  BY RecordFacts
      <3> QED  BY <3>1, StoppedIsRecord
    <2>2. pos' = rec  BY <1>8
    <2> HIDE DEF rec
    <2>3. GoodRecord(pos, births, sold)'
      BY <1>1, <1>8, <2>1, <2>2, RecordFacts, RecordStays DEF HonestInv
    <2>4. UnknownIsHalted'  BY <1>8, <2>1, <2>2 DEF UnknownIsHalted
    <2> QED  BY <1>4, <1>5, <2>3, <2>4 DEF HonestInv
  <1> QED  BY <1>6, <1>7, <1>8

\* A restart forgets what the threads did, and what the last process knew.
LEMMA RestartKeeps == ASSUME HonestInv, Restart  PROVE  HonestInv'
  <1>1. /\ UNCHANGED <<exchange, pos, births, placed, sold>> /\ synced' = FALSE
        /\ op' = [t \in Threads |-> Idle]
    BY DEF Restart
  <1>2. Numbers'  BY <1>1 DEF HonestInv, Numbers, exchange
  <1>3. births' \in Nat /\ sold' \in Nat  BY <1>1, RecordFacts
  <1>4. GoodWork(Idle, births', sold')  BY <1>3, IdleIsGood
  <1>5. GoodWorks'  BY <1>1, <1>4, IdleWork DEF GoodWorks
  <1>6. GoodRecord(pos, births, sold)'  BY <1>1 DEF HonestInv
  <1>7. UnknownIsHalted'  BY <1>1 DEF UnknownIsHalted
  <1> QED  BY <1>2, <1>5, <1>6, <1>7 DEF HonestInv

LEMMA ReduceOrderKeeps ==
    ASSUME HonestInv, NEW t \in Threads, ReduceOrder(t)  PROVE  HonestInv'
  <1>1. op[t] \in Works /\ GoodWork(op[t], births, sold) /\ op[t].old \in Int /\ op[t].qty \in Int
    BY DEF HonestInv, GoodWorks, Works
  <1>2. births' = births /\ sold' \in {sold, sold + 1}
    BY DEF ReduceOrder
  <1>3. Numbers /\ GoodWorks /\ Passes /\ pos \in Records /\ GoodRecord(pos, births, sold)
    BY <1>2 DEF HonestInv, Passes, Numbers, GoodRecord
  <1>4. Numbers'
    BY <1>1, <1>2, <1>3 DEF ReduceOrder, Numbers, Sold, Lower, Rejected
  <1>5. GoodWorks'
    <2>1. CASE Done(t)  BY <1>3, <2>1, ThreadIsDone
    <2>2. CASE ~Done(t)
      <3>1. PICK q \in Int : op' = [op EXCEPT ![t] = Swapping(op[t], "cancel", q, 0, 0)]
        <4>1. op[t].old - op[t].qty \in Int  BY <1>1
        <4> QED  BY <2>2, <1>1, <4>1 DEF ReduceOrder, Reduced, Leave, Swapping
      <3> DEFINE w == Swapping(op[t], "cancel", q, 0, 0)
      <3>2. w \in Works /\ w.at # "idle" /\ w.born = op[t].born /\ w.tp = 0
        <4>1. "cancel" \in Steps  BY DEF Steps
        <4> QED  BY <1>1, <4>1, SwappingIsWork
      <3>3. op' = [op EXCEPT ![t] = w]  BY <3>1
      <3> HIDE DEF w
      <3>4. GoesOn(t) /\ op'[t] = w  BY <1>3, <3>2, <3>3, WriteGoesOn
      <3> QED  BY <1>3, <3>2, <3>4, ThreadGoesOn
    <2> QED  BY <2>1, <2>2
  <1>6. \/ pos' \in {pos, NoPos}
        \/ Mine(t) /\ sold' = sold + 1
           /\ \E q \in Int : pos' \in {Sized(pos, q), Levelled(pos, q, Advanced(t))}
    <2>1. op[t].old - op[t].qty \in Int  BY <1>1
    <2> QED
      BY <2>1 DEF ReduceOrder, Reduced, Write, Rejected, Closed, Drop, Sized, Levelled
  <1>7. CASE pos' \in {pos, NoPos}
    <2>1. GoodRecord(pos, births, sold)'  BY <1>2, <1>3, <1>7, RecordStays DEF Numbers
    <2>2. halt' \in {halt, "trade"} /\ synced' = synced  BY DEF ReduceOrder, Rejected
    <2>3. UnknownIsHalted'  BY <2>2, <1>7, HaltStays DEF HonestInv
    <2> QED  BY <1>4, <1>5, <2>1, <2>3 DEF HonestInv
  <1>8. CASE Mine(t) /\ sold' = sold + 1
             /\ \E q \in Int : pos' \in {Sized(pos, q), Levelled(pos, q, Advanced(t))}
    <2>1. Advanced(t) \in Nat /\ Advanced(t) <= sold + 1
      BY <1>1, <1>3, <1>8 DEF Advanced, Mine, Has, GoodRecord, GoodWork, Records, Works, Numbers
    <2>2. /\ pos' \in Records /\ pos # NoPos /\ pos'.born = pos.born /\ pos'.tp <= sold'
          /\ pos'.prot = pos.prot
      <3>1. PICK q \in Int : pos' \in {Sized(pos, q), Levelled(pos, q, Advanced(t))}  BY <1>8
      <3>2. pos \in Records /\ pos # NoPos /\ pos.tp <= sold /\ pos.tp \in Nat /\ sold \in Nat
        BY <1>3, <1>8 DEF Mine, Has, GoodRecord, Numbers, Records
      <3>3. CASE pos' = Sized(pos, q)
        <4>1. /\ Sized(pos, q) \in Records /\ Sized(pos, q).born = pos.born
              /\ Sized(pos, q).tp = pos.tp /\ Sized(pos, q).prot = pos.prot
          BY <3>2, SizedIsRecord
        <4> QED  BY <3>2, <3>3, <4>1, <1>8
      <3>4. CASE pos' = Levelled(pos, q, Advanced(t))
        <4> DEFINE l == Advanced(t)
        <4>0. l \in Nat /\ l <= sold + 1  BY <2>1
        <4> HIDE DEF l
        <4>1. /\ Levelled(pos, q, l) \in Records /\ Levelled(pos, q, l).born = pos.born
              /\ Levelled(pos, q, l).tp = l /\ Levelled(pos, q, l).prot = pos.prot
          BY <3>2, <4>0, LevelledIsRecord
        <4> QED  BY <3>2, <3>4, <4>0, <4>1, <1>8 DEF l
      <3> QED  BY <3>1, <3>3, <3>4
    <2>3. GoodRecord(pos, births, sold)'  BY <1>2, <1>3, <2>2, RecordStays DEF Numbers
    <2>4. halt' \in {halt, "trade"} /\ synced' = synced  BY DEF ReduceOrder, Rejected
    <2>5. UnknownIsHalted'  BY <2>4, <2>2, HaltStays DEF HonestInv
    <2> QED  BY <1>4, <1>5, <2>3, <2>5 DEF HonestInv
  <1> QED  BY <1>6, <1>7, <1>8

LEMMA HonestInvKept == ASSUME Lot \in Int  PROVE  HonestInv /\ [Next]_vars => HonestInv'
  <1>1. SUFFICES ASSUME HonestInv, [Next]_vars  PROVE  HonestInv'
    OBVIOUS
  <1>2. CASE Entry
    BY <1>1, <1>2, BeginOpenKeeps, OpenOrderKeeps, LimitKeeps, PollFilledKeeps, VerifyKeeps
    DEF Entry
  <1>3. CASE Add \/ MoveStop \/ SyncFetch \/ SyncApply \/ Migrate
    BY <1>1, <1>3, AddKeeps, MoveStopKeeps, SyncFetchKeeps, SyncApplyKeeps, MigrateKeeps
  <1>4. ASSUME NEW t \in Threads, BeginExit(t) \/ Exit(t)  PROVE  HonestInv'
    BY <1>1, <1>4, BeginExitKeeps, LookKeeps, CloseOrderKeeps, CloseCleanKeeps,
       ReduceCancelKeeps, ReduceOrderKeeps, SwapCancelKeeps, SwapPlaceKeeps DEF Exit
  <1>5. CASE LimitFills \/ CoolEnds \/ StopHit \/ Restart
    BY <1>1, <1>5, OutsideKeeps, RestartKeeps
  <1>6. CASE UNCHANGED vars
    <2>1. UNCHANGED <<held, stops, resting, pos, births, placed, halt, op, sold, synced>>
      BY <1>6 DEF vars
    <2> QED
      BY <1>1, <2>1 DEF HonestInv, Numbers, GoodWorks, UnknownIsHalted, Has
  <1> QED  BY <1>1, <1>2, <1>3, <1>4, <1>5, <1>6 DEF Next

\* A level that the record counts as taken was sold, and a protection that was
\* found unknown stops the symbol, however the two threads of the executor, the
\* faults and the restarts fall together.
THEOREM RecordTellsTheTruth == ASSUME Lot \in Int  PROVE  Spec => []RecordHonest
  <1>1. HonestInv => RecordHonest
    BY DEF HonestInv, GoodRecord, RecordHonest, TpEarned
  <1>2. Init => HonestInv  BY Starts
  <1> QED  BY <1>1, <1>2, HonestInvKept, PTL DEF Spec

-----------------------------------------------------------------------------
(* The ladder.                                                                *)

Slots == {plan.slot : plan \in LadderPlans}
LadderRecords == [entry : Nat \ {0}, original : Int, stop : Int, high : Int, tp : 0..2, tps : Seq(Int),
                  slot : Slots, thesis : {"ok", "invalidated"}]

\* 1R is wide enough for a level to be above the entry.
Steep(p) == p.entry >= 500 /\ Ladder!RiskOf(p) >= 4
\* What the moves of the stop read of a record is the same in the file.
Alike(p, q) == p.entry = q.entry /\ p.original = q.original /\ p.tp = q.tp

LadderTyped ==
    /\ ladderPos \in LadderRecords \cup {Ladder!Flat} /\ ladderSaved \in LadderRecords \cup {Ladder!Flat}
    /\ (ladderPos = Ladder!Flat) <=> (ladderSaved = Ladder!Flat)
    /\ ladderExStop \in Int /\ ladderAdds \in Nat /\ ladderFaults \in Nat /\ ladderRecent \in BOOLEAN

\* A position nothing was added to: the exchange holds no tighter stop than the
\* record and the file do, what the file does if it never failed, and a position
\* that sold a part has its stop above its entry.
Unadded ==
    /\ Alike(ladderPos, ladderSaved) /\ Steep(ladderPos)
    /\ ladderPos.stop >= 0 /\ ladderSaved.stop >= 0
    /\ ladderExStop <= ladderPos.stop /\ ladderExStop <= ladderSaved.stop
    /\ ladderFaults = 0 => ladderExStop = ladderSaved.stop
    /\ ladderPos.tp >= 1 /\ ladderFaults = 0 =>
          ladderPos.stop > ladderPos.entry /\ ladderSaved.stop > ladderPos.entry

LadderInv == LadderTyped /\ (Ladder!Held /\ ladderAdds = 0 => Unadded)

\* What a share and a distance are numbers of.
LEMMA ShareInt == \A x, k \in Int : Ladder!Of(x, k) \in Int
BY SMT DEF Ladder!Of

LEMMA DistanceInt ==
    ASSUME NEW x \in Int, NEW y \in Int
    PROVE  Ladder!Distance(x, y) \in Nat /\ (x > y => Ladder!Distance(x, y) = x - y)
BY DEF Ladder!Distance

LEMMA RatioInt == ASSUME NEW x \in Int, NEW y \in Nat \ {0} PROVE x \div y \in Int
BY SMT

LEMMA RatioNat == ASSUME NEW x \in Nat, NEW y \in Nat \ {0} PROVE x \div y \in Nat
BY SMT

LEMMA RatioLeast == ASSUME NEW x \in Nat, NEW y \in Nat \ {0}, x >= 4 * y PROVE x \div y \in Int /\ x \div y >= 4
BY SMT

LEMMA RiskNat == ASSUME NEW p \in LadderRecords PROVE Ladder!RiskOf(p) \in Nat
<1>1. p.entry \in Nat \ {0} /\ p.entry \in Int /\ p.original \in Int BY DEF LadderRecords
<1>2. Ladder!Distance(p.entry, p.original) * 1000 \in Nat
  <2> DEFINE d == Ladder!Distance(p.entry, p.original)
  <2>1. d \in Nat BY <1>1, DistanceInt
  <2> HIDE DEF d
  <2>2. d * 1000 \in Nat BY <2>1
  <2> QED BY <2>2 DEF d
<1> QED BY <1>1, <1>2, RatioNat DEF Ladder!RiskOf

\* The first two levels of a steep position are above its entry.
LEMMA LevelsAbove ==
    ASSUME NEW p \in LadderRecords, NEW tp \in {1, 2}
    PROVE  /\ Ladder!Levels(p, tp) \in Int
           /\ Steep(p) => Ladder!Levels(p, tp) > p.entry
<1> DEFINE e == p.entry
           risk == Ladder!RiskOf(p)
           k == (risk * (IF tp = 1 THEN 500 ELSE 1500)) \div 1000
<1>1. e \in Nat \ {0} /\ risk \in Nat BY RiskNat DEF LadderRecords
<1>2. Ladder!Levels(p, tp) = e + Ladder!Of(e, k) BY DEF Ladder!Levels
<1>3. Steep(p) <=> e >= 500 /\ risk >= 4 BY DEF Steep
<1> HIDE DEF e, risk
<1>4. k \in Nat /\ (risk >= 4 => k >= 2) BY <1>1, SMT
<1> HIDE DEF k
<1>5. Ladder!Of(e, k) \in Int BY <1>1, <1>4, ShareInt
<1>6. ASSUME e >= 500, k >= 2 PROVE Ladder!Of(e, k) >= 1
  <2>1. e * k \in Nat /\ e * k >= 1000
    <3>1. e * k = e * 2 + e * (k - 2) /\ e * (k - 2) \in Nat BY <1>1, <1>4, <1>6, SMT
    <3> QED BY <1>1, <1>6, <3>1
  <2> DEFINE n == e * k
  <2> HIDE DEF n
  <2>2. n \in Nat /\ n >= 1000 BY <2>1 DEF n
  <2>3. n \div 1000 >= 1 BY <2>2, SMT
  <2> QED BY <2>3 DEF Ladder!Of, n
<1>7. Ladder!Levels(p, tp) \in Int BY <1>1, <1>2, <1>5
<1>8. ASSUME Steep(p) PROVE Ladder!Levels(p, tp) > e BY <1>1, <1>2, <1>3, <1>4, <1>5, <1>6, <1>8
<1> QED BY <1>7, <1>8 DEF e

\* Who is alike has the same levels and is as steep.
LEMMA AlikeLevels ==
    ASSUME NEW p, NEW q, p.entry = q.entry, p.original = q.original
    PROVE  (Steep(p) <=> Steep(q)) /\ \A tp : Ladder!Levels(p, tp) = Ladder!Levels(q, tp)
BY DEF Steep, Ladder!Levels, Ladder!RiskOf

-----------------------------------------------------------------------------
(* The moves of the stop.                                                     *)

MoveStates == [stop : Int, ex : Int, recent : BOOLEAN, faults : Nat, kept : Int]

\* On the way through the moves of one check, from a stop, with another in the file:
\* the stop has not come down, and what the file will hold is not looser than what
\* the exchange holds, and the same if it never failed.
Written(s, file) == IF s.kept = Ladder!NoStop THEN file ELSE s.kept
Follows(s, from, file) ==
    /\ from >= 0 /\ s.stop >= from /\ s.ex <= s.stop
    /\ s.kept = Ladder!NoStop \/ s.kept >= from
    /\ s.ex <= Written(s, file)
    /\ s.faults = 0 => s.ex = Written(s, file)

LEMMA ReplacedStop ==
    ASSUME NEW old \in Int, NEW new \in Int, NEW f \in Nat, NEW r \in Ladder!Replacements(old, new, f)
    PROVE  /\ r[1] \in {old, new, Ladder!NoStop} /\ r[1] \in Int
           /\ r[2] \in Nat /\ r[2] >= f /\ (r[2] = 0 => f = 0 /\ r[1] = new)
<1>1. r \in {<<new, f>>, <<old, f + 1>>, <<Ladder!NoStop, f + 1>>} BY DEF Ladder!Replacements
<1>2. Ladder!NoStop \in Int BY DEF Ladder!NoStop
<1> QED BY <1>1, <1>2

LEMMA MoveFollows ==
    ASSUME NEW s \in MoveStates, NEW target \in Int, NEW t \in Ladder!Moves(s, target)
    PROVE  /\ t \in MoveStates /\ t.stop >= s.stop /\ t.faults >= s.faults
           /\ \A from, file \in Int : Follows(s, from, file) => Follows(t, from, file)
<1>1. /\ s.stop \in Int /\ s.ex \in Int /\ s.faults \in Nat /\ s.kept \in Int /\ s.recent \in BOOLEAN
  BY DEF MoveStates
<1>2. CASE t = s BY <1>1, <1>2
<1>3. CASE target > s.stop /\ t = [s EXCEPT !.stop = target]
  <2>1. t \in MoveStates /\ t.stop = target /\ t.ex = s.ex /\ t.faults = s.faults /\ t.kept = s.kept
    BY <1>3 DEF MoveStates
  <2>2. \A from, file \in Int : Follows(s, from, file) => Follows(t, from, file)
    BY <1>1, <1>3, <2>1 DEF Follows, Written
  <2> QED BY <1>1, <1>3, <2>1, <2>2
<1>4. CASE target > s.stop /\ \E r \in Ladder!Replacements(s.ex, target, s.faults) :
             t = [stop |-> target, ex |-> r[1], recent |-> TRUE, faults |-> r[2], kept |-> target]
  <2>1. PICK r \in Ladder!Replacements(s.ex, target, s.faults) :
             t = [stop |-> target, ex |-> r[1], recent |-> TRUE, faults |-> r[2], kept |-> target]
    BY <1>4
  <2>2. /\ r[1] \in {s.ex, target, Ladder!NoStop} /\ r[1] \in Int
        /\ r[2] \in Nat /\ r[2] >= s.faults /\ (r[2] = 0 => s.faults = 0 /\ r[1] = target)
    BY <1>1, ReplacedStop
  <2>3. /\ t \in MoveStates /\ t.stop = target /\ t.ex = r[1] /\ t.faults = r[2] /\ t.kept = target
    BY <2>1, <2>2 DEF MoveStates
  <2>4. ASSUME NEW from \in Int, NEW file \in Int, Follows(s, from, file) PROVE Follows(t, from, file)
    <3>1. from >= 0 /\ target > from /\ s.ex <= target /\ target # Ladder!NoStop /\ Ladder!NoStop <= target
      BY <1>1, <1>4, <2>4 DEF Follows, Ladder!NoStop
    <3>2. r[1] <= target BY <2>2, <3>1
    <3>3. Written(t, file) = target BY <2>3, <3>1 DEF Written
    <3>4. t.ex <= target /\ (t.faults = 0 => t.ex = target) BY <2>2, <2>3, <3>2
    <3> QED BY <2>3, <3>1, <3>3, <3>4 DEF Follows
  <2>5. t.stop >= s.stop /\ t.faults >= s.faults BY <1>1, <1>4, <2>2, <2>3
  <2>6. \A from, file \in Int : Follows(s, from, file) => Follows(t, from, file) BY <2>4
  <2> QED BY <2>3, <2>5, <2>6
<1> QED BY <1>1, <1>2, <1>3, <1>4 DEF Ladder!Moves

\* The stops of the ladder are numbers.
LEMMA TargetsInt ==
    ASSUME NEW p \in LadderRecords, NEW price \in Int
    PROVE  Ladder!Targets(p, price) \in Seq(Int)
<1>1. p.entry \in Int /\ p.high \in Int /\ LadderAtr \in Int BY LadderAssumption DEF LadderRecords
<1>2. Ladder!RiskOf(p) \in Int BY RiskNat
<1>3. \A n \in Int : <<n>> \in Seq(Int) OBVIOUS
<1>4. <<>> \in Seq(Int) OBVIOUS
<1>5. Ladder!Guarded(p, price) \in Seq(Int)
  <2>0. Ladder!Of(p.entry, 2) \in Int BY <1>1, SMT DEF Ladder!Of
  <2>1. p.entry + Ladder!Of(p.entry, 2) \in Int BY <1>1, <2>0
  <2> QED BY <1>3, <1>4, <2>1 DEF Ladder!Guarded
<1> DEFINE third == Ladder!Of(p.entry, Ladder!Of(Ladder!RiskOf(p), 300))
<1>6. third \in Int
  <2>1. Ladder!Of(Ladder!RiskOf(p), 300) \in Int BY <1>2, ShareInt
  <2> QED BY <1>1, <2>1, ShareInt
<1>7. Ladder!Locked(p, price) \in Seq(Int)
  <2>1. p.entry + third \in Int BY <1>1, <1>6
  <2> QED BY <1>3, <1>4, <2>1 DEF Ladder!Locked
<1>8. Ladder!EarlyTrail(p, price) \in Seq(Int)
  <2>1. p.high - third \in Int BY <1>1, <1>6
  <2> QED BY <1>3, <1>4, <2>1 DEF Ladder!EarlyTrail
<1>9. Ladder!Trailed(p) \in Seq(Int)
  <2>1. Ladder!TrailDistance(p) \in Int
    <3>0. Ladder!Of(LadderAtr, 1200) \in Int BY <1>1, ShareInt
    <3>1. Ladder!Of(Ladder!RiskOf(p), 700) \in Int BY <1>2, ShareInt
    <3>2. Ladder!RiskOf(p) \div 2 \in Int BY <1>2, SMT
    <3>3. \A x, y \in Int : Ladder!Higher(x, y) \in Int BY DEF Ladder!Higher
    <3> QED BY <1>1, <1>2, <3>0, <3>1, <3>2, <3>3 DEF Ladder!TrailDistance
  <2>0. Ladder!Of(p.high, Ladder!TrailDistance(p)) \in Int BY <1>1, <2>1, ShareInt
  <2>2. p.high - Ladder!Of(p.high, Ladder!TrailDistance(p)) \in Int BY <1>1, <2>0
  <2> QED BY <1>3, <1>4, <2>2 DEF Ladder!Trailed
<1>10. Ladder!Guarded(p, price) \o Ladder!Locked(p, price) \o Ladder!Trailed(p) \in Seq(Int)
  <2>1. \A a, b, c \in Seq(Int) : a \o b \o c \in Seq(Int) OBVIOUS
  <2> QED BY <1>5, <1>7, <1>9, <2>1
<1> QED BY <1>4, <1>8, <1>10 DEF Ladder!Targets

\* All moves of a check, from where the position is.
LEMMA MovesFollow ==
    ASSUME NEW p \in LadderRecords, NEW price \in Int, NEW s \in Ladder!AfterMoves(p, price),
           ladderExStop \in Int, ladderRecent \in BOOLEAN, ladderFaults \in Nat
    PROVE  /\ s \in MoveStates /\ s.stop >= p.stop /\ s.faults >= ladderFaults
           /\ \A file \in Int :
                 /\ p.stop >= 0 /\ ladderExStop <= p.stop /\ ladderExStop <= file
                 /\ ladderFaults = 0 => ladderExStop = file
                 => Follows(s, p.stop, file)
<1> DEFINE s0 == [stop |-> p.stop, ex |-> ladderExStop, recent |-> ladderRecent, faults |-> ladderFaults,
                  kept |-> Ladder!NoStop]
           todo == Ladder!Targets(p, price)
           first == IF Len(todo) >= 1 THEN Ladder!Moves(s0, todo[1]) ELSE {s0}
<1>1. p.stop \in Int BY DEF LadderRecords
<1>2. /\ s0 \in MoveStates /\ s0.stop = p.stop /\ s0.ex = ladderExStop /\ s0.faults = ladderFaults
      /\ s0.kept = Ladder!NoStop
  <2>1. Ladder!NoStop \in Int BY DEF Ladder!NoStop
  <2> QED BY <1>1, <2>1 DEF MoveStates
<1>3. todo \in Seq(Int) BY TargetsInt
<1>4. s \in IF Len(todo) >= 2 THEN UNION {Ladder!Moves(t, todo[2]) : t \in first} ELSE first
  BY DEF Ladder!AfterMoves
<1> DEFINE Good(t) == /\ t \in MoveStates /\ t.stop >= p.stop /\ t.faults >= ladderFaults
                      /\ \A file \in Int : Follows(s0, p.stop, file) => Follows(t, p.stop, file)
<1>5. Good(s0) BY <1>1, <1>2
<1> HIDE DEF s0, todo
<1>6. \A t \in first : Good(t)
  <2>1. CASE Len(todo) >= 1
    <3>1. todo[1] \in Int BY <1>3, <2>1
    <3>2. \A t \in Ladder!Moves(s0, todo[1]) : Good(t) BY <1>1, <1>2, <3>1, MoveFollows
    <3> QED BY <2>1, <3>2
  <2>2. CASE ~(Len(todo) >= 1) BY <1>5, <2>2
  <2> QED BY <2>1, <2>2
<1> HIDE DEF first
<1>7. Good(s)
  <2>1. CASE Len(todo) >= 2
    <3>1. todo[2] \in Int BY <1>3, <2>1
    <3>2. PICK t \in first : s \in Ladder!Moves(t, todo[2]) BY <1>4, <2>1
    <3>3. t.stop \in Int /\ t.faults \in Nat /\ Good(t) BY <1>6 DEF MoveStates
    <3>4. s \in MoveStates /\ s.stop >= t.stop /\ s.stop \in Int /\ s.faults >= t.faults /\ s.faults \in Nat
          /\ \A file \in Int : Follows(t, p.stop, file) => Follows(s, p.stop, file)
      <4>1. s \in MoveStates /\ s.stop >= t.stop /\ s.faults >= t.faults
            /\ \A from, file \in Int : Follows(t, from, file) => Follows(s, from, file)
        BY <3>1, <3>2, <3>3, MoveFollows
      <4> QED BY <1>1, <4>1 DEF MoveStates
    <3> QED BY <1>1, <3>3, <3>4
  <2>2. CASE ~(Len(todo) >= 2) BY <1>4, <1>6, <2>2
  <2> QED BY <2>1, <2>2
<1>8. ASSUME NEW file \in Int, p.stop >= 0, ladderExStop <= p.stop, ladderExStop <= file,
             ladderFaults = 0 => ladderExStop = file
      PROVE  Follows(s0, p.stop, file)
  BY <1>1, <1>2, <1>8 DEF Follows, Written
<1> QED BY <1>7, <1>8

-----------------------------------------------------------------------------
(* The steps of the ladder.                                                   *)

\* What no step does to the stop between two levels.
StopStays ==
    Ladder!Held /\ ladderPos' # Ladder!Flat /\ ladderPos'.tp = ladderPos.tp /\ ladderAdds' = 0
        => ladderPos'.stop >= ladderPos.stop \/ ladderPos'.stop >= ladderExStop

LEMMA RecordNotFlat == ASSUME NEW p \in LadderRecords PROVE p # Ladder!Flat
<1>1. p.entry # 0 BY DEF LadderRecords
<1> QED BY <1>1 DEF Ladder!Flat

LEMMA HeldRecords ==
    ASSUME LadderTyped, Ladder!Held PROVE ladderPos \in LadderRecords /\ ladderSaved \in LadderRecords
BY DEF LadderTyped, Ladder!Held

LEMMA GoneKeeps == ASSUME LadderInv, Ladder!Gone PROVE LadderInv' /\ StopStays
<1>1. /\ ladderPos' = Ladder!Flat /\ ladderSaved' = Ladder!Flat /\ ladderExStop' = Ladder!NoStop
      /\ ladderAdds' = 0 /\ ladderFaults' = ladderFaults /\ ladderRecent' = FALSE
  BY DEF Ladder!Gone
<1>2. LadderTyped'
  <2>1. ladderExStop' \in Int BY <1>1 DEF Ladder!NoStop
  <2>2. ladderFaults' \in Nat BY <1>1 DEF LadderInv, LadderTyped
  <2> HIDE DEF Ladder!Flat
  <2> QED BY <1>1, <2>1, <2>2 DEF LadderTyped
<1>3. ~Ladder!Held' BY <1>1 DEF Ladder!Held
<1> QED BY <1>1, <1>2, <1>3 DEF LadderInv, StopStays

\* A record that is written to the file as it is.
LEMMA KeptFits ==
    ASSUME LadderInv, NEW q \in LadderRecords, ladderPos' = q, ladderSaved' = q,
           ladderExStop' \in Int, ladderAdds' \in Nat, ladderFaults' \in Nat, ladderRecent' \in BOOLEAN,
           ladderAdds' = 0 =>
               /\ Steep(q) /\ q.stop >= 0 /\ ladderExStop' <= q.stop
               /\ ladderFaults' = 0 => ladderExStop' = q.stop
               /\ q.tp >= 1 /\ ladderFaults' = 0 => q.stop > q.entry
    PROVE  LadderInv'
<1>1. q # Ladder!Flat BY RecordNotFlat
<1>2. LadderTyped' BY <1>1 DEF LadderTyped
<1>3. ladderAdds' = 0 => Unadded' BY DEF Unadded, Alike
<1> QED BY <1>2, <1>3 DEF LadderInv

\* The fill of an entry: the gate lets no plan in whose stop it would not keep its
\* distance from.
LEMMA OpenSteep ==
    ASSUME NEW plan \in LadderPlans, NEW live \in Nat \ {0}, NEW anchor \in Ladder!Anchors(plan, live),
           NEW fill, fill = (IF anchor = plan.ref THEN live ELSE anchor),
           NEW q, q.entry = fill, q.original = anchor - Ladder!Of(anchor, plan.sl), q.original < fill
    PROVE  /\ fill \in Nat \ {0} /\ q.original \in Nat /\ anchor \in Nat
           /\ Steep(q)
<1> DEFINE ref == plan.ref
           sl == plan.sl
           cut == Ladder!Of(anchor, sl)
<1>1. ref \in Nat /\ ref >= 1000 /\ sl \in 11..999 BY LadderAssumption
<1> HIDE DEF ref, sl
<1>2. anchor \in Nat /\ anchor >= 950 /\ fill \in Nat /\ 1000 * fill >= 995 * anchor /\ fill >= 950
  <2>1. Ladder!Distance(live, ref) * 1000 <= 50 * ref
    <3>1. Ladder!Distance(live, ref) \in Nat BY <1>1 DEF Ladder!Distance
    <3>2. Ladder!Band(ref, live) # "abandon" BY DEF Ladder!Anchors, ref
    <3> DEFINE d == Ladder!Distance(live, ref) * 1000
    <3>3. d \in Nat BY <3>1
    <3> HIDE DEF d
    <3>4. ~(d > 50 * ref)
      <4>1. ASSUME d > 50 * ref PROVE FALSE
        <5>1. ~(d <= 5 * ref) /\ ~(d <= 20 * ref) /\ ~(d <= 50 * ref) BY <1>1, <3>3, <4>1
        <5>2. Ladder!Band(ref, live) = "abandon" BY <4>1, <5>1 DEF Ladder!Band, d
        <5> QED BY <3>2, <5>2
      <4> QED BY <4>1
    <3> QED BY <1>1, <3>3, <3>4 DEF d
  <2>2. live >= 950 BY <1>1, <2>1 DEF Ladder!Distance
  <2>3. CASE Ladder!Band(ref, live) = "accept"
    <3>1. anchor = ref BY <2>3 DEF Ladder!Anchors, ref
    <3>2. Ladder!Distance(live, ref) * 1000 <= 5 * ref
      <4> DEFINE d == Ladder!Distance(live, ref) * 1000
      <4>1. d \in Nat
        <5>1. Ladder!Distance(live, ref) \in Nat BY <1>1 DEF Ladder!Distance
        <5> QED BY <5>1
      <4>2. ASSUME ~(d <= 5 * ref) PROVE FALSE
        <5> HIDE DEF d
        <5>1. d > 5 * ref BY <1>1, <4>1, <4>2
        <5>2. CASE d <= 20 * ref
          BY <2>3, <4>2, <5>1, <5>2 DEF Ladder!Band, d
        <5>3. CASE d > 20 * ref /\ d <= 50 * ref
          <6>1. ~(d <= 20 * ref) BY <1>1, <4>1, <5>3
          <6> QED BY <2>3, <4>2, <5>1, <5>3, <6>1 DEF Ladder!Band, d
        <5>4. CASE d > 50 * ref
          <6>1. ~(d <= 20 * ref) /\ ~(d <= 50 * ref) BY <1>1, <4>1, <5>4
          <6> QED BY <2>3, <4>2, <5>1, <5>4, <6>1 DEF Ladder!Band, d
        <5> QED BY <1>1, <4>1, <5>2, <5>3, <5>4
      <4> QED BY <4>2
    <3>3. fill = live BY <3>1 DEF ref
    <3> QED BY <1>1, <2>2, <3>1, <3>2, <3>3 DEF Ladder!Distance
  <2>4. CASE Ladder!Band(ref, live) # "accept"
    <3>1. anchor = live BY <2>4 DEF Ladder!Anchors, ref
    <3>2. fill = live BY <3>1
    <3> QED BY <2>2, <3>1, <3>2
  <2> QED BY <2>3, <2>4
<1>3. cut \in Nat /\ cut <= anchor /\ 1000 * cut >= 11 * anchor - 999
  <2>1. anchor * sl = anchor * 11 + anchor * (sl - 11) /\ anchor * (sl - 11) \in Nat BY <1>1, <1>2, SMT
  <2>2. anchor * 1000 = anchor * sl + anchor * (1000 - sl) /\ anchor * (1000 - sl) \in Nat BY <1>1, <1>2, SMT
  <2> DEFINE n == anchor * sl
  <2>3. n \in Nat /\ n >= anchor * 11 /\ n <= anchor * 1000 BY <1>1, <1>2, <2>1, <2>2
  <2> HIDE DEF n
  <2>4. n \div 1000 \in Nat /\ n \div 1000 <= anchor /\ 1000 * (n \div 1000) >= 11 * anchor - 999
    BY <1>2, <2>3, SMT
  <2> QED BY <2>4 DEF Ladder!Of, n
<1>4. q.original = anchor - cut BY DEF sl
<1> HIDE DEF cut
<1>5. q.original \in Nat BY <1>2, <1>3, <1>4
<1> DEFINE d == Ladder!Distance(q.entry, q.original) * 1000
<1>6. d \in Nat /\ d >= 4 * fill
  <2>1. Ladder!Distance(q.entry, q.original) = fill - (anchor - cut)
    BY <1>2, <1>4, <1>5 DEF Ladder!Distance
  <2>2. fill - (anchor - cut) \in Nat BY <1>2, <1>3, <1>4
  <2>3. (fill - (anchor - cut)) * 1000 >= 4 * fill BY <1>2, <1>3
  <2> QED BY <2>1, <2>2, <2>3
<1> HIDE DEF d
<1>7. d \div fill >= 4 BY <1>2, <1>6, RatioLeast
<1>8. Ladder!RiskOf(q) = d \div fill BY DEF Ladder!RiskOf, d
<1> QED BY <1>2, <1>5, <1>7, <1>8 DEF Steep

LEMMA OpenKeeps ==
    ASSUME LadderInv, NEW plan \in LadderPlans, NEW live \in LadderPrices, Ladder!Open(plan, live)
    PROVE  LadderInv' /\ StopStays
<1>1. ~Ladder!Held BY DEF Ladder!Open
<1>2. StopStays BY <1>1 DEF StopStays
<1>3. PICK anchor \in Ladder!Anchors(plan, live) :
        LET fill == IF anchor = plan.ref THEN live ELSE anchor
            p == Ladder!PositionAt(plan, anchor, fill)
        IN  p.stop < fill /\ Ladder!Keep(p) /\ ladderExStop' = p.stop
  BY DEF Ladder!Open
<1>4. PICK fill : fill = (IF anchor = plan.ref THEN live ELSE anchor) OBVIOUS
<1> DEFINE stop == anchor - Ladder!Of(anchor, plan.sl)
           tps == [i \in DOMAIN plan.tps |-> anchor + Ladder!Of(anchor, plan.tps[i])]
           q == Ladder!PositionAt(plan, anchor, fill)
<1>5. q = [entry |-> fill, original |-> stop, stop |-> stop, high |-> fill, tp |-> 0, tps |-> tps,
           slot |-> plan.slot, thesis |-> "ok"]
  BY DEF Ladder!PositionAt
<1>6. q.stop < fill /\ ladderPos' = q /\ ladderSaved' = q /\ ladderExStop' = q.stop
  BY <1>3, <1>4 DEF Ladder!Keep
<1>7. live \in Nat \ {0} BY LadderAssumption
<1>8. fill \in Nat \ {0} /\ stop \in Nat /\ anchor \in Nat /\ Steep(q)
  <2> HIDE DEF q, stop
  <2>1. q.entry = fill /\ q.original = stop /\ q.stop = stop BY <1>5
  <2>2. q.original = anchor - Ladder!Of(anchor, plan.sl) BY <2>1 DEF stop
  <2>3. q.original < fill BY <1>6, <2>1
  <2> QED BY <1>4, <1>7, <2>1, <2>2, <2>3, OpenSteep
<1>9. tps \in Seq(Int)
  <2>1. plan.tps \in Seq(Nat) BY LadderAssumption
  <2>2. \A i \in DOMAIN plan.tps : Ladder!Of(anchor, plan.tps[i]) \in Int
    <3> TAKE i \in DOMAIN plan.tps
    <3>1. plan.tps[i] \in Int /\ anchor \in Int BY <1>8, <2>1
    <3> QED BY <3>1, ShareInt
  <2>3. \A i \in DOMAIN plan.tps : anchor + Ladder!Of(anchor, plan.tps[i]) \in Int BY <1>8, <2>2
  <2>4. DOMAIN plan.tps = 1..Len(plan.tps) /\ Len(plan.tps) \in Nat BY <2>1
  <2> QED BY <2>3, <2>4, IsASeq
<1>10. plan.slot \in Slots BY DEF Slots
<1> HIDE DEF stop, tps, q
<1>11. q \in LadderRecords /\ q.stop = stop /\ q.entry = fill /\ q.tp = 0
  BY <1>5, <1>8, <1>9, <1>10 DEF LadderRecords
<1>12. ladderExStop' \in Int /\ ladderAdds' \in Nat /\ ladderFaults' \in Nat /\ ladderRecent' \in BOOLEAN
  BY <1>6, <1>8, <1>11 DEF Ladder!Open, LadderInv, LadderTyped
<1>13. LadderInv' BY <1>6, <1>8, <1>11, <1>12, KeptFits
<1> QED BY <1>2, <1>13

\* The high is raised first; nothing else of the record changes.
LEMMA RaisedHigh ==
    ASSUME NEW p \in LadderRecords, NEW price \in Int, NEW q, q = [p EXCEPT !.high = Ladder!Higher(@, price)]
    PROVE  /\ q \in LadderRecords /\ Alike(p, q) /\ q.stop = p.stop /\ q.tp = p.tp /\ q.entry = p.entry
           /\ q.slot = p.slot /\ q.thesis = p.thesis
<1> DEFINE high == Ladder!Higher(p.high, price)
<1>1. high \in Int BY DEF Ladder!Higher, LadderRecords
<1>2. q = [p EXCEPT !.high = high] OBVIOUS
<1> HIDE DEF high
<1> QED BY <1>1, <1>2 DEF LadderRecords, Alike

LEMMA PartialKeeps ==
    ASSUME LadderInv, Ladder!Held, NEW p \in LadderRecords, Alike(ladderPos, p), p.stop = ladderPos.stop,
           NEW tp \in {1, 2}, tp # ladderPos.tp, Ladder!Partial(p, tp)
    PROVE  LadderInv' /\ StopStays
<1> DEFINE level == Ladder!Levels(p, tp)
<1>1. PICK r \in Ladder!Replacements(Ladder!NoStop, level, ladderFaults) :
        /\ Ladder!Keep([p EXCEPT !.tp = tp, !.stop = IF r[1] = level THEN r[1] ELSE @])
        /\ ladderExStop' = r[1] /\ ladderFaults' = r[2]
  BY DEF Ladder!Partial
<1>2. ladderAdds' = ladderAdds /\ ladderAdds \in Nat /\ ladderFaults \in Nat /\ ladderRecent' \in BOOLEAN
  BY DEF Ladder!Partial, LadderInv, LadderTyped
<1>3. level \in Int /\ (Steep(p) => level > p.entry) BY LevelsAbove
<1> HIDE DEF level
<1>4. /\ r[1] \in {level, Ladder!NoStop} /\ r[1] \in Int
      /\ r[2] \in Nat /\ (r[2] = 0 => r[1] = level)
  <2>1. Ladder!NoStop \in Int BY DEF Ladder!NoStop
  <2> QED BY <1>1, <1>2, <1>3, <2>1, ReplacedStop
<1> DEFINE stop == IF r[1] = level THEN r[1] ELSE p.stop
           q == [p EXCEPT !.tp = tp, !.stop = stop]
<1>5. ladderPos' = q /\ ladderSaved' = q BY <1>1 DEF Ladder!Keep
<1>6. stop \in Int BY <1>3 DEF LadderRecords
<1> HIDE DEF stop
<1>7. /\ q \in LadderRecords /\ q.stop = stop /\ q.tp = tp /\ q.entry = p.entry /\ q.original = p.original
  <2>1. tp \in 0..2 OBVIOUS
  <2> QED BY <1>6, <2>1 DEF LadderRecords
<1> HIDE DEF q
<1>8. ASSUME ladderAdds' = 0
      PROVE  /\ Steep(q) /\ q.stop >= 0 /\ ladderExStop' <= q.stop
             /\ ladderFaults' = 0 => ladderExStop' = q.stop
             /\ q.tp >= 1 /\ ladderFaults' = 0 => q.stop > q.entry
  <2>1. Unadded BY <1>2, <1>8 DEF LadderInv
  <2>2. Steep(p) /\ p.stop >= 0 BY <2>1, AlikeLevels DEF Unadded, Alike
  <2>3. Steep(q) BY <1>7, <2>2, AlikeLevels
  <2>4. p.entry \in Nat /\ p.stop \in Int BY DEF LadderRecords
  <2>5. CASE r[1] = level
    <3>1. stop = level BY <2>5 DEF stop
    <3> QED BY <1>1, <1>3, <1>7, <2>2, <2>3, <2>4, <2>5, <3>1
  <2>6. CASE r[1] # level
    <3>1. stop = p.stop /\ r[1] = Ladder!NoStop /\ r[2] # 0 BY <1>4, <2>6 DEF stop
    <3> QED BY <1>1, <1>7, <2>2, <2>3, <2>4, <3>1 DEF Ladder!NoStop
  <2> QED BY <2>5, <2>6
<1>9. LadderInv' BY <1>1, <1>2, <1>4, <1>5, <1>7, <1>8, KeptFits
<1>10. StopStays BY <1>5, <1>7 DEF StopStays
<1> QED BY <1>9, <1>10

LEMMA CheckKeeps ==
    ASSUME LadderInv, NEW price \in LadderPrices, Ladder!Check(price)
    PROVE  LadderInv' /\ StopStays
<1>0. price \in Int BY LadderAssumption
<1>1. Ladder!Held /\ ladderPos \in LadderRecords /\ ladderSaved \in LadderRecords /\ price \in Int
  BY <1>0, HeldRecords DEF Ladder!Check, LadderInv
<1>2. PICK p : p = [ladderPos EXCEPT !.high = Ladder!Higher(@, price)] OBVIOUS
<1>3. /\ p \in LadderRecords /\ Alike(ladderPos, p) /\ p.stop = ladderPos.stop /\ p.tp = ladderPos.tp
      /\ p.entry = ladderPos.entry
  BY <1>1, <1>2, RaisedHigh
<1>4. \/ Ladder!Gone
      \/ Ladder!LevelHit(p, price) > 0 /\ Ladder!Partial(p, Ladder!LevelHit(p, price))
      \/ \E s \in Ladder!AfterMoves(p, price) :
            /\ ladderPos' = [p EXCEPT !.stop = s.stop]
            /\ ladderSaved' = IF s.kept = Ladder!NoStop THEN ladderSaved ELSE [p EXCEPT !.stop = s.kept]
            /\ ladderExStop' = s.ex /\ ladderRecent' = s.recent
            /\ ladderFaults' = s.faults /\ ladderAdds' = ladderAdds
  <2> DEFINE out == p.slot = "tactical" /\ p.thesis = "invalidated"
             hit == Ladder!LevelHit(p, price) > 0
  <2>1. CASE out BY <1>2, <2>1 DEF Ladder!Check
  <2>2. CASE ~out /\ hit BY <1>2, <2>2 DEF Ladder!Check
  <2>3. CASE ~out /\ ~hit BY <1>2, <2>3 DEF Ladder!Check
  <2> QED BY <2>1, <2>2, <2>3
<1>5. CASE Ladder!Gone BY <1>5, GoneKeeps
<1>6. CASE Ladder!LevelHit(p, price) > 0 /\ Ladder!Partial(p, Ladder!LevelHit(p, price))
  <2>1. Ladder!LevelHit(p, price) \in {1, 2} /\ p.tp = Ladder!LevelHit(p, price) - 1
    BY <1>6 DEF Ladder!LevelHit, Ladder!AtLevel
  <2>2. Ladder!LevelHit(p, price) # ladderPos.tp BY <1>3, <2>1
  <2> QED BY <1>1, <1>3, <1>6, <2>1, <2>2, PartialKeeps
<1>7. ASSUME NEW s \in Ladder!AfterMoves(p, price),
             ladderPos' = [p EXCEPT !.stop = s.stop],
             ladderSaved' = IF s.kept = Ladder!NoStop THEN ladderSaved ELSE [p EXCEPT !.stop = s.kept],
             ladderExStop' = s.ex, ladderRecent' = s.recent,
             ladderFaults' = s.faults, ladderAdds' = ladderAdds
      PROVE  LadderInv' /\ StopStays
  <2> DEFINE from == ladderPos.stop
             file == ladderSaved.stop
             kept == [p EXCEPT !.stop = s.kept]
             q == [p EXCEPT !.stop = s.stop]
  <2>1. /\ ladderExStop \in Int /\ ladderFaults \in Nat /\ ladderAdds \in Nat /\ ladderRecent \in BOOLEAN
        /\ from \in Int /\ file \in Int
    BY <1>1 DEF LadderInv, LadderTyped, LadderRecords
  <2>2. /\ s \in MoveStates /\ s.stop >= from /\ s.faults >= ladderFaults
        /\ from >= 0 /\ ladderExStop <= from /\ ladderExStop <= file /\ (ladderFaults = 0 => ladderExStop = file)
              => Follows(s, from, file)
    BY <1>1, <1>3, <2>1, MovesFollow
  <2>3. s.stop \in Int /\ s.kept \in Int /\ s.ex \in Int /\ s.faults \in Nat /\ s.recent \in BOOLEAN
    BY <2>2 DEF MoveStates
  <2>4. /\ q \in LadderRecords /\ q.stop = s.stop /\ Alike(p, q) /\ q.tp = p.tp /\ q.entry = p.entry
        /\ kept \in LadderRecords /\ kept.stop = s.kept /\ Alike(p, kept)
    BY <1>3, <2>3 DEF LadderRecords, Alike
  <2>5. ladderPos' = q /\ ladderSaved' = (IF s.kept = Ladder!NoStop THEN ladderSaved ELSE kept) BY <1>7
  <2> HIDE DEF q, kept
  <2>6. LadderTyped'
    <3>1. ladderPos' \in LadderRecords /\ ladderSaved' \in LadderRecords BY <1>1, <2>4, <2>5
    <3>2. ladderPos' # Ladder!Flat /\ ladderSaved' # Ladder!Flat BY <3>1, RecordNotFlat
    <3> QED BY <1>7, <2>1, <2>3, <3>1, <3>2 DEF LadderTyped
  <2>7. ASSUME ladderAdds' = 0 PROVE Unadded'
    <3>1. Unadded BY <1>1, <1>7, <2>7 DEF LadderInv
    <3>2. Follows(s, from, file) BY <2>2, <3>1 DEF Unadded
    <3>3. ladderSaved'.stop = Written(s, file) BY <2>4, <2>5 DEF Written
    <3>4. Alike(ladderPos', ladderSaved') /\ Steep(ladderPos')
      <4>1. Steep(ladderPos') BY <1>3, <2>4, <2>5, <3>1, AlikeLevels DEF Unadded, Alike
      <4>2. Alike(q, ladderSaved) /\ Alike(q, kept) BY <1>3, <2>4, <3>1 DEF Unadded, Alike
      <4> QED BY <2>5, <4>1, <4>2
    <3>5. ladderPos'.stop = s.stop /\ ladderPos'.tp = ladderPos.tp /\ ladderPos'.entry = ladderPos.entry
      BY <1>3, <2>4, <2>5
    <3>6. Written(s, file) \in {file, s.kept} /\ (Written(s, file) # file => s.kept >= from)
      BY <3>2 DEF Written, Follows
    <3>7. ladderPos.entry \in Int BY <1>1 DEF LadderRecords
    <3>8. from >= 0 /\ file >= 0 /\ s.ex <= s.stop /\ s.ex <= Written(s, file)
          /\ (s.faults = 0 => s.ex = Written(s, file))
      BY <3>1, <3>2 DEF Unadded, Follows
    <3>9. ladderPos.tp >= 1 /\ ladderFaults = 0 => from > ladderPos.entry /\ file > ladderPos.entry
      BY <3>1 DEF Unadded
    <3>10. s.faults = 0 => ladderFaults = 0 BY <2>1, <2>2, <2>3
    <3>11. s.stop >= 0 /\ Written(s, file) >= 0 BY <2>1, <2>2, <2>3, <3>6, <3>8
    <3>12. ASSUME ladderPos.tp >= 1, s.faults = 0
           PROVE  s.stop > ladderPos.entry /\ Written(s, file) > ladderPos.entry
      BY <2>1, <2>2, <2>3, <3>6, <3>7, <3>9, <3>10, <3>12
    <3> HIDE DEF from, file
    <3> QED BY <1>7, <3>3, <3>4, <3>5, <3>8, <3>11, <3>12 DEF Unadded
  <2>8. StopStays BY <2>2, <2>4, <2>5 DEF StopStays
  <2> QED BY <2>6, <2>7, <2>8 DEF LadderInv
<1> QED BY <1>4, <1>5, <1>6, <1>7

LEMMA EarlyReviewKeeps ==
    ASSUME LadderInv, NEW price \in LadderPrices, Ladder!EarlyReview(price)
    PROVE  LadderInv' /\ StopStays
<1>1. Ladder!Held /\ ladderPos \in LadderRecords BY HeldRecords DEF Ladder!EarlyReview, LadderInv
<1> DEFINE cut == Ladder!Of(Ladder!Distance(ladderPos.entry, ladderPos.stop), 700)
           target == ladderPos.entry - cut
<1>2. /\ ladderPos.entry \in Int /\ ladderPos.stop \in Int /\ ladderExStop \in Int
      /\ ladderFaults \in Nat /\ ladderAdds \in Nat
  BY <1>1 DEF LadderRecords, LadderInv, LadderTyped
<1>3. cut \in Nat
  <2> DEFINE d == Ladder!Distance(ladderPos.entry, ladderPos.stop)
  <2>1. d \in Nat BY <1>2, DistanceInt
  <2> HIDE DEF d
  <2>2. (d * 700) \div 1000 \in Nat BY <2>1, SMT
  <2> QED BY <2>2 DEF Ladder!Of, d
<1> HIDE DEF cut
<1>4. target \in Int /\ target <= ladderPos.entry BY <1>2, <1>3
<1>5. PICK r \in Ladder!Replacements(ladderExStop, target, ladderFaults) :
        /\ target > ladderPos.stop
        /\ Ladder!Keep([ladderPos EXCEPT !.stop = IF r[1] = target THEN target ELSE @])
        /\ ladderExStop' = r[1] /\ ladderFaults' = r[2]
  BY DEF Ladder!EarlyReview, cut
<1>6. ladderAdds' = ladderAdds /\ ladderRecent' \in BOOLEAN
  BY DEF Ladder!EarlyReview, LadderInv, LadderTyped
<1> HIDE DEF target
<1>7. /\ r[1] \in {ladderExStop, target, Ladder!NoStop} /\ r[1] \in Int
      /\ r[2] \in Nat /\ r[2] >= ladderFaults /\ (r[2] = 0 => r[1] = target)
  BY <1>2, <1>4, ReplacedStop
<1> DEFINE stop == IF r[1] = target THEN target ELSE ladderPos.stop
           q == [ladderPos EXCEPT !.stop = stop]
<1>8. ladderPos' = q /\ ladderSaved' = q BY <1>5 DEF Ladder!Keep
<1>9. stop \in Int /\ stop >= ladderPos.stop BY <1>2, <1>4, <1>5
<1>10. (r[1] = target => stop = target) /\ (r[1] # target => stop = ladderPos.stop) OBVIOUS
<1> HIDE DEF stop
<1>11. q \in LadderRecords /\ q.stop = stop /\ Alike(ladderPos, q)
  BY <1>1, <1>9 DEF LadderRecords, Alike
<1> HIDE DEF q
<1>12. ASSUME ladderAdds' = 0
       PROVE  /\ Steep(q) /\ q.stop >= 0 /\ ladderExStop' <= q.stop
              /\ ladderFaults' = 0 => ladderExStop' = q.stop
              /\ q.tp >= 1 /\ ladderFaults' = 0 => q.stop > q.entry
  <2>1. Unadded BY <1>1, <1>6, <1>12 DEF LadderInv
  <2>2. Steep(q) BY <1>11, <2>1, AlikeLevels DEF Unadded, Alike
  <2>3. stop >= 0 /\ ladderPos.stop >= 0 /\ ladderExStop <= ladderPos.stop BY <1>2, <1>9, <2>1 DEF Unadded
  <2>4. ladderExStop' <= stop
    <3>1. CASE r[1] = target BY <1>4, <1>5, <1>10, <3>1
    <3>2. CASE r[1] # target
      <4>1. r[1] \in {ladderExStop, Ladder!NoStop} /\ stop = ladderPos.stop BY <1>7, <1>10, <3>2
      <4> QED BY <1>2, <1>5, <2>3, <4>1 DEF Ladder!NoStop
    <3> QED BY <3>1, <3>2
  <2>5. ladderFaults' = 0 => ladderExStop' = stop BY <1>5, <1>7, <1>10
  <2>6. ASSUME q.tp >= 1, ladderFaults' = 0 PROVE FALSE
    <3>1. ladderFaults = 0 BY <1>2, <1>5, <1>7, <2>6
    <3>2. ladderPos.stop > ladderPos.entry BY <1>11, <2>1, <2>6, <3>1 DEF Unadded, Alike
    <3> QED BY <1>2, <1>4, <1>5, <3>2
  <2> QED BY <1>11, <2>2, <2>3, <2>4, <2>5, <2>6
<1>13. LadderInv' BY <1>2, <1>5, <1>6, <1>7, <1>8, <1>11, <1>12, KeptFits
<1>14. StopStays BY <1>8, <1>9, <1>11 DEF StopStays
<1> QED BY <1>13, <1>14

\* An add: no stop is promised after it, but the record stays one.
LEMMA LadderAddKeeps ==
    ASSUME LadderInv, NEW price \in LadderPrices, Ladder!Add(price)
    PROVE  LadderInv' /\ StopStays
<1>1. Ladder!Held /\ ladderPos \in LadderRecords BY HeldRecords DEF Ladder!Add, LadderInv
<1>2. /\ ladderPos.entry \in Nat \ {0} /\ ladderPos.stop \in Int /\ ladderPos.tps \in Seq(Int)
      /\ ladderExStop \in Int /\ ladderFaults \in Nat /\ ladderAdds \in Nat /\ price \in Nat \ {0}
  BY <1>1, LadderAssumption DEF LadderRecords, LadderInv, LadderTyped
<1> DEFINE new == (2 * ladderPos.entry + price) \div 3
           Carried(x) == (new * Ladder!Distance(x, ladderPos.entry)) \div ladderPos.entry
           stop == new - Carried(ladderPos.stop)
           tps == [i \in DOMAIN ladderPos.tps |-> new + Carried(ladderPos.tps[i])]
           q == [ladderPos EXCEPT !.entry = new, !.stop = stop, !.original = stop, !.tps = tps]
<1>3. new \in Nat \ {0} BY <1>2, SMT
<1> HIDE DEF new
<1>4. \A x \in Int : Carried(x) \in Int
  <2> SUFFICES ASSUME NEW x \in Int PROVE Carried(x) \in Int OBVIOUS
  <2> DEFINE d == Ladder!Distance(x, ladderPos.entry)
  <2>1. d \in Nat
    <3>1. ladderPos.entry \in Int BY <1>2
    <3> QED BY <3>1, DistanceInt
  <2> HIDE DEF d
  <2>2. new * d \in Int BY <1>3, <2>1
  <2>3. (new * d) \div ladderPos.entry \in Int BY <1>2, <2>2, RatioInt
  <2> QED BY <2>3 DEF d
<1>5. PICK r \in Ladder!Replacements(ladderExStop, stop, ladderFaults) :
        Ladder!Keep(q) /\ ladderExStop' = r[1] /\ ladderFaults' = r[2]
  BY DEF Ladder!Add, new
<1>6. ladderAdds' = ladderAdds + 1 /\ ladderRecent' \in BOOLEAN
  BY DEF Ladder!Add, LadderInv, LadderTyped
<1>7. stop \in Int
  <2>1. Carried(ladderPos.stop) \in Int BY <1>2, <1>4
  <2> HIDE DEF Carried
  <2> QED BY <1>3, <2>1
<1>8. tps \in Seq(Int)
  <2>1. DOMAIN ladderPos.tps = 1..Len(ladderPos.tps) /\ Len(ladderPos.tps) \in Nat
        /\ \A i \in DOMAIN ladderPos.tps : ladderPos.tps[i] \in Int
    BY <1>2
  <2>2. \A i \in DOMAIN ladderPos.tps : Carried(ladderPos.tps[i]) \in Int BY <1>4, <2>1
  <2> HIDE DEF Carried
  <2>3. \A i \in DOMAIN ladderPos.tps : new + Carried(ladderPos.tps[i]) \in Int BY <1>3, <2>2
  <2> QED BY <2>1, <2>3, IsASeq
<1> HIDE DEF stop, tps
<1>9. q \in LadderRecords BY <1>1, <1>3, <1>7, <1>8 DEF LadderRecords
<1>10. ladderPos' = q /\ ladderSaved' = q BY <1>5 DEF Ladder!Keep
<1>11. r[1] \in Int /\ r[2] \in Nat BY <1>2, <1>7, ReplacedStop
<1>12. ladderAdds' \in Nat /\ ladderAdds' # 0 BY <1>2, <1>6
<1> HIDE DEF q
<1>13. LadderInv' BY <1>5, <1>6, <1>9, <1>10, <1>11, <1>12, KeptFits
<1> QED BY <1>12, <1>13 DEF StopStays

LEMMA InvalidatedKeeps == ASSUME LadderInv, Ladder!Invalidated PROVE LadderInv' /\ StopStays
<1>1. Ladder!Held /\ ladderPos \in LadderRecords /\ ladderSaved \in LadderRecords
  BY HeldRecords DEF Ladder!Invalidated, LadderInv
<1>2. /\ ladderPos' = [ladderPos EXCEPT !.thesis = "invalidated"]
      /\ UNCHANGED <<ladderSaved, ladderExStop, ladderRecent, ladderAdds, ladderFaults>>
  BY DEF Ladder!Invalidated
<1>3. /\ ladderPos' \in LadderRecords /\ Alike(ladderPos, ladderPos') /\ ladderPos'.stop = ladderPos.stop
  BY <1>1, <1>2 DEF LadderRecords, Alike
<1>4. LadderTyped'
  <2>1. ladderPos' # Ladder!Flat /\ ladderSaved # Ladder!Flat BY <1>1, <1>3, RecordNotFlat
  <2> QED BY <1>2, <1>3, <2>1 DEF LadderInv, LadderTyped
<1>5. Ladder!Held' /\ ladderAdds' = 0 => Unadded'
  <2> SUFFICES ASSUME ladderAdds' = 0 PROVE Unadded' OBVIOUS
  <2>1. Unadded BY <1>1, <1>2 DEF LadderInv
  <2>2. Steep(ladderPos') BY <1>3, <2>1, AlikeLevels DEF Unadded, Alike
  <2> QED BY <1>2, <1>3, <2>1, <2>2 DEF Unadded, Alike
<1>6. StopStays
  <2>1. ladderPos.stop \in Int BY <1>1 DEF LadderRecords
  <2> QED BY <1>3, <2>1 DEF StopStays
<1> QED BY <1>4, <1>5, <1>6 DEF LadderInv

\* Time goes by, or nothing does.
LEMMA TimeKeeps ==
    ASSUME LadderInv, ladderRecent' \in BOOLEAN,
           UNCHANGED <<ladderPos, ladderSaved, ladderExStop, ladderAdds, ladderFaults>>
    PROVE  LadderInv' /\ StopStays
<1>1. LadderTyped' BY DEF LadderInv, LadderTyped
<1>2. Ladder!Held' /\ ladderAdds' = 0 => Unadded' BY DEF LadderInv, Ladder!Held, Unadded, Alike, Steep, Ladder!RiskOf
<1>3. StopStays
  <2>1. Ladder!Held => ladderPos.stop \in Int BY HeldRecords DEF LadderInv, LadderRecords
  <2> QED BY <2>1 DEF StopStays
<1> QED BY <1>1, <1>2, <1>3 DEF LadderInv

\* What a restart brings back is no looser than what the exchange holds.
LEMMA LadderRestartKeeps == ASSUME LadderInv, Ladder!Restart PROVE LadderInv' /\ StopStays
<1>1. Ladder!Held /\ ladderPos \in LadderRecords /\ ladderSaved \in LadderRecords
  BY HeldRecords DEF Ladder!Restart, LadderInv
<1>2. /\ ladderPos' = ladderSaved /\ ladderSaved' = ladderSaved /\ ladderRecent' = FALSE
      /\ UNCHANGED <<ladderExStop, ladderAdds, ladderFaults>>
  BY DEF Ladder!Restart
<1>3. LadderTyped' BY <1>1, <1>2 DEF LadderInv, LadderTyped
<1>4. ASSUME ladderAdds' = 0 PROVE Unadded' /\ ladderPos'.stop >= ladderExStop
  <2>1. Unadded BY <1>1, <1>2, <1>4 DEF LadderInv
  <2>2. Steep(ladderSaved) BY <2>1, AlikeLevels DEF Unadded, Alike
  <2>3. ladderSaved.stop \in Int /\ ladderExStop \in Int BY <1>1 DEF LadderRecords, LadderInv, LadderTyped
  <2> QED BY <1>2, <2>1, <2>2, <2>3 DEF Unadded, Alike
<1>5. StopStays BY <1>4 DEF StopStays
<1> QED BY <1>3, <1>4, <1>5 DEF LadderInv

LEMMA LadderInvKept == LadderInv /\ [Ladder!Next]_(Ladder!vars) => LadderInv' /\ StopStays
<1> SUFFICES ASSUME LadderInv, [Ladder!Next]_(Ladder!vars) PROVE LadderInv' /\ StopStays OBVIOUS
<1>1. CASE UNCHANGED Ladder!vars
  BY <1>1, TimeKeeps DEF Ladder!vars, LadderInv, LadderTyped
<1>2. CASE Ladder!Pause \/ Ladder!Age
  BY <1>2, TimeKeeps DEF Ladder!Pause, Ladder!Age, LadderInv, LadderTyped
<1>3. CASE Ladder!MaxHold \/ Ladder!Close
  BY <1>3, GoneKeeps DEF Ladder!MaxHold, Ladder!Close
<1>4. CASE \E plan \in LadderPlans, price \in LadderPrices : Ladder!Open(plan, price)
  BY <1>4, OpenKeeps
<1>5. CASE \E price \in LadderPrices : Ladder!Check(price) \/ Ladder!EarlyReview(price) \/ Ladder!Add(price)
  BY <1>5, CheckKeeps, EarlyReviewKeeps, LadderAddKeeps
<1>6. CASE Ladder!Invalidated \/ Ladder!Restart
  BY <1>6, InvalidatedKeeps, LadderRestartKeeps
<1> QED BY <1>1, <1>2, <1>3, <1>4, <1>5, <1>6 DEF Ladder!Next

LEMMA LadderInvHolds == Ladder!Spec => []LadderInv
<1>1. ASSUME Ladder!Init PROVE LadderInv
  <2>1. LadderTyped
    <3>1. ladderExStop \in Int BY <1>1 DEF Ladder!Init, Ladder!NoStop
    <3> QED BY <1>1, <3>1 DEF Ladder!Init, LadderTyped
  <2>2. ~Ladder!Held BY <1>1 DEF Ladder!Init, Ladder!Held
  <2> QED BY <2>1, <2>2 DEF LadderInv
<1> QED BY <1>1, LadderInvKept, PTL DEF Ladder!Spec

\* Record, file and exchange hold the stop the ladder has earned: for any prices,
\* plans, range and number of adds and faults, a position that sold a part has it
\* above its entry in all three unless a stop could not be replaced, the exchange
\* is never ahead of the record, and the file is never looser than the exchange.
THEOREM LadderAgrees == Ladder!Spec => []StopsAgree
<1>1. LadderInv => StopsAgree
  <2> SUFFICES ASSUME LadderInv, Ladder!Held, ladderAdds = 0
               PROVE  /\ ladderPos.tp >= 1 /\ ladderFaults = 0 =>
                            /\ ladderPos.stop > ladderPos.entry /\ ladderExStop > ladderPos.entry
                            /\ ladderSaved.stop > ladderPos.entry
                      /\ ladderExStop <= ladderPos.stop
                      /\ ladderFaults = 0 => ladderExStop = ladderSaved.stop
    BY DEF StopsAgree, Ladder!StopsAgree, Ladder!ProfitLocked, Ladder!ExchangeNeverAhead
  <2> QED BY DEF LadderInv, Unadded
<1> QED BY <1>1, LadderInvHolds, PTL

\* Between two levels, until it is added to, the stop of a position only rises; a
\* restart gives back no more than the exchange was never told.
THEOREM LadderHolds == Ladder!Spec => StopHolds
<1>1. LadderInv /\ [Ladder!Next]_(Ladder!vars) => [StopStays]_(Ladder!vars)
  BY LadderInvKept
<1>2. StopHolds <=> [][StopStays]_(Ladder!vars) BY PTL DEF StopHolds, Ladder!StopHolds, StopStays
<1> QED BY <1>1, <1>2, LadderInvHolds, PTL DEF Ladder!Spec
=============================================================================
