------------------------------ MODULE MCLedgers ------------------------------
(****************************************************************************)
(* Model checking of the ledgers of the tactical lane: the episodes of a    *)
(* symbol, the file under them, and the receipts of candidates; of the      *)
(* books of the paper executor, and of the inbox of an agent. They do not   *)
(* share state, so one run takes them one after the other.                  *)
(****************************************************************************)
EXTENDS EpisodeRegistry, TLC

CONSTANTS
    Stores, NoStore, MaxAppends, MaxFailures, MaxStoreCrashes,
    Messages, NoMessage, Payloads, BadPayload, MaxLog,
    Initial, Margin, MaxOpens, MaxRestarts,
    SoftLimit, HardLimit, DlqMax, MaxMessages

\* What the proofs need of the numbers of the paper books.
ASSUME PaperAmounts == Initial \in Int /\ Margin \in Nat
\* What they need of the stores.
ASSUME StoreBounds == NoStore \notin Stores /\ MaxAppends \in Nat
\* What they need of the names of candidates: a message id is no payload's hash.
ASSUME ReceiptNames ==
    /\ NoMessage \notin Messages /\ BadPayload \notin Payloads
    /\ Messages \cap (Payloads \cup {BadPayload}) = {}

VARIABLES
    part,   \* the component that moves
    storeFile, storeMayFind, storeMarker, storeMayMark, storeAlive,
    storeDoubt, storeHolder, storePhase, storeRow, storeTold, storeFailures,
    storeCrashes,
    receiptsLog, receiptsMemory, receiptsStale, receiptsPending,
    receiptsTold,
    paperPrice, paperFresh, paperBook, paperWaiting, paperHalted, paperHalt,
    paperOpens, paperRestarts,
    busInbox, busSeq, busHandling, busTaken, busLost, busSkipped, busDead,
    busDied, busSeen, busTold

Interchangeable ==
    Permutations(Tokens) \cup Permutations(Messages) \cup Permutations(Payloads)
\* The candidates of the ledger have one message, or one payload.
OneName ==
    LET named == {i \in DOMAIN receiptsLog :
                     receiptsLog[i].kind \notin {"ack", "governor_clear"}}
    IN  \/ Cardinality({receiptsLog[i].msg : i \in named}) <= 1
        \/ Cardinality({receiptsLog[i].pay : i \in named}) <= 1

Store == INSTANCE TacticalStore WITH
    MaxCrashes <- MaxStoreCrashes, file <- storeFile, mayFind <- storeMayFind,
    marker <- storeMarker, mayMark <- storeMayMark, alive <- storeAlive,
    doubt <- storeDoubt, holder <- storeHolder, phase <- storePhase,
    row <- storeRow, told <- storeTold, failures <- storeFailures,
    crashes <- storeCrashes
store == <<storeFile, storeMayFind, storeMarker, storeMayMark, storeAlive,
           storeDoubt, storeHolder, storePhase, storeRow, storeTold,
           storeFailures, storeCrashes>>

\* As many episodes as the registry has.
Receipts == INSTANCE CandidateReceipts WITH
    MaxEpisodes <- MaxEpochs,
    log <- receiptsLog, memory <- receiptsMemory, stale <- receiptsStale,
    pending <- receiptsPending, told <- receiptsTold
receipts == <<receiptsLog, receiptsMemory, receiptsStale, receiptsPending,
              receiptsTold>>

Paper == INSTANCE PaperBooks WITH
    price <- paperPrice, fresh <- paperFresh, book <- paperBook,
    waiting <- paperWaiting, halted <- paperHalted, halt <- paperHalt,
    opens <- paperOpens, restarts <- paperRestarts
paper == <<paperPrice, paperFresh, paperBook, paperWaiting, paperHalted,
           paperHalt, paperOpens, paperRestarts>>

Bus == INSTANCE MessageBus WITH
    inbox <- busInbox, seq <- busSeq, handling <- busHandling,
    taken <- busTaken, lost <- busLost, skipped <- busSkipped,
    dead <- busDead, died <- busDied, seen <- busSeen, told <- busTold
bus == <<busInbox, busSeq, busHandling, busTaken, busLost, busSkipped,
         busDead, busDied, busSeen, busTold>>

all == <<part, vars, store, receipts, paper, bus>>

\* A behaviour is one of a component; the others stand where they begin.
MCInit ==
    /\ part \in {"episodes", "store", "receipts", "paper", "bus"}
    /\ Init
    /\ Store!Init
    /\ Receipts!Init
    /\ part # "receipts" => receiptsLog = <<>>
    /\ Paper!Init
    /\ Bus!Init

MCNext ==
    \/ part = "episodes" /\ Next /\ UNCHANGED <<part, store, receipts, paper, bus>>
    \/ /\ part = "store" /\ Store!Next
       /\ UNCHANGED <<part, vars, receipts, paper, bus>>
    \/ /\ part = "receipts" /\ Receipts!Next /\ OneName'
       /\ UNCHANGED <<part, vars, store, paper, bus>>
    \/ /\ part = "paper" /\ Paper!Next
       /\ UNCHANGED <<part, vars, store, receipts, bus>>
    \/ /\ part = "bus" /\ Bus!Next
       /\ UNCHANGED <<part, vars, store, receipts, paper>>

MCSpec == MCInit /\ [][MCNext]_all

-----------------------------------------------------------------------------
(* What is checked.                                                         *)

\* The file: what was acknowledged stays, a failed append leaves nothing, no
\* reader finds a malformed row, an unconfirmed one is fenced.
LedgerHonest == Store!LedgerHonest

\* Asked again about a candidate the lane answers as before, and acts once.
ReceiptsHonest == Receipts!ReceiptsHonest

\* The equity of a paper book is what its trades and fees leave.
BooksBalance == Paper!BooksBalance

\* Urgent messages go first and are never dropped.
UrgencyRespected == Bus!UrgencyRespected
==============================================================================
