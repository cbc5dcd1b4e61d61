---------------------------- MODULE TacticalStore ----------------------------
(* The event ledger of Tactical V2 (src/utils/tactical_v2/store.py): stores   *)
(* of several processes append rows to one file under one lock, behind a      *)
(* marker file that says an append is under way.                              *)
(*                                                                            *)
(* The file system is what makes this hard.  What is written survives the     *)
(* death of the process; what a loss of power leaves is anything between the  *)
(* last fsync and now, so the model keeps the set of contents that could be   *)
(* found afterwards.  The payload of an event does not matter here: an event  *)
(* is the number of its append.                                               *)
EXTENDS Integers, Sequences, FiniteSets

CONSTANTS
    Stores,         \* store instances, each in a process of its own
    NoStore,        \* nobody holds the ledger lock
    MaxAppends,     \* bound: appends begun
    MaxFailures,    \* bound: system calls that raise
    MaxCrashes      \* bound: processes that die, and losses of power

VARIABLES
    file,       \* the ledger: rows
    mayFind,    \* the contents a loss of power may leave
    marker,     \* the file append-pending exists
    mayMark,    \* the answers to that a loss of power may leave
    alive,      \* stores constructed and running
    doubt,      \* _append_uncertain of each store
    holder,     \* the store that holds the ledger lock
    phase,      \* how far its append is
    row,        \* the row it appends
    told,       \* what each append told its caller
    failures, crashes

disk == <<file, mayFind, marker, mayMark>>
vars == <<file, mayFind, marker, mayMark, alive, doubt, holder, phase, row, told,
          failures, crashes>>

\* A row ends with its newline, is whole but bare of it, is torn, or is two
\* rows on one line.
Ends == {"whole", "bare", "torn", "glued"}
NoRow == [event |-> 0, seq |-> 0, end |-> "whole"]
Phases == {"idle", "locked", "marked", "fenced", "written", "synced", "undo", "undone",
           "committed", "withdrawn"}
Begun == {e \in 1..MaxAppends : told[e] # "none"}

-----------------------------------------------------------------------------
(* _read_ledger: rows are valid as long as their seq is their place; an       *)
(* invalid last row without a newline is a partial tail and is passed over.   *)

Valid(f, n) == f[n].end \in {"whole", "bare"} /\ f[n].seq = n
Terminated(f) == f = <<>> \/ f[Len(f)].end \in {"whole", "glued"}
PartialTail(f) == ~Terminated(f) /\ ~Valid(f, Len(f))
Malformed(f) ==
    \E n \in DOMAIN f : ~Valid(f, n) /\ ~(n = Len(f) /\ PartialTail(f))

\* Writing after a row that has no newline glues the two.
Written(f, r) ==
    IF Terminated(f) THEN Append(f, r) ELSE [f EXCEPT ![Len(f)].end = "glued"]
\* The contents a write may have reached when it is cut short.
WrittenInPart(f, r) == {Written(f, [r EXCEPT !.end = e]) : e \in {"torn", "bare", "whole"}}

\* _repair_tail_before_append: a partial tail is cut off, a bare row gets its
\* newline.
Mended(f) ==
    IF PartialTail(f) THEN SubSeq(f, 1, Len(f) - 1)
    ELSE IF ~Terminated(f) THEN [f EXCEPT ![Len(f)].end = "whole"]
    ELSE f

Init ==
    /\ file = <<>> /\ mayFind = {<<>>}
    /\ marker = FALSE /\ mayMark = {FALSE}
    /\ alive = {} /\ doubt = [s \in Stores |-> FALSE]
    /\ holder = NoStore /\ phase = "idle" /\ row = NoRow
    /\ told = [e \in 1..MaxAppends |-> "none"]
    /\ failures = 0 /\ crashes = 0

-----------------------------------------------------------------------------
(* Building blocks.                                                           *)

\* A write that is not synced yet, and an fsync of the ledger.
Write(f) == file' = f /\ mayFind' = mayFind \cup {f}
FsyncLedger == mayFind' = {file}
\* The marker file is put in place or unlinked, and its directory synced.
SetMarker(m) == marker' = m /\ mayMark' = mayMark \cup {m}
FsyncDirectory == mayMark' = {marker}

Raises == failures < MaxFailures /\ failures' = failures + 1
\* The append ends: its caller is told, the lock is given back.
End(answer) ==
    /\ told' = [told EXCEPT ![row.event] = answer]
    /\ holder' = NoStore /\ phase' = "idle" /\ row' = NoRow
Goes(to) == phase' = to /\ UNCHANGED <<alive, holder, row, told, crashes>>

-----------------------------------------------------------------------------
(* __init__: a marker left behind refuses the ledger.                         *)

Open(s) ==
    /\ s \notin alive /\ holder = NoStore
    /\ ~marker
    /\ alive' = alive \cup {s} /\ doubt' = [doubt EXCEPT ![s] = FALSE]
    /\ UNCHANGED <<disk, holder, phase, row, told, failures, crashes>>

-----------------------------------------------------------------------------
(* append.  The seq is one more than the valid rows that _sync_from_ledger    *)
(* finds, which mending leaves as they are.                                   *)

Lock(s) ==
    /\ holder = NoStore /\ s \in alive /\ ~doubt[s] /\ ~Malformed(file)
    /\ \E e \in 1..MaxAppends :
         /\ e = Cardinality(Begun) + 1
         /\ row' = [event |-> e, seq |-> Len(Mended(file)) + 1, end |-> "whole"]
         /\ told' = [told EXCEPT ![e] = "asked"]
    /\ Write(Mended(file))
    /\ holder' = s /\ phase' = "locked"
    /\ UNCHANGED <<marker, mayMark, alive, doubt, failures, crashes>>

\* The mended tail is synced and _begin_append_marker puts the marker in
\* place: from here on the store is in doubt.
Mark ==
    /\ phase = "locked" /\ FsyncLedger /\ SetMarker(TRUE)
    /\ doubt' = [doubt EXCEPT ![holder] = TRUE]
    /\ Goes("marked") /\ UNCHANGED <<file, failures>>
Fence ==
    /\ phase = "marked" /\ FsyncDirectory
    /\ Goes("fenced") /\ UNCHANGED <<file, mayFind, marker, doubt, failures>>

WriteRow ==
    /\ phase = "fenced"
    /\ file' = Written(file, row) /\ mayFind' = mayFind \cup WrittenInPart(file, row)
    /\ Goes("written") /\ UNCHANGED <<marker, mayMark, doubt, failures>>
SyncRowFlushOnly ==
    /\ phase = "written"
    /\ Goes("synced") /\ UNCHANGED <<disk, doubt, failures>>
SyncRow ==
    /\ phase = "written" /\ FsyncLedger
    /\ Goes("synced") /\ UNCHANGED <<file, marker, mayMark, doubt, failures>>

\* The write or its fsync raises: the row is cut off again.
WriteFails ==
    /\ Raises
    /\ \/ /\ phase = "fenced" /\ file' \in WrittenInPart(file, row) \cup {file}
          /\ mayFind' = mayFind \cup WrittenInPart(file, row)
       \/ phase = "written" /\ UNCHANGED <<file, mayFind>>
    /\ Goes("undo") /\ UNCHANGED <<marker, mayMark, doubt>>
Undo ==
    /\ phase = "undo" /\ Write(SubSeq(file, 1, row.seq - 1))
    /\ Goes("undone") /\ UNCHANGED <<marker, mayMark, doubt, failures>>

\* The rollback is synced, and _clear_append_marker follows on both ways.
Unmark ==
    /\ \/ phase = "synced" /\ Goes("committed") /\ UNCHANGED mayFind
       \/ phase = "undone" /\ Goes("withdrawn") /\ FsyncLedger
    /\ SetMarker(FALSE)
    /\ UNCHANGED <<file, doubt, failures>>
Finish ==
    /\ \/ phase = "committed" /\ End("acked")
       \/ phase = "withdrawn" /\ End("failed")
    /\ FsyncDirectory
    /\ doubt' = [doubt EXCEPT ![holder] = FALSE]
    /\ UNCHANGED <<file, mayFind, marker, alive, failures, crashes>>

\* The mending or the marker's temporary file raises before anything of the
\* append is on the disk.
RefuseEarly ==
    /\ phase = "locked" /\ Raises /\ End("failed")
    /\ UNCHANGED <<disk, alive, doubt, crashes>>
\* A rollback or a directory sync raises: the outcome is unknown and the
\* store stays in doubt.
EndInDoubt ==
    /\ phase \in {"marked", "undo", "undone", "synced", "committed", "withdrawn"}
    /\ Raises /\ End("doubt")
    /\ UNCHANGED <<disk, alive, doubt, crashes>>

-----------------------------------------------------------------------------
(* Crashes.                                                                   *)

Lost == IF holder = NoStore THEN UNCHANGED <<holder, phase, row, told>> ELSE End("lost")

\* A process dies; the kernel releases its lock.  Its last write may have
\* reached the file in part.
Die(s) ==
    /\ crashes < MaxCrashes /\ crashes' = crashes + 1
    /\ s \in alive /\ alive' = alive \ {s}
    /\ IF holder = s
       THEN /\ Lost
            /\ IF phase = "fenced"
               THEN /\ file' \in WrittenInPart(file, row) \cup {file}
                    /\ mayFind' = mayFind \cup WrittenInPart(file, row)
               ELSE UNCHANGED <<file, mayFind>>
       ELSE UNCHANGED <<file, mayFind, holder, phase, row, told>>
    /\ UNCHANGED <<marker, mayMark, doubt, failures>>

PowerLoss ==
    /\ crashes < MaxCrashes /\ crashes' = crashes + 1
    /\ alive' = {} /\ Lost
    /\ file' \in mayFind /\ mayFind' = {file'}
    /\ marker' \in mayMark /\ mayMark' = {marker'}
    /\ UNCHANGED <<doubt, failures>>

Next ==
    \/ \E s \in Stores : Open(s) \/ Lock(s) \/ Die(s)
    \/ Mark \/ Fence \/ WriteRow \/ SyncRow \/ Unmark \/ Finish
    \/ WriteFails \/ Undo \/ RefuseEarly \/ EndInDoubt
    \/ PowerLoss

Spec == Init /\ [][Next]_vars

-----------------------------------------------------------------------------
(* Properties.                                                                *)

Row == [event : 0..MaxAppends, seq : 0..(MaxAppends + 1), end : Ends]

TypeOK ==
    /\ file \in Seq(Row) /\ mayFind \subseteq Seq(Row) /\ file \in mayFind
    /\ marker \in BOOLEAN /\ mayMark \subseteq BOOLEAN /\ marker \in mayMark
    /\ alive \subseteq Stores /\ doubt \in [Stores -> BOOLEAN]
    /\ holder \in Stores \cup {NoStore} /\ phase \in Phases /\ row \in Row
    /\ (holder = NoStore) = (phase = "idle")
    /\ told \in [1..MaxAppends -> {"none", "asked", "acked", "failed", "doubt", "lost"}]
    /\ failures \in 0..MaxFailures /\ crashes \in 0..MaxCrashes

Holds(f, e) == {n \in DOMAIN f : f[n].event = e}

\* An event whose append returned is in the ledger for good, once, in its
\* place: no rollback, mending, crash or loss of power of any store ever
\* takes it away.
AckedStays ==
    \A e \in 1..MaxAppends, f \in mayFind : told[e] = "acked" =>
        Cardinality(Holds(f, e)) = 1 /\ \A n \in Holds(f, e) : Valid(f, n)

\* An append that raised and left its store usable left nothing behind: what
\* the caller was told had failed is never found in the ledger later.
FailedLeavesNothing ==
    \A e \in 1..MaxAppends, f \in mayFind : told[e] = "failed" => Holds(f, e) = {}

\* The ledger never becomes unreadable by the stores' own doing: whatever a
\* crash leaves, its rows are consecutive up to one partial tail.
NeverMalformed == \A f \in mayFind : ~Malformed(f)

\* A tail that is not confirmed is fenced off: once the lock is free, a ledger
\* that a loss of power could still change has its marker, for good, so no
\* store opened later takes the tail for an accepted event.
UnconfirmedFenced ==
    holder = NoStore /\ mayFind # {file} => mayMark = {TRUE}

\* What a caller was told of its append is what any later reader finds: an
\* acknowledged event for good, a failed one never, and no tail that could
\* still go is taken for an event; and there is a ledger to read.
LedgerHonest ==
    AckedStays /\ FailedLeavesNothing /\ NeverMalformed /\ UnconfirmedFenced
=============================================================================
