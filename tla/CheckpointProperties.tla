------------------------ MODULE CheckpointProperties ------------------------
(***************************************************************************)
(* What the checkpoint history of an execution may be relied on for.       *)
(***************************************************************************)
EXTENDS CheckpointStore

\* Documents, locks and calls have the types the store gives them.
CheckpointTypeOK ==
    /\ file \in [ Paths -> Content ]
    /\ copies \in [ Paths -> [ CopyNames -> Content ] ]
    /\ lock \in [ Paths -> Processes \cup {Nobody} ]
    /\ call \in [ Processes -> CallRecord ]
    /\ execution \in Processes \cup {Nobody}
    /\ op \in [ Processes -> OpRecord ]
    /\ issued \in Nat /\ acked \subseteq Entries /\ faults \in Nat

\* _SEGMENT_CAPACITY is a hard bound under any interleaving of appenders, and
\* whatever readers quarantine, rightly or because their reads fail, between
\* the look at a segment and its update.
SegmentsBounded ==
    \A n \in Paths :
        /\ Len(file[n].entries) <= Capacity
        /\ \A s \in CopyNames : Len(copies[n][s].entries) <= Capacity

\* Lock order: whoever asks for a segment's lock holds the execution lock and
\* finds the segment's lock free, so no append() ever waits for, or times out
\* on, a lock inside the execution lock.
SegmentLockUncontended ==
    \A p \in Processes :
        call[p].step = "lock" => execution = p /\ lock[call[p].path] = Nobody

\* No segment has been damaged and every read has succeeded in the end.  One
\* read that fails for good is enough to end this: its process quarantines a
\* segment that is as it should be (safe_json_store.py, _read_text_with_retry).
Undisturbed == faults = 0

FullButNewest ==
    /\ \A n \in SegmentNumbers : n > 1 => n - 1 \in SegmentNumbers
    /\ \A n \in SegmentNumbers :
           n + 1 \in SegmentNumbers => Len(file[n].entries) = Capacity

StoredOnce ==
    /\ acked \subseteq ToSet(Stored)
    /\ \A i, j \in DOMAIN Stored : i < j => Stored[i] < Stored[j]

\* Until a fault, segments are numbered without gaps, and all but the newest
\* are full: append() and latest() need to look at no other.  Failed writes,
\* lock timeouts and processes that end do not count as faults.
SegmentsFillInOrder == Undisturbed => FullButNewest

\* Until a fault, every acknowledged checkpoint is stored, exactly once; what
\* is stored twice or out of order was never appended so.
AcknowledgedOnce == Undisturbed => StoredOnce

\* Until a fault, the segments implement the log that CheckpointLog promises: a
\* rollover is invisible, and a query that reads the segments one by one
\* without a lock still answers as of one moment during its call.
Log == INSTANCE CheckpointLog
    WITH Callers <- Readers,
         log <- Stored,
         query <- [ p \in Readers |-> op[p].name ],
         since <- [ p \in Readers |-> op[p].since ],
         answer <- [ p \in Readers |-> IF op[p].name = "none" THEN op[p].result ELSE <<>> ],
         intact <- Undisturbed

ImplementsLog == Log!LogSpec

\* Each process keeps running; nothing is assumed of starting calls, of
\* processes ending or of faults.
RunningSpec == Spec /\ \A p \in Processes : WF_cpVars(Proceed(p))

\* Every call ends, in a result or in an exception: whatever is damaged, or
\* renamed away under it, no call waits for what another process must do.
CallsEnd == \A p \in Processes : op[p].name # "none" ~> op[p].name = "none"

\* Claimed by the module docstring: quarantine concerns corrupt segments only,
\* and no healthy segment is touched.
OnlyCorruptIsQuarantined ==
    \A n \in Paths, s \in CopyNames : copies[n][s].kind # "valid"
=============================================================================
