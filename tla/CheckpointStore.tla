-------------------------- MODULE CheckpointStore --------------------------
(***************************************************************************)
(* checkpoints.py: the segmented checkpoint history of one execution, used *)
(* by several processes at once.  Segment n is the document n of           *)
(* SafeJsonStore.  append() holds the execution lock around everything it  *)
(* does; all() and latest() hold no lock at all.                           *)
(*                                                                         *)
(* External: a process may end at any step, a healthy segment may be       *)
(* damaged by something other than this program, and the reads of a        *)
(* segment may fail for good.                                              *)
(***************************************************************************)
EXTENDS SafeJsonStore, SequencesExt

CONSTANTS
    Appenders, Readers,
    Capacity,        \* _SEGMENT_CAPACITY
    MaxAppends,      \* bound: calls of append() in a behaviour
    MaxFaults,       \* bound: faults in a behaviour
    ReadsMayFail,    \* a fault may be a read that fails, not damage only
    Crashes          \* processes may end during a call

\* A process is in one call at a time: one that both appends and reads is here
\* an appender and a reader.
ASSUME CheckpointAssumption ==
    /\ Processes = Appenders \cup Readers /\ Appenders \cap Readers = {}
    /\ Capacity \in Nat \ {0}
    /\ MaxAppends \in Nat /\ MaxFaults \in Nat
    /\ Paths = 1..MaxAppends
    /\ Entries = 1..MaxAppends
    /\ ReadsMayFail \in BOOLEAN /\ Crashes \in BOOLEAN

VARIABLES
    execution,   \* the process holding .execution.lock
    op,          \* the CheckpointStore method each process is in
    issued,      \* calls of append() so far; the n-th appends checkpoint n
    acked,       \* the checkpoints whose append() returned
    faults       \* segments damaged, and reads that failed for good, so far

opVars == <<execution, op, issued, acked, faults>>
cpVars == <<storeVars, opVars>>

Queries == { "all", "latest" }

OpRecord == [ name   : { "none", "append" } \cup Queries,
              entry  : Entries \cup {0},       \* append: the checkpoint
              left   : Seq(Paths),             \* a query: segments still to read
              result : Seq(Entries),           \* a query: what it returns
              since  : Nat ]                   \* ghost: the log when it began

NoOp == [ name |-> "none", entry |-> 0, left |-> <<>>, result |-> <<>>, since |-> 0 ]

\* _segment_numbers.
SegmentNumbers == { n \in Paths : file[n] # Missing }

\* Sorted: the i-th is the one that i of them do not exceed.
Ascending ==
    [ i \in 1..Cardinality(SegmentNumbers) |->
        CHOOSE n \in SegmentNumbers :
            Cardinality({ m \in SegmentNumbers : m <= n }) = i ]

\* The checkpoints in all segments, oldest first.
Stored == FlattenSeq([ n \in 1..MaxAppends |-> file[n].entries ])

Init ==
    /\ StoreInit
    /\ execution = Nobody
    /\ op = [ p \in Processes |-> NoOp ]
    /\ issued = 0 /\ acked = {} /\ faults = 0
-----------------------------------------------------------------------------
(* append *)

\* Faulty variant: the decision is not under the execution lock.
CallAppendUnlocked(p) ==
    /\ op[p].name = "none" /\ issued < MaxAppends
    /\ execution' = execution
    /\ issued' = issued + 1
    /\ op' = [op EXCEPT ![p] = [NoOp EXCEPT !.name = "append", !.entry = issued + 1]]
    /\ UNCHANGED <<storeVars, acked, faults>>

\* append(), once it holds the execution lock.  Until then it has done nothing,
\* and a timeout of the lock leaves nothing behind.
CallAppend(p) ==
    /\ op[p].name = "none" /\ issued < MaxAppends
    /\ execution = Nobody /\ execution' = p
    /\ issued' = issued + 1
    /\ op' = [op EXCEPT ![p] = [NoOp EXCEPT !.name = "append", !.entry = issued + 1]]
    /\ UNCHANGED <<storeVars, acked, faults>>

NewestSegment == IF SegmentNumbers = {} THEN 1 ELSE Max(SegmentNumbers)

\* The unlocked look at the newest segment.
SelectSegment(p) ==
    /\ op[p].name = "append" /\ call[p].step = "idle"
    /\ call' = [call EXCEPT ![p] = ReadCall(NewestSegment)]
    /\ UNCHANGED <<file, copies, lock, opVars>>

\* Faulty variant: the capacity is compared strictly, and admits one too many.
TargetOneMore(c) == IF Len(c.value.entries) > Capacity THEN c.path + 1 ELSE c.path

\* Faulty variant: every checkpoint starts a segment.
TargetAlwaysNext(c) == c.path + 1

\* The segment to append to, after that look.
Target(c) == IF Len(c.value.entries) >= Capacity THEN c.path + 1 ELSE c.path

UpdateSegment(p) ==
    /\ op[p].name = "append" /\ call[p].step = "returned" /\ ~call[p].updating
    /\ call' = [call EXCEPT ![p] = UpdateCall(Target(call[p]))]
    /\ UNCHANGED <<file, copies, lock, opVars>>

\* Faulty variant: the checkpoint goes to the front.
PrependEntry(p) ==
    /\ WriteAtomic(p, <<op[p].entry>> \o call[p].value.entries)
    /\ UNCHANGED opVars

\* The mutator of append(), and the write.
AppendEntry(p) ==
    /\ WriteAtomic(p, Append(call[p].value.entries, op[p].entry))
    /\ UNCHANGED opVars

\* append() returns: the checkpoint is acknowledged.
AppendReturns(p) ==
    /\ op[p].name = "append" /\ call[p].step = "returned" /\ call[p].updating
    /\ acked' = acked \cup { op[p].entry }
    /\ execution' = Nobody
    /\ op' = [op EXCEPT ![p] = NoOp] /\ call' = [call EXCEPT ![p] = NoCall]
    /\ UNCHANGED <<file, copies, lock, issued, faults>>

AppendRaises(p) ==
    /\ op[p].name = "append" /\ call[p].step = "raised"
    /\ execution' = Nobody
    /\ op' = [op EXCEPT ![p] = NoOp] /\ call' = [call EXCEPT ![p] = NoCall]
    /\ UNCHANGED <<file, copies, lock, issued, acked, faults>>
-----------------------------------------------------------------------------
(* all and latest *)

CallQuery(p, q) ==
    /\ op[p].name = "none"
    /\ op' = [op EXCEPT ![p] =
                 [NoOp EXCEPT !.name = q, !.since = Len(Stored),
                              !.left = IF q = "all" THEN Ascending ELSE Reverse(Ascending)]]
    /\ UNCHANGED <<storeVars, execution, issued, acked, faults>>

ReadSegment(p) ==
    /\ op[p].name \in Queries /\ call[p].step = "idle" /\ op[p].left # <<>>
    /\ call' = [call EXCEPT ![p] = ReadCall(Head(op[p].left))]
    /\ op' = [op EXCEPT ![p].left = Tail(@)]
    /\ UNCHANGED <<file, copies, lock, execution, issued, acked, faults>>

\* all() goes on to the next segment; latest() stops at the first with entries.
SegmentRead(p) ==
    LET entries == call[p].value.entries
    IN  /\ op[p].name \in Queries /\ call[p].step = "returned"
        /\ op' = CASE op[p].name = "all" ->
                        [op EXCEPT ![p].result = @ \o entries]
                   [] op[p].name = "latest" /\ entries # <<>> ->
                        [op EXCEPT ![p].result = <<entries[Len(entries)]>>,
                                   ![p].left = <<>>]
                   [] OTHER -> op
        /\ call' = [call EXCEPT ![p] = NoCall]
        /\ UNCHANGED <<file, copies, lock, execution, issued, acked, faults>>

QueryReturns(p) ==
    /\ op[p].name \in Queries /\ call[p].step = "idle" /\ op[p].left = <<>>
    /\ op' = [op EXCEPT ![p] = [NoOp EXCEPT !.result = op[p].result]]
    /\ UNCHANGED <<storeVars, execution, issued, acked, faults>>

QueryRaises(p) ==
    /\ op[p].name \in Queries /\ call[p].step = "raised"
    /\ op' = [op EXCEPT ![p] = NoOp] /\ call' = [call EXCEPT ![p] = NoCall]
    /\ UNCHANGED <<file, copies, lock, execution, issued, acked, faults>>
-----------------------------------------------------------------------------
\* External: the process ends during a call, and with it its locks.
Crash(p) ==
    /\ Crashes /\ op[p].name # "none"
    /\ StoreCrash(p)
    /\ execution' = IF execution = p THEN Nobody ELSE execution
    /\ op' = [op EXCEPT ![p] = NoOp]
    /\ UNCHANGED <<issued, acked, faults>>

\* External: a segment is damaged.
Damage(n) ==
    /\ faults < MaxFaults /\ file[n].kind = "valid"
    /\ \E damaged \in { Corrupt, Undecodable } : file' = [file EXCEPT ![n] = damaged]
    /\ faults' = faults + 1
    /\ UNCHANGED <<copies, lock, call, execution, op, issued, acked>>

\* External: a process cannot read the segment it is about to, however often
\* it tries.
ReadFault(p) ==
    /\ ReadsMayFail /\ faults < MaxFaults
    /\ ReadFails(p)
    /\ faults' = faults + 1
    /\ UNCHANGED <<execution, op, issued, acked>>

\* The steps of a call in progress.
Proceed(p) ==
    \/ StoreStep(p) /\ UNCHANGED opVars
    \/ SelectSegment(p)
    \/ UpdateSegment(p)
    \/ AppendEntry(p)
    \/ AppendReturns(p)
    \/ AppendRaises(p)
    \/ ReadSegment(p)
    \/ SegmentRead(p)
    \/ QueryReturns(p)
    \/ QueryRaises(p)

Next ==
    \/ \E p \in Appenders : CallAppend(p)
    \/ \E p \in Readers, q \in Queries : CallQuery(p, q)
    \/ \E p \in Processes : Proceed(p) \/ Crash(p) \/ ReadFault(p)
    \/ \E n \in Paths : Damage(n)

Spec == Init /\ [][Next]_cpVars
=============================================================================
