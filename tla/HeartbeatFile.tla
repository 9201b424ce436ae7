--------------------------- MODULE HeartbeatFile ---------------------------
(***************************************************************************)
(* watchdog/heartbeat.py, HeartbeatWriter: one heartbeat document, written *)
(* with update() by the processes that supervise an execution and read     *)
(* with read(), without a lock, by `agentgear status'.  The document lists *)
(* the one heartbeat it holds.                                             *)
(*                                                                         *)
(* External: a process may end at any step, the document may be damaged by *)
(* something other than this program, and its reads may fail for good.     *)
(***************************************************************************)
EXTENDS SafeJsonStore

CONSTANTS
    Writers, Viewers,
    MaxFaults   \* bound: faults in a behaviour

ASSUME HeartbeatAssumption ==
    /\ Processes = Writers \cup Viewers
    /\ Paths = {1}
    /\ MaxFaults \in Nat

VARIABLES
    writing,  \* the heartbeat each process writes, as the document will list it
    faults    \* damages to the document, and reads that failed for good, so far

hbVars == <<storeVars, writing, faults>>

Init ==
    /\ StoreInit
    /\ writing = [ p \in Processes |-> <<>> ]
    /\ faults = 0

\* HeartbeatWriter.write and read.
CallWrite(p, h) ==
    /\ call[p].step = "idle"
    /\ call' = [call EXCEPT ![p] = UpdateCall(1)]
    /\ writing' = [writing EXCEPT ![p] = <<h>>]
    /\ UNCHANGED <<file, copies, lock, faults>>

CallView(p) ==
    /\ call[p].step = "idle"
    /\ call' = [call EXCEPT ![p] = ReadCall(1)]
    /\ UNCHANGED <<file, copies, lock, writing, faults>>

\* Faulty variant: the new heartbeat is added to the current one.
AppendHeartbeat(p) ==
    /\ WriteAtomic(p, call[p].value.entries \o writing[p])
    /\ UNCHANGED <<writing, faults>>

\* The mutator ignores the current heartbeat, which was read and validated.
WriteHeartbeat(p) ==
    /\ WriteAtomic(p, writing[p])
    /\ UNCHANGED <<writing, faults>>

CallEnds(p) ==
    /\ call[p].step \in { "returned", "raised" }
    /\ call' = [call EXCEPT ![p] = NoCall]
    /\ writing' = [writing EXCEPT ![p] = <<>>]
    /\ UNCHANGED <<file, copies, lock, faults>>

Crash(p) ==
    /\ call[p].step # "idle"
    /\ StoreCrash(p)
    /\ writing' = [writing EXCEPT ![p] = <<>>]
    /\ UNCHANGED faults

Damage ==
    /\ faults < MaxFaults /\ file[1].kind = "valid"
    /\ \E damaged \in { Corrupt, Undecodable } : file' = [file EXCEPT ![1] = damaged]
    /\ faults' = faults + 1
    /\ UNCHANGED <<copies, lock, call, writing>>

\* External: a process cannot read the document, however often it tries.
ReadFault(p) ==
    /\ faults < MaxFaults
    /\ ReadFails(p)
    /\ faults' = faults + 1
    /\ UNCHANGED writing

\* A step inside a call.
CallStep(p) ==
    \/ StoreStep(p) /\ UNCHANGED <<writing, faults>>
    \/ WriteHeartbeat(p)

Next ==
    \/ \E p \in Writers, h \in Entries : CallWrite(p, h)
    \/ \E p \in Viewers : CallView(p)
    \/ \E p \in Processes : CallStep(p) \/ CallEnds(p) \/ Crash(p) \/ ReadFault(p)
    \/ Damage

Spec == Init /\ [][Next]_hbVars
-----------------------------------------------------------------------------
\* Types, and the document holds at most one heartbeat.
HeartbeatFileTypeOK ==
    /\ file \in [ Paths -> Content ] /\ Len(file[1].entries) <= 1
    /\ copies \in [ Paths -> [ CopyNames -> Content ] ]
    /\ lock \in [ Paths -> Processes \cup {Nobody} ]
    /\ call \in [ Processes -> CallRecord ]
    /\ writing \in [ Processes -> { <<>> } \cup { <<h>> : h \in Entries } ]
    /\ faults \in Nat

\* From the read to the release of update() its caller holds the lock, through
\* failures, quarantines, timeouts and crashes: two writers never interleave
\* their read and their write.
UpdatesExclude ==
    \A p \in Processes :
        call[p].updating /\ call[p].step \notin { "lock", "returned", "raised" }
            => lock[call[p].path] = p

\* Until a fault, writers and viewers never damage or quarantine a heartbeat,
\* however they overlap, time out, fail to write or end: once written, there is
\* always one to read.  A fault ends this: a viewer whose read keeps failing
\* quarantines a valid heartbeat (safe_json_store.py, _read_text_with_retry).
HeartbeatStaysReadable ==
    [][ file[1].kind = "valid" /\ faults' = 0 => file'[1].kind = "valid" ]_hbVars

\* Claimed by the docstring of _read_text_with_retry: an unreadable document
\* is caught, and goes into quarantine.
UnreadableIsCaught ==
    [][ \A p \in Processes :
            /\ call[p].step = "open" /\ call'[p].step # "open"
            /\ file[1].kind \in { "corrupt", "undecodable" }
            => call'[p].step \in { "quarantine", "idle" } ]_hbVars
=============================================================================
