---------------------------- MODULE StatusCommand ----------------------------
(***************************************************************************)
(* `agentgear status' beside the supervisors of an execution.  The command *)
(* shows two files that nobody updates together: the heartbeat, and the    *)
(* latest checkpoint.  A supervisor's checkpoint() appends to the log,     *)
(* then notes the checkpoint in memory, then mirrors its memory in the     *)
(* heartbeat; its other methods mirror only.  A supervisor that has ended  *)
(* is replaced by one that remembers no checkpoint.                        *)
(*                                                                         *)
(* Checkpoints are numbered in the order of their appends, and a heartbeat *)
(* is the number of the checkpoint that its pending_work comes from, 0 for *)
(* none.  Of the log this module knows how many checkpoints were appended  *)
(* and which of them are gone, with a damaged or quarantined segment.  A   *)
(* latest() takes time: it misses no checkpoint that was there when it     *)
(* began, unless that has gone before it answers.  An append that fails    *)
(* has changed nothing.                                                    *)
(***************************************************************************)
EXTENDS HeartbeatFile

CONSTANT MaxCheckpoints   \* bound: checkpoints in a behaviour

ASSUME StatusAssumption == MaxCheckpoints \in Nat /\ Entries = 0..MaxCheckpoints

VARIABLES
    appended,  \* the number of the last checkpoint appended
    gone,      \* the checkpoints whose segment has been damaged or quarantined
    memory,    \* the last of each supervisor's _checkpoints
    seen,      \* the heartbeat of a viewer that is waiting for latest(), and the
               \* last checkpoint appended when that began
    shown      \* what each viewer's last command has printed so far

statusVars == <<appended, gone, memory, seen, shown>>
allVars == <<hbVars, statusVars>>

Shown == [ heartbeat : Entries, checkpoint : Entries ]
Seen == [ waiting : BOOLEAN, heartbeat : Entries, since : Entries ]
NotWaiting == [ waiting |-> FALSE, heartbeat |-> 0, since |-> 0 ]
NothingShown == [ heartbeat |-> 0, checkpoint |-> 0 ]

StatusInit ==
    /\ Init
    /\ appended = 0 /\ gone = {}
    /\ memory = [ p \in Writers |-> 0 ]
    /\ seen = [ v \in Viewers |-> NotWaiting ]
    /\ shown = [ v \in Viewers |-> NothingShown ]

\* Faulty variant: memory notes a checkpoint whose append may yet fail.
CheckpointNotedFirst(p) ==
    /\ appended < MaxCheckpoints
    /\ CallWrite(p, appended + 1)
    /\ memory' = [memory EXCEPT ![p] = appended + 1]
    /\ appended' \in { appended, appended + 1 }
    /\ UNCHANGED <<gone, seen, shown>>

\* ExecutionWatchdog.checkpoint(), up to the first step of the mirroring: the
\* append, which others see at once, and then the note in memory.
Checkpoint(p) ==
    /\ appended < MaxCheckpoints
    /\ CallWrite(p, appended + 1)
    /\ memory' = [memory EXCEPT ![p] = appended + 1]
    /\ appended' = appended + 1
    /\ UNCHANGED <<gone, seen, shown>>

\* Any other method that ends with _write_heartbeat, and sync_heartbeat.
Mirror(p) ==
    /\ CallWrite(p, memory[p])
    /\ UNCHANGED statusVars

\* External: checkpoints are lost with the segment that holds them.
LoseCheckpoints ==
    /\ \E lost \in SUBSET (1..appended) : gone' = gone \cup lost
    /\ UNCHANGED <<hbVars, appended, memory, seen, shown>>

\* The process of a supervisor or of a viewer ends; a supervisor's memory with it.
ProcessEnds(p) ==
    /\ Crash(p)
    /\ memory' = [ w \in Writers |-> IF w = p THEN 0 ELSE memory[w] ]
    /\ UNCHANGED <<appended, gone, seen, shown>>

\* _cmd_status, from its call of HeartbeatWriter.read.
ReadHeartbeat(v) ==
    /\ ~seen[v].waiting
    /\ CallView(v)
    /\ shown' = [shown EXCEPT ![v] = NothingShown]
    /\ UNCHANGED <<appended, gone, memory, seen>>

\* Without a heartbeat, or after an error, it prints nothing; otherwise it
\* calls CheckpointStore.latest.
HeartbeatRead(v) ==
    /\ CallEnds(v)
    /\ seen' = IF call[v].step = "returned" /\ call[v].value # Missing
               THEN [seen EXCEPT ![v] = [ waiting   |-> TRUE,
                                          heartbeat |-> call[v].value.entries[1],
                                          since     |-> appended ]]
               ELSE seen
    /\ UNCHANGED <<appended, gone, memory, shown>>

\* It prints both, unless latest() raises or the process ends.
ShowStatus(v) ==
    /\ seen[v].waiting
    /\ seen' = [seen EXCEPT ![v] = NotWaiting]
    /\ \/ \E answer \in 0..appended :
            /\ (answer + 1)..seen[v].since \subseteq gone
            /\ shown' = [shown EXCEPT ![v] = [ heartbeat  |-> seen[v].heartbeat,
                                               checkpoint |-> answer ]]
       \/ shown' = shown
    /\ UNCHANGED <<hbVars, appended, gone, memory>>

StatusNext ==
    \/ \E p \in Writers :
        \/ Checkpoint(p)
        \/ Mirror(p)
        \/ CallEnds(p) /\ UNCHANGED statusVars
    \/ \E v \in Viewers :
        \/ ReadHeartbeat(v)
        \/ HeartbeatRead(v)
        \/ ShowStatus(v)
    \/ \E p \in Processes :
        \/ (CallStep(p) \/ ReadFault(p)) /\ UNCHANGED statusVars
        \/ ProcessEnds(p)
    \/ Damage /\ UNCHANGED statusVars
    \/ LoseCheckpoints

StatusSpec == StatusInit /\ [][StatusNext]_allVars
-----------------------------------------------------------------------------
\* The status shows a checkpoint older than the pending work beside it only
\* after that work's checkpoint was lost: the append comes before the mirroring
\* and the checkpoint is read after the heartbeat (coordinator.py,
\* checkpoint(); cli.py, _cmd_status).  Whatever else happens between the two
\* reads, an append, a mirroring, the loss of the heartbeat or of another
\* checkpoint, does not put the status behind.
StatusNeverBehind ==
    \A v \in Viewers :
        \/ shown[v].heartbeat <= shown[v].checkpoint
        \/ shown[v].heartbeat \in gone
=============================================================================
