------------------------ MODULE StatusCommandProofs ------------------------
(***************************************************************************)
(* Theorems about StatusCommand and the HeartbeatFile it extends, for any  *)
(* number of supervisors and viewers, heartbeats, checkpoints and faults.  *)
(*                                                                         *)
(* The invariants of the heartbeat file are proved of HeartbeatFile's own  *)
(* specification, and hold of the status command because each of its steps *)
(* is a step of that specification.                                        *)
(***************************************************************************)
EXTENDS StatusCommand, SafeJsonStoreProofs

\* What a heartbeat document can be, with a heartbeat of a set H.
Listed(H) == { Valid(<<h>>) : h \in H }
Document(H) == { Missing, Corrupt, Undecodable } \cup Listed(H)

LEMMA ListedTyped ==
    ASSUME NEW H \in SUBSET Entries
    PROVE  /\ \A v \in Listed(H) : /\ v \in Content /\ v.kind = "valid" /\ Len(v.entries) = 1
                                   /\ v.entries[1] \in H /\ v # Missing
           /\ Missing \in Content /\ Corrupt \in Content /\ Undecodable \in Content
           /\ Missing.kind = "missing" /\ Corrupt.kind = "corrupt"
           /\ Undecodable.kind = "undecodable"
           /\ \A v \in Document(H) : v \in Content /\ Len(v.entries) <= 1
<1>1. \A h \in H : <<h>> \in Seq(Entries) /\ Len(<<h>>) = 1 /\ <<h>>[1] = h
    OBVIOUS
<1>2. \A v \in Listed(H) : /\ v \in Content /\ v.kind = "valid" /\ Len(v.entries) = 1
                           /\ v.entries[1] \in H /\ v # Missing
    BY <1>1 DEF Listed, Valid, Content, Missing
<1>3. <<>> \in Seq(Entries) /\ Len(<<>>) = 0
    OBVIOUS
<1>4. /\ Missing \in Content /\ Corrupt \in Content /\ Undecodable \in Content
      /\ Missing.kind = "missing" /\ Corrupt.kind = "corrupt"
      /\ Undecodable.kind = "undecodable"
      /\ Len(Missing.entries) <= 1 /\ Len(Corrupt.entries) <= 1 /\ Len(Undecodable.entries) <= 1
    BY <1>3 DEF Missing, Corrupt, Undecodable, Content
<1>5. ASSUME NEW v \in Document(H) PROVE v \in Content /\ Len(v.entries) <= 1
  <2>1. CASE v \in Listed(H)
    <3>1. v \in Content /\ Len(v.entries) = 1
        BY <1>2, <2>1
    <3> QED BY <3>1
  <2>2. CASE v \in { Missing, Corrupt, Undecodable }
      BY <1>4, <2>2
  <2> QED BY <1>5, <2>1, <2>2 DEF Document
<1> QED BY <1>2, <1>4, <1>5
-----------------------------------------------------------------------------
\* Every heartbeat in the document, in a call or about to be written is one of H.
Known(H) ==
    /\ file[1] \in Document(H)
    /\ \A p \in Processes : /\ call[p].value \in { Missing } \cup Listed(H)
                            /\ writing[p] \in { <<>> } \cup { <<h>> : h \in H }

\* A call that is about to lock, write or unlock is an update, and every update
\* has a heartbeat to write.
CallInv ==
    \A p \in Processes :
        /\ call[p].step = "idle" => ~call[p].updating
        /\ call[p].step # "idle" => call[p].path = 1
        /\ call[p].step \in { "lock", "write", "unlock" } => call[p].updating
        /\ call[p].updating => writing[p] # <<>>

\* Before any fault no call is on its way to quarantine the document, and one
\* that is about to read it has a heartbeat to read.
Undisturbed ==
    faults = 0 =>
        /\ file[1].kind \in { "missing", "valid" }
        /\ \A p \in Processes : /\ call[p].step \notin { "quarantine", "rename" }
                                /\ call[p].step = "open" => file[1].kind = "valid"

\* The types alone do not carry UpdatesExclude: that a lock is released only by
\* its holder rests on which calls get as far as the release.
FileInv(H) ==
    /\ HeartbeatFileTypeOK
    /\ Known(H)
    /\ CallInv
    /\ UpdatesExclude
    /\ Undisturbed

LEMMA Constants ==
    /\ Nobody \notin Processes /\ Paths = { 1 }
    /\ CopyNames = { "corrupt" } \cup Processes
    /\ Writers \subseteq Processes /\ Viewers \subseteq Processes
BY StoreAssumption, HeartbeatAssumption DEF CopyNames

\* Steps that touch neither the file nor the lock, and move one call on.
LEMMA LocalStepKeepsFile ==
    ASSUME NEW H \in SUBSET Entries, FileInv(H), NEW p \in Processes, Moves(p),
           UNCHANGED <<file, copies, lock, writing, faults>>,
           call'[p].value \in { Missing } \cup Listed(H),
           call[p].step # "idle", call'[p].step # "idle",
           call'[p].step \in { "lock", "write", "unlock" } => call[p].updating,
           call'[p].step \notin { "lock", "returned", "raised" }
               => call[p].step \notin { "lock", "returned", "raised" },
           faults = 0 => /\ call'[p].step \notin { "quarantine", "rename" }
                         /\ call'[p].step = "open" => file[1].kind = "valid"
    PROVE  FileInv(H)'
<1> USE DEF FileInv, Moves
<1>1. HeartbeatFileTypeOK'
    BY DEF HeartbeatFileTypeOK, CallsTyped
<1>2. Known(H)'
    BY DEF Known
<1>3. CallInv'
    BY DEF CallInv
<1>4. UpdatesExclude'
  <2>1. ASSUME NEW q \in Processes, call'[q].updating,
               call'[q].step \notin { "lock", "returned", "raised" }
        PROVE  lock'[call'[q].path] = q
    <3>1. CASE q = p
        BY <2>1, <3>1 DEF UpdatesExclude
    <3>2. CASE q # p
        BY <2>1, <3>2 DEF UpdatesExclude
    <3> QED BY <3>1, <3>2
  <2> QED BY <2>1 DEF UpdatesExclude
<1>5. Undisturbed'
    BY DEF Undisturbed
<1> QED BY <1>1, <1>2, <1>3, <1>4, <1>5

\* The lock of the document changes hands only through Nobody.
LEMMA AcquireKeepsFile ==
    ASSUME NEW H \in SUBSET Entries, FileInv(H), NEW p \in Processes,
           AcquireLock(p), UNCHANGED <<writing, faults>>
    PROVE  FileInv(H)'
<1> USE DEF FileInv, Moves
<1>1. CallsTyped
    BY DEF HeartbeatFileTypeOK, CallsTyped
<1>2. /\ call[p].step = "lock" /\ call[p].path = 1 /\ call[p].updating
      /\ lock[1] = Nobody /\ lock' = [lock EXCEPT ![1] = p]
      /\ UNCHANGED <<file, copies>>
    BY DEF AcquireLock, CallInv
<1>3. Moves(p) /\ call'[p].step = "exists" /\ call'[p].value = call[p].value
    BY <1>1, CallMoves DEF AcquireLock, Steps
<1>4. HeartbeatFileTypeOK'
    BY <1>2, <1>3 DEF HeartbeatFileTypeOK, CallsTyped
<1>5. Known(H)' /\ CallInv'
    BY <1>2, <1>3 DEF Known, CallInv
<1>6. UpdatesExclude'
  <2>1. lock'[1] = p
      BY <1>2, Constants DEF HeartbeatFileTypeOK
  <2>2. ASSUME NEW q \in Processes, q # p, call[q].updating,
               call[q].step \notin { "lock", "returned", "raised" }
        PROVE  FALSE
    <3>1. lock[call[q].path] = q /\ call[q].path = 1
        BY <2>2 DEF UpdatesExclude, CallInv
    <3> QED BY <1>2, <3>1, Constants
  <2> QED BY <1>2, <1>3, <2>1, <2>2 DEF UpdatesExclude
<1>7. Undisturbed'
    BY <1>2, <1>3 DEF Undisturbed
<1> QED BY <1>4, <1>5, <1>6, <1>7

\* Only the holder gets as far as the release.
LEMMA ReleaseKeepsFile ==
    ASSUME NEW H \in SUBSET Entries, FileInv(H), NEW p \in Processes,
           ReleaseLock(p), UNCHANGED <<writing, faults>>
    PROVE  FileInv(H)'
<1> USE DEF FileInv, Moves
<1>1. CallsTyped
    BY DEF HeartbeatFileTypeOK, CallsTyped
<1>2. /\ call[p].step = "unlock" /\ call[p].path = 1 /\ call[p].updating
      /\ lock' = [lock EXCEPT ![1] = Nobody]
      /\ UNCHANGED <<file, copies>>
    BY DEF ReleaseLock, CallInv
<1>3. /\ Moves(p) /\ call'[p].step \in { "raised", "returned" }
      /\ call'[p].value = call[p].value
    BY <1>1, CallMoves DEF ReleaseLock, Steps
<1>4. HeartbeatFileTypeOK'
    BY <1>2, <1>3 DEF HeartbeatFileTypeOK, CallsTyped
<1>5. Known(H)' /\ CallInv'
    BY <1>2, <1>3 DEF Known, CallInv
<1>6. UpdatesExclude'
  <2>1. lock[1] = p
      BY <1>2 DEF UpdatesExclude
  <2>2. ASSUME NEW q \in Processes, q # p, call[q].updating,
               call[q].step \notin { "lock", "returned", "raised" }
        PROVE  FALSE
    <3>1. lock[call[q].path] = q /\ call[q].path = 1
        BY <2>2 DEF UpdatesExclude, CallInv
    <3> QED BY <2>1, <2>2, <3>1
  <2> QED BY <1>2, <1>3, <2>2 DEF UpdatesExclude
<1>7. Undisturbed'
    BY <1>2, <1>3 DEF Undisturbed
<1> QED BY <1>4, <1>5, <1>6, <1>7

\* A document is renamed away only after a fault.
LEMMA RenameKeepsFile ==
    ASSUME NEW H \in SUBSET Entries, FileInv(H), NEW p \in Processes,
           Rename(p), UNCHANGED <<writing, faults>>
    PROVE  FileInv(H)'
<1> USE DEF FileInv, Moves
<1>1. CallsTyped
    BY DEF HeartbeatFileTypeOK, CallsTyped
<1>2. /\ call[p].step = "rename" /\ call[p].path = 1 /\ call[p].suffix \in CopyNames
      /\ \/ UNCHANGED <<file, copies>>
         \/ /\ copies' = [copies EXCEPT ![1][call[p].suffix] = file[1]]
            /\ file' = [file EXCEPT ![1] = Missing]
      /\ lock' = lock
    BY <1>1 DEF Rename, CallInv, CallsTyped, CallRecord
<1>3. /\ Moves(p) /\ call'[p].step = IF call[p].updating THEN "unlock" ELSE "raised"
      /\ call'[p].value = call[p].value
    BY <1>1, CallMoves DEF Rename
<1>4. file'[1] \in { file[1], Missing } /\ file' \in [ Paths -> Content ]
      /\ Len(file'[1].entries) <= 1
  <2>1. /\ file \in [ Paths -> Content ] /\ Len(file[1].entries) <= 1
        /\ Missing \in Content /\ Len(Missing.entries) <= 1
      BY ListedTyped DEF HeartbeatFileTypeOK, Document
  <2> QED BY <1>2, <2>1, Constants
<1>5. copies' \in [ Paths -> [ CopyNames -> Content ] ]
  <2>1. /\ copies \in [ Paths -> [ CopyNames -> Content ] ] /\ file[1] \in Content
      BY Constants DEF HeartbeatFileTypeOK
  <2>2. [copies[1] EXCEPT ![call[p].suffix] = file[1]] \in [ CopyNames -> Content ]
      BY <2>1, Constants
  <2> QED BY <1>2, <2>1, <2>2, Constants
<1>6. HeartbeatFileTypeOK'
    BY <1>2, <1>3, <1>4, <1>5 DEF HeartbeatFileTypeOK, CallsTyped
<1>7. Known(H)'
    BY <1>3, <1>4 DEF Known, Document
<1>8. CallInv'
    BY <1>2, <1>3 DEF CallInv
<1>9. UpdatesExclude'
  <2>1. ASSUME NEW q \in Processes, call'[q].updating,
               call'[q].step \notin { "lock", "returned", "raised" }
        PROVE  lock'[call'[q].path] = q
    <3>1. CASE q = p
        BY <1>2, <1>3, <2>1, <3>1 DEF UpdatesExclude
    <3>2. CASE q # p
        BY <1>2, <1>3, <2>1, <3>2 DEF UpdatesExclude
    <3> QED BY <3>1, <3>2
  <2> QED BY <2>1 DEF UpdatesExclude
<1>10. Undisturbed'
    BY <1>2 DEF Undisturbed
<1> QED BY <1>6, <1>7, <1>8, <1>9, <1>10

\* What an update leaves is the heartbeat its caller wrote.
LEMMA WriteKeepsFile ==
    ASSUME NEW H \in SUBSET Entries, FileInv(H), NEW p \in Processes, WriteHeartbeat(p)
    PROVE  FileInv(H)'
<1> USE DEF FileInv, Moves
<1>1. CallsTyped
    BY DEF HeartbeatFileTypeOK, CallsTyped
<1>2. /\ call[p].step = "write" /\ call[p].path = 1 /\ call[p].updating
      /\ file' = [file EXCEPT ![1] = Valid(writing[p])]
      /\ UNCHANGED <<copies, lock, writing, faults>>
    BY DEF WriteHeartbeat, WriteAtomic, CallInv
<1>3. Moves(p) /\ call'[p].step = "unlock" /\ call'[p].value = call[p].value
    BY <1>1, CallMoves DEF WriteHeartbeat, WriteAtomic, Steps
<1>4. /\ file' \in [ Paths -> Content ] /\ file'[1] \in Listed(H)
      /\ file'[1].kind = "valid" /\ Len(file'[1].entries) <= 1
  <2>1. Valid(writing[p]) \in Listed(H)
    <3>1. writing[p] # <<>> /\ writing[p] \in { <<>> } \cup { <<h>> : h \in H }
        BY <1>2 DEF CallInv, Known
    <3> QED BY <3>1 DEF Listed
  <2>2. /\ Valid(writing[p]) \in Content /\ Valid(writing[p]).kind = "valid"
        /\ Len(Valid(writing[p]).entries) = 1
      BY <2>1, ListedTyped
  <2> HIDE DEF Valid
  <2>3. file \in [ Paths -> Content ]
      BY DEF HeartbeatFileTypeOK
  <2>4. file'[1] = Valid(writing[p]) /\ file' \in [ Paths -> Content ]
      BY <1>2, <2>2, <2>3, Constants
  <2>5. Len(file'[1].entries) = 1
      BY <2>2, <2>4, Zenon
  <2>6. Len(file'[1].entries) <= 1
      BY <2>5
  <2> QED BY <2>1, <2>2, <2>4, <2>6, Zenon
<1>5. HeartbeatFileTypeOK'
    BY <1>2, <1>3, <1>4 DEF HeartbeatFileTypeOK, CallsTyped
<1>6. Known(H)'
    BY <1>2, <1>3, <1>4 DEF Known, Document
<1>7. CallInv'
    BY <1>2, <1>3 DEF CallInv
<1>8. UpdatesExclude'
  <2>1. ASSUME NEW q \in Processes, call'[q].updating,
               call'[q].step \notin { "lock", "returned", "raised" }
        PROVE  lock'[call'[q].path] = q
    <3>1. CASE q = p
        BY <1>2, <1>3, <2>1, <3>1 DEF UpdatesExclude
    <3>2. CASE q # p
        BY <1>2, <1>3, <2>1, <3>2 DEF UpdatesExclude
    <3> QED BY <3>1, <3>2
  <2> QED BY <2>1 DEF UpdatesExclude
<1>9. Undisturbed'
    BY <1>2, <1>3, <1>4 DEF Undisturbed
<1> QED BY <1>5, <1>6, <1>7, <1>8, <1>9

\* A step inside a call, of any process.
LEMMA StoreStepKeepsFile ==
    ASSUME NEW H \in SUBSET Entries, FileInv(H), NEW p \in Processes, CallStep(p)
    PROVE  FileInv(H)'
<1> DEFINE c == call[p]
<1>t. /\ CallsTyped /\ c \in CallRecord /\ c.step \in Steps
      /\ file[1] \in Document(H) /\ file[1] \in Content
      /\ c.value \in { Missing } \cup Listed(H)
  <2>1. CallsTyped /\ file[1] \in Document(H) /\ c.value \in { Missing } \cup Listed(H)
      BY DEF FileInv, HeartbeatFileTypeOK, Known, CallsTyped
  <2>2. file[1] \in Content
      BY <2>1, ListedTyped
  <2> QED BY <2>1, <2>2 DEF CallsTyped, CallRecord
<1>c. /\ c.step # "idle" => c.path = 1
      /\ c.step \in { "lock", "write", "unlock" } => c.updating
      /\ c.updating => writing[p] # <<>>
    BY DEF FileInv, CallInv
<1>u. faults = 0 => /\ file[1].kind \in { "missing", "valid" }
                    /\ c.step \notin { "quarantine", "rename" }
                    /\ c.step = "open" => file[1].kind = "valid"
    BY DEF FileInv, Undisturbed
<1> HIDE DEF c
<1>1. ASSUME LockTimeout(p), UNCHANGED <<writing, faults>>
      PROVE  FileInv(H)'
  <2>1. Moves(p) /\ call'[p].step = "raised" /\ call'[p].value = c.value /\ c.step = "lock"
      BY <1>1, <1>t, CallMoves DEF LockTimeout, Steps, c
  <2> QED BY <1>1, <1>t, <2>1, LocalStepKeepsFile DEF LockTimeout, c
<1>2. ASSUME WriteFails(p), UNCHANGED <<writing, faults>>
      PROVE  FileInv(H)'
  <2>1. Moves(p) /\ call'[p].step = "unlock" /\ call'[p].value = c.value /\ c.step = "write"
      BY <1>2, <1>t, <1>c, CallMoves DEF WriteFails, c
  <2> QED BY <1>2, <1>t, <1>c, <2>1, LocalStepKeepsFile DEF WriteFails, c
<1>3. ASSUME CheckExists(p), UNCHANGED <<writing, faults>>
      PROVE  FileInv(H)'
  <2>1. c.step = "exists" /\ c.path = 1 /\ UNCHANGED <<file, copies, lock, writing, faults>>
      BY <1>3, <1>c DEF CheckExists, c
  <2>2. CASE file[1] = Missing
    <3>1. call' = Got(p, Missing) /\ Missing \in Content
        BY <1>3, <2>1, <2>2, ListedTyped DEF CheckExists, c
    <3>2. /\ Moves(p) /\ call'[p].value = Missing
          /\ call'[p].step = IF c.updating THEN "write" ELSE "returned"
        BY <1>t, <3>1, CallMoves DEF c
    <3> QED BY <2>1, <3>2, LocalStepKeepsFile DEF c
  <2>3. CASE file[1] # Missing
    <3>1. Moves(p) /\ call'[p].step = "open" /\ call'[p].value = c.value
        BY <1>3, <1>t, <2>1, <2>3, CallMoves DEF CheckExists, Steps, c
    <3>2. faults = 0 => file[1].kind = "valid"
      <4>1. file[1] \in Listed(H) => file[1].kind = "valid"
          BY ListedTyped
      <4>2. Corrupt.kind = "corrupt" /\ Undecodable.kind = "undecodable"
          BY ListedTyped
      <4> QED BY <1>t, <1>u, <2>3, <4>1, <4>2 DEF Document
    <3> QED BY <1>t, <2>1, <3>1, <3>2, LocalStepKeepsFile DEF c
  <2> QED BY <2>2, <2>3
<1>4. ASSUME ReadText(p), UNCHANGED <<writing, faults>>
      PROVE  FileInv(H)'
  <2>1. c.step = "open" /\ c.path = 1 /\ UNCHANGED <<file, copies, lock, writing, faults>>
      BY <1>4, <1>c DEF ReadText, c
  <2>2. CASE file[1].kind = "valid"
    <3>1. call' = Got(p, file[1])
        BY <1>4, <2>1, <2>2 DEF ReadText, c
    <3>2. /\ Moves(p) /\ call'[p].value = file[1]
          /\ call'[p].step = IF c.updating THEN "write" ELSE "returned"
        BY <1>t, <3>1, CallMoves DEF c
    <3>3. file[1] \in Listed(H)
      <4>1. /\ Corrupt.kind = "corrupt" /\ Undecodable.kind = "undecodable"
            /\ Missing.kind = "missing"
          BY ListedTyped
      <4> QED BY <1>t, <2>2, <4>1 DEF Document
    <3> QED BY <2>1, <3>2, <3>3, LocalStepKeepsFile DEF c
  <2>3. CASE file[1].kind = "undecodable"
    <3>1. call' = Raising(p)
        BY <1>4, <2>1, <2>3 DEF ReadText, c
    <3>2. /\ Moves(p) /\ call'[p].value = c.value
          /\ call'[p].step = IF c.updating THEN "unlock" ELSE "raised"
        BY <1>t, <3>1, CallMoves DEF c
    <3> QED BY <1>t, <2>1, <3>2, LocalStepKeepsFile DEF c
  <2>4. CASE file[1].kind \notin { "valid", "undecodable" }
    <3>1. call' = At(p, "quarantine")
        BY <1>4, <2>1, <2>4 DEF ReadText, c
    <3>2. Moves(p) /\ call'[p].value = c.value /\ call'[p].step = "quarantine"
        BY <1>t, <3>1, CallMoves DEF Steps, c
    <3> QED BY <1>t, <1>u, <2>1, <2>4, <3>2, LocalStepKeepsFile DEF c
  <2> QED BY <2>2, <2>3, <2>4
<1>5. ASSUME Quarantine(p), UNCHANGED <<writing, faults>>
      PROVE  FileInv(H)'
  <2>1. /\ c.step = "quarantine" /\ UNCHANGED <<file, copies, lock, writing, faults>>
        /\ \/ call' = Raising(p)
           \/ \E x \in CopyNames : call' = [call EXCEPT ![p].step = "rename", ![p].suffix = x]
      BY <1>5, Constants DEF Quarantine, c
  <2>2. CASE call' = Raising(p)
    <3>1. /\ Moves(p) /\ call'[p].value = c.value
          /\ call'[p].step = IF c.updating THEN "unlock" ELSE "raised"
        BY <1>t, <2>2, CallMoves DEF c
    <3> QED BY <1>t, <2>1, <3>1, LocalStepKeepsFile DEF c
  <2>3. CASE call' # Raising(p)
    <3>1. Moves(p) /\ call'[p].step = "rename" /\ call'[p].value = c.value
        BY <1>t, <2>1, <2>3, CallMoves DEF c
    <3> QED BY <1>t, <1>u, <2>1, <3>1, LocalStepKeepsFile DEF c
  <2> QED BY <2>2, <2>3
<1>6. ASSUME AcquireLock(p), UNCHANGED <<writing, faults>>
      PROVE  FileInv(H)'
    BY <1>6, AcquireKeepsFile
<1>7. ASSUME ReleaseLock(p), UNCHANGED <<writing, faults>>
      PROVE  FileInv(H)'
    BY <1>7, ReleaseKeepsFile
<1>8. ASSUME Rename(p), UNCHANGED <<writing, faults>>
      PROVE  FileInv(H)'
    BY <1>8, RenameKeepsFile
<1>9. ASSUME WriteHeartbeat(p)
      PROVE  FileInv(H)'
    BY <1>9, WriteKeepsFile
<1> QED BY <1>1, <1>2, <1>3, <1>4, <1>5, <1>6, <1>7, <1>8, <1>9 DEF CallStep, StoreStep

-----------------------------------------------------------------------------
(* The steps between calls *)

\* The two calls: an update brings its heartbeat, a read brings nothing.
LEMMA CallKeepsFile ==
    ASSUME NEW H \in SUBSET Entries, FileInv(H), NEW p \in Processes,
           \/ \E h \in H : CallWrite(p, h)
           \/ CallView(p)
    PROVE  FileInv(H)'
<1> USE DEF FileInv
<1>n. /\ UpdateCall(1) \in CallRecord /\ ReadCall(1) \in CallRecord
      /\ UpdateCall(1).step = "lock" /\ UpdateCall(1).path = 1 /\ UpdateCall(1).updating
      /\ ReadCall(1).step = "exists" /\ ReadCall(1).path = 1 /\ ~ReadCall(1).updating
      /\ UpdateCall(1).value = Missing /\ ReadCall(1).value = Missing
  <2>1. Missing \in Content
      BY ListedTyped
  <2> QED BY <2>1, Constants DEF UpdateCall, ReadCall, NoCall, CallRecord, Steps
<1>1. /\ call[p].step = "idle" /\ UNCHANGED <<file, copies, lock, faults>>
      /\ \/ /\ call' = [call EXCEPT ![p] = UpdateCall(1)]
            /\ \E h \in H : writing' = [writing EXCEPT ![p] = <<h>>]
         \/ call' = [call EXCEPT ![p] = ReadCall(1)] /\ writing' = writing
    BY DEF CallWrite, CallView
<1>2. /\ CallsTyped' /\ call'[p] \in { UpdateCall(1), ReadCall(1) }
      /\ \A q \in Processes : q # p => call'[q] = call[q]
      /\ call'[p] = UpdateCall(1) =>
            \E h \in H : writing' = [writing EXCEPT ![p] = <<h>>]
    BY <1>1, <1>n, Zenon DEF HeartbeatFileTypeOK, CallsTyped
<1>3. writing' \in [ Processes -> { <<>> } \cup { <<h>> : h \in H } ]
      /\ \A q \in Processes : q # p => writing'[q] = writing[q]
  <2>1. writing \in [ Processes -> { <<>> } \cup { <<h>> : h \in H } ]
      BY DEF HeartbeatFileTypeOK, Known
  <2> QED BY <1>1, <2>1
<1>4. call'[p].updating => writing'[p] # <<>>
  <2>1. CASE call'[p] = UpdateCall(1)
    <3>1. PICK h \in H : writing' = [writing EXCEPT ![p] = <<h>>]
        BY <1>2, <2>1
    <3>2. writing'[p] = <<h>>
        BY <3>1 DEF HeartbeatFileTypeOK
    <3> QED BY <3>2
  <2>2. CASE call'[p] = ReadCall(1)
      BY <1>n, <2>2
  <2> QED BY <1>2, <2>1, <2>2
<1>5. HeartbeatFileTypeOK'
  <2>1. writing' \in [ Processes -> { <<>> } \cup { <<h>> : h \in Entries } ]
      BY <1>3
  <2> QED BY <1>1, <1>2, <2>1 DEF HeartbeatFileTypeOK, CallsTyped
<1>6. Known(H)'
    BY <1>1, <1>2, <1>3, <1>n DEF Known
<1>7. CallInv'
  <2>1. \A q \in Processes : q # p => writing'[q] = writing[q] /\ call'[q] = call[q]
      BY <1>2, <1>3
  <2> QED BY <1>2, <1>4, <1>n, <2>1 DEF CallInv
<1>8. UpdatesExclude'
    BY <1>1, <1>2, <1>n DEF UpdatesExclude
<1>9. Undisturbed'
    BY <1>1, <1>2, <1>n DEF Undisturbed
<1> QED BY <1>5, <1>6, <1>7, <1>8, <1>9

\* A call ends, by itself or with its process, whose locks are then dropped.
LEMMA EndKeepsFile ==
    ASSUME NEW H \in SUBSET Entries, FileInv(H), NEW p \in Processes,
           CallEnds(p) \/ Crash(p)
    PROVE  FileInv(H)'
<1> USE DEF FileInv
<1>n. /\ NoCall \in CallRecord /\ NoCall.step = "idle" /\ ~NoCall.updating
      /\ NoCall.value = Missing
  <2>1. Missing \in Content
      BY ListedTyped
  <2> QED BY <2>1, Constants DEF NoCall, CallRecord, Steps
<1>1. /\ call' = [call EXCEPT ![p] = NoCall] /\ writing' = [writing EXCEPT ![p] = <<>>]
      /\ UNCHANGED <<file, copies, faults>>
      /\ \/ lock' = lock
         \/ lock' = [ n \in Paths |-> IF lock[n] = p THEN Nobody ELSE lock[n] ]
    BY DEF CallEnds, Crash, StoreCrash
<1>2. /\ CallsTyped' /\ call'[p] = NoCall
      /\ \A q \in Processes : q # p => call'[q] = call[q]
    BY <1>1, <1>n, Zenon DEF HeartbeatFileTypeOK, CallsTyped
<1>3. /\ writing' \in [ Processes -> { <<>> } \cup { <<h>> : h \in H } ]
      /\ \A q \in Processes : q # p => writing'[q] = writing[q]
  <2>1. writing \in [ Processes -> { <<>> } \cup { <<h>> : h \in H } ]
      BY DEF HeartbeatFileTypeOK, Known
  <2> QED BY <1>1, <2>1
<1>4. /\ lock' \in [ Paths -> Processes \cup {Nobody} ]
      /\ \A q \in Processes : q # p /\ lock[1] = q => lock'[1] = q
    BY <1>1, Constants DEF HeartbeatFileTypeOK
<1>5. HeartbeatFileTypeOK'
  <2>1. writing' \in [ Processes -> { <<>> } \cup { <<h>> : h \in Entries } ]
      BY <1>3
  <2> QED BY <1>1, <1>2, <1>4, <2>1 DEF HeartbeatFileTypeOK, CallsTyped
<1>6. Known(H)'
    BY <1>1, <1>2, <1>3, <1>n DEF Known
<1>7. CallInv'
    BY <1>2, <1>3, <1>n DEF CallInv
<1>8. UpdatesExclude'
  <2>1. ASSUME NEW q \in Processes, q # p, call[q].updating,
               call[q].step \notin { "lock", "returned", "raised" }
        PROVE  lock'[call[q].path] = q
    <3>1. lock[call[q].path] = q /\ call[q].path = 1
        BY <2>1 DEF UpdatesExclude, CallInv
    <3> QED BY <1>4, <2>1, <3>1
  <2> QED BY <1>2, <1>n, <2>1 DEF UpdatesExclude
<1>9. Undisturbed'
    BY <1>1, <1>2, <1>n DEF Undisturbed
<1> QED BY <1>5, <1>6, <1>7, <1>8, <1>9

LEMMA DamageKeepsFile ==
    ASSUME NEW H \in SUBSET Entries, FileInv(H), Damage
    PROVE  FileInv(H)'
<1> USE DEF FileInv
<1>1. /\ faults' = faults + 1 /\ UNCHANGED <<copies, lock, call, writing>>
      /\ \E d \in { Corrupt, Undecodable } : file' = [file EXCEPT ![1] = d]
    BY DEF Damage
<1>2. PICK d \in { Corrupt, Undecodable } : file' = [file EXCEPT ![1] = d]
    BY <1>1
<1>3. d \in Content /\ Len(d.entries) <= 1 /\ d \in Document(H)
    BY ListedTyped DEF Document
<1>4. /\ file' \in [ Paths -> Content ] /\ file'[1] = d
  <2>1. file \in [ Paths -> Content ]
      BY DEF HeartbeatFileTypeOK
  <2> QED BY <1>2, <1>3, <2>1, Constants
<1>5. Len(file'[1].entries) <= 1
    BY <1>3, <1>4
<1>6. HeartbeatFileTypeOK'
    BY <1>1, <1>4, <1>5 DEF HeartbeatFileTypeOK
<1>7. Known(H)'
    BY <1>1, <1>3, <1>4 DEF Known
<1>8. CallInv' /\ UpdatesExclude'
    BY <1>1 DEF CallInv, UpdatesExclude
<1>9. Undisturbed'
    BY <1>1 DEF Undisturbed, HeartbeatFileTypeOK
<1> QED BY <1>6, <1>7, <1>8, <1>9

\* A read that fails for good is a fault, and sets its call on the way to the
\* quarantine.
LEMMA ReadFaultKeepsFile ==
    ASSUME NEW H \in SUBSET Entries, FileInv(H), NEW p \in Processes, ReadFault(p)
    PROVE  FileInv(H)'
<1> USE DEF FileInv, Moves, GoesTo
<1>1. /\ faults' = faults + 1 /\ faults \in Nat /\ UNCHANGED writing
      /\ ReadFails(p) /\ StoreTyped
    BY DEF ReadFault, HeartbeatFileTypeOK, StoreTyped, CallsTyped
<1>2. /\ CallsTyped' /\ Moves(p) /\ UNCHANGED <<file, copies, lock>>
      /\ call[p].step = "open" /\ GoesTo(p, "quarantine")
    BY <1>1, ReadFailsCase DEF StoreTyped
<1>3. HeartbeatFileTypeOK'
    BY <1>1, <1>2 DEF HeartbeatFileTypeOK, CallsTyped
<1>4. Known(H)'
    BY <1>1, <1>2 DEF Known
<1>5. CallInv'
    BY <1>1, <1>2 DEF CallInv
<1>6. UpdatesExclude'
  <2>1. ASSUME NEW q \in Processes, call'[q].updating,
               call'[q].step \notin { "lock", "returned", "raised" }
        PROVE  lock'[call'[q].path] = q
    <3>1. CASE q = p
        BY <1>2, <2>1, <3>1 DEF UpdatesExclude
    <3>2. CASE q # p
        BY <1>2, <2>1, <3>2 DEF UpdatesExclude
    <3> QED BY <3>1, <3>2
  <2> QED BY <2>1 DEF UpdatesExclude
<1>7. Undisturbed'
    BY <1>1 DEF Undisturbed
<1> QED BY <1>3, <1>4, <1>5, <1>6, <1>7

LEMMA FileInvInit ==
    ASSUME NEW H \in SUBSET Entries
    PROVE  Init => FileInv(H)
<1> SUFFICES ASSUME Init PROVE FileInv(H)
    OBVIOUS
<1>m. Missing \in Content /\ Missing.kind = "missing" /\ Missing \in Document(H)
      /\ Len(Missing.entries) <= 1
    BY ListedTyped DEF Document
<1>1. /\ file = [ n \in Paths |-> Missing ] /\ file[1] = Missing
      /\ copies = [ n \in Paths |-> [ s \in CopyNames |-> Missing ] ]
      /\ lock = [ n \in Paths |-> Nobody ] /\ call = [ p \in Processes |-> NoCall ]
      /\ writing = [ p \in Processes |-> <<>> ] /\ faults = 0
    BY Constants DEF Init, StoreInit
<1>2. /\ NoCall \in CallRecord /\ NoCall.step = "idle" /\ ~NoCall.updating
      /\ NoCall.value = Missing
    BY <1>m, Constants DEF NoCall, CallRecord, Steps
<1>3. HeartbeatFileTypeOK
    BY <1>m, <1>1, <1>2 DEF HeartbeatFileTypeOK
<1>4. Known(H)
    BY <1>m, <1>1, <1>2 DEF Known
<1>5. CallInv /\ UpdatesExclude
    BY <1>1, <1>2 DEF CallInv, UpdatesExclude
<1>6. Undisturbed
    BY <1>m, <1>1, <1>2 DEF Undisturbed
<1> QED BY <1>3, <1>4, <1>5, <1>6 DEF FileInv

-----------------------------------------------------------------------------
(* The heartbeat file *)

\* A step of the heartbeat file that writes heartbeats of H.
FileStep(H) ==
    \/ \E p \in Processes :
        \/ \E h \in H : CallWrite(p, h)
        \/ CallView(p)
        \/ CallStep(p)
        \/ CallEnds(p) \/ Crash(p)
        \/ ReadFault(p)
    \/ Damage

LEMMA FileStepKeepsFile ==
    ASSUME NEW H \in SUBSET Entries, FileInv(H), FileStep(H) \/ UNCHANGED hbVars
    PROVE  FileInv(H)'
<1>1. CASE UNCHANGED hbVars
    BY <1>1 DEF hbVars, storeVars, FileInv, HeartbeatFileTypeOK, Known, CallInv,
                UpdatesExclude, Undisturbed
<1>2. ASSUME NEW p \in Processes,
             \/ \E h \in H : CallWrite(p, h)
             \/ CallView(p)
             \/ CallStep(p)
             \/ CallEnds(p) \/ Crash(p)
             \/ ReadFault(p)
      PROVE  FileInv(H)'
    BY <1>2, CallKeepsFile, StoreStepKeepsFile, EndKeepsFile, ReadFaultKeepsFile
<1>3. CASE Damage
    BY <1>3, DamageKeepsFile
<1> QED BY <1>1, <1>2, <1>3 DEF FileStep

\* Until a fault, a valid document gives way only to another valid one.
LEMMA FileStepKeepsReadable ==
    ASSUME NEW H \in SUBSET Entries, FileInv(H), FileStep(H),
           file[1].kind = "valid", faults' = 0
    PROVE  file'[1].kind = "valid"
<1>1. faults \in Nat /\ file \in [ Paths -> Content ]
    BY DEF FileInv, HeartbeatFileTypeOK
<1>2. ASSUME Damage PROVE FALSE
    BY <1>1, <1>2 DEF Damage
<1>3. ASSUME NEW p \in Processes, CallStep(p)
      PROVE  file'[1].kind = "valid"
  <2>1. CASE WriteHeartbeat(p)
    <3>1. call[p].path = 1 /\ file' = [file EXCEPT ![1] = Valid(writing[p])]
        BY <2>1 DEF WriteHeartbeat, WriteAtomic, FileInv, CallInv
    <3> QED BY <1>1, <3>1, Constants DEF Valid
  <2>2. CASE Rename(p) /\ UNCHANGED <<writing, faults>>
      BY <2>2 DEF Rename, FileInv, Undisturbed
  <2>3. CASE ~WriteHeartbeat(p) /\ ~Rename(p)
    <3>1. file' = file
        BY <1>3, <2>3 DEF CallStep, StoreStep, AcquireLock, LockTimeout, CheckExists,
                          ReadText, Quarantine, WriteFails, ReleaseLock
    <3> QED BY <3>1
  <2> QED BY <1>3, <2>1, <2>2, <2>3 DEF CallStep
<1>4. ASSUME NEW p \in Processes,
             \/ \E h \in H : CallWrite(p, h)
             \/ CallView(p) \/ CallEnds(p) \/ Crash(p) \/ ReadFault(p)
      PROVE  file'[1].kind = "valid"
    BY <1>4 DEF CallWrite, CallView, CallEnds, Crash, StoreCrash, ReadFault, ReadFails
<1> QED BY <1>2, <1>3, <1>4 DEF FileStep

LEMMA NextIsFileStep == Next => FileStep(Entries)
BY Constants DEF Next, FileStep

LEMMA FileInvariant == Spec => []FileInv(Entries)
<1>1. Init => FileInv(Entries)
    BY FileInvInit
<1>2. FileInv(Entries) /\ [Next]_hbVars => FileInv(Entries)'
    BY FileStepKeepsFile, NextIsFileStep
<1> QED BY <1>1, <1>2, PTL DEF Spec

\* Whatever the processes write, read, damage or leave behind, the document is
\* missing, damaged or one heartbeat, and every call and lock is in its type
\* (watchdog/heartbeat.py, safe_json_store.py).
THEOREM HeartbeatFileIsTyped == Spec => []HeartbeatFileTypeOK
<1>1. FileInv(Entries) => HeartbeatFileTypeOK
    BY DEF FileInv
<1> QED BY <1>1, FileInvariant, PTL

\* From its read to its release an update() holds the lock of the document,
\* for any number of processes that fail, time out or end at any step.
THEOREM UpdatesAreExclusive == Spec => []UpdatesExclude
<1>1. FileInv(Entries) => UpdatesExclude
    BY DEF FileInv
<1> QED BY <1>1, FileInvariant, PTL

\* Until the document is damaged, or a read of it fails for good, a valid
\* heartbeat is only ever replaced by another: none of the processes that write
\* and read it quarantines it, however they overlap, fail to write or end
\* (watchdog/heartbeat.py, safe_json_store.py).
THEOREM HeartbeatIsNeverLost == Spec => HeartbeatStaysReadable
<1>1. FileInv(Entries) /\ [Next]_hbVars
        => [ file[1].kind = "valid" /\ faults' = 0 => file'[1].kind = "valid" ]_hbVars
    BY FileStepKeepsReadable, NextIsFileStep
<1> QED BY <1>1, FileInvariant, PTL DEF Spec, HeartbeatStaysReadable
-----------------------------------------------------------------------------
(* The status command *)

\* A heartbeat h beside a checkpoint c: not behind, unless the loss of its own
\* checkpoint explains it.
NotBehind(h, c) == h <= c \/ h \in gone

\* What has been read, is read and will be written comes from checkpoints that
\* are already appended: the file is the same invariant with fewer heartbeats.
\* A viewer that waits for latest() holds a heartbeat from before that began.
LogInv ==
    /\ appended \in 0..MaxCheckpoints
    /\ memory \in [ Writers -> 0..appended ]
    /\ \E H \in SUBSET Entries : H = 0..appended /\ FileInv(H)

SeenInv ==
    /\ seen \in [ Viewers -> Seen ]
    /\ \A v \in Viewers : seen[v].heartbeat <= seen[v].since

ShownInv ==
    /\ shown \in [ Viewers -> Shown ]
    /\ \A v \in Viewers : NotBehind(shown[v].heartbeat, shown[v].checkpoint)

StatusInv == LogInv /\ SeenInv /\ ShownInv

\* A larger log only allows more heartbeats.
LEMMA FileInvGrows ==
    ASSUME NEW H \in SUBSET Entries, NEW G \in SUBSET Entries, H \subseteq G, FileInv(H)
    PROVE  FileInv(G)
<1>1. Listed(H) \subseteq Listed(G)
    BY DEF Listed
<1>2. Document(H) \subseteq Document(G) /\ { <<h>> : h \in H } \subseteq { <<h>> : h \in G }
    BY <1>1 DEF Document
<1>3. Known(H) => Known(G)
    BY <1>1, <1>2 DEF Known
<1> QED BY <1>3 DEF FileInv

\* What a viewer has got from a successful read.
LEMMA ReadHeartbeatIsAppended ==
    ASSUME NEW H \in SUBSET Entries, FileInv(H), NEW v \in Processes,
           call[v].value # Missing
    PROVE  call[v].value.entries[1] \in H
<1>1. call[v].value \in Listed(H)
    BY DEF FileInv, Known
<1> QED BY <1>1, ListedTyped

LEMMA StatusStepIsFileStep ==
    ASSUME NEW H \in SUBSET Entries, appended \in Nat, StatusNext,
           appended + 1 \in H \/ appended' = appended,
           \A p \in Writers : memory[p] \in H
    PROVE  FileStep(H) \/ UNCHANGED hbVars
<1>1. CASE \E p \in Writers : Checkpoint(p)
    BY <1>1, Constants DEF Checkpoint, FileStep
<1>2. CASE LoseCheckpoints \/ \E v \in Viewers : ShowStatus(v)
    BY <1>2 DEF LoseCheckpoints, ShowStatus
<1>3. CASE /\ ~\E p \in Writers : Checkpoint(p)
           /\ ~(LoseCheckpoints \/ \E v \in Viewers : ShowStatus(v))
    BY <1>3, Constants
    DEF StatusNext, Mirror, ProcessEnds, ReadHeartbeat, HeartbeatRead, FileStep
<1> QED BY <1>1, <1>2, <1>3

\* What a step does to the log and the supervisors' memory, and what it may
\* then do to what the viewers have seen and shown.
LogMoves ==
    /\ appended' = appended \/ (appended < MaxCheckpoints /\ appended' = appended + 1)
    /\ memory' \in [ Writers -> 0..appended' ]
    /\ gone \subseteq gone'

SeenMoves ==
    \/ seen' = seen
    \/ \E v \in Viewers : seen' = [seen EXCEPT ![v] = NotWaiting]
    \/ \E v \in Viewers :
          /\ call[v].value # Missing
          /\ seen' = [seen EXCEPT ![v] = [ waiting   |-> TRUE,
                                           heartbeat |-> call[v].value.entries[1],
                                           since     |-> appended ]]

ShownMoves ==
    \/ shown' = shown
    \/ \E v \in Viewers : shown' = [shown EXCEPT ![v] = NothingShown]
    \/ \E v \in Viewers, answer \in 0..appended :
          /\ (answer + 1)..seen[v].since \subseteq gone
          /\ shown' = [shown EXCEPT ![v] = [ heartbeat  |-> seen[v].heartbeat,
                                             checkpoint |-> answer ]]

LEMMA StatusMoves ==
    ASSUME appended \in Nat, memory \in [ Writers -> 0..appended ], StatusNext
    PROVE  LogMoves /\ SeenMoves /\ ShownMoves
<1>1. ASSUME NEW p \in Writers, Checkpoint(p)
      PROVE  LogMoves /\ SeenMoves /\ ShownMoves
    BY <1>1 DEF Checkpoint, LogMoves, SeenMoves, ShownMoves
<1>2. ASSUME NEW p \in Processes, ProcessEnds(p)
      PROVE  LogMoves /\ SeenMoves /\ ShownMoves
    BY <1>2 DEF ProcessEnds, LogMoves, SeenMoves, ShownMoves
<1>3. ASSUME NEW v \in Viewers, ReadHeartbeat(v)
      PROVE  LogMoves /\ SeenMoves /\ ShownMoves
    BY <1>3 DEF ReadHeartbeat, LogMoves, SeenMoves, ShownMoves
<1>4. ASSUME NEW v \in Viewers, HeartbeatRead(v)
      PROVE  LogMoves /\ SeenMoves /\ ShownMoves
    BY <1>4 DEF HeartbeatRead, LogMoves, SeenMoves, ShownMoves
<1>5. ASSUME NEW v \in Viewers, ShowStatus(v)
      PROVE  LogMoves /\ SeenMoves /\ ShownMoves
    BY <1>5 DEF ShowStatus, LogMoves, SeenMoves, ShownMoves
<1>6. CASE LoseCheckpoints
    BY <1>6 DEF LoseCheckpoints, LogMoves, SeenMoves, ShownMoves
<1>7. CASE UNCHANGED statusVars
    BY <1>7 DEF statusVars, LogMoves, SeenMoves, ShownMoves
<1> QED BY <1>1, <1>2, <1>3, <1>4, <1>5, <1>6, <1>7 DEF StatusNext, Mirror

LEMMA LogStep ==
    ASSUME LogInv, StatusNext, LogMoves
    PROVE  LogInv'
<1>t. appended \in Nat /\ appended <= MaxCheckpoints /\ MaxCheckpoints \in Nat
      /\ Entries = 0..MaxCheckpoints /\ memory \in [ Writers -> 0..appended ]
    BY StatusAssumption DEF LogInv
<1>m. /\ appended' = appended \/ (appended < MaxCheckpoints /\ appended' = appended + 1)
      /\ memory' \in [ Writers -> 0..appended' ]
    BY DEF LogMoves
<1>1. PICK H \in SUBSET Entries : H = 0..appended /\ FileInv(H)
    BY DEF LogInv
<1>2. PICK G \in SUBSET Entries : G = 0..(appended')
    BY <1>t, <1>m
<1>3. H \subseteq G /\ (appended + 1 \in G \/ appended' = appended)
      /\ \A p \in Writers : memory[p] \in G
    BY <1>1, <1>2, <1>t, <1>m
<1>4. FileInv(G)
    BY <1>1, <1>3, FileInvGrows
<1>5. FileStep(G) \/ UNCHANGED hbVars
    BY <1>3, <1>t, StatusStepIsFileStep
<1>6. FileInv(G)'
    BY <1>4, <1>5, FileStepKeepsFile
<1>7. \E K \in SUBSET Entries : K = 0..(appended') /\ FileInv(K)'
    BY <1>2, <1>6
<1>8. appended' \in 0..MaxCheckpoints
    BY <1>t, <1>m
<1> QED BY <1>m, <1>7, <1>8 DEF LogInv

LEMMA SeenStep ==
    ASSUME LogInv, SeenInv, SeenMoves
    PROVE  SeenInv'
<1>t. appended \in Nat /\ appended \in Entries /\ Entries = 0..MaxCheckpoints
      /\ MaxCheckpoints \in Nat
    BY StatusAssumption DEF LogInv
<1>1. CASE seen' = seen
    BY <1>1 DEF SeenInv
<1>2. ASSUME NEW v \in Viewers, seen' = [seen EXCEPT ![v] = NotWaiting]
      PROVE  SeenInv'
  <2>1. NotWaiting \in Seen /\ NotWaiting.heartbeat <= NotWaiting.since
      BY <1>t DEF NotWaiting, Seen
  <2> QED BY <1>2, <2>1 DEF SeenInv
<1>3. ASSUME NEW v \in Viewers, call[v].value # Missing,
             seen' = [seen EXCEPT ![v] = [ waiting   |-> TRUE,
                                           heartbeat |-> call[v].value.entries[1],
                                           since     |-> appended ]]
      PROVE  SeenInv'
  <2> DEFINE r == call[v].value.entries[1]
             new == [ waiting |-> TRUE, heartbeat |-> r, since |-> appended ]
  <2>1. PICK H \in SUBSET Entries : H = 0..appended /\ FileInv(H)
      BY DEF LogInv
  <2>2. r \in 0..appended /\ r \in Entries
      BY <1>3, <2>1, ReadHeartbeatIsAppended, Constants
  <2> HIDE DEF r
  <2>3. new \in Seen /\ new.heartbeat <= new.since
      BY <1>t, <2>2 DEF Seen
  <2>4. seen' = [seen EXCEPT ![v] = new]
      BY <1>3 DEF r
  <2> HIDE DEF new
  <2> QED BY <2>3, <2>4 DEF SeenInv
<1> QED BY <1>1, <1>2, <1>3 DEF SeenMoves

LEMMA ShownStep ==
    ASSUME LogInv, SeenInv, ShownInv, ShownMoves, gone \subseteq gone'
    PROVE  ShownInv'
<1>t. appended \in Nat /\ 0..appended \subseteq Entries /\ Entries = 0..MaxCheckpoints
      /\ MaxCheckpoints \in Nat
    BY StatusAssumption DEF LogInv
<1>1. CASE shown' = shown
    BY <1>1 DEF ShownInv, NotBehind
<1>2. ASSUME NEW v \in Viewers, NEW new \in Shown, shown' = [shown EXCEPT ![v] = new],
             NotBehind(new.heartbeat, new.checkpoint)
      PROVE  ShownInv'
    BY <1>2 DEF ShownInv, NotBehind
<1>3. ASSUME NEW v \in Viewers, shown' = [shown EXCEPT ![v] = NothingShown]
      PROVE  ShownInv'
  <2>1. NothingShown \in Shown /\ NothingShown.heartbeat <= NothingShown.checkpoint
      BY <1>t DEF NothingShown, Shown
  <2> QED BY <1>2, <1>3, <2>1 DEF NotBehind
<1>4. ASSUME NEW v \in Viewers, NEW answer \in 0..appended,
             (answer + 1)..seen[v].since \subseteq gone,
             shown' = [shown EXCEPT ![v] = [ heartbeat  |-> seen[v].heartbeat,
                                             checkpoint |-> answer ]]
      PROVE  ShownInv'
  <2> DEFINE h == seen[v].heartbeat
             s == seen[v].since
             new == [ heartbeat |-> h, checkpoint |-> answer ]
  <2>1. h \in Entries /\ s \in Entries /\ h <= s /\ answer \in Entries
        /\ (answer + 1)..s \subseteq gone
      BY <1>t, <1>4 DEF SeenInv, Seen
  <2>2. shown' = [shown EXCEPT ![v] = new]
      BY <1>4
  <2> HIDE DEF h, s
  <2>3. new \in Shown /\ new.heartbeat = h /\ new.checkpoint = answer
      BY <2>1 DEF Shown
  <2>4. h <= answer \/ h \in (answer + 1)..s
      BY <1>t, <2>1
  <2>5. NotBehind(new.heartbeat, new.checkpoint)
      BY <2>1, <2>3, <2>4 DEF NotBehind
  <2> HIDE DEF new
  <2> QED BY <1>2, <2>2, <2>3, <2>5
<1> QED BY <1>1, <1>3, <1>4 DEF ShownMoves

LEMMA StatusStep == StatusInv /\ [StatusNext]_allVars => StatusInv'
<1> SUFFICES ASSUME StatusInv, [StatusNext]_allVars
             PROVE  StatusInv'
    OBVIOUS
<1>1. CASE UNCHANGED allVars
  <2>1. PICK H \in SUBSET Entries : H = 0..appended /\ FileInv(H)
      BY DEF StatusInv, LogInv
  <2>2. FileInv(H)'
      BY <1>1, <2>1, FileStepKeepsFile DEF allVars
  <2>3. UNCHANGED statusVars
      BY <1>1 DEF allVars
  <2>4. LogInv'
      BY <2>1, <2>2, <2>3 DEF statusVars, StatusInv, LogInv
  <2> QED BY <2>3, <2>4 DEF statusVars, StatusInv, SeenInv, ShownInv, NotBehind
<1>2. CASE StatusNext
  <2>1. appended \in Nat /\ memory \in [ Writers -> 0..appended ]
      BY StatusAssumption DEF StatusInv, LogInv
  <2>2. LogMoves /\ SeenMoves /\ ShownMoves
      BY <1>2, <2>1, StatusMoves
  <2>3. LogInv'
      BY <1>2, <2>2, LogStep DEF StatusInv
  <2>4. SeenInv'
      BY <2>2, SeenStep DEF StatusInv
  <2>5. ShownInv'
      BY <2>2, ShownStep DEF StatusInv, LogMoves
  <2> QED BY <2>3, <2>4, <2>5 DEF StatusInv
<1> QED BY <1>1, <1>2

LEMMA StatusInvInit == StatusInit => StatusInv
<1> SUFFICES ASSUME StatusInit PROVE StatusInv
    OBVIOUS
<1>1. MaxCheckpoints \in Nat /\ Entries = 0..MaxCheckpoints
    BY StatusAssumption
<1>0. 0..0 \in SUBSET Entries
  <2>1. \A n \in 0..0 : n \in 0..MaxCheckpoints
      BY <1>1
  <2> QED BY <1>1, <2>1
<1>2. PICK H \in SUBSET Entries : H = 0..0
    BY <1>0, Zenon
<1>3. FileInv(H)
    BY FileInvInit DEF StatusInit
<1>4. /\ appended = 0 /\ memory = [ p \in Writers |-> 0 ]
      /\ seen = [ v \in Viewers |-> NotWaiting ]
      /\ shown = [ v \in Viewers |-> NothingShown ]
    BY DEF StatusInit
<1>5. /\ NothingShown \in Shown /\ NothingShown.heartbeat = 0 /\ NothingShown.checkpoint = 0
      /\ NotWaiting \in Seen /\ NotWaiting.heartbeat = 0 /\ NotWaiting.since = 0
    BY <1>1 DEF Shown, NothingShown, Seen, NotWaiting
<1>6. \E K \in SUBSET Entries : K = 0..appended /\ FileInv(K)
    BY <1>2, <1>3, <1>4
<1>7. appended \in 0..MaxCheckpoints /\ memory \in [ Writers -> 0..appended ]
    BY <1>1, <1>4
<1>8. SeenInv /\ ShownInv
    BY <1>4, <1>5 DEF SeenInv, ShownInv, NotBehind
<1> QED BY <1>6, <1>7, <1>8 DEF StatusInv, LogInv

LEMMA StatusInvariant == StatusSpec => []StatusInv
BY StatusInvInit, StatusStep, PTL DEF StatusSpec

\* Unless its own checkpoint has been lost, the heartbeat that `agentgear status'
\* prints is never ahead of the checkpoint beside it, for any number of
\* supervisors and viewers that write, read and end at any step, and any losses
\* of the heartbeat and of checkpoints between the two reads.
THEOREM StatusIsNeverBehind == StatusSpec => []StatusNeverBehind
<1>1. StatusInv => StatusNeverBehind
    BY DEF StatusInv, ShownInv, NotBehind, StatusNeverBehind
<1> QED BY <1>1, StatusInvariant, PTL

\* Beside the log and the display, the supervisors and viewers use the heartbeat
\* file as HeartbeatFile says: what is proved of it holds here too.
THEOREM StatusUsesTheFile == StatusSpec => Spec
<1>1. StatusInit => Init
    BY DEF StatusInit
<1>2. StatusInv /\ [StatusNext]_allVars => [Next]_hbVars
  <2> SUFFICES ASSUME StatusInv, [StatusNext]_allVars
               PROVE  [Next]_hbVars
      OBVIOUS
  <2>1. CASE UNCHANGED allVars
      BY <2>1 DEF allVars
  <2>2. CASE StatusNext
    <3>1. /\ appended \in Nat /\ MaxCheckpoints \in Nat /\ Entries = 0..MaxCheckpoints
          /\ appended <= MaxCheckpoints /\ memory \in [ Writers -> 0..appended ]
        BY StatusAssumption DEF StatusInv, LogInv
    <3>2. /\ \A p \in Writers : memory[p] \in Entries
          /\ appended < MaxCheckpoints => appended + 1 \in Entries
        BY <3>1
    <3>3. CASE \E p \in Writers : Checkpoint(p)
      <4>1. PICK p \in Writers : Checkpoint(p)
          BY <3>3
      <4>2. appended + 1 \in Entries
          BY <3>2, <4>1 DEF Checkpoint
      <4> QED BY <4>1, <4>2 DEF Checkpoint, Next
    <3>4. CASE LoseCheckpoints \/ \E v \in Viewers : ShowStatus(v)
        BY <3>4 DEF LoseCheckpoints, ShowStatus
    <3>5. CASE /\ ~\E p \in Writers : Checkpoint(p)
               /\ ~(LoseCheckpoints \/ \E v \in Viewers : ShowStatus(v))
        BY <2>2, <3>2, <3>5, Constants
        DEF StatusNext, Mirror, ProcessEnds, ReadHeartbeat, HeartbeatRead, Next
    <3> QED BY <3>3, <3>4, <3>5
  <2> QED BY <2>1, <2>2
<1> QED BY <1>1, <1>2, StatusInvariant, PTL DEF StatusSpec, Spec
=============================================================================
