------------------------ MODULE SafeJsonStoreProofs ------------------------
(***************************************************************************)
(* Lemmas about SafeJsonStore, for the proofs about its two users, the     *)
(* heartbeat file and the checkpoint store: what each step of a call does, *)
(* in terms of that call's fields.                                         *)
(***************************************************************************)
EXTENDS SafeJsonStore, SequenceTheorems, TLAPS

CallsTyped == call \in [ Processes -> CallRecord ]

\* A call moves: the other calls, and what the call is about, stay.
Moves(p) ==
    /\ CallsTyped'
    /\ \A q \in Processes : q # p => call'[q] = call[q]
    /\ call'[p].path = call[p].path /\ call'[p].updating = call[p].updating

LEMMA CallMoves ==
    ASSUME CallsTyped, NEW p \in Processes
    PROVE  /\ \A s \in Steps : call' = At(p, s)
                => /\ Moves(p) /\ call'[p].value = call[p].value
                   /\ call'[p].step = s /\ call'[p].failed = call[p].failed
           /\ call' = Raising(p)
                => /\ Moves(p) /\ call'[p].value = call[p].value
                   /\ call'[p].step = IF call[p].updating THEN "unlock" ELSE "raised"
                   /\ call'[p].failed
           /\ \A v \in Content : call' = Got(p, v)
                => /\ Moves(p) /\ call'[p].value = v /\ call'[p].failed = call[p].failed
                   /\ call'[p].step = IF call[p].updating THEN "write" ELSE "returned"
           /\ \A x \in CopyNames :
                call' = [call EXCEPT ![p].step = "rename", ![p].suffix = x]
                => /\ Moves(p) /\ call'[p].value = call[p].value
                   /\ call'[p].step = "rename" /\ call'[p].failed = call[p].failed
<1>p. call[p] \in CallRecord
    BY DEF CallsTyped
<1>1. ASSUME NEW s \in Steps, call' = At(p, s)
      PROVE  /\ Moves(p) /\ call'[p].value = call[p].value
             /\ call'[p].step = s /\ call'[p].failed = call[p].failed
  <2>1. call'[p] = [call[p] EXCEPT !.step = s] /\ \A q \in Processes : q # p => call'[q] = call[q]
      BY <1>1 DEF At, CallsTyped
  <2>2. [call[p] EXCEPT !.step = s] \in CallRecord
      BY <1>p DEF CallRecord
  <2>3. CallsTyped'
      BY <1>1, <2>1, <2>2 DEF At, CallsTyped
  <2> QED BY <1>p, <2>1, <2>3 DEF Moves, CallRecord
<1>2. ASSUME call' = Raising(p)
      PROVE  /\ Moves(p) /\ call'[p].value = call[p].value
             /\ call'[p].step = IF call[p].updating THEN "unlock" ELSE "raised"
             /\ call'[p].failed
  <2> DEFINE s == IF call[p].updating THEN "unlock" ELSE "raised"
             c == [call[p] EXCEPT !.step = s, !.failed = TRUE]
  <2>1. call'[p] = c /\ \A q \in Processes : q # p => call'[q] = call[q]
      BY <1>2 DEF Raising, CallsTyped
  <2>2. c \in CallRecord
      BY <1>p DEF CallRecord, Steps
  <2>3. CallsTyped'
      BY <1>2, <2>1, <2>2 DEF Raising, CallsTyped
  <2> QED BY <1>p, <2>1, <2>3 DEF Moves, CallRecord
<1>3. ASSUME NEW v \in Content, call' = Got(p, v)
      PROVE  /\ Moves(p) /\ call'[p].value = v /\ call'[p].failed = call[p].failed
             /\ call'[p].step = IF call[p].updating THEN "write" ELSE "returned"
  <2> DEFINE s == IF call[p].updating THEN "write" ELSE "returned"
             c == [call[p] EXCEPT !.step = s, !.value = v]
  <2>1. call'[p] = c /\ \A q \in Processes : q # p => call'[q] = call[q]
      BY <1>3 DEF Got, CallsTyped
  <2>2. c \in CallRecord
      BY <1>p DEF CallRecord, Steps
  <2>3. CallsTyped'
      BY <1>3, <2>1, <2>2 DEF Got, CallsTyped
  <2> QED BY <1>p, <2>1, <2>3 DEF Moves, CallRecord
<1>4. ASSUME NEW x \in CopyNames, call' = [call EXCEPT ![p].step = "rename", ![p].suffix = x]
      PROVE  /\ Moves(p) /\ call'[p].value = call[p].value
             /\ call'[p].step = "rename" /\ call'[p].failed = call[p].failed
  <2> DEFINE c == [call[p] EXCEPT !.step = "rename", !.suffix = x]
  <2>1. call'[p] = c /\ \A q \in Processes : q # p => call'[q] = call[q]
      BY <1>4 DEF CallsTyped
  <2>2. c \in CallRecord
      BY <1>p DEF CallRecord, Steps
  <2>3. CallsTyped'
      BY <1>4, <2>1, <2>2 DEF CallsTyped
  <2> QED BY <1>p, <2>1, <2>3 DEF Moves, CallRecord
<1> QED BY <1>1, <1>2, <1>3, <1>4

LEMMA ContentKinds ==
    /\ Missing \in Content /\ Corrupt \in Content /\ Undecodable \in Content
    /\ Missing.kind = "missing" /\ Corrupt.kind = "corrupt"
    /\ Undecodable.kind = "undecodable"
    /\ Missing.entries = <<>> /\ Corrupt.entries = <<>> /\ Undecodable.entries = <<>>
    /\ \A s \in Seq(Entries) : /\ Valid(s) \in Content /\ Valid(s).kind = "valid"
                               /\ Valid(s).entries = s
<1>1. <<>> \in Seq(Entries)
    OBVIOUS
<1> QED BY <1>1 DEF Missing, Corrupt, Undecodable, Valid, Content

LEMMA NewCalls ==
    /\ NoCall \in CallRecord /\ NoCall.step = "idle" /\ ~NoCall.updating
    /\ NoCall.value = Missing
    /\ \A n \in Paths :
        /\ ReadCall(n) \in CallRecord /\ ReadCall(n).step = "exists" /\ ReadCall(n).path = n
        /\ ~ReadCall(n).updating /\ ReadCall(n).value = Missing
        /\ UpdateCall(n) \in CallRecord /\ UpdateCall(n).step = "lock"
        /\ UpdateCall(n).path = n /\ UpdateCall(n).updating
        /\ UpdateCall(n).value = Missing /\ ~UpdateCall(n).failed
<1>1. Missing \in Content /\ "corrupt" \in CopyNames
    BY ContentKinds DEF CopyNames
<1> QED BY <1>1 DEF NoCall, ReadCall, UpdateCall, CallRecord, Steps

\* A call ends, and leaves the others alone.
LEMMA CallReplaced ==
    ASSUME CallsTyped, NEW p \in Processes, NEW c \in CallRecord,
           call' = [call EXCEPT ![p] = c]
    PROVE  CallsTyped' /\ call'[p] = c /\ \A q \in Processes : q # p => call'[q] = call[q]
BY DEF CallsTyped
-----------------------------------------------------------------------------
(* The steps of a call *)

\* The documents, their copies and their locks have their types.
StoreTyped ==
    /\ CallsTyped
    /\ file \in [ Paths -> Content ]
    /\ copies \in [ Paths -> [ CopyNames -> Content ] ]
    /\ lock \in [ Paths -> Processes \cup {Nobody} ]

\* An exception: read() is over, update() goes on to its release.
Raises(p) ==
    /\ call'[p].value = call[p].value
    /\ call'[p].step = IF call[p].updating THEN "unlock" ELSE "raised"
    /\ call'[p].failed

\* The value read is handed over.
Hands(p, v) ==
    /\ call'[p].value = v /\ call'[p].failed = call[p].failed
    /\ call'[p].step = IF call[p].updating THEN "write" ELSE "returned"

GoesTo(p, s) ==
    /\ call'[p].value = call[p].value /\ call'[p].failed = call[p].failed
    /\ call'[p].step = s

\* Steps that touch neither the documents nor the locks, on document n.
Looks(p, n) ==
    /\ UNCHANGED <<file, copies, lock>>
    /\ \/ call[p].step = "lock" /\ lock[n] # Nobody /\ GoesTo(p, "raised")
       \/ call[p].step = "exists" /\ file[n] = Missing /\ Hands(p, Missing)
       \/ call[p].step = "exists" /\ file[n] # Missing /\ GoesTo(p, "open")
       \/ call[p].step = "open" /\ file[n].kind = "valid" /\ Hands(p, file[n])
       \/ call[p].step = "open" /\ file[n].kind = "undecodable" /\ Raises(p)
       \/ /\ call[p].step = "open" /\ file[n].kind \notin { "valid", "undecodable" }
          /\ GoesTo(p, "quarantine")
       \/ call[p].step = "quarantine" /\ (Raises(p) \/ GoesTo(p, "rename"))
       \/ call[p].step = "write" /\ Raises(p)

Locks(p, n) ==
    /\ UNCHANGED <<file, copies>>
    /\ \/ /\ call[p].step = "lock" /\ lock[n] = Nobody /\ lock'[n] = p
          /\ GoesTo(p, "exists")
       \/ /\ call[p].step = "unlock" /\ lock'[n] = Nobody
          /\ GoesTo(p, IF call[p].failed THEN "raised" ELSE "returned")
    /\ \A m \in Paths : m # n => lock'[m] = lock[m]

Quarantines(p, n) ==
    /\ call[p].step = "rename" /\ Raises(p) /\ UNCHANGED lock
    /\ \/ UNCHANGED <<file, copies>>
       \/ /\ file'[n] = Missing
          /\ \E x \in CopyNames : copies'[n][x] = file[n]
                                  /\ \A y \in CopyNames : y # x => copies'[n][y] = copies[n][y]
          /\ \A m \in Paths : m # n => file'[m] = file[m] /\ copies'[m] = copies[m]

\* Every step of a call but the mutation.
LEMMA StoreStepCases ==
    ASSUME StoreTyped, NEW p \in Processes, call[p].path \in Paths, StoreStep(p)
    PROVE  /\ StoreTyped' /\ Moves(p)
           /\ \/ Looks(p, call[p].path)
              \/ Locks(p, call[p].path)
              \/ Quarantines(p, call[p].path)
<1> USE DEF StoreTyped
<1> DEFINE n == call[p].path
<1>t. /\ CallsTyped /\ call[p] \in CallRecord /\ n \in Paths
      /\ file[n] \in Content /\ copies[n] \in [ CopyNames -> Content ]
      /\ call[p].suffix \in CopyNames
  <2>1. call[p] \in CallRecord /\ file[n] \in Content /\ copies[n] \in [ CopyNames -> Content ]
      BY DEF CallsTyped
  <2> QED BY <2>1 DEF CallRecord
<1>m. Missing \in Content
    BY ContentKinds
<1>s. \A s \in { "raised", "exists", "open", "quarantine", "returned" } : s \in Steps
    BY DEF Steps
<1> HIDE DEF n
<1>1. ASSUME LockTimeout(p)
      PROVE  StoreTyped' /\ Moves(p) /\ Looks(p, n)
  <2>1. /\ call[p].step = "lock" /\ lock[n] # Nobody /\ call' = At(p, "raised")
        /\ UNCHANGED <<file, copies, lock>>
      BY <1>1 DEF LockTimeout, n
  <2>2. Moves(p) /\ GoesTo(p, "raised")
      BY <1>t, <1>s, <2>1, CallMoves DEF GoesTo
  <2> QED BY <2>1, <2>2 DEF Moves, Looks
<1>2. ASSUME CheckExists(p)
      PROVE  StoreTyped' /\ Moves(p) /\ Looks(p, n)
  <2>1. /\ call[p].step = "exists" /\ UNCHANGED <<file, copies, lock>>
        /\ call' = IF file[n] = Missing THEN Got(p, Missing) ELSE At(p, "open")
      BY <1>2 DEF CheckExists, n
  <2>2. CASE file[n] = Missing
    <3>1. Moves(p) /\ Hands(p, Missing)
        BY <1>t, <1>m, <2>1, <2>2, CallMoves DEF Hands
    <3> QED BY <2>1, <2>2, <3>1 DEF Moves, Looks
  <2>3. CASE file[n] # Missing
    <3>1. Moves(p) /\ GoesTo(p, "open")
        BY <1>t, <1>s, <2>1, <2>3, CallMoves DEF GoesTo
    <3> QED BY <2>1, <2>3, <3>1 DEF Moves, Looks
  <2> QED BY <2>2, <2>3
<1>3. ASSUME ReadText(p)
      PROVE  StoreTyped' /\ Moves(p) /\ Looks(p, n)
  <2>1. /\ call[p].step = "open" /\ UNCHANGED <<file, copies, lock>>
        /\ call' = CASE file[n].kind = "valid"       -> Got(p, file[n])
                     [] file[n].kind = "undecodable" -> Raising(p)
                     [] OTHER                        -> At(p, "quarantine")
      BY <1>3 DEF ReadText, n
  <2>2. CASE file[n].kind = "valid"
    <3>1. Moves(p) /\ Hands(p, file[n])
        BY <1>t, <2>1, <2>2, CallMoves DEF Hands
    <3> QED BY <2>1, <2>2, <3>1 DEF Moves, Looks
  <2>3. CASE file[n].kind = "undecodable"
    <3>1. Moves(p) /\ Raises(p)
        BY <1>t, <2>1, <2>3, CallMoves DEF Raises
    <3> QED BY <2>1, <2>3, <3>1 DEF Moves, Looks
  <2>4. CASE file[n].kind \notin { "valid", "undecodable" }
    <3>1. Moves(p) /\ GoesTo(p, "quarantine")
        BY <1>t, <1>s, <2>1, <2>4, CallMoves DEF GoesTo
    <3> QED BY <2>1, <2>4, <3>1 DEF Moves, Looks
  <2> QED BY <2>2, <2>3, <2>4
<1>4. ASSUME Quarantine(p)
      PROVE  StoreTyped' /\ Moves(p) /\ Looks(p, n)
  <2>1. /\ call[p].step = "quarantine" /\ UNCHANGED <<file, copies, lock>>
        /\ \/ call' = Raising(p)
           \/ \E x \in CopyNames : call' = [call EXCEPT ![p].step = "rename", ![p].suffix = x]
      BY <1>4 DEF Quarantine, CopyNames
  <2>2. CASE call' = Raising(p)
    <3>1. Moves(p) /\ Raises(p)
        BY <1>t, <2>2, CallMoves DEF Raises
    <3> QED BY <2>1, <3>1 DEF Moves, Looks
  <2>3. CASE call' # Raising(p)
    <3>1. Moves(p) /\ GoesTo(p, "rename")
        BY <1>t, <2>1, <2>3, CallMoves DEF GoesTo
    <3> QED BY <2>1, <3>1 DEF Moves, Looks
  <2> QED BY <2>2, <2>3
<1>5. ASSUME WriteFails(p)
      PROVE  StoreTyped' /\ Moves(p) /\ Looks(p, n)
  <2>1. call[p].step = "write" /\ call' = Raising(p) /\ UNCHANGED <<file, copies, lock>>
      BY <1>5 DEF WriteFails
  <2>2. Moves(p) /\ Raises(p)
      BY <1>t, <2>1, CallMoves DEF Raises
  <2> QED BY <2>1, <2>2 DEF Moves, Looks
<1>6. ASSUME AcquireLock(p)
      PROVE  StoreTyped' /\ Moves(p) /\ Locks(p, n)
  <2>1. /\ call[p].step = "lock" /\ lock[n] = Nobody /\ lock' = [lock EXCEPT ![n] = p]
        /\ call' = At(p, "exists") /\ UNCHANGED <<file, copies>>
      BY <1>6 DEF AcquireLock, n
  <2>2. Moves(p) /\ GoesTo(p, "exists")
      BY <1>t, <1>s, <2>1, CallMoves DEF GoesTo
  <2> QED BY <1>t, <2>1, <2>2 DEF Moves, Locks
<1>7. ASSUME ReleaseLock(p)
      PROVE  StoreTyped' /\ Moves(p) /\ Locks(p, n)
  <2>1. /\ call[p].step = "unlock" /\ lock' = [lock EXCEPT ![n] = Nobody]
        /\ call' = At(p, IF call[p].failed THEN "raised" ELSE "returned")
        /\ UNCHANGED <<file, copies>>
      BY <1>7 DEF ReleaseLock, n
  <2>2. Moves(p) /\ GoesTo(p, IF call[p].failed THEN "raised" ELSE "returned")
      BY <1>t, <1>s, <2>1, CallMoves DEF GoesTo
  <2> QED BY <1>t, <2>1, <2>2 DEF Moves, Locks
<1>8. ASSUME Rename(p)
      PROVE  StoreTyped' /\ Moves(p) /\ Quarantines(p, n)
  <2> DEFINE x == call[p].suffix
  <2>1. /\ call[p].step = "rename" /\ UNCHANGED lock /\ call' = Raising(p)
        /\ \/ UNCHANGED <<file, copies>>
           \/ /\ copies' = [copies EXCEPT ![n][x] = file[n]]
              /\ file' = [file EXCEPT ![n] = Missing]
      BY <1>8 DEF Rename, n
  <2>2. Moves(p) /\ Raises(p)
      BY <1>t, <2>1, CallMoves DEF Raises
  <2>3. CASE UNCHANGED <<file, copies>>
      BY <2>1, <2>2, <2>3 DEF Moves, Quarantines
  <2>4. CASE ~UNCHANGED <<file, copies>>
    <3> HIDE DEF x
    <3>1. /\ copies' = [copies EXCEPT ![n][x] = file[n]]
          /\ file' = [file EXCEPT ![n] = Missing] /\ x \in CopyNames
        BY <1>t, <2>1, <2>4 DEF x
    <3>2. [copies[n] EXCEPT ![x] = file[n]] \in [ CopyNames -> Content ]
        BY <1>t, <3>1
    <3>3. copies' \in [ Paths -> [ CopyNames -> Content ] ]
        BY <1>t, <3>1, <3>2
    <3>4. /\ copies'[n] = [copies[n] EXCEPT ![x] = file[n]]
          /\ \A m \in Paths : m # n => copies'[m] = copies[m]
        BY <1>t, <3>1
    <3>5. /\ file' \in [ Paths -> Content ] /\ file'[n] = Missing
          /\ \A m \in Paths : m # n => file'[m] = file[m]
        BY <1>t, <1>m, <3>1
    <3>6. /\ copies'[n][x] = file[n]
          /\ \A y \in CopyNames : y # x => copies'[n][y] = copies[n][y]
        BY <1>t, <3>1, <3>4
    <3>7. Quarantines(p, n)
        BY <2>1, <2>2, <3>1, <3>4, <3>5, <3>6 DEF Quarantines
    <3> QED BY <2>1, <2>2, <3>3, <3>5, <3>7 DEF Moves
  <2> QED BY <2>3, <2>4
<1> QED BY <1>1, <1>2, <1>3, <1>4, <1>5, <1>6, <1>7, <1>8 DEF StoreStep, n

\* A read that fails for good, whatever the document holds.
LEMMA ReadFailsCase ==
    ASSUME StoreTyped, NEW p \in Processes, ReadFails(p)
    PROVE  /\ StoreTyped' /\ Moves(p) /\ UNCHANGED <<file, copies, lock>>
           /\ call[p].step = "open" /\ GoesTo(p, "quarantine")
<1> USE DEF StoreTyped
<1>1. /\ call[p].step = "open" /\ UNCHANGED <<file, copies, lock>>
      /\ call' = At(p, "quarantine")
    BY DEF ReadFails
<1>2. Moves(p) /\ GoesTo(p, "quarantine")
    BY <1>1, CallMoves DEF GoesTo, Steps
<1> QED BY <1>1, <1>2 DEF Moves

\* The mutation.
LEMMA WriteCase ==
    ASSUME StoreTyped, NEW p \in Processes, call[p].path \in Paths,
           NEW s \in Seq(Entries), WriteAtomic(p, s)
    PROVE  /\ StoreTyped' /\ Moves(p) /\ UNCHANGED <<copies, lock>>
           /\ call[p].step = "write" /\ GoesTo(p, "unlock")
           /\ file'[call[p].path] = Valid(s)
           /\ \A m \in Paths : m # call[p].path => file'[m] = file[m]
<1> USE DEF StoreTyped
<1>1. /\ call[p].step = "write" /\ UNCHANGED <<copies, lock>> /\ call' = At(p, "unlock")
      /\ file' = [file EXCEPT ![call[p].path] = Valid(s)]
    BY DEF WriteAtomic
<1>2. Moves(p) /\ GoesTo(p, "unlock")
    BY <1>1, CallMoves DEF GoesTo, Steps
<1>3. Valid(s) \in Content
    BY ContentKinds
<1> QED BY <1>1, <1>2, <1>3 DEF Moves
=============================================================================
