--------------------------- MODULE SafeJsonStore ---------------------------
(***************************************************************************)
(* safe_json_store.py: SafeJsonStore and FileLock, for JSON documents that *)
(* each hold a list of entries.  Processes share only the file system.     *)
(* read() takes no lock; update() locks, reads, mutates and replaces the   *)
(* file atomically.  A document that cannot be read, because of what it    *)
(* holds or because the reads fail, is renamed away, which takes a check   *)
(* and a rename: two steps, that others can come between.                  *)
(*                                                                         *)
(* One action is one access to the file system by one process.  Temporary  *)
(* files are private to their writer until they replace the document, and  *)
(* are not modelled; nor are path containment checks.                      *)
(***************************************************************************)
EXTENDS Naturals, Sequences

CONSTANTS
    Processes,
    Paths,   \* the documents
    Entries, \* what a document lists
    Nobody   \* the holder of a free lock

ASSUME StoreAssumption ==
    /\ Paths \subseteq Nat
    /\ Nobody \notin Processes
    /\ "corrupt" \notin Processes

VARIABLES
    file,    \* the content of each document
    copies,  \* its quarantined copies, by suffix: .corrupt and .corrupt.<pid>
    lock,    \* the process holding its lock file
    call     \* the store call each process is in

storeVars == <<file, copies, lock, call>>

\* A corrupt document is text that is not JSON or fails the validator; the
\* bytes of an undecodable one are not even UTF-8.
Content == [ kind : { "missing", "corrupt", "undecodable", "valid" },
             entries : Seq(Entries) ]
Missing == [ kind |-> "missing", entries |-> <<>> ]
Corrupt == [ kind |-> "corrupt", entries |-> <<>> ]
Undecodable == [ kind |-> "undecodable", entries |-> <<>> ]
Valid(entries) == [ kind |-> "valid", entries |-> entries ]

CopyNames == { "corrupt" } \cup Processes

Steps == { "idle", "lock", "exists", "open", "quarantine", "rename", "write",
           "unlock", "returned", "raised" }

CallRecord == [ step : Steps, path : Paths \cup {0}, updating : BOOLEAN,
                value : Content, suffix : CopyNames, failed : BOOLEAN ]

NoCall == [ step |-> "idle", path |-> 0, updating |-> FALSE, value |-> Missing,
            suffix |-> "corrupt", failed |-> FALSE ]

\* A call of read() or of update(), before its first step.
ReadCall(path) == [NoCall EXCEPT !.step = "exists", !.path = path]
UpdateCall(path) ==
    [NoCall EXCEPT !.step = "lock", !.path = path, !.updating = TRUE]

\* The call of p, moved to a step.
At(p, step) == [call EXCEPT ![p].step = step]

\* An exception leaves read() at once, and update() through the lock's release.
Raising(p) ==
    IF call[p].updating
    THEN [call EXCEPT ![p].step = "unlock", ![p].failed = TRUE]
    ELSE [call EXCEPT ![p].step = "raised", ![p].failed = TRUE]

\* What read() hands to its caller, or to the mutator of update().
Got(p, value) ==
    [call EXCEPT ![p].step = IF call[p].updating THEN "write" ELSE "returned",
                 ![p].value = value]

StoreInit ==
    /\ file = [ n \in Paths |-> Missing ]
    /\ copies = [ n \in Paths |-> [ s \in CopyNames |-> Missing ] ]
    /\ lock = [ n \in Paths |-> Nobody ]
    /\ call = [ p \in Processes |-> NoCall ]
-----------------------------------------------------------------------------
\* Faulty variant: a held lock is no obstacle.
LockIgnored(p) ==
    /\ call[p].step = "lock"
    /\ lock' = [lock EXCEPT ![call[p].path] = p]
    /\ call' = At(p, "exists")
    /\ UNCHANGED <<file, copies>>

\* FileLock.acquire, once the lock is free.
AcquireLock(p) ==
    /\ call[p].step = "lock"
    /\ lock[call[p].path] = Nobody
    /\ lock' = [lock EXCEPT ![call[p].path] = p]
    /\ call' = At(p, "exists")
    /\ UNCHANGED <<file, copies>>

\* FileLock.acquire polls a lock another process holds, until its timeout.
LockTimeout(p) ==
    /\ call[p].step = "lock"
    /\ lock[call[p].path] # Nobody
    /\ call' = At(p, "raised")
    /\ UNCHANGED <<file, copies, lock>>

\* read(): path.exists(), and the default if it does not.
CheckExists(p) ==
    /\ call[p].step = "exists"
    /\ call' = IF file[call[p].path] = Missing THEN Got(p, Missing) ELSE At(p, "open")
    /\ UNCHANGED <<file, copies, lock>>

\* Faulty variant: a document that has gone is waited for.
ReadTextWaits(p) ==
    LET content == file[call[p].path]
    IN  /\ call[p].step = "open" /\ content # Missing
        /\ call' = IF content.kind = "valid" THEN Got(p, content) ELSE At(p, "quarantine")
        /\ UNCHANGED <<file, copies, lock>>

\* _read_text_with_retry, then the validator.  Attempts that fail before one
\* succeeds are no steps.  A document that has meanwhile gone fails them all,
\* and is then treated like a corrupt one.  The
\* UnicodeDecodeError of an undecodable one is neither the OSError nor the
\* parser's error that lead to the quarantine: it just leaves read().
ReadText(p) ==
    LET content == file[call[p].path]
    IN  /\ call[p].step = "open"
        /\ call' = CASE content.kind = "valid"       -> Got(p, content)
                     [] content.kind = "undecodable" -> Raising(p)
                     [] OTHER                        -> At(p, "quarantine")
        /\ UNCHANGED <<file, copies, lock>>

\* _read_text_with_retry, when every attempt at a document that is there ends
\* in an OSError: whatever it holds, a valid document included, it is treated
\* like a corrupt one.
ReadFails(p) ==
    /\ call[p].step = "open"
    /\ file[call[p].path] # Missing
    /\ call' = At(p, "quarantine")
    /\ UNCHANGED <<file, copies, lock>>

\* _quarantine_and_raise, up to the choice of the quarantined file's name.
Quarantine(p) ==
    LET n == call[p].path
    IN  /\ call[p].step = "quarantine"
        /\ call' = IF file[n] = Missing
                   THEN Raising(p)
                   ELSE [call EXCEPT ![p].step = "rename",
                                     ![p].suffix = IF copies[n]["corrupt"] = Missing
                                                   THEN "corrupt" ELSE p]
        /\ UNCHANGED <<file, copies, lock>>

\* path.rename: whatever the document is by now, it goes, unless the rename
\* fails.
Rename(p) ==
    LET n == call[p].path
    IN  /\ call[p].step = "rename"
        /\ \/ UNCHANGED <<file, copies>>
           \/ /\ file[n] # Missing
              /\ copies' = [copies EXCEPT ![n][call[p].suffix] = file[n]]
              /\ file' = [file EXCEPT ![n] = Missing]
        /\ call' = Raising(p)
        /\ UNCHANGED lock

\* update(): the mutator's result replaces the document in one rename.
WriteAtomic(p, entries) ==
    /\ call[p].step = "write"
    /\ file' = [file EXCEPT ![call[p].path] = Valid(entries)]
    /\ call' = At(p, "unlock")
    /\ UNCHANGED <<copies, lock>>

\* Faulty variant: the document is written in place, and torn by a failure.
WriteTears(p) ==
    /\ call[p].step = "write"
    /\ file' = [file EXCEPT ![call[p].path] = Corrupt]
    /\ call' = Raising(p)
    /\ UNCHANGED <<copies, lock>>

\* write_atomic fails before the rename: the document is as it was.
WriteFails(p) ==
    /\ call[p].step = "write"
    /\ call' = Raising(p)
    /\ UNCHANGED <<file, copies, lock>>

\* FileLock.release, on both exits of update().
ReleaseLock(p) ==
    /\ call[p].step = "unlock"
    /\ lock' = [lock EXCEPT ![call[p].path] = Nobody]
    /\ call' = At(p, IF call[p].failed THEN "raised" ELSE "returned")
    /\ UNCHANGED <<file, copies>>

\* Every step of a call but the mutation itself, and but the failing of reads,
\* which is for the modules that use the store to admit.
StoreStep(p) ==
    \/ AcquireLock(p)
    \/ LockTimeout(p)
    \/ CheckExists(p)
    \/ ReadText(p)
    \/ Quarantine(p)
    \/ Rename(p)
    \/ WriteFails(p)
    \/ ReleaseLock(p)

\* The end of a process: the operating system drops its locks.
StoreCrash(p) ==
    /\ call' = [call EXCEPT ![p] = NoCall]
    /\ lock' = [ n \in Paths |-> IF lock[n] = p THEN Nobody ELSE lock[n] ]
    /\ UNCHANGED <<file, copies>>
=============================================================================
