--------------------------- MODULE CheckpointLog ---------------------------
(***************************************************************************)
(* What checkpoints.py promises its callers: one append-only log.  append  *)
(* adds one checkpoint at its end; a call of all() returns the whole log,  *)
(* and a call of latest() its last checkpoint, as they were at some moment *)
(* during that call.  The promise ends with the first interference from    *)
(* outside: damage to a segment, or a read that fails for good.            *)
(***************************************************************************)
EXTENDS Naturals, Sequences

CONSTANTS Callers, Entries

Queries == { "all", "latest" }
NoQuery == "none"

VARIABLES
    log,    \* the checkpoints appended so far
    query,  \* the query each caller is waiting for, or NoQuery
    since,  \* the length of the log when that query was called
    answer, \* what the last query of each caller returned
    intact  \* nothing has interfered so far

logVars == <<log, query, since, answer>>

\* The answer to a query about a log.
AnswerFrom(q, l) == IF q = "all" \/ l = <<>> THEN l ELSE <<l[Len(l)]>>

LogInit ==
    /\ log = <<>>
    /\ query = [ c \in Callers |-> NoQuery ]
    /\ since = [ c \in Callers |-> 0 ]
    /\ answer = [ c \in Callers |-> <<>> ]

LogAppend(e) ==
    /\ log' = Append(log, e)
    /\ UNCHANGED <<query, since, answer>>

Ask(c, q) ==
    /\ query[c] = NoQuery
    /\ query' = [query EXCEPT ![c] = q]
    /\ since' = [since EXCEPT ![c] = Len(log)]
    /\ answer' = [answer EXCEPT ![c] = <<>>]
    /\ UNCHANGED log

Return(c, n) ==
    /\ query[c] # NoQuery
    /\ n \in since[c]..Len(log)
    /\ answer' = [answer EXCEPT ![c] = AnswerFrom(query[c], SubSeq(log, 1, n))]
    /\ query' = [query EXCEPT ![c] = NoQuery]
    /\ since' = [since EXCEPT ![c] = 0]
    /\ UNCHANGED log

\* The caller's process ends during the query.
Abandon(c) ==
    /\ query[c] # NoQuery
    /\ query' = [query EXCEPT ![c] = NoQuery]
    /\ since' = [since EXCEPT ![c] = 0]
    /\ UNCHANGED <<log, answer>>

LogNext ==
    \/ \E e \in Entries : LogAppend(e)
    \/ \E c \in Callers :
        \/ \E q \in Queries : Ask(c, q)
        \/ \E n \in 0..Len(log) : Return(c, n)
        \/ Abandon(c)

LogSpec == LogInit /\ [][intact' => LogNext]_logVars
=============================================================================
