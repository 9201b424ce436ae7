--------------------------- MODULE ContextProvider ---------------------------
(***************************************************************************)
(* context_provider.py: a request for context, answered by a technical     *)
(* memory that may be absent, may raise at any point and may return an     *)
(* iterable that never ends.  One action is one exchange with that memory. *)
(* What an entry says is abstracted to its length in characters, 0 for an  *)
(* entry without content; the request's own validation and the topic and   *)
(* constraints, which are only passed on, are left out.                    *)
(***************************************************************************)
EXTENDS Naturals, Sequences, Functions

CONSTANTS
    search_limit,  \* entries the provider takes at most
    Budgets,       \* budget_tokens of the requests
    Lengths        \* lengths of the entries

ASSUME ContextAssumption ==
    /\ search_limit \in Nat \ {0}
    /\ Budgets \subseteq Nat \ {0}
    /\ Lengths \subseteq Nat

VARIABLES
    provider,  \* the class that answers
    site,      \* what it was given: an installed package, an instance, a search()
    step,      \* "idle", "searching", "pulling", "measuring", "returned", "raised"
    budget,    \* of the request
    chunks,    \* the entries taken into the content, in order
    considered, entry,  \* how many were looked at, and the one that is
    package,   \* the package returned
    served     \* history: the entries with content delivered, and whether the
               \* memory raised after it was asked

vars == <<provider, site, step, budget, chunks, considered, entry, package, served>>

Site == [ installed : BOOLEAN, supplied : BOOLEAN, usable : BOOLEAN ]

NothingServed == [ entries |-> <<>>, raised |-> FALSE ]

\* ~4 characters to a token.
approx_token_count(length) ==
    IF length = 0 THEN 0 ELSE IF length < 4 THEN 1 ELSE length \div 4

\* The length of entries joined with a separator of two characters.
JoinedLength(lengths) ==
    IF lengths = <<>> THEN 0 ELSE SumFunction(lengths) + 2 * (Len(lengths) - 1)

\* Faulty variant: the entries are measured one by one, not as they are joined.
FitsOneByOne(taken, length, tokens) ==
    approx_token_count(length)
        + SumFunction([ i \in DOMAIN taken |-> approx_token_count(taken[i]) ]) <= tokens

Fits(taken, length, tokens) ==
    approx_token_count(JoinedLength(Append(taken, length))) <= tokens

DefaultPackage ==
    [ source |-> "default", content |-> <<>>, budget_tokens |-> budget, used_tokens |-> 0 ]

\* What has been gathered when the loop is left.
GatheredPackage ==
    [ source        |-> "promptgraph",
      content       |-> chunks,
      budget_tokens |-> budget,
      used_tokens   |-> approx_token_count(JoinedLength(chunks)) ]

NoPackage == [ source |-> "none", content |-> <<>>, budget_tokens |-> 0, used_tokens |-> 0 ]

get_default_provider(s) ==
    IF s.supplied /\ s.installed THEN "PromptGraphContextProvider"
    ELSE "DefaultContextProvider"
-----------------------------------------------------------------------------
\* A provider is made by the factory, or directly.
Init ==
    /\ site \in Site
    /\ provider \in { get_default_provider(site), "PromptGraphContextProvider" }
    /\ step = "idle" /\ budget = 0
    /\ chunks = <<>> /\ considered = 0 /\ entry = 0
    /\ package = NoPackage /\ served = NothingServed

HasSearch == site.installed /\ site.supplied /\ site.usable

\* request(), up to the call of search(): without one to call, the default.
Request(tokens) ==
    /\ step = "idle"
    /\ budget' = tokens
    /\ IF provider = "PromptGraphContextProvider" /\ HasSearch
       THEN step' = "searching" /\ UNCHANGED package
       ELSE step' = "returned" /\ package' = DefaultPackage'
    /\ UNCHANGED <<provider, site, chunks, considered, entry, served>>

\* The instance's memory, or the memory's search, is a property that raises:
\* both are read outside the try, and request() ends in that exception.
RequestRaises(tokens) ==
    /\ step = "idle"
    /\ provider = "PromptGraphContextProvider" /\ site.installed /\ site.supplied
    /\ step' = "raised" /\ budget' = tokens
    /\ UNCHANGED <<provider, site, chunks, considered, entry, package, served>>

\* search() returns something that can be iterated.
SearchReturns ==
    /\ step = "searching"
    /\ step' = "pulling"
    /\ UNCHANGED <<provider, site, budget, chunks, considered, entry, package, served>>

Finish ==
    /\ step' = "returned" /\ package' = GatheredPackage
    /\ UNCHANGED <<provider, site, budget, chunks>>

\* What the memory has delivered with content.
Delivered(length) ==
    served' = [served EXCEPT !.entries = IF length = 0 THEN @ ELSE Append(@, length)]

\* Faulty variant: only entries with content are counted.
PullUncounted(length) ==
    /\ step = "pulling" /\ considered < search_limit
    /\ step' = "measuring" /\ entry' = length
    /\ considered' = IF length = 0 THEN considered ELSE considered + 1
    /\ Delivered(length)
    /\ UNCHANGED <<provider, site, budget, chunks, package>>

\* The memory delivers one more entry to islice().
Pull(length) ==
    /\ step = "pulling" /\ considered < search_limit
    /\ step' = "measuring" /\ entry' = length
    /\ considered' = considered + 1
    /\ Delivered(length)
    /\ UNCHANGED <<provider, site, budget, chunks, package>>

\* The loop's body: an empty entry is skipped, and the first that does not fit
\* ends the loop.
Measure ==
    /\ step = "measuring"
    /\ IF entry > 0 /\ ~Fits(chunks, entry, budget)
       THEN Finish
       ELSE /\ step' = "pulling"
            /\ chunks' = IF entry = 0 THEN chunks ELSE Append(chunks, entry)
            /\ UNCHANGED <<provider, site, budget, package>>
    /\ entry' = 0
    /\ UNCHANGED <<considered, served>>

\* islice() ends: the memory has no more entries, or the limit is reached and
\* it is not asked for another.
NoMoreEntries ==
    /\ step = "pulling"
    /\ Finish
    /\ UNCHANGED <<considered, entry, served>>

\* The memory is asked, or its entry is turned into text.
CanFail ==
    \/ step \in { "searching", "measuring" }
    \/ step = "pulling" /\ considered < search_limit

\* search() raises or returns nothing that can be iterated, or the iteration
\* raises, or the text of an entry does: the same fallback for all.
Fails ==
    /\ CanFail
    /\ step' = "returned" /\ package' = DefaultPackage /\ entry' = 0
    /\ served' = [served EXCEPT !.raised = TRUE]
    /\ UNCHANGED <<provider, site, budget, chunks, considered>>

\* The caller takes the package or the exception; the next request starts afresh.
TakePackage ==
    /\ step \in { "returned", "raised" }
    /\ step' = "idle" /\ budget' = 0
    /\ chunks' = <<>> /\ considered' = 0
    /\ package' = NoPackage /\ served' = NothingServed
    /\ UNCHANGED <<provider, site, entry>>

InCall ==
    \/ SearchReturns
    \/ \E n \in Lengths : Pull(n)
    \/ Measure
    \/ NoMoreEntries
    \/ Fails

Next ==
    \/ \E b \in Budgets : Request(b) \/ RequestRaises(b)
    \/ InCall
    \/ TakePackage

\* The memory answers every call in the end, if only with one more entry.
Spec == Init /\ [][Next]_vars /\ WF_vars(InCall)
-----------------------------------------------------------------------------
\* The provenance contract (module docstring): a package says where it comes
\* from and what it holds.  Without a memory to ask, or after search(), the
\* iteration or an entry has failed, it is the default one, and nothing
\* gathered before is in it; otherwise it holds the longest run of the
\* delivered entries, empty ones skipped, that fits the budget once joined, and
\* tells its true size.  A request that raises has no package, and has asked
\* the memory for nothing.
PackageIsTruthful ==
    LET entries == served.entries
        size(n) == approx_token_count(JoinedLength(SubSeq(entries, 1, n)))
    IN  /\ step = "raised" => package = NoPackage /\ served = NothingServed
        /\ step = "returned" =>
             IF served.raised \/ ~HasSearch
             THEN package = DefaultPackage
             ELSE /\ package.source = "promptgraph"
                  /\ package.used_tokens <= budget
                  /\ \E n \in 0..Len(entries) :
                        /\ package.content = SubSeq(entries, 1, n)
                        /\ package.used_tokens = size(n)
                        /\ n < Len(entries) => size(n + 1) > budget

\* A request ends even when the iterable does not, whatever it delivers.
RequestsEnd == step \in { "searching", "pulling", "measuring" } ~> step = "returned"
=============================================================================
