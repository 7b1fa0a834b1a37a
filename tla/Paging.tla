------------------------------- MODULE Paging -------------------------------
(***************************************************************************)
(* Reading a list page by page: listMessages, webhookDeliveries and        *)
(* queueStats with PostgreSQL.  Each answers with the number of rows that  *)
(* match and with one page of them, newest first, from two statements that *)
(* share no transaction.  The reader goes on to the next page as long as   *)
(* the last answer's total says that there is one; meanwhile rows come,    *)
(* go, and change their status.                                            *)
(*                                                                         *)
(* A row is its created_at, which is taken before the row is committed:    *)
(* rows may appear in the middle of the list.  No two rows have the same.  *)
(***************************************************************************)
EXTENDS Integers, FiniteSets

CONSTANTS
    Stamps,     \* the created_at of the rows that there may be
    Limit,      \* rows on a page (1 to 100 in the code)
    MaxMoves    \* bound: rows that come or go in a behaviour

ASSUME PagingAssumption == Stamps \subseteq Nat /\ Limit \in Nat \ {0} /\ MaxMoves \in Nat

VARIABLES
    table,     \* the rows that match
    list,      \* which list is read: "none" before
    filtered,  \* by status
    pc,        \* the handler: "count", "query"; "done" at the end of the walk
    page,
    total,     \* the total of the answer under way
    seen,      \* rows that the reader has got
    moves,     \* rows that came or went
    stayed,    \* history: rows that have matched since the walk began
    left,      \* history: rows that went after the first page was read
    late       \* history: rows that came between the last count and its page

reader == <<list, filtered, pc, page, total, seen>>
walkVars == <<table, reader, moves, stayed, left, late>>

WalkInit ==
    /\ table = {} /\ list = "none" /\ filtered = FALSE /\ pc = "count" /\ page = 1
    /\ total = 0 /\ seen = {} /\ moves = 0 /\ stayed = {} /\ left = 0 /\ late = 0

-----------------------------------------------------------------------------
Open(name) ==
    /\ list = "none" /\ list' = name
    /\ filtered' \in BOOLEAN
    /\ stayed' = table
    /\ UNCHANGED <<table, pc, page, total, seen, moves, left, late>>

\* SELECT count(*)
CountRows ==
    /\ list # "none" /\ pc = "count" /\ pc' = "query"
    /\ total' = Cardinality(table)
    /\ late' = 0
    /\ UNCHANGED <<table, list, filtered, page, seen, moves, stayed, left>>

\* Mutant: pages are counted from 0.
OffsetFromZero(p) == p * Limit

Offset(p) == (p - 1) * Limit

\* ORDER BY created_at DESC LIMIT .. OFFSET ..; a row is its created_at, so no
\* two rows have the same one.
Rank(r) == Cardinality({o \in table : o >= r})

PageOf(p) == {r \in table : Rank(r) \in Offset(p) + 1 .. Offset(p) + Limit}

\* The console's pages are those of the total it was told.
LastPage == page * Limit >= total

QueryPage ==
    /\ pc = "query"
    /\ seen' = seen \cup PageOf(page)
    /\ IF LastPage THEN pc' = "done" /\ UNCHANGED page
                   ELSE pc' = "count" /\ page' = page + 1
    /\ UNCHANGED <<table, list, filtered, total, moves, stayed, left, late>>

\* The three handlers differ in their table and their filters.
Handler(name) == Open(name) \/ (list = name /\ (CountRows \/ QueryPage))

ListMessages == Handler("messages")
WebhookDeliveries == Handler("deliveries")
QueueStats == Handler("jobs")

-----------------------------------------------------------------------------
Moved == moves < MaxMoves /\ moves' = moves + 1 /\ UNCHANGED reader

\* A row is inserted, or gets the status that is asked for.
Enter(r) ==
    /\ r \notin table /\ table' = table \cup {r}
    /\ late' = IF pc = "query" THEN late + 1 ELSE late
    /\ Moved /\ UNCHANGED <<stayed, left>>

\* Messages are deleted, deliveries go with their webhook, jobs stay; any row
\* may change its status.
Exit(r) ==
    /\ r \in table /\ table' = table \ {r}
    /\ list \in {"messages", "deliveries"} \/ filtered
    /\ stayed' = stayed \ {r}
    /\ left' = IF page > 1 /\ pc # "done" THEN left + 1 ELSE left
    /\ Moved /\ UNCHANGED late

WalkNext ==
    \/ ListMessages \/ WebhookDeliveries \/ QueueStats
    \/ \E r \in Stamps : Enter(r) \/ Exit(r)

WalkSpec == WalkInit /\ [][WalkNext]_walkVars

-----------------------------------------------------------------------------
(***************************************************************************)
(* A walk over all pages misses a row that was there all the time only     *)
(* because another row went, or came between the count and the query of    *)
(* the last page, and no more rows than those.  New rows, which push the   *)
(* others to later pages, make no row disappear: without a filter a walk   *)
(* over the jobs, which are never deleted, misses only rows that were      *)
(* pushed out after the last count.                                        *)
(***************************************************************************)
WalkMissesFew ==
    pc = "done" => Cardinality(stayed \ seen) <= left + late
=============================================================================
