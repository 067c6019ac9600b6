----------------------------- MODULE AuditTrail ------------------------------
(***************************************************************************)
(* The table operation_logs, which every service of the system appends to, *)
(* and a client that walks it page by page while entries arrive.           *)
(* (internal/audit/audit.go, internal/model/operation_log.go,              *)
(* internal/handler/v1/grpc_handler.go:371-430)                            *)
(*                                                                         *)
(* A page is two statements, COUNT and an ordered SELECT with LIMIT and    *)
(* OFFSET.  The time of an entry is its writer's, and its id its INSERT's: *)
(* an entry may arrive anywhere in the order.                              *)
(***************************************************************************)
EXTENDS Integers, FiniteSets

CONSTANTS
    Ids,          \* ids of operation_logs
    Stamps,       \* values of created_at
    Actions,      \* values of action
    AnyAction,    \* the empty filter
    PageSizes,    \* sizes a client may ask for
    DefaultSize,  \* 20 in the code
    MaxSize       \* 100 in the code

ASSUME IdsAssumption == Ids \subseteq Int /\ IsFiniteSet(Ids)
ASSUME StampsAssumption == Stamps \subseteq Int
ASSUME AnyActionAssumption == AnyAction \notin Actions
ASSUME SizesAssumption == /\ PageSizes \subseteq Int
                          /\ DefaultSize \in Nat \ {0}
                          /\ MaxSize \in Nat

VARIABLES
    log,          \* operation_logs: the entries
    walk,         \* client: "none", "count", "select" or "over"
    filter,       \* client: the action it asks for
    size,         \* client: the page size it asks for
    page,         \* client: the page it asks for next
    due,          \* history: the entries that were there when the walk began
    seen,         \* client: the entries it was given
    reply         \* the reply in progress, or the last one

trailVars == <<log, walk, filter, size, page, due, seen, reply>>
asking == <<filter, size, due>>

Entries == [id : Ids, at : Stamps, action : Actions]
Blank == [total |-> 0, offset |-> 0, len |-> 0]

Matching == {e \in log : filter = AnyAction \/ e.action = filter}

\* ORDER BY created_at DESC, id DESC, and how many come before an entry.
Before(e, f) == e.at > f.at \/ (e.at = f.at /\ e.id > f.id)
Rank(e) == Cardinality({f \in Matching : Before(f, e)})

\* What List makes of the page and the size that were asked for.
PageNo == IF page <= 0 THEN 1 ELSE page
PageSize == IF size <= 0 \/ size > MaxSize THEN DefaultSize ELSE size

\* The rows of a SELECT with OFFSET and LIMIT, of n that match.
Between(low, x, high) == IF x < low THEN low ELSE IF x > high THEN high ELSE x
RowCount(n, offset, limit) == Between(0, n - offset, limit)

\* Mistake: pages are counted from 0.
OffsetFromZero == PageNo * PageSize
Offset == (PageNo - 1) * PageSize

TrailInit ==
    /\ log \in SUBSET Entries
    /\ \A e, f \in log : e.id = f.id => e = f
    /\ walk = "none"
    /\ filter = AnyAction
    /\ size = 0
    /\ page = 0
    /\ due = {}
    /\ seen = {}
    /\ reply = Blank

-----------------------------------------------------------------------------
\* audit.Record: INSERT, for this service's own acts and for RecordLog.
Record(e) ==
    /\ \A f \in log : f.id # e.id
    /\ log' = log \cup {e}
    /\ UNCHANGED <<walk, filter, size, page, due, seen, reply>>

StartWalk(a, n) ==
    /\ walk = "none"
    /\ walk' = "count"
    /\ filter' = a
    /\ size' = n
    /\ due' = {e \in log : a = AnyAction \/ e.action = a}
    /\ UNCHANGED <<log, page, seen, reply>>

\* Mistake: COUNT before the filters are set.
CountAll ==
    /\ walk = "count"
    /\ walk' = "select"
    /\ reply' = [Blank EXCEPT !.total = Cardinality(log)]
    /\ UNCHANGED <<log, page, seen, asking>>

Count ==
    /\ walk = "count"
    /\ walk' = "select"
    /\ reply' = [Blank EXCEPT !.total = Cardinality(Matching)]
    /\ UNCHANGED <<log, page, seen, asking>>

\* The walk goes on until a page comes back empty.
Select ==
    LET rows == RowCount(Cardinality(Matching), Offset, PageSize)
    IN  /\ walk = "select"
        /\ walk' = IF rows = 0 THEN "over" ELSE "count"
        /\ reply' = [reply EXCEPT !.offset = Offset, !.len = rows]
        /\ seen' = seen \cup {e \in Matching : Offset <= Rank(e) /\ Rank(e) < Offset + PageSize}
        /\ page' = PageNo + 1
        /\ UNCHANGED <<log, asking>>

\* A page that failed is asked for again.
FailPage ==
    /\ walk = "select"
    /\ walk' = "count"
    /\ reply' = Blank
    /\ UNCHANGED <<log, page, seen, asking>>

-----------------------------------------------------------------------------
TrailNext ==
    \/ \E e \in Entries : Record(e)
    \/ \E a \in Actions \cup {AnyAction}, n \in PageSizes : StartWalk(a, n)
    \/ Count \/ Select \/ FailPage

TrailSpec == TrailInit /\ [][TrailNext]_trailVars

-----------------------------------------------------------------------------
TrailTypeOK ==
    /\ log \subseteq Entries
    /\ walk \in {"none", "count", "select", "over"}
    /\ filter \in Actions \cup {AnyAction}
    /\ size \in PageSizes \cup {0}
    /\ page \in Nat
    /\ due \subseteq log
    /\ seen \subseteq log
    /\ reply \in [total : Nat, offset : Nat, len : Nat]

\* A walk that has come to its end was given every entry that was there when it
\* began, whatever was appended meanwhile, and wherever in the order it went.
WalkMissesNothing == walk = "over" => due \subseteq seen

\* A page that is not full is the last: the total that came with it promises
\* nothing more, although entries may have arrived since it was counted.
ShortPageKeepsPromise ==
    walk \in {"count", "over"} /\ reply # Blank /\ reply.len < PageSize
    => reply.total <= reply.offset + reply.len

=============================================================================
