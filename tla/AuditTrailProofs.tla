--------------------------- MODULE AuditTrailProofs --------------------------
(***************************************************************************)
(* Proofs about AuditTrail, for a table and pages of any size.             *)
(*                                                                         *)
(* The walk is correct for two reasons that the inductive invariant states *)
(* apart.  An entry only moves down the order, because rows are added and  *)
(* never taken away: one that was not given yet is still on a later page.  *)
(* And a page is empty only when fewer entries match than its offset.      *)
(***************************************************************************)
EXTENDS AuditTrail, FiniteSetTheorems, TLAPS

LogIsKeyed == \A e, f \in log : e.id = f.id => e = f
DueMatches == walk # "none" => due \subseteq Matching
Unwalked == walk = "none" => page = 0 /\ size = 0 /\ due = {} /\ reply = Blank
NotYetSeenIsAhead ==
    walk \in {"count", "select"} => \A e \in due : e \in seen \/ Rank(e) >= Offset
CountWasTrue == walk = "select" => reply.total <= Cardinality(Matching)

TrailInv == /\ TrailTypeOK
            /\ LogIsKeyed
            /\ Unwalked
            /\ DueMatches
            /\ NotYetSeenIsAhead
            /\ CountWasTrue
            /\ WalkMissesNothing
            /\ ShortPageKeepsPromise

-----------------------------------------------------------------------------
\* The log is finite, whatever its entries are made of: ids are never used twice.
LEMMA KeyedIsFinite ==
    ASSUME NEW L, L \subseteq Entries, \A e, f \in L : e.id = f.id => e = f
    PROVE  IsFiniteSet(L)
<1> DEFINE f == [e \in L |-> e.id]
<1>1. f \in Injection(L, Ids)
    BY DEF Entries, Injection, IsInjective
<1> HIDE DEF f
<1> QED
    BY <1>1, IdsAssumption, FS_Injection

LEMMA MatchingIsFinite ==
    ASSUME log \subseteq Entries, LogIsKeyed
    PROVE  /\ IsFiniteSet(Matching)
           /\ Cardinality(Matching) \in Nat
           /\ Cardinality(log) \in Nat
           /\ \A e \in Matching : Rank(e) \in Nat /\ Rank(e) < Cardinality(Matching)
<1>1. IsFiniteSet(log) /\ Cardinality(log) \in Nat
    BY KeyedIsFinite, FS_CardinalityType DEF LogIsKeyed
<1>2. Matching \subseteq log
    BY DEF Matching
<1>3. IsFiniteSet(Matching) /\ Cardinality(Matching) \in Nat
    BY <1>1, <1>2, FS_Subset, FS_CardinalityType
<1>4. ASSUME NEW e \in Matching PROVE Rank(e) \in Nat /\ Rank(e) < Cardinality(Matching)
    <2> DEFINE F == {f \in Matching : Before(f, e)}
    <2>1. F \subseteq Matching
        OBVIOUS
    <2>2. e.at \in Int /\ e.id \in Int
        BY <1>2, StampsAssumption, IdsAssumption DEF Entries
    <2>3. e \notin F
        BY <2>2 DEF Before
    <2>4. Cardinality(F) <= Cardinality(Matching) /\ Cardinality(F) # Cardinality(Matching)
        BY <1>3, <2>1, <2>3, FS_Subset
    <2>5. Cardinality(F) \in Nat
        BY <1>3, <2>1, FS_Subset, FS_CardinalityType
    <2> QED
        BY <1>3, <2>4, <2>5 DEF Rank
<1> QED
    BY <1>1, <1>3, <1>4

LEMMA PagesArePositive ==
    ASSUME TrailTypeOK
    PROVE  PageNo \in Nat \ {0} /\ PageSize \in Nat \ {0} /\ Offset \in Nat /\ page \in Nat
<1>1. size \in Int /\ page \in Nat
    BY SizesAssumption DEF TrailTypeOK
<1>2. PageNo \in Nat \ {0}
    BY <1>1 DEF PageNo
<1>3. PageSize \in Nat \ {0}
    BY <1>1, SizesAssumption DEF PageSize
<1> QED
    BY <1>1, <1>2, <1>3 DEF Offset

LEMMA RowsOfAPage ==
    ASSUME NEW n \in Nat, NEW o \in Nat, NEW l \in Nat \ {0}
    PROVE  /\ RowCount(n, o, l) \in Nat
           /\ RowCount(n, o, l) = 0 => n <= o
           /\ RowCount(n, o, l) < l => n <= o + RowCount(n, o, l)
<1>1. CASE n - o < 0
    BY <1>1 DEF RowCount, Between
<1>2. CASE n - o >= 0 /\ n - o > l
    BY <1>2 DEF RowCount, Between
<1>3. CASE n - o >= 0 /\ n - o <= l
    BY <1>3 DEF RowCount, Between
<1> QED
    BY <1>1, <1>2, <1>3

-----------------------------------------------------------------------------
LEMMA TrailInitInv == TrailInit => TrailInv
<1> SUFFICES ASSUME TrailInit PROVE TrailInv
    OBVIOUS
<1>1. TrailTypeOK
    BY DEF TrailInit, TrailTypeOK, Blank
<1>2. LogIsKeyed /\ Unwalked /\ DueMatches
    BY DEF TrailInit, LogIsKeyed, Unwalked, DueMatches
<1>3. NotYetSeenIsAhead /\ CountWasTrue /\ WalkMissesNothing /\ ShortPageKeepsPromise
    BY DEF TrailInit, NotYetSeenIsAhead, CountWasTrue, WalkMissesNothing, ShortPageKeepsPromise
<1> QED
    BY <1>1, <1>2, <1>3 DEF TrailInv

\* Appending moves an entry that matches further down the order, never up.
LEMMA RecordKeeps == ASSUME TrailInv, NEW e \in Entries, Record(e) PROVE TrailInv'
<1>1. TrailTypeOK'
    BY DEF TrailInv, TrailTypeOK, Record
<1>2. LogIsKeyed'
    BY DEF TrailInv, LogIsKeyed, Record
<1>3. Matching \subseteq Matching'
    BY DEF Record, Matching
<1>4. IsFiniteSet(Matching')
    <2>1. log' \subseteq Entries /\ \A d, f \in log' : d.id = f.id => d = f
        BY <1>1, <1>2 DEF TrailTypeOK, LogIsKeyed
    <2>2. IsFiniteSet(log')
        BY <2>1, KeyedIsFinite
    <2>3. Matching' \subseteq log'
        BY DEF Matching
    <2> QED
        BY <2>2, <2>3, FS_Subset
<1>5. Cardinality(Matching) <= Cardinality(Matching') /\ Cardinality(Matching') \in Nat
    BY <1>3, <1>4, FS_Subset, FS_CardinalityType
<1>6. ASSUME NEW d PROVE Rank(d) <= Rank(d)' /\ Rank(d) \in Int /\ Rank(d)' \in Int
    <2> DEFINE F == {f \in Matching : Before(f, d)}
               G == {f \in Matching' : Before(f, d)}
    <2>1. F \subseteq G /\ G \subseteq Matching' /\ F \subseteq Matching'
        BY <1>3
    <2>2. IsFiniteSet(F) /\ IsFiniteSet(G) /\ Cardinality(F) <= Cardinality(G)
        BY <1>4, <2>1, FS_Subset
    <2>3. Cardinality(F) \in Int /\ Cardinality(G) \in Int
        BY <2>2, FS_CardinalityType
    <2> QED
        BY <2>2, <2>3 DEF Rank, Before
<1>7. Cardinality(Matching) \in Nat /\ reply.total \in Nat /\ Offset \in Nat
    BY MatchingIsFinite, PagesArePositive DEF TrailInv, TrailTypeOK
<1>8. Unwalked' /\ WalkMissesNothing'
    BY DEF TrailInv, Unwalked, WalkMissesNothing, Record
<1>9. DueMatches'
    BY <1>3 DEF TrailInv, DueMatches, Record
<1>10. NotYetSeenIsAhead'
    <2> SUFFICES ASSUME walk \in {"count", "select"}, NEW d \in due, d \notin seen
                 PROVE  Rank(d)' >= Offset
        BY DEF NotYetSeenIsAhead, Record, Offset, PageNo, PageSize
    <2>1. Rank(d) >= Offset
        BY DEF TrailInv, NotYetSeenIsAhead
    <2> QED
        BY <1>6, <1>7, <2>1
<1>11. CountWasTrue'
    BY <1>5, <1>7 DEF TrailInv, CountWasTrue, Record
<1>12. ShortPageKeepsPromise'
    BY DEF TrailInv, ShortPageKeepsPromise, Record, PageSize
<1> QED
    BY <1>1, <1>2, <1>8, <1>9, <1>10, <1>11, <1>12 DEF TrailInv

LEMMA StartWalkKeeps ==
    ASSUME TrailInv, NEW a \in Actions \cup {AnyAction}, NEW n \in PageSizes, StartWalk(a, n)
    PROVE  TrailInv'
<1>1. walk = "none" /\ walk' = "count" /\ page = 0 /\ page' = 0 /\ reply' = Blank /\ reply = Blank
    BY DEF TrailInv, Unwalked, StartWalk
<1>2. TrailTypeOK'
    BY DEF TrailInv, TrailTypeOK, StartWalk
<1>3. LogIsKeyed'
    BY DEF TrailInv, LogIsKeyed, StartWalk
<1>4. Unwalked' /\ CountWasTrue' /\ WalkMissesNothing' /\ ShortPageKeepsPromise'
    BY <1>1 DEF Unwalked, CountWasTrue, WalkMissesNothing, ShortPageKeepsPromise
<1>5. due' = Matching'
    BY DEF StartWalk, Matching
<1>6. DueMatches'
    BY <1>5 DEF DueMatches
<1>7. Offset' = 0
    <2>1. PageNo' = 1 /\ PageSize' \in Nat
        BY <1>1, <1>2, SizesAssumption DEF PageNo, PageSize, TrailTypeOK
    <2>2. \A k \in Nat : (1 - 1) * k = 0
        OBVIOUS
    <2>3. (1 - 1) * PageSize' = 0
        BY <2>1, <2>2, Zenon
    <2> QED
        BY <2>1, <2>3, Zenon DEF Offset
<1>8. NotYetSeenIsAhead'
    <2> SUFFICES ASSUME NEW e \in due' PROVE Rank(e)' >= 0
        BY <1>7 DEF NotYetSeenIsAhead
    <2>1. log' \subseteq Entries /\ \A d, f \in log' : d.id = f.id => d = f
        BY <1>2, <1>3 DEF TrailTypeOK, LogIsKeyed
    <2>2. {f \in Matching' : Before(f, e)} \subseteq log'
        BY DEF Matching
    <2>3. Cardinality({f \in Matching' : Before(f, e)}) \in Nat
        BY <2>1, <2>2, KeyedIsFinite, FS_Subset, FS_CardinalityType
    <2> QED
        BY <2>3 DEF Rank, Before
<1> QED
    BY <1>2, <1>3, <1>4, <1>6, <1>8 DEF TrailInv

LEMMA CountKeeps == ASSUME TrailInv, Count PROVE TrailInv'
<1>1. Cardinality(Matching) \in Nat
    BY MatchingIsFinite DEF TrailInv, TrailTypeOK
<1>2. TrailTypeOK'
    BY <1>1 DEF TrailInv, TrailTypeOK, Count, asking, Blank
<1>3. LogIsKeyed' /\ Unwalked' /\ DueMatches' /\ WalkMissesNothing' /\ ShortPageKeepsPromise'
    BY DEF TrailInv, LogIsKeyed, Unwalked, DueMatches, WalkMissesNothing,
           ShortPageKeepsPromise, Count, asking, Matching
<1>4. NotYetSeenIsAhead'
    BY DEF TrailInv, NotYetSeenIsAhead, Count, asking, Matching, Rank, Offset, PageNo, PageSize
<1>5. CountWasTrue'
    <2>1. Matching' = Matching
        BY DEF Count, asking, Matching
    <2>2. reply'.total = Cardinality(Matching)
        BY DEF Count, Blank
    <2> QED
        BY <1>1, <2>1, <2>2 DEF CountWasTrue
<1> QED
    BY <1>2, <1>3, <1>4, <1>5 DEF TrailInv

LEMMA FailPageKeeps == ASSUME TrailInv, FailPage PROVE TrailInv'
<1>1. TrailTypeOK'
    BY DEF TrailInv, TrailTypeOK, FailPage, asking, Blank
<1>2. LogIsKeyed' /\ Unwalked' /\ DueMatches' /\ CountWasTrue' /\ WalkMissesNothing'
    BY DEF TrailInv, LogIsKeyed, Unwalked, DueMatches, CountWasTrue, WalkMissesNothing,
           FailPage, asking, Matching
<1>3. ShortPageKeepsPromise'
    BY DEF ShortPageKeepsPromise, FailPage
<1>4. NotYetSeenIsAhead'
    BY DEF TrailInv, NotYetSeenIsAhead, FailPage, asking, Matching, Rank, Offset, PageNo, PageSize
<1> QED
    BY <1>1, <1>2, <1>3, <1>4 DEF TrailInv

LEMMA SelectKeeps == ASSUME TrailInv, Select PROVE TrailInv'
<1> DEFINE rows == RowCount(Cardinality(Matching), Offset, PageSize)
<1>1. /\ PageNo \in Nat \ {0} /\ PageSize \in Nat \ {0} /\ Offset \in Nat
      /\ Cardinality(Matching) \in Nat
      /\ \A e \in Matching : Rank(e) \in Nat /\ Rank(e) < Cardinality(Matching)
    BY PagesArePositive, MatchingIsFinite DEF TrailInv, TrailTypeOK
<1>2. /\ rows \in Nat
      /\ rows = 0 => Cardinality(Matching) <= Offset
      /\ rows < PageSize => Cardinality(Matching) <= Offset + rows
    BY <1>1, RowsOfAPage
<1> HIDE DEF rows
<1>3. /\ walk = "select"
      /\ walk' = IF rows = 0 THEN "over" ELSE "count"
      /\ reply' = [reply EXCEPT !.offset = Offset, !.len = rows]
      /\ seen' = seen \cup {e \in Matching : Offset <= Rank(e) /\ Rank(e) < Offset + PageSize}
      /\ page' = PageNo + 1
      /\ UNCHANGED <<log, filter, size, due>>
    BY DEF Select, asking, rows
<1>4. TrailTypeOK'
    <2>1. seen' \subseteq log
        BY <1>3 DEF TrailInv, TrailTypeOK, Matching
    <2>2. reply' \in [total : Nat, offset : Nat, len : Nat]
        BY <1>1, <1>2, <1>3 DEF TrailInv, TrailTypeOK
    <2>3. page' \in Nat
        BY <1>1, <1>3
    <2>4. walk' \in {"count", "over"}
        BY <1>3
    <2> QED
        BY <1>3, <2>1, <2>2, <2>3, <2>4 DEF TrailInv, TrailTypeOK
<1>5. Matching' = Matching /\ PageSize' = PageSize
    BY <1>3 DEF Matching, PageSize
<1>6. \A e : Rank(e)' = Rank(e)
    BY <1>5 DEF Rank, Before
<1>7. Offset' = Offset + PageSize
    <2>1. PageNo' = PageNo + 1
        BY <1>1, <1>3 DEF PageNo
    <2>2. Offset' = PageNo * PageSize
        BY <1>1, <1>5, <2>1 DEF Offset
    <2> QED
        BY <1>1, <2>2 DEF Offset
<1>8. LogIsKeyed' /\ Unwalked' /\ CountWasTrue'
    BY <1>3 DEF TrailInv, LogIsKeyed, Unwalked, CountWasTrue
<1>9. due \subseteq Matching /\ \A e \in due : e \in seen \/ Rank(e) >= Offset
    BY <1>3 DEF TrailInv, DueMatches, NotYetSeenIsAhead
<1>10. DueMatches'
    BY <1>3, <1>5, <1>9 DEF DueMatches
<1>11. NotYetSeenIsAhead'
    <2> SUFFICES ASSUME NEW e \in due, e \notin seen' PROVE Rank(e) >= Offset + PageSize
        BY <1>3, <1>6, <1>7 DEF NotYetSeenIsAhead
    <2> QED
        BY <1>1, <1>3, <1>9
<1>12. WalkMissesNothing'
    <2> SUFFICES ASSUME rows = 0, NEW e \in due PROVE e \in seen'
        BY <1>3 DEF WalkMissesNothing
    <2>1. Rank(e) < Offset
        BY <1>1, <1>2, <1>9
    <2> QED
        BY <1>1, <1>3, <1>9, <2>1
<1>13. ShortPageKeepsPromise'
    <2> SUFFICES ASSUME rows < PageSize PROVE reply.total <= Offset + rows
        BY <1>3, <1>5 DEF ShortPageKeepsPromise, TrailInv, TrailTypeOK
    <2>1. reply.total \in Nat /\ reply.total <= Cardinality(Matching)
        BY <1>3 DEF TrailInv, TrailTypeOK, CountWasTrue
    <2> QED
        BY <1>1, <1>2, <2>1
<1> QED
    BY <1>4, <1>8, <1>10, <1>11, <1>12, <1>13 DEF TrailInv

LEMMA TrailStep == TrailInv /\ [TrailNext]_trailVars => TrailInv'
<1> SUFFICES ASSUME TrailInv, [TrailNext]_trailVars PROVE TrailInv'
    OBVIOUS
<1>1. CASE UNCHANGED trailVars
    <2>1. TrailTypeOK' /\ LogIsKeyed' /\ Unwalked' /\ WalkMissesNothing'
        BY <1>1 DEF trailVars, TrailInv, TrailTypeOK, LogIsKeyed, Unwalked, WalkMissesNothing
    <2>2. DueMatches' /\ CountWasTrue' /\ ShortPageKeepsPromise'
        BY <1>1 DEF trailVars, TrailInv, DueMatches, CountWasTrue, ShortPageKeepsPromise,
                    Matching, PageSize
    <2>3. NotYetSeenIsAhead'
        BY <1>1 DEF trailVars, TrailInv, NotYetSeenIsAhead, Matching, Rank, Offset, PageNo, PageSize
    <2> QED
        BY <2>1, <2>2, <2>3 DEF TrailInv
<1> QED
    BY <1>1, RecordKeeps, StartWalkKeeps, CountKeeps, SelectKeeps, FailPageKeeps DEF TrailNext

\* However the table grows during a walk, the walk gives every entry that was there
\* when it began.  (internal/audit/audit.go:28-56)
THEOREM TrailWalkComplete == TrailSpec => []WalkMissesNothing
<1>1. TrailInv => WalkMissesNothing
    BY DEF TrailInv
<1> QED
    BY <1>1, TrailInitInv, TrailStep, PTL DEF TrailSpec
=============================================================================
