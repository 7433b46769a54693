---------------------------- MODULE CatalogProofs -----------------------------
(***************************************************************************)
(* What holds of a resource and its session for every number of threads,   *)
(* keys, values, page sizes and lost hosts: the types, the Clusters that   *)
(* are open, that a request that was taken on finds the session, that      *)
(* created rows stay and that a walk through the pages misses no row.      *)
(***************************************************************************)
EXTENDS Catalog, TLAPS

------------------------------------------------------------------------------
\* The session.

\* Between the two steps of connect a Cluster is open that no global names, and the
\* poller is there only while there is no session.
SessionInv ==
  /\ SessionTypeOK
  /\ ready = session
  /\ poller \in {"connect", "session"} => ~session
  /\ session \/ poller = "session" => open = misses + 1
  /\ ~session /\ poller # "session" => open = misses

\* A process starts without a session, and no Cluster is open.
LEMMA SessionStart == SessionInit => SessionInv
<1> SUFFICES ASSUME SessionInit PROVE SessionInv
    OBVIOUS
<1> USE SessionSettings DEF SessionInit
<1>1. SessionTypeOK
      BY DEF SessionTypeOK, PollerSteps
<1>2. ready = session /\ poller \notin {"connect", "session"}
      OBVIOUS
<1>3. open = misses /\ ~session
      OBVIOUS
<1> QED
    BY <1>1, <1>2, <1>3 DEF SessionInv

\* Every step of the poller, the hosts and the schema keeps it.
LEMMA SessionStep == SessionInv /\ [SessionNext]_sessionVars => SessionInv'
<1> SUFFICES ASSUME SessionInv, [SessionNext]_sessionVars PROVE SessionInv'
    OBVIOUS
<1> USE DEF SessionInv, SessionTypeOK, PollerSteps, hostVars, pollVars
<1>1. CASE HostsChange
      BY <1>1 DEF HostsChange
<1>2. CASE CreateKeyspace
      BY <1>2 DEF CreateKeyspace
<1>3. CASE StartPoller
      BY <1>3 DEF StartPoller
<1>4. CASE Poll
      BY <1>4 DEF Poll
<1>5. CASE OpenCluster
  <2>1. CASE up
        BY <1>5, <2>1 DEF OpenCluster
  <2>2. CASE ~up
        BY <1>5, <2>2 DEF OpenCluster, AttemptFailed
  <2> QED
      BY <2>1, <2>2
<1>6. CASE OpenSession
  <2>1. CASE up /\ keyspace /\ LevelKnown
        BY <1>6, <2>1 DEF OpenSession
  <2>2. CASE ~(up /\ keyspace /\ LevelKnown)
        BY <1>6, <2>2 DEF OpenSession, AttemptFailed
  <2> QED
      BY <2>1, <2>2
<1>7. CASE UNCHANGED sessionVars
      BY <1>7 DEF sessionVars
<1> QED
    BY <1>1, <1>2, <1>3, <1>4, <1>5, <1>6, <1>7 DEF SessionNext, PollerStep

\* A session is never given up.
LEMMA SessionStays == [SessionNext]_sessionVars /\ session => session'
BY DEF SessionNext, PollerStep, HostsChange, CreateKeyspace, StartPoller, Poll,
       OpenCluster, OpenSession, hostVars, pollVars, sessionVars
------------------------------------------------------------------------------
\* Types, created rows and the session of requests that were taken on.

\* An update names the column it sets.
Request ==
  {r \in [op : Operations, key : Keys \cup {0}, value : Values \cup {Null, Omitted}] :
     r.op = "update" => r.value # Omitted}

Walks == [filter : Values \cup {NoFilter}, cursor : Keys \cup {0}, listed : Seq(Keys),
          over : BOOLEAN, stayed : SUBSET Keys]

Pages == [size : Nat, pos : Keys \cup {0}, rows : Seq(Keys)]

RowsTyped == table \in [Keys -> Row] /\ created \subseteq Keys

RequestsTyped == req \in [Workers -> Request]

WalkTyped == walk \in Walks /\ page \in Pages /\ Len(page.rows) <= page.size

\* A created row has its marker, which no UPDATE takes away.
CreatedMarked == \A k \in created : table[k].marker

TypeInv == RowsTyped /\ RequestsTyped /\ WalkTyped /\ CreatedMarked

\* The table is empty, and nobody asks for anything.
LEMMA TypeStart == ResourceInit => TypeInv
<1> SUFFICES ASSUME ResourceInit PROVE TypeInv
    OBVIOUS
<1> USE DEF ResourceInit
<1>1. RowsTyped /\ CreatedMarked
      BY DEF RowsTyped, CreatedMarked, Row, NoRow
<1>2. RequestsTyped
      BY DEF RequestsTyped, Request, NoReq, Operations
<1>3. WalkTyped
      BY DEF WalkTyped, Walks, Pages, NoWalk, NoPage, NoFilter
<1> QED
    BY <1>1, <1>2, <1>3 DEF TypeInv

\* Serving one request leaves those of the other threads alone.
LEMMA AnswerKeepsType ==
  ASSUME RequestsTyped, NEW w \in Workers, Answer(w)
  PROVE  RequestsTyped'
BY DEF RequestsTyped, Answer, Request, NoReq, Operations

\* A request that was taken on is one of its kind.
LEMMA AcceptKeepsType ==
  ASSUME RequestsTyped, NEW w \in Workers, NEW addressable, addressable \subseteq Keys,
         NEW whole \in BOOLEAN, Accept(w, addressable, whole)
  PROVE  RequestsTyped'
<1>1. PICK r : req' = [req EXCEPT ![w] = r]
                /\ \/ \E k \in Keys \cup {0}, v \in Values \cup {Null, Omitted} :
                         r = [op |-> "create", key |-> k, value |-> v]
                   \/ \E k \in Keys, v \in Values \cup {Null} :
                         r = [op |-> "update", key |-> k, value |-> v]
                   \/ \E k \in Keys : r = [op |-> "destroy", key |-> k, value |-> Null]
      BY DEF Accept
<1>2. r \in Request
      BY <1>1, ColumnValues DEF Request, Operations
<1> QED
    BY <1>1, <1>2 DEF RequestsTyped

\* A statement leaves rows, and each created one with its marker; of a walk it only
\* forgets rows that no longer match.
LEMMA ChangeKeepsType ==
  ASSUME TypeInv, NEW w \in Workers, Statement(w),
         NEW answered, answered \subseteq {req[w].key}, Changed(req[w], answered)
  PROVE  /\ RowsTyped' /\ CreatedMarked'
         /\ walk' \in Walks
         /\ walk' = [walk EXCEPT !.stayed = {k \in walk.stayed : Matches(table', k, walk.filter)}]
<1> USE DEF TypeInv, RowsTyped, CreatedMarked
<1> DEFINE r == req[w]
<1>1. r \in Request /\ r.key \in Keys /\ r.op \in {"create", "update", "destroy"}
      BY DEF RequestsTyped, Request, Operations, Statement, Serves
<1>2. walk' = [walk EXCEPT !.stayed = {k \in walk.stayed : Matches(table', k, walk.filter)}]
      BY DEF Changed
<1>3. walk' \in Walks
      BY <1>2 DEF WalkTyped, Walks
<1>4. CASE r.op = "create"
  <2>1. table' = Inserted(r) /\ created' = created \cup answered
        BY <1>4 DEF Changed, Effect
  <2>2. Written(table[r.key].value, r.value) \in Values \cup {Null}
        BY <1>1 DEF Written, Request, Row
  <2>3. table' = [table EXCEPT ![r.key] =
                    [marker |-> TRUE, value |-> Written(table[r.key].value, r.value)]]
        BY <1>1, <2>1 DEF Inserted
  <2>4. RowsTyped' /\ CreatedMarked'
        BY <1>1, <2>1, <2>2, <2>3 DEF Row
  <2> QED
      BY <1>2, <1>3, <2>4
<1>5. CASE r.op = "update"
  <2>1. table' = Updated(r) /\ created' = created
        BY <1>5 DEF Changed, Effect
  <2>2. r.value \in Values \cup {Null}
        BY <1>1, <1>5 DEF Request
  <2>3. RowsTyped' /\ CreatedMarked'
        BY <1>1, <2>1, <2>2 DEF Updated, Row
  <2> QED
      BY <1>2, <1>3, <2>3
<1>6. CASE r.op = "destroy"
  <2>1. table' = Deleted(r) /\ created' = created \ {r.key}
        BY <1>6 DEF Changed, Effect
  <2>2. RowsTyped' /\ CreatedMarked'
        BY <1>1, <2>1 DEF Deleted, Row, NoRow
  <2> QED
      BY <1>2, <1>3, <2>2
<1> QED
    BY <1>1, <1>4, <1>5, <1>6
\* Every step of the session, the walk and the changes keeps the types and the markers.
LEMMA TypeStep == TypeInv /\ [Next]_vars => TypeInv'
<1> SUFFICES ASSUME TypeInv, [Next]_vars PROVE TypeInv'
    OBVIOUS
<1> USE DEF TypeInv, RowsTyped, RequestsTyped, WalkTyped, CreatedMarked
<1>1. CASE StartWalk
  <2>1. PICK filter \in Values \cup {NoFilter} :
          walk' = [NoWalk EXCEPT !.filter = filter, !.over = FALSE,
                                 !.stayed = {k \in Keys : Matches(table, k, filter)}]
        BY <1>1 DEF StartWalk
  <2>2. NoWalk \in Walks
        BY DEF NoWalk, Walks
  <2>3. walk' \in Walks
        BY <2>1, <2>2 DEF Walks
  <2> QED
      BY <1>1, <2>3 DEF StartWalk
<1>2. CASE AskPage
  <2>1. PICK size \in PageSizes : page' = [NoPage EXCEPT !.size = size, !.pos = walk.cursor]
        BY <1>2 DEF AskPage
  <2>2. page' = [size |-> size, pos |-> walk.cursor, rows |-> <<>>]
        BY <2>1 DEF NoPage
  <2>3. size \in Nat /\ walk.cursor \in Keys \cup {0}
        BY PagesHoldRows DEF Walks
  <2>4. page' \in Pages /\ Len(page'.rows) <= page'.size
        BY <2>2, <2>3 DEF Pages
  <2> QED
      BY <1>2, <2>4 DEF AskPage
<1>3. CASE ScanRow
  <2>1. PICK next \in Keys : page' = [page EXCEPT !.pos = next,
                               !.rows = IF Matches(table, next, walk.filter)
                                          THEN Append(@, next) ELSE @]
        BY <1>3 DEF ScanRow
  <2>2. Len(page.rows) < page.size
        BY <1>3 DEF ScanRow
  <2>3. Append(page.rows, next) \in Seq(Keys) /\ Len(Append(page.rows, next)) = Len(page.rows) + 1
        BY DEF Pages
  <2>4. page' = [size |-> page.size, pos |-> next,
                 rows |-> IF Matches(table, next, walk.filter)
                            THEN Append(page.rows, next) ELSE page.rows]
        BY <2>1 DEF Pages
  <2>5. page.size \in Nat /\ page.rows \in Seq(Keys)
        BY DEF Pages
  <2>6. page' \in Pages /\ Len(page'.rows) <= page'.size
        BY <2>2, <2>3, <2>4, <2>5 DEF Pages
  <2> QED
      BY <1>3, <2>6 DEF ScanRow
<1>4. CASE EndPage
  <2>1. PICK over \in BOOLEAN :
          walk' = [walk EXCEPT !.listed = @ \o page.rows, !.over = over,
                               !.cursor = IF over THEN 0 ELSE page.pos]
        BY <1>4 DEF EndPage, Cursor
  <2>2. page.pos \in Keys \cup {0} /\ walk.listed \o page.rows \in Seq(Keys)
        BY DEF Walks, Pages
  <2>3. walk' \in Walks
        BY <2>1, <2>2 DEF Walks
  <2>4. page' \in Pages /\ Len(page'.rows) <= page'.size
        BY <1>4 DEF EndPage, Pages, NoPage
  <2> QED
      BY <1>4, <2>3, <2>4 DEF EndPage
<1>5. CASE FailPage
      BY <1>5 DEF FailPage, Pages, NoPage
<1>6. ASSUME NEW w \in Workers, Write(w) \/ WriteUnanswered(w)
      PROVE  TypeInv'
  <2>1. PICK answered \in SUBSET {req[w].key} : Changed(req[w], answered)
        BY <1>6 DEF Write, WriteUnanswered
  <2>2. Statement(w) /\ Answer(w) /\ page' = page
        BY <1>6 DEF Write, WriteUnanswered
  <2>3. RowsTyped' /\ CreatedMarked' /\ walk' \in Walks
        BY <2>1, <2>2, ChangeKeepsType
  <2>4. RequestsTyped'
        BY <2>2, AnswerKeepsType
  <2> QED
      BY <2>2, <2>3, <2>4
<1>7. ASSUME NEW w \in Workers, FailWrite(w)
      PROVE  TypeInv'
      BY <1>7, AnswerKeepsType DEF FailWrite
<1>8. ASSUME NEW w \in Workers, NEW addressable \in SUBSET Keys, NEW whole \in BOOLEAN,
             Accept(w, addressable, whole)
      PROVE  TypeInv'
      BY <1>8, AcceptKeepsType DEF Accept
<1>9. CASE UNCHANGED resourceVars
      BY <1>9 DEF resourceVars
<1> QED
    BY <1>1, <1>2, <1>3, <1>4, <1>5, <1>6, <1>7, <1>8, <1>9, DashedKeys
    DEF Next, Session, ListRequest, ChangeWork, OrdersRequest, ProductsRequest,
        InventoryRequest, ShipmentsRequest, ReportsRequest, vars
------------------------------------------------------------------------------
\* Requests that were taken on.

\* A request is taken on only with the session there, which is never given up.
LEMMA TakenOnStep ==
  ASSUME TypeInv, ReadyFindsSession, [Next]_vars
  PROVE  ReadyFindsSession'
<1> USE DEF TypeInv, ReadyFindsSession
<1>1. [SessionNext]_sessionVars
      BY DEF Next, Session, ListRequest, ChangeWork, OrdersRequest, ProductsRequest,
        InventoryRequest, ShipmentsRequest, ReportsRequest, vars, StartWalk, AskPage, ScanRow,
        EndPage, FailPage, Accept, Write, WriteUnanswered, FailWrite
<1>2. CASE session
      BY <1>1, <1>2, SessionStays
<1>3. CASE ~session
  <2>1. page = NoPage /\ \A w \in Workers : Serves(w, "none")
        BY <1>3
  <2>2. ~IsReady
        BY <1>3 DEF IsReady
  <2>3. page' = page /\ req' = req
        BY <1>3, <2>1, <2>2 DEF Next, Session, ListRequest, ChangeWork, OrdersRequest,
          ProductsRequest, InventoryRequest, ShipmentsRequest, ReportsRequest, vars,
          resourceVars, StartWalk, AskPage, ScanRow, EndPage, FailPage, Accept, Write,
          WriteUnanswered, FailWrite, Statement
  <2> QED
      BY <2>1, <2>3 DEF Serves
<1> QED
    BY <1>2, <1>3

------------------------------------------------------------------------------
\* The walk.

Scanning == page # NoPage

\* WalkIsComplete is not inductive: what was listed lies up to the cursor, the rows of
\* the page between the cursor and the row it was read up to, and a row that matched
\* all along is in one of them as soon as the walk is past it.
WalkInv ==
  /\ walk.over => ~Scanning
  /\ Scanning => walk.cursor <= page.pos
  /\ IsInjective(walk.listed)
  /\ IsInjective(page.rows)
  /\ ~walk.over => \A i \in DOMAIN walk.listed : walk.listed[i] <= walk.cursor
  /\ Scanning => \A i \in DOMAIN page.rows :
                  walk.cursor < page.rows[i] /\ page.rows[i] <= page.pos
  /\ \A k \in walk.stayed :
        /\ ~walk.over => Matches(table, k, walk.filter)
        /\ walk.over \/ k <= walk.cursor => k \in ToSet(walk.listed)
        /\ Scanning /\ walk.cursor < k /\ k <= page.pos => k \in ToSet(page.rows)

\* Keys are in the order of the numbers.
LEMMA KeysArePositive ==
  /\ \A k \in Keys : k \in Nat /\ k > 0
  /\ \A k \in Keys \cup {0} : k \in Nat
BY KeysAreOrdered

\* Nothing is walked through.
LEMMA WalkStart == ResourceInit => WalkInv
BY DEF ResourceInit, WalkInv, Scanning, NoWalk, NoPage, IsInjective

\* A walk begins with nothing listed and the cursor before the first row.
LEMMA StartWalkKeeps == TypeInv /\ WalkInv /\ StartWalk => WalkInv'
<1> SUFFICES ASSUME TypeInv, WalkInv, StartWalk PROVE WalkInv'
    OBVIOUS
<1> USE DEF TypeInv, WalkInv, Scanning
<1>1. PICK filter \in Values \cup {NoFilter} :
        walk' = [NoWalk EXCEPT !.filter = filter, !.over = FALSE,
                               !.stayed = {k \in Keys : Matches(table, k, filter)}]
      BY DEF StartWalk
<1>2. /\ walk'.filter = filter /\ walk'.over = FALSE /\ walk'.cursor = 0
      /\ walk'.listed = <<>>
      /\ walk'.stayed = {k \in Keys : Matches(table, k, filter)}
      BY <1>1 DEF NoWalk
<1>3. page = NoPage /\ page' = page /\ table' = table
      BY DEF StartWalk
<1>4. IsInjective(<<>>)
      BY DEF IsInjective
<1>5. \A k \in walk'.stayed : Matches(table', k, walk'.filter) /\ ~(k <= walk'.cursor)
  <2> SUFFICES ASSUME NEW k \in walk'.stayed
               PROVE  Matches(table', k, walk'.filter) /\ ~(k <= walk'.cursor)
      OBVIOUS
  <2>1. k \in Keys /\ Matches(table, k, filter)
        BY <1>2
  <2>2. k \in Nat /\ k > 0
        BY <2>1, KeysArePositive
  <2> QED
      BY <1>2, <1>3, <2>1, <2>2
<1> QED
    BY <1>2, <1>3, <1>4, <1>5

\* A page begins where the last one ended.
LEMMA AskPageKeeps == TypeInv /\ WalkInv /\ AskPage => WalkInv'
<1> SUFFICES ASSUME TypeInv, WalkInv, AskPage PROVE WalkInv'
    OBVIOUS
<1> USE DEF TypeInv, WalkInv, Scanning
<1>1. page'.pos = walk.cursor /\ page'.rows = <<>>
      BY DEF AskPage, NoPage
<1>2. walk' = walk /\ table' = table /\ ~walk.over
      BY DEF AskPage
<1>3. IsInjective(<<>>)
      BY DEF IsInjective
<1>4. walk.cursor \in Keys \cup {0} /\ walk.stayed \subseteq Keys
      BY DEF WalkTyped, Walks
<1>5. walk.cursor \in Nat /\ \A k \in walk.stayed : k \in Nat
      BY <1>4, KeysArePositive
<1> QED
    BY <1>1, <1>2, <1>3, <1>5

\* What Append adds to the elements of a sequence without repetition.
LEMMA AppendElement ==
  ASSUME NEW S, NEW s \in Seq(S), NEW e \in S
  PROVE  /\ ToSet(Append(s, e)) = ToSet(s) \cup {e}
         /\ \A i \in DOMAIN Append(s, e) :
              (i \in DOMAIN s /\ Append(s, e)[i] = s[i]) \/ Append(s, e)[i] = e
         /\ IsInjective(s) /\ e \notin ToSet(s) => IsInjective(Append(s, e))
<1>1. /\ DOMAIN s = 1..Len(s) /\ Len(s) \in Nat
      /\ DOMAIN Append(s, e) = 1..(Len(s) + 1)
      /\ \A i \in 1..Len(s) : Append(s, e)[i] = s[i]
      /\ Append(s, e)[Len(s) + 1] = e
      OBVIOUS
<1>2. \A i \in DOMAIN Append(s, e) : i \in DOMAIN s \/ i = Len(s) + 1
      BY <1>1
<1> QED
    BY <1>1, <1>2 DEF ToSet, IsInjective

\* What concatenation makes of the elements of two sequences.
LEMMA ConcatElements ==
  ASSUME NEW S, NEW s \in Seq(S), NEW t \in Seq(S)
  PROVE  /\ ToSet(s \o t) = ToSet(s) \cup ToSet(t)
         /\ IsInjective(s) /\ IsInjective(t) /\ ToSet(s) \cap ToSet(t) = {}
              => IsInjective(s \o t)
<1>1. /\ DOMAIN s = 1..Len(s) /\ Len(s) \in Nat
      /\ DOMAIN t = 1..Len(t) /\ Len(t) \in Nat
      /\ DOMAIN (s \o t) = 1..(Len(s) + Len(t))
      /\ \A i \in 1..Len(s) : (s \o t)[i] = s[i]
      /\ \A i \in 1..Len(t) : (s \o t)[Len(s) + i] = t[i]
      OBVIOUS
<1>2. \A i \in DOMAIN (s \o t) : i \in DOMAIN s \/ \E j \in DOMAIN t : i = Len(s) + j
  <2> SUFFICES ASSUME NEW i \in DOMAIN (s \o t), i \notin DOMAIN s
               PROVE  \E j \in DOMAIN t : i = Len(s) + j
      OBVIOUS
  <2>1. i - Len(s) \in DOMAIN t /\ i = Len(s) + (i - Len(s))
        BY <1>1
  <2> QED
      BY <2>1
<1>3. ToSet(s \o t) \subseteq ToSet(s) \cup ToSet(t)
      BY <1>1, <1>2 DEF ToSet
<1>4. ToSet(s) \subseteq ToSet(s \o t)
      BY <1>1 DEF ToSet
<1>5. \A j \in DOMAIN t : Len(s) + j \in DOMAIN (s \o t)
      BY <1>1
<1>6. ToSet(t) \subseteq ToSet(s \o t)
      BY <1>1, <1>5 DEF ToSet
<1>7. ASSUME IsInjective(s), IsInjective(t), ToSet(s) \cap ToSet(t) = {}
      PROVE  IsInjective(s \o t)
  <2> SUFFICES ASSUME NEW i \in DOMAIN (s \o t), NEW j \in DOMAIN (s \o t),
                      (s \o t)[i] = (s \o t)[j]
               PROVE  i = j
      BY DEF IsInjective
  <2>1. CASE i \in DOMAIN s /\ j \in DOMAIN s
        BY <1>1, <1>7, <2>1 DEF IsInjective
  <2>2. ASSUME NEW a \in DOMAIN s, NEW b \in DOMAIN t
        PROVE  (s \o t)[a] # (s \o t)[Len(s) + b]
    <3>1. s[a] \in ToSet(s) /\ t[b] \in ToSet(t)
          BY DEF ToSet
    <3>2. s[a] # t[b]
          BY <1>7, <3>1
    <3> QED
        BY <1>1, <3>2
  <2>3. CASE ~(i \in DOMAIN s <=> j \in DOMAIN s)
        BY <1>2, <2>2, <2>3
  <2>4. CASE i \notin DOMAIN s /\ j \notin DOMAIN s
        BY <1>1, <1>2, <1>7, <2>4 DEF IsInjective
  <2> QED
      BY <2>1, <2>3, <2>4
<1> QED
    BY <1>3, <1>4, <1>6, <1>7
\* Cassandra reads one more row: it joins the page if it matches.
LEMMA ScanRowKeeps == TypeInv /\ WalkInv /\ ScanRow => WalkInv'
<1> SUFFICES ASSUME TypeInv, WalkInv, ScanRow PROVE WalkInv'
    OBVIOUS
<1>1. PICK next \in Keys :
        /\ next > page.pos
        /\ \A k \in Keys : k > page.pos => next <= k
        /\ page' = [page EXCEPT !.pos = next,
                                !.rows = IF Matches(table, next, walk.filter)
                                           THEN Append(@, next) ELSE @]
      BY DEF ScanRow
<1> DEFINE rows == page.rows
<1>2. /\ page \in Pages /\ rows \in Seq(Keys) /\ page.pos \in Keys \cup {0}
      /\ walk.cursor \in Keys \cup {0} /\ walk.stayed \subseteq Keys
      BY DEF TypeInv, WalkTyped, Walks, Pages
<1>3. page'.pos = next
      /\ page'.rows = IF Matches(table, next, walk.filter) THEN Append(rows, next) ELSE rows
      BY <1>1, <1>2 DEF Pages
<1>4. /\ Scanning /\ ~walk.over /\ walk' = walk /\ table' = table
      BY <1>2 DEF WalkInv, Scanning, ScanRow, NoPage
<1>5. /\ page.pos \in Nat /\ walk.cursor \in Nat /\ next \in Nat
      /\ \A k \in Keys : k \in Nat
      BY <1>2, KeysArePositive
<1>6. page.pos < next /\ walk.cursor <= page.pos /\ walk.cursor < next
      BY <1>1, <1>4, <1>5 DEF WalkInv
<1>7. \A i \in DOMAIN rows : rows[i] \in Keys
      BY <1>2
<1>8. next \notin ToSet(rows)
      BY <1>4, <1>5, <1>6, <1>7 DEF WalkInv, ToSet
<1>9. IsInjective(page'.rows)
      BY <1>2, <1>3, <1>8, AppendElement DEF WalkInv
<1>10. \A i \in DOMAIN page'.rows : walk.cursor < page'.rows[i] /\ page'.rows[i] <= next
  <2>1. \A i \in DOMAIN rows : walk.cursor < rows[i] /\ rows[i] <= next
    <3>1. \A i \in DOMAIN rows : walk.cursor < rows[i] /\ rows[i] <= page.pos
          BY <1>4 DEF WalkInv
    <3>2. \A i \in DOMAIN rows : rows[i] \in Nat
          BY <1>5, <1>7
    <3> QED
        BY <1>5, <1>6, <3>1, <3>2
  <2>2. CASE Matches(table, next, walk.filter)
    <3>1. \A i \in DOMAIN Append(rows, next) :
            (i \in DOMAIN rows /\ Append(rows, next)[i] = rows[i]) \/ Append(rows, next)[i] = next
          BY <1>2, AppendElement
    <3> QED
        BY <1>3, <1>5, <1>6, <2>1, <2>2, <3>1
  <2>3. CASE ~Matches(table, next, walk.filter)
        BY <1>3, <2>1, <2>3
  <2> QED
      BY <2>2, <2>3
<1>11. ASSUME NEW k \in walk.stayed, walk.cursor < k, k <= next
       PROVE  k \in ToSet(page'.rows)
  <2>1. k \in Keys /\ k \in Nat /\ Matches(table, k, walk.filter)
        BY <1>2, <1>4, <1>5 DEF WalkInv
  <2>2. CASE k <= page.pos
    <3>1. k \in ToSet(rows)
          BY <1>4, <1>11, <2>2 DEF WalkInv
    <3> QED
        BY <1>2, <1>3, <3>1, AppendElement
  <2>3. CASE k > page.pos
    <3>1. k = next
          BY <1>1, <1>5, <1>11, <2>1, <2>3
    <3> QED
        BY <1>2, <1>3, <2>1, <3>1, AppendElement
  <2> QED
      BY <1>5, <2>1, <2>2, <2>3
<1>12. ASSUME NEW k \in walk.stayed
       PROVE  /\ Matches(table', k, walk'.filter)
              /\ k <= walk.cursor => k \in ToSet(walk.listed)
       BY <1>4 DEF WalkInv
<1>13. IsInjective(walk.listed) /\ \A i \in DOMAIN walk.listed : walk.listed[i] <= walk.cursor
       BY <1>4 DEF WalkInv
<1>14. walk.cursor <= next
       BY <1>5, <1>6
<1> HIDE DEF rows
<1> QED
    BY <1>3, <1>4, <1>9, <1>10, <1>11, <1>12, <1>13, <1>14 DEF WalkInv
\* The rows of the page follow those listed before; the last page is read up to the
\* last row.
LEMMA EndPageKeeps == TypeInv /\ WalkInv /\ EndPage => WalkInv'
<1> SUFFICES ASSUME TypeInv, WalkInv, EndPage PROVE WalkInv'
    OBVIOUS
<1>1. PICK over \in BOOLEAN :
        /\ over => \A k \in Keys : k <= page.pos
        /\ walk' = [walk EXCEPT !.listed = @ \o page.rows, !.over = over,
                                !.cursor = IF over THEN 0 ELSE page.pos]
      BY DEF EndPage, Cursor
<1> DEFINE listed == walk.listed
           rows == page.rows
<1>2. /\ listed \in Seq(Keys) /\ rows \in Seq(Keys) /\ page.pos \in Keys \cup {0}
      /\ walk \in Walks /\ walk.cursor \in Keys \cup {0} /\ walk.stayed \subseteq Keys
      BY DEF TypeInv, WalkTyped, Walks, Pages
<1>3. /\ walk'.listed = listed \o rows /\ walk'.over = over
      /\ walk'.stayed = walk.stayed /\ walk'.filter = walk.filter
      /\ ~over => walk'.cursor = page.pos
      BY <1>1, <1>2 DEF Walks
<1>4. /\ Scanning /\ ~walk.over /\ page' = NoPage /\ table' = table
      BY DEF WalkInv, Scanning, EndPage
<1>5. /\ page.pos \in Nat /\ walk.cursor \in Nat /\ \A k \in Keys : k \in Nat
      /\ walk.cursor <= page.pos
      BY <1>2, <1>4, KeysArePositive DEF WalkInv
<1>6. \A k \in ToSet(listed) : k \in Nat /\ k <= walk.cursor
      BY <1>2, <1>4, <1>5 DEF WalkInv, ToSet
<1>7. \A k \in ToSet(rows) : k \in Nat /\ walk.cursor < k /\ k <= page.pos
      BY <1>2, <1>4, <1>5 DEF WalkInv, ToSet
<1>8. ToSet(listed) \cap ToSet(rows) = {}
      BY <1>5, <1>6, <1>7
<1>9. IsInjective(listed) /\ IsInjective(rows)
      BY DEF WalkInv
<1>10. IsInjective(walk'.listed) /\ ToSet(walk'.listed) = ToSet(listed) \cup ToSet(rows)
       BY <1>2, <1>3, <1>8, <1>9, ConcatElements
<1>11. \A i \in DOMAIN walk'.listed : walk'.listed[i] <= page.pos
  <2>1. \A k \in ToSet(walk'.listed) : k <= page.pos
        BY <1>5, <1>6, <1>7, <1>10
  <2> QED
      BY <2>1 DEF ToSet
<1>12. ASSUME NEW k \in walk.stayed, k <= page.pos
       PROVE  k \in ToSet(walk'.listed)
  <2>1. k \in Nat
        BY <1>2, <1>5
  <2>2. CASE k <= walk.cursor
        BY <1>4, <1>10, <1>12, <2>2 DEF WalkInv
  <2>3. CASE walk.cursor < k
        BY <1>4, <1>10, <1>12, <2>3 DEF WalkInv
  <2> QED
      BY <1>5, <2>1, <2>2, <2>3
<1>13. over => \A k \in walk.stayed : k <= page.pos
       BY <1>1, <1>2
<1>14. \A k \in walk.stayed : Matches(table', k, walk'.filter)
       BY <1>3, <1>4 DEF WalkInv
<1>15. ~Scanning' /\ page'.rows = <<>> /\ IsInjective(page'.rows)
       BY <1>4 DEF Scanning, NoPage, IsInjective
<1> HIDE DEF listed, rows
<1> QED
    BY <1>3, <1>10, <1>11, <1>12, <1>13, <1>14, <1>15 DEF WalkInv

\* A page that fails is forgotten; the cursor is still there.
LEMMA FailPageKeeps == TypeInv /\ WalkInv /\ FailPage => WalkInv'
<1> SUFFICES ASSUME TypeInv, WalkInv, FailPage PROVE WalkInv'
    OBVIOUS
<1>1. ~Scanning' /\ IsInjective(page'.rows) /\ walk' = walk /\ table' = table
      BY DEF FailPage, Scanning, NoPage, IsInjective
<1> QED
    BY <1>1 DEF WalkInv

\* A statement leaves the walk alone but for the rows that no longer match.
LEMMA ChangeKeeps ==
  ASSUME WalkInv, page' = page, walk \in Walks,
         walk' = [walk EXCEPT !.stayed = {k \in walk.stayed : Matches(table', k, walk.filter)}]
  PROVE  WalkInv'
<1>1. /\ walk'.filter = walk.filter /\ walk'.over = walk.over /\ walk'.cursor = walk.cursor
      /\ walk'.listed = walk.listed
      /\ walk'.stayed = {k \in walk.stayed : Matches(table', k, walk.filter)}
      BY DEF Walks
<1>2. \A k \in walk'.stayed : k \in walk.stayed /\ Matches(table', k, walk'.filter)
      BY <1>1
<1>3. Scanning' = Scanning
      BY DEF Scanning
<1> QED
    BY <1>1, <1>2, <1>3 DEF WalkInv

\* Every step keeps it.
LEMMA WalkStep == TypeInv /\ WalkInv /\ [Next]_vars => WalkInv'
<1> SUFFICES ASSUME TypeInv, WalkInv, [Next]_vars PROVE WalkInv'
    OBVIOUS
<1>1. CASE StartWalk
      BY <1>1, StartWalkKeeps
<1>2. CASE AskPage
      BY <1>2, AskPageKeeps
<1>3. CASE ScanRow
      BY <1>3, ScanRowKeeps
<1>4. CASE EndPage
      BY <1>4, EndPageKeeps
<1>5. CASE FailPage
      BY <1>5, FailPageKeeps
<1>6. ASSUME NEW w \in Workers, Write(w) \/ WriteUnanswered(w)
      PROVE  WalkInv'
  <2>1. PICK answered \in SUBSET {req[w].key} : Changed(req[w], answered)
        BY <1>6 DEF Write, WriteUnanswered
  <2>2. Statement(w) /\ page' = page
        BY <1>6 DEF Write, WriteUnanswered
  <2>3. walk' = [walk EXCEPT !.stayed = {k \in walk.stayed : Matches(table', k, walk.filter)}]
        BY <2>1, <2>2, ChangeKeepsType
  <2> QED
      BY <2>2, <2>3, ChangeKeeps DEF TypeInv, WalkTyped
<1>7. CASE walk' = walk /\ page' = page /\ table' = table
      BY <1>7 DEF WalkInv, Scanning
<1> QED
    BY <1>1, <1>2, <1>3, <1>4, <1>5, <1>6, <1>7
    DEF Next, Session, ListRequest, ChangeWork, OrdersRequest, ProductsRequest,
        InventoryRequest, ShipmentsRequest, ReportsRequest, vars, resourceVars, FailWrite, Accept
------------------------------------------------------------------------------
\* The invariant, and what it promises.

CatalogInv == SessionInv /\ TypeInv /\ ReadyFindsSession /\ WalkInv

\* The initial state has it.
LEMMA InvStart == Init => CatalogInv
<1> SUFFICES ASSUME Init PROVE CatalogInv
    OBVIOUS
<1>1. SessionInv
      BY SessionStart DEF Init, ResourceInit
<1>2. TypeInv /\ WalkInv
      BY TypeStart, WalkStart DEF Init
<1>3. ReadyFindsSession
      BY DEF Init, ResourceInit, ReadyFindsSession, Serves, NoReq
<1> QED
    BY <1>1, <1>2, <1>3 DEF CatalogInv

\* Every step of the composition keeps it.
LEMMA InvStep == CatalogInv /\ [Next]_vars => CatalogInv'
<1> SUFFICES ASSUME CatalogInv, [Next]_vars PROVE CatalogInv'
    OBVIOUS
<1>1. [SessionNext]_sessionVars
      BY DEF Next, Session, ListRequest, ChangeWork, OrdersRequest, ProductsRequest,
        InventoryRequest, ShipmentsRequest, ReportsRequest, vars, StartWalk, AskPage, ScanRow,
        EndPage, FailPage, Accept, Write, WriteUnanswered, FailWrite
<1> QED
    BY <1>1, SessionStep, TypeStep, TakenOnStep, WalkStep DEF CatalogInv

\* So it always holds.
LEMMA InvHolds == Spec => []CatalogInv
BY InvStart, InvStep, PTL DEF Spec

\* Every variable holds values of its kind, whatever is asked of a resource.
THEOREM TypesHold == Spec => []ResourceTypeOK
<1>1. CatalogInv => ResourceTypeOK
      BY DEF CatalogInv, SessionInv, TypeInv, RowsTyped, RequestsTyped, WalkTyped, Request,
         Walks, Pages, ResourceTypeOK
<1> QED
    BY <1>1, InvHolds, PTL

\* However often hosts come and go before and after the session is there, the Clusters
\* that stay open are one per attempt that got hosts and no session, and the one in use.
THEOREM ClustersAreCounted == Spec => []OneClusterOpen
<1>1. CatalogInv => OneClusterOpen
      BY DEF CatalogInv, SessionInv, SessionTypeOK, OneClusterOpen
<1> QED
    BY <1>1, InvHolds, PTL

\* A request that was not answered 503 at once finds the session.
THEOREM TakenOnRequestsHaveASession == Spec => []ReadyFindsSession
BY InvHolds, PTL DEF CatalogInv

\* A row whose creation was answered is there until a request deletes it.
THEOREM AnsweredRowsStay == Spec => []CreatedRowsStay
<1>1. CatalogInv => CreatedRowsStay
      BY DEF CatalogInv, TypeInv, RowsTyped, CreatedMarked, CreatedRowsStay, Present, Row, NoRow
<1> QED
    BY <1>1, InvHolds, PTL

\* The pages of a walk miss no row that matched from its start to its end, and repeat
\* none, for any table, page sizes, filter, failures and changes meanwhile.
THEOREM PagesMissNoRow == Spec => []WalkIsComplete
<1>1. CatalogInv => WalkIsComplete
      BY DEF CatalogInv, WalkInv, WalkIsComplete, ToSet
<1> QED
    BY <1>1, InvHolds, PTL
==============================================================================
