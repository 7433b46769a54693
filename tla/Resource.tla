------------------------------- MODULE Resource -------------------------------
(***************************************************************************)
(* A table served as a resource: the ViewSet every submodule has a copy of *)
(* (create, update, destroy and the paged list) over BaseRepository, with  *)
(* the session of CassandraSession.  A client lists the table page by page *)
(* while other clients change it.                                          *)
(*                                                                         *)
(* Keys are numbers in the order Cassandra lists them; a row is its marker *)
(* and one column.  An INSERT sets the marker, an UPDATE does not: a row   *)
(* is there while it has its marker or a column that is not null.  A       *)
(* statement is applied at once (the timestamps the driver gives make      *)
(* statements of one process take effect in the order they are sent), but  *)
(* a page is read row by row.  retrieve changes nothing and is left out.   *)
(***************************************************************************)
EXTENDS CassandraSession, Sequences, SequencesExt, FiniteSetsExt

CONSTANTS
  Workers,        \* the request threads that serve changes
  Keys,           \* primary keys
  Values,         \* values of the column
  Null,
  Omitted,        \* the column of a request that does not name it
  PageSizes       \* the page sizes clients ask for, within 1..max_page_size

ASSUME KeysAreOrdered == Keys \subseteq Nat \ {0} /\ IsFiniteSet(Keys)
ASSUME PagesHoldRows == PageSizes \subseteq 1..1000
ASSUME ColumnValues == Null \notin Values /\ Omitted \notin Values \cup {Null}

VARIABLES
  table,          \* key -> row
  req,            \* per thread, the change it serves
  walk,           \* the client's walk through the pages
  page,           \* the list request under way, on a thread of its own
  created         \* observer: rows whose creation was answered, not deleted since

resourceVars == <<table, req, walk, page, created>>

Row == [marker : BOOLEAN, value : Values \cup {Null}]
NoRow == [marker |-> FALSE, value |-> Null]

Present(t, k) == t[k] # NoRow

\* The rows a list request returns: all, or those with the value of its filter.
NoFilter == Omitted
Matches(t, k, filter) == Present(t, k) /\ filter \in {NoFilter, t[k].value}

NoReq == [op |-> "none", key |-> 0, value |-> Null]

\* A page: its size, the row it was read up to and its rows.
NoPage == [size |-> 0, pos |-> 0, rows |-> <<>>]

\* A walk: its filter, the cursor of the next page, what the pages held, whether the
\* last one is there, and (observer) the rows that matched from its start on.
NoWalk == [filter |-> NoFilter, cursor |-> 0, listed |-> <<>>, over |-> TRUE, stayed |-> {}]

------------------------------------------------------------------------------

Serves(w, op) == req[w].op = op
Answer(w) == req' = [req EXCEPT ![w] = NoReq]

\* The client begins to list the table.
StartWalk ==
  /\ walk.over
  /\ \E filter \in Values \cup {NoFilter} :
       walk' = [NoWalk EXCEPT !.filter = filter, !.over = FALSE,
                              !.stayed = {k \in Keys : Matches(table, k, filter)}]
  /\ UNCHANGED <<sessionVars, table, req, page, created>>

\* It asks for the next page, of any size.  A request is taken on when Cassandra is
\* ready and its parameters parse; it is answered 503 or 400 at once otherwise.
AskPage ==
  /\ ~walk.over
  /\ page = NoPage
  /\ IsReady
  /\ \E size \in PageSizes : page' = [NoPage EXCEPT !.size = size, !.pos = walk.cursor]
  /\ UNCHANGED <<sessionVars, table, req, walk, created>>

\* A change is asked for.  A row is addressed by the parts of its key joined by "__",
\* so one with "__" within a part can be created and listed only.  An update without a
\* field is answered without a statement.
Accept(w, addressable, whole) ==
  /\ Serves(w, "none")
  /\ IsReady
  /\ \/ \E k \in (IF whole THEN Keys ELSE Keys \cup {0}), v \in Values \cup {Null, Omitted} :
          req' = [req EXCEPT ![w] = [op |-> "create", key |-> k, value |-> v]]
     \/ \E k \in addressable, v \in Values \cup {Null} :
          req' = [req EXCEPT ![w] = [op |-> "update", key |-> k, value |-> v]]
     \/ \E k \in addressable :
          req' = [req EXCEPT ![w] = [op |-> "destroy", key |-> k, value |-> Null]]
  /\ UNCHANGED <<sessionVars, table, walk, page, created>>

\* The column after a statement that may name it.
Written(old, value) == IF value = Omitted THEN old ELSE value

\* Mutant: a row is created by an UPDATE.
InsertedByUpdate(r) == [table EXCEPT ![r.key].value = Written(@, r.value)]

\* INSERT of the columns the request names, over what is there.
Inserted(r) == [table EXCEPT ![r.key] = [marker |-> TRUE, value |-> Written(@.value, r.value)]]

\* UPDATE, which creates a row that is not there.
Updated(r) == [table EXCEPT ![r.key].value = r.value]

Deleted(r) == [table EXCEPT ![r.key] = NoRow]

\* The table after the statement of a request; an INSERT without a part of the key is
\* an error.
Effect(r) ==
  CASE r.op = "create" -> Inserted(r)
    [] r.op = "update" -> Updated(r)
    [] r.op = "destroy" -> Deleted(r)

\* The statement of a request takes effect; created rows are counted when answered.
Changed(r, answered) ==
  LET t == Effect(r)
  IN  /\ table' = t
      /\ created' = CASE r.op = "create" -> created \cup answered
                       [] r.op = "destroy" -> created \ {r.key}
                       [] OTHER -> created
      /\ walk' = [walk EXCEPT !.stayed = {k \in @ : Matches(t, k, walk.filter)}]

Statement(w) ==
  /\ req[w].key # 0 /\ ~Serves(w, "none")
  /\ session /\ up

\* The statement is executed and the request answered 201, 200 or 204.
Write(w) ==
  /\ Statement(w)
  /\ Changed(req[w], {req[w].key})
  /\ Answer(w)
  /\ UNCHANGED <<sessionVars, page>>

\* The statement takes effect, and its answer is lost: 500.
WriteUnanswered(w) ==
  /\ Statement(w)
  /\ Changed(req[w], {})
  /\ Answer(w)
  /\ UNCHANGED <<sessionVars, page>>

\* A statement that cannot be prepared or executed: 500.
FailWrite(w) ==
  /\ ~Serves(w, "none")
  /\ Answer(w)
  /\ UNCHANGED <<sessionVars, table, walk, page, created>>

FailPage ==
  /\ page # NoPage
  /\ page' = NoPage
  /\ UNCHANGED <<sessionVars, table, req, walk, created>>

\* Cassandra reads the next row of the page.
ScanRow ==
  /\ session /\ up
  /\ Len(page.rows) < page.size
  /\ \E next \in Keys :
       /\ next > page.pos
       /\ \A k \in Keys : k > page.pos => next <= k
       /\ page' = [page EXCEPT !.pos = next,
                               !.rows = IF Matches(table, next, walk.filter)
                                          THEN Append(@, next) ELSE @]
  /\ UNCHANGED <<sessionVars, table, req, walk, created>>

\* Mutant: the next page begins after as many rows as were listed.
CursorByCount ==
  LET rows == SetToSortSeq({k \in Keys : Matches(table, k, walk.filter)}, <)
      n    == Len(walk.listed) + Len(page.rows)
  IN  IF n = 0 THEN 0 ELSE IF n > Len(rows) THEN Max(Keys) ELSE rows[n]

\* The paging state of the driver: after the last row that was read.
Cursor == page.pos

\* The page is answered.  One that is not full is the last; so may be a full one
\* that ends with the last row.
EndPage ==
  /\ page # NoPage
  /\ session /\ up
  /\ LET full == Len(page.rows) = page.size
         last == \A k \in Keys : k <= page.pos
     IN  \E over \in BOOLEAN :
           /\ IF over THEN last ELSE full
           /\ walk' = [walk EXCEPT !.listed = @ \o page.rows, !.over = over,
                                   !.cursor = IF over THEN 0 ELSE Cursor]
  /\ page' = NoPage
  /\ UNCHANGED <<sessionVars, table, req, created>>

ResourceInit ==
  /\ SessionInit
  /\ table = [k \in Keys |-> NoRow]
  /\ req = [w \in Workers |-> NoReq]
  /\ walk = NoWalk
  /\ page = NoPage
  /\ created = {}

------------------------------------------------------------------------------
\* Properties.

Operations == {"none", "create", "update", "destroy"}

\* Every variable holds values of its kind.
ResourceTypeOK ==
  /\ SessionTypeOK
  /\ table \in [Keys -> Row]
  /\ req \in [Workers -> [op : Operations, key : Keys \cup {0},
                         value : Values \cup {Null, Omitted}]]
  /\ page.pos \in Keys \cup {0} /\ page.rows \in Seq(Keys) /\ Len(page.rows) <= page.size
  /\ walk.cursor \in Keys \cup {0} /\ walk.listed \in Seq(Keys)
  /\ walk.stayed \subseteq Keys /\ created \subseteq Keys

\* The pages of a walk hold every row that matched from its start to its end, and no
\* row twice, whatever is created, changed and deleted meanwhile, with pages of any
\* sizes, and with pages that fail and are asked for again.
WalkIsComplete ==
  /\ IsInjective(walk.listed)
  /\ walk.over => walk.stayed \subseteq ToSet(walk.listed)

\* A row whose creation was answered stays until it is deleted: an update may null its
\* columns, never remove it.
CreatedRowsStay == \A k \in created : Present(table, k)

\* A request that was not refused finds the session: "Cassandra session not ready" is
\* never raised.
ReadyFindsSession ==
  page # NoPage \/ (\E w \in Workers : ~Serves(w, "none")) => session
==============================================================================
