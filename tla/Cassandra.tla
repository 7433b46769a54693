------------------------------ MODULE Cassandra ------------------------------
(***************************************************************************)
(* What the INSERT and UPDATE statements of BaseRepository do to a table   *)
(* (apps/ff_net/repository.py; apps/catalog/repository.py is the same).    *)
(* A table is a function from primary key to row.  Neither INSERT nor      *)
(* UPDATE carries IF NOT EXISTS or IF EXISTS, so both create the row when  *)
(* the key is absent and overwrite the named columns when it is present.   *)
(* Each statement is atomic on its one row, and nothing groups two.        *)
(***************************************************************************)

\* The table with no row.
EmptyTable == [k \in {} |-> k]

\* INSERT INTO table (all columns) VALUES (row): an upsert of the whole row.
Insert(table, key, row) ==
  [k \in DOMAIN table \cup {key} |-> IF k = key THEN row ELSE table[k]]

\* UPDATE table SET ... WHERE key: also an upsert.  The columns it does not name
\* keep the value of Current: the stored row, or all null when there is none.
Current(table, key, blank) == IF key \in DOMAIN table THEN table[key] ELSE blank
==============================================================================
