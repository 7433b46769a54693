------------------------------- MODULE Catalog --------------------------------
(***************************************************************************)
(* The resources of the services: apps/catalog/submodules and, in the      *)
(* ff_net service, the reports.  Their ViewSets are copies of one another; *)
(* what differs is the key.  Each serves its own table, so that a          *)
(* behaviour is about one of them.                                         *)
(***************************************************************************)
EXTENDS Resource

CONSTANTS
  Dashed          \* keys with "__" within a part, when a part is text

ASSUME DashedKeys == Dashed \subseteq Keys

VARIABLE resource \* the resource of this behaviour

vars == <<sessionVars, resourceVars, resource>>

\* ((order_id, placed_at)), two uuids.
OrdersRequest(w) ==
  resource = "orders" /\ Accept(w, Keys, TRUE) /\ UNCHANGED resource

\* ((category_id, sku)), an integer and a text.
ProductsRequest(w) ==
  resource = "products" /\ Accept(w, Keys \ Dashed, TRUE) /\ UNCHANGED resource

\* ((warehouse_id, bin_id)), two integers.
InventoryRequest(w) ==
  resource = "inventory" /\ Accept(w, Keys, TRUE) /\ UNCHANGED resource

\* ((carrier_id, tracking_code, leg_no)), a text between two integers.
ShipmentsRequest(w) ==
  resource = "shipments" /\ Accept(w, Keys \ Dashed, TRUE) /\ UNCHANGED resource

\* ((ff_id), lti), an integer and a date a request need not have.
ReportsRequest(w) ==
  resource = "reports" /\ Accept(w, Keys, FALSE) /\ UNCHANGED resource

ListRequest ==
  (StartWalk \/ AskPage \/ ScanRow \/ EndPage \/ FailPage) /\ UNCHANGED resource

ChangeWork(w) ==
  (Write(w) \/ WriteUnanswered(w) \/ FailWrite(w)) /\ UNCHANGED resource

Session == SessionNext /\ UNCHANGED <<resourceVars, resource>>

Init ==
  /\ ResourceInit
  /\ resource \in {"orders", "products", "inventory", "shipments", "reports"}

Next ==
  \/ Session
  \/ ListRequest
  \/ \E w \in Workers :
       \/ OrdersRequest(w) \/ ProductsRequest(w) \/ InventoryRequest(w)
       \/ ShipmentsRequest(w) \/ ReportsRequest(w)
       \/ ChangeWork(w)

Spec == Init /\ [][Next]_vars

\* The poller is a thread of its own that tries again every ten seconds.
FairSpec == Spec /\ WF_vars(PollerStep /\ UNCHANGED <<resourceVars, resource>>)
==============================================================================
