------------------------------ MODULE MCCatalog -------------------------------
(***************************************************************************)
(* Instances of Catalog.                                                   *)
(***************************************************************************)
EXTENDS Catalog
==============================================================================
