----------------------------- MODULE MCCatalog -----------------------------
(* An instance of Catalog for TLC.                                         *)
EXTENDS Catalog
=============================================================================
