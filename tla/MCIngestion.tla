----------------------------- MODULE MCIngestion -----------------------------
(***************************************************************************)
(* Small instances of Ingestion: units "s" and "r" with CSVs, and unit "x" *)
(* of the catalog, which has none and is fed by a gateway.                 *)
(***************************************************************************)
EXTENDS Ingestion, TLC
=============================================================================
