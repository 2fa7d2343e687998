------------------------- MODULE MCKCensusSeparated -------------------------
(***************************************************************************)
(* Instances of KCensusShard whose plan tells any two commands apart: the   *)
(* hypothesis of the theorems about decisions, which a plan need not meet.  *)
(***************************************************************************)
EXTENDS MCKCensus

ASSUME SeparationAssumption == GraphSeparates
=============================================================================
