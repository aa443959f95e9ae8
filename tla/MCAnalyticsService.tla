------------------------- MODULE MCAnalyticsService -------------------------
(* Instances of AnalyticsService for TLC.                                   *)
EXTENDS AnalyticsService, TLC

\* The clients are interchangeable.
ClientSymmetry == Permutations(Clients)
=============================================================================
