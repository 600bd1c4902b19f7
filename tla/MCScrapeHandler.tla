-------------------------- MODULE MCScrapeHandler ---------------------------
(***************************************************************************)
(* Two connections, and collectors of which some are off.                  *)
(***************************************************************************)
EXTENDS ScrapeHandler, TLC

(* The connections are alike, and so are the collectors that are on.  *)
Symmetric == Permutations(Request) \cup Permutations(Enabled)
=============================================================================
