--------------------------- MODULE MCAnalyticsDrain ---------------------------
(***************************************************************************)
(* AnalyticsDrain for TLC: events of one name, of a visitor each.          *)
(***************************************************************************)
EXTENDS AnalyticsDrain

MCTokenOf(e) == e % 2
MCNameOf(e) == "view"

=============================================================================
