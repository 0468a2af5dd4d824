--------------------------- MODULE MCCampaignViews ---------------------------
(***************************************************************************)
(* Small instances of CampaignViews for TLC.                               *)
(***************************************************************************)
EXTENDS CampaignViews, TLC

Symmetry == Permutations(Handlers) \cup Permutations(Calls) \cup Permutations(Links)

\* No date, a date already gone or today's, and one past the horizon.
MCPromiseDates == {Null, 0, 3}
=============================================================================
