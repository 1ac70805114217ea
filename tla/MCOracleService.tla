--------------------------- MODULE MCOracleService ----------------------------
(***************************************************************************)
(* Instances of OracleService.                                             *)
(***************************************************************************)
EXTENDS OracleService, TLC

CONSTANTS h1, h2, p1, p2

OneHandler  == {h1}
TwoHandlers == {h1, h2}
OnePoll     == {p1}
TwoPolls    == {p1, p2}

Release == {"RELEASE_STAGE_1"}

\* Handlers differ in nothing, and neither do polls (safety runs only).
Symmetry == Permutations(TwoHandlers) \cup Permutations(TwoPolls)

===============================================================================
