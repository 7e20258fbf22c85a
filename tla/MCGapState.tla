----------------------------- MODULE MCGapState -----------------------------
\* Model-checking instance of GapState.
EXTENDS GapState

=============================================================================
