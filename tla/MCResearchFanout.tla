--------------------------- MODULE MCResearchFanout ---------------------------
EXTENDS ResearchFanout
=============================================================================
