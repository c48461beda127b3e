--------------------------- MODULE MCPageAnalytics ---------------------------
EXTENDS PageAnalytics, TLC

\* For runs without a temporal property.
Alike == Permutations(Tenants) \cup Permutations(People)
=============================================================================
