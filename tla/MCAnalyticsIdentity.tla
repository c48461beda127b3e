----------------------- MODULE MCAnalyticsIdentity -----------------------
EXTENDS AnalyticsIdentity, TLC

BothWays == Permutations(People) \union Permutations(Tabs)
=============================================================================
