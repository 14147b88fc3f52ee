--------------------------- MODULE MCLiveLifecycle ---------------------------
\* Values of the constants of LiveLifecycle that a configuration cannot write.
EXTENDS LiveLifecycle

\* Take profits at two, three and four times the risk of the entry.
LevelPrices == <<110, 115, 120>>

=============================================================================
