---------------------------- MODULE MCQuotaCache ----------------------------
\* Small instances of QuotaCache: the constants are in the configurations.
EXTENDS QuotaCache
=============================================================================
