---------------------------- MODULE MCTaskPolling ----------------------------
\* Small instances of TaskPolling: the constants are in the configurations.
EXTENDS TaskPolling
=============================================================================
