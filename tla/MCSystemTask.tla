---------------------------- MODULE MCSystemTask ----------------------------
\* Small instances of SystemTask.
EXTENDS SystemTask
=============================================================================
