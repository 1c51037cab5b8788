------------------------------ MODULE MCWebAuth ------------------------------
\* Small instances of WebAuth.
EXTENDS WebAuth
=============================================================================
