---------------------------- MODULE MCPlayground ----------------------------
\* Small instances of Playground: an answer of two letters, and the answer
\* "110", which may come as "1" and "10".
EXTENDS Playground

TwoLetters == <<"a", "b">>
Digits == <<"1", "1", "0">>
=============================================================================
