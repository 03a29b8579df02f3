------------------------------ MODULE MCMemory ------------------------------
\* Four callers: two requests can each have a joiner, or one have three.
EXTENDS Memory
=============================================================================
