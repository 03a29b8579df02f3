------------------------------- MODULE MCBus -------------------------------
\* Three cores: while one asks, a second can be on its way to the bus and a
\* third answer.
EXTENDS Bus
=============================================================================
