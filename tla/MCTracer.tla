------------------------------ MODULE MCTracer ------------------------------
EXTENDS Tracer

\* Four numbers for three threads in two buckets: the last thread has two.
FourNumbers == <<1, 2, 1, 1>>
=============================================================================
