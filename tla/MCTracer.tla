---- MODULE MCTracer ----
EXTENDS Tracer
====
