--------------------------- MODULE MCRuntimeClient ---------------------------
\* Constants of the run of RuntimeClient: two threads of the child that emit.
EXTENDS RuntimeClient

CONSTANTS worker, keyboard
=============================================================================
