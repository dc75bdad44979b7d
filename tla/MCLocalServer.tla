--------------------------- MODULE MCLocalServer ---------------------------
EXTENDS LocalServer
============================================================================
