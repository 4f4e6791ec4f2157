---------------------------- MODULE MCBootstrap ----------------------------
EXTENDS Bootstrap
============================================================================
