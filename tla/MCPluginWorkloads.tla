------------------------- MODULE MCPluginWorkloads -------------------------
EXTENDS PluginWorkloads
============================================================================
