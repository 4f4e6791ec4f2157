---------------------------- MODULE MCPluginGate ----------------------------
EXTENDS PluginGate

CONSTANTS i1, i2

\* A plugin that any bound server admits, one that both versions do, and one of
\* jellyfinRef i1 that only the newer does. An older server that selects plugins,
\* and a newer one that does not: it mounts what refers to it.
MCPluginSpecs ==
  {[abi |-> 0, ref |-> NoRef], [abi |-> 1, ref |-> NoRef],
   [abi |-> 1, ref |-> i1], [abi |-> 2, ref |-> i1]}
MCInstanceSpecs == {[version |-> 1, selects |-> TRUE], [version |-> 2, selects |-> FALSE]}
=============================================================================
