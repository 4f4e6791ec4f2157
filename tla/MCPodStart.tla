----------------------------- MODULE MCPodStart -----------------------------
EXTENDS PodStart

\* The first version has both hooks, the second only bootstrap.sh.
MCHooks == [v \in Versions |-> IF v = 1 THEN {"firstrun", "bootstrap"} ELSE {"bootstrap"}]

\* Both versions have both.
MCAllHooks == [v \in Versions |-> {"firstrun", "bootstrap"}]

S(v, i, sc, po) == [bound |-> TRUE, version |-> v, injection |-> i, script |-> sc, policy |-> po]

\* Copied and mounted, with each kind of script and policy; two versions; unbound.
MCPluginSpecs ==
  {S(1, "copy", "once", "Fail"), S(2, "copy", "once", "Ignore"), S(1, "copy", "none", "Ignore"),
   S(1, "mount", "always", "Fail"),
   [S(1, "copy", "none", "Ignore") EXCEPT !.bound = FALSE]}

\* A copied plugin and its upgrade.
MCUpgrade == {S(1, "copy", "none", "Fail"), S(2, "copy", "none", "Fail")}
=============================================================================
