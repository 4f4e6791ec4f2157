-------------------------- MODULE MCConfigOverlay --------------------------
EXTENDS ConfigOverlay

CONSTANTS lib, gen, play, x, y

MCBlockOf ==
  [k \in Keys |-> CASE k = lib -> "library" [] k = gen -> "general"
                    [] k = play -> "playback"]

Body(blocks, ro, pairs) ==
  [blocks |-> blocks, readOnly |-> ro,
   want |-> [k \in Keys |-> IF \E v \in Values : <<k, v>> \in pairs
                            THEN CHOOSE v \in Values : <<k, v>> \in pairs ELSE NoValue]]

\* A hardened library and a general setting, next to a playback setting of the
\* same document that only the UI sets; a read-only library whose options undo the
\* hardening, and blocks that declare nothing. (Stages 2 to 4 are the same code.)
MCSpecs ==
  {Body({"library", "general"}, TRUE, {<<gen, x>>}),
   Body({"library", "playback", "branding"}, TRUE, {<<lib, y>>})}

\* An instance that has stored nothing yet.
MCFirstDocs == {NoDoc}
============================================================================
