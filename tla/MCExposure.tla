----------------------------- MODULE MCExposure -----------------------------
EXTENDS Exposure

Body(port, ingress, web, gateway) ==
  [port |-> port, ingress |-> ingress, web |-> web, gateway |-> gateway]

\* One edit deletes the Ingress, creates the web tier, changes the HTTPRoute and
\* the Service's port; the other deletes the HTTPRoute and changes the pod
\* template.
MCFirst == {Body(0, TRUE, "none", TRUE)}
MCSpecs == {Body(80, FALSE, "deployment", TRUE), Body(0, TRUE, "volume", FALSE)}
=============================================================================
