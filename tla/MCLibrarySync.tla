--------------------------- MODULE MCLibrarySync ---------------------------
EXTENDS LibrarySync

CONSTANTS p, q

\* The library is at p, moves to q with prune off, or is dropped with prune on;
\* the fourth body drops it together with manageLibraries.
MCSpecs ==
  {[media |-> [n \in Libs |-> x], api |-> "libraries", prune |-> x # q] : x \in {p, q, NoPath}}
  \cup {[media |-> [n \in Libs |-> NoPath], api |-> "auth", prune |-> TRUE]}
MCReadOnly == {q}
============================================================================
