------------------------ MODULE MCResourceProvider ------------------------
(* Instances of ResourceProvider for TLC. *)
EXTENDS ResourceProvider, TLC

\* The keys of the map are alike, and so are its values; the components (hooked or not, exporting their
\* list or not) are not.
Symmetry == Permutations(Keys) \cup Permutations(Values)
=============================================================================
