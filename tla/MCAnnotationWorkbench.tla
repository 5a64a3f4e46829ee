----------------------- MODULE MCAnnotationWorkbench -----------------------
EXTENDS AnnotationWorkbench, TLC

Symmetry ==
  Permutations(Sessions) \cup Permutations(Raters) \cup Permutations(Cases)
    \cup Permutations(Requests)
=============================================================================
