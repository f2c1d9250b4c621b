-------------------------- MODULE MCCodeIntelRebuild --------------------------
(* Hooks are alike and so are rebuilders: nothing tells one from another.    *)
EXTENDS CodeIntelRebuild, TLC

Alike == Permutations(Hook) \cup Permutations(Rebuilder)
===============================================================================
