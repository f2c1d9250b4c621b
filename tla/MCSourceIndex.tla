---------------------------- MODULE MCSourceIndex ----------------------------
(* Two files of the external extractor; the second commit moves the content  *)
(* of one to the path of the other.                                          *)
EXTENDS SourceIndex, TLC

MCRank == ("a.ttl" :> 1) @@ ("b.ttl" :> 2)
MCTree == ("A" :> ("a.ttl" :> "x")) @@ ("B" :> ("b.ttl" :> "x"))

Alike == Permutations(Syncer)
==============================================================================
