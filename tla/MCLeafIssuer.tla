---------------------------- MODULE MCLeafIssuer ----------------------------
(***************************************************************************)
(* LeafIssuer for TLC: "a:443" and "A" normalise to the same host, "" is   *)
(* rejected, and there is one host more than the cache holds.              *)
(***************************************************************************)
EXTENDS LeafIssuer

MCName == {"A", "a:443", "b", "c", ""}
MCNormalize ==
  [n \in MCName |-> CASE n \in {"A", "a:443"} -> "a"
                      [] n = "b" -> "b" [] n = "c" -> "c" [] OTHER -> "none"]
MCCallerSymmetry == Permutations(Caller)
=============================================================================
