--------------------------- MODULE MCGitHookGroups ---------------------------
(***************************************************************************)
(* An instance of GitHookGroups: a Python file, two Go files and one with  *)
(* a name that git quotes; a group for each language, of which a push runs *)
(* the Go one; two refs.                                                   *)
(***************************************************************************)
EXTENDS GitHookGroups, TLC

CONSTANTS py1, go1, go2, odd

MCFile == {py1, go1, go2, odd}
MCLang == [f \in MCFile |-> IF f = py1 THEN "py" ELSE "go"]
MCUnseen == {odd}
MCChanges == {{go1}, {go2}, {py1, odd}}
MCGroup == {"python", "go"}
MCPushGroup == {"go"}
MCCommands == [python |-> <<"imports", "versions">>,
               go |-> <<"vet", "test", "coverage">>, ai |-> <<"gemini">>]
MCParallelAfter == [python |-> 0, go |-> 1, ai |-> 0]
MCFilter == [imports |-> "py", versions |-> "any", vet |-> "go",
             test |-> "go", coverage |-> "go", gemini |-> "go"]

\* The two Go files are alike.
MCSymmetry == Permutations({go1, go2})
=============================================================================
