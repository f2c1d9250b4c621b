---------------------------- MODULE GitHookGroups ----------------------------
(***************************************************************************)
(* The pre-commit and pre-push hooks of git                                *)
(* (go/internal/hookrunnercli/git_hook.go and format_group.go).            *)
(*                                                                         *)
(* pre-commit formats the staged files in the worktree, stages what it     *)
(* changed, runs every group of checks over them at the same time, and at  *)
(* last the review by a model.  pre-push checks the files of the refs it   *)
(* is given.  Author and hook share worktree and index: the author edits   *)
(* while the hook runs, interrupts it, and commits again.                  *)
(*                                                                         *)
(* A content is a version of the author's and how far formatters got with  *)
(* it.  What git commits after a hook that exits 0 is the index, or, for   *)
(* "commit -a" and for a commit of paths, another index that the hook does *)
(* not look into (GIT_INDEX_FILE is taken out of its environment).         *)
(***************************************************************************)
EXTENDS Integers, Sequences, FiniteSets, SequencesExt

CONSTANTS File, Lang,       \* Lang[f]: "py", "go" or "other"
          Group, PushGroup, \* the groups of pre-commit, without "ai", and of pre-push
          Commands,         \* Commands[g]: names, in order
          ParallelAfter,    \* ParallelAfter[g]: length of the sequential prefix
          Filter,           \* Filter[c]: the language a command is for, or "any"
          Unseen,           \* files that are not found by the line git prints for them
          Ref, Changes,     \* the refs of a push, and what commits of one may change
          MaxMoves          \* bound: edits and hook runs together

AllGroups == Group \cup {"ai"}
CommandsOf(g) == ToSet(Commands[g])
Command == UNION {CommandsOf(g) : g \in AllGroups}

RegistryIsSound ==
  /\ "ai" \notin Group /\ PushGroup \subseteq Group
  /\ Lang \in [File -> {"py", "go", "other"}] /\ Unseen \subseteq File
  /\ \A g \in AllGroups :
       Commands[g] \in Seq(Command) /\ ParallelAfter[g] \in 0..Len(Commands[g])
  /\ DOMAIN Filter = Command
  /\ Changes \subseteq SUBSET File /\ MaxMoves \in Nat

ASSUME RegistryAssumption == RegistryIsSound

VARIABLES head, index, work,  \* contents of every file
          foreign, other,     \* git commits other.tree and then keeps other.index
          edits, runs,
          at, mode,           \* mode: "commit", "all" (--all-files), "push"
          files, status,
          snap,               \* fileSnapshots
          lane,               \* the two formatter goroutines
          group,              \* per group: commands to run next, and its exit code
          needed,             \* files of the pushed refs, as git knows them
          verdict,            \* what each command of this run returned
          read,               \* read[c][f]: what a command of this run read of a file
          clean               \* nobody but the hook touched the selected files

elsewhere == <<foreign, other>>
repo == <<head, index, work, elsewhere>>
bounds == <<edits, runs>>
MayMove == edits + runs < MaxMoves
formatting == <<snap, lane>>
checking == <<group, verdict, read>>
gitVars == <<repo, bounds, at, mode, files, status, formatting, checking, needed, clean>>

\* Formatters in the order they are applied to a language; fixText is the first.
Formatters == [py |-> 4, go |-> 2, other |-> 0]
Raw(v) == [v |-> v, done |-> 0]
Neat(f, v) == [v |-> v, done |-> Formatters[Lang[f]]]
Absent == [v |-> -1, done |-> 0]
Unread == [v |-> -2, done |-> 0]
Nothing == [f \in File |-> Absent]

formatted(f, c) == c.done >= Formatters[Lang[f]]

\* Without -z git quotes names (core.quotePath), and the hook trims the lines: what is
\* left of the name of an Unseen file is no file, as little as a link to nowhere.
existingFiles(S) == {f \in S \ Unseen : work[f] # Absent}
ofLanguage(S, l) == {f \in existingFiles(S) : Lang[f] = l}

\* The files of the format group, and those of them that were there when it started
\* and that are still there.
formatGroupFiles == {f \in existingFiles(files) : Lang[f] # "other"}
selected == {f \in formatGroupFiles : snap[f] # Absent}

Idle == [next |-> 1, par |-> {}, exit |-> 0, state |-> "off"]

GitTypeOK ==
  /\ \A t \in {head, index, work} : \A f \in File : t[f].v \in -1..MaxMoves
  /\ at \in {"idle", "select", "format", "text", "lanes", "restage", "groups", "ai",
             "full", "end"}
  /\ mode \in {"none", "commit", "all", "push"}
  /\ files \subseteq File /\ status \in {0, 1}
  /\ lane \in [{"py", "go"} -> {"off", "ok", "failed"} \cup {"1", "2", "3"}]
  /\ \A g \in AllGroups : group[g].state \in {"off", "skipped", "run", "done"}

GitInit ==
  /\ head = [f \in File |-> Neat(f, 0)] /\ index = head /\ work = head
  /\ foreign = FALSE /\ other = [tree |-> head, index |-> head]
  /\ edits = 0 /\ runs = 0
  /\ at = "idle" /\ mode = "none" /\ files = {} /\ status = 0
  /\ snap = head /\ lane = [l \in {"py", "go"} |-> "off"]
  /\ group = [g \in AllGroups |-> Idle]
  /\ needed = {}
  /\ verdict = [c \in Command |-> "none"]
  /\ read = [c \in Command |-> Nothing]
  /\ clean = TRUE

-----------------------------------------------------------------------------
(* The author                                                              *)

\* Writes a new version, formatted or not, or removes the file, at any time.
Edit(f) ==
  /\ MayMove
  /\ edits' = edits + 1
  /\ \E c \in {Raw(edits + 1), Neat(f, edits + 1), Absent} :
       work' = [work EXCEPT ![f] = c]
  /\ clean' = (clean /\ (f \notin files \/ at \in {"idle", "select"}))
  /\ UNCHANGED <<head, index, elsewhere, runs, at, mode, files, status,
                 formatting, checking, needed>>

\* git add
Add(f) ==
  /\ at = "idle" /\ index[f] # work[f]
  /\ index' = [index EXCEPT ![f] = work[f]]
  /\ UNCHANGED <<head, work, elsewhere, bounds, at, mode, files, status,
                 formatting, checking, needed, clean>>

\* What a hook process keeps is gone with it.
Forgotten ==
  /\ files' = {} /\ needed' = {} /\ clean' = TRUE
  /\ foreign' = FALSE /\ other' = [tree |-> head', index |-> head']
  /\ snap' = head' /\ lane' = [l \in {"py", "go"} |-> "off"]
  /\ group' = [g \in AllGroups |-> Idle]
  /\ verdict' = [c \in Command |-> "none"]
  /\ read' = [c \in Command |-> Nothing]

\* git commit -a takes every tracked file from the worktree, git commit with a path
\* that one on top of HEAD; the index itself is locked until git is done.
taking(t, S) == [f \in File |-> IF f \in S THEN work[f] ELSE t[f]]
OtherIndexes ==
  LET tracked == {f \in File : index[f] # Absent}
  IN  {[tree |-> taking(index, tracked), index |-> taking(index, tracked)]} \cup
      {[tree |-> taking(head, {f}), index |-> taking(index, {f})] : f \in tracked}

\* git starts a hook; settings that do not parse end it at once.
Start(m) ==
  /\ at = "idle" /\ MayMove
  /\ \/ (m = "commit" => index # head) /\ UNCHANGED elsewhere
     \/ m = "commit" /\ foreign' = TRUE
        /\ other' \in {o \in OtherIndexes : o.tree # head}
  /\ runs' = runs + 1 /\ mode' = m
  /\ \/ at' = "select" /\ status' = 0
     \/ at' = "end" /\ status' = 1
  /\ UNCHANGED <<head, index, work, edits, files, formatting, checking, needed,
                 clean>>

\* git reads the exit code and commits.
committed == IF foreign THEN other.tree ELSE index
Finish ==
  /\ at = "end"
  /\ LET ok == mode = "commit" /\ status = 0
     IN  /\ head' = IF ok THEN committed ELSE head
         /\ index' = IF ok /\ foreign THEN other.index ELSE index
  /\ at' = "idle" /\ mode' = "none" /\ status' = 0
  /\ Forgotten
  /\ UNCHANGED <<work, bounds>>

\* The author interrupts the hook, which leaves everything as it is.
Interrupt ==
  /\ at \notin {"idle", "end"}
  /\ at' = "end" /\ status' = 1
  /\ UNCHANGED <<repo, bounds, mode, files, formatting, checking, needed,
                 clean>>

-----------------------------------------------------------------------------
(* What a hook looks at                                                    *)

fail(code) == at' = "end" /\ status' = code

\* git diff --cached --diff-filter=ACMR, or git ls-files, of the default index.  The
\* names are kept as git prints them; existingFiles is where an Unseen one drops out.
hookFilesForPreCommit ==
  /\ at = "select" /\ mode \in {"commit", "all"}
  /\ \/ /\ files' = {f \in File : index[f] # Absent
                                 /\ (mode = "commit" => index[f] # head[f])}
        /\ clean' = \A f \in files' : work[f] = index[f]
        /\ at' = "format" /\ UNCHANGED status
     \/ fail(1) /\ UNCHANGED <<files, clean>>
  /\ UNCHANGED <<repo, bounds, mode, formatting, checking, needed>>

\* A line of git's input: a deleted, a new or an updated ref, and its files.
Update == [kind : {"delete", "new", "update"}, changed : Changes]

\* newBranchDiffBase: against the merge base, or against the empty tree without one.
diffNames(u) ==
  IF u.kind = "new" THEN {u.changed, u.changed \cup {f \in File : head[f] # Absent}}
                    ELSE {u.changed}

\* Mutant: the files of a ref replace those of the refs before it.
MutantLastRefOnly(input, names) ==
  IF input = <<>> THEN {} ELSE names[Len(input)]

\* pushedFilesWithDiffOptions: the union over the lines that push something, again of
\* names as git prints them.
pushedNames(input, names) ==
  UNION {names[i] : i \in {j \in DOMAIN input : input[j].kind # "delete"}}

\* pushedFiles, with the local history in place of an empty answer.
pushedFiles ==
  /\ at = "select" /\ mode = "push"
  /\ \E n \in 0..Cardinality(Ref) : \E input \in [1..n -> Update] :
     \E names \in [1..n -> SUBSET File] :
       /\ \A i \in 1..n : names[i] \in diffNames(input[i])
       /\ needed' = UNION {input[i].changed : i \in {j \in 1..n : input[j].kind # "delete"}}
       /\ \/ /\ files' = pushedNames(input, names) /\ files' # {}
             /\ at' = "groups" /\ UNCHANGED status
          \/ /\ pushedNames(input, names) = {}
             /\ files' \in Changes \cup {{}}
             /\ at' = "groups" /\ UNCHANGED status
          \/ fail(1) /\ UNCHANGED files
  /\ UNCHANGED <<repo, bounds, mode, formatting, checking, clean>>

-----------------------------------------------------------------------------
(* The format group                                                        *)

\* runFormatGroup: nothing to format, or a snapshot first, without the files that
\* cannot be read.
runFormatGroup ==
  /\ at = "format"
  /\ \E S \in IF mode = "commit" THEN SUBSET formatGroupFiles ELSE {{}} :
       snap' = [f \in File |-> IF f \in S THEN Unread ELSE work[f]]
  /\ at' = IF formatGroupFiles = {} THEN "groups" ELSE "text"
  /\ UNCHANGED <<repo, bounds, mode, files, status, lane, checking, needed,
                 clean>>

\* A formatter rewrites the files it is given, or some of them and fails.
Worktrees(S, step, ok) ==
  {[f \in File |-> IF f \in T /\ work[f].done < step
                   THEN [work[f] EXCEPT !.done = step] ELSE work[f]] :
     T \in IF ok THEN {S} ELSE SUBSET S}

fixText ==
  /\ at = "text"
  /\ \E ok \in BOOLEAN :
       /\ work' \in Worktrees(selected, 1, ok)
       /\ IF ok THEN /\ at' = "lanes"
                     /\ lane' = [l \in {"py", "go"} |-> "1"] /\ UNCHANGED status
                ELSE fail(1) /\ UNCHANGED lane
  /\ UNCHANGED <<head, index, elsewhere, bounds, mode, files, snap, checking,
                 needed, clean>>

\* A lane that has no file, or whose last formatter succeeded, is done.
runFormatter(l, place, step, next) ==
  /\ at \notin {"idle", "end"} /\ lane[l] = place
  /\ IF ofLanguage(selected, l) = {}
     THEN lane' = [lane EXCEPT ![l] = next] /\ UNCHANGED work
     ELSE \E ok \in BOOLEAN :
            /\ work' \in Worktrees(ofLanguage(selected, l), step, ok)
            /\ lane' = [lane EXCEPT ![l] = IF ok THEN next ELSE "failed"]
  /\ UNCHANGED <<head, index, elsewhere, bounds, at, mode, files, status, snap,
                 checking, needed, clean>>

runPyupgrade == runFormatter("py", "1", 2, "2")
runRuffFormat == runFormatter("py", "2", 3, "3")
runRuffAutofix == runFormatter("py", "3", 4, "ok")
runGofmtWrite == runFormatter("go", "1", 2, "ok")

\* Mutant: goes on when one lane is done.
MutantWaitForOne ==
  /\ at = "lanes" /\ \E l \in {"py", "go"} : lane[l] \in {"ok", "failed"}
  /\ IF \E l \in {"py", "go"} : lane[l] = "failed" THEN fail(1)
                                                   ELSE at' = "restage" /\ UNCHANGED status
  /\ UNCHANGED <<repo, bounds, mode, files, formatting, checking, needed,
                 clean>>

formatWait ==
  /\ at = "lanes" /\ \A l \in {"py", "go"} : lane[l] \in {"ok", "failed"}
  /\ IF \E l \in {"py", "go"} : lane[l] = "failed" THEN fail(1)
                                                   ELSE at' = "restage" /\ UNCHANGED status
  /\ UNCHANGED <<repo, bounds, mode, files, formatting, checking, needed,
                 clean>>

changedExistingFiles == {f \in selected : snap[f] # Unread /\ work[f] # snap[f]}

\* Mutant: what was formatted is not staged.
MutantNoRestage ==
  /\ at = "restage"
  /\ at' = "groups"
  /\ UNCHANGED <<repo, bounds, mode, files, status, formatting, checking,
                 needed, clean>>

\* restageFiles: git add of what changed and can still be read, which may fail, and
\* does while git holds the lock of the index; not with --all-files.
restageFiles ==
  /\ at = "restage"
  /\ \E S \in IF mode = "commit" THEN SUBSET changedExistingFiles ELSE {{}} :
       LET changed == IF mode = "commit" THEN changedExistingFiles \ S ELSE {} IN
       /\ snap' = [f \in File |-> IF f \in S THEN Unread ELSE snap[f]]
       /\ \/ /\ changed = {} \/ ~foreign
             /\ index' = [f \in File |-> IF f \in changed THEN work[f] ELSE index[f]]
             /\ at' = "groups" /\ UNCHANGED status
          \/ changed # {} /\ fail(1) /\ UNCHANGED index
  /\ UNCHANGED <<head, work, elsewhere, bounds, mode, files, lane, checking,
                 needed, clean>>

-----------------------------------------------------------------------------
(* The groups                                                              *)

filtered(c) == IF Filter[c] = "any" THEN files ELSE ofLanguage(files, Filter[c])

matchesFiles(g) ==
  \E c \in CommandsOf(g) : Filter[c] = "any" \/ filtered(c) # {}

Groups == CASE at = "ai" -> {"ai"} [] mode = "push" -> PushGroup [] OTHER -> Group

\* runNamedHookGroups: the groups that have something to do start together.
runNamedHookGroups ==
  /\ at \in {"groups", "ai"} /\ \A g \in Groups : group[g].state = "off"
  /\ group' = [g \in AllGroups |->
                IF g \notin Groups THEN group[g]
                ELSE [group[g] EXCEPT !.state = IF matchesFiles(g) THEN "run" ELSE "skipped"]]
  /\ UNCHANGED <<repo, bounds, at, mode, files, status, formatting, verdict,
                 read, needed, clean>>

\* Mutant: a group is as good as its last command.
MutantLastExit(current, next) == next

firstNonZeroExit(current, next) == IF current # 0 \/ next = 0 THEN current ELSE next

\* runFilteredHookCommand: 0 without files, else what the command says of them.
runCommand(g, c, code) ==
  /\ code \in IF Filter[c] # "any" /\ filtered(c) = {} THEN {0} ELSE {0, 1}
  /\ verdict' = [verdict EXCEPT ![c] =
                   CASE code = 1 -> "fail"
                     [] Filter[c] # "any" /\ filtered(c) = {} -> "skip"
                     [] OTHER -> "pass"]
  /\ read' = [read EXCEPT ![c] = [f \in File |->
                IF f \in existingFiles(filtered(c)) THEN work[f] ELSE Absent]]
  /\ UNCHANGED <<repo, bounds, at, mode, files, status, formatting, needed,
                 clean>>

seqEnd(g) == IF ParallelAfter[g] <= 0 THEN Len(Commands[g]) ELSE ParallelAfter[g]

\* The sequential prefix, whose failures only the AI group heeds at once ...
runSequential(g) ==
  /\ group[g].state = "run" /\ group[g].next <= seqEnd(g)
  /\ LET c == Commands[g][group[g].next] IN
     \E code \in {0, 1} :
       /\ runCommand(g, c, code)
       /\ LET e == firstNonZeroExit(group[g].exit, code)
              last == group[g].next = seqEnd(g)
              rest == ToSet(SubSeq(Commands[g], seqEnd(g) + 1, Len(Commands[g])))
          IN  group' = [group EXCEPT ![g] =
                [next |-> @.next + 1, exit |-> e,
                 par |-> IF last /\ ~(e # 0 /\ g = "ai") THEN rest ELSE {},
                 state |-> IF last /\ (rest = {} \/ (e # 0 /\ g = "ai"))
                           THEN "done" ELSE "run"]]

\* ... then the rest, all at once.
runParallel(g) ==
  /\ group[g].state = "run" /\ group[g].next > seqEnd(g)
  /\ \E c \in group[g].par, code \in {0, 1} :
       /\ runCommand(g, c, code)
       /\ group' = [group EXCEPT ![g].par = @ \ {c},
                                 ![g].exit = firstNonZeroExit(@, code),
                                 ![g].state = IF group[g].par = {c} THEN "done" ELSE "run"]

\* runHookGroupsInProcess waits for all of them; then the AI group, or the full
\* check of a push, unless one failed.
groupWait ==
  /\ at \in {"groups", "ai"} /\ \A g \in Groups : group[g].state \in {"skipped", "done"}
  /\ LET failed == \E g \in Groups : group[g].exit # 0
     IN  \/ failed /\ fail(1)
         \/ ~failed /\ at = "ai" /\ fail(0)
         \/ ~failed /\ at = "groups" /\ UNCHANGED status
            /\ at' = IF mode = "push" THEN "full" ELSE "ai"
  /\ UNCHANGED <<repo, bounds, mode, files, formatting, checking, needed,
                 clean>>

runGeminiCheck ==
  /\ at = "full"
  /\ \E code \in {0, 1} : fail(code)
  /\ UNCHANGED <<repo, bounds, mode, files, formatting, checking, needed,
                 clean>>

Hook ==
  \/ hookFilesForPreCommit \/ pushedFiles
  \/ runFormatGroup \/ fixText \/ formatWait \/ restageFiles
  \/ runPyupgrade \/ runRuffFormat \/ runRuffAutofix \/ runGofmtWrite
  \/ runNamedHookGroups \/ \E g \in AllGroups : runSequential(g) \/ runParallel(g)
  \/ groupWait \/ runGeminiCheck

GitNext ==
  \/ Hook \/ Interrupt \/ Finish
  \/ \E f \in File : Edit(f) \/ Add(f)
  \/ \E m \in {"commit", "all", "push"} : Start(m)

GitSpec == GitInit /\ [][GitNext]_gitVars

-----------------------------------------------------------------------------
Accepted(m) == at = "end" /\ status = 0 /\ mode = m

looksAt(c, f) == Filter[c] \in {"any", Lang[f]}

\* A commit from the index, whose selected files were as in the worktree and that
\* nobody touched since, commits formatted contents, the ones in the worktree, and
\* every command for such a file read exactly what is committed of it; except for
\* files that git names in another way, and those that could not be read when the
\* format group compared them.
CleanCommitIsChecked ==
  Accepted("commit") /\ clean /\ ~foreign =>
    \A f \in File \ Unseen :
      committed[f] \notin {head[f], Absent} /\ snap[f] # Unread =>
        /\ committed[f] = work[f] /\ formatted(f, committed[f])
        /\ \A g \in AllGroups : \A c \in CommandsOf(g) :
             looksAt(c, f) => read[c][f] = committed[f]

\* A hook that lets git go on has run every command of every group it started, the
\* AI group after the others, none of them failed, and a group it skipped had
\* nothing to look at.
ExitReflectsCommands ==
  \A m \in {"commit", "all", "push"} : Accepted(m) =>
    \A g \in IF m = "push" THEN PushGroup ELSE AllGroups :
      /\ group[g].state = "done" => \A c \in CommandsOf(g) : verdict[c] \in {"pass", "skip"}
      /\ group[g].state # "done" => group[g].state = "skipped" /\ (clean => ~matchesFiles(g))

\* Once the checks have started, the hook itself changes neither worktree nor
\* index: what two groups read at different moments differs only by the author.
ChecksSeeOneTree ==
  [][(\E g \in AllGroups : group[g].state # "off") /\ Hook
       => UNCHANGED <<index, work>>]_gitVars

\* In a push that passes every command for a file of a ref, new branches included
\* and however many refs there are, read that file as it is in the worktree, and had
\* nothing against it; except for files that git names in another way.
PushedIsChecked ==
  Accepted("push") /\ clean =>
    \A f \in existingFiles(needed) : \A g \in PushGroup : \A c \in CommandsOf(g) :
      looksAt(c, f) => verdict[c] = "pass" /\ read[c][f] = work[f]
=============================================================================
