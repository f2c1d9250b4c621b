---------------------------- MODULE MCHookSession ----------------------------
(* A handful of events that touch the same parts of the record, for TLC.    *)
EXTENDS HookSession

CONSTANT r1

Plain(name) == [name |-> name, tool |-> "None", files |-> FALSE, text |-> FALSE,
                empty |-> TRUE, edit |-> FALSE, rc |-> FALSE, status |-> FALSE,
                blocked |-> FALSE, rems |-> <<>>]
Bash(name) == [Plain(name) EXCEPT !.tool = "Bash"]

MCEvent ==
  {[Plain("SubagentStart") EXCEPT !.text = TRUE, !.empty = FALSE],
   Plain("SubagentStop"), Plain("PostToolBatch"),
   Plain("SessionEnd"), Bash("PreToolUse"),
   [Bash("PreToolUse") EXCEPT !.blocked = TRUE, !.rems = <<r1>>],
   Bash("PostToolUse"), [Bash("PostToolUse") EXCEPT !.rc = TRUE]}
=============================================================================
