----------------------------- MODULE TaskWorkflow -----------------------------
(***************************************************************************)
(* The task workflow of the command line (cli.py, execution.py,            *)
(* file_writer.py, repository.py, completion_store.py): a run generates a  *)
(* proposal, somebody approves it, the worker writes the allowed files,    *)
(* runs the validation commands and records the completion.                *)
(*                                                                         *)
(* One worker process at a time, beside a user who edits, reverts and      *)
(* commits.  The process may be killed between any two system calls.  The  *)
(* task stays the same, so task_sha256 does, and every proposal writes     *)
(* "new" to the files it changes.  A command that is refused (the task is  *)
(* completed, a file is dirty, the commit changed, a saved file no longer  *)
(* has its hash, the proposal no longer validates) or whose generation     *)
(* fails changes nothing: there is no step for a refusal.                  *)
(***************************************************************************)
EXTENDS Naturals, FiniteSets

CONSTANTS
  Files,        \* allowed_files of the task, none with a leading dot
  NewDirs,      \* those in a directory Git does not track yet, or ignored by it
  Modes,        \* how the worker is run: --codex, --yes, or with the prompt
  EditDuring,   \* where the worker may be when the user does something
  MaxCommits,   \* bound on the user's commits
  None

\* A file's content: "none" if there is no such file, "torn" while it is copied.
Contents == {"none", "old", "user", "new", "torn"}

ASSUME WorkflowAssumption ==
  /\ IsFiniteSet(Files)
  /\ None \notin Files \cup Contents
  /\ NewDirs \subseteq Files
  /\ Modes \subseteq {"codex", "yes", "prompt"}
  /\ MaxCommits \in Nat

Proposal ==
  [changes : SUBSET Files \ {{}}, commit : 0 .. MaxCommits,
   basis : [Files -> Contents]]

VARIABLES
  files,      \* the working tree
  head,       \* the commit checked out
  commit,     \* its hash
  proposals,  \* reports that hold a proposal, neither deleted nor altered
  done,       \* the completion state: the content recorded of each file
  pc,         \* what the worker is doing
  todo,       \* files of the proposal still to be written
  cur,        \* the file in hand
  backup,     \* this run's backup directory
  applied,    \* files replaced and not yet rolled back
  temps,      \* temporary_paths
  failed,     \* whether rollback_errors is not empty
  restored,   \* history: the last application failed and was rolled back
  before,     \* history: the tree when the application began, or the user acted
  tested,     \* history: what the validation commands started with
  validated   \* history: what they have passed with

worktree == <<files, head, commit>>
writer == <<todo, cur, backup, applied, temps, failed>>
history == <<restored, before, tested, validated>>
vars == <<worktree, proposals, done, pc, writer, history>>

Init ==
  /\ head \in [Files -> {"none", "old"}]
  /\ files = head
  /\ commit = 0
  /\ proposals = {}
  /\ done = [f \in {} |-> None]
  /\ pc = "idle"
  /\ todo = {}
  /\ cur = None
  /\ backup = [f \in Files |-> None]
  /\ applied = {}
  /\ temps = {}
  /\ failed = FALSE
  /\ restored = FALSE
  /\ before = head
  /\ tested = {}
  /\ validated = {}

-----------------------------------------------------------------------------

\* The user leaves the tree as given; it is the user's from then on.
UserActs(tree) ==
  /\ pc \in EditDuring
  /\ restored' = FALSE
  /\ files' = tree
  /\ before' = tree
  /\ UNCHANGED <<done, pc, writer, tested, validated>>

Edit(f) ==
  /\ UserActs([files EXCEPT ![f] = "user"])
  /\ UNCHANGED <<head, commit, proposals>>

\* git restore, or git clean for a file Git does not know.
Revert(f) ==
  /\ UserActs([files EXCEPT ![f] = head[f]])
  /\ UNCHANGED <<head, commit, proposals>>

Commit ==
  /\ UserActs(files)
  /\ commit < MaxCommits
  /\ files # head
  /\ head' = files
  /\ commit' = commit + 1
  /\ UNCHANGED proposals

\* A report is deleted, or altered so that its hashes no longer match.
Spoil(p) ==
  /\ UserActs(files)
  /\ proposals' = proposals \ {p}
  /\ UNCHANGED <<head, commit>>

-----------------------------------------------------------------------------

\* inspect_repository compares the allowed paths with those git status prints;
\* of an untracked directory git status prints the directory, not its files, and
\* of what .gitignore names it prints nothing.
Reported(f) ==
  /\ files[f] # head[f]
  /\ ~(f \in NewDirs /\ head[f] = "none")

Clean == \A f \in Files : ~Reported(f)

\* is_task_completed
Completed ==
  /\ DOMAIN done # {}
  /\ \A f \in DOMAIN done : files[f] = done[f]

\* The process ends and its variables go with it; backups stay on disk.
Ends ==
  /\ pc' = "idle"
  /\ todo' = {}
  /\ cur' = None
  /\ applied' = {}
  /\ temps' = {}
  /\ failed' = FALSE
  /\ tested' = {}
  /\ UNCHANGED backup

\* run: neither completed nor dirty, so the provider is asked.
StartRun ==
  /\ pc = "idle"
  /\ ~Completed
  /\ Clean
  /\ pc' = "generating"
  /\ UNCHANGED <<worktree, proposals, done, writer, history>>

\* The provider, or both attempts, failed: a report and no proposal.
GenerationFails ==
  /\ pc = "generating"
  /\ Ends
  /\ UNCHANGED <<worktree, proposals, done, restored, before, validated>>

\* apply_generated_files begins with a new backup directory and empty lists.
Applying(changes) ==
  /\ pc' = "applying"
  /\ todo' = changes
  /\ cur' = None
  /\ backup' = [f \in Files |-> None]
  /\ applied' = {}
  /\ temps' = {}
  /\ failed' = FALSE
  /\ restored' = FALSE
  /\ before' = files
  /\ UNCHANGED <<tested, validated>>

\* A mutant of Acceptable: a proposal without files passes.
AcceptableEmpty == SUBSET Files

\* validate_generated_changes: allowed files, at least one, each once.
Acceptable == SUBSET Files \ {{}}

\* A valid response is saved as a proposal; --codex ends there, --yes goes on.
\* The model keeps the last report only.  basis is history: a patch is resolved
\* against the files as they are now.
Generated(changes) ==
  /\ pc = "generating"
  /\ proposals' = {[changes |-> changes, commit |-> commit, basis |-> files]}
  /\ \/ /\ "codex" \in Modes
        /\ Ends
        /\ UNCHANGED <<restored, before, validated>>
     \/ /\ "prompt" \in Modes
        /\ pc' = "asking"
        /\ UNCHANGED <<writer, history>>
     \/ /\ "yes" \in Modes
        /\ Applying(changes)
  /\ UNCHANGED <<worktree, done>>

\* "Apply generated changes? [y/N]": nothing is checked again.
Approve(p) ==
  /\ pc = "asking"
  /\ Applying(p.changes)
  /\ UNCHANGED <<worktree, proposals, done>>

Decline ==
  /\ pc = "asking"
  /\ Ends
  /\ UNCHANGED <<worktree, proposals, done, restored, before, validated>>

\* Mutants of MayApply: the tree, or the commit, is not looked at again.
MayApplyDirty(p) == ~Completed /\ p.commit = commit
MayApplyAnywhere(p) == ~Completed /\ Clean

\* apply_proposal_command
MayApply(p) ==
  /\ ~Completed
  /\ Clean
  /\ p.commit = commit

StartApply(p) ==
  /\ pc = "idle"
  /\ MayApply(p)
  /\ Applying(p.changes)
  /\ UNCHANGED <<worktree, proposals, done>>

-----------------------------------------------------------------------------

\* A mutant of BackedUp: no copy is made.
BackedUpNothing(f) == backup

\* The copy of an existing target; None stands for backup_path None.
BackedUp(f) ==
  [backup EXCEPT ![f] = IF files[f] = "none" THEN None ELSE files[f]]

BackUp(f) ==
  /\ pc = "applying"
  /\ f \in todo
  /\ backup' = BackedUp(f)
  /\ cur' = f
  /\ pc' = "staging"
  /\ UNCHANGED <<worktree, proposals, done, todo, applied, temps, failed, history>>

\* mkstemp, write, fsync.
WriteTemp ==
  /\ pc = "staging"
  /\ temps' = temps \cup {cur}
  /\ pc' = "replacing"
  /\ UNCHANGED <<worktree, proposals, done, todo, cur, backup, applied, failed,
                 history>>

\* A mutant of AfterReplace: the file is forgotten before it is rolled back.
NotNoted(f) == applied

AfterReplace(f) == applied \cup {f}

\* os.replace is atomic.
Replace ==
  /\ pc = "replacing"
  /\ files' = [files EXCEPT ![cur] = "new"]
  /\ temps' = temps \ {cur}
  /\ applied' = AfterReplace(cur)
  /\ todo' = todo \ {cur}
  /\ cur' = None
  /\ pc' = "applying"
  /\ UNCHANGED <<head, commit, proposals, done, backup, failed, history>>

\* An OSError anywhere in the loop; mkstemp may or may not have made the file.
WriteFails ==
  /\ \/ /\ pc = "applying"
        /\ todo # {}
        /\ UNCHANGED temps
     \/ /\ pc = "staging"
        /\ temps' \in {temps, temps \cup {cur}}
     \/ /\ pc = "replacing"
        /\ UNCHANGED temps
  /\ pc' = "rollback"
  /\ cur' = None
  /\ UNCHANGED <<worktree, proposals, done, todo, backup, applied, failed, history>>

\* Rolling back a file that was not there.
Unlink(f) ==
  /\ pc = "rollback"
  /\ cur = None
  /\ f \in applied
  /\ backup[f] = None
  /\ files' = [files EXCEPT ![f] = "none"]
  /\ applied' = applied \ {f}
  /\ UNCHANGED <<head, commit, proposals, done, pc, todo, cur, backup, temps,
                 failed, history>>

\* copy2 truncates the target ...
CopyBegins(f) ==
  /\ pc = "rollback"
  /\ cur = None
  /\ f \in applied
  /\ backup[f] # None
  /\ files' = [files EXCEPT ![f] = "torn"]
  /\ cur' = f
  /\ UNCHANGED <<head, commit, proposals, done, pc, todo, backup, applied, temps,
                 failed, history>>

\* ... and fills it.
CopyEnds ==
  /\ pc = "rollback"
  /\ cur # None
  /\ files' = [files EXCEPT ![cur] = backup[cur]]
  /\ applied' = applied \ {cur}
  /\ cur' = None
  /\ UNCHANGED <<head, commit, proposals, done, pc, todo, backup, temps, failed,
                 history>>

\* An error of one file's rollback is noted and the next file follows.
RestoreFails(f) ==
  /\ pc = "rollback"
  /\ cur \in {None, f}
  /\ f \in applied
  /\ applied' = applied \ {f}
  /\ cur' = None
  /\ failed' = TRUE
  /\ UNCHANGED <<worktree, proposals, done, pc, todo, backup, temps, history>>

\* The temporary files are removed and FileWriteError is raised.
RollbackEnds ==
  /\ pc = "rollback"
  /\ applied = {}
  /\ temps' = {}
  /\ restored' = ~failed
  /\ pc' = "idle"
  /\ todo' = {}
  /\ failed' = FALSE
  /\ UNCHANGED <<worktree, proposals, done, cur, backup, applied, before, tested,
                 validated>>

-----------------------------------------------------------------------------

\* Everything is written: the validation commands start ...
StartCommands ==
  /\ pc = "applying"
  /\ todo = {}
  /\ tested' = {<<f, files[f]>> : f \in applied}
  /\ pc' = "validating"
  /\ UNCHANGED <<worktree, proposals, done, writer, restored, before, validated>>

\* ... and all pass.  A command that rewrites files while it runs (ruff --fix, a
\* script) is an Edit with "validating" in EditDuring,
CommandsPass ==
  /\ pc = "validating"
  /\ validated' = validated \cup tested
  /\ pc' = "recording"
  /\ UNCHANGED <<worktree, proposals, done, writer, restored, before, tested>>

\* A mutant of CommandsFail: the completion is recorded all the same.
CommandsFailUnnoticed ==
  /\ pc = "validating"
  /\ pc' = "recording"
  /\ UNCHANGED <<worktree, proposals, done, writer, history>>

\* or one fails or times out: the files stay as they are, for review.
CommandsFail ==
  /\ pc = "validating"
  /\ Ends
  /\ UNCHANGED <<worktree, proposals, done, restored, before, validated>>

\* write_completion_state hashes the files again, and raises if one is gone.
Recordable == \A f \in applied : files[f] # "none"

Record ==
  /\ pc = "recording"
  /\ \/ /\ Recordable
        /\ done' = [f \in applied |-> files[f]]
     \/ /\ ~Recordable
        /\ UNCHANGED done
  /\ Ends
  /\ UNCHANGED <<worktree, proposals, restored, before, validated>>

\* The process is killed: there is no rollback.  Temporary files stay behind,
\* but no run looks at them again.
Crash ==
  /\ pc # "idle"
  /\ Ends
  /\ UNCHANGED <<worktree, proposals, done, restored, before, validated>>

UserStep ==
  \/ \E f \in Files : Edit(f) \/ Revert(f)
  \/ Commit
  \/ \E p \in proposals : Spoil(p)

WriterStep ==
  \/ \E f \in Files : BackUp(f)
  \/ WriteTemp
  \/ Replace
  \/ WriteFails
  \/ \E f \in Files : Unlink(f) \/ CopyBegins(f) \/ RestoreFails(f)
  \/ CopyEnds
  \/ RollbackEnds

WorkerStep ==
  \/ StartRun
  \/ GenerationFails
  \/ \E changes \in Acceptable : Generated(changes)
  \/ \E p \in proposals : Approve(p) \/ StartApply(p)
  \/ Decline
  \/ WriterStep
  \/ StartCommands
  \/ CommandsPass
  \/ CommandsFail
  \/ Record
  \/ Crash

Next == UserStep \/ WorkerStep

Spec == Init /\ [][Next]_vars

-----------------------------------------------------------------------------

TypeOK ==
  /\ files \in [Files -> Contents]
  /\ head \in [Files -> Contents]
  /\ commit \in 0 .. MaxCommits
  /\ proposals \subseteq Proposal
  /\ DOMAIN done \subseteq Files
  /\ \A f \in DOMAIN done : done[f] \in Contents
  /\ pc \in {"idle", "generating", "asking", "applying", "staging", "replacing",
             "rollback", "validating", "recording"}
  /\ todo \subseteq Files
  /\ cur \in Files \cup {None}
  /\ backup \in [Files -> Contents \cup {None}]
  /\ applied \subseteq Files
  /\ temps \subseteq Files
  /\ failed \in BOOLEAN
  /\ restored \in BOOLEAN
  /\ before \in [Files -> Contents]
  /\ tested \subseteq Files \X Contents
  /\ validated \subseteq Files \X Contents

\* Wherever the worker is killed or fails, its own rollback included, each file
\* keeps the content it had when the application began, or the run's backup
\* directory does; a file that did not exist needs no backup.
NothingIsLost ==
  \A f \in Files : before[f] \in {"none", files[f], backup[f]}

\* docs/task-workflow.md: "If application writes fail, already replaced files are
\* restored from the run backup" - whichever write fails, created files and
\* temporary files included, unless the rollback reports an error of its own.
FailedWriteRestores == restored => files = before /\ temps = {}

\* docs/task-workflow.md: "an allowed file that was already modified blocks
\* generation/application.  This prevents the proposal from overwriting user
\* work": the worker replaces only what the checked-out commit holds.
UserWorkSurvives ==
  [][pc = "replacing" /\ pc' = "applying" => files[cur] = head[cur]]_vars

\* A proposal replaces the text it was made from: what is applied after the
\* approval, however late, has the basis the model was shown.
ReplacesItsBasis ==
  [][\A p \in proposals :
       pc = "replacing" /\ pc' = "applying" => files[cur] = p.basis[cur]]_vars

\* cli.py answers already_completed with "The approved proposal was already
\* applied and validated": the files it finds are those the commands ran on.
CompletedMeansValidated ==
  Completed => \A f \in DOMAIN done : <<f, files[f]>> \in validated

=============================================================================
