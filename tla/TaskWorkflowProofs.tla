-------------------------- MODULE TaskWorkflowProofs --------------------------
(***************************************************************************)
(* Theorems about module TaskWorkflow, for any files, modes and number of  *)
(* commits.  What a theorem needs of the user is its hypothesis: the       *)
(* phases of the worker in which the user leaves the tree alone.           *)
(***************************************************************************)
EXTENDS TaskWorkflow, TLAPS

\* Where the worker's own writes would meet the user's.
Writing == {"applying", "staging", "replacing", "rollback"}

-----------------------------------------------------------------------------
(* Types.                                                                  *)

\* The file the worker has in hand is one it may have in hand.
InHand ==
  /\ pc \in {"staging", "replacing"} => cur \in todo
  /\ pc = "rollback" /\ cur # None => cur \in applied /\ backup[cur] # None
  /\ pc \notin {"staging", "replacing", "rollback"} => cur = None

Typed == TypeOK /\ InHand

LEMMA InitTyped == Init => Typed
<1> SUFFICES ASSUME Init PROVE Typed
  OBVIOUS
<1>1. head \in [Files -> Contents] /\ files = head /\ before = head
  BY DEF Init, Contents
<1>2. 0 \in 0 .. MaxCommits
  BY WorkflowAssumption
<1> QED
  BY <1>1, <1>2 DEF Init, Typed, TypeOK, InHand

LEMMA UserTyped ==
  ASSUME Typed, UserStep
  PROVE  Typed'
<1> USE DEF Typed, TypeOK, InHand, UserActs, writer, Contents
<1>1. ASSUME NEW f \in Files, Edit(f) PROVE Typed'
  BY <1>1 DEF Edit
<1>2. ASSUME NEW f \in Files, Revert(f) PROVE Typed'
  BY <1>2 DEF Revert
<1>3. ASSUME Commit PROVE Typed'
  <2>1. commit' \in 0 .. MaxCommits
    BY <1>3, WorkflowAssumption DEF Commit
  <2> QED
    BY <1>3, <2>1 DEF Commit
<1>4. ASSUME NEW p \in proposals, Spoil(p) PROVE Typed'
  BY <1>4 DEF Spoil
<1> QED
  BY <1>1, <1>2, <1>3, <1>4 DEF UserStep

LEMMA WriterTyped ==
  ASSUME Typed, WriterStep
  PROVE  Typed'
<1> USE WorkflowAssumption DEF Typed, TypeOK, InHand, worktree, history
<1>1. ASSUME NEW f \in Files, BackUp(f) PROVE Typed'
  BY <1>1 DEF BackUp, BackedUp, Contents
<1>2. ASSUME WriteTemp PROVE Typed'
  BY <1>2 DEF WriteTemp
<1>3. ASSUME Replace PROVE Typed'
  BY <1>3 DEF Replace, AfterReplace, Contents
<1>4. ASSUME WriteFails PROVE Typed'
  BY <1>4 DEF WriteFails
<1>5. ASSUME NEW f \in Files, Unlink(f) \/ CopyBegins(f) \/ RestoreFails(f) PROVE Typed'
  BY <1>5 DEF Unlink, CopyBegins, RestoreFails, Contents
<1>6. ASSUME CopyEnds PROVE Typed'
  BY <1>6 DEF CopyEnds
<1>7. ASSUME RollbackEnds PROVE Typed'
  BY <1>7 DEF RollbackEnds
<1> QED
  BY <1>1, <1>2, <1>3, <1>4, <1>5, <1>6, <1>7 DEF WriterStep

\* The steps of a worker command before and after it writes.
LEMMA CommandTyped ==
  ASSUME Typed,
         \/ StartRun \/ GenerationFails \/ Decline \/ StartCommands \/ CommandsPass
         \/ CommandsFail \/ Record \/ Crash
         \/ \E changes \in Acceptable : Generated(changes)
         \/ \E p \in proposals : Approve(p) \/ StartApply(p)
  PROVE  Typed'
<1> USE WorkflowAssumption
    DEF Typed, TypeOK, InHand, worktree, writer, history, Ends, Applying, Proposal
<1>1. ASSUME StartRun PROVE Typed'
  BY <1>1 DEF StartRun
<1>2. ASSUME GenerationFails \/ Decline \/ CommandsFail \/ Crash PROVE Typed'
  BY <1>2 DEF GenerationFails, Decline, CommandsFail, Crash
<1>3. ASSUME NEW changes \in Acceptable, Generated(changes) PROVE Typed'
  <2>1. proposals' \subseteq Proposal /\ changes \subseteq Files
    BY <1>3 DEF Generated, Acceptable
  <2> QED
    BY <1>3, <2>1 DEF Generated
<1>4. ASSUME NEW p \in proposals, Approve(p) \/ StartApply(p) PROVE Typed'
  BY <1>4 DEF Approve, StartApply
<1>5. ASSUME StartCommands PROVE Typed'
  BY <1>5 DEF StartCommands
<1>6. ASSUME CommandsPass PROVE Typed'
  BY <1>6 DEF CommandsPass
<1>7. ASSUME Record PROVE Typed'
  BY <1>7 DEF Record
<1> QED
  BY <1>1, <1>2, <1>3, <1>4, <1>5, <1>6, <1>7

LEMMA NextTyped == Typed /\ [Next]_vars => Typed'
<1>1. ASSUME Typed, UNCHANGED vars PROVE Typed'
  BY <1>1 DEF Typed, TypeOK, InHand, vars, worktree, writer, history
<1> QED
  BY <1>1, UserTyped, WriterTyped, CommandTyped DEF Next, WorkerStep

\* Type correctness of a worker and its user, kills included.
THEOREM TypeCorrect == Spec => []TypeOK
<1>1. Spec => []Typed
  BY InitTyped, NextTyped, PTL DEF Spec
<1> QED
  BY <1>1, PTL DEF Typed

-----------------------------------------------------------------------------
(* Nothing is lost, and a failed write is undone.                          *)

\* The backup of a file is what the application found, and says if it was there.
Saved(f) == backup[f] = IF before[f] = "none" THEN None ELSE before[f]

\* While the files are replaced and rolled back, each is as it was before or has
\* its backup; what a rollback could not restore still has it.
Recoverable ==
  /\ pc \in {"applying", "staging", "replacing"} =>
       /\ applied \cap todo = {}
       /\ ~failed
       /\ \A f \in Files \ applied : files[f] = before[f]
  /\ pc \in Writing => \A f \in applied : Saved(f)
  /\ pc \in {"staging", "replacing"} => Saved(cur)
  /\ pc = "rollback" =>
       \A f \in Files \ applied :
         files[f] = before[f] \/ (failed /\ before[f] \in {"none", backup[f]})
  /\ restored => pc \in {"idle", "generating", "asking"} /\ temps = {} /\ files = before

Kept == Recoverable /\ NothingIsLost

LEMMA InitKept == Init => Kept
BY DEF Init, Kept, Recoverable, NothingIsLost, Writing

LEMMA UserKept ==
  ASSUME EditDuring \cap Writing = {}, Typed, Kept, UserStep
  PROVE  Kept'
<1>1. \E tree : UserActs(tree)
  BY DEF UserStep, Edit, Revert, Commit, Spoil
<1>2. PICK tree : UserActs(tree)
  BY <1>1
<1> QED
  BY <1>2 DEF UserActs, writer, Kept, Recoverable, NothingIsLost, Writing

LEMMA WriterKept ==
  ASSUME Typed, Kept, WriterStep
  PROVE  Kept'
<1> USE WorkflowAssumption
    DEF Typed, TypeOK, InHand, Kept, Recoverable, NothingIsLost, Saved, Writing,
        worktree, history
<1>1. ASSUME NEW f \in Files, BackUp(f) PROVE Kept'
  BY <1>1 DEF BackUp, BackedUp
<1>2. ASSUME WriteTemp PROVE Kept'
  BY <1>2 DEF WriteTemp
<1>3. ASSUME Replace PROVE Kept'
  BY <1>3 DEF Replace, AfterReplace
<1>4. ASSUME WriteFails PROVE Kept'
  BY <1>4 DEF WriteFails
<1>5. ASSUME NEW f \in Files, Unlink(f) PROVE Kept'
  BY <1>5 DEF Unlink
<1>6. ASSUME NEW f \in Files, CopyBegins(f) PROVE Kept'
  BY <1>6 DEF CopyBegins
<1>7. ASSUME NEW f \in Files, RestoreFails(f) PROVE Kept'
  BY <1>7 DEF RestoreFails
<1>8. ASSUME CopyEnds PROVE Kept'
  BY <1>8 DEF CopyEnds
<1>9. ASSUME RollbackEnds PROVE Kept'
  <2>1. ~failed => files = before
    BY <1>9 DEF RollbackEnds
  <2> QED
    BY <1>9, <2>1 DEF RollbackEnds
<1> QED
  BY <1>1, <1>2, <1>3, <1>4, <1>5, <1>6, <1>7, <1>8, <1>9 DEF WriterStep

\* The other steps of a command leave the files alone; an application begins with
\* the tree as it is.
LEMMA CommandKept ==
  ASSUME Typed, Kept, WorkerStep, ~WriterStep
  PROVE  Kept'
<1> USE DEF Typed, TypeOK, InHand, Kept, Recoverable, NothingIsLost, Saved, Writing,
            worktree, writer, history
<1>1. ASSUME files' = files, NEW changes, Applying(changes) PROVE Kept'
  BY <1>1 DEF Applying
<1>2. ASSUME StartRun PROVE Kept'
  BY <1>2 DEF StartRun
<1>3. ASSUME GenerationFails \/ Decline \/ CommandsFail \/ Crash PROVE Kept'
  BY <1>3 DEF GenerationFails, Decline, CommandsFail, Crash, Ends
<1>4. ASSUME NEW changes \in Acceptable, Generated(changes) PROVE Kept'
  BY <1>1, <1>4 DEF Generated, Ends
<1>5. ASSUME NEW p \in proposals, Approve(p) \/ StartApply(p) PROVE Kept'
  BY <1>1, <1>5 DEF Approve, StartApply
<1>6. ASSUME StartCommands \/ CommandsPass PROVE Kept'
  BY <1>6 DEF StartCommands, CommandsPass
<1>7. ASSUME Record PROVE Kept'
  BY <1>7 DEF Record, Ends
<1> QED
  BY <1>2, <1>3, <1>4, <1>5, <1>6, <1>7 DEF WorkerStep

LEMMA NextKept ==
  ASSUME EditDuring \cap Writing = {}
  PROVE  Typed /\ Kept /\ [Next]_vars => Kept'
<1>1. ASSUME Kept, UNCHANGED vars PROVE Kept'
  BY <1>1 DEF vars, worktree, writer, history, Kept, Recoverable, NothingIsLost, Saved
<1> QED
  BY <1>1, UserKept, WriterKept, CommandKept DEF Next

LEMMA KeptHolds ==
  ASSUME EditDuring \cap Writing = {}
  PROVE  Spec => [](Typed /\ Kept)
BY InitTyped, NextTyped, InitKept, NextKept, PTL DEF Spec

\* Killed or failing anywhere in apply_generated_files, the worker leaves each
\* file as it was or its content in the backup directory, if nobody else edits
\* while it writes.
THEOREM NothingIsLostHolds ==
  ASSUME EditDuring \cap Writing = {}
  PROVE  Spec => []NothingIsLost
BY KeptHolds, PTL DEF Kept

\* A rollback that reports no error has restored the whole tree.
THEOREM FailedWriteRestoresHolds ==
  ASSUME EditDuring \cap Writing = {}
  PROVE  Spec => []FailedWriteRestores
<1>1. Kept => FailedWriteRestores
  BY DEF Kept, Recoverable, FailedWriteRestores
<1> QED
  BY <1>1, KeptHolds, PTL

-----------------------------------------------------------------------------
(* Only what is committed is replaced.                                     *)

\* The worker has been asked, or has begun to write what was.
Preparing == {"generating", "asking"}

\* What is not replaced yet is as it was committed, and a proposal for the commit
\* that is checked out was made from it.
FromHead ==
  /\ pc \in Preparing => files = head
  /\ pc \in {"applying", "staging", "replacing"} =>
       /\ applied \cap todo = {}
       /\ \A f \in Files \ applied : files[f] = head[f]
  /\ \A p \in proposals :
       /\ p.commit <= commit
       /\ p.commit = commit => p.basis = head
       /\ pc \in {"asking", "applying", "staging", "replacing"} => p.commit = commit
  /\ \A p, q \in proposals : p = q

LEMMA InitFromHead == Init => FromHead
BY DEF Init, FromHead, Preparing

LEMMA CleanIsHead ==
  ASSUME NewDirs = {}, Typed, Clean
  PROVE  files = head
BY DEF Typed, TypeOK, Clean, Reported

LEMMA UserFromHead ==
  ASSUME EditDuring \cap (Preparing \cup Writing) = {}, Typed, FromHead, UserStep
  PROVE  FromHead'
<1> USE DEF Typed, TypeOK, FromHead, UserActs, writer, Preparing, Writing, Proposal
<1>1. ASSUME NEW f \in Files, Edit(f) \/ Revert(f) PROVE FromHead'
  BY <1>1 DEF Edit, Revert
<1>2. ASSUME Commit PROVE FromHead'
  BY <1>2 DEF Commit
<1>3. ASSUME NEW p \in proposals, Spoil(p) PROVE FromHead'
  BY <1>3 DEF Spoil
<1> QED
  BY <1>1, <1>2, <1>3 DEF UserStep

LEMMA WriterFromHead ==
  ASSUME Typed, FromHead, WriterStep
  PROVE  FromHead'
<1> USE DEF Typed, TypeOK, InHand, FromHead, Preparing, worktree
<1>1. ASSUME NEW f \in Files, BackUp(f) PROVE FromHead'
  BY <1>1 DEF BackUp
<1>2. ASSUME WriteTemp PROVE FromHead'
  BY <1>2 DEF WriteTemp
<1>3. ASSUME Replace PROVE FromHead'
  BY <1>3 DEF Replace, AfterReplace
<1>4. ASSUME WriteFails PROVE FromHead'
  BY <1>4 DEF WriteFails
<1>5. ASSUME NEW f \in Files, Unlink(f) \/ CopyBegins(f) \/ RestoreFails(f) PROVE FromHead'
  BY <1>5 DEF Unlink, CopyBegins, RestoreFails
<1>6. ASSUME CopyEnds \/ RollbackEnds PROVE FromHead'
  BY <1>6 DEF CopyEnds, RollbackEnds
<1> QED
  BY <1>1, <1>2, <1>3, <1>4, <1>5, <1>6 DEF WriterStep

LEMMA CommandFromHead ==
  ASSUME NewDirs = {}, Typed, FromHead, WorkerStep, ~WriterStep
  PROVE  FromHead'
<1> USE DEF Typed, TypeOK, FromHead, Preparing, worktree, writer, Ends, Applying
<1>1. ASSUME StartRun PROVE FromHead'
  BY <1>1, CleanIsHead DEF StartRun
<1>2. ASSUME GenerationFails \/ Decline \/ CommandsFail \/ Crash PROVE FromHead'
  BY <1>2 DEF GenerationFails, Decline, CommandsFail, Crash
<1>3. ASSUME NEW changes \in Acceptable, Generated(changes) PROVE FromHead'
  <2>1. /\ \A p \in proposals' : p.commit = commit /\ p.basis = head
        /\ \A p, q \in proposals' : p = q
    BY <1>3 DEF Generated
  <2> QED
    BY <1>3, <2>1 DEF Generated
<1>4. ASSUME NEW p \in proposals, Approve(p) PROVE FromHead'
  BY <1>4 DEF Approve
<1>5. ASSUME NEW p \in proposals, StartApply(p) PROVE FromHead'
  BY <1>5, CleanIsHead DEF StartApply, MayApply
<1>6. ASSUME StartCommands \/ CommandsPass \/ Record PROVE FromHead'
  BY <1>6 DEF StartCommands, CommandsPass, Record
<1> QED
  BY <1>1, <1>2, <1>3, <1>4, <1>5, <1>6 DEF WorkerStep

LEMMA NextFromHead ==
  ASSUME NewDirs = {}, EditDuring \cap (Preparing \cup Writing) = {}
  PROVE  Typed /\ FromHead /\ [Next]_vars => FromHead'
<1>1. ASSUME FromHead, UNCHANGED vars PROVE FromHead'
  BY <1>1 DEF vars, worktree, writer, FromHead
<1> QED
  BY <1>1, UserFromHead, WriterFromHead, CommandFromHead DEF Next

LEMMA FromHeadHolds ==
  ASSUME NewDirs = {}, EditDuring \cap (Preparing \cup Writing) = {}
  PROVE  Spec => [](Typed /\ FromHead)
BY InitTyped, NextTyped, InitFromHead, NextFromHead, PTL DEF Spec

\* The one step that goes from replacing to applying is os.replace of a file that
\* is still to be written.
LEMMA ReplaceStep ==
  ASSUME Typed, FromHead, [Next]_vars, pc = "replacing", pc' = "applying"
  PROVE  cur \in Files /\ files[cur] = head[cur]
BY WorkflowAssumption DEF Typed, TypeOK, InHand, FromHead

\* The worker replaces only text that the checked-out commit holds, if Git tracks
\* the allowed directories and the user waits for a run to end.
THEOREM UserWorkSurvivesHolds ==
  ASSUME NewDirs = {}, EditDuring \cap (Preparing \cup Writing) = {}
  PROVE  Spec => UserWorkSurvives
<1>1. Typed /\ FromHead /\ [Next]_vars =>
        [pc = "replacing" /\ pc' = "applying" => files[cur] = head[cur]]_vars
  BY ReplaceStep
<1> QED
  BY <1>1, FromHeadHolds, PTL DEF Spec, UserWorkSurvives

\* A proposal, however old, replaces only the text it was made from.
THEOREM ReplacesItsBasisHolds ==
  ASSUME NewDirs = {}, EditDuring \cap (Preparing \cup Writing) = {}
  PROVE  Spec => ReplacesItsBasis
<1>1. Typed /\ FromHead /\ [Next]_vars =>
        [\A p \in proposals :
           pc = "replacing" /\ pc' = "applying" => files[cur] = p.basis[cur]]_vars
  BY ReplaceStep DEF FromHead
<1> QED
  BY <1>1, FromHeadHolds, PTL DEF Spec, ReplacesItsBasis

-----------------------------------------------------------------------------
(* What is recorded as completed has passed.                               *)

\* From the start of the commands to the record, the files are those that are
\* tested.
Passed ==
  /\ \A f \in DOMAIN done : <<f, done[f]>> \in validated
  /\ pc \in {"validating", "recording"} => tested = {<<f, files[f]>> : f \in applied}
  /\ pc = "recording" => tested \subseteq validated

LEMMA InitPassed == Init => Passed
BY DEF Init, Passed

LEMMA UserPassed ==
  ASSUME EditDuring \cap {"validating", "recording"} = {}, Passed, UserStep
  PROVE  Passed'
<1>1. PICK tree : UserActs(tree)
  BY DEF UserStep, Edit, Revert, Commit, Spoil
<1> QED
  BY <1>1 DEF UserActs, Passed

LEMMA WorkerPassed ==
  ASSUME Typed, Passed, WorkerStep
  PROVE  Passed'
<1> USE DEF Passed, worktree, writer, history, Ends, Applying
<1>1. ASSUME WriterStep PROVE Passed'
  BY <1>1 DEF WriterStep, BackUp, WriteTemp, Replace, WriteFails, Unlink, CopyBegins,
              RestoreFails, CopyEnds, RollbackEnds
<1>2. ASSUME StartRun \/ GenerationFails \/ Decline \/ CommandsFail \/ Crash PROVE Passed'
  BY <1>2 DEF StartRun, GenerationFails, Decline, CommandsFail, Crash
<1>3. ASSUME NEW changes \in Acceptable, Generated(changes) PROVE Passed'
  BY <1>3 DEF Generated
<1>4. ASSUME NEW p \in proposals, Approve(p) \/ StartApply(p) PROVE Passed'
  BY <1>4 DEF Approve, StartApply
<1>5. ASSUME StartCommands \/ CommandsPass PROVE Passed'
  BY <1>5 DEF StartCommands, CommandsPass
<1>6. ASSUME Record PROVE Passed'
  <2>1. \A f \in applied : <<f, files[f]>> \in validated
    BY <1>6 DEF Record
  <2> QED
    BY <1>6, <2>1 DEF Record
<1> QED
  BY <1>1, <1>2, <1>3, <1>4, <1>5, <1>6 DEF WorkerStep

LEMMA NextPassed ==
  ASSUME EditDuring \cap {"validating", "recording"} = {}
  PROVE  Typed /\ Passed /\ [Next]_vars => Passed'
<1>1. ASSUME Passed, UNCHANGED vars PROVE Passed'
  BY <1>1 DEF vars, worktree, writer, history, Passed
<1> QED
  BY <1>1, UserPassed, WorkerPassed DEF Next

\* What cli.py reports as "already applied and validated" is on disk as the
\* validation commands have passed with it, if nobody edits while they run.
THEOREM CompletedMeansValidatedHolds ==
  ASSUME EditDuring \cap {"validating", "recording"} = {}
  PROVE  Spec => []CompletedMeansValidated
<1>1. Passed => CompletedMeansValidated
  BY DEF Passed, CompletedMeansValidated, Completed
<1>2. Spec => [](Typed /\ Passed)
  BY InitTyped, NextTyped, InitPassed, NextPassed, PTL DEF Spec
<1> QED
  BY <1>1, <1>2, PTL

=============================================================================
