--------------------------- MODULE PreparedChange ---------------------------
(***************************************************************************)
(* The change a writing job has prepared and the project's files it is     *)
(* applied to and reverted from, while the user goes on editing them.      *)
(* Code: packages/agent/src/worktree/prepared-change.ts, git-worktree.ts   *)
(* and engine/execute-agent-change.ts.                                     *)
(*                                                                         *)
(* A file's content is the set of changes that are in it and the number of *)
(* edits the user has made; two contents have the same SHA-256 when they   *)
(* are equal.  Every change touches every file of Files.  git is outside   *)
(* the code: `git apply` refuses the whole patch or writes the files, also *)
(* over an edit that is elsewhere in the file, and may end in the middle   *)
(* (a full disk, the timeout of 30 seconds).                               *)
(***************************************************************************)
EXTENDS FiniteSets, Naturals

CONSTANTS
  Jobs,       \* job ids
  Files,      \* the files the jobs touch
  Edited,     \* those of them that the user edits
  MaxEdits    \* bound: edits of each of them

VARIABLES
  project,    \* content of the user's files
  changes     \* the private record of each job's change

Content  == [by: SUBSET Jobs, edits: 0 .. MaxEdits]
Contents == [Files -> Content]

(* cut is what the worktree of the job was made from; base the baseline    *)
(* hashes.  step is what an apply or a revert under way waits for.         *)
Change ==
  [state: {"cut", "prepared", "applying", "applied", "reverting", "reverted"},
   step: {"none", "comparing", "writing", "verifying"},
   cut: Contents, base: Contents]

NoChange == [state |-> "none"]

With(contents, job)    == [f \in Files |-> [contents[f] EXCEPT !.by = @ \cup {job}]]
Without(contents, job) == [f \in Files |-> [contents[f] EXCEPT !.by = @ \ {job}]]

Written(job) == \E f \in Files : job \in project[f].by

-----------------------------------------------------------------------------
(* The user's editor saves a file.                                         *)
Edit(f) ==
  /\ f \in Edited /\ project[f].edits < MaxEdits
  /\ project' = [project EXCEPT ![f].edits = @ + 1]
  /\ UNCHANGED changes

(* createIsolatedGitWorktree(): HEAD, or with the user's consent the local *)
(* files too, which are compared again afterwards.                         *)
Cut(job) ==
  /\ changes' = [changes EXCEPT ![job] =
       [state |-> "cut", step |-> "none", cut |-> project, base |-> project]]
  /\ UNCHANGED project

(* The baseline hashes are taken from the project when the run is over.    *)
Captured(job) ==
  /\ changes' = [changes EXCEPT ![job].state = "prepared", ![job].base = project]
  /\ UNCHANGED project

(* The worktree holds the change on top of what it was made from.          *)
Expected(job) == With(changes[job].cut, job)

(* The hashes an apply or a revert asks for, before and after.             *)
Before(job) ==
  IF changes[job].state = "applying" THEN changes[job].base ELSE Expected(job)

(* As it would be if the files were expected to be as they were found.     *)
BugAfter(job) ==
  IF changes[job].state = "applying" THEN With(changes[job].base, job)
  ELSE changes[job].base

After(job) ==
  IF changes[job].state = "applying" THEN Expected(job) ELSE changes[job].base

Begin(job, state) ==
  /\ changes' = [changes EXCEPT ![job].state = state, ![job].step = "comparing"]
  /\ UNCHANGED project

Compared(job) ==
  /\ changes[job] # NoChange /\ changes[job].step = "comparing"
  /\ project = Before(job)
  /\ changes' = [changes EXCEPT ![job].step = "writing"]
  /\ UNCHANGED project

(* What git would make of the files; it takes each hunk for new or for     *)
(* there, whichever direction it is asked for.                             *)
Patched(job) ==
  IF changes[job].state = "applying" THEN With(project, job) ELSE Without(project, job)

Applicable(job) ==
  \A f \in Files : job \in project[f].by <=> changes[job].state = "reverting"

(* `git apply --check` and `git apply`; written are the files it reached.  *)
GitWrites(job, written) ==
  /\ changes[job] # NoChange /\ changes[job].step = "writing"
  /\ written # {} => Applicable(job)
  /\ project' = [f \in Files |-> IF f \in written THEN Patched(job)[f] ELSE project[f]]

Wrote(job) ==
  /\ GitWrites(job, Files)
  /\ changes' = [changes EXCEPT ![job].step = "verifying"]

(* The hashes taken afterwards are the expected ones.                      *)
Verified(job) ==
  /\ changes[job] # NoChange /\ changes[job].step = "verifying"
  /\ project = After(job)
  /\ changes' = [changes EXCEPT ![job].step = "none",
       ![job].state = IF @ = "applying" THEN "applied" ELSE "reverted"]
  /\ UNCHANGED project

(* The catch: HEAD has moved, a hash differs, git refuses or ends early.   *)
(* Nothing that git has written is taken back.                             *)
Failed(job) ==
  /\ changes[job] # NoChange /\ changes[job].step # "none"
  /\ changes[job].step = "verifying" => project # After(job)
  /\ changes' = [changes EXCEPT ![job].step = "none",
       ![job].state = IF @ = "applying" THEN "prepared" ELSE "applied"]
  /\ \/ UNCHANGED project
     \/ \E written \in SUBSET Files \ {Files} : GitWrites(job, written)

Dropped(table) ==
  changes' = [job \in Jobs |-> IF job \in table THEN NoChange ELSE changes[job]]

InitChanges ==
  /\ project = [f \in Files |-> [by |-> {}, edits |-> 0]]
  /\ changes = [job \in Jobs |-> NoChange]

ChangesTypeOK ==
  /\ project \in Contents
  /\ changes \in [Jobs -> Change \cup {NoChange}]
=============================================================================
