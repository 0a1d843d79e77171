-------------------------- MODULE CandidateWorkspace --------------------------
(***************************************************************************)
(* The candidate: a clone of the source in which the agent works, made by  *)
(* CandidateWorkspaceManager.create and removed by cleanup                 *)
(* (src/fastfix/workspace/candidate.py).  recover is in ApprovalActions.   *)
(*                                                                         *)
(* One process works on it, and persons may edit the source and the        *)
(* candidate at any time.  A step is a git command, or a run of them that  *)
(* nobody can tell from one.  Each may fail, time out or be interrupted    *)
(* with Ctrl-C, which all lead to the same handlers.                       *)
(***************************************************************************)
EXTENDS Naturals, FiniteSets

CONSTANTS Allowed,    \* the files a repair may change
          Others,     \* further tracked files, the tests among them
          MaxEdits    \* bound on the edits made by persons

ASSUME FilesAssumption == Allowed # {} /\ Allowed \cap Others = {}
ASSUME EditsAssumption == MaxEdits \in Nat

Files == Allowed \cup Others
Contents == {"head", "fix", "other"}
Trees == [Files -> Contents]
Unchanged == [f \in Files |-> "head"]
Names(t) == {f \in Files : t[f] # "head"}

\* The source is at the commit it was cloned from or has moved to another.
Sources == [moved : BOOLEAN, clean : BOOLEAN]

VARIABLES at,        \* the process's next step
          source,    \* the source repository
          snapshot,  \* the source as create() saw it
          dir,       \* the candidate's directory: none, partial or whole
          tree,      \* its tracked files
          extra,     \* it has staged changes or untracked files
          failure,   \* the code of the error on its way up
          edits,     \* bound
          touched,   \* ghost: the files a person changed in the candidate
          touches    \* ghost: how often, since the agent was done

person == <<edits, touched, touches>>
candidate == <<dir, tree, extra>>
workspaceVars == <<at, source, snapshot, candidate, failure, person>>

Goto(step) == at' = step /\ UNCHANGED failure
Raise(code, step) == at' = step /\ failure' = code

\* A step that only looks: it goes on, or git fails, or its guard does.
Looks(step, guard, next, handler) ==
    /\ at = step
    /\ \/ guard /\ Goto(next)
       \/ Raise("git", handler)
    /\ UNCHANGED <<source, candidate, person>>

-----------------------------------------------------------------------------
(* Creating *)

\* _snapshot_source wants a clean worktree.
SnapshotSource ==
    /\ Looks("snapshot", source.clean, "clone", "createFailed")
    /\ snapshot' = source

\* git clone --no-checkout; one that fails may leave anything.
Clone ==
    /\ at = "clone"
    /\ dir' = "partial"
    /\ \/ Goto("checkout")
       \/ Raise("git", "undo")
    /\ UNCHANGED <<source, snapshot, tree, extra, person>>

\* git checkout --detach and the removal of the remote.
Checkout ==
    /\ at = "checkout"
    /\ \/ dir' = "whole" /\ Goto("validate")
       \/ UNCHANGED dir /\ Raise("git", "undo")
    /\ tree' = Unchanged
    /\ extra' = FALSE
    /\ UNCHANGED <<source, snapshot, person>>

Validate ==
    /\ Looks("validate", tree = Unchanged /\ ~extra, "recheck", "undo")
    /\ UNCHANGED snapshot

\* _assert_source_unchanged
Recheck ==
    /\ Looks("recheck", source = snapshot, "created", "undo")
    /\ UNCHANGED snapshot

\* _cleanup_path: gone, or still there after the third attempt.
Removed == dir' = "none"
NotRemoved == dir # "none" /\ dir' \in {dir, "partial"}

UndoReporting(afterFailure) ==
    /\ at = "undo"
    /\ \/ Removed /\ Goto("createFailed")
       \/ NotRemoved /\ Raise(afterFailure, "createFailed")
    /\ UNCHANGED <<source, snapshot, tree, extra, person>>

\* Mutant: the error that led here hides the one of the cleanup.
UndoQuietly == UndoReporting(failure)

\* create() removes what it made; the error of a failed removal replaces the
\* one that led here.
Undo == UndoReporting("cleanup_failed")

Create == SnapshotSource \/ Clone \/ Checkout \/ Validate \/ Recheck \/ Undo

-----------------------------------------------------------------------------
(* Persons *)

EditSource ==
    /\ edits < MaxEdits
    /\ edits' = edits + 1
    /\ source' \in Sources
    /\ UNCHANGED <<at, snapshot, candidate, failure, touched, touches>>

EditCandidate(f) ==
    /\ dir = "whole"
    /\ edits < MaxEdits
    /\ edits' = edits + 1
    /\ \E c \in Contents \ {tree[f]} : tree' = [tree EXCEPT ![f] = c]
    /\ touched' = touched \cup {f}
    /\ touches' = touches + 1
    /\ UNCHANGED <<at, source, snapshot, dir, extra, failure>>

\* git add, or a new file, and taking it back.
EditExtra ==
    /\ dir = "whole"
    /\ edits < MaxEdits
    /\ edits' = edits + 1
    /\ extra' = ~extra
    /\ UNCHANGED <<at, source, snapshot, dir, tree, failure, touched, touches>>

Person == EditSource \/ EditExtra \/ \E f \in Files : EditCandidate(f)

WorkspaceInit ==
    /\ at = "idle"
    /\ source = [moved |-> FALSE, clean |-> TRUE]
    /\ snapshot = source
    /\ dir = "none"
    /\ tree = Unchanged
    /\ extra = FALSE
    /\ failure = "none"
    /\ edits = 0
    /\ touched = {}
    /\ touches = 0

=============================================================================
