--------------------------- MODULE ApprovalPackage ---------------------------
(***************************************************************************)
(* Building the package a person decides about: ApprovalPackageManager     *)
(* create and verify_package (src/fastfix/approval/package.py).            *)
(*                                                                         *)
(* The candidate is inspected, listed, measured and exported by separate   *)
(* git commands, and inspected again when the package is in place.  The    *)
(* limits on a patch's size and form are refusals that may come at any     *)
(* look.  The package is written file by file in a temporary directory     *)
(* and moved into place.                                                   *)
(***************************************************************************)
EXTENDS CandidateWorkspace

\* approval-request.json, patch.diff, validation-summary.json and, when these
\* are written, manifest.json.
FileCount == 4

VARIABLES session,   \* the submitted RepairSessionState
          before,    \* what create() saw first
          names,     \* changed_files of the patch
          patch,     \* the exported diff: the tree it leads to
          place,     \* the directory: none, temporary, final or torn
          files      \* how many of its files are written

package == <<session, before, names, patch, place, files>>

\* What git status tells of the two repositories.
Seen == [source |-> source, names |-> Names(tree), extra |-> extra]

-----------------------------------------------------------------------------
(* Looking *)

\* Errors of create() before there is a package.
Refusing(step, guard, next) == Looks(step, guard, next, "packageFailed")

ValidateRepositories ==
    /\ Refusing("repositories",
                source.clean /\ source.moved = snapshot.moved /\ ~extra, "names")
    /\ before' = Seen
    /\ UNCHANGED <<snapshot, session, names, patch, place, files>>

ListNames ==
    /\ Refusing("names", Names(tree) # {} /\ Names(tree) \subseteq Allowed, "measure")
    /\ names' = Names(tree)
    /\ UNCHANGED <<snapshot, session, before, patch, place, files>>

\* Modes, line counts and whitespace: the names must be the same.
Measure ==
    /\ Refusing("measure", Names(tree) = names, "export")
    /\ UNCHANGED <<snapshot, package>>

Export ==
    /\ Refusing("export", Names(tree) # {}, "validation")
    /\ patch' = tree
    /\ UNCHANGED <<snapshot, session, before, names, place, files>>

\* The recorded results: three, current, passed, of one restricted container
\* image and about the files that are in the patch.
CheckValidation ==
    /\ Refusing("validation", session.sandboxed /\ session.changed = names, "write")
    /\ UNCHANGED <<snapshot, package>>

-----------------------------------------------------------------------------
(* Writing *)

Outside == UNCHANGED <<source, snapshot, candidate, person, session, before,
                       names, patch>>

\* Any step of writing fails or is interrupted.
Fails(step, handler) == at = step /\ Raise("package", handler) /\ Outside

WriteTo(where) ==
    \/ /\ at = "write"
       /\ place' = where
       /\ files' = files + 1
       /\ Goto(IF files' = FileCount THEN "place" ELSE "write")
       /\ Outside
    \/ Fails("write", "abandon") /\ UNCHANGED <<place, files>>

\* Mutant: the files are written where the package belongs.
WriteInPlace == WriteTo("final")

Write == WriteTo("temporary")

\* Interrupted once it is in place, while the files are made read-only, the
\* package stays.
Place ==
    \/ /\ at = "place"
       /\ place' = "final"
       /\ Goto("again") \/ Raise("package", "packageFailed")
       /\ Outside
       /\ UNCHANGED files
    \/ Fails("place", "abandon") /\ UNCHANGED <<place, files>>

\* rmtree of the temporary directory; failing, it leaves some of it.
Abandon ==
    /\ at = "abandon"
    /\ Goto("packageFailed")
    /\ \/ place' = "none" /\ files' = 0
       \/ files' \in 0..files /\ UNCHANGED place
    /\ Outside

LookAgain(same) ==
    /\ Looks("again", same, "verify", "discard")
    /\ UNCHANGED <<snapshot, package>>

\* Mutant: only the source is looked at again.
SourceAgain == LookAgain(source.clean /\ source = before.source)

\* The source and the candidate once more: their status, not their contents.
Again == LookAgain(source.clean /\ Seen = before)

\* verify_package reads everything back.
Whole == place = "final" /\ files = FileCount

Verify ==
    /\ Looks("verify", Whole, "packaged", "discard")
    /\ UNCHANGED <<snapshot, package>>

\* rmtree of the package; failing, it leaves a torn one.
Discard ==
    /\ at = "discard"
    /\ Goto("packageFailed")
    /\ \/ place' = "none" /\ files' = 0
       \/ place' = "torn" /\ files' \in 0..files
    /\ Outside

Build ==
    \/ ValidateRepositories \/ ListNames \/ Measure \/ Export \/ CheckValidation
    \/ Write \/ Place \/ Abandon \/ Again \/ Verify \/ Discard

PackageInit ==
    /\ session = [validated |-> Unchanged, changed |-> {}, sandboxed |-> FALSE]
    /\ before = Seen
    /\ names = {}
    /\ patch = Unchanged
    /\ place = "none"
    /\ files = 0

=============================================================================
