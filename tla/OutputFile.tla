------------------------------ MODULE OutputFile ------------------------------
(***************************************************************************)
(* _atomic_write_text of server.py: one output file is written beside the  *)
(* old one and put in its place, with a hard link to the old one kept until*)
(* the new one is seen in place, or put back if something fails.           *)
(*                                                                         *)
(* A name of the output directory holds a file (an inode) or nothing.  Any *)
(* system call may fail, before or after it took effect; other programs    *)
(* change the leaf or the backup and move the directory away between any   *)
(* two calls; the router may die.  Where the directory is held open, its   *)
(* names stay reachable when its path changes; where it cannot be (Windows)*)
(* the names are looked up by path, so in whatever directory is there.     *)
(***************************************************************************)
EXTENDS Naturals, FiniteSets

CONSTANTS
    MaxMeddling,   \* bound: changes by other programs
    Nil

Name == {"leaf", "temp", "backup"}

\* The file that was there, the one being written, and others' files.
File == {"old", "new", "other", "symlink"}

\* How a write may end: where it raised, if it did.  The caller gets an OSError
\* from each of the last four, and only some of them say more than their cause.
Outcomes == {"ok", "raised", "rollback failed", "not rolled back", "cleanup failed"}

ASSUME OutputFileAssumption ==
    /\ MaxMeddling \in Nat
    /\ Nil \notin File \cup Outcomes /\ Nil \notin [Name -> File \cup {Nil}]

VARIABLES
    dir,           \* what each name holds, where names are looked up
    away,          \* the same of a directory that was moved out of reach, else Nil
    moved,         \* output_dir is no longer where it was validated
    whole,         \* the new file has its whole content
    at,            \* where _atomic_write_text is
    original,      \* original_identity
    named,         \* backup_name is not empty
    active,        \* backup_active
    errors,        \* rollback_errors is not empty
    seen,          \* what the last look at the leaf found
    outcome,       \* how the write ended, Nil before
    before,        \* history: the leaf when the write began
    meddled,       \* changes by other programs so far
    stolen         \* history: other programs have changed the backup

fileVars == <<dir, away, moved, whole, at, original, named, active, errors, seen, outcome, before, meddled, stolen>>

Places == {"out", "open", "write", "look", "link", "replace", "confirm", "rollback", "remove",
           "unlink new", "restore", "drop", "put back", "raise", "cleanup", "unlink backup",
           "finally", "over", "dead"}

FileInit ==
    /\ dir = [n \in Name |-> Nil] /\ away = Nil
    /\ moved = FALSE /\ whole = FALSE
    /\ at = "out"
    /\ original = Nil /\ seen = Nil /\ outcome = Nil /\ before = Nil
    /\ named = FALSE /\ active = FALSE /\ errors = FALSE
    /\ meddled = 0 /\ stolen = FALSE

Goes(from, to) == at = from /\ at' = to
Put(name, f)   == dir' = [dir EXCEPT ![name] = f]
Leaf   == dir["leaf"]
Backup == dir["backup"]

\* Everything a step leaves alone but the directory and the place.
Locals == <<away, moved, whole, original, named, active, errors, seen, outcome, before, meddled, stolen>>

Ended(o) == outcome' = o
-----------------------------------------------------------------------------
\* Whatever the leaf holds: the first revalidate and the look for a symbolic
\* link.
Begin ==
    /\ at = "out"
    /\ \E f \in {Nil, "old", "symlink"} :
          /\ Put("leaf", f) /\ before' = f
          /\ IF moved \/ f = "symlink"
             THEN at' = "over" /\ outcome' = "raised"
             ELSE at' = "open" /\ UNCHANGED outcome
    /\ UNCHANGED <<away, moved, whole, original, named, active, errors, seen, meddled, stolen>>

OpenTemporary ==
    \/ Goes("open", "write") /\ Put("temp", "new") /\ UNCHANGED Locals
    \/ /\ Goes("open", "over") /\ Ended("raised")
       /\ Put("temp", "new") \/ UNCHANGED dir
       /\ UNCHANGED <<away, moved, whole, original, named, active, errors, seen, before, meddled, stolen>>

\* The writer ends and the stream is closed.
Written ==
    /\ Goes("write", "look")
    /\ whole' = TRUE
    /\ UNCHANGED <<dir, away, moved, original, named, active, errors, seen, outcome, before, meddled, stolen>>

\* The writer fails, or the look at what is there.
WriteFails ==
    /\ at \in {"write", "look"} /\ at' = "finally" /\ Ended("raised")
    /\ UNCHANGED <<dir, away, moved, whole, original, named, active, errors, seen, before, meddled, stolen>>

\* revalidate, and what the leaf is now.
Look ==
    /\ at = "look"
    /\ seen' = Leaf
    /\ IF moved \/ Leaf = "symlink"
       THEN at' = "finally" /\ Ended("raised") /\ UNCHANGED original
       ELSE /\ at' = IF Leaf = Nil THEN "replace" ELSE "link"
            /\ original' = Leaf
            /\ UNCHANGED outcome
    /\ UNCHANGED <<dir, away, moved, whole, named, active, errors, before, meddled, stolen>>
-----------------------------------------------------------------------------
\* _create_rollback_link and the revalidate that follows.

\* Mutant: the replacement is made without a link to the old file.
SkipLink ==
    /\ Goes("link", "replace")
    /\ UNCHANGED <<dir, Locals>>

\* The link is made; if it is not one to the file that was looked at, it stays
\* behind without a name in backup_name.
Link ==
    /\ at = "link" /\ Leaf # Nil
    /\ Put("backup", Leaf)
    /\ IF Leaf # original
       THEN at' = "rollback" /\ UNCHANGED <<named, active>>
       ELSE named' = TRUE /\ active' = TRUE /\ at' \in {"rollback"} \cup (IF moved THEN {} ELSE {"replace"})
    /\ UNCHANGED <<away, moved, whole, original, errors, seen, outcome, before, meddled, stolen>>

\* No link, or one that was made although the call failed and is then removed,
\* if it can be.
LinkFails ==
    /\ Goes("link", "rollback")
    /\ \/ UNCHANGED dir
       \/ Leaf # Nil /\ Put("backup", Leaf)
    /\ UNCHANGED Locals

\* os.replace(temp, leaf).
Replaced == dir["temp"] = "new" /\ dir' = [dir EXCEPT !["leaf"] = "new", !["temp"] = Nil]

Replace ==
    \/ Goes("replace", "confirm") /\ Replaced /\ UNCHANGED Locals
    \/ Goes("replace", "rollback") /\ (Replaced \/ UNCHANGED dir) /\ UNCHANGED Locals

\* revalidate and the look at what has been committed.
Confirm ==
    /\ at = "confirm"
    /\ at' \in {"rollback"} \cup (IF moved \/ Leaf # "new" THEN {} ELSE {"cleanup"})
    /\ seen' = Leaf
    /\ UNCHANGED <<dir, away, moved, whole, original, named, active, errors, outcome, before, meddled, stolen>>
-----------------------------------------------------------------------------
\* The rollback.

\* Its first looks, at the backup and at the leaf, are not inside a try: if one
\* fails, nothing is rolled back.
LookFails ==
    /\ Goes("rollback", "finally") /\ Ended("not rolled back")
    /\ UNCHANGED <<dir, away, moved, whole, original, named, active, errors, seen, before, meddled, stolen>>

Rollback ==
    /\ at = "rollback"
    /\ LET held == active \/ (original # Nil /\ named /\ Backup = original)
       IN  /\ active' = held
           /\ at' = IF Leaf = "new" THEN "remove" ELSE IF held THEN "restore" ELSE "raise"
           /\ errors' = (Leaf \notin {Nil, "new", original} /\ held)
    /\ seen' = Leaf
    /\ UNCHANGED <<dir, away, moved, whole, original, named, outcome, before, meddled, stolen>>

\* _unlink_leaf_if_identity for the new file: it looks, then it unlinks.
AfterRemoval == IF active THEN "restore" ELSE "raise"

RemoveNew ==
    /\ at = "remove"
    /\ \/ Leaf = "new" /\ at' = "unlink new" /\ UNCHANGED errors
       \/ at' = AfterRemoval /\ errors' = TRUE
    /\ seen' = Leaf
    /\ UNCHANGED <<dir, away, moved, whole, original, named, active, outcome, before, meddled, stolen>>

UnlinkNew ==
    /\ Goes("unlink new", AfterRemoval)
    /\ \/ Put("leaf", Nil) /\ errors' \in {errors, TRUE}
       \/ UNCHANGED dir /\ errors' = TRUE
    /\ UNCHANGED <<away, moved, whole, original, named, active, seen, outcome, before, meddled, stolen>>

\* The leaf is looked at again, and the backup; either look may fail.
Restore ==
    /\ at = "restore"
    /\ seen' = Leaf
    /\ \/ /\ Leaf = original /\ Backup = original
          /\ at' = "drop" /\ UNCHANGED <<active, named, errors>>
       \/ /\ Leaf = original /\ Backup = Nil
          /\ at' = "raise" /\ active' = FALSE /\ named' = FALSE /\ UNCHANGED errors
       \/ /\ Leaf = Nil /\ Backup = original
          /\ at' = "put back" /\ UNCHANGED <<active, named, errors>>
       \/ at' = "raise" /\ errors' = TRUE /\ UNCHANGED <<active, named>>
    /\ UNCHANGED <<dir, away, moved, whole, original, outcome, before, meddled, stolen>>

\* The old file is in place: its backup goes.
DropBackup ==
    /\ Goes("drop", "raise")
    /\ \/ Put("backup", Nil) /\ active' = FALSE /\ named' = FALSE /\ UNCHANGED errors
       \/ (Put("backup", Nil) \/ UNCHANGED dir) /\ errors' = TRUE /\ UNCHANGED <<active, named>>
    /\ UNCHANGED <<away, moved, whole, original, seen, outcome, before, meddled, stolen>>

\* os.replace(backup, leaf), and a look whether it was durable.
PutBack ==
    /\ Goes("put back", "raise")
    /\ \/ /\ Backup # Nil /\ dir' = [dir EXCEPT !["leaf"] = Backup, !["backup"] = Nil]
          /\ \/ Backup = original /\ active' = FALSE /\ named' = FALSE /\ UNCHANGED errors
             \/ errors' = TRUE /\ UNCHANGED <<active, named>>
       \/ UNCHANGED dir /\ errors' = TRUE /\ UNCHANGED <<active, named>>
    /\ UNCHANGED <<away, moved, whole, original, seen, outcome, before, meddled, stolen>>

Raise ==
    /\ Goes("raise", "finally")
    /\ Ended(IF errors THEN "rollback failed" ELSE "raised")
    /\ UNCHANGED <<dir, away, moved, whole, original, named, active, errors, seen, before, meddled, stolen>>
-----------------------------------------------------------------------------
\* The new file is in place: the backup goes, if it is still the old file.

Gone == Backup = Nil /\ Leaf = "new"

Cleanup ==
    /\ at = "cleanup"
    /\ \/ active /\ Backup = original /\ at' = "unlink backup" /\ UNCHANGED outcome
       \/ at' = "over" /\ ~active /\ Ended("ok")
       \/ at' = "over" /\ active /\ Backup # original /\ Gone /\ Ended("ok")
       \/ at' = "over" /\ active /\ Ended("cleanup failed")
    /\ UNCHANGED <<dir, away, moved, whole, original, named, active, errors, seen, before, meddled, stolen>>

\* Mutant: a failed unlink counts as done.
UnlinkBackupBlindly ==
    /\ Goes("unlink backup", "over")
    /\ (Put("backup", Nil) \/ UNCHANGED dir) /\ Ended("ok")
    /\ UNCHANGED <<away, moved, whole, original, named, active, errors, seen, before, meddled, stolen>>

UnlinkBackup ==
    /\ Goes("unlink backup", "over")
    /\ \/ Put("backup", Nil) /\ outcome' \in {"ok", "cleanup failed"}
       \/ UNCHANGED dir /\ Gone /\ Ended("ok")
       \/ UNCHANGED dir /\ Ended("cleanup failed")
    /\ UNCHANGED <<away, moved, whole, original, named, active, errors, seen, before, meddled, stolen>>

\* finally: the temporary file goes, whether or not that works.
Finally ==
    /\ Goes("finally", "over")
    /\ Put("temp", Nil) \/ UNCHANGED dir
    /\ UNCHANGED Locals
-----------------------------------------------------------------------------
Write ==
    \/ Begin \/ OpenTemporary \/ WriteFails \/ Look \/ Link \/ LinkFails \/ Replace \/ Confirm
    \/ Rollback \/ LookFails \/ RemoveNew \/ UnlinkNew \/ Restore \/ DropBackup \/ PutBack \/ Raise
    \/ Cleanup \/ UnlinkBackup \/ Finally

\* Other programs; a file they put is a new one.
Meddle ==
    /\ meddled < MaxMeddling /\ meddled' = meddled + 1
    /\ \/ \E f \in {Nil, "other", "symlink"} \ {Leaf, original} : Put("leaf", f) /\ UNCHANGED stolen
       \/ \E f \in {Nil, "other"} \ {Backup, original} :
             Backup # Nil /\ Put("backup", f) /\ stolen' = TRUE
    /\ UNCHANGED <<away, moved, whole, at, original, named, active, errors, seen, outcome, before>>

\* Another directory, or none, is at the path.
MoveDirectory ==
    /\ ~moved /\ moved' = TRUE
    /\ \/ UNCHANGED <<dir, away>>
       \/ at # "out" /\ away' = dir /\ \E f \in {Nil, "other", "symlink"} : dir' = [[n \in Name |-> Nil] EXCEPT !["leaf"] = f]
    /\ UNCHANGED <<whole, at, original, named, active, errors, seen, outcome, before, meddled, stolen>>

\* The router dies.
Die ==
    /\ at \notin {"out", "over", "dead"} /\ at' = "dead"
    /\ UNCHANGED <<dir, Locals>>
-----------------------------------------------------------------------------
\* The names of the directory that was asked for.
Names == IF away = Nil THEN dir ELSE away

Links(f) == {n \in Name : Names[n] = f}

\* As long as no other program changes the names, a write that says it worked
\* has left the whole new file, and nothing beside it unless the directory was
\* moved out of reach; one that raised has left the leaf as it was, unless the
\* directory was, or the looks before the rollback failed.  However it ends,
\* also when the router dies half-way, the file that was there has its name or
\* the backup's, or the whole new one has its name.
OutcomeTrue ==
    meddled = 0 =>
        /\ outcome = "ok" => Names["leaf"] = "new" /\ whole
        /\ outcome = "ok" /\ away = Nil => Names["temp"] = Nil /\ Names["backup"] = Nil
        /\ outcome = "raised" /\ away = Nil => Names["leaf"] = before
        /\ outcome \in {"rollback failed", "not rolled back"} /\ before # Nil =>
               before \in {Names["leaf"], Names["backup"]}
        /\ outcome = "cleanup failed" => Names["leaf"] = "new" /\ whole
        /\ at # "out" /\ before # Nil =>
               before \in {Names["leaf"], Names["backup"]} \/ (Names["leaf"] = "new" /\ whole)

\* Whatever other programs do to the leaf: the last link to the file that was to be
\* replaced is never dropped before the new file, or the old one, has been seen
\* under its name.
OriginalNotDropped ==
    [][ original # Nil /\ Links(original) # {} /\ Links(original)' = {} /\ ~stolen /\ meddled' = meddled
        => Links(original) = {"backup"} /\ seen \in {"new", original} ]_fileVars
=============================================================================
