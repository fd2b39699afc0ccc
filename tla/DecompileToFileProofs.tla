------------------------ MODULE DecompileToFileProofs ------------------------
(***************************************************************************)
(* Proofs about DecompileToFile.tla and the two modules it is made of. For *)
(* any number of files, functions and changes by other programs: what a    *)
(* write says of its outcome is true, and the file that was there is never *)
(* dropped too early. For any addresses, filters, page sizes and edits: a  *)
(* client that follows the pages of a listing tool is skipped no row, and  *)
(* has them all when nothing changes meanwhile.                            *)
(***************************************************************************)
EXTENDS DecompileToFile, FiniteSetTheorems, SequenceTheorems, TLAPS

FileTypeOK ==
    /\ dir \in [Name -> File \cup {Nil}]
    /\ away \in [Name -> File \cup {Nil}] \cup {Nil}
    /\ moved \in BOOLEAN /\ whole \in BOOLEAN /\ named \in BOOLEAN
    /\ active \in BOOLEAN /\ errors \in BOOLEAN /\ stolen \in BOOLEAN
    /\ at \in Places
    /\ original \in File \cup {Nil}
    /\ seen \in File \cup {Nil} /\ before \in File \cup {Nil}
    /\ outcome \in Outcomes \cup {Nil}
    /\ meddled \in Nat

Temp == dir["temp"]

(* Whatever other programs do. *)

\* The names of the directory, while the write has not replaced anything ...
NotYetReplaced ==
    /\ at \in {"open", "write", "look"} => Leaf # "new"
    /\ original \in {Nil, "old", "other"}
    /\ Temp \in {Nil, "new"}
    /\ at \in {"out", "open", "write", "look", "link"} => Backup = Nil
    /\ at = "replace" /\ original # Nil /\ ~stolen => Backup = original

\* ... and when it is about to remove a name.
SeenBefore ==
    /\ at \in {"unlink new", "put back"} /\ original # Nil => Leaf # original
    /\ at = "drop" => seen = original
    /\ at \in {"cleanup", "unlink backup"} => seen = "new"

\* The file to replace is not looked at before the new one is written.
NotYetLooked ==
    /\ at \in {"out", "open", "write", "look"} => original = Nil
    /\ away # Nil => moved

MeddledInv == FileTypeOK /\ NotYetLooked /\ (away = Nil => NotYetReplaced /\ SeenBefore)

(* As long as no other program changes the names. *)

\* There was a file, and it has a second name; or there was none.
Kept == (before = "old" /\ active /\ named /\ Backup = "old") \/ (before = Nil /\ ~active /\ ~named /\ Backup = Nil)

Fresh == ~named /\ ~active /\ Backup = Nil /\ Leaf = before

Undecided ==
    /\ at = "out"     => Fresh /\ before = Nil /\ Temp = Nil
    /\ at = "open"    => Fresh /\ Temp = Nil
    /\ at = "write"   => Fresh /\ Temp = "new"
    /\ at = "look"    => Fresh /\ Temp = "new" /\ whole
    /\ at = "link"    => Fresh /\ Temp = "new" /\ whole /\ before = "old"
    /\ at = "replace" => Kept /\ Leaf = before /\ Temp = "new" /\ whole
    /\ at \in {"confirm", "cleanup"} => Kept /\ Leaf = "new" /\ Temp = Nil /\ whole
    /\ at = "unlink backup" => Kept /\ before = "old" /\ Leaf = "new" /\ Temp = Nil /\ whole

RollingBack ==
    /\ at = "rollback" =>
          /\ active = named /\ (active => before = "old" /\ Backup = "old")
          /\ Leaf = before \/ (Leaf = "new" /\ Kept)
          /\ Backup \in {Nil, before}
    /\ at \in {"remove", "unlink new"} => Leaf = "new" /\ Kept
    /\ at \in {"restore", "drop", "put back"} => Kept /\ before = "old"
    /\ at = "restore"  => Leaf \in {Nil, "old"} \/ (Leaf = "new" /\ errors)
    /\ at = "drop"     => Leaf = "old"
    /\ at = "put back" => Leaf = Nil
    /\ at = "raise" => (errors \/ Leaf = before) /\ before \in {Nil, Leaf, Backup}

Progress ==
    /\ at \notin {"out", "over", "dead"} => before \in {Nil, "old"}
    /\ at \notin {"out", "open", "write", "look", "finally", "over", "dead"} => original = before
    /\ at \notin {"rollback", "remove", "unlink new", "restore", "drop", "put back", "raise",
                  "finally", "over", "dead"} => ~errors
    /\ at \in {"rollback", "remove"} => ~errors
    /\ at \notin {"finally", "over", "dead"} => outcome = Nil
    /\ at = "finally" => outcome \in {"raised", "rollback failed", "not rolled back"}

Reachable == Undecided /\ RollingBack /\ Progress /\ OutcomeTrue

\* A directory that was moved out of reach has the file that was there, or the new one.
OutOfReach ==
    /\ OutcomeTrue /\ at # "out"
    /\ at \in {"cleanup", "unlink backup"} => away["leaf"] = "new" /\ whole
    /\ at \notin {"cleanup", "unlink backup", "over", "dead"} /\ before # Nil =>
           before \in {away["leaf"], away["backup"]}

AloneInv == meddled = 0 => (away = Nil => Reachable) /\ (away # Nil => OutOfReach)

FInv == MeddledInv /\ AloneInv
-----------------------------------------------------------------------------
\* The steps that touch the files.
FileNext == Write \/ Written \/ Meddle \/ MoveDirectory \/ Die \/ NextFile

\* Every step of _atomic_write_text keeps the types.
LEMMA TypeKept == FileTypeOK /\ FileNext => FileTypeOK'
<1> SUFFICES ASSUME FileTypeOK, FileNext PROVE FileTypeOK'
  OBVIOUS
<1> USE DEF FileTypeOK, FileNext, Write, Goes, Put, Locals, Ended, Replaced, AfterRemoval,
     Gone, Leaf, Backup,
  Begin, OpenTemporary, Written, WriteFails, Look, Link, LinkFails, Replace, Confirm, Rollback,
       RemoveNew, UnlinkNew, Restore, DropBackup, PutBack, Raise, Cleanup, UnlinkBackup,
       Finally, LookFails, Meddle, MoveDirectory, Die, NextFile
<1>0. away' \in [Name -> File \cup {Nil}] \cup {Nil}
  OBVIOUS
<1>1. dir' \in [Name -> File \cup {Nil}]
  BY DEF Name, File
<1>2. at' \in Places
  BY DEF Places
<1>3. outcome' \in Outcomes \cup {Nil}
  BY DEF Outcomes
<1>4. original' \in File \cup {Nil} /\ seen' \in File \cup {Nil} /\ before' \in File \cup {Nil}
  BY DEF File, Name
<1>5. moved' \in BOOLEAN /\ whole' \in BOOLEAN /\ named' \in BOOLEAN
  OBVIOUS
<1>6. active' \in BOOLEAN /\ errors' \in BOOLEAN /\ stolen' \in BOOLEAN
  OBVIOUS
<1>7. meddled \in Nat /\ meddled' \in {meddled, meddled + 1}
  OBVIOUS
<1>8. meddled' \in Nat
  BY ONLY <1>7
<1> QED
  BY ONLY <1>0, <1>1, <1>2, <1>3, <1>4, <1>5, <1>6, <1>8 DEF FileTypeOK

\* What holds whatever other programs do is kept, as long as the directory is
\* within reach ...
LEMMA ReachedKept ==
    ASSUME MeddledInv, FileNext, FileTypeOK', away' = Nil, away = Nil \/ NextFile
    PROVE  NotYetReplaced' /\ SeenBefore'
<1> USE OutputFileAssumption DEF MeddledInv, NotYetLooked, FileTypeOK, NotYetReplaced, SeenBefore, Goes, Put,
     Locals, Ended, Replaced, AfterRemoval, Gone, Leaf, Backup, Temp, Name, File
<1>1. CASE Begin
  BY <1>1 DEF Begin
<1>2. CASE OpenTemporary
  BY <1>2 DEF OpenTemporary
<1>3. CASE Written
  BY <1>3 DEF Written
<1>4. CASE WriteFails
  BY <1>4 DEF WriteFails
<1>5. CASE Look
  BY <1>5 DEF Look
<1>6. CASE Link
  BY <1>6 DEF Link
<1>7. CASE LinkFails
  BY <1>7 DEF LinkFails
<1>8. CASE Replace
  BY <1>8 DEF Replace
<1>9. CASE Confirm
  BY <1>9 DEF Confirm
<1>10. CASE Rollback
  BY <1>10 DEF Rollback
<1>11. CASE RemoveNew
  BY <1>11 DEF RemoveNew
<1>12. CASE UnlinkNew
  BY <1>12 DEF UnlinkNew
<1>13. CASE Restore
  BY <1>13 DEF Restore
<1>14. CASE DropBackup
  BY <1>14 DEF DropBackup
<1>15. CASE PutBack
  BY <1>15 DEF PutBack
<1>16. CASE Raise
  BY <1>16 DEF Raise
<1>17. CASE Cleanup
  BY <1>17 DEF Cleanup
<1>18. CASE UnlinkBackup
  BY <1>18 DEF UnlinkBackup
<1>19. CASE Finally
  BY <1>19 DEF Finally
<1>20. CASE Meddle
  <2>1. UNCHANGED <<at, original, seen>> /\ away = Nil
    BY <1>20 DEF Meddle
  <2>2. PICK n \in {"leaf", "backup"}, f \in {Nil, "other", "symlink"} :
             /\ dir' = [dir EXCEPT ![n] = f] /\ f # original
             /\ n = "backup" => Backup # Nil /\ stolen' = TRUE
             /\ n = "leaf" => UNCHANGED stolen
    BY <1>20 DEF Meddle
  <2>3. CASE n = "leaf"
    <3>1. dir'["leaf"] = f /\ UNCHANGED <<Temp, Backup, stolen>>
      BY <2>2, <2>3
    <3>2. NotYetReplaced'
      BY <2>1, <2>2, <3>1
    <3>3. SeenBefore'
      BY <2>1, <2>2, <3>1
    <3> QED
      BY <3>2, <3>3
  <2>4. CASE n = "backup"
    BY <2>1, <2>2, <2>4
  <2> QED
    BY <2>3, <2>4
<1>21. CASE MoveDirectory
  <2>1. UNCHANGED dir
    BY <1>21 DEF MoveDirectory
  <2> QED
    BY <1>21, <2>1 DEF MoveDirectory
<1>22. CASE Die
  BY <1>22 DEF Die
<1>23. CASE NextFile
  BY <1>23 DEF NextFile
<1>24. CASE LookFails
  BY <1>24 DEF LookFails
<1> QED
  BY <1>1, <1>2, <1>3, <1>4, <1>5, <1>6, <1>7, <1>8, <1>9, <1>10, <1>11, <1>12, <1>13, <1>14,
       <1>15, <1>16, <1>17, <1>18, <1>19, <1>20, <1>21, <1>22, <1>23, <1>24 DEF FileNext, Write

\* ... and in any case.
LEMMA MeddledKept == MeddledInv /\ FileNext => MeddledInv'
<1> SUFFICES ASSUME MeddledInv, FileNext PROVE MeddledInv'
  OBVIOUS
<1>1. FileTypeOK'
  BY TypeKept DEF MeddledInv
<1>2. away = Nil \/ NextFile \/ UNCHANGED away
  BY DEF MeddledInv, NotYetLooked, FileNext, Write, Begin, OpenTemporary, Written, WriteFails, Look,
     Link, LinkFails, Replace, Confirm, Rollback, LookFails, RemoveNew, UnlinkNew, Restore,
     DropBackup, PutBack, Raise, Cleanup, UnlinkBackup, Finally, Meddle, MoveDirectory, Die, Locals
<1>3. NotYetLooked'
  BY DEF MeddledInv, NotYetLooked, FileNext, Write, Begin, OpenTemporary, Written, WriteFails, Look,
     Link, LinkFails, Replace, Confirm, Rollback, LookFails, RemoveNew, UnlinkNew, AfterRemoval, Restore,
     DropBackup, PutBack, Raise, Cleanup, UnlinkBackup, Finally, Meddle, MoveDirectory, Die, NextFile,
     Locals, Goes
<1>4. away' = Nil => NotYetReplaced' /\ SeenBefore'
  BY <1>1, <1>2, ReachedKept
<1> QED
  BY <1>1, <1>3, <1>4 DEF MeddledInv

\* What holds as long as they do nothing is kept: while the directory is within
\* reach ...
LEMMA ReachableKept ==
    ASSUME MeddledInv, AloneInv, FileNext, meddled' = 0, away' = Nil, away = Nil \/ NextFile
    PROVE  Undecided' /\ RollingBack' /\ Progress' /\ OutcomeTrue'
<1> USE OutputFileAssumption DEF MeddledInv, AloneInv, Reachable, Names, FileTypeOK, NotYetLooked, NotYetReplaced, Goes, Put,
     Locals, Ended, Replaced, AfterRemoval, Gone, Leaf, Backup, Temp, Name, File, Outcomes,
     Places, Undecided, RollingBack, Progress, Fresh, Kept
<1>1. CASE Begin
  BY <1>1 DEF Begin, OutcomeTrue
<1>2. CASE OpenTemporary
  <2>1. CASE Goes("open", "write") /\ Put("temp", "new") /\ UNCHANGED Locals
    <3>1. Undecided'
      BY <2>1
    <3>2. RollingBack' /\ Progress'
      BY <2>1
    <3>3. OutcomeTrue'
      BY <2>1 DEF OutcomeTrue
    <3> QED
      BY <3>1, <3>2, <3>3
  <2>2. CASE /\ Goes("open", "over") /\ outcome' = "raised"
             /\ Put("temp", "new") \/ UNCHANGED dir
             /\ UNCHANGED <<away, moved, whole, original, named, active, errors, seen, before,
                  meddled, stolen>>
    <3>1. Undecided'
      BY <2>2
    <3>2. RollingBack' /\ Progress'
      BY <2>2
    <3>3. OutcomeTrue'
      BY <2>2 DEF OutcomeTrue
    <3> QED
      BY <3>1, <3>2, <3>3
  <2> QED
    BY <1>2, <2>1, <2>2 DEF OpenTemporary
<1>3. CASE Written
  BY <1>3 DEF Written, OutcomeTrue
<1>4. CASE WriteFails
  BY <1>4 DEF WriteFails, OutcomeTrue
<1>5. CASE Look
  BY <1>5 DEF Look, OutcomeTrue
<1>6. CASE Link
  BY <1>6 DEF Link, OutcomeTrue
<1>7. CASE LinkFails
  BY <1>7 DEF LinkFails, OutcomeTrue
<1>8. CASE Replace
  <2>1. CASE Goes("replace", "confirm") /\ Replaced /\ UNCHANGED Locals
    <3>1. Undecided'
      BY <2>1
    <3>2. RollingBack' /\ Progress'
      BY <2>1
    <3>3. OutcomeTrue'
      BY <2>1 DEF OutcomeTrue
    <3> QED
      BY <3>1, <3>2, <3>3
  <2>2. CASE Goes("replace", "rollback") /\ (Replaced \/ UNCHANGED dir) /\ UNCHANGED Locals
    <3>1. Undecided'
      BY <2>2
    <3>2. RollingBack' /\ Progress'
      BY <2>2
    <3>3. OutcomeTrue'
      BY <2>2 DEF OutcomeTrue
    <3> QED
      BY <3>1, <3>2, <3>3
  <2> QED
    BY <1>8, <2>1, <2>2 DEF Replace
<1>9. CASE Confirm
  BY <1>9 DEF Confirm, OutcomeTrue
<1>10. CASE Rollback
  BY <1>10 DEF Rollback, OutcomeTrue
<1>11. CASE RemoveNew
  BY <1>11 DEF RemoveNew, OutcomeTrue
<1>12. CASE UnlinkNew
  BY <1>12 DEF UnlinkNew, OutcomeTrue
<1>13. CASE Restore
  BY <1>13 DEF Restore, OutcomeTrue
<1>14. CASE DropBackup
  BY <1>14 DEF DropBackup, OutcomeTrue
<1>15. CASE PutBack
  BY <1>15 DEF PutBack, OutcomeTrue
<1>16. CASE Raise
  BY <1>16 DEF Raise, OutcomeTrue
<1>17. CASE Cleanup
  BY <1>17 DEF Cleanup, OutcomeTrue
<1>18. CASE UnlinkBackup
  BY <1>18 DEF UnlinkBackup, OutcomeTrue
<1>19. CASE Finally
  BY <1>19 DEF Finally, OutcomeTrue
<1>20. CASE Meddle
  <2>1. meddled \in Nat /\ meddled' = meddled + 1
    BY <1>20 DEF Meddle
  <2>2. meddled' # 0
    BY ONLY <2>1
  <2> QED
    BY ONLY <2>2, meddled' = 0
<1>21. CASE MoveDirectory
  <2>0. UNCHANGED <<dir, whole, at, original, named, active, errors, outcome, before, meddled>>
    BY <1>21 DEF MoveDirectory
  <2>5. away = Nil /\ meddled = 0 /\ away' = Nil
    BY <1>21 DEF MoveDirectory, NextFile
  <2>6. Undecided /\ RollingBack /\ Progress /\ OutcomeTrue
    BY <2>5
  <2>1. Undecided'
    BY ONLY <2>0, <2>6 DEF Undecided, Kept, Fresh, Leaf, Backup, Temp
  <2>2. RollingBack'
    BY ONLY <2>0, <2>6 DEF RollingBack, Kept, Leaf, Backup
  <2>3. Progress'
    BY ONLY <2>0, <2>6 DEF Progress
  <2>4. OutcomeTrue'
    BY ONLY <2>0, <2>5, <2>6 DEF OutcomeTrue, Names, Leaf
  <2> QED
    BY ONLY <2>1, <2>2, <2>3, <2>4
<1>22. CASE Die
  BY <1>22 DEF Die, OutcomeTrue
<1>23. CASE NextFile
  BY <1>23 DEF NextFile, OutcomeTrue
<1>24. CASE LookFails
  BY <1>24 DEF LookFails, OutcomeTrue
<1> QED
  BY <1>1, <1>2, <1>3, <1>4, <1>5, <1>6, <1>7, <1>8, <1>9, <1>10, <1>11, <1>12, <1>13, <1>14,
       <1>15, <1>16, <1>17, <1>18, <1>19, <1>20, <1>21, <1>22, <1>23, <1>24 DEF FileNext, Write
\* ... when it is moved out of reach ...
LEMMA MovedAway ==
    ASSUME MeddledInv, AloneInv, meddled = 0, away = Nil, MoveDirectory, away' # Nil
    PROVE  OutOfReach'
<1>1. /\ away' = dir /\ at # "out" /\ Names' = Names
      /\ UNCHANGED <<at, before, whole, outcome, meddled>>
  BY DEF MoveDirectory, Names
<1>2. Reachable
  BY DEF AloneInv
<1>3. OutcomeTrue'
  BY <1>1, <1>2 DEF Reachable, OutcomeTrue
<1>4. at \in {"cleanup", "unlink backup"} => dir["leaf"] = "new" /\ whole
  BY <1>2 DEF Reachable, Undecided, Leaf
<1>5. at \notin {"cleanup", "unlink backup", "over", "dead"} /\ before # Nil =>
          before \in {dir["leaf"], dir["backup"]}
  <2>1. CASE at = "finally"
    BY <1>2, <2>1 DEF Reachable, OutcomeTrue, Progress, Names
  <2>2. CASE at # "finally"
    BY <1>1, <1>2, <2>2 DEF MeddledInv, FileTypeOK, Places, Reachable, Undecided, RollingBack, Progress,
       Kept, Fresh, Leaf, Backup
  <2> QED
    BY <2>1, <2>2
<1> QED
  BY <1>1, <1>3, <1>4, <1>5 DEF OutOfReach

\* ... and when it is.
LEMMA OutOfReachKept ==
    ASSUME MeddledInv, OutOfReach, FileNext, away # Nil, UNCHANGED away, meddled = 0
    PROVE  OutOfReach'
<1>1. moved
  BY DEF MeddledInv, NotYetLooked
<1>2. Names = away /\ Names' = away
  BY DEF Names
<1>3. CASE Write \/ Written
  <2> USE <1>1, <1>3 DEF OutOfReach, Write, Goes, Ended, Locals, Begin, OpenTemporary, Written,
       WriteFails, Look, Link, LinkFails, Replace, Confirm, Rollback, LookFails, RemoveNew, UnlinkNew,
       AfterRemoval, Restore, DropBackup, PutBack, Raise, Cleanup, UnlinkBackup, Finally
  <2>1. at' # "out" /\ UNCHANGED before
    OBVIOUS
  <2>2. whole => whole'
    OBVIOUS
  <2>3. at' \in {"cleanup", "unlink backup"} => at \in {"cleanup", "unlink backup"}
    OBVIOUS
  <2>4. /\ at \in {"over", "dead"} => at' \in {"over", "dead"} /\ UNCHANGED outcome
        /\ at \in {"cleanup", "unlink backup"} =>
               at' \in {"cleanup", "unlink backup", "over"} /\ outcome' \in {outcome, "ok", "cleanup failed"}
        /\ at \notin {"cleanup", "unlink backup", "over", "dead"} =>
               outcome' \in {outcome, "raised", "rollback failed", "not rolled back"}
    OBVIOUS
  <2> HIDE <1>3
  <2> USE DEF Write
  <2>5. OutcomeTrue'
    BY ONLY OutOfReach, <1>2, <2>1, <2>2, <2>3, <2>4, UNCHANGED away, away # Nil, meddled = 0
       DEF OutOfReach, OutcomeTrue
  <2> QED
    BY ONLY OutOfReach, <2>1, <2>2, <2>3, <2>4, <2>5, UNCHANGED away DEF OutOfReach
<1>4. CASE Die
  <2>1. at' = "dead" /\ UNCHANGED <<away, before, whole, outcome>>
    BY <1>4 DEF Die, Locals
  <2> QED
    BY ONLY OutOfReach, <1>2, <2>1, meddled = 0 DEF OutOfReach, OutcomeTrue
<1>5. CASE Meddle
  BY <1>5, <1>2 DEF Meddle, OutOfReach, OutcomeTrue, MeddledInv, FileTypeOK
<1>6. CASE MoveDirectory
  BY <1>6, <1>1 DEF MoveDirectory
<1>7. CASE NextFile
  BY <1>7 DEF NextFile
<1> QED
  BY <1>3, <1>4, <1>5, <1>6, <1>7 DEF FileNext

LEMMA AloneKept == MeddledInv /\ AloneInv /\ FileNext => AloneInv'
<1> SUFFICES ASSUME MeddledInv, AloneInv, FileNext, meddled' = 0
             PROVE  (away' = Nil => Reachable') /\ (away' # Nil => OutOfReach')
  BY DEF AloneInv
<1>1. away = Nil \/ NextFile \/ UNCHANGED away
  BY DEF MeddledInv, NotYetLooked, FileNext, Write, Begin, OpenTemporary, Written, WriteFails, Look,
     Link, LinkFails, Replace, Confirm, Rollback, LookFails, RemoveNew, UnlinkNew, Restore,
     DropBackup, PutBack, Raise, Cleanup, UnlinkBackup, Finally, Meddle, MoveDirectory, Die, Locals
<1>2. meddled = 0
  <2>1. meddled \in Nat /\ meddled' \in {meddled, meddled + 1}
    BY DEF MeddledInv, FileTypeOK, FileNext, Write, Begin, OpenTemporary, Written, WriteFails, Look,
       Link, LinkFails, Replace, Confirm, Rollback, LookFails, RemoveNew, UnlinkNew, Restore,
       DropBackup, PutBack, Raise, Cleanup, UnlinkBackup, Finally, Meddle, MoveDirectory, Die,
       NextFile, Locals
  <2> QED
    BY ONLY <2>1, meddled' = 0
<1>3. away' = Nil => Reachable'
  BY <1>1, ReachableKept DEF Reachable
<1>4. away' # Nil /\ away = Nil => MoveDirectory
  BY DEF FileNext, Write, Begin, OpenTemporary, Written, WriteFails, Look,
     Link, LinkFails, Replace, Confirm, Rollback, LookFails, RemoveNew, UnlinkNew, Restore,
     DropBackup, PutBack, Raise, Cleanup, UnlinkBackup, Finally, Meddle, Die, NextFile, Locals
<1>5. NextFile => away' = Nil
  BY DEF NextFile
<1> QED
  BY <1>1, <1>2, <1>3, <1>4, <1>5, MovedAway, OutOfReachKept DEF AloneInv
-----------------------------------------------------------------------------
\* There is no file at first.
LEMMA StartsEmpty == Init => FInv
<1> SUFFICES ASSUME FileInit PROVE FInv
  BY DEF Init
<1> USE OutputFileAssumption DEF FileInit, Leaf, Backup, Temp, Name, File, Outcomes
<1>1. FileTypeOK
  BY DEF FileTypeOK, Places
<1>2. NotYetLooked /\ NotYetReplaced /\ SeenBefore
  BY DEF NotYetLooked, NotYetReplaced, SeenBefore
<1>3. Undecided /\ RollingBack /\ Progress
  BY DEF Undecided, RollingBack, Progress, Fresh, Kept
<1>4. OutcomeTrue
  BY DEF OutcomeTrue, Names
<1> QED
  BY <1>1, <1>2, <1>3, <1>4 DEF FInv, MeddledInv, AloneInv, Reachable

\* Only these steps of a job touch the files.
LEMMA FileSteps == [Next]_vars => FileNext \/ UNCHANGED fileVars
<1> SUFFICES ASSUME Next PROVE FileNext \/ UNCHANGED fileVars
  BY DEF vars
<1>1. CASE Job
  BY <1>1 DEF Job, NextPage, PageFails, Listed, PageMissing, GoOn, DecompileMerged, DecompileSingle, WriteFile,
       Done, FileNext
<1>2. CASE Others
  BY <1>2 DEF Others, FileNext
<1>3. CASE Refused \/ \E md \in {"merged", "single"} : AskAll(md) \/ \E n \in Some : AskSome(md, n)
  BY <1>3 DEF Refused, AskAll, AskSome, Ask
<1> QED
  BY <1>1, <1>2, <1>3 DEF Next

\* A step that does not touch the files keeps the invariant ...
LEMMA FilesStayPut == FInv /\ UNCHANGED fileVars => FInv'
<1> SUFFICES ASSUME FInv, UNCHANGED fileVars PROVE FInv'
  OBVIOUS
<1>1. FileTypeOK'
  BY DEF FInv, MeddledInv, FileTypeOK, fileVars
<1>2. NotYetLooked' /\ (away = Nil => NotYetReplaced /\ SeenBefore)'
  BY DEF FInv, MeddledInv, NotYetLooked, NotYetReplaced, SeenBefore, Leaf, Backup, Temp, fileVars
<1>3. AloneInv'
  BY DEF FInv, AloneInv, Reachable, OutOfReach, Undecided, RollingBack, Progress, OutcomeTrue, Names,
       Kept, Fresh, Leaf, Backup, Temp, fileVars
<1> QED
  BY <1>1, <1>2, <1>3 DEF FInv, MeddledInv

\* ... and so does every step.
LEMMA FInvKept == FInv /\ [Next]_vars => FInv'
  BY FileSteps, FilesStayPut, MeddledKept, AloneKept DEF FInv

\* As long as no other program changes the names, a write of _atomic_write_text
\* that works leaves the new file, one that raises before its rollback begins or
\* after it is done leaves the old one, and however it ends the old file has its
\* name or the backup's, or the whole new one its name: for every file of every
\* job, with a descriptor of the directory or by path.
THEOREM OutcomeAlwaysTrue == Spec => []OutcomeTrue
<1>1. FInv => OutcomeTrue
  BY DEF FInv, AloneInv, Reachable, OutOfReach, OutcomeTrue
<1> QED
  BY StartsEmpty, FInvKept, <1>1, PTL DEF Spec
-----------------------------------------------------------------------------
\* A step that drops the last link has seen the new file, or the old one.
LEMMA LastLinkReached ==
    ASSUME MeddledInv, FileNext, away = Nil, away' = Nil, original # Nil, Links(original) # {}, Links(original)' = {},
           ~stolen, meddled' = meddled
    PROVE  Links(original) = {"backup"} /\ seen \in {"new", original}
<1>1. \E n \in Name : dir[n] = original
  BY DEF Links, Names
<1>2. \A n \in Name : dir'[n] # original'
  BY DEF Links, Names
<1>3. Temp # original
  BY DEF MeddledInv, NotYetReplaced
<1>4. ASSUME UNCHANGED <<dir, original>> PROVE FALSE
  BY <1>1, <1>2, <1>4
<1>5. Leaf = original \/ Backup = original
  BY <1>1, <1>3 DEF Leaf, Backup, Temp, Name
<1>6. dir'["leaf"] # original' /\ dir'["backup"] # original'
  BY <1>2 DEF Name
<1>7. dir \in [Name -> File \cup {Nil}]
  BY DEF MeddledInv, FileTypeOK
<1>8. Leaf # original => Links(original) = {"backup"}
  BY <1>1, <1>3 DEF Links, Names, Leaf, Temp, Name
<1> USE <1>5, <1>6, <1>7, OutputFileAssumption DEF MeddledInv, NotYetLooked, NotYetReplaced, SeenBefore, Goes, Put, Locals, Ended,
     Leaf, Backup, Name
<1>9. CASE Begin
  BY <1>9 DEF Begin
<1>10. CASE OpenTemporary
  BY <1>10 DEF OpenTemporary
<1>11. CASE Look
  BY <1>11 DEF Look
<1>12. CASE Link
  BY <1>12 DEF Link
<1>13. CASE LinkFails
  BY <1>13, <1>4 DEF LinkFails
<1>14. CASE Replace
  BY <1>14, <1>4 DEF Replace, Replaced
<1>15. CASE UnlinkNew
  BY <1>15, <1>4 DEF UnlinkNew, AfterRemoval
<1>16. CASE DropBackup
  BY <1>16, <1>4, <1>8 DEF DropBackup
<1>17. CASE PutBack
  BY <1>17, <1>4 DEF PutBack
<1>18. CASE UnlinkBackup
  BY <1>18, <1>4, <1>8 DEF UnlinkBackup
<1>19. CASE Finally
  BY <1>19, <1>4 DEF Finally
<1>20. CASE Meddle
  <2>1. meddled' = meddled + 1 /\ meddled \in Nat
    BY <1>20 DEF Meddle, FileTypeOK
  <2> QED
    BY ONLY <2>1, meddled' = meddled
<1>21. CASE NextFile
  BY <1>21 DEF NextFile
<1>22. CASE \/ Written \/ WriteFails \/ Confirm \/ Rollback \/ RemoveNew \/ Restore
             \/ Raise \/ Cleanup \/ LookFails \/ Die
  BY <1>22, <1>4 DEF Written, WriteFails, Confirm, Rollback, RemoveNew, Restore, Raise,
       Cleanup, LookFails, Die
<1>23. CASE MoveDirectory
  <2>1. UNCHANGED <<dir, original>>
    BY <1>23, <1>7 DEF MoveDirectory
  <2> QED
    BY ONLY <1>4, <2>1
<1> QED
  BY <1>9, <1>10, <1>11, <1>12, <1>13, <1>14, <1>15, <1>16, <1>17, <1>18, <1>19, <1>20, <1>21,
       <1>22, <1>23 DEF FileNext, Write

\* Nothing is dropped in a directory that was moved out of reach.
LEMMA LastLinkSeen ==
    ASSUME MeddledInv, FileNext, original # Nil, Links(original) # {}, Links(original)' = {},
           ~stolen, meddled' = meddled
    PROVE  Links(original) = {"backup"} /\ seen \in {"new", original}
<1>1. CASE away = Nil /\ away' = Nil
  BY <1>1, LastLinkReached
<1>2. CASE NextFile
  <2>1. original' = Nil /\ away' = Nil /\ dir' = [n \in Name |-> Nil]
    BY <1>2 DEF NextFile
  <2>2. "leaf" \in Links(original)'
    BY <2>1 DEF Links, Names, Name
  <2> QED
    BY <2>2
<1>3. CASE ~NextFile /\ (away # Nil \/ away' # Nil)
  <2>1. Names' = Names
    BY <1>3 DEF Names, MeddledInv, NotYetLooked, FileNext, Write, Begin, OpenTemporary, Written,
       WriteFails, Look, Link, LinkFails, Replace, Confirm, Rollback, LookFails, RemoveNew, UnlinkNew,
       Restore, DropBackup, PutBack, Raise, Cleanup, UnlinkBackup, Finally, Meddle, MoveDirectory, Die,
       Locals
  <2>2. original' = original
    BY <1>3 DEF MeddledInv, NotYetLooked, FileNext, Write, Begin, OpenTemporary, Written,
       WriteFails, Look, Link, LinkFails, Replace, Confirm, Rollback, LookFails, RemoveNew, UnlinkNew,
       Restore, DropBackup, PutBack, Raise, Cleanup, UnlinkBackup, Finally, Meddle, MoveDirectory, Die,
       Locals
  <2> QED
    BY <2>1, <2>2 DEF Links
<1> QED
  BY <1>1, <1>2, <1>3

\* Whatever other programs do to the leaf: the last link to the file that is
\* to be replaced goes only when its successor, or the file itself, was seen
\* under the name (_create_rollback_link, the rollback and the cleanup of
\* _atomic_write_text).
THEOREM OriginalNeverDropped == Spec => OriginalNotDropped
<1>1. FInv /\ [Next]_vars
        => [original # Nil /\ Links(original) # {} /\ Links(original)' = {} /\ ~stolen /\ meddled' = meddled
            => Links(original) = {"backup"} /\ seen \in {"new", original}]_fileVars
  BY FileSteps, LastLinkSeen DEF FInv
<1> QED
  BY StartsEmpty, FInvKept, <1>1, PTL DEF Spec, OriginalNotDropped
-----------------------------------------------------------------------------
(***************************************************************************)
(* Rows in ascending order.  The rank of a row is its place, so that what  *)
(* a page has of a list of rows is a question of ranks.                    *)
(***************************************************************************)
Rowset(s) == s \in SUBSET Nat /\ IsFiniteSet(s)

LEMMA RankFacts ==
    ASSUME NEW s, Rowset(s), NEW a \in s
    PROVE  /\ Rank(s, a) \in 1..Cardinality(s)
           /\ \A b \in s : a < b => Rank(s, a) < Rank(s, b)
           /\ \A b \in s : Rank(s, a) = Rank(s, b) => a = b
<1> DEFINE upto(b) == {c \in s : c <= b}
<1>0. Cardinality(s) \in Nat
  BY FS_CardinalityType DEF Rowset
<1>n. \A b \in s : b \in Nat
  BY DEF Rowset
<1>1. ASSUME NEW b \in s
      PROVE  IsFiniteSet(upto(b)) /\ Rank(s, b) \in 1..Cardinality(s)
  <2>1. IsFiniteSet(upto(b)) /\ Cardinality(upto(b)) <= Cardinality(s)
    BY FS_Subset DEF Rowset
  <2>2. b \in upto(b)
    BY DEF Rowset
  <2>3. Cardinality(upto(b)) \in Nat /\ Cardinality(upto(b)) # 0
    BY <2>1, <2>2, FS_CardinalityType, FS_EmptySet
  <2> QED BY <1>0, <2>1, <2>3 DEF Rank
<1>2. ASSUME NEW b \in s, NEW c \in s, b < c PROVE Rank(s, b) < Rank(s, c)
  <2>1. \A x \in s : x <= b => x <= c
    BY <1>n, <1>2
  <2>n. c <= c /\ ~ (c <= b)
    BY <1>n, <1>2
  <2>0. upto(b) \subseteq upto(c) /\ c \in upto(c) /\ c \notin upto(b)
    BY <2>1, <2>n
  <2>2. IsFiniteSet(upto(c)) /\ IsFiniteSet(upto(b))
    BY <1>1
  <2> HIDE DEF upto
  <2>3. Cardinality(upto(b)) <= Cardinality(upto(c)) /\ Cardinality(upto(b)) # Cardinality(upto(c))
    BY <2>0, <2>2, FS_Subset
  <2>4. Cardinality(upto(b)) \in Nat /\ Cardinality(upto(c)) \in Nat
    BY <2>2, FS_CardinalityType
  <2>5. Cardinality(upto(b)) < Cardinality(upto(c))
    BY <2>3, <2>4
  <2> QED BY <2>5 DEF Rank, upto
<1>3. ASSUME NEW b \in s, Rank(s, a) = Rank(s, b) PROVE a = b
  <2>0. Rank(s, a) \in 1..Cardinality(s)
    BY <1>1
  <2>1. Rank(s, a) \in Nat /\ a \in Nat /\ b \in Nat
    BY ONLY <1>0, <2>0, <1>n, a \in s, b \in s
  <2>2. ~ (a < b) /\ ~ (b < a)
    BY <1>2, <1>3, <2>1
  <2> QED BY <2>1, <2>2
<1> QED BY <1>1, <1>2, <1>3

\* Every place up to the number of rows has a row, which is the one of that rank.
LEMMA AscendingFacts ==
    ASSUME NEW s, Rowset(s)
    PROVE  /\ Cardinality(s) \in Nat
           /\ Ascending(s) \in Seq(s) /\ Ascending(s) \in Seq(Nat)
           /\ Len(Ascending(s)) = Cardinality(s)
           /\ \A k \in 1..Cardinality(s) : Ascending(s)[k] \in s /\ Rank(s, Ascending(s)[k]) = k
           /\ \A a \in s : Rank(s, a) \in 1..Cardinality(s) /\ Ascending(s)[Rank(s, a)] = a
<1> DEFINE n == Cardinality(s)
           f == [a \in s |-> Rank(s, a)]
<1>0. n \in Nat
  BY FS_CardinalityType DEF Rowset
<1>1. f \in [s -> 1..n] /\ \A a, b \in s : f[a] = f[b] => a = b
  BY RankFacts
<1>2. \A k \in 1..n : \E a \in s : Rank(s, a) = k
  <2>1. f \in Injection(s, 1..n)
    BY <1>1 DEF Injection, IsInjective
  <2>2. IsFiniteSet(1..n) /\ Cardinality(1..n) = n
    BY <1>0, FS_Interval
  <2>3. f \in Surjection(s, 1..n)
    BY <2>1, <2>2, FS_Injection
  <2> QED BY <2>3 DEF Surjection
<1>3. \A k \in 1..n : Ascending(s)[k] \in s /\ Rank(s, Ascending(s)[k]) = k
  BY <1>2 DEF Ascending
<1>4. Ascending(s) \in [1..n -> s] /\ s \subseteq Nat
  BY <1>3 DEF Ascending, Rowset
<1>5. Ascending(s) \in Seq(s) /\ Ascending(s) \in Seq(Nat) /\ Len(Ascending(s)) = n
  <2> HIDE DEF n
  <2>1. Ascending(s) \in Seq(s)
    BY <1>0, <1>4
  <2>2. DOMAIN Ascending(s) = 1..n
    BY <1>4
  <2>3. Len(Ascending(s)) = n
    BY <1>0, <2>1, <2>2, LenProperties
  <2>4. Ascending(s) \in [1..n -> Nat]
    BY <1>4
  <2> QED BY <1>0, <2>1, <2>3, <2>4
<1>6. \A a \in s : Rank(s, a) \in 1..n /\ Ascending(s)[Rank(s, a)] = a
  BY <1>3, RankFacts
<1> QED BY <1>0, <1>3, <1>5, <1>6

\* More rows never move one to the front.
LEMMA RankGrows ==
    ASSUME NEW s, NEW t, Rowset(t), s \subseteq t, NEW a
    PROVE  Rank(s, a) <= Rank(t, a) /\ Rank(s, a) \in Nat /\ Rank(t, a) \in Nat
<1>1. IsFiniteSet({b \in t : b <= a})
  BY FS_Subset DEF Rowset
<1>2. {b \in s : b <= a} \subseteq {b \in t : b <= a}
  OBVIOUS
<1> QED BY <1>1, <1>2, FS_Subset, FS_CardinalityType DEF Rank

\* The rows between two addresses are a part of the listing.
Below(s, b) == Cardinality({a \in s : a < b})

LEMMA BelowFacts ==
    ASSUME NEW s, Rowset(s), NEW from \in Nat, NEW to \in Nat, from <= to
    PROVE  /\ Rowset(Within(s, from, to))
           /\ Below(s, from) \in Nat /\ Below(s, to) \in Nat /\ Below(s, to) <= Cardinality(s)
           /\ Below(s, to) = Below(s, from) + Cardinality(Within(s, from, to))
           /\ \A a \in Within(s, from, to) :
                 Rank(s, a) = Below(s, from) + Rank(Within(s, from, to), a)
<1> DEFINE low == {a \in s : a < from}
<1>n. \A b \in s : b \in Nat
  BY DEF Rowset
<1>1. \A b : IsFiniteSet({a \in s : a < b})
  BY FS_Subset DEF Rowset
<1>2. Rowset(Within(s, from, to))
  BY FS_Subset DEF Rowset, Within
<1>3. \A b : Below(s, b) \in Nat /\ Below(s, b) <= Cardinality(s)
  BY <1>1, FS_CardinalityType, FS_Subset DEF Below, Rowset
<1>4. ASSUME NEW T, T \subseteq s, \A a \in T : ~ (a < from)
      PROVE  Cardinality(low \cup T) = Below(s, from) + Cardinality(T)
  <2>1. low \cap T = {} /\ IsFiniteSet(T) /\ IsFiniteSet(low)
    BY <1>1, <1>4, FS_Subset DEF Rowset
  <2>2. Cardinality(low \cap T) = 0
    BY <2>1, FS_EmptySet
  <2>3. Cardinality(low) \in Nat /\ Cardinality(T) \in Nat
    BY <2>1, FS_CardinalityType
  <2>4. Cardinality(low \cup T) = Cardinality(low) + Cardinality(T) - Cardinality(low \cap T)
    BY <2>1, FS_Union
  <2> QED BY <2>2, <2>3, <2>4 DEF Below
<1>5. Below(s, to) = Below(s, from) + Cardinality(Within(s, from, to))
  <2>n. \A a \in s : (a < to <=> a < from \/ (from <= a /\ a < to)) /\ ~ (from <= a /\ a < from)
    BY <1>n
  <2>1. {a \in s : a < to} = low \cup Within(s, from, to)
    BY <2>n DEF Within
  <2>2. \A a \in Within(s, from, to) : ~ (a < from)
    BY <2>n DEF Within
  <2> HIDE DEF low
  <2>3. Cardinality(low \cup Within(s, from, to)) = Below(s, from) + Cardinality(Within(s, from, to))
    BY <1>4, <2>2 DEF Within
  <2> QED BY <2>1, <2>3 DEF Below
<1>6. ASSUME NEW a \in Within(s, from, to)
      PROVE  Rank(s, a) = Below(s, from) + Rank(Within(s, from, to), a)
  <2> DEFINE T == {b \in Within(s, from, to) : b <= a}
  <2>a. a \in s /\ from <= a /\ a < to
    BY <1>6 DEF Within
  <2>n. \A b \in s : (b <= a <=> b < from \/ (from <= b /\ b < to /\ b <= a)) /\ ~ (from <= b /\ b < from)
    BY <1>n, <2>a
  <2>1. {b \in s : b <= a} = low \cup T
    BY <2>n DEF Within
  <2>2. T \subseteq s /\ \A b \in T : ~ (b < from)
    BY <2>n DEF Within
  <2> HIDE DEF low
  <2>3. Cardinality(low \cup T) = Below(s, from) + Cardinality(T)
    BY <1>4, <2>2
  <2> QED BY <2>1, <2>3 DEF Rank
<1> QED BY <1>2, <1>3, <1>5, <1>6

LEMMA AscendingWithin ==
    ASSUME NEW s, Rowset(s), NEW from \in Nat, NEW to \in Nat, from <= to
    PROVE  Ascending(Within(s, from, to)) = SubSeq(Ascending(s), Below(s, from) + 1, Below(s, to))
<1> DEFINE w == Within(s, from, to)
           b == Below(s, from)
           n == Cardinality(w)
           part == SubSeq(Ascending(s), b + 1, Below(s, to))
<1>1. /\ Rowset(w) /\ b \in Nat /\ Below(s, to) = b + n /\ b + n <= Cardinality(s)
      /\ \A a \in w : Rank(s, a) = b + Rank(w, a)
  <2>1. /\ Rowset(w) /\ b \in Nat /\ Below(s, to) = b + n /\ Below(s, to) <= Cardinality(s)
        /\ \A a \in w : Rank(s, a) = b + Rank(w, a)
    <3>1. /\ Rowset(Within(s, from, to)) /\ Below(s, from) \in Nat /\ Below(s, to) <= Cardinality(s)
          /\ Below(s, to) = Below(s, from) + Cardinality(Within(s, from, to))
      BY BelowFacts
    <3>2. \A a \in Within(s, from, to) :
             Rank(s, a) = Below(s, from) + Rank(Within(s, from, to), a)
      BY BelowFacts
    <3> QED BY <3>1, <3>2
  <2> QED BY <2>1
<1>2. w \subseteq s
  BY DEF Within
<1> HIDE DEF w, b
<1>3. /\ n \in Nat /\ Ascending(w) \in Seq(Nat) /\ Len(Ascending(w)) = n
      /\ \A k \in 1..n : Ascending(w)[k] \in w /\ Rank(w, Ascending(w)[k]) = k
  BY <1>1, AscendingFacts
<1>4. /\ Cardinality(s) \in Nat
      /\ \A k \in 1..Cardinality(s) : Ascending(s)[k] \in Nat
      /\ \A a \in s : Ascending(s)[Rank(s, a)] = a
  BY AscendingFacts DEF Rowset
<1>5. \A k \in 1..n : Ascending(w)[k] = Ascending(s)[b + k]
  BY <1>1, <1>2, <1>3, <1>4
<1>6. /\ part \in Seq(Nat) /\ Len(part) = n
      /\ \A k \in 1..n : part[k] = Ascending(s)[b + k]
  <2>1. \A i \in b + 1 .. b + n : Ascending(s)[i] \in Nat
    BY <1>1, <1>3, <1>4
  <2>2. /\ SubSeq(Ascending(s), b + 1, b + n) \in Seq(Nat)
        /\ Len(SubSeq(Ascending(s), b + 1, b + n)) = IF b + 1 <= b + n THEN b + n - (b + 1) + 1 ELSE 0
        /\ \A i \in 1 .. b + n - (b + 1) + 1 :
              SubSeq(Ascending(s), b + 1, b + n)[i] = Ascending(s)[b + 1 + i - 1]
    BY <1>1, <1>3, <2>1, SubSeqProperties
  <2> QED BY <1>1, <1>3, <2>2
<1> HIDE DEF n, part
<1>7. Ascending(w) = part
  BY <1>3, <1>5, <1>6, SeqEqual
<1> QED BY <1>7 DEF w, b, part

\* The rows before an address are those of a lower place.
LEMMA RankBelow ==
    ASSUME NEW s, Rowset(s), NEW a \in s, NEW c \in Nat
    PROVE  /\ Below(s, c) \in 0..Cardinality(s)
           /\ Rank(s, a) <= Below(s, c) <=> a < c
           /\ Below(s, a + 1) = Rank(s, a)
<1> DEFINE low == {b \in s : b < c}
           upto == {b \in s : b <= a}
<1>n. \A b \in s : b \in Nat
  BY DEF Rowset
<1>1. IsFiniteSet(low) /\ IsFiniteSet(upto) /\ IsFiniteSet(s)
  BY FS_Subset DEF Rowset
<1>2. /\ Cardinality(low) \in Nat /\ Cardinality(upto) \in Nat /\ Cardinality(s) \in Nat
      /\ Cardinality(low) <= Cardinality(s)
  BY <1>1, FS_CardinalityType, FS_Subset
<1>3. Below(s, c) = Cardinality(low) /\ Rank(s, a) = Cardinality(upto)
  BY DEF Below, Rank
<1>4. ASSUME a < c PROVE Cardinality(upto) <= Cardinality(low)
  <2>1. \A b \in s : b <= a => b < c
    BY <1>n, <1>4
  <2>2. upto \subseteq low
    BY <2>1
  <2> QED BY <1>1, <2>2, FS_Subset
<1>5. ASSUME ~ (a < c) PROVE Cardinality(low) < Cardinality(upto)
  <2>1. \A b \in s : b < c => b <= a /\ b # a
    BY <1>n, <1>5
  <2>2. a \in upto /\ a \notin low
    BY <1>n, <1>5
  <2>3. low \subseteq upto /\ low # upto
    BY <2>1, <2>2
  <2> HIDE DEF low, upto
  <2>4. Cardinality(low) <= Cardinality(upto) /\ Cardinality(low) # Cardinality(upto)
    BY <1>1, <2>3, FS_Subset
  <2> QED BY <1>2, <2>4
<1>6. Below(s, a + 1) = Rank(s, a)
  <2>1. \A b \in s : b < a + 1 <=> b <= a
    BY <1>n
  <2>2. {b \in s : b < a + 1} = upto
    BY <2>1
  <2> QED BY <2>2 DEF Below, Rank
<1> HIDE DEF low, upto
<1> QED BY <1>2, <1>3, <1>4, <1>5, <1>6

\* Nothing is below the first address.
LEMMA BelowEnds ==
    ASSUME NEW s, Rowset(s), NEW c \in Nat
    PROVE  /\ (\A a \in s : ~ (a < c)) => Below(s, c) = 0
           /\ (\A a \in s : a < c) => Below(s, c) = Cardinality(s)
<1>1. (\A a \in s : ~ (a < c)) => {a \in s : a < c} = {}
  OBVIOUS
<1>2. (\A a \in s : a < c) => {a \in s : a < c} = s
  OBVIOUS
<1> QED BY <1>1, <1>2, FS_EmptySet DEF Below

\* How many rows of s a client has that reads with the tool t and holds the
\* cursor c: the cursor of search_text is an address, that of the others an
\* offset.
Place(t, s, c) ==
    IF c = None THEN Cardinality(s) ELSE IF t = "search_text" THEN Below(s, c) ELSE c

\* More rows never move one to a place that was already read.
LEMMA PlaceGrows ==
    ASSUME NEW s, NEW u, Rowset(s), Rowset(u), s \subseteq u, NEW a \in s, NEW t, NEW c \in Nat,
           Rank(u, a) <= Place(t, u, c)
    PROVE  Rank(s, a) <= Place(t, s, c)
<1>1. c # None
  BY ListingAssumption
<1>2. CASE t = "search_text"
  <2>1. Rank(u, a) <= Below(u, c) <=> a < c
    BY RankBelow
  <2>2. Rank(s, a) <= Below(s, c) <=> a < c
    BY RankBelow
  <2> QED BY <1>1, <1>2, <2>1, <2>2 DEF Place
<1>3. CASE t # "search_text"
  <2>1. Rank(s, a) <= Rank(u, a) /\ Rank(s, a) \in Nat /\ Rank(u, a) \in Nat
    BY RankGrows
  <2> QED BY <1>1, <1>3, <2>1 DEF Place
<1> QED BY <1>2, <1>3
-----------------------------------------------------------------------------
\* What a page is: the rows of the listing s from the cursor on, up to the
\* next cursor.
IsPage(p, t, s, c) ==
    /\ p.next \in Nat \cup {None}
    /\ Place(t, s, p.next) \in 0..Cardinality(s)
    /\ p.next # None => Place(t, s, c) <= Place(t, s, p.next)
    /\ p.data = SubSeq(Ascending(s), Place(t, s, c) + 1, Place(t, s, p.next))

LEMMA PageData ==
    ASSUME NEW s, Rowset(s), NEW t, NEW c \in Nat, NEW p, IsPage(p, t, s, c)
    PROVE  Place(t, s, c) \in Nat /\ p.data \in Seq(Nat)
<1> DEFINE i == Place(t, s, c)
           j == Place(t, s, p.next)
<1>1. Cardinality(s) \in Nat /\ \A k \in 1..Cardinality(s) : Ascending(s)[k] \in s
  BY AscendingFacts
<1>2. p.data = SubSeq(Ascending(s), i + 1, j) /\ j \in 0..Cardinality(s)
  BY DEF IsPage
<1>3. i \in Nat
  BY <1>1, BelowFacts DEF Place
<1> HIDE DEF i, j
<1>4. \A k \in s : k \in Nat
  BY DEF Rowset
<1>5. i + 1 \in Int /\ j \in Int /\ \A k \in i + 1 .. j : Ascending(s)[k] \in Nat
  BY <1>1, <1>2, <1>3, <1>4
<1>6. p.data \in Seq(Nat)
  BY <1>2, <1>5, SubSeqProperties
<1> QED BY <1>3, <1>6 DEF i

LEMMA MinOfTwo ==
    ASSUME NEW m \in Nat, NEW n \in Nat
    PROVE  Min({m, n}) = IF m <= n THEN m ELSE n
<1> DEFINE k == IF m <= n THEN m ELSE n
<1>1. k \in {m, n} /\ \A x \in {m, n} : k <= x
  OBVIOUS
<1>2. \A y \in {m, n} : (\A x \in {m, n} : y <= x) => y = k
  OBVIOUS
<1> HIDE DEF k
<1>3. Min({m, n}) = k
  BY <1>1, <1>2 DEF Min
<1> QED BY <1>3 DEF k

\* utils.paginate and find_regex.
LEMMA OffsetPage ==
    ASSUME NEW s, Rowset(s), NEW c \in Nat, NEW n \in Nat, NEW t, t # "search_text",
           NEW p, p = [data |-> Slice(Ascending(s), c, n),
                       next |-> IF c + n >= Len(Ascending(s)) THEN None ELSE c + n]
    PROVE  IsPage(p, t, s, c) /\ (Len(p.data) < n => p.next = None)
<1> DEFINE A == Ascending(s)
<1>1. /\ Cardinality(s) \in Nat /\ Len(A) = Cardinality(s)
      /\ \A k \in 1..Cardinality(s) : A[k] \in s
  BY AscendingFacts
<1>2. c # None /\ c + n # None /\ c + n \in Nat
  <2>1. c + n \in Nat
    OBVIOUS
  <2> QED BY <2>1, ListingAssumption
<1> HIDE DEF A
<1>3. Slice(A, c, n) = SubSeq(A, c + 1, IF c + n <= Len(A) THEN c + n ELSE Len(A))
  BY <1>1, <1>2, MinOfTwo DEF Slice
<1>4. CASE c + n >= Len(A)
  <2>1. p.next = None /\ p.data = SubSeq(A, c + 1, Cardinality(s))
    BY <1>1, <1>3, <1>4 DEF A
  <2> QED BY <1>1, <1>2, <2>1 DEF IsPage, Place, A
<1>5. CASE ~ (c + n >= Len(A))
  <2>1. p.next = c + n /\ p.data = SubSeq(A, c + 1, c + n)
    BY <1>1, <1>2, <1>3, <1>5 DEF A
  <2>2. \A i \in c + 1 .. c + n : A[i] \in s
    BY <1>1, <1>5
  <2>3. Len(p.data) = IF c + 1 <= c + n THEN c + n - (c + 1) + 1 ELSE 0
    BY <1>2, <2>1, <2>2, SubSeqProperties
  <2>4. ~ (Len(p.data) < n)
    BY <2>3
  <2>5. IsPage(p, t, s, c)
    BY <1>1, <1>2, <1>5, <2>1 DEF IsPage, Place, A
  <2> QED BY <2>4, <2>5
<1> QED BY <1>4, <1>5

\* search_text.
LEMMA SearchPage ==
    ASSUME NEW s, Rowset(s), s \subseteq Address, NEW c \in Nat, NEW count \in Nat,
           NEW stop \in Nat, c <= stop, NEW p, p = SearchText(s, c, count, stop)
    PROVE  IsPage(p, "search_text", s, c)
<1> DEFINE w == Within(s, c, stop)
           n == Limit(count)
           b == Below(s, c)
           m == Below(s, stop)
           A == Ascending(s)
           hits == Ascending(w)
<1>1. n \in Nat \ {0} /\ None \notin Nat
  BY ListingAssumption DEF Limit
<1>2. /\ Rowset(w) /\ b \in Nat /\ m \in Nat /\ m <= Cardinality(s)
      /\ m = b + Cardinality(w)
      /\ \A a \in w : Rank(s, a) = b + Rank(w, a)
  <2>1. Rowset(Within(s, c, stop))
    BY BelowFacts
  <2>2. Below(s, c) \in Nat /\ Below(s, stop) \in Nat /\ Below(s, stop) <= Cardinality(s)
    BY BelowFacts
  <2>3. Below(s, stop) = Below(s, c) + Cardinality(Within(s, c, stop))
    BY BelowFacts
  <2>4. \A a \in Within(s, c, stop) : Rank(s, a) = Below(s, c) + Rank(Within(s, c, stop), a)
    BY BelowFacts
  <2> QED BY <2>1, <2>2, <2>3, <2>4
<1>3. hits = SubSeq(A, b + 1, m)
  BY AscendingWithin
<1>4. w \subseteq s /\ s \subseteq Nat
  BY DEF Within, Rowset
<1>5. /\ Cardinality(w) \in Nat /\ Len(hits) = Cardinality(w)
      /\ \A k \in 1..Cardinality(w) : hits[k] \in w /\ Rank(w, hits[k]) = k
  BY <1>2, AscendingFacts
<1>6. Cardinality(s) \in Nat /\ A \in Seq(Nat) /\ Len(A) = Cardinality(s)
  BY AscendingFacts
<1>7. p = IF Len(hits) >= n
          THEN [data |-> SubSeq(hits, 1, n), next |-> hits[n] + 1]
          ELSE [data |-> hits, next |-> IF \E a \in Address : stop <= a THEN stop ELSE None]
  BY DEF SearchText
<1> HIDE DEF n
<1>8. CASE Len(hits) >= n
  <2>0. n \in 1..Cardinality(w)
    BY <1>1, <1>5, <1>8
  <2>1. hits[n] \in w /\ Rank(w, hits[n]) = n
    BY <1>5, <2>0
  <2>2. hits[n] \in s /\ hits[n] \in Nat
    BY <1>4, <2>1
  <2>3. Below(s, hits[n] + 1) = b + n
    BY <1>2, <2>1, <2>2, RankBelow
  <2> HIDE DEF b, m, A, w
  <2>4. b + 1 \in 1..Len(A) /\ m \in 1..Len(A) /\ 1 \in 1..m - (b + 1) + 1 /\ n \in 1..m - (b + 1) + 1
    <3> DEFINE k == Cardinality(w)
               l == Cardinality(s)
    <3>1. /\ n \in Nat /\ n \in 1..k /\ k \in Nat /\ l \in Nat /\ Len(A) = l
          /\ b \in Nat /\ m = b + k /\ m <= l
      BY <1>1, <1>2, <1>5, <1>6, <2>0
    <3> HIDE DEF k, l
    <3> QED BY ONLY <3>1
  <2>7. SubSeq(hits, 1, n) = SubSeq(A, b + 1, b + n)
    <3>1. /\ n \in Nat /\ b \in Nat /\ m \in Nat /\ b + n <= m /\ m <= Len(A) /\ A \in Seq(Nat)
      BY <1>1, <1>2, <1>5, <1>6, <2>0
    <3>2. \A i \in b + 1 .. m : A[i] \in Nat
      BY <3>1
    <3>3. /\ SubSeq(A, b + 1, m) \in Seq(Nat) /\ Len(SubSeq(A, b + 1, m)) = IF b + 1 <= m THEN m - (b + 1) + 1 ELSE 0
          /\ \A i \in 1 .. m - (b + 1) + 1 : SubSeq(A, b + 1, m)[i] = A[b + 1 + i - 1]
      BY <3>1, <3>2, SubSeqProperties
    <3>4. /\ SubSeq(A, b + 1, b + n) \in Seq(Nat)
          /\ Len(SubSeq(A, b + 1, b + n)) = IF b + 1 <= b + n THEN b + n - (b + 1) + 1 ELSE 0
          /\ \A i \in 1 .. b + n - (b + 1) + 1 : SubSeq(A, b + 1, b + n)[i] = A[b + 1 + i - 1]
      BY <3>1, <3>2, SubSeqProperties
    <3> DEFINE q == SubSeq(A, b + 1, m)
               r == SubSeq(A, b + 1, b + n)
    <3> HIDE DEF q, r
    <3>5. q \in Seq(Nat) /\ n <= Len(q) /\ \A i \in 1..n : q[i] = A[b + i]
      BY <3>1, <3>3 DEF q
    <3>6. r \in Seq(Nat) /\ Len(r) = n /\ \A i \in 1..n : r[i] = A[b + i]
      BY <3>1, <3>4 DEF r
    <3>7. \A i \in 1..n : q[i] \in Nat
      BY <3>1, <3>5
    <3>8. /\ SubSeq(q, 1, n) \in Seq(Nat) /\ Len(SubSeq(q, 1, n)) = IF 1 <= n THEN n - 1 + 1 ELSE 0
          /\ \A i \in 1 .. n - 1 + 1 : SubSeq(q, 1, n)[i] = q[1 + i - 1]
      BY <3>1, <3>7, SubSeqProperties
    <3> DEFINE o == SubSeq(q, 1, n)
    <3> HIDE DEF o
    <3>9. o \in Seq(Nat) /\ Len(o) = n /\ \A i \in 1..n : o[i] = r[i]
      <4>1. 1 <= n /\ n - 1 + 1 = n /\ \A i \in 1..n : 1 + i - 1 = i
        BY <1>1
      <4>2. o \in Seq(Nat) /\ Len(o) = n /\ \A i \in 1..n : o[i] = q[i]
        BY <3>8, <4>1 DEF o
      <4> QED BY <3>5, <3>6, <4>2
    <3>10. o = r
      BY <3>6, <3>9, SeqEqual
    <3> QED BY <1>3, <3>10 DEF o, q, r
  <2> HIDE DEF hits
  <2>8. p.data = SubSeq(A, b + 1, b + n) /\ p.next = hits[n] + 1
    <3>1. p = [data |-> SubSeq(hits, 1, n), next |-> hits[n] + 1]
      BY <1>7, <1>8
    <3> DEFINE part == SubSeq(hits, 1, n)
    <3>0. p = [data |-> part, next |-> hits[n] + 1]
      BY <3>1
    <3> HIDE DEF part
    <3>2. p.data = part
      BY <3>0
    <3>3. p.next = hits[n] + 1
      BY <3>1
    <3> QED BY <2>7, <3>2, <3>3 DEF part
  <2>9. p.next \in Nat /\ p.next # None
    BY <1>1, <2>2, <2>8
  <2>10. Place("search_text", s, c) = b /\ Place("search_text", s, p.next) = b + n
    BY <1>1, <2>3, <2>8, <2>9 DEF Place, b
  <2>11. b + n \in 0..Cardinality(s) /\ b <= b + n
    BY <1>1, <1>2, <1>5, <1>6, <2>0
  <2> QED BY <2>8, <2>9, <2>10, <2>11 DEF IsPage, A
<1>9. CASE ~ (Len(hits) >= n) /\ \E a \in Address : stop <= a
  <2>1. p.data = SubSeq(A, b + 1, m) /\ p.next = stop
    <3> HIDE DEF hits
    <3>1. p = [data |-> hits, next |-> IF \E a \in Address : stop <= a THEN stop ELSE None]
      BY <1>7, <1>9
    <3>2. p.data = hits
      BY <3>1
    <3>3. p.next = IF \E a \in Address : stop <= a THEN stop ELSE None
      BY <3>1
    <3> QED BY <1>3, <1>9, <3>2, <3>3
  <2>2. Place("search_text", s, c) = b /\ Place("search_text", s, p.next) = m /\ stop # None
    BY <1>1, <2>1 DEF Place
  <2>3. m \in 0..Cardinality(s) /\ b <= m
    BY <1>2, <1>5, <1>6
  <2> QED BY <2>1, <2>2, <2>3 DEF IsPage
<1>10. CASE ~ (Len(hits) >= n) /\ ~ \E a \in Address : stop <= a
  <2>1. \A a \in s : a < stop
    BY <1>4, <1>10
  <2>2. m = Cardinality(s)
    BY <2>1, BelowEnds
  <2>3. p.data = SubSeq(A, b + 1, m) /\ p.next = None
    <3> HIDE DEF hits
    <3>1. p = [data |-> hits, next |-> IF \E a \in Address : stop <= a THEN stop ELSE None]
      BY <1>7, <1>10
    <3>2. p.data = hits
      BY <3>1
    <3>3. p.next = IF \E a \in Address : stop <= a THEN stop ELSE None
      BY <3>1
    <3> QED BY <1>3, <1>10, <3>2, <3>3
  <2>4. Place("search_text", s, c) = b /\ Place("search_text", s, p.next) = m
    BY <1>1, <2>2, <2>3 DEF Place
  <2>5. m \in 0..Cardinality(s)
    BY <1>6, <2>2
  <2> QED BY <2>3, <2>4, <2>5 DEF IsPage
<1> QED BY <1>8, <1>9, <1>10
-----------------------------------------------------------------------------
(***************************************************************************)
(* Listings as decompile_to_file and the other clients of the instance     *)
(* read them.                                                              *)
(***************************************************************************)
Rowsets == {s \in SUBSET Address : IsFiniteSet(s)}

ListTypes ==
    /\ db \in Rowsets /\ last \in Rowsets
    /\ cache \in Rowsets \cup {None}
    /\ edits \in Nat
    /\ match \in SUBSET Address /\ size \in Nat
    /\ cursor \in Nat \cup {None}
    /\ got \in Seq(Nat)
    /\ owed \in SUBSET last
    /\ tool # None => kind \in KindsOf(tool)
    /\ tool = None => got = <<>> /\ owed = {}

LEMMA RowsetsAreRowsets ==
    ASSUME NEW s \in Rowsets, NEW m
    PROVE  Rowset(s) /\ Rowset(s \cap m) /\ s \cap m \in Rowsets
<1>1. s \in SUBSET Address /\ IsFiniteSet(s)
  BY DEF Rowsets
<1>2. s \cap m \subseteq s /\ IsFiniteSet(s \cap m)
  BY <1>1, FS_Subset
<1>3. Address \subseteq Nat
  BY ListingAssumption
<1> QED BY <1>1, <1>2, <1>3 DEF Rowset, Rowsets

LEMMA RowsFacts == ListTypes => Built \in Rowsets /\ Rows \in Rowsets
  BY DEF ListTypes, Built, Rows

\* Whatever tool the client reads with, it gets a page.
LEMMA PageFacts ==
    ASSUME ListTypes, tool # None, cursor # None, NEW p \in Page
    PROVE  /\ IsPage(p, tool, Rows \cap match, cursor)
           /\ tool = "decompile_to_file" /\ Len(p.data) < size => p.next = None
<1> DEFINE s == Rows \cap match
           A == Ascending(s)
<1>1. Rowset(s) /\ s \subseteq Address
  <2>1. s \in Rowsets /\ Rowset(s)
    BY RowsFacts, RowsetsAreRowsets
  <2> QED BY <2>1 DEF Rowsets
<1>2. cursor \in Nat /\ size \in Nat /\ MaxLimit \in Nat \ {0}
  BY ListingAssumption DEF ListTypes
<1>3. Len(A) \in Nat
  BY <1>1, AscendingFacts
<1>4. p \in CASE tool = "search_text" -> {SearchText(s, cursor, size, x) : x \in {a \in Stops : a >= cursor}}
             [] tool = "find_regex" -> {FindRegex(A, cursor, size)}
             [] tool = "entity_query" -> {Paginate(A, cursor, IF size = 0 THEN MaxLimit ELSE size)}
             [] OTHER -> {Paginate(A, cursor, size)}
  BY DEF Page
<1> HIDE DEF s
<1>5. CASE tool = "search_text"
  <2>1. PICK x \in Stops : x >= cursor /\ p = SearchText(s, cursor, size, x)
    BY <1>4, <1>5
  <2>2. x \in Nat
    <3>1. Address \subseteq Nat
      BY ListingAssumption
    <3>2. x \in Address \/ \E a \in Address : x = a + 1
      BY DEF Stops
    <3>3. \A a \in Address : a \in Nat /\ a + 1 \in Nat
      BY <3>1
    <3> QED BY <3>2, <3>3
  <2>3. IsPage(p, "search_text", s, cursor)
    BY <1>1, <1>2, <2>1, <2>2, SearchPage
  <2> QED BY <1>5, <2>3 DEF s
<1>6. ASSUME NEW n \in Nat,
             p = [data |-> Slice(A, cursor, n),
                  next |-> IF cursor + n >= Len(A) THEN None ELSE cursor + n],
             tool # "search_text"
      PROVE  IsPage(p, tool, s, cursor) /\ (Len(p.data) < n => p.next = None)
  BY <1>1, <1>2, <1>6, OffsetPage
<1>7. ASSUME NEW n \in Nat, p = Paginate(A, cursor, n), tool # "search_text"
      PROVE  IsPage(p, tool, s, cursor) /\ (Len(p.data) < n => p.next = None)
  <2> DEFINE k == IF n = 0 THEN Len(A) ELSE n
  <2>1. k \in Nat
    BY <1>3
  <2>2. p = [data |-> Slice(A, cursor, k),
             next |-> IF cursor + k >= Len(A) THEN None ELSE cursor + k]
    BY <1>7 DEF Paginate
  <2> HIDE DEF k, A
  <2>3. IsPage(p, tool, s, cursor) /\ (Len(p.data) < k => p.next = None)
    BY <1>6, <1>7, <2>1, <2>2
  <2>4. n = 0 => p.next = None
    <3>1. n = 0 => cursor + k >= Len(A)
      BY <1>2, <1>3 DEF k
    <3> QED BY <2>2, <3>1
  <2> QED BY <2>3, <2>4 DEF k
<1>8. CASE tool = "find_regex"
  <2>1. Limit(size) \in Nat
    BY <1>2 DEF Limit
  <2>2. p = FindRegex(A, cursor, size)
    BY <1>4, <1>8
  <2>3. Len(A) > cursor + Limit(size) <=> ~ (cursor + Limit(size) >= Len(A))
    BY <1>2, <1>3, <2>1
  <2>4. p = [data |-> Slice(A, cursor, Limit(size)),
             next |-> IF cursor + Limit(size) >= Len(A) THEN None ELSE cursor + Limit(size)]
    BY <2>2, <2>3 DEF FindRegex
  <2> QED BY <1>6, <1>8, <2>1, <2>4 DEF s
<1>9. CASE tool = "entity_query"
  <2>1. p = Paginate(A, cursor, IF size = 0 THEN MaxLimit ELSE size)
    BY <1>4, <1>9
  <2> QED BY <1>2, <1>7, <1>9, <2>1 DEF s
<1>10. CASE tool \notin {"search_text", "find_regex", "entity_query"}
  <2>1. p = Paginate(A, cursor, size)
    BY <1>4, <1>10
  <2> QED BY <1>2, <1>7, <1>10, <2>1 DEF s
<1> QED BY <1>5, <1>8, <1>9, <1>10

\* So a page that is fetched moves the client on by what it is given.
LEMMA FetchFacts ==
    ASSUME ListTypes, Fetch
    PROVE  /\ tool # None /\ cursor \in Nat
           /\ \E p \in Page : /\ IsPage(p, tool, Rows \cap match, cursor)
                              /\ got' = got \o p.data /\ cursor' = p.next
<1>1. tool # None /\ cursor # None /\ cursor \in Nat
  BY DEF Fetch, ListTypes
<1>2. PICK p \in Page : got' = got \o p.data
                        /\ cursor' = IF tool = "decompile_to_file" /\ Len(p.data) < size THEN None ELSE p.next
  BY DEF Fetch
<1>3. /\ IsPage(p, tool, Rows \cap match, cursor)
      /\ tool = "decompile_to_file" /\ Len(p.data) < size => p.next = None
  BY <1>1, PageFacts
<1>4. cursor' = p.next
  BY <1>2, <1>3
<1> QED BY <1>1, <1>2, <1>3, <1>4

(* The steps that matter to a reader. *)

\* The database, and what the instance caches of it; the reader stays put.
DatabaseStep ==
    /\ UNCHANGED <<kind, readVars>>
    /\ \/ UNCHANGED <<db, edits>> /\ cache' \in {cache, None, db} \cup Unfinished
       \/ /\ edits' = edits + 1
          /\ \E a, b \in Address : db' \in {db \cup {a}, db \ {a}, (db \ {a}) \cup {b}}
          /\ cache' \in {cache, None}

StartStep ==
    \E t \in Tools \cup {"decompile_to_file"}, m \in Matches \cup {Address}, n \in Counts \cup {PageSize} :
        Start(t, m, n) /\ (t = "decompile_to_file" => kind = "functions")

ListStep == DatabaseStep \/ StartStep \/ Fetch \/ Forget

LEMMA ListSteps == [Next]_vars => ListStep
<1> SUFFICES ASSUME [Next]_vars PROVE ListStep
  OBVIOUS
<1> USE DEF ListStep
<1>1. CASE UNCHANGED listVars
  BY <1>1 DEF listVars, DatabaseStep
<1>2. CASE cache' \in {cache, None, db} \cup Unfinished /\ UNCHANGED <<kind, db, edits, readVars>>
  BY <1>2 DEF DatabaseStep, Built
<1>3. CASE Database
  <2>1. CASE BuildCaches \/ Refresh
    BY <1>2, <2>1 DEF BuildCaches, Refresh, Built
  <2>2. CASE Rename
    <3>1. UNCHANGED <<kind, db, edits, readVars>> /\ cache' \in {cache, None} => DatabaseStep
      BY DEF DatabaseStep
    <3>2. ASSUME NEW a \in Address, NEW b \in Address, Moved(a, b), cache' \in {cache, None}
          PROVE  DatabaseStep
      BY <3>2 DEF Moved, Change, DatabaseStep
    <3> QED BY <2>2, <3>1, <3>2 DEF Rename, Dropped
  <2>3. ASSUME NEW a \in Address, DefineFunc(a) \/ MakeData(a) \/ EditByHand(a) PROVE DatabaseStep
    BY <2>3 DEF DefineFunc, MakeData, EditByHand, Moved, Change, Dropped, DatabaseStep
  <2> QED BY <1>3, <2>1, <2>2, <2>3 DEF Database
<1>4. CASE Read
  <2>1. ASSUME NEW t \in Tools \ {"decompile_to_file"}, NEW m \in Matches, NEW n \in Counts, Start(t, m, n)
        PROVE  StartStep
    BY <2>1 DEF StartStep
  <2>2. CASE FetchTimesOut
    BY <1>2, <2>2 DEF FetchTimesOut, Stopped
  <2> QED BY <1>4, <2>1, <2>2 DEF Read
<1>5. CASE Job
  <2>1. CASE PageFails
    <3>1. (cache' \in Unfinished \/ UNCHANGED cache) /\ UNCHANGED <<kind, db, edits, readVars>>
      BY <2>1 DEF PageFails, Stopped
    <3> QED BY <1>2, <3>1
  <2>2. CASE NextPage \/ Listed \/ PageMissing
    BY <2>2 DEF NextPage, Listed, PageMissing, GoOn
  <2>3. CASE DecompileMerged \/ DecompileSingle \/ WriteFile \/ NextFile \/ Done
    BY <1>1, <2>3 DEF DecompileMerged, DecompileSingle, WriteFile, NextFile, Done
  <2> QED BY <1>5, <2>1, <2>2, <2>3 DEF Job
<1>6. CASE Others
  BY <1>1, <1>3, <1>4, <1>6 DEF Others
<1>7. CASE Refused
  BY <1>1, <1>7 DEF Refused
<1>8. ASSUME NEW md \in {"merged", "single"}, AskAll(md) \/ \E n \in Some : AskSome(md, n)
      PROVE  ListStep
  <2>1. CASE AskAll(md)
    BY <2>1 DEF AskAll, Ask, StartStep
  <2> QED BY <1>1, <1>8, <2>1 DEF AskSome
<1>9. CASE UNCHANGED vars
  BY <1>1, <1>9 DEF vars
<1> QED BY <1>3, <1>4, <1>5, <1>6, <1>7, <1>8, <1>9 DEF Next

LEMMA ListTypesInit == Init => ListTypes
<1> SUFFICES ASSUME ListInit PROVE ListTypes
  BY DEF Init
<1>1. db \in Rowsets
  BY ListingAssumption DEF ListInit, Rowsets
<1>2. {} \in Rowsets
  BY FS_EmptySet DEF Rowsets
<1> QED BY <1>1, <1>2, EmptySeq DEF ListInit, ListTypes

LEMMA ListTypesKept == ListTypes /\ ListStep => ListTypes'
<1> SUFFICES ASSUME ListTypes, ListStep PROVE ListTypes'
  OBVIOUS
<1>1. CASE DatabaseStep
  <2>1. /\ last' \in Rowsets /\ match' \in SUBSET Address /\ size' \in Nat
        /\ cursor' \in Nat \cup {None} /\ got' \in Seq(Nat) /\ owed' \in SUBSET last'
        /\ (tool # None => kind \in KindsOf(tool))'
        /\ (tool = None => got = <<>> /\ owed = {})'
    BY <1>1 DEF DatabaseStep, ListTypes, readVars, KindsOf
  <2>2. edits' \in Nat
    BY <1>1 DEF DatabaseStep, ListTypes
  <2>3. ASSUME NEW s \in Rowsets, NEW a \in Address PROVE s \cup {a} \in Rowsets /\ s \ {a} \in Rowsets
    BY FS_AddElement, FS_RemoveElement DEF Rowsets
  <2>4. db' \in Rowsets
    <3>1. db \in Rowsets
      BY DEF ListTypes
    <3>2. ASSUME NEW a \in Address, NEW b \in Address
          PROVE  db \cup {a} \in Rowsets /\ db \ {a} \in Rowsets /\ (db \ {a}) \cup {b} \in Rowsets
      <4>1. db \cup {a} \in Rowsets /\ db \ {a} \in Rowsets
        BY <2>3, <3>1
      <4>2. (db \ {a}) \cup {b} \in Rowsets
        BY <2>3, <4>1
      <4> QED BY <4>1, <4>2
    <3>3. ASSUME NEW a \in Address, NEW b \in Address, db' \in {db \cup {a}, db \ {a}, (db \ {a}) \cup {b}}
          PROVE  db' \in Rowsets
      BY <3>2, <3>3
    <3> QED BY <1>1, <3>1, <3>3 DEF DatabaseStep
  <2>5. Unfinished \subseteq Rowsets \cup {None}
    <3>1. ASSUME NEW x PROVE Within(db, 0, x) \in Rowsets
      <4>1. Within(db, 0, x) \subseteq db
        BY DEF Within
      <4> QED BY <4>1, FS_Subset DEF ListTypes, Rowsets
    <3> QED BY <3>1 DEF Unfinished
  <2>6. cache' \in Rowsets \cup {None}
    BY <1>1, <2>5 DEF DatabaseStep, ListTypes
  <2> QED BY <2>1, <2>2, <2>4, <2>6 DEF ListTypes
<1>2. CASE StartStep
  <2>1. PICK t \in Tools \cup {"decompile_to_file"}, m \in Matches \cup {Address}, n \in Counts \cup {PageSize} :
             Start(t, m, n) /\ (t = "decompile_to_file" => kind = "functions")
    BY <1>2 DEF StartStep
  <2>2. /\ tool' = t /\ match' = m /\ size' = n /\ cursor' = First(t) /\ tool = None
        /\ UNCHANGED <<kind, db, cache, edits, got, last, owed>> /\ kind \in KindsOf(t)
    BY <2>1 DEF Start
  <2>3. m \in SUBSET Address /\ n \in Nat
    BY ListingAssumption
  <2>4. First(t) \in Nat
    BY DEF First
  <2>5. (tool # None => kind \in KindsOf(tool))'
    BY <2>2 DEF KindsOf
  <2> QED BY <2>2, <2>3, <2>4, <2>5 DEF ListTypes
<1>3. CASE Fetch
  <2>1. PICK p \in Page : /\ IsPage(p, tool, Rows \cap match, cursor)
                          /\ got' = got \o p.data /\ cursor' = p.next
    BY <1>3, FetchFacts
  <2>2. cursor' \in Nat \cup {None} /\ tool # None /\ cursor \in Nat
    BY <1>3, <2>1, FetchFacts DEF IsPage
  <2>3. Rowset(Rows \cap match) /\ Rows \in Rowsets /\ Built \in Rowsets
    BY RowsFacts, RowsetsAreRowsets
  <2>4. p.data \in Seq(Nat)
    BY <2>1, <2>2, <2>3, PageData
  <2>5. got' \in Seq(Nat)
    BY <2>1, <2>4, ConcatProperties DEF ListTypes
  <2>6. cache' \in Rowsets \cup {None} /\ last' = Rows /\ owed' \in {Rows, owed, {}}
        /\ (owed' = owed => owed \subseteq Rows \/ owed' = Rows)
        /\ UNCHANGED <<kind, db, edits, tool, match, size>>
    BY <1>3, <2>3 DEF Fetch, ListTypes
  <2>7. (tool # None => kind \in KindsOf(tool))'
    BY <2>6 DEF KindsOf, ListTypes
  <2> QED BY <2>2, <2>3, <2>5, <2>6, <2>7 DEF ListTypes
<1>4. CASE Forget
  <2>1. {} \in Rowsets
    BY FS_EmptySet DEF Rowsets
  <2> QED BY <1>4, <2>1, EmptySeq DEF Forget, ListTypes
<1> QED BY <1>1, <1>2, <1>3, <1>4 DEF ListStep
-----------------------------------------------------------------------------
\* What a client holds while the database changes under it: every row of its
\* first listing that never went away, up to the place it has read to.
NoneSkippedSoFar ==
    LET s == last \cap match
    IN  \A a \in owed \cap match : Rank(s, a) <= Place(tool, s, cursor) => a \in ToSet(got)

\* A row whose rank is on the page is in it.
LEMMA PageHasRanks ==
    ASSUME NEW s, Rowset(s), NEW t, NEW c \in Nat, NEW p, IsPage(p, t, s, c),
           NEW a \in s, Place(t, s, c) < Rank(s, a), Rank(s, a) <= Place(t, s, p.next)
    PROVE  p.data \in Seq(Nat) /\ a \in ToSet(p.data)
<1> DEFINE i == Place(t, s, c)
           j == Place(t, s, p.next)
           k == Rank(s, a)
           A == Ascending(s)
<1>1. /\ Cardinality(s) \in Nat /\ k \in 1..Cardinality(s) /\ A[k] = a
      /\ \A x \in 1..Cardinality(s) : A[x] \in s
  BY AscendingFacts
<1>2. p.data = SubSeq(A, i + 1, j) /\ j \in 0..Cardinality(s)
  BY DEF IsPage
<1>3. i \in Nat
  BY <1>1, BelowFacts DEF Place
<1>4. \A x \in s : x \in Nat
  BY DEF Rowset
<1>5. i < k /\ k <= j
  OBVIOUS
<1> HIDE DEF i, j, k, A
<1>6. i + 1 \in Int /\ j \in Int /\ \A x \in i + 1 .. j : A[x] \in Nat
  BY <1>1, <1>2, <1>3, <1>4
<1>7. /\ p.data \in Seq(Nat)
      /\ Len(p.data) = IF i + 1 <= j THEN j - (i + 1) + 1 ELSE 0
      /\ \A x \in 1 .. j - (i + 1) + 1 : p.data[x] = A[i + 1 + x - 1]
  BY <1>2, <1>6, SubSeqProperties
<1> DEFINE d == p.data
           y == k - i
<1> HIDE DEF d
<1>8. y \in 1 .. j - (i + 1) + 1 /\ i + 1 <= j /\ i + 1 + y - 1 = k
  BY <1>1, <1>2, <1>3, <1>5
<1> HIDE DEF y
<1>9. d \in Seq(Nat) /\ Len(d) = j - (i + 1) + 1 /\ d[y] = a
  BY <1>1, <1>7, <1>8 DEF d
<1>10. y \in DOMAIN d
  BY <1>8, <1>9, LenProperties
<1> QED BY <1>9, <1>10 DEF ToSet, d

LEMMA ToSetConcat ==
    ASSUME NEW s \in Seq(Nat), NEW t \in Seq(Nat)
    PROVE  ToSet(s) \subseteq ToSet(s \o t) /\ ToSet(t) \subseteq ToSet(s \o t)
<1>1. /\ s \o t \in Seq(Nat) /\ Len(s \o t) = Len(s) + Len(t)
      /\ \A i \in 1 .. Len(s) + Len(t) : (s \o t)[i] = IF i <= Len(s) THEN s[i] ELSE t[i - Len(s)]
  BY ConcatProperties
<1>2. /\ DOMAIN s = 1..Len(s) /\ DOMAIN t = 1..Len(t) /\ DOMAIN (s \o t) = 1 .. Len(s) + Len(t)
      /\ Len(s) \in Nat /\ Len(t) \in Nat
  BY <1>1, LenProperties
<1> DEFINE u == s \o t
<1> HIDE DEF u
<1>3. ASSUME NEW i \in DOMAIN s PROVE i \in DOMAIN u /\ u[i] = s[i]
  BY <1>1, <1>2, <1>3 DEF u
<1>4. ASSUME NEW i \in DOMAIN t PROVE i + Len(s) \in DOMAIN u /\ u[i + Len(s)] = t[i]
  <2>1. i + Len(s) \in 1 .. Len(s) + Len(t) /\ ~ (i + Len(s) <= Len(s)) /\ i + Len(s) - Len(s) = i
    BY <1>2, <1>4
  <2> QED BY <1>1, <1>2, <2>1 DEF u
<1>5. \A x \in ToSet(s) : x \in ToSet(u)
  BY <1>3 DEF ToSet
<1>6. \A x \in ToSet(t) : x \in ToSet(u)
  BY <1>4 DEF ToSet
<1> QED BY <1>5, <1>6 DEF u

\* The place of a first page is the beginning.
LEMMA FirstPlace ==
    ASSUME NEW s \in Rowsets, NEW t
    PROVE  Place(t, s, First(t)) = 0
<1>1. Rowset(s)
  <2>1. Rowset(s)
    BY RowsetsAreRowsets
  <2> QED BY <2>1
<1>2. First(t) \in Nat /\ First(t) # None
  BY ListingAssumption DEF First
<1>3. \A a \in s : ~ (a < 1)
  <2>1. \A a \in s : a \in Nat \ {0}
    BY ListingAssumption DEF Rowsets
  <2> QED BY <2>1
<1>4. Below(s, 1) = 0
  BY <1>1, <1>3, BelowEnds
<1> QED BY <1>2, <1>4 DEF Place, First

LEMMA NoneSkippedKept == ListTypes /\ NoneSkippedSoFar /\ ListStep => NoneSkippedSoFar'
<1> SUFFICES ASSUME ListTypes, NoneSkippedSoFar, ListStep PROVE NoneSkippedSoFar'
  OBVIOUS
<1>1. CASE DatabaseStep
  <2>1. UNCHANGED <<tool, match, cursor, got, last, owed>>
    BY <1>1 DEF DatabaseStep, readVars
  <2> QED BY <2>1 DEF NoneSkippedSoFar
<1>2. CASE StartStep \/ Forget
  <2>1. owed' = {}
    BY <1>2 DEF StartStep, Start, Forget, ListTypes
  <2> QED BY <2>1 DEF NoneSkippedSoFar
<1>3. CASE Fetch
  <2>1. PICK p \in Page : /\ IsPage(p, tool, Rows \cap match, cursor)
                          /\ got' = got \o p.data /\ cursor' = p.next
    BY <1>3, FetchFacts
  <2>2. tool # None /\ cursor \in Nat /\ got \in Seq(Nat)
    BY <1>3, FetchFacts DEF ListTypes
  <2> DEFINE s == Rows \cap match
             r == last \cap match
  <2>3. Rowset(s) /\ s \in Rowsets /\ Rowset(r)
    <3>1. Rows \in Rowsets /\ last \in Rowsets
      BY RowsFacts DEF ListTypes
    <3> QED BY <3>1, RowsetsAreRowsets
  <2>4. /\ last' = Rows /\ match' = match /\ tool' = tool
        /\ owed' = IF cursor = First(tool) THEN Rows ELSE IF last \subseteq Rows THEN owed ELSE {}
    BY <1>3 DEF Fetch
  <2> SUFFICES ASSUME NEW a \in owed' \cap match, Rank(s, a) <= Place(tool, s, p.next)
               PROVE  a \in ToSet(got')
    BY <2>1, <2>4 DEF NoneSkippedSoFar
  <2>5. owed \subseteq last
    BY DEF ListTypes
  <2>6. a \in s
    BY <2>4, <2>5
  <2> HIDE DEF s, r
  <2>7. CASE Place(tool, s, cursor) < Rank(s, a)
    <3>1. p.data \in Seq(Nat) /\ a \in ToSet(p.data)
      BY <2>1, <2>2, <2>3, <2>6, <2>7, PageHasRanks DEF s
    <3>2. a \in ToSet(got \o p.data)
      BY <2>2, <3>1, ToSetConcat
    <3> QED BY <2>1, <3>2
  <2>8. CASE ~ (Place(tool, s, cursor) < Rank(s, a))
    <3>1. Rank(s, a) \in 1..Cardinality(s) /\ Cardinality(s) \in Nat
      BY <2>3, <2>6, AscendingFacts
    <3>2. Place(tool, s, cursor) \in Nat /\ p.data \in Seq(Nat)
      BY <2>1, <2>2, <2>3, PageData DEF s
    <3>3. Rank(s, a) <= Place(tool, s, cursor) /\ Place(tool, s, cursor) # 0
      BY <2>8, <3>1, <3>2
    <3>4. cursor # First(tool)
      BY <2>3, <3>3, FirstPlace
    <3>5. last \subseteq Rows /\ a \in owed
      BY <2>4, <3>4
    <3>6. r \subseteq s /\ a \in r
      BY <2>5, <3>5 DEF r, s
    <3>7. Rank(r, a) <= Place(tool, r, cursor)
      BY <2>2, <2>3, <3>3, <3>6, PlaceGrows
    <3>8. a \in ToSet(got)
      BY <3>5, <3>7 DEF NoneSkippedSoFar, r
    <3>9. a \in ToSet(got \o p.data)
      BY <2>2, <3>2, <3>8, ToSetConcat
    <3> QED BY <2>1, <3>9
  <2> QED BY <2>7, <2>8
<1> QED BY <1>1, <1>2, <1>3 DEF ListStep

\* While the database changes, a client that reads any listing to its end has
\* every row that was there at its first page and passes its filter, unless some
\* row went away meanwhile or moved because it was renamed: new ones move the
\* others back, never ahead of the cursor (paginate, find_regex, search_text).
THEOREM NoRowSkipped == Spec => []NoneSkipped
<1>1. Init => NoneSkippedSoFar
  BY DEF Init, ListInit, NoneSkippedSoFar
<1>2. ListTypes /\ NoneSkippedSoFar => NoneSkipped
  <2> SUFFICES ASSUME ListTypes, NoneSkippedSoFar, Finished, NEW a \in owed \cap match
               PROVE  a \in ToSet(got)
    BY DEF NoneSkipped
  <2> DEFINE s == last \cap match
  <2>1. Rowset(s) /\ a \in s
    BY RowsetsAreRowsets DEF ListTypes
  <2> HIDE DEF s
  <2>2. Rank(s, a) \in 1..Cardinality(s) /\ Cardinality(s) \in Nat
    BY <2>1, AscendingFacts
  <2>3. Rank(s, a) <= Place(tool, s, cursor)
    BY <2>2 DEF Place, Finished
  <2> QED BY <2>3 DEF NoneSkippedSoFar, s
<1> QED BY <1>1, <1>2, ListTypesInit, ListTypesKept, NoneSkippedKept, ListSteps, PTL DEF Spec
-----------------------------------------------------------------------------
\* While the database stays as it is, a cache that is not filled in place has
\* all of it or is not there, and a client that does not read such a one has
\* the listing up to the place it has read to.
CompleteSoFar ==
    LET s == db \cap match
        place == Place(tool, s, cursor)
    IN  edits = 0 =>
            /\ kind # "globals" => cache \in {None, db}
            /\ tool \notin {None, "list_globals"} =>
                  place \in 0..Cardinality(s) /\ got = SubSeq(Ascending(s), 1, place)

LEMMA CompleteKept == ListTypes /\ CompleteSoFar /\ ListStep => CompleteSoFar'
<1> SUFFICES ASSUME ListTypes, CompleteSoFar, ListStep, edits' = 0 PROVE CompleteSoFar'
  BY DEF CompleteSoFar
<1> DEFINE s == db \cap match
<1>0. edits \in Nat /\ db \in Rowsets /\ s \in Rowsets /\ Rowset(s)
  BY RowsetsAreRowsets DEF ListTypes
<1>1. CASE DatabaseStep
  <2>1. UNCHANGED <<kind, tool, match, cursor, got>>
    BY <1>1 DEF DatabaseStep, readVars
  <2>2. edits' # edits + 1
    BY <1>0
  <2>3. edits = 0 /\ db' = db /\ cache' \in {cache, None, db} \cup Unfinished
    BY <1>1, <2>2 DEF DatabaseStep
  <2>4. kind # "globals" => cache' \in {None, db}
    BY <2>3 DEF CompleteSoFar, Unfinished
  <2> QED BY <2>1, <2>3, <2>4 DEF CompleteSoFar
<1>2. CASE StartStep
  <2>1. PICK t \in Tools \cup {"decompile_to_file"}, m \in Matches \cup {Address}, n \in Counts \cup {PageSize} :
             Start(t, m, n)
    BY <1>2 DEF StartStep
  <2>2. /\ tool' = t /\ match' = m /\ cursor' = First(t)
        /\ UNCHANGED <<kind, db, cache, edits>> /\ got' = <<>>
    BY <2>1 DEF Start, ListTypes
  <2> DEFINE u == db \cap m
  <2>3. u \in Rowsets /\ Rowset(u)
    BY <1>0, RowsetsAreRowsets
  <2> HIDE DEF u
  <2>4. Place(t, u, First(t)) = 0 /\ Cardinality(u) \in Nat
    BY <2>3, FirstPlace, AscendingFacts
  <2>5. SubSeq(Ascending(u), 1, 0) = <<>>
    BY SubSeqEmpty
  <2>6. 0 \in 0..Cardinality(u) /\ got' = SubSeq(Ascending(u), 1, 0)
    BY <2>2, <2>4, <2>5
  <2>7. kind # "globals" => cache \in {None, db}
    BY <2>2 DEF CompleteSoFar
  <2>8. /\ Place(tool', db' \cap match', cursor') \in 0..Cardinality(db' \cap match')
        /\ got' = SubSeq(Ascending(db' \cap match'), 1, Place(tool', db' \cap match', cursor'))
    BY <2>2, <2>4, <2>6 DEF u
  <2> QED BY <2>2, <2>7, <2>8 DEF CompleteSoFar
<1>3. CASE Fetch
  <2>1. /\ UNCHANGED <<kind, db, edits, tool, match>>
        /\ cache' = IF UsesCache THEN Built ELSE cache
    BY <1>3 DEF Fetch
  <2>2. kind # "globals" => cache \in {None, db}
    BY <2>1 DEF CompleteSoFar
  <2>3. kind # "globals" => cache' \in {None, db}
    BY <2>1, <2>2 DEF Built
  <2>4. ASSUME tool # "list_globals"
        PROVE  /\ Place(tool, s, cursor') \in 0..Cardinality(s)
               /\ got' = SubSeq(Ascending(s), 1, Place(tool, s, cursor'))
    <3>1. PICK p \in Page : /\ IsPage(p, tool, Rows \cap match, cursor)
                            /\ got' = got \o p.data /\ cursor' = p.next
      BY <1>3, FetchFacts
    <3>2. tool # None /\ cursor \in Nat /\ cursor # None
      BY <1>3, FetchFacts DEF Fetch
    <3>3. Rows = db
      <4>1. UsesCache => kind # "globals"
        BY <2>4, <3>2 DEF UsesCache, ListTypes, KindsOf
      <4> QED BY <2>2, <4>1 DEF Rows, Built
    <3> DEFINE i == Place(tool, s, cursor)
               j == Place(tool, s, cursor')
               A == Ascending(s)
    <3>4. i \in 0..Cardinality(s) /\ got = SubSeq(A, 1, i)
      BY <2>1, <2>4, <3>2 DEF CompleteSoFar
    <3>5. IsPage(p, tool, s, cursor)
      BY <3>1, <3>3
    <3>6. /\ j \in 0..Cardinality(s) /\ p.data = SubSeq(A, i + 1, j)
          /\ p.next # None => i <= j
      BY <3>1, <3>5 DEF IsPage
    <3>7. Cardinality(s) \in Nat /\ A \in Seq(Nat) /\ Len(A) = Cardinality(s)
      BY <1>0, AscendingFacts
    <3>8. i <= j
      <4>1. CASE p.next = None
        <5>1. j = Cardinality(s)
          BY <3>1, <4>1 DEF Place
        <5> QED BY <3>4, <3>7, <5>1
      <4> QED BY <3>6, <4>1
    <3> HIDE DEF i, j, A, s
    <3>9. 1 \in 1 .. Len(A) + 1 /\ i \in 1 - 1 .. Len(A) /\ j \in i .. Len(A)
      BY <3>4, <3>6, <3>7, <3>8
    <3>10. SubSeq(A, 1, i) \o SubSeq(A, i + 1, j) = SubSeq(A, 1, j)
      BY <3>7, <3>9, ConcatAdjacentSubSeq
    <3> QED BY <3>1, <3>4, <3>6, <3>10 DEF j, A
  <2> QED BY <2>1, <2>3, <2>4 DEF CompleteSoFar
<1>4. CASE Forget
  BY <1>4 DEF Forget, CompleteSoFar
<1> QED BY <1>1, <1>2, <1>3, <1>4 DEF ListStep

\* A client that reads a listing to its end while the database stays as it is
\* has every row that its filter lets through, once and in order: with every
\* tool but list_globals, whose cache is filled in place.
THEOREM ReadsAreComplete == Spec => [](tool # "list_globals" => ReadsComplete)
<1>1. Init => CompleteSoFar
  BY DEF Init, ListInit, CompleteSoFar
<1>2. ListTypes /\ CompleteSoFar => (tool # "list_globals" => ReadsComplete)
  <2> SUFFICES ASSUME ListTypes, CompleteSoFar, tool # "list_globals", Finished, edits = 0
               PROVE  got = Ascending(db \cap match)
    BY DEF ReadsComplete
  <2> DEFINE s == db \cap match
  <2>1. Rowset(s)
    BY RowsetsAreRowsets DEF ListTypes
  <2>2. got = SubSeq(Ascending(s), 1, Cardinality(s))
    BY DEF CompleteSoFar, Finished, Place
  <2> HIDE DEF s
  <2>3. Ascending(s) \in Seq(Nat) /\ Len(Ascending(s)) = Cardinality(s)
    BY <2>1, AscendingFacts
  <2> QED BY <2>2, <2>3, SubSeqFull DEF s
<1> QED BY <1>1, <1>2, ListTypesInit, ListTypesKept, CompleteKept, ListSteps, PTL DEF Spec
=============================================================================
