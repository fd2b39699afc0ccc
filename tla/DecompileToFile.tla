--------------------------- MODULE DecompileToFile ---------------------------
(***************************************************************************)
(* The tool decompile_to_file of the router (server.py): it lists the      *)
(* functions of an instance page by page (Listing), has each decompiled    *)
(* and writes one file, or one for each function (OutputFile).  Other      *)
(* clients of the instance, its user and other programs go on meanwhile.   *)
(***************************************************************************)
EXTENDS Listing, OutputFile

CONSTANT Some      \* bound: how many addresses clients name

VARIABLES
    job,           \* "none", "listing", "merged", "single"
    mode,          \* the mode asked for
    total,         \* how many functions there are to decompile
    pos,           \* how many of them are done with
    code,          \* the next one is decompiled and has code
    answer         \* of the last job, None before

jobVars == <<job, mode, total, pos, code, answer>>
vars == <<listVars, fileVars, jobVars>>

Init ==
    /\ ListInit /\ FileInit
    /\ job = "none" /\ mode = None
    /\ total = 0 /\ pos = 0 /\ code = FALSE
    /\ answer = None
-----------------------------------------------------------------------------
\* The arguments are in order and the directory is there, inside the working
\* directory and held open; otherwise the answer is an error and nothing
\* happens.
Ask(md, j, n) ==
    /\ job = "none" /\ answer = None /\ ~moved /\ kind = "functions"
    /\ job' = j /\ mode' = md /\ total' = n
    /\ UNCHANGED <<fileVars, pos, code, answer>>

Refused ==
    /\ job = "none" /\ answer = None /\ tool = None
    /\ answer' = "error"
    /\ UNCHANGED <<listVars, fileVars, job, mode, total, pos, code>>

AskAll(md) == Ask(md, "listing", 0) /\ Start("decompile_to_file", Address, PageSize)

AskSome(md, n) == tool = None /\ Ask(md, md, n) /\ UNCHANGED listVars

\* The job ends; the directory is closed.
Answer(a) == answer' = a /\ job' = "none" /\ UNCHANGED <<mode, total, pos, code>>

\* A page, or the router's error for it, ...
NextPage == job = "listing" /\ Fetch /\ UNCHANGED <<fileVars, jobVars>>

PageFails ==
    /\ job = "listing" /\ cursor # None
    /\ Stopped \/ UNCHANGED cache
    /\ Answer("error")
    /\ UNCHANGED <<kind, db, edits, readVars, fileVars>>

\* What is listed by then is decompiled.
GoOn ==
    /\ IF got = <<>> THEN Answer("error")
       ELSE total' = Len(got) /\ job' = mode /\ UNCHANGED <<mode, pos, code, answer>>
    /\ Forget /\ UNCHANGED fileVars

\* ... until there are no more, ...
Listed == job = "listing" /\ cursor = None /\ GoOn

\* ... or an answer has no page in it: no content, or not a list.  The loop ends
\* there as if it had been the last.
PageMissing == job = "listing" /\ cursor # None /\ GoOn
-----------------------------------------------------------------------------
\* The router has a function decompiled: there is code, or not; the function
\* may also be gone by now.
More == pos < total

\* merged: the writer decompiles one function after the other, between the
\* opening of the temporary file and its closing.
DecompileMerged ==
    /\ job = "merged" /\ at = "write" /\ More
    /\ pos' = pos + 1
    /\ UNCHANGED <<listVars, fileVars, job, mode, total, code, answer>>

\* single: the function's file is written if there is code.
DecompileSingle ==
    /\ job = "single" /\ at = "out" /\ More /\ ~code
    /\ \/ code' = TRUE /\ UNCHANGED pos
       \/ pos' = pos + 1 /\ UNCHANGED code
    /\ UNCHANGED <<listVars, fileVars, job, mode, total, answer>>

\* The steps of _atomic_write_text.
Writes == job = "merged" \/ (job = "single" /\ code)
WriterEnds == job = "merged" => ~More

WriteFile == Writes /\ (Write \/ (WriterEnds /\ Written)) /\ UNCHANGED <<listVars, jobVars>>

\* The next file of a job is another name, with whatever it holds (Begin).
NextFile ==
    /\ job = "single" /\ at = "over" /\ outcome = "ok"
    /\ dir' = [n \in Name |-> Nil] /\ away' = Nil
    /\ at' = "out" /\ whole' = FALSE
    /\ original' = Nil /\ seen' = Nil /\ outcome' = Nil /\ before' = Nil
    /\ named' = FALSE /\ active' = FALSE /\ errors' = FALSE /\ stolen' = FALSE
    /\ code' = FALSE /\ pos' = pos + 1
    /\ UNCHANGED <<moved, meddled, listVars, job, mode, total, answer>>

\* Mutant: a file that cannot be written is not answered.
DoneIfWritten ==
    /\ \/ job = "merged" /\ at = "over" /\ outcome = "ok" /\ Answer("ok")
       \/ job = "single" /\ at = "out" /\ ~More /\ Answer("ok")
    /\ UNCHANGED <<listVars, fileVars>>

\* The first file that cannot be written ends the job.
Done ==
    /\ \/ at = "over" /\ outcome # "ok" /\ Answer("error")
       \/ job = "merged" /\ at = "over" /\ outcome = "ok" /\ Answer("ok")
       \/ job = "single" /\ at = "out" /\ ~More /\ Answer("ok")
    /\ Writes \/ job = "single"
    /\ UNCHANGED <<listVars, fileVars>>

Job ==
    \/ NextPage \/ PageFails \/ Listed \/ PageMissing \/ DecompileMerged \/ DecompileSingle
    \/ WriteFile \/ NextFile \/ Done

\* What happens to the database once the functions are listed makes no
\* difference to the job.
Others ==
    \/ job \in {"none", "listing"} /\ answer = None /\ (Database \/ Read) /\ UNCHANGED <<fileVars, jobVars>>
    \/ Writes /\ (Meddle \/ MoveDirectory \/ Die) /\ UNCHANGED <<listVars, jobVars>>

Next ==
    \/ Job \/ Others \/ Refused
    \/ \E md \in {"merged", "single"} :
          AskAll(md) \/ \E n \in Some : AskSome(md, n)

Spec == Init /\ [][Next]_vars
FairSpec == Spec /\ WF_vars(Job)
-----------------------------------------------------------------------------
\* A job comes to an end, however many pages and files it takes, unless the
\* router dies.
JobEnds == job # "none" ~> job = "none" \/ at = "dead"
=============================================================================
