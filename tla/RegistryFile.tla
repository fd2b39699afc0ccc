---------------------------- MODULE RegistryFile ----------------------------
(***************************************************************************)
(* How InstanceRegistry implements an operation: open the lock file, take  *)
(* flock on it within five seconds, load the document, compute, write a    *)
(* temporary file and os.replace it over the registry, unlock.  The        *)
(* processes are GUI plugins, heartbeat threads, routers and their         *)
(* managers; every FileLock has a descriptor of its own, so two threads of *)
(* one process exclude each other exactly as two processes do.             *)
(*                                                                         *)
(* The clock stands still here (Registry.tla is about ages), so the calls  *)
(* are those of registry.py but cleanup_stale, which would find nothing.   *)
(***************************************************************************)
EXTENDS RegistryDoc

CONSTANTS
    Proc,          \* callers
    Hung,          \* callers that may stop anywhere without dying
    Requests,      \* the calls they make: records with op, and x, id or nonce
    Faults,        \* which faults happen: a subset of AllFaults
    MaxCalls       \* bound on the calls of one caller

AllFaults == {"crash", "power", "read"}

ASSUME FileAssumption ==
    /\ Hung \subseteq Proc
    /\ Faults \subseteq AllFaults
    /\ MaxCalls \in Nat
    /\ \A r \in Requests :
          \/ r.op = "register" /\ r.x \in Info
          \/ r.op \in {"unregister", "owner", "heartbeat", "activate", "expire"} /\ r.id \in Id
          \/ r.op \in {"cleanup", "read"}
    /\ None \notin Proc

\* What is at the registry path, and the document _load makes of it.
Absent  == [state |-> "absent", doc |-> EmptyDoc]
Garbage == [state |-> "garbage", doc |-> EmptyDoc]
Json(d) == [state |-> "json", doc |-> d]

VARIABLES
    file,          \* the registry file: Absent, Garbage or what _save wrote
    stored,        \* what of it the system has written back to the disk
    holder,        \* the caller that has flock, or None
    pc,            \* where each caller is
    req,           \* its request
    mem,           \* what it will save: the document it loaded, changed
    calls          \* calls started so far

fileVars == <<file, stored, holder, pc, req, mem, calls>>

Committed == file.doc

FileInit ==
    /\ file = Absent /\ stored = Absent
    /\ holder = None
    /\ pc = [p \in Proc |-> "idle"]
    /\ req = [p \in Proc |-> None]
    /\ mem = [p \in Proc |-> EmptyDoc]
    /\ calls = [p \in Proc |-> 0]
-----------------------------------------------------------------------------
\* The document a request turns d into, and whether it reaches _save at all.
Result(r, d) ==
    CASE r.op = "register"   -> LET i == CHOOSE i \in ResolveCollision(r.x, Live(d)) : TRUE
                                IN  Registered(d, r.x, i, 0)
      [] r.op = "unregister" -> Unregistered(d, r.id)
      [] r.op = "owner"      -> UnregisteredIfOwner(d, r.id, r.nonce)
      [] r.op = "heartbeat"  -> HeartbeatUpdated(d, r.id, 0)
      [] r.op = "activate"   -> Activated(d, r.id)
      [] r.op = "expire"     -> InstanceExpired(d, r.id, 0)
      [] r.op = "cleanup"    -> ExpiredCleaned(d, 0)
      [] r.op = "read"       -> d

Saves(r, d) ==
    CASE r.op = "register" -> CanRegister(d, r.x)
      [] r.op \in {"unregister", "heartbeat", "activate", "expire"} -> r.id \in Live(d)
      [] r.op = "owner"    -> OwnerMatches(d, r.id, r.nonce)
      [] r.op = "cleanup"  -> TRUE
      [] r.op = "read"     -> FALSE

Goto(p, l) == pc' = [pc EXCEPT ![p] = l]

\* FileLock.acquire opens the lock file, creating it when it is not there; the
\* descriptor is closed on every way out.
Open(p, r) ==
    /\ pc[p] = "idle" /\ calls[p] < MaxCalls
    /\ req' = [req EXCEPT ![p] = r]
    /\ calls' = [calls EXCEPT ![p] = @ + 1]
    /\ Goto(p, "waiting")
    /\ UNCHANGED <<file, stored, holder, mem>>

\* Mutant: a shared lock.
FlockShared(p) ==
    /\ pc[p] = "waiting"
    /\ holder' = p
    /\ Goto(p, "locked")
    /\ UNCHANGED <<file, stored, req, mem, calls>>

Flock(p) ==
    /\ pc[p] = "waiting" /\ holder = None
    /\ holder' = p
    /\ Goto(p, "locked")
    /\ UNCHANGED <<file, stored, req, mem, calls>>

\* Mutant: a blocking flock, without a deadline.
WaitForEver(p) == FALSE

\* Mutant: acquire returns at the deadline instead of raising.
TimeoutGoesOn(p) ==
    /\ pc[p] = "waiting" /\ holder # None
    /\ Goto(p, "locked")
    /\ UNCHANGED <<file, stored, holder, req, mem, calls>>

\* The deadline passes while another descriptor has the lock: FileLockTimeout.
Timeout(p) ==
    /\ pc[p] = "waiting" /\ holder # None
    /\ Goto(p, "idle")
    /\ req' = [req EXCEPT ![p] = None]
    /\ UNCHANGED <<file, stored, holder, mem, calls>>

\* _load and the computation.  A file that cannot be read is moved aside and
\* the request works on an empty document.
LoadFrom(p, d) ==
    /\ pc[p] = "locked"
    /\ IF Saves(req[p], d)
       THEN Goto(p, "saving") /\ mem' = [mem EXCEPT ![p] = Result(req[p], d)]
       ELSE Goto(p, "unlocking") /\ UNCHANGED mem
    /\ UNCHANGED <<stored, holder, req, calls>>

Load(p) ==
    /\ LoadFrom(p, Committed)
    /\ file' = IF file = Garbage THEN Absent ELSE file

\* open() or read() raises although the file is intact (out of descriptors, an
\* I/O error, a sharing violation): "except Exception" quarantines it too.
LoadFails(p) ==
    /\ "read" \in Faults
    /\ file.state = "json"
    /\ LoadFrom(p, EmptyDoc)
    /\ file' = Absent

\* os.replace, the commit point.
Replace(p) ==
    /\ pc[p] = "saving"
    /\ file' = Json(mem[p])
    /\ mem' = [mem EXCEPT ![p] = EmptyDoc]
    /\ Goto(p, "unlocking")
    /\ UNCHANGED <<stored, holder, req, calls>>

\* Writing the temporary file fails: it is deleted and the call raises.
SaveFails(p) ==
    /\ pc[p] = "saving"
    /\ mem' = [mem EXCEPT ![p] = EmptyDoc]
    /\ Goto(p, "unlocking")
    /\ UNCHANGED <<file, stored, holder, req, calls>>

Unlock(p) ==
    /\ pc[p] = "unlocking"
    /\ holder' = None
    /\ req' = [req EXCEPT ![p] = None]
    /\ Goto(p, "idle")
    /\ UNCHANGED <<file, stored, mem, calls>>

\* The process dies: the kernel closes its descriptor, which drops flock.
Crash(p) ==
    /\ "crash" \in Faults
    /\ pc[p] # "idle"
    /\ holder' = IF holder = p THEN None ELSE holder
    /\ req' = [req EXCEPT ![p] = None]
    /\ mem' = [mem EXCEPT ![p] = EmptyDoc]
    /\ Goto(p, "idle")
    /\ UNCHANGED <<file, stored, calls>>

\* The system writes the file and its directory back to the disk when it likes:
\* _save does not fsync.
WriteBack ==
    /\ "power" \in Faults
    /\ stored' = file
    /\ UNCHANGED <<file, holder, pc, req, mem, calls>>

\* The machine dies.  The file comes back as it was written back last, or broken,
\* when its new name had reached the disk and its content had not.
PowerLoss ==
    /\ "power" \in Faults
    /\ file' \in IF file = Absent /\ stored = Absent THEN {Absent} ELSE {stored, Garbage}
    /\ stored' = file'
    /\ holder' = None
    /\ pc' = [p \in Proc |-> "idle"]
    /\ req' = [p \in Proc |-> None]
    /\ mem' = [p \in Proc |-> EmptyDoc]
    /\ UNCHANGED calls
-----------------------------------------------------------------------------
\* The steps of a call that has begun.
Step(p) ==
    \/ Flock(p) \/ Timeout(p)
    \/ Load(p) \/ LoadFails(p)
    \/ Replace(p) \/ SaveFails(p)
    \/ Unlock(p)

FileNext ==
    \/ \E p \in Proc, r \in Requests : Open(p, r)
    \/ \E p \in Proc : Step(p)
    \/ \E p \in Proc : Crash(p)
    \/ WriteBack
    \/ PowerLoss

FileSpec == FileInit /\ [][FileNext]_fileVars

\* A thread that is not hung keeps running; nothing is assumed of a hung one.
FairSpec == FileSpec /\ \A p \in Proc \ Hung : WF_fileVars(Step(p))
-----------------------------------------------------------------------------
InCritical(p) == pc[p] \in {"locked", "saving", "unlocking"}

FileTypeOK ==
    /\ \A f \in {file, stored} :
          f \in [state : {"absent", "garbage", "json"}, doc : {f.doc}] /\ IsDoc(f.doc)
    /\ holder \in Proc \cup {None}
    /\ pc \in [Proc -> {"idle", "waiting", "locked", "saving", "unlocking"}]
    /\ req \in [Proc -> Requests \cup {None}]
    /\ DOMAIN mem = Proc /\ \A p \in Proc : IsDoc(mem[p])
    /\ calls \in [Proc -> 0..MaxCalls]

\* "exclusive access to the resource" (filelock.py): two callers are never
\* both between flock and unlock, whoever crashed, timed out or waited before.
MutualExclusion ==
    \A p, q \in Proc : InCritical(p) /\ InCritical(q) => p = q

\* Every operation takes effect at one instant, completely or not at all: the
\* file goes through the documents of Registry.tla, whatever the processes
\* do, and in particular no save writes back a document that another caller
\* has changed since it was loaded.  A power loss leaves a document that was
\* there before, as a whole, or none.
R == INSTANCE Registry WITH
        doc <- Committed, durable <- stored.doc, now <- 0, SeqNos <- Nat, Times <- {0}
Atomic == R!Spec

\* No registry call waits for ever: a caller gets an answer or FileLockTimeout
\* even when the process that has the lock hangs for good.
CallsEnd == \A p \in Proc \ Hung : pc[p] # "idle" ~> pc[p] = "idle"
=============================================================================
