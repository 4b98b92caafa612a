---------------------------- MODULE WhisperPool -----------------------------
(***************************************************************************)
(* evaluate_on_slice() of evaluation/WER.py with transcribe() of           *)
(* whisper_cpp/file_trans.py: the threads of a pool transcribe audio       *)
(* files.  transcribe() goes to the directory of whisper.cpp, runs         *)
(* build/bin/whisper-cli there and goes back; the working directory is     *)
(* one for all threads.                                                    *)
(*                                                                         *)
(* A job is the number of an audio file in the order of the dataset.       *)
(***************************************************************************)
EXTENDS Integers, FiniteSets

CONSTANTS
  Worker,   \* threads of the pool (max_workers)
  Jobs      \* bound of the model: audio files in the slice

ASSUME PoolAssumption == Jobs \in Nat

VARIABLES
  built,           \* build/bin/whisper-cli is there
  cwd,             \* the working directory of the process
  wpc, job, old,   \* per worker: statement, audio file, OLD_PATH
  outcome,         \* what the future of each job holds
  first, last,     \* the jobs first .. last are pending
  collected,       \* results that list(executor.map(...)) has
  mpc,             \* where the main thread is
  overlapped       \* history: two threads were between getcwd and the return at once

worker == <<wpc, job, old>>
main   == <<last, collected, mpc>>
vars   == <<built, cwd, worker, outcome, first, main, overlapped>>

Directory == {"home", "LOCAL_PATH"}
Failed    == {"missing", "raised", "error"}   \* whisper-cli was not found, could
                                           \* not be run or read, or failed
Away      == {"chdir", "run", "wait"}   \* statements between getcwd and the return
Statement == {"idle", "call", "load", "generate"} \cup Away

\* Whether prepare.sh could build whisper-cli: preheat() does not look.
Prepared == built \in BOOLEAN

Init ==
  /\ Prepared
  /\ cwd = "home"
  /\ wpc = [w \in Worker |-> "idle"]
  /\ job = [w \in Worker |-> 0] /\ old = [w \in Worker |-> "home"]
  /\ outcome = [j \in 1 .. Jobs |-> "none"]
  /\ first = 1 /\ last = Jobs /\ collected = 0 /\ mpc = "collect"
  /\ overlapped = FALSE
-----------------------------------------------------------------------------
(* A worker.                                                               *)

Step(w, from, to) ==
  /\ wpc[w] = from /\ wpc' = [wpc EXCEPT ![w] = to]
  /\ UNCHANGED <<built, main>>

TakeJob(w) ==
  /\ first <= last /\ Step(w, "idle", "call")
  /\ job' = [job EXCEPT ![w] = first]
  /\ first' = first + 1
  /\ UNCHANGED <<cwd, old, outcome, overlapped>>

\* OLD_PATH = os.getcwd()
GetCwd(w) ==
  /\ Step(w, "call", "chdir")
  /\ old' = [old EXCEPT ![w] = cwd]
  /\ overlapped' = (overlapped \/ \E v \in Worker : wpc[v] \in Away)
  /\ UNCHANGED <<cwd, job, outcome, first>>

\* Variant: the directory is changed for the first file only.
ChangeDirOnce(w) ==
  /\ Step(w, "chdir", "run")
  /\ cwd' = IF job[w] = 1 THEN "LOCAL_PATH" ELSE cwd
  /\ UNCHANGED <<job, old, outcome, first, overlapped>>

\* os.chdir(LOCAL_PATH)
ChangeDir(w) ==
  /\ Step(w, "chdir", "run")
  /\ cwd' = "LOCAL_PATH"
  /\ UNCHANGED <<job, old, outcome, first, overlapped>>

\* What build/bin/whisper-cli names, relative to the working directory.
CliHere == built /\ cwd = "LOCAL_PATH"

\* subprocess.run starts build/bin/whisper-cli.
Start(w) ==
  /\ CliHere /\ Step(w, "run", "wait")
  /\ UNCHANGED <<cwd, job, old, outcome, first, overlapped>>

\* An exception of subprocess.run leaves transcribe() at once, in the directory
\* that the process is in.
RunRaises(w, statement, how) ==
  /\ Step(w, statement, "idle")
  /\ outcome' = [outcome EXCEPT ![job[w]] = how]
  /\ UNCHANGED <<cwd, job, old, first, overlapped>>

\* FileNotFoundError
NotFound(w) == ~CliHere /\ RunRaises(w, "run", "missing")

\* Another OSError: no process can be made, or the file is no program.
CannotRun(w) == CliHere /\ RunRaises(w, "run", "raised")

\* UnicodeDecodeError: with text=True the output is decoded.
CannotDecode(w) == RunRaises(w, "wait", "raised")

\* Variant: the return code is looked at before the directory is restored.
RestoreOnSuccess(w) ==
  /\ Step(w, "wait", "idle")
  /\ \E result \in {"text", "error"} :
       /\ outcome' = [outcome EXCEPT ![job[w]] = result]
       /\ cwd' = IF result = "text" THEN old[w] ELSE cwd
  /\ UNCHANGED <<job, old, first, overlapped>>

\* whisper-cli has ended: os.chdir(OLD_PATH), then return or raise
Restore(w) ==
  /\ Step(w, "wait", "idle")
  /\ cwd' = old[w]
  /\ \E result \in {"text", "error"} : outcome' = [outcome EXCEPT ![job[w]] = result]
  /\ UNCHANGED <<job, old, first, overlapped>>

WorkerNext(w) ==
  \/ TakeJob(w) \/ GetCwd(w) \/ ChangeDir(w) \/ Start(w) \/ NotFound(w)
  \/ CannotRun(w) \/ CannotDecode(w) \/ Restore(w)
-----------------------------------------------------------------------------
(* The main thread: list(executor.map(f, ...)) in its `with` block.        *)

Collect ==
  /\ mpc = "collect" /\ collected < Jobs
  /\ outcome[collected + 1] = "text"
  /\ collected' = collected + 1
  /\ UNCHANGED <<built, cwd, worker, outcome, first, overlapped, last, mpc>>

\* The exception of a job is raised when its turn comes.
Raise ==
  /\ mpc = "collect" /\ collected < Jobs
  /\ outcome[collected + 1] \in Failed
  /\ mpc' = "cancel"
  /\ UNCHANGED <<built, cwd, worker, outcome, first, overlapped, last, collected>>

\* Variant: jobs that a worker has taken are cancelled too.
CancelTaken ==
  /\ mpc = "cancel" /\ collected < last
  /\ last' = last - 1
  /\ UNCHANGED <<built, cwd, worker, outcome, first, overlapped, collected, mpc>>

\* Pending jobs are cancelled, the last first.
Cancel ==
  /\ mpc = "cancel" /\ first <= last
  /\ last' = last - 1
  /\ UNCHANGED <<built, cwd, worker, outcome, first, overlapped, collected, mpc>>

LeavePool ==
  /\ \/ mpc = "cancel" /\ first > last
     \/ mpc = "collect" /\ collected = Jobs
  /\ mpc' = "shutdown"
  /\ UNCHANGED <<built, cwd, worker, outcome, first, overlapped, last, collected>>

\* Variant: a shutdown that waits for the jobs that were cancelled.
ShutdownAwaitsAll ==
  /\ mpc = "shutdown" /\ \A j \in 1 .. Jobs : outcome[j] # "none"
  /\ mpc' = "done"
  /\ UNCHANGED <<built, cwd, worker, outcome, first, overlapped, last, collected>>

\* The pool waits for its workers.
Shutdown ==
  /\ mpc = "shutdown" /\ \A w \in Worker : wpc[w] = "idle"
  /\ mpc' = "done"
  /\ UNCHANGED <<built, cwd, worker, outcome, first, overlapped, last, collected>>

MainNext == Collect \/ Raise \/ Cancel \/ LeavePool \/ Shutdown

Next == MainNext \/ \E w \in Worker : WorkerNext(w)

Spec == Init /\ [][Next]_vars
-----------------------------------------------------------------------------
TypeOK ==
  /\ built \in BOOLEAN
  /\ cwd \in Directory
  /\ wpc \in [Worker -> Statement]
  /\ job \in [Worker -> 0 .. Jobs] /\ old \in [Worker -> Directory]
  /\ outcome \in [1 .. Jobs -> {"none", "text"} \cup Failed]
  /\ last \in 0 .. Jobs /\ first \in 1 .. last + 1
  /\ collected \in 0 .. Jobs
  /\ mpc \in {"collect", "cancel", "shutdown", "done"}
  /\ overlapped \in BOOLEAN

\* No worker remembers the directory that the program was started in.
Settled ==
  /\ cwd = "LOCAL_PATH"
  /\ \A w \in Worker : wpc[w] \in Away => old[w] = "LOCAL_PATH"

\* Once every saved OLD_PATH is LOCAL_PATH itself, no thread ever brings the
\* process back: the wrong directory stays for the rest of the evaluation
\* (file_trans.py:17-22).
StaysLocal == [][Settled => Settled']_vars

\* subprocess.run raised in some call.
RunRaised == \E j \in 1 .. Jobs : outcome[j] \in {"missing", "raised"}

\* Two things alone leave the process in another directory than it was started
\* in: two threads in transcribe() at once, and an exception of subprocess.run.
\* A whisper-cli that fails does not (file_trans.py:17-25).
CwdRestored == (mpc = "done" /\ ~overlapped /\ ~RunRaised) => cwd = "home"

\* A whisper-cli that was built is found unless two threads were in transcribe()
\* at once: only a return of another thread can take its directory away, even
\* when an exception has left the process in it (file_trans.py:17-22).
FoundUnlessOverlapped ==
  (built /\ ~overlapped) => \A j \in 1 .. Jobs : outcome[j] # "missing"

\* "The function must take audiofile path and return transcribed speech"
\* (evaluation/README.md:7-8): it does not fail for want of a whisper-cli that
\* was built.
CliFound == built => \A j \in 1 .. Jobs : outcome[j] # "missing"
=============================================================================
