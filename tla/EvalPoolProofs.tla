--------------------------- MODULE EvalPoolProofs ---------------------------
(***************************************************************************)
(* Proofs about the evaluation for any number of threads, audio files and  *)
(* datasets.  A step of the program is one of WhisperPool or leaves the    *)
(* working directory alone.                                                *)
(***************************************************************************)
EXTENDS EvalPool, TLAPS
-----------------------------------------------------------------------------
(* Types.                                                                  *)

LEMMA InitTypeOK == Init => TypeOK
<1> SUFFICES ASSUME Init PROVE TypeOK
  OBVIOUS
<1>1. overlapped \in BOOLEAN /\ built \in BOOLEAN
  BY DEF Init, Prepared
<1> QED BY <1>1, PoolAssumption DEF Init, Prepared, TypeOK, Directory, Failed, Away, Statement

LEMMA WorkerTypeOK ==
  ASSUME TypeOK, NEW w \in Worker, WorkerNext(w)
  PROVE  TypeOK'
<1>1. CASE TakeJob(w)
  <2>1. job' \in [Worker -> 0 .. Jobs] /\ first' \in 1 .. last' + 1
    BY <1>1, PoolAssumption DEF TypeOK, TakeJob, Step, main, Away, Statement
  <2> QED BY <1>1, <2>1 DEF TypeOK, TakeJob, Step, main, Away, Statement
<1>2. CASE GetCwd(w)
  BY <1>2 DEF TypeOK, GetCwd, Step, main, Away, Statement
<1>3. CASE ChangeDir(w)
  BY <1>3 DEF TypeOK, ChangeDir, Step, main, Directory, Away, Statement
<1>4. CASE Start(w)
  BY <1>4 DEF TypeOK, Start, Step, main, Away, Statement
<1>5. CASE NotFound(w) \/ CannotRun(w) \/ CannotDecode(w)
  BY <1>5 DEF TypeOK, NotFound, CannotRun, CannotDecode, RunRaises, Step, main, Away,
              Statement, Failed
<1>6. CASE Restore(w)
  BY <1>6 DEF TypeOK, Restore, Step, main, Away, Statement, Failed
<1> QED BY <1>1, <1>2, <1>3, <1>4, <1>5, <1>6 DEF WorkerNext

LEMMA MainTypeOK ==
  ASSUME TypeOK, MainNext
  PROVE  TypeOK'
<1>1. CASE Collect
  BY <1>1, PoolAssumption DEF TypeOK, Collect, worker
<1>2. CASE Raise
  BY <1>2 DEF TypeOK, Raise, worker
<1>3. CASE Cancel
  <2>1. last' \in 0 .. Jobs /\ first' \in 1 .. last' + 1
    BY <1>3, PoolAssumption DEF TypeOK, Cancel
  <2> QED BY <1>3, <2>1 DEF TypeOK, Cancel, worker
<1>4. CASE LeavePool
  BY <1>4 DEF TypeOK, LeavePool, worker
<1>5. CASE Shutdown
  BY <1>5 DEF TypeOK, Shutdown, worker
<1> QED BY <1>1, <1>2, <1>3, <1>4, <1>5 DEF MainNext

LEMMA EvalWorkerTypeOK ==
  ASSUME EvalTypeOK, NEW w \in Worker, PoolWorker(w)
  PROVE  EvalTypeOK'
<1>1. CASE TakeJob(w) /\ UNCHANGED evaluation
  BY <1>1, WorkerTypeOK DEF EvalTypeOK, WorkerNext, evaluation, arguments
<1>2. CASE WhisperCall(w)
  BY <1>2, WorkerTypeOK DEF WhisperCall, EvalTypeOK, WorkerNext, evaluation, arguments
<1>3. CASE NoSuchParameter(w) \/ NotAPath(w)
  BY <1>3 DEF EvalTypeOK, TypeOK, NoSuchParameter, NotAPath, End, Step, main, Statement, Failed,
              evaluation, arguments
<1>4. CASE LookUp(w)
  BY <1>4 DEF EvalTypeOK, TypeOK, LookUp, Step, main, Statement, evaluation, arguments
<1>5. CASE Load(w)
  <2>1. models' \in BOOLEAN
    BY <1>5 DEF Load
  <2> QED BY <1>5, <2>1 DEF EvalTypeOK, TypeOK, Load, Step, main, Statement, arguments
<1>6. CASE LoadFails(w)
  BY <1>6 DEF EvalTypeOK, TypeOK, LoadFails, End, Step, main, Statement, Failed,
              evaluation, arguments
<1>7. CASE Generate(w)
  <2>1. PICK result \in {"text", "error"} : End(w, result)
    BY <1>7 DEF Generate
  <2> QED BY <1>7, <2>1 DEF EvalTypeOK, TypeOK, Generate, End, Step, main, Statement,
              Failed, evaluation, arguments
<1> QED BY <1>1, <1>2, <1>3, <1>4, <1>5, <1>6, <1>7 DEF PoolWorker

LEMMA EvalMainTypeOK ==
  ASSUME EvalTypeOK, EvalMain
  PROVE  EvalTypeOK'
<1>1. CASE SelectModel \/ PreheatRaises \/ Fail
  BY <1>1 DEF EvalTypeOK, TypeOK, SelectModel, PreheatRaises, Fail, vars, worker, main, arguments
<1>2. CASE PoolMain
  BY <1>2, MainTypeOK DEF EvalTypeOK, PoolMain, evaluation, arguments
<1>3. CASE NextDataset
  BY <1>3, PoolAssumption, DatasetAssumption
     DEF EvalTypeOK, TypeOK, NextDataset, worker, main, arguments
<1> QED BY <1>1, <1>2, <1>3 DEF EvalMain

\* Every variable of the program, its pool and its threads keeps its type.
THEOREM EvalTypes == EvalSpec => []EvalTypeOK
<1>1. EvalInit => EvalTypeOK
  <2> SUFFICES ASSUME EvalInit PROVE EvalTypeOK
    OBVIOUS
  <2>1. models \in BOOLEAN /\ streaming \in BOOLEAN
    BY DEF EvalInit
  <2> QED BY <2>1, InitTypeOK, DatasetAssumption DEF EvalInit, EvalTypeOK
<1>2. EvalTypeOK /\ [EvalNext]_allvars => EvalTypeOK'
  <2>1. ASSUME EvalTypeOK, UNCHANGED allvars PROVE EvalTypeOK'
    BY <2>1 DEF EvalTypeOK, TypeOK, allvars, vars, worker, main, evaluation, arguments
  <2> QED BY <2>1, EvalWorkerTypeOK, EvalMainTypeOK DEF EvalNext
<1> QED BY <1>1, <1>2, PTL DEF EvalSpec
-----------------------------------------------------------------------------
(* The dictionary of models.                                               *)

\* A worker that has loaded a model never looks for one in vain again.
LoadInv ==
  \A w \in Worker :
    /\ loads[w] > 0 => models
    /\ wpc[w] = "load" => loads[w] = 0
    /\ loads[w] <= 1

LEMMA WorkerLoadInv ==
  ASSUME EvalTypeOK, LoadInv, NEW w \in Worker, PoolWorker(w)
  PROVE  LoadInv'
<1>1. CASE Load(w)
  BY <1>1 DEF EvalTypeOK, TypeOK, LoadInv, Load, Step
<1>2. CASE LookUp(w)
  BY <1>2 DEF EvalTypeOK, TypeOK, LoadInv, LookUp, Step, evaluation
<1>3. CASE ~Load(w) /\ ~LookUp(w)
  <2>1. UNCHANGED <<models, loads>>
    BY <1>3 DEF PoolWorker, NoSuchParameter, NotAPath, WhisperCall, LoadFails, Generate,
                evaluation
  <2>2. \A v \in Worker : wpc'[v] = "load" => wpc[v] = "load"
    BY <1>3 DEF PoolWorker, NoSuchParameter, NotAPath, WhisperCall, LoadFails, Generate,
                TakeJob, GetCwd, ChangeDir, Start, NotFound, CannotRun, CannotDecode,
                RunRaises, Restore, Step, EvalTypeOK, TypeOK
  <2> QED BY <2>1, <2>2 DEF LoadInv
<1> QED BY <1>1, <1>2, <1>3

LEMMA LoadInvariant == EvalSpec => []LoadInv
<1>1. EvalInit => LoadInv
  BY DEF EvalInit, Init, LoadInv
<1>2. ASSUME LoadInv, EvalMain \/ UNCHANGED allvars PROVE LoadInv'
  <2>1. UNCHANGED <<wpc, models, loads>>
    BY <1>2 DEF EvalMain, SelectModel, PreheatRaises, PoolMain, NextDataset, Fail, MainNext, Collect,
                Raise, Cancel, LeavePool, Shutdown, allvars, vars, worker, evaluation
  <2> QED BY <1>2, <2>1 DEF LoadInv
<1>3. EvalTypeOK /\ LoadInv /\ [EvalNext]_allvars => LoadInv'
  BY <1>2, WorkerLoadInv DEF EvalNext
<1> QED BY <1>1, <1>3, EvalTypes, PTL DEF EvalSpec

\* However many threads, files and datasets there are, a thread loads the model
\* at most once.
THEOREM EachLoadsOnce == EvalSpec => []LoadedOnce
<1>1. LoadInv => LoadedOnce
  BY DEF LoadInv, LoadedOnce
<1> QED BY <1>1, LoadInvariant, PTL
-----------------------------------------------------------------------------
(* The working directory.                                                  *)

\* What a step of a worker is that is none of WhisperPool.
Quiet(w) ==
  /\ UNCHANGED <<built, cwd, job, old, first, main, overlapped>>
  /\ wpc[w] \in {"call", "load", "generate"}
  /\ \/ /\ UNCHANGED outcome
        /\ \E s \in {"load", "generate"} : wpc' = [wpc EXCEPT ![w] = s]
     \/ /\ wpc' = [wpc EXCEPT ![w] = "idle"]
        /\ \E r \in {"text", "error"} : outcome' = [outcome EXCEPT ![job[w]] = r]

LEMMA WhisperOrQuiet ==
  ASSUME NEW w \in Worker, PoolWorker(w)
  PROVE  WorkerNext(w) \/ Quiet(w)
<1>1. CASE TakeJob(w) \/ WhisperCall(w)
  BY <1>1 DEF WhisperCall, WorkerNext
<1>2. CASE NoSuchParameter(w) \/ NotAPath(w)
  BY <1>2 DEF NoSuchParameter, NotAPath, End, Step, Quiet
<1>3. CASE LookUp(w)
  BY <1>3 DEF LookUp, Step, Quiet
<1>4. CASE Load(w)
  BY <1>4 DEF Load, Step, Quiet
<1>5. CASE LoadFails(w)
  BY <1>5 DEF LoadFails, End, Step, Quiet
<1>6. CASE Generate(w)
  BY <1>6 DEF Generate, End, Step, Quiet
<1> QED BY <1>1, <1>2, <1>3, <1>4, <1>5, <1>6 DEF PoolWorker

\* What a step of the main thread is that is none of WhisperPool.
LEMMA MainOrNext ==
  ASSUME [EvalNext]_allvars
  PROVE  \/ \E w \in Worker : PoolWorker(w)
         \/ MainNext
         \/ NextDataset
         \/ UNCHANGED vars
  BY DEF EvalNext, EvalMain, SelectModel, PreheatRaises, PoolMain, Fail, allvars

LEMMA WorkerSettled ==
  ASSUME TypeOK, Settled, NEW w \in Worker, WorkerNext(w)
  PROVE  Settled'
<1>1. CASE TakeJob(w)
  BY <1>1 DEF Settled, TypeOK, TakeJob, Step, Away
<1>2. CASE GetCwd(w)
  BY <1>2 DEF Settled, TypeOK, GetCwd, Step, Away
<1>3. CASE ChangeDir(w)
  BY <1>3 DEF Settled, TypeOK, ChangeDir, Step, Away
<1>4. CASE Start(w)
  BY <1>4 DEF Settled, TypeOK, Start, Step, Away
<1>5. CASE NotFound(w) \/ CannotRun(w) \/ CannotDecode(w)
  BY <1>5 DEF Settled, TypeOK, NotFound, CannotRun, CannotDecode, RunRaises, Step, Away
<1>6. CASE Restore(w)
  BY <1>6 DEF Settled, TypeOK, Restore, Step, Away
<1> QED BY <1>1, <1>2, <1>3, <1>4, <1>5, <1>6 DEF WorkerNext

LEMMA StepStaysSettled ==
  ASSUME EvalTypeOK, Settled, [EvalNext]_allvars
  PROVE  Settled'
<1>1. ASSUME NEW w \in Worker, PoolWorker(w) PROVE Settled'
  <2>1. CASE WorkerNext(w)
    BY <2>1, WorkerSettled DEF EvalTypeOK
  <2>2. CASE Quiet(w)
    BY <2>2 DEF Settled, Quiet, EvalTypeOK, TypeOK, Away
  <2> QED BY <1>1, <2>1, <2>2, WhisperOrQuiet
<1>2. CASE MainNext \/ NextDataset \/ UNCHANGED vars
  BY <1>2 DEF Settled, MainNext, Collect, Raise, Cancel, LeavePool, Shutdown,
              NextDataset, worker, vars
<1> QED BY <1>1, <1>2, MainOrNext

\* Once every OLD_PATH in use is LOCAL_PATH itself, no number of threads brings
\* the process back to the directory it was started in, on any later dataset.
THEOREM WrongDirectoryStays == EvalSpec => StaysLocal
<1>1. EvalTypeOK /\ [EvalNext]_allvars => [Settled => Settled']_vars
  BY StepStaysSettled
<1> QED BY <1>1, EvalTypes, PTL DEF EvalSpec, StaysLocal
-----------------------------------------------------------------------------
\* Each file has one thread and gets one outcome, what was collected is text, and
\* the pool has run dry when it shuts down.
PoolInv ==
  /\ collected < first
  /\ \A j \in 1 .. Jobs : outcome[j] # "none" => j < first
  /\ \A j \in 1 .. Jobs : j <= collected => outcome[j] = "text"
  /\ \A w \in Worker : wpc[w] # "idle" => /\ job[w] \in 1 .. Jobs /\ job[w] < first
                                        /\ outcome[job[w]] = "none"
  /\ \A v, w \in Worker : wpc[v] # "idle" /\ job[v] = job[w] /\ wpc[w] # "idle" => v = w
  /\ mpc \in {"shutdown", "done"} => first > last
  /\ mpc = "done" => \A w \in Worker : wpc[w] = "idle"

LEMMA TakePoolInv ==
  ASSUME TypeOK, PoolInv, NEW w \in Worker, TakeJob(w)
  PROVE  PoolInv'
<1>1. /\ first \in 1 .. Jobs /\ first' = first + 1
      /\ UNCHANGED <<outcome, collected, last, mpc>>
  BY PoolAssumption DEF TypeOK, TakeJob, Step, main
<1>2. outcome[first] = "none"
  BY <1>1, PoolAssumption DEF PoolInv
<1>3. /\ job' = [job EXCEPT ![w] = first] /\ wpc' = [wpc EXCEPT ![w] = "call"]
      /\ wpc[w] = "idle" /\ first <= last
  BY DEF TakeJob, Step
<1>4. \A v \in Worker : wpc[v] # "idle" => job[v] # first
  BY <1>1, PoolAssumption DEF PoolInv
<1>5. \A v \in Worker : v # w => wpc'[v] = wpc[v] /\ job'[v] = job[v]
  BY <1>3 DEF TypeOK
<1>6. job'[w] = first /\ wpc'[w] = "call"
  BY <1>3 DEF TypeOK
<1>7. (collected < first)' /\ \A j \in 1 .. Jobs : j < first => j < first'
  BY <1>1, PoolAssumption DEF PoolInv, TypeOK
<1>8. mpc \notin {"shutdown", "done"}
  BY <1>1, <1>3, PoolAssumption DEF PoolInv, TypeOK
<1>9. \A v \in Worker : wpc'[v] # "idle" =>
        job'[v] \in 1 .. Jobs /\ job'[v] < first' /\ outcome'[job'[v]] = "none"
  BY <1>1, <1>2, <1>5, <1>6, <1>7, PoolAssumption DEF PoolInv
<1>10. \A u, v \in Worker :
         wpc'[u] # "idle" /\ job'[u] = job'[v] /\ wpc'[v] # "idle" => u = v
  BY <1>4, <1>5, <1>6 DEF PoolInv
<1>11. \A j \in 1 .. Jobs : /\ outcome'[j] # "none" => j < first'
                            /\ j <= collected' => outcome'[j] = "text"
  BY <1>1, <1>7 DEF PoolInv
<1> QED BY <1>1, <1>7, <1>8, <1>9, <1>10, <1>11 DEF PoolInv

\* A thread that goes on with its file, or ends it with some outcome.
LEMMA WorkPoolInv ==
  ASSUME TypeOK, PoolInv, NEW w \in Worker, UNCHANGED <<job, first, main>>,
         wpc[w] # "idle", NEW s \in Statement, wpc' = [wpc EXCEPT ![w] = s],
         \/ s # "idle" /\ UNCHANGED outcome
         \/ s = "idle" /\ \E r : outcome' = [outcome EXCEPT ![job[w]] = r]
  PROVE  PoolInv'
<1>1. UNCHANGED <<collected, last, mpc>>
  BY DEF main
<1>2. mpc # "done"
  BY DEF PoolInv
<1>3. \A v \in Worker : wpc'[v] # "idle" => wpc[v] # "idle"
  BY DEF TypeOK
<1>4. /\ job[w] \in 1 .. Jobs /\ job[w] < first /\ outcome[job[w]] = "none"
      /\ ~(job[w] <= collected)
  BY DEF PoolInv
<1>5. \A j \in 1 .. Jobs : j # job[w] => outcome'[j] = outcome[j]
  BY DEF TypeOK
<1>6. \A v \in Worker : wpc'[v] # "idle" => outcome'[job[v]] = "none"
  <2> SUFFICES ASSUME NEW v \in Worker, wpc'[v] # "idle" PROVE outcome'[job[v]] = "none"
    OBVIOUS
  <2>1. job[v] \in 1 .. Jobs /\ outcome[job[v]] = "none"
    BY <1>3 DEF PoolInv
  <2>2. CASE UNCHANGED outcome
    BY <2>1, <2>2
  <2>3. CASE s = "idle"
    <3>1. v # w
      BY <2>3 DEF TypeOK
    <3>2. job[v] # job[w]
      BY <1>3, <3>1 DEF PoolInv
    <3> QED BY <1>5, <2>1, <3>2
  <2> QED BY <2>2, <2>3
<1>7. \A j \in 1 .. Jobs : outcome'[j] # "none" => j < first
  BY <1>4, <1>5 DEF PoolInv
<1>8. \A j \in 1 .. Jobs : j <= collected => outcome'[j] = "text"
  BY <1>4, <1>5 DEF PoolInv
<1> QED BY <1>1, <1>2, <1>3, <1>6, <1>7, <1>8 DEF PoolInv

LEMMA WorkerPoolInv ==
  ASSUME TypeOK, PoolInv, NEW w \in Worker, WorkerNext(w)
  PROVE  PoolInv'
<1>1. CASE TakeJob(w)
  BY <1>1, TakePoolInv
<1>2. CASE GetCwd(w)
  BY <1>2, WorkPoolInv DEF GetCwd, Step, Away, Statement
<1>3. CASE ChangeDir(w)
  BY <1>3, WorkPoolInv DEF ChangeDir, Step, Away, Statement
<1>4. CASE Start(w)
  BY <1>4, WorkPoolInv DEF Start, Step, Away, Statement
<1>5. CASE NotFound(w) \/ CannotRun(w) \/ CannotDecode(w)
  BY <1>5, WorkPoolInv DEF NotFound, CannotRun, CannotDecode, RunRaises, Step, Statement
<1>6. CASE Restore(w)
  BY <1>6, WorkPoolInv DEF Restore, Step, Statement
<1> QED BY <1>1, <1>2, <1>3, <1>4, <1>5, <1>6 DEF WorkerNext

LEMMA MainPoolInv ==
  ASSUME TypeOK, PoolInv, MainNext
  PROVE  PoolInv'
<1>1. CASE Collect
  <2>1. collected + 1 < first
    BY <1>1, PoolAssumption DEF TypeOK, PoolInv, Collect
  <2>2. \A j \in 1 .. Jobs : j <= collected + 1 => outcome[j] = "text"
    BY <1>1, PoolAssumption DEF TypeOK, PoolInv, Collect
  <2> QED BY <1>1, <2>1, <2>2 DEF PoolInv, Collect, worker
<1>2. CASE Raise
  BY <1>2 DEF PoolInv, Raise, worker
<1>3. CASE Cancel
  BY <1>3 DEF PoolInv, Cancel, worker
<1>4. CASE LeavePool
  BY <1>4, PoolAssumption DEF TypeOK, PoolInv, LeavePool, worker
<1>5. CASE Shutdown
  BY <1>5 DEF PoolInv, Shutdown, worker
<1> QED BY <1>1, <1>2, <1>3, <1>4, <1>5 DEF MainNext

LEMMA PoolInvariant == EvalSpec => []PoolInv
<1>1. EvalInit => PoolInv
  BY PoolAssumption DEF EvalInit, Init, PoolInv
<1>2. ASSUME EvalTypeOK, PoolInv, NEW w \in Worker, Quiet(w) PROVE PoolInv'
  BY <1>2, WorkPoolInv DEF Quiet, EvalTypeOK, Statement
<1>3. ASSUME EvalTypeOK, PoolInv, NEW w \in Worker, PoolWorker(w) PROVE PoolInv'
  BY <1>2, <1>3, WhisperOrQuiet, WorkerPoolInv DEF EvalTypeOK
<1>4. ASSUME EvalTypeOK, PoolInv, NextDataset PROVE PoolInv'
  BY <1>4, PoolAssumption DEF PoolInv, NextDataset, EvalTypeOK, TypeOK, worker, main
<1>5. ASSUME PoolInv, UNCHANGED vars PROVE PoolInv'
  BY <1>5 DEF PoolInv, vars, worker, main
<1>6. EvalTypeOK /\ PoolInv /\ [EvalNext]_allvars => PoolInv'
  BY <1>3, <1>4, <1>5, MainPoolInv, MainOrNext DEF EvalTypeOK
<1> QED BY <1>1, <1>6, EvalTypes, PTL DEF EvalSpec
-----------------------------------------------------------------------------
\* While no two threads are away at once, each runs whisper-cli where it went to,
\* and goes back to where the program was started as long as nothing raised.
Alone ==
  /\ \A v, w \in Worker : wpc[v] \in Away /\ wpc[w] \in Away => v = w
  /\ \A w \in Worker : wpc[w] \in {"run", "wait"} => cwd = "LOCAL_PATH"

Back ==
  /\ \A w \in Worker : wpc[w] \in Away => old[w] = "home"
  /\ (\A w \in Worker : wpc[w] \notin {"run", "wait"}) => cwd = "home"

AloneInv == ~overlapped => Alone /\ CliFound /\ (RunRaised \/ Back)

\* An outcome other than an exception of subprocess.run hides none.
LEMMA RaisedStays ==
  ASSUME TypeOK, PoolInv, NEW w \in Worker, wpc[w] # "idle", RunRaised,
         \/ UNCHANGED outcome
         \/ \E r : outcome' = [outcome EXCEPT ![job[w]] = r]
  PROVE  RunRaised'
<1>1. PICK j \in 1 .. Jobs : outcome[j] \in {"missing", "raised"}
  BY DEF RunRaised
<1>2. outcome[job[w]] = "none"
  BY DEF PoolInv
<1>3. outcome'[j] = outcome[j]
  BY <1>1, <1>2 DEF TypeOK
<1> QED BY <1>1, <1>3 DEF RunRaised

LEMMA WorkerAloneInv ==
  ASSUME TypeOK, PoolInv, AloneInv, NEW w \in Worker, WorkerNext(w)
  PROVE  AloneInv'
<1> SUFFICES ASSUME ~overlapped' PROVE (Alone /\ CliFound /\ (RunRaised \/ Back))'
  BY DEF AloneInv
<1>0. ~overlapped /\ Alone /\ CliFound /\ (RunRaised \/ Back)
  <2>1. ASSUME GetCwd(w) PROVE ~overlapped
    BY <2>1 DEF GetCwd
  <2>2. ASSUME ~GetCwd(w) PROVE overlapped' = overlapped
    BY <2>2 DEF WorkerNext, TakeJob, ChangeDir, Start, NotFound, CannotRun, CannotDecode,
                RunRaises, Restore
  <2> QED BY <2>1, <2>2 DEF AloneInv
<1>1. CASE TakeJob(w)
  <2>1. Alone' /\ CliFound'
    BY <1>0, <1>1 DEF Alone, CliFound, TypeOK, TakeJob, Step, Away
  <2>2. RunRaised => RunRaised'
    BY <1>1 DEF TakeJob, RunRaised
  <2>3. Back => Back'
    BY <1>1 DEF Back, TypeOK, TakeJob, Step, Away
  <2> QED BY <1>0, <2>1, <2>2, <2>3
<1>2. CASE GetCwd(w)
  <2>1. \A v \in Worker : wpc[v] \notin Away
    BY <1>2 DEF GetCwd
  <2>2. Alone' /\ CliFound'
    BY <1>0, <1>2, <2>1 DEF Alone, CliFound, TypeOK, GetCwd, Step, Away
  <2>3. RunRaised => RunRaised'
    BY <1>2 DEF GetCwd, RunRaised
  <2>4. ASSUME Back PROVE Back'
    <3>1. cwd = "home"
      BY <2>1, <2>4 DEF Back, Away
    <3> QED BY <1>2, <2>1, <3>1 DEF Back, TypeOK, GetCwd, Step, Away
  <2> QED BY <1>0, <2>2, <2>3, <2>4
<1>3. CASE ChangeDir(w)
  <2>1. Alone' /\ CliFound'
    BY <1>0, <1>3 DEF Alone, CliFound, TypeOK, ChangeDir, Step, Away
  <2>2. RunRaised => RunRaised'
    BY <1>3 DEF ChangeDir, RunRaised
  <2>3. Back => Back'
    BY <1>3 DEF Back, TypeOK, ChangeDir, Step, Away
  <2> QED BY <1>0, <2>1, <2>2, <2>3
<1>4. CASE Start(w)
  <2>1. Alone' /\ CliFound'
    BY <1>0, <1>4 DEF Alone, CliFound, TypeOK, Start, Step, Away
  <2>2. RunRaised => RunRaised'
    BY <1>4 DEF Start, RunRaised
  <2>3. Back => Back'
    BY <1>4 DEF Back, TypeOK, Start, Step, Away
  <2> QED BY <1>0, <2>1, <2>2, <2>3
<1>5. CASE NotFound(w) \/ CannotRun(w) \/ CannotDecode(w)
  <2>1. job[w] \in 1 .. Jobs
    BY <1>5 DEF PoolInv, NotFound, CannotRun, CannotDecode, RunRaises, Step
  <2>2. RunRaised'
    BY <1>5, <2>1 DEF RunRaised, NotFound, CannotRun, CannotDecode, RunRaises, TypeOK
  <2>3. Alone'
    BY <1>0, <1>5 DEF Alone, TypeOK, NotFound, CannotRun, CannotDecode, RunRaises, Step,
                      Away
  <2>4. CASE NotFound(w)
    <3>1. ~built'
      BY <1>0, <2>4 DEF Alone, NotFound, CliHere, RunRaises, Step
    <3> QED BY <2>2, <2>3, <3>1 DEF CliFound
  <2>5. CASE CannotRun(w) \/ CannotDecode(w)
    <3>1. CliFound'
      BY <1>0, <2>5 DEF CliFound, CannotRun, CannotDecode, RunRaises, Step, TypeOK
    <3> QED BY <2>2, <2>3, <3>1
  <2> QED BY <1>5, <2>4, <2>5
<1>6. CASE Restore(w)
  <2>1. Alone' /\ CliFound'
    BY <1>0, <1>6 DEF Alone, CliFound, TypeOK, Restore, Step, Away
  <2>2. wpc[w] # "idle" /\ \E r : outcome' = [outcome EXCEPT ![job[w]] = r]
    BY <1>6 DEF Restore, Step
  <2>3. RunRaised => RunRaised'
    BY <2>2, RaisedStays
  <2>4. Back => Back'
    BY <1>6 DEF Back, TypeOK, Restore, Step, Away
  <2> QED BY <1>0, <2>1, <2>3, <2>4
<1> QED BY <1>1, <1>2, <1>3, <1>4, <1>5, <1>6 DEF WorkerNext

LEMMA AloneInvariant == EvalSpec => []AloneInv
<1>1. EvalInit => AloneInv
  BY DEF EvalInit, Init, AloneInv, Alone, Back, CliFound, Away
<1>2. ASSUME AloneInv, MainNext \/ UNCHANGED vars PROVE AloneInv'
  <2>1. UNCHANGED <<built, cwd, wpc, old, outcome, overlapped>>
    BY <1>2 DEF MainNext, Collect, Raise, Cancel, LeavePool, Shutdown, worker, vars
  <2> QED BY <1>2, <2>1 DEF AloneInv, Alone, Back, CliFound, RunRaised
<1>3. ASSUME EvalTypeOK, PoolInv, AloneInv, NextDataset PROVE AloneInv'
  <2>1. UNCHANGED <<built, cwd, wpc, old, overlapped>>
    BY <1>3 DEF NextDataset, worker
  <2>2. ~RunRaised
    BY <1>3, PoolAssumption DEF NextDataset, Raised, RunRaised, PoolInv, EvalTypeOK, TypeOK
  <2>3. \A j \in 1 .. Jobs : outcome'[j] = "none" \/ outcome'[j] = outcome[j]
    BY <1>3 DEF NextDataset
  <2>4. CliFound => CliFound'
    BY <2>1, <2>3 DEF CliFound
  <2> QED BY <1>3, <2>1, <2>2, <2>4 DEF AloneInv, Alone, Back
<1>4. ASSUME EvalTypeOK, PoolInv, AloneInv, NEW w \in Worker, Quiet(w) PROVE AloneInv'
  <2>1. CliFound => CliFound'
    BY <1>4 DEF CliFound, Quiet, EvalTypeOK, TypeOK
  <2>2. (Alone => Alone') /\ (Back => Back')
    BY <1>4 DEF Alone, Back, Quiet, EvalTypeOK, TypeOK, Away
  <2>3. RunRaised => RunRaised'
    BY <1>4, RaisedStays DEF Quiet, EvalTypeOK
  <2> QED BY <1>4, <2>1, <2>2, <2>3 DEF AloneInv, Quiet
<1>5. ASSUME EvalTypeOK, PoolInv, AloneInv, NEW w \in Worker, PoolWorker(w) PROVE AloneInv'
  BY <1>4, <1>5, WhisperOrQuiet, WorkerAloneInv DEF EvalTypeOK
<1>6. EvalTypeOK /\ PoolInv /\ AloneInv /\ [EvalNext]_allvars => AloneInv'
  BY <1>2, <1>3, <1>5, MainOrNext
<1> QED BY <1>1, <1>6, EvalTypes, PoolInvariant, PTL DEF EvalSpec

\* However many threads the pools have and whichever calls raise, a whisper-cli
\* that was built is found as long as no two of them were in transcribe() at once.
THEOREM FoundAlone == EvalSpec => []FoundUnlessOverlapped
<1>1. AloneInv => FoundUnlessOverlapped
  BY DEF AloneInv, CliFound, FoundUnlessOverlapped
<1> QED BY <1>1, AloneInvariant, PTL

\* However many threads the pools have and whichever files whisper-cli fails on,
\* the process is back in its directory at the end of a pool if no two threads
\* were away at once and subprocess.run raised nothing.
THEOREM RestoredAlone == EvalSpec => []CwdRestored
<1>1. AloneInv /\ PoolInv => CwdRestored
  BY DEF AloneInv, Back, PoolInv, CwdRestored
<1> QED BY <1>1, AloneInvariant, PoolInvariant, PTL
-----------------------------------------------------------------------------
(* The model that the figures are of.                                      *)

AsNamed == Argument(name) = Size(name)

NamedInv ==
  /\ \A w \in Worker : wpc[w] \in {"load", "generate"} => name = "moonshine"
  /\ \A j \in 1 .. Jobs : outcome[j] = "text" => AsNamed
  /\ collected > 0 => AsNamed
  /\ FigureOfNamedModel

LEMMA AsNamedStays ==
  ASSUME [EvalNext]_allvars
  PROVE  UNCHANGED name
  BY DEF EvalNext, EvalMain, SelectModel, PreheatRaises, PoolMain, NextDataset, Fail,
         PoolWorker, NoSuchParameter, NotAPath, WhisperCall, LookUp, Load, LoadFails, Generate, allvars,
         evaluation, arguments

LEMMA WorkerNamedInv ==
  ASSUME EvalTypeOK, NamedInv, NEW w \in Worker, PoolWorker(w), UNCHANGED name
  PROVE  NamedInv'
<1>1. UNCHANGED <<collected, dataset, program>>
  BY DEF PoolWorker, TakeJob, NoSuchParameter, NotAPath, WhisperCall, GetCwd, ChangeDir,
         Start, NotFound, CannotRun, CannotDecode, RunRaises, Restore, LookUp, Load, LoadFails, Generate, Step, End, main, evaluation
<1>2. \A v \in Worker : wpc'[v] \in {"load", "generate"} => name = "moonshine"
  BY DEF PoolWorker, TakeJob, NoSuchParameter, NotAPath, WhisperCall, GetCwd, ChangeDir,
         Start, NotFound, CannotRun, CannotDecode, RunRaises, Restore, LookUp, Load, LoadFails, Generate, Step, End, NamedInv, EvalTypeOK,
         TypeOK
<1>3. \A j \in 1 .. Jobs : outcome'[j] = "text" => AsNamed
  <2>1. CASE TakeJob(w) \/ LookUp(w) \/ Load(w)
    BY <2>1 DEF TakeJob, LookUp, Load, NamedInv
  <2>2. CASE NoSuchParameter(w) \/ NotAPath(w) \/ LoadFails(w)
    BY <2>2 DEF NoSuchParameter, NotAPath, LoadFails, End, NamedInv, EvalTypeOK, TypeOK
  <2>3. CASE Generate(w)
    <3>1. AsNamed
      BY <2>3 DEF Generate, Step, NamedInv, AsNamed, Argument, Size
    <3> QED BY <3>1
  <2>4. CASE WhisperCall(w)
    <3>1. CASE \/ GetCwd(w) \/ ChangeDir(w) \/ Start(w)
                \/ NotFound(w) \/ CannotRun(w) \/ CannotDecode(w)
      BY <3>1 DEF GetCwd, ChangeDir, Start, NotFound, CannotRun, CannotDecode, RunRaises,
                  NamedInv, EvalTypeOK, TypeOK
    <3>2. CASE Restore(w) /\ (outcome'[job[w]] = "text" => HasModelFile)
      <4>1. HasModelFile => AsNamed
        BY <2>4 DEF WhisperCall, HasModelFile, AsNamed, Argument, Size, Whisper
      <4>2. \A j \in 1 .. Jobs : j # job[w] => outcome'[j] = outcome[j]
        BY <3>2 DEF Restore, EvalTypeOK, TypeOK
      <4> QED BY <3>2, <4>1, <4>2 DEF NamedInv
    <3> QED BY <2>4, <3>1, <3>2 DEF WhisperCall
  <2> QED BY <2>1, <2>2, <2>3, <2>4 DEF PoolWorker
<1> QED BY <1>1, <1>2, <1>3 DEF NamedInv, AsNamed, FigureOfNamedModel

LEMMA MainNamedInv ==
  ASSUME Jobs > 0, EvalTypeOK, NamedInv, EvalMain, UNCHANGED name
  PROVE  NamedInv'
<1>1. CASE SelectModel \/ PreheatRaises \/ Fail
  BY <1>1 DEF SelectModel, PreheatRaises, Fail, NamedInv, AsNamed, FigureOfNamedModel, vars, worker, main
<1>2. CASE PoolMain
  <2>1. UNCHANGED <<wpc, outcome, dataset, program>>
    BY <1>2 DEF PoolMain, MainNext, Collect, Raise, Cancel, LeavePool, Shutdown, worker,
                evaluation
  <2>2. collected' > 0 => AsNamed
    BY <1>2, PoolAssumption DEF PoolMain, MainNext, Collect, Raise, Cancel, LeavePool,
                Shutdown, NamedInv, EvalTypeOK, TypeOK
  <2> QED BY <2>1, <2>2 DEF NamedInv, AsNamed, FigureOfNamedModel
<1>3. CASE NextDataset
  <2>1. AsNamed
    BY <1>3, PoolAssumption DEF NextDataset, Raised, NamedInv, EvalTypeOK, TypeOK
  <2>2. \A w \in Worker : wpc'[w] \in {"load", "generate"} => name = "moonshine"
    BY <1>3 DEF NextDataset, NamedInv, worker
  <2> QED BY <2>1, <2>2 DEF NamedInv, AsNamed, FigureOfNamedModel
<1> QED BY <1>1, <1>2, <1>3 DEF EvalMain

\* If there is anything to transcribe, figures are only printed for the size of
\* the model that was asked for.
THEOREM FiguresAreNamed ==
  ASSUME Jobs > 0
  PROVE  EvalSpec => []FigureOfNamedModel
<1>1. EvalInit => NamedInv
  BY DEF EvalInit, Init, NamedInv, FigureOfNamedModel
<1>2. ASSUME NamedInv, UNCHANGED allvars PROVE NamedInv'
  BY <1>2 DEF NamedInv, AsNamed, FigureOfNamedModel, allvars, vars, worker, main,
              evaluation, arguments
<1>3. EvalTypeOK /\ NamedInv /\ [EvalNext]_allvars => NamedInv'
  BY <1>2, AsNamedStays, WorkerNamedInv, MainNamedInv DEF EvalNext
<1>4. NamedInv => FigureOfNamedModel
  BY DEF NamedInv
<1> QED BY <1>1, <1>3, <1>4, EvalTypes, PTL DEF EvalSpec
=============================================================================
