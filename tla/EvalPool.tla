------------------------------ MODULE EvalPool ------------------------------
(***************************************************************************)
(* evaluation/evaluate_model.py with evaluate() of WER.py: the model named *)
(* on the command line selects a transcribe(), and each dataset in turn is *)
(* transcribed by the threads of a pool of its own.  transcribe() of       *)
(* whisper_cpp is that of WhisperPool; the one of moonshine/src/           *)
(* file_trans.py looks for its model in the dictionary `models`, which all *)
(* threads share and which outlives the pools.                             *)
(***************************************************************************)
EXTENDS WhisperPool

CONSTANT Datasets   \* bound of the model: how many datasets are evaluated

ASSUME DatasetAssumption == Datasets \in Nat \ {0}

VARIABLES
  name, streaming,   \* the arguments --model and --streaming
  program,           \* how far the program is
  dataset,           \* the dataset being evaluated
  models,            \* models[...] is there
  loads              \* history: per worker, the models it has loaded

arguments == <<name, streaming>>
evaluation == <<arguments, program, dataset, models, loads>>
allvars == <<vars, evaluation>>

\* The model names that the program tells apart; "tiny" stands for any size that
\* is not the default and "vosk" for any other name.
Name == {"moonshine", "moonshine/tiny", "whisper_cpp", "whisper_cpp/base",
         "whisper_cpp/tiny", "vosk"}

Whisper == {"whisper_cpp", "whisper_cpp/base", "whisper_cpp/tiny"}

EvalInit ==
  /\ Init
  /\ name \in Name /\ streaming \in BOOLEAN
  /\ program = "start" /\ dataset = 1
  /\ models = FALSE /\ loads = [w \in Worker |-> 0]
-----------------------------------------------------------------------------
(* Which model is used.                                                    *)

\* The size that a name asks for.
Size(n) == IF n \in {"moonshine/tiny", "whisper_cpp/tiny"} THEN "tiny" ELSE "base"

\* Variant: no size is passed on.
NoArgument(n) == "base"

\* What transcribe() gets as its model: for whisper_cpp/..., group(0) is the
\* whole name.
Argument(n) == IF n = "whisper_cpp/tiny" THEN n ELSE "base"

\* Files of both sizes were downloaded; none is called whisper_cpp/....
HasModelFile == Argument(name) \in {"base", "tiny"}

\* Any other name leaves `transcribe` undefined.
SelectModel ==
  /\ program = "start"
  /\ program' = IF name = "vosk" THEN "raised" ELSE "pool"
  /\ UNCHANGED <<vars, arguments, dataset, models, loads>>

\* preheat() runs while file_trans.py is imported; prepare.sh cannot be run.
PreheatRaises ==
  /\ program = "start" /\ name \in Whisper
  /\ program' = "raised"
  /\ UNCHANGED <<vars, arguments, dataset, models, loads>>
-----------------------------------------------------------------------------
(* A call of transcribe() by a worker.                                     *)

End(w, result) ==
  /\ outcome' = [outcome EXCEPT ![job[w]] = result]
  /\ UNCHANGED <<cwd, job, old, first, overlapped>>

\* partial(_transcribe, model=...): moonshine's has no such parameter.
NoSuchParameter(w) ==
  /\ name = "moonshine/tiny" /\ Step(w, "call", "idle")
  /\ End(w, "error")
  /\ UNCHANGED evaluation

\* That of whisper_cpp takes a path, not the array of a streamed file.
NotAPath(w) ==
  /\ name \in Whisper /\ streaming /\ Step(w, "call", "idle")
  /\ End(w, "error")
  /\ UNCHANGED evaluation

WhisperCall(w) ==
  /\ name \in Whisper /\ ~streaming
  /\ \/ GetCwd(w) \/ ChangeDir(w) \/ Start(w)
     \/ NotFound(w) \/ CannotRun(w) \/ CannotDecode(w)
     \/ Restore(w) /\ (outcome'[job[w]] = "text" => HasModelFile)
  /\ UNCHANGED evaluation

\* Variant: a model is loaded for each file.
LookUpNothing(w) ==
  /\ name = "moonshine" /\ Step(w, "call", "load")
  /\ UNCHANGED <<cwd, job, old, outcome, first, overlapped, evaluation>>

\* model = models[model_name], or KeyError
LookUp(w) ==
  /\ name = "moonshine" /\ Step(w, "call", IF models THEN "generate" ELSE "load")
  /\ UNCHANGED <<cwd, job, old, outcome, first, overlapped, evaluation>>

\* MoonshineOnnxModel(...), models[model_name] = model
Load(w) ==
  /\ Step(w, "load", "generate")
  /\ models' = TRUE /\ loads' = [loads EXCEPT ![w] = @ + 1]
  /\ UNCHANGED <<cwd, job, old, outcome, first, overlapped, arguments, program, dataset>>

\* The weights can be neither found nor downloaded.
LoadFails(w) ==
  /\ Step(w, "load", "idle")
  /\ End(w, "error")
  /\ UNCHANGED evaluation

\* load_audio, assert_audio_size, generate: the array of a streamed file has one
\* dimension, and some files are too short or too long.
Generate(w) ==
  /\ Step(w, "generate", "idle")
  /\ \E result \in (IF streaming THEN {} ELSE {"text"}) \cup {"error"} : End(w, result)
  /\ UNCHANGED evaluation

PoolWorker(w) ==
  \/ TakeJob(w) /\ UNCHANGED evaluation
  \/ NoSuchParameter(w) \/ NotAPath(w) \/ WhisperCall(w)
  \/ LookUp(w) \/ Load(w) \/ LoadFails(w) \/ Generate(w)
-----------------------------------------------------------------------------
(* for datasetName in availableDatasets                                    *)

PoolMain == program = "pool" /\ MainNext /\ UNCHANGED evaluation

Raised == mpc = "done" /\ collected < Jobs

\* The exception of a job ends the program.
Fail ==
  /\ program = "pool" /\ Raised
  /\ program' = "raised"
  /\ UNCHANGED <<vars, arguments, dataset, models, loads>>

\* The figure of this dataset is printed; the next one gets a new pool, in the
\* working directory that this one has left.
NextDataset ==
  /\ program = "pool" /\ mpc = "done" /\ ~Raised
  /\ IF dataset < Datasets
     THEN /\ first' = 1 /\ last' = Jobs /\ collected' = 0 /\ mpc' = "collect"
          /\ outcome' = [j \in 1 .. Jobs |-> "none"]
          /\ dataset' = dataset + 1 /\ UNCHANGED program
     ELSE /\ program' = "printed"
          /\ UNCHANGED <<first, main, outcome, dataset>>
  /\ UNCHANGED <<built, cwd, worker, overlapped, arguments, models, loads>>

EvalMain == SelectModel \/ PreheatRaises \/ PoolMain \/ NextDataset \/ Fail

EvalNext == EvalMain \/ \E w \in Worker : program = "pool" /\ PoolWorker(w)

EvalSpec == EvalInit /\ [][EvalNext]_allvars

\* The threads are scheduled, and models and whisper-cli answer.
FairEvalSpec ==
  EvalSpec /\ WF_allvars(EvalMain)
           /\ \A w \in Worker : WF_allvars(program = "pool" /\ PoolWorker(w))
-----------------------------------------------------------------------------
EvalTypeOK ==
  /\ TypeOK
  /\ name \in Name /\ streaming \in BOOLEAN
  /\ program \in {"start", "pool", "raised", "printed"}
  /\ dataset \in 1 .. Datasets
  /\ models \in BOOLEAN /\ loads \in [Worker -> Nat]

\* The check for a model and its storing are not one step, so every worker may
\* load one; but none does so twice, in however many datasets, since what any
\* of them stored is found by all (file_trans.py:37-44).
LoadedOnce == \A w \in Worker : loads[w] <= 1

\* A figure is printed for the size that was asked for or not at all: a name with
\* a size never falls back on the default model (evaluate_model.py:35-52).
FigureOfNamedModel ==
  (dataset > 1 \/ program = "printed") => Argument(name) = Size(name)

\* Whichever files fail, on whichever dataset, the program ends: no pool waits
\* for jobs that were cancelled (WER.py:117-118 and 123-126).
EvaluationEnds == <>(program \in {"raised", "printed"})
=============================================================================
