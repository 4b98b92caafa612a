----------------------------- MODULE Bootstrap ------------------------------
(***************************************************************************)
(* moonshine-enhanced on a machine with several shells.                    *)
(* self_start_setup.sh appends a start command to ~/.bashrc each time it   *)
(* is run.  Every interactive shell works off the commands it found there, *)
(* one after the other, and so may run an instance of the service while    *)
(* other shells run theirs.  All instances hear the same speech, each      *)
(* transcribes it for itself, and they append to the same recording.txt.   *)
(*                                                                         *)
(* A text is <<n, s>>: what the instance of shell s made of utterance n.   *)
(***************************************************************************)
EXTENDS Dictation, SequencesExt, FiniteSets

CONSTANTS
  Shell,      \* the interactive shells
  MaxSetups,  \* bound of the model: start commands in .bashrc
  MaxHeard    \* bound of the model: utterances

ASSUME BootAssumption == MaxSetups \in Nat /\ MaxHeard \in Nat

VARIABLES
  lines,            \* start commands in .bashrc
  heard,            \* utterances so far
  open,             \* the shell is open
  todo,             \* start commands that it has not come to yet
  up,               \* its instance of the service runs
  next,             \* the utterance that the instance is to act on next
  saving, unsaved,  \* as in Enhanced, of each instance
  disk,             \* the texts in recording.txt
  dictated,         \* history: texts that an instance took while dictating
  killed            \* history: texts in the buffer of an instance that was killed

shell    == <<open, todo>>
instance == <<up, next, saving, unsaved>>
file     == <<disk, dictated, killed>>
vars     == <<lines, heard, shell, instance, file>>

Init ==
  /\ lines = 0 /\ heard = 0
  /\ open = [s \in Shell |-> FALSE] /\ todo = [s \in Shell |-> 0]
  /\ up = [s \in Shell |-> FALSE] /\ next = [s \in Shell |-> 1]
  /\ saving = [s \in Shell |-> FALSE] /\ unsaved = [s \in Shell |-> <<>>]
  /\ disk = <<>> /\ dictated = {} /\ killed = {}
-----------------------------------------------------------------------------
\* echo ... >> "$HOME/.bashrc": nothing looks for a command already there.
Setup ==
  /\ lines < MaxSetups
  /\ lines' = lines + 1
  /\ UNCHANGED <<heard, shell, instance, file>>

\* An interactive shell reads .bashrc as it is now.
OpenShell(s) ==
  /\ ~open[s]
  /\ open' = [open EXCEPT ![s] = TRUE]
  /\ todo' = [todo EXCEPT ![s] = lines]
  /\ UNCHANGED <<lines, heard, instance, file>>

\* The next start command: start.sh runs main.py, which opens the microphone
\* and hears what is said from now on.
StartService(s) ==
  /\ todo[s] > 0 /\ ~up[s]
  /\ todo' = [todo EXCEPT ![s] = @ - 1]
  /\ up' = [up EXCEPT ![s] = TRUE]
  /\ next' = [next EXCEPT ![s] = heard + 1]
  /\ saving' = [saving EXCEPT ![s] = FALSE]
  /\ UNCHANGED <<lines, heard, open, unsaved, file>>

\* The command fails: another instance may have the microphone for itself.
StartFails(s) ==
  /\ todo[s] > 0 /\ ~up[s]
  /\ todo' = [todo EXCEPT ![s] = @ - 1]
  /\ UNCHANGED <<lines, heard, open, instance, file>>

Speak ==
  /\ heard < MaxHeard
  /\ heard' = heard + 1
  /\ UNCHANGED <<lines, shell, instance, file>>

\* end_recording(): instances may read different texts out of one utterance.
Transcribe(s) ==
  /\ up[s] /\ next[s] <= heard
  /\ \E says \in Says :
       /\ \E result \in Processed(<<next[s], s>>, says, saving[s], unsaved[s]) :
            /\ saving' = [saving EXCEPT ![s] = result.saving]
            /\ unsaved' = [unsaved EXCEPT ![s] = result.unsaved]
            /\ disk' = FileAfter(disk, result)
       /\ dictated' = IF Dictates(says, saving[s])
                      THEN dictated \cup {<<next[s], s>>} ELSE dictated
  /\ next' = [next EXCEPT ![s] = @ + 1]
  /\ UNCHANGED <<lines, heard, shell, up, killed>>

\* An exception or Ctrl+C: Python closes the file.  The shell goes on with its
\* next command, or leaves the rest of .bashrc after Ctrl+C.
EndService(s) ==
  /\ up[s]
  /\ up' = [up EXCEPT ![s] = FALSE]
  /\ disk' = disk \o unsaved[s]
  /\ unsaved' = [unsaved EXCEPT ![s] = <<>>]
  /\ \E left \in {0, todo[s]} : todo' = [todo EXCEPT ![s] = left]
  /\ UNCHANGED <<lines, heard, open, next, saving, dictated, killed>>

\* The terminal is closed and what runs in it is killed.
CloseShell(s) ==
  /\ open[s]
  /\ open' = [open EXCEPT ![s] = FALSE] /\ todo' = [todo EXCEPT ![s] = 0]
  /\ up' = [up EXCEPT ![s] = FALSE]
  /\ killed' = killed \cup ToSet(unsaved[s])
  /\ unsaved' = [unsaved EXCEPT ![s] = <<>>]
  /\ UNCHANGED <<lines, heard, next, saving, disk, dictated>>

ShellNext(s) ==
  \/ OpenShell(s) \/ StartService(s) \/ StartFails(s)
  \/ Transcribe(s) \/ EndService(s) \/ CloseShell(s)

Next == Setup \/ Speak \/ \E s \in Shell : ShellNext(s)

Spec == Init /\ [][Next]_vars
-----------------------------------------------------------------------------
\* However the instances take turns at writing, the texts of each shell's
\* instances are in recording.txt in the order they were said and each once;
\* those in a buffer come after all that is on the disk (main.py:20-25).
EachInOrder ==
  /\ \A j, k \in DOMAIN disk :
       j < k /\ disk[j][2] = disk[k][2] => disk[j][1] < disk[k][1]
  /\ \A s \in Shell : \A k \in DOMAIN unsaved[s] :
       /\ \A j \in 1 .. k - 1 : unsaved[s][j][1] < unsaved[s][k][1]
       /\ \A j \in DOMAIN disk : disk[j][2] = s => disk[j][1] < unsaved[s][k][1]

\* An utterance is in recording.txt as many times as instances took it while
\* dictating: none overwrites or truncates what another wrote, and only a
\* killed one loses what its own buffer held (main.py:18-25).
KeptByAll ==
  dictated = ToSet(disk) \cup killed \cup UNION {ToSet(unsaved[s]) : s \in Shell}
=============================================================================
