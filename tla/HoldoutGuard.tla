---------------------------- MODULE HoldoutGuard ----------------------------
(***************************************************************************)
(* scripts/holdout_guard.py: the commands a custodian and an operator run  *)
(* to seal the final holdout and to open it once.  Each command is a       *)
(* process of its own; they share the seal file and the output directories *)
(* of the repository, and none of them takes a lock.                       *)
(*                                                                         *)
(* A dataset stands for its contents, so that two are equal when their     *)
(* hashes and case counts are.  Path.write_text truncates a file and then  *)
(* fills it: a reader in between finds nothing, and a writer that finds    *)
(* the file filled since it truncated it may leave the tail of the other.  *)
(***************************************************************************)
EXTENDS Integers

CONSTANTS
    Command,    \* processes
    Dataset, NoDataset,
    Empty,      \* datasets without a case
    Inside,     \* datasets within the working tree
    Output, NoOutput,
    Elsewhere,  \* output directories outside the repository
    MaxRuns     \* bound: commands run

ASSUME HoldoutAssumption ==
    /\ NoDataset \notin Dataset
    /\ NoOutput \notin Output
    /\ MaxRuns \in Nat

Mode == {"seal", "verify", "open"}

Unreadable == {"empty", "torn"}

Seal == [status : {"awaiting_independent_custodian", "sealed"} \cup Unreadable,
         dataset : Dataset \cup {NoDataset}, opened_receipt : Output \cup {NoOutput}]

Unsealed(status) ==
    [status |-> status, dataset |-> NoDataset, opened_receipt |-> NoOutput]

(* An output directory, and the dataset its receipt names.                 *)
Directory == [status : {"absent", "made", "torn", "opened", "exited"},
              dataset : Dataset \cup {NoDataset}]

Bare(status) == [status |-> status, dataset |-> NoDataset]

VARIABLES
    seal,         \* evaluation/v7_holdout_seal.json
    outputs,      \* the output directories
    commands,     \* the running commands, by process
    runs,         \* commands run so far
    evaluations,  \* output directories whose evaluation was started
    overlapped    \* two commands were once both between load and save

guardVars == <<seal, outputs, commands, runs, evaluations, overlapped>>

(* What a command does next.                                               *)
Step == {"none", "load", "mkdir", "receipt", "truncate", "fill", "run", "report"}

Running == [step : Step, mode : Mode, dataset : Dataset \cup {NoDataset},
            output : Output \cup {NoOutput}, current : Seal]

NotRunning == [step |-> "none", mode |-> "verify", dataset |-> NoDataset,
               output |-> NoOutput, current |-> Unsealed("empty")]

(* Mistake: the seal is saved when the evaluation has returned.            *)
Following_RunFirst(step) ==
    CASE step = "mkdir" -> "receipt"
      [] step = "receipt" -> "run"
      [] step = "run" -> "truncate"
      [] step = "truncate" -> "fill"
      [] OTHER -> "report"

(* Mistake: the seal cites the receipt before it is written.               *)
Following_SealFirst(step) ==
    CASE step = "mkdir" -> "truncate"
      [] step = "truncate" -> "fill"
      [] step = "fill" -> "receipt"
      [] step = "receipt" -> "run"
      [] OTHER -> "report"

(* The order of the effects of open_once.                                  *)
Following(step) ==
    CASE step = "mkdir" -> "receipt"
      [] step = "receipt" -> "truncate"
      [] step = "truncate" -> "fill"
      [] step = "fill" -> "run"
      [] OTHER -> "report"

GuardInit ==
    /\ seal = Unsealed("awaiting_independent_custodian")
    /\ outputs = [o \in Output |-> Bare("absent")]
    /\ commands = [c \in Command |-> NotRunning]
    /\ runs = 0
    /\ evaluations = {}
    /\ overlapped = FALSE

Exits(c) == commands' = [commands EXCEPT ![c] = NotRunning]

Continues(c) ==
    IF commands[c].mode = "seal" /\ commands[c].step = "fill"
    THEN Exits(c)
    ELSE commands' = [commands EXCEPT ![c].step = Following(@)]

At(c, step) == commands[c].step = step

(* main: the parsed command line.                                          *)
Main(c, mode, dataset, output) ==
    /\ At(c, "none")
    /\ runs < MaxRuns
    /\ runs' = runs + 1
    /\ commands' = [commands EXCEPT ![c] =
          [step |-> "load", mode |-> mode, dataset |-> dataset, output |-> output,
           current |-> Unsealed("empty")]]
    /\ UNCHANGED <<seal, outputs, evaluations>>

Sealable(c) ==
    /\ seal.status = "awaiting_independent_custodian"
    /\ commands[c].dataset \notin Inside \cup Empty

Verified(c) ==
    /\ seal.status = "sealed"
    /\ seal.dataset = commands[c].dataset

Openable(c) ==
    /\ Verified(c)
    /\ seal.opened_receipt = NoOutput
    /\ commands[c].output \notin Elsewhere

(* What seal and open_once make of the seal they loaded, in memory.        *)
Updated(c) ==
    IF commands[c].mode = "seal"
    THEN [status |-> "sealed", dataset |-> commands[c].dataset, opened_receipt |-> NoOutput]
    ELSE [seal EXCEPT !.opened_receipt = commands[c].output]

Passes(c) ==
    \/ commands[c].mode = "seal" /\ Sealable(c)
    \/ commands[c].mode = "open" /\ Openable(c)

(* load_seal and the checks on it: the command goes on with its copy.      *)
LoadSeal(c) ==
    /\ At(c, "load")
    /\ Passes(c)
    /\ commands' = [commands EXCEPT
          ![c].current = Updated(c),
          ![c].step = IF commands[c].mode = "seal" THEN "truncate" ELSE "mkdir"]
    /\ UNCHANGED <<seal, outputs, runs, evaluations>>

(* A refusal, a seal that does not parse, or verify, which has no effect.  *)
Stop(c) ==
    /\ At(c, "load")
    /\ ~Passes(c)
    /\ Exits(c)
    /\ UNCHANGED <<seal, outputs, runs, evaluations>>

(* output.mkdir(exist_ok=False)                                            *)
MakeOutput(c) ==
    /\ At(c, "mkdir")
    /\ IF outputs[commands[c].output].status = "absent"
       THEN outputs' = [outputs EXCEPT ![commands[c].output] = Bare("made")] /\ Continues(c)
       ELSE Exits(c) /\ UNCHANGED outputs
    /\ UNCHANGED <<seal, runs, evaluations>>

WriteReceipt(c) ==
    /\ At(c, "receipt")
    /\ outputs' = [outputs EXCEPT ![commands[c].output] =
          [status |-> "opened", dataset |-> commands[c].current.dataset]]
    /\ Continues(c)
    /\ UNCHANGED <<seal, runs, evaluations>>

(* save_seal, first half: write_text opens the file.                       *)
TruncateSeal(c) ==
    /\ At(c, "truncate")
    /\ seal' = Unsealed("empty")
    /\ Continues(c)
    /\ UNCHANGED <<outputs, runs, evaluations>>

(* save_seal, second half.                                                 *)
FillSeal(c) ==
    /\ At(c, "fill")
    /\ \/ seal' = commands[c].current
       \/ seal.status # "empty" /\ seal' = Unsealed("torn")
    /\ Continues(c)
    /\ UNCHANGED <<outputs, runs, evaluations>>

(* subprocess.run: the evaluation reads the holdout.                       *)
RunCommand(c) ==
    /\ At(c, "run")
    /\ evaluations' = evaluations \cup {commands[c].output}
    /\ Continues(c)
    /\ UNCHANGED <<seal, outputs, runs>>

(* The receipt is written again, with the exit code.                       *)
Report(c) ==
    /\ At(c, "report")
    /\ outputs' = [outputs EXCEPT ![commands[c].output] =
          [status |-> "exited", dataset |-> commands[c].current.dataset]]
    /\ Exits(c)
    /\ UNCHANGED <<seal, runs, evaluations>>

(* The process dies; what it was writing may be half there.                *)
Crash(c) ==
    /\ ~At(c, "none")
    /\ Exits(c)
    /\ \/ UNCHANGED <<seal, outputs>>
       \/ At(c, "fill") /\ seal' = Unsealed("torn") /\ UNCHANGED outputs
       \/ /\ commands[c].step \in {"receipt", "report"}
          /\ outputs' = [outputs EXCEPT ![commands[c].output] = Bare("torn")]
          /\ UNCHANGED seal
    /\ UNCHANGED <<runs, evaluations>>

(* Commands between their load of the seal and the end of their save.      *)
Windows == {c \in Command : commands[c].step \in {"mkdir", "receipt", "truncate", "fill"}}

Act(c) ==
    \/ \E mode \in Mode, dataset \in Dataset, output \in Output : Main(c, mode, dataset, output)
    \/ LoadSeal(c)
    \/ Stop(c)
    \/ MakeOutput(c)
    \/ WriteReceipt(c)
    \/ TruncateSeal(c)
    \/ FillSeal(c)
    \/ RunCommand(c)
    \/ Report(c)
    \/ Crash(c)

GuardNext ==
    /\ \E c \in Command : Act(c)
    /\ overlapped' = (overlapped \/ \E c, other \in Windows' : c # other)

GuardSpec == GuardInit /\ [][GuardNext]_guardVars

-----------------------------------------------------------------------------
GuardTypeOK ==
    /\ seal \in Seal
    /\ outputs \in [Output -> Directory]
    /\ commands \in [Command -> Running]
    /\ \A c \in Command : ~At(c, "none") =>
          commands[c].dataset \in Dataset /\ commands[c].output \in Output
    /\ runs \in Nat
    /\ evaluations \subseteq Output
    /\ overlapped \in BOOLEAN

(* A seal that cites an opening can be followed to its receipt, which      *)
(* names the sealed dataset, whatever commands overlapped or died; only    *)
(* a process that dies while it adds the exit code (open_once) tears it.   *)
SealCitesItsReceipt ==
    seal.opened_receipt # NoOutput =>
       LET cited == outputs[seal.opened_receipt]
       IN  \/ cited.status = "torn" /\ seal.opened_receipt \in evaluations
           \/ cited.status \in {"opened", "exited"} /\ cited.dataset = seal.dataset

(* The holdout is evaluated once (open_once), unless two commands were at  *)
(* the seal at the same time: also when commands die at any point, a       *)
(* second one in a row finds the seal cited or unreadable.                 *)
OpenedOnceUnlessOverlapped ==
    overlapped \/ \A first, second \in evaluations : first = second
=============================================================================
