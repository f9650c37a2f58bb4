----------------------------- MODULE Calibration -----------------------------
(***************************************************************************)
(* From the simulation to the models on the board: the programs            *)
(*   scripts/collect_onnx_mujoco_calibration.py  encoder and decoder inputs*)
(*   scripts/rknn_pipeline.py make-calibration   a dataset and its manifest*)
(*   scripts/rknn_pipeline.py convert            a quantised model         *)
(*   inference/src/main.cpp                      the benchmark             *)
(* run one after another over the files they leave for each other. Each can*)
(* be broken off between two of its writes, or within one.                 *)
(*                                                                         *)
(* A file is the number of the program that wrote it, None, or Torn. In the*)
(* collector every re-start of the physics begins an epoch; a history entry*)
(* is the set of epochs its state and its last action are from.            *)
(***************************************************************************)
EXTENDS Integers, Sequences, FiniteSets

CONSTANTS
    Counts,         \* values of --count for the collector
    Synthetic,      \* and for a synthetic dataset
    EpisodeLength,  \* --episode-length
    HistoryLen,     \* samples of history: 10 in the code
    Warmup, Iterations,  \* of the benchmark
    MaxRuns         \* bound: programs started

ASSUME CalibrationAssumption ==
    /\ Counts \cup Synthetic \subseteq Nat \ {0} /\ IsFiniteSet(Counts \cup Synthetic)
    /\ EpisodeLength \in Nat \ {0} /\ HistoryLen \in Nat \ {0}
    /\ Warmup \in Nat /\ Iterations \in Nat \ {0} /\ MaxRuns \in Nat

Models == {"encoder", "decoder"}
Files == {"encoder_inputs", "decoder_inputs", "metadata"}
None == 0
Torn == -1
Indices == UNION {0 .. c - 1 : c \in Counts \cup Synthetic}
Lengths == {0} \cup {i + 1 : i \in Indices}

VARIABLES
    runs,       \* programs started; the number of the one that runs
    prog,       \* it, "idle" if there is none
    model,      \* the model it is about
    target,     \* --count, or the number of samples that were loaded
    step,       \* how far it is
    epoch, history, last,   \* collector: physics, history, epoch of last_action
    validating, \* --validate-only
    mixed,      \* a sample was kept whose history has two epochs
    blown,      \* the physics became non-finite and was reset
    file,       \* what the collector saved
    size,       \* number of samples of the collection that run was
    sample,     \* the sample files of each model
    manifest,   \* the number of paths in its dataset.txt, 0: none or empty
    owner,      \* the run that wrote it
    built,      \* the runs whose samples the converter has read
    artifact,   \* the same of the exported model, {}: none, {Torn}
    timed,      \* timings the benchmark has recorded
    exit,       \* its exit code, -1 before
    broken      \* a program was broken off while it wrote

program == <<prog, model, target, step>>
collector == <<epoch, history, last, validating, mixed, blown>>
dataset == <<sample, manifest, owner>>
bench == <<timed, exit>>
vars == <<runs, program, collector, file, size, dataset, built, artifact, bench, broken>>

Zeros == [i \in 1 .. HistoryLen |-> {}]

Init ==
    /\ runs = 0 /\ prog = "idle" /\ model = "encoder" /\ target = 0 /\ step = 0
    /\ epoch = 0 /\ history = Zeros /\ last = {} /\ validating = FALSE
    /\ mixed = FALSE /\ blown = FALSE
    /\ file = [f \in Files |-> None]
    /\ size = [r \in 1 .. MaxRuns |-> 0]
    /\ sample = [m \in Models |-> [i \in Indices |-> None]]
    /\ manifest = [m \in Models |-> 0] /\ owner = [m \in Models |-> None]
    /\ built = {} /\ artifact = [m \in Models |-> {}]
    /\ timed = 0 /\ exit = -1
    /\ broken = FALSE

Started(what) ==
    /\ prog = "idle"
    /\ runs < MaxRuns
    /\ runs' = runs + 1
    /\ prog' = what
    /\ step' = 0

(* A program that ends leaves its files and nothing else.                  *)
Ends == prog' = "idle" /\ step' = 0 /\ target' = 0 /\ model' = "encoder"

-----------------------------------------------------------------------------
(* collect_onnx_mujoco_calibration.py.                                     *)

Collect(count, only) ==
    /\ Started("collect")
    /\ target' = count /\ validating' = only
    /\ epoch' = 1 /\ history' = Zeros /\ last' = {}
    /\ mixed' = FALSE /\ blown' = FALSE
    /\ UNCHANGED <<model, file, size, dataset, built, artifact, bench, broken>>

(* A new episode, at every multiple of its length but the first.           *)
EpisodeEnds == ~validating /\ step > 0 /\ step % EpisodeLength = 0

(* An episode starts with the physics alone.                               *)
Mut_Episode ==
    [epoch |-> IF EpisodeEnds THEN epoch + 1 ELSE epoch, history |-> history, last |-> last]

Episode ==
    IF EpisodeEnds THEN [epoch |-> epoch + 1, history |-> Zeros, last |-> {}]
                   ELSE [epoch |-> epoch, history |-> history, last |-> last]

(* One turn of the loop. A physics that became non-finite is reset, while  *)
(* history and last_action stay.                                           *)
TakeSample ==
    /\ prog = "collect" /\ step < target
    /\ LET e == Episode
           h == Append(Tail(e.history), {e.epoch} \cup e.last)
       IN /\ history' = h
          /\ last' = {e.epoch}
          /\ mixed' = (mixed \/ Cardinality(UNION {h[i] : i \in DOMAIN h}) > 1)
          /\ \/ epoch' = e.epoch /\ UNCHANGED blown
             \/ ~validating /\ epoch' = e.epoch + 1 /\ blown' = TRUE
    /\ step' = step + 1
    /\ UNCHANGED <<runs, prog, model, target, validating, file, size, dataset, built, artifact, bench, broken>>

(* Numbers from a model, or a physics while validating, that are not       *)
(* finite raise; a validation that came to its end gives its verdict.      *)
(* Nothing was written yet.                                                *)
LeaveCollector ==
    /\ prog = "collect"
    /\ Ends
    /\ epoch' = 0 /\ history' = Zeros /\ last' = {} /\ validating' = FALSE
    /\ mixed' = FALSE /\ blown' = FALSE
    /\ UNCHANGED <<runs, file, size, dataset, built, artifact, bench, broken>>

Collected ==
    /\ prog = "collect" /\ step = target /\ ~validating
    /\ prog' = "save" /\ step' = 0
    /\ size' = [size EXCEPT ![runs] = target]
    /\ epoch' = 0 /\ history' = Zeros /\ last' = {}
    /\ mixed' = FALSE /\ blown' = FALSE
    /\ UNCHANGED <<runs, model, target, validating, file, dataset, built, artifact, bench, broken>>

(* The metadata comes last.                                                *)
SaveOrder == <<"encoder_inputs", "decoder_inputs", "metadata">>

(* The n-th statement of a list of writes truncates a file, the next fills *)
(* it.                                                                     *)
Written(n) == IF n % 2 = 0 THEN Torn ELSE runs

Save ==
    /\ prog = "save"
    /\ file' = [file EXCEPT ![SaveOrder[step \div 2 + 1]] = Written(step)]
    /\ IF step = 5 THEN Ends ELSE step' = step + 1 /\ UNCHANGED <<prog, target, model>>
    /\ UNCHANGED <<runs, collector, size, dataset, built, artifact, bench, broken>>

-----------------------------------------------------------------------------
(* rknn_pipeline.py make-calibration.                                      *)

(* What load_calibration_samples accepts, as the file and its number of    *)
(* samples: the shape of the model, in a file that can be read.            *)
Loadable(m) ==
    LET f == IF m = "encoder" THEN "encoder_inputs" ELSE "decoder_inputs"
    IN IF file[f] \in {None, Torn} THEN {} ELSE {size[file[f]]}

(* Saved samples, or synthetic ones in any number. Anything else raises    *)
(* before the first write.                                                 *)
MakeCalibration(m) ==
    /\ \/ /\ Started("make") /\ target' \in Loadable(m) \cup Synthetic
          /\ model' = m
       \/ Started("idle") /\ UNCHANGED <<target, model>>   \* a file of another shape, or none
    /\ UNCHANGED <<collector, file, size, dataset, built, artifact, bench, broken>>

(* One .npy after the other.                                               *)
WriteSample ==
    /\ prog = "make" /\ step < 2 * target
    /\ sample' = [sample EXCEPT ![model][step \div 2] = Written(step)]
    /\ step' = step + 1
    /\ UNCHANGED <<runs, prog, model, target, collector, file, size, manifest, owner, built, artifact, bench, broken>>

(* The manifest may be written as soon as the names are known.             *)
Mut_WriteManifest ==
    /\ prog = "make"
    /\ manifest' = [manifest EXCEPT ![model] = target]
    /\ owner' = [owner EXCEPT ![model] = runs]
    /\ IF step < 2 * target THEN UNCHANGED <<prog, step, target, model>> ELSE Ends
    /\ UNCHANGED <<runs, collector, file, size, sample, built, artifact, bench, broken>>

(* The manifest names the samples that were just written, and no others.   *)
(* Until its text is complete the file holds the first of its lines; a line*)
(* that is cut names no file, and the toolkit fails on it.                 *)
WriteManifest ==
    /\ prog = "make" /\ step >= 2 * target
    /\ owner' = [owner EXCEPT ![model] = runs]
    /\ \/ /\ step = 2 * target
          /\ \E lines \in 0 .. target : manifest' = [manifest EXCEPT ![model] = lines]
          /\ step' = step + 1 /\ UNCHANGED <<prog, target, model>>
       \/ step > 2 * target /\ manifest' = [manifest EXCEPT ![model] = target] /\ Ends
    /\ UNCHANGED <<runs, collector, file, size, sample, built, artifact, bench, broken>>

-----------------------------------------------------------------------------
(* rknn_pipeline.py convert. Every call of the toolkit may fail.           *)

Listed(m) == {sample[m][i] : i \in 0 .. manifest[m] - 1}

Convert(m) ==
    /\ Started("convert")
    /\ model' = m
    /\ UNCHANGED <<target, collector, file, size, dataset, built, artifact, bench, broken>>

(* config, load_onnx and build; the last reads the files of the manifest.  *)
BuildModel ==
    /\ prog = "convert" /\ step = 0
    /\ \/ /\ Listed(model) # {} /\ Listed(model) \cap {None, Torn} = {}
          /\ built' = Listed(model)
          /\ step' = 1 /\ UNCHANGED <<prog, target, model>>
       \/ Ends /\ UNCHANGED built
    /\ UNCHANGED <<runs, collector, file, size, dataset, artifact, bench, broken>>

(* A failed export may leave the old file, or a torn one.                  *)
ExportModel ==
    /\ prog = "convert" /\ step > 0
    /\ \/ /\ step = 1
          /\ artifact' = [artifact EXCEPT ![model] = {Torn}]
          /\ step' = 2 /\ UNCHANGED <<prog, target, model, built>>
       \/ step = 2 /\ artifact' = [artifact EXCEPT ![model] = built] /\ Ends /\ built' = {}
       \/ UNCHANGED artifact /\ Ends /\ built' = {}
    /\ UNCHANGED <<runs, collector, file, size, dataset, bench, broken>>

-----------------------------------------------------------------------------
(* main.cpp. Every call of the runtime may fail, which ends the program    *)
(* with 1. A model that is missing or torn cannot be opened.               *)

Benchmark ==
    /\ Started("bench")
    /\ timed' = 0 /\ exit' = -1
    /\ UNCHANGED <<model, target, collector, file, size, dataset, built, artifact, broken>>

CanOpen == \A m \in Models : artifact[m] \notin {{}, {Torn}}

Fail ==
    /\ prog = "bench"
    /\ Ends /\ exit' = 1
    /\ UNCHANGED <<runs, collector, file, size, dataset, built, artifact, timed, broken>>

(* The warm-up, then the iterations that are timed: the encoder, its token *)
(* copied over the decoder's input, the decoder.                           *)
Infer ==
    /\ prog = "bench" /\ CanOpen
    /\ step < Warmup + Iterations
    /\ step' = step + 1
    /\ timed' = IF step < Warmup THEN timed ELSE timed + 1
    /\ UNCHANGED <<runs, prog, model, target, collector, file, size, dataset, built, artifact, exit, broken>>

Report ==
    /\ prog = "bench" /\ step = Warmup + Iterations
    /\ Ends /\ exit' = 0
    /\ UNCHANGED <<runs, collector, file, size, dataset, built, artifact, timed, broken>>

-----------------------------------------------------------------------------
(* Ctrl-C, a full disk, a killed process: between the writes of a dataset. *)
(* Elsewhere it does what a failure there does.                            *)
BreakOff ==
    /\ prog \in {"save", "make"} /\ step > 0
    /\ Ends
    /\ broken' = TRUE
    /\ UNCHANGED <<runs, collector, file, size, dataset, built, artifact, bench>>

Next ==
    \/ \E count \in Counts, only \in BOOLEAN : Collect(count, only)
    \/ TakeSample \/ LeaveCollector \/ Collected \/ Save
    \/ \E m \in Models : MakeCalibration(m) \/ Convert(m)
    \/ WriteSample \/ WriteManifest \/ BuildModel \/ ExportModel
    \/ Benchmark \/ Infer \/ Report \/ Fail \/ BreakOff

Spec == Init /\ [][Next]_vars

-----------------------------------------------------------------------------
TypeOK ==
    /\ runs \in 0 .. MaxRuns
    /\ prog \in {"idle", "collect", "save", "make", "convert", "bench"}
    /\ model \in Models /\ target \in Counts \cup Synthetic \cup {0} /\ step \in Nat
    /\ epoch \in Nat /\ Len(history) = HistoryLen
    /\ file \in [Files -> {None, Torn} \cup 1 .. runs]
    /\ sample \in [Models -> [Indices -> {None, Torn} \cup 1 .. runs]]
    /\ manifest \in [Models -> Lengths] /\ owner \in [Models -> 0 .. runs]
    /\ artifact \in [Models -> SUBSET ({Torn} \cup 1 .. runs)]
    /\ {validating, mixed, blown, broken} \subseteq BOOLEAN
    /\ timed \in 0 .. Iterations /\ exit \in {-1, 0, 1}

(* No sample's history joins two episodes. Only a physics that had to be   *)
(* reset in the middle of one leaves its past in the samples after.        *)
EpisodesApart == mixed => blown

(* The metadata is never newer than the samples it describes, wherever a   *)
(* collection was broken off; if none was, all three are of one collection.*)
CollectionWhole ==
    /\ \A f \in Files : file["metadata"] > 0 => file[f] = Torn \/ file[f] >= file["metadata"]
    /\ (prog # "save" /\ ~broken) => \A f, g \in Files : file[f] = file[g]

(* Exit code 0 stands for all iterations measured.                         *)
MeasuredInFull == exit = 0 => timed = Iterations

(* Types, the collection, and the benchmark's exit code.                   *)
Inv == TypeOK /\ EpisodesApart /\ CollectionWhole /\ MeasuredInFull

(* A manifest lists files that exist and are not older than it, wherever a *)
(* make was broken off, so that no file it lists is missing; without such  *)
(* a break all of them are of one make, and so are the samples of every    *)
(* converted model. A break may leave an old manifest over newer samples,  *)
(* or the first lines of a new one: no later program can tell.             *)
DatasetWhole ==
    \A m \in Models :
        /\ \A s \in Listed(m) : s = Torn \/ (s # None /\ s >= owner[m])
        /\ (~broken /\ prog # "make") => Listed(m) \subseteq {owner[m]}
        /\ ~broken => Cardinality(artifact[m]) <= 1
=============================================================================
