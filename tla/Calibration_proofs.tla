-------------------------- MODULE Calibration_proofs --------------------------
(***************************************************************************)
(* Machine-checked facts about Calibration, for every value of its         *)
(* constants: any counts, lengths of episode and history, and runs.        *)
(***************************************************************************)
EXTENDS Calibration, FiniteSetTheorems, TLAPS

-----------------------------------------------------------------------------
(* The inductive invariant. *)

Numbers == Counts \cup Synthetic
Single(S) == \E x : S \subseteq {x}

Types ==
    /\ runs \in 0 .. MaxRuns /\ (prog # "idle" => runs # 0)
    /\ prog \in {"idle", "collect", "save", "make", "convert", "bench"}
    /\ model \in Models /\ target \in Numbers \cup {0} /\ step \in Nat
    /\ epoch \in Nat /\ history \in Seq(SUBSET Nat) /\ Len(history) = HistoryLen
    /\ last \in SUBSET Nat
    /\ validating \in BOOLEAN /\ mixed \in BOOLEAN /\ blown \in BOOLEAN /\ broken \in BOOLEAN
    /\ file \in [Files -> {None, Torn} \cup 1 .. runs]
    /\ size \in [1 .. MaxRuns -> Counts \cup {0}]
    /\ sample \in [Models -> [Indices -> {None, Torn} \cup 1 .. runs]]
    /\ manifest \in [Models -> Lengths] /\ owner \in [Models -> 0 .. runs]
    /\ built \subseteq 1 .. runs
    /\ artifact \in [Models -> SUBSET ({Torn} \cup 1 .. runs)]
    /\ timed \in 0 .. Iterations /\ exit \in {-1, 0, 1}

(* Until the physics was reset, all that a collector remembers is of the   *)
(* episode that it is in.                                                  *)
EpochInv ==
    /\ mixed => blown
    /\ (prog = "collect" /\ ~blown) =>
          last \subseteq {epoch} /\ \A i \in 1 .. HistoryLen : history[i] \subseteq {epoch}

(* The files a collector has written so far, and how many samples each has.*)
FileInv ==
    /\ prog = "collect" => target \in Counts
    /\ prog = "save" => step \in 0 .. 5 /\ size[runs] \in Counts
    /\ \A f \in Files : file[f] > 0 => size[file[f]] \in Counts
    /\ CollectionWhole
    /\ prog = "save" =>
          /\ step \in {1} => file["encoder_inputs"] = Torn
          /\ step \in {2, 3, 4, 5} => file["encoder_inputs"] = runs
          /\ step \in {3} => file["decoder_inputs"] = Torn
          /\ step \in {4, 5} => file["decoder_inputs"] = runs

(* What the benchmark has timed.                                           *)
BenchInv ==
    /\ prog = "bench" =>
          /\ step <= Warmup + Iterations /\ exit = -1
          /\ timed = IF step < Warmup THEN 0 ELSE step - Warmup
    /\ MeasuredInFull

(* The samples that make has written so far are its own; a manifest lists  *)
(* files that exist and are not older; a model comes of a single make.     *)
DataInv ==
    /\ prog = "make" =>
          /\ target # 0 /\ step <= 2 * target + 1
          /\ \A i \in 0 .. target - 1 : 2 * i + 2 <= step => sample[model][i] = runs
    /\ \A m \in Models :
          /\ \A i \in 0 .. manifest[m] - 1 :
                sample[m][i] = Torn \/ (sample[m][i] # None /\ sample[m][i] >= owner[m])
          /\ (~broken /\ (prog # "make" \/ m # model)) =>
                \A i \in 0 .. manifest[m] - 1 : sample[m][i] = owner[m]
          /\ ~broken => Single(artifact[m])
    /\ ~broken => Single(built)

IInv == Types /\ EpochInv /\ FileInv /\ BenchInv /\ DataInv

-----------------------------------------------------------------------------
(* Lemmas about the data. *)

LEMMA NumberFacts ==
    /\ Numbers \subseteq Nat \ {0} /\ Counts \subseteq Numbers
    /\ EpisodeLength \in Nat \ {0} /\ HistoryLen \in Nat \ {0}
    /\ Warmup \in Nat /\ Iterations \in Nat \ {0} /\ MaxRuns \in Nat
    /\ \A t \in Numbers : 0 .. t - 1 \subseteq Indices /\ 0 .. t \subseteq Lengths
    /\ 0 \in Lengths /\ \A l \in Lengths : l \in Nat /\ 0 .. l - 1 \subseteq Indices
<1>1. /\ Numbers \subseteq Nat \ {0} /\ Counts \subseteq Numbers
      /\ EpisodeLength \in Nat \ {0} /\ HistoryLen \in Nat \ {0}
      /\ Warmup \in Nat /\ Iterations \in Nat \ {0} /\ MaxRuns \in Nat
  BY CalibrationAssumption DEF Numbers
<1>2. ASSUME NEW t \in Numbers PROVE 0 .. t - 1 \subseteq Indices
  BY <1>2 DEF Numbers, Indices
<1>3. ASSUME NEW t \in Numbers, NEW l \in 0 .. t PROVE l \in Lengths
  <2>1. l # 0 => l - 1 \in Indices
    BY <1>1, <1>2
  <2>2. QED
    BY <1>1, <2>1 DEF Lengths
<1>4. ASSUME NEW l \in Lengths PROVE l \in Nat /\ 0 .. l - 1 \subseteq Indices
  <2>1. CASE l = 0
    BY <2>1
  <2>2. CASE l # 0
    <3>1. PICK t \in Numbers : l - 1 \in 0 .. t - 1 /\ l \in Int
      BY <1>1, <2>2 DEF Lengths, Indices, Numbers
    <3>2. 0 .. l - 1 \subseteq 0 .. t - 1
      BY <1>1, <3>1
    <3>3. QED
      BY <1>2, <2>2, <3>1, <3>2
  <2>3. QED
    BY <2>1, <2>2
<1>5. 0 \in Lengths
  BY DEF Lengths
<1>6. QED
  BY <1>1, <1>2, <1>3, <1>4, <1>5

LEMMA SingleCardinality ==
  ASSUME NEW S, Single(S)
  PROVE  Cardinality(S) \in Nat /\ Cardinality(S) <= 1
<1>1. PICK x : S \subseteq {x}
  BY DEF Single
<1>2. CASE S = {}
  BY <1>2, FS_EmptySet
<1>3. CASE S # {}
  <2>1. S = {x}
    BY <1>1, <1>3
  <2>2. QED
    BY <2>1, FS_Singleton
<1>4. QED
  BY <1>2, <1>3

\* The history moves one place on.
LEMMA HistoryMoves ==
  ASSUME NEW h \in Seq(SUBSET Nat), Len(h) = HistoryLen, NEW e \in SUBSET Nat
  PROVE  /\ Append(Tail(h), e) \in Seq(SUBSET Nat) /\ Len(Append(Tail(h), e)) = HistoryLen
         /\ DOMAIN Append(Tail(h), e) = 1 .. HistoryLen
         /\ \A i \in 1 .. HistoryLen :
              Append(Tail(h), e)[i] = IF i = HistoryLen THEN e ELSE h[i + 1]
<1>1. HistoryLen \in Nat \ {0} /\ h # <<>>
  BY NumberFacts
<1>2. /\ Tail(h) \in Seq(SUBSET Nat) /\ Len(Tail(h)) = HistoryLen - 1
      /\ \A i \in 1 .. HistoryLen - 1 : Tail(h)[i] = h[i + 1]
  BY <1>1
<1>3. PICK t \in Seq(SUBSET Nat) : t = Tail(h)
  BY <1>2
<1>4. /\ Append(t, e) \in Seq(SUBSET Nat) /\ Len(Append(t, e)) = HistoryLen
      /\ \A i \in 1 .. HistoryLen : Append(t, e)[i] = IF i = HistoryLen THEN e ELSE t[i]
  BY <1>1, <1>2, <1>3
<1>5. QED
  BY <1>1, <1>2, <1>3, <1>4

LEMMA ZerosFacts ==
  /\ Zeros \in Seq(SUBSET Nat) /\ Len(Zeros) = HistoryLen
  /\ \A i \in 1 .. HistoryLen : Zeros[i] = {}
<1>1. Zeros \in [1 .. HistoryLen -> SUBSET Nat] /\ HistoryLen \in Nat
  BY NumberFacts DEF Zeros
<1>2. QED
  BY <1>1 DEF Zeros

\* Every write of a list truncates a file or fills it.
LEMMA WrittenFacts ==
  ASSUME NEW n \in Nat
  PROVE  \/ n = 2 * (n \div 2) /\ Written(n) = Torn
         \/ n = 2 * (n \div 2) + 1 /\ Written(n) = runs
BY DEF Written

-----------------------------------------------------------------------------
(* What a step leaves alone. *)

USE DEF program, collector, dataset, bench

LEMMA EpochKept ==
  ASSUME EpochInv, UNCHANGED collector, prog' = "collect" => prog = "collect"
  PROVE  EpochInv'
BY DEF EpochInv

LEMMA FileKept ==
  ASSUME FileInv, UNCHANGED <<file, size>>, prog' \notin {"collect", "save"},
         broken' \/ (prog # "save" /\ broken' = broken)
  PROVE  FileInv'
BY DEF FileInv, CollectionWhole

LEMMA BenchKept ==
  ASSUME BenchInv, UNCHANGED bench, prog' # "bench"
  PROVE  BenchInv'
BY DEF BenchInv, MeasuredInFull

LEMMA DataKept ==
  ASSUME DataInv, UNCHANGED <<dataset, built, artifact>>, prog' # "make",
         broken' \/ (prog # "make" /\ broken' = broken)
  PROVE  DataInv'
BY DEF DataInv

\* A program that starts is newer than all there were.
LEMMA RunStarts ==
  ASSUME Types, runs' = runs + 1, runs < MaxRuns,
         UNCHANGED <<file, size, dataset, artifact>>, built' = built
  PROVE  /\ runs' \in 0 .. MaxRuns /\ runs' # 0
         /\ file' \in [Files -> {None, Torn} \cup 1 .. runs']
         /\ size' \in [1 .. MaxRuns -> Counts \cup {0}]
         /\ sample' \in [Models -> [Indices -> {None, Torn} \cup 1 .. runs']]
         /\ manifest' \in [Models -> Lengths] /\ owner' \in [Models -> 0 .. runs']
         /\ built' \subseteq 1 .. runs'
         /\ artifact' \in [Models -> SUBSET ({Torn} \cup 1 .. runs')]
<1>1. runs \in Nat /\ runs' = runs + 1 /\ MaxRuns \in Nat
  BY NumberFacts DEF Types
<1>2. 1 .. runs \subseteq 1 .. runs' /\ 0 .. runs \subseteq 0 .. runs'
  BY <1>1
<1>3. sample' \in [Models -> [Indices -> {None, Torn} \cup 1 .. runs']]
  <2>1. \A m \in Models : sample[m] \in [Indices -> {None, Torn} \cup 1 .. runs']
    BY <1>2 DEF Types
  <2>2. QED
    BY <2>1 DEF Types
<1>4. /\ file' \in [Files -> {None, Torn} \cup 1 .. runs']
      /\ owner' \in [Models -> 0 .. runs'] /\ built' \subseteq 1 .. runs'
  BY <1>2 DEF Types
<1>5. artifact' \in [Models -> SUBSET ({Torn} \cup 1 .. runs')]
  BY <1>2 DEF Types
<1>6. QED
  BY <1>1, <1>3, <1>4, <1>5 DEF Types

-----------------------------------------------------------------------------
(* The collector. *)

LEMMA CollectStep ==
  ASSUME IInv, NEW count \in Counts, NEW only \in BOOLEAN, Collect(count, only)
  PROVE  IInv'
<1>1. /\ runs' = runs + 1 /\ runs < MaxRuns /\ prog = "idle" /\ prog' = "collect" /\ step' = 0
      /\ target' = count /\ validating' = only /\ epoch' = 1 /\ history' = Zeros /\ last' = {}
      /\ mixed' = FALSE /\ blown' = FALSE
      /\ UNCHANGED <<model, file, size, dataset, built, artifact, bench, broken>>
  BY DEF Collect, Started
<1>2. Types'
  <2>1. validating' \in BOOLEAN /\ mixed' \in BOOLEAN /\ blown' \in BOOLEAN
    BY <1>1, Zenon
  <2>2. Types /\ built' = built
    BY <1>1 DEF IInv
  <2>3. /\ runs' \in 0 .. MaxRuns /\ runs' # 0
        /\ file' \in [Files -> {None, Torn} \cup 1 .. runs']
        /\ size' \in [1 .. MaxRuns -> Counts \cup {0}]
        /\ sample' \in [Models -> [Indices -> {None, Torn} \cup 1 .. runs']]
        /\ manifest' \in [Models -> Lengths] /\ owner' \in [Models -> 0 .. runs']
        /\ built' \subseteq 1 .. runs'
        /\ artifact' \in [Models -> SUBSET ({Torn} \cup 1 .. runs')]
    BY <1>1, <2>2, RunStarts
  <2>4. QED
    BY <1>1, <2>1, <2>2, <2>3, ZerosFacts, NumberFacts DEF Types
<1>3. EpochInv'
  BY <1>1, ZerosFacts DEF EpochInv
<1>4. FileInv'
  BY <1>1 DEF IInv, FileInv, CollectionWhole
<1>5. BenchInv' /\ DataInv'
  BY <1>1, BenchKept, DataKept DEF IInv
<1>6. QED
  BY <1>2, <1>3, <1>4, <1>5 DEF IInv

\* An episode begins without a past.
LEMMA EpisodeFacts ==
  ASSUME IInv, prog = "collect"
  PROVE  /\ Episode.epoch \in Nat /\ Episode.history \in Seq(SUBSET Nat)
         /\ Len(Episode.history) = HistoryLen /\ Episode.last \in SUBSET Nat
         /\ ~blown => /\ Episode.last \subseteq {Episode.epoch}
                      /\ \A i \in 1 .. HistoryLen : Episode.history[i] \subseteq {Episode.epoch}
<1>1. CASE EpisodeEnds
  <2>1. Episode = [epoch |-> epoch + 1, history |-> Zeros, last |-> {}]
    BY <1>1 DEF Episode
  <2>2. QED
    BY <2>1, ZerosFacts DEF IInv, Types
<1>2. CASE ~EpisodeEnds
  <2>1. Episode = [epoch |-> epoch, history |-> history, last |-> last]
    BY <1>2 DEF Episode
  <2>2. QED
    BY <2>1 DEF IInv, Types, EpochInv
<1>3. QED
  BY <1>1, <1>2

LEMMA TakeSampleStep ==
  ASSUME IInv, TakeSample
  PROVE  IInv'
<1>1. PICK e : e = Episode
  OBVIOUS
<1>2. PICK entry, h : entry = {e.epoch} \cup e.last /\ h = Append(Tail(e.history), entry)
  OBVIOUS
<1>3. /\ prog = "collect" /\ step < target /\ step' = step + 1
      /\ history' = h /\ last' = {e.epoch}
      /\ mixed' = (mixed \/ Cardinality(UNION {h[i] : i \in DOMAIN h}) > 1)
      /\ \/ epoch' = e.epoch /\ UNCHANGED blown
         \/ epoch' = e.epoch + 1 /\ blown' = TRUE
      /\ UNCHANGED <<runs, prog, model, target, validating, file, size, dataset, built,
                     artifact, bench, broken>>
  BY <1>1, <1>2 DEF TakeSample
<1>4. /\ e.epoch \in Nat /\ e.history \in Seq(SUBSET Nat) /\ Len(e.history) = HistoryLen
      /\ e.last \in SUBSET Nat /\ entry \in SUBSET Nat
      /\ ~blown => /\ e.last \subseteq {e.epoch}
                   /\ \A i \in 1 .. HistoryLen : e.history[i] \subseteq {e.epoch}
  BY <1>1, <1>2, <1>3, EpisodeFacts
<1>5. /\ h \in Seq(SUBSET Nat) /\ Len(h) = HistoryLen /\ DOMAIN h = 1 .. HistoryLen
      /\ \A i \in 1 .. HistoryLen : h[i] = IF i = HistoryLen THEN entry ELSE e.history[i + 1]
  BY <1>2, <1>4, HistoryMoves
<1>6. ASSUME ~blown, NEW i \in 1 .. HistoryLen
      PROVE  h[i] \subseteq {e.epoch}
  <2>1. CASE i = HistoryLen
    BY <1>2, <1>4, <1>5, <1>6, <2>1
  <2>2. CASE i # HistoryLen
    <3>1. i + 1 \in 1 .. HistoryLen
      BY <2>2, NumberFacts
    <3>2. QED
      BY <1>4, <1>5, <1>6, <2>2, <3>1
  <2>3. QED
    BY <2>1, <2>2
<1>7. mixed' \in BOOLEAN /\ blown' \in BOOLEAN
  BY <1>3, Zenon DEF IInv, Types
<1>8. EpochInv'
  <2>1. CASE blown
    BY <1>3, <2>1 DEF EpochInv
  <2>2. CASE ~blown
    <3>1. PICK all : all = UNION {h[i] : i \in DOMAIN h}
      OBVIOUS
    <3>2. all \subseteq {e.epoch}
      BY <1>5, <1>6, <2>2, <3>1
    <3>3. Cardinality(all) \in Nat /\ Cardinality(all) <= 1
      BY <3>2, SingleCardinality DEF Single
    <3>4. ~mixed /\ ~(Cardinality(all) > 1)
      BY <2>2, <3>3 DEF IInv, EpochInv
    <3>5. mixed' = FALSE
      BY <1>3, <3>1, <3>4, Zenon
    <3>6. QED
      BY <1>3, <1>6, <2>2, <3>5 DEF EpochInv
  <2>3. QED
    BY <2>1, <2>2
<1>9. Types'
  BY <1>3, <1>4, <1>5, <1>7 DEF IInv, Types
<1>10. FileInv' /\ BenchInv' /\ DataInv'
  BY <1>3, BenchKept, DataKept DEF IInv, FileInv, CollectionWhole
<1>11. QED
  BY <1>8, <1>9, <1>10 DEF IInv

LEMMA LeaveCollectorStep ==
  ASSUME IInv, LeaveCollector
  PROVE  IInv'
<1>1. /\ prog = "collect" /\ prog' = "idle" /\ step' = 0 /\ target' = 0 /\ model' = "encoder"
      /\ epoch' = 0 /\ history' = Zeros /\ last' = {} /\ validating' = FALSE
      /\ mixed' = FALSE /\ blown' = FALSE
      /\ UNCHANGED <<runs, file, size, dataset, built, artifact, bench, broken>>
  BY DEF LeaveCollector, Ends
<1>2. Types'
  BY <1>1, ZerosFacts DEF IInv, Types, Models
<1>3. EpochInv'
  BY <1>1 DEF EpochInv
<1>4. FileInv' /\ BenchInv' /\ DataInv'
  BY <1>1, FileKept, BenchKept, DataKept DEF IInv
<1>5. QED
  BY <1>2, <1>3, <1>4 DEF IInv

LEMMA CollectedStep ==
  ASSUME IInv, Collected
  PROVE  IInv'
<1>1. /\ prog = "collect" /\ step = target /\ prog' = "save" /\ step' = 0
      /\ size' = [size EXCEPT ![runs] = target]
      /\ epoch' = 0 /\ history' = Zeros /\ last' = {} /\ mixed' = FALSE /\ blown' = FALSE
      /\ UNCHANGED <<runs, model, target, validating, file, dataset, built, artifact, bench, broken>>
  BY DEF Collected
<1>2. target \in Counts /\ runs \in 1 .. MaxRuns
  BY <1>1, NumberFacts DEF IInv, FileInv, Types
<1>3. size' \in [1 .. MaxRuns -> Counts \cup {0}] /\ size'[runs] \in Counts
      /\ \A r \in 1 .. MaxRuns : r # runs => size'[r] = size[r]
  BY <1>1, <1>2 DEF IInv, Types
<1>4. Types'
  BY <1>1, <1>2, <1>3, ZerosFacts DEF IInv, Types
<1>5. EpochInv'
  BY <1>1 DEF EpochInv
<1>6. FileInv'
  <2>1. ASSUME NEW f \in Files, file[f] > 0 PROVE size'[file[f]] \in Counts
    <3>1. file[f] \in 1 .. MaxRuns
      <4>1. file[f] \in {None, Torn} \cup 1 .. runs /\ runs \in 0 .. MaxRuns
        BY DEF IInv, Types
      <4>2. file[f] \in 1 .. runs
        BY <2>1, <4>1 DEF None, Torn
      <4>3. QED
        BY <4>1, <4>2, NumberFacts
    <3>2. size[file[f]] \in Counts
      BY <2>1 DEF IInv, FileInv
    <3>3. QED
      BY <1>3, <3>1, <3>2
  <2>2. CollectionWhole'
    BY <1>1 DEF IInv, FileInv, CollectionWhole
  <2>3. QED
    BY <1>1, <1>3, <2>1, <2>2 DEF FileInv
<1>7. BenchInv' /\ DataInv'
  BY <1>1, BenchKept, DataKept DEF IInv
<1>8. QED
  BY <1>4, <1>5, <1>6, <1>7 DEF IInv

\* The two sets of samples are saved before the metadata.
LEMMA SaveStep ==
  ASSUME IInv, Save
  PROVE  IInv'
<1>1. /\ prog = "save" /\ step \in 0 .. 5 /\ size[runs] \in Counts /\ runs \in Nat \ {0}
      /\ UNCHANGED <<runs, collector, size, dataset, built, artifact, bench, broken>>
  BY NumberFacts DEF Save, IInv, FileInv, Types
<1>2. \/ step = 5 /\ prog' = "idle" /\ step' = 0 /\ target' = 0 /\ model' = "encoder"
      \/ step # 5 /\ step' = step + 1 /\ UNCHANGED <<prog, target, model>>
  BY DEF Save, Ends
<1>3. file \in [Files -> {None, Torn} \cup 1 .. runs] /\ {None, Torn} \subseteq Int
      /\ {"encoder_inputs", "decoder_inputs", "metadata"} = Files
  BY DEF IInv, Types, None, Torn, Files
<1>4. /\ step \in {0, 1} => SaveOrder[step \div 2 + 1] = "encoder_inputs"
      /\ step \in {2, 3} => SaveOrder[step \div 2 + 1] = "decoder_inputs"
      /\ step \in {4, 5} => SaveOrder[step \div 2 + 1] = "metadata"
      /\ Written(step) = IF step \in {0, 2, 4} THEN Torn ELSE runs
  <2>1. /\ 0 \div 2 = 0 /\ 1 \div 2 = 0 /\ 2 \div 2 = 1 /\ 3 \div 2 = 1 /\ 4 \div 2 = 2 /\ 5 \div 2 = 2
        /\ 0 % 2 = 0 /\ 1 % 2 = 1 /\ 2 % 2 = 0 /\ 3 % 2 = 1 /\ 4 % 2 = 0 /\ 5 % 2 = 1
    OBVIOUS
  <2>2. step \in {0, 1, 2, 3, 4, 5}
    BY <1>1
  <2>3. QED
    BY <2>1, <2>2 DEF SaveOrder, Written
<1>5. /\ step \in {0, 1} => file' = [file EXCEPT !["encoder_inputs"] = Written(step)]
      /\ step \in {2, 3} => file' = [file EXCEPT !["decoder_inputs"] = Written(step)]
      /\ step \in {4, 5} => file' = [file EXCEPT !["metadata"] = Written(step)]
  BY <1>4 DEF Save
<1>6. Written(step) \in {Torn, runs} /\ Written(step) \in {None, Torn} \cup 1 .. runs
  BY <1>1, <1>4
<1>7. file' \in [Files -> {None, Torn} \cup 1 .. runs]
  BY <1>1, <1>3, <1>5, <1>6
<1>8. Types'
  BY <1>1, <1>2, <1>7 DEF IInv, Types, Models
<1>9. EpochInv' /\ BenchInv' /\ DataInv'
  BY <1>1, <1>2, EpochKept, BenchKept, DataKept DEF IInv
<1>10. FileInv'
  <2>1. ASSUME NEW f \in Files, file'[f] > 0 PROVE size'[file'[f]] \in Counts
    <3>1. file'[f] = runs \/ file'[f] = file[f]
      BY <1>1, <1>3, <1>5, <1>6, <2>1 DEF Torn
    <3>2. file[f] > 0 => size[file[f]] \in Counts
      BY DEF IInv, FileInv
    <3>3. QED
      BY <1>1, <2>1, <3>1, <3>2
  <2>2. /\ step \in {1} => file["encoder_inputs"] = Torn
        /\ step \in {2, 3, 4, 5} => file["encoder_inputs"] = runs
        /\ step \in {3} => file["decoder_inputs"] = Torn
        /\ step \in {4, 5} => file["decoder_inputs"] = runs
        /\ \A f \in Files : file["metadata"] > 0 => file[f] = Torn \/ file[f] >= file["metadata"]
    BY <1>1 DEF IInv, FileInv, CollectionWhole
  <2>3. /\ step' \in {1} /\ prog' = "save" => file'["encoder_inputs"] = Torn
        /\ step' \in {2, 3, 4, 5} /\ prog' = "save" => file'["encoder_inputs"] = runs
        /\ step' \in {3} /\ prog' = "save" => file'["decoder_inputs"] = Torn
        /\ step' \in {4, 5} /\ prog' = "save" => file'["decoder_inputs"] = runs
    BY <1>1, <1>2, <1>3, <1>4, <1>5, <2>2
  <2>4. ASSUME NEW f \in Files, file'["metadata"] > 0
        PROVE  file'[f] = Torn \/ file'[f] >= file'["metadata"]
    <3>1. CASE step \in {0, 1, 2, 3}
      <4>1. file'["metadata"] = file["metadata"] /\ file["metadata"] \in 1 .. runs
        BY <1>3, <1>5, <2>4, <3>1 DEF None, Torn
      <4>2. file'[f] = file[f] \/ file'[f] = Torn \/ file'[f] = runs
        BY <1>3, <1>5, <1>6, <3>1
      <4>3. file[f] = Torn \/ file[f] >= file["metadata"]
        BY <2>2, <4>1
      <4>4. QED
        BY <1>1, <4>1, <4>2, <4>3
    <3>2. CASE step = 4
      BY <1>1, <1>3, <1>4, <1>5, <2>4, <3>2 DEF Torn
    <3>3. CASE step = 5
      BY <1>1, <1>3, <1>4, <1>5, <2>2, <2>4, <3>3
    <3>4. QED
      BY <1>1, <3>1, <3>2, <3>3
  <2>5. ASSUME prog' # "save", NEW f \in Files, NEW g \in Files
        PROVE  file'[f] = file'[g]
    BY <1>1, <1>2, <1>3, <1>4, <1>5, <2>2, <2>5
  <2>6. CollectionWhole'
    BY <2>4, <2>5 DEF CollectionWhole
  <2>7. QED
    BY <1>1, <1>2, <2>1, <2>3, <2>6 DEF FileInv
<1>11. QED
  BY <1>8, <1>9, <1>10 DEF IInv

-----------------------------------------------------------------------------
(* The dataset and the converted model. *)

LEMMA NothingWritten ==
  ASSUME NEW t \in Nat \ {0}
  PROVE  0 <= 2 * t + 1 /\ \A i \in 0 .. t - 1 : ~(2 * i + 2 <= 0)
OBVIOUS

\* A program that only starts changes no file.
LEMMA StartStep ==
  ASSUME IInv, NEW what \in {"idle", "make", "convert", "bench"}, Started(what),
         target' \in Numbers \cup {0}, what = "make" => target' # 0, model' \in Models,
         UNCHANGED bench \/ (timed' = 0 /\ exit' = -1), what = "bench" => timed' = 0 /\ exit' = -1,
         UNCHANGED <<collector, file, size, dataset, built, artifact, broken>>
  PROVE  IInv'
<1>1. runs' = runs + 1 /\ runs < MaxRuns /\ prog = "idle" /\ prog' = what /\ step' = 0
  BY DEF Started
<1>2. Types /\ built' = built
  BY DEF IInv
<1>3. /\ runs' \in 0 .. MaxRuns /\ runs' # 0
      /\ file' \in [Files -> {None, Torn} \cup 1 .. runs']
      /\ size' \in [1 .. MaxRuns -> Counts \cup {0}]
      /\ sample' \in [Models -> [Indices -> {None, Torn} \cup 1 .. runs']]
      /\ manifest' \in [Models -> Lengths] /\ owner' \in [Models -> 0 .. runs']
      /\ built' \subseteq 1 .. runs'
      /\ artifact' \in [Models -> SUBSET ({Torn} \cup 1 .. runs')]
  BY <1>1, <1>2, RunStarts
<1>4. Types'
  <2>1. timed' \in 0 .. Iterations /\ exit' \in {-1, 0, 1}
    BY NumberFacts DEF IInv, Types
  <2>2. QED
    BY <1>1, <1>2, <1>3, <2>1 DEF Types
<1>5. EpochInv' /\ FileInv'
  BY <1>1, EpochKept, FileKept DEF IInv
<1>6. BenchInv'
  BY <1>1, NumberFacts DEF IInv, BenchInv, MeasuredInFull
<1>7. DataInv'
  <2>1. ASSUME what = "make"
        PROVE  /\ target' # 0 /\ step' <= 2 * target' + 1
               /\ \A i \in 0 .. target' - 1 : ~(2 * i + 2 <= step')
    <3>1. target' # 0
      BY <2>1
    <3>2. PICK t \in Nat \ {0} : t = target'
      BY <3>1, NumberFacts
    <3>3. 0 <= 2 * t + 1 /\ \A i \in 0 .. t - 1 : ~(2 * i + 2 <= 0)
      BY NothingWritten
    <3>4. QED
      BY <1>1, <3>1, <3>2, <3>3
  <2>2. QED
    BY <1>1, <2>1 DEF IInv, DataInv
<1>8. QED
  BY <1>4, <1>5, <1>6, <1>7 DEF IInv

LEMMA MakeCalibrationStep ==
  ASSUME IInv, NEW m \in Models, MakeCalibration(m)
  PROVE  IInv'
<1>1. UNCHANGED <<collector, file, size, dataset, built, artifact, bench, broken>>
  BY DEF MakeCalibration
<1>2. CASE Started("make") /\ target' \in Loadable(m) \cup Synthetic /\ model' = m
  <2>1. Loadable(m) \subseteq Counts
    <3>1. PICK f \in Files : f = IF m = "encoder" THEN "encoder_inputs" ELSE "decoder_inputs"
      BY DEF Files
    <3>2. Loadable(m) = IF file[f] \in {None, Torn} THEN {} ELSE {size[file[f]]}
      BY <3>1 DEF Loadable
    <3>3. file[f] \notin {None, Torn} => file[f] > 0
      BY DEF IInv, Types
    <3>4. QED
      BY <3>2, <3>3 DEF IInv, FileInv
  <2>2. target' \in Numbers /\ target' # 0
    BY <1>2, <2>1, NumberFacts DEF Numbers
  <2>3. QED
    BY <1>1, <1>2, <2>2, StartStep
<1>3. CASE Started("idle") /\ UNCHANGED <<target, model>>
  BY <1>1, <1>3, StartStep DEF IInv, Types
<1>4. QED
  BY <1>2, <1>3 DEF MakeCalibration

LEMMA ConvertStep ==
  ASSUME IInv, NEW m \in Models, Convert(m)
  PROVE  IInv'
<1>1. /\ Started("convert") /\ model' = m
      /\ UNCHANGED <<target, collector, file, size, dataset, built, artifact, bench, broken>>
  BY DEF Convert
<1>2. QED
  BY <1>1, StartStep DEF IInv, Types

LEMMA BenchmarkStep ==
  ASSUME IInv, Benchmark
  PROVE  IInv'
<1>1. /\ Started("bench") /\ timed' = 0 /\ exit' = -1
      /\ UNCHANGED <<model, target, collector, file, size, dataset, built, artifact, broken>>
  BY DEF Benchmark
<1>2. QED
  BY <1>1, StartStep DEF IInv, Types

\* What a manifest lists are names of files.
LEMMA ListedIndices ==
  ASSUME IInv, NEW m \in Models, NEW i \in 0 .. manifest[m] - 1
  PROVE  i \in Indices
<1>1. manifest[m] \in Lengths
  BY DEF IInv, Types
<1>2. QED
  BY <1>1, NumberFacts

\* The next sample file is torn, then whole; none that was written before is touched.
LEMMA WriteSampleStep ==
  ASSUME IInv, WriteSample
  PROVE  IInv'
<1>1. PICK k : k = step \div 2
  OBVIOUS
<1>2. /\ prog = "make" /\ step < 2 * target /\ step' = step + 1
      /\ sample' = [sample EXCEPT ![model][k] = Written(step)]
      /\ UNCHANGED <<runs, prog, model, target, collector, file, size, manifest, owner, built,
                     artifact, bench, broken>>
  BY <1>1 DEF WriteSample
<1>3. /\ step \in Nat /\ target \in Numbers /\ target \in Nat /\ runs \in Nat \ {0} /\ model \in Models
      /\ sample \in [Models -> [Indices -> {None, Torn} \cup 1 .. runs]]
  BY <1>2, NumberFacts DEF IInv, Types, DataInv
<1>4. /\ k \in 0 .. target - 1
      /\ \/ step = 2 * k /\ Written(step) = Torn
         \/ step = 2 * k + 1 /\ Written(step) = runs
  BY <1>1, <1>2, <1>3, WrittenFacts
<1>5. k \in Indices /\ Written(step) \in {None, Torn} \cup 1 .. runs
  BY <1>3, <1>4, NumberFacts
<1>6. PICK row : row = [sample[model] EXCEPT ![k] = Written(step)]
  OBVIOUS
<1>7. row \in [Indices -> {None, Torn} \cup 1 .. runs] /\ row[k] = Written(step)
      /\ \A i \in Indices \ {k} : row[i] = sample[model][i]
  BY <1>3, <1>5, <1>6
<1>8. sample' = [sample EXCEPT ![model] = row]
  BY <1>2, <1>6
<1>9. /\ sample' \in [Models -> [Indices -> {None, Torn} \cup 1 .. runs]]
      /\ sample'[model] = row /\ \A m \in Models \ {model} : sample'[m] = sample[m]
  BY <1>3, <1>7, <1>8
<1>10. Types'
  BY <1>2, <1>3, <1>9 DEF IInv, Types
<1>11. EpochInv' /\ FileInv' /\ BenchInv'
  BY <1>2, EpochKept, FileKept, BenchKept DEF IInv
<1>12. DataInv'
  <2>1. target # 0 /\ step' <= 2 * target + 1
    BY <1>2, <1>3 DEF IInv, DataInv
  <2>2. ASSUME NEW i \in 0 .. target - 1, 2 * i + 2 <= step'
        PROVE  sample'[model][i] = runs
    <3>1. CASE i = k
      BY <1>2, <1>4, <1>7, <1>9, <2>2, <3>1
    <3>2. CASE i # k
      <4>1. 2 * i + 2 <= step
        BY <1>2, <1>3, <1>4, <2>2, <3>2
      <4>2. sample[model][i] = runs
        BY <1>2, <4>1 DEF IInv, DataInv
      <4>3. i \in Indices
        BY <1>3, NumberFacts
      <4>4. QED
        BY <1>7, <1>9, <3>2, <4>2, <4>3
    <3>3. QED
      BY <3>1, <3>2
  <2>3. ASSUME NEW m \in Models, NEW i \in 0 .. manifest[m] - 1
        PROVE  sample'[m][i] = Torn \/ (sample'[m][i] # None /\ sample'[m][i] >= owner[m])
    <3>1. sample[m][i] = Torn \/ (sample[m][i] # None /\ sample[m][i] >= owner[m])
      BY DEF IInv, DataInv
    <3>2. owner[m] \in 0 .. runs /\ i \in Indices
      BY <2>3, ListedIndices DEF IInv, Types
    <3>3. sample'[m][i] \in {sample[m][i], Torn, runs}
      BY <1>4, <1>7, <1>9, <3>2
    <3>4. QED
      BY <1>3, <3>1, <3>2, <3>3 DEF None
  <2>4. \A m \in Models : m # model => sample'[m] = sample[m]
    BY <1>9
  <2>5. QED
    BY <1>2, <2>1, <2>2, <2>3, <2>4 DEF IInv, DataInv
<1>13. QED
  BY <1>10, <1>11, <1>12 DEF IInv

\* A manifest lists samples of its own make, however much of it was written.
LEMMA WriteManifestStep ==
  ASSUME IInv, WriteManifest
  PROVE  IInv'
<1>1. /\ prog = "make" /\ step >= 2 * target /\ owner' = [owner EXCEPT ![model] = runs]
      /\ UNCHANGED <<runs, collector, file, size, sample, built, artifact, bench, broken>>
  BY DEF WriteManifest
<1>2. /\ step \in Nat /\ target \in Numbers /\ target \in Nat /\ runs \in Nat \ {0} /\ model \in Models
      /\ step <= 2 * target + 1
  BY <1>1, NumberFacts DEF IInv, Types, DataInv
<1>3. PICK lines \in 0 .. target :
        /\ manifest' = [manifest EXCEPT ![model] = lines]
        /\ \/ prog' = "idle" /\ step' = 0 /\ target' = 0 /\ model' = "encoder"
           \/ step = 2 * target /\ step' = step + 1 /\ UNCHANGED <<prog, target, model>>
  BY <1>2 DEF WriteManifest, Ends
<1>4. /\ manifest' \in [Models -> Lengths] /\ owner' \in [Models -> 0 .. runs]
      /\ manifest'[model] = lines /\ owner'[model] = runs
      /\ \A m \in Models \ {model} : manifest'[m] = manifest[m] /\ owner'[m] = owner[m]
  <2>1. lines \in Lengths /\ runs \in 0 .. runs
    BY <1>2, NumberFacts
  <2>2. QED
    BY <1>1, <1>2, <1>3, <2>1 DEF IInv, Types
<1>5. Types'
  BY <1>1, <1>2, <1>3, <1>4 DEF IInv, Types, Models
<1>6. EpochInv' /\ FileInv' /\ BenchInv'
  BY <1>1, <1>3, EpochKept, FileKept, BenchKept DEF IInv
<1>7. DataInv'
  <2>1. \A i \in 0 .. target - 1 : sample[model][i] = runs
    BY <1>1, <1>2 DEF IInv, DataInv
  <2>2. \A i \in 0 .. lines - 1 : sample[model][i] = runs
    BY <1>2, <2>1
  <2>3. prog' = "make" => /\ target' # 0 /\ step' <= 2 * target' + 1
                          /\ \A i \in 0 .. target' - 1 : sample[model'][i] = runs
    BY <1>2, <1>3, <2>1, NumberFacts
  <2>4. \A m \in Models :
          /\ \A i \in 0 .. manifest'[m] - 1 :
                sample[m][i] = Torn \/ (sample[m][i] # None /\ sample[m][i] >= owner'[m])
          /\ ~broken => \A i \in 0 .. manifest'[m] - 1 : sample[m][i] = owner'[m]
    BY <1>1, <1>2, <1>4, <2>2 DEF IInv, DataInv, None
  <2>5. QED
    BY <1>1, <2>3, <2>4 DEF IInv, DataInv
<1>8. QED
  BY <1>5, <1>6, <1>7 DEF IInv

\* What was read for a model was written by a single make, if none was broken off.
LEMMA ListedFacts ==
  ASSUME IInv, NEW m \in Models
  PROVE  /\ Listed(m) \subseteq {None, Torn} \cup 1 .. runs
         /\ \A s \in Listed(m) : s = Torn \/ (s # None /\ s >= owner[m])
         /\ (~broken /\ prog # "make") => Listed(m) \subseteq {owner[m]}
<1>1. manifest[m] \in Lengths /\ sample[m] \in [Indices -> {None, Torn} \cup 1 .. runs]
  BY DEF IInv, Types
<1>2. \A i \in 0 .. manifest[m] - 1 : i \in Indices
  BY ListedIndices
<1>3. ASSUME NEW i \in 0 .. manifest[m] - 1
      PROVE  /\ sample[m][i] \in {None, Torn} \cup 1 .. runs
             /\ sample[m][i] = Torn \/ (sample[m][i] # None /\ sample[m][i] >= owner[m])
             /\ (~broken /\ prog # "make") => sample[m][i] = owner[m]
  BY <1>1, <1>2 DEF IInv, DataInv
<1>4. QED
  BY <1>3 DEF Listed

LEMMA BuildModelStep ==
  ASSUME IInv, BuildModel
  PROVE  IInv'
<1>1. /\ prog = "convert"
      /\ UNCHANGED <<runs, collector, file, size, dataset, artifact, bench, broken>>
      /\ prog' \in {"idle", "convert"} /\ step' \in {0, 1}
      /\ target' \in {target, 0} /\ model' \in {model, "encoder"}
  BY DEF BuildModel, Ends
<1>2. built' = built \/ (built' = Listed(model) /\ Listed(model) \cap {None, Torn} = {})
  BY DEF BuildModel
<1>3. built' \subseteq 1 .. runs /\ (~broken => Single(built'))
  <2>1. CASE built' = built
    BY <2>1 DEF IInv, Types, DataInv
  <2>2. CASE built' = Listed(model) /\ Listed(model) \cap {None, Torn} = {}
    <3>1. /\ Listed(model) \subseteq {None, Torn} \cup 1 .. runs
          /\ ~broken => Listed(model) \subseteq {owner[model]}
      BY <1>1, ListedFacts DEF IInv, Types
    <3>2. QED
      BY <2>2, <3>1 DEF Single
  <2>3. QED
    BY <1>2, <2>1, <2>2
<1>4. Types'
  BY <1>1, <1>3 DEF IInv, Types, Models
<1>5. EpochInv' /\ FileInv' /\ BenchInv'
  BY <1>1, EpochKept, FileKept, BenchKept DEF IInv
<1>6. DataInv'
  BY <1>1, <1>3 DEF IInv, DataInv
<1>7. QED
  BY <1>4, <1>5, <1>6 DEF IInv

LEMMA ExportModelStep ==
  ASSUME IInv, ExportModel
  PROVE  IInv'
<1>1. /\ prog = "convert"
      /\ UNCHANGED <<runs, collector, file, size, dataset, bench, broken>>
      /\ prog' \in {"idle", "convert"} /\ step' \in {0, 2}
      /\ target' \in {target, 0} /\ model' \in {model, "encoder"}
      /\ built' \in {built, {}}
  BY DEF ExportModel, Ends
<1>2. PICK a \in {{Torn}, built} : artifact' \in {artifact, [artifact EXCEPT ![model] = a]}
  BY DEF ExportModel
<1>3. /\ a \subseteq {Torn} \cup 1 .. runs /\ (~broken => Single(a))
      /\ built' \subseteq 1 .. runs /\ (~broken => Single(built'))
  BY <1>1 DEF IInv, Types, DataInv, Single
<1>4. /\ artifact' \in [Models -> SUBSET ({Torn} \cup 1 .. runs)]
      /\ \A m \in Models : artifact'[m] \in {artifact[m], a}
  BY <1>2, <1>3 DEF IInv, Types
<1>5. Types'
  BY <1>1, <1>3, <1>4 DEF IInv, Types, Models
<1>6. EpochInv' /\ FileInv' /\ BenchInv'
  BY <1>1, EpochKept, FileKept, BenchKept DEF IInv
<1>7. \A m \in Models : ~broken => Single(artifact'[m])
  BY <1>3, <1>4 DEF IInv, DataInv
<1>8. DataInv'
  BY <1>1, <1>3, <1>7 DEF IInv, DataInv
<1>9. QED
  BY <1>5, <1>6, <1>8 DEF IInv

-----------------------------------------------------------------------------
(* The benchmark, and a program that is broken off. *)

LEMMA FailStep ==
  ASSUME IInv, Fail
  PROVE  IInv'
<1>1. /\ prog = "bench" /\ prog' = "idle" /\ step' = 0 /\ target' = 0 /\ model' = "encoder"
      /\ exit' = 1
      /\ UNCHANGED <<runs, collector, file, size, dataset, built, artifact, timed, broken>>
  BY DEF Fail, Ends
<1>2. Types'
  BY <1>1 DEF IInv, Types, Models
<1>3. EpochInv' /\ FileInv' /\ DataInv'
  BY <1>1, EpochKept, FileKept, DataKept DEF IInv
<1>4. BenchInv'
  BY <1>1 DEF BenchInv, MeasuredInFull
<1>5. QED
  BY <1>2, <1>3, <1>4 DEF IInv

LEMMA InferStep ==
  ASSUME IInv, Infer
  PROVE  IInv'
<1>1. /\ prog = "bench" /\ step < Warmup + Iterations /\ step' = step + 1
      /\ timed' = IF step < Warmup THEN timed ELSE timed + 1
      /\ UNCHANGED <<runs, prog, model, target, collector, file, size, dataset, built, artifact,
                     exit, broken>>
  BY DEF Infer
<1>2. /\ exit = -1 /\ timed = IF step < Warmup THEN 0 ELSE step - Warmup
      /\ step \in Nat /\ Warmup \in Nat /\ Iterations \in Nat
  BY <1>1, NumberFacts DEF IInv, BenchInv, Types
<1>3. timed' = (IF step' < Warmup THEN 0 ELSE step' - Warmup) /\ timed' \in 0 .. Iterations
  BY <1>1, <1>2
<1>4. Types'
  BY <1>1, <1>2, <1>3 DEF IInv, Types
<1>5. EpochInv' /\ FileInv' /\ DataInv'
  BY <1>1, EpochKept, FileKept, DataKept DEF IInv
<1>6. BenchInv'
  BY <1>1, <1>2, <1>3 DEF BenchInv, MeasuredInFull
<1>7. QED
  BY <1>4, <1>5, <1>6 DEF IInv

LEMMA ReportStep ==
  ASSUME IInv, Report
  PROVE  IInv'
<1>1. /\ prog = "bench" /\ step = Warmup + Iterations
      /\ prog' = "idle" /\ step' = 0 /\ target' = 0 /\ model' = "encoder" /\ exit' = 0
      /\ UNCHANGED <<runs, collector, file, size, dataset, built, artifact, timed, broken>>
  BY DEF Report, Ends
<1>2. Types'
  BY <1>1 DEF IInv, Types, Models
<1>3. EpochInv' /\ FileInv' /\ DataInv'
  BY <1>1, EpochKept, FileKept, DataKept DEF IInv
<1>4. BenchInv'
  BY <1>1, NumberFacts DEF IInv, BenchInv, MeasuredInFull
<1>5. QED
  BY <1>2, <1>3, <1>4 DEF IInv

\* The files stay as they are, and nothing more is claimed of a single run.
LEMMA BreakOffStep ==
  ASSUME IInv, BreakOff
  PROVE  IInv'
<1>1. /\ prog \in {"save", "make"} /\ broken' = TRUE
      /\ prog' = "idle" /\ step' = 0 /\ target' = 0 /\ model' = "encoder"
      /\ UNCHANGED <<runs, collector, file, size, dataset, built, artifact, bench>>
  BY DEF BreakOff, Ends
<1>2. Types'
  BY <1>1 DEF IInv, Types, Models
<1>3. EpochInv' /\ FileInv' /\ BenchInv' /\ DataInv'
  BY <1>1, EpochKept, FileKept, BenchKept, DataKept DEF IInv
<1>4. QED
  BY <1>2, <1>3 DEF IInv

-----------------------------------------------------------------------------
(* The invariant, and what it gives. *)

LEMMA InitInv ==
  ASSUME Init
  PROVE  IInv
<1>1. Types
  <2>1. validating \in BOOLEAN /\ mixed \in BOOLEAN /\ blown \in BOOLEAN /\ broken \in BOOLEAN
    BY Zenon DEF Init
  <2>2. /\ file \in [Files -> {None, Torn} \cup 1 .. runs]
        /\ size \in [1 .. MaxRuns -> Counts \cup {0}]
        /\ manifest \in [Models -> Lengths]
    BY NumberFacts DEF Init
  <2>3. sample \in [Models -> [Indices -> {None, Torn} \cup 1 .. runs]]
    BY DEF Init
  <2>4. owner \in [Models -> 0 .. runs] /\ artifact \in [Models -> SUBSET ({Torn} \cup 1 .. runs)]
    BY DEF Init, None
  <2>5. history \in Seq(SUBSET Nat) /\ Len(history) = HistoryLen
    BY ZerosFacts DEF Init
  <2>6. QED
    BY <2>1, <2>2, <2>3, <2>4, <2>5, NumberFacts DEF Init, Types, Models
<1>2. EpochInv /\ FileInv /\ BenchInv
  <2>1. \A f \in Files : file[f] = 0
    BY DEF Init, None
  <2>2. CollectionWhole
    BY <2>1 DEF CollectionWhole, Files
  <2>3. QED
    BY <2>1, <2>2 DEF Init, EpochInv, FileInv, BenchInv, MeasuredInFull
<1>3. DataInv
  BY DEF Init, DataInv, Single
<1>4. QED
  BY <1>1, <1>2, <1>3 DEF IInv

LEMMA NextInv ==
  ASSUME IInv, [Next]_vars
  PROVE  IInv'
<1>1. CASE \E count \in Counts, only \in BOOLEAN : Collect(count, only)
  BY <1>1, CollectStep
<1>2. CASE TakeSample \/ LeaveCollector \/ Collected \/ Save
  BY <1>2, TakeSampleStep, LeaveCollectorStep, CollectedStep, SaveStep
<1>3. CASE \E m \in Models : MakeCalibration(m) \/ Convert(m)
  BY <1>3, MakeCalibrationStep, ConvertStep
<1>4. CASE WriteSample \/ WriteManifest \/ BuildModel \/ ExportModel
  BY <1>4, WriteSampleStep, WriteManifestStep, BuildModelStep, ExportModelStep
<1>5. CASE Benchmark \/ Infer \/ Report \/ Fail \/ BreakOff
  BY <1>5, BenchmarkStep, InferStep, ReportStep, FailStep, BreakOffStep
<1>6. CASE UNCHANGED vars
  BY <1>6 DEF vars, IInv, Types, EpochInv, FileInv, CollectionWhole, BenchInv, MeasuredInFull, DataInv
<1>7. QED
  BY <1>1, <1>2, <1>3, <1>4, <1>5, <1>6 DEF Next

LEMMA CalibrationInvariant == Spec => []IInv
<1>1. Init => IInv
  BY InitInv
<1>2. IInv /\ [Next]_vars => IInv'
  BY NextInv
<1>3. QED
  BY <1>1, <1>2, PTL DEF Spec

\* No sample's history joins two episodes unless the physics was reset, the metadata are never
\* newer than the samples they describe, and exit code 0 means that every iteration was timed.
THEOREM CollectionKept == Spec => []Inv
<1>1. IInv => TypeOK
  BY Zenon DEF IInv, Types, TypeOK, Numbers
<1>2. IInv => EpisodesApart /\ CollectionWhole /\ MeasuredInFull
  BY DEF IInv, EpochInv, FileInv, BenchInv, EpisodesApart
<1>3. IInv => Inv
  BY <1>1, <1>2 DEF Inv
<1>4. QED
  BY <1>3, CalibrationInvariant, PTL

\* A manifest lists files that exist and are not older than it; unless a program was broken off,
\* the files and the model that is made of them come from a single make.
THEOREM ModelsFromOneMake == Spec => []DatasetWhole
<1>1. ASSUME IInv, NEW m \in Models
      PROVE  /\ \A s \in Listed(m) : s = Torn \/ (s # None /\ s >= owner[m])
             /\ (~broken /\ prog # "make") => Listed(m) \subseteq {owner[m]}
             /\ ~broken => Cardinality(artifact[m]) <= 1
  <2>1. ~broken => Cardinality(artifact[m]) <= 1
    BY <1>1, SingleCardinality DEF IInv, DataInv
  <2>2. QED
    BY <1>1, <2>1, ListedFacts
<1>2. IInv => DatasetWhole
  BY <1>1 DEF DatasetWhole
<1>3. QED
  BY <1>2, CalibrationInvariant, PTL
=============================================================================
