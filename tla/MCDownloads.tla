------------------------------ MODULE MCDownloads ------------------------------
(***************************************************************************)
(* The checkpointed downloads for TLC: in each behaviour one scenario with *)
(* bounds of its own.  The scenarios share their variables; the ones of    *)
(* the parallel or of the serial download alone are not used by the other. *)
(* All of them fetch an object of five bytes in parts of two.              *)
(***************************************************************************)
EXTENDS Naturals

CONSTANT Scenarios

VARIABLES scenario,
          remote, file, safe, side, safeSide, pc, start, prog, got, holder, step, timers, kept, spent,
          orphan, phase, want, \* parallel
          next, streaming      \* serial

parallelVars == <<orphan, phase, want>>
serialVars == <<next, streaming>>
vars == <<scenario, remote, file, safe, side, safeSide, pc, start, prog, got, holder, step, timers,
          kept, spent, parallelVars, serialVars>>

\* A crash and a failing disk, over two runs.
Crashed == INSTANCE ParallelDownload WITH
  Total <- 5, Chunk <- 2, MaxGen <- 2, BatchParts <- 2, MaxBatches <- 16, TimerParts <- 4096,
  Window <- 2, Etags <- TRUE, Heads <- TRUE,
  MaxRuns <- 2, MaxRetries <- 0, MaxFaults <- 1, MaxCrashes <- 1, MaxTampers <- 0, MaxChanges <- 0

\* Another program changes or replaces the target, and the object changes too.
Tampered == INSTANCE ParallelDownload WITH
  Total <- 5, Chunk <- 2, MaxGen <- 2, BatchParts <- 2, MaxBatches <- 16, TimerParts <- 4096,
  Window <- 2, Etags <- TRUE, Heads <- TRUE,
  MaxRuns <- 2, MaxRetries <- 0, MaxFaults <- 0, MaxCrashes <- 0, MaxTampers <- 1, MaxChanges <- 1

\* HEAD gave no validator: the first response of a part binds the generation.
Latched == INSTANCE ParallelDownload WITH
  Total <- 5, Chunk <- 2, MaxGen <- 2, BatchParts <- 2, MaxBatches <- 16, TimerParts <- 4096,
  Window <- 2, Etags <- TRUE, Heads <- FALSE,
  MaxRuns <- 2, MaxRetries <- 1, MaxFaults <- 0, MaxCrashes <- 0, MaxTampers <- 0, MaxChanges <- 2

ASSUME Downloadable == Crashed!Constants /\ Tampered!Constants /\ Latched!Constants

\* The serial download: a crash, a failing disk and a new generation.
Serial == INSTANCE SerialDownload WITH
  Total <- 5, Chunk <- 2, MaxGen <- 2, BatchParts <- 2, MaxBatches <- 16, TimerParts <- 4096,
  MaxRuns <- 2, MaxRetries <- 1, MaxFaults <- 1, MaxCrashes <- 1, MaxTampers <- 0, MaxChanges <- 1

\* The serial download and another program.
SerialTampered == INSTANCE SerialDownload WITH
  Total <- 5, Chunk <- 2, MaxGen <- 2, BatchParts <- 2, MaxBatches <- 16, TimerParts <- 4096,
  MaxRuns <- 2, MaxRetries <- 1, MaxFaults <- 0, MaxCrashes <- 0, MaxTampers <- 1, MaxChanges <- 1

NoParallel == orphan = {} /\ phase = "none" /\ want = 0
NoSerial == next = 0 /\ streaming = FALSE

Init ==
  /\ scenario \in Scenarios
  /\ \/ scenario = "crashed" /\ Crashed!Init /\ NoSerial
     \/ scenario = "tampered" /\ Tampered!Init /\ NoSerial
     \/ scenario = "latched" /\ Latched!Init /\ NoSerial
     \/ scenario = "serial" /\ Serial!Init /\ NoParallel
     \/ scenario = "serial tampered" /\ SerialTampered!Init /\ NoParallel

CrashedStep == scenario = "crashed" /\ Crashed!Next /\ UNCHANGED <<scenario, serialVars>>
TamperedStep == scenario = "tampered" /\ Tampered!Next /\ UNCHANGED <<scenario, serialVars>>
LatchedStep == scenario = "latched" /\ Latched!Next /\ UNCHANGED <<scenario, serialVars>>
SerialStep == scenario = "serial" /\ Serial!Next /\ UNCHANGED <<scenario, parallelVars>>
SerialTamperedStep ==
  scenario = "serial tampered" /\ SerialTampered!Next /\ UNCHANGED <<scenario, parallelVars>>

Next == CrashedStep \/ TamperedStep \/ LatchedStep \/ SerialStep \/ SerialTamperedStep

Spec == Init /\ [][Next]_vars

-----------------------------------------------------------------------------
(* Properties                                                              *)

\* Whatever crashed, was retried, replaced or changed before, a download that
\* completes leaves the whole object at its path, all of it of one generation
\* (finalize_download_content, validate_committed_content).
CompletesWhole ==
  /\ scenario \in {"crashed", "tampered", "latched"} => Crashed!CompletesWhole
  /\ scenario \in {"serial", "serial tampered"} => Serial!CompletesWhole

\* Progress a run builds on is real: a bit in memory, or in the sidecar the run
\* publishes, is about bytes that a power loss cannot take, parts that are
\* skipped are of the generation the run is bound to, and before a serial
\* request the target ends exactly where the range begins
\* (commit_checkpoint_after_data_sync, load_or_create,
\* retain_serial_download_contiguous_progress).
ProgressIsReal ==
  /\ scenario = "crashed" => Crashed!DataBeforeBit /\ Crashed!TrustedIsCurrent
  /\ scenario = "tampered" => Tampered!DataBeforeBit /\ Tampered!TrustedIsCurrent
  /\ scenario = "latched" => Latched!DataBeforeBit /\ Latched!TrustedIsCurrent
  /\ scenario = "serial" => Serial!PrefixLayout

\* A checkpoint once reported done is found again by the next run of the same
\* generation, whatever crash came between (persist_snapshot_atomic).
KeptSurvives ==
  /\ scenario \in {"crashed", "tampered", "latched"} => Crashed!KeptSurvives
  /\ scenario = "serial" => Serial!KeptSurvives

=============================================================================
