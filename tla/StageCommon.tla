----------------------------- MODULE StageCommon -----------------------------
(***************************************************************************)
(* Vocabulary shared by the adapters of the A1-A5 pipeline: the solver     *)
(* statuses of shared/sat/contracts.py, the versions an upstream file can  *)
(* be in when an adapter reads it, and the hash a run records.             *)
(***************************************************************************)
EXTENDS Integers

\* shared/sat/contracts.py, SolverStatus: the first three are what the
\* instrumented program can print, the last two are the adapter's own.
NativeStatus == {"SAT", "UNSAT", "UNKNOWN"}
SolverStatus == NativeStatus \cup {"TIMEOUT", "ERROR"}

NoStatus == "null"

\* What a read of an upstream file returns: the bytes whose SHA-256 the
\* adapter pins, other bytes, or FileNotFoundError.
FileVersion == {"pinned", "edited", "missing"}

\* An injective digest: two reads have equal digests iff they saw equal bytes.
Sha256(bytes) == [sha256 |-> bytes]
NoDigest == [sha256 |-> "null"]

\* What an enumeration of `truth` solutions may have counted by its end: all of
\* them if the solver found no other, at most all of them otherwise.
TrueCounts(terminal, truth) == IF terminal = "UNSAT" THEN {truth} ELSE 0 .. truth

Lesser(a, b) == IF a <= b THEN a ELSE b
Greater(a, b) == IF a >= b THEN a ELSE b
==============================================================================
