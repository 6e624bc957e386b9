------------------------- MODULE BaselineScriptsProofs -------------------------
(***************************************************************************)
(* Proofs about BaselineScripts for any number of processes, any scripts,  *)
(* requests and printed rounds, and any width, number of rounds and bit    *)
(* permutation of the cipher: types, what becomes of the model files that  *)
(* B5 runs share, that every process makes one controlled run, that the    *)
(* verdict on a trail is exact, and that a passing check is earned.        *)
(***************************************************************************)
EXTENDS BaselineScripts, FiniteSetTheorems, TLAPS

Labels == {"caller", "prepare", "compile", "solve", "persist", "write"}

\* What each variable holds for the processes.
Shapes ==
  /\ pc \in [Process -> Labels]
  /\ script \in [Process -> {"none", "b5", "b6"}]
  /\ request \in [Process -> Requests]
  /\ expectation \in [Process -> Expectations]
  /\ source \in [Process -> FileVersion]
  /\ trail = [p \in Process |-> trail[p]]
  /\ returned = [p \in Process |-> returned[p]]
  /\ exit_code \in [Process -> {NoExit, 0, 1, 2}]

SatReturned(p) == returned[p].result.status = "SAT"

\* A process is a script while it works; it has a record from decoding on and an
\* outcome from its return on, and a SAT outcome is about this record.
LocalInvOf(p) ==
  /\ pc[p] # "caller" => returned[p].outcome = "none" /\ script[p] \in {"b5", "b6"}
  /\ pc[p] = "caller" /\ returned[p].outcome = "none" => trail[p] = NoRecord
  /\ pc[p] \in {"prepare", "compile", "solve"} => trail[p] = NoRecord
  /\ pc[p] \in {"persist", "write"} => trail[p] # NoRecord
  /\ trail[p] = [cipher |-> trail[p].cipher, rounds |-> trail[p].rounds]
  /\ trail[p] # NoRecord => request[p].contract.cipher # "GIFT-64 other rounds"
  /\ SatReturned(p) =>
       /\ returned[p].outcome = "returned" /\ trail[p] # NoRecord
       /\ returned[p].trail = trail[p] /\ returned[p].result.model = Sha256(trail[p])

LocalInv == \A p \in Process : LocalInvOf(p)

\* A run whose reference may be printed.
Published(p) == script[p] = "b5" /\ pc[p] = "caller" /\ SatReturned(p)

\* What else may be in the file that p wrote: q found the same states, and is
\* writing, ended in its write, or recorded another cipher with them.
Shadows(q, p) ==
  /\ script[q] = "b5" /\ trail[q] # NoRecord /\ trail[q].rounds = trail[p].rounds
  /\ \/ pc[q] = "write"
     \/ /\ pc[q] = "caller" /\ returned[q].outcome # "none"
        /\ \/ returned[q].outcome = "returned" /\ returned[q].result.status = "ERROR"
           \/ trail[q].cipher # trail[p].cipher

ModelInv ==
  /\ \A n \in DOMAIN models : \E q \in Process : trail[q] # NoRecord /\ trail[q].rounds = n
  /\ \A p \in Process : Published(p) =>
       /\ trail[p].rounds \in DOMAIN models
       /\ \/ models[trail[p].rounds] = Sha256(trail[p])
          \/ \E q \in Process \ {p} : Shadows(q, p)

IInv == Shapes /\ LocalInv /\ ModelInv

------------------------------------------------------------------------------
(* What a step does to the process that takes it *)

\* The other processes are as they were.
Frame(p) ==
  \A q \in Process \ {p} :
    /\ pc'[q] = pc[q] /\ script'[q] = script[q] /\ request'[q] = request[q]
    /\ trail'[q] = trail[q] /\ returned'[q] = returned[q]

Stays(p) == script'[p] = script[p] /\ request'[p] = request[p]

\* It starts, or takes up its request.
Starts(p) ==
  /\ pc[p] = "caller" /\ returned[p].outcome = "none" /\ pc'[p] = "prepare"
  /\ script'[p] \in {"b5", "b6"}
  /\ trail'[p] = trail[p] /\ returned'[p] = returned[p] /\ models' = models

Proceeds(p) ==
  /\ pc[p] \in {"prepare", "compile"} /\ pc'[p] \in {"compile", "solve"}
  /\ Stays(p) /\ trail'[p] = trail[p] /\ returned'[p] = returned[p] /\ models' = models

\* It returns or raises without a model; out of the write only with an ERROR.
EndsPlainly(p) ==
  /\ pc[p] # "caller" /\ pc'[p] = "caller"
  /\ Stays(p) /\ trail'[p] = trail[p] /\ models' = models
  /\ returned'[p].outcome # "none"
  /\ returned'[p].result.status # "SAT"
  /\ pc[p] = "write" =>
       returned'[p].outcome = "returned" /\ returned'[p].result.status = "ERROR"

Decodes(p) ==
  /\ pc[p] = "solve" /\ pc'[p] = "persist"
  /\ request[p].contract.cipher # "GIFT-64 other rounds"
  /\ trail'[p] # NoRecord
  /\ trail'[p] = [cipher |-> trail'[p].cipher, rounds |-> trail'[p].rounds]
  /\ Stays(p) /\ returned'[p] = returned[p] /\ models' = models

\* The shared file, after a process has put `content` into the one of its states.
FileHolds(p, content) ==
  IF script[p] = "b6" THEN models' = models
  ELSE /\ DOMAIN models' = DOMAIN models \cup {trail[p].rounds}
       /\ models'[trail[p].rounds] = content
       /\ \A n \in DOMAIN models \ {trail[p].rounds} : models'[n] = models[n]

Opens(p) ==
  /\ pc[p] = "persist" /\ pc'[p] = "write"
  /\ FileHolds(p, Truncated)
  /\ Stays(p) /\ trail'[p] = trail[p] /\ returned'[p] = returned[p]

Writes(p) ==
  /\ pc[p] = "write" /\ pc'[p] = "caller"
  /\ FileHolds(p, Sha256(trail[p]))
  /\ Stays(p) /\ trail'[p] = trail[p]
  /\ returned'[p].outcome # "none"
  /\ SatReturned(p)' =>
       /\ returned'[p].outcome = "returned"
       /\ returned'[p].trail = trail[p] /\ returned'[p].result.model = Sha256(trail[p])

\* Only exit codes change.
Exits ==
  /\ UNCHANGED <<pc, script, request, expectation, source, trail, returned, models>>
  /\ exit_code' \in [Process -> {NoExit, 0, 1, 2}]

Effect(p) ==
  \/ Frame(p) /\ \/ Starts(p) \/ Proceeds(p) \/ EndsPlainly(p)
                 \/ Decodes(p) \/ Opens(p) \/ Writes(p)
  \/ Exits

LEMMA PlainIsNotSat ==
  ASSUME NEW status PROVE PlainResult(status).status = status
BY DEF PlainResult

LEMMA ErrorIsValid == ValidResult(PlainResult("ERROR"))
BY DEF ValidResult, PlainResult

LEMMA FileWritten ==
  ASSUME NEW p \in Process, NEW content, SharedFile(p, content)
  PROVE  FileHolds(p, content)
BY DEF SharedFile, FileHolds, ModelName

\* Returning a result, in terms of the process.
LEMMA Returning ==
  ASSUME Shapes, NEW p \in Process, NEW result, NEW record, Return(p, result, record)
  PROVE  /\ Frame(p) /\ Stays(p) /\ trail'[p] = trail[p] /\ pc'[p] = "caller" /\ Shapes'
         /\ returned'[p] = IF ValidResult(result) THEN Outcome("returned", result, record) ELSE Raised
<1>1. /\ returned' = [returned EXCEPT ![p] =
                        IF ValidResult(result) THEN Outcome("returned", result, record) ELSE Raised]
      /\ pc' = [pc EXCEPT ![p] = "caller"]
      /\ UNCHANGED <<script, request, expectation, source, trail, exit_code>>
  BY DEF Return, Goto
<1> QED BY <1>1 DEF Shapes, Frame, Stays, Labels

LEMMA Failing ==
  ASSUME Shapes, NEW p \in Process, pc[p] # "caller", NEW status \in SolverStatus \ {"SAT"},
         Fail(p, status), pc[p] = "write" => status = "ERROR"
  PROVE  Frame(p) /\ EndsPlainly(p) /\ Shapes'
<1>1. Return(p, PlainResult(status), NoRecord) /\ models' = models
  BY DEF Fail
<1>2. PlainResult(status).status = status /\ ValidResult(PlainResult("ERROR"))
  BY PlainIsNotSat, ErrorIsValid
<1>3. /\ returned'[p].outcome \in {"returned", "raised"}
      /\ returned'[p].result.status # "SAT"
      /\ returned'[p].outcome = "returned" => returned'[p].result.status = status
      /\ status = "ERROR" => returned'[p].outcome = "returned"
  <2>1. \/ returned'[p] = Outcome("returned", PlainResult(status), NoRecord)
        \/ status # "ERROR" /\ returned'[p] = Raised
    BY <1>1, <1>2, Returning
  <2>2. CASE returned'[p] = Outcome("returned", PlainResult(status), NoRecord)
    BY <1>2, <2>2 DEF Outcome
  <2>3. CASE status # "ERROR" /\ returned'[p] = Raised
    BY <1>2, <2>3, PlainIsNotSat DEF Raised, Outcome
  <2> QED BY <2>1, <2>2, <2>3
<1> QED BY <1>1, <1>3, Returning DEF EndsPlainly

LEMMA Raising ==
  ASSUME Shapes, NEW p \in Process, pc[p] # "caller", pc[p] # "write", Raise(p)
  PROVE  Frame(p) /\ EndsPlainly(p) /\ Shapes'
<1>1. /\ returned' = [returned EXCEPT ![p] = Raised]
      /\ pc' = [pc EXCEPT ![p] = "caller"]
      /\ UNCHANGED <<script, request, expectation, source, trail, exit_code, models>>
  BY DEF Raise, Goto
<1> QED BY <1>1, PlainIsNotSat DEF Shapes, Frame, Stays, EndsPlainly, Labels, Raised, Outcome

\* A process moves on with nothing but its label changed.
LEMMA Moving ==
  ASSUME Shapes, NEW p \in Process, NEW label \in Labels,
         Goto(p, label), UNCHANGED <<local, exit_code>>
  PROVE  /\ Frame(p) /\ Stays(p) /\ pc'[p] = label /\ Shapes'
         /\ trail'[p] = trail[p] /\ returned'[p] = returned[p]
<1>1. /\ pc' = [pc EXCEPT ![p] = label]
      /\ UNCHANGED <<script, request, expectation, source, trail, returned, exit_code>>
  BY DEF Goto, local
<1> QED BY <1>1 DEF Shapes, Frame, Stays

LEMMA Exiting ==
  ASSUME Shapes, NEW p \in Process, NEW code \in {0, 1, 2}, Exit(p, code)
  PROVE  Exits /\ Shapes'
BY DEF Shapes, Exit, Exits, local

\* Every step of a process has one of the effects above.
LEMMA StepHasEffect ==
  ASSUME IInv, NEW p \in Process, Step(p) PROVE Effect(p) /\ Shapes'
<1>1. Shapes /\ LocalInvOf(p)
  BY DEF IInv, LocalInv
<1>2. CASE Start(p)
  <2>1. PICK s \in Scripts[p], r \in Requests, e \in Expectations :
          /\ script' = [script EXCEPT ![p] = s]
          /\ request' = [request EXCEPT ![p] = r]
          /\ expectation' = [expectation EXCEPT ![p] = e]
    BY <1>2 DEF Start
  <2>2. s \in {"b5", "b6"}
    BY ScriptsAssumption
  <2>3. /\ pc' = [pc EXCEPT ![p] = "prepare"] /\ pc[p] = "caller" /\ returned[p].outcome = "none"
        /\ source' \in [Process -> FileVersion]
        /\ UNCHANGED <<trail, returned, exit_code, models>>
    BY <1>1, <1>2 DEF Start, Goto, NotStarted, At, Shapes
  <2>4. Frame(p) /\ Starts(p)
    BY <1>1, <2>1, <2>2, <2>3 DEF Shapes, Frame, Starts
  <2>5. Shapes'
    BY <1>1, <2>1, <2>2, <2>3 DEF Shapes, Labels
  <2> QED BY <2>4, <2>5 DEF Effect
<1>3. CASE StartFails(p) \/ Finish(p) \/ RunRaised(p)
  <2>1. \E code \in {0, 1, 2} : Exit(p, code)
    BY <1>3 DEF StartFails, Finish, RunRaised
  <2> QED BY <1>1, <2>1, Exiting DEF Effect
<1>4. CASE Prepare(p) \/ Compile(p)
  <2>1. pc[p] \in {"prepare", "compile"}
    BY <1>4 DEF Prepare, Compile, At
  <2>2. \/ \E label \in {"compile", "solve"} :
             Goto(p, label) /\ UNCHANGED <<local, exit_code, models>>
        \/ Fail(p, "ERROR") \/ Raise(p)
    BY <1>4 DEF Prepare, Compile
  <2>3. ASSUME NEW label \in {"compile", "solve"}, Goto(p, label), UNCHANGED <<local, exit_code, models>>
        PROVE  Frame(p) /\ Proceeds(p) /\ Shapes'
    BY <1>1, <2>1, <2>3, Moving DEF Proceeds, Labels
  <2> QED BY <1>1, <2>1, <2>2, <2>3, Failing, Raising DEF Effect, SolverStatus, NativeStatus
<1>5. CASE SolveWithoutModel(p)
  <2>1. /\ pc[p] = "solve"
        /\ (\E status \in {"UNSAT", "UNKNOWN", "TIMEOUT", "ERROR"} : Fail(p, status)) \/ Raise(p)
    BY <1>5 DEF SolveWithoutModel, At
  <2> QED BY <1>1, <2>1, Failing, Raising DEF Effect, SolverStatus, NativeStatus
<1>6. CASE Decode(p)
  <2>1. PICK rounds \in Printed[p] : trail' = [trail EXCEPT ![p] = Decoded(p, rounds)]
    BY <1>6 DEF Decode
  <2>2. /\ pc[p] = "solve" /\ pc' = [pc EXCEPT ![p] = "persist"]
        /\ request[p].contract.cipher # "GIFT-64 other rounds"
        /\ UNCHANGED <<script, request, expectation, source, returned, exit_code, models>>
    BY <1>6 DEF Decode, At, Goto
  <2>3. trail'[p] = Decoded(p, rounds) /\ \A q \in Process \ {p} : trail'[q] = trail[q]
    BY <1>1, <2>1 DEF Shapes
  <2>4. /\ Decoded(p, rounds) # NoRecord
        /\ Decoded(p, rounds) = [cipher |-> Decoded(p, rounds).cipher,
                                 rounds |-> Decoded(p, rounds).rounds]
    BY DEF Decoded, NoRecord
  <2>5. Frame(p) /\ Decodes(p)
    BY <1>1, <2>2, <2>3, <2>4 DEF Shapes, Frame, Decodes, Stays
  <2>6. Shapes'
    BY <1>1, <2>1, <2>2 DEF Shapes, Labels
  <2> QED BY <2>5, <2>6 DEF Effect
<1>7. CASE OpenModel(p)
  <2>1. /\ pc[p] = "persist" /\ SharedFile(p, Truncated)
        /\ Goto(p, "write") /\ UNCHANGED <<local, exit_code>>
    BY <1>7 DEF OpenModel, At
  <2> QED BY <1>1, <2>1, FileWritten, Moving DEF Effect, Opens, Labels
<1>8. CASE WriteModel(p)
  <2>1. /\ pc[p] = "write" /\ SharedFile(p, Sha256(trail[p]))
        /\ Return(p, SatResult(p), trail[p])
    BY <1>8 DEF WriteModel, At
  <2>2. SatResult(p).model = Sha256(trail[p])
    BY DEF SatResult
  <2>3. /\ returned'[p].outcome # "none"
        /\ SatReturned(p)' =>
             /\ returned'[p].outcome = "returned"
             /\ returned'[p].trail = trail[p] /\ returned'[p].result.model = Sha256(trail[p])
    <3>1. \/ returned'[p] = Outcome("returned", SatResult(p), trail[p])
          \/ returned'[p] = Raised
      BY <1>1, <2>1, Returning
    <3>2. CASE returned'[p] = Outcome("returned", SatResult(p), trail[p])
      BY <2>2, <3>2 DEF Outcome
    <3>3. CASE returned'[p] = Raised
      BY <3>3, PlainIsNotSat DEF Raised, Outcome, SatReturned
    <3> QED BY <3>1, <3>2, <3>3
  <2> QED BY <1>1, <2>1, <2>3, FileWritten, Returning DEF Effect, Writes
<1>9. CASE PersistFails(p)
  <2>1. pc[p] \in {"persist", "write"} /\ Fail(p, "ERROR")
    BY <1>9 DEF PersistFails, At
  <2> QED BY <1>1, <2>1, Failing DEF Effect, SolverStatus, NativeStatus
<1> QED BY <1>2, <1>3, <1>4, <1>5, <1>6, <1>7, <1>8, <1>9 DEF Step

------------------------------------------------------------------------------
(* The invariant is inductive *)

LEMMA LocalKept ==
  ASSUME IInv, NEW p \in Process, Effect(p), NEW q \in Process PROVE LocalInvOf(q)'
<1> USE DEF LocalInvOf
<1>1. LocalInvOf(q) /\ LocalInvOf(p)
  BY DEF IInv, LocalInv
<1>2. CASE Exits
  BY <1>1, <1>2 DEF Exits, SatReturned
<1>3. CASE Frame(p) /\ q # p
  BY <1>1, <1>3 DEF Frame, SatReturned
<1>4. CASE q = p /\ (Starts(p) \/ Proceeds(p))
  BY <1>1, <1>4 DEF Starts, Proceeds, Stays, SatReturned
<1>5. CASE q = p /\ EndsPlainly(p)
  BY <1>1, <1>5 DEF EndsPlainly, Stays, SatReturned
<1>6. CASE q = p /\ Decodes(p)
  BY <1>1, <1>6 DEF Decodes, Stays, SatReturned
<1>7. CASE q = p /\ Opens(p)
  BY <1>1, <1>7 DEF Opens, Stays, SatReturned
<1>8. CASE q = p /\ Writes(p)
  BY <1>1, <1>8 DEF Writes, Stays, SatReturned
<1> QED BY <1>2, <1>3, <1>4, <1>5, <1>6, <1>7, <1>8 DEF Effect

\* A record that is there stays, and so does what shadows a published model.
LEMMA RecordsStay ==
  ASSUME IInv, NEW p \in Process, Effect(p), NEW q \in Process, trail[q] # NoRecord
  PROVE  trail'[q] = trail[q]
<1>1. LocalInvOf(q)
  BY DEF IInv, LocalInv
<1>2. CASE q = p
  BY <1>1, <1>2 DEF Effect, Exits, Starts, Proceeds, EndsPlainly, Decodes, Opens, Writes, LocalInvOf
<1>3. CASE q # p
  BY <1>3 DEF Effect, Exits, Frame
<1> QED BY <1>2, <1>3

\* A file of another name, or of a B6 check, is none of the shared ones.
LEMMA FileKept ==
  ASSUME NEW p, NEW content, FileHolds(p, content), NEW n \in DOMAIN models,
         script[p] = "b6" \/ n # trail[p].rounds
  PROVE  n \in DOMAIN models' /\ models'[n] = models[n]
BY DEF FileHolds

LEMMA PublishedBefore ==
  ASSUME IInv, NEW p \in Process, Effect(p), NEW r \in Process, Published(r)',
         ~(r = p /\ Writes(p))
  PROVE  Published(r) /\ trail'[r] = trail[r] /\ (r = p => Exits)
<1>1. LocalInvOf(r)
  BY DEF IInv, LocalInv
<1>2. CASE Exits
  BY <1>2 DEF Exits, Published, SatReturned
<1>3. CASE Frame(p) /\ r # p
  BY <1>3 DEF Frame, Published, SatReturned
<1>4. CASE r = p /\ Frame(p) /\ (Starts(p) \/ Proceeds(p) \/ EndsPlainly(p) \/ Decodes(p) \/ Opens(p))
  <2>1. ~Published(r)'
    BY <1>4 DEF Starts, Proceeds, EndsPlainly, Decodes, Opens, Published, SatReturned
  <2> QED BY <2>1
<1> QED BY <1>2, <1>3, <1>4 DEF Effect

\* A published model whose file another step leaves alone keeps what it had.
LEMMA ShadowKept ==
  ASSUME IInv, NEW p \in Process, Effect(p),
         NEW r \in Process, trail[r] # NoRecord,
         NEW q \in Process \ {r}, Shadows(q, r), ~(q = p /\ Writes(p))
  PROVE  Shadows(q, r)'
<1>1. trail'[r] = trail[r] /\ trail'[q] = trail[q]
  BY RecordsStay DEF Shadows
<1>2. CASE Exits
  BY <1>1, <1>2 DEF Exits, Shadows
<1>3. CASE Frame(p) /\ q # p
  BY <1>1, <1>3 DEF Frame, Shadows
<1>4. CASE q = p /\ (Starts(p) \/ Proceeds(p) \/ Decodes(p) \/ Opens(p))
  BY <1>4 DEF Shadows, Starts, Proceeds, Decodes, Opens
<1>5. CASE q = p /\ EndsPlainly(p)
  <2>1. pc[q] = "write"
    BY <1>5 DEF EndsPlainly, Shadows
  <2> QED BY <1>1, <1>5, <2>1 DEF EndsPlainly, Stays, Shadows
<1> QED BY <1>2, <1>3, <1>4, <1>5 DEF Effect

\* p writes to the file of the states that r found.
WritesTo(p, r) ==
  script[p] # "b6" /\ trail[p].rounds = trail[r].rounds /\ (Opens(p) \/ Writes(p))

LEMMA FileOfOthersKept ==
  ASSUME IInv, NEW p \in Process, Effect(p), NEW r \in Process, ~WritesTo(p, r),
         trail[r].rounds \in DOMAIN models
  PROVE  /\ trail[r].rounds \in DOMAIN models'
         /\ models'[trail[r].rounds] = models[trail[r].rounds]
<1>1. CASE Exits \/ Starts(p) \/ Proceeds(p) \/ EndsPlainly(p) \/ Decodes(p)
  BY <1>1 DEF Exits, Starts, Proceeds, EndsPlainly, Decodes
<1>2. CASE Opens(p) \/ Writes(p)
  <2>1. script[p] = "b6" \/ trail[r].rounds # trail[p].rounds
    BY <1>2 DEF WritesTo
  <2>2. FileHolds(p, Truncated) \/ FileHolds(p, Sha256(trail[p]))
    BY <1>2 DEF Opens, Writes
  <2> QED BY <2>1, <2>2, FileKept
<1> QED BY <1>1, <1>2 DEF Effect

\* The file of a published model after any step.
LEMMA ModelOfPublished ==
  ASSUME IInv, NEW p \in Process, Effect(p), NEW r \in Process, Published(r)'
  PROVE  /\ trail'[r].rounds \in DOMAIN models'
         /\ \/ models'[trail'[r].rounds] = Sha256(trail'[r])
            \/ \E q \in Process \ {r} : Shadows(q, r)'
<1>1. CASE r = p /\ Writes(p)
  <2>1. trail'[p] = trail[p] /\ script'[p] = script[p] /\ FileHolds(p, Sha256(trail[p]))
    BY <1>1 DEF Writes, Stays
  <2>2. script'[r] = "b5"
    BY DEF Published
  <2> QED BY <1>1, <2>1, <2>2 DEF FileHolds
<1>2. CASE ~(r = p /\ Writes(p))
  <2>1. Published(r) /\ trail'[r] = trail[r] /\ (r = p => Exits)
    BY <1>2, PublishedBefore
  <2>2. /\ trail[r].rounds \in DOMAIN models
        /\ models[trail[r].rounds] = Sha256(trail[r]) \/ \E q \in Process \ {r} : Shadows(q, r)
    BY <2>1 DEF IInv, ModelInv
  <2>3. trail[r] # NoRecord
    BY <2>1 DEF IInv, LocalInv, LocalInvOf, Published
  <2>4. CASE ~WritesTo(p, r)
    <3>1. /\ trail[r].rounds \in DOMAIN models'
          /\ models'[trail[r].rounds] = models[trail[r].rounds]
      BY <2>2, <2>4, FileOfOthersKept
    <3>2. ASSUME NEW q \in Process \ {r}, Shadows(q, r) PROVE Shadows(q, r)'
      <4>1. ~(q = p /\ Writes(p))
        BY <2>4, <3>2 DEF WritesTo, Shadows
      <4> QED BY <2>3, <3>2, <4>1, ShadowKept
    <3> QED BY <2>1, <2>2, <3>1, <3>2
  <2>5. CASE WritesTo(p, r)
    <3>1. /\ r # p /\ trail'[p] = trail[p] /\ script'[p] = script[p]
          /\ trail[p] # NoRecord /\ script[p] = "b5" /\ trail[p].rounds = trail[r].rounds
      <4>1. LocalInvOf(p) /\ LocalInvOf(r)
        BY DEF IInv, LocalInv
      <4>2. pc[p] \in {"persist", "write"} /\ trail'[p] = trail[p] /\ script'[p] = script[p]
        BY <2>5 DEF WritesTo, Opens, Writes, Stays
      <4> QED BY <2>1, <2>5, <4>1, <4>2 DEF WritesTo, LocalInvOf, Published
    <3>2. CASE Opens(p)
      <4>1. Shadows(p, r)'
        BY <2>1, <3>1, <3>2 DEF Opens, Shadows
      <4>2. trail[r].rounds \in DOMAIN models'
        BY <3>1, <3>2 DEF Opens, FileHolds
      <4> QED BY <2>1, <3>1, <4>1, <4>2
    <3>3. CASE Writes(p)
      <4>1. /\ trail[r].rounds \in DOMAIN models'
            /\ models'[trail[r].rounds] = Sha256(trail[p])
        BY <3>1, <3>3 DEF Writes, FileHolds
      <4>2. CASE trail[p].cipher = trail[r].cipher
        <5>1. trail[p] = trail[r]
          BY <3>1, <4>2 DEF IInv, LocalInv, LocalInvOf
        <5> QED BY <2>1, <4>1, <5>1
      <4>3. CASE trail[p].cipher # trail[r].cipher
        <5>1. Shadows(p, r)'
          BY <2>1, <3>1, <3>3, <4>3 DEF Writes, Shadows
        <5> QED BY <2>1, <3>1, <4>1, <5>1
      <4> QED BY <4>2, <4>3
    <3> QED BY <2>5, <3>2, <3>3 DEF WritesTo
  <2> QED BY <2>4, <2>5
<1> QED BY <1>1, <1>2

\* A shared file has the name of states that some process has found.
LEMMA NamesKept ==
  ASSUME IInv, NEW p \in Process, Effect(p), NEW n \in DOMAIN models'
  PROVE  \E q \in Process : trail'[q] # NoRecord /\ trail'[q].rounds = n
<1>1. CASE n \in DOMAIN models
  <2>1. PICK q \in Process : trail[q] # NoRecord /\ trail[q].rounds = n
    BY <1>1 DEF IInv, ModelInv
  <2> QED BY <2>1, RecordsStay
<1>2. CASE n \notin DOMAIN models
  <2>1. (Opens(p) \/ Writes(p)) /\ n = trail[p].rounds
    BY <1>2 DEF Effect, Exits, Starts, Proceeds, EndsPlainly, Decodes, Opens, Writes, FileHolds
  <2>2. trail[p] # NoRecord /\ trail'[p] = trail[p]
    BY <2>1 DEF IInv, LocalInv, LocalInvOf, Opens, Writes
  <2> QED BY <2>1, <2>2
<1> QED BY <1>1, <1>2

LEMMA InvariantHolds == Spec => []IInv
<1>1. Init => IInv
  <2> SUFFICES ASSUME Init PROVE IInv
    OBVIOUS
  <2>1. Shapes
    BY ScriptsAssumption DEF Init, Shapes, Labels, FileVersion
  <2>2. LocalInv
    BY DEF Init, LocalInv, LocalInvOf, NotRun, Outcome, NoRecord, SatReturned, PlainResult
  <2>3. DOMAIN models = {} /\ \A p \in Process : ~Published(p)
    BY DEF Init, Published, SatReturned, NotRun, Outcome, PlainResult
  <2> QED BY <2>1, <2>2, <2>3 DEF IInv, ModelInv
<1>2. IInv /\ [Next]_vars => IInv'
  <2> SUFFICES ASSUME IInv, [Next]_vars PROVE IInv'
    OBVIOUS
  <2>1. CASE UNCHANGED vars
    <3>1. /\ UNCHANGED <<pc, script, request, expectation, source, trail, returned, models>>
          /\ UNCHANGED exit_code
      BY <2>1 DEF vars, local
    <3>2. Shapes' /\ LocalInv'
      BY <3>1 DEF IInv, Shapes, LocalInv, LocalInvOf, SatReturned
    <3>3. ModelInv'
      BY <3>1 DEF IInv, ModelInv, Published, Shadows, SatReturned
    <3> QED BY <3>2, <3>3 DEF IInv
  <2>2. CASE Next
    <3>1. PICK p \in Process : Effect(p) /\ Shapes'
      BY <2>2, StepHasEffect DEF Next
    <3>2. LocalInv'
      BY <3>1, LocalKept DEF LocalInv
    <3>3. ModelInv'
      <4>1. \A n \in DOMAIN models' : \E q \in Process : trail'[q] # NoRecord /\ trail'[q].rounds = n
        BY <3>1, NamesKept
      <4>2. \A r \in Process : Published(r)' =>
              /\ trail'[r].rounds \in DOMAIN models'
              /\ \/ models'[trail'[r].rounds] = Sha256(trail'[r])
                 \/ \E q \in Process \ {r} : Shadows(q, r)'
        BY <3>1, ModelOfPublished
      <4> QED BY <4>1, <4>2 DEF ModelInv
    <3> QED BY <3>1, <3>2, <3>3 DEF IInv
  <2> QED BY <2>1, <2>2
<1> QED BY <1>1, <1>2, PTL DEF Spec

------------------------------------------------------------------------------
(* Theorems *)

\* Types, and that a model is decoded for the program's number of rounds only.
THEOREM TypeCorrect == Spec => []TypeOK
<1>1. IInv => TypeOK
  <2> SUFFICES ASSUME IInv PROVE TypeOK
    OBVIOUS
  <2>1. \A p \in Process :
          trail[p] # NoRecord => request[p].contract.cipher # "GIFT-64 other rounds"
    BY DEF IInv, LocalInv, LocalInvOf
  <2>2. DOMAIN models \subseteq {ModelName(trail[p]) : p \in Process}
    BY DEF IInv, ModelInv, ModelName
  <2> QED BY <2>1, <2>2 DEF IInv, Shapes, Labels, TypeOK
<1> QED BY <1>1, InvariantHolds, PTL

\* The reference of a B5 run is lost only to another run that found the same states.
THEOREM ReferencesAreKept == Spec => []ReferencesResolve
<1>1. IInv => ReferencesResolve
  <2> SUFFICES ASSUME IInv, NEW p \in Process, script[p] = "b5", exit_code[p] = 0,
                      returned[p].result.status = "SAT"
               PROVE  \/ models[ModelName(returned[p].trail)] = returned[p].result.model
                      \/ \E q \in Process \ {p} :
                           /\ script[q] = "b5" /\ trail[q].rounds = returned[p].trail.rounds
                           /\ \/ pc[q] = "write"
                              \/ returned[q].outcome = "returned"
                                   /\ returned[q].result.status = "ERROR"
                              \/ trail[q].cipher # returned[p].trail.cipher
    BY DEF ReferencesResolve
  <2>1. Published(p)
    BY DEF IInv, LocalInv, LocalInvOf, Shapes, Labels, Published, SatReturned
  <2>2. returned[p].trail = trail[p] /\ returned[p].result.model = Sha256(trail[p])
    BY <2>1 DEF IInv, LocalInv, LocalInvOf, Published
  <2>3. \/ models[trail[p].rounds] = Sha256(trail[p])
        \/ \E q \in Process \ {p} : Shadows(q, p)
    BY <2>1 DEF IInv, ModelInv
  <2> QED BY <2>2, <2>3 DEF ModelName, Shadows
<1> QED BY <1>1, InvariantHolds, PTL

------------------------------------------------------------------------------
(* Every process makes one controlled run *)

\* Nothing has been returned before the return, and what the model is made of is
\* a trail the program may print, with the verdict of the verifier on it.
CallInvOf(p) ==
  /\ returned[p].outcome = "none" => returned[p] = NotRun
  /\ pc[p] \in {"persist", "write"} =>
       \E rounds \in Printed[p] : /\ trail[p] = Decoded(p, rounds)
                                  /\ verification[p] = Verify(Decoded(p, rounds), request[p])

CallInv ==
  /\ verification = [p \in Process |-> verification[p]]
  /\ \A p \in Process : CallInvOf(p)

\* A process that does not move sees nothing of the step.
Still(p) ==
  /\ pc'[p] = pc[p] /\ request'[p] = request[p] /\ source'[p] = source[p]
  /\ trail'[p] = trail[p] /\ verification'[p] = verification[p] /\ returned'[p] = returned[p]

LEMMA StillIsAStutter ==
  ASSUME NEW p \in Process, Still(p) PROVE UNCHANGED Run(p)!run
BY DEF Still, Run!run, AbstractReturned, Abstracted

\* A step of p, as far as its run goes: what it does to its own entries.
LEMMA OnlyItsOwn ==
  ASSUME Shapes, CallInv, NEW p \in Process, Step(p)
  PROVE  /\ \A q \in Process \ {p} : Still(q)
         /\ verification' = [q \in Process |-> verification'[q]]
<1> USE DEF Shapes, CallInv, Still
<1>1. CASE Start(p)
  BY <1>1 DEF Start, Goto
<1>2. CASE StartFails(p) \/ Finish(p) \/ RunRaised(p)
  BY <1>2 DEF StartFails, Finish, RunRaised, Exit, local
<1>3. ASSUME NEW status, Fail(p, status)
      PROVE  /\ \A q \in Process \ {p} : Still(q)
             /\ verification' = [q \in Process |-> verification'[q]]
  BY <1>3 DEF Fail, Return, Goto
<1>4. CASE Raise(p)
  BY <1>4 DEF Raise, Goto
<1>5. ASSUME NEW label, Goto(p, label), UNCHANGED local
      PROVE  /\ \A q \in Process \ {p} : Still(q)
             /\ verification' = [q \in Process |-> verification'[q]]
  BY <1>5 DEF Goto, local
<1>6. CASE Prepare(p) \/ Compile(p) \/ SolveWithoutModel(p) \/ PersistFails(p)
  BY <1>3, <1>4, <1>5, <1>6 DEF Prepare, Compile, SolveWithoutModel, PersistFails
<1>7. CASE Decode(p)
  BY <1>7 DEF Decode, Goto
<1>8. CASE OpenModel(p)
  BY <1>5, <1>8 DEF OpenModel
<1>9. CASE WriteModel(p)
  BY <1>9 DEF WriteModel, Return, Goto
<1> QED BY <1>1, <1>2, <1>6, <1>7, <1>8, <1>9 DEF Step

\* A record is abstracted by the verdict on it; without one there is no trail.
View(outcome, verdict) ==
  LET decoded == Abstracted(outcome.trail, verdict)
  IN  [outcome EXCEPT !.trail = decoded, !.result.model = Sha256(decoded)]

AbstractOutcome(outcome, result, decoded) ==
  [outcome |-> outcome, result |-> result, trail |-> decoded]

\* One field of a record is replaced.
LEMMA FieldReplaced ==
  ASSUME NEW r, NEW s, NEW field, NEW value,
         r = [x \in DOMAIN r |-> r[x]], s = [x \in DOMAIN s |-> s[x]],
         DOMAIN s = DOMAIN r,
         \A x \in DOMAIN r : s[x] = IF x = field THEN value ELSE r[x]
  PROVE  [r EXCEPT ![field] = value] = s
OBVIOUS

LEMMA ViewIs ==
  ASSUME NEW outcome, NEW result, NEW record, NEW verdict,
         NEW decoded, decoded = Abstracted(record, verdict),
         NEW modelled, modelled = [result EXCEPT !.model = Sha256(decoded)]
  PROVE  View(Outcome(outcome, result, record), verdict)
           = AbstractOutcome(outcome, modelled, decoded)
<1> DEFINE o == Outcome(outcome, result, record)
           t == Outcome(outcome, result, decoded)
           r == Outcome(outcome, modelled, decoded)
<1>1. /\ DOMAIN o = {"outcome", "result", "trail"} /\ DOMAIN t = DOMAIN o /\ DOMAIN r = DOMAIN o
      /\ o = [x \in DOMAIN o |-> o[x]] /\ t = [x \in DOMAIN t |-> t[x]]
      /\ r = [x \in DOMAIN r |-> r[x]]
  BY DEF Outcome
<1>2. \A x \in DOMAIN o : /\ t[x] = IF x = "trail" THEN decoded ELSE o[x]
                          /\ r[x] = IF x = "result" THEN modelled ELSE t[x]
  BY DEF Outcome
<1>3. o.trail = record /\ t.result = result
  BY DEF Outcome
<1> HIDE DEF o, t, r
<1>4. [o EXCEPT !["trail"] = decoded] = t
  BY <1>1, <1>2, FieldReplaced
<1>5. [t EXCEPT !["result"] = modelled] = r
  BY <1>1, <1>2, FieldReplaced
<1>6. View(o, verdict) = [[o EXCEPT !.trail = decoded] EXCEPT !.result.model = Sha256(decoded)]
  BY <1>3 DEF View
<1>7. View(o, verdict) = [t EXCEPT !.result = [t.result EXCEPT !.model = Sha256(decoded)]]
  BY <1>4, <1>6
<1> QED BY <1>3, <1>5, <1>7 DEF o, r, Outcome, AbstractOutcome

LEMMA PlainView ==
  ASSUME NEW outcome, NEW status, NEW verdict
  PROVE  View(Outcome(outcome, PlainResult(status), NoRecord), verdict)
           = AbstractOutcome(outcome, PlainResult(status), NoTrail)
<1>1. NoTrail = Abstracted(NoRecord, verdict)
  BY DEF Abstracted
<1> DEFINE r == PlainResult(status)
<1>2. r = [x \in DOMAIN r |-> r[x]] /\ r.model = Sha256(NoTrail)
  BY DEF PlainResult, NoModel
<1>3. r = [r EXCEPT !["model"] = Sha256(NoTrail)]
  <2> HIDE DEF r
  <2> QED BY <1>2, FieldReplaced
<1> QED BY <1>1, <1>3, ViewIs

\* A SAT result, by what is left open in it.
Sat(model, components, bound, verdict, exact) ==
  [status |-> "SAT", definitive |-> TRUE, model |-> model,
   objective_components |-> components, satisfied_bound |-> bound, verification |-> verdict,
   exact_label_eligible |-> exact]

Fields == {"status", "definitive", "model", "objective_components", "satisfied_bound",
           "verification", "exact_label_eligible"}

LEMMA ModelReplaced ==
  ASSUME NEW model, NEW other, NEW components, NEW bound, NEW verdict, NEW exact
  PROVE  [Sat(model, components, bound, verdict, exact) EXCEPT !.model = other]
           = Sat(other, components, bound, verdict, exact)
<1> DEFINE r == Sat(model, components, bound, verdict, exact)
           s == Sat(other, components, bound, verdict, exact)
<1>1. DOMAIN r = Fields /\ DOMAIN s = Fields
  BY DEF Sat, Fields
<1>2. r = [x \in DOMAIN r |-> r[x]]
  BY DEF Sat
<1>3. s = [x \in DOMAIN s |-> s[x]]
  BY DEF Sat
<1>4. ASSUME NEW x \in Fields PROVE s[x] = IF x = "model" THEN other ELSE r[x]
  <2>1. CASE x = "model"
    BY <2>1 DEF Sat
  <2>2. CASE x \in {"status", "objective_components"}
    BY <2>2 DEF Sat
  <2>3. CASE x \in {"satisfied_bound", "verification"}
    BY <2>3 DEF Sat
  <2>4. CASE x = "definitive"
    BY <2>4 DEF Sat
  <2>5. CASE x = "exact_label_eligible"
    BY <2>5 DEF Sat
  <2> QED BY <2>1, <2>2, <2>3, <2>4, <2>5 DEF Fields
<1> HIDE DEF r, s
<1>5. s = [r EXCEPT !["model"] = other]
  BY <1>1, <1>2, <1>3, <1>4, FieldReplaced
<1> QED BY <1>5 DEF r, s

\* What a SAT result says follows from the issues and the components.
SatOf(model, issues, components) ==
  Sat(model, components, IF "objective_bound" \in issues THEN "false" ELSE "true",
      IF issues = {} THEN "passed" ELSE "failed", issues = {})

\* The model that is returned is the abstract trail, and nothing else of the
\* result changes with it.
LEMMA SatView ==
  ASSUME NEW p \in Process, NEW d, d = Abstracted(trail[p], verification[p])
  PROVE  View(Outcome("returned", SatResult(p), trail[p]), verification[p])
           = AbstractOutcome("returned",
               SatOf(Sha256(d), verification[p].issues, verification[p].objective_components), d)
<1> DEFINE i == verification[p].issues
           w == verification[p].objective_components
           r == SatOf(Sha256(trail[p]), i, w)
           s == SatOf(Sha256(d), i, w)
<1>1. r = SatResult(p)
  BY DEF SatResult, SatOf, Sat
<1>2. s = [r EXCEPT !.model = Sha256(d)]
  BY ModelReplaced DEF SatOf
<1> HIDE DEF r, s
<1>3. View(Outcome("returned", r, trail[p]), verification[p]) = AbstractOutcome("returned", s, d)
  BY <1>2, ViewIs
<1> QED BY <1>1, <1>3 DEF s

\* The instance brings along the contract this module has.
LEMMA SameContract ==
  ASSUME NEW p \in Process
  PROVE  /\ \A status : Run(p)!PlainResult(status) = PlainResult(status)
         /\ \A r : Run(p)!ValidResult(r) <=> ValidResult(r)
         /\ \A weight, req : Run(p)!ContractIssues(weight, req) = ContractIssues(weight, req)
         /\ Run(p)!NoTrail = NoTrail /\ Run(p)!Trail = Trail
         /\ Run(p)!FileVersion = FileVersion
         /\ Run(p)!Raised = AbstractOutcome("raised", PlainResult("ERROR"), NoTrail)
         /\ Run(p)!NotRun = AbstractOutcome("none", PlainResult("ERROR"), NoTrail)
         /\ \A result, decoded :
              Run(p)!ControlledRun(result, decoded) = AbstractOutcome("returned", result, decoded)
         /\ \A m : Run(p)!Sha256(m) = Sha256(m)
<1>1. Run(p)!NoTrail = NoTrail /\ \A m : Run(p)!Sha256(m) = Sha256(m)
  BY DEF Run!NoTrail, NoTrail, Run!NoWeight, NoWeight, Run!Sha256, Sha256
<1>2. Run(p)!NoModel = NoModel /\ Run(p)!NoWeight = NoWeight
  BY <1>1 DEF Run!NoModel, NoModel, Run!NoWeight, NoWeight
<1>3. \A status : Run(p)!PlainResult(status) = PlainResult(status)
  BY <1>2 DEF Run!PlainResult, PlainResult
<1>4. \A r : Run(p)!ValidResult(r) <=> ValidResult(r)
  BY <1>2 DEF Run!ValidResult, ValidResult
<1>5. \A weight, req : Run(p)!ContractIssues(weight, req) = ContractIssues(weight, req)
  <2> TAKE weight, req
  <2>1. Run(p)!ComparisonHolds(weight, req) <=> ComparisonHolds(weight, req)
    BY DEF Run!ComparisonHolds, ComparisonHolds, Run!WeightComponent, WeightComponent
  <2>2. Run(p)!WeightComponent = WeightComponent
    BY DEF Run!WeightComponent, WeightComponent
  <2> QED BY <2>1, <2>2 DEF Run!ContractIssues, ContractIssues
<1>6. Run(p)!Trail = Trail /\ Run(p)!FileVersion = FileVersion
  BY DEF Run!Trail, Trail, Run!FileVersion, FileVersion
<1>7. /\ Run(p)!Raised = AbstractOutcome("raised", PlainResult("ERROR"), NoTrail)
      /\ Run(p)!NotRun = AbstractOutcome("none", PlainResult("ERROR"), NoTrail)
  BY <1>1, <1>3 DEF Run!Raised, Run!NotRun, AbstractOutcome
<1>8. \A result, decoded :
        Run(p)!ControlledRun(result, decoded) = AbstractOutcome("returned", result, decoded)
  BY DEF Run!ControlledRun, AbstractOutcome
<1> QED BY <1>1, <1>3, <1>4, <1>5, <1>6, <1>7, <1>8

\* Returning is the return of the abstract run.
LEMMA ReturnIsOfTheRun ==
  ASSUME Shapes, NEW p \in Process, NEW result, NEW record, Return(p, result, record),
         NEW modelled, NEW decoded,
         View(Outcome("returned", result, record), verification[p])
           = AbstractOutcome("returned", modelled, decoded),
         ValidResult(result) <=> ValidResult(modelled)
  PROVE  Run(p)!Return(modelled, decoded)
<1>1. /\ returned'[p] = IF ValidResult(result) THEN Outcome("returned", result, record) ELSE Raised
      /\ pc'[p] = "caller"
      /\ UNCHANGED <<request, source, trail, verification>>
  BY DEF Return, Goto, Shapes
<1>2. AbstractReturned(p)' = View(returned'[p], verification[p])
  BY <1>1 DEF AbstractReturned, View
<1>3. View(Raised, verification[p]) = AbstractOutcome("raised", PlainResult("ERROR"), NoTrail)
  BY PlainView DEF Raised
<1>4. AbstractReturned(p)' = IF Run(p)!ValidResult(modelled)
                            THEN Run(p)!ControlledRun(modelled, decoded) ELSE Run(p)!Raised
  BY <1>1, <1>2, <1>3, SameContract
<1>5. (IF pc[p] = "write" THEN "persist" ELSE pc[p])' = "caller"
  BY <1>1
<1>6. UNCHANGED <<request[p].contract, source[p], Abstracted(trail[p], verification[p])>>
  BY <1>1 DEF Abstracted
<1> QED BY <1>4, <1>5, <1>6 DEF Run!Return

LEMMA FailIsOfTheRun ==
  ASSUME Shapes, NEW p \in Process, NEW status, Fail(p, status)
  PROVE  Run(p)!Return(Run(p)!PlainResult(status), Run(p)!NoTrail)
<1>1. Return(p, PlainResult(status), NoRecord)
  BY DEF Fail
<1>2. View(Outcome("returned", PlainResult(status), NoRecord), verification[p])
        = AbstractOutcome("returned", PlainResult(status), NoTrail)
  BY PlainView
<1>3. Run(p)!Return(PlainResult(status), NoTrail)
  BY <1>1, <1>2, ReturnIsOfTheRun
<1> QED BY <1>3, SameContract

LEMMA RaiseIsOfTheRun ==
  ASSUME Shapes, NEW p \in Process, Raise(p)
  PROVE  Run(p)!Raise
<1>1. /\ returned'[p] = Raised /\ pc'[p] = "caller"
      /\ UNCHANGED <<request, source, trail, verification>>
  BY DEF Raise, Goto, Shapes
<1>2. AbstractReturned(p)' = View(Raised, verification[p])
  BY <1>1 DEF AbstractReturned, View
<1>3. View(Raised, verification[p]) = AbstractOutcome("raised", PlainResult("ERROR"), NoTrail)
  BY PlainView DEF Raised
<1>4. AbstractReturned(p)' = Run(p)!Raised
  BY <1>2, <1>3, SameContract
<1>5. UNCHANGED <<request[p].contract, source[p], Abstracted(trail[p], verification[p])>>
  BY <1>1 DEF Abstracted
<1> QED BY <1>1, <1>4, <1>5 DEF Run!Raise

\* Moving on is a step to the next statement of the abstract run.
LEMMA GotoIsOfTheRun ==
  ASSUME Shapes, NEW p \in Process, NEW label, label # "write", Goto(p, label), UNCHANGED local
  PROVE  Run(p)!Goto(label)
<1>1. pc'[p] = label /\ UNCHANGED <<request, source, trail, verification, returned>>
  BY DEF Goto, local, Shapes
<1>2. /\ AbstractReturned(p)' = AbstractReturned(p)
      /\ UNCHANGED <<request[p].contract, source[p], Abstracted(trail[p], verification[p])>>
  BY <1>1 DEF AbstractReturned, Abstracted
<1> QED BY <1>1, <1>2 DEF Run!Goto

\* Of all issues those on the contract are the ones that the contract raises,
\* and the one on the cipher is the trail's own.
ContractCodes ==
  {"request_layout_mismatch", "unsupported_objective", "unsupported_bound_component",
   "objective_bound"}

LEMMA ContractIssuesAre ==
  ASSUME NEW weight, NEW req
  PROVE  ContractIssues(weight, req) \subseteq ContractCodes
BY DEF ContractIssues, ContractCodes

LEMMA IssuesOf ==
  ASSUME NEW record, NEW req, NEW issues, issues = Verify(record, req).issues
  PROVE  /\ "wrong_cipher" \in issues <=> record.cipher # "GIFT-64"
         /\ issues \cap ContractCodes
              = ContractIssues(ObjectiveComponents(record.rounds), req.contract)
<1> DEFINE T == TrailIssues(record)
           F == FixedIssues(record.rounds, req.fixed)
           O == ContractIssues(ObjectiveComponents(record.rounds), req.contract)
<1>1. issues = T \cup F \cup O
  BY DEF Verify
<1>2. /\ "wrong_cipher" \in T <=> record.cipher # "GIFT-64"
      /\ T \cap ContractCodes = {}
  BY DEF TrailIssues, ContractCodes
<1>3. "wrong_cipher" \notin F /\ F \cap ContractCodes = {}
  BY DEF FixedIssues, ContractCodes
<1>4. O \subseteq ContractCodes /\ "wrong_cipher" \notin ContractCodes
  BY ContractIssuesAre DEF ContractCodes
<1> HIDE DEF T, F, O
<1>5. "wrong_cipher" \in issues <=> record.cipher # "GIFT-64"
  BY <1>1, <1>2, <1>3, <1>4
<1>6. issues \cap ContractCodes = O
  <2> HIDE DEF ContractCodes
  <2> QED BY <1>1, <1>2, <1>3, <1>4
<1> QED BY <1>5, <1>6 DEF O

\* A SAT result with a model and components is one its validator accepts.
LEMMA SatIsValid ==
  ASSUME NEW model, model # NoModel, NEW issues, NEW components, components # NoWeight
  PROVE  ValidResult(SatOf(model, issues, components))
<1> DEFINE r == SatOf(model, issues, components)
<1>1. /\ r.status = "SAT" /\ r.definitive = TRUE /\ r.model = model
      /\ r.objective_components = components
      /\ r.satisfied_bound \in {"false", "true"}
      /\ r.verification = IF issues = {} THEN "passed" ELSE "failed"
      /\ r.exact_label_eligible = (issues = {})
  BY DEF SatOf, Sat
<1> HIDE DEF r
<1>2. ValidResult(r)
  BY <1>1 DEF ValidResult
<1> QED BY <1>2 DEF r

\* A process with a model: what it has in hand, concretely and abstractly.
LEMMA InHand ==
  ASSUME CallInv, NEW p \in Process, pc[p] \in {"persist", "write"}
  PROVE  LET d == Abstracted(trail[p], verification[p])
             issues == verification[p].issues
             weight == verification[p].objective_components
         IN  /\ trail[p] # NoRecord /\ d \in Trail
             /\ d.weight = weight /\ weight # NoWeight
             /\ d.sound <=> issues \subseteq OfTheRequest
             /\ Sha256(trail[p]) # NoModel /\ Sha256(d) # NoModel
             /\ "wrong_cipher" \in issues <=> request[p].contract.cipher = "other"
             /\ issues \cap ContractCodes = ContractIssues(weight, request[p].contract)
<1> DEFINE d == Abstracted(trail[p], verification[p])
           issues == verification[p].issues
           weight == verification[p].objective_components
<1>1. PICK rounds \in Printed[p] : /\ trail[p] = Decoded(p, rounds)
                                   /\ verification[p] = Verify(Decoded(p, rounds), request[p])
  BY DEF CallInv, CallInvOf
<1> DEFINE record == Decoded(p, rounds)
<1>2. record.rounds = rounds
      /\ (record.cipher # "GIFT-64" <=> request[p].contract.cipher = "other")
  BY DEF Decoded
<1>3. DOMAIN record = {"cipher", "rounds"} /\ record.cipher \in {"other", "GIFT-64"}
  BY DEF Decoded
<1> HIDE DEF record
<1>4. record # NoRecord /\ record # NoTrail
  BY <1>3 DEF NoRecord, NoTrail
<1>5. weight = ObjectiveComponents(rounds) /\ issues = Verify(record, request[p]).issues
  BY <1>1, <1>2 DEF Verify, record
<1>6. weight \in Weights /\ weight # NoWeight
  <2>1. rounds \in PrintedRounds
    BY DEF PrintedRounds
  <2>2. weight \in Weights /\ weight \in Weight
    BY <1>5, <2>1, WeightsAssumption, ContractAssumption
  <2>3. NoWeight \notin Weight
    BY DEF NoWeight, Weight
  <2> QED BY <2>2, <2>3
<1>7. d = [sound |-> issues \subseteq OfTheRequest, weight |-> weight]
  BY <1>1, <1>4 DEF Abstracted, record
<1> HIDE DEF issues, weight, d
<1>8. d \in Trail /\ d.weight = weight
      /\ (d.sound <=> issues \subseteq OfTheRequest)
  BY <1>6, <1>7 DEF Trail
<1>9. d # NoTrail
  BY <1>6, <1>8 DEF NoTrail
<1>10. Sha256(trail[p]) # NoModel /\ Sha256(d) # NoModel
  BY <1>1, <1>4, <1>9 DEF Sha256, NoModel, record
<1>11. /\ "wrong_cipher" \in issues <=> request[p].contract.cipher = "other"
       /\ issues \cap ContractCodes = ContractIssues(weight, request[p].contract)
  BY <1>2, <1>5, IssuesOf
<1>12. trail[p] # NoRecord
  BY <1>1, <1>4 DEF record
<1> QED BY <1>6, <1>8, <1>10, <1>11, <1>12 DEF d, issues, weight

\* The abstract run makes the same of the abstract trail as the process makes of
\* the verdict.
LEMMA SatOfTheRun ==
  ASSUME CallInv, NEW p \in Process, pc[p] \in {"persist", "write"},
         NEW d, d = Abstracted(trail[p], verification[p])
  PROVE  Run(p)!SatResult
           = SatOf(Sha256(d), verification[p].issues, verification[p].objective_components)
<1> DEFINE issues == verification[p].issues
           weight == verification[p].objective_components
           A == Run(p)!Issues
           C == ContractIssues(weight, request[p].contract)
<1>1. /\ d.weight = weight
      /\ d.sound <=> issues \subseteq OfTheRequest
      /\ "wrong_cipher" \in issues <=> request[p].contract.cipher = "other"
      /\ issues \cap ContractCodes = C
  BY InHand
<1>2. A = (IF request[p].contract.cipher = "other" THEN {"wrong_cipher"} ELSE {})
            \cup (IF d.sound THEN {} ELSE {"invalid_sbox_transition"})
            \cup C
  BY <1>1, SameContract DEF Run!Issues, Run!TrailIssues, Run!RequestIssues
<1> HIDE DEF issues, weight, A, C
<1>3. "objective_bound" \in A <=> "objective_bound" \in issues
  BY <1>1, <1>2 DEF ContractCodes
<1>4. A = {} <=> issues = {}
  <2>1. OfTheRequest = ContractCodes \cup {"wrong_cipher"}
    BY DEF OfTheRequest, ContractCodes
  <2> QED BY <1>1, <1>2, <2>1
<1>5. /\ Run(p)!SatResult =
           [status |-> "SAT", definitive |-> TRUE, model |-> Run(p)!Sha256(d),
            objective_components |-> d.weight,
            satisfied_bound |-> IF "objective_bound" \in A THEN "false" ELSE "true",
            verification |-> IF A = {} THEN "passed" ELSE "failed",
            exact_label_eligible |-> A = {}]
      /\ Run(p)!Sha256(d) = Sha256(d)
  BY SameContract DEF Run!SatResult, A
<1>6. Run(p)!SatResult = SatOf(Sha256(d), A, weight)
  BY <1>1, <1>5 DEF SatOf, Sat
<1>7. SatOf(Sha256(d), A, weight) = SatOf(Sha256(d), issues, weight)
  BY <1>3, <1>4 DEF SatOf
<1> QED BY <1>6, <1>7 DEF issues, weight

\* What a process does is a step of its abstract run, or none.
LEMMA StepIsControlled ==
  ASSUME IInv, CallInv, NEW p \in Process, Step(p)
  PROVE  UNCHANGED Run(p)!run \/ Run(p)!Call \/ Run(p)!RunStep
<1> USE DEF Run!RunStep, Run!RunOwnStep, Run!RunProcessExits
<1>1. Shapes /\ LocalInvOf(p) /\ CallInvOf(p)
  BY DEF IInv, LocalInv, CallInv
<1>2. CASE Start(p)
  <2>1. /\ pc[p] = "caller" /\ returned[p].outcome = "none"
        /\ pc'[p] = "prepare" /\ source'[p] \in FileVersion
        /\ UNCHANGED <<trail, verification, returned>>
    BY <1>1, <1>2 DEF Start, NotStarted, At, Goto, Shapes
  <2>2. trail[p] = NoRecord /\ returned[p] = NotRun
    BY <1>1, <2>1 DEF LocalInvOf, CallInvOf
  <2>3. AbstractReturned(p)' = Run(p)!NotRun
    <3>1. AbstractReturned(p)' = View(NotRun, verification[p])
      BY <2>1, <2>2 DEF AbstractReturned, View
    <3>2. View(NotRun, verification[p]) = AbstractOutcome("none", PlainResult("ERROR"), NoTrail)
      BY PlainView DEF NotRun
    <3> QED BY <3>1, <3>2, SameContract
  <2>4. Abstracted(trail[p], verification[p])' = Run(p)!NoTrail
    BY <2>1, <2>2, SameContract DEF Abstracted
  <2>5. source'[p] \in Run(p)!FileVersion
    BY <2>1, SameContract
  <2> QED BY <2>1, <2>3, <2>4, <2>5 DEF Run!Call
<1>3. CASE StartFails(p) \/ Finish(p) \/ RunRaised(p)
  <2>1. Still(p)
    BY <1>3 DEF StartFails, Finish, RunRaised, Exit, local, Still
  <2> QED BY <2>1, StillIsAStutter
<1>4. CASE Prepare(p)
  <2>1. CASE Fail(p, "ERROR")
    BY <1>1, <1>4, <2>1, FailIsOfTheRun DEF Prepare, At, Run!PreparationFails
  <2>2. CASE request[p].contract.limit # "none" /\ source[p] = "pinned"
             /\ Goto(p, "compile") /\ UNCHANGED local
    BY <1>1, <1>4, <2>2, GotoIsOfTheRun DEF Prepare, At, Run!PreparationSucceeds
  <2> QED BY <1>4, <2>1, <2>2 DEF Prepare
<1>5. CASE Compile(p)
  <2>1. CASE Fail(p, "ERROR")
    BY <1>1, <1>5, <2>1, FailIsOfTheRun DEF Compile, At, Run!CompileFails
  <2>2. CASE Goto(p, "solve") /\ UNCHANGED local
    BY <1>1, <1>5, <2>2, GotoIsOfTheRun DEF Compile, At, Run!CompileSucceeds
  <2>3. CASE Raise(p)
    BY <1>1, <1>5, <2>3, RaiseIsOfTheRun DEF Compile, At, Run!CompileRaises
  <2> QED BY <1>5, <2>1, <2>2, <2>3 DEF Compile
<1>6. CASE SolveWithoutModel(p)
  <2>1. pc[p] = "solve"
    BY <1>6 DEF SolveWithoutModel, At
  <2>2. CASE Raise(p)
    <3>1. Run(p)!Raise
      BY <1>1, <2>2, RaiseIsOfTheRun
    <3>2. CASE request[p].contract.limit = "beyond_timer"
      BY <2>1, <3>1, <3>2 DEF Run!LimitRefused
    <3>3. CASE request[p].contract.limit # "beyond_timer"
      BY <2>1, <3>1, <3>3 DEF Run!SolveRaises, Run!Launched
    <3> QED BY <3>2, <3>3
  <2>3. ASSUME request[p].contract.limit = "finite",
               NEW status \in {"UNSAT", "UNKNOWN", "TIMEOUT", "ERROR"}, Fail(p, status)
        PROVE  Run(p)!RunStep
    <3>1. Run(p)!Return(Run(p)!PlainResult(status), Run(p)!NoTrail) /\ Run(p)!Launched
      BY <1>1, <2>1, <2>3, FailIsOfTheRun DEF Run!Launched
    <3>2. CASE status \in {"UNSAT", "UNKNOWN"}
      BY <3>1, <3>2 DEF Run!NoModelPrinted
    <3>3. CASE status = "TIMEOUT"
      BY <2>3, <3>1, <3>3 DEF Run!SolveTimesOut
    <3>4. CASE status = "ERROR"
      BY <3>1, <3>4 DEF Run!SolveExitsNonzero
    <3> QED BY <3>2, <3>3, <3>4
  <2> QED BY <1>6, <2>2, <2>3 DEF SolveWithoutModel
<1>7. CASE Decode(p)
  <2>1. /\ pc[p] = "solve" /\ pc'[p] = "persist"
        /\ request[p].contract.limit = "finite"
        /\ request[p].contract.cipher # "GIFT-64 other rounds"
        /\ UNCHANGED <<request, source, returned>>
    BY <1>1, <1>7 DEF Decode, At, Goto, Shapes
  <2>2. returned[p] = NotRun
    BY <1>1, <2>1 DEF LocalInvOf, CallInvOf
  <2>3. AbstractReturned(p)' = AbstractReturned(p)
    <3>1. /\ AbstractReturned(p)' = View(NotRun, verification'[p])
          /\ AbstractReturned(p) = View(NotRun, verification[p])
      BY <2>1, <2>2 DEF AbstractReturned, View
    <3> QED BY <3>1, PlainView DEF NotRun
  <2>4. Abstracted(trail[p], verification[p])' \in Run(p)!Trail
    <3>1. PICK rounds \in Printed[p] :
            /\ trail' = [trail EXCEPT ![p] = Decoded(p, rounds)]
            /\ verification' = [verification EXCEPT ![p] = Verify(Decoded(p, rounds), request[p])]
      BY <1>7 DEF Decode
    <3>2. trail'[p] = Decoded(p, rounds)
          /\ verification'[p] = Verify(Decoded(p, rounds), request[p])
      BY <1>1, <3>1 DEF Shapes, CallInv
    <3>3. ObjectiveComponents(rounds) \in Weights
      BY WeightsAssumption DEF PrintedRounds
    <3>4. verification'[p].objective_components = ObjectiveComponents(rounds)
      BY <3>2 DEF Verify, Decoded
    <3>5. Decoded(p, rounds) # NoRecord
      BY DEF Decoded, NoRecord
    <3>6. Abstracted(trail'[p], verification'[p]) \in Trail
      BY <3>2, <3>3, <3>4, <3>5 DEF Abstracted, Trail
    <3> QED BY <3>6, SameContract DEF Abstracted
  <2> QED BY <2>1, <2>3, <2>4 DEF Run!ModelDecoded, Run!Launched
<1>8. CASE OpenModel(p)
  <2>1. pc[p] = "persist" /\ pc'[p] = "write"
        /\ UNCHANGED <<request, source, trail, verification, returned>>
    BY <1>1, <1>8 DEF OpenModel, At, Goto, local, Shapes
  <2> QED BY <2>1 DEF Run!run, AbstractReturned, Abstracted
<1>9. CASE WriteModel(p)
  <2> DEFINE d == Abstracted(trail[p], verification[p])
             s == SatOf(Sha256(d), verification[p].issues, verification[p].objective_components)
  <2>1. pc[p] = "write" /\ Return(p, SatResult(p), trail[p])
    BY <1>9 DEF WriteModel, At
  <2>2. /\ Sha256(trail[p]) # NoModel /\ Sha256(d) # NoModel
        /\ verification[p].objective_components # NoWeight
    BY <2>1, InHand
  <2>3. View(Outcome("returned", SatResult(p), trail[p]), verification[p])
          = AbstractOutcome("returned", s, d)
    BY SatView
  <2>4. ValidResult(SatResult(p)) /\ ValidResult(s)
    <3>1. SatResult(p) = SatOf(Sha256(trail[p]), verification[p].issues,
                               verification[p].objective_components)
      BY DEF SatResult, SatOf, Sat
    <3> QED BY <2>2, <3>1, SatIsValid
  <2>5. Run(p)!SatResult = s
    BY <2>1, SatOfTheRun
  <2> HIDE DEF s, d
  <2>6. Run(p)!Return(s, d)
    BY <1>1, <2>1, <2>3, <2>4, ReturnIsOfTheRun
  <2> QED BY <2>1, <2>5, <2>6 DEF Run!ModelPersisted, d
<1>10. CASE PersistFails(p)
  <2>1. pc[p] \in {"persist", "write"} /\ Fail(p, "ERROR")
    BY <1>10 DEF PersistFails, At
  <2> QED BY <1>1, <2>1, FailIsOfTheRun DEF Run!PersistFails
<1> QED BY <1>2, <1>3, <1>4, <1>5, <1>6, <1>7, <1>8, <1>9, <1>10 DEF Step

LEMMA CallInvariant == Spec => []CallInv
<1>1. Init => CallInv
  BY DEF Init, CallInv, CallInvOf, NotRun, Outcome
<1>2. IInv /\ CallInv /\ [Next]_vars => CallInv'
  <2> SUFFICES ASSUME IInv, CallInv, [Next]_vars PROVE CallInv'
    OBVIOUS
  <2>1. CASE UNCHANGED vars
    BY <2>1 DEF vars, local, CallInv, CallInvOf, Decoded
  <2>2. CASE Next
    <3>1. PICK p \in Process : Step(p)
      BY <2>2 DEF Next
    <3>2. /\ \A q \in Process \ {p} : Still(q)
          /\ verification' = [q \in Process |-> verification'[q]]
      BY <3>1, OnlyItsOwn DEF IInv
    <3>3. \A q \in Process \ {p} : CallInvOf(q)'
      BY <3>2 DEF CallInv, CallInvOf, Still, Decoded
    <3>4. CallInvOf(p)'
      <4>1. Shapes /\ LocalInvOf(p) /\ CallInvOf(p)
        BY DEF IInv, LocalInv, CallInv
      <4>2. CASE Decode(p)
        <5>1. PICK rounds \in Printed[p] :
                /\ trail' = [trail EXCEPT ![p] = Decoded(p, rounds)]
                /\ verification' = [verification EXCEPT ![p] = Verify(Decoded(p, rounds), request[p])]
          BY <4>2 DEF Decode
        <5>2. trail'[p] = Decoded(p, rounds)
              /\ verification'[p] = Verify(Decoded(p, rounds), request[p])
          BY <4>1, <5>1 DEF Shapes, CallInv
        <5>3. UNCHANGED <<request, returned>>
          BY <4>2 DEF Decode
        <5> QED BY <4>1, <5>2, <5>3 DEF CallInvOf, Decoded
      <4>3. CASE OpenModel(p)
        <5>1. pc[p] = "persist" /\ UNCHANGED <<request, trail, verification, returned>>
          BY <4>3 DEF OpenModel, At, local
        <5> QED BY <4>1, <5>1 DEF CallInvOf, Decoded
      <4>4. CASE StartFails(p) \/ Finish(p) \/ RunRaised(p)
        <5>1. UNCHANGED <<pc, request, trail, verification, returned>>
          BY <4>4 DEF StartFails, Finish, RunRaised, Exit, local
        <5> QED BY <4>1, <5>1 DEF CallInvOf, Decoded
      <4>5. CASE Start(p)
        <5>1. pc'[p] = "prepare" /\ returned' = returned
          BY <4>1, <4>5 DEF Start, Goto, Shapes
        <5> QED BY <4>1, <5>1 DEF CallInvOf
      <4>6. ASSUME NEW label \in {"compile", "solve"}, Goto(p, label), UNCHANGED local
            PROVE  CallInvOf(p)'
        <5>1. pc'[p] = label /\ returned' = returned
          BY <4>1, <4>6 DEF Goto, local, Shapes
        <5> QED BY <4>1, <5>1 DEF CallInvOf
      <4>7. ASSUME NEW result, NEW record, Return(p, result, record) PROVE CallInvOf(p)'
        <5>1. /\ pc'[p] = "caller"
              /\ returned'[p] \in {Outcome("returned", result, record), Raised}
          BY <4>1, <4>7 DEF Return, Goto, Shapes
        <5>2. returned'[p].outcome # "none"
          BY <5>1 DEF Outcome, Raised
        <5> QED BY <5>1, <5>2 DEF CallInvOf
      <4>8. CASE Raise(p)
        <5>1. pc'[p] = "caller" /\ returned'[p] = Raised
          BY <4>1, <4>8 DEF Raise, Goto, Shapes
        <5>2. returned'[p].outcome # "none"
          BY <5>1 DEF Outcome, Raised
        <5> QED BY <5>1, <5>2 DEF CallInvOf
      <4> QED BY <3>1, <4>2, <4>3, <4>4, <4>5, <4>6, <4>7, <4>8
              DEF Step, Prepare, Compile, SolveWithoutModel, WriteModel, PersistFails, Fail
    <3> QED BY <3>2, <3>3, <3>4 DEF CallInv
  <2> QED BY <2>1, <2>2
<1> QED BY <1>1, <1>2, InvariantHolds, PTL DEF Spec

\* Every process makes one controlled run: with the trail it decodes replaced by
\* the verdict on it, each of its steps is one of run_controlled_gift64 or none.
THEOREM RunsOfProcesses == Spec => RunsAreControlled
<1>1. ASSUME IInv, CallInv, [Next]_vars, NEW p \in Process
      PROVE  ControlledStep(p)
  <2>1. CASE UNCHANGED vars
    <3>1. Still(p)
      BY <2>1 DEF vars, local, Still
    <3> QED BY <3>1, StillIsAStutter DEF ControlledStep
  <2>2. CASE Next
    <3>1. PICK q \in Process : Step(q)
      BY <2>2 DEF Next
    <3>2. CASE q = p
      BY <1>1, <3>1, <3>2, StepIsControlled DEF ControlledStep
    <3>3. CASE q # p
      <4>1. Still(p)
        BY <1>1, <3>1, <3>3, OnlyItsOwn DEF IInv
      <4> QED BY <4>1, StillIsAStutter DEF ControlledStep
    <3> QED BY <3>2, <3>3
  <2> QED BY <1>1, <2>1, <2>2
<1>2. IInv /\ CallInv /\ [Next]_vars => [\A p \in Process : ControlledStep(p)]_vars
  BY <1>1
<1> QED BY <1>2, InvariantHolds, CallInvariant, PTL DEF Spec, RunsAreControlled

------------------------------------------------------------------------------
(* Induction over finite sets *)

\* Induction: a nonempty family of subsets of a finite set has a minimal one.
Family(F, S) == F # {} /\ F \subseteq SUBSET S
IsMinimal(T, F) == T \in F /\ \A U \in F : U \subseteq T => U = T

LEMMA MinimalSubset ==
  ASSUME NEW S, IsFiniteSet(S), NEW F, Family(F, S)
  PROVE  \E T : IsMinimal(T, F)
<1> USE DEF Family
<1>1. F \subseteq FiniteSubsetsOf(S)
  BY FS_Subset DEF FiniteSubsetsOf
<1>2. \E T \in F : \A U \in F : <<U, T>> \notin StrictSubsetOrdering(S)
  BY <1>1, FS_StrictSubsetOrderingWellFounded, WFMin
<1> QED BY <1>1, <1>2 DEF StrictSubsetOrdering, IsMinimal

------------------------------------------------------------------------------
(* Sums and products over finite sets, in the order of FoldFunction *)

First(s) == CHOOSE x \in s : TRUE
Rest(s) == s \ {First(s)}
Combine(kind, m, n) == IF kind = "sum" THEN m + n ELSE m * n
Unit(kind) == IF kind = "sum" THEN 0 ELSE 1

IsFold(g, kind, f, S) ==
  g = [s \in SUBSET S |-> IF s = {} THEN Unit(kind) ELSE Combine(kind, f[First(s)], g[Rest(s)])]
Fold(kind, f, S) == (CHOOSE g : IsFold(g, kind, f, S))[S]

\* What the library's products and sums are.
LEMMA ProductIsAFold == ASSUME NEW f, NEW S, S = DOMAIN f PROVE Product(f) = Fold("product", f, S)
BY DEF Product, Fold, IsFold, Combine, Unit, First, Rest,
       FoldFunction, FoldFunctionOnSet, MapThenFoldSet

LEMMA SumIsAFold == ASSUME NEW f, NEW S, S = DOMAIN f PROVE SumFunction(f) = Fold("sum", f, S)
BY DEF SumFunction, SumFunctionOnSet, Fold, IsFold, Combine, Unit, First, Rest,
       FoldFunctionOnSet, MapThenFoldSet

\* The element a fold takes first, and the rest.
LEMMA FirstIsIn == ASSUME NEW s, s # {} PROVE First(s) \in s /\ Rest(s) \subseteq s /\ Rest(s) # s
BY DEF First, Rest

\* Two folds agree where what they fold agrees.
LEMMA FoldsAgree ==
  ASSUME NEW S, IsFiniteSet(S), NEW T, NEW kind, NEW f, NEW e, NEW g, NEW h,
         NEW W, W \subseteq S, W \subseteq T,
         IsFold(g, kind, f, S), IsFold(h, kind, e, T), \A x \in W : f[x] = e[x]
  PROVE  g[W] = h[W]
<1> DEFINE F == {s \in SUBSET W : g[s] # h[s]}
<1>1. SUFFICES ASSUME g[W] # h[W] PROVE FALSE
  OBVIOUS
<1>2. Family(F, S)
  BY <1>1 DEF Family
<1>3. PICK s : IsMinimal(s, F)
  BY <1>2, MinimalSubset
<1>4. s \in SUBSET W /\ g[s] # h[s] /\ \A u \in SUBSET W : u \subseteq s /\ g[u] # h[u] => u = s
  BY <1>3 DEF IsMinimal
<1>5. s # {}
  BY <1>4 DEF IsFold
<1>6. First(s) \in s /\ Rest(s) \subseteq s /\ Rest(s) # s
  BY <1>5, FirstIsIn
<1>7. g[Rest(s)] = h[Rest(s)]
  BY <1>4, <1>6
<1>8. /\ g[s] = Combine(kind, f[First(s)], g[Rest(s)])
      /\ h[s] = Combine(kind, e[First(s)], h[Rest(s)])
  BY <1>4, <1>5 DEF IsFold
<1>9. f[First(s)] = e[First(s)]
  BY <1>4, <1>6
<1> QED BY <1>4, <1>7, <1>8, <1>9

\* The fold over a subset is the same wherever it is defined.
LEMMA FoldsOfOneAgree ==
  ASSUME NEW S, IsFiniteSet(S), NEW kind, NEW f, NEW g, NEW h, NEW T \in SUBSET S,
         IsFold(g, kind, f, S), IsFold(h, kind, f, T)
  PROVE  g[T] = h[T]
BY FoldsAgree

\* The function a fold chooses exists: a least set without one would have one
\* made of those of its subsets.
LEMMA FoldExists ==
  ASSUME NEW S, IsFiniteSet(S), NEW kind, NEW f PROVE \E g : IsFold(g, kind, f, S)
<1> DEFINE F == {T \in SUBSET S : ~ \E g : IsFold(g, kind, f, T)}
<1>1. SUFFICES ASSUME ~ \E g : IsFold(g, kind, f, S) PROVE FALSE
  OBVIOUS
<1>2. Family(F, S)
  BY <1>1 DEF Family
<1>3. PICK T : IsMinimal(T, F)
  BY <1>2, MinimalSubset
<1>4. /\ T \in SUBSET S /\ ~ \E g : IsFold(g, kind, f, T)
      /\ \A U \in SUBSET S : U \subseteq T /\ U # T => \E g : IsFold(g, kind, f, U)
  BY <1>3 DEF IsMinimal
<1> HIDE DEF F
<1> DEFINE Chosen(U) == CHOOSE g : IsFold(g, kind, f, U)
           Value(s) == IF s = {} THEN Unit(kind)
                       ELSE Combine(kind, f[First(s)], Chosen(Rest(s))[Rest(s)])
           G == [s \in SUBSET T |-> Value(s)]
<1>5. ASSUME NEW U \in SUBSET T, U # T PROVE IsFold(Chosen(U), kind, f, U)
  BY <1>4, <1>5
<1>6. ASSUME NEW s \in SUBSET T, s # {} PROVE Rest(s) \in SUBSET T /\ Rest(s) # T
  BY <1>6, FirstIsIn DEF Rest
<1> HIDE DEF Chosen
<1>7. ASSUME NEW s \in SUBSET T, s # {} PROVE Value(Rest(s)) = Chosen(Rest(s))[Rest(s)]
  <2>1. IsFold(Chosen(Rest(s)), kind, f, Rest(s))
    BY <1>5, <1>6, <1>7
  <2>2. Chosen(Rest(s))[Rest(s)] =
          IF Rest(s) = {} THEN Unit(kind)
          ELSE Combine(kind, f[First(Rest(s))], Chosen(Rest(s))[Rest(Rest(s))])
    BY <2>1 DEF IsFold
  <2>3. CASE Rest(s) # {}
    <3> DEFINE r == Rest(s)
               q == Rest(r)
    <3>1. IsFold(Chosen(q), kind, f, q)
      BY <1>5, <1>6, <1>7, <2>3
    <3>2. IsFiniteSet(r) /\ q \in SUBSET r
      BY <1>4, FS_Subset, <1>6, <1>7, <2>3 DEF Rest
    <3> HIDE DEF Value, G, r, q
    <3>3. ASSUME NEW g, IsFold(g, kind, f, r) PROVE g[q] = Chosen(q)[q]
      BY <3>1, <3>2, <3>3, FoldsOfOneAgree
    <3>4. Chosen(r)[q] = Chosen(q)[q]
      BY <2>1, <3>3 DEF r
    <3> QED BY <2>2, <2>3, <3>4 DEF Value, r, q
  <2> QED BY <2>2, <2>3
<1>8. IsFold(G, kind, f, T)
  <2>1. ASSUME NEW s \in SUBSET T
        PROVE  Value(s) = IF s = {} THEN Unit(kind) ELSE Combine(kind, f[First(s)], G[Rest(s)])
    <3>1. CASE s # {}
      <4>1. G[Rest(s)] = Chosen(Rest(s))[Rest(s)]
        BY <1>6, <1>7, <3>1
      <4> QED BY <3>1, <4>1
    <3> QED BY <3>1
  <2> QED BY <2>1 DEF IsFold
<1> QED BY <1>4, <1>8

LEMMA FoldIsFold ==
  ASSUME NEW S, IsFiniteSet(S), NEW kind, NEW f
  PROVE  IsFold(CHOOSE g : IsFold(g, kind, f, S), kind, f, S)
BY FoldExists

\* A fold takes its elements one by one.
LEMMA FoldStep ==
  ASSUME NEW S, IsFiniteSet(S), NEW kind, NEW f, S # {}
  PROVE  Fold(kind, f, S) = Combine(kind, f[First(S)], Fold(kind, f, Rest(S)))
<1>1. PICK g : IsFold(g, kind, f, S) /\ Fold(kind, f, S) = g[S]
  BY FoldIsFold DEF Fold
<1>2. Rest(S) \in SUBSET S /\ IsFiniteSet(Rest(S))
  BY FirstIsIn, FS_Subset
<1>3. PICK h : IsFold(h, kind, f, Rest(S)) /\ Fold(kind, f, Rest(S)) = h[Rest(S)]
  BY <1>2, FoldIsFold DEF Fold
<1>4. g[Rest(S)] = h[Rest(S)]
  BY <1>1, <1>2, <1>3, FoldsOfOneAgree
<1>5. g[S] = Combine(kind, f[First(S)], g[Rest(S)])
  BY <1>1 DEF IsFold
<1> QED BY <1>1, <1>3, <1>4, <1>5

LEMMA FoldOfNone == ASSUME NEW kind, NEW f PROVE Fold(kind, f, {}) = Unit(kind)
<1>1. PICK g : IsFold(g, kind, f, {}) /\ Fold(kind, f, {}) = g[{}]
  BY FoldIsFold, FS_EmptySet DEF Fold
<1> QED BY <1>1 DEF IsFold

\* Folds of functions that agree on the set.
LEMMA EqualFolds ==
  ASSUME NEW S, IsFiniteSet(S), NEW kind, NEW f, NEW e, \A x \in S : f[x] = e[x]
  PROVE  Fold(kind, f, S) = Fold(kind, e, S)
<1>1. PICK g : IsFold(g, kind, f, S) /\ Fold(kind, f, S) = g[S]
  BY FoldIsFold DEF Fold
<1>2. PICK h : IsFold(h, kind, e, S) /\ Fold(kind, e, S) = h[S]
  BY FoldIsFold DEF Fold
<1>3. ASSUME NEW W, W \subseteq S PROVE g[W] = h[W]
  BY <1>1, <1>2, <1>3, FoldsAgree
<1> QED BY <1>1, <1>2, <1>3

LEMMA CombineType ==
  ASSUME NEW kind, NEW m \in Nat, NEW n \in Nat PROVE Combine(kind, m, n) \in Nat
<1>1. m * n \in Nat
  OBVIOUS
<1> QED BY <1>1 DEF Combine

LEMMA CombineSwaps ==
  ASSUME NEW kind, NEW a \in Nat, NEW b \in Nat, NEW c \in Nat
  PROVE  Combine(kind, a, Combine(kind, b, c)) = Combine(kind, b, Combine(kind, a, c))
<1>1. a * (b * c) = b * (a * c)
  OBVIOUS
<1> QED BY <1>1 DEF Combine

\* A fold of numbers is a number.
LEMMA FoldType ==
  ASSUME NEW S, IsFiniteSet(S), NEW kind, NEW f, \A x \in S : f[x] \in Nat
  PROVE  Fold(kind, f, S) \in Nat
<1> DEFINE F == {T \in SUBSET S : Fold(kind, f, T) \notin Nat}
<1>1. SUFFICES ASSUME Fold(kind, f, S) \notin Nat PROVE FALSE
  OBVIOUS
<1>2. Family(F, S)
  BY <1>1 DEF Family
<1>3. PICK T : IsMinimal(T, F)
  BY <1>2, MinimalSubset
<1>4. /\ T \in SUBSET S /\ Fold(kind, f, T) \notin Nat
      /\ \A U \in SUBSET S : U \subseteq T /\ U # T => Fold(kind, f, U) \in Nat
  BY <1>3 DEF IsMinimal
<1>5. IsFiniteSet(T) /\ Fold(kind, f, {}) \in Nat
  BY <1>4, FS_Subset, FoldOfNone DEF Unit
<1>6. T # {} /\ First(T) \in S /\ Rest(T) \in SUBSET S /\ Fold(kind, f, Rest(T)) \in Nat
  BY <1>4, <1>5, FirstIsIn
<1>7. Fold(kind, f, T) = Combine(kind, f[First(T)], Fold(kind, f, Rest(T)))
  BY <1>5, <1>6, FoldStep
<1> QED BY <1>4, <1>6, <1>7, CombineType

\* The order does not matter: any element can be taken first.
LEMMA FoldTakes ==
  ASSUME NEW S, IsFiniteSet(S), NEW kind, NEW f, \A y \in S : f[y] \in Nat, NEW x \in S
  PROVE  Fold(kind, f, S) = Combine(kind, f[x], Fold(kind, f, S \ {x}))
<1> DEFINE Takes(T, y) == Fold(kind, f, T) = Combine(kind, f[y], Fold(kind, f, T \ {y}))
           F == {T \in SUBSET S : \E y \in T : ~Takes(T, y)}
<1>1. SUFFICES ASSUME ~Takes(S, x) PROVE FALSE
  OBVIOUS
<1> HIDE DEF Takes
<1>2. Family(F, S)
  BY <1>1 DEF Family
<1>3. PICK T : IsMinimal(T, F)
  BY <1>2, MinimalSubset
<1>4. /\ T \in SUBSET S /\ \E y \in T : ~Takes(T, y)
      /\ \A U \in SUBSET S : U \subseteq T /\ U # T => \A y \in U : Takes(U, y)
  BY <1>3 DEF IsMinimal
<1>5. PICK y \in T : ~Takes(T, y)
  BY <1>4
<1> DEFINE c == First(T)
           A == T \ {y}
           B == T \ {c}
           C == A \ {c}
<1>6. c \in T /\ y \in S /\ c \in S /\ B = Rest(T)
  BY <1>4, <1>5, FirstIsIn DEF Rest
<1> HIDE DEF c
<1>7. /\ IsFiniteSet(T) /\ IsFiniteSet(A) /\ IsFiniteSet(B) /\ IsFiniteSet(C)
      /\ \A z \in C : f[z] \in Nat
  BY <1>4, FS_Subset
<1>8. Fold(kind, f, T) = Combine(kind, f[c], Fold(kind, f, B))
  BY <1>6, <1>7, FoldStep DEF c
<1>9. c # y
  BY <1>5, <1>8 DEF Takes
<1>10. Takes(B, y) /\ Takes(A, c) /\ B \ {y} = C
  BY <1>4, <1>5, <1>6, <1>9
<1>11. /\ Fold(kind, f, B) = Combine(kind, f[y], Fold(kind, f, C))
       /\ Fold(kind, f, A) = Combine(kind, f[c], Fold(kind, f, C))
  BY <1>10 DEF Takes
<1>12. Fold(kind, f, C) \in Nat /\ f[y] \in Nat /\ f[c] \in Nat
  BY <1>6, <1>7, FoldType
<1> HIDE DEF A, B, C
<1>13. Fold(kind, f, T) = Combine(kind, f[y], Fold(kind, f, A))
  BY <1>8, <1>11, <1>12, CombineSwaps
<1> QED BY <1>5, <1>13 DEF Takes, A

\* The fold over two disjoint sets combines the folds over each.
LEMMA ProductOfUnion ==
  ASSUME NEW A, IsFiniteSet(A), NEW B, IsFiniteSet(B), A \cap B = {},
         NEW f, \A x \in A \cup B : f[x] \in Nat
  PROVE  Fold("product", f, A \cup B) = Fold("product", f, A) * Fold("product", f, B)
<1> DEFINE Of(T) == Fold("product", f, T)
           F == {T \in SUBSET A : Of(T \cup B) # Of(T) * Of(B)}
<1>1. SUFFICES ASSUME Of(A \cup B) # Of(A) * Of(B) PROVE FALSE
  OBVIOUS
<1>2. Family(F, A)
  BY <1>1 DEF Family
<1>3. PICK T : IsMinimal(T, F)
  BY <1>2, MinimalSubset
<1>4. /\ T \in SUBSET A /\ Of(T \cup B) # Of(T) * Of(B)
      /\ \A U \in SUBSET A : U \subseteq T /\ U # T => Of(U \cup B) = Of(U) * Of(B)
  BY <1>3 DEF IsMinimal
<1>5. Of(B) \in Nat
  BY FoldType
<1>6. CASE T = {}
  <2>1. Of({}) = 1 /\ T \cup B = B
    BY <1>6, FoldOfNone DEF Unit
  <2> QED BY <1>4, <1>5, <1>6, <2>1
<1>7. CASE T # {}
  <2>1. PICK x \in T : TRUE
    BY <1>7
  <2> DEFINE U == T \ {x}
             TB == T \cup B
             UB == U \cup B
  <2>2. IsFiniteSet(T) /\ IsFiniteSet(U) /\ IsFiniteSet(TB) /\ IsFiniteSet(UB)
    BY <1>4, FS_Subset, FS_Union
  <2>3. /\ UB = TB \ {x} /\ x \in TB /\ U = T \ {x} /\ x \in T /\ f[x] \in Nat
        /\ \A y \in TB : f[y] \in Nat
        /\ \A y \in T : f[y] \in Nat
        /\ \A y \in U : f[y] \in Nat
    BY <1>4, <2>1
  <2>4. Of(UB) = Of(U) * Of(B)
    BY <1>4, <2>1
  <2> HIDE DEF U, TB, UB
  <2>5. Of(TB) = Combine("product", f[x], Of(TB \ {x}))
    BY <2>2, <2>3, FoldTakes
  <2>6. Of(T) = Combine("product", f[x], Of(T \ {x}))
    BY <2>2, <2>3, FoldTakes
  <2>7. Of(U) \in Nat
    BY <2>2, <2>3, FoldType
  <2> HIDE DEF Of
  <2>8. f[x] * (Of(U) * Of(B)) = (f[x] * Of(U)) * Of(B)
    BY <1>5, <2>3, <2>7
  <2>9. Of(TB) = Of(T) * Of(B)
    BY <2>3, <2>4, <2>5, <2>6, <2>8 DEF Combine
  <2> QED BY <1>4, <2>9 DEF TB
<1> QED BY <1>6, <1>7

\* Powers are folds, too.
LEMMA PowerIsAFold ==
  ASSUME NEW base, NEW n \in Nat
  PROVE  Power(base, n) = Fold("product", [i \in 1 .. n |-> base], 1 .. n)
<1> DEFINE f == [i \in 1 .. n |-> base]
<1>1. 1 .. n = DOMAIN f
  OBVIOUS
<1>2. Product(f) = Fold("product", f, 1 .. n)
  BY <1>1, ProductIsAFold
<1> QED BY <1>2 DEF Power

LEMMA PowerType == ASSUME NEW base \in Nat, NEW n \in Nat PROVE Power(base, n) \in Nat
<1> DEFINE f == [i \in 1 .. n |-> base]
<1>1. \A i \in 1 .. n : f[i] \in Nat
  OBVIOUS
<1>2. IsFiniteSet(1 .. n)
  BY FS_Interval
<1> HIDE DEF f
<1>3. Fold("product", f, 1 .. n) \in Nat
  BY <1>1, <1>2, FoldType
<1> QED BY <1>3, PowerIsAFold DEF f

LEMMA PowerOfZero == ASSUME NEW base \in Nat PROVE Power(base, 0) = 1
<1>1. 1 .. 0 = {}
  OBVIOUS
<1> QED BY <1>1, PowerIsAFold, FoldOfNone DEF Unit

LEMMA PowerStep ==
  ASSUME NEW base \in Nat, NEW n \in Nat, NEW m, m = n + 1
  PROVE  Power(base, m) = base * Power(base, n)
<1> DEFINE f == [i \in 1 .. m |-> base]
           e == [i \in 1 .. n |-> base]
           M == 1 .. m
           N == 1 .. n
<1>1. m \in Nat /\ m \in M /\ N = M \ {m} /\ f[m] = base
  OBVIOUS
<1>2. (\A i \in N : f[i] = e[i]) /\ (\A i \in M : f[i] \in Nat)
  OBVIOUS
<1>3. IsFiniteSet(M) /\ IsFiniteSet(N)
  BY FS_Interval, <1>1
<1>4. Power(base, m) = Fold("product", f, M) /\ Power(base, n) = Fold("product", e, N)
  BY <1>1, PowerIsAFold
<1> HIDE DEF f, e, M, N
<1>5. ASSUME NEW x \in M
      PROVE  Fold("product", f, M) = Combine("product", f[x], Fold("product", f, M \ {x}))
  BY <1>2, <1>3, FoldTakes
<1>6. Fold("product", f, N) = Fold("product", e, N)
  BY <1>2, <1>3, EqualFolds
<1> QED BY <1>1, <1>4, <1>5, <1>6 DEF Combine

------------------------------------------------------------------------------
(* Nibbles and their bits *)

LEMMA BitsOfNibbles ==
  ASSUME NEW v \in Nibble, NEW b \in 0 .. 3 PROVE NibbleBit(v, b) \in {0, 1}
BY DEF NibbleBit, Nibble

\* A nibble is its bits, and bits are those of their nibble.
LEMMA NibbleOfItsBits ==
  ASSUME NEW v \in Nibble PROVE FromBits([b \in 0 .. 3 |-> NibbleBit(v, b)]) = v
<1>1. /\ NibbleBit(v, 0) = (v \div 8) % 2 /\ NibbleBit(v, 1) = (v \div 4) % 2
      /\ NibbleBit(v, 2) = (v \div 2) % 2 /\ NibbleBit(v, 3) = v % 2
  BY DEF NibbleBit, Nibble
<1>2. v = 8 * ((v \div 8) % 2) + 4 * ((v \div 4) % 2) + 2 * ((v \div 2) % 2) + (v % 2)
  BY DEF Nibble
<1> QED BY <1>1, <1>2 DEF FromBits

LEMMA BitsOfTheirNibble ==
  ASSUME NEW bit \in [0 .. 3 -> {0, 1}]
  PROVE  FromBits(bit) \in Nibble /\ \A b \in 0 .. 3 : NibbleBit(FromBits(bit), b) = bit[b]
<1> DEFINE v == FromBits(bit)
<1>1. /\ bit[0] \in {0, 1} /\ bit[1] \in {0, 1} /\ bit[2] \in {0, 1} /\ bit[3] \in {0, 1}
      /\ v = 8 * bit[0] + 4 * bit[1] + 2 * bit[2] + bit[3]
  BY DEF FromBits
<1> HIDE DEF v
<1>2. v \in Nibble
  BY <1>1 DEF Nibble
<1>3. /\ NibbleBit(v, 0) = (v \div 8) % 2 /\ NibbleBit(v, 1) = (v \div 4) % 2
      /\ NibbleBit(v, 2) = (v \div 2) % 2 /\ NibbleBit(v, 3) = v % 2
  BY <1>2 DEF NibbleBit, Nibble
<1>4. /\ (v \div 8) % 2 = bit[0] /\ (v \div 4) % 2 = bit[1]
      /\ (v \div 2) % 2 = bit[2] /\ v % 2 = bit[3]
  BY <1>1
<1> QED BY <1>2, <1>3, <1>4 DEF v

\* Xor is bitwise, on nibbles and on states.
LEMMA XorBits ==
  ASSUME NEW x \in Nibble, NEW y \in Nibble
  PROVE  /\ Xor[x][y] \in Nibble
         /\ \A b \in 0 .. 3 : NibbleBit(Xor[x][y], b) = (NibbleBit(x, b) + NibbleBit(y, b)) % 2
<1> DEFINE bit == [b \in 0 .. 3 |-> (NibbleBit(x, b) + NibbleBit(y, b)) % 2]
<1>1. \A b \in 0 .. 3 : NibbleBit(x, b) \in {0, 1} /\ NibbleBit(y, b) \in {0, 1}
  BY BitsOfNibbles
<1>2. bit \in [0 .. 3 -> {0, 1}]
  BY <1>1
<1>3. Xor[x][y] = FromBits([b \in 0 .. 3 |-> (NibbleBit(x, b) + NibbleBit(y, b)) % 2])
  BY DEF Xor
<1>4. \A b \in 0 .. 3 : bit[b] = (NibbleBit(x, b) + NibbleBit(y, b)) % 2
  OBVIOUS
<1> HIDE DEF bit
<1> QED BY <1>2, <1>3, <1>4, BitsOfTheirNibble

LEMMA NibblesByBits ==
  ASSUME NEW v \in Nibble, NEW w \in Nibble, \A b \in 0 .. 3 : NibbleBit(v, b) = NibbleBit(w, b)
  PROVE  v = w
<1>1. [b \in 0 .. 3 |-> NibbleBit(v, b)] = [b \in 0 .. 3 |-> NibbleBit(w, b)]
  OBVIOUS
<1> QED BY <1>1, NibbleOfItsBits

\* Where the bits of a nibble are in a state.
LEMMA PlacesOfBits ==
  /\ \A i \in Bits : /\ i \div 4 \in 0 .. Nibbles - 1 /\ i % 4 \in 0 .. 3
                     /\ 4 * (i \div 4) + (i % 4) = i
  /\ \A k \in 0 .. Nibbles - 1, b \in 0 .. 3 :
       4 * k + b \in Bits /\ (4 * k + b) \div 4 = k /\ (4 * k + b) % 4 = b
BY VerifierAssumption DEF Bits

LEMMA StateBitsType ==
  ASSUME NEW s \in State PROVE StateBits(s) \in [Bits -> {0, 1}]
<1>1. ASSUME NEW i \in Bits PROVE NibbleBit(s[i \div 4], i % 4) \in {0, 1}
  <2>1. i \div 4 \in 0 .. Nibbles - 1 /\ i % 4 \in 0 .. 3
    BY PlacesOfBits
  <2>2. s[i \div 4] \in Nibble
    BY <2>1 DEF State
  <2> QED BY <2>1, <2>2, BitsOfNibbles
<1> QED BY <1>1 DEF StateBits

\* A state is its bits: _bits_to_nibbles undoes _nibbles_to_bits.
LEMMA StateOfBits ==
  ASSUME NEW bits \in [Bits -> {0, 1}]
  PROVE  StateNibbles(bits) \in State /\ StateBits(StateNibbles(bits)) = bits
<1> DEFINE Of(k) == [b \in 0 .. 3 |-> bits[4 * k + b]]
           s == StateNibbles(bits)
<1>1. ASSUME NEW k \in 0 .. Nibbles - 1
      PROVE  /\ Of(k) \in [0 .. 3 -> {0, 1}]
             /\ \A b \in 0 .. 3 : Of(k)[b] = bits[4 * k + b]
  BY PlacesOfBits
<1>2. s = [k \in 0 .. Nibbles - 1 |-> FromBits(Of(k))]
  BY DEF StateNibbles
<1> HIDE DEF Of, s
<1>3. ASSUME NEW k \in 0 .. Nibbles - 1
      PROVE  /\ s[k] \in Nibble /\ s[k] = FromBits(Of(k))
             /\ \A b \in 0 .. 3 : NibbleBit(s[k], b) = bits[4 * k + b]
  BY <1>1, <1>2, BitsOfTheirNibble
<1>4. s \in State
  BY <1>2, <1>3 DEF State
<1>5. ASSUME NEW i \in Bits PROVE NibbleBit(s[i \div 4], i % 4) = bits[i]
  <2>1. i \div 4 \in 0 .. Nibbles - 1 /\ i % 4 \in 0 .. 3 /\ 4 * (i \div 4) + (i % 4) = i
    BY PlacesOfBits
  <2>2. ASSUME NEW k \in 0 .. Nibbles - 1, NEW b \in 0 .. 3, 4 * k + b = i
        PROVE  NibbleBit(s[k], b) = bits[i]
    BY <1>3, <2>2
  <2> QED BY <2>1, <2>2
<1>6. StateBits(s) = bits
  BY <1>5 DEF StateBits
<1> QED BY <1>4, <1>6 DEF s

LEMMA StatesByBits ==
  ASSUME NEW s \in State, NEW t \in State, \A i \in Bits : StateBits(s)[i] = StateBits(t)[i]
  PROVE  s = t
<1>1. ASSUME NEW k \in 0 .. Nibbles - 1 PROVE s[k] = t[k]
  <2>1. s[k] \in Nibble /\ t[k] \in Nibble
    BY DEF State
  <2>2. ASSUME NEW b \in 0 .. 3 PROVE NibbleBit(s[k], b) = NibbleBit(t[k], b)
    <3>1. ASSUME NEW i, i = 4 * k + b PROVE i \in Bits /\ i \div 4 = k /\ i % 4 = b
      BY <3>1, PlacesOfBits
    <3>2. ASSUME NEW i, i = 4 * k + b PROVE NibbleBit(s[k], b) = NibbleBit(t[k], b)
      BY <3>1, <3>2 DEF StateBits
    <3> QED BY <3>2
  <2> QED BY <2>1, <2>2, NibblesByBits
<1>2. DOMAIN s = 0 .. Nibbles - 1 /\ DOMAIN t = 0 .. Nibbles - 1
      /\ s = [k \in DOMAIN s |-> s[k]] /\ t = [k \in DOMAIN t |-> t[k]]
  BY DEF State
<1> QED BY <1>1, <1>2, Zenon

LEMMA StateXorBits ==
  ASSUME NEW s \in State, NEW t \in State
  PROVE  /\ StateXor(s, t) \in State
         /\ \A i \in Bits : StateBits(StateXor(s, t))[i] = (StateBits(s)[i] + StateBits(t)[i]) % 2
<1>1. ASSUME NEW k \in 0 .. Nibbles - 1
      PROVE  /\ s[k] \in Nibble /\ t[k] \in Nibble /\ StateXor(s, t)[k] = Xor[s[k]][t[k]]
             /\ Xor[s[k]][t[k]] \in Nibble
  BY XorBits DEF State, StateXor
<1>2. StateXor(s, t) \in State
  BY <1>1 DEF State, StateXor
<1>3. ASSUME NEW i \in Bits
      PROVE  StateBits(StateXor(s, t))[i] = (StateBits(s)[i] + StateBits(t)[i]) % 2
  <2>1. i \div 4 \in 0 .. Nibbles - 1 /\ i % 4 \in 0 .. 3
    BY PlacesOfBits
  <2>2. ASSUME NEW k \in 0 .. Nibbles - 1, NEW b \in 0 .. 3
        PROVE  NibbleBit(StateXor(s, t)[k], b) = (NibbleBit(s[k], b) + NibbleBit(t[k], b)) % 2
    <3>1. s[k] \in Nibble /\ t[k] \in Nibble /\ StateXor(s, t)[k] = Xor[s[k]][t[k]]
      BY <1>1
    <3>2. NibbleBit(Xor[s[k]][t[k]], b) = (NibbleBit(s[k], b) + NibbleBit(t[k], b)) % 2
      BY <3>1, XorBits
    <3> QED BY <3>1, <3>2
  <2>3. NibbleBit(StateXor(s, t)[i \div 4], i % 4)
          = (NibbleBit(s[i \div 4], i % 4) + NibbleBit(t[i \div 4], i % 4)) % 2
    BY <2>1, <2>2
  <2> QED BY <2>3 DEF StateBits
<1> QED BY <1>2, <1>3

------------------------------------------------------------------------------
(* A round, S-box by S-box *)

Source(j) == CHOOSE i \in Bits : Permutation[i] = j

\* The bit permutation is one: every bit comes from exactly one.
LEMMA PermutationHasSources ==
  /\ \A j \in Bits : Source(j) \in Bits /\ Permutation[Source(j)] = j
  /\ \A i \in Bits : Permutation[i] \in Bits /\ Source(Permutation[i]) = i
<1>1. /\ Permutation \in [Bits -> Bits]
      /\ \A i, j \in Bits : Permutation[i] = Permutation[j] => i = j
  BY VerifierAssumption
<1>2. IsFiniteSet(Bits)
  BY FS_Interval, VerifierAssumption DEF Bits
<1>3. Permutation \in Injection(Bits, Bits)
  BY <1>1 DEF Injection, IsInjective
<1>4. Permutation \in Surjection(Bits, Bits)
  BY <1>2, <1>3, FS_Injection
<1>5. \A j \in Bits : \E i \in Bits : Permutation[i] = j
  BY <1>4 DEF Surjection
<1>6. \A j \in Bits : Source(j) \in Bits /\ Permutation[Source(j)] = j
  BY <1>5 DEF Source
<1> QED BY <1>1, <1>6

LEMMA SboxType == ASSUME NEW v \in Nibble PROVE Sbox(v) \in Nibble
BY DEF Sbox, GIFT64_SBOX, Nibble

Substituted(x) == [k \in 0 .. Nibbles - 1 |-> Sbox(x[k])]

LEMMA SubstitutedType == ASSUME NEW x \in State PROVE Substituted(x) \in State
BY SboxType DEF State, Substituted

\* Where the bits of a round's S-boxes go, and where those of its output come from.
LEMMA RoundBits ==
  ASSUME NEW x \in State
  PROVE  /\ RoundFunction[x] \in State
         /\ \A j \in Bits : StateBits(RoundFunction[x])[j] = StateBits(Substituted(x))[Source(j)]
<1> DEFINE bits == StateBits(Substituted(x))
           moved == [j \in Bits |-> bits[Source(j)]]
<1>1. bits \in [Bits -> {0, 1}]
  BY SubstitutedType, StateBitsType
<1>2. moved \in [Bits -> {0, 1}]
  BY <1>1, PermutationHasSources
<1>3. RoundFunction[x] = StateNibbles(moved)
  BY DEF RoundFunction, Substituted, Source
<1>4. \A j \in Bits : moved[j] = bits[Source(j)]
  OBVIOUS
<1> HIDE DEF bits, moved
<1>5. RoundFunction[x] \in State /\ StateBits(RoundFunction[x]) = moved
  BY <1>2, <1>3, StateOfBits
<1> QED BY <1>4, <1>5 DEF bits

LEMMA LogicalBits ==
  ASSUME NEW output \in State
  PROVE  /\ LogicalOutput(output) \in State
         /\ \A i \in Bits : StateBits(LogicalOutput(output))[i] = StateBits(output)[Permutation[i]]
<1> DEFINE bits == StateBits(output)
           moved == [i \in Bits |-> bits[Permutation[i]]]
<1>1. bits \in [Bits -> {0, 1}]
  BY StateBitsType
<1>2. moved \in [Bits -> {0, 1}]
  BY <1>1, PermutationHasSources
<1>3. LogicalOutput(output) = StateNibbles(moved)
  BY DEF LogicalOutput
<1>4. \A i \in Bits : moved[i] = bits[Permutation[i]]
  OBVIOUS
<1> HIDE DEF bits, moved
<1>5. LogicalOutput(output) \in State /\ StateBits(LogicalOutput(output)) = moved
  BY <1>2, <1>3, StateOfBits
<1> QED BY <1>4, <1>5 DEF bits

\* The round function is linear after its S-boxes, so that two states lead to an
\* output difference iff their S-boxes differ in its logical output.
LEMMA DifferenceOfRounds ==
  ASSUME NEW x \in State, NEW y \in State, NEW output \in State
  PROVE  StateXor(RoundFunction[x], RoundFunction[y]) = output
           <=> StateXor(Substituted(x), Substituted(y)) = LogicalOutput(output)
<1> DEFINE after == StateXor(RoundFunction[x], RoundFunction[y])
           before == StateXor(Substituted(x), Substituted(y))
           logical == LogicalOutput(output)
<1>1. /\ RoundFunction[x] \in State /\ RoundFunction[y] \in State
      /\ Substituted(x) \in State /\ Substituted(y) \in State
  BY RoundBits, SubstitutedType
<1>2. /\ after \in State /\ before \in State /\ logical \in State
  BY <1>1, StateXorBits, LogicalBits
<1>3. ASSUME NEW i \in Bits PROVE StateBits(before)[i] = StateBits(after)[Permutation[i]]
  <2>1. Permutation[i] \in Bits /\ Source(Permutation[i]) = i
    BY PermutationHasSources
  <2>2. StateBits(after)[Permutation[i]] =
          (StateBits(RoundFunction[x])[Permutation[i]] + StateBits(RoundFunction[y])[Permutation[i]]) % 2
    BY <1>1, <2>1, StateXorBits
  <2>3. /\ StateBits(RoundFunction[x])[Permutation[i]] = StateBits(Substituted(x))[i]
        /\ StateBits(RoundFunction[y])[Permutation[i]] = StateBits(Substituted(y))[i]
    BY <2>1, RoundBits
  <2>4. StateBits(before)[i] = (StateBits(Substituted(x))[i] + StateBits(Substituted(y))[i]) % 2
    BY <1>1, StateXorBits
  <2> QED BY <2>2, <2>3, <2>4
<1>4. \A i \in Bits : StateBits(logical)[i] = StateBits(output)[Permutation[i]]
  BY LogicalBits
<1> HIDE DEF after, before, logical
<1>5. ASSUME after = output PROVE before = logical
  <2>1. \A i \in Bits : StateBits(before)[i] = StateBits(logical)[i]
    BY <1>3, <1>4, <1>5
  <2> QED BY <1>2, <2>1, StatesByBits
<1>6. ASSUME before = logical PROVE after = output
  <2>1. ASSUME NEW j \in Bits PROVE StateBits(after)[j] = StateBits(output)[j]
    <3>1. Source(j) \in Bits /\ Permutation[Source(j)] = j
      BY PermutationHasSources
    <3>2. /\ StateBits(before)[Source(j)] = StateBits(after)[Permutation[Source(j)]]
          /\ StateBits(logical)[Source(j)] = StateBits(output)[Permutation[Source(j)]]
      BY <1>3, <1>4, <3>1
    <3> QED BY <1>6, <3>1, <3>2
  <2> QED BY <1>2, <2>1, StatesByBits
<1> QED BY <1>5, <1>6 DEF after, before, logical

\* The inputs of an S-box that follow a transition.
Followers(a, b) == {v \in Nibble : Xor[Sbox(v)][Sbox(Xor[v][a])] = b}

LEMMA TableCountsFollowers ==
  ASSUME NEW a \in Nibble, NEW b \in Nibble PROVE GIFT64_DDT[a][b] = Cardinality(Followers(a, b))
BY DEF GIFT64_DDT, Followers

FollowersAt(round, k) == Followers(round.input[k], LogicalOutput(round.output)[k])

\* A state follows a round iff each of its nibbles follows the S-box transition.
LEMMA FollowsIsLocal ==
  ASSUME NEW x \in State, NEW round \in TrailRound
  PROVE  Follows(x, round) <=> \A k \in 0 .. Nibbles - 1 : x[k] \in FollowersAt(round, k)
<1> DEFINE y == StateXor(x, round.input)
           logical == LogicalOutput(round.output)
           before == StateXor(Substituted(x), Substituted(y))
<1>1. round.input \in State /\ round.output \in State
  BY DEF TrailRound
<1>2. y \in State /\ logical \in State
  BY <1>1, StateXorBits, LogicalBits
<1>3. Follows(x, round) <=> before = logical
  BY <1>1, <1>2, DifferenceOfRounds DEF Follows
<1>4. ASSUME NEW k \in 0 .. Nibbles - 1
      PROVE  /\ x[k] \in Nibble /\ y[k] = Xor[x[k]][round.input[k]]
             /\ before[k] = Xor[Sbox(x[k])][Sbox(y[k])]
  BY DEF State, StateXor, Substituted
<1>5. ASSUME NEW k \in 0 .. Nibbles - 1
      PROVE  before[k] = logical[k] <=> x[k] \in FollowersAt(round, k)
  BY <1>4 DEF FollowersAt, Followers
<1>6. before \in State
  BY <1>2, SubstitutedType, StateXorBits
<1> HIDE DEF y, logical, before
<1>7. before = logical <=> \A k \in 0 .. Nibbles - 1 : before[k] = logical[k]
  <2>1. /\ before = [k \in 0 .. Nibbles - 1 |-> before[k]]
        /\ logical = [k \in 0 .. Nibbles - 1 |-> logical[k]]
    BY <1>2, <1>6 DEF State
  <2> QED BY <2>1, Zenon
<1> QED BY <1>3, <1>5, <1>7

------------------------------------------------------------------------------
(* Counting the states that follow a round *)

Choices(A, T, V) == {x \in [T -> V] : \A k \in T : x[k] \in A[k]}
Extended(T, y, k, v) == [j \in T |-> IF j = k THEN v ELSE y[j]]

\* A choice for T is one for T without k, and one for k.
LEMMA ChoicesSplit ==
  ASSUME NEW T, NEW k \in T, NEW U, U = T \ {k}, NEW V, NEW A, A[k] \subseteq V
  PROVE  ExistsBijection(Choices(A, U, V) \X A[k], Choices(A, T, V))
<1> DEFINE S == Choices(A, U, V) \X A[k]
           W == Choices(A, T, V)
           h == [p \in S |-> Extended(T, p[1], k, p[2])]
<1>1. ASSUME NEW p \in S
      PROVE  /\ p[1] \in [U -> V] /\ p[2] \in A[k] /\ p = <<p[1], p[2]>>
             /\ \A j \in U : p[1][j] \in A[j]
  BY DEF Choices
<1>2. ASSUME NEW p \in S PROVE Extended(T, p[1], k, p[2]) \in W
  BY <1>1 DEF Choices, Extended
<1>3. h \in [S -> W]
  BY <1>2
<1>4. ASSUME NEW p \in S, NEW q \in S, h[p] = h[q] PROVE p = q
  <2>1. Extended(T, p[1], k, p[2]) = Extended(T, q[1], k, q[2])
    BY <1>4
  <2>2. p[2] = q[2]
    BY <2>1 DEF Extended
  <2>3. ASSUME NEW j \in U PROVE p[1][j] = q[1][j]
    <3>1. j \in T /\ j # k
      OBVIOUS
    <3> QED BY <2>1, <3>1 DEF Extended
  <2>4. p[1] = q[1]
    <3>1. p[1] \in [U -> V] /\ q[1] \in [U -> V]
      BY <1>1
    <3> QED BY <2>3, <3>1
  <2> QED BY <1>1, <2>2, <2>4
<1>5. ASSUME NEW x \in W PROVE \E p \in S : h[p] = x
  <2> DEFINE y == [j \in U |-> x[j]]
             p == <<y, x[k]>>
  <2>1. x \in [T -> V] /\ \A j \in T : x[j] \in A[j]
    BY DEF Choices
  <2>2. y \in Choices(A, U, V)
    BY <2>1 DEF Choices
  <2>3. p \in S /\ p[1] = y /\ p[2] = x[k]
    BY <2>1, <2>2
  <2>4. Extended(T, y, k, x[k]) = x
    BY <2>1 DEF Extended
  <2>5. h[p] = x
    BY <2>3, <2>4
  <2> QED BY <2>3, <2>5
<1> HIDE DEF h, S, W
<1>6. h \in Injection(S, W)
  BY <1>3, <1>4 DEF Injection, IsInjective
<1>7. h \in Surjection(S, W)
  BY <1>3, <1>5 DEF Surjection
<1> QED BY <1>6, <1>7 DEF ExistsBijection, Bijection, S, W

\* Independent choices multiply.
LEMMA ChoicesAreCounted ==
  ASSUME NEW K, IsFiniteSet(K), NEW V, NEW A,
         \A k \in K : A[k] \subseteq V /\ IsFiniteSet(A[k]),
         NEW size, \A k \in K : size[k] = Cardinality(A[k])
  PROVE  /\ IsFiniteSet(Choices(A, K, V))
         /\ Cardinality(Choices(A, K, V)) = Fold("product", size, K)
<1> DEFINE Counted(T) == /\ IsFiniteSet(Choices(A, T, V))
                         /\ Cardinality(Choices(A, T, V)) = Fold("product", size, T)
           F == {T \in SUBSET K : ~Counted(T)}
<1>1. SUFFICES ASSUME ~Counted(K) PROVE FALSE
  OBVIOUS
<1> HIDE DEF Counted
<1>2. Family(F, K)
  BY <1>1 DEF Family
<1>3. PICK T : IsMinimal(T, F)
  BY <1>2, MinimalSubset
<1>4. /\ T \in SUBSET K /\ ~Counted(T)
      /\ \A U \in SUBSET K : U \subseteq T /\ U # T => Counted(U)
  BY <1>3 DEF IsMinimal
<1>5. CASE T = {}
  <2> DEFINE empty == [j \in {} |-> 0]
  <2>1. [{} -> V] = {empty}
    OBVIOUS
  <2>2. Choices(A, {}, V) = {empty}
    BY <2>1 DEF Choices
  <2>3. IsFiniteSet({empty}) /\ Cardinality({empty}) = 1
    BY FS_Singleton
  <2>4. Fold("product", size, {}) = 1
    BY FoldOfNone DEF Unit
  <2> QED BY <1>4, <1>5, <2>2, <2>3, <2>4 DEF Counted
<1>6. CASE T # {}
  <2>1. PICK k \in T : TRUE
    BY <1>6
  <2> DEFINE U == T \ {k}
             CU == Choices(A, U, V)
             CT == Choices(A, T, V)
  <2>2. Counted(U)
    BY <1>4, <2>1
  <2>3. /\ IsFiniteSet(CU) /\ Cardinality(CU) = Fold("product", size, U)
        /\ A[k] \subseteq V /\ IsFiniteSet(A[k]) /\ size[k] = Cardinality(A[k])
    BY <1>4, <2>1, <2>2 DEF Counted
  <2>4. ExistsBijection(CU \X A[k], CT)
    BY <2>1, <2>3, ChoicesSplit
  <2>5. IsFiniteSet(T) /\ \A j \in T : size[j] \in Nat
    BY <1>4, FS_Subset, FS_CardinalityType
  <2>6. Fold("product", size, T) = Combine("product", size[k], Fold("product", size, T \ {k}))
    BY <2>5, FoldTakes
  <2> DEFINE P == CU \X A[k]
  <2>7. IsFiniteSet(P) /\ Cardinality(P) = Cardinality(CU) * Cardinality(A[k])
    BY <2>3, FS_Product
  <2>8. Cardinality(CU) \in Nat /\ Cardinality(A[k]) \in Nat
    BY <2>3, FS_CardinalityType
  <2> HIDE DEF CU, CT, P
  <2>9. ASSUME NEW Q, Q = P PROVE IsFiniteSet(CT) /\ Cardinality(CT) = Cardinality(Q)
    BY <2>4, <2>7, <2>9, FS_Bijection DEF P
  <2>10. Cardinality(CU) * Cardinality(A[k]) = Cardinality(A[k]) * Cardinality(CU)
    BY <2>8
  <2>11. IsFiniteSet(CT) /\ Cardinality(CT) = Fold("product", size, T)
    BY <2>3, <2>6, <2>7, <2>9, <2>10 DEF Combine
  <2> QED BY <1>4, <2>11 DEF Counted, CT
<1> QED BY <1>5, <1>6

------------------------------------------------------------------------------
(* The counts in the difference table *)

LEMMA SumOfBits ==
  ASSUME NEW m \in Nat, NEW n \in Nat PROVE ((m % 2) + (n % 2)) % 2 = (m + n) % 2
OBVIOUS

\* The xor of two nibbles, for evaluating the table.
LEMMA XorIsBitwise ==
  ASSUME NEW x \in Nibble, NEW y \in Nibble
  PROVE  Xor[x][y] = 8 * (((x \div 8) + (y \div 8)) % 2) + 4 * (((x \div 4) + (y \div 4)) % 2)
                       + 2 * (((x \div 2) + (y \div 2)) % 2) + ((x + y) % 2)
<1>1. Xor[x][y] = FromBits([b \in 0 .. 3 |-> (NibbleBit(x, b) + NibbleBit(y, b)) % 2])
  BY DEF Xor
<1>2. ASSUME NEW v \in Nibble
      PROVE  /\ NibbleBit(v, 0) = (v \div 8) % 2 /\ NibbleBit(v, 1) = (v \div 4) % 2
             /\ NibbleBit(v, 2) = (v \div 2) % 2 /\ NibbleBit(v, 3) = v % 2
             /\ v \div 8 \in Nat /\ v \div 4 \in Nat /\ v \div 2 \in Nat /\ v \in Nat
  BY DEF NibbleBit, Nibble
<1>3. (NibbleBit(x, 0) + NibbleBit(y, 0)) % 2 = ((x \div 8) + (y \div 8)) % 2
  BY <1>2, SumOfBits
<1>4. (NibbleBit(x, 1) + NibbleBit(y, 1)) % 2 = ((x \div 4) + (y \div 4)) % 2
  BY <1>2, SumOfBits
<1>5. (NibbleBit(x, 2) + NibbleBit(y, 2)) % 2 = ((x \div 2) + (y \div 2)) % 2
  BY <1>2, SumOfBits
<1>6. (NibbleBit(x, 3) + NibbleBit(y, 3)) % 2 = (x + y) % 2
  BY <1>2, SumOfBits
<1> QED BY <1>1, <1>3, <1>4, <1>5, <1>6 DEF FromBits

Difference(a, v) == Xor[Sbox(v)][Sbox(Xor[v][a])]

Row(a, d) ==
  /\ Difference(a, 0) = d[1] /\ Difference(a, 1) = d[2] /\ Difference(a, 2) = d[3]
  /\ Difference(a, 3) = d[4] /\ Difference(a, 4) = d[5] /\ Difference(a, 5) = d[6]
  /\ Difference(a, 6) = d[7] /\ Difference(a, 7) = d[8] /\ Difference(a, 8) = d[9]
  /\ Difference(a, 9) = d[10] /\ Difference(a, 10) = d[11] /\ Difference(a, 11) = d[12]
  /\ Difference(a, 12) = d[13] /\ Difference(a, 13) = d[14] /\ Difference(a, 14) = d[15]
  /\ Difference(a, 15) = d[16]

\* How often b is in a row.
Is(x, b) == IF x = b THEN 1 ELSE 0
Occurrences(d, b) ==
  Is(d[1], b) + (Is(d[2], b) + (Is(d[3], b) + (Is(d[4], b) + (Is(d[5], b) + (Is(d[6], b)
    + (Is(d[7], b) + (Is(d[8], b) + (Is(d[9], b) + (Is(d[10], b) + (Is(d[11], b) + (Is(d[12], b)
    + (Is(d[13], b) + (Is(d[14], b) + (Is(d[15], b) + Is(d[16], b)))))))))))))))

\* Counting a set of numbers one number after the other.
LEMMA OneMore ==
  ASSUME NEW T, NEW n \in Nat, NEW m, m = n + 1
  PROVE  Cardinality(T \cap (0 .. m)) = Cardinality(T \cap (0 .. n)) + (IF m \in T THEN 1 ELSE 0)
<1> DEFINE A == T \cap (0 .. n)
<1>1. IsFiniteSet(A) /\ m \notin A
  <2>1. IsFiniteSet(0 .. n)
    BY FS_Interval
  <2>2. A \in SUBSET (0 .. n) /\ m \notin A
    OBVIOUS
  <2> QED BY <2>1, <2>2, FS_Subset
<1>2. CASE m \in T
  <2>1. T \cap (0 .. m) = A \cup {m}
    BY <1>2
  <2> HIDE DEF A
  <2>2. Cardinality(A \cup {m}) = Cardinality(A) + 1
    BY <1>1, FS_AddElement
  <2> QED BY <1>2, <2>1, <2>2 DEF A
<1>3. CASE m \notin T
  <2>1. T \cap (0 .. m) = A
    BY <1>3
  <2>2. Cardinality(A) \in Nat
    BY <1>1, FS_CardinalityType
  <2> QED BY <1>3, <2>1, <2>2
<1> QED BY <1>2, <1>3

Within(v, T) == IF v \in T THEN 1 ELSE 0

\* A set of nibbles has as many elements as nibbles are in it.
LEMMA NibblesAreCounted ==
  ASSUME NEW T, T \subseteq Nibble
  PROVE  Cardinality(T) =
           Within(0, T) + (Within(1, T) + (Within(2, T) + (Within(3, T) + (Within(4, T)
             + (Within(5, T) + (Within(6, T) + (Within(7, T) + (Within(8, T) + (Within(9, T)
             + (Within(10, T) + (Within(11, T) + (Within(12, T) + (Within(13, T)
             + (Within(14, T) + Within(15, T)))))))))))))))
<1> DEFINE Upto(n) == Cardinality(T \cap (0 .. n))
<1>1. Upto(0) = Within(0, T)
  <2>1. CASE 0 \in T
    <3>1. T \cap (0 .. 0) = {0}
      BY <2>1
    <3> QED BY <2>1, <3>1, FS_Singleton DEF Within
  <2>2. CASE 0 \notin T
    <3>1. T \cap (0 .. 0) = {}
      BY <2>2
    <3> QED BY <2>2, <3>1, FS_EmptySet DEF Within
  <2> QED BY <2>1, <2>2
<1>2. ASSUME NEW n \in Nat, NEW m, m = n + 1 PROVE Upto(m) = Upto(n) + Within(m, T)
  BY <1>2, OneMore DEF Within
<1>3. Upto(15) = Cardinality(T)
  <2>1. T \cap (0 .. 15) = T
    BY DEF Nibble
  <2> QED BY <2>1
<1> HIDE DEF Upto
<1>4. /\ Upto(1) = Upto(0) + Within(1, T) /\ Upto(2) = Upto(1) + Within(2, T)
      /\ Upto(3) = Upto(2) + Within(3, T) /\ Upto(4) = Upto(3) + Within(4, T)
      /\ Upto(5) = Upto(4) + Within(5, T) /\ Upto(6) = Upto(5) + Within(6, T)
      /\ Upto(7) = Upto(6) + Within(7, T) /\ Upto(8) = Upto(7) + Within(8, T)
      /\ Upto(9) = Upto(8) + Within(9, T) /\ Upto(10) = Upto(9) + Within(10, T)
      /\ Upto(11) = Upto(10) + Within(11, T) /\ Upto(12) = Upto(11) + Within(12, T)
      /\ Upto(13) = Upto(12) + Within(13, T) /\ Upto(14) = Upto(13) + Within(14, T)
      /\ Upto(15) = Upto(14) + Within(15, T)
  BY <1>2
<1>5. \A v : Within(v, T) \in {0, 1}
  BY DEF Within
<1> QED BY <1>1, <1>3, <1>4, <1>5, SMTT(60)

\* A row of the table counts the S-box differences of its input difference.
LEMMA RowCounts ==
  ASSUME NEW a \in Nibble, NEW d, Row(a, d), NEW b \in Nibble
  PROVE  GIFT64_DDT[a][b] = Occurrences(d, b)
<1> DEFINE T == Followers(a, b)
<1>1. T \subseteq Nibble /\ \A v \in Nibble : v \in T <=> Difference(a, v) = b
  BY DEF Followers, Difference
<1>2. GIFT64_DDT[a][b] = Cardinality(T)
  BY TableCountsFollowers
<1> HIDE DEF T
<1>3. /\ Within(0, T) = Is(d[1], b) /\ Within(1, T) = Is(d[2], b) /\ Within(2, T) = Is(d[3], b)
      /\ Within(3, T) = Is(d[4], b) /\ Within(4, T) = Is(d[5], b) /\ Within(5, T) = Is(d[6], b)
      /\ Within(6, T) = Is(d[7], b) /\ Within(7, T) = Is(d[8], b) /\ Within(8, T) = Is(d[9], b)
      /\ Within(9, T) = Is(d[10], b) /\ Within(10, T) = Is(d[11], b)
      /\ Within(11, T) = Is(d[12], b) /\ Within(12, T) = Is(d[13], b)
      /\ Within(13, T) = Is(d[14], b) /\ Within(14, T) = Is(d[15], b)
      /\ Within(15, T) = Is(d[16], b)
  BY <1>1 DEF Row, Within, Is, Nibble
<1> QED BY <1>1, <1>2, <1>3, NibblesAreCounted DEF Occurrences

\* The counts of the GIFT S-box: TransitionWeight has a case for each but 0.
LEMMA CountsOfTheTable ==
  ASSUME NEW a \in Nibble, NEW b \in Nibble PROVE GIFT64_DDT[a][b] \in {0, 2, 4, 6, 16}
<1> DEFINE Listed(x, d) == Row(x, d) /\ \A c \in Nibble : Occurrences(d, c) \in {0, 2, 4, 6, 16}
<1>1. ASSUME NEW d, Listed(a, d) PROVE GIFT64_DDT[a][b] \in {0, 2, 4, 6, 16}
  BY <1>1, RowCounts
<1> USE XorIsBitwise DEF Row, Difference, Sbox, GIFT64_SBOX, Nibble, Occurrences, Is
<1>2. Listed(0, <<0, 0, 0, 0, 0, 0, 0, 0, 0, 0, 0, 0, 0, 0, 0, 0>>)
  OBVIOUS
<1>3. Listed(1, <<11, 11, 8, 8, 9, 9, 10, 10, 15, 15, 12, 12, 5, 5, 6, 6>>)
  OBVIOUS
<1>4. Listed(2, <<5, 6, 5, 6, 5, 6, 5, 6, 9, 10, 9, 10, 13, 14, 13, 14>>)
  OBVIOUS
<1>5. Listed(3, <<13, 14, 14, 13, 15, 12, 12, 15, 5, 6, 6, 5, 11, 8, 8, 11>>)
  OBVIOUS
<1>6. Listed(4, <<7, 5, 7, 5, 7, 5, 7, 5, 7, 13, 3, 9, 7, 13, 3, 9>>)
  OBVIOUS
<1>7. Listed(5, <<14, 12, 13, 15, 12, 14, 15, 13, 2, 8, 5, 15, 8, 2, 15, 5>>)
  OBVIOUS
<1>8. Listed(6, <<2, 3, 2, 3, 2, 3, 2, 3, 10, 3, 14, 7, 14, 7, 10, 3>>)
  OBVIOUS
<1>9. Listed(7, <<8, 9, 11, 10, 10, 11, 9, 8, 12, 5, 11, 2, 2, 11, 5, 12>>)
  OBVIOUS
<1>10. Listed(8, <<3, 7, 15, 11, 3, 15, 11, 7, 3, 7, 15, 11, 3, 15, 11, 7>>)
  OBVIOUS
<1>11. Listed(9, <<12, 8, 3, 7, 6, 10, 13, 1, 8, 12, 7, 3, 10, 6, 1, 13>>)
  OBVIOUS
<1>12. Listed(10, <<10, 13, 6, 1, 14, 1, 6, 9, 6, 1, 10, 13, 6, 9, 14, 1>>)
  OBVIOUS
<1>13. Listed(11, <<6, 1, 9, 14, 8, 7, 3, 12, 14, 9, 1, 6, 12, 3, 7, 8>>)
  OBVIOUS
<1>14. Listed(12, <<4, 10, 12, 2, 4, 2, 8, 14, 4, 2, 8, 14, 4, 10, 12, 2>>)
  OBVIOUS
<1>15. Listed(13, <<1, 15, 10, 4, 11, 13, 4, 2, 13, 11, 2, 4, 15, 1, 4, 10>>)
  OBVIOUS
<1>16. Listed(14, <<9, 4, 1, 12, 13, 8, 1, 4, 1, 4, 13, 8, 1, 12, 9, 4>>)
  OBVIOUS
<1>17. Listed(15, <<15, 2, 4, 9, 1, 4, 14, 11, 11, 14, 4, 1, 9, 4, 2, 15>>)
  OBVIOUS
<1> HIDE DEF Listed
<1> QED BY <1>1, <1>2, <1>3, <1>4, <1>5, <1>6, <1>7, <1>8, <1>9, <1>10, <1>11, <1>12, <1>13, <1>14, <1>15, <1>16, <1>17

------------------------------------------------------------------------------
(* What the rounds of a trail multiply to *)

Places == 0 .. Nibbles - 1
CountAt(round, k) == GIFT64_DDT[round.input[k]][LogicalOutput(round.output)[k]]
Followed(round) == {x \in State : Follows(x, round)}

\* What the table has for a place of a round.
LEMMA CountAtType ==
  ASSUME NEW round \in TrailRound, NEW k \in Places
  PROVE  /\ CountAt(round, k) \in {0, 2, 4, 6, 16}
         /\ IsFiniteSet(FollowersAt(round, k)) /\ FollowersAt(round, k) \subseteq Nibble
         /\ CountAt(round, k) = Cardinality(FollowersAt(round, k))
<1>1. round.input[k] \in Nibble /\ LogicalOutput(round.output)[k] \in Nibble
  <2>1. round.input \in State /\ LogicalOutput(round.output) \in State
    BY LogicalBits DEF TrailRound
  <2> QED BY <2>1 DEF State, Places
<1>2. IsFiniteSet(Nibble)
  <2>1. \A n \in Nat : IsFiniteSet(0 .. n)
    BY FS_Interval
  <2> QED BY <2>1 DEF Nibble
<1>3. FollowersAt(round, k) \subseteq Nibble
  BY DEF FollowersAt, Followers
<1>4. IsFiniteSet(FollowersAt(round, k))
  BY <1>2, <1>3, FS_Subset
<1> QED BY <1>1, <1>3, <1>4, TableCountsFollowers, CountsOfTheTable DEF CountAt, FollowersAt

LEMMA PlacesAreFinite == IsFiniteSet(Places) /\ Cardinality(Places) = Nibbles
BY FS_Interval, VerifierAssumption DEF Places

LEMMA FollowedAreChoices ==
  ASSUME NEW round \in TrailRound
  PROVE  Followed(round) = Choices([k \in Places |-> FollowersAt(round, k)], Places, Nibble)
BY FollowsIsLocal DEF Followed, Choices, State, Places

\* A round has as many states that follow it as its table entries multiply to.
LEMMA FollowedAreCounted ==
  ASSUME NEW round \in TrailRound, NEW size, \A k \in Places : size[k] = CountAt(round, k)
  PROVE  Cardinality(Followed(round)) = Fold("product", size, Places)
<1> DEFINE A == [k \in Places |-> FollowersAt(round, k)]
<1>1. \A k \in Places : A[k] \subseteq Nibble /\ IsFiniteSet(A[k]) /\ size[k] = Cardinality(A[k])
  BY CountAtType
<1>2. Followed(round) = Choices(A, Places, Nibble)
  BY FollowedAreChoices
<1> HIDE DEF A
<1> QED BY <1>1, <1>2, PlacesAreFinite, ChoicesAreCounted

\* A round can be followed iff each of its S-box transitions is possible.
LEMMA FollowedIffPossible ==
  ASSUME NEW round \in TrailRound
  PROVE  (\E x \in State : Follows(x, round)) <=> \A k \in Places : CountAt(round, k) # 0
<1>1. \A k \in Places : CountAt(round, k) # 0 <=> FollowersAt(round, k) # {}
  BY CountAtType, FS_EmptySet
<1>2. ASSUME NEW x \in State, Follows(x, round), NEW k \in Places PROVE CountAt(round, k) # 0
  BY <1>1, <1>2, FollowsIsLocal DEF Places
<1>3. ASSUME \A k \in Places : CountAt(round, k) # 0 PROVE \E x \in State : Follows(x, round)
  <2> DEFINE x == [k \in Places |-> CHOOSE v \in FollowersAt(round, k) : TRUE]
  <2>1. \A k \in Places : x[k] \in FollowersAt(round, k)
    BY <1>1, <1>3
  <2>2. x \in State
    BY <2>1, CountAtType DEF State, Places
  <2>3. Follows(x, round)
    BY <2>1, <2>2, FollowsIsLocal DEF Places
  <2> QED BY <2>2, <2>3
<1> QED BY <1>2, <1>3

Pairs(I, K) == I \X K
Column(i, K) == {i} \X K

LEMMA ProductOfColumn ==
  ASSUME NEW i, NEW L, IsFiniteSet(L), NEW c, \A k \in L : c[<<i, k>>] \in Nat,
         NEW e, \A k \in L : e[k] = c[<<i, k>>]
  PROVE  Fold("product", c, Column(i, L)) = Fold("product", e, L)
<1> USE DEF Column
<1> DEFINE Equal(T) == Fold("product", c, {i} \X T) = Fold("product", e, T)
           F == {T \in SUBSET L : ~Equal(T)}
<1>1. SUFFICES ASSUME ~Equal(L) PROVE FALSE
  OBVIOUS
<1> HIDE DEF Equal
<1>2. Family(F, L)
  BY <1>1 DEF Family
<1>3. PICK T : IsMinimal(T, F)
  BY <1>2, MinimalSubset
<1>4. /\ T \in SUBSET L /\ ~Equal(T)
      /\ \A U \in SUBSET L : U \subseteq T /\ U # T => Equal(U)
  BY <1>3 DEF IsMinimal
<1>5. CASE T = {}
  <2>1. {i} \X {} = {}
    OBVIOUS
  <2> QED BY <1>4, <1>5, <2>1, FoldOfNone DEF Equal
<1>6. CASE T # {}
  <2>1. PICK k \in T : TRUE
    BY <1>6
  <2> DEFINE P == {i} \X T
             p == <<i, k>>
             U == T \ {k}
  <2>2. P \ {p} = {i} \X U /\ p \in P
    OBVIOUS
  <2>3. Equal(U)
    BY <1>4, <2>1
  <2>4. IsFiniteSet(T) /\ IsFiniteSet({i})
    BY <1>4, FS_Subset, FS_Singleton
  <2>5. IsFiniteSet(P)
    BY <2>4, FS_Product
  <2>6. /\ \A q \in P : c[q] \in Nat
        /\ \A j \in T : e[j] \in Nat
        /\ c[p] = e[k]
    <3>1. \A q \in P : q[2] \in L /\ q = <<i, q[2]>>
      BY <1>4
    <3>2. \A j \in T : j \in L
      BY <1>4
    <3> QED BY <2>1, <3>1, <3>2
  <2> HIDE DEF P, p
  <2>7. Fold("product", c, P) = Combine("product", c[p], Fold("product", c, P \ {p}))
    BY <2>2, <2>5, <2>6, FoldTakes
  <2>8. Fold("product", e, T) = Combine("product", e[k], Fold("product", e, T \ {k}))
    BY <2>4, <2>6, FoldTakes
  <2>9. Fold("product", c, P) = Fold("product", e, T)
    BY <2>2, <2>3, <2>6, <2>7, <2>8 DEF Equal
  <2> QED BY <1>4, <2>9 DEF Equal, P
<1> QED BY <1>5, <1>6

\* A product over pairs is the product, over the first halves, of products.
LEMMA ProductOfProducts ==
  ASSUME NEW I, IsFiniteSet(I), NEW K, IsFiniteSet(K), NEW c, \A p \in Pairs(I, K) : c[p] \in Nat,
         NEW f, \A i \in I : f[i] = Fold("product", c, Column(i, K))
  PROVE  Fold("product", f, I) = Fold("product", c, Pairs(I, K))
<1> USE DEF Pairs, Column
<1> DEFINE Equal(T) == Fold("product", f, T) = Fold("product", c, T \X K)
           F == {T \in SUBSET I : ~Equal(T)}
<1>1. SUFFICES ASSUME ~Equal(I) PROVE FALSE
  OBVIOUS
<1> HIDE DEF Equal
<1>2. Family(F, I)
  BY <1>1 DEF Family
<1>3. PICK T : IsMinimal(T, F)
  BY <1>2, MinimalSubset
<1>4. /\ T \in SUBSET I /\ ~Equal(T)
      /\ \A U \in SUBSET I : U \subseteq T /\ U # T => Equal(U)
  BY <1>3 DEF IsMinimal
<1>5. CASE T = {}
  <2>1. {} \X K = {}
    OBVIOUS
  <2> QED BY <1>4, <1>5, <2>1, FoldOfNone DEF Equal
<1>6. CASE T # {}
  <2>1. PICK i \in T : TRUE
    BY <1>6
  <2> DEFINE U == T \ {i}
             A == {i} \X K
             B == U \X K
  <2>2. T \X K = A \cup B /\ A \cap B = {}
    BY <2>1
  <2>3. Equal(U)
    BY <1>4, <2>1
  <2>4. IsFiniteSet(T) /\ IsFiniteSet(U) /\ IsFiniteSet({i})
    BY <1>4, FS_Subset, FS_Singleton
  <2>5. IsFiniteSet(A) /\ IsFiniteSet(B)
    BY <2>4, FS_Product
  <2>6. /\ \A p \in A \cup B : c[p] \in Nat
        /\ \A p \in A : c[p] \in Nat
    BY <1>4, <2>1
  <2>7. \A j \in I : IsFiniteSet({j} \X K) /\ \A p \in {j} \X K : c[p] \in Nat
    BY FS_Singleton, FS_Product
  <2>8. \A j \in T : f[j] \in Nat
    <3> SUFFICES ASSUME NEW j \in T PROVE f[j] \in Nat
      OBVIOUS
    <3>1. f[j] = Fold("product", c, {j} \X K) /\ j \in I
      BY <1>4
    <3>2. ASSUME NEW J, J = {j} \X K PROVE Fold("product", c, J) \in Nat
      BY <2>7, <3>1, <3>2, FoldType
    <3> QED BY <3>1, <3>2
  <2>9. f[i] = Fold("product", c, A)
    BY <1>4, <2>1
  <2> HIDE DEF A, B
  <2>10. Fold("product", c, A \cup B) = Fold("product", c, A) * Fold("product", c, B)
    BY <2>2, <2>5, <2>6, ProductOfUnion
  <2>11. Fold("product", f, T) = Combine("product", f[i], Fold("product", f, T \ {i}))
    BY <2>4, <2>8, FoldTakes
  <2>12. Fold("product", f, T) = Fold("product", c, A \cup B)
    BY <2>3, <2>9, <2>10, <2>11 DEF Equal, Combine, B
  <2> QED BY <1>4, <2>2, <2>12 DEF Equal
<1> QED BY <1>5, <1>6

------------------------------------------------------------------------------
(* The weight of a trail *)

\* An entry of the table, and the components of its weight.
Weighs(count, integral, decimal) ==
  \/ count = 16 /\ integral = 0 /\ decimal = 0
  \/ count = 6 /\ integral = 1 /\ decimal = 1
  \/ count = 4 /\ integral = 2 /\ decimal = 0
  \/ count = 2 /\ integral = 3 /\ decimal = 0

\* The powers that one S-box can add.
LEMMA FirstPowers ==
  ASSUME NEW base \in Nat, NEW n \in Nat
  PROVE  /\ Power(base, 0 + n) = Power(base, n)
         /\ Power(base, 1 + n) = base * Power(base, n)
         /\ Power(base, 2 + n) = base * (base * Power(base, n))
         /\ Power(base, 3 + n) = base * (base * (base * Power(base, n)))
<1>1. ASSUME NEW l, l = n + 1, NEW m, m = n + 2, NEW k, k = n + 3
      PROVE  /\ Power(base, l) = base * Power(base, n)
             /\ Power(base, m) = base * Power(base, l)
             /\ Power(base, k) = base * Power(base, m)
  <2>1. l \in Nat /\ m \in Nat /\ m = l + 1 /\ k = m + 1
    BY <1>1
  <2> QED BY <1>1, <2>1, PowerStep
<1>2. /\ Power(base, n + 1) = base * Power(base, n)
      /\ Power(base, n + 2) = base * Power(base, n + 1)
      /\ Power(base, n + 3) = base * Power(base, n + 2)
  BY <1>1
<1>3. 0 + n = n /\ 1 + n = n + 1 /\ 2 + n = n + 2 /\ 3 + n = n + 3
  OBVIOUS
<1> QED BY <1>2, <1>3

\* One more S-box: its entry and its weight keep the balance.
LEMMA OneMoreWeighed ==
  ASSUME NEW c, NEW a, NEW d, Weighs(c, a, d),
         NEW P \in Nat, NEW A \in Nat, NEW D \in Nat, NEW n \in Nat,
         P * Power(2, A) * Power(4, D) = Power(16, n) * Power(3, D)
  PROVE  (c * P) * Power(2, a + A) * Power(4, d + D) = Power(16, 1 + n) * Power(3, d + D)
<1> DEFINE x == Power(2, A)
           y == Power(4, D)
           u == Power(16, n)
           v == Power(3, D)
<1>1. x \in Nat /\ y \in Nat /\ u \in Nat /\ v \in Nat
  BY PowerType
<1>2. Power(16, 1 + n) = 16 * u
  BY FirstPowers
<1>3. /\ Power(4, 0 + D) = y /\ Power(4, 1 + D) = 4 * y
      /\ Power(3, 0 + D) = v /\ Power(3, 1 + D) = 3 * v
  BY FirstPowers
<1>4. /\ Power(2, 0 + A) = x /\ Power(2, 1 + A) = 2 * x
      /\ Power(2, 2 + A) = 2 * (2 * x) /\ Power(2, 3 + A) = 2 * (2 * (2 * x))
  BY FirstPowers
<1>5. P * x * y = u * v
  OBVIOUS
<1> HIDE DEF x, y, u, v
<1>6. /\ (16 * P) * x * y = 16 * (P * x * y)
      /\ (6 * P) * (2 * x) * (4 * y) = 48 * (P * x * y)
      /\ (4 * P) * (2 * (2 * x)) * y = 16 * (P * x * y)
      /\ (2 * P) * (2 * (2 * (2 * x))) * y = 16 * (P * x * y)
      /\ (16 * u) * v = 16 * (u * v) /\ (16 * u) * (3 * v) = 48 * (u * v)
  BY <1>1
<1> QED BY <1>2, <1>3, <1>4, <1>5, <1>6 DEF Weighs

\* The product of counts and the sums of weights balance, over any S-boxes.
LEMMA EverythingWeighed ==
  ASSUME NEW S, IsFiniteSet(S), NEW c, NEW a, NEW d,
         \A s \in S : c[s] \in Nat /\ a[s] \in Nat /\ d[s] \in Nat /\ Weighs(c[s], a[s], d[s])
  PROVE  Fold("product", c, S) * Power(2, Fold("sum", a, S)) * Power(4, Fold("sum", d, S))
           = Power(16, Cardinality(S)) * Power(3, Fold("sum", d, S))
<1> DEFINE P(T) == Fold("product", c, T)
           A(T) == Fold("sum", a, T)
           D(T) == Fold("sum", d, T)
           Balanced(T) == P(T) * Power(2, A(T)) * Power(4, D(T)) = Power(16, Cardinality(T)) * Power(3, D(T))
           F == {T \in SUBSET S : ~Balanced(T)}
<1>1. SUFFICES ASSUME ~Balanced(S) PROVE FALSE
  OBVIOUS
<1> HIDE DEF Balanced
<1>2. Family(F, S)
  BY <1>1 DEF Family
<1>3. PICK T : IsMinimal(T, F)
  BY <1>2, MinimalSubset
<1>4. /\ T \in SUBSET S /\ ~Balanced(T)
      /\ \A U \in SUBSET S : U \subseteq T /\ U # T => Balanced(U)
  BY <1>3 DEF IsMinimal
<1>5. IsFiniteSet(T)
  BY <1>4, FS_Subset
<1>6. CASE T = {}
  <2>1. P({}) = 1 /\ A({}) = 0 /\ D({}) = 0 /\ Cardinality({}) = 0
    BY FoldOfNone, FS_EmptySet DEF Unit
  <2>2. Power(2, 0) = 1 /\ Power(4, 0) = 1 /\ Power(16, 0) = 1 /\ Power(3, 0) = 1
    BY PowerOfZero
  <2> HIDE DEF P, A, D
  <2>3. P({}) * Power(2, A({})) * Power(4, D({})) = Power(16, Cardinality({})) * Power(3, D({}))
    BY <2>1, <2>2
  <2>4. Balanced({})
    BY <2>3 DEF Balanced
  <2> QED BY <1>4, <1>6, <2>4
<1>7. CASE T # {}
  <2> DEFINE s == First(T)
             U == Rest(T)
  <2>1. s \in T /\ U \subseteq T /\ U # T /\ U = T \ {s}
    BY <1>7, FirstIsIn DEF Rest
  <2>2. /\ P(T) = Combine("product", c[s], P(U))
        /\ A(T) = Combine("sum", a[s], A(U))
        /\ D(T) = Combine("sum", d[s], D(U))
    BY <1>5, <1>7, FoldStep
  <2>3. IsFiniteSet(U) /\ U \in SUBSET S
    BY <1>4, <1>5, <2>1, FS_Subset
  <2> HIDE DEF s, U
  <2>4. Cardinality(T) = 1 + Cardinality(U) /\ Cardinality(U) \in Nat
    <3>1. Cardinality(U) = Cardinality(T) - 1
      BY <1>5, <2>1, FS_RemoveElement
    <3>2. Cardinality(U) \in Nat /\ Cardinality(T) \in Nat
      BY <1>5, <2>3, FS_CardinalityType
    <3> QED BY <3>1, <3>2
  <2>5. P(U) \in Nat /\ A(U) \in Nat /\ D(U) \in Nat
    BY <2>3, FoldType
  <2>6. Balanced(U)
    BY <1>4, <2>1, <2>3
  <2>7. Weighs(c[s], a[s], d[s])
    BY <1>4, <2>1
  <2> HIDE DEF P, A, D
  <2>8. (c[s] * P(U)) * Power(2, a[s] + A(U)) * Power(4, d[s] + D(U))
          = Power(16, 1 + Cardinality(U)) * Power(3, d[s] + D(U))
    BY <2>4, <2>5, <2>6, <2>7, OneMoreWeighed DEF Balanced
  <2>9. Balanced(T)
    BY <2>2, <2>4, <2>8 DEF Balanced, Combine
  <2> QED BY <1>4, <2>9
<1> QED BY <1>6, <1>7

\* The components of a possible trail make up its probability.
LEMMA WeightOfRounds ==
  ASSUME NEW rounds \in Seq(TrailRound), Len(rounds) = Rounds,
         \A s \in Sboxes(rounds) : Count(rounds, s) # 0
  PROVE  IsWeightOf(ObjectiveComponents(rounds), rounds)
<1> DEFINE S == Sboxes(rounds)
           I == 1 .. Rounds
           c == [s \in S |-> Count(rounds, s)]
           a == [s \in S |-> TransitionWeight(Count(rounds, s)).integral_weight]
           d == [s \in S |-> TransitionWeight(Count(rounds, s)).decimal_weight_count]
           f == [i \in I |-> Cardinality(Followed(rounds[i]))]
<1>1. S = Pairs(I, Places) /\ \A i \in I : rounds[i] \in TrailRound
  BY DEF Sboxes, Places, Pairs
<1>2. ASSUME NEW s \in S
      PROVE  /\ Count(rounds, s) \in {2, 4, 6, 16}
             /\ Count(rounds, s) = CountAt(rounds[s[1]], s[2])
  <2>1. rounds[s[1]] \in TrailRound /\ s[2] \in Places
    BY <1>1 DEF Pairs
  <2>2. Count(rounds, s) = CountAt(rounds[s[1]], s[2])
    BY DEF Count, CountAt
  <2>3. CountAt(rounds[s[1]], s[2]) \in {0, 2, 4, 6, 16}
    BY <2>1, CountAtType
  <2> QED BY <2>2, <2>3
<1>3. ASSUME NEW s \in S
      PROVE  c[s] \in Nat /\ a[s] \in Nat /\ d[s] \in Nat /\ Weighs(c[s], a[s], d[s])
  BY <1>2 DEF TransitionWeight, Components, Weighs
<1>4. IsFiniteSet(I) /\ Cardinality(I) = Rounds
  BY FS_Interval, VerifierAssumption
<1>5. IsFiniteSet(S) /\ Cardinality(S) = Nibbles * Rounds
  <2>1. IsFiniteSet(I \X Places) /\ Cardinality(I \X Places) = Rounds * Nibbles
    BY <1>4, PlacesAreFinite, FS_Product
  <2>2. Rounds * Nibbles = Nibbles * Rounds
    BY VerifierAssumption
  <2> QED BY <1>1, <2>1, <2>2 DEF Pairs
<1>6. ObjectiveComponents(rounds) = Components(SumFunction(a), SumFunction(d))
  <2>1. {s \in Sboxes(rounds) : Count(rounds, s) # 0} = S
    OBVIOUS
  <2> QED BY <2>1 DEF ObjectiveComponents
<1>7. SumFunction(a) = Fold("sum", a, S) /\ SumFunction(d) = Fold("sum", d, S)
  <2>1. S = DOMAIN a /\ S = DOMAIN d
    OBVIOUS
  <2> HIDE DEF a, d, S
  <2> QED BY <2>1, SumIsAFold
<1>8. Product([i \in 1 .. Rounds |-> Cardinality({x \in State : Follows(x, rounds[i])})])
        = Fold("product", f, I)
  <2>1. I = DOMAIN f
    OBVIOUS
  <2>2. Product(f) = Fold("product", f, I)
    BY <2>1, ProductIsAFold
  <2> QED BY <2>2 DEF Followed
<1>9. Fold("product", f, I) = Fold("product", c, S)
  <2>1. ASSUME NEW i \in I PROVE f[i] = Fold("product", c, Column(i, Places))
    <3> DEFINE e == [k \in Places |-> CountAt(rounds[i], k)]
    <3>1. ASSUME NEW k \in Places PROVE c[<<i, k>>] = CountAt(rounds[i], k) /\ c[<<i, k>>] \in Nat
      <4>1. <<i, k>> \in S
        BY <1>1 DEF Pairs
      <4> QED BY <1>2, <1>3, <4>1
    <3>2. \A k \in Places : e[k] = CountAt(rounds[i], k) /\ e[k] = c[<<i, k>>]
      BY <3>1
    <3>3. rounds[i] \in TrailRound /\ f[i] = Cardinality(Followed(rounds[i]))
      BY <1>1
    <3> HIDE DEF e, c, f
    <3>4. f[i] = Fold("product", e, Places)
      BY <3>2, <3>3, FollowedAreCounted
    <3>5. /\ \A k \in Places : c[<<i, k>>] \in Nat
          /\ \A k \in Places : e[k] = c[<<i, k>>]
      BY <3>1, <3>2
    <3>6. Fold("product", c, Column(i, Places)) = Fold("product", e, Places)
      BY <3>5, PlacesAreFinite, ProductOfColumn
    <3> QED BY <3>4, <3>6
  <2>2. \A p \in Pairs(I, Places) : c[p] \in Nat
    BY <1>1, <1>3
  <2> HIDE DEF c, f, I, S
  <2> QED BY <1>1, <1>4, <2>1, <2>2, PlacesAreFinite, ProductOfProducts
<1> HIDE DEF S, I, c, a, d, f
<1>10. Fold("product", c, S) * Power(2, Fold("sum", a, S)) * Power(4, Fold("sum", d, S))
         = Power(16, Nibbles * Rounds) * Power(3, Fold("sum", d, S))
  BY <1>3, <1>5, EverythingWeighed
<1> DEFINE weight == ObjectiveComponents(rounds)
<1>11. /\ weight.integral_weight = Fold("sum", a, S)
       /\ weight.decimal_weight_count = Fold("sum", d, S)
  BY <1>6, <1>7 DEF Components
<1> HIDE DEF weight
<1>12. IsWeightOf(weight, rounds)
  BY <1>8, <1>9, <1>10, <1>11, Zenon DEF IsWeightOf
<1> QED BY <1>12 DEF weight

------------------------------------------------------------------------------
(* The verdict *)

\* No S-box transition is impossible iff every round can be followed.
LEMMA PossibleIffFollowed ==
  ASSUME NEW rounds \in Seq(TrailRound), Len(rounds) = Rounds
  PROVE  (\A s \in Sboxes(rounds) : Count(rounds, s) # 0)
           <=> \A i \in 1 .. Rounds : \E x \in State : Follows(x, rounds[i])
<1> DEFINE possible == \A s \in Sboxes(rounds) : Count(rounds, s) # 0
<1>1. ASSUME NEW i \in 1 .. Rounds
      PROVE  (\E x \in State : Follows(x, rounds[i]))
               <=> \A k \in Places : CountAt(rounds[i], k) # 0
  <2>1. rounds[i] \in TrailRound
    OBVIOUS
  <2> QED BY <2>1, FollowedIffPossible
<1>2. possible <=> \A i \in 1 .. Rounds, k \in Places : CountAt(rounds[i], k) # 0
  <2>1. DOMAIN rounds = 1 .. Rounds
    OBVIOUS
  <2>2. ASSUME NEW i \in 1 .. Rounds, NEW k \in Places
        PROVE  <<i, k>> \in Sboxes(rounds) /\ Count(rounds, <<i, k>>) = CountAt(rounds[i], k)
    BY <2>1 DEF Sboxes, Places, Count, CountAt
  <2>3. ASSUME NEW s \in Sboxes(rounds)
        PROVE  s[1] \in 1 .. Rounds /\ s[2] \in Places /\ Count(rounds, s) = CountAt(rounds[s[1]], s[2])
    BY <2>1 DEF Sboxes, Places, Count, CountAt
  <2>4. ASSUME possible, NEW i \in 1 .. Rounds, NEW k \in Places PROVE CountAt(rounds[i], k) # 0
    <3>1. <<i, k>> \in Sboxes(rounds) /\ Count(rounds, <<i, k>>) = CountAt(rounds[i], k)
      BY <2>2
    <3>2. Count(rounds, <<i, k>>) # 0
      BY <2>4, <3>1
    <3> QED BY <3>1, <3>2
  <2>5. ASSUME \A i \in 1 .. Rounds, k \in Places : CountAt(rounds[i], k) # 0
        PROVE  possible
    BY <2>3, <2>5
  <2> HIDE DEF possible
  <2> QED BY <2>4, <2>5
<1> QED BY <1>1, <1>2

\* What it means that a trail, its fixed differences or its objective has no issue.
LEMMA TrailIssuesSay ==
  ASSUME NEW cipher, NEW rounds \in Seq(TrailRound)
  PROVE  TrailIssues([cipher |-> cipher, rounds |-> rounds]) = {}
           <=> cipher = "GIFT-64" /\ IsCharacteristic(rounds)
<1> DEFINE record == [cipher |-> cipher, rounds |-> rounds]
           continues == \A i \in 1 .. Len(rounds) - 1 : rounds[i].output = rounds[i + 1].input
           possible == \A s \in Sboxes(rounds) : Count(rounds, s) # 0
           found == [wrong_cipher |-> cipher # "GIFT-64",
                     round_count |-> Len(rounds) # Rounds,
                     zero_input |-> rounds[1].input = ZeroState,
                     round_continuity |->
                       \E i \in 1 .. Len(rounds) - 1 : rounds[i].output # rounds[i + 1].input,
                     invalid_sbox_transition |->
                       \E s \in Sboxes(rounds) : Count(rounds, s) = 0]
<1>0. /\ TrailIssues(record) = {code \in DOMAIN found : found[code]}
      /\ DOMAIN found = {"wrong_cipher", "round_count", "zero_input", "round_continuity",
                         "invalid_sbox_transition"}
  BY DEF TrailIssues
<1>1. TrailIssues(record) = {}
        <=> /\ cipher = "GIFT-64" /\ Len(rounds) = Rounds /\ rounds[1].input # ZeroState
            /\ continues /\ possible
  <2>1. found["wrong_cipher"] <=> cipher # "GIFT-64"
    OBVIOUS
  <2>2. found["round_count"] <=> Len(rounds) # Rounds
    OBVIOUS
  <2>3. found["zero_input"] <=> rounds[1].input = ZeroState
    OBVIOUS
  <2>4. found["round_continuity"] <=> ~continues
    OBVIOUS
  <2>5. found["invalid_sbox_transition"] <=> ~possible
    OBVIOUS
  <2> HIDE DEF found, continues, possible
  <2> QED BY <1>0, <2>1, <2>2, <2>3, <2>4, <2>5
<1> QED BY <1>1, PossibleIffFollowed DEF IsCharacteristic

LEMMA FixedIssuesSay ==
  ASSUME NEW rounds, NEW fixed
  PROVE  FixedIssues(rounds, fixed) = {} <=> MeetsFixed(rounds, fixed)
<1> DEFINE found == [fixed_input_mismatch |-> \E d \in fixed.input : rounds[1].input # d,
                     fixed_output_mismatch |-> \E d \in fixed.output : rounds[Len(rounds)].output # d]
<1>1. /\ FixedIssues(rounds, fixed) = {code \in DOMAIN found : found[code]}
      /\ DOMAIN found = {"fixed_input_mismatch", "fixed_output_mismatch"}
  BY DEF FixedIssues
<1>2. found["fixed_input_mismatch"] <=> \E d \in fixed.input : rounds[1].input # d
  OBVIOUS
<1>3. found["fixed_output_mismatch"] <=> \E d \in fixed.output : rounds[Len(rounds)].output # d
  OBVIOUS
<1> HIDE DEF found
<1> QED BY <1>1, <1>2, <1>3 DEF MeetsFixed

\* A contract raises no issue iff the weight is what the request wants.
LEMMA ContractIssuesSay ==
  ASSUME NEW weight, NEW req \in Request
  PROVE  ContractIssues(weight, req) = {} <=> MeetsContract(weight, req)
<1> DEFINE known == req.objective # "other"
           found == [request_layout_mismatch |-> req.layout # "reference",
                     unsupported_objective |-> ~known,
                     unsupported_bound_component |->
                       known /\ ~(req.components \subseteq WeightComponent),
                     objective_bound |-> known /\ ~ComparisonHolds(weight, req)]
<1>1. ContractIssues(weight, req) = {code \in DOMAIN found : found[code]}
  BY DEF ContractIssues
<1>2. DOMAIN found = {"request_layout_mismatch", "unsupported_objective",
                      "unsupported_bound_component", "objective_bound"}
  OBVIOUS
<1>3. ContractIssues(weight, req) = {}
        <=> /\ ~found.unsupported_objective /\ ~found.request_layout_mismatch
            /\ ~found.unsupported_bound_component /\ ~found.objective_bound
  <2> HIDE DEF found
  <2> QED BY <1>1, <1>2
<1>4. known <=> req.objective \in Comparison
  BY DEF Request, Comparison
<1>5. ContractIssues(weight, req) = {}
        <=> /\ known /\ req.layout = "reference"
            /\ req.components \subseteq WeightComponent /\ ComparisonHolds(weight, req)
  BY <1>3
<1> QED BY <1>4, <1>5 DEF MeetsContract

\* What the verdict on a decoded trail says.
LEMMA VerdictSays ==
  ASSUME NEW p \in Process, request[p] \in Requests, NEW rounds \in Printed[p],
         trail[p] = Decoded(p, rounds), verification[p] = Verify(trail[p], request[p])
  PROVE  /\ verification[p].objective_components = ObjectiveComponents(rounds)
         /\ verification[p].issues = {} <=>
              /\ trail[p].cipher = "GIFT-64"
              /\ rounds \in Characteristics /\ MeetsFixed(rounds, request[p].fixed)
              /\ MeetsContract(ObjectiveComponents(rounds), request[p].contract)
         /\ rounds \in Characteristics => rounds \in WithExactWeight
<1>1. /\ Printed \in [Process -> SUBSET Seq(TrailRound)]
      /\ request[p].contract \in Request
  BY ScriptsAssumption
<1>2. rounds \in PrintedRounds /\ rounds \in Seq(TrailRound)
  BY <1>1 DEF PrintedRounds
<1>3. trail[p] = [cipher |-> trail[p].cipher, rounds |-> rounds] /\ trail[p].rounds = rounds
  BY DEF Decoded
<1>4. ContractIssues(ObjectiveComponents(rounds), request[p].contract) = {}
        <=> MeetsContract(ObjectiveComponents(rounds), request[p].contract)
  BY <1>1, ContractIssuesSay
<1>5. /\ verification[p].issues = TrailIssues(trail[p]) \cup FixedIssues(rounds, request[p].fixed)
           \cup ContractIssues(ObjectiveComponents(rounds), request[p].contract)
      /\ verification[p].objective_components = ObjectiveComponents(rounds)
  BY <1>3 DEF Verify
<1>6. TrailIssues(trail[p]) = {} <=> trail[p].cipher = "GIFT-64" /\ IsCharacteristic(rounds)
  BY <1>2, <1>3, TrailIssuesSay
<1>7. rounds \in Characteristics <=> IsCharacteristic(rounds)
  BY <1>2 DEF Characteristics
<1>8. ASSUME rounds \in Characteristics PROVE rounds \in WithExactWeight
  <2>1. Len(rounds) = Rounds /\ \A s \in Sboxes(rounds) : Count(rounds, s) # 0
    BY <1>2, <1>7, <1>8, PossibleIffFollowed DEF IsCharacteristic
  <2>3. IsWeightOf(ObjectiveComponents(rounds), rounds)
    BY <1>2, <2>1, WeightOfRounds
  <2> QED BY <1>8, <2>3 DEF WithExactWeight
<1> QED BY <1>4, <1>5, <1>6, <1>7, <1>8, FixedIssuesSay

\* The verdict is exact: for every trail and request, an empty list of issues means
\* a characteristic with the fixed differences and the bounds, and the components
\* of a characteristic make up its probability over all states of the cipher.
THEOREM VerdictsAreExact == Spec => []VerdictExact
<1>1. IInv /\ CallInv => VerdictExact
  <2> SUFFICES ASSUME IInv, CallInv, NEW p \in Process, pc[p] \in {"persist", "write"}
               PROVE  LET rounds == trail[p].rounds
                          weight == verification[p].objective_components
                      IN  /\ verification[p].issues = {} <=>
                               /\ trail[p].cipher = "GIFT-64"
                               /\ rounds \in Characteristics /\ MeetsFixed(rounds, request[p].fixed)
                               /\ MeetsContract(weight, request[p].contract)
                          /\ rounds \in Characteristics => rounds \in WithExactWeight
    BY DEF VerdictExact
  <2>1. PICK rounds \in Printed[p] : /\ trail[p] = Decoded(p, rounds)
                                     /\ verification[p] = Verify(Decoded(p, rounds), request[p])
    BY DEF CallInv, CallInvOf
  <2>2. request[p] \in Requests
    BY DEF IInv, Shapes
  <2>3. trail[p].rounds = rounds
    BY <2>1 DEF Decoded
  <2> QED BY <2>1, <2>2, <2>3, VerdictSays
<1> QED BY <1>1, InvariantHolds, CallInvariant, PTL

------------------------------------------------------------------------------
(* A passing check is earned *)

\* What a process found stays what it was found for; it has returned the answer
\* about its trail, or one without a verification; and it exits once, at its end,
\* a check with success only if what it compared was equal.
AnswerInvOf(p) ==
  /\ trail[p] # NoRecord =>
       \E rounds \in Printed[p] : /\ trail[p] = Decoded(p, rounds)
                                  /\ verification[p] = Verify(trail[p], request[p])
  /\ returned[p].outcome = "returned" =>
       \/ trail[p] # NoRecord /\ returned[p] = Outcome("returned", SatResult(p), trail[p])
       \/ returned[p].result.verification = "not_run"
  /\ exit_code[p] # NoExit => pc[p] = "caller"
  /\ script[p] = "b6" /\ exit_code[p] = 0 =>
       returned[p].outcome = "returned" /\ Failures(p) = {}

AnswerInv ==
  /\ adapter_version = [p \in Process |-> adapter_version[p]]
  /\ \A p \in Process : AnswerInvOf(p)

\* Nothing of a process changes, its exit code apart.
Settled(p) ==
  /\ Still(p) /\ script'[p] = script[p] /\ expectation'[p] = expectation[p]
  /\ adapter_version'[p] = adapter_version[p]

LEMMA SettledKeepsAnswers ==
  ASSUME NEW p \in Process, Settled(p)
  PROVE  SatResult(p)' = SatResult(p) /\ Failures(p)' = Failures(p)
<1>1. SatResult(p)' = SatResult(p)
  BY DEF Settled, Still, SatResult
<1>2. Observed(p)' = Observed(p) /\ Required(p)' = Required(p)
  BY DEF Settled, Still, Observed, Required
<1> QED BY <1>1, <1>2 DEF Failures, Settled, Still

LEMMA SettledKept ==
  ASSUME NEW p \in Process, AnswerInvOf(p), Settled(p), exit_code'[p] = exit_code[p]
  PROVE  AnswerInvOf(p)'
<1>1. /\ pc'[p] = pc[p] /\ request'[p] = request[p] /\ trail'[p] = trail[p]
      /\ verification'[p] = verification[p] /\ returned'[p] = returned[p] /\ script'[p] = script[p]
  BY DEF Settled, Still
<1>2. SatResult(p)' = SatResult(p) /\ Failures(p)' = Failures(p)
  BY SettledKeepsAnswers
<1>3. \A rounds : Decoded(p, rounds)' = Decoded(p, rounds)
  BY <1>1 DEF Decoded
<1> QED BY <1>1, <1>2, <1>3 DEF AnswerInvOf

\* A step of p leaves the others alone.
LEMMA OthersSettled ==
  ASSUME Shapes, CallInv, AnswerInv, NEW p \in Process, Step(p)
  PROVE  /\ \A q \in Process \ {p} : Settled(q) /\ exit_code'[q] = exit_code[q]
         /\ adapter_version' = [q \in Process |-> adapter_version'[q]]
<1>0. \A q \in Process \ {p} : Still(q)
  BY OnlyItsOwn
<1> DEFINE Others == /\ \A q \in Process \ {p} :
                        /\ script'[q] = script[q] /\ expectation'[q] = expectation[q]
                        /\ adapter_version'[q] = adapter_version[q] /\ exit_code'[q] = exit_code[q]
                   /\ adapter_version' = [q \in Process |-> adapter_version'[q]]
<1> USE DEF Shapes, AnswerInv
<1>1. ASSUME Start(p) PROVE Others
  BY <1>1 DEF Start
<1>2. ASSUME NEW code, Exit(p, code) PROVE Others
  BY <1>2 DEF Exit, local
<1>3. ASSUME NEW result, NEW record, Return(p, result, record) PROVE Others
  BY <1>3 DEF Return
<1>4. ASSUME Raise(p) PROVE Others
  BY <1>4 DEF Raise
<1>5. ASSUME UNCHANGED <<local, exit_code>> PROVE Others
  BY <1>5 DEF local
<1>6. ASSUME Decode(p) PROVE Others
  BY <1>6 DEF Decode
<1> HIDE DEF Others
<1>7. Others
  <2>1. CASE Start(p)
    BY <1>1, <2>1 DEF Others
  <2>2. CASE StartFails(p) \/ Finish(p) \/ RunRaised(p)
    BY <1>2, <2>2 DEF StartFails, Finish, RunRaised
  <2>3. CASE Prepare(p) \/ Compile(p) \/ SolveWithoutModel(p) \/ PersistFails(p)
    BY <1>3, <1>4, <1>5, <2>3 DEF Prepare, Compile, SolveWithoutModel, PersistFails, Fail, Others
  <2>4. CASE Decode(p)
    BY <1>6, <2>4 DEF Others
  <2>5. CASE OpenModel(p)
    BY <1>5, <2>5 DEF OpenModel
  <2>6. CASE WriteModel(p)
    BY <1>3, <2>6 DEF WriteModel
  <2> QED BY <2>1, <2>2, <2>3, <2>4, <2>5, <2>6 DEF Step
<1> QED BY <1>0, <1>7 DEF Others, Settled

\* Returning the answer about the trail, or one without a verification.
LEMMA ReturnAnswers ==
  ASSUME Shapes, NEW p \in Process, AnswerInvOf(p), pc[p] # "caller",
         NEW result, NEW record, Return(p, result, record),
         \/ trail[p] # NoRecord /\ result = SatResult(p) /\ record = trail[p]
         \/ result.verification = "not_run"
  PROVE  AnswerInvOf(p)'
<1>1. /\ pc'[p] = "caller" /\ UNCHANGED <<script, request, trail, verification, exit_code>>
      /\ returned'[p] = Outcome("returned", result, record) \/ returned'[p] = Raised
  BY DEF Return, Goto, Shapes
<1>2. exit_code[p] = NoExit
  BY DEF AnswerInvOf
<1>3. SatResult(p)' = SatResult(p) /\ \A rounds : Decoded(p, rounds)' = Decoded(p, rounds)
  BY <1>1 DEF SatResult, Decoded
<1>4. trail'[p] # NoRecord =>
        \E rounds \in Printed[p] : /\ trail'[p] = Decoded(p, rounds)'
                                   /\ verification'[p] = Verify(trail'[p], request'[p])
  BY <1>1, <1>3 DEF AnswerInvOf
<1>5. returned'[p].outcome = "returned" =>
        \/ trail'[p] # NoRecord /\ returned'[p] = Outcome("returned", SatResult(p)', trail'[p])
        \/ returned'[p].result.verification = "not_run"
  <2>1. CASE returned'[p] = Outcome("returned", result, record)
    BY <1>1, <1>3, <2>1 DEF Outcome
  <2>2. CASE returned'[p] = Raised
    BY <2>2 DEF Outcome, Raised
  <2> QED BY <1>1, <2>1, <2>2
<1>6. exit_code'[p] # 0
  BY <1>1, <1>2 DEF NoExit
<1> QED BY <1>1, <1>4, <1>5, <1>6 DEF AnswerInvOf

LEMMA AnswerKept ==
  ASSUME IInv, CallInv, AnswerInv, NEW p \in Process, Step(p)
  PROVE  AnswerInvOf(p)'
<1>1. Shapes /\ LocalInvOf(p) /\ CallInvOf(p) /\ AnswerInvOf(p)
  BY DEF IInv, LocalInv, CallInv, AnswerInv
<1>2. CASE Start(p)
  <2>1. /\ returned[p].outcome = "none" /\ trail[p] = NoRecord /\ exit_code[p] = NoExit
        /\ UNCHANGED <<trail, returned, exit_code>>
    BY <1>1, <1>2 DEF Start, NotStarted, At, LocalInvOf
  <2> QED BY <2>1 DEF AnswerInvOf, NoExit
<1>3. ASSUME NEW code \in {0, 1, 2}, Exit(p, code), pc[p] = "caller",
             script[p] = "b6" /\ code = 0 => returned[p].outcome = "returned" /\ Failures(p) = {}
      PROVE  AnswerInvOf(p)'
  <2>1. /\ Settled(p) /\ exit_code'[p] = code
        /\ UNCHANGED <<pc, script, request, trail, verification, returned>>
    BY <1>1, <1>3 DEF Exit, local, Settled, Still, Shapes
  <2>2. SatResult(p)' = SatResult(p) /\ Failures(p)' = Failures(p)
    BY <2>1, SettledKeepsAnswers
  <2>3. \A rounds : Decoded(p, rounds)' = Decoded(p, rounds)
    BY <2>1 DEF Decoded
  <2> QED BY <1>1, <1>3, <2>1, <2>2, <2>3 DEF AnswerInvOf
<1>4. CASE StartFails(p) \/ RunRaised(p)
  BY <1>3, <1>4 DEF StartFails, NotStarted, RunRaised, Ended, At
<1>5. CASE Finish(p)
  BY <1>3, <1>5 DEF Finish, Ended, At
<1>6. ASSUME NEW label, pc[p] # "caller", Goto(p, label), UNCHANGED <<local, exit_code>>
      PROVE  AnswerInvOf(p)'
  <2>1. exit_code[p] = NoExit
    BY <1>1, <1>6 DEF AnswerInvOf
  <2>2. UNCHANGED <<script, request, trail, verification, returned, exit_code>>
    BY <1>6 DEF local
  <2>3. SatResult(p)' = SatResult(p) /\ \A rounds : Decoded(p, rounds)' = Decoded(p, rounds)
    BY <2>2 DEF SatResult, Decoded
  <2> QED BY <1>1, <2>1, <2>2, <2>3 DEF AnswerInvOf, NoExit
<1>7. ASSUME NEW status, Fail(p, status), pc[p] # "caller" PROVE AnswerInvOf(p)'
  <2>1. Return(p, PlainResult(status), NoRecord) /\ PlainResult(status).verification = "not_run"
    BY <1>7 DEF Fail, PlainResult
  <2> QED BY <1>1, <1>7, <2>1, ReturnAnswers
<1>8. ASSUME Raise(p), pc[p] # "caller" PROVE AnswerInvOf(p)'
  <2>1. /\ pc'[p] = "caller" /\ returned'[p] = Raised
        /\ UNCHANGED <<script, request, trail, verification, exit_code>>
    BY <1>1, <1>8 DEF Raise, Goto, Shapes
  <2>2. exit_code[p] = NoExit /\ Raised.outcome = "raised"
    BY <1>1, <1>8 DEF AnswerInvOf, Raised, Outcome
  <2>3. \A rounds : Decoded(p, rounds)' = Decoded(p, rounds)
    BY <2>1 DEF Decoded
  <2> QED BY <1>1, <2>1, <2>2, <2>3 DEF AnswerInvOf, NoExit
<1>9. CASE Prepare(p) \/ Compile(p) \/ SolveWithoutModel(p) \/ PersistFails(p)
  <2>1. pc[p] # "caller"
    BY <1>9 DEF Prepare, Compile, SolveWithoutModel, PersistFails, At
  <2> QED BY <1>6, <1>7, <1>8, <1>9, <2>1 DEF Prepare, Compile, SolveWithoutModel, PersistFails
<1>10. CASE Decode(p)
  <2>1. PICK rounds \in Printed[p] :
          /\ trail' = [trail EXCEPT ![p] = Decoded(p, rounds)]
          /\ verification' = [verification EXCEPT ![p] = Verify(Decoded(p, rounds), request[p])]
    BY <1>10 DEF Decode
  <2>2. /\ pc[p] = "solve" /\ UNCHANGED <<script, request, returned, exit_code>>
    BY <1>10 DEF Decode, At
  <2>3. trail'[p] = Decoded(p, rounds) /\ verification'[p] = Verify(trail'[p], request[p])
    BY <1>1, <2>1 DEF Shapes, CallInv
  <2>4. Decoded(p, rounds)' = Decoded(p, rounds)
    BY <2>2 DEF Decoded
  <2>5. exit_code[p] = NoExit /\ returned[p].outcome = "none"
    BY <1>1, <2>2 DEF AnswerInvOf, LocalInvOf
  <2> QED BY <2>2, <2>3, <2>4, <2>5 DEF AnswerInvOf, NoExit
<1>11. CASE OpenModel(p)
  BY <1>6, <1>11 DEF OpenModel, At
<1>12. CASE WriteModel(p)
  <2>1. pc[p] = "write" /\ Return(p, SatResult(p), trail[p])
    BY <1>12 DEF WriteModel, At
  <2>2. trail[p] # NoRecord
    BY <1>1, <2>1 DEF LocalInvOf
  <2> QED BY <1>1, <2>1, <2>2, ReturnAnswers
<1> QED BY <1>2, <1>4, <1>5, <1>9, <1>10, <1>11, <1>12 DEF Step

LEMMA AnswersInvariant == Spec => []AnswerInv
<1>1. Init => AnswerInv
  BY DEF Init, AnswerInv, AnswerInvOf, NotRun, Outcome
<1>2. IInv /\ CallInv /\ AnswerInv /\ [Next]_vars => AnswerInv'
  <2> SUFFICES ASSUME IInv, CallInv, AnswerInv, [Next]_vars PROVE AnswerInv'
    OBVIOUS
  <2>1. CASE UNCHANGED vars
    <3>1. /\ \A p \in Process : Settled(p) /\ exit_code'[p] = exit_code[p]
          /\ adapter_version' = adapter_version
      BY <2>1 DEF vars, local, Settled, Still
    <3>2. \A p \in Process : AnswerInvOf(p)'
      BY <3>1, SettledKept DEF AnswerInv
    <3> QED BY <3>1, <3>2 DEF AnswerInv
  <2>2. CASE Next
    <3>1. PICK p \in Process : Step(p)
      BY <2>2 DEF Next
    <3>2. /\ \A q \in Process \ {p} : Settled(q) /\ exit_code'[q] = exit_code[q]
          /\ adapter_version' = [q \in Process |-> adapter_version'[q]]
      BY <3>1, OthersSettled DEF IInv
    <3>3. \A q \in Process \ {p} : AnswerInvOf(q)'
      BY <3>2, SettledKept DEF AnswerInv
    <3>4. AnswerInvOf(p)'
      BY <3>1, AnswerKept
    <3> QED BY <3>2, <3>3, <3>4 DEF AnswerInv
  <2> QED BY <2>1, <2>2
<1> QED BY <1>1, <1>2, InvariantHolds, CallInvariant, PTL DEF Spec

\* A check without failures compared equals.
LEMMA NothingFailed ==
  ASSUME NEW p \in Process, Failures(p) = {}
  PROVE  LET e == expectation[p]
             r == returned[p].result
         IN  /\ e.request_sha256 = Sha256(request[p])
             /\ r.objective_components = e.required.objective_components
             /\ r.exact_label_eligible = e.required.exact_label_eligible
             /\ r.verification = "not_run" => e.verifier_version = Null
             /\ r.model = e.observed_model_sha256 \/ e.model_hash_policy # "exact"
<1> DEFINE q == Required(p)
           o == Observed(p)
<1>1. \A name \in DOMAIN q : q[name] = o[name]
  BY DEF Failures
<1>2. {"request_sha256", "objective_components", "exact_label_eligible", "verifier_version"} \subseteq DOMAIN q
  BY DEF Required
<1>3. /\ q["request_sha256"] = o["request_sha256"]
      /\ q["objective_components"] = o["objective_components"]
      /\ q["exact_label_eligible"] = o["exact_label_eligible"]
      /\ q["verifier_version"] = o["verifier_version"]
  <2> HIDE DEF q, o
  <2> QED BY <1>1, <1>2
<1>4. /\ q["request_sha256"] = expectation[p].request_sha256
      /\ q["objective_components"] = expectation[p].required.objective_components
      /\ q["exact_label_eligible"] = expectation[p].required.exact_label_eligible
      /\ q["verifier_version"] = expectation[p].verifier_version
  BY DEF Required
<1>5. /\ o["request_sha256"] = Sha256(request[p])
      /\ o["objective_components"] = returned[p].result.objective_components
      /\ o["exact_label_eligible"] = returned[p].result.exact_label_eligible
      /\ returned[p].result.verification = "not_run" => o["verifier_version"] = Null
  BY DEF Observed
<1>6. returned[p].result.model = expectation[p].observed_model_sha256
        \/ expectation[p].model_hash_policy # "exact"
  BY DEF Failures
<1> HIDE DEF q, o
<1> QED BY <1>3, <1>4, <1>5, <1>6

\* What a passing check tells, of any process and expectation.
THEOREM PassesAreEarned == Spec => []RegressionPassIsEarned
<1>1. IInv /\ CallInv /\ AnswerInv => RegressionPassIsEarned
  <2> SUFFICES ASSUME IInv, CallInv, AnswerInv,
                      NEW p \in Process, script[p] = "b6", exit_code[p] = 0
               PROVE  LET e == expectation[p]
                          found == returned[p].trail
                      IN  /\ returned[p].result.status = "SAT" /\ found # NoRecord
                          /\ e.request_sha256 = Sha256(request[p])
                          /\ e.required.exact_label_eligible =>
                               /\ found.rounds \in WithExactWeight
                               /\ MeetsFixed(found.rounds, request[p].fixed)
                               /\ returned[p].result.objective_components
                                    = e.required.objective_components
                               /\ MeetsContract(e.required.objective_components,
                                                request[p].contract)
                          /\ \/ Sha256(found) = e.observed_model_sha256
                             \/ e.model_hash_policy = "record_only"
    BY DEF RegressionPassIsEarned
  <2> DEFINE e == expectation[p]
             r == returned[p].result
  <2>1. AnswerInvOf(p) /\ request[p] \in Requests /\ expectation[p] \in Expectations
    BY DEF AnswerInv, IInv, Shapes
  <2>2. returned[p].outcome = "returned" /\ Failures(p) = {}
    BY <2>1 DEF AnswerInvOf
  <2>3. /\ e.request_sha256 = Sha256(request[p])
        /\ r.objective_components = e.required.objective_components
        /\ r.exact_label_eligible = e.required.exact_label_eligible
        /\ r.verification = "not_run" => e.verifier_version = Null
        /\ r.model = e.observed_model_sha256 \/ e.model_hash_policy # "exact"
    BY <2>2, NothingFailed
  <2>4. e.verifier_version # Null /\ e.model_hash_policy \in {"exact", "record_only"}
    BY <2>1, ScriptsAssumption DEF Null
  <2>5. trail[p] # NoRecord /\ returned[p] = Outcome("returned", SatResult(p), trail[p])
    BY <2>1, <2>2, <2>3, <2>4 DEF AnswerInvOf
  <2>6. r = SatResult(p) /\ returned[p].trail = trail[p]
    BY <2>5 DEF Outcome
  <2>7. /\ r.status = "SAT" /\ r.model = Sha256(trail[p])
        /\ r.objective_components = verification[p].objective_components
        /\ r.exact_label_eligible = (verification[p].issues = {})
    BY <2>6 DEF SatResult
  <2>8. PICK rounds \in Printed[p] : /\ trail[p] = Decoded(p, rounds)
                                     /\ verification[p] = Verify(trail[p], request[p])
    BY <2>1, <2>5 DEF AnswerInvOf
  <2>9. trail[p].rounds = rounds
    BY <2>8 DEF Decoded
  <2>10. /\ verification[p].objective_components = ObjectiveComponents(rounds)
         /\ verification[p].issues = {} =>
              /\ rounds \in WithExactWeight /\ MeetsFixed(rounds, request[p].fixed)
              /\ MeetsContract(ObjectiveComponents(rounds), request[p].contract)
    BY <2>1, <2>8, VerdictSays
  <2>11. e.required.exact_label_eligible => verification[p].issues = {}
    <3>1. e.required.exact_label_eligible = (verification[p].issues = {})
      BY <2>3, <2>7
    <3> QED BY <3>1
  <2>12. r.status = "SAT" /\ returned[p].trail # NoRecord
    BY <2>5, <2>6, <2>7
  <2>13. Sha256(trail[p]) = e.observed_model_sha256 \/ e.model_hash_policy = "record_only"
    BY <2>3, <2>4, <2>7
  <2>14. e.required.exact_label_eligible =>
           /\ trail[p].rounds \in WithExactWeight /\ MeetsFixed(trail[p].rounds, request[p].fixed)
           /\ r.objective_components = e.required.objective_components
           /\ MeetsContract(e.required.objective_components, request[p].contract)
    BY <2>3, <2>7, <2>9, <2>10, <2>11
  <2> QED BY <2>3, <2>6, <2>12, <2>13, <2>14
<1> QED BY <1>1, InvariantHolds, CallInvariant, AnswersInvariant, PTL
==============================================================================
