------------------------- MODULE ExtractPool_proofs -------------------------
(***************************************************************************)
(* Proofs about ExtractPool, for any number of entries and of workers, and *)
(* about JobCount, for any archives, limits and requests:                  *)
(*                                                                         *)
(*   - the variables keep their types;                                     *)
(*   - no entry is held by two workers, or twice;                          *)
(*   - a call that returns OK has completed every entry, and was not       *)
(*     cancelled;                                                          *)
(*   - what the observer is told in the end is what was written;           *)
(*   - the caller and the library start as many threads, as many as the    *)
(*     entries, their sizes and the machine call for;                      *)
(*   - the pool implements ExtractAllSpec.                                 *)
(*                                                                         *)
(* The inductive invariant adds to these the bookkeeping that links the    *)
(* batches to ctx.next (nothing below it is lost) and the program counters *)
(* of the workers to the phase of the calling thread.                      *)
(***************************************************************************)
EXTENDS MCExtractPool, Iteration, FiniteSetTheorems, TLAPS

Working == {"entry", "extract", "finish"}

\* The batch of a thread lies below ctx.next and is empty between batches.
Windows ==
  \A t \in Threads :
    /\ idx[t] <= end[t]
    /\ end[t] <= next
    /\ pc[t] \in Working => idx[t] < end[t]
    /\ pc[t] \in {"off", "init", "claim"} => idx[t] = end[t]

\* Every entry below ctx.next was completed or is in the batch of a thread.
NothingLost ==
  /\ finished \subseteq 0 .. next - 1
  /\ \A e \in 0 .. next - 1 : e \in finished \/ \E t \in Threads : e \in Batch(t)

\* A thread leaves without a failure only when nothing is left to claim.
Departures ==
  \A t \in Threads :
    /\ pc[t] = "fail" => ret[t] \in Failures
    /\ pc[t] = "exited" /\ result = "OK" => idx[t] = end[t] /\ next = Count

\* Which threads run in which phase of the calling thread.
Phases ==
  /\ phase \in {"start", "join"} => pc[Main] = "off"
  /\ \A t \in 1 .. Jobs : t > started => pc[t] = "off"
  /\ phase = "start" /\ started = 0 => next = 0
  /\ phase = "join" => started > 0
  /\ phase = "serial" => started = 0
  /\ phase = "returned" =>
       \/ started > 0 /\ pc[Main] = "off" /\ \A t \in 1 .. started : pc[t] = "exited"
       \/ started = 0 /\ pc[Main] = "exited"

\* A cancellation is recorded, or about to be by the serial loop.
CancelKnown == cancelled => result # "OK" \/ pc[Main] = "fail"

IInv == TypeOK /\ Windows /\ OneOwner /\ NothingLost /\ Departures /\ Phases /\ CancelKnown

-----------------------------------------------------------------------------
(* The batches *)

\* A batch ends after the entry it begins with and within the archive.
LEMMA BatchEndRange ==
  ASSUME NEW i \in Nat, NEW j \in BatchEnds(i)
  PROVE  j \in i + 1 .. Count
  BY DEF BatchEnds

\* OK is not a failure.
LEMMA OkIsNoFailure == "OK" \notin Failures
  BY PoolAssumption DEF Failures

-----------------------------------------------------------------------------
(* The inductive invariant *)

\* The invariant holds before the first worker is started.
LEMMA InitInv == Init => IInv
PROOF
<1> SUFFICES ASSUME Init PROVE IInv
  OBVIOUS
<1> USE PoolAssumption DEF Init, Main, Threads
<1>1. TypeOK
  <2>1. /\ phase \in {"start", "join", "serial", "returned"}
        /\ started \in 0 .. Jobs
        /\ next \in 0 .. Count
        /\ done \in Nat
    OBVIOUS
  <2>2. result \in Results /\ ret \in [Threads -> Results]
    BY DEF Results
  <2>3. /\ pc \in [Threads -> Labels]
        /\ idx \in [Threads -> 0 .. Count]
        /\ end \in [Threads -> 0 .. Count]
        /\ entryDone \in [Threads -> Nat]
    BY DEF Labels
  <2>4. finished \subseteq Entries /\ cancelled \in BOOLEAN
    OBVIOUS
  <2> QED BY <2>1, <2>2, <2>3, <2>4 DEF TypeOK
<1>2. /\ Windows
      /\ OneOwner
      /\ NothingLost
  BY DEF Windows, Working, OneOwner, NothingLost, Batch
<1>3. /\ Departures
      /\ Phases
      /\ CancelKnown
  BY DEF Departures, Phases, CancelKnown
<1> QED BY <1>1, <1>2, <1>3 DEF IInv

\* The serial loop begins with the whole archive as the batch of Main.
LEMMA EnterSerialInv ==
  ASSUME IInv, EnterSerial, phase = "start", started = 0
  PROVE  IInv'
PROOF
<1> USE PoolAssumption DEF Main, Threads
<1>1. /\ next = 0 /\ next' = Count /\ finished = {} /\ finished' = {}
      /\ \A t \in Threads : pc[t] = "off" /\ idx[t] = end[t] /\ end[t] = 0
  BY DEF IInv, TypeOK, Windows, NothingLost, Phases, EnterSerial
<1>2. ASSUME NEW t \in Threads, t # Main
      PROVE  idx'[t] = 0 /\ end'[t] = 0 /\ pc'[t] = "off"
  BY <1>1, <1>2 DEF EnterSerial, IInv, TypeOK, Goto, FailWith
<1>3. /\ idx'[Main] = 0 /\ end'[Main] = Count
      /\ pc'[Main] \in {"entry", "claim", "fail"}
      /\ pc'[Main] = "entry" => Count > 0
      /\ pc'[Main] = "claim" => Count = 0
      /\ pc'[Main] = "fail" => ret'[Main] = "ERR"
  BY <1>1 DEF EnterSerial, IInv, TypeOK, Goto, FailWith
<1>4. TypeOK'
  <2>1. /\ phase' \in {"start", "join", "serial", "returned"}
        /\ next' \in 0 .. Count
        /\ UNCHANGED << started, result, done, entryDone, finished, cancelled >>
    BY DEF EnterSerial
  <2>2. /\ idx' \in [Threads -> 0 .. Count]
        /\ end' \in [Threads -> 0 .. Count]
    BY DEF IInv, TypeOK, EnterSerial
  <2>3. pc' \in [Threads -> Labels]
    BY DEF IInv, TypeOK, EnterSerial, Goto, FailWith, Labels
  <2>4. ret' \in [Threads -> Results]
    BY DEF IInv, TypeOK, EnterSerial, FailWith, Results, Failures
  <2> QED BY <2>1, <2>2, <2>3, <2>4 DEF IInv, TypeOK
<1>5. Windows'
  BY <1>1, <1>2, <1>3 DEF Windows, Working
<1>6. OneOwner'
  BY <1>1, <1>2, <1>3 DEF OneOwner, Batch
<1>7. NothingLost'
  BY <1>1, <1>3 DEF NothingLost, Batch
<1>8. Departures'
  BY <1>2, <1>3 DEF Departures, Failures
<1>9. Phases'
  BY <1>2 DEF Phases, EnterSerial
<1>10. CancelKnown'
  BY <1>1 DEF IInv, CancelKnown, EnterSerial
<1> QED BY <1>4, <1>5, <1>6, <1>7, <1>8, <1>9, <1>10 DEF IInv

\* Starting a worker changes its program counter only.
LEMMA StartWorkerInv ==
  ASSUME IInv, StartWorker
  PROVE  IInv'
PROOF
<1> USE PoolAssumption DEF Main, Threads
<1> DEFINE w == started + 1
<1>1. /\ w \in Threads \ {Main} /\ pc[w] = "off" /\ pc'[w] = "init"
      /\ \A t \in Threads : t # w => pc'[t] = pc[t]
      /\ UNCHANGED << phase, next, result, idx, end, ret, finished, cancelled >>
      /\ phase = "start" /\ started \in Nat /\ started' = w
  BY DEF IInv, TypeOK, Phases, StartWorker, Goto, ctxVars
<1>2. TypeOK'
  BY DEF IInv, TypeOK, StartWorker, Goto, ctxVars, Labels
<1>3. Windows'
  BY <1>1 DEF IInv, Windows, Working
<1>4. OneOwner' /\ NothingLost'
  BY <1>1 DEF IInv, OneOwner, NothingLost, Batch
<1>5. Departures' /\ CancelKnown'
  BY <1>1 DEF IInv, Departures, CancelKnown
<1>6. Phases'
  BY <1>1 DEF IInv, Phases
<1> QED BY <1>2, <1>3, <1>4, <1>5, <1>6 DEF IInv

\* Going on to join, and returning, change the phase only.
LEMMA PhaseInv ==
  ASSUME IInv, UNCHANGED << started, ctxVars, threadVars, finished, cancelled >>,
         phase' \in {"start", "join", "serial", "returned"}, Phases'
  PROVE  IInv'
  BY DEF IInv, TypeOK, Windows, OneOwner, NothingLost, Departures, CancelKnown,
     Batch, ctxVars, threadVars

LEMMA CallerInv ==
  ASSUME IInv, Caller
  PROVE  IInv'
PROOF
<1> USE PoolAssumption DEF Main, Threads
<1>1. CASE RunSerial
  BY <1>1, EnterSerialInv DEF RunSerial
<1>2. CASE StartWorker
  BY <1>2, StartWorkerInv
<1>3. CASE StartFails
  <2>1. CASE started = 0
    BY <1>3, <2>1, EnterSerialInv DEF StartFails
  <2>2. CASE started # 0
    <3>1. Phases'
      BY <1>3, <2>2 DEF StartFails, threadVars, IInv, TypeOK, Phases
    <3> QED BY <1>3, <2>2, <3>1, PhaseInv DEF StartFails
  <2> QED BY <2>1, <2>2
<1>4. CASE StartJoin
  <2>1. Phases'
    BY <1>4 DEF StartJoin, threadVars, IInv, TypeOK, Phases
  <2> QED BY <1>4, <2>1, PhaseInv DEF StartJoin
<1>5. CASE Return
  <2>1. Phases'
    BY <1>5 DEF Return, threadVars, IInv, TypeOK, Phases
  <2> QED BY <1>5, <2>1, PhaseInv DEF Return
<1> QED BY <1>1, <1>2, <1>3, <1>4, <1>5 DEF Caller

-----------------------------------------------------------------------------
(* The steps of a thread *)

\* A step that claims and completes nothing: it moves thread t to label l, may
\* record a failure, and may report progress.
QuietStep(t, l) ==
  /\ l \in Labels \ {"off"}
  /\ Goto(t, l)
  /\ pc[t] \notin {"off", "exited"}
  /\ UNCHANGED << phase, started, next, idx, end, finished >>
  /\ result' \in Results /\ (result # "OK" => result' # "OK")
  /\ done' \in Nat /\ entryDone' \in [Threads -> Nat]
  /\ ret' \in [Threads -> Results]
  /\ \A u \in Threads : u # t => ret'[u] = ret[u]
  /\ cancelled' \in BOOLEAN
  /\ CancelKnown'
  /\ l \in Working => idx[t] < end[t]
  /\ l \in {"init", "claim"} => idx[t] = end[t]
  /\ l = "fail" => ret'[t] \in Failures
  /\ l = "exited" => result' # "OK" \/ (idx[t] = end[t] /\ next = Count)

LEMMA QuietInv ==
  ASSUME IInv, NEW t \in Threads, NEW l, QuietStep(t, l)
  PROVE  IInv'
PROOF
<1> USE PoolAssumption DEF Main, Threads
<1>1. /\ pc'[t] = l /\ l # "off" /\ \A u \in Threads : u # t => pc'[u] = pc[u]
      /\ pc[t] \notin {"off", "exited"}
      /\ phase' = phase /\ started' = started /\ next' = next
  BY DEF QuietStep, Goto, IInv, TypeOK
<1>2. TypeOK'
  BY DEF IInv, TypeOK, QuietStep, Goto
<1>3. Windows'
  BY <1>1 DEF IInv, Windows, QuietStep
<1>4. OneOwner' /\ NothingLost'
  BY DEF IInv, OneOwner, NothingLost, Batch, QuietStep
<1>5. Departures'
  BY <1>1 DEF IInv, Departures, QuietStep
<1>6. Phases'
  <2>1. phase # "returned" /\ (t = Main => phase = "serial")
    BY <1>1 DEF IInv, TypeOK, Phases
  <2>2. phase \in {"start", "join"} => pc'[Main] = "off"
    BY <1>1, <2>1 DEF IInv, Phases
  <2>3. \A u \in 1 .. Jobs : u > started => pc'[u] = "off"
    BY <1>1 DEF IInv, TypeOK, Phases
  <2>4. /\ phase = "start" /\ started = 0 => next = 0
        /\ phase = "join" => started > 0
        /\ phase = "serial" => started = 0
    BY DEF IInv, Phases
  <2> QED BY <1>1, <2>1, <2>2, <2>3, <2>4 DEF Phases
<1>7. CancelKnown'
  BY DEF QuietStep
<1> QED BY <1>2, <1>3, <1>4, <1>5, <1>6, <1>7 DEF IInv

\* The steps that leave the batches alone.
LEMMA QuietStepInv ==
  ASSUME IInv, NEW t \in Threads,
         \/ InitWorker(t) \/ InitFails(t) \/ Leave(t) \/ BeginEntry(t) \/ PathFails(t)
         \/ ReportChunk(t) \/ EntrySucceeds(t) \/ EntryFails(t) \/ Fail(t)
  PROVE  IInv'
PROOF
<1> USE PoolAssumption DEF Main, Threads
<1>0. /\ TypeOK /\ CancelKnown /\ Departures
      /\ idx[t] <= end[t] /\ end[t] <= next /\ idx[t] \in Nat /\ end[t] \in Nat
      /\ pc[t] \in Working => idx[t] < end[t] /\ idx[t] \in Entries
      /\ pc[t] \in {"off", "init", "claim"} => idx[t] = end[t]
  <2>1. idx[t] \in Nat /\ end[t] \in Nat /\ end[t] <= Count
    BY DEF IInv, TypeOK
  <2>2. /\ idx[t] <= end[t] /\ end[t] <= next
        /\ pc[t] \in Working => idx[t] < end[t]
        /\ pc[t] \in {"off", "init", "claim"} => idx[t] = end[t]
    BY DEF IInv, Windows
  <2> QED BY <2>1, <2>2 DEF IInv, Entries
<1>1. CASE InitWorker(t)
  <2>1. CancelKnown'
    BY <1>0, <1>1 DEF InitWorker, CancelKnown, ctxVars, Goto, TypeOK
  <2>2. QuietStep(t, "claim")
    BY <1>0, <1>1, <2>1 DEF QuietStep, InitWorker, ctxVars, TypeOK, Labels, Working
  <2> QED BY <2>2, QuietInv
<1>2. CASE InitFails(t)
  <2>1. result' \in Failures
    BY <1>0, <1>2 DEF InitFails, Record, TypeOK, Results, Failures
  <2>2. CancelKnown' /\ result' \in Results /\ result' # "OK"
    BY <2>1, OkIsNoFailure DEF CancelKnown, Results
  <2>3. QuietStep(t, "exited")
    BY <1>0, <1>2, <2>2 DEF QuietStep, InitFails, TypeOK, Labels, Working
  <2> QED BY <2>3, QuietInv
<1>3. CASE Leave(t)
  <2>1. CancelKnown'
    BY <1>0, <1>3 DEF Leave, CancelKnown, ctxVars, Goto, TypeOK
  <2>2. result = "OK" => next = Count
    BY <1>0, <1>3 DEF Leave, TypeOK
  <2>3. QuietStep(t, "exited")
    BY <1>0, <1>3, <2>1, <2>2 DEF QuietStep, Leave, ctxVars, TypeOK, Labels, Working
  <2> QED BY <2>3, QuietInv
<1>4. CASE BeginEntry(t)
  <2>1. CancelKnown'
    BY <1>0, <1>4 DEF BeginEntry, CancelKnown, ctxVars, Goto, TypeOK
  <2> DEFINE l == IF idx[t] \in Skip THEN "finish" ELSE "extract"
  <2>2. QuietStep(t, l)
    BY <1>0, <1>4, <2>1 DEF QuietStep, BeginEntry, ctxVars, TypeOK, Labels, Working
  <2> QED BY <2>2, QuietInv
<1>5. CASE PathFails(t)
  <2>1. CancelKnown'
    BY <1>0, <1>5 DEF PathFails, FailWith, CancelKnown, ctxVars, Goto, TypeOK
  <2>2. "ERR" \in Failures /\ Failures \subseteq Results
    BY DEF Results, Failures
  <2>3. QuietStep(t, "fail")
    BY <1>0, <1>5, <2>1, <2>2
    DEF QuietStep, PathFails, FailWith, ctxVars, TypeOK, Labels, Working
  <2> QED BY <2>3, QuietInv
<1>6. CASE ReportChunk(t)
  <2>1. PICK amount \in 1 .. Size[idx[t]] - entryDone[t], go \in BOOLEAN :
          /\ Advance(t, amount, go)
          /\ IF go THEN UNCHANGED << pc, ret >> ELSE FailWith(t, "ECANCEL")
    BY <1>6 DEF ReportChunk
  <2>2. amount \in Nat
    BY <1>0, <1>6 DEF ReportChunk, TypeOK, Working
  <2>3. done' \in Nat /\ entryDone' \in [Threads -> Nat]
    <3>1. /\ done' = done + amount
          /\ entryDone' = [entryDone EXCEPT ![t] = entryDone[t] + amount]
      BY <2>1 DEF Advance
    <3>2. done \in Nat /\ entryDone \in [Threads -> Nat]
      BY <1>0 DEF TypeOK
    <3> QED BY <2>2, <3>1, <3>2
  <2>4. UNCHANGED << phase, started, next, idx, end, finished >> /\ pc[t] = "extract"
    BY <1>6 DEF ReportChunk
  <2>5. "ECANCEL" \in Failures /\ Failures \subseteq Results
    BY DEF Results, Failures
  <2>6. CASE go
    <3>1. pc' = pc /\ ret' = ret /\ result' = result /\ cancelled' = cancelled
      BY <2>1, <2>6 DEF Advance
    <3>2. QuietStep(t, "extract")
      BY <1>0, <2>3, <2>4, <3>1 DEF QuietStep, Goto, TypeOK, Labels, Working, CancelKnown
    <3> QED BY <3>2, QuietInv
  <2>7. CASE ~go
    <3>1. /\ Goto(t, "fail") /\ ret' = [ret EXCEPT ![t] = "ECANCEL"]
          /\ cancelled' = TRUE
          /\ IF t = Main THEN result' = result ELSE Record("ECANCEL")
      BY <2>1, <2>7 DEF Advance, FailWith
    <3>2. result' \in Results /\ (result # "OK" => result' # "OK")
          /\ (t # Main => result' # "OK")
      BY <1>0, <2>5, <3>1, OkIsNoFailure DEF TypeOK, Record
    <3>3. CancelKnown'
      BY <1>0, <3>1, <3>2 DEF CancelKnown, Goto, TypeOK
    <3>4. QuietStep(t, "fail")
      BY <1>0, <2>3, <2>4, <2>5, <3>1, <3>2, <3>3 DEF QuietStep, TypeOK, Labels, Working
    <3> QED BY <3>4, QuietInv
  <2> QED BY <2>6, <2>7
<1>7. CASE EntrySucceeds(t)
  <2>1. CancelKnown'
    BY <1>0, <1>7 DEF EntrySucceeds, CancelKnown, ctxVars, Goto, TypeOK
  <2>2. QuietStep(t, "finish")
    BY <1>0, <1>7, <2>1 DEF QuietStep, EntrySucceeds, ctxVars, TypeOK, Labels, Working
  <2> QED BY <2>2, QuietInv
<1>8. CASE EntryFails(t)
  <2>1. CancelKnown'
    BY <1>0, <1>8 DEF EntryFails, FailWith, CancelKnown, ctxVars, Goto, TypeOK
  <2>2. EntryErrors \subseteq Failures /\ Failures \subseteq Results
    BY DEF Results, Failures
  <2>3. QuietStep(t, "fail")
    BY <1>0, <1>8, <2>1, <2>2
    DEF QuietStep, EntryFails, FailWith, ctxVars, TypeOK, Labels, Working
  <2> QED BY <2>3, QuietInv
<1>9. CASE Fail(t)
  <2>1. result' \in Failures
    BY <1>0, <1>9 DEF Fail, Record, TypeOK, Departures, Results
  <2>2. CancelKnown' /\ result' \in Results /\ result' # "OK"
    BY <2>1, OkIsNoFailure DEF CancelKnown, Results
  <2>3. QuietStep(t, "exited")
    BY <1>0, <1>9, <2>2 DEF QuietStep, Fail, TypeOK, Labels, Working
  <2> QED BY <2>3, QuietInv
<1> QED BY <1>1, <1>2, <1>3, <1>4, <1>5, <1>6, <1>7, <1>8, <1>9

\* A claim moves ctx.next and takes over exactly what it moved past.
LEMMA ClaimInv ==
  ASSUME IInv, NEW t \in Threads, Claim(t)
  PROVE  IInv'
PROOF
<1> USE PoolAssumption DEF Main, Threads
<1>1. PICK j \in BatchEnds(next) :
        /\ idx'  = [idx EXCEPT ![t] = next]
        /\ end'  = [end EXCEPT ![t] = j]
        /\ next' = j
  BY DEF Claim
<1>2. /\ next \in Nat /\ j \in next + 1 .. Count
      /\ idx[t] = end[t] /\ idx[t] \in Nat
  <2>1. next \in Nat
    BY DEF IInv, TypeOK
  <2>2. idx[t] \in Nat /\ idx[t] = end[t]
    BY DEF IInv, TypeOK, Windows, Claim
  <2> QED BY <2>1, <2>2, <1>1, BatchEndRange
<1>3. /\ idx'[t] = next /\ end'[t] = j /\ pc'[t] = "entry" /\ pc[t] = "claim"
      /\ \A u \in Threads : u # t =>
           idx'[u] = idx[u] /\ end'[u] = end[u] /\ pc'[u] = pc[u]
      /\ UNCHANGED << phase, started, result, ret, finished, cancelled >>
  BY <1>1 DEF IInv, TypeOK, Claim, Goto
<1>4. TypeOK'
  <2>1. /\ idx' \in [Threads -> 0 .. Count]
        /\ end' \in [Threads -> 0 .. Count]
        /\ next' \in 0 .. Count
    BY <1>1, <1>2 DEF IInv, TypeOK
  <2>2. pc' \in [Threads -> Labels]
    BY DEF IInv, TypeOK, Claim, Goto, Labels
  <2> QED BY <2>1, <2>2 DEF IInv, TypeOK, Claim
<1>5. Windows'
  <2>1. \A u \in Threads : idx[u] \in Int /\ end[u] \in Int
    BY DEF IInv, TypeOK
  <2> QED BY <1>1, <1>2, <1>3, <2>1 DEF IInv, Windows, Working
<1>6. OneOwner'
  <2>1. \A u \in Threads : Batch(u) \subseteq 0 .. next - 1
    <3>1. \A u \in Threads : idx[u] \in Nat /\ end[u] \in Nat
      BY DEF IInv, TypeOK
    <3>2. \A u \in Threads : end[u] <= next
      BY DEF IInv, Windows
    <3> QED BY <1>2, <3>1, <3>2 DEF Batch
  <2>2. Batch(t)' = next .. j - 1
    BY <1>3 DEF Batch
  <2>3. \A u \in Threads : u # t => Batch(u)' = Batch(u)
    BY <1>3 DEF Batch
  <2>4. \A u \in Threads : u # t => Batch(u) \intersect (next .. j - 1) = {}
    BY <1>2, <2>1
  <2>5. finished \intersect (next .. j - 1) = {}
    BY <1>2 DEF IInv, NothingLost
  <2>6. \A u, v \in Threads : u # v => Batch(u)' \intersect Batch(v)' = {}
    <3> TAKE u, v \in Threads
    <3> HAVE u # v
    <3>1. Batch(u) \intersect Batch(v) = {}
      BY DEF IInv, OneOwner
    <3>2. CASE u = t
      BY <2>2, <2>3, <2>4, <3>2
    <3>3. CASE v = t
      BY <2>2, <2>3, <2>4, <3>3
    <3>4. CASE u # t /\ v # t
      BY <2>3, <3>1, <3>4
    <3> QED BY <3>2, <3>3, <3>4
  <2>7. \A u \in Threads : Batch(u)' \intersect finished' = {}
    BY <1>3, <2>2, <2>3, <2>5 DEF IInv, OneOwner
  <2> QED BY <2>6, <2>7 DEF OneOwner
<1>7. NothingLost'
  <2>1. finished' \subseteq 0 .. next' - 1
    BY <1>1, <1>2, <1>3 DEF IInv, NothingLost
  <2>2. ASSUME NEW e \in 0 .. next' - 1
        PROVE  e \in finished' \/ \E u \in Threads : e \in Batch(u)'
    <3>1. CASE e >= next
      BY <1>1, <1>2, <1>3, <2>2, <3>1 DEF Batch
    <3>2. CASE e < next
      <4>1. e \in finished \/ \E u \in Threads : e \in Batch(u)
        BY <1>2, <2>2, <3>2 DEF IInv, NothingLost
      <4>2. Batch(t) = {}
        BY <1>2 DEF Batch
      <4> QED BY <1>3, <4>1, <4>2 DEF Batch
    <3> QED BY <1>1, <1>2, <2>2, <3>1, <3>2
  <2> QED BY <2>1, <2>2 DEF NothingLost
<1>8. Departures'
  <2>1. \A u \in Threads : pc[u] = "exited" => result # "OK"
    BY <1>2 DEF IInv, Departures
  <2> QED BY <1>3, <2>1 DEF IInv, Departures
<1>9. Phases'
  <2>1. /\ phase # "returned" /\ (t = Main => phase = "serial")
        /\ started # 0 \/ phase # "start"
    BY <1>3 DEF IInv, TypeOK, Phases
  <2> QED BY <1>3, <2>1 DEF IInv, TypeOK, Phases
<1>10. CancelKnown'
  BY <1>3 DEF IInv, CancelKnown
<1> QED BY <1>4, <1>5, <1>6, <1>7, <1>8, <1>9, <1>10 DEF IInv

\* What FinishEntry does when it completes the entry.
LEMMA NextEntryInv ==
  ASSUME IInv, NEW t \in Threads, pc[t] = "finish", NextEntry(t),
         UNCHANGED << phase, started, next, end, result, cancelled >>,
         done' \in Nat, entryDone' \in [Threads -> Nat]
  PROVE  IInv'
PROOF
<1> USE PoolAssumption DEF Main, Threads
<1> DEFINE l == IF idx[t] + 1 < end[t] THEN "entry" ELSE "claim"
<1>1. /\ idx[t] \in Nat /\ end[t] \in Nat /\ end[t] <= next /\ idx[t] < end[t]
      /\ next \in 0 .. Count
  BY DEF IInv, TypeOK, Windows, Working
<1>2. /\ idx'[t] = idx[t] + 1 /\ pc'[t] = l
      /\ \A u \in Threads : u # t => idx'[u] = idx[u] /\ pc'[u] = pc[u]
      /\ finished' = finished \union {idx[t]}
      /\ UNCHANGED << phase, started, next, end, result, ret, cancelled >>
  BY DEF IInv, TypeOK, NextEntry, Goto
<1>3. TypeOK'
  <2>1. idx' \in [Threads -> 0 .. Count] /\ finished' \subseteq Entries
    <3>1. idx[t] + 1 \in 0 .. Count /\ idx[t] \in Entries
      BY <1>1 DEF Entries
    <3> QED BY <3>1 DEF IInv, TypeOK, NextEntry
  <2>2. pc' \in [Threads -> Labels]
    BY DEF IInv, TypeOK, NextEntry, Goto, Labels
  <2> QED BY <1>2, <2>1, <2>2 DEF IInv, TypeOK
<1>4. Windows'
  <2>1. /\ idx'[t] <= end[t] /\ end[t] <= next
        /\ l \in Working => idx'[t] < end[t]
        /\ l \in {"off", "init", "claim"} => idx'[t] = end[t]
    BY <1>1, <1>2 DEF Working
  <2> QED BY <1>2, <2>1 DEF IInv, Windows
<1>5. /\ \A u \in Threads : u # t => Batch(u)' = Batch(u)
      /\ Batch(t)' = Batch(t) \ {idx[t]}
      /\ idx[t] \in Batch(t)
  BY <1>1, <1>2 DEF Batch
<1>6. OneOwner'
  <2>1. \A u, v \in Threads : u # v => Batch(u)' \intersect Batch(v)' = {}
    BY <1>5 DEF IInv, OneOwner
  <2>2. \A u \in Threads : Batch(u)' \intersect finished' = {}
    BY <1>2, <1>5 DEF IInv, OneOwner
  <2> QED BY <2>1, <2>2 DEF OneOwner
<1>7. NothingLost'
  <2>1. finished' \subseteq 0 .. next' - 1
    <3>1. idx[t] \in 0 .. next - 1
      BY <1>1
    <3> QED BY <1>2, <3>1 DEF IInv, NothingLost
  <2>2. \A e \in 0 .. next' - 1 : e \in finished' \/ \E u \in Threads : e \in Batch(u)'
    BY <1>2, <1>5 DEF IInv, NothingLost
  <2> QED BY <2>1, <2>2 DEF NothingLost
<1>8. Departures'
  BY <1>2 DEF IInv, Departures
<1>9. Phases'
  <2>1. /\ phase # "returned" /\ (t = Main => phase = "serial")
        /\ started # 0 \/ phase # "start"
    <3>1. t # Main => t \in 1 .. started
      BY DEF IInv, TypeOK, Phases
    <3>2. t = Main => phase = "serial" \/ phase = "returned"
      BY DEF IInv, TypeOK, Phases
    <3>3. phase # "returned"
      BY <3>1 DEF IInv, Phases
    <3> QED BY <3>1, <3>2, <3>3
  <2>3. phase \in {"start", "join"} => pc'[Main] = "off"
    BY <1>2, <2>1 DEF IInv, Phases
  <2>4. \A u \in 1 .. Jobs : u > started => pc'[u] = "off"
    <3>1. ~(t > started)
      BY DEF IInv, TypeOK, Phases
    <3> QED BY <1>2, <3>1 DEF IInv, Phases
  <2> QED BY <1>2, <2>1, <2>3, <2>4 DEF IInv, Phases
<1>10. CancelKnown'
  BY <1>2 DEF IInv, CancelKnown
<1> QED BY <1>3, <1>4, <1>6, <1>7, <1>8, <1>9, <1>10 DEF IInv

LEMMA FinishEntryInv ==
  ASSUME IInv, NEW t \in Threads, FinishEntry(t)
  PROVE  IInv'
PROOF
<1> USE PoolAssumption DEF Main, Threads
<1>1. /\ pc[t] = "finish" /\ UNCHANGED << phase, started, next, end >>
      /\ idx[t] \in Entries
  <2>1. pc[t] = "finish" /\ UNCHANGED << phase, started, next, end >>
    BY DEF FinishEntry
  <2>2. idx[t] \in Nat /\ end[t] \in Nat /\ idx[t] < end[t] /\ end[t] <= Count
    BY <2>1 DEF IInv, TypeOK, Windows, Working
  <2>3. Count \in Nat
    OBVIOUS
  <2> QED BY <2>1, <2>2, <2>3 DEF Entries
<1>2. CASE Missing(t) > 0
  <2>1. PICK go \in BOOLEAN :
          /\ Advance(t, Missing(t), go)
          /\ IF go THEN NextEntry(t)
                   ELSE FailWith(t, "ECANCEL") /\ UNCHANGED << idx, finished >>
    BY <1>2 DEF FinishEntry
  <2>2. Missing(t) \in Nat
    BY <1>1, <1>2 DEF Missing, IInv, TypeOK
  <2>3. done' \in Nat /\ entryDone' \in [Threads -> Nat]
    <3>1. /\ done' = done + Missing(t)
          /\ entryDone' = [entryDone EXCEPT ![t] = entryDone[t] + Missing(t)]
      BY <2>1 DEF Advance
    <3>2. done \in Nat /\ entryDone \in [Threads -> Nat]
      BY DEF IInv, TypeOK
    <3> QED BY <2>2, <3>1, <3>2
  <2>4. CASE go
    <3>1. UNCHANGED << result, cancelled >> /\ NextEntry(t)
      BY <2>1, <2>4 DEF Advance
    <3> QED BY <1>1, <2>3, <3>1, NextEntryInv
  <2>5. CASE ~go
    <3>1. /\ Goto(t, "fail") /\ ret' = [ret EXCEPT ![t] = "ECANCEL"]
          /\ cancelled' = TRUE /\ UNCHANGED << idx, finished >>
          /\ IF t = Main THEN result' = result ELSE Record("ECANCEL")
      BY <2>1, <2>5 DEF Advance, FailWith
    <3>2. "ECANCEL" \in Failures /\ Failures \subseteq Results
      BY DEF Results, Failures
    <3>3. result' \in Results /\ (result # "OK" => result' # "OK")
          /\ (t # Main => result' # "OK")
      BY <3>1, <3>2, OkIsNoFailure DEF IInv, TypeOK, Record
    <3>4. CancelKnown'
      BY <3>1, <3>3 DEF CancelKnown, Goto, IInv, TypeOK
    <3>5. QuietStep(t, "fail")
      BY <1>1, <2>3, <3>1, <3>2, <3>3, <3>4 DEF QuietStep, IInv, TypeOK, Labels, Working
    <3> QED BY <3>5, QuietInv
  <2> QED BY <2>4, <2>5
<1>3. CASE ~(Missing(t) > 0)
  <2>1. NextEntry(t) /\ UNCHANGED << entryDone, done, result, cancelled >>
    BY <1>3 DEF FinishEntry
  <2>2. done \in Nat /\ entryDone \in [Threads -> Nat]
    BY DEF IInv, TypeOK
  <2> QED BY <1>1, <2>1, <2>2, NextEntryInv
<1> QED BY <1>2, <1>3

-----------------------------------------------------------------------------
(* The theorems *)

LEMMA StutterInv ==
  ASSUME IInv, UNCHANGED vars
  PROVE  IInv'
  BY DEF vars, ctxVars, threadVars, IInv, TypeOK, Windows, OneOwner, NothingLost,
     Departures, Phases, CancelKnown, Batch

LEMMA NextInv ==
  ASSUME IInv, [Next]_vars
  PROVE  IInv'
PROOF
<1>1. CASE Caller
  BY <1>1, CallerInv
<1>2. ASSUME NEW t \in Threads, Step(t)
      PROVE  IInv'
  BY <1>2, QuietStepInv, ClaimInv, FinishEntryInv DEF Step
<1>3. CASE UNCHANGED vars
  BY <1>3, StutterInv
<1> QED BY <1>1, <1>2, <1>3 DEF Next

\* The strengthened invariant holds in every reachable state.
THEOREM Invariance == Spec => []IInv
PROOF
<1>1. Init => IInv
  BY InitInv
<1>2. IInv /\ [Next]_vars => IInv'
  BY NextInv
<1> QED BY <1>1, <1>2, PTL DEF Spec

\* The variables keep their types (extract_all_context_t, the worker's locals).
THEOREM TypeCorrect == Spec => []TypeOK
PROOF
<1>1. IInv => TypeOK
  BY DEF IInv
<1> QED BY <1>1, Invariance, PTL

\* No two threads hold the same entry, and none holds a completed one.
THEOREM ClaimsArePartition == Spec => []OneOwner
PROOF
<1>1. IInv => OneOwner
  BY DEF IInv
<1> QED BY <1>1, Invariance, PTL

\* When every thread that ran has left without a failure, all batches are empty
\* and nothing is unclaimed.
LEMMA AllLeftComplete ==
  ASSUME IInv, result = "OK",
         \A t \in Threads : pc[t] \in {"off", "exited"},
         \E t \in Threads : pc[t] = "exited"
  PROVE  finished = Entries /\ ~cancelled
PROOF
<1> USE PoolAssumption DEF Main, Threads
<1>1. \A t \in Threads : Batch(t) = {}
  <2>1. \A t \in Threads : idx[t] \in Nat /\ idx[t] = end[t]
    BY DEF IInv, TypeOK, Windows, Departures
  <2> QED BY <2>1 DEF Batch
<1>2. next = Count
  BY DEF IInv, Departures
<1>3. finished = Entries
  BY <1>1, <1>2 DEF IInv, NothingLost, Entries
<1>4. ~cancelled
  BY DEF IInv, CancelKnown
<1> QED BY <1>3, <1>4

\* Who has left when the calling thread may return, or has returned.
LEMMA WhoHasLeft ==
  ASSUME IInv,
         \/ phase = "join" /\ \A t \in 1 .. started : pc[t] = "exited"
         \/ phase = "serial" /\ pc[Main] = "exited"
         \/ phase = "returned"
  PROVE  /\ \A t \in Threads : pc[t] \in {"off", "exited"}
         /\ \E t \in Threads : pc[t] = "exited"
PROOF
<1> USE PoolAssumption DEF Main, Threads
<1>1. CASE started = 0
  <2>1. pc[0] = "exited" /\ 0 \in Threads
    BY <1>1 DEF IInv, Phases
  <2>2. \A t \in Threads : t # 0 => pc[t] = "off"
    BY <1>1 DEF IInv, Phases
  <2> QED BY <2>1, <2>2
<1>2. CASE started > 0
  <2>1. 1 \in 1 .. started /\ 1 \in Threads /\ started \in Nat
    BY <1>2 DEF IInv, TypeOK
  <2>2. pc[0] = "off" /\ \A t \in 1 .. started : pc[t] = "exited"
    BY <1>2 DEF IInv, Phases
  <2>3. \A t \in Threads : t > started => pc[t] = "off"
    BY <2>1 DEF IInv, Phases
  <2> QED BY <2>1, <2>2, <2>3
<1> QED BY <1>1, <1>2 DEF IInv, TypeOK

LEMMA ReturnedComplete ==
  ASSUME IInv, phase = "returned", result = "OK"
  PROVE  finished = Entries /\ ~cancelled
  BY AllLeftComplete, WhoHasLeft

\* A call that returns OK lost no entry, whatever threads failed to start.
THEOREM OkIsComplete == Spec => []ResultOkIsComplete
PROOF
<1>1. IInv => ResultOkIsComplete
  BY ReturnedComplete DEF ResultOkIsComplete
<1> QED BY <1>1, Invariance, PTL

\* A cancelled call never returns OK, in the pool or in the serial loop.
THEOREM CancelIsHonoured == Spec => []CancelHonoured
PROOF
<1>1. IInv => CancelHonoured
  BY ReturnedComplete DEF CancelHonoured
<1> QED BY <1>1, Invariance, PTL

-----------------------------------------------------------------------------
(* The pool implements ExtractAllSpec *)

\* A step that neither records a failure, nor completes an entry, nor returns.
LEMMA QuietForPromise ==
  ASSUME result' = result, finished' = finished,
         phase' = phase \/ (phase # "returned" /\ phase' # "returned")
  PROVE  UNCHANGED Promise!vars
PROOF
<1>1. (phase = "returned")' = (phase = "returned")
  OBVIOUS
<1> QED BY <1>1 DEF Promise!vars

\* A step that records a failure, or none, while the call goes on.
LEMMA FailureStep ==
  ASSUME phase # "returned", phase' = phase, finished' = finished,
         NEW r \in Failures, result' = result \/ Record(r)
  PROVE  Promise!Next \/ UNCHANGED Promise!vars
PROOF
<1>1. CASE result' = result
  BY <1>1, QuietForPromise
<1>2. CASE result = "OK" /\ Record(r)
  <2>1. Promise!Fail(r)
    BY <1>2 DEF Promise!Fail, Record
  <2> QED BY <2>1 DEF Promise!Next
<1>3. CASE result # "OK" /\ Record(r)
  BY <1>3, QuietForPromise DEF Record
<1> QED BY <1>1, <1>2, <1>3

\* A thread that is working means that the call has not returned.
LEMMA WorkingNotReturned ==
  ASSUME IInv, NEW t \in Threads, pc[t] \notin {"off", "exited"}
  PROVE  phase # "returned"
PROOF
<1> USE PoolAssumption DEF Threads, Main
<1>1. t # Main => t \in 1 .. started
  BY DEF IInv, TypeOK, Phases
<1> QED BY <1>1 DEF IInv, Phases

\* Completing an entry is Complete of the abstract specification.
LEMMA CompleteStep ==
  ASSUME IInv, NEW t \in Threads, pc[t] = "finish", NextEntry(t),
         result' = result, phase' = phase
  PROVE  Promise!Next
PROOF
<1> USE PoolAssumption DEF Main, Threads
<1>1. idx[t] \in Batch(t) /\ idx[t] \in Entries
  <2>1. /\ idx[t] \in Nat /\ end[t] \in Nat /\ idx[t] < end[t] /\ end[t] <= Count
    BY DEF IInv, TypeOK, Windows, Working
  <2> QED BY <2>1 DEF Batch, Entries
<1>2. idx[t] \notin finished
  BY <1>1 DEF IInv, OneOwner
<1>3. phase # "returned"
  BY WorkingNotReturned
<1>4. finished' = finished \union {idx[t]}
  BY DEF NextEntry
<1>5. Promise!Complete(idx[t])
  BY <1>2, <1>3, <1>4 DEF Promise!Complete
<1> QED BY <1>1, <1>5 DEF Promise!Next

\* Every step of the pool is a step of the promise, or changes nothing of it.
LEMMA StepKeepsPromise ==
  ASSUME IInv, [Next]_vars
  PROVE  Promise!Next \/ UNCHANGED Promise!vars
PROOF
<1>1. CASE Return
  <2>1. /\ phase # "returned" /\ phase' = "returned"
        /\ UNCHANGED << result, finished >>
    BY <1>1 DEF Return, ctxVars
  <2>2. result = "OK" => finished = Entries
    BY <1>1, AllLeftComplete, WhoHasLeft DEF Return
  <2>3. Promise!Return
    BY <2>1, <2>2 DEF Promise!Return
  <2> QED BY <2>3 DEF Promise!Next
<1>2. CASE RunSerial \/ StartWorker \/ StartFails \/ StartJoin
  <2>1. /\ phase # "returned" /\ phase' # "returned"
        /\ UNCHANGED << result, finished >>
    BY <1>2 DEF RunSerial, StartWorker, StartFails, StartJoin, EnterSerial, ctxVars
  <2> QED BY <2>1, QuietForPromise
<1>3. ASSUME NEW t \in Threads, Step(t)
      PROVE  Promise!Next \/ UNCHANGED Promise!vars
  <2>1. phase' = phase
    BY <1>3 DEF Step, InitWorker, InitFails, Claim, Leave, BeginEntry, PathFails,
       ReportChunk, EntrySucceeds, EntryFails, FinishEntry, Fail
  <2>2. CASE InitFails(t)
    <3>1. phase # "returned"
      BY <2>2, WorkingNotReturned DEF InitFails
    <3>2. "EFILE" \in Failures /\ "ERR" \in Failures /\ finished' = finished
      BY <2>2 DEF InitFails, Failures
    <3> QED BY <2>1, <2>2, <3>1, <3>2, FailureStep DEF InitFails
  <2>3. CASE ReportChunk(t)
    <3>1. phase # "returned"
      BY <2>3, WorkingNotReturned DEF ReportChunk
    <3>2. "ECANCEL" \in Failures /\ finished' = finished
      BY <2>3 DEF ReportChunk, Failures
    <3>3. result' = result \/ Record("ECANCEL")
      BY <2>3 DEF ReportChunk, Advance
    <3> QED BY <2>1, <3>1, <3>2, <3>3, FailureStep
  <2>4. CASE FinishEntry(t)
    <3>1. pc[t] = "finish"
      BY <2>4 DEF FinishEntry
    <3>2. CASE NextEntry(t) /\ result' = result
      BY <2>1, <3>1, <3>2, CompleteStep
    <3>3. CASE finished' = finished /\ (result' = result \/ Record("ECANCEL"))
      <4>1. phase # "returned"
        BY <3>1, WorkingNotReturned
      <4>2. "ECANCEL" \in Failures
        BY DEF Failures
      <4> QED BY <2>1, <3>3, <4>1, <4>2, FailureStep
    <3>4. \/ NextEntry(t) /\ result' = result
          \/ finished' = finished /\ (result' = result \/ Record("ECANCEL"))
      BY <2>4 DEF FinishEntry, Advance
    <3> QED BY <3>2, <3>3, <3>4
  <2>5. CASE Fail(t)
    <3>1. pc[t] = "fail" /\ finished' = finished /\ Record(ret[t])
      BY <2>5 DEF Fail
    <3>2. phase # "returned" /\ ret[t] \in Failures
      BY <3>1, WorkingNotReturned DEF IInv, Departures
    <3> QED BY <2>1, <3>1, <3>2, FailureStep
  <2>6. CASE \/ InitWorker(t) \/ Claim(t) \/ Leave(t) \/ BeginEntry(t)
             \/ PathFails(t) \/ EntrySucceeds(t) \/ EntryFails(t)
    <3>1. UNCHANGED << result, finished >>
      BY <2>6 DEF InitWorker, Claim, Leave, BeginEntry, PathFails, EntrySucceeds,
         EntryFails, ctxVars
    <3> QED BY <2>1, <3>1, QuietForPromise
  <2> QED BY <1>3, <2>2, <2>3, <2>4, <2>5, <2>6 DEF Step
<1>4. CASE UNCHANGED vars
  BY <1>4, QuietForPromise DEF vars, ctxVars
<1> QED BY <1>1, <1>2, <1>3, <1>4 DEF Next, Caller

\* The pool, whatever its size and whatever fails, keeps the promise of
\* zipy_extract_all: every behaviour of the pool is one of ExtractAllSpec.
THEOREM PoolKeepsPromise == Spec => PromiseKept
PROOF
<1>1. Init => Promise!Init
  BY DEF Init, Promise!Init
<1>2. IInv /\ [Next]_vars => [Promise!Next]_Promise!vars
  BY StepKeepsPromise
<1> QED BY <1>1, <1>2, Invariance, PTL DEF Spec, PromiseKept, Promise!Spec
-----------------------------------------------------------------------------
(* The bytes of a set of entries *)

LEMMA PieceSize ==
  ASSUME NEW e, NEW a \in Nat, NEW b \in Nat, a <= b + 1
  PROVE  /\ IsFiniteSet({e} \X (a .. b))
         /\ Cardinality({e} \X (a .. b)) = b - a + 1
PROOF
<1>1. IsFiniteSet({e}) /\ Cardinality({e}) = 1
  BY FS_Singleton
<1>2. IsFiniteSet(a .. b) /\ Cardinality(a .. b) = b - a + 1
  BY FS_Interval
<1>3. /\ IsFiniteSet({e} \X (a .. b))
      /\ Cardinality({e} \X (a .. b)) = Cardinality({e}) * Cardinality(a .. b)
  BY <1>1, <1>2, FS_Product
<1>4. Cardinality({e}) * Cardinality(a .. b) = b - a + 1
  BY <1>1, <1>2
<1> QED BY <1>3, <1>4

LEMMA EntrySize ==
  ASSUME NEW e, NEW n \in Nat
  PROVE  IsFiniteSet({e} \X (1 .. n)) /\ Cardinality({e} \X (1 .. n)) = n
PROOF
<1> DEFINE a == 1
<1>1. a \in Nat /\ a <= n + 1 /\ n - a + 1 = n
  OBVIOUS
<1>2. IsFiniteSet({e} \X (a .. n)) /\ Cardinality({e} \X (a .. n)) = n
  <2> HIDE DEF a
  <2>1. Cardinality({e} \X (a .. n)) = n - a + 1
    BY <1>1, PieceSize
  <2>2. IsFiniteSet({e} \X (a .. n))
    BY <1>1, PieceSize
  <2> QED BY <1>1, <2>1, <2>2
<1> QED BY <1>2

LEMMA ContentIsFinite ==
  ASSUME NEW S \in SUBSET Entries
  PROVE  IsFiniteSet(Content(S)) /\ Bytes(S) \in Nat
PROOF
<1> USE PoolAssumption
<1> DEFINE Block == [e \in S |-> {e} \X (1 .. Size[e])]
<1> DEFINE Extents == { {e} \X (1 .. Size[e]) : e \in S }
<1>1. IsFiniteSet(S)
  <2>1. IsFiniteSet(Entries)
    BY FS_Interval DEF Entries
  <2> QED BY <2>1, FS_Subset
<1>2. Block \in Surjection(S, Extents)
  BY DEF Surjection
<1>3. IsFiniteSet(Extents)
  BY <1>1, <1>2, FS_Surjection
<1>4. \A B \in Extents : IsFiniteSet(B)
  <2> TAKE B \in Extents
  <2>1. PICK e \in S : B = {e} \X (1 .. Size[e])
    OBVIOUS
  <2>2. Size[e] \in Nat
    OBVIOUS
  <2>3. IsFiniteSet({e} \X (1 .. Size[e]))
    BY <2>2, EntrySize
  <2> QED BY <2>1, <2>2, <2>3
<1>5. IsFiniteSet(Content(S))
  BY <1>3, <1>4, FS_UNION DEF Content
<1> QED BY <1>5, FS_CardinalityType DEF Bytes

\* An entry more adds its size.
LEMMA OneMoreEntry ==
  ASSUME NEW S \in SUBSET Entries, NEW e \in Entries \ S
  PROVE  Bytes(S \union {e}) = Bytes(S) + Size[e]
PROOF
<1> USE PoolAssumption
<1> DEFINE B == {e} \X (1 .. Size[e])
           C == Content(S)
<1>1. Size[e] \in Nat
  OBVIOUS
<1>2. IsFiniteSet(B) /\ Cardinality(B) = Size[e]
  BY <1>1, EntrySize
<1>3. Content(S \union {e}) = C \union B
  BY <1>1 DEF Content
<1>4. C \intersect B = {}
  <2>1. \A b \in C : b[1] # e
    BY DEF Content
  <2>2. \A b \in B : b[1] = e
    OBVIOUS
  <2> QED BY <2>1, <2>2
<1>5. IsFiniteSet(C) /\ Cardinality(C) \in Nat
  BY ContentIsFinite DEF Bytes
<1> HIDE DEF B, C
<1>6. Cardinality(C \union B) = Cardinality(C) + Cardinality(B) - Cardinality(C \intersect B)
  BY <1>2, <1>5, FS_Union
<1>7. Cardinality(C \intersect B) = 0
  BY <1>4, FS_EmptySet
<1>8. Cardinality(C \union B) = Cardinality(C) + Size[e]
  BY <1>1, <1>2, <1>5, <1>6, <1>7
<1> QED BY <1>3, <1>8 DEF Bytes, C

-----------------------------------------------------------------------------
(* Several entries are claimed at once only if they are small *)

LEMMA BatchIsSmall ==
  ASSUME NEW i \in Nat, NEW j \in BatchEnds(i), j > i + 1
  PROVE  j - i <= BatchMax /\ Bytes(i .. j - 1) <= BatchBytes
PROOF
<1> USE PoolAssumption
<1>1. j \in Nat /\ j <= Count
  BY BatchEndRange
<1>2. Fits(i, j - 1)
  BY <1>1 DEF BatchEnds
<1>3. j - i <= BatchMax
  BY <1>1, <1>2 DEF Fits
<1>4. /\ i .. (j - 1) - 1 \in SUBSET Entries
      /\ j - 1 \in Entries \ (i .. (j - 1) - 1)
      /\ i .. j - 1 = (i .. (j - 1) - 1) \union {j - 1}
  BY <1>1 DEF Entries
<1>5. Bytes(i .. j - 1) = Bytes(i .. (j - 1) - 1) + Size[j - 1]
  BY <1>4, OneMoreEntry
<1>6. Bytes(i .. (j - 1) - 1) \in Nat /\ Size[j - 1] \in Nat
  BY <1>4, ContentIsFinite
<1>7. Size[j - 1] <= BatchBytes - Bytes(i .. (j - 1) - 1)
  BY <1>2 DEF Fits
<1> QED BY <1>3, <1>5, <1>6, <1>7

\* A large file is claimed alone: a worker takes several entries at once only
\* if they are few and small (the loop of extract_all_worker).
THEOREM LargeFilesAreAlone == Spec => LargeFilesAlone
PROOF
<1>1. ASSUME IInv, [Next]_vars, phase' # "serial", next' > next + 1
      PROVE  next' - next <= BatchMax /\ Bytes(next .. next' - 1) <= BatchBytes
  <2>1. next \in Nat
    BY <1>1 DEF IInv, TypeOK
  <2>2. CASE \E t \in Threads : Claim(t)
    <3>1. PICK t \in Threads : Claim(t)
      BY <2>2
    <3>2. PICK j \in BatchEnds(next) : next' = j
      BY <3>1 DEF Claim
    <3> QED BY <1>1, <2>1, <3>2, BatchIsSmall
  <2>3. ASSUME next' = next
        PROVE  FALSE
    BY <1>1, <2>1, <2>3
  <2>4. CASE Caller
    <3>1. ~EnterSerial
      BY <1>1 DEF EnterSerial
    <3> QED BY <2>3, <2>4, <3>1
        DEF Caller, RunSerial, StartWorker, StartFails, StartJoin, Return, ctxVars
  <2>5. ASSUME NEW t \in Threads, Step(t), ~Claim(t)
        PROVE  FALSE
    BY <2>3, <2>5
    DEF Step, InitWorker, InitFails, Leave, BeginEntry, PathFails, ReportChunk,
        EntrySucceeds, EntryFails, FinishEntry, Fail, ctxVars
  <2>6. CASE UNCHANGED vars
    BY <2>3, <2>6 DEF vars, ctxVars
  <2> QED BY <1>1, <2>2, <2>4, <2>5, <2>6 DEF Next
<1>2. IInv /\ [Next]_vars =>
        [phase' # "serial" /\ next' > next + 1 =>
           /\ next' - next <= BatchMax
           /\ Bytes(next .. next' - 1) <= BatchBytes]_vars
  BY <1>1
<1> QED BY <1>2, Invariance, PTL DEF Spec, LargeFilesAlone

-----------------------------------------------------------------------------
(* The bytes that were reported *)

\* Which bytes of entry e are in R.
Got(R, e) == { k \in 1 .. Size[e] : << e, k >> \in R }

\* All bytes of the completed entries, ...
WholeFinished(R) == \A e \in finished : Reports(e) => Got(R, e) = 1 .. Size[e]

\* ... none of those nobody claimed, ...
NoneBeyond(R) == \A e \in next .. Count - 1 : Got(R, e) = {}

\* ... none of those a thread has not begun, ...
NoneAhead(R, t) ==
  \A e \in Batch(t) : e > idx[t] \/ pc[t] = "entry" => Got(R, e) = {}

\* ... and of the one it is at as many as its entry_done says.
SomeOfCurrent(R, t) ==
  pc[t] \in {"extract", "finish"} /\ Reports(idx[t]) =>
    /\ entryDone[t] <= Size[idx[t]]
    /\ Got(R, idx[t]) = 1 .. entryDone[t]

\* R is the set of the bytes reported so far.
AccountsFor(R) ==
  /\ done = Cardinality(R)
  /\ WholeFinished(R)
  /\ NoneBeyond(R)
  /\ \A t \in Threads : NoneAhead(R, t) /\ SomeOfCurrent(R, t)

\* The bytes of the files: those of a directory are never reported.
Reportable == Content(Entries \ Directory)

\* No byte is reported twice, so that their number is the number of a set.
Accounted == \E R \in SUBSET Reportable : AccountsFor(R)

LEMMA InitAccounted == Init => Accounted
PROOF
<1> SUFFICES ASSUME Init PROVE AccountsFor({})
  BY DEF Accounted
<1> USE PoolAssumption DEF Init, Main, Threads
<1>1. done = Cardinality({})
  BY FS_EmptySet
<1>2. WholeFinished({}) /\ NoneBeyond({})
  BY DEF WholeFinished, NoneBeyond, Got
<1>3. \A t \in Threads : NoneAhead({}, t) /\ SomeOfCurrent({}, t)
  BY DEF NoneAhead, SomeOfCurrent, Batch
<1> QED BY <1>1, <1>2, <1>3 DEF AccountsFor

\* Steps that report and complete nothing: threads go on to the entry they
\* hold, with entry_done reset, or on to finish it, or give up.
Silent(u) ==
  \/ UNCHANGED << pc[u], entryDone[u] >>
  \/ pc'[u] \notin {"entry", "extract", "finish"}
  \/ pc[u] = "extract" /\ pc'[u] = "finish" /\ entryDone'[u] = entryDone[u]
  \/ pc[u] = "entry" /\ pc'[u] \in {"extract", "finish"} /\ entryDone'[u] = 0

LEMMA SilentAccounted ==
  ASSUME IInv, NEW R \in SUBSET Reportable, AccountsFor(R),
         UNCHANGED << done, finished, next, idx, end >>,
         \A u \in Threads : Silent(u)
  PROVE  AccountsFor(R)'
PROOF
<1> USE PoolAssumption
<1>1. done' = Cardinality(R) /\ WholeFinished(R)' /\ NoneBeyond(R)'
  BY DEF AccountsFor, WholeFinished, NoneBeyond
<1>2. ASSUME NEW u \in Threads
      PROVE  NoneAhead(R, u)'
  BY DEF AccountsFor, NoneAhead, Batch, Silent
<1>3. ASSUME NEW u \in Threads
      PROVE  SomeOfCurrent(R, u)'
  <2>1. idx[u] \in Nat /\ end[u] \in Nat /\ end[u] <= Count
    BY DEF IInv, TypeOK
  <2>2. CASE pc[u] = "entry" /\ entryDone'[u] = 0
    <3>1. idx[u] \in Batch(u) /\ idx[u] \in Entries
      BY <2>1, <2>2 DEF IInv, Windows, Working, Batch, Entries
    <3>2. Got(R, idx[u]) = {}
      BY <2>2, <3>1 DEF AccountsFor, NoneAhead
    <3>3. Size[idx[u]] \in Nat
      BY <3>1
    <3> QED BY <2>2, <3>2, <3>3 DEF SomeOfCurrent
  <2>3. CASE ~(pc[u] = "entry" /\ entryDone'[u] = 0)
    BY <2>3 DEF AccountsFor, SomeOfCurrent, Silent
  <2> QED BY <2>2, <2>3
<1> QED BY <1>1, <1>2, <1>3 DEF AccountsFor

\* The serial loop takes over an archive of which nothing was reported.
LEMMA EnterSerialAccounted ==
  ASSUME IInv, NEW R \in SUBSET Reportable, AccountsFor(R),
         EnterSerial, phase = "start", started = 0
  PROVE  AccountsFor(R)'
PROOF
<1> USE PoolAssumption DEF Main, Threads
<1>1. /\ next = 0 /\ next' = Count /\ finished = {} /\ finished' = {} /\ done' = done
      /\ \A t \in Threads : pc[t] = "off" /\ idx[t] = end[t] /\ end[t] = 0
  BY DEF IInv, TypeOK, Windows, NothingLost, Phases, EnterSerial
<1>2. ASSUME NEW t \in Threads, t # Main
      PROVE  idx'[t] = 0 /\ end'[t] = 0 /\ pc'[t] = "off"
  BY <1>1, <1>2 DEF EnterSerial, IInv, TypeOK, Goto, FailWith
<1>3. idx'[Main] = 0 /\ end'[Main] = Count /\ pc'[Main] \in {"entry", "claim", "fail"}
  BY <1>1 DEF EnterSerial, IInv, TypeOK, Goto, FailWith
<1>4. \A e \in 0 .. Count - 1 : Got(R, e) = {}
  BY <1>1 DEF AccountsFor, NoneBeyond
<1>5. done' = Cardinality(R) /\ WholeFinished(R)' /\ NoneBeyond(R)'
  BY <1>1 DEF AccountsFor, WholeFinished, NoneBeyond
<1>6. ASSUME NEW t \in Threads
      PROVE  NoneAhead(R, t)' /\ SomeOfCurrent(R, t)'
  BY <1>2, <1>3, <1>4 DEF NoneAhead, SomeOfCurrent, Batch
<1> QED BY <1>5, <1>6 DEF AccountsFor

\* Of what a thread claims nothing was reported.
LEMMA ClaimAccounted ==
  ASSUME IInv, NEW R \in SUBSET Reportable, AccountsFor(R),
         NEW t \in Threads, Claim(t)
  PROVE  AccountsFor(R)'
PROOF
<1> USE PoolAssumption
<1>1. PICK j \in BatchEnds(next) :
        /\ idx'  = [idx EXCEPT ![t] = next]
        /\ end'  = [end EXCEPT ![t] = j]
        /\ next' = j
  BY DEF Claim
<1>2. next \in Nat /\ j \in next + 1 .. Count
  <2>1. next \in Nat
    BY DEF IInv, TypeOK
  <2> QED BY <2>1, BatchEndRange
<1>3. /\ idx'[t] = next /\ end'[t] = j /\ pc'[t] = "entry"
      /\ \A u \in Threads : u # t =>
           idx'[u] = idx[u] /\ end'[u] = end[u] /\ pc'[u] = pc[u]
      /\ UNCHANGED << done, finished, entryDone >>
  BY <1>1 DEF IInv, TypeOK, Claim, Goto
<1>4. \A e \in next .. Count - 1 : Got(R, e) = {}
  BY DEF AccountsFor, NoneBeyond
<1>5. done' = Cardinality(R) /\ WholeFinished(R)' /\ NoneBeyond(R)'
  BY <1>1, <1>2, <1>3, <1>4 DEF AccountsFor, WholeFinished, NoneBeyond
<1>6. NoneAhead(R, t)' /\ SomeOfCurrent(R, t)'
  BY <1>2, <1>3, <1>4 DEF NoneAhead, SomeOfCurrent, Batch
<1>7. ASSUME NEW u \in Threads, u # t
      PROVE  NoneAhead(R, u)' /\ SomeOfCurrent(R, u)'
  BY <1>3, <1>7 DEF AccountsFor, NoneAhead, SomeOfCurrent, Batch
<1> QED BY <1>5, <1>6, <1>7 DEF AccountsFor

\* A report adds the next n bytes of one entry, none of which was in R.
LEMMA MoreIsReported ==
  ASSUME NEW R \in SUBSET Reportable, NEW e \in Entries \ Directory,
         NEW d \in Nat, NEW n \in Nat, d + n <= Size[e], Got(R, e) = 1 .. d
  PROVE  \E Q \in SUBSET Reportable :
           /\ Cardinality(Q) = Cardinality(R) + n
           /\ Got(Q, e) = 1 .. d + n
           /\ \A f \in Entries : f # e => Got(Q, f) = Got(R, f)
PROOF
<1> USE PoolAssumption
<1> DEFINE a == d + 1
           b == d + n
           B == {e} \X (a .. b)
           Q == R \union B
<1>1. Size[e] \in Nat /\ Size \in [Entries -> Nat]
  OBVIOUS
<1>2. IsFiniteSet(B) /\ Cardinality(B) = n
  <2>1. a \in Nat /\ b \in Nat /\ a <= b + 1 /\ b - a + 1 = n
    OBVIOUS
  <2> HIDE DEF a, b
  <2> QED BY <2>1, PieceSize
<1>3. B \subseteq Reportable
  <2>1. {e} \X (1 .. Size[e]) \subseteq Reportable
    BY DEF Reportable, Content
  <2>2. d + 1 .. d + n \subseteq 1 .. Size[e]
    BY <1>1
  <2> QED BY <2>1, <2>2
<1>4. R \intersect B = {}
  <2> SUFFICES ASSUME NEW k \in d + 1 .. d + n, << e, k >> \in R
               PROVE  FALSE
    OBVIOUS
  <2>1. k \in 1 .. Size[e]
    BY <1>1
  <2>2. k \in Got(R, e)
    BY <2>1 DEF Got
  <2> QED BY <2>2
<1>5. Got(Q, e) = 1 .. d + n
  <2>1. ASSUME NEW k \in 1 .. Size[e]
        PROVE  << e, k >> \in Q <=> k \in 1 .. d + n
    <3>1. << e, k >> \in R <=> k \in 1 .. d
      BY DEF Got
    <3>2. << e, k >> \in B <=> k \in d + 1 .. d + n
      OBVIOUS
    <3> QED BY <3>1, <3>2
  <2>2. 1 .. d + n \subseteq 1 .. Size[e]
    BY <1>1
  <2> HIDE DEF Q
  <2> QED BY <2>1, <2>2 DEF Got
<1>6. \A f \in Entries : f # e => Got(Q, f) = Got(R, f)
  BY DEF Got
<1>7. IsFiniteSet(R) /\ Cardinality(R) \in Nat
  <2>1. IsFiniteSet(Reportable)
    BY ContentIsFinite DEF Reportable
  <2>2. IsFiniteSet(R)
    BY <2>1, FS_Subset
  <2> QED BY <2>2, FS_CardinalityType
<1>8. Cardinality(Q) = Cardinality(R) + n
  <2> HIDE DEF B
  <2>1. Cardinality(R \union B) = Cardinality(R) + Cardinality(B) - Cardinality(R \intersect B)
    BY <1>2, <1>7, FS_Union
  <2>2. Cardinality(R \intersect B) = 0
    BY <1>4, FS_EmptySet
  <2> QED BY <1>2, <1>7, <2>1, <2>2
<1> HIDE DEF Q
<1>9. Q \in SUBSET Reportable
  BY <1>3 DEF Q
<1> QED BY <1>5, <1>6, <1>8, <1>9

\* What is known of a thread at work on an entry.
LEMMA AtWork ==
  ASSUME IInv, NEW t \in Threads, pc[t] \in Working
  PROVE  /\ idx[t] \in Batch(t) /\ idx[t] \in Entries
         /\ idx[t] \notin finished /\ idx[t] \notin next .. Count - 1
         /\ \A u \in Threads : u # t => idx[t] \notin Batch(u)
         /\ Size[idx[t]] \in Nat /\ entryDone[t] \in Nat
PROOF
<1> USE PoolAssumption
<1>1. /\ idx[t] \in Nat /\ end[t] \in Nat /\ next \in Nat /\ next <= Count
      /\ entryDone[t] \in Nat
  BY DEF IInv, TypeOK
<1>2. idx[t] < end[t] /\ end[t] <= next
  BY DEF IInv, Windows
<1>3. idx[t] \in Batch(t) /\ idx[t] \in Entries /\ idx[t] \notin next .. Count - 1
  BY <1>1, <1>2 DEF Batch, Entries
<1>4. idx[t] \notin finished /\ \A u \in Threads : u # t => idx[t] \notin Batch(u)
  BY <1>3 DEF IInv, OneOwner
<1> QED BY <1>1, <1>3, <1>4

\* A thread that reports n more bytes of its entry disturbs no other entry.
LEMMA ReportDisturbsNothing ==
  ASSUME IInv, NEW R \in SUBSET Reportable, AccountsFor(R),
         NEW t \in Threads, pc[t] \in {"extract", "finish"}, Reports(idx[t]),
         NEW n \in Nat, n <= Size[idx[t]] - entryDone[t]
  PROVE  \E Q \in SUBSET Reportable :
           /\ Cardinality(Q) = done + n
           /\ Got(Q, idx[t]) = 1 .. entryDone[t] + n
           /\ WholeFinished(Q) /\ NoneBeyond(Q)
           /\ \A u \in Threads : NoneAhead(Q, u)
           /\ \A u \in Threads : u # t => SomeOfCurrent(Q, u)
PROOF
<1> USE PoolAssumption
<1> DEFINE e == idx[t]
           d == entryDone[t]
<1>1. /\ e \in Batch(t) /\ e \in Entries /\ e \notin finished /\ e \notin next .. Count - 1
      /\ \A u \in Threads : u # t => e \notin Batch(u)
      /\ Size[e] \in Nat /\ d \in Nat
  BY AtWork DEF Working
<1>2. Got(R, e) = 1 .. d /\ e \in Entries \ Directory /\ done = Cardinality(R)
  BY <1>1 DEF AccountsFor, SomeOfCurrent, Reports
<1>3. PICK Q \in SUBSET Reportable :
        /\ Cardinality(Q) = Cardinality(R) + n
        /\ Got(Q, e) = 1 .. d + n
        /\ \A f \in Entries : f # e => Got(Q, f) = Got(R, f)
  <2>1. d + n <= Size[e]
    BY <1>1
  <2> HIDE DEF e, d
  <2> QED BY <1>1, <1>2, <2>1, MoreIsReported
<1>4. WholeFinished(Q)
  BY <1>1, <1>3 DEF AccountsFor, WholeFinished, IInv, TypeOK
<1>5. NoneBeyond(Q)
  <2>1. next .. Count - 1 \subseteq Entries
    BY DEF IInv, TypeOK, Entries
  <2> QED BY <1>1, <1>3, <2>1 DEF AccountsFor, NoneBeyond
<1>6. ASSUME NEW u \in Threads
      PROVE  NoneAhead(Q, u)
  <2>1. idx[u] \in Nat /\ end[u] \in Nat /\ end[u] <= Count
    BY DEF IInv, TypeOK
  <2>2. Batch(u) \subseteq Entries
    BY <2>1 DEF Batch, Entries
  <2>3. ASSUME NEW f \in Batch(u), f > idx[u] \/ pc[u] = "entry"
        PROVE  Got(Q, f) = {}
    <3>1. f # e
      <4>1. CASE u = t
        BY <2>1, <2>3, <4>1
      <4>2. CASE u # t
        BY <1>1, <4>2
      <4> QED BY <4>1, <4>2
    <3>2. Got(R, f) = {}
      BY <2>3 DEF AccountsFor, NoneAhead
    <3> QED BY <1>3, <2>2, <3>1, <3>2
  <2> QED BY <2>3 DEF NoneAhead
<1>7. ASSUME NEW u \in Threads, u # t
      PROVE  SomeOfCurrent(Q, u)
  <2> SUFFICES ASSUME pc[u] \in {"extract", "finish"}, Reports(idx[u])
               PROVE  entryDone[u] <= Size[idx[u]] /\ Got(Q, idx[u]) = 1 .. entryDone[u]
    BY DEF SomeOfCurrent
  <2>1. idx[u] \in Batch(u) /\ idx[u] \in Entries
    BY AtWork DEF Working
  <2>2. idx[u] # e
    BY <1>1, <1>7, <2>1
  <2>3. entryDone[u] <= Size[idx[u]] /\ Got(R, idx[u]) = 1 .. entryDone[u]
    BY DEF AccountsFor, SomeOfCurrent
  <2> QED BY <1>3, <2>1, <2>2, <2>3
<1> QED BY <1>2, <1>3, <1>4, <1>5, <1>6, <1>7

LEMMA NextEntryAccounted ==
  ASSUME IInv, NEW Q, NEW t \in Threads, pc[t] = "finish", NextEntry(t),
         UNCHANGED << next, end >>, done' = Cardinality(Q),
         \A u \in Threads : u # t => entryDone'[u] = entryDone[u],
         WholeFinished(Q), NoneBeyond(Q), \A u \in Threads : NoneAhead(Q, u),
         \A u \in Threads : u # t => SomeOfCurrent(Q, u),
         Reports(idx[t]) => Got(Q, idx[t]) = 1 .. Size[idx[t]]
  PROVE  AccountsFor(Q)'
PROOF
<1>1. /\ idx'[t] = idx[t] + 1 /\ pc'[t] \in {"entry", "claim"}
      /\ finished' = finished \union {idx[t]}
      /\ \A u \in Threads : u # t => idx'[u] = idx[u] /\ pc'[u] = pc[u]
  BY DEF NextEntry, Goto, IInv, TypeOK
<1>2. idx[t] \in Nat /\ end[t] \in Nat
  BY DEF IInv, TypeOK
<1>3. WholeFinished(Q)'
  BY <1>1 DEF WholeFinished, Reports
<1>4. NoneBeyond(Q)'
  BY DEF NoneBeyond
<1>5. NoneAhead(Q, t)'
  <2>1. ASSUME NEW f \in Batch(t)'
        PROVE  f \in Batch(t) /\ f > idx[t]
    BY <1>1, <1>2, <2>1 DEF Batch
  <2> QED BY <2>1 DEF NoneAhead
<1>6. SomeOfCurrent(Q, t)'
  BY <1>1 DEF SomeOfCurrent
<1>7. ASSUME NEW u \in Threads, u # t
      PROVE  NoneAhead(Q, u)' /\ SomeOfCurrent(Q, u)'
  BY <1>1, <1>7 DEF NoneAhead, SomeOfCurrent, Batch
<1> QED BY <1>3, <1>4, <1>5, <1>6, <1>7 DEF AccountsFor

LEMMA ReportChunkAccounted ==
  ASSUME IInv, NEW R \in SUBSET Reportable, AccountsFor(R),
         NEW t \in Threads, ReportChunk(t)
  PROVE  Accounted'
PROOF
<1>1. pc[t] = "extract" /\ Reports(idx[t]) /\ UNCHANGED << next, idx, end, finished >>
  BY DEF ReportChunk
<1>2. PICK n \in 1 .. Size[idx[t]] - entryDone[t], go \in BOOLEAN :
        /\ Advance(t, n, go)
        /\ IF go THEN UNCHANGED << pc, ret >> ELSE FailWith(t, "ECANCEL")
  BY DEF ReportChunk
<1>3. Size[idx[t]] \in Nat /\ entryDone[t] \in Nat
  BY <1>1, AtWork DEF Working
<1>4. n \in Nat /\ n <= Size[idx[t]] - entryDone[t]
  BY <1>3
<1>5. PICK Q \in SUBSET Reportable :
        /\ Cardinality(Q) = done + n
        /\ Got(Q, idx[t]) = 1 .. entryDone[t] + n
        /\ WholeFinished(Q) /\ NoneBeyond(Q)
        /\ \A u \in Threads : NoneAhead(Q, u)
        /\ \A u \in Threads : u # t => SomeOfCurrent(Q, u)
  BY <1>1, <1>4, ReportDisturbsNothing
<1>6. /\ done' = done + n /\ entryDone'[t] = entryDone[t] + n
      /\ \A u \in Threads : u # t => entryDone'[u] = entryDone[u]
      /\ pc'[t] \in {"extract", "fail"}
      /\ \A u \in Threads : u # t => pc'[u] = pc[u]
  BY <1>1, <1>2 DEF Advance, FailWith, Goto, IInv, TypeOK
<1>7. done' = Cardinality(Q) /\ WholeFinished(Q)' /\ NoneBeyond(Q)'
  BY <1>1, <1>5, <1>6 DEF WholeFinished, NoneBeyond
<1>8. ASSUME NEW u \in Threads
      PROVE  NoneAhead(Q, u)'
  BY <1>1, <1>5, <1>6 DEF NoneAhead, Batch
<1>9. SomeOfCurrent(Q, t)'
  BY <1>1, <1>3, <1>4, <1>5, <1>6 DEF SomeOfCurrent
<1>10. ASSUME NEW u \in Threads, u # t
       PROVE  SomeOfCurrent(Q, u)'
  BY <1>1, <1>5, <1>6, <1>10 DEF SomeOfCurrent
<1>11. AccountsFor(Q)'
  BY <1>7, <1>8, <1>9, <1>10 DEF AccountsFor
<1> QED BY <1>11 DEF Accounted

LEMMA FinishEntryAccounted ==
  ASSUME IInv, NEW R \in SUBSET Reportable, AccountsFor(R),
         NEW t \in Threads, FinishEntry(t)
  PROVE  Accounted'
PROOF
<1>1. pc[t] = "finish" /\ UNCHANGED << next, end >>
  BY DEF FinishEntry
<1>2. Size[idx[t]] \in Nat /\ entryDone[t] \in Nat
  BY <1>1, AtWork DEF Working
<1>3. CASE Missing(t) > 0
  <2>1. Reports(idx[t]) /\ Missing(t) = Size[idx[t]] - entryDone[t] /\ Missing(t) \in Nat
    BY <1>2, <1>3 DEF Missing
  <2>2. PICK go \in BOOLEAN :
          /\ Advance(t, Missing(t), go)
          /\ IF go THEN NextEntry(t)
                   ELSE FailWith(t, "ECANCEL") /\ UNCHANGED << idx, finished >>
    BY <1>3 DEF FinishEntry
  <2>3. PICK Q \in SUBSET Reportable :
          /\ Cardinality(Q) = done + Missing(t)
          /\ Got(Q, idx[t]) = 1 .. entryDone[t] + Missing(t)
          /\ WholeFinished(Q) /\ NoneBeyond(Q)
          /\ \A u \in Threads : NoneAhead(Q, u)
          /\ \A u \in Threads : u # t => SomeOfCurrent(Q, u)
    <3>1. Missing(t) <= Size[idx[t]] - entryDone[t]
      BY <1>2, <2>1
    <3> QED BY <1>1, <2>1, <3>1, ReportDisturbsNothing
  <2>4. /\ done' = Cardinality(Q)
        /\ \A u \in Threads : u # t => entryDone'[u] = entryDone[u]
    BY <2>2, <2>3 DEF Advance, IInv, TypeOK
  <2>5. CASE go
    <3>1. NextEntry(t)
      BY <2>2, <2>5
    <3>2. Got(Q, idx[t]) = 1 .. Size[idx[t]]
      BY <1>2, <2>1, <2>3
    <3>3. AccountsFor(Q)'
      BY <1>1, <2>3, <2>4, <3>1, <3>2, NextEntryAccounted
    <3> QED BY <3>3 DEF Accounted
  <2>6. CASE ~go
    <3>1. /\ pc'[t] = "fail" /\ UNCHANGED << idx, finished >>
          /\ \A u \in Threads : u # t => pc'[u] = pc[u]
      BY <2>2, <2>6 DEF FailWith, Goto, IInv, TypeOK
    <3>2. WholeFinished(Q)' /\ NoneBeyond(Q)'
      BY <1>1, <2>3, <3>1 DEF WholeFinished, NoneBeyond
    <3>3. ASSUME NEW u \in Threads
          PROVE  NoneAhead(Q, u)'
      BY <1>1, <2>3, <3>1 DEF NoneAhead, Batch
    <3>4. ASSUME NEW u \in Threads
          PROVE  SomeOfCurrent(Q, u)'
      BY <2>3, <2>4, <3>1 DEF SomeOfCurrent
    <3>5. AccountsFor(Q)'
      BY <2>4, <3>2, <3>3, <3>4 DEF AccountsFor
    <3> QED BY <3>5 DEF Accounted
  <2> QED BY <2>5, <2>6
<1>4. CASE ~(Missing(t) > 0)
  <2>1. NextEntry(t) /\ UNCHANGED << entryDone, done >>
    BY <1>4 DEF FinishEntry
  <2>2. Reports(idx[t]) => Got(R, idx[t]) = 1 .. Size[idx[t]]
    <3> HAVE Reports(idx[t])
    <3>1. entryDone[t] <= Size[idx[t]] /\ Got(R, idx[t]) = 1 .. entryDone[t]
      BY <1>1 DEF AccountsFor, SomeOfCurrent
    <3>2. entryDone[t] = Size[idx[t]]
      BY <1>2, <1>4, <3>1 DEF Missing
    <3> QED BY <3>1, <3>2
  <2>3. AccountsFor(R)'
    BY <1>1, <2>1, <2>2, NextEntryAccounted DEF AccountsFor
  <2> QED BY <2>3 DEF Accounted
<1> QED BY <1>3, <1>4

LEMMA StepAccounted ==
  ASSUME IInv, NEW R \in SUBSET Reportable, AccountsFor(R),
         NEW t \in Threads, Step(t)
  PROVE  Accounted'
PROOF
<1>1. CASE Claim(t)
  BY <1>1, ClaimAccounted DEF Accounted
<1>2. CASE ReportChunk(t)
  BY <1>2, ReportChunkAccounted
<1>3. CASE FinishEntry(t)
  BY <1>3, FinishEntryAccounted
<1>4. CASE \/ InitWorker(t) \/ InitFails(t) \/ Leave(t) \/ BeginEntry(t) \/ PathFails(t)
           \/ EntrySucceeds(t) \/ EntryFails(t) \/ Fail(t)
  <2>1. UNCHANGED << done, finished, next, idx, end >>
    BY <1>4 DEF InitWorker, InitFails, Leave, BeginEntry, PathFails, EntrySucceeds,
                EntryFails, Fail, ctxVars
  <2>2. ASSUME NEW u \in Threads
        PROVE  Silent(u)
    <3>1. pc \in [Threads -> Labels] /\ entryDone \in [Threads -> Nat]
      BY DEF IInv, TypeOK
    <3> QED BY <1>4, <3>1
        DEF Silent, InitWorker, InitFails, Leave, BeginEntry, PathFails, EntrySucceeds,
            EntryFails, Fail, FailWith, Goto, ctxVars
  <2>3. AccountsFor(R)'
    BY <2>1, <2>2, SilentAccounted
  <2> QED BY <2>3 DEF Accounted
<1> QED BY <1>1, <1>2, <1>3, <1>4 DEF Step

LEMMA CallerAccounted ==
  ASSUME IInv, NEW R \in SUBSET Reportable, AccountsFor(R), Caller \/ UNCHANGED vars
  PROVE  Accounted'
PROOF
<1>1. CASE EnterSerial /\ phase = "start" /\ started = 0
  BY <1>1, EnterSerialAccounted DEF Accounted
<1>2. CASE StartWorker
  <2>1. started + 1 \in Threads /\ pc \in [Threads -> Labels]
    BY <1>2, PoolAssumption DEF StartWorker, IInv, TypeOK, Threads
  <2>2. \A u \in Threads : Silent(u)
    BY <1>2, <2>1 DEF Silent, StartWorker, Goto
  <2>3. AccountsFor(R)'
    BY <1>2, <2>2, SilentAccounted DEF StartWorker, ctxVars
  <2> QED BY <2>3 DEF Accounted
<1>3. CASE UNCHANGED << ctxVars, threadVars, finished >>
  <2>1. \A u \in Threads : Silent(u)
    BY <1>3 DEF Silent, threadVars
  <2>2. AccountsFor(R)'
    BY <1>3, <2>1, SilentAccounted DEF ctxVars, threadVars
  <2> QED BY <2>2 DEF Accounted
<1> QED BY <1>1, <1>2, <1>3
    DEF Caller, RunSerial, StartFails, StartJoin, Return, vars

\* Every byte is reported at most once, by the thread that holds its entry.
THEOREM BytesAreCountedOnce == Spec => []Accounted
PROOF
<1>1. Init => Accounted
  BY InitAccounted
<1>2. IInv /\ Accounted /\ [Next]_vars => Accounted'
  <2> SUFFICES ASSUME IInv, Accounted, [Next]_vars PROVE Accounted'
    OBVIOUS
  <2>1. PICK R \in SUBSET Reportable : AccountsFor(R)
    BY DEF Accounted
  <2> QED BY <2>1, StepAccounted, CallerAccounted DEF Next
<1> QED BY <1>1, <1>2, Invariance, PTL DEF Spec

\* The callback never sees more than the total, and exactly the total before a
\* call that returns OK (progress_advance, progress_finish_entry).
THEOREM ProgressIsExact == Spec => []ProgressExact
PROOF
<1>1. IInv /\ Accounted => ProgressExact
  <2> SUFFICES ASSUME IInv, Accounted PROVE ProgressExact
    OBVIOUS
  <2>1. PICK R \in SUBSET Reportable : AccountsFor(R)
    BY DEF Accounted
  <2>2. IsFiniteSet(Reportable) /\ Cardinality(Reportable) = Total
    BY ContentIsFinite DEF Reportable, Total, Bytes
  <2>3. done = Cardinality(R)
    BY <2>1 DEF AccountsFor
  <2>4. done <= Total
    BY <2>2, <2>3, FS_Subset
  <2>5. ASSUME phase = "returned", result = "OK", HasProgress
        PROVE  done = Total
    <3>1. finished = Entries
      BY <2>5, ReturnedComplete
    <3>2. \A e \in Entries \ Directory : Got(R, e) = 1 .. Size[e]
      BY <2>1, <2>5, <3>1 DEF AccountsFor, WholeFinished, Reports
    <3>3. Reportable \subseteq R
      BY <3>2 DEF Reportable, Content, Got
    <3>4. R = Reportable
      BY <3>3
    <3> QED BY <2>2, <2>3, <3>4
  <2> QED BY <2>4, <2>5 DEF ProgressExact
<1> QED BY <1>1, Invariance, BytesAreCountedOnce, PTL

-----------------------------------------------------------------------------
(* The number of threads *)

EntryKinds == [dir : BOOLEAN, encrypted : BOOLEAN, deflate : BOOLEAN,
               size : 0 .. SizeMax, packed : 0 .. SizeMax]

LEMMA WorkIsNat ==
  ASSUME NEW e \in EntryKinds
  PROVE  Work(e) \in Nat /\ e.size \in Nat
PROOF
<1>1. SizeMax \in Int /\ e.size \in Nat /\ e.packed \in Nat
  BY JobAssumption DEF EntryKinds
<1>2. More(e.size - e.packed, 0) \in Nat
  BY <1>1 DEF More
<1> QED BY <1>1, <1>2 DEF Work

\* The running sum of numbers is what it should be.
LEMMA TotalIs ==
  ASSUME NEW k \in Nat, NEW x \in [1 .. k -> Nat]
  PROVE  \E f \in [0 .. k -> Nat] :
           /\ f[0] = 0 /\ \A n \in 1 .. k : f[n] = f[n - 1] + x[n]
           /\ SumOf(x, k) = f[k]
PROOF
<1> DEFINE step == [n \in Nat |-> [v \in Nat |-> IF n \in 1 .. k THEN v + x[n] ELSE v]]
           upTo == CHOOSE f : f = [n \in 0 .. k |-> IF n = 0 THEN 0 ELSE f[n - 1] + x[n]]
<1>1. step \in [Nat -> [Nat -> Nat]]
  OBVIOUS
<1>2. PICK g \in [Nat -> Nat] : g[0] = 0 /\ \A i \in Nat : g[i + 1] = step[i + 1][g[i]]
  <2> HIDE DEF step
  <2>1. Continues(Nat, 0, step)
    BY <1>1, RecursionExists
  <2> QED BY <2>1 DEF Continues
<1> DEFINE f == [n \in 0 .. k |-> g[n]]
<1>3. f = [n \in 0 .. k |-> IF n = 0 THEN 0 ELSE f[n - 1] + x[n]]
  <2>1. ASSUME NEW n \in 1 .. k
        PROVE  g[n] = g[n - 1] + x[n]
    <3>1. n - 1 \in Nat /\ (n - 1) + 1 = n
      OBVIOUS
    <3>2. g[n] = step[n][g[n - 1]]
      BY <1>2, <3>1
    <3> QED BY <3>1, <3>2
  <2> QED BY <1>2, <2>1
<1>4. upTo = [n \in 0 .. k |-> IF n = 0 THEN 0 ELSE upTo[n - 1] + x[n]]
  <2> HIDE DEF f
  <2> QED BY <1>3
<1> HIDE DEF step, f, upTo
<1>5. upTo[0] = 0 /\ \A n \in 1 .. k : upTo[n] = upTo[n - 1] + x[n]
  <2>1. 0 \in 0 .. k /\ \A n \in 1 .. k : n \in 0 .. k /\ n # 0
    OBVIOUS
  <2> QED BY <1>4, <2>1
<1>6. upTo \in [0 .. k -> Nat]
  <2> DEFINE P == { n \in Nat : n <= k => upTo[n] \in Nat }
  <2>1. 0 \in P
    BY <1>5
  <2>2. ASSUME NEW n \in P PROVE n + 1 \in P
    <3> SUFFICES ASSUME n + 1 <= k PROVE upTo[n + 1] \in Nat
      OBVIOUS
    <3>0. n \in Nat /\ (n <= k => upTo[n] \in Nat)
      OBVIOUS
    <3>1. n + 1 \in 1 .. k /\ (n + 1) - 1 = n /\ upTo[n] \in Nat
      BY <3>0
    <3>2. upTo[n + 1] = upTo[n] + x[n + 1] /\ x[n + 1] \in Nat
      BY <1>5, <3>1
    <3>3. \A a, b \in Nat : a + b \in Nat
      OBVIOUS
    <3> HIDE DEF P
    <3> QED BY <3>1, <3>2, <3>3
  <2>3. P = Nat
    <3> HIDE DEF P
    <3>1. P \in SUBSET Nat
      BY DEF P
    <3> QED BY <2>1, <2>2, <3>1, Induction
  <2> HIDE DEF P
  <2>4. \A n \in 0 .. k : upTo[n] \in Nat
    BY <2>3 DEF P
  <2>5. upTo = [n \in 0 .. k |-> upTo[n]]
    BY <1>4
  <2> QED BY <2>4, <2>5
<1>7. SumOf(x, k) = upTo[k]
  BY DEF SumOf, upTo
<1> QED BY <1>5, <1>6, <1>7

\* One more number that may have a property.
LEMMA OneMore ==
  ASSUME NEW n \in Nat, NEW S \in SUBSET Nat
  PROVE  LET before == S \cap (1 .. n)
             now    == S \cap (1 .. n + 1)
         IN /\ Cardinality(before) \in Nat
            /\ n + 1 \in S => Cardinality(now) = Cardinality(before) + 1
            /\ n + 1 \notin S => now = before
PROOF
<1> DEFINE before == S \cap (1 .. n)
           now    == S \cap (1 .. n + 1)
<1>1. IsFiniteSet(before) /\ Cardinality(before) \in Nat
  <2>1. IsFiniteSet(1 .. n)
    BY FS_Interval
  <2> QED BY <2>1, FS_Subset, FS_CardinalityType
<1>2. n + 1 \notin before
  OBVIOUS
<1>3. n + 1 \in S => now = before \cup {n + 1}
  OBVIOUS
<1>4. n + 1 \notin S => now = before
  OBVIOUS
<1> HIDE DEF before, now
<1>5. Cardinality(before \cup {n + 1}) = Cardinality(before) + 1
  BY <1>1, <1>2, FS_AddElement
<1> QED BY <1>1, <1>3, <1>4, <1>5 DEF before, now

\* A sum that stops at its limit is the sum, as far as that goes.
LEMMA GrownIs ==
  ASSUME NEW sum \in Nat, NEW x \in Nat, NEW limit \in Nat
  PROVE  Grown(Less(sum, limit), x, limit) = Less(sum + x, limit)
BY DEF Grown, Less

\* What the sums say of an archive.
Measured(a, limit) ==
  [files |-> Cardinality(Files(a)), bytes |-> Less(TotalSize(a), limit),
   workFiles |-> Cardinality(WorkFiles(a)), work |-> Less(TotalWork(a), MinBytes)]

LEMMA SumsAre ==
  ASSUME NEW a \in Seq(EntryKinds), NEW limit \in Nat
  PROVE  /\ Sums(a, limit) = Measured(a, limit)
         /\ TotalSize(a) \in Nat /\ TotalWork(a) \in Nat
PROOF
<1> DEFINE k == Len(a)
           F == { i \in 1 .. k : ~a[i].dir }
           W == { i \in F : Work(a[i]) > 0 }
           xs == [i \in 1 .. k |-> IF a[i].dir THEN 0 ELSE a[i].size]
           xw == [i \in 1 .. k |-> Work(a[i])]
<1>1. k \in Nat /\ \A i \in 1 .. k : a[i] \in EntryKinds
  OBVIOUS
<1>2. \A i \in 1 .. k : Work(a[i]) \in Nat /\ a[i].size \in Nat
  BY <1>1, WorkIsNat
<1>3. xs \in [1 .. k -> Nat] /\ xw \in [1 .. k -> Nat]
  BY <1>2
<1>4. MinBytes \in Nat
  BY JobAssumption
<1> HIDE DEF k, F, W, xs, xw
<1>5. PICK b \in [0 .. k -> Nat] :
        b[0] = 0 /\ (\A n \in 1 .. k : b[n] = b[n - 1] + xs[n]) /\ SumOf(xs, k) = b[k]
  BY <1>1, <1>3, TotalIs
<1>6. PICK w \in [0 .. k -> Nat] :
        w[0] = 0 /\ (\A n \in 1 .. k : w[n] = w[n - 1] + xw[n]) /\ SumOf(xw, k) = w[k]
  BY <1>1, <1>3, TotalIs
<1> DEFINE G == [n \in 0 .. k |->
                  [files |-> Cardinality(F \cap (1 .. n)), bytes |-> Less(b[n], limit),
                   workFiles |-> Cardinality(W \cap (1 .. n)), work |-> Less(w[n], MinBytes)]]
           upTo == CHOOSE f : f = [n \in 0 .. k |->
                     IF n = 0 THEN Nothing ELSE Recorded(f[n - 1], a[n], limit)]
<1>7. G[0] = Nothing
  <2>1. F \cap (1 .. 0) = {} /\ W \cap (1 .. 0) = {} /\ Cardinality({}) = 0
    BY FS_EmptySet
  <2>2. Less(b[0], limit) = 0 /\ Less(w[0], MinBytes) = 0
    BY <1>4, <1>5, <1>6 DEF Less
  <2>3. 0 \in 0 .. k
    BY <1>1
  <2> QED BY <2>1, <2>2, <2>3 DEF Nothing
<1>8. ASSUME NEW n \in 1 .. k
      PROVE  G[n] = Recorded(G[n - 1], a[n], limit)
  <2>1. n - 1 \in 0 .. k /\ n \in 0 .. k /\ n - 1 \in Nat /\ (n - 1) + 1 = n
    BY <1>1
  <2>2. F \in SUBSET Nat /\ W \in SUBSET Nat
    BY DEF F, W
  <2> DEFINE f0 == Cardinality(F \cap (1 .. n - 1))
             f1 == Cardinality(F \cap (1 .. n))
             w0 == Cardinality(W \cap (1 .. n - 1))
             w1 == Cardinality(W \cap (1 .. n))
  <2>3. (n \in F => f1 = f0 + 1) /\ (n \notin F => f1 = f0)
    BY <2>1, <2>2, OneMore
  <2>4. (n \in W => w1 = w0 + 1) /\ (n \notin W => w1 = w0) /\ w0 \in Nat
    BY <2>1, <2>2, OneMore
  <2>5. /\ Grown(Less(b[n - 1], limit), xs[n], limit) = Less(b[n], limit)
        /\ Grown(Less(w[n - 1], MinBytes), xw[n], MinBytes) = Less(w[n], MinBytes)
    <3>1. b[n - 1] \in Nat /\ w[n - 1] \in Nat /\ xs[n] \in Nat /\ xw[n] \in Nat
      BY <1>3, <2>1
    <3>2. b[n] = b[n - 1] + xs[n] /\ w[n] = w[n - 1] + xw[n]
      BY <1>5, <1>6
    <3>3. Grown(Less(b[n - 1], limit), xs[n], limit) = Less(b[n - 1] + xs[n], limit)
      <4> HIDE DEF G, upTo, f0, f1, w0, w1
      <4> QED BY <3>1, GrownIs
    <3>4. Grown(Less(w[n - 1], MinBytes), xw[n], MinBytes) = Less(w[n - 1] + xw[n], MinBytes)
      <4> HIDE DEF G, upTo, f0, f1, w0, w1
      <4> QED BY <1>4, <3>1, GrownIs
    <3> QED BY <3>2, <3>3, <3>4
  <2>6. G[n] = [files |-> f1, bytes |-> Less(b[n], limit),
                workFiles |-> w1, work |-> Less(w[n], MinBytes)]
        /\ G[n - 1] = [files |-> f0, bytes |-> Less(b[n - 1], limit),
                       workFiles |-> w0, work |-> Less(w[n - 1], MinBytes)]
    BY <2>1
  <2> HIDE DEF G, f0, f1, w0, w1
  <2>7. CASE a[n].dir
    <3>1. Recorded(G[n - 1], a[n], limit) = G[n - 1]
      BY <2>7 DEF Recorded
    <3>2. xs[n] = 0 /\ xw[n] = 0
      BY <2>7 DEF xs, xw, Work
    <3>3. b[n] = b[n - 1] /\ w[n] = w[n - 1]
      BY <1>5, <1>6, <2>1, <3>2
    <3>4. n \notin F /\ n \notin W
      BY <2>7 DEF F, W
    <3> QED BY <2>3, <2>4, <2>6, <3>1, <3>3, <3>4
  <2>8. CASE ~a[n].dir
    <3>1. Recorded(G[n - 1], a[n], limit) =
            [files |-> f0 + 1, bytes |-> Grown(Less(b[n - 1], limit), a[n].size, limit),
             workFiles |-> w0 + (IF Work(a[n]) > 0 THEN 1 ELSE 0),
             work |-> Grown(Less(w[n - 1], MinBytes), Work(a[n]), MinBytes)]
      BY <2>6, <2>8 DEF Recorded
    <3>2. xs[n] = a[n].size /\ xw[n] = Work(a[n])
      BY <2>8 DEF xs, xw
    <3>3. n \in F /\ (n \in W <=> Work(a[n]) > 0)
      BY <2>8 DEF F, W
    <3>4. w1 = w0 + (IF Work(a[n]) > 0 THEN 1 ELSE 0)
      BY <2>4, <3>3
    <3> QED BY <2>3, <2>5, <2>6, <3>1, <3>2, <3>3, <3>4
  <2> QED BY <2>7, <2>8
<1> HIDE DEF G
<1>9. G = [n \in 0 .. k |-> IF n = 0 THEN Nothing ELSE Recorded(G[n - 1], a[n], limit)]
  <2>1. G = [n \in 0 .. k |-> G[n]]
    BY DEF G
  <2>2. ASSUME NEW n \in 0 .. k
        PROVE  G[n] = IF n = 0 THEN Nothing ELSE Recorded(G[n - 1], a[n], limit)
    <3>1. n # 0 => n \in 1 .. k
      BY <1>1
    <3> QED BY <1>7, <1>8, <3>1
  <2> QED BY <2>1, <2>2
<1>10. upTo = [n \in 0 .. k |-> IF n = 0 THEN Nothing ELSE Recorded(upTo[n - 1], a[n], limit)]
  BY <1>9
<1> HIDE DEF upTo
<1>11. upTo[k] = G[k]
  <2> DEFINE P == { n \in Nat : n <= k => upTo[n] = G[n] }
  <2>1. 0 \in 0 .. k /\ \A n \in Nat : n + 1 <= k => n <= k /\ n + 1 \in 0 .. k /\ n + 1 # 0 /\ (n + 1) - 1 = n
    BY <1>1
  <2>2. 0 \in P
    <3>1. upTo[0] = Nothing
      BY <1>10, <2>1
    <3> QED BY <1>7, <3>1
  <2>3. ASSUME NEW n \in P PROVE n + 1 \in P
    <3> SUFFICES ASSUME n + 1 <= k PROVE upTo[n + 1] = G[n + 1]
      OBVIOUS
    <3>1. n \in Nat /\ upTo[n] = G[n]
      BY <2>1
    <3> HIDE DEF P
    <3>2. upTo[n + 1] = Recorded(upTo[n], a[n + 1], limit)
      BY <1>10, <2>1, <3>1
    <3>3. G[n + 1] = Recorded(G[n], a[n + 1], limit)
      BY <1>9, <2>1, <3>1
    <3> QED BY <3>1, <3>2, <3>3
  <2>4. P = Nat
    <3> HIDE DEF P
    <3>1. P \in SUBSET Nat
      BY DEF P
    <3> QED BY <2>2, <2>3, <3>1, Induction
  <2>5. k <= k
    BY <1>1
  <2>6. k \in P
    <3> HIDE DEF P
    <3> QED BY <1>1, <2>4
  <2>7. k <= k => upTo[k] = G[k]
    BY <2>6
  <2> HIDE DEF P
  <2> QED BY <2>5, <2>7
<1>12. Sums(a, limit) = upTo[k]
  BY DEF Sums, upTo, k
<1>13. Files(a) = F /\ WorkFiles(a) = W /\ F \cap (1 .. k) = F /\ W \cap (1 .. k) = W
  BY DEF Files, WorkFiles, F, W, k
<1>14. TotalSize(a) = b[k] /\ TotalWork(a) = w[k]
  BY <1>5, <1>6 DEF TotalSize, TotalWork, xs, xw, k
<1>15. k \in 0 .. k /\ b[k] \in Nat /\ w[k] \in Nat
  BY <1>1
<1>16. G[k] = Measured(a, limit)
  BY <1>13, <1>14, <1>15 DEF G, Measured
<1> QED BY <1>11, <1>12, <1>14, <1>15, <1>16

\* There are no more files than entries, nor files with work than files.
LEMMA FilesAreCounted ==
  ASSUME NEW a \in Seq(EntryKinds)
  PROVE  /\ Cardinality(Files(a)) \in Nat /\ Cardinality(WorkFiles(a)) \in Nat
         /\ Cardinality(WorkFiles(a)) <= Cardinality(Files(a))
         /\ Cardinality(Files(a)) <= Len(a)
PROOF
<1>1. Len(a) \in Nat
  OBVIOUS
<1>2. IsFiniteSet(1 .. Len(a)) /\ Cardinality(1 .. Len(a)) = Len(a)
  BY <1>1, FS_Interval
<1>3. Files(a) \subseteq 1 .. Len(a) /\ WorkFiles(a) \subseteq Files(a)
  BY DEF Files, WorkFiles
<1>4. IsFiniteSet(Files(a)) /\ Cardinality(Files(a)) <= Cardinality(1 .. Len(a))
  BY <1>2, <1>3, FS_Subset
<1>5. IsFiniteSet(WorkFiles(a)) /\ Cardinality(WorkFiles(a)) <= Cardinality(Files(a))
  BY <1>3, <1>4, FS_Subset
<1> QED BY <1>2, <1>4, <1>5, FS_CardinalityType

\* A sum that stops at a limit is below a bound no larger than it just when the
\* whole sum is.
LEMMA BelowIs ==
  ASSUME NEW sum \in Nat, NEW limit \in Nat, NEW bound \in Nat, bound <= limit
  PROVE  Less(sum, limit) < bound <=> sum < bound
BY DEF Less

\* The number of threads that the sums of an archive lead to.
ThreadsFor(files, work, bytes, workFiles, cpu) ==
  CASE files <= 1                             -> 1
    [] files > 1 /\ workFiles > 1 /\ work >= MinBytes -> CpuJobs(workFiles, cpu)
    [] files > 1 /\ ~(workFiles > 1 /\ work >= MinBytes) ->
         IF files < MinStoreEntries \/ bytes < MinStoreBytes THEN 1
         ELSE IoJobs(files, cpu)

LEMMA SumsLead ==
  ASSUME NEW a \in Seq(EntryKinds), NEW limit \in Nat, MinStoreBytes <= limit, NEW cpu
  PROVE  FromSums(Sums(a, limit), cpu) =
           ThreadsFor(Cardinality(Files(a)), TotalWork(a), TotalSize(a),
                    Cardinality(WorkFiles(a)), cpu)
PROOF
<1>1. MinStoreBytes \in Nat /\ MinBytes \in Nat
  BY JobAssumption
<1>2. /\ Sums(a, limit) = Measured(a, limit)
      /\ TotalSize(a) \in Nat /\ TotalWork(a) \in Nat
  BY SumsAre
<1> DEFINE s == Sums(a, limit)
<1>3. /\ s.files = Cardinality(Files(a)) /\ s.bytes = Less(TotalSize(a), limit)
      /\ s.workFiles = Cardinality(WorkFiles(a)) /\ s.work = Less(TotalWork(a), MinBytes)
  BY <1>2 DEF Measured
<1> HIDE DEF s
<1>4. s.bytes < MinStoreBytes <=> TotalSize(a) < MinStoreBytes
  BY <1>1, <1>2, <1>3, BelowIs
<1>5. s.work >= MinBytes <=> TotalWork(a) >= MinBytes
  BY <1>1, <1>2, <1>3 DEF Less
<1>6. FromSums(s, cpu) = ThreadsFor(Cardinality(Files(a)), TotalWork(a), TotalSize(a),
                    Cardinality(WorkFiles(a)), cpu)
  BY <1>3, <1>4, <1>5 DEF FromSums, ThreadsFor
<1> QED BY <1>6 DEF s

\* They lead to the number meant.
LEMMA LeadToMeant ==
  ASSUME NEW a \in Seq(EntryKinds), NEW cpu \in Nat
  PROVE  LET n == ThreadsFor(Cardinality(Files(a)), TotalWork(a), TotalSize(a),
                           Cardinality(WorkFiles(a)), cpu)
         IN /\ n = Less(Meant(a, cpu), More(Cardinality(Files(a)), 1))
            /\ n \in 1 .. More(Len(a), 1)
PROOF
<1> DEFINE files == Cardinality(Files(a))
           work  == Cardinality(WorkFiles(a))
           tw == TotalWork(a)
           ts == TotalSize(a)
<1>1. files \in Nat /\ work \in Nat /\ work <= files /\ files <= Len(a) /\ Len(a) \in Nat
  BY FilesAreCounted
<1>2. tw \in Nat /\ ts \in Nat
  <2>1. 0 \in Nat
    OBVIOUS
  <2> QED BY <2>1, SumsAre
<1>3. /\ MinStoreBytes \in Nat /\ MinBytes \in Nat
      /\ MinStoreEntries \in Nat \ {0} /\ MaxIoJobs \in Nat \ {0}
  BY JobAssumption
<1> DEFINE meant == Meant(a, cpu)
           n == ThreadsFor(files, tw, ts, work, cpu)
<1>4. meant = CASE work > 1 /\ tw >= MinBytes -> Less(More(cpu, 1), work)
       [] ~(work > 1 /\ tw >= MinBytes)
            /\ files >= More(MinStoreEntries, 2) /\ ts >= MinStoreBytes
                                                    -> Less(More(cpu, 1), MaxIoJobs)
       [] OTHER                                     -> 1
  BY DEF Meant
<1> HIDE DEF files, work, tw, ts, meant
<1>5. CASE work > 1 /\ tw >= MinBytes
  <2>1. meant = Less(More(cpu, 1), work)
    BY <1>4, <1>5
  <2>2. n = Less(More(cpu, 1), work)
    BY <1>1, <1>5 DEF ThreadsFor, CpuJobs
  <2> HIDE DEF n
  <2>3. n = Less(meant, More(files, 1)) /\ n \in 1 .. More(Len(a), 1)
    BY <1>1, <1>5, <2>1, <2>2 DEF Less, More
  <2> QED BY <2>3 DEF n, meant, files, work, tw, ts
<1>6. CASE ~(work > 1 /\ tw >= MinBytes)
  <2>1. CASE files >= More(MinStoreEntries, 2) /\ ts >= MinStoreBytes
    <3>1. meant = Less(More(cpu, 1), MaxIoJobs)
      BY <1>4, <1>6, <2>1
    <3>2. files > 1 /\ ~(files < MinStoreEntries \/ ts < MinStoreBytes) /\ ~(files <= 1)
      BY <1>1, <1>2, <1>3, <2>1 DEF More
    <3>3. n = IoJobs(files, cpu)
      BY <1>6, <3>2 DEF ThreadsFor
    <3> HIDE DEF n
    <3>4. n = Less(meant, More(files, 1)) /\ n \in 1 .. More(Len(a), 1)
      BY <1>1, <1>3, <3>1, <3>2, <3>3 DEF IoJobs, CpuJobs, Less, More
    <3> QED BY <3>4 DEF n, meant, files, work, tw, ts
  <2>2. CASE ~(files >= More(MinStoreEntries, 2) /\ ts >= MinStoreBytes)
    <3>1. meant = 1
      BY <1>4, <1>6, <2>2
    <3>2. files <= 1 \/ (files > 1 /\ (files < MinStoreEntries \/ ts < MinStoreBytes))
      BY <1>1, <1>2, <1>3, <2>2 DEF More
    <3>3. n = 1
      <4>1. CASE files <= 1
        <5>1. ~(files > 1)
          BY <1>1, <4>1
        <5> QED BY <4>1, <5>1 DEF ThreadsFor
      <4>2. CASE files > 1 /\ (files < MinStoreEntries \/ ts < MinStoreBytes)
        <5>1. ~(files <= 1)
          BY <1>1, <4>2
        <5> QED BY <1>6, <4>2, <5>1 DEF ThreadsFor
      <4> QED BY <3>2, <4>1, <4>2
    <3> HIDE DEF n
    <3>4. n = Less(meant, More(files, 1)) /\ n \in 1 .. More(Len(a), 1)
      BY <1>1, <3>1, <3>3 DEF Less, More
    <3> QED BY <3>4 DEF n, meant, files, work, tw, ts
  <2> QED BY <2>1, <2>2
<1> QED BY <1>5, <1>6

\* Between the library and the command line nothing changes an option.
LEMMA OptionAgrees ==
  ASSUME NEW a \in Seq(EntryKinds), NEW cpu \in Nat, NEW option \in Nat, option # 0
  PROVE  LET asked == Asked(option, Len(a), cpu)
             n == IF asked = 0 THEN DefaultJobs(a, cpu) ELSE Clamped(asked, Len(a))
             m == More(IF asked = 0 THEN AdaptiveJobs(a, cpu) ELSE asked, 1)
         IN Len(a) > 0 => n = m /\ n \in 1 .. More(Len(a), 1)
PROOF
<1> DEFINE k == Len(a)
           asked == Asked(option, k, cpu)
<1>1. k \in Nat
  OBVIOUS
<1> SUFFICES ASSUME k > 0
             PROVE asked \in 1 .. k
  <2>1. ASSUME asked \in 1 .. k
        PROVE  /\ Clamped(asked, k) = asked /\ More(asked, 1) = asked /\ asked # 0
               /\ asked \in 1 .. More(k, 1)
    <3> HIDE DEF k, asked
    <3> QED BY <1>1, <2>1 DEF Clamped, More, Less
  <2> HIDE DEF asked
  <2> QED BY <2>1 DEF asked
<1>2. CpuJobs(k, cpu) \in 1 .. k
  BY <1>1 DEF CpuJobs, Less, More
<1> HIDE DEF k
<1>3. CASE k <= 1 \/ option <= 1
  <2>1. ~(k > 1 /\ option > 1)
    BY <1>1, <1>3
  <2>2. asked = Less(1, k)
    BY <1>3, <2>1 DEF Asked
  <2> QED BY <1>1, <2>2 DEF Less
<1>4. CASE k > 1 /\ option > 1 /\ option = SizeMax
  <2>1. ~(k <= 1 \/ option <= 1)
    BY <1>1, <1>4
  <2>2. asked = Less(CpuJobs(k, cpu), k)
    BY <1>4, <2>1 DEF Asked
  <2> HIDE DEF asked
  <2> QED BY <1>1, <1>2, <2>2 DEF Less
<1>5. CASE k > 1 /\ option > 1 /\ option # SizeMax
  <2>1. ~(k <= 1 \/ option <= 1)
    BY <1>1, <1>5
  <2>2. asked = Less(option, k)
    BY <1>5, <2>1 DEF Asked
  <2> HIDE DEF asked
  <2> QED BY <1>1, <1>5, <2>2 DEF Less
<1> QED BY <1>1, <1>3, <1>4, <1>5

\* An empty archive with -j: what is asked for becomes 0, that is, automatic.
LEMMA EmptyAsked ==
  ASSUME NEW option \in Nat, NEW cpu \in Nat
  PROVE  Asked(option, 0, cpu) = 0
BY DEF Asked, Less

\* A positive number is no fewer than one.
LEMMA MoreIs ==
  ASSUME NEW n \in Nat, n >= 1
  PROVE  More(n, 1) = n
BY DEF More

THEOREM ThreadsAreMeant == ThreadsAgree
PROOF
<1> SUFFICES ASSUME NEW a \in Listings, NEW cpu \in Processors,
                    NEW option \in 0 .. Len(a) + 1 \union {SizeMax}
             PROVE  LET n == ThreadsOfLibrary(option, a, cpu)
                    IN /\ n = ThreadsOfCommand(option, a, cpu)
                       /\ n \in 1 .. More(Len(a), 1)
                       /\ option = 0 => n = Less(Meant(a, cpu), More(Cardinality(Files(a)), 1))
  BY DEF ThreadsAgree
<1>1. /\ a \in Seq(EntryKinds) /\ cpu \in Nat
      /\ SizeMax \in Nat /\ MinStoreBytes \in Nat /\ MinStoreBytes <= SizeMax
  <2>1. a \in Seq(EntryKinds)
    BY JobAssumption DEF EntryKinds
  <2>2. cpu \in Nat
    BY JobAssumption
  <2>3. SizeMax \in Nat /\ MinStoreBytes \in 1 .. SizeMax
    BY JobAssumption
  <2> QED BY <2>1, <2>2, <2>3
<1>2. Len(a) \in Nat /\ option \in Nat
  BY <1>1
<1> DEFINE t == ThreadsFor(Cardinality(Files(a)), TotalWork(a), TotalSize(a),
                         Cardinality(WorkFiles(a)), cpu)
           asked == FromOption(option, a, cpu)
<1>3. DefaultJobs(a, cpu) = t
  BY <1>1, SumsLead DEF DefaultJobs, LibrarySums
<1>4. AdaptiveJobs(a, cpu) = t
  <2>1. MinStoreBytes <= MinStoreBytes
    BY <1>1
  <2> QED BY <1>1, <2>1, SumsLead DEF AdaptiveJobs, CommandSums
<1>5. /\ t = Less(Meant(a, cpu), More(Cardinality(Files(a)), 1))
      /\ t \in 1 .. More(Len(a), 1)
  BY <1>1, LeadToMeant
<1> HIDE DEF t
<1>6. More(t, 1) = t
  <2>1. t \in Nat /\ t >= 1
    BY <1>2, <1>5 DEF More
  <2> QED BY <2>1, MoreIs
<1>7. CASE asked = 0
  BY <1>3, <1>4, <1>5, <1>6, <1>7 DEF ThreadsOfLibrary, ThreadsOfCommand
<1>8. CASE asked # 0
  <2>1. option # 0 /\ asked = Asked(option, Len(a), cpu)
    BY <1>8 DEF FromOption
  <2>2. Len(a) > 0
    <3> SUFFICES ASSUME Len(a) = 0 PROVE FALSE
      BY <1>2
    <3> QED BY <1>1, <1>2, <1>8, <2>1, EmptyAsked
  <2>3. LET n == IF asked = 0 THEN DefaultJobs(a, cpu) ELSE Clamped(asked, Len(a))
            m == More(IF asked = 0 THEN AdaptiveJobs(a, cpu) ELSE asked, 1)
        IN n = m /\ n \in 1 .. More(Len(a), 1)
    BY <1>1, <1>2, <2>1, <2>2, OptionAgrees
  <2> QED BY <2>1, <2>3 DEF ThreadsOfLibrary, ThreadsOfCommand
<1> QED BY <1>7, <1>8

\* When the pool starts, the number of threads is the same whoever computed it,
\* the library from its sums or the command line from its own, and it is the
\* number meant (zipy_extract_all, adaptive_jobs).
THEOREM ThreadsAlwaysAgree == Spec => []ThreadsAgreeAtStart
PROOF
<1>1. ThreadsAgreeAtStart
  BY ThreadsAreMeant DEF ThreadsAgreeAtStart
<1> QED BY <1>1, PTL
=============================================================================
