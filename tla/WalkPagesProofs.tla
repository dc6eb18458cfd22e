--------------------------- MODULE WalkPagesProofs ---------------------------
(***************************************************************************)
(* Proofs about WalkPages, for any options, collection and faults.         *)
(*                                                                         *)
(* Inv is the inductive invariant.  Its parts are what walkPages relies on *)
(* without saying so: which goroutines exist while the caller is in a      *)
(* given part of the walk (Phases), that a slot of the semaphore is held   *)
(* by each running worker (Slots), that only the goroutine inside drain    *)
(* holds deliverMu (Locking), and that output runs at most one page ahead  *)
(* of delivered, and that only while onPage runs or once the walk has been *)
(* aborted (Delivery).                                                     *)
(*                                                                         *)
(* WalkInv is inductive relative to Inv.  It says what becomes of a page:  *)
(* when it is recorded (Recorded), who looks at the delivery frontier next *)
(* (Frontier), why a page may be left out (Stopped, Coverage), and which   *)
(* page the error that is kept belongs to (Blame).                         *)
(*                                                                         *)
(* CountInv, inductive relative to both, follows the items: pages are      *)
(* handed over after they were recorded (Handed, FirstOnly), itemsFetched  *)
(* holds the items of each page once (Counted), and its last value was     *)
(* told to OnProgress or is about to be (Heard).                           *)
(***************************************************************************)
EXTENDS WalkPages, FiniteSetTheorems, TLAPS

EarlyStates == {"start", "first", "firstCall"}
LateStates  == {"lock", "return", "done"} \cup DeliverStates \cup FailStates

RunningWorkers == {p \in Workers : Running(p)}

(* Before the dispatch loop no worker exists; after wg.Wait none runs.      *)
Phases ==
    /\ pc[Caller] \in EarlyStates => \A p \in Workers : pc[p] = "idle"
    /\ pc[Caller] \in LateStates => \A p \in Workers : ~Running(p)
    /\ pc[Caller] \in EarlyStates \cup {"loop", "select"} =>
          page >= 2 /\ \A p \in Workers : p >= page => pc[p] = "idle"
    /\ pc[Caller] = "select" => page <= MaxPages

Slots ==
    /\ sem = Cardinality(RunningWorkers)
    /\ sem <= Concurrency

Locking ==
    /\ \A d \in Procs : pc[d] \in DeliverStates => deliverMu = d
    /\ deliverMu # 0 => pc[deliverMu] \in DeliverStates \cup FailStates
    /\ pc[Caller] \in FailStates => deliverMu = Caller

Errors ==
    /\ aborted => firstErr # nil
    /\ \A d \in Procs : pc[d] \in {"failAbort", "failCancel"} => firstErr # nil

Delivery ==
    /\ \A i \in 1 .. Len(output) : output[i] = i
    /\ Len(output) \in {delivered, delivered + 1}
    /\ pc[Caller] \in {"start", "first"} => output = <<>> /\ delivered = 0
    /\ pc[Caller] = "firstCall" => Len(output) = 1 /\ delivered = 0
    /\ \A d \in Procs : pc[d] = "peek" => Len(output) = delivered
    /\ \A d \in Procs : pc[d] = "call" => Len(output) = delivered + 1
    /\ Len(output) = delivered + 1 =>
          \/ pc[Caller] \in {"firstCall", "done"}
          \/ aborted
          \/ deliverMu # 0 /\ pc[deliverMu] \in {"call", "failErr", "failAbort"}
    /\ pc[Caller] = "done" /\ result = nil => Len(output) = delivered

Inv == TypeOK /\ Phases /\ Slots /\ Locking /\ Errors /\ Delivery

-----------------------------------------------------------------------------
(* Facts about the constants and the operators of the model. *)

(* The goroutine that called walkPages fetches page 1; workers fetch the rest. *)
LEMMA CallerIsNoWorker == Caller \in Procs /\ Caller \notin Workers
BY DEF Caller, Procs, Workers

(* A goroutine is named by the page it fetches, so that pages compare. *)
LEMMA ProcsAreNumbers ==
    ASSUME TypeOK
    PROVE  /\ MaxPages \in Int
           /\ Workers \subseteq Nat \ {0, 1}
           /\ Procs \subseteq Nat \ {0}
           /\ IsFiniteSet(Workers)
<1>1. MaxPages \in Int
  BY OptionsAssumption DEF TypeOK, MaxPages
<1>2. IsFiniteSet(Workers)
  BY <1>1, FS_Interval DEF Workers
<1>3. QED
  BY <1>1, <1>2 DEF Procs, Workers, Caller

(* A page has a natural number of items. *)
LEMMA PageLenIsNat ==
    ASSUME TypeOK, NEW p \in Int
    PROVE  PageLen(p) \in Nat
BY OptionsAssumption, CollectionsAssumption
   DEF TypeOK, PageLen, PerPage, defaultPerPage

(* Moving one goroutine keeps pc well typed. *)
LEMMA GotoType ==
    ASSUME PcOK, NEW d \in Procs, NEW label, Goto(d, label), opts' = opts,
           d = Caller => label \in CallerStates,
           d # Caller => label \in WorkerStates
    PROVE  PcOK'
BY DEF PcOK, Goto, Procs, Workers, MaxPages, Caller

-----------------------------------------------------------------------------
(* TypeOK is preserved, given that the semaphore's count stays natural. *)
LEMMA TypeStep ==
    ASSUME TypeOK, Phases, Next, sem' \in Nat
    PROVE  TypeOK'
<1> USE CallerIsNoWorker DEF envVars, sharedVars, outVars, Procs, Workers,
                             MaxPages, PerPage
<1>0. PcOK
  BY DEF TypeOK
<1>1. CASE Start
  <2>1. PcOK'
    BY <1>1, <1>0, GotoType DEF Start, Return, CallerStates, WorkerStates
  <2>2. QED
    BY <1>1, <2>1 DEF Start, Return, Err, nil, TypeOK
<1>2. CASE FirstFetched
  <2>1. PcOK'
    BY <1>2, <1>0, GotoType DEF FirstFetched, CallerStates
  <2>2. PageLen(1) \in Nat
    BY PageLenIsNat
  <2>3. QED
    BY <1>2, <2>1, <2>2 DEF FirstFetched, TypeOK, Caller
<1>3. CASE FirstFetchFails
  <2>1. PcOK'
    BY <1>3, <1>0, GotoType DEF FirstFetchFails, Return, CallerStates, WorkerStates
  <2>2. QED
    BY <1>3, <2>1 DEF FirstFetchFails, Return, Err, nil, TypeOK
<1>4. CASE FirstAccepted
  <2>1. PcOK'
    BY <1>4, <1>0, GotoType DEF FirstAccepted, Return, CallerStates
  <2>2. PageLen(1) \in Nat
    BY PageLenIsNat
  <2>3. ready' \subseteq Procs /\ pending' \subseteq ready'
    BY <1>4 DEF FirstAccepted, TypeOK, Caller
  <2>4. itemsFetched' \in Nat /\ result' = IF Short(1) \/ MaxPages = 1 THEN nil ELSE result
    BY <1>4, <2>2 DEF FirstAccepted, TypeOK, Return
  <2>5. QED
    BY <1>4, <2>1, <2>3, <2>4 DEF FirstAccepted, TypeOK, Err, nil
<1>5. CASE FirstRefused
  <2>1. PcOK'
    BY <1>5, <1>0, GotoType DEF FirstRefused, Return, CallerStates, WorkerStates
  <2>2. QED
    BY <1>5, <2>1 DEF FirstRefused, Return, Err, nil, TypeOK
<1>6. CASE DispatchCheck
  <2>1. PcOK'
    BY <1>6, <1>0, GotoType DEF DispatchCheck, CallerStates, WorkerStates
  <2>2. QED
    BY <1>6, <2>1 DEF DispatchCheck, TypeOK
<1>7. CASE Dispatch
  <2>1. page \in Workers
    BY <1>7 DEF Dispatch, TypeOK, Phases, EarlyStates, Workers
  <2>2. PcOK'
    BY <1>7, <1>0, <2>1 DEF Dispatch, PcOK, CallerStates, WorkerStates
  <2>3. QED
    BY <1>7, <2>2 DEF Dispatch, TypeOK
<1>8. CASE DispatchStop
  <2>1. PcOK'
    BY <1>8, <1>0, GotoType DEF DispatchStop, CallerStates, WorkerStates
  <2>2. QED
    BY <1>8, <2>1 DEF DispatchStop, TypeOK
<1>9. CASE WaitDone
  <2>1. PcOK'
    BY <1>9, <1>0, GotoType DEF WaitDone, CallerStates, WorkerStates
  <2>2. QED
    BY <1>9, <2>1 DEF WaitDone, TypeOK
<1>10. CASE ReturnResult
  <2>1. PcOK'
    BY <1>10, <1>0, GotoType DEF ReturnResult, Return, CallerStates, WorkerStates
  <2>2. QED
    BY <1>10, <2>1 DEF ReturnResult, Return, Err, nil, TypeOK, ContextErrors
<1>11. ASSUME NEW p \in Workers, WorkerCheck(p) PROVE TypeOK'
  <2>1. PcOK'
    BY <1>11, <1>0, GotoType DEF WorkerCheck, Leave, CallerStates, WorkerStates
  <2>2. QED
    BY <1>11, <2>1 DEF WorkerCheck, Leave, TypeOK
<1>12. ASSUME NEW p \in Workers, WorkerFetched(p) PROVE TypeOK'
  <2>1. PcOK'
    BY <1>12, <1>0, GotoType DEF WorkerFetched, CallerStates, WorkerStates
  <2>2. QED
    BY <1>12, <2>1 DEF WorkerFetched, TypeOK
<1>13. ASSUME NEW p \in Workers, WorkerFetchFails(p) PROVE TypeOK'
  <2>1. PcOK'
    BY <1>13, <1>0, GotoType DEF WorkerFetchFails, Leave, CallerStates, WorkerStates,
       FailStates
  <2>2. QED
    BY <1>13, <2>1 DEF WorkerFetchFails, Leave, TypeOK
<1>14. ASSUME NEW p \in Workers, WorkerAdd(p) PROVE TypeOK'
  <2>1. PcOK'
    BY <1>14, <1>0, GotoType DEF WorkerAdd, WorkerStates
  <2>2. PageLen(p) \in Nat
    BY PageLenIsNat, ProcsAreNumbers
  <2>3. itemsFetched' \in Nat
    BY <1>14, <2>2 DEF WorkerAdd, AddItems, TypeOK
  <2>4. cumulative' \in [Procs -> Nat]
    BY <1>14, <2>3 DEF WorkerAdd, TypeOK
  <2>5. QED
    BY <1>14, <2>1, <2>3, <2>4 DEF WorkerAdd, TypeOK
<1>15. ASSUME NEW p \in Workers, WorkerRecord(p) PROVE TypeOK'
  <2>1. PcOK'
    BY <1>15, <1>0, GotoType DEF WorkerRecord, CallerStates, WorkerStates
  <2>2. QED
    BY <1>15, <2>1 DEF WorkerRecord, TypeOK
<1>16. ASSUME NEW p \in Workers, WorkerReport(p) PROVE TypeOK'
  <2>1. PcOK'
    BY <1>16, <1>0, GotoType DEF WorkerReport, CallerStates, WorkerStates
  <2>2. QED
    BY <1>16, <2>1 DEF WorkerReport, TypeOK
<1>17. ASSUME NEW d \in Procs, DrainLock(d) PROVE TypeOK'
  <2>1. PcOK'
    BY <1>17, <1>0, GotoType DEF DrainLock, CallerStates, WorkerStates,
       DeliverStates, FailStates
  <2>2. QED
    BY <1>17, <2>1 DEF DrainLock, TypeOK
<1>18. ASSUME NEW d \in Procs, DrainTop(d) PROVE TypeOK'
  <2>1. PcOK'
    BY <1>18, <1>0, GotoType DEF DrainTop, CallerStates, WorkerStates,
       DeliverStates, FailStates
  <2>2. QED
    BY <1>18, <2>1 DEF DrainTop, TypeOK
<1>19. ASSUME NEW d \in Procs, DrainPeek(d) PROVE TypeOK'
  <2>1. PcOK'
    BY <1>19, <1>0, GotoType DEF DrainPeek, CallerStates, WorkerStates,
       DeliverStates
  <2>2. output' \in Seq(Nat)
    <3>1. output \in Seq(Nat) /\ delivered + 1 \in Nat
      BY DEF TypeOK
    <3>2. Append(output, delivered + 1) \in Seq(Nat)
      BY <3>1
    <3>3. QED
      BY <1>19, <3>1, <3>2 DEF DrainPeek
  <2>3. QED
    BY <1>19, <2>1, <2>2 DEF DrainPeek, TypeOK
<1>20. ASSUME NEW d \in Procs, DrainAccepted(d) PROVE TypeOK'
  <2>1. PcOK'
    BY <1>20, <1>0, GotoType DEF DrainAccepted, CallerStates, WorkerStates,
       DeliverStates, FailStates
  <2>2. QED
    BY <1>20, <2>1 DEF DrainAccepted, TypeOK
<1>21. ASSUME NEW d \in Procs, DrainRefused(d) PROVE TypeOK'
  <2>1. PcOK'
    BY <1>21, <1>0, GotoType DEF DrainRefused, CallerStates, WorkerStates,
       DeliverStates, FailStates,
       DeliverStates, FailStates
  <2>2. QED
    BY <1>21, <2>1 DEF DrainRefused, TypeOK
<1>22. ASSUME NEW d \in Procs, DrainUnlock(d) PROVE TypeOK'
  <2>1. PcOK'
    BY <1>22, <1>0, GotoType DEF DrainUnlock, Leave, CallerStates, WorkerStates,
       DeliverStates, FailStates
  <2>2. QED
    BY <1>22, <2>1 DEF DrainUnlock, Leave, TypeOK
<1>23. ASSUME NEW d \in Procs, FailErr(d) PROVE TypeOK'
  <2>1. PcOK'
    BY <1>23, <1>0, GotoType DEF FailErr, CallerStates, WorkerStates,
       DeliverStates, FailStates,
       DeliverStates, FailStates
  <2>2. QED
    BY <1>23, <2>1, ProcsAreNumbers DEF Failure, Err, nil, FailErr, TypeOK
<1>24. ASSUME NEW d \in Procs, FailAbort(d) PROVE TypeOK'
  <2>1. PcOK'
    BY <1>24, <1>0, GotoType DEF FailAbort, CallerStates, WorkerStates,
       DeliverStates, FailStates,
       DeliverStates, FailStates
  <2>2. QED
    BY <1>24, <2>1 DEF FailAbort, TypeOK
<1>25. ASSUME NEW d \in Procs, FailCancel(d) PROVE TypeOK'
  <2>1. PcOK'
    BY <1>25, <1>0, GotoType DEF FailCancel, Leave, CallerStates, WorkerStates,
       DeliverStates, FailStates
  <2>2. QED
    BY <1>25, <2>1 DEF FailCancel, Leave, TypeOK, ContextErrors
<1>26. ASSUME NEW e \in ContextErrors, ContextEnds(e) PROVE TypeOK'
  <2>1. PcOK'
    BY <1>26, <1>0 DEF ContextEnds, PcOK
  <2>2. QED
    BY <1>26, <2>1 DEF ContextEnds, TypeOK, ContextErrors
<1>q. QED
  BY <1>1, <1>2, <1>3, <1>4, <1>5, <1>6, <1>7, <1>8, <1>9, <1>10, <1>11,
     <1>12, <1>13, <1>14, <1>15, <1>16, <1>17, <1>18, <1>19, <1>20,
     <1>21, <1>22, <1>23, <1>24, <1>25, <1>26
     DEF Next, WalkStep, WalkStart, DispatchLoop, fetchAndRecord, drain, fail
-----------------------------------------------------------------------------
(* The semaphore. *)

(* Only finitely many workers run, so that they can be counted. *)
LEMMA RunningIsFinite ==
    ASSUME TypeOK
    PROVE  IsFiniteSet(RunningWorkers) /\ Cardinality(RunningWorkers) \in Nat
BY ProcsAreNumbers, FS_Subset, FS_CardinalityType DEF RunningWorkers

(* A step inside the running states leaves the set of running workers alone. *)
LEMMA SameRunning ==
    ASSUME Slots, opts' = opts, sem' = sem,
           \A p \in Workers : Running(p)' <=> Running(p)
    PROVE  Slots'
<1>1. Workers' = Workers /\ Concurrency' = Concurrency
  BY DEF Workers, MaxPages, Concurrency
<1>2. RunningWorkers' = RunningWorkers
  BY <1>1 DEF RunningWorkers
<1>3. QED
  BY <1>1, <1>2 DEF Slots

(* A goroutine that leaves gives back exactly the slot it held. *)
LEMMA LeaveSlots ==
    ASSUME TypeOK, Slots, opts' = opts, NEW d \in Procs, Running(d), Leave(d)
    PROVE  Slots'
<1> USE CallerIsNoWorker, ProcsAreNumbers
<1>1. Workers' = Workers /\ Concurrency' = Concurrency
  BY DEF Workers, MaxPages, Concurrency
<1>2. CASE d = Caller
  BY <1>2, SameRunning DEF Leave, Goto, Running, TypeOK, PcOK, Procs
<1>3. CASE d \in Workers
  <2>1. RunningWorkers' = RunningWorkers \ {d}
    BY <1>1, <1>3 DEF RunningWorkers, Running, Leave, Goto, TypeOK, PcOK, Procs
  <2>2. d \in RunningWorkers
    BY <1>3 DEF RunningWorkers
  <2>3. Cardinality(RunningWorkers') = Cardinality(RunningWorkers) - 1
    BY <2>1, <2>2, RunningIsFinite, FS_RemoveElement
  <2>4. Concurrency \in Int
    BY OptionsAssumption DEF TypeOK, Concurrency, defaultConcurrency
  <2>5. QED
    BY <1>1, <1>3, <2>3, <2>4, RunningIsFinite DEF Slots, Leave
<1>4. QED
  BY <1>2, <1>3 DEF Procs

(* The semaphore: every step keeps sem equal to the number of running workers. *)
LEMMA SlotsStep ==
    ASSUME TypeOK, Phases, Slots, Next
    PROVE  Slots'
<1> USE CallerIsNoWorker
    DEF envVars, sharedVars, outVars, Goto, Return, Running, TypeOK, PcOK, Procs
<1>1. CASE Start
  BY <1>1, SameRunning DEF Start
<1>2. CASE FirstFetched
  BY <1>2, SameRunning DEF FirstFetched
<1>3. CASE FirstFetchFails
  BY <1>3, SameRunning DEF FirstFetchFails
<1>4. CASE FirstAccepted
  BY <1>4, SameRunning DEF FirstAccepted
<1>5. CASE FirstRefused
  BY <1>5, SameRunning DEF FirstRefused
<1>6. CASE DispatchCheck
  BY <1>6, SameRunning DEF DispatchCheck
<1>7. CASE Dispatch
  <2>1. page \in Workers /\ pc[page] = "idle"
    BY <1>7 DEF Dispatch, TypeOK, Phases, EarlyStates, Workers
  <2>2. Workers' = Workers /\ Concurrency' = Concurrency
    BY <1>7 DEF Dispatch, Workers, MaxPages, Concurrency
  <2>3. RunningWorkers' = RunningWorkers \cup {page}
    BY <1>7, <2>1, <2>2 DEF Dispatch, RunningWorkers, Running
  <2>4. page \notin RunningWorkers
    BY <2>1 DEF RunningWorkers, Running
  <2>5. Cardinality(RunningWorkers') = Cardinality(RunningWorkers) + 1
    BY <2>3, <2>4, RunningIsFinite, FS_AddElement
  <2>6. Concurrency \in Int
    BY OptionsAssumption DEF TypeOK, Concurrency, defaultConcurrency
  <2>7. QED
    BY <1>7, <2>2, <2>5, <2>6, RunningIsFinite DEF Dispatch, Slots
<1>8. CASE DispatchStop
  BY <1>8, SameRunning DEF DispatchStop
<1>9. CASE WaitDone
  BY <1>9, SameRunning DEF WaitDone
<1>10. CASE ReturnResult
  BY <1>10, SameRunning DEF ReturnResult
<1>11. ASSUME NEW p \in Workers, WorkerCheck(p) PROVE Slots'
  <2>1. CASE Leave(p)
    BY <1>11, <2>1, LeaveSlots DEF WorkerCheck, Running
  <2>2. CASE ~Leave(p)
    BY <1>11, <2>2, SameRunning DEF WorkerCheck
  <2>3. QED
    BY <2>1, <2>2
<1>12. ASSUME NEW p \in Workers, WorkerFetched(p) PROVE Slots'
  BY <1>12, SameRunning DEF WorkerFetched
<1>13. ASSUME NEW p \in Workers, WorkerFetchFails(p) PROVE Slots'
  <2>1. CASE Leave(p)
    BY <1>13, <2>1, LeaveSlots DEF WorkerFetchFails, Running
  <2>2. CASE ~Leave(p)
    BY <1>13, <2>2, SameRunning DEF WorkerFetchFails
  <2>3. QED
    BY <2>1, <2>2
<1>14. ASSUME NEW p \in Workers, WorkerAdd(p) PROVE Slots'
  BY <1>14, SameRunning DEF WorkerAdd
<1>15. ASSUME NEW p \in Workers, WorkerRecord(p) PROVE Slots'
  BY <1>15, SameRunning DEF WorkerRecord
<1>16. ASSUME NEW p \in Workers, WorkerReport(p) PROVE Slots'
  BY <1>16, SameRunning DEF WorkerReport
<1>17. ASSUME NEW d \in Procs, DrainLock(d) PROVE Slots'
  BY <1>17, SameRunning DEF DrainLock
<1>18. ASSUME NEW d \in Procs, DrainTop(d) PROVE Slots'
  BY <1>18, SameRunning DEF DrainTop
<1>19. ASSUME NEW d \in Procs, DrainPeek(d) PROVE Slots'
  BY <1>19, SameRunning DEF DrainPeek
<1>20. ASSUME NEW d \in Procs, DrainAccepted(d) PROVE Slots'
  BY <1>20, SameRunning DEF DrainAccepted
<1>21. ASSUME NEW d \in Procs, DrainRefused(d) PROVE Slots'
  BY <1>21, SameRunning DEF DrainRefused
<1>22. ASSUME NEW d \in Procs, DrainUnlock(d) PROVE Slots'
  BY <1>22, LeaveSlots DEF DrainUnlock, Running
<1>23. ASSUME NEW d \in Procs, FailErr(d) PROVE Slots'
  BY <1>23, SameRunning DEF FailErr
<1>24. ASSUME NEW d \in Procs, FailAbort(d) PROVE Slots'
  BY <1>24, SameRunning DEF FailAbort
<1>25. ASSUME NEW d \in Procs, FailCancel(d) PROVE Slots'
  <2>1. CASE Leave(d)
    BY <1>25, <2>1, LeaveSlots DEF FailCancel, Running
  <2>2. CASE ~Leave(d)
    BY <1>25, <2>2, SameRunning DEF FailCancel
  <2>3. QED
    BY <2>1, <2>2
<1>26. ASSUME NEW e \in ContextErrors, ContextEnds(e) PROVE Slots'
  BY <1>26, SameRunning DEF ContextEnds
<1>q. QED
  BY <1>1, <1>2, <1>3, <1>4, <1>5, <1>6, <1>7, <1>8, <1>9, <1>10, <1>11,
     <1>12, <1>13, <1>14, <1>15, <1>16, <1>17, <1>18, <1>19, <1>20,
     <1>21, <1>22, <1>23, <1>24, <1>25, <1>26
     DEF Next, WalkStep, WalkStart, DispatchLoop, fetchAndRecord, drain, fail


-----------------------------------------------------------------------------
(* The phases of the walk follow the calling goroutine. *)
LEMMA PhasesStep ==
    ASSUME TypeOK, Phases, Next
    PROVE  Phases'
<1> USE CallerIsNoWorker, ProcsAreNumbers
    DEF envVars, sharedVars, outVars, Goto, Return, TypeOK, PcOK, Procs,
        Workers, MaxPages, Phases, EarlyStates, LateStates, Running,
        DeliverStates, FailStates
<1>1. CASE Start
  BY <1>1 DEF Start
<1>2. CASE FirstFetched
  BY <1>2 DEF FirstFetched
<1>3. CASE FirstFetchFails
  BY <1>3 DEF FirstFetchFails
<1>4. CASE FirstAccepted
  BY <1>4 DEF FirstAccepted
<1>5. CASE FirstRefused
  BY <1>5 DEF FirstRefused
<1>6. CASE DispatchCheck
  BY <1>6 DEF DispatchCheck
<1>7. CASE Dispatch
  <2>1. page \in Workers /\ Caller # page /\ page \in Int
    BY <1>7 DEF Dispatch
  <2>2. /\ pc'[Caller] = "loop"
        /\ \A p \in Workers : p # page => pc'[p] = pc[p]
    BY <1>7, <2>1 DEF Dispatch
  <2>3. \A p \in Workers : p >= page => pc[p] = "idle"
    BY <1>7 DEF Dispatch
  <2>4. page' = page + 1 /\ opts' = opts /\ page >= 2
    BY <1>7 DEF Dispatch
  <2>5. \A p \in Workers : p >= page + 1 => p >= page /\ p # page
    BY <2>1
  <2>6. \A p \in Workers : p >= page + 1 => pc'[p] = "idle"
    BY <2>2, <2>3, <2>5
  <2>7. page' >= 2 /\ \A p \in Workers' : p >= page' => pc'[p] = "idle"
    BY <2>1, <2>4, <2>6
  <2>8. QED
    BY <2>2, <2>7
<1>8. CASE DispatchStop
  BY <1>8 DEF DispatchStop
<1>9. CASE WaitDone
  BY <1>9 DEF WaitDone, AllFinished
<1>10. CASE ReturnResult
  BY <1>10 DEF ReturnResult
<1>11. ASSUME NEW p \in Workers, WorkerCheck(p) PROVE Phases'
  BY <1>11 DEF WorkerCheck, Leave
<1>12. ASSUME NEW p \in Workers, WorkerFetched(p) PROVE Phases'
  BY <1>12 DEF WorkerFetched
<1>13. ASSUME NEW p \in Workers, WorkerFetchFails(p) PROVE Phases'
  BY <1>13 DEF WorkerFetchFails, Leave
<1>14. ASSUME NEW p \in Workers, WorkerAdd(p) PROVE Phases'
  BY <1>14 DEF WorkerAdd
<1>15. ASSUME NEW p \in Workers, WorkerRecord(p) PROVE Phases'
  BY <1>15 DEF WorkerRecord
<1>16. ASSUME NEW p \in Workers, WorkerReport(p) PROVE Phases'
  BY <1>16 DEF WorkerReport
<1>17. ASSUME NEW d \in Procs, DrainLock(d) PROVE Phases'
  BY <1>17 DEF DrainLock
<1>18. ASSUME NEW d \in Procs, DrainTop(d) PROVE Phases'
  BY <1>18 DEF DrainTop
<1>19. ASSUME NEW d \in Procs, DrainPeek(d) PROVE Phases'
  <2>1. CASE d = Caller
    BY <1>19, <2>1 DEF DrainPeek
  <2>2. CASE d \in Workers
    BY <1>19, <2>2 DEF DrainPeek
  <2>3. QED
    BY <2>1, <2>2
<1>20. ASSUME NEW d \in Procs, DrainAccepted(d) PROVE Phases'
  BY <1>20 DEF DrainAccepted
<1>21. ASSUME NEW d \in Procs, DrainRefused(d) PROVE Phases'
  BY <1>21 DEF DrainRefused
<1>22. ASSUME NEW d \in Procs, DrainUnlock(d) PROVE Phases'
  BY <1>22 DEF DrainUnlock, Leave
<1>23. ASSUME NEW d \in Procs, FailErr(d) PROVE Phases'
  BY <1>23 DEF FailErr
<1>24. ASSUME NEW d \in Procs, FailAbort(d) PROVE Phases'
  BY <1>24 DEF FailAbort
<1>25. ASSUME NEW d \in Procs, FailCancel(d) PROVE Phases'
  <2>1. \E label \in {"unlock", "return", "done"} :
           pc' = [pc EXCEPT ![d] = label] /\ (d = Caller => label # "done")
    BY <1>25 DEF FailCancel, Leave
  <2>2. pc[d] = "failCancel" /\ page' = page /\ opts' = opts
    BY <1>25 DEF FailCancel
  <2>3. QED
    BY <2>1, <2>2
<1>26. ASSUME NEW e \in ContextErrors, ContextEnds(e) PROVE Phases'
  BY <1>26 DEF ContextEnds
<1>q. QED
  BY <1>1, <1>2, <1>3, <1>4, <1>5, <1>6, <1>7, <1>8, <1>9, <1>10, <1>11,
     <1>12, <1>13, <1>14, <1>15, <1>16, <1>17, <1>18, <1>19, <1>20,
     <1>21, <1>22, <1>23, <1>24, <1>25, <1>26
     DEF Next, WalkStep, WalkStart, DispatchLoop, fetchAndRecord, drain, fail


-----------------------------------------------------------------------------
(* deliverMu. *)
LEMMA LockingStep ==
    ASSUME TypeOK, Phases, Locking, Next
    PROVE  Locking'
<1> USE CallerIsNoWorker, ProcsAreNumbers
    DEF envVars, sharedVars, outVars, Goto, Return, TypeOK, PcOK, Procs,
        Workers, MaxPages, Locking, DeliverStates, FailStates
<1>1. CASE Start
  BY <1>1 DEF Start
<1>2. CASE FirstFetched
  BY <1>2 DEF FirstFetched
<1>3. CASE FirstFetchFails
  BY <1>3 DEF FirstFetchFails
<1>4. CASE FirstAccepted
  BY <1>4 DEF FirstAccepted
<1>5. CASE FirstRefused
  BY <1>5 DEF FirstRefused
<1>6. CASE DispatchCheck
  BY <1>6 DEF DispatchCheck
<1>7. CASE Dispatch
  <2>1. page \in Workers /\ pc[page] = "idle"
    BY <1>7 DEF Dispatch, Phases, EarlyStates
  <2>2. QED
    BY <1>7, <2>1 DEF Dispatch
<1>8. CASE DispatchStop
  BY <1>8 DEF DispatchStop
<1>9. CASE WaitDone
  BY <1>9 DEF WaitDone
<1>10. CASE ReturnResult
  BY <1>10 DEF ReturnResult
<1>11. ASSUME NEW p \in Workers, WorkerCheck(p) PROVE Locking'
  BY <1>11 DEF WorkerCheck, Leave
<1>12. ASSUME NEW p \in Workers, WorkerFetched(p) PROVE Locking'
  BY <1>12 DEF WorkerFetched
<1>13. ASSUME NEW p \in Workers, WorkerFetchFails(p) PROVE Locking'
  BY <1>13 DEF WorkerFetchFails, Leave
<1>14. ASSUME NEW p \in Workers, WorkerAdd(p) PROVE Locking'
  BY <1>14 DEF WorkerAdd
<1>15. ASSUME NEW p \in Workers, WorkerRecord(p) PROVE Locking'
  BY <1>15 DEF WorkerRecord
<1>16. ASSUME NEW p \in Workers, WorkerReport(p) PROVE Locking'
  BY <1>16 DEF WorkerReport
<1>17. ASSUME NEW d \in Procs, DrainLock(d) PROVE Locking'
  BY <1>17 DEF DrainLock
<1>18. ASSUME NEW d \in Procs, DrainTop(d) PROVE Locking'
  BY <1>18 DEF DrainTop
<1>19. ASSUME NEW d \in Procs, DrainPeek(d) PROVE Locking'
  BY <1>19 DEF DrainPeek
<1>20. ASSUME NEW d \in Procs, DrainAccepted(d) PROVE Locking'
  BY <1>20 DEF DrainAccepted
<1>21. ASSUME NEW d \in Procs, DrainRefused(d) PROVE Locking'
  BY <1>21 DEF DrainRefused
<1>22. ASSUME NEW d \in Procs, DrainUnlock(d) PROVE Locking'
  BY <1>22 DEF DrainUnlock, Leave
<1>23. ASSUME NEW d \in Procs, FailErr(d) PROVE Locking'
  BY <1>23 DEF FailErr
<1>24. ASSUME NEW d \in Procs, FailAbort(d) PROVE Locking'
  BY <1>24 DEF FailAbort
<1>25. ASSUME NEW d \in Procs, FailCancel(d) PROVE Locking'
  BY <1>25 DEF FailCancel, Leave
<1>26. ASSUME NEW e \in ContextErrors, ContextEnds(e) PROVE Locking'
  BY <1>26 DEF ContextEnds
<1>q. QED
  BY <1>1, <1>2, <1>3, <1>4, <1>5, <1>6, <1>7, <1>8, <1>9, <1>10, <1>11,
     <1>12, <1>13, <1>14, <1>15, <1>16, <1>17, <1>18, <1>19, <1>20,
     <1>21, <1>22, <1>23, <1>24, <1>25, <1>26
     DEF Next, WalkStep, WalkStart, DispatchLoop, fetchAndRecord, drain, fail


-----------------------------------------------------------------------------
(* aborted is only ever set behind firstErr. *)
LEMMA ErrorsStep ==
    ASSUME TypeOK, Errors, Next
    PROVE  Errors'
<1> USE CallerIsNoWorker, ProcsAreNumbers
    DEF envVars, sharedVars, outVars, Goto, Return, TypeOK, PcOK, Procs,
        Workers, MaxPages, Errors
<1>1. CASE Start
  BY <1>1 DEF Start
<1>2. CASE FirstFetched
  BY <1>2 DEF FirstFetched
<1>3. CASE FirstFetchFails
  BY <1>3 DEF FirstFetchFails
<1>4. CASE FirstAccepted
  BY <1>4 DEF FirstAccepted
<1>5. CASE FirstRefused
  BY <1>5 DEF FirstRefused
<1>6. CASE DispatchCheck
  BY <1>6 DEF DispatchCheck
<1>7. CASE Dispatch
  BY <1>7 DEF Dispatch
<1>8. CASE DispatchStop
  BY <1>8 DEF DispatchStop
<1>9. CASE WaitDone
  BY <1>9 DEF WaitDone
<1>10. CASE ReturnResult
  BY <1>10 DEF ReturnResult
<1>11. ASSUME NEW p \in Workers, WorkerCheck(p) PROVE Errors'
  BY <1>11 DEF WorkerCheck, Leave
<1>12. ASSUME NEW p \in Workers, WorkerFetched(p) PROVE Errors'
  BY <1>12 DEF WorkerFetched
<1>13. ASSUME NEW p \in Workers, WorkerFetchFails(p) PROVE Errors'
  BY <1>13 DEF WorkerFetchFails, Leave
<1>14. ASSUME NEW p \in Workers, WorkerAdd(p) PROVE Errors'
  BY <1>14 DEF WorkerAdd
<1>15. ASSUME NEW p \in Workers, WorkerRecord(p) PROVE Errors'
  BY <1>15 DEF WorkerRecord
<1>16. ASSUME NEW p \in Workers, WorkerReport(p) PROVE Errors'
  BY <1>16 DEF WorkerReport
<1>17. ASSUME NEW d \in Procs, DrainLock(d) PROVE Errors'
  BY <1>17 DEF DrainLock
<1>18. ASSUME NEW d \in Procs, DrainTop(d) PROVE Errors'
  BY <1>18 DEF DrainTop
<1>19. ASSUME NEW d \in Procs, DrainPeek(d) PROVE Errors'
  BY <1>19 DEF DrainPeek
<1>20. ASSUME NEW d \in Procs, DrainAccepted(d) PROVE Errors'
  BY <1>20 DEF DrainAccepted
<1>21. ASSUME NEW d \in Procs, DrainRefused(d) PROVE Errors'
  BY <1>21 DEF DrainRefused
<1>22. ASSUME NEW d \in Procs, DrainUnlock(d) PROVE Errors'
  BY <1>22 DEF DrainUnlock, Leave
<1>23. ASSUME NEW d \in Procs, FailErr(d) PROVE Errors'
  BY <1>23 DEF FailErr, Failure, Err, nil
<1>24. ASSUME NEW d \in Procs, FailAbort(d) PROVE Errors'
  BY <1>24 DEF FailAbort
<1>25. ASSUME NEW d \in Procs, FailCancel(d) PROVE Errors'
  BY <1>25 DEF FailCancel, Leave
<1>26. ASSUME NEW e \in ContextErrors, ContextEnds(e) PROVE Errors'
  BY <1>26 DEF ContextEnds
<1>q. QED
  BY <1>1, <1>2, <1>3, <1>4, <1>5, <1>6, <1>7, <1>8, <1>9, <1>10, <1>11,
     <1>12, <1>13, <1>14, <1>15, <1>16, <1>17, <1>18, <1>19, <1>20,
     <1>21, <1>22, <1>23, <1>24, <1>25, <1>26
     DEF Next, WalkStep, WalkStart, DispatchLoop, fetchAndRecord, drain, fail


-----------------------------------------------------------------------------
(* Delivery: what onPage has been given. *)
LEMMA DeliveryStep ==
    ASSUME Inv, Next
    PROVE  Delivery'
<1> USE CallerIsNoWorker, ProcsAreNumbers
    DEF envVars, sharedVars, outVars, Goto, Return, Procs,
        Workers, MaxPages, Inv, Delivery, Locking, DeliverStates, FailStates
<1>s. TypeOK
  OBVIOUS
<1>t. /\ output \in Seq(Nat) /\ Len(output) \in Nat /\ delivered \in Nat
      /\ pc \in [Procs -> CallerStates \cup WorkerStates]
      /\ deliverMu \in {0} \cup Procs
  BY <1>s DEF TypeOK, PcOK
<1>1. CASE Start
  BY <1>1, <1>s, <1>t DEF Start, Err, nil
<1>2. CASE FirstFetched
  <2>1. \A p \in Workers : pc[p] = "idle"
    BY <1>2, <1>s, <1>t DEF FirstFetched, Phases, EarlyStates
  <2>2. Len(output') = 1 /\ delivered = 0
    BY <1>2, <1>s, <1>t DEF FirstFetched
  <2>3. QED
    BY <1>2, <1>s, <1>t, <2>1, <2>2 DEF FirstFetched
<1>3. CASE FirstFetchFails
  BY <1>3, <1>s, <1>t DEF FirstFetchFails, Err, nil
<1>4. CASE FirstAccepted
  <2>1. \A p \in Workers : pc[p] = "idle"
    BY <1>4, <1>s, <1>t DEF FirstAccepted, Phases, EarlyStates
  <2>2. Len(output) = 1 /\ delivered = 0
    BY <1>4, <1>s, <1>t DEF FirstAccepted
  <2>3. QED
    BY <1>4, <1>s, <1>t, <2>1, <2>2 DEF FirstAccepted
<1>5. CASE FirstRefused
  BY <1>5, <1>s, <1>t DEF FirstRefused, Err, nil
<1>6. CASE DispatchCheck
  BY <1>6, <1>s, <1>t DEF DispatchCheck
<1>7. CASE Dispatch
  <2>1. page \in Workers /\ pc[page] = "idle"
    BY <1>7, <1>s, <1>t DEF Dispatch, Phases, EarlyStates, TypeOK
  <2>2. QED
    BY <1>7, <1>s, <1>t, <2>1 DEF Dispatch
<1>8. CASE DispatchStop
  BY <1>8, <1>s, <1>t DEF DispatchStop
<1>9. CASE WaitDone
  BY <1>9, <1>s, <1>t DEF WaitDone
<1>10. CASE ReturnResult
  <2>1. deliverMu = 0
    BY <1>10, <1>s, <1>t DEF ReturnResult, Phases, LateStates, Running, TypeOK
  <2>2. aborted => firstErr # nil
    BY DEF Errors
  <2>3. QED
    BY <1>10, <1>s, <1>t, <2>1, <2>2 DEF ReturnResult
<1>11. ASSUME NEW p \in Workers, WorkerCheck(p) PROVE Delivery'
  BY <1>11, <1>s, <1>t DEF WorkerCheck, Leave
<1>12. ASSUME NEW p \in Workers, WorkerFetched(p) PROVE Delivery'
  BY <1>12, <1>s, <1>t DEF WorkerFetched
<1>13. ASSUME NEW p \in Workers, WorkerFetchFails(p) PROVE Delivery'
  BY <1>13, <1>s, <1>t DEF WorkerFetchFails, Leave
<1>14. ASSUME NEW p \in Workers, WorkerAdd(p) PROVE Delivery'
  BY <1>14, <1>s, <1>t DEF WorkerAdd
<1>15. ASSUME NEW p \in Workers, WorkerRecord(p) PROVE Delivery'
  BY <1>15, <1>s, <1>t DEF WorkerRecord
<1>16. ASSUME NEW p \in Workers, WorkerReport(p) PROVE Delivery'
  BY <1>16, <1>s, <1>t DEF WorkerReport
<1>17. ASSUME NEW d \in Procs, DrainLock(d) PROVE Delivery'
  BY <1>17, <1>s, <1>t DEF DrainLock
<1>18. ASSUME NEW d \in Procs, DrainTop(d) PROVE Delivery'
  <2>1. deliverMu = d /\ pc[Caller] \notin {"firstCall", "done"}
    BY <1>18, <1>s, <1>t DEF DrainTop, Phases, EarlyStates, LateStates, Running
  <2>2. QED
    BY <1>18, <1>s, <1>t, <2>1 DEF DrainTop, MoreToDeliver
<1>19. ASSUME NEW d \in Procs, DrainPeek(d) PROVE Delivery'
  <2>1. /\ deliverMu = d /\ pc[Caller] \notin EarlyStates \cup {"done"}
        /\ \A e \in Procs : e # d => pc[e] \notin DeliverStates
    BY <1>19, <1>s, <1>t DEF DrainPeek, Phases, EarlyStates, LateStates, Running
  <2>2. CASE delivered + 1 \in ready
    <3>1. output' = Append(output, delivered + 1) /\ Len(output) = delivered
      BY <1>19, <1>s, <1>t, <2>2 DEF DrainPeek
    <3>2. /\ Len(output') = delivered + 1
          /\ \A i \in 1 .. Len(output') : output'[i] = i
      BY <3>1
    <3>3. QED
      BY <1>19, <1>s, <1>t, <2>1, <2>2, <3>2 DEF DrainPeek, EarlyStates
  <2>3. CASE delivered + 1 \notin ready
    BY <1>19, <1>s, <1>t, <2>1, <2>3 DEF DrainPeek
  <2>4. QED
    BY <2>2, <2>3
<1>20. ASSUME NEW d \in Procs, DrainAccepted(d) PROVE Delivery'
  <2>1. /\ deliverMu = d /\ pc[Caller] \notin EarlyStates \cup {"done"}
        /\ \A e \in Procs : e # d => pc[e] \notin DeliverStates
    BY <1>20, <1>s, <1>t DEF DrainAccepted, Phases, EarlyStates, LateStates, Running
  <2>2. Len(output) = delivered + 1
    BY <1>20, <1>s, <1>t DEF DrainAccepted
  <2>3. QED
    BY <1>20, <1>s, <1>t, <2>1, <2>2 DEF DrainAccepted, EarlyStates
<1>21. ASSUME NEW d \in Procs, DrainRefused(d) PROVE Delivery'
  BY <1>21, <1>s, <1>t DEF DrainRefused
<1>22. ASSUME NEW d \in Procs, DrainUnlock(d) PROVE Delivery'
  BY <1>22, <1>s, <1>t DEF DrainUnlock, Leave
<1>23. ASSUME NEW d \in Procs, FailErr(d) PROVE Delivery'
  BY <1>23, <1>s, <1>t DEF FailErr
<1>24. ASSUME NEW d \in Procs, FailAbort(d) PROVE Delivery'
  BY <1>24, <1>s, <1>t DEF FailAbort
<1>25. ASSUME NEW d \in Procs, FailCancel(d) PROVE Delivery'
  BY <1>25, <1>s, <1>t DEF FailCancel, Leave
<1>26. ASSUME NEW e \in ContextErrors, ContextEnds(e) PROVE Delivery'
  BY <1>26, <1>s, <1>t DEF ContextEnds
<1>q. QED
  BY <1>1, <1>2, <1>3, <1>4, <1>5, <1>6, <1>7, <1>8, <1>9, <1>10, <1>11,
     <1>12, <1>13, <1>14, <1>15, <1>16, <1>17, <1>18, <1>19, <1>20,
     <1>21, <1>22, <1>23, <1>24, <1>25, <1>26
     DEF Next, WalkStep, WalkStart, DispatchLoop, fetchAndRecord, drain, fail

-----------------------------------------------------------------------------
(* The invariant holds initially, and across every step. *)
LEMMA InvInit ==
    ASSUME Init
    PROVE  Inv
<1>1. TypeOK
  <2>1. PcOK
    BY CallerIsNoWorker
       DEF Init, PcOK, CallerStates, WorkerStates, Procs, Workers, MaxPages
  <2>2. <<>> \in Seq(Nat)
    OBVIOUS
  <2>3. nil \in [kind : {"nil", "fetch", "callback"}, page : Nat]
    BY DEF Err, nil
  <2>4. /\ opts \in Options
        /\ collection \in Collections /\ collection.rest < PerPage
        /\ cumulative \in [Procs -> Nat]
    BY DEF Init
  <2>5. nil \in [kind : {"nil", "invalid", "fetch", "callback"}, page : Nat]
    BY DEF Err, nil
  <2>6. /\ progress \subseteq [page : Procs, cumulative : Nat]
        /\ ready \subseteq Procs /\ pending \subseteq ready
        /\ output \in Seq(Nat)
    BY <2>2 DEF Init
  <2>7. firstErr = nil /\ result = nil
    BY DEF Init
  <2>8. /\ page \in Int /\ shortPage \in {0} \cup Workers
        /\ itemsFetched \in Nat /\ delivered \in Nat /\ sem \in Nat
        /\ deliverMu \in {0} \cup Procs
    BY DEF Init
  <2>9. /\ ctx \in {"live"} \cup ContextErrors
        /\ walkCtx \in {"live"} \cup ContextErrors
        /\ aborted \in BOOLEAN
    BY DEF Init
  <2>10. QED
    BY <2>1, <2>3, <2>4, <2>5, <2>6, <2>7, <2>8, <2>9 DEF TypeOK
<1>2. RunningWorkers = {}
  BY DEF Init, RunningWorkers, Running, Procs, Caller, Workers
<1>3. Slots
  BY <1>2, FS_EmptySet, OptionsAssumption
     DEF Init, Slots, Concurrency, defaultConcurrency
<1>4. Phases /\ Locking /\ Errors /\ Delivery
  BY DEF Init, Phases, Locking, Errors, Delivery, EarlyStates, LateStates,
         DeliverStates, FailStates, Procs, Caller, Workers, Running
<1>5. QED
  BY <1>1, <1>3, <1>4 DEF Inv

(* walkPages fixes its options once, before the first step. *)
LEMMA OptionsFixed == Next => opts' = opts
BY DEF Next, WalkStep, WalkStart, DispatchLoop, fetchAndRecord, drain, fail,
       Start, FirstFetched, FirstFetchFails, FirstAccepted, FirstRefused,
       DispatchCheck, Dispatch, DispatchStop, WaitDone, ReturnResult,
       WorkerCheck, WorkerFetched, WorkerFetchFails, WorkerAdd, WorkerRecord,
       WorkerReport, DrainLock, DrainTop, DrainPeek, DrainAccepted,
       DrainRefused, DrainUnlock, FailErr, FailAbort, FailCancel, ContextEnds,
       envVars

(* The inductive step, from the lemmas on the conjuncts of Inv. *)
LEMMA InvStep ==
    ASSUME Inv, [Next]_vars
    PROVE  Inv'
<1>1. CASE Next
  <2>1. Slots'
    BY <1>1, SlotsStep DEF Inv
  <2>2. Phases'
    BY <1>1, PhasesStep DEF Inv
  <2>3. sem' \in Nat
    <3>1. RunningWorkers' \subseteq Workers
      BY <1>1, OptionsFixed DEF RunningWorkers, Workers, MaxPages
    <3>2. Cardinality(RunningWorkers') \in Nat
      BY <3>1, ProcsAreNumbers, FS_Subset, FS_CardinalityType DEF Inv
    <3>3. QED
      BY <2>1, <3>2 DEF Slots
  <2>4. TypeOK'
    BY <1>1, <2>3, TypeStep DEF Inv
  <2>5. QED
    BY <1>1, <2>1, <2>2, <2>4, LockingStep, ErrorsStep, DeliveryStep DEF Inv
<1>2. CASE UNCHANGED vars
  BY <1>2 DEF vars, Inv, TypeOK, PcOK, Phases, Slots, Locking, Errors, Delivery,
     RunningWorkers, Running, Workers, Procs, MaxPages, PerPage, Concurrency, nil, Err
<1>3. QED
  BY <1>1, <1>2

(* Inv holds in every reachable state. *)
LEMMA Invariance == Spec => []Inv
BY InvInit, InvStep, PTL DEF Spec

-----------------------------------------------------------------------------
(* Every variable keeps its type: in particular the slots taken in the      *)
(* semaphore are never negative, so the deferred receive of a worker always *)
(* finds its own send.                                                      *)
THEOREM TypeCorrect == Spec => []TypeOK
BY Invariance, PTL DEF Inv

(* Pages reach onPage one call at a time and in page order, for any number  *)
(* of pages and workers and whatever fetch, onPage and the context do.      *)
THEOREM DeliveredInOrder == Spec => []InOrderDelivery
<1>1. Inv => InOrderDelivery
  BY DEF Inv, InOrderDelivery, Delivery, Locking, DeliverStates
<1>2. QED
  BY <1>1, Invariance, PTL

(* No worker outlives the walk, and no more than Concurrency run at once. *)
THEOREM WorkersBounded == Spec => []NoWorkerLeaks
<1>1. ASSUME Inv PROVE NoWorkerLeaks
  <2>1. Slots /\ RunningWorkers = {p \in Workers : Running(p)}
    BY <1>1 DEF Inv, RunningWorkers
  <2>2. ASSUME Returned PROVE sem = 0 /\ deliverMu = 0
    <3>1. \A p \in Workers : ~Running(p)
      BY <1>1, <2>2 DEF Inv, Phases, Returned, LateStates
    <3>2. RunningWorkers = {}
      BY <3>1 DEF RunningWorkers
    <3>3. deliverMu = 0
      BY <1>1, <2>2, <3>1 DEF Inv, Locking, TypeOK, Returned, Procs, Running,
         DeliverStates, FailStates
    <3>4. QED
      BY <2>1, <3>2, <3>3, FS_EmptySet DEF Slots
  <2>3. QED
    BY <2>1, <2>2 DEF NoWorkerLeaks, Slots
<1>2. QED
  BY <1>1, Invariance, PTL

(* A walk that has not returned always has a goroutine that can move: the   *)
(* holder of deliverMu is inside drain or fail, where it waits for nothing, *)
(* so a worker is never blocked for good, and without running workers the   *)
(* caller finds a free slot, an empty wait group and a free deliverMu.      *)
THEOREM DeadlockFree == Spec => []NeverStuck
<1>1. ASSUME Inv, ~Returned, \A d \in Procs : Blocked(d) PROVE FALSE
  <2>1. /\ pc[Caller] \in CallerStates \ {"done"}
        /\ \A p \in Workers : pc[p] \in WorkerStates
        /\ deliverMu \in {0} \cup Procs
    BY <1>1 DEF Inv, TypeOK, PcOK, Returned
  <2>2. deliverMu = 0
    <3>1. ASSUME deliverMu # 0 PROVE FALSE
      <4>1. deliverMu \in Procs /\ pc[deliverMu] \in DeliverStates \cup FailStates
        BY <1>1, <2>1, <3>1 DEF Inv, Locking
      <4>2. Blocked(deliverMu)
        BY <1>1, <4>1
      <4>3. QED
        BY <4>1, <4>2 DEF Blocked, DeliverStates, FailStates
    <3>2. QED
      BY <3>1
  <2>3. \A p \in Workers : ~Running(p)
    <3>1. ASSUME NEW p \in Workers PROVE pc[p] \in {"idle", "done"}
      BY <1>1, <2>1, <2>2 DEF Blocked, Procs, WorkerStates, DeliverStates, FailStates
    <3>2. QED
      BY <3>1 DEF Running
  <2>4. sem = 0
    <3>1. RunningWorkers = {}
      BY <2>3 DEF RunningWorkers
    <3>2. QED
      BY <1>1, <3>1, FS_EmptySet DEF Inv, Slots
  <2>5. Concurrency \in Nat \ {0}
    BY <1>1, OptionsAssumption DEF Inv, TypeOK, Concurrency, defaultConcurrency
  <2>6. Blocked(Caller)
    BY <1>1 DEF Procs
  <2>7. QED
    BY <2>1, <2>2, <2>3, <2>4, <2>5, <2>6
       DEF Blocked, AllFinished, CallerStates, DeliverStates, FailStates
<1>2. Inv => NeverStuck
  BY <1>1 DEF NeverStuck
<1>3. QED
  BY <1>2, Invariance, PTL

-----------------------------------------------------------------------------
(* The walk implements PageStream. *)

(* A walk starts as an empty stream. *)
LEMMA StreamInit == Init => Stream!Init
BY DEF Init, Stream!Init, outcome, Returned, Procs, Caller

(* Every step of a walk is a step of the abstract stream, or none. *)
LEMMA StreamStep ==
    ASSUME Inv, [Next]_vars
    PROVE  [Stream!Next]_(Stream!vars)
<1> USE CallerIsNoWorker, ProcsAreNumbers
    DEF envVars, sharedVars, outVars, Goto, Return, Procs,
        Stream!vars, outcome, Returned, Inv, Locking, Delivery
<1> DEFINE Goal == [Stream!Next]_(Stream!vars)
<1>s. TypeOK
  OBVIOUS
<1>t. /\ output \in Seq(Nat) /\ Len(output) \in Nat /\ delivered \in Nat
      /\ pc \in [Procs -> CallerStates \cup WorkerStates]
  BY <1>s DEF TypeOK, PcOK
<1>0. CASE UNCHANGED vars
  BY <1>0 DEF vars
<1>1. CASE Start
  BY <1>0, <1>1, <1>t DEF Start, Stream!Next, Stream!Fail, Err, nil
<1>2. CASE FirstFetched
  BY <1>2, <1>t DEF FirstFetched, Stream!Next, Stream!Hand
<1>3. CASE FirstFetchFails
  BY <1>3, <1>t DEF FirstFetchFails, Stream!Next, Stream!Fail, Err, nil
<1>4. CASE FirstAccepted
  BY <1>4, <1>t DEF FirstAccepted, Stream!Next, Stream!Accept
<1>5. CASE FirstRefused
  BY <1>5, <1>t DEF FirstRefused, Stream!Next, Stream!Fail, Err, nil
<1>6. CASE DispatchCheck
  BY <1>6, <1>s, <1>t DEF DispatchCheck
<1>7. CASE Dispatch
  <2>1. page \in Workers
    BY <1>7, <1>s DEF Dispatch, Phases, EarlyStates, TypeOK, Workers
  <2>2. QED
    BY <1>7, <1>t, <2>1 DEF Dispatch
<1>8. CASE DispatchStop
  BY <1>8, <1>s, <1>t DEF DispatchStop
<1>9. CASE WaitDone
  BY <1>9, <1>s, <1>t DEF WaitDone
<1>10. CASE ReturnResult
  <2>1. deliverMu = 0
    BY <1>10, <1>s DEF ReturnResult, Phases, LateStates, Running, TypeOK, DeliverStates,
       FailStates
  <2>2. firstErr = nil => Len(output) = delivered
    BY <1>10, <1>t, <2>1 DEF ReturnResult, Errors
  <2>3. QED
    BY <1>10, <1>t, <2>2 DEF ReturnResult, Stream!Next, Stream!Complete, Stream!Fail
<1>11. ASSUME NEW p \in Workers, WorkerCheck(p) PROVE Goal
  BY <1>11, <1>s, <1>t DEF WorkerCheck, Leave
<1>12. ASSUME NEW p \in Workers, WorkerFetched(p) PROVE Goal
  BY <1>12, <1>s, <1>t DEF WorkerFetched
<1>13. ASSUME NEW p \in Workers, WorkerFetchFails(p) PROVE Goal
  BY <1>13, <1>s, <1>t DEF WorkerFetchFails, Leave
<1>14. ASSUME NEW p \in Workers, WorkerAdd(p) PROVE Goal
  BY <1>14, <1>s, <1>t DEF WorkerAdd
<1>15. ASSUME NEW p \in Workers, WorkerRecord(p) PROVE Goal
  BY <1>15, <1>s, <1>t DEF WorkerRecord
<1>16. ASSUME NEW p \in Workers, WorkerReport(p) PROVE Goal
  BY <1>16, <1>s, <1>t DEF WorkerReport
<1>17. ASSUME NEW d \in Procs, DrainLock(d) PROVE Goal
  BY <1>17, <1>s, <1>t DEF DrainLock
<1>18. ASSUME NEW d \in Procs, DrainTop(d) PROVE Goal
  BY <1>18, <1>s, <1>t DEF DrainTop
<1>19. ASSUME NEW d \in Procs, DrainPeek(d) PROVE Goal
  <2>1. pc[Caller] # "done" /\ pc'[Caller] # "done"
    BY <1>19, <1>t DEF DrainPeek, Phases, LateStates, Running
  <2>2. QED
    BY <1>19, <1>t, <2>1 DEF DrainPeek, Stream!Next, Stream!Hand
<1>20. ASSUME NEW d \in Procs, DrainAccepted(d) PROVE Goal
  <2>1. pc[Caller] # "done" /\ pc'[Caller] # "done"
    BY <1>20, <1>t DEF DrainAccepted, Phases, LateStates, Running
  <2>2. QED
    BY <1>20, <1>t, <2>1 DEF DrainAccepted, Stream!Next, Stream!Accept
<1>21. ASSUME NEW d \in Procs, DrainRefused(d) PROVE Goal
  BY <1>21, <1>s, <1>t DEF DrainRefused
<1>22. ASSUME NEW d \in Procs, DrainUnlock(d) PROVE Goal
  BY <1>22, <1>s, <1>t DEF DrainUnlock, Leave
<1>23. ASSUME NEW d \in Procs, FailErr(d) PROVE Goal
  BY <1>23, <1>s, <1>t DEF FailErr
<1>24. ASSUME NEW d \in Procs, FailAbort(d) PROVE Goal
  BY <1>24, <1>s, <1>t DEF FailAbort
<1>25. ASSUME NEW d \in Procs, FailCancel(d) PROVE Goal
  BY <1>25, <1>s, <1>t DEF FailCancel, Leave
<1>26. ASSUME NEW e \in ContextErrors, ContextEnds(e) PROVE Goal
  BY <1>26, <1>s, <1>t DEF ContextEnds
<1>q. QED
  BY <1>0, <1>1, <1>2, <1>3, <1>4, <1>5, <1>6, <1>7, <1>8, <1>9, <1>10, <1>11,
     <1>12, <1>13, <1>14, <1>15, <1>16, <1>17, <1>18, <1>19, <1>20,
     <1>21, <1>22, <1>23, <1>24, <1>25, <1>26
     DEF Next, WalkStep, WalkStart, DispatchLoop, fetchAndRecord, drain, fail

(* walkPages implements the sequential page stream it promises: in order,   *)
(* one call of onPage at a time, nothing after a refusal and nothing after  *)
(* it has returned, nil only when every page handed over was accepted.      *)
THEOREM WalkImplementsStream == Spec => ImplementsStream
<1>1. QED
  BY StreamInit, StreamStep, Invariance, PTL
     DEF Spec, ImplementsStream, Stream!Spec

-----------------------------------------------------------------------------
(* The second layer: which pages are recorded, why a page may not be, and   *)
(* what the walk returns.  It is inductive relative to Inv.                 *)

(* A worker's page is in ready from the moment it is recorded.  One that    *)
(* fails in drain has been recorded, one that fails in fetch never is.      *)
Recorded ==
    /\ pc[Caller] \in EarlyStates => ready = {}
    /\ \A p \in Workers :
          /\ pc[p] \in {"idle", "check", "fetch", "add", "record"} => p \notin ready
          /\ pc[p] \in {"report", "lock"} \cup DeliverStates => p \in ready
          /\ pc[p] \in FailStates => (p \in ready <=> deliverMu = p)

(* Where a worker is that has yet to look for the next page, or is about to *)
(* abort the walk.                                                          *)
FrontierStates ==
    {"report", "lock", "top", "peek", "call", "failErr", "failAbort"}

(* A recorded page at the delivery frontier is some worker's business, so   *)
(* that the caller's own drain, after wg.Wait, finds nothing to deliver.    *)
Frontier ==
    /\ delivered + 1 \in ready /\ ~aborted =>
          \E d \in Workers : pc[d] \in FrontierStates
    /\ pc[Caller] \notin {"call"} \cup FailStates
    /\ pc[Caller] = "peek" => ~aborted

(* Why the walk's context may have ended, and which page is a short one. *)
Stopped ==
    /\ \A d \in Procs : pc[d] = "failCancel" => aborted
    /\ walkCtx # "live" => ctx # "live" \/ aborted \/ Returned
    /\ shortPage # 0 => Short(shortPage)

(* Page p is recorded, or has a reason not to be. *)
Covered(p) ==
    \/ p \in ready
    \/ shortPage # 0 /\ p > shortPage
    \/ ctx # "live" \/ aborted

DrainPhase == {"lock", "return"} \cup DeliverStates \cup FailStates

Coverage ==
    /\ \A p \in Workers : pc[p] = "done" => Covered(p)
    /\ pc[Caller] \in EarlyStates => page = 2
    /\ pc[Caller] \in {"loop", "select"} =>
          \A p \in Workers : p < page => pc[p] # "idle"
    /\ pc[Caller] \in {"wait"} \cup DrainPhase =>
          \A p \in Workers : pc[p] = "idle" => Covered(p)
    /\ pc[Caller] \in {"loop", "select", "wait"} \cup DrainPhase =>
          delivered >= 1

(* The error kept by fail is the one of the page it names. *)
Blame ==
    /\ pc[Caller] # "done" => result = nil
    /\ pc[Caller] \in EarlyStates => firstErr.kind = "nil"
    /\ \A d \in Procs :
          pc[d] = "failErr" /\ deliverMu = d => Len(output) = delivered + 1
    /\ firstErr.kind = "callback" =>
          /\ firstErr.page = Len(output) /\ Len(output) = delivered + 1
          /\ \A d \in Procs : pc[d] # "call"
    /\ firstErr.kind = "fetch" =>
          /\ firstErr.page \in Workers \ ready
          /\ pc[firstErr.page] \in {"failAbort", "failCancel", "done"}
          /\ deliverMu # firstErr.page

(* What walkPages returned, and what it handed over, no longer change. *)
Outcome == CompleteOnSuccess /\ ErrorNamesPage

WalkInv == Recorded /\ Frontier /\ Stopped /\ Coverage /\ Blame /\ Outcome

(* What the steps below need of Inv, in one place. *)
LEMMA WalkFacts ==
    ASSUME Inv
    PROVE  /\ pc \in [Procs -> CallerStates \cup WorkerStates]
           /\ ready \subseteq Procs /\ delivered \in Nat
           /\ deliverMu \in {0} \cup Procs
           /\ page \in Int /\ shortPage \in {0} \cup Workers
           /\ Caller \in Procs /\ Caller \notin Workers
           /\ Workers \subseteq Procs /\ 0 \notin Procs
           /\ Procs \subseteq Nat /\ MaxPages \in Int
BY CallerIsNoWorker, ProcsAreNumbers DEF Inv, TypeOK, PcOK, Procs

(* Nothing but the context can move before the first worker is started. *)
LEMMA EarlyIdle ==
    ASSUME Inv, pc[Caller] \in EarlyStates, NEW p \in Workers
    PROVE  pc[p] = "idle"
BY DEF Inv, Phases

(* The page the dispatch loop starts next is a worker that has not run. *)
LEMMA NextIsIdle ==
    ASSUME Inv, pc[Caller] = "select"
    PROVE  page \in Workers /\ pc[page] = "idle"
BY DEF Inv, TypeOK, Phases, EarlyStates, Workers

(* A goroutine inside drain is alone there. *)
LEMMA DrainsAlone ==
    ASSUME Inv, NEW d \in Procs, pc[d] \in DeliverStates
    PROVE  /\ deliverMu = d
           /\ \A e \in Procs : pc[e] \in DeliverStates => e = d
           /\ pc[Caller] \notin EarlyStates \cup {"done"}
BY CallerIsNoWorker DEF Inv, Locking, Phases, EarlyStates, LateStates, Running,
   DeliverStates, FailStates, Procs

(* A page is in ready exactly from its worker's critical section on. *)
LEMMA RecordedStep ==
    ASSUME Inv, Recorded, Next
    PROVE  Recorded'
<1> USE WalkFacts DEF envVars, sharedVars, outVars, Goto, Return, Procs,
        Workers, MaxPages, EarlyStates, DeliverStates, FailStates, Recorded
<1>l. Locking
  BY DEF Inv
<1>1. CASE Start
  BY <1>1, <1>l DEF Start
<1>2. CASE FirstFetched
  BY <1>2, <1>l DEF FirstFetched
<1>3. CASE FirstFetchFails
  BY <1>3, <1>l DEF FirstFetchFails
<1>4. CASE FirstAccepted
  BY <1>4, <1>l, EarlyIdle DEF FirstAccepted
<1>5. CASE FirstRefused
  BY <1>5, <1>l DEF FirstRefused
<1>6. CASE DispatchCheck
  BY <1>6, <1>l DEF DispatchCheck
<1>7. CASE Dispatch
  BY <1>7, <1>l, NextIsIdle DEF Dispatch
<1>8. CASE DispatchStop
  BY <1>8, <1>l DEF DispatchStop
<1>9. CASE WaitDone
  BY <1>9, <1>l DEF WaitDone
<1>10. CASE ReturnResult
  BY <1>10, <1>l DEF ReturnResult
<1>11. ASSUME NEW p \in Workers, WorkerCheck(p) PROVE Recorded'
  BY <1>11, <1>l DEF WorkerCheck, Leave
<1>12. ASSUME NEW p \in Workers, WorkerFetched(p) PROVE Recorded'
  BY <1>12, <1>l DEF WorkerFetched
<1>13. ASSUME NEW p \in Workers, WorkerFetchFails(p) PROVE Recorded'
  BY <1>13, <1>l DEF WorkerFetchFails, Leave, Locking
<1>14. ASSUME NEW p \in Workers, WorkerAdd(p) PROVE Recorded'
  BY <1>14, <1>l DEF WorkerAdd
<1>15. ASSUME NEW p \in Workers, WorkerRecord(p) PROVE Recorded'
  BY <1>15, <1>l, EarlyIdle DEF WorkerRecord
<1>16. ASSUME NEW p \in Workers, WorkerReport(p) PROVE Recorded'
  BY <1>16, <1>l DEF WorkerReport
<1>17. ASSUME NEW d \in Procs, DrainLock(d) PROVE Recorded'
  BY <1>17, <1>l DEF DrainLock, Locking
<1>18. ASSUME NEW d \in Procs, DrainTop(d) PROVE Recorded'
  BY <1>18, <1>l DEF DrainTop
<1>19. ASSUME NEW d \in Procs, DrainPeek(d) PROVE Recorded'
  BY <1>19, <1>l DEF DrainPeek
<1>20. ASSUME NEW d \in Procs, DrainAccepted(d) PROVE Recorded'
  BY <1>20, <1>l DEF DrainAccepted
<1>21. ASSUME NEW d \in Procs, DrainRefused(d) PROVE Recorded'
  BY <1>21, <1>l DEF DrainRefused, Locking
<1>22. ASSUME NEW d \in Procs, DrainUnlock(d) PROVE Recorded'
  BY <1>22, <1>l DEF DrainUnlock, Leave, Locking
<1>23. ASSUME NEW d \in Procs, FailErr(d) PROVE Recorded'
  BY <1>23, <1>l DEF FailErr
<1>24. ASSUME NEW d \in Procs, FailAbort(d) PROVE Recorded'
  BY <1>24, <1>l DEF FailAbort
<1>25. ASSUME NEW d \in Procs, FailCancel(d) PROVE Recorded'
  BY <1>25, <1>l DEF FailCancel, Leave
<1>26. ASSUME NEW e \in ContextErrors, ContextEnds(e) PROVE Recorded'
  BY <1>26, <1>l DEF ContextEnds
<1>q. QED
  BY <1>1, <1>2, <1>3, <1>4, <1>5, <1>6, <1>7, <1>8, <1>9, <1>10, <1>11,
     <1>12, <1>13, <1>14, <1>15, <1>16, <1>17, <1>18, <1>19, <1>20,
     <1>21, <1>22, <1>23, <1>24, <1>25, <1>26
     DEF Next, WalkStep, WalkStart, DispatchLoop, fetchAndRecord, drain, fail

(* Once wg.Wait has returned, no worker moves any more. *)
LEMMA LateStill ==
    ASSUME Inv, pc[Caller] \in LateStates, NEW p \in Workers
    PROVE  pc[p] \in {"idle", "done"}
BY DEF Inv, Phases, Running

(* The page at the frontier stays some worker's business: the worker that    *)
(* records it has its own drain ahead, and one that delivers looks again.    *)
LEMMA FrontierStep ==
    ASSUME Inv, Recorded, Frontier, Next
    PROVE  Frontier'
<1> USE WalkFacts DEF envVars, sharedVars, outVars, Goto, Return, Procs,
        Workers, MaxPages, DeliverStates, FailStates, Frontier, FrontierStates
<1>1. CASE Start
  BY <1>1 DEF Start
<1>2. CASE FirstFetched
  BY <1>2 DEF FirstFetched
<1>3. CASE FirstFetchFails
  BY <1>3 DEF FirstFetchFails
<1>4. CASE FirstAccepted
  <2>1. ready' \subseteq {1} /\ delivered' = 1
    BY <1>4 DEF FirstAccepted, Recorded, EarlyStates
  <2>2. QED
    BY <1>4, <2>1 DEF FirstAccepted
<1>5. CASE FirstRefused
  BY <1>5 DEF FirstRefused
<1>6. CASE DispatchCheck
  BY <1>6 DEF DispatchCheck
<1>7. CASE Dispatch
  BY <1>7, NextIsIdle DEF Dispatch
<1>8. CASE DispatchStop
  BY <1>8 DEF DispatchStop
<1>9. CASE WaitDone
  BY <1>9 DEF WaitDone
<1>10. CASE ReturnResult
  BY <1>10 DEF ReturnResult
<1>11. ASSUME NEW p \in Workers, WorkerCheck(p) PROVE Frontier'
  BY <1>11 DEF WorkerCheck, Leave
<1>12. ASSUME NEW p \in Workers, WorkerFetched(p) PROVE Frontier'
  BY <1>12 DEF WorkerFetched
<1>13. ASSUME NEW p \in Workers, WorkerFetchFails(p) PROVE Frontier'
  BY <1>13 DEF WorkerFetchFails, Leave
<1>14. ASSUME NEW p \in Workers, WorkerAdd(p) PROVE Frontier'
  BY <1>14 DEF WorkerAdd
<1>15. ASSUME NEW p \in Workers, WorkerRecord(p) PROVE Frontier'
  BY <1>15 DEF WorkerRecord
<1>16. ASSUME NEW p \in Workers, WorkerReport(p) PROVE Frontier'
  BY <1>16 DEF WorkerReport
<1>17. ASSUME NEW d \in Procs, DrainLock(d) PROVE Frontier'
  BY <1>17 DEF DrainLock
<1>18. ASSUME NEW d \in Procs, DrainTop(d) PROVE Frontier'
  <2>1. pc[d] = "top" /\ pc' = [pc EXCEPT ![d] = IF MoreToDeliver THEN "peek" ELSE "unlock"]
    BY <1>18 DEF DrainTop
  <2>2. delivered' = delivered /\ ready' = ready /\ aborted' = aborted /\ opts' = opts
    BY <1>18 DEF DrainTop
  <2>3. CASE MoreToDeliver
    BY <2>1, <2>2, <2>3 DEF MoreToDeliver
  <2>4. CASE ~MoreToDeliver /\ ~aborted
    <3>1. delivered >= MaxPages
      BY <2>4 DEF MoreToDeliver
    <3>2. delivered + 1 \in ready => delivered = 0
      BY <3>1 DEF Caller
    <3>3. delivered = 0 => d \notin Workers
      BY <3>1
    <3>4. QED
      BY <2>1, <2>2, <2>4, <3>2, <3>3
  <2>5. CASE aborted
    BY <2>1, <2>2, <2>5 DEF MoreToDeliver
  <2>6. QED
    BY <2>3, <2>4, <2>5
<1>19. ASSUME NEW d \in Procs, DrainPeek(d) PROVE Frontier'
  <2>1. d = Caller => delivered + 1 \notin ready
    BY <1>19, LateStill DEF DrainPeek, LateStates
  <2>2. QED
    BY <1>19, <2>1 DEF DrainPeek
<1>20. ASSUME NEW d \in Procs, DrainAccepted(d) PROVE Frontier'
  BY <1>20 DEF DrainAccepted
<1>21. ASSUME NEW d \in Procs, DrainRefused(d) PROVE Frontier'
  BY <1>21 DEF DrainRefused
<1>22. ASSUME NEW d \in Procs, DrainUnlock(d) PROVE Frontier'
  BY <1>22 DEF DrainUnlock, Leave
<1>23. ASSUME NEW d \in Procs, FailErr(d) PROVE Frontier'
  BY <1>23 DEF FailErr
<1>24. ASSUME NEW d \in Procs, FailAbort(d) PROVE Frontier'
  BY <1>24, LateStill DEF FailAbort, LateStates
<1>25. ASSUME NEW d \in Procs, FailCancel(d) PROVE Frontier'
  BY <1>25 DEF FailCancel, Leave
<1>26. ASSUME NEW e \in ContextErrors, ContextEnds(e) PROVE Frontier'
  BY <1>26 DEF ContextEnds
<1>q. QED
  BY <1>1, <1>2, <1>3, <1>4, <1>5, <1>6, <1>7, <1>8, <1>9, <1>10, <1>11,
     <1>12, <1>13, <1>14, <1>15, <1>16, <1>17, <1>18, <1>19, <1>20,
     <1>21, <1>22, <1>23, <1>24, <1>25, <1>26
     DEF Next, WalkStep, WalkStart, DispatchLoop, fetchAndRecord, drain, fail


(* The walk's context ends with the caller's, after a failure, or on return; *)
(* only a short page is remembered as one.                                   *)
LEMMA StoppedStep ==
    ASSUME Inv, Stopped, Next
    PROVE  Stopped'
<1> USE WalkFacts DEF envVars, sharedVars, outVars, Goto, Return, Procs,
        Workers, MaxPages, Stopped, Returned, Short, PageLen, PerPage
<1>1. CASE Start
  BY <1>1 DEF Start
<1>2. CASE FirstFetched
  BY <1>2 DEF FirstFetched
<1>3. CASE FirstFetchFails
  BY <1>3 DEF FirstFetchFails
<1>4. CASE FirstAccepted
  BY <1>4 DEF FirstAccepted
<1>5. CASE FirstRefused
  BY <1>5 DEF FirstRefused
<1>6. CASE DispatchCheck
  BY <1>6 DEF DispatchCheck
<1>7. CASE Dispatch
  BY <1>7, NextIsIdle DEF Dispatch
<1>8. CASE DispatchStop
  BY <1>8 DEF DispatchStop
<1>9. CASE WaitDone
  BY <1>9 DEF WaitDone
<1>10. CASE ReturnResult
  BY <1>10 DEF ReturnResult
<1>11. ASSUME NEW p \in Workers, WorkerCheck(p) PROVE Stopped'
  BY <1>11 DEF WorkerCheck, Leave
<1>12. ASSUME NEW p \in Workers, WorkerFetched(p) PROVE Stopped'
  BY <1>12 DEF WorkerFetched
<1>13. ASSUME NEW p \in Workers, WorkerFetchFails(p) PROVE Stopped'
  BY <1>13 DEF WorkerFetchFails, Leave
<1>14. ASSUME NEW p \in Workers, WorkerAdd(p) PROVE Stopped'
  BY <1>14 DEF WorkerAdd
<1>15. ASSUME NEW p \in Workers, WorkerRecord(p) PROVE Stopped'
  BY <1>15 DEF WorkerRecord
<1>16. ASSUME NEW p \in Workers, WorkerReport(p) PROVE Stopped'
  BY <1>16 DEF WorkerReport
<1>17. ASSUME NEW d \in Procs, DrainLock(d) PROVE Stopped'
  BY <1>17 DEF DrainLock
<1>18. ASSUME NEW d \in Procs, DrainTop(d) PROVE Stopped'
  BY <1>18 DEF DrainTop
<1>19. ASSUME NEW d \in Procs, DrainPeek(d) PROVE Stopped'
  BY <1>19 DEF DrainPeek
<1>20. ASSUME NEW d \in Procs, DrainAccepted(d) PROVE Stopped'
  BY <1>20 DEF DrainAccepted
<1>21. ASSUME NEW d \in Procs, DrainRefused(d) PROVE Stopped'
  BY <1>21 DEF DrainRefused
<1>22. ASSUME NEW d \in Procs, DrainUnlock(d) PROVE Stopped'
  BY <1>22 DEF DrainUnlock, Leave
<1>23. ASSUME NEW d \in Procs, FailErr(d) PROVE Stopped'
  BY <1>23 DEF FailErr
<1>24. ASSUME NEW d \in Procs, FailAbort(d) PROVE Stopped'
  BY <1>24 DEF FailAbort
<1>25. ASSUME NEW d \in Procs, FailCancel(d) PROVE Stopped'
  BY <1>25 DEF FailCancel, Leave
<1>26. ASSUME NEW e \in ContextErrors, ContextEnds(e) PROVE Stopped'
  BY <1>26 DEF ContextEnds
<1>q. QED
  BY <1>1, <1>2, <1>3, <1>4, <1>5, <1>6, <1>7, <1>8, <1>9, <1>10, <1>11,
     <1>12, <1>13, <1>14, <1>15, <1>16, <1>17, <1>18, <1>19, <1>20,
     <1>21, <1>22, <1>23, <1>24, <1>25, <1>26
     DEF Next, WalkStep, WalkStart, DispatchLoop, fetchAndRecord, drain, fail

(* A page that is skipped, or never dispatched, has a reason not to be read. *)
LEMMA CoverageStep ==
    ASSUME Inv, Recorded, Stopped, Coverage, Next
    PROVE  Coverage'
<1> USE WalkFacts DEF envVars, sharedVars, outVars, Goto, Return, Procs,
        Workers, MaxPages, DeliverStates, FailStates, DrainPhase, EarlyStates,
        Coverage, Covered
<1>1. CASE Start
  BY <1>1 DEF Start
<1>2. CASE FirstFetched
  BY <1>2 DEF FirstFetched
<1>3. CASE FirstFetchFails
  BY <1>3 DEF FirstFetchFails
<1>4. CASE FirstAccepted
  <2>1. pc[Caller] = "firstCall" /\ page = 2 /\ page' = page /\ delivered' = 1
    BY <1>4 DEF FirstAccepted
  <2>2. \A p \in Workers : pc'[p] = "idle"
    BY <1>4, EarlyIdle DEF FirstAccepted
  <2>3. opts' = opts /\ pc'[Caller] \in {"loop", "done"}
    BY <1>4 DEF FirstAccepted
  <2>4. QED
    BY <2>1, <2>2, <2>3
<1>5. CASE FirstRefused
  BY <1>5 DEF FirstRefused
<1>6. CASE DispatchCheck
  BY <1>6 DEF DispatchCheck, Phases, Inv
<1>7. CASE Dispatch
  BY <1>7, NextIsIdle DEF Dispatch
<1>8. CASE DispatchStop
  BY <1>8 DEF DispatchStop, Stopped, Returned
<1>9. CASE WaitDone
  BY <1>9 DEF WaitDone
<1>10. CASE ReturnResult
  BY <1>10 DEF ReturnResult
<1>11. ASSUME NEW p \in Workers, WorkerCheck(p) PROVE Coverage'
  BY <1>11, LateStill DEF WorkerCheck, Leave, LateStates, Stopped, Returned, shouldSkip
<1>12. ASSUME NEW p \in Workers, WorkerFetched(p) PROVE Coverage'
  BY <1>12 DEF WorkerFetched
<1>13. ASSUME NEW p \in Workers, WorkerFetchFails(p) PROVE Coverage'
  BY <1>13, LateStill DEF WorkerFetchFails, Leave, LateStates, Stopped, Returned, ContextErrors
<1>14. ASSUME NEW p \in Workers, WorkerAdd(p) PROVE Coverage'
  BY <1>14 DEF WorkerAdd
<1>15. ASSUME NEW p \in Workers, WorkerRecord(p) PROVE Coverage'
  BY <1>15 DEF WorkerRecord
<1>16. ASSUME NEW p \in Workers, WorkerReport(p) PROVE Coverage'
  BY <1>16 DEF WorkerReport
<1>17. ASSUME NEW d \in Procs, DrainLock(d) PROVE Coverage'
  BY <1>17 DEF DrainLock
<1>18. ASSUME NEW d \in Procs, DrainTop(d) PROVE Coverage'
  BY <1>18 DEF DrainTop
<1>19. ASSUME NEW d \in Procs, DrainPeek(d) PROVE Coverage'
  BY <1>19 DEF DrainPeek
<1>20. ASSUME NEW d \in Procs, DrainAccepted(d) PROVE Coverage'
  BY <1>20 DEF DrainAccepted
<1>21. ASSUME NEW d \in Procs, DrainRefused(d) PROVE Coverage'
  BY <1>21 DEF DrainRefused
<1>22. ASSUME NEW d \in Procs, DrainUnlock(d) PROVE Coverage'
  BY <1>22 DEF DrainUnlock, Leave, Recorded
<1>23. ASSUME NEW d \in Procs, FailErr(d) PROVE Coverage'
  BY <1>23 DEF FailErr
<1>24. ASSUME NEW d \in Procs, FailAbort(d) PROVE Coverage'
  BY <1>24 DEF FailAbort
<1>25. ASSUME NEW d \in Procs, FailCancel(d) PROVE Coverage'
  BY <1>25 DEF FailCancel, Leave, Stopped
<1>26. ASSUME NEW e \in ContextErrors, ContextEnds(e) PROVE Coverage'
  BY <1>26 DEF ContextEnds
<1>q. QED
  BY <1>1, <1>2, <1>3, <1>4, <1>5, <1>6, <1>7, <1>8, <1>9, <1>10, <1>11,
     <1>12, <1>13, <1>14, <1>15, <1>16, <1>17, <1>18, <1>19, <1>20,
     <1>21, <1>22, <1>23, <1>24, <1>25, <1>26
     DEF Next, WalkStep, WalkStart, DispatchLoop, fetchAndRecord, drain, fail

(* The first error is the one of the call that failed, and the page it names *)
(* stays the last one handed over, or one that is never recorded.            *)
LEMMA BlameStep ==
    ASSUME Inv, Recorded, Frontier, Blame, Next
    PROVE  Blame'
<1> USE WalkFacts DEF envVars, sharedVars, outVars, Goto, Return, Procs,
        Workers, MaxPages, EarlyStates, Blame
<1>d. Delivery /\ Locking
  BY DEF Inv
<1>e. firstErr \in [kind : {"nil", "fetch", "callback"}, page : Nat]
  BY DEF Inv, TypeOK
<1>1. CASE Start
  BY <1>1, <1>d, <1>e DEF Start
<1>2. CASE FirstFetched
  BY <1>2, <1>d, <1>e, EarlyIdle DEF FirstFetched
<1>3. CASE FirstFetchFails
  BY <1>3, <1>d, <1>e DEF FirstFetchFails
<1>4. CASE FirstAccepted
  BY <1>4, <1>d, <1>e, EarlyIdle DEF FirstAccepted
<1>5. CASE FirstRefused
  BY <1>5, <1>d, <1>e DEF FirstRefused
<1>6. CASE DispatchCheck
  BY <1>6, <1>d, <1>e DEF DispatchCheck
<1>7. CASE Dispatch
  BY <1>7, <1>d, <1>e, NextIsIdle DEF Dispatch
<1>8. CASE DispatchStop
  BY <1>8, <1>d, <1>e DEF DispatchStop
<1>9. CASE WaitDone
  BY <1>9, <1>d, <1>e DEF WaitDone
<1>10. CASE ReturnResult
  BY <1>10, <1>d, <1>e DEF ReturnResult
<1>11. ASSUME NEW p \in Workers, WorkerCheck(p) PROVE Blame'
  BY <1>11, <1>d, <1>e DEF WorkerCheck, Leave
<1>12. ASSUME NEW p \in Workers, WorkerFetched(p) PROVE Blame'
  BY <1>12, <1>d, <1>e DEF WorkerFetched
<1>13. ASSUME NEW p \in Workers, WorkerFetchFails(p) PROVE Blame'
  BY <1>13, <1>d, <1>e DEF WorkerFetchFails, Leave, Locking, DeliverStates, FailStates
<1>14. ASSUME NEW p \in Workers, WorkerAdd(p) PROVE Blame'
  BY <1>14, <1>d, <1>e DEF WorkerAdd
<1>15. ASSUME NEW p \in Workers, WorkerRecord(p) PROVE Blame'
  BY <1>15, <1>d, <1>e DEF WorkerRecord
<1>16. ASSUME NEW p \in Workers, WorkerReport(p) PROVE Blame'
  BY <1>16, <1>d, <1>e DEF WorkerReport
<1>17. ASSUME NEW d \in Procs, DrainLock(d) PROVE Blame'
  BY <1>17, <1>d, <1>e DEF DrainLock
<1>18. ASSUME NEW d \in Procs, DrainTop(d) PROVE Blame'
  BY <1>18, <1>d, <1>e DEF DrainTop
<1>19. ASSUME NEW d \in Procs, DrainPeek(d) PROVE Blame'
  <2>1. firstErr.kind # "callback" /\ Len(output) = delivered
    BY <1>19, <1>d DEF DrainPeek, Delivery
  <2>2. UNCHANGED <<firstErr, delivered, ready, deliverMu, opts, result>>
    BY <1>19 DEF DrainPeek
  <2>3. pc[d] = "peek" /\ \E label \in {"call", "unlock"} : Goto(d, label)
    BY <1>19 DEF DrainPeek
  <2>4. ASSUME NEW e \in Procs, pc[e] = "failErr", deliverMu = e PROVE FALSE
    BY <2>3, <2>4, <1>d DEF Locking, DeliverStates
  <2>5. QED
    BY <2>1, <2>2, <2>3, <2>4, <1>e
<1>20. ASSUME NEW d \in Procs, DrainAccepted(d) PROVE Blame'
  <2>1. firstErr.kind # "callback"
    BY <1>20 DEF DrainAccepted
  <2>2. UNCHANGED <<firstErr, output, ready, deliverMu, opts, result>>
    BY <1>20 DEF DrainAccepted
  <2>3. pc[d] = "call" /\ Goto(d, "top")
    BY <1>20 DEF DrainAccepted
  <2>4. ASSUME NEW e \in Procs, pc[e] = "failErr", deliverMu = e PROVE FALSE
    BY <2>3, <2>4, <1>d DEF Locking, DeliverStates
  <2>5. QED
    BY <2>1, <2>2, <2>3, <2>4, <1>e
<1>21. ASSUME NEW d \in Procs, DrainRefused(d) PROVE Blame'
  BY <1>21, <1>d, <1>e DEF DrainRefused, Delivery
<1>22. ASSUME NEW d \in Procs, DrainUnlock(d) PROVE Blame'
  BY <1>22, <1>d, <1>e DEF DrainUnlock, Leave
<1>23. ASSUME NEW d \in Procs, FailErr(d) PROVE Blame'
  <2>1. UNCHANGED <<output, delivered, ready, deliverMu, opts, result>>
    BY <1>23 DEF FailErr
  <2>2. pc[d] = "failErr" /\ Goto(d, "failAbort")
    BY <1>23 DEF FailErr
  <2>3. d \in Workers /\ pc[Caller] \notin EarlyStates
    BY <2>2, EarlyIdle DEF Frontier, FailStates
  <2>4. CASE firstErr # nil
    BY <1>23, <2>1, <2>2, <2>3, <2>4, <1>e DEF FailErr
  <2>5. CASE firstErr = nil /\ deliverMu = d
    <3>1. firstErr' = [kind |-> "callback", page |-> delivered + 1]
      BY <1>23, <2>5 DEF FailErr, Failure, Err
    <3>2. Len(output) = delivered + 1
      BY <2>2, <2>5
    <3>3. \A e \in Procs : pc[e] # "call"
      BY <1>d, <2>2, <2>5 DEF Locking, DeliverStates
    <3>4. QED
      BY <2>1, <2>2, <2>3, <3>1, <3>2, <3>3
  <2>6. CASE firstErr = nil /\ deliverMu # d
    <3>1. firstErr' = [kind |-> "fetch", page |-> d]
      BY <1>23, <2>6 DEF FailErr, Failure, Err
    <3>2. d \notin ready
      BY <2>2, <2>3, <2>6 DEF Recorded, FailStates
    <3>3. QED
      BY <2>1, <2>2, <2>3, <2>6, <3>1, <3>2
  <2>7. QED
    BY <2>4, <2>5, <2>6
<1>24. ASSUME NEW d \in Procs, FailAbort(d) PROVE Blame'
  BY <1>24, <1>d, <1>e DEF FailAbort
<1>25. ASSUME NEW d \in Procs, FailCancel(d) PROVE Blame'
  BY <1>25, <1>d, <1>e DEF FailCancel, Leave
<1>26. ASSUME NEW e \in ContextErrors, ContextEnds(e) PROVE Blame'
  BY <1>26, <1>d, <1>e DEF ContextEnds
<1>q. QED
  BY <1>1, <1>2, <1>3, <1>4, <1>5, <1>6, <1>7, <1>8, <1>9, <1>10, <1>11,
     <1>12, <1>13, <1>14, <1>15, <1>16, <1>17, <1>18, <1>19, <1>20,
     <1>21, <1>22, <1>23, <1>24, <1>25, <1>26
     DEF Next, WalkStep, WalkStart, DispatchLoop, fetchAndRecord, drain, fail

(* Beyond a short page the collection has no items. *)
LEMMA AfterShort ==
    ASSUME TypeOK, NEW s \in Int, NEW p \in Int, Short(s), s < p
    PROVE  PageLen(p) = 0
<1>1. /\ collection.full \in Nat /\ collection.rest \in Nat
      /\ PerPage \in Nat /\ collection.rest < PerPage
  BY OptionsAssumption, CollectionsAssumption
     DEF TypeOK, PerPage, defaultPerPage
<1>2. s > collection.full
  BY <1>1 DEF Short, PageLen
<1>3. QED
  BY <1>1, <1>2 DEF PageLen

(* When the caller has drained, every page with items has been handed over, *)
(* unless the walk failed or its caller's context has ended.                *)
LEMMA AllHandedOver ==
    ASSUME Inv, Recorded, Frontier, Stopped, Coverage, pc[Caller] = "return",
           ~aborted, ctx = "live",
           NEW p \in 1 .. MaxPages, PageLen(p) > 0
    PROVE  p <= delivered
<1> USE WalkFacts
<1>1. delivered >= 1
  BY DEF Coverage, DrainPhase
<1>2. \A w \in Workers : pc[w] \in {"idle", "done"}
  BY LateStill DEF LateStates
<1>3. delivered + 1 \notin ready
  BY <1>2 DEF Frontier, FrontierStates
<1>4. ASSUME p > delivered PROVE FALSE
  <2>1. delivered + 1 \in Workers
    BY <1>1, <1>4 DEF Workers
  <2>2. Covered(delivered + 1)
    BY <1>2, <2>1 DEF Coverage, DrainPhase
  <2>3. shortPage # 0 /\ shortPage < delivered + 1
    BY <1>3, <2>1, <2>2 DEF Covered
  <2>4. Short(shortPage) /\ shortPage \in Int /\ shortPage < p
    BY <1>4, <2>3 DEF Stopped
  <2>5. PageLen(p) = 0
    BY <2>4, AfterShort DEF Inv
  <2>6. QED
    BY <2>5
<1>5. QED
  BY <1>4

(* A walk that has returned takes no further step: no worker is left, and   *)
(* the caller's context no longer matters to it.                            *)
LEMMA ReturnedIsLast ==
    ASSUME Inv, Next
    PROVE  ~Returned
<1> USE WalkFacts, LateStill DEF Returned, LateStates, Procs
<1>1. \/ WalkStart \/ DispatchLoop \/ \E p \in Workers : fetchAndRecord(p)
      => pc[Caller] # "done"
  BY DEF WalkStart, Start, FirstFetched, FirstFetchFails, FirstAccepted,
     FirstRefused, DispatchLoop, DispatchCheck, Dispatch, DispatchStop,
     WaitDone, ReturnResult, fetchAndRecord, WorkerCheck, WorkerFetched,
     WorkerFetchFails, WorkerAdd, WorkerRecord, WorkerReport
<1>2. ASSUME NEW d \in Procs, drain(d) \/ fail(d) PROVE pc[Caller] # "done"
  BY <1>2 DEF drain, DrainLock, DrainTop, DrainPeek, DrainAccepted,
     DrainRefused, DrainUnlock, fail, FailErr, FailAbort, FailCancel
<1>3. ASSUME NEW e \in ContextErrors, ContextEnds(e) PROVE pc[Caller] # "done"
  BY <1>3 DEF ContextEnds
<1>4. QED
  BY <1>1, <1>2, <1>3 DEF Next, WalkStep

(* The steps that return. *)
LEMMA ReturnSteps ==
    ASSUME Inv, Next, Returned'
    PROVE  Start \/ FirstFetchFails \/ FirstAccepted \/ FirstRefused \/ ReturnResult
<1> USE WalkFacts, ReturnedIsLast DEF Returned, Goto, Procs
<1>1. ASSUME FirstFetched \/ DispatchCheck \/ DispatchStop \/ WaitDone
      PROVE  FALSE
  BY <1>1 DEF FirstFetched, DispatchCheck, DispatchStop, WaitDone
<1>2. ASSUME Dispatch PROVE FALSE
  BY <1>2, NextIsIdle DEF Dispatch
<1>3. ASSUME NEW p \in Workers, fetchAndRecord(p) PROVE FALSE
  BY <1>3 DEF fetchAndRecord, WorkerCheck, WorkerFetched, WorkerFetchFails,
     WorkerAdd, WorkerRecord, WorkerReport, Leave
<1>4. ASSUME NEW d \in Procs, drain(d) PROVE FALSE
  BY <1>4 DEF drain, DrainLock, DrainTop, DrainPeek, DrainAccepted,
     DrainRefused, DrainUnlock, Leave
<1>5. ASSUME NEW d \in Procs, fail(d) PROVE FALSE
  BY <1>5 DEF fail, FailErr, FailAbort, FailCancel, Leave
<1>6. ASSUME NEW e \in ContextErrors, ContextEnds(e) PROVE FALSE
  BY <1>6 DEF ContextEnds
<1>7. QED
  BY <1>1, <1>2, <1>3, <1>4, <1>5, <1>6
     DEF Next, WalkStep, WalkStart, DispatchLoop

(* What a step that returns has handed over and blames. *)
LEMMA OutcomeStep ==
    ASSUME Inv, Inv', Recorded, Frontier, Stopped, Coverage, Blame, Blame', Next
    PROVE  Outcome'
<1> USE WalkFacts DEF envVars, sharedVars, outVars, Goto, Return
<1>1. (aborted => firstErr # nil)'
  BY DEF Inv, Errors
<1>2. CASE ~Returned'
  BY <1>1, <1>2 DEF Outcome, CompleteOnSuccess, ErrorNamesPage, Blame, Returned,
     nil, Err
<1>3. CASE Returned' /\ (Start \/ FirstFetchFails \/ FirstRefused)
  <2>1. result' # nil
    BY <1>3 DEF Start, FirstFetchFails, FirstRefused, Returned, Err, nil
  <2>2. ready' = {} /\ (FirstRefused => Len(output') = 1)
    BY <1>3 DEF Start, FirstFetchFails, FirstRefused, Recorded, EarlyStates,
       Inv, Delivery
  <2>3. /\ result'.kind = "callback" => result'.page = Len(output')
        /\ result'.kind = "fetch" => result'.page \notin ready'
    <3>1. CASE Start
      BY <1>3, <3>1 DEF Start, Returned, Err
    <3>2. CASE FirstFetchFails
      BY <2>2, <3>2 DEF FirstFetchFails, Err
    <3>3. CASE FirstRefused
      BY <2>2, <3>3 DEF FirstRefused, Err
    <3>4. QED
      BY <1>3, <3>1, <3>2, <3>3
  <2>4. QED
    BY <1>1, <2>1, <2>3 DEF Outcome, CompleteOnSuccess, ErrorNamesPage
<1>4. CASE FirstAccepted /\ Returned'
  <2>1. Short(1) \/ MaxPages = 1
    BY <1>4 DEF FirstAccepted, Returned
  <2>2. result' = nil /\ Len(output') = 1
    BY <1>4, <2>1 DEF FirstAccepted, Inv, Delivery
  <2>3. ASSUME NEW p \in 1 .. MaxPages, PageLen(p) > 0 PROVE p <= 1
    BY <2>1, <2>3, AfterShort DEF Inv
  <2>4. MaxPages' = MaxPages /\ \A p : PageLen(p)' = PageLen(p)
    BY <1>4 DEF FirstAccepted, MaxPages, PageLen, PerPage
  <2>5. CompleteOnSuccess'
    BY <2>2, <2>3, <2>4 DEF CompleteOnSuccess
  <2>6. QED
    BY <1>1, <2>2, <2>5 DEF Outcome, ErrorNamesPage, Err, nil
<1>5. CASE ReturnResult
  <2>1. /\ pc[Caller] = "return" /\ result' = firstErr /\ pc'[Caller] = "done"
        /\ UNCHANGED <<opts, collection, ctx, ready, delivered, output, aborted>>
    BY <1>5 DEF ReturnResult
  <2>2. MaxPages' = MaxPages /\ \A p : PageLen(p)' = PageLen(p)
    BY <2>1 DEF MaxPages, PageLen, PerPage
  <2>3. CompleteOnSuccess'
    <3>1. SUFFICES ASSUME result' = nil, ctx = "live",
                          NEW p \in 1 .. MaxPages, PageLen(p) > 0
                   PROVE  p <= Len(output)
      BY <2>1, <2>2 DEF CompleteOnSuccess
    <3>2. ~aborted
      BY <2>1, <3>1 DEF Inv, Errors
    <3>3. Len(output) = delivered
      <4>1. Delivery'
        BY DEF Inv
      <4>2. QED
        BY <2>1, <3>1, <4>1 DEF Delivery, nil, Err
    <3>4. QED
      BY <2>1, <3>1, <3>2, <3>3, AllHandedOver
  <2>4. /\ result'.kind = "callback" => result'.page = Len(output')
        /\ result'.kind = "fetch" => result'.page \notin ready'
    BY <2>1 DEF Blame
  <2>5. QED
    BY <1>1, <2>3, <2>4 DEF Outcome, ErrorNamesPage
<1>6. QED
  BY <1>2, <1>3, <1>4, <1>5, ReturnSteps

-----------------------------------------------------------------------------
(* Both layers together hold in every reachable state. *)
LEMMA WalkInvariance == Spec => [](Inv /\ WalkInv)
<1>1. Init => WalkInv
  BY DEF Init, WalkInv, Recorded, Frontier, Stopped, Coverage, Blame, Outcome,
     EarlyStates, FrontierStates, DrainPhase, DeliverStates, FailStates,
     Returned, CompleteOnSuccess, ErrorNamesPage, Procs, Workers, Caller, nil, Err
<1>2. ASSUME Inv, WalkInv, [Next]_vars PROVE Inv' /\ WalkInv'
  <2>1. Inv'
    BY <1>2, InvStep
  <2>2. CASE Next
    <3>1. Recorded' /\ Frontier' /\ Stopped' /\ Coverage'
      BY <1>2, <2>2, RecordedStep, FrontierStep, StoppedStep, CoverageStep
         DEF WalkInv
    <3>2. Blame'
      BY <1>2, <2>2, BlameStep DEF WalkInv
    <3>3. Outcome'
      BY <1>2, <2>1, <2>2, <3>2, OutcomeStep DEF WalkInv
    <3>4. QED
      BY <2>1, <3>1, <3>2, <3>3 DEF WalkInv
  <2>3. CASE UNCHANGED vars
    BY <1>2, <2>1, <2>3 DEF vars, WalkInv, Recorded, Frontier, Stopped, Coverage,
       Covered, Blame, Outcome, Returned, CompleteOnSuccess, ErrorNamesPage,
       Procs, Workers, MaxPages, Short, PageLen, PerPage
  <2>4. QED
    BY <1>2, <2>2, <2>3
<1>3. QED
  BY <1>1, <1>2, InvInit, PTL DEF Spec

(* No recorded page is left at the delivery frontier when the last worker    *)
(* has finished, for any number of workers and any order of their steps:     *)
(* the drain after wg.Wait has nothing to hand over unless a page is missing.*)
THEOREM NoneStranded == Spec => []NoPageStranded
<1>1. Frontier => NoPageStranded
  BY DEF Frontier, FrontierStates, NoPageStranded, Running
<1>2. QED
  BY <1>1, WalkInvariance, PTL DEF WalkInv

(* A nil error with the caller's context live means that every page with     *)
(* items, up to MaxPages, has been handed over: a page is skipped only after *)
(* a page before it turned out short.                                        *)
THEOREM SuccessIsComplete == Spec => []CompleteOnSuccess
BY WalkInvariance, PTL DEF WalkInv, Outcome

(* The error walkPages returns names the page that failed, although fail     *)
(* keeps only the first of several concurrent errors.                        *)
THEOREM ErrorIsOfItsPage == Spec => []ErrorNamesPage
BY WalkInvariance, PTL DEF WalkInv, Outcome

-----------------------------------------------------------------------------
(* The third layer: how many items the walk has counted and reported.  It   *)
(* is inductive relative to Inv and WalkInv.                                *)

(* The walk records page 1 before it starts a worker, and hands over only   *)
(* what it has recorded.                                                    *)
Handed ==
    /\ pc[Caller] \in {"first", "firstCall"} => MaxPages >= 1
    /\ pc[Caller] \notin EarlyStates \cup {"done"} => ready # {}
    /\ ready # {} =>
          /\ MaxPages > 1 /\ 1 \in ready /\ Len(output) >= 1
          /\ 1 .. Len(output) \subseteq ready

(* A walk that ends with page 1 has reported that page alone. *)
FirstOnly ==
    pc[Caller] = "firstCall" \/ (Returned /\ result = nil /\ ready = {}) =>
        progress = {[page |-> 1, cumulative |-> PageLen(1)]} /\ Len(output) = 1

(* The pages whose items are in itemsFetched, and the full ones of them. *)
Added     == ready \cup {p \in Workers : pc[p] = "record"}
FullAdded == {p \in Added : p <= collection.full}

Counted ==
    itemsFetched = PerPage * Cardinality(FullAdded)
                   + (IF collection.full + 1 \in Added THEN collection.rest ELSE 0)

(* The workers that have a count still to be reported. *)
Reporting(p) == p \in Workers /\ pc[p] \in {"record", "report"}

(* No count is larger than itemsFetched, and the last one has been reported *)
(* or will be.                                                              *)
Heard ==
    ready # {} =>
        /\ \A r \in progress : r.cumulative <= itemsFetched
        /\ \A p \in Workers : Reporting(p) => cumulative[p] <= itemsFetched
        /\ \/ \E r \in progress : r.cumulative = itemsFetched
           \/ \E p \in Workers : Reporting(p) /\ cumulative[p] = itemsFetched

CountInv == Handed /\ FirstOnly /\ Counted /\ Heard

(* Only page 1, and pages found in ready, are handed over. *)
LEMMA HandedStep ==
    ASSUME Inv, WalkInv, Handed, Next
    PROVE  Handed'
<1> USE WalkFacts DEF envVars, sharedVars, outVars, Goto, Return, Procs,
        Workers, MaxPages, EarlyStates, Handed
<1>d. output \in Seq(Nat) /\ Len(output) \in Nat
  BY DEF Inv, TypeOK
<1>1. CASE Start
  BY <1>1, <1>d DEF Start
<1>2. CASE FirstFetched
  <2>1. ready = {}
    BY <1>2 DEF FirstFetched, WalkInv, Recorded
  <2>2. QED
    BY <1>2, <2>1 DEF FirstFetched
<1>3. CASE FirstFetchFails
  BY <1>3, <1>d DEF FirstFetchFails
<1>4. CASE FirstAccepted
  <2>1. Len(output) = 1
    BY <1>4 DEF FirstAccepted, Inv, Delivery
  <2>2. ready = {}
    BY <1>4 DEF FirstAccepted, WalkInv, Recorded
  <2>3. QED
    BY <1>4, <2>1, <2>2 DEF FirstAccepted
<1>5. CASE FirstRefused
  BY <1>5, <1>d DEF FirstRefused
<1>6. CASE DispatchCheck
  BY <1>6, <1>d DEF DispatchCheck
<1>7. CASE Dispatch
  BY <1>7, <1>d, NextIsIdle DEF Dispatch
<1>8. CASE DispatchStop
  BY <1>8, <1>d DEF DispatchStop
<1>9. CASE WaitDone
  BY <1>9, <1>d DEF WaitDone
<1>10. CASE ReturnResult
  BY <1>10, <1>d DEF ReturnResult
<1>11. ASSUME NEW p \in Workers, WorkerCheck(p) PROVE Handed'
  BY <1>11, <1>d DEF WorkerCheck, Leave
<1>12. ASSUME NEW p \in Workers, WorkerFetched(p) PROVE Handed'
  BY <1>12, <1>d DEF WorkerFetched
<1>13. ASSUME NEW p \in Workers, WorkerFetchFails(p) PROVE Handed'
  BY <1>13, <1>d DEF WorkerFetchFails, Leave
<1>14. ASSUME NEW p \in Workers, WorkerAdd(p) PROVE Handed'
  BY <1>14, <1>d DEF WorkerAdd
<1>15. ASSUME NEW p \in Workers, WorkerRecord(p) PROVE Handed'
  <2>1. pc[Caller] \notin EarlyStates \cup {"done"}
    BY <1>15, EarlyIdle, ReturnedIsLast DEF WorkerRecord, Returned
  <2>2. QED
    BY <1>15, <1>d, <2>1 DEF WorkerRecord
<1>16. ASSUME NEW p \in Workers, WorkerReport(p) PROVE Handed'
  BY <1>16, <1>d DEF WorkerReport
<1>17. ASSUME NEW d \in Procs, DrainLock(d) PROVE Handed'
  BY <1>17, <1>d DEF DrainLock
<1>18. ASSUME NEW d \in Procs, DrainTop(d) PROVE Handed'
  BY <1>18, <1>d DEF DrainTop
<1>19. ASSUME NEW d \in Procs, DrainPeek(d) PROVE Handed'
  <2>1. Len(output) = delivered
    BY <1>19 DEF DrainPeek, Inv, Delivery
  <2>2. /\ delivered + 1 \in ready /\ Len(output') = Len(output) + 1
        \/ Len(output') = Len(output)
    BY <1>19, <1>d, <2>1 DEF DrainPeek
  <2>3. 1 .. Len(output') \subseteq 1 .. Len(output) \cup {Len(output) + 1}
    BY <1>d, <2>2
  <2>4. ready # {} => 1 .. Len(output') \subseteq ready
    BY <1>d, <2>1, <2>2, <2>3
  <2>5. UNCHANGED <<opts, ready>> /\ \E label \in {"call", "unlock"} : Goto(d, label)
    BY <1>19 DEF DrainPeek
  <2>6. pc[Caller] \notin EarlyStates \cup {"done"}
    BY <1>19, EarlyIdle, ReturnedIsLast DEF DrainPeek, Returned
  <2>7. QED
    BY <1>d, <2>2, <2>4, <2>5, <2>6
<1>20. ASSUME NEW d \in Procs, DrainAccepted(d) PROVE Handed'
  BY <1>20, <1>d DEF DrainAccepted
<1>21. ASSUME NEW d \in Procs, DrainRefused(d) PROVE Handed'
  BY <1>21, <1>d DEF DrainRefused
<1>22. ASSUME NEW d \in Procs, DrainUnlock(d) PROVE Handed'
  BY <1>22, <1>d DEF DrainUnlock, Leave
<1>23. ASSUME NEW d \in Procs, FailErr(d) PROVE Handed'
  BY <1>23, <1>d DEF FailErr
<1>24. ASSUME NEW d \in Procs, FailAbort(d) PROVE Handed'
  BY <1>24, <1>d DEF FailAbort
<1>25. ASSUME NEW d \in Procs, FailCancel(d) PROVE Handed'
  BY <1>25, <1>d DEF FailCancel, Leave
<1>26. ASSUME NEW e \in ContextErrors, ContextEnds(e) PROVE Handed'
  BY <1>26, <1>d DEF ContextEnds
<1>q. QED
  BY <1>1, <1>2, <1>3, <1>4, <1>5, <1>6, <1>7, <1>8, <1>9, <1>10, <1>11,
     <1>12, <1>13, <1>14, <1>15, <1>16, <1>17, <1>18, <1>19, <1>20,
     <1>21, <1>22, <1>23, <1>24, <1>25, <1>26
     DEF Next, WalkStep, WalkStart, DispatchLoop, fetchAndRecord, drain, fail

(* Page 1 is fetched and handed over before anything else happens. *)
LEMMA EarlySteps ==
    ASSUME Inv, Next, pc[Caller] = "firstCall" \/ pc'[Caller] = "firstCall"
    PROVE  \/ FirstFetched /\ pc[Caller] = "first"
           \/ /\ FirstAccepted \/ FirstRefused \/ \E e \in ContextErrors : ContextEnds(e)
              /\ pc[Caller] = "firstCall"
<1> USE WalkFacts DEF Goto, Procs
<1>1. ASSUME Start \/ FirstFetchFails \/ DispatchCheck \/ DispatchStop \/ WaitDone
             \/ ReturnResult
      PROVE  FALSE
  BY <1>1 DEF Start, FirstFetchFails, DispatchCheck, DispatchStop, WaitDone,
     ReturnResult, Return
<1>2. ASSUME Dispatch PROVE FALSE
  BY <1>2, NextIsIdle DEF Dispatch
<1>3. ASSUME NEW p \in Workers, fetchAndRecord(p) PROVE FALSE
  BY <1>3, EarlyIdle DEF fetchAndRecord, WorkerCheck, WorkerFetched,
     WorkerFetchFails, WorkerAdd, WorkerRecord, WorkerReport, Leave, EarlyStates
<1>4. ASSUME NEW d \in Procs, drain(d) PROVE FALSE
  BY <1>4, EarlyIdle DEF drain, DrainLock, DrainTop, DrainPeek, DrainAccepted,
     DrainRefused, DrainUnlock, Leave, EarlyStates
<1>5. ASSUME NEW d \in Procs, fail(d) PROVE FALSE
  BY <1>5, EarlyIdle DEF fail, FailErr, FailAbort, FailCancel, Leave, EarlyStates
<1>6. FirstFetched => pc[Caller] = "first"
  BY DEF FirstFetched
<1>7. FirstAccepted \/ FirstRefused => pc[Caller] = "firstCall"
  BY DEF FirstAccepted, FirstRefused
<1>8. ASSUME NEW e \in ContextErrors, ContextEnds(e) PROVE pc[Caller] = "firstCall"
  BY <1>8 DEF ContextEnds
<1>9. QED
  BY <1>1, <1>2, <1>3, <1>4, <1>5, <1>6, <1>7, <1>8
     DEF Next, WalkStep, WalkStart, DispatchLoop

(* Once a worker has been started the walk no longer ends with page 1. *)
LEMMA FirstOnlyStep ==
    ASSUME Inv, WalkInv, Handed, FirstOnly, Next
    PROVE  FirstOnly'
<1> USE WalkFacts, ReturnedIsLast
    DEF envVars, sharedVars, outVars, Goto, Return, Returned
<1>1. CASE Returned'
  <2>1. CASE Start \/ FirstFetchFails \/ FirstRefused
    BY <1>1, <2>1 DEF Start, FirstFetchFails, FirstRefused, FirstOnly, Err, nil
  <2>2. CASE FirstAccepted
    <3>1. /\ progress = {[page |-> 1, cumulative |-> PageLen(1)]} /\ Len(output) = 1
          /\ UNCHANGED <<opts, collection, progress, output>>
      BY <2>2 DEF FirstAccepted, FirstOnly
    <3>2. PageLen(1)' = PageLen(1)
      BY <3>1 DEF PageLen, PerPage
    <3>3. QED
      BY <3>1, <3>2 DEF FirstOnly
  <2>3. CASE ReturnResult
    <3>1. ready' # {}
      BY <2>3 DEF ReturnResult, Handed, EarlyStates
    <3>2. QED
      BY <1>1, <3>1 DEF FirstOnly
  <2>4. QED
    BY <1>1, <2>1, <2>2, <2>3, ReturnSteps
<1>2. CASE pc'[Caller] = "firstCall"
  <2>1. CASE FirstFetched
    <3>1. PageLen(1)' = PageLen(1)
      BY <2>1 DEF FirstFetched, PageLen, PerPage
    <3>2. QED
      BY <2>1, <3>1 DEF FirstFetched, FirstOnly
  <2>2. CASE pc[Caller] = "firstCall" /\ ~FirstFetched
    <3>1. FirstAccepted \/ FirstRefused \/ \E e \in ContextErrors : ContextEnds(e)
      BY <2>2, EarlySteps
    <3>2. \E e \in ContextErrors : ContextEnds(e)
      BY <1>2, <3>1 DEF FirstAccepted, FirstRefused
    <3>3. UNCHANGED <<opts, collection, progress, output>>
      BY <3>2 DEF ContextEnds
    <3>4. PageLen(1)' = PageLen(1)
      BY <3>3 DEF PageLen, PerPage
    <3>5. QED
      BY <2>2, <3>3, <3>4 DEF FirstOnly
  <2>3. QED
    BY <1>2, <2>1, <2>2, EarlySteps
<1>3. QED
  BY <1>1, <1>2 DEF FirstOnly


(* The numbers that the count of the items is made of. *)
LEMMA CountFacts ==
    ASSUME Inv
    PROVE  /\ collection.full \in Nat /\ collection.rest \in Nat
           /\ PerPage \in Nat \ {0} /\ collection.rest < PerPage
           /\ itemsFetched \in Nat
           /\ Added \subseteq Procs
           /\ IsFiniteSet(FullAdded) /\ Cardinality(FullAdded) \in Nat
<1>1. TypeOK
  BY DEF Inv
<1>2. /\ collection.full \in Nat /\ collection.rest \in Nat
      /\ PerPage \in Nat \ {0} /\ collection.rest < PerPage
      /\ itemsFetched \in Nat
  BY <1>1, OptionsAssumption, CollectionsAssumption
     DEF TypeOK, PerPage, defaultPerPage
<1>3. Added \subseteq Procs
  BY WalkFacts DEF Added
<1>4. IsFiniteSet(Procs)
  BY <1>1, ProcsAreNumbers, FS_Singleton, FS_Union DEF Procs
<1>5. IsFiniteSet(FullAdded)
  BY <1>3, <1>4, FS_Subset DEF FullAdded
<1>6. QED
  BY <1>2, <1>3, <1>5, FS_CardinalityType

(* One more page. *)
LEMMA OneMore == \A a, b \in Nat : a * (b + 1) = a * b + a
OBVIOUS

(* The count depends on the set of added pages alone. *)
LEMMA SameCount ==
    ASSUME Counted, UNCHANGED <<opts, collection, itemsFetched>>, Added' = Added
    PROVE  Counted'
<1>1. FullAdded' = FullAdded /\ PerPage' = PerPage
  BY DEF FullAdded, PerPage
<1>2. QED
  BY <1>1 DEF Counted

(* The items of a page are added to itemsFetched once, before the page is   *)
(* recorded, and every added page is recorded.                              *)
LEMMA CountedStep ==
    ASSUME Inv, WalkInv, Counted, Next
    PROVE  Counted'
<1> USE WalkFacts DEF envVars, sharedVars, outVars, Goto, Return, Procs,
        Workers, MaxPages, EarlyStates
<1>1. CASE Start
  BY <1>1, SameCount DEF Start, Added
<1>2. CASE FirstFetched
  BY <1>2, SameCount DEF FirstFetched, Added
<1>3. CASE FirstFetchFails
  BY <1>3, SameCount DEF FirstFetchFails, Added
<1>4. CASE FirstAccepted
  <2>1. ready = {} /\ \A p \in Workers : pc[p] = "idle"
    BY <1>4, EarlyIdle DEF FirstAccepted, WalkInv, Recorded
  <2>2. UNCHANGED <<opts, collection>>
    BY <1>4 DEF FirstAccepted
  <2>3. CASE Short(1) \/ MaxPages = 1
    <3>1. Added' = Added /\ itemsFetched' = itemsFetched
      BY <1>4, <2>3 DEF FirstAccepted, Added
    <3>2. QED
      BY <2>2, <3>1, SameCount
  <2>4. CASE ~(Short(1) \/ MaxPages = 1)
    <3>1. 1 <= collection.full /\ PageLen(1) = PerPage
      BY <2>4, CountFacts DEF Short, PageLen
    <3>2. itemsFetched' = PerPage /\ Added' = {1}
      BY <1>4, <2>1, <2>4, <3>1 DEF FirstAccepted, Added
    <3>3. FullAdded' = {1} /\ collection'.full + 1 \notin Added'
      BY <2>2, <3>1, <3>2, CountFacts DEF FullAdded
    <3>4. Cardinality(FullAdded') = 1
      BY <3>3, FS_Singleton
    <3>5. PerPage' = PerPage
      BY <2>2 DEF PerPage
    <3>6. QED
      BY <3>2, <3>3, <3>4, <3>5, CountFacts DEF Counted
  <2>5. QED
    BY <2>3, <2>4
<1>5. CASE FirstRefused
  BY <1>5, SameCount DEF FirstRefused, Added
<1>6. CASE DispatchCheck
  BY <1>6, SameCount DEF DispatchCheck, Added
<1>7. CASE Dispatch
  BY <1>7, SameCount, NextIsIdle DEF Dispatch, Added
<1>8. CASE DispatchStop
  BY <1>8, SameCount DEF DispatchStop, Added
<1>9. CASE WaitDone
  BY <1>9, SameCount DEF WaitDone, Added
<1>10. CASE ReturnResult
  BY <1>10, SameCount DEF ReturnResult, Added
<1>11. ASSUME NEW p \in Workers, WorkerCheck(p) PROVE Counted'
  BY <1>11, SameCount DEF WorkerCheck, Leave, Added
<1>12. ASSUME NEW p \in Workers, WorkerFetched(p) PROVE Counted'
  BY <1>12, SameCount DEF WorkerFetched, Added
<1>13. ASSUME NEW p \in Workers, WorkerFetchFails(p) PROVE Counted'
  BY <1>13, SameCount DEF WorkerFetchFails, Leave, Added
<1>14. ASSUME NEW p \in Workers, WorkerAdd(p) PROVE Counted'
  <2>1. p \notin Added
    BY <1>14 DEF WorkerAdd, WalkInv, Recorded, Added
  <2>2. Added' = Added \cup {p}
    BY <1>14 DEF WorkerAdd, Added
  <2>3. itemsFetched' = itemsFetched + PageLen(p) /\ UNCHANGED <<opts, collection>>
    BY <1>14 DEF WorkerAdd, AddItems
  <2>4. PerPage' = PerPage
    BY <2>3 DEF PerPage
  <2>5. CASE p <= collection.full
    <3>1. FullAdded' = FullAdded \cup {p} /\ p \notin FullAdded
      BY <2>1, <2>2, <2>3, <2>5 DEF FullAdded
    <3>2. Cardinality(FullAdded') = Cardinality(FullAdded) + 1
      BY <3>1, CountFacts, FS_AddElement
    <3>3. collection.full + 1 \in Added' <=> collection.full + 1 \in Added
      BY <2>2, <2>5, CountFacts
    <3>4. PerPage * Cardinality(FullAdded') = PerPage * Cardinality(FullAdded) + PerPage
      BY <3>2, CountFacts, OneMore
    <3>5. PageLen(p) = PerPage
      BY <2>5 DEF PageLen
    <3> DEFINE m == PerPage * Cardinality(FullAdded)
               x == IF collection.full + 1 \in Added THEN collection.rest ELSE 0
    <3>6. m \in Nat /\ x \in Nat /\ itemsFetched = m + x
      BY CountFacts DEF Counted
    <3>7. itemsFetched' = (m + PerPage) + x
      <4> HIDE DEF m, x
      <4> QED
        BY <2>3, <3>5, <3>6, CountFacts
    <3>8. QED
      BY <2>3, <2>4, <3>3, <3>4, <3>7 DEF Counted
  <2>6. CASE p > collection.full
    <3>1. FullAdded' = FullAdded
      BY <2>2, <2>3, <2>6, CountFacts DEF FullAdded
    <3> DEFINE m == PerPage * Cardinality(FullAdded)
    <3>2. m \in Nat
      BY CountFacts
    <3>3. itemsFetched = m + (IF collection.full + 1 \in Added THEN collection.rest ELSE 0)
      BY DEF Counted
    <3>4. PageLen(p) = IF p = collection.full + 1 THEN collection.rest ELSE 0
      BY <2>6, CountFacts DEF PageLen
    <3>5. itemsFetched' = m + (IF collection.full + 1 \in Added' THEN collection.rest ELSE 0)
      <4> HIDE DEF m
      <4> QED
        BY <2>1, <2>2, <2>3, <3>2, <3>3, <3>4, CountFacts
    <3>6. QED
      BY <2>3, <2>4, <3>1, <3>5 DEF Counted
  <2>7. QED
    BY <2>5, <2>6, CountFacts
<1>15. ASSUME NEW p \in Workers, WorkerRecord(p) PROVE Counted'
  BY <1>15, SameCount DEF WorkerRecord, Added
<1>16. ASSUME NEW p \in Workers, WorkerReport(p) PROVE Counted'
  BY <1>16, SameCount DEF WorkerReport, Added
<1>17. ASSUME NEW d \in Procs, DrainLock(d) PROVE Counted'
  BY <1>17, SameCount DEF DrainLock, Added
<1>18. ASSUME NEW d \in Procs, DrainTop(d) PROVE Counted'
  BY <1>18, SameCount DEF DrainTop, Added
<1>19. ASSUME NEW d \in Procs, DrainPeek(d) PROVE Counted'
  BY <1>19, SameCount DEF DrainPeek, Added
<1>20. ASSUME NEW d \in Procs, DrainAccepted(d) PROVE Counted'
  BY <1>20, SameCount DEF DrainAccepted, Added
<1>21. ASSUME NEW d \in Procs, DrainRefused(d) PROVE Counted'
  BY <1>21, SameCount DEF DrainRefused, Added
<1>22. ASSUME NEW d \in Procs, DrainUnlock(d) PROVE Counted'
  BY <1>22, SameCount DEF DrainUnlock, Leave, Added
<1>23. ASSUME NEW d \in Procs, FailErr(d) PROVE Counted'
  BY <1>23, SameCount DEF FailErr, Added
<1>24. ASSUME NEW d \in Procs, FailAbort(d) PROVE Counted'
  BY <1>24, SameCount DEF FailAbort, Added
<1>25. ASSUME NEW d \in Procs, FailCancel(d) PROVE Counted'
  BY <1>25, SameCount DEF FailCancel, Leave, Added
<1>26. ASSUME NEW e \in ContextErrors, ContextEnds(e) PROVE Counted'
  BY <1>26, SameCount DEF ContextEnds, Added
<1>q. QED
  BY <1>1, <1>2, <1>3, <1>4, <1>5, <1>6, <1>7, <1>8, <1>9, <1>10, <1>11,
     <1>12, <1>13, <1>14, <1>15, <1>16, <1>17, <1>18, <1>19, <1>20,
     <1>21, <1>22, <1>23, <1>24, <1>25, <1>26
     DEF Next, WalkStep, WalkStart, DispatchLoop, fetchAndRecord, drain, fail

(* Every count that is added is reported, and none is larger than the last. *)
LEMMA HeardStep ==
    ASSUME Inv, WalkInv, Handed, FirstOnly, Heard, Next
    PROVE  Heard'
<1> USE WalkFacts, CountFacts DEF envVars, sharedVars, outVars, Goto, Return,
        Procs, Workers, MaxPages, EarlyStates
<1>c. /\ cumulative \in [Procs -> Nat]
      /\ \A r \in progress : r.cumulative \in Nat
  BY DEF Inv, TypeOK
<1>1. CASE Start
  BY <1>1, <1>c DEF Start, Heard, Reporting
<1>2. CASE FirstFetched
  <2>1. ready' = {}
    BY <1>2 DEF FirstFetched, WalkInv, Recorded
  <2>2. QED
    BY <2>1 DEF Heard
<1>3. CASE FirstFetchFails
  BY <1>3, <1>c DEF FirstFetchFails, Heard, Reporting
<1>4. CASE FirstAccepted
  <2>1. progress = {[page |-> 1, cumulative |-> PageLen(1)]}
    BY <1>4 DEF FirstAccepted, FirstOnly
  <2>2. ready' = {} \/ itemsFetched' = PageLen(1)
    BY <1>4 DEF FirstAccepted, WalkInv, Recorded
  <2>3. progress' = progress /\ \A p \in Workers : ~Reporting(p)'
    BY <1>4, EarlyIdle DEF FirstAccepted, Reporting
  <2>4. PageLen(1) \in Nat
    BY PageLenIsNat DEF Inv
  <2>5. UNCHANGED opts
    BY <1>4 DEF FirstAccepted
  <2>6. QED
    BY <2>1, <2>2, <2>3, <2>4, <2>5 DEF Heard
<1>5. CASE FirstRefused
  BY <1>5, <1>c DEF FirstRefused, Heard, Reporting
<1>6. CASE DispatchCheck
  BY <1>6, <1>c DEF DispatchCheck, Heard, Reporting
<1>7. CASE Dispatch
  BY <1>7, <1>c, NextIsIdle DEF Dispatch, Heard, Reporting
<1>8. CASE DispatchStop
  BY <1>8, <1>c DEF DispatchStop, Heard, Reporting
<1>9. CASE WaitDone
  BY <1>9, <1>c DEF WaitDone, Heard, Reporting
<1>10. CASE ReturnResult
  BY <1>10, <1>c DEF ReturnResult, Heard, Reporting
<1>11. ASSUME NEW p \in Workers, WorkerCheck(p) PROVE Heard'
  BY <1>11, <1>c DEF WorkerCheck, Leave, Heard, Reporting
<1>12. ASSUME NEW p \in Workers, WorkerFetched(p) PROVE Heard'
  BY <1>12, <1>c DEF WorkerFetched, Heard, Reporting
<1>13. ASSUME NEW p \in Workers, WorkerFetchFails(p) PROVE Heard'
  BY <1>13, <1>c DEF WorkerFetchFails, Leave, Heard, Reporting
<1>14. ASSUME NEW p \in Workers, WorkerAdd(p) PROVE Heard'
  <2>1. PageLen(p) \in Nat
    BY PageLenIsNat DEF Inv
  <2>2. /\ itemsFetched' = itemsFetched + PageLen(p)
        /\ cumulative' = [cumulative EXCEPT ![p] = itemsFetched']
        /\ pc' = [pc EXCEPT ![p] = "record"]
        /\ UNCHANGED <<opts, ready, progress>>
    BY <1>14 DEF WorkerAdd, AddItems
  <2>3. itemsFetched' \in Nat /\ itemsFetched <= itemsFetched'
    BY <2>1, <2>2
  <2>4. Reporting(p)' /\ cumulative'[p] = itemsFetched'
    BY <1>c, <2>2 DEF Reporting
  <2>5. ASSUME ready # {}, NEW w \in Workers, Reporting(w)'
        PROVE  cumulative'[w] <= itemsFetched'
    <3>1. CASE w = p
      BY <2>3, <2>4, <3>1
    <3>2. CASE w # p
      <4>1. Reporting(w) /\ cumulative'[w] = cumulative[w]
        BY <1>c, <2>2, <2>5, <3>2 DEF Reporting
      <4>2. cumulative[w] <= itemsFetched /\ cumulative[w] \in Nat
        BY <1>c, <2>5, <4>1 DEF Heard
      <4>3. QED
        BY <2>3, <4>1, <4>2
    <3>3. QED
      BY <3>1, <3>2
  <2>6. ASSUME ready # {}, NEW r \in progress PROVE r.cumulative <= itemsFetched'
    BY <1>c, <2>3, <2>6 DEF Heard
  <2>7. Workers' = Workers
    BY <2>2
  <2>8. QED
    BY <2>2, <2>4, <2>5, <2>6, <2>7 DEF Heard
<1>15. ASSUME NEW p \in Workers, WorkerRecord(p) PROVE Heard'
  <2>1. ready # {}
    BY <1>15, EarlyIdle, ReturnedIsLast DEF WorkerRecord, Returned, Handed
  <2>2. UNCHANGED <<opts, itemsFetched, cumulative, progress>>
    BY <1>15 DEF WorkerRecord
  <2>3. \A w \in Workers : Reporting(w)' <=> Reporting(w)
    BY <1>15 DEF WorkerRecord, Reporting
  <2>4. Workers' = Workers
    BY <2>2
  <2>5. QED
    BY <2>1, <2>2, <2>3, <2>4 DEF Heard
<1>16. ASSUME NEW p \in Workers, WorkerReport(p) PROVE Heard'
  <2>1. /\ progress' = progress \cup {[page |-> p, cumulative |-> cumulative[p]]}
        /\ cumulative' = [cumulative EXCEPT ![p] = 0]
        /\ pc[p] = "report" /\ pc' = [pc EXCEPT ![p] = "lock"]
        /\ UNCHANGED <<opts, ready, itemsFetched>>
    BY <1>16 DEF WorkerReport
  <2>2. Reporting(p) /\ Workers' = Workers
    BY <2>1 DEF Reporting
  <2>3. ~Reporting(p)' /\ \A w \in Workers : w # p =>
            (Reporting(w)' <=> Reporting(w)) /\ cumulative'[w] = cumulative[w]
    BY <1>c, <2>1 DEF Reporting
  <2>4. ASSUME ready # {} PROVE \A r \in progress' : r.cumulative <= itemsFetched
    BY <2>1, <2>2, <2>4 DEF Heard
  <2>5. ASSUME ready # {}, NEW w \in Workers, Reporting(w)'
        PROVE  cumulative'[w] <= itemsFetched
    BY <2>3, <2>5 DEF Heard
  <2>6. ASSUME ready # {}
        PROVE  \/ \E r \in progress' : r.cumulative = itemsFetched
               \/ \E w \in Workers : Reporting(w)' /\ cumulative'[w] = itemsFetched
    <3>1. CASE \E r \in progress : r.cumulative = itemsFetched
      BY <2>1, <3>1
    <3>2. CASE cumulative[p] = itemsFetched
      <4>1. [page |-> p, cumulative |-> cumulative[p]].cumulative = itemsFetched
        BY <3>2
      <4>2. QED
        BY <2>1, <4>1
    <3>3. CASE \E w \in Workers : w # p /\ Reporting(w) /\ cumulative[w] = itemsFetched
      BY <2>3, <3>3
    <3>4. QED
      BY <2>6, <3>1, <3>2, <3>3 DEF Heard
  <2>7. QED
    BY <2>1, <2>2, <2>4, <2>5, <2>6 DEF Heard
<1>17. ASSUME NEW d \in Procs, DrainLock(d) PROVE Heard'
  BY <1>17, <1>c DEF DrainLock, Heard, Reporting
<1>18. ASSUME NEW d \in Procs, DrainTop(d) PROVE Heard'
  BY <1>18, <1>c DEF DrainTop, Heard, Reporting
<1>19. ASSUME NEW d \in Procs, DrainPeek(d) PROVE Heard'
  BY <1>19, <1>c DEF DrainPeek, Heard, Reporting
<1>20. ASSUME NEW d \in Procs, DrainAccepted(d) PROVE Heard'
  BY <1>20, <1>c DEF DrainAccepted, Heard, Reporting
<1>21. ASSUME NEW d \in Procs, DrainRefused(d) PROVE Heard'
  BY <1>21, <1>c DEF DrainRefused, Heard, Reporting
<1>22. ASSUME NEW d \in Procs, DrainUnlock(d) PROVE Heard'
  BY <1>22, <1>c DEF DrainUnlock, Leave, Heard, Reporting
<1>23. ASSUME NEW d \in Procs, FailErr(d) PROVE Heard'
  BY <1>23, <1>c DEF FailErr, Heard, Reporting
<1>24. ASSUME NEW d \in Procs, FailAbort(d) PROVE Heard'
  BY <1>24, <1>c DEF FailAbort, Heard, Reporting
<1>25. ASSUME NEW d \in Procs, FailCancel(d) PROVE Heard'
  BY <1>25, <1>c DEF FailCancel, Leave, Heard, Reporting
<1>26. ASSUME NEW e \in ContextErrors, ContextEnds(e) PROVE Heard'
  BY <1>26, <1>c DEF ContextEnds, Heard, Reporting
<1>q. QED
  BY <1>1, <1>2, <1>3, <1>4, <1>5, <1>6, <1>7, <1>8, <1>9, <1>10, <1>11,
     <1>12, <1>13, <1>14, <1>15, <1>16, <1>17, <1>18, <1>19, <1>20,
     <1>21, <1>22, <1>23, <1>24, <1>25, <1>26
     DEF Next, WalkStep, WalkStart, DispatchLoop, fetchAndRecord, drain, fail

-----------------------------------------------------------------------------
(* All three layers hold in every reachable state. *)
LEMMA CountInvariance == Spec => [](Inv /\ WalkInv /\ CountInv)
<1>1. ASSUME Init PROVE CountInv
  <2>1. Added = {} /\ FullAdded = {}
    BY <1>1 DEF Init, Added, FullAdded, Procs, Workers, Caller
  <2>2. Cardinality(FullAdded) = 0
    BY <2>1, FS_EmptySet
  <2>3. PerPage \in Nat
    BY <1>1, OptionsAssumption DEF Init, PerPage, defaultPerPage
  <2>4. Counted
    BY <1>1, <2>1, <2>2, <2>3 DEF Init, Counted
  <2>5. Handed /\ FirstOnly /\ Heard
    BY <1>1 DEF Init, Handed, FirstOnly, Heard, EarlyStates, Returned, Procs, Caller
  <2>6. QED
    BY <2>4, <2>5 DEF CountInv
<1>2. ASSUME Inv, WalkInv, CountInv, [Next]_vars PROVE CountInv'
  <2>1. CASE Next
    BY <1>2, <2>1, HandedStep, FirstOnlyStep, CountedStep, HeardStep DEF CountInv
  <2>2. CASE UNCHANGED vars
    <3>1. Added' = Added
      BY <2>2 DEF vars, Added, Workers, MaxPages
    <3>2. Counted'
      BY <1>2, <2>2, <3>1, SameCount DEF vars, CountInv
    <3>3. Handed' /\ FirstOnly' /\ Heard'
      BY <1>2, <2>2 DEF vars, CountInv, Handed, FirstOnly, Heard, Reporting,
         Returned, PageLen, PerPage, Workers, MaxPages
    <3>4. QED
      BY <3>2, <3>3 DEF CountInv
  <2>3. QED
    BY <1>2, <2>1, <2>2
<1>3. QED
  BY <1>1, <1>2, WalkInvariance, PTL DEF Spec

(* The largest element of a set of numbers. *)
LEMMA MaxIsLargest ==
    ASSUME NEW S \in SUBSET Nat, NEW m \in S, \A x \in S : x <= m
    PROVE  Max(S) = m
<1>1. \E x \in S : \A y \in S : x >= y
  OBVIOUS
<1>2. Max(S) \in S /\ \A y \in S : Max(S) >= y
  BY <1>1 DEF Max
<1>3. Max(S) \in Nat /\ Max(S) <= m /\ m <= Max(S)
  BY <1>2
<1>4. m \in Nat
  OBVIOUS
<1>5. QED
  BY <1>3, <1>4

(* What the last report said. *)
LEMMA LargestReport ==
    ASSUME Inv, NEW m \in Nat,
           \A r \in progress : r.cumulative <= m,
           \E r \in progress : r.cumulative = m
    PROVE  Max({r.cumulative : r \in progress}) = m
<1> DEFINE S == {r.cumulative : r \in progress}
<1>1. S \subseteq Nat
  BY DEF Inv, TypeOK
<1>2. m \in S /\ \A x \in S : x <= m
  OBVIOUS
<1>3. QED
  BY <1>1, <1>2, MaxIsLargest

(* There are n pages up to page n. *)
LEMMA PagesUpTo ==
    ASSUME NEW n \in Nat
    PROVE  Cardinality(1 .. n) = n
<1>1. Cardinality(1 .. n) = IF 1 > n THEN 0 ELSE n - 1 + 1
  BY FS_Interval
<1>2. QED
  BY <1>1

(* The count of a walk that has handed over n pages and no more. *)
LEMMA CountIsTotal ==
    ASSUME Inv, Counted, Handed, CompleteOnSuccess, ready # {},
           Returned, result = nil, ctx = "live"
    PROVE  itemsFetched = ItemsUpTo(Len(output))
<1> DEFINE n == Len(output)
<1> USE WalkFacts, CountFacts
<1>1. n \in Nat \ {0} /\ 1 .. n \subseteq ready
  <2>1. n \in Nat
    BY DEF Inv, TypeOK
  <2>2. n >= 1 /\ 1 .. n \subseteq ready
    BY DEF Handed
  <2>3. QED
    BY <2>1, <2>2
<1>2. Added = ready
  <2>1. \A p \in Workers : ~Running(p)
    BY DEF Inv, Phases, Returned, LateStates
  <2>2. QED
    BY <2>1 DEF Added, Running
<1>3. ASSUME NEW p \in ready, PageLen(p) > 0 PROVE p <= n
  <2>1. p = 1 \/ p \in Workers
    BY DEF Procs, Caller
  <2>2. p \in 1 .. MaxPages
    BY <2>1 DEF Workers, Handed
  <2>3. QED
    BY <1>3, <2>2 DEF CompleteOnSuccess
<1> HIDE DEF n
<1>4. CASE n <= collection.full
  <2>1. FullAdded = 1 .. n
    <3>1. ASSUME NEW p \in FullAdded PROVE p \in 1 .. n
      <4>1. p \in ready /\ p \in Nat \ {0} /\ PageLen(p) = PerPage
        BY <1>2, <3>1, ProcsAreNumbers DEF FullAdded, PageLen, Inv
      <4>2. QED
        BY <1>1, <1>3, <4>1
    <3>2. ASSUME NEW p \in 1 .. n PROVE p \in FullAdded
      BY <1>1, <1>2, <1>4, <3>2 DEF FullAdded
    <3>3. QED
      BY <3>1, <3>2
  <2>2. Cardinality(FullAdded) = n
    BY <1>1, <2>1, PagesUpTo
  <2>3. collection.full + 1 \in Added => collection.rest = 0
    <3>1. PageLen(collection.full + 1) = collection.rest
      BY DEF PageLen
    <3>2. QED
      BY <1>1, <1>2, <1>3, <1>4, <3>1
  <2>4. itemsFetched = PerPage * n
    <3>1. itemsFetched = PerPage * n + 0
      BY <2>2, <2>3 DEF Counted
    <3>2. PerPage * n \in Nat
      BY <1>1
    <3>3. QED
      BY <3>1, <3>2
  <2>5. QED
    BY <1>1, <1>4, <2>4 DEF ItemsUpTo, n
<1>5. CASE n > collection.full
  <2>1. FullAdded = 1 .. collection.full
    BY <1>1, <1>2, <1>5, ProcsAreNumbers DEF FullAdded, Inv
  <2>2. Cardinality(FullAdded) = collection.full
    BY <2>1, PagesUpTo
  <2>3. collection.full + 1 \in Added
    BY <1>1, <1>2, <1>5
  <2>4. itemsFetched = PerPage * collection.full + collection.rest
    BY <2>2, <2>3 DEF Counted
  <2>5. QED
    BY <1>1, <1>5, <2>4 DEF ItemsUpTo, n
<1>6. QED
  BY <1>1, <1>4, <1>5

(* The largest count OnProgress hears in a successful walk is the number of  *)
(* items handed over, for any number of workers that add to itemsFetched and *)
(* report in any order: each page is added once, and each sum is reported.   *)
THEOREM ProgressIsTotal == Spec => []ProgressReachesTotal
<1>1. ASSUME Inv, WalkInv, CountInv PROVE ProgressReachesTotal
  <2> SUFFICES ASSUME Returned, result = nil, ctx = "live"
               PROVE  Max({r.cumulative : r \in progress}) = ItemsUpTo(Len(output))
    BY DEF ProgressReachesTotal
  <2> USE <1>1, CountFacts
  <2>1. CASE ready = {}
    <3>1. progress = {[page |-> 1, cumulative |-> PageLen(1)]} /\ Len(output) = 1
      BY <2>1 DEF CountInv, FirstOnly
    <3>2. PageLen(1) \in Nat
      BY PageLenIsNat DEF Inv
    <3>3. Max({r.cumulative : r \in progress}) = PageLen(1)
      BY <3>1, <3>2, LargestReport
    <3>4. PageLen(1) = ItemsUpTo(1)
      BY DEF PageLen, ItemsUpTo
    <3>5. QED
      BY <3>1, <3>3, <3>4
  <2>2. CASE ready # {}
    <3>1. \A p \in Workers : ~Reporting(p)
      BY DEF Inv, Phases, Returned, LateStates, Running, Reporting
    <3>2. Max({r.cumulative : r \in progress}) = itemsFetched
      BY <2>2, <3>1, LargestReport DEF CountInv, Heard
    <3>3. itemsFetched = ItemsUpTo(Len(output))
      BY <2>2, CountIsTotal DEF CountInv, WalkInv, Outcome
    <3>4. QED
      BY <3>2, <3>3
  <2>3. QED
    BY <2>1, <2>2
<1>2. Inv /\ WalkInv /\ CountInv => ProgressReachesTotal
  BY <1>1
<1>3. QED
  BY <1>2, CountInvariance, PTL

-----------------------------------------------------------------------------
(* Every step of a walk is a step forward. *)

(* The ranks of the labels. *)
LEMMA RankValues ==
    /\ Rank["idle"] = 1 /\ Rank["start"] = 2 /\ Rank["first"] = 3
    /\ Rank["firstCall"] = 4 /\ Rank["loop"] = 5 /\ Rank["select"] = 6
    /\ Rank["wait"] = 7 /\ Rank["check"] = 8 /\ Rank["fetch"] = 9
    /\ Rank["add"] = 10 /\ Rank["record"] = 11 /\ Rank["report"] = 12
    /\ Rank["lock"] = 13 /\ Rank["top"] = 14 /\ Rank["peek"] = 15
    /\ Rank["call"] = 16 /\ Rank["failErr"] = 17 /\ Rank["failAbort"] = 18
    /\ Rank["failCancel"] = 19 /\ Rank["unlock"] = 20 /\ Rank["return"] = 21
    /\ Rank["done"] = 22
BY DEF Rank

(* A rank is a number, for every label a goroutine can be at. *)
LEMMA RankIsNat ==
    ASSUME NEW label \in CallerStates \cup WorkerStates
    PROVE  Rank[label] \in Nat
BY RankValues DEF CallerStates, WorkerStates, DeliverStates, FailStates

(* One goroutine that moves to a later label moves the walk forward. *)
LEMMA OnwardIsForward ==
    ASSUME Inv, NEW d \in Procs, NEW label, Goto(d, label),
           Rank[label] > Rank[pc[d]], label # pc[d],
           Rank[label] \in Nat, UNCHANGED <<delivered, page>>
    PROVE  Forward
<1> USE WalkFacts DEF Goto
<1>1. pc'[d] = label /\ pc' # pc
  OBVIOUS
<1>2. ASSUME NEW e \in Procs PROVE Rank[pc[e]] <= Rank[pc'[e]]
  <2>1. Rank[pc[e]] \in Nat
    BY RankIsNat
  <2>2. CASE e = d
    BY <1>1, <2>1, <2>2
  <2>3. CASE e # d
    BY <2>1, <2>3
  <2>4. QED
    BY <2>2, <2>3
<1>3. QED
  BY <1>1, <1>2 DEF Forward

(* drain's loop delivers a page each time round, the dispatch loop starts a *)
(* worker each time round, and everything else runs straight through.       *)
LEMMA ForwardStep ==
    ASSUME Inv, WalkInv, Handed, Next
    PROVE  Forward
<1> USE WalkFacts, RankValues
    DEF envVars, sharedVars, outVars, Return
<1>1. CASE Start
  BY <1>1, OnwardIsForward DEF Start
<1>2. CASE FirstFetched
  BY <1>2, OnwardIsForward DEF FirstFetched
<1>3. CASE FirstFetchFails
  BY <1>3, OnwardIsForward DEF FirstFetchFails
<1>4. CASE FirstAccepted
  <2>1. delivered = 0 /\ delivered' = 1 /\ MaxPages >= 1
    BY <1>4 DEF FirstAccepted, Inv, Delivery, Handed
  <2>2. QED
    BY <2>1 DEF Forward
<1>5. CASE FirstRefused
  BY <1>5, OnwardIsForward DEF FirstRefused
<1>6. CASE DispatchCheck
  BY <1>6, OnwardIsForward DEF DispatchCheck
<1>7. CASE Dispatch
  <2>1. page' = page + 1 /\ delivered' = delivered /\ page <= MaxPages
    BY <1>7 DEF Dispatch, Inv, Phases
  <2>2. QED
    BY <2>1 DEF Forward
<1>8. CASE DispatchStop
  <2>1. page' = MaxPages + 1 /\ delivered' = delivered /\ page <= MaxPages
    BY <1>8 DEF DispatchStop, Inv, Phases
  <2>2. QED
    BY <2>1 DEF Forward
<1>9. CASE WaitDone
  BY <1>9, OnwardIsForward DEF WaitDone
<1>10. CASE ReturnResult
  BY <1>10, OnwardIsForward DEF ReturnResult
<1>11. ASSUME NEW p \in Workers, WorkerCheck(p) PROVE Forward
  BY <1>11, OnwardIsForward DEF WorkerCheck, Leave
<1>12. ASSUME NEW p \in Workers, WorkerFetched(p) PROVE Forward
  BY <1>12, OnwardIsForward DEF WorkerFetched
<1>13. ASSUME NEW p \in Workers, WorkerFetchFails(p) PROVE Forward
  BY <1>13, OnwardIsForward DEF WorkerFetchFails, Leave
<1>14. ASSUME NEW p \in Workers, WorkerAdd(p) PROVE Forward
  BY <1>14, OnwardIsForward DEF WorkerAdd
<1>15. ASSUME NEW p \in Workers, WorkerRecord(p) PROVE Forward
  BY <1>15, OnwardIsForward DEF WorkerRecord
<1>16. ASSUME NEW p \in Workers, WorkerReport(p) PROVE Forward
  BY <1>16, OnwardIsForward DEF WorkerReport
<1>17. ASSUME NEW d \in Procs, DrainLock(d) PROVE Forward
  BY <1>17, OnwardIsForward DEF DrainLock
<1>18. ASSUME NEW d \in Procs, DrainTop(d) PROVE Forward
  BY <1>18, OnwardIsForward DEF DrainTop
<1>19. ASSUME NEW d \in Procs, DrainPeek(d) PROVE Forward
  <2>1. PICK label \in {"call", "unlock"} : Goto(d, label)
    BY <1>19 DEF DrainPeek
  <2>2. pc[d] = "peek" /\ UNCHANGED <<delivered, page>>
    BY <1>19 DEF DrainPeek
  <2>3. QED
    BY <2>1, <2>2, OnwardIsForward
<1>20. ASSUME NEW d \in Procs, DrainAccepted(d) PROVE Forward
  <2>1. Len(output) = delivered + 1 /\ delivered' = delivered + 1
    BY <1>20 DEF DrainAccepted, Inv, Delivery
  <2>2. pc[Caller] \notin EarlyStates \cup {"done"}
    BY <1>20, EarlyIdle, ReturnedIsLast DEF DrainAccepted, Returned, Procs, EarlyStates
  <2>3. MaxPages > 1 /\ 1 .. Len(output) \subseteq ready
    BY <2>2 DEF Handed
  <2>4. delivered + 1 \in Procs
    <3>1. 1 .. delivered + 1 \subseteq ready
      BY <2>1, <2>3
    <3>2. QED
      BY <3>1
  <2>5. delivered + 1 <= MaxPages
    BY <2>3, <2>4 DEF Procs, Workers, Caller
  <2>6. QED
    BY <2>1, <2>5 DEF Forward
<1>21. ASSUME NEW d \in Procs, DrainRefused(d) PROVE Forward
  BY <1>21, OnwardIsForward DEF DrainRefused
<1>22. ASSUME NEW d \in Procs, DrainUnlock(d) PROVE Forward
  BY <1>22, OnwardIsForward DEF DrainUnlock, Leave
<1>23. ASSUME NEW d \in Procs, FailErr(d) PROVE Forward
  BY <1>23, OnwardIsForward DEF FailErr
<1>24. ASSUME NEW d \in Procs, FailAbort(d) PROVE Forward
  BY <1>24, OnwardIsForward DEF FailAbort
<1>25. ASSUME NEW d \in Procs, FailCancel(d) PROVE Forward
  BY <1>25, OnwardIsForward DEF FailCancel, Leave
<1>26. ASSUME NEW e \in ContextErrors, ContextEnds(e) PROVE Forward
  BY <1>26 DEF ContextEnds, Forward, ContextErrors
<1>q. QED
  BY <1>1, <1>2, <1>3, <1>4, <1>5, <1>6, <1>7, <1>8, <1>9, <1>10, <1>11,
     <1>12, <1>13, <1>14, <1>15, <1>16, <1>17, <1>18, <1>19, <1>20,
     <1>21, <1>22, <1>23, <1>24, <1>25, <1>26
     DEF Next, WalkStep, WalkStart, DispatchLoop, fetchAndRecord, drain, fail

(* No step of a walk goes round in circles: whatever fetch, onPage and the  *)
(* context do, a walk uses up a bounded number of deliveries, dispatches    *)
(* and labels, and by DeadlockFree it does not stop before it has returned. *)
THEOREM AlwaysForward == Spec => MovesForward
<1>1. Inv /\ WalkInv /\ CountInv /\ [Next]_vars => [Forward]_vars
  BY ForwardStep DEF CountInv
<1>2. QED
  BY <1>1, CountInvariance, PTL DEF Spec, MovesForward

=============================================================================
