------------------------------ MODULE WalkPages ------------------------------
(***************************************************************************)
(* The page walk behind FetchPages and StreamPages (pagination.go).        *)
(*                                                                         *)
(* The goroutine that called walkPages fetches page 1 alone, then hands    *)
(* pages 2..MaxPages to worker goroutines, at most Concurrency at a time.  *)
(* A worker fetches its page, records it, and drains: under deliverMu it   *)
(* gives every recorded page, in page order, to the caller's onPage.  The  *)
(* first short page stops the dispatch, the first failure aborts the walk. *)
(*                                                                         *)
(* One action is one access to shared state: an atomic load, store or add, *)
(* one critical section of mu, or the start or the return of a call to     *)
(* fetch, OnProgress or onPage.  deliverMu is a variable because onPage is *)
(* called while it is held.  The items of a page are a function of its     *)
(* number, so a page stands for its items.                                 *)
(***************************************************************************)
EXTENDS Integers, Sequences, FiniteSets, FiniteSetsExt

CONSTANTS
    Options,      \* the PaginationOptions a caller may pass
    Collections,  \* the shapes of the remote collection
    Faults        \* what may go wrong: "fetch" and "callback" return an
                  \* error, the caller's context ends with "Canceled" or
                  \* with "DeadlineExceeded"

ASSUME OptionsAssumption ==
    Options \subseteq [MaxPages : Int, PerPage : Int, Concurrency : Int]

ASSUME CollectionsAssumption ==
    Collections \subseteq [full : Nat, rest : Nat]

VARIABLES
    opts,          \* the caller's PaginationOptions
    collection,    \* what the server holds: full pages, then a rest
    ctx,           \* the caller's context
    walkCtx,       \* the walk's own context, a child of ctx
    pc,            \* where each goroutine is
    page,          \* loop variable of the dispatch loop
    shortPage,     \* 0 = none seen; else the page number
    itemsFetched,  \* cumulative items recorded
    cumulative,    \* each worker's total, between the add and its report
    progress,      \* what OnProgress has been told
    aborted,       \* a fetch or onPage failed; stop delivering
    firstErr,      \* the error the walk will return
    ready,         \* pages fetched
    pending,       \* pages whose items are still buffered
    delivered,     \* last page onPage has accepted
    deliverMu,     \* the goroutine holding deliverMu, 0 = none
    sem,           \* slots taken in the semaphore channel
    output,        \* pages handed to onPage, in call order
    result         \* what walkPages returned

sharedVars == <<shortPage, itemsFetched, aborted, firstErr, ready, pending,
                delivered, deliverMu, sem>>
envVars    == <<opts, collection, ctx>>
outVars    == <<progress, output, result>>
vars       == <<opts, collection, ctx, walkCtx, pc, page, shortPage,
                itemsFetched, cumulative, progress, aborted, firstErr, ready,
                pending, delivered, deliverMu, sem, output, result>>

-----------------------------------------------------------------------------
defaultPerPage     == 100
defaultConcurrency == 3

(* PaginationOptions as walkPages normalises them. *)
MaxPages    == opts.MaxPages
PerPage     == IF opts.PerPage <= 0 THEN defaultPerPage ELSE opts.PerPage
Concurrency == IF opts.Concurrency <= 0 THEN defaultConcurrency
                                        ELSE opts.Concurrency

(* The calling goroutine goes by the number of the page it fetches. *)
Caller  == 1
Workers == 2 .. MaxPages
Procs   == {Caller} \cup Workers

(* The list endpoint: full pages, one page with the rest, nothing beyond. *)
PageLen(p) == IF p <= collection.full THEN PerPage
              ELSE IF p = collection.full + 1 THEN collection.rest ELSE 0

Short(p) == PageLen(p) < PerPage

(* How many items the first n pages have together. *)
ItemsUpTo(n) == IF n <= collection.full THEN n * PerPage
                ELSE collection.full * PerPage + collection.rest

Err(kind, p) == [kind |-> kind, page |-> p]
nil          == Err("nil", 0)

ContextErrors == {"Canceled", "DeadlineExceeded"}

FailStates     == {"failErr", "failAbort", "failCancel"}
DeliverStates  == {"top", "peek", "call", "unlock"}
CallerStates   == {"start", "first", "firstCall", "loop", "select", "wait",
                   "lock", "return", "done"} \cup DeliverStates \cup FailStates
WorkerStates   == {"idle", "check", "fetch", "add", "record", "report",
                   "lock", "done"} \cup DeliverStates \cup FailStates

Goto(d, label) == pc' = [pc EXCEPT ![d] = label]

(* Variant: the caller gives back a slot it never took. *)
LeaveUnpaired(d) ==
    /\ Goto(d, IF d = Caller THEN "return" ELSE "done")
    /\ sem' = sem - 1

(* Variant: a worker keeps its slot. *)
LeaveHolding(d) ==
    /\ Goto(d, IF d = Caller THEN "return" ELSE "done")
    /\ sem' = sem

(* A goroutine leaves fetchAndRecord, or the last drain: a worker gives its *)
(* slot back and is done, the caller reads firstErr.                        *)
Leave(d) ==
    /\ Goto(d, IF d = Caller THEN "return" ELSE "done")
    /\ sem' = IF d = Caller THEN sem ELSE sem - 1

-----------------------------------------------------------------------------
Init ==
    /\ opts \in Options
    /\ collection \in {c \in Collections : c.rest < PerPage}
    /\ ctx = "live"
    /\ walkCtx = "live"
    /\ pc = [d \in Procs |-> IF d = Caller THEN "start" ELSE "idle"]
    /\ page = 2
    /\ shortPage = 0
    /\ itemsFetched = 0
    /\ cumulative = [d \in Procs |-> 0]
    /\ progress = {}
    /\ aborted = FALSE
    /\ firstErr = nil
    /\ ready = {}
    /\ pending = {}
    /\ delivered = 0
    /\ deliverMu = 0
    /\ sem = 0
    /\ output = <<>>
    /\ result = nil

-----------------------------------------------------------------------------
(* The caller's goroutine up to the dispatch loop. *)

Return(err) ==
    /\ result' = err
    /\ Goto(Caller, "done")

(* MaxPages is validated before anything is fetched. *)
Start ==
    /\ pc[Caller] = "start"
    /\ IF MaxPages < 1 THEN Return(Err("invalid", 0))
                       ELSE Goto(Caller, "first") /\ UNCHANGED result
    /\ UNCHANGED <<envVars, walkCtx, page, sharedVars, cumulative, progress,
                   output>>

(* fetch(ctx, 1) succeeds; OnProgress is told and onPage(1) is called. *)
FirstFetched ==
    /\ pc[Caller] = "first"
    /\ progress' = {[page |-> 1, cumulative |-> PageLen(1)]}
    /\ output' = <<1>>
    /\ Goto(Caller, "firstCall")
    /\ UNCHANGED <<envVars, walkCtx, page, sharedVars, cumulative, result>>

FirstFetchFails ==
    /\ pc[Caller] = "first"
    /\ "fetch" \in Faults \/ ctx # "live"
    /\ Return(Err("fetch", 1))
    /\ UNCHANGED <<envVars, walkCtx, page, sharedVars, cumulative, progress,
                   output>>

(* onPage accepts page 1.  A short page 1, or MaxPages = 1, ends the walk;  *)
(* otherwise the walk's shared state is set up.                             *)
FirstAccepted ==
    /\ pc[Caller] = "firstCall"
    /\ delivered' = 1
    /\ IF Short(1) \/ MaxPages = 1
       THEN /\ Return(nil)
            /\ UNCHANGED <<itemsFetched, ready, pending>>
       ELSE /\ itemsFetched' = PageLen(1)
            /\ ready' = {1}
            /\ pending' = {1}
            /\ Goto(Caller, "loop")
            /\ UNCHANGED result
    /\ UNCHANGED <<envVars, walkCtx, page, shortPage, cumulative, progress,
                   aborted, firstErr, deliverMu, sem, output>>

FirstRefused ==
    /\ pc[Caller] = "firstCall"
    /\ "callback" \in Faults
    /\ Return(Err("callback", 1))
    /\ UNCHANGED <<envVars, walkCtx, page, sharedVars, cumulative, progress,
                   output>>

-----------------------------------------------------------------------------
(* The dispatch loop. *)

(* Loop head: stop past MaxPages, or past a short page already seen. *)
DispatchCheck ==
    /\ pc[Caller] = "loop"
    /\ Goto(Caller, IF \/ page > MaxPages
                       \/ shortPage # 0 /\ page > shortPage
                    THEN "wait" ELSE "select")
    /\ UNCHANGED <<envVars, walkCtx, page, sharedVars, cumulative, outVars>>

(* select, first case: a semaphore slot is free, start the page's worker. *)
Dispatch ==
    /\ pc[Caller] = "select"
    /\ sem < Concurrency
    /\ sem' = sem + 1
    /\ page' = page + 1
    /\ pc' = [pc EXCEPT ![Caller] = "loop", ![page] = "check"]
    /\ UNCHANGED <<envVars, walkCtx, shortPage, itemsFetched, cumulative,
                   aborted, firstErr, ready, pending, delivered, deliverMu,
                   outVars>>

(* select, second case: the walk's context is done.  With a free slot as    *)
(* well, Go picks either case.                                              *)
DispatchStop ==
    /\ pc[Caller] = "select"
    /\ walkCtx # "live"
    /\ page' = MaxPages + 1
    /\ Goto(Caller, "wait")
    /\ UNCHANGED <<envVars, walkCtx, sharedVars, cumulative, outVars>>

Running(p) == pc[p] \notin {"idle", "done"}

(* Variant: wg.Add inside the goroutine, so that a worker that has not run  *)
(* yet is not waited for.                                                   *)
AllFinishedLateAdd == \A p \in Workers : Running(p) => pc[p] = "check"

AllFinished == \A p \in Workers : ~Running(p)

(* wg.Wait() returns once every started worker has finished. *)
WaitDone ==
    /\ pc[Caller] = "wait"
    /\ AllFinished
    /\ Goto(Caller, "lock")
    /\ UNCHANGED <<envVars, walkCtx, page, sharedVars, cumulative, outVars>>

(* walkPages returns firstErr; the deferred cancel ends the walk's context. *)
ReturnResult ==
    /\ pc[Caller] = "return"
    /\ Return(firstErr)
    /\ walkCtx' = IF walkCtx = "live" THEN "Canceled" ELSE walkCtx
    /\ UNCHANGED <<envVars, page, sharedVars, cumulative, progress, output>>

-----------------------------------------------------------------------------
(* fetchAndRecord, one worker's page. *)

(* Variant: skips the pages before the short page too. *)
shouldSkipAll(p) == shortPage # 0

shouldSkip(p) ==
    \/ shortPage # 0 /\ p > shortPage
    \/ walkCtx # "live" /\ shortPage # 0

WorkerCheck(p) ==
    /\ pc[p] = "check"
    /\ IF shouldSkip(p) THEN Leave(p)
                        ELSE Goto(p, "fetch") /\ UNCHANGED sem
    /\ UNCHANGED <<envVars, walkCtx, page, shortPage, itemsFetched, cumulative,
                   aborted, firstErr, ready, pending, delivered, deliverMu,
                   outVars>>

(* fetch returns items; a short page is remembered unless one already is. *)
WorkerFetched(p) ==
    /\ pc[p] = "fetch"
    /\ shortPage' = IF Short(p) /\ shortPage = 0 THEN p ELSE shortPage
    /\ Goto(p, "add")
    /\ UNCHANGED <<envVars, walkCtx, page, itemsFetched, cumulative, aborted,
                   firstErr, ready, pending, delivered, deliverMu, sem,
                   outVars>>

(* fetch returns an error: its own, or the one of the walk's context, once  *)
(* that is done.  Cancellation after a short page is not a failure.         *)
WorkerFetchFails(p) ==
    /\ pc[p] = "fetch"
    /\ \E e \in (Faults \cap {"fetch"}) \cup ({walkCtx} \cap ContextErrors) :
          IF shortPage # 0 /\ e = "Canceled"
          THEN Leave(p)
          ELSE Goto(p, "failErr") /\ UNCHANGED sem
    /\ UNCHANGED <<envVars, walkCtx, page, shortPage, itemsFetched, cumulative,
                   aborted, firstErr, ready, pending, delivered, deliverMu,
                   outVars>>

(* Variant: the page's own count is stored, not added. *)
StoreItems(p) == PageLen(p)

AddItems(p) == itemsFetched + PageLen(p)

WorkerAdd(p) ==
    /\ pc[p] = "add"
    /\ itemsFetched' = AddItems(p)
    /\ cumulative' = [cumulative EXCEPT ![p] = itemsFetched']
    /\ Goto(p, "record")
    /\ UNCHANGED <<envVars, walkCtx, page, shortPage, aborted, firstErr, ready,
                   pending, delivered, deliverMu, sem, outVars>>

WorkerRecord(p) ==
    /\ pc[p] = "record"
    /\ ready' = ready \cup {p}
    /\ pending' = pending \cup {p}
    /\ Goto(p, "report")
    /\ UNCHANGED <<envVars, walkCtx, page, shortPage, itemsFetched, cumulative,
                   aborted, firstErr, delivered, deliverMu, sem, outVars>>

WorkerReport(p) ==
    /\ pc[p] = "report"
    /\ progress' = progress \cup {[page |-> p, cumulative |-> cumulative[p]]}
    /\ cumulative' = [cumulative EXCEPT ![p] = 0]
    /\ Goto(p, "lock")
    /\ UNCHANGED <<envVars, walkCtx, page, sharedVars, output, result>>

-----------------------------------------------------------------------------
(* drain, run by a worker after its page and by the caller at the end. *)

(* Variant: drain without deliverMu. *)
DrainUnlocked(d) ==
    /\ pc[d] = "lock"
    /\ deliverMu' = d
    /\ Goto(d, "top")
    /\ UNCHANGED <<envVars, walkCtx, page, shortPage, itemsFetched, cumulative,
                   aborted, firstErr, ready, pending, delivered, sem, outVars>>

(* Variant: TryLock, leaving the page to whoever holds deliverMu. *)
DrainTryLock(d) ==
    /\ pc[d] = "lock"
    /\ IF deliverMu = 0 THEN deliverMu' = d /\ Goto(d, "top") /\ UNCHANGED sem
                        ELSE Leave(d) /\ UNCHANGED deliverMu
    /\ UNCHANGED <<envVars, walkCtx, page, shortPage, itemsFetched, cumulative,
                   aborted, firstErr, ready, pending, delivered, outVars>>

DrainLock(d) ==
    /\ pc[d] = "lock"
    /\ deliverMu = 0
    /\ deliverMu' = d
    /\ Goto(d, "top")
    /\ UNCHANGED <<envVars, walkCtx, page, shortPage, itemsFetched, cumulative,
                   aborted, firstErr, ready, pending, delivered, sem, outVars>>

(* Variant: the loop does not look at aborted. *)
MoreToDeliverBlind == delivered < MaxPages

MoreToDeliver == delivered < MaxPages /\ ~aborted

(* The loop condition. *)
DrainTop(d) ==
    /\ pc[d] = "top"
    /\ Goto(d, IF MoreToDeliver THEN "peek" ELSE "unlock")
    /\ UNCHANGED <<envVars, walkCtx, page, sharedVars, cumulative, outVars>>

(* Is the next page recorded?  If so onPage is called with it. *)
DrainPeek(d) ==
    /\ pc[d] = "peek"
    /\ IF delivered + 1 \in ready
       THEN output' = Append(output, delivered + 1) /\ Goto(d, "call")
       ELSE Goto(d, "unlock") /\ UNCHANGED output
    /\ UNCHANGED <<envVars, walkCtx, page, sharedVars, cumulative, progress,
                   result>>

(* drain returns: the deferred Unlock of deliverMu. *)
DrainUnlock(d) ==
    /\ pc[d] = "unlock"
    /\ deliverMu' = 0
    /\ Leave(d)
    /\ UNCHANGED <<envVars, walkCtx, page, shortPage, itemsFetched, cumulative,
                   aborted, firstErr, ready, pending, delivered, outVars>>

DrainAccepted(d) ==
    /\ pc[d] = "call"
    /\ delivered' = delivered + 1
    /\ pending' = pending \ {delivered + 1}
    /\ Goto(d, "top")
    /\ UNCHANGED <<envVars, walkCtx, page, shortPage, itemsFetched, cumulative,
                   aborted, firstErr, ready, deliverMu, sem, outVars>>

(* Variant: the page is handed over again. *)
DrainRetried(d) ==
    /\ pc[d] = "call"
    /\ "callback" \in Faults
    /\ Goto(d, "top")
    /\ UNCHANGED <<envVars, walkCtx, page, sharedVars, cumulative, outVars>>

DrainRefused(d) ==
    /\ pc[d] = "call"
    /\ "callback" \in Faults
    /\ Goto(d, "failErr")
    /\ UNCHANGED <<envVars, walkCtx, page, sharedVars, cumulative, outVars>>

-----------------------------------------------------------------------------
(* fail: the first error is kept, delivery is aborted, the walk cancelled.  *)
(* A goroutine that fails inside drain still holds deliverMu and lets it go *)
(* when drain returns.                                                      *)

(* Variant: the callback's error names the last page accepted. *)
FailureOffByOne(d) == IF deliverMu = d THEN Err("callback", delivered)
                                       ELSE Err("fetch", d)

(* The error of the call that failed: onPage's inside drain, else fetch's. *)
Failure(d) == IF deliverMu = d THEN Err("callback", delivered + 1)
                               ELSE Err("fetch", d)

FailErr(d) ==
    /\ pc[d] = "failErr"
    /\ firstErr' = IF firstErr = nil THEN Failure(d) ELSE firstErr
    /\ Goto(d, "failAbort")
    /\ UNCHANGED <<envVars, walkCtx, page, shortPage, itemsFetched, cumulative,
                   aborted, ready, pending, delivered, deliverMu, sem, outVars>>

FailAbort(d) ==
    /\ pc[d] = "failAbort"
    /\ aborted' = TRUE
    /\ Goto(d, "failCancel")
    /\ UNCHANGED <<envVars, walkCtx, page, shortPage, itemsFetched, cumulative,
                   firstErr, ready, pending, delivered, deliverMu, sem, outVars>>

(* Variant: no deferred Unlock, so that drain returns with deliverMu held. *)
FailCancelHolding(d) ==
    /\ pc[d] = "failCancel"
    /\ walkCtx' = IF walkCtx = "live" THEN "Canceled" ELSE walkCtx
    /\ Leave(d)
    /\ UNCHANGED <<envVars, page, shortPage, itemsFetched, cumulative, aborted,
                   firstErr, ready, pending, delivered, deliverMu, outVars>>

FailCancel(d) ==
    /\ pc[d] = "failCancel"
    /\ walkCtx' = IF walkCtx = "live" THEN "Canceled" ELSE walkCtx
    /\ IF deliverMu = d THEN Goto(d, "unlock") /\ UNCHANGED sem ELSE Leave(d)
    /\ UNCHANGED <<envVars, page, shortPage, itemsFetched, cumulative, aborted,
                   firstErr, ready, pending, delivered, deliverMu, outVars>>

-----------------------------------------------------------------------------
(* The caller's context ends; its child, the walk's context, ends with it. *)
ContextEnds(e) ==
    /\ e \in Faults \cap ContextErrors
    /\ ctx = "live"
    /\ pc[Caller] # "done"
    /\ ctx' = e
    /\ walkCtx' = IF walkCtx = "live" THEN e ELSE walkCtx
    /\ UNCHANGED <<opts, collection, pc, page, sharedVars, cumulative, outVars>>

WalkStart == \/ Start
             \/ FirstFetched \/ FirstFetchFails
             \/ FirstAccepted \/ FirstRefused

DispatchLoop == \/ DispatchCheck \/ Dispatch \/ DispatchStop
                \/ WaitDone \/ ReturnResult

fetchAndRecord(p) == \/ WorkerCheck(p)
                     \/ WorkerFetched(p) \/ WorkerFetchFails(p)
                     \/ WorkerAdd(p) \/ WorkerRecord(p) \/ WorkerReport(p)

drain(d) == \/ DrainLock(d) \/ DrainTop(d) \/ DrainPeek(d)
            \/ DrainAccepted(d) \/ DrainRefused(d) \/ DrainUnlock(d)

fail(d) == FailErr(d) \/ FailAbort(d) \/ FailCancel(d)

(* A step of the walk itself, as opposed to one of its caller. *)
WalkStep == \/ WalkStart
            \/ DispatchLoop
            \/ \E p \in Workers : fetchAndRecord(p)
            \/ \E d \in Procs : drain(d) \/ fail(d)

Next == WalkStep \/ \E e \in ContextErrors : ContextEnds(e)

Spec == Init /\ [][Next]_vars

(* Goroutines are scheduled, and every call to fetch and onPage returns. *)
FairSpec == Spec /\ WF_vars(WalkStep)

-----------------------------------------------------------------------------
(* Properties. *)

Returned == pc[Caller] = "done"

PcOK ==
    /\ pc \in [Procs -> CallerStates \cup WorkerStates]
    /\ pc[Caller] \in CallerStates
    /\ \A p \in Workers : pc[p] \in WorkerStates

(* The type invariant. The semaphore and the counters never leave their ranges. *)
TypeOK ==
    /\ PcOK
    /\ opts \in Options
    /\ collection \in Collections /\ collection.rest < PerPage
    /\ ctx \in {"live"} \cup ContextErrors
    /\ walkCtx \in {"live"} \cup ContextErrors
    /\ page \in Int
    /\ shortPage \in {0} \cup Workers
    /\ itemsFetched \in Nat
    /\ cumulative \in [Procs -> Nat]
    /\ progress \subseteq [page : Procs, cumulative : Nat]
    /\ aborted \in BOOLEAN
    /\ firstErr \in [kind : {"nil", "fetch", "callback"}, page : Nat]
    /\ ready \subseteq Procs
    /\ pending \subseteq ready
    /\ delivered \in Nat
    /\ deliverMu \in {0} \cup Procs
    /\ sem \in Nat
    /\ output \in Seq(Nat)
    /\ result \in [kind : {"nil", "invalid", "fetch", "callback"}, page : Nat]

(* The walk as its caller sees it. *)
outcome == IF ~Returned THEN "open"
           ELSE IF result = nil THEN "complete" ELSE "failed"

Stream == INSTANCE PageStream WITH accepted <- delivered, outcome <- outcome

(* StreamPages: "onPage runs sequentially, never concurrently", strictly in *)
(* page order, none twice and none left out, whatever order the workers     *)
(* finish in; a page is handed over only when all before it were accepted   *)
(* (deliverMu is still held when fail sets aborted); nil is returned only   *)
(* when all were, and onPage is not called once the walk has returned.      *)
ImplementsStream == Stream!Spec

(* onPage is never run by two goroutines at once, and the pages it has been *)
(* given are 1, 2, 3 ... in that order.                                     *)
InOrderDelivery ==
    /\ \A i \in 1 .. Len(output) : output[i] = i
    /\ \A d, e \in Procs : pc[d] = "call" /\ pc[e] = "call" => d = e

(* When the last worker has finished, no recorded page is left waiting at   *)
(* the delivery frontier: a worker that finds deliverMu taken waits for it, *)
(* so the page it recorded is seen by its own drain at the latest.          *)
NoPageStranded ==
    /\ pc[Caller] \in {"wait", "lock"}
    /\ \A p \in Workers : ~Running(p)
    /\ ~aborted
    => delivered + 1 \notin ready

(* A walk that returns nil to a caller whose context is still live has      *)
(* handed over every page of the collection that has items, up to MaxPages: *)
(* neither the early stop at a short page nor a cancelled fetch loses one.  *)
CompleteOnSuccess ==
    Returned /\ result = nil /\ ctx = "live"
    => \A p \in 1 .. MaxPages : PageLen(p) > 0 => p <= Len(output)

(* The error of the walk is the error of the page it names: that page was   *)
(* the last one handed to onPage, or was never recorded.                    *)
ErrorNamesPage ==
    /\ aborted => firstErr # nil
    /\ result.kind = "callback" => result.page = Len(output)
    /\ result.kind = "fetch" => result.page \notin ready

(* At most Concurrency workers run at once, each holding one slot, and when *)
(* walkPages returns none is left running and deliverMu is free.            *)
NoWorkerLeaks ==
    /\ sem = Cardinality({p \in Workers : Running(p)})
    /\ sem <= Concurrency
    /\ Returned => sem = 0 /\ deliverMu = 0

(* OnProgress is told "the cumulative item count so far": the largest count *)
(* it hears in a successful walk is the number of items handed over.        *)
ProgressReachesTotal ==
    Returned /\ result = nil /\ ctx = "live" =>
        Max({r.cumulative : r \in progress}) = ItemsUpTo(Len(output))

(* A goroutine that cannot move: it does not exist or has finished, or it   *)
(* waits for a slot, for the workers or for deliverMu.                      *)
Blocked(d) ==
    \/ pc[d] \in {"idle", "done"}
    \/ pc[d] = "select" /\ sem >= Concurrency /\ walkCtx = "live"
    \/ pc[d] = "wait" /\ ~AllFinished
    \/ pc[d] = "lock" /\ deliverMu # 0

(* The walk never deadlocks: until it has returned, one of its goroutines   *)
(* can move.  The caller waits for slots and for wg, the workers wait for   *)
(* deliverMu, and its holder may be inside fail.                            *)
NeverStuck == ~Returned => \E d \in Procs : ~Blocked(d)

(* The order in which a goroutine passes its labels. *)
Rank == [idle |-> 1, start |-> 2, first |-> 3, firstCall |-> 4, loop |-> 5,
         select |-> 6, wait |-> 7, check |-> 8, fetch |-> 9, add |-> 10,
         record |-> 11, report |-> 12, lock |-> 13, top |-> 14, peek |-> 15,
         call |-> 16, failErr |-> 17, failAbort |-> 18, failCancel |-> 19,
         unlock |-> 20, return |-> 21, done |-> 22]

(* A step that uses up some of what a walk has to do: its context ends,     *)
(* once, or a page is accepted, at most MaxPages of them, or the dispatch   *)
(* loop moves on, at most past MaxPages, or a goroutine moves on and none   *)
(* moves back.                                                              *)
Forward ==
    \/ ctx = "live" /\ ctx' # "live"
    \/ delivered' \in delivered + 1 .. MaxPages
    \/ delivered' = delivered /\ page' \in page + 1 .. MaxPages + 1
    \/ /\ delivered' = delivered /\ page' = page
       /\ pc' # pc
       /\ \A d \in Procs : Rank[pc[d]] <= Rank[pc'[d]]

(* No step of the walk goes round in circles, drain's and the dispatcher's  *)
(* loops included: with NeverStuck, what makes every walk end.              *)
MovesForward == [][Forward]_vars

(* Every walk returns: no goroutine waits for a slot, for deliverMu or for  *)
(* the wait group for ever.                                                 *)
Termination == <>Returned

(* FetchPages "returns every item" (pagination.go:43-44): a nil error means *)
(* the collection is complete, whatever happened to the caller's context.   *)
ReturnsEveryItem ==
    Returned /\ result = nil
    => \A p \in 1 .. MaxPages : PageLen(p) > 0 => p <= Len(output)

(* drain: completed pages "wait in pending - at most Concurrency of them,   *)
(* never the whole collection" (pagination.go:177-179).                     *)
BufferBounded ==
    Cardinality({p \in pending : p > delivered}) <= Concurrency

=============================================================================
