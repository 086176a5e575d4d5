----------------------------- MODULE OperationFlow -----------------------------
(***************************************************************************)
(* The operations of one V2 production order item, and the work in progress  *)
(* that moves from one to the next (production/services.py).                *)
(*                                                                         *)
(* Every service is one transaction, hence one action, but it is handed an    *)
(* operation that its caller loaded before (OperationStartView and            *)
(* OperationCompleteView call get_object_or_404 outside the transaction) and  *)
(* it checks the status of that object, not of the row.  The operations that  *)
(* depend on it are read inside the transaction.                            *)
(*                                                                         *)
(* Quantities, times and assignments are left out: no status depends on what  *)
(* is stored of them, and whether a completion has reached its quantity is    *)
(* a choice of the caller.                                                  *)
(***************************************************************************)
EXTENDS Integers

CONSTANTS
    Operations,
    Deps,       \* active RoutingDependency rows: <<predecessor, successor>>
    Callers,
    Calls,      \* caller -> the services and views it calls
    Units,      \* serial numbers of WIP units
    None,       \* no operation
    MaxExecs    \* bound: executions of an operation before loading stops

AllCalls == {"start", "pause", "resume", "complete", "complete_view",
             "partial", "ready", "skip", "fail", "finish", "transfer"}

ASSUME FlowAssumption ==
    /\ Deps \subseteq Operations \X Operations
    /\ Calls \in [Callers -> SUBSET AllCalls]
    /\ None \notin Operations
    /\ MaxExecs \in Nat

VARIABLES
    status,  \* operation -> ProductionOperation.status
    execs,   \* operation -> number of its OperationExecution rows
    at,      \* WIP unit -> current_operation
    held     \* caller -> the objects in hand, as they were loaded

vars == <<status, execs, at, held>>

Status == {"waiting", "ready", "in_progress", "paused",
           "completed", "skipped", "failed"}

\* OperationExecution rows, counted.
Executions == [Operations -> Nat]

Preds(o) == {p \in Operations : <<p, o>> \in Deps}

Places == [Units -> Operations \cup {None}]

\* An operation, and where the WIP units were when it was loaded.
Object == [op: Operations \cup {None}, status: Status, places: Places]

\* create_wip_unit: a unit is nowhere until it is transferred.
Nowhere == [u \in Units |-> None]
Nothing == [op |-> None, status |-> "waiting", places |-> Nowhere]

\* OPERATION_TRANSITIONS.
Transitions ==
    [waiting     |-> {"ready", "in_progress"},
     ready       |-> {"in_progress", "paused", "skipped", "failed"},
     in_progress |-> {"paused", "completed", "failed"},
     paused      |-> {"in_progress", "skipped", "failed"},
     completed   |-> {},
     skipped     |-> {},
     failed      |-> {}]

\* _validate_transition looks at the object in hand.
MayBecome(c, target) == target \in Transitions[held[c].status]

Holds(c, call) == held[c].op # None /\ call \in Calls[c]

-----------------------------------------------------------------------------

\* Fault: the successors of a skipped operation are forgotten.
Successors_OfCompleted(o, target) ==
    IF target = "completed" THEN {s \in Operations : <<o, s>> \in Deps} ELSE {}

\* _get_direct_successors, for the targets that release them.
Successors(o, target) ==
    IF target \in {"completed", "skipped"}
    THEN {s \in Operations : <<o, s>> \in Deps} ELSE {}

\* Fault: V1's name for an operation that may start.
Released_Pending(tbl, S) ==
    [o \in Operations |->
        IF o \in S /\ tbl[o] = "waiting" THEN "pending" ELSE tbl[o]]

\* Successors that wait become ready.
Released(tbl, S) ==
    [o \in Operations |->
        IF o \in S /\ tbl[o] = "waiting" THEN "ready" ELSE tbl[o]]

\* Fault: only the completion of a running operation is recorded.
Recorded_Running(c, target) == target = "completed" /\ held[c].status = "in_progress"

Recorded(c, target) == target = "completed"

\* The status is written, a completion recorded, successors released, and
\* the object in hand keeps what was written.
Write(c, target) ==
    LET o == held[c].op
    IN  /\ status' = Released([status EXCEPT ![o] = target], Successors(o, target))
        /\ execs' = IF Recorded(c, target) THEN [execs EXCEPT ![o] = @ + 1] ELSE execs
        /\ held' = [held EXCEPT ![c].status = target]
        /\ UNCHANGED at

-----------------------------------------------------------------------------
(* Callers *)

Load(c, o) ==
    /\ held[c].op = None
    /\ \A p \in Operations : execs[p] <= MaxExecs
    /\ held' = [held EXCEPT ![c] = [op |-> o, status |-> status[o], places |-> at]]
    /\ UNCHANGED <<status, execs, at>>

\* The request ends, after its service or with an error.
Drop(c) ==
    /\ held[c].op # None
    /\ held' = [held EXCEPT ![c] = Nothing]
    /\ UNCHANGED <<status, execs, at>>

\* start_operation and resume_operation.
Start(c) ==
    /\ Holds(c, "start") \/ Holds(c, "resume")
    /\ MayBecome(c, "in_progress")
    /\ Write(c, "in_progress")

\* pause_operation.
Pause(c) ==
    /\ Holds(c, "pause")
    /\ MayBecome(c, "paused")
    /\ Write(c, "paused")

\* complete_operation checks no status; OperationCompleteView does, of the
\* object it loaded.
Complete(c) ==
    /\ \/ Holds(c, "complete")
       \/ Holds(c, "complete_view") /\ held[c].status = "in_progress"
    /\ execs[held[c].op] <= MaxExecs
    /\ Write(c, "completed")

\* partial_complete_operation, when the quantity is reached or by force,
\* whatever the status; before, it only counts.
PartialComplete(c) ==
    /\ Holds(c, "partial")
    /\ execs[held[c].op] <= MaxExecs
    /\ Write(c, "completed")

Due(o) == \A p \in Preds(o) : status[p] = "completed"

\* transition_operation to 'ready': every predecessor is completed.
MakeReady(c) ==
    /\ Holds(c, "ready")
    /\ MayBecome(c, "ready")
    /\ Due(held[c].op)
    /\ Write(c, "ready")

\* transition_operation to 'completed', 'skipped' and 'failed'.
Finish(c) ==
    /\ Holds(c, "finish")
    /\ MayBecome(c, "completed")
    /\ Write(c, "completed")

Skip(c) ==
    /\ Holds(c, "skip")
    /\ MayBecome(c, "skipped")
    /\ Write(c, "skipped")

Fail(c) ==
    /\ Holds(c, "fail")
    /\ MayBecome(c, "failed")
    /\ Write(c, "failed")

\* Fault: the gate is open for operations that wait.
Enterable_Waiting(s) == s \notin {"completed", "skipped", "failed"}

\* transfer_wip moves units to operations that may be worked on.
Enterable(s) == s \in {"ready", "in_progress", "paused"}

\* transfer_wip to the operation in hand, of a unit that was loaded with it.
\* The unit never gets the status completed: the gate shut that branch out.
Transfer(c, u) ==
    /\ Holds(c, "transfer")
    /\ held[c].places[u] # held[c].op
    /\ Enterable(held[c].status)
    /\ at' = [at EXCEPT ![u] = held[c].op]
    /\ held' = [held EXCEPT ![c].places[u] = held[c].op]
    /\ UNCHANGED <<status, execs>>

-----------------------------------------------------------------------------

\* create_operations_for_order_item: every operation waits.
Init ==
    /\ status = [o \in Operations |-> "waiting"]
    /\ execs = [o \in Operations |-> 0]
    /\ at = Nowhere
    /\ held = [c \in Callers |-> Nothing]

Service(c) ==
    \/ Start(c) \/ Pause(c) \/ Complete(c) \/ PartialComplete(c)
    \/ MakeReady(c) \/ Finish(c) \/ Skip(c) \/ Fail(c)

Next ==
    \E c \in Callers :
        \/ \E o \in Operations : Load(c, o)
        \/ Drop(c)
        \/ Service(c)
        \/ \E u \in Units : Transfer(c, u)

Spec == Init /\ [][Next]_vars

-----------------------------------------------------------------------------
(* Properties *)

\* The tables and the objects in hand have their types.
TypeOK ==
    /\ status \in [Operations -> Status]
    /\ execs \in Executions
    /\ at \in Places
    /\ held \in [Callers -> Object]

\* A completed operation has an OperationExecution, whichever service and
\* whichever stale object completed it.
CompletedIsRecorded ==
    \A o \in Operations : status[o] = "completed" => execs[o] >= 1

\* Nobody waits for an operation that is over: completing and skipping
\* release every successor in the same transaction, and no stale object puts
\* one back to waiting.
NoneLeftWaiting ==
    \A d \in Deps :
        status[d[1]] \in {"completed", "skipped"} => status[d[2]] # "waiting"

\* Work in progress is never at an operation that was not released.
WorkIsReleased ==
    \A u \in Units : at[u] # None => status[at[u]] # "waiting"

\* "Only RoutingDependency makes a successor ready": an operation with
\* predecessors becomes ready when one of them is over.
ReadyForAReason ==
    [][\A o \in Operations :
          status[o] # "ready" /\ status'[o] = "ready" /\ Preds(o) # {} =>
              \E p \in Preds(o) : status'[p] \in {"completed", "skipped"}]_vars

\* The caller asks for a completion that checks no status.
GoesAround(c) == {"complete", "partial"} \cap Calls[c] # {}

\* A status changes along OPERATION_TRANSITIONS, unless the object in hand
\* was stale or its caller went around OperationCompleteView.
TransitionsRespected ==
    [][\A o \in Operations :
          status'[o] # status[o] =>
              \/ status'[o] \in Transitions[status[o]]
              \/ \E c \in Callers :
                    /\ held[c].op = o /\ held'[c].status = status'[o]
                    /\ held[c].status # status[o] \/ GoesAround(c)]_vars
=============================================================================
