-------------------------- MODULE OperationFlowProofs --------------------------
(***************************************************************************)
(* What holds for every routing, every number of callers and every choice   *)
(* of services.  The inductive invariant adds to the properties that an       *)
(* object in hand is stale in one direction only: an operation that it does   *)
(* not show waiting does not wait.                                          *)
(***************************************************************************)
EXTENDS OperationFlow, TLAPS

USE DEF Executions

\* Nothing returns to waiting behind the back of an object in hand.
HeldReleased ==
    \A c \in Callers :
        held[c].op # None /\ held[c].status # "waiting" => status[held[c].op] # "waiting"

FlowInv ==
    /\ TypeOK
    /\ CompletedIsRecorded
    /\ NoneLeftWaiting
    /\ HeldReleased
    /\ WorkIsReleased

Targets == Status \ {"waiting"}

\* Every service writes one of the targets, and completes only with a record.
LEMMA ServiceWrites ==
    ASSUME NEW c \in Callers, Service(c)
    PROVE  /\ held[c].op # None
           /\ \E t \in Targets : Write(c, t)
  <1>1. held[c].op # None
    BY DEF Service, Start, Pause, Complete, PartialComplete, MakeReady, Finish, Skip, Fail, Holds
  <1>2. \E t \in Targets : Write(c, t)
    BY DEF Service, Start, Pause, Complete, PartialComplete, MakeReady, Finish, Skip, Fail, Targets, Status
  <1> QED BY <1>1, <1>2

\* The statuses after a write: the target, and ready for waiting successors.
LEMMA WriteStatus ==
    ASSUME TypeOK, NEW c \in Callers, NEW t \in Targets, held[c].op # None, Write(c, t)
    PROVE  /\ held[c].op \in Operations
           /\ status' \in [Operations -> Status]
           /\ status'[held[c].op] # "waiting"
           /\ \A o \in Operations : status'[o] = "waiting" => status[o] = "waiting"
           /\ \A o \in Operations : status'[o] = "completed" =>
                  status[o] = "completed" \/ (o = held[c].op /\ t = "completed")
           /\ \A o \in Operations : status'[o] = "skipped" =>
                  status[o] = "skipped" \/ (o = held[c].op /\ t = "skipped")
           /\ t \in {"completed", "skipped"} =>
                  \A d \in Deps : d[1] = held[c].op => status'[d[2]] # "waiting"
  <1> DEFINE o1 == held[c].op
             tbl == [status EXCEPT ![o1] = t]
             S == Successors(o1, t)
  <1>1. o1 \in Operations
    BY DEF TypeOK, Object
  <1>2. tbl \in [Operations -> Status] /\ tbl[o1] = t
    BY <1>1 DEF TypeOK, Targets
  <1>3. status' = [o \in Operations |->
                      IF o \in S /\ tbl[o] = "waiting" THEN "ready" ELSE tbl[o]]
    BY DEF Write, Released
  <1>4. status' \in [Operations -> Status]
    BY <1>2, <1>3 DEF Status
  <1>5. \A o \in Operations : o # o1 => tbl[o] = status[o]
    BY DEF TypeOK
  <1>6. status'[o1] # "waiting"
    BY <1>1, <1>2, <1>3 DEF Targets
  <1>7. \A o \in Operations : status'[o] = "waiting" => status[o] = "waiting"
    BY <1>2, <1>3, <1>5 DEF Targets
  <1>8. \A o \in Operations : status'[o] = "completed" =>
            status[o] = "completed" \/ (o = o1 /\ t = "completed")
    BY <1>2, <1>3, <1>5
  <1>9. \A o \in Operations : status'[o] = "skipped" =>
            status[o] = "skipped" \/ (o = o1 /\ t = "skipped")
    BY <1>2, <1>3, <1>5
  <1>10. ASSUME t \in {"completed", "skipped"}, NEW d \in Deps, d[1] = o1
         PROVE  status'[d[2]] # "waiting"
    <2>1. d[2] \in Operations /\ d = <<d[1], d[2]>>
      BY FlowAssumption
    <2>2. d[2] \in S
      BY <1>10, <2>1 DEF Successors
    <2> QED BY <1>3, <2>1, <2>2
  <1> QED BY <1>1, <1>4, <1>6, <1>7, <1>8, <1>9, <1>10

\* What a write leaves in the other tables.
LEMMA WriteOthers ==
    ASSUME TypeOK, NEW c \in Callers, NEW t \in Targets, held[c].op # None, Write(c, t)
    PROVE  /\ execs' \in [Operations -> Nat]
           /\ \A o \in Operations : execs'[o] >= execs[o]
           /\ t = "completed" => execs'[held[c].op] >= 1
           /\ held' \in [Callers -> Object]
           /\ \A b \in Callers : held'[b].op = held[b].op
           /\ \A b \in Callers : b # c => held'[b] = held[b]
           /\ at' = at
  <1>1. held[c].op \in Operations
    BY DEF TypeOK, Object
  <1>2. execs' = IF t = "completed" THEN [execs EXCEPT ![held[c].op] = @ + 1] ELSE execs
    BY DEF Write, Recorded
  <1>3. /\ execs' \in [Operations -> Nat]
        /\ \A o \in Operations : execs'[o] >= execs[o]
        /\ t = "completed" => execs'[held[c].op] >= 1
    BY <1>1, <1>2 DEF TypeOK
  <1>4. held' = [held EXCEPT ![c].status = t]
    BY DEF Write
  <1>5. held' \in [Callers -> Object]
    BY <1>4 DEF TypeOK, Object, Targets
  <1>6. \A b \in Callers : held'[b].op = held[b].op
    BY <1>4 DEF TypeOK, Object
  <1>7. \A b \in Callers : b # c => held'[b] = held[b]
    BY <1>4 DEF TypeOK
  <1> QED BY <1>3, <1>5, <1>6, <1>7 DEF Write

-----------------------------------------------------------------------------

LEMMA InitFlow == ASSUME Init PROVE FlowInv
  <1>1. TypeOK
    <2>1. Nowhere \in Places
      BY DEF Nowhere, Places
    <2>2. Nothing \in Object
      BY <2>1 DEF Nothing, Object, Status
    <2>3. status \in [Operations -> Status] /\ execs \in [Operations -> Nat]
      BY DEF Init, Status
    <2>4. at \in Places /\ held \in [Callers -> Object]
      BY <2>1, <2>2 DEF Init
    <2> QED BY <2>3, <2>4 DEF TypeOK
  <1>2. CompletedIsRecorded
    BY DEF Init, CompletedIsRecorded
  <1>3. NoneLeftWaiting
    BY FlowAssumption DEF Init, NoneLeftWaiting
  <1>4. HeldReleased
    BY DEF Init, HeldReleased, Nothing
  <1>5. WorkIsReleased
    BY DEF Init, WorkIsReleased, Nowhere
  <1> QED BY <1>1, <1>2, <1>3, <1>4, <1>5 DEF FlowInv

LEMMA LoadKeeps ==
    ASSUME FlowInv, NEW c \in Callers, NEW o \in Operations, Load(c, o)
    PROVE  FlowInv'
  <1> USE DEF FlowInv, Load
  <1>1. [op |-> o, status |-> status[o], places |-> at] \in Object
    BY DEF TypeOK, Object
  <1>2. TypeOK'
    BY <1>1 DEF TypeOK
  <1>3. HeldReleased'
    <2> SUFFICES ASSUME NEW b \in Callers, held'[b].op # None, held'[b].status # "waiting"
                 PROVE  status[held'[b].op] # "waiting"
      BY DEF HeldReleased
    <2>1. CASE b = c
      BY <2>1 DEF TypeOK
    <2>2. CASE b # c
      BY <2>2 DEF TypeOK, HeldReleased
    <2> QED BY <2>1, <2>2
  <1> QED BY <1>2, <1>3 DEF CompletedIsRecorded, NoneLeftWaiting, WorkIsReleased

LEMMA DropKeeps ==
    ASSUME FlowInv, NEW c \in Callers, Drop(c)
    PROVE  FlowInv'
  <1> USE DEF FlowInv, Drop
  <1>1. Nothing \in Object
    BY DEF Nothing, Nowhere, Object, Status, Places
  <1>2. TypeOK'
    BY <1>1 DEF TypeOK
  <1>3. HeldReleased'
    <2> SUFFICES ASSUME NEW b \in Callers, held'[b].op # None, held'[b].status # "waiting"
                 PROVE  status[held'[b].op] # "waiting"
      BY DEF HeldReleased
    <2>1. b # c
      BY DEF TypeOK, Nothing
    <2> QED BY <2>1 DEF TypeOK, HeldReleased
  <1> QED BY <1>2, <1>3 DEF CompletedIsRecorded, NoneLeftWaiting, WorkIsReleased

LEMMA TransferKeeps ==
    ASSUME FlowInv, NEW c \in Callers, NEW u \in Units, Transfer(c, u)
    PROVE  FlowInv'
  <1> USE DEF FlowInv
  <1>1. /\ held[c].op # None /\ held[c].op \in Operations
        /\ held[c].status # "waiting"
    BY DEF Transfer, Holds, Enterable, TypeOK, Object
  <1>2. status' = status /\ execs' = execs
    BY DEF Transfer
  <1>3. at' = [at EXCEPT ![u] = held[c].op] /\ at' \in Places
    BY <1>1 DEF Transfer, TypeOK, Places
  <1>4. [held[c].places EXCEPT ![u] = held[c].op] \in Places
    BY <1>1 DEF TypeOK, Object, Places
  <1>5. held' = [held EXCEPT ![c].places[u] = held[c].op]
    BY DEF Transfer
  <1>6. held'[c] = [held[c] EXCEPT !.places[u] = held[c].op]
    BY <1>5 DEF TypeOK
  <1>7. held' \in [Callers -> Object]
    BY <1>4, <1>5 DEF TypeOK, Object
  <1>8. \A b \in Callers : held'[b].op = held[b].op /\ held'[b].status = held[b].status
    BY <1>5 DEF TypeOK, Object
  <1>9. TypeOK'
    BY <1>2, <1>3, <1>7 DEF TypeOK
  <1>10. HeldReleased'
    BY <1>2, <1>8 DEF HeldReleased
  <1>11. WorkIsReleased'
    <2> SUFFICES ASSUME NEW v \in Units, at'[v] # None
                 PROVE  status[at'[v]] # "waiting"
      BY <1>2 DEF WorkIsReleased
    <2>1. CASE v = u
      BY <1>1, <1>3, <2>1 DEF TypeOK, Places, HeldReleased
    <2>2. CASE v # u
      BY <1>3, <2>2 DEF TypeOK, Places, WorkIsReleased
    <2> QED BY <2>1, <2>2
  <1> QED BY <1>2, <1>9, <1>10, <1>11 DEF CompletedIsRecorded, NoneLeftWaiting

LEMMA ServiceKeeps ==
    ASSUME FlowInv, NEW c \in Callers, Service(c)
    PROVE  FlowInv'
  <1> USE DEF FlowInv
  <1>1. held[c].op # None /\ \E t \in Targets : Write(c, t)
    BY ServiceWrites
  <1>2. PICK t \in Targets : Write(c, t)
    BY <1>1
  <1>3. /\ held[c].op \in Operations
        /\ status' \in [Operations -> Status]
        /\ status'[held[c].op] # "waiting"
        /\ \A o \in Operations : status'[o] = "waiting" => status[o] = "waiting"
        /\ \A o \in Operations : status'[o] = "completed" =>
               status[o] = "completed" \/ (o = held[c].op /\ t = "completed")
        /\ \A o \in Operations : status'[o] = "skipped" =>
               status[o] = "skipped" \/ (o = held[c].op /\ t = "skipped")
        /\ t \in {"completed", "skipped"} =>
               \A d \in Deps : d[1] = held[c].op => status'[d[2]] # "waiting"
    BY <1>1, <1>2, WriteStatus
  <1>4. /\ execs' \in [Operations -> Nat]
        /\ \A o \in Operations : execs'[o] >= execs[o]
        /\ t = "completed" => execs'[held[c].op] >= 1
        /\ held' \in [Callers -> Object]
        /\ \A b \in Callers : held'[b].op = held[b].op
        /\ \A b \in Callers : b # c => held'[b] = held[b]
        /\ at' = at
    BY <1>1, <1>2, WriteOthers
  <1>5. TypeOK'
    BY <1>3, <1>4 DEF TypeOK
  <1>6. CompletedIsRecorded'
    <2> SUFFICES ASSUME NEW o \in Operations, status'[o] = "completed"
                 PROVE  execs'[o] >= 1
      BY DEF CompletedIsRecorded
    <2>1. CASE status[o] = "completed"
      <3>1. execs[o] >= 1 /\ execs[o] \in Nat /\ execs'[o] \in Nat
        BY <1>4, <2>1 DEF CompletedIsRecorded, TypeOK
      <3> QED BY <1>4, <3>1
    <2>2. CASE o = held[c].op /\ t = "completed"
      BY <1>4, <2>2
    <2> QED BY <1>3, <2>1, <2>2
  <1>7. NoneLeftWaiting'
    <2> SUFFICES ASSUME NEW d \in Deps, status'[d[1]] \in {"completed", "skipped"}
                 PROVE  status'[d[2]] # "waiting"
      BY DEF NoneLeftWaiting
    <2>1. d[1] \in Operations /\ d[2] \in Operations
      BY FlowAssumption
    <2>2. CASE status[d[1]] \in {"completed", "skipped"}
      BY <1>3, <2>1, <2>2 DEF NoneLeftWaiting
    <2>3. CASE d[1] = held[c].op /\ t \in {"completed", "skipped"}
      BY <1>3, <2>3
    <2> QED BY <1>3, <2>1, <2>2, <2>3
  <1>8. HeldReleased'
    <2> SUFFICES ASSUME NEW b \in Callers, held'[b].op # None, held'[b].status # "waiting"
                 PROVE  status'[held'[b].op] # "waiting"
      BY DEF HeldReleased
    <2>1. CASE b = c
      BY <1>3, <1>4, <2>1
    <2>2. CASE b # c
      <3>1. held[b].op \in Operations
        BY <1>4, <2>2 DEF TypeOK, Object
      <3>2. status[held[b].op] # "waiting"
        BY <1>4, <2>2 DEF HeldReleased
      <3> QED BY <1>3, <1>4, <2>2, <3>1, <3>2
    <2> QED BY <2>1, <2>2
  <1>9. WorkIsReleased'
    BY <1>3, <1>4 DEF WorkIsReleased, TypeOK, Places
  <1> QED BY <1>5, <1>6, <1>7, <1>8, <1>9

LEMMA NextKeepsFlow == FlowInv /\ [Next]_vars => FlowInv'
  <1> SUFFICES ASSUME FlowInv, [Next]_vars PROVE FlowInv'
    OBVIOUS
  <1>1. CASE UNCHANGED vars
    BY <1>1 DEF vars, FlowInv, TypeOK, CompletedIsRecorded, NoneLeftWaiting,
                HeldReleased, WorkIsReleased
  <1>2. CASE Next
    <2>1. PICK c \in Callers : \/ \E o \in Operations : Load(c, o)
                               \/ Drop(c)
                               \/ Service(c)
                               \/ \E u \in Units : Transfer(c, u)
      BY <1>2 DEF Next
    <2> QED BY <2>1, LoadKeeps, DropKeeps, ServiceKeeps, TransferKeeps
  <1> QED BY <1>1, <1>2

LEMMA FlowAlways == Spec => []FlowInv
  <1>1. Init => FlowInv
    BY InitFlow
  <1> QED BY <1>1, NextKeepsFlow, PTL DEF Spec

\* Tables and objects in hand keep their types, for any routing.
THEOREM FlowTypeCorrect == Spec => []TypeOK
  <1>1. FlowInv => TypeOK
    BY DEF FlowInv
  <1> QED BY <1>1, FlowAlways, PTL

\* No interleaving of services completes an operation without a record.
THEOREM CompletionsRecorded == Spec => []CompletedIsRecorded
  <1>1. FlowInv => CompletedIsRecorded
    BY DEF FlowInv
  <1> QED BY <1>1, FlowAlways, PTL

\* No successor of an operation that is over waits, in any routing graph.
THEOREM SuccessorsReleased == Spec => []NoneLeftWaiting
  <1>1. FlowInv => NoneLeftWaiting
    BY DEF FlowInv
  <1> QED BY <1>1, FlowAlways, PTL

\* Work in progress only is at operations that were released.
THEOREM WorkAlwaysReleased == Spec => []WorkIsReleased
  <1>1. FlowInv => WorkIsReleased
    BY DEF FlowInv
  <1> QED BY <1>1, FlowAlways, PTL

\* A service that makes an operation ready was MakeReady, with every
\* predecessor completed, or completed or skipped a predecessor.
LEMMA ServiceMakesReady ==
    ASSUME TypeOK, NEW c \in Callers, Service(c), \A d \in Deps : d[1] # d[2],
           NEW o \in Operations, status[o] # "ready", status'[o] = "ready", Preds(o) # {}
    PROVE  \E p \in Preds(o) : status'[p] \in {"completed", "skipped"}
  <1>1. held[c].op \in Operations
    BY ServiceWrites DEF TypeOK, Object
  <1>2. CASE MakeReady(c)
    <2>1. Write(c, "ready") /\ Due(held[c].op)
      BY <1>2 DEF MakeReady
    <2>2. status' = [status EXCEPT ![held[c].op] = "ready"]
      BY <1>1, <2>1 DEF Write, Released, Successors, TypeOK
    <2>3. o = held[c].op
      BY <1>1, <2>2 DEF TypeOK
    <2>4. PICK p \in Preds(o) : TRUE
      OBVIOUS
    <2>5. p \in Operations /\ <<p, o>> \in Deps
      BY DEF Preds
    <2>6. p # o
      BY <2>5
    <2>7. status'[p] = "completed"
      BY <2>1, <2>2, <2>3, <2>4, <2>5, <2>6 DEF Due, TypeOK
    <2> QED BY <2>4, <2>7
  <1>3. CASE ~MakeReady(c)
    <2>1. PICK t \in Targets \ {"ready"} : Write(c, t)
      BY <1>3 DEF Service, Start, Pause, Complete, PartialComplete, Finish, Skip, Fail, Targets, Status
    <2> DEFINE tbl == [status EXCEPT ![held[c].op] = t]
    <2>2. status' = [q \in Operations |->
              IF q \in Successors(held[c].op, t) /\ tbl[q] = "waiting"
              THEN "ready" ELSE tbl[q]]
      BY <2>1 DEF Write, Released
    <2>3. tbl[held[c].op] = t /\ \A q \in Operations : q # held[c].op => tbl[q] = status[q]
      BY <1>1 DEF TypeOK
    <2>4. o \in Successors(held[c].op, t)
      BY <1>1, <2>1, <2>2, <2>3
    <2>5. t \in {"completed", "skipped"} /\ <<held[c].op, o>> \in Deps
      BY <2>4 DEF Successors
    <2>6. held[c].op \in Preds(o)
      BY <1>1, <2>5 DEF Preds
    <2>7. status'[held[c].op] = t
      BY <1>1, <2>2, <2>3, <2>5
    <2> QED BY <2>5, <2>6, <2>7
  <1> QED BY <1>2, <1>3

\* Where no operation depends on itself, an operation with predecessors
\* becomes ready only when one of them is over.
THEOREM ReadyOnlyForAReason ==
    ASSUME \A d \in Deps : d[1] # d[2]
    PROVE  Spec => ReadyForAReason
  <1> DEFINE Reason ==
        \A o \in Operations :
            status[o] # "ready" /\ status'[o] = "ready" /\ Preds(o) # {} =>
                \E p \in Preds(o) : status'[p] \in {"completed", "skipped"}
  <1>1. TypeOK /\ [Next]_vars => [Reason]_vars
    <2> SUFFICES ASSUME TypeOK, Next PROVE Reason
      OBVIOUS
    <2>1. PICK c \in Callers : \/ \E o \in Operations : Load(c, o)
                               \/ Drop(c)
                               \/ Service(c)
                               \/ \E u \in Units : Transfer(c, u)
      BY DEF Next
    <2>2. CASE Service(c)
      BY <2>2, ServiceMakesReady
    <2>3. CASE status' = status
      BY <2>3
    <2> QED BY <2>1, <2>2, <2>3 DEF Load, Drop, Transfer
  <1>2. Spec => []TypeOK
    BY FlowTypeCorrect
  <1> QED BY <1>1, <1>2, PTL DEF Spec, ReadyForAReason

\* What a service writes is a transition of the object in hand, or its
\* caller went around the view.
LEMMA ServiceFollowsTable ==
    ASSUME TypeOK, NEW c \in Callers, Service(c)
    PROVE  \E t \in Targets :
               /\ Write(c, t)
               /\ t \in Transitions[held[c].status] \/ GoesAround(c)
  <1>1. CASE Complete(c)
    <2>1. Write(c, "completed") /\ "completed" \in Targets
      BY <1>1 DEF Complete, Targets, Status
    <2>2. GoesAround(c) \/ held[c].status = "in_progress"
      BY <1>1 DEF Complete, Holds, GoesAround
    <2>3. "completed" \in Transitions["in_progress"]
      BY DEF Transitions
    <2> QED BY <2>1, <2>2, <2>3
  <1>2. CASE Start(c)
    BY <1>2 DEF Start, MayBecome, Targets, Status
  <1>3. CASE Pause(c)
    BY <1>3 DEF Pause, MayBecome, Targets, Status
  <1>4. CASE MakeReady(c)
    BY <1>4 DEF MakeReady, MayBecome, Targets, Status
  <1>5. CASE Finish(c)
    BY <1>5 DEF Finish, MayBecome, Targets, Status
  <1>6. CASE Skip(c)
    BY <1>6 DEF Skip, MayBecome, Targets, Status
  <1>7. CASE Fail(c)
    BY <1>7 DEF Fail, MayBecome, Targets, Status
  <1>8. CASE PartialComplete(c)
    BY <1>8 DEF PartialComplete, Holds, GoesAround, Targets, Status
  <1> QED BY <1>1, <1>2, <1>3, <1>4, <1>5, <1>6, <1>7, <1>8 DEF Service

\* A status only leaves the table of transitions through a stale object or
\* through complete_operation or partial_complete_operation, for any callers and routing.
THEOREM TransitionsAlwaysRespected == Spec => TransitionsRespected
  <1> DEFINE Respected ==
        \A o \in Operations :
            status'[o] # status[o] =>
                \/ status'[o] \in Transitions[status[o]]
                \/ \E c \in Callers :
                      /\ held[c].op = o /\ held'[c].status = status'[o]
                      /\ held[c].status # status[o] \/ GoesAround(c)
  <1>1. TypeOK /\ [Next]_vars => [Respected]_vars
    <2> SUFFICES ASSUME TypeOK, Next PROVE Respected
      OBVIOUS
    <2>1. PICK c \in Callers : \/ \E o \in Operations : Load(c, o)
                               \/ Drop(c)
                               \/ Service(c)
                               \/ \E u \in Units : Transfer(c, u)
      BY DEF Next
    <2>2. ASSUME Service(c) PROVE Respected
      <3>1. PICK t \in Targets : /\ Write(c, t)
                                 /\ t \in Transitions[held[c].status] \/ GoesAround(c)
        BY <2>2, ServiceFollowsTable
      <3> DEFINE o1 == held[c].op
                 tbl == [status EXCEPT ![o1] = t]
      <3>2. o1 \in Operations
        BY <2>2, ServiceWrites DEF TypeOK, Object
      <3>3. status' = [q \in Operations |->
                IF q \in Successors(o1, t) /\ tbl[q] = "waiting" THEN "ready" ELSE tbl[q]]
        BY <3>1 DEF Write, Released
      <3>4. tbl[o1] = t /\ \A q \in Operations : q # o1 => tbl[q] = status[q]
        BY <3>2 DEF TypeOK
      <3>5. status'[o1] = t
        BY <3>2, <3>3, <3>4 DEF Targets
      <3>6. held' = [held EXCEPT ![c].status = t]
        BY <3>1 DEF Write
      <3>7. held'[c].status = t
        BY <3>6 DEF TypeOK, Object
      <3>8. SUFFICES ASSUME NEW o \in Operations, status'[o] # status[o]
                     PROVE  \/ status'[o] \in Transitions[status[o]]
                            \/ \E b \in Callers :
                                  /\ held[b].op = o /\ held'[b].status = status'[o]
                                  /\ held[b].status # status[o] \/ GoesAround(b)
        OBVIOUS
      <3>9. CASE o = o1
        BY <3>1, <3>5, <3>7, <3>9
      <3>10. CASE o # o1
        <4>1. status[o] = "waiting" /\ status'[o] = "ready"
          BY <3>3, <3>4, <3>8, <3>10
        <4> QED BY <4>1 DEF Transitions
      <3> QED BY <3>9, <3>10
    <2>3. CASE status' = status
      BY <2>3
    <2> QED BY <2>1, <2>2, <2>3 DEF Load, Drop, Transfer
  <1>2. Spec => []TypeOK
    BY FlowTypeCorrect
  <1> QED BY <1>1, <1>2, PTL DEF Spec, TransitionsRespected
=============================================================================
