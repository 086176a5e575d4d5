---------------------------- MODULE PaintingPlan ----------------------------
(***************************************************************************)
(* The planning algorithms of the painting shop: where a stage fits into the *)
(* day of a worker, which worker gets it, and how a day gives way when a     *)
(* stage is put into it by hand.                                             *)
(*                                                                         *)
(* They work on a table of tasks v: task -> [status, worker, start].  Tasks  *)
(* are numbered in the order of their items and steps.  Times are minutes;   *)
(* the day of a time is time \div Day.                                       *)
(***************************************************************************)
EXTENDS Integers, Sequences, SequencesExt, FiniteSets, FiniteSetsExt, TLC

CONSTANTS
    Tasks,      \* stages of all items
    Item,       \* task -> order item
    ColorPart,  \* task -> coloured part of the item
    Color,      \* task -> colour code of that part
    Process,    \* task -> painting process of its stage
    Stage,      \* task -> stage
    Dur,        \* task -> minutes of work
    Dry,        \* task -> minutes of drying
    Skill,      \* task -> skill its stage requires
    OrderOf,    \* item -> order
    Workers,    \* available paint workers, in the order of the worker cache
    Skills,     \* worker -> skills
    SkillPrio,  \* worker -> skill -> priority
    Hours,      \* worker -> [start, end, lunchStart, lunchEnd] of a day
    Barred,     \* <<worker, item>>: barred by product or by item
    Rules       \* active PaintingAssignmentRules

Day == 1440
DefaultEnd == 23 * 60 + 59      \* end of a day with overtime
MaxCascadeSteps == 100
None == 0

\* An active PaintingAssignmentRule; no stage, process or colours means any.
RuleRow == [worker : Workers, type : {"priority", "exclusive", "exclusion"},
            priority : Int, stage : Nat, process : Nat, colors : SUBSET Nat]

ASSUME PlanAssumption ==
    /\ Tasks \subseteq Nat \ {0} /\ Workers \subseteq Nat \ {0}
    /\ \A t \in Tasks : Dur[t] \in Nat \ {0} /\ Dry[t] \in Nat
    /\ \A w \in Workers :
          /\ Hours[w].start < Hours[w].lunchStart
          /\ Hours[w].lunchStart < Hours[w].lunchEnd
          /\ Hours[w].lunchEnd < Hours[w].end
    /\ Rules \subseteq RuleRow

\* The members of S in the order of a strict total order.
InOrder(S, before(_, _)) ==
    [i \in 1..Cardinality(S) |->
        CHOOSE x \in S : Cardinality({y \in S : before(y, x)}) = i - 1]

End(v, t) == v[t].start + Dur[t]
DayOf(time) == time \div Day
Scheduled(v, t) == v[t].status # "absent" /\ v[t].start # None
OnDay(v, d) == {t \in Tasks : Scheduled(v, t) /\ DayOf(v[t].start) = d}
Chain(t) == <<Item[t], ColorPart[t]>>

\* _worker_day_bounds
Bounds(w, d, overtime) ==
    [start |-> d * Day + Hours[w].start,
     end |-> d * Day + (IF overtime THEN DefaultEnd ELSE Hours[w].end),
     lunchStart |-> d * Day + Hours[w].lunchStart,
     lunchEnd |-> d * Day + Hours[w].lunchEnd]

----------------------------------------------------------------------------
(* Free time.                                                                *)

\* What the day of a worker holds: the stages on it and the lunch break.
Busy(v, w, d) ==
    {<<v[t].start, End(v, t)>> : t \in {t \in OnDay(v, d) : v[t].worker = w}}
        \cup {<<Bounds(w, d, FALSE).lunchStart, Bounds(w, d, FALSE).lunchEnd>>}

\* The time from a free moment to the next interval or the end of the day.
Gap(busy, moment, end) ==
    LET later == {i[1] : i \in {i \in busy : i[1] > moment}}
    IN  (IF later = {} THEN end ELSE Min(later)) - moment

FreeMoments(busy, ready) ==
    {m \in {ready} \cup {i[2] : i \in busy} :
        m >= ready /\ \A i \in busy : m < i[1] \/ i[2] <= m}

\* Short work takes the first gap it fits in, other work the smallest.
Short(t) == Dur[t] <= 30

\* Fault: the gap may be as much too short as a stage is long.
FindGap_TooShort(v, w, t, d, ready) ==
    LET bounds == Bounds(w, d, FALSE)
        busy   == Busy(v, w, d)
        fits   == FreeMoments(busy, Max({bounds.start, ready}))
    IN  IF fits = {} THEN None ELSE Min(fits)

FindGap(v, w, t, d, ready) ==
    LET bounds == Bounds(w, d, FALSE)
        busy   == Busy(v, w, d)
        size(m) == Gap(busy, m, bounds.end)
        fits   == {m \in FreeMoments(busy, Max({bounds.start, ready})) : size(m) >= Dur[t]}
        best   == IF Short(t) THEN fits
                  ELSE {m \in fits : \A n \in fits : size(m) <= size(n)}
    IN  IF fits = {} THEN None ELSE Min(best)

----------------------------------------------------------------------------
(* Who may do a stage, and who does it.                                      *)

\* _task_matches_rule: a rule without stage, process or colours takes any.
Matches(t, rule) ==
    /\ rule.stage # None => Stage[t] = rule.stage
    /\ rule.process # None => Process[t] = rule.process
    /\ rule.colors # {} => Color[t] \in rule.colors

RulesOf(w, type) == {rule \in Rules : rule.worker = w /\ rule.type = type}
MatchesExclusive(t, w) == \E rule \in RulesOf(w, "exclusive") : Matches(t, rule)

\* The conditions that hold for every assignment, automatic or manual.
MayDo(w, t) ==
    /\ \A rule \in RulesOf(w, "exclusion") : ~Matches(t, rule)
    /\ RulesOf(w, "exclusive") # {} => MatchesExclusive(t, w)
    /\ Skill[t] \in Skills[w]
    /\ <<w, Item[t]>> \notin Barred

\* _worker_rule_info, _order_worker_history, _item_workers, worker_load
WorkersOfOrder(v, t) ==
    {v[u].worker : u \in {u \in Tasks : OrderOf[Item[u]] = OrderOf[Item[t]]}} \ {None}
WorkersOfChain(v, t) == {v[u].worker : u \in {u \in Tasks : Chain(u) = Chain(t)}} \ {None}
Load(v, w, d) == MapThenSumSet(LAMBDA u : Dur[u], {u \in OnDay(v, d) : v[u].worker = w})

RulePriority(t, w) ==
    LET matching == {rule \in RulesOf(w, "priority") \cup RulesOf(w, "exclusive") : Matches(t, rule)}
    IN  IF matching = {} THEN 0 ELSE Max({rule.priority : rule \in matching})

\* The lower, the better.
Score(v, w, t, d, slot) ==
    LET gap == Gap(Busy(v, w, d), slot, Bounds(w, d, FALSE).end)
    IN  (slot - Bounds(w, d, FALSE).start) + 50 * Load(v, w, d) - 50 * SkillPrio[w][Skill[t]]
          - (IF w \in WorkersOfOrder(v, t) THEN 200 ELSE 0)
          - 10 * RulePriority(t, w)
          - (IF Short(t) /\ gap > 0 /\ gap <= 2 * Dur[t] THEN 40 ELSE 0)

\* Fault: rules and bars are left to the manual assignment.
Candidates_SkillOnly(v, t, d, ready, sticky) ==
    {w \in Workers : Skill[t] \in Skills[w] /\ FindGap(v, w, t, d, ready) # None}

\* Workers that may do a stage and have time for it that day; once two workers
\* share a part of an item, a third only joins by an exclusive rule.
Candidates(v, t, d, ready, sticky) ==
    {w \in Workers :
        /\ MayDo(w, t)
        /\ sticky /\ Cardinality(WorkersOfChain(v, t)) >= 2 =>
              w \in WorkersOfChain(v, t) \/ MatchesExclusive(t, w)
        /\ FindGap(v, w, t, d, ready) # None}

\* The least score wins.
BestOf(v, t, d, ready, found) ==
    LET score == [w \in found |-> Score(v, w, t, d, FindGap(v, w, t, d, ready))]
    IN  IF found = {} THEN None
        ELSE Min({w \in found : \A x \in found : score[w] <= score[x]})

\* _select_worker: sticky workers first, then anyone.
SelectWorker(v, t, d, ready) ==
    LET own == Candidates(v, t, d, ready, TRUE)
    IN  BestOf(v, t, d, ready, IF own # {} THEN own ELSE Candidates(v, t, d, ready, FALSE))

----------------------------------------------------------------------------
(* A day of a batch of stages.                                               *)

Put(v, t, w, start) == [v EXCEPT ![t].worker = w, ![t].start = start]

\* A stage goes into the plan of a worker, unless none has time for it: then
\* the rest of its chain waits for another day.
Placed(d, t, plan, ready, w) ==
    LET slot == FindGap(plan.v, w, t, d, ready)
    IN  IF w = None THEN [plan EXCEPT !.blocked = @ \cup {Chain(t)}]
        ELSE [plan EXCEPT !.v = Put(@, t, w, slot),
                          !.cursor[Chain(t)] = slot + Dur[t] + Dry[t],
                          !.planned = @ \cup {t}]

\* Fault: a stage is planned without regard to the one before it.
PlanOne_Eager(d, t, plan) ==
    IF Chain(t) \in plan.blocked THEN plan
    ELSE Placed(d, t, plan, None, SelectWorker(plan.v, t, d, None))

\* One stage of build: it waits for the stage before it to dry.
PlanOne(d, t, plan) ==
    LET ready == plan.cursor[Chain(t)]
    IN  IF Chain(t) \in plan.blocked THEN plan
        ELSE Placed(d, t, plan, ready, SelectWorker(plan.v, t, d, ready))

Open(v, t) == v[t].status \in {"pending", "waiting"}

\* PaintingScheduler._load and build
Build(v, batch, d, cursor) ==
    LET todo == {t \in batch : Open(v, t) /\ v[t].start = None}
    IN  FoldLeft(LAMBDA plan, t : PlanOne(d, t, plan),
                 [v |-> v, cursor |-> cursor, blocked |-> {}, planned |-> {}],
                 InOrder(todo, LAMBDA t, u : t < u))

Chains == {Chain(t) : t \in Tasks}
NoCursor == [c \in Chains |-> None]

\* _get_initial_item_cursors: when the last scheduled stage of a part is dry.
LastOf(v, S) == CHOOSE t \in S : \A u \in S : End(v, u) <= End(v, t)
DryAfter(v, S) == IF S = {} THEN None ELSE End(v, LastOf(v, S)) + Dry[LastOf(v, S)]
InitialCursors(v) == [c \in Chains |-> DryAfter(v, {t \in Tasks : Chain(t) = c /\ Scheduled(v, t)})]

----------------------------------------------------------------------------
(* Giving way: a stage is put into a day and pushes others on.               *)

\* _get_item_ready_time: the scheduled stage next before this one.
ReadyTime(v, t) ==
    LET before == {u \in Tasks : Chain(u) = Chain(t) /\ u < t /\ Scheduled(v, u)}
    IN  IF before = {} THEN None ELSE End(v, Max(before)) + Dry[Max(before)]

\* _get_item_next_task
NextStage(v, t) ==
    LET after == {u \in Tasks : Chain(u) = Chain(t) /\ u > t /\ Scheduled(v, u)}
    IN  IF after = {} THEN None ELSE Min(after)

Before(v, new, t, u) ==
    \/ v[t].start < v[u].start
    \/ v[t].start = v[u].start /\ t # new /\ (u = new \/ t < u)

\* A stage moves behind the one before it and out of the lunch break.
Pushed(bounds, t, acc) ==
    LET start  == Max({acc.v[t].start, acc.last})
        lunch  == start < bounds.lunchEnd /\ start + Dur[t] > bounds.lunchStart
        moment == IF lunch THEN bounds.lunchEnd ELSE start
    IN  [v |-> [acc.v EXCEPT ![t].start = moment], last |-> moment + Dur[t],
         moved |-> IF moment = acc.v[t].start THEN acc.moved ELSE Append(acc.moved, t),
         fits |-> acc.fits /\ moment + Dur[t] <= bounds.end]

\* _insert_and_cascade_worker_day: new is in the table v, at its wished start.
Insert(v, line, w, bounds, new) ==
    LET row == InOrder({t \in line : v[t].worker = w} \cup {new}, LAMBDA t, u : Before(v, new, t, u))
    IN  FoldLeft(LAMBDA acc, t : Pushed(bounds, t, acc),
                 [v |-> v, last |-> bounds.start, moved |-> <<>>, fits |-> TRUE], row)

\* _maybe_enqueue_successor: the next stage of the chain has to wait for t.
Enqueue(old, d, t, s) ==
    LET succ  == NextStage(old, t)
        ready == s.v[t].start + Dur[t] + Dry[t]
        at    == {i \in DOMAIN s.queue : s.queue[i].task = succ}
    IN  IF succ = None THEN s
        ELSE IF at # {}
        THEN [s EXCEPT !.queue = [i \in DOMAIN @ |->
                 IF i \in at THEN [@[i] EXCEPT !.ready = Max({ready, @})] ELSE @[i]]]
        ELSE IF s.v[succ].start >= ready THEN s
        ELSE IF DayOf(s.v[succ].start) # d THEN [s EXCEPT !.failure = "cross_day"]
        ELSE [s EXCEPT !.queue = Append(@, [task |-> succ, worker |-> s.v[succ].worker, ready |-> ready])]

\* One round of the loop of _run_cascade_schedule.
Round(old, d, overtime, s) ==
    LET entry  == Head(s.queue)
        t      == entry.task
        bounds == Bounds(entry.worker, d, overtime)
        placed == Put(s.v, t, entry.worker, Max({bounds.start, entry.ready}))
        day    == Insert(placed, s.line \ {t}, entry.worker, bounds, t)
        moved  == SelectSeq(day.moved, LAMBDA u : u # t)
        after  == [s EXCEPT !.v = day.v, !.line = @ \cup {t}, !.queue = Tail(@),
                            !.failure = IF day.fits THEN "none" ELSE "cannot_fit"]
    IN  IF ~day.fits THEN after
        ELSE FoldLeft(LAMBDA x, u : IF x.failure # "none" THEN x ELSE Enqueue(old, d, u, x),
                      after, <<t>> \o moved)

RECURSIVE Rounds(_, _, _, _, _)
Rounds(old, d, overtime, steps, s) ==
    IF s.failure # "none" \/ s.queue = <<>> THEN s
    ELSE IF steps = MaxCascadeSteps THEN [s EXCEPT !.failure = "too_complex"]
    ELSE Rounds(old, d, overtime, steps + 1, Round(old, d, overtime, s))

\* _run_cascade_schedule: entries is a sequence of [task, worker, ready].
Cascade(v, d, entries, overtime) ==
    Rounds(v, d, overtime, 0,
           [v |-> v, queue |-> entries, failure |-> "none",
            line |-> {t \in OnDay(v, d) : v[t].worker # None} \ {entries[i].task : i \in DOMAIN entries}])

----------------------------------------------------------------------------
(* Manual edits.                                                             *)

\* The entries of reschedule_worker_tasks_on_date: every open stage of the day,
\* by the time at which the stage before it will be dry.
Entries(v, w, d) ==
    LET mine  == {t \in OnDay(v, d) : v[t].worker = w /\ Open(v, t)}
        start == Bounds(w, d, FALSE).start
        local == FoldLeft(
            LAMBDA acc, t :
                LET ready == Max({ReadyTime(v, t), acc.cursor[Chain(t)]})
                IN  [cursor |-> [acc.cursor EXCEPT ![Chain(t)] = Max({ready, start}) + Dur[t] + Dry[t]],
                     rows |-> Append(acc.rows, [task |-> t, worker |-> w, ready |-> ready])],
            [cursor |-> NoCursor, rows |-> <<>>], InOrder(mine, LAMBDA t, u : t < u))
        key(e) == IF e.ready = None THEN start ELSE e.ready
    IN  InOrder(ToSet(local.rows),
                     LAMBDA e, f : key(e) < key(f) \/ (key(e) = key(f) /\ e.task < f.task))

\* reschedule_worker_tasks_on_date: all or nothing.
Reschedule(v, w, d, open, overtime) ==
    LET entries == Entries(v, w, d)
        result  == Cascade(v, d, entries, overtime)
    IN  IF ~open \/ entries = <<>> \/ result.failure # "none" THEN v ELSE result.v
=============================================================================
