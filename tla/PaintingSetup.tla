--------------------------- MODULE PaintingSetup ---------------------------
(***************************************************************************)
(* What the painting scheduler plans with (src/product/views.py, forms.py, *)
(* utils.py): processes and their stages, painters and assignment rules,   *)
(* edited on the planner's pages and in the Django admin; the caches every *)
(* server process keeps of processes and painters; and the painting tasks  *)
(* an item is given from them.                                             *)
(*                                                                         *)
(* A server handles one request at a time.  An edit loads a row, changes   *)
(* what the page names and saves the whole row in a second step; a row that*)
(* was deleted in between is inserted again.  The save tells the caches of *)
(* its own server only.  Skills are a flag of a painter, names, durations  *)
(* and priorities are left out.                                            *)
(***************************************************************************)
EXTENDS Integers, Sequences, FiniteSets, FiniteSetsExt

CONSTANTS Servers,      \* server processes
          Colours,      \* colour codes
          Users,        \* user accounts; each has one profile at most
          Items,        \* items of one order
          ColourOf,     \* item -> sequence of the colours of its colour parts
          MaxRows,      \* bound: table -> rows ever created
          MaxEdits,     \* bound: edits and deletions
          None          \* a null reference, a deleted row, an empty cache

ASSUME ColourAssumption == ColourOf \in [Items -> Seq(Colours)]

VARIABLES db,        \* table -> sequence by primary key of rows, None where deleted
          bars,      \* painters barred from products or order items: <<painter, kind>>
          tasks,     \* painting tasks of the items: a set of rows
          cache,     \* server -> the processes and painters it remembers, or None
          desk,      \* server -> the edit it is about to save, or None
          edits,     \* counts what MaxEdits bounds
          past       \* what happened, for the properties only

vars == <<db, bars, tasks, cache, desk, edits, past>>

(* Which products or items bars are for does not matter here.               *)
Kinds == {"products", "items"}

Tables == {"processes", "stages", "workers", "rules"}
Rows(t) == {k \in DOMAIN db[t] : db[t][k] # None}

ProcessRow == [is_active : BOOLEAN, color_codes : SUBSET Colours]
StageRow == [process : Nat, order : Nat]
WorkerRow == [user : Users, stage : {"paint", "cut"}, is_available : BOOLEAN, skilled : BOOLEAN]
RuleRow == [worker : Nat, painting_stage : Nat \cup {None}, process : Nat \cup {None}, is_active : BOOLEAN]
TaskRow == [order_item : Items, part : Nat, painting_stage : Nat \cup {None}, step_order : Nat, done : BOOLEAN]

RowTypes == [processes |-> ProcessRow, stages |-> StageRow, workers |-> WorkerRow, rules |-> RuleRow]
(* What is remembered of a process.                                        *)
Remembered == [process : Nat, stages : Nat]

ASSUME NoneAssumption == /\ None \notin Nat \cup BOOLEAN \cup Remembered
                         /\ \A t \in Tables : None \notin RowTypes[t]

StagesOf(p) == {k \in Rows("stages") : db.stages[k].process = p}

(***************************************************************************)
(* Constraints of the database.                                            *)
(***************************************************************************)
Refers(table, row) ==
  CASE table = "stages" -> row.process \in Rows("processes")
    [] table = "rules" -> /\ row.worker \in Rows("workers")
                          /\ row.painting_stage \in Rows("stages") \cup {None}
                          /\ row.process \in Rows("processes") \cup {None}
    [] OTHER -> TRUE
Unique(table, id, row) ==
  \A k \in Rows(table) \ {id} :
    CASE table = "stages" -> <<db.stages[k].process, db.stages[k].order>> # <<row.process, row.order>>
      [] table = "workers" -> db.workers[k].user # row.user
      [] OTHER -> TRUE
Put(rows, id, row) == IF id = None THEN Append(rows, row) ELSE [rows EXCEPT ![id] = row]

(***************************************************************************)
(* The caches.  A process is remembered with the number of its stages; of  *)
(* two active processes of one colour the younger one is found.            *)
(***************************************************************************)
Active(p) == p \in Rows("processes") /\ db.processes[p].is_active
ProcessesInDb ==
  [c \in Colours |->
     LET those == {p \in Rows("processes") : Active(p) /\ c \in db.processes[p].color_codes}
     IN IF those = {} THEN None
        ELSE [process |-> Max(those), stages |-> Cardinality(StagesOf(Max(those)))]]
WorkersInDb == {[user |-> db.workers[w].user, skilled |-> db.workers[w].skilled] :
                w \in {w \in Rows("workers") : db.workers[w].stage = "paint" /\ db.workers[w].is_available}}

Empty == [processes |-> None, workers |-> None]
ProcessCache(s) == IF cache[s].processes = None THEN ProcessesInDb ELSE cache[s].processes
InvalidateCaches_Workers(s) == [cache EXCEPT ![s].workers = None]
InvalidateCaches(s) == [cache EXCEPT ![s] = Empty]

(* Signals of processes and painters only: a stage is changed unnoticed.   *)
Invalidated(s, table) ==
  IF table \in {"processes", "workers"} THEN InvalidateCaches(s) ELSE cache

(***************************************************************************)
(* past: processes active without the form's check (unchecked), servers    *)
(* whose caches another server's change made old (behind), and servers     *)
(* whose remembered processes had stages added or deleted (recounted).     *)
(***************************************************************************)
Caching(s) == cache[s] # Empty
Noticed(s, table) ==
  IF table \in {"processes", "workers"}
  THEN [past EXCEPT !.behind = (@ \cup {q \in Servers : Caching(q)}) \ {s}, !.recounted = @ \ {s}]
  ELSE IF table = "stages" THEN [past EXCEPT !.recounted = @ \cup {q \in Servers : Caching(q)}]
  ELSE past

(***************************************************************************)
(* Edits: a loaded and changed row waits on the desk and is saved.  What   *)
(* follows from a saved row is one step with the save, its signal included.*)
(***************************************************************************)
Free(s) == desk[s] = None
Counted == edits < MaxEdits /\ edits' = edits + 1

Posted(s, table, id, row, checked, posted) ==
  /\ Counted /\ Free(s)
  /\ IF id = None THEN Len(db[table]) < MaxRows[table] ELSE id \in Rows(table)
  /\ desk' = [desk EXCEPT ![s] = [table |-> table, id |-> id, row |-> row, checked |-> checked,
                                  posted |-> posted]]
  /\ UNCHANGED <<db, bars, tasks, cache, past>>
Loaded(s, table, id, row, checked) == Posted(s, table, id, row, checked, None)
Validated(s, table, id, row) ==
  /\ Refers(table, row) /\ Unique(table, id, row)
  /\ Loaded(s, table, id, row, TRUE)

(* PaintingProcessForm.clean: no colour of another active process.  (Colours *)
(* pass the form only as a quoted list: clean_color_codes parses what the    *)
(* JSON field has parsed before, and a list is refused.)                     *)
NoOverlap_Any(id, row) == TRUE
NoOverlap(id, row) ==
  row.is_active => \A p \in Rows("processes") \ {id} :
                     Active(p) => db.processes[p].color_codes \cap row.color_codes = {}
ProcessSave(s, id, row) == NoOverlap(id, row) /\ Validated(s, "processes", id, row)

(* The switch in the list and the Django admin check nothing.              *)
ProcessToggleActive(s, p) ==
  /\ p \in Rows("processes")
  /\ Loaded(s, "processes", p, [db.processes[p] EXCEPT !.is_active = ~@], FALSE)
ProcessAdmin(s, id, row) == Loaded(s, "processes", id, row, FALSE)

StageSave(s, id, row) == Validated(s, "stages", id, row)

(* Bars are rows of their own and no page saves them with the painter but   *)
(* the form, which writes those for products as they were posted.           *)
SetBars(w, kind, some) == {b \in bars : b # <<w, kind>>} \cup (IF some THEN {<<w, kind>>} ELSE {})

(* The two exclusion dialogues of the page and of the interface.            *)
WorkerExclusions(s, w, kind, some) ==
  /\ Counted /\ Free(s) /\ w \in Rows("workers")
  /\ bars' = SetBars(w, kind, some)
  /\ UNCHANGED <<db, tasks, cache, desk, past>>

(* The form and the JSON interface create and edit painters; the interface,*)
(* the skills dialogue and the form write the whole row they loaded.       *)
WorkerFormSave(s, id, row, barred) ==
  /\ Unique("workers", id, row)
  /\ Posted(s, "workers", id, row, TRUE, barred)
WorkerCreate(s, row) == Loaded(s, "workers", None, row, TRUE)
WorkerPut(s, w, stage, available) ==
  /\ w \in Rows("workers") /\ db.workers[w].stage = "paint"
  /\ Loaded(s, "workers", w, [db.workers[w] EXCEPT !.stage = stage, !.is_available = available], TRUE)
WorkerAssignSkills(s, w, skilled) ==
  /\ w \in Rows("workers")
  /\ Loaded(s, "workers", w, [db.workers[w] EXCEPT !.skilled = skilled], TRUE)

RuleSave(s, id, row) == /\ row.worker \in Rows("workers") /\ db.workers[row.worker].stage = "paint"
                        /\ Validated(s, "rules", id, row)
RuleToggleActive(s, r) ==
  /\ r \in Rows("rules")
  /\ Loaded(s, "rules", r, [db.rules[r] EXCEPT !.is_active = ~@], TRUE)

(* Another process saved since the check: the check is worth nothing.      *)
Overtaken(table) == [q \in Servers |->
  IF table = "processes" /\ desk[q] # None /\ desk[q].table = table
  THEN [desk[q] EXCEPT !.checked = FALSE] ELSE desk[q]]

Save(s) ==
  LET d == desk[s]
      id == IF d.id = None THEN Len(db[d.table]) + 1 ELSE d.id
  IN /\ d # None
     /\ d.id = None => Len(db[d.table]) < MaxRows[d.table]
     /\ IF Refers(d.table, d.row) /\ Unique(d.table, d.id, d.row)
        THEN /\ db' = [db EXCEPT ![d.table] = Put(@, d.id, d.row)]
             /\ cache' = Invalidated(s, d.table)
             /\ bars' = IF d.posted = None THEN bars ELSE SetBars(id, "products", d.posted)
             /\ past' = LET p == IF d.table = "stages" /\ d.id # None THEN
                                   (IF d.id \in Rows("stages") /\ db.stages[d.id].process = d.row.process
                                    THEN past ELSE Noticed(s, d.table))
                                 ELSE Noticed(s, d.table)
                        IN IF d.table # "processes" THEN p
                           ELSE [p EXCEPT !.unchecked = IF d.checked THEN @ \ {id} ELSE @ \cup {id}]
             /\ desk' = [Overtaken(d.table) EXCEPT ![s] = None]
        ELSE desk' = [desk EXCEPT ![s] = None] /\ UNCHANGED <<db, bars, cache, past>>
     /\ UNCHANGED <<tasks, edits>>

(***************************************************************************)
(* Deletions take along stages and rules (CASCADE); a task stays without   *)
(* its stage (SET_NULL).                                                   *)
(***************************************************************************)
Gone(table, ids) == [k \in DOMAIN db[table] |-> IF k \in ids THEN None ELSE db[table][k]]
RulesOf(column, ids) == {r \in Rows("rules") : db.rules[r][column] \in ids}
Unstaged_Kept(stages) == tasks
Unstaged(stages) == {[t EXCEPT !.painting_stage = IF @ \in stages THEN None ELSE @] : t \in tasks}

ProcessDelete(s, p) ==
  /\ Counted /\ Free(s) /\ p \in Rows("processes")
  /\ db' = [db EXCEPT !.processes[p] = None, !.stages = Gone("stages", StagesOf(p)),
                      !.rules = Gone("rules", RulesOf("process", {p}) \cup RulesOf("painting_stage", StagesOf(p)))]
  /\ tasks' = Unstaged(StagesOf(p))
  /\ cache' = InvalidateCaches(s) /\ past' = Noticed(s, "processes")
  /\ UNCHANGED <<bars, desk>>

StageDelete(s, k) ==
  /\ Counted /\ Free(s) /\ k \in Rows("stages")
  /\ db' = [db EXCEPT !.stages[k] = None, !.rules = Gone("rules", RulesOf("painting_stage", {k}))]
  /\ tasks' = Unstaged({k}) /\ past' = Noticed(s, "stages")
  /\ UNCHANGED <<bars, cache, desk>>

(* The bars of a painter go with his row, before one is inserted again.     *)
Unbarred(w) == {b \in bars : b[1] # w}
WorkerDelete(s, w) ==
  /\ Counted /\ Free(s) /\ w \in Rows("workers")
  /\ db' = [db EXCEPT !.workers[w] = None, !.rules = Gone("rules", RulesOf("worker", {w}))]
  /\ bars' = Unbarred(w)
  /\ cache' = InvalidateCaches(s) /\ past' = Noticed(s, "workers")
  /\ UNCHANGED <<tasks, desk>>

RuleDelete(s, r) == /\ Counted /\ Free(s) /\ r \in Rows("rules")
                    /\ db' = [db EXCEPT !.rules[r] = None]
                    /\ UNCHANGED <<bars, tasks, cache, desk, past>>

(***************************************************************************)
(* An item's painting tasks, from the processes the server remembers: the  *)
(* stages are read, their number is the remembered one.                    *)
(***************************************************************************)
LoadWorkers(s) == /\ Free(s) /\ cache[s].workers = None
                  /\ cache' = [cache EXCEPT ![s].workers = WorkersInDb]
                  /\ UNCHANGED <<db, bars, tasks, desk, edits, past>>

Base(rest) == Max({0} \cup {t.step_order : t \in rest})
(* The stages of a process in their order: no two have the same.           *)
CreatePaintTasks(item, part, process, base) ==
  LET stages == StagesOf(process)
      Nr(k) == Cardinality({j \in stages : db.stages[j].order <= db.stages[k].order})
  IN {[order_item |-> item, part |-> part, painting_stage |-> k,
       step_order |-> base + Nr(k), done |-> FALSE] : k \in stages}

Found(s, item) == [part \in DOMAIN ColourOf[item] |-> ProcessCache(s)[ColourOf[item][part]]]
TasksFound(item, part, found, base) ==
  IF found = None THEN {} ELSE CreatePaintTasks(item, part, found.process, base)

NewTasks_SameBase(s, item, base) ==
  UNION {TasksFound(item, part, Found(s, item)[part], base) : part \in DOMAIN ColourOf[item]}

(* The steps left to the parts before one, as pairs of a part and a number. *)
StepsOf(part, found) == IF found = None THEN {} ELSE {part} \X (1..found.stages)
Before(part, found) == Cardinality(UNION {StepsOf(q, found[q]) : q \in 1..(part - 1)})
NewTasks(s, item, base) ==
  UNION {TasksFound(item, part, Found(s, item)[part], base + Before(part, Found(s, item)))
         : part \in DOMAIN ColourOf[item]}

TasksOf(item) == {t \in tasks : t.order_item = item}
AssignPaintingProcess(s, item) ==
  LET rest == tasks \ TasksOf(item)
      found == [cache EXCEPT ![s].processes = ProcessCache(s)]
  IN /\ Free(s) /\ ~\E t \in TasksOf(item) : t.done
     /\ tasks' = rest \cup NewTasks(s, item, Base(rest))
     /\ cache' = found
     /\ past' = [past EXCEPT !.miscounted = IF s \in past.recounted \cup past.behind
                                            THEN @ \cup {item} ELSE @ \ {item}]
     /\ UNCHANGED <<db, bars, desk, edits>>

(* Any other view completes a task.                                        *)
Complete(t) == /\ ~t.done
               /\ tasks' = (tasks \ {t}) \cup {[t EXCEPT !.done = TRUE]}
               /\ UNCHANGED <<db, bars, cache, desk, edits, past>>

Init ==
  /\ \E active \in BOOLEAN, u \in Users :
       db = [processes |-> <<[is_active |-> active, color_codes |-> Colours]>>,
             stages |-> <<[process |-> 1, order |-> 1]>>,
             workers |-> <<[user |-> u, stage |-> "paint", is_available |-> TRUE, skilled |-> TRUE]>>,
             rules |-> <<[worker |-> 1, painting_stage |-> 1, process |-> 1, is_active |-> TRUE]>>]
  /\ bars = {<<1, "items">>} /\ tasks = {} /\ edits = 0
  /\ cache = [s \in Servers |-> Empty] /\ desk = [s \in Servers |-> None]
  /\ past = [unchecked |-> {}, behind |-> {}, recounted |-> {}, miscounted |-> {}]

Planner(s) ==
  \/ \E id \in Rows("processes") \cup {None}, row \in ProcessRow :
       ProcessSave(s, id, row) \/ ProcessAdmin(s, id, row)
  \/ \E p \in Rows("processes") : ProcessToggleActive(s, p) \/ ProcessDelete(s, p)
  \/ \E id \in Rows("stages") \cup {None}, p \in Rows("processes"), order \in 1..MaxRows["stages"] :
       StageSave(s, id, [process |-> p, order |-> order])
  \/ \E k \in Rows("stages") : StageDelete(s, k)
  \/ \E row \in WorkerRow : \/ row.is_available /\ row.skilled /\ WorkerCreate(s, row)
                            \/ \E id \in Rows("workers") \cup {None} : /\ row.skilled
                                  /\ \E barred \in BOOLEAN : WorkerFormSave(s, id, row, barred)
  \/ \E w \in Rows("workers") : \/ WorkerDelete(s, w)
                                \/ \E stage \in {"paint", "cut"} : WorkerPut(s, w, stage, ~db.workers[w].is_available)
                                \/ WorkerAssignSkills(s, w, ~db.workers[w].skilled)
                                \/ \E kind \in Kinds : WorkerExclusions(s, w, kind, <<w, kind>> \notin bars)
  \/ \E id \in Rows("rules") \cup {None}, w \in Rows("workers"), k \in Rows("stages") \cup {None},
        p \in Rows("processes") \cup {None} :
       RuleSave(s, id, [worker |-> w, painting_stage |-> k, process |-> p, is_active |-> TRUE])
  \/ \E r \in Rows("rules") : RuleToggleActive(s, r) \/ RuleDelete(s, r)

Next == \/ \E s \in Servers : (Free(s) /\ edits < MaxEdits /\ Planner(s)) \/ Save(s) \/ LoadWorkers(s)
        \/ \E s \in Servers, item \in Items : AssignPaintingProcess(s, item)
        \/ \E t \in tasks : Complete(t)

Spec == Init /\ [][Next]_vars

(***************************************************************************)
(* Properties.                                                             *)
(***************************************************************************)

\* Rows and tasks have the types of their models and refer to rows that
\* exist, whatever is deleted with a process, a stage or a painter and
\* inserted again by a late save; bars too.
TypeOK ==
  /\ DOMAIN db = Tables
  /\ \A t \in Tables : \A k \in Rows(t) : db[t][k] \in RowTypes[t] /\ Refers(t, db[t][k])
  /\ bars \subseteq Rows("workers") \X Kinds
  /\ tasks \subseteq TaskRow
  /\ \A t \in tasks : t.painting_stage \in Rows("stages") \cup {None}

\* A colour has one active process, as the form demands, unless one of two
\* was switched on by the list or the admin, or saved after an old check.
OneProcessPerColour ==
  \A p, q \in Rows("processes") :
    (p # q /\ Active(p) /\ Active(q) /\ db.processes[p].color_codes \cap db.processes[q].color_codes # {})
    => {p, q} \cap past.unchecked # {}

\* What a server remembers of processes and painters is what the tables say,
\* unless another server changed them: no page, dialogue or deletion changes
\* a process or a painter without clearing the cache.
CacheIsCurrent ==
  \A s \in Servers \ past.behind :
    /\ cache[s].workers # None => cache[s].workers = WorkersInDb
    /\ cache[s].processes # None =>
         \A c \in Colours : LET then == cache[s].processes[c] now == ProcessesInDb[c]
                            IN IF then = None THEN now = None
                               ELSE now # None /\ now.process = then.process

\* The steps of an item's colour parts do not collide, unless they were
\* counted by a cache that stages or another server had made old.
PaintStepsApart ==
  \A t, u \in tasks : (/\ t.order_item = u.order_item /\ t.order_item \notin past.miscounted
                       /\ t.step_order = u.step_order) => t = u
============================================================================
