--------------------------------- MODULE Ledger ---------------------------------
(***************************************************************************)
(* Categories, the rules that assign them, transactions and the budget     *)
(* rows that name them (services/categories.py, categorization.py,         *)
(* transactions.py, csv_import.py, budgets.upsert).  A request is one      *)
(* database transaction in two steps: Ask... makes the checks the code     *)
(* makes and loads what it will write from, Commit writes.  Under READ     *)
(* COMMITTED other requests commit in between, and only the foreign keys   *)
(* stand between what was checked and what is written.                     *)
(*                                                                         *)
(* Names, notes, tags and the texts of patterns are left out: a rule's     *)
(* conditions are the set of transaction shapes (merchant, amount,         *)
(* account) that satisfy all of them, and one column.                      *)
(***************************************************************************)
EXTENDS Integers, Sequences, FiniteSets, Functions

CONSTANTS
    Groups, Leaves,   \* the system categories; every leaf is in one group
    Custom,           \* ids for categories of the household's own
    None,             \* NULL
    Shapes,           \* what a rule can tell apart of a transaction
    Patterns,         \* what rules match: sets of shapes
    Priorities,       \* what requests give rules
    Files,            \* CSV files: sequences of shapes, each standing for its row's text
    Sessions,
    MaxRules, MaxTxns \* bounds: rules and transactions at a time

Category == Groups \cup Leaves \cup Custom
System == Groups \cup Leaves

ASSUME CategoriesAssumption == None \notin Category /\ Custom \cap System = {}
ASSUME PatternsAssumption == Patterns \subseteq SUBSET Shapes
ASSUME PrioritiesAssumption == Priorities \subseteq Int
ASSUME FilesAssumption == Files \subseteq Seq(Shapes)
ASSUME BoundsAssumption == MaxRules \in Nat /\ MaxTxns \in Nat

VARIABLES
    parent,  \* db: the parent of each category that exists
    rules,   \* db: the rows of category_rules
    txns,    \* db: the rows of transactions
    budgets, \* db: the categories with a budget row
    pc,      \* how far each session has come
    request  \* what it will write, and what it saw of that

tables == <<parent, rules, txns, budgets>>
vars == <<parent, rules, txns, budgets, pc, request>>
-------------------------------------------------------------------------------
Categories == DOMAIN parent

RuleRow == [id : 1 .. MaxRules, pattern : Patterns, category : Category, priority : Int]

\* `text`: the row came from a file, under an external_id that hashes its text.
\* `by` is history: who gave it its category.
TxnRow == [id : 1 .. MaxTxns, shape : Shapes, category : Category \cup {None},
           text : BOOLEAN, by : {"nobody", "rule", "user"}]

NoRequest == [op |-> "none", category |-> None, parent |-> None,
              rules |-> {}, txns |-> {}, list |-> <<>>, seen |-> {}]

\* ensure_system_categories has run: two levels, nothing above a group.
Init ==
    /\ parent \in {p \in [System -> Groups \cup {None}] :
                     \A c \in System : p[c] = None <=> c \in Groups}
    /\ rules = {}
    /\ txns = {}
    /\ budgets = {}
    /\ pc = [s \in Sessions |-> "idle"]
    /\ request = [s \in Sessions |-> NoRequest]

Ask(s, r) ==
    /\ pc[s] = "idle"
    /\ pc' = [pc EXCEPT ![s] = "asked"]
    /\ request' = [request EXCEPT ![s] = r]
    /\ UNCHANGED tables

\* A row as loaded and as it will be saved.
Edit(old, new) == [old |-> old, new |-> new]
Kept(row) == Edit(row, row)
-------------------------------------------------------------------------------
(* categories *)

\* A request under way knows the category: its id is not free again.
Mentioned(c) ==
    \E u \in Sessions :
        \/ c \in {request[u].category, request[u].parent}
        \/ \E e \in request[u].rules \cup request[u].txns : c \in {e.old.category, e.new.category}

AskCreateCategory(s) ==
    \E c \in Custom \ Categories, p \in Categories \cup {None} :
        /\ ~Mentioned(c)
        /\ Ask(s, [NoRequest EXCEPT !.op = "addCategory", !.category = c, !.parent = p])

\* Only a category of the household's own, and never under itself.
AskMoveCategory(s) ==
    \E c \in Categories \cap Custom, p \in (Categories \cup {None}) :
        /\ p \notin {c, parent[c]}
        /\ Ask(s, [NoRequest EXCEPT !.op = "moveCategory", !.category = c, !.parent = p])

Children(c) == {d \in Categories : parent[d] = c}
Pointing(c) == {r \in rules : r.category = c}
Filed(c) == {t \in txns : t.category = c}

\* Mutant of InUse: the rules are not asked.
InUseButForRules(c) == Children(c) # {} \/ Filed(c) # {} \/ c \in budgets

InUse(c) == Children(c) # {} \/ Filed(c) # {} \/ Pointing(c) # {} \/ c \in budgets

\* `seen` is history: the rules and budgets as they were when the category was checked.
AskDeleteCategory(s) ==
    \E c \in Categories \cap Custom :
        /\ ~InUse(c)
        /\ Ask(s, [NoRequest EXCEPT !.op = "dropCategory", !.category = c,
                                    !.seen = rules \cup budgets])
-------------------------------------------------------------------------------
(* categorization *)

\* rules_for: tried in order of priority, then of age.
Before(q, r) == q.priority < r.priority \/ (q.priority = r.priority /\ q.id < r.id)

\* pick_category
Picked(rows, shape) ==
    LET fits == {r \in rows : shape \in r.pattern}
    IN  IF fits = {} THEN None
        ELSE (CHOOSE r \in fits : \A q \in fits : q = r \/ Before(r, q)).category

\* A new row: younger than those of the table and of all requests.
NewRule(id) ==
    /\ \A r \in rules : r.id < id
    /\ \A u \in Sessions : \A e \in request[u].rules : e.old.id < id

AskCreateRule(s) ==
    \E id \in 1 .. MaxRules, pattern \in Patterns, c \in Categories, priority \in Priorities :
        LET row == [id |-> id, pattern |-> pattern, category |-> c, priority |-> priority]
        IN  NewRule(id) /\ Ask(s, [NoRequest EXCEPT !.op = "addRule", !.rules = {Kept(row)}])

\* Any columns of the row at once; a category that is given is one that exists.
AskUpdateRule(s) ==
    \E r \in rules : \E row \in [id : {r.id}, pattern : Patterns, category : Categories,
                                priority : Priorities \cup {r.priority}] :
        /\ row # r
        /\ Ask(s, [NoRequest EXCEPT !.op = "editRules", !.rules = {Edit(r, row)}])

AskDeleteRule(s) ==
    \E r \in rules : Ask(s, [NoRequest EXCEPT !.op = "dropRule", !.rules = {Kept(r)}])

\* The places of the list whose ids exist.
Listed(rows, list) == {i \in DOMAIN list : \E r \in rows : r.id = list[i]}

\* How far down a rule comes: the listed ids, each at its last mention, then the rest in their
\* existing order.
Place(rows, row, list) ==
    IF row.id \in Range(list)
    THEN Cardinality({i \in Listed(rows, list) : \E j \in DOMAIN list : list[j] = row.id /\ i <= j})
    ELSE Cardinality(Listed(rows, list))
           + Cardinality({r \in rows : r.id \notin Range(list) /\ ~Before(row, r)})

\* Mutant of Priority: ids that are not listed keep the priority they had.
PriorityOfListed(rows, row, list) ==
    IF row.id \in Range(list) THEN 10 * Place(rows, row, list) ELSE row.priority

Priority(rows, row, list) == 10 * Place(rows, row, list)

AskReorder(s) ==
    \E n \in 1 .. MaxRules : \E list \in [1 .. n -> 1 .. MaxRules] :
        /\ rules # {}
        /\ Ask(s, [NoRequest EXCEPT !.op = "editRules", !.list = list,
             !.rules = {Edit(r, [r EXCEPT !.priority = Priority(rules, r, list)]) : r \in rules}])
-------------------------------------------------------------------------------
(* transactions and files *)

NewTxn(id) ==
    /\ \A t \in txns : t.id < id
    /\ \A u \in Sessions : \A e \in request[u].txns : e.old.id < id

\* apply_to: rows with a category are left alone.
Categorized(t) ==
    LET c == Picked(rules, t.shape)
    IN  IF t.category = None /\ c # None THEN [t EXCEPT !.category = c, !.by = "rule"] ELSE t

\* The row as typed and as saved: the flush before the rules are read has inserted the first.
AskCreateTxn(s) ==
    \E id \in 1 .. MaxTxns, shape \in Shapes, c \in Categories \cup {None} :
        LET typed == [id |-> id, shape |-> shape, category |-> c, text |-> FALSE,
                      by |-> IF c = None THEN "nobody" ELSE "user"]
        IN  /\ NewTxn(id)
            /\ Ask(s, [NoRequest EXCEPT !.op = "addTxns", !.txns = {Edit(typed, Categorized(typed))}])

\* Mutant of Imported: the rows of the file are not compared with each other.
ImportedTwice(file) ==
    LET held == {t.shape : t \in {u \in txns : u.text}}
    IN  SelectSeq(file, LAMBDA shape : shape \notin held)

\* The rows that are new: one whose text is held, or came earlier in the file, is skipped.
Imported(file) ==
    LET held == {t.shape : t \in {u \in txns : u.text}}
        firsts == {i \in DOMAIN file : file[i] \notin held /\ \A j \in 1 .. i - 1 : file[j] # file[i]}
    IN  [n \in 1 .. Cardinality(firsts) |->
           file[CHOOSE i \in firsts : Cardinality({j \in firsts : j <= i}) = n]]

AskImport(s) ==
    \E file \in Files, id \in 1 .. MaxTxns :
        LET new == Imported(file)
            row(n) == [id |-> id + n - 1, shape |-> new[n], category |-> None,
                       text |-> TRUE, by |-> "nobody"]
        IN  /\ NewTxn(id)
            /\ new # <<>> /\ id + Len(new) - 1 <= MaxTxns
            /\ Ask(s, [NoRequest EXCEPT !.op = "addTxns", !.list = file, !.seen = txns,
                                        !.txns = {Edit(row(n), Categorized(row(n))) : n \in DOMAIN new}])

AskUpdateTxn(s) ==
    \E t \in txns, c \in Categories \cup {None} :
        /\ c # t.category
        /\ Ask(s, [NoRequest EXCEPT !.op = "editTxns",
                     !.txns = {Edit(t, [t EXCEPT !.category = c, !.by = "user"])}])

AskDeleteTxn(s) ==
    \E t \in txns : Ask(s, [NoRequest EXCEPT !.op = "dropTxn", !.txns = {Kept(t)}])

\* Mutant of Backfilled: every row the rules match, whichever was asked for.
BackfilledAll(onlyUncategorized) ==
    {Edit(t, [t EXCEPT !.category = Picked(rules, t.shape), !.by = "rule"]) :
       t \in {u \in txns : Picked(rules, u.shape) \notin {None, u.category}}}

Backfilled(onlyUncategorized) ==
    {Edit(t, [t EXCEPT !.category = Picked(rules, t.shape), !.by = "rule"]) :
       t \in {u \in txns : /\ onlyUncategorized => u.category = None
                           /\ Picked(rules, u.shape) \notin {None, u.category}}}

\* `seen` says that every row was asked for.
AskBackfill(s) ==
    \E onlyUncategorized \in BOOLEAN :
        /\ Backfilled(onlyUncategorized) # {}
        /\ Ask(s, [NoRequest EXCEPT !.op = "editTxns", !.txns = Backfilled(onlyUncategorized),
                                    !.seen = IF onlyUncategorized THEN {} ELSE txns])

\* budgets.upsert, of one item
AskPutBudget(s) ==
    \E c \in Categories : Ask(s, [NoRequest EXCEPT !.op = "putBudget", !.category = c])
-------------------------------------------------------------------------------
(* The commit *)

\* An UPDATE names the columns that changed; of one that changed nothing there is none.
Column(stored, old, new) == IF new = old THEN stored ELSE new

MergeRule(row, e) ==
    [row EXCEPT !.pattern = Column(@, e.old.pattern, e.new.pattern),
                !.category = Column(@, e.old.category, e.new.category),
                !.priority = Column(@, e.old.priority, e.new.priority)]

MergeTxn(row, e) ==
    IF e.new.category = e.old.category THEN row
    ELSE [row EXCEPT !.category = e.new.category, !.by = e.new.by]

EditOf(row, edits) == {e \in edits : e.old.id = row.id}
Saved(rows, edits, merge(_, _)) ==
    {IF EditOf(row, edits) = {} THEN row
     ELSE merge(row, CHOOSE e \in EditOf(row, edits) : TRUE) : row \in rows}

\* An UPDATE that matches no row raises StaleDataError.
Stale(rows, edits) == \E e \in edits : e.new # e.old /\ \A row \in rows : row.id # e.old.id

Known(cs) == cs \subseteq Categories \cup {None}

\* Mutant of Allowed: the parent of a category is no foreign key.
AllowedAnyParent(r) ==
    CASE r.op = "moveCategory" -> r.category \in Categories
      [] r.op = "dropCategory" -> Children(r.category) = {} /\ Filed(r.category) = {}
      [] r.op \in {"addRule", "editRules"} ->
           Known({e.new.category : e \in {f \in r.rules : f.old = f.new \/ f.old.category # f.new.category}})
             /\ ~Stale(rules, r.rules)
      [] r.op \in {"addTxns", "editTxns"} ->
           Known({e.new.category : e \in r.txns}) /\ (r.op = "editTxns" => ~Stale(txns, r.txns))
      [] r.op = "putBudget" -> r.category \in Categories
      [] OTHER -> TRUE

\* What the foreign keys and the row counts of UPDATEs let through.
Allowed(r) ==
    CASE r.op = "addCategory"  -> Known({r.parent})
      [] r.op = "moveCategory" -> r.category \in Categories /\ Known({r.parent})
      [] r.op = "dropCategory" -> Children(r.category) = {} /\ Filed(r.category) = {}
      [] r.op = "addRule"      -> Known({e.new.category : e \in r.rules})
      [] r.op = "editRules"    ->
           /\ ~Stale(rules, r.rules)
           /\ Known({e.new.category : e \in {f \in r.rules : f.old.category # f.new.category}})
      [] r.op = "addTxns"      -> Known({e.new.category : e \in r.txns})
      [] r.op = "editTxns"     -> ~Stale(txns, r.txns) /\ Known({e.new.category : e \in r.txns})
      [] r.op = "putBudget"    -> r.category \in Categories
      [] OTHER                 -> TRUE

\* A row inserted and not committed yet holds its category.
Locked(c) ==
    \E u \in Sessions : request[u].op = "addTxns" /\ \E e \in request[u].txns : e.old.category = c

CategoriesAfter(r) ==
    CASE r.op \in {"addCategory", "moveCategory"} ->
           [c \in Categories \cup {r.category} |-> IF c = r.category THEN r.parent ELSE parent[c]]
      [] r.op = "dropCategory" -> [c \in Categories \ {r.category} |-> parent[c]]
      [] OTHER -> parent

\* Mutant of RulesAfter: an edited rule is saved as one more row.
RulesBeside(r) ==
    CASE r.op \in {"addRule", "editRules"} -> rules \cup {e.new : e \in r.rules}
      [] r.op = "dropRule"     -> {row \in rules : EditOf(row, r.rules) = {}}
      [] r.op = "dropCategory" -> {row \in rules : row.category # r.category}
      [] OTHER                 -> rules

\* Rules and budgets of a category go with it: ON DELETE CASCADE.
RulesAfter(r) ==
    CASE r.op = "addRule"      -> rules \cup {e.new : e \in r.rules}
      [] r.op = "editRules"    -> Saved(rules, r.rules, MergeRule)
      [] r.op = "dropRule"     -> {row \in rules : EditOf(row, r.rules) = {}}
      [] r.op = "dropCategory" -> {row \in rules : row.category # r.category}
      [] OTHER                 -> rules

TxnsAfter(r) ==
    CASE r.op = "addTxns"  -> txns \cup {e.new : e \in r.txns}
      [] r.op = "editTxns" -> Saved(txns, r.txns, MergeTxn)
      [] r.op = "dropTxn"  -> {row \in txns : EditOf(row, r.txns) = {}}
      [] OTHER             -> txns

BudgetsAfter(r) ==
    CASE r.op = "putBudget"    -> budgets \cup {r.category}
      [] r.op = "dropCategory" -> budgets \ {r.category}
      [] OTHER                 -> budgets

Done(s) ==
    /\ pc' = [pc EXCEPT ![s] = "idle"]
    /\ request' = [request EXCEPT ![s] = NoRequest]

Waits(s) == request[s].op = "dropCategory" /\ Locked(request[s].category)

Commit(s) ==
    /\ pc[s] = "asked"
    /\ ~Waits(s) /\ Allowed(request[s])
    /\ parent' = CategoriesAfter(request[s])
    /\ rules' = RulesAfter(request[s])
    /\ txns' = TxnsAfter(request[s])
    /\ budgets' = BudgetsAfter(request[s])
    /\ Done(s)

Refuse(s) ==
    /\ pc[s] = "asked"
    /\ ~Waits(s) /\ ~Allowed(request[s])
    /\ Done(s)
    /\ UNCHANGED tables

AskCategories(s) == AskCreateCategory(s) \/ AskMoveCategory(s) \/ AskDeleteCategory(s)
AskRules(s) == AskCreateRule(s) \/ AskUpdateRule(s) \/ AskDeleteRule(s) \/ AskReorder(s)
AskTxns(s) ==
    AskCreateTxn(s) \/ AskImport(s) \/ AskUpdateTxn(s) \/ AskDeleteTxn(s) \/ AskBackfill(s)

Request(s) == AskCategories(s) \/ AskRules(s) \/ AskTxns(s) \/ AskPutBudget(s)

Next == \E s \in Sessions : Request(s) \/ Commit(s) \/ Refuse(s)

Spec == Init /\ [][Next]_vars
-------------------------------------------------------------------------------
(* Properties *)

EditType(rows) == [old : rows, new : rows]

RequestType ==
    [op : {"none", "addCategory", "moveCategory", "dropCategory", "addRule", "editRules", "dropRule",
           "addTxns", "editTxns", "dropTxn", "putBudget"},
     category : Category \cup {None}, parent : Category \cup {None},
     rules : SUBSET EditType(RuleRow), txns : SUBSET EditType(TxnRow),
     list : Seq(Shapes \cup (1 .. MaxRules)), seen : SUBSET (RuleRow \cup TxnRow \cup Category)]

\* The type invariant; an id names one row.
TypeOK ==
    /\ Categories \subseteq Category
    /\ parent \in [Categories -> Category \cup {None}]
    /\ rules \in SUBSET RuleRow
    /\ txns \in SUBSET TxnRow
    /\ \A q, r \in rules : q.id = r.id => q = r
    /\ \A t, u \in txns : t.id = u.id => t = u
    /\ budgets \in SUBSET Category
    /\ pc \in [Sessions -> {"idle", "asked"}]
    /\ request \in [Sessions -> RequestType]

\* Whatever requests overlap, no row is left pointing at a category that is gone, no category is
\* its own parent, and the system categories are all there.
ReferencesHold ==
    /\ System \subseteq Categories
    /\ \A c \in Categories : parent[c] \in (Categories \cup {None}) \ {c}
    /\ \A r \in rules : r.category \in Categories
    /\ \A t \in txns : t.category \in Categories \cup {None}
    /\ budgets \subseteq Categories

\* "Without this the rule disappears with the category": a rule or a budget that is as it was when
\* the deletion of its category was checked outlives it; only what came since goes with it.
OldPointersSurvive ==
    [][\A s \in Sessions : Commit(s) /\ request[s].op = "dropCategory" =>
         \A row \in request[s].seen :
            (row \in rules => row \in rules') /\ (row \in budgets => row \in budgets')]_vars

Entered == {e.old : e \in UNION {request[s].txns : s \in {u \in Sessions : request[u].op = "addTxns"}}}

\* "Typing one in by hand still wins over the rules": a category the user gave, to a row being
\* entered or to one that is there, gives way to another of theirs, to a backfill asked to go over
\* every row, or to one that had read this row while it had no category.
TypedCategoryStays ==
    [][\A t \in txns \cup Entered, u \in txns' :
         t.id = u.id /\ t.by = "user" /\ t.category \notin {None, u.category} /\ u.by = "rule" =>
            \E s \in Sessions : Commit(s) /\ request[s].op = "editTxns" /\
               \E e \in request[s].txns :
                  /\ e.old.id = t.id /\ e.new.category = u.category
                  /\ e.old.category = None \/ e.old \in request[s].seen]_vars

\* "Nothing in this app currently writes a group id onto a transaction": no transaction is filed
\* under a category with children, whose spend a budget's status leaves out.
SpendIsShown == \A t \in txns : Children(t.category) = {}

Injective(list) == \A i, j \in DOMAIN list : list[i] = list[j] => i = j
At(list, id) == CHOOSE i \in DOMAIN list : list[i] = id

\* "Rewrite priority to match the given order. Ids not listed keep their place at the end, in their
\* existing order": where the rules are as they were loaded, they end in that order, and no two tie.
ReorderMatchesList ==
    [][\A s \in Sessions :
         LET list == request[s].list
         IN  /\ Commit(s) /\ request[s].op = "editRules" /\ list # <<>> /\ Injective(list)
             /\ rules = {e.old : e \in request[s].rules}
             => \A q, r \in rules' : q # r =>
                  LET before == CASE {q.id, r.id} \subseteq Range(list) -> At(list, q.id) < At(list, r.id)
                                  [] {q.id, r.id} \cap Range(list) = {} ->
                                       \E x, y \in rules : x.id = q.id /\ y.id = r.id /\ Before(x, y)
                                  [] OTHER -> q.id \in Range(list)
                  IN  before <=> q.priority < r.priority]_vars

Held(rows, shape) == Cardinality({t \in rows : t.text /\ t.shape = shape})

\* An import that no other change to the table overtook leaves each text of the file held once, and
\* no text held more often than before: the same file again adds nothing.
ImportAddsOnce ==
    [][\A s \in Sessions :
         Commit(s) /\ request[s].op = "addTxns" /\ request[s].list # <<>> /\ request[s].seen = txns =>
            \A shape \in Shapes :
               Held(txns', shape) = IF shape \in Range(request[s].list) /\ Held(txns, shape) = 0 THEN 1
                                    ELSE Held(txns, shape)]_vars
===============================================================================
