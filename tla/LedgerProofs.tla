------------------------------ MODULE LedgerProofs ------------------------------
(***************************************************************************)
(* What holds of Ledger for any categories, rules, files and sessions.     *)
(* A request is checked against rows that may be gone by its commit, so    *)
(* the strengthening says only what no other request can undo: which       *)
(* categories a request is about, and the shape of the rows it brings.     *)
(* The rest is what the foreign keys ask for again at the commit.          *)
(***************************************************************************)
EXTENDS Ledger, FiniteSetTheorems, TLAPS

RuleLike(r) == r = [id |-> r.id, pattern |-> r.pattern, category |-> r.category, priority |-> r.priority]
TxnLike(t) == t = [id |-> t.id, shape |-> t.shape, category |-> t.category, text |-> t.text, by |-> t.by]

\* A category's id is not a row of a table.
NamesAreNoRows == \A c \in Category : ~RuleLike(c)

\* A category is created or moved under another, and only one of the household's own.
TreeSound(r) ==
    r.op \in {"addCategory", "moveCategory"} => r.category \in Custom /\ r.parent # r.category

\* What was checked of a category about to be deleted.
DropSound(r) ==
    r.op = "dropCategory" =>
        /\ r.category \in Custom
        /\ NamesAreNoRows => \A row \in r.seen : row # r.category /\ (RuleLike(row) => row.category # r.category)

RowsSound(r) ==
    /\ \A e \in r.rules : RuleLike(e.new) /\ e.new.category \in Category
    /\ \A e \in r.txns : TxnLike(e.new)

RequestSound(r) == TreeSound(r) /\ DropSound(r) /\ RowsSound(r)

LedgerInvariant ==
    /\ ReferencesHold
    /\ Categories \subseteq Category
    /\ \A r \in rules : RuleLike(r)
    /\ \A t \in txns : TxnLike(t)
    /\ DOMAIN request = Sessions
    /\ \A s \in Sessions : RequestSound(request[s])

-------------------------------------------------------------------------------
LEMMA NoRequestSound == RequestSound(NoRequest)
BY DEF NoRequest, RequestSound, TreeSound, DropSound, RowsSound

\* A request that is asked leaves the tables alone, so it is enough that it is sound itself.
LEMMA AskKeeps ==
  ASSUME LedgerInvariant, NEW s \in Sessions, NEW r, RequestSound(r), Ask(s, r)
  PROVE  LedgerInvariant'
<1>1. DOMAIN request' = Sessions /\ \A u \in Sessions : RequestSound(request'[u])
  BY DEF Ask, LedgerInvariant
<1>2. UNCHANGED tables
  BY DEF Ask
<1>3. QED
  BY <1>1, <1>2 DEF LedgerInvariant, ReferencesHold, tables, Categories, RequestSound, TreeSound,
                    DropSound, RowsSound, RuleLike, TxnLike

LEMMA DoneKeeps ==
  ASSUME LedgerInvariant, NEW s \in Sessions, Done(s)
  PROVE  DOMAIN request' = Sessions /\ \A u \in Sessions : RequestSound(request'[u])
BY NoRequestSound DEF Done, LedgerInvariant
-------------------------------------------------------------------------------
(* The requests, as they are asked *)

LEMMA CategoryRequests ==
  ASSUME LedgerInvariant, NEW s \in Sessions, AskCategories(s)
  PROVE  LedgerInvariant'
<1>1. CASE AskCreateCategory(s)
  <2>1. PICK c \in Custom \ Categories, p \in Categories \cup {None} :
           Ask(s, [NoRequest EXCEPT !.op = "addCategory", !.category = c, !.parent = p])
    BY <1>1 DEF AskCreateCategory
  <2>2. p # c
    BY CategoriesAssumption DEF Category
  <2>3. RequestSound([NoRequest EXCEPT !.op = "addCategory", !.category = c, !.parent = p])
    BY <2>2 DEF NoRequest, RequestSound, TreeSound, DropSound, RowsSound
  <2>4. QED
    BY <2>1, <2>3, AskKeeps
<1>2. CASE AskMoveCategory(s)
  <2>1. PICK c \in Categories \cap Custom, p \in Categories \cup {None} :
           /\ p # c
           /\ Ask(s, [NoRequest EXCEPT !.op = "moveCategory", !.category = c, !.parent = p])
    BY <1>2 DEF AskMoveCategory
  <2>2. RequestSound([NoRequest EXCEPT !.op = "moveCategory", !.category = c, !.parent = p])
    BY <2>1 DEF NoRequest, RequestSound, TreeSound, DropSound, RowsSound
  <2>3. QED
    BY <2>1, <2>2, AskKeeps
<1>3. CASE AskDeleteCategory(s)
  <2>1. PICK c \in Categories \cap Custom :
           /\ ~InUse(c)
           /\ Ask(s, [NoRequest EXCEPT !.op = "dropCategory", !.category = c, !.seen = rules \cup budgets])
    BY <1>3 DEF AskDeleteCategory
  <2>2. ASSUME NamesAreNoRows, NEW row \in rules \cup budgets
        PROVE  row # c /\ (RuleLike(row) => row.category # c)
    <3>1. CASE row \in rules
      BY <2>1, <2>2, <3>1 DEF InUse, Pointing, LedgerInvariant, NamesAreNoRows, Category
    <3>2. CASE row \in budgets
      BY <2>1, <2>2, <3>2 DEF InUse, LedgerInvariant, ReferencesHold, NamesAreNoRows
    <3>3. QED
      BY <3>1, <3>2
  <2>3. RequestSound([NoRequest EXCEPT !.op = "dropCategory", !.category = c, !.seen = rules \cup budgets])
    BY <2>2 DEF NoRequest, RequestSound, TreeSound, DropSound, RowsSound
  <2>4. QED
    BY <2>1, <2>3, AskKeeps
<1>4. QED
  BY <1>1, <1>2, <1>3 DEF AskCategories

\* The rows of a request that is not about a category.
LEMMA RowRequest ==
  ASSUME NEW r, r.op \notin {"addCategory", "moveCategory", "dropCategory"},
         \A e \in r.rules : RuleLike(e.new) /\ e.new.category \in Category,
         \A e \in r.txns : TxnLike(e.new)
  PROVE  RequestSound(r)
BY DEF RequestSound, TreeSound, DropSound, RowsSound

LEMMA RuleRequests ==
  ASSUME LedgerInvariant, NEW s \in Sessions, AskRules(s)
  PROVE  LedgerInvariant'
<1>1. CASE AskCreateRule(s)
  <2>1. PICK id \in 1 .. MaxRules, pattern \in Patterns, c \in Categories, priority \in Priorities :
           Ask(s, [NoRequest EXCEPT !.op = "addRule",
                     !.rules = {Kept([id |-> id, pattern |-> pattern, category |-> c, priority |-> priority])}])
    BY <1>1 DEF AskCreateRule
  <2> DEFINE row == [id |-> id, pattern |-> pattern, category |-> c, priority |-> priority]
             r == [NoRequest EXCEPT !.op = "addRule", !.rules = {Kept(row)}]
  <2>2. RuleLike(row) /\ row.category \in Category
    BY DEF RuleLike, LedgerInvariant
  <2> HIDE DEF row
  <2>3. r.op = "addRule" /\ r.rules = {Kept(row)} /\ r.txns = {}
    BY DEF NoRequest
  <2> HIDE DEF r
  <2>4. RequestSound(r)
    BY <2>2, <2>3, RowRequest DEF Kept, Edit
  <2>5. QED
    BY <2>1, <2>4, AskKeeps DEF r, row
<1>2. CASE AskUpdateRule(s)
  <2>1. PICK q \in rules : \E row \in [id : {q.id}, pattern : Patterns, category : Categories,
                                       priority : Priorities \cup {q.priority}] :
           Ask(s, [NoRequest EXCEPT !.op = "editRules", !.rules = {Edit(q, row)}])
    BY <1>2 DEF AskUpdateRule
  <2>2. PICK row \in [id : {q.id}, pattern : Patterns, category : Categories,
                      priority : Priorities \cup {q.priority}] :
           Ask(s, [NoRequest EXCEPT !.op = "editRules", !.rules = {Edit(q, row)}])
    BY <2>1
  <2> DEFINE r == [NoRequest EXCEPT !.op = "editRules", !.rules = {Edit(q, row)}]
  <2>20. RuleLike(row) /\ row.category \in Category
    BY DEF RuleLike, LedgerInvariant
  <2>3. r.op = "editRules" /\ r.rules = {Edit(q, row)} /\ r.txns = {}
    BY DEF NoRequest
  <2> HIDE DEF r
  <2>4. RequestSound(r)
    BY <2>20, <2>3, RowRequest DEF Edit
  <2>5. QED
    BY <2>2, <2>4, AskKeeps DEF r
<1>3. CASE AskDeleteRule(s)
  <2>1. PICK q \in rules : Ask(s, [NoRequest EXCEPT !.op = "dropRule", !.rules = {Kept(q)}])
    BY <1>3 DEF AskDeleteRule
  <2> DEFINE r == [NoRequest EXCEPT !.op = "dropRule", !.rules = {Kept(q)}]
  <2>2. RuleLike(q) /\ q.category \in Category
    BY DEF LedgerInvariant, ReferencesHold
  <2>3. r.op = "dropRule" /\ r.rules = {Kept(q)} /\ r.txns = {}
    BY DEF NoRequest
  <2> HIDE DEF r
  <2>4. RequestSound(r)
    BY <2>2, <2>3, RowRequest DEF Kept, Edit
  <2>5. QED
    BY <2>1, <2>4, AskKeeps DEF r
<1>4. CASE AskReorder(s)
  <2> DEFINE Renumbered(list) ==
               {Edit(q, [q EXCEPT !.priority = Priority(rules, q, list)]) : q \in rules}
             r(list) == [NoRequest EXCEPT !.op = "editRules", !.list = list, !.rules = Renumbered(list)]
  <2>1. PICK n \in 1 .. MaxRules : \E list \in [1 .. n -> 1 .. MaxRules] : Ask(s, r(list))
    BY <1>4 DEF AskReorder
  <2>2. PICK list \in [1 .. n -> 1 .. MaxRules] : Ask(s, r(list))
    BY <2>1
  <2>3. ASSUME NEW e \in Renumbered(list)
        PROVE  RuleLike(e.new) /\ e.new.category \in Category
    <3>1. PICK q \in rules : e = Edit(q, [q EXCEPT !.priority = Priority(rules, q, list)])
      BY <2>3
    <3> DEFINE priority == Priority(rules, q, list)
    <3>2. e.new = [q EXCEPT !.priority = priority]
      BY <3>1 DEF Edit
    <3> HIDE DEF priority
    <3>3. RuleLike(q) /\ q.category \in Category
      BY DEF LedgerInvariant, ReferencesHold
    <3>4. QED
      BY <3>2, <3>3 DEF RuleLike
  <2> HIDE DEF Renumbered
  <2>4. r(list).op = "editRules" /\ r(list).rules = Renumbered(list) /\ r(list).txns = {}
    BY DEF NoRequest
  <2> HIDE DEF r
  <2>5. RequestSound(r(list))
    BY <2>3, <2>4, RowRequest
  <2>6. QED
    BY <2>2, <2>5, AskKeeps
<1>5. QED
  BY <1>1, <1>2, <1>3, <1>4 DEF AskRules

LEMMA Refiled ==
  ASSUME NEW t, TxnLike(t), NEW c, NEW by
  PROVE  TxnLike([t EXCEPT !.category = c, !.by = by])
<1> DEFINE u == [t EXCEPT !.category = c]
           v == [u EXCEPT !.by = by]
<1>1. TxnLike(u)
  BY DEF TxnLike
<1> HIDE DEF u
<1>2. TxnLike(v)
  BY <1>1 DEF TxnLike
<1>3. QED
  BY <1>2 DEF u

LEMMA CategorizedLike ==
  ASSUME NEW t, TxnLike(t)
  PROVE  TxnLike(Categorized(t))
<1> DEFINE c == Picked(rules, t.shape)
<1>1. Categorized(t) = t \/ Categorized(t) = [t EXCEPT !.category = c, !.by = "rule"]
  BY DEF Categorized
<1> HIDE DEF c
<1>2. QED
  BY <1>1 DEF TxnLike

LEMMA TxnRequests ==
  ASSUME LedgerInvariant, NEW s \in Sessions, AskTxns(s)
  PROVE  LedgerInvariant'
<1>1. CASE AskCreateTxn(s)
  <2> DEFINE typed(id, shape, c) == [id |-> id, shape |-> shape, category |-> c, text |-> FALSE,
                                     by |-> IF c = None THEN "nobody" ELSE "user"]
             edits(id, shape, c) == {Edit(typed(id, shape, c), Categorized(typed(id, shape, c)))}
             r(id, shape, c) == [NoRequest EXCEPT !.op = "addTxns", !.txns = edits(id, shape, c)]
  <2>1. PICK id \in 1 .. MaxTxns, shape \in Shapes, c \in Categories \cup {None} : Ask(s, r(id, shape, c))
    BY <1>1 DEF AskCreateTxn
  <2>2. TxnLike(typed(id, shape, c))
    BY DEF TxnLike
  <2>3. \A e \in edits(id, shape, c) : TxnLike(e.new)
    BY <2>2, CategorizedLike DEF Edit
  <2> HIDE DEF edits
  <2>4. r(id, shape, c).op = "addTxns" /\ r(id, shape, c).rules = {} /\ r(id, shape, c).txns = edits(id, shape, c)
    BY DEF NoRequest
  <2> HIDE DEF r
  <2>5. QED
    BY <2>1, <2>3, <2>4, RowRequest, AskKeeps
<1>2. CASE AskImport(s)
  <2> DEFINE row(file, id, n) == [id |-> id + n - 1, shape |-> Imported(file)[n], category |-> None,
                                  text |-> TRUE, by |-> "nobody"]
             edits(file, id) == {Edit(row(file, id, n), Categorized(row(file, id, n))) : n \in DOMAIN Imported(file)}
             r(file, id) == [NoRequest EXCEPT !.op = "addTxns", !.list = file, !.seen = txns,
                                              !.txns = edits(file, id)]
  <2>1. PICK file \in Files, id \in 1 .. MaxTxns : Ask(s, r(file, id))
    BY <1>2 DEF AskImport
  <2>2. \A n : TxnLike(row(file, id, n))
    BY DEF TxnLike
  <2> HIDE DEF row
  <2>3. \A e \in edits(file, id) : TxnLike(e.new)
    BY <2>2, CategorizedLike DEF Edit
  <2> HIDE DEF edits
  <2>4. r(file, id).op = "addTxns" /\ r(file, id).rules = {} /\ r(file, id).txns = edits(file, id)
    BY DEF NoRequest
  <2> HIDE DEF r
  <2>5. QED
    BY <2>1, <2>3, <2>4, RowRequest, AskKeeps
<1>3. CASE AskUpdateTxn(s)
  <2> DEFINE edits(t, c) == {Edit(t, [t EXCEPT !.category = c, !.by = "user"])}
             r(t, c) == [NoRequest EXCEPT !.op = "editTxns", !.txns = edits(t, c)]
  <2>1. PICK t \in txns, c \in Categories \cup {None} : Ask(s, r(t, c))
    BY <1>3 DEF AskUpdateTxn
  <2>2. TxnLike([t EXCEPT !.category = c, !.by = "user"])
    BY Refiled DEF LedgerInvariant
  <2>3. \A e \in edits(t, c) : TxnLike(e.new)
    BY <2>2 DEF Edit
  <2> HIDE DEF edits
  <2>4. r(t, c).op = "editTxns" /\ r(t, c).rules = {} /\ r(t, c).txns = edits(t, c)
    BY DEF NoRequest
  <2> HIDE DEF r
  <2>5. QED
    BY <2>1, <2>3, <2>4, RowRequest, AskKeeps
<1>4. CASE AskDeleteTxn(s)
  <2> DEFINE r(t) == [NoRequest EXCEPT !.op = "dropTxn", !.txns = {Kept(t)}]
  <2>1. PICK t \in txns : Ask(s, r(t))
    BY <1>4 DEF AskDeleteTxn
  <2>2. r(t).op = "dropTxn" /\ r(t).rules = {} /\ r(t).txns = {Kept(t)}
    BY DEF NoRequest
  <2>3. TxnLike(Kept(t).new)
    BY DEF LedgerInvariant, Kept, Edit
  <2> HIDE DEF r
  <2>4. QED
    BY <2>1, <2>2, <2>3, RowRequest, AskKeeps
<1>5. CASE AskBackfill(s)
  <2> DEFINE r(o) == [NoRequest EXCEPT !.op = "editTxns", !.txns = Backfilled(o),
                                       !.seen = IF o THEN {} ELSE txns]
  <2>1. PICK o \in BOOLEAN : Ask(s, r(o))
    BY <1>5 DEF AskBackfill
  <2>2. ASSUME NEW e \in Backfilled(o)
        PROVE  TxnLike(e.new)
    <3>1. PICK t \in txns : e = Edit(t, [t EXCEPT !.category = Picked(rules, t.shape), !.by = "rule"])
      BY <2>2 DEF Backfilled
    <3> DEFINE c == Picked(rules, t.shape)
    <3>2. e.new = [t EXCEPT !.category = c, !.by = "rule"]
      BY <3>1 DEF Edit
    <3> HIDE DEF c
    <3>3. QED
      BY <3>2 DEF LedgerInvariant, TxnLike
  <2>3. r(o).op = "editTxns" /\ r(o).rules = {} /\ r(o).txns = Backfilled(o)
    BY DEF NoRequest
  <2> HIDE DEF r
  <2>4. QED
    BY <2>1, <2>2, <2>3, RowRequest, AskKeeps
<1>6. QED
  BY <1>1, <1>2, <1>3, <1>4, <1>5 DEF AskTxns

LEMMA Requests ==
  ASSUME LedgerInvariant, NEW s \in Sessions, Request(s)
  PROVE  LedgerInvariant'
<1>1. CASE AskPutBudget(s)
  <2> DEFINE r(c) == [NoRequest EXCEPT !.op = "putBudget", !.category = c]
  <2>1. PICK c \in Categories : Ask(s, r(c))
    BY <1>1 DEF AskPutBudget
  <2>2. r(c).op = "putBudget" /\ r(c).rules = {} /\ r(c).txns = {}
    BY DEF NoRequest
  <2> HIDE DEF r
  <2>3. QED
    BY <2>1, <2>2, RowRequest, AskKeeps
<1>2. QED
  BY <1>1, CategoryRequests, RuleRequests, TxnRequests DEF Request
-------------------------------------------------------------------------------
(* The commit *)

LEMMA SavedTxn ==
  ASSUME NEW stored, TxnLike(stored), NEW e
  PROVE  /\ TxnLike(MergeTxn(stored, e))
         /\ MergeTxn(stored, e).category \in {stored.category, e.new.category}
<1> DEFINE c == e.new.category
           by == e.new.by
<1>1. MergeTxn(stored, e) = stored \/ MergeTxn(stored, e) = [stored EXCEPT !.category = c, !.by = by]
  BY DEF MergeTxn
<1> HIDE DEF by
<1>2. QED
  BY <1>1 DEF TxnLike

\* An edited row is the stored one, or has the category of the edit, which then is not the old one.
LEMMA SavedRule ==
  ASSUME NEW stored, RuleLike(stored), NEW e
  PROVE  /\ RuleLike(MergeRule(stored, e))
         /\ \/ MergeRule(stored, e).category = stored.category
            \/ MergeRule(stored, e).category = e.new.category /\ e.old.category # e.new.category
<1> DEFINE c == Column(stored.category, e.old.category, e.new.category)
           p == Column(stored.priority, e.old.priority, e.new.priority)
           shapes == Column(stored.pattern, e.old.pattern, e.new.pattern)
<1>1. c = stored.category \/ (c = e.new.category /\ e.old.category # e.new.category)
  BY DEF Column
<1>2. MergeRule(stored, e) = [stored EXCEPT !.pattern = shapes, !.category = c, !.priority = p]
  BY DEF MergeRule, RuleLike
<1> HIDE DEF c, p, shapes
<1>3. QED
  BY <1>1, <1>2 DEF RuleLike

LEMMA RulesKeep ==
  ASSUME LedgerInvariant, NEW s \in Sessions, Commit(s)
  PROVE  \A q \in rules' : RuleLike(q) /\ q.category \in Categories'
<1> DEFINE r == request[s]
<1>1. /\ RequestSound(r) /\ Allowed(r) /\ rules' = RulesAfter(r) /\ parent' = CategoriesAfter(r)
      /\ \A q \in rules : RuleLike(q) /\ q.category \in Categories
      /\ Categories \subseteq Category
  BY DEF LedgerInvariant, ReferencesHold, Commit
<1> HIDE DEF r
<1>2. ASSUME NEW e \in r.rules, e.new.category \in Categories \cup {None}
      PROVE  e.new.category \in Categories
  BY <1>1, <1>2, CategoriesAssumption DEF RequestSound, RowsSound
<1>3. CASE r.op = "addRule"
  <2>1. Categories' = Categories
    BY <1>1, <1>3 DEF CategoriesAfter, Categories
  <2>2. \A e \in r.rules : RuleLike(e.new) /\ e.new.category \in Categories
    BY <1>1, <1>2, <1>3 DEF Allowed, Known, RequestSound, RowsSound
  <2>3. QED
    BY <1>1, <1>3, <2>1, <2>2 DEF RulesAfter
<1>4. CASE r.op = "editRules"
  <2>1. Categories' = Categories
    BY <1>1, <1>4 DEF CategoriesAfter, Categories
  <2>2. ASSUME NEW q \in rules'
        PROVE  RuleLike(q) /\ q.category \in Categories
    <3>1. rules' = {IF EditOf(row, r.rules) = {} THEN row
                    ELSE MergeRule(row, CHOOSE e \in EditOf(row, r.rules) : TRUE) : row \in rules}
      BY <1>1, <1>4 DEF RulesAfter, Saved
    <3>2. PICK row \in rules :
             q = IF EditOf(row, r.rules) = {} THEN row
                 ELSE MergeRule(row, CHOOSE e \in EditOf(row, r.rules) : TRUE)
      BY <3>1, <2>2
    <3>3. CASE EditOf(row, r.rules) = {}
      BY <1>1, <3>2, <3>3
    <3>4. CASE EditOf(row, r.rules) # {}
      <4> DEFINE e == CHOOSE f \in EditOf(row, r.rules) : TRUE
      <4>1. e \in r.rules /\ q = MergeRule(row, e)
        BY <3>2, <3>4 DEF EditOf
      <4> HIDE DEF e
      <4>2. e.old.category # e.new.category => e.new.category \in Categories
        BY <1>1, <1>2, <1>4, <4>1 DEF Allowed, Known
      <4>3. QED
        BY <1>1, <4>1, <4>2, SavedRule
    <3>5. QED
      BY <3>3, <3>4
  <2>3. QED
    BY <2>1, <2>2
<1>5. CASE r.op = "dropCategory"
  BY <1>1, <1>5 DEF RulesAfter, CategoriesAfter, Categories
<1>6. CASE r.op \notin {"addRule", "editRules", "dropCategory"}
  <2>1. Categories \subseteq Categories'
    BY <1>1, <1>6 DEF CategoriesAfter, Categories
  <2>2. rules' \subseteq rules
    BY <1>1, <1>6 DEF RulesAfter
  <2>3. QED
    BY <1>1, <2>1, <2>2
<1>7. QED
  BY <1>3, <1>4, <1>5, <1>6

LEMMA TxnsKeep ==
  ASSUME LedgerInvariant, NEW s \in Sessions, Commit(s)
  PROVE  \A t \in txns' : TxnLike(t) /\ t.category \in Categories' \cup {None}
<1> DEFINE r == request[s]
<1>1. /\ RequestSound(r) /\ Allowed(r) /\ txns' = TxnsAfter(r) /\ parent' = CategoriesAfter(r)
      /\ \A t \in txns : TxnLike(t) /\ t.category \in Categories \cup {None}
  BY DEF LedgerInvariant, ReferencesHold, Commit
<1> HIDE DEF r
<1>2. CASE r.op = "addTxns"
  <2>1. Categories' = Categories
    BY <1>1, <1>2 DEF CategoriesAfter, Categories
  <2>2. \A e \in r.txns : TxnLike(e.new) /\ e.new.category \in Categories \cup {None}
    BY <1>1, <1>2 DEF Allowed, Known, RequestSound, RowsSound
  <2>3. QED
    BY <1>1, <1>2, <2>1, <2>2 DEF TxnsAfter
<1>3. CASE r.op = "editTxns"
  <2>1. Categories' = Categories
    BY <1>1, <1>3 DEF CategoriesAfter, Categories
  <2>2. ASSUME NEW t \in txns'
        PROVE  TxnLike(t) /\ t.category \in Categories \cup {None}
    <3>1. txns' = {IF EditOf(row, r.txns) = {} THEN row
                   ELSE MergeTxn(row, CHOOSE e \in EditOf(row, r.txns) : TRUE) : row \in txns}
      BY <1>1, <1>3 DEF TxnsAfter, Saved
    <3>2. PICK row \in txns :
             t = IF EditOf(row, r.txns) = {} THEN row
                 ELSE MergeTxn(row, CHOOSE e \in EditOf(row, r.txns) : TRUE)
      BY <3>1, <2>2
    <3>3. CASE EditOf(row, r.txns) = {}
      BY <1>1, <3>2, <3>3
    <3>4. CASE EditOf(row, r.txns) # {}
      <4> DEFINE e == CHOOSE f \in EditOf(row, r.txns) : TRUE
      <4>1. e \in r.txns /\ t = MergeTxn(row, e)
        BY <3>2, <3>4 DEF EditOf
      <4> HIDE DEF e
      <4>2. e.new.category \in Categories \cup {None}
        BY <1>1, <1>3, <4>1 DEF Allowed, Known
      <4>3. QED
        BY <1>1, <4>1, <4>2, SavedTxn
    <3>5. QED
      BY <3>3, <3>4
  <2>3. QED
    BY <2>1, <2>2
<1>4. CASE r.op = "dropCategory"
  BY <1>1, <1>4 DEF TxnsAfter, CategoriesAfter, Categories, Allowed, Filed
<1>5. CASE r.op \notin {"addTxns", "editTxns", "dropCategory"}
  <2>1. Categories \subseteq Categories'
    BY <1>1, <1>5 DEF CategoriesAfter, Categories
  <2>2. txns' \subseteq txns
    BY <1>1, <1>5 DEF TxnsAfter
  <2>3. QED
    BY <1>1, <2>1, <2>2
<1>6. QED
  BY <1>2, <1>3, <1>4, <1>5

LEMMA TreeKeeps ==
  ASSUME LedgerInvariant, NEW s \in Sessions, Commit(s)
  PROVE  /\ System \subseteq Categories' /\ Categories' \subseteq Category
         /\ \A c \in Categories' : parent'[c] \in (Categories' \cup {None}) \ {c}
         /\ budgets' \subseteq Categories'
<1> DEFINE r == request[s]
<1>1. /\ RequestSound(r) /\ Allowed(r) /\ parent' = CategoriesAfter(r) /\ budgets' = BudgetsAfter(r)
      /\ System \subseteq Categories /\ Categories \subseteq Category
      /\ \A c \in Categories : parent[c] \in (Categories \cup {None}) \ {c}
      /\ budgets \subseteq Categories
  BY DEF LedgerInvariant, ReferencesHold, Commit
<1> HIDE DEF r
<1>2. CASE r.op \in {"addCategory", "moveCategory"}
  <2>1. /\ Categories' = Categories \cup {r.category}
        /\ \A c \in Categories' : parent'[c] = IF c = r.category THEN r.parent ELSE parent[c]
        /\ budgets' = budgets
    BY <1>1, <1>2 DEF CategoriesAfter, Categories, BudgetsAfter
  <2>2. r.category \in Custom /\ r.parent # r.category /\ r.parent \in Categories \cup {None}
    BY <1>1, <1>2 DEF Allowed, Known, RequestSound, TreeSound
  <2>3. QED
    BY <1>1, <2>1, <2>2 DEF Category
<1>3. CASE r.op = "dropCategory"
  <2>1. /\ Categories' = Categories \ {r.category}
        /\ \A c \in Categories' : parent'[c] = parent[c]
        /\ budgets' = budgets \ {r.category}
    BY <1>1, <1>3 DEF CategoriesAfter, Categories, BudgetsAfter
  <2>2. r.category \in Custom /\ \A c \in Categories : parent[c] # r.category
    BY <1>1, <1>3 DEF Allowed, Children, RequestSound, DropSound
  <2>3. QED
    BY <1>1, <2>1, <2>2, CategoriesAssumption
<1>4. CASE r.op \notin {"addCategory", "moveCategory", "dropCategory"}
  BY <1>1, <1>4 DEF CategoriesAfter, Categories, BudgetsAfter, Allowed
<1>5. QED
  BY <1>2, <1>3, <1>4
-------------------------------------------------------------------------------
(* The theorems *)

LEMMA InvariantInit == Init => LedgerInvariant
<1> SUFFICES ASSUME Init PROVE LedgerInvariant
  OBVIOUS
<1>1. /\ Categories = System /\ Categories \subseteq Category
      /\ \A c \in Categories : parent[c] \in (Categories \cup {None}) \ {c}
  <2>1. PICK p \in [System -> Groups \cup {None}] :
           parent = p /\ \A c \in System : p[c] = None <=> c \in Groups
    BY DEF Init
  <2>2. \A c \in System : c # None
    BY CategoriesAssumption DEF Category, System
  <2>3. \A c \in System : p[c] # c
    BY <2>1, <2>2
  <2>4. QED
    BY <2>1, <2>3 DEF Categories, System, Category
<1>2. DOMAIN request = Sessions /\ \A s \in Sessions : RequestSound(request[s])
  BY NoRequestSound DEF Init
<1>3. QED
  BY <1>1, <1>2 DEF Init, LedgerInvariant, ReferencesHold

LEMMA InvariantStep == LedgerInvariant /\ [Next]_vars => LedgerInvariant'
<1> SUFFICES ASSUME LedgerInvariant, [Next]_vars PROVE LedgerInvariant'
  OBVIOUS
<1>1. ASSUME NEW s \in Sessions, Request(s)
      PROVE  LedgerInvariant'
  BY <1>1, Requests
<1>2. ASSUME NEW s \in Sessions, Commit(s)
      PROVE  LedgerInvariant'
  <2>1. DOMAIN request' = Sessions /\ \A u \in Sessions : RequestSound(request'[u])
    BY <1>2, DoneKeeps DEF Commit
  <2>2. QED
    BY <1>2, <2>1, RulesKeep, TxnsKeep, TreeKeeps DEF LedgerInvariant, ReferencesHold, RequestSound,
       TreeSound, DropSound, RowsSound, RuleLike, TxnLike
<1>3. ASSUME NEW s \in Sessions, Refuse(s)
      PROVE  LedgerInvariant'
  <2>1. DOMAIN request' = Sessions /\ \A u \in Sessions : RequestSound(request'[u])
    BY <1>3, DoneKeeps DEF Refuse
  <2>2. UNCHANGED tables
    BY <1>3 DEF Refuse
  <2>3. QED
    BY <2>1, <2>2 DEF LedgerInvariant, ReferencesHold, tables, Categories, RequestSound, TreeSound,
                      DropSound, RowsSound, RuleLike, TxnLike
<1>4. CASE UNCHANGED vars
  BY <1>4 DEF vars, LedgerInvariant, ReferencesHold, Categories, RequestSound, TreeSound,
              DropSound, RowsSound, RuleLike, TxnLike
<1>5. QED
  BY <1>1, <1>2, <1>3, <1>4 DEF Next

\* Whatever requests overlap, nothing is left pointing at a category that is gone: the foreign keys
\* and the cascade of a deletion make good what the checks before it have missed.
THEOREM ReferencesAlwaysHold == Spec => []ReferencesHold
<1>1. LedgerInvariant => ReferencesHold
  BY DEF LedgerInvariant
<1>2. QED
  BY <1>1, InvariantInit, InvariantStep, PTL DEF Spec

\* A rule or a budget that was there when the deletion of a category was checked is there after it:
\* the check found none that points at the category.
THEOREM PointersSurviveDeletion ==
  ASSUME NamesAreNoRows
  PROVE  Spec => OldPointersSurvive
<1>1. ASSUME LedgerInvariant, NEW s \in Sessions, Commit(s), request[s].op = "dropCategory",
             NEW row \in request[s].seen
      PROVE  (row \in rules => row \in rules') /\ (row \in budgets => row \in budgets')
  <2>1. DropSound(request[s])
    BY <1>1 DEF LedgerInvariant, RequestSound
  <2>2. row # request[s].category /\ (RuleLike(row) => row.category # request[s].category)
    BY <1>1, <2>1, NamesAreNoRows DEF DropSound
  <2>3. /\ rules' = {q \in rules : q.category # request[s].category}
        /\ budgets' = budgets \ {request[s].category}
    BY <1>1 DEF Commit, RulesAfter, BudgetsAfter
  <2>4. row \in rules => RuleLike(row)
    BY <1>1 DEF LedgerInvariant
  <2>5. QED
    BY <2>2, <2>3, <2>4
<1>2. LedgerInvariant =>
        \A s \in Sessions : Commit(s) /\ request[s].op = "dropCategory" =>
           \A row \in request[s].seen :
              (row \in rules => row \in rules') /\ (row \in budgets => row \in budgets')
  BY <1>1
<1>3. QED
  BY <1>2, InvariantInit, InvariantStep, PTL DEF Spec, OldPointersSurvive
-------------------------------------------------------------------------------
(* Sets in order *)

\* A part that is not the whole of a finite set has fewer members.
LEMMA StrictlyFewer ==
  ASSUME NEW S, IsFiniteSet(S), NEW A \in SUBSET S, NEW B \in SUBSET S, A \subseteq B, A # B
  PROVE  Cardinality(A) \in Nat /\ Cardinality(B) \in Nat /\ Cardinality(A) < Cardinality(B)
<1>1. IsFiniteSet(B) /\ IsFiniteSet(A)
  BY FS_Subset
<1>2. Cardinality(A) \in Nat /\ Cardinality(B) \in Nat
  BY <1>1, FS_CardinalityType
<1>3. Cardinality(A) <= Cardinality(B) /\ Cardinality(A) # Cardinality(B)
  BY <1>1, FS_Subset
<1>4. QED
  BY <1>2, <1>3

StrictOrder(S, R) ==
    /\ \A x \in S : <<x, x>> \notin R
    /\ \A x, y, z \in S : <<x, y>> \in R /\ <<y, z>> \in R => <<x, z>> \in R
    /\ \A x, y \in S : x = y \/ <<x, y>> \in R \/ <<y, x>> \in R

UpTo(S, R, x) == {y \in S : y = x \/ <<y, x>> \in R}

\* In a strict total order of a finite set exactly one member is the n-th.
LEMMA RankOnto ==
  ASSUME NEW S, IsFiniteSet(S), NEW R, StrictOrder(S, R)
  PROVE  \A n \in 1 .. Cardinality(S) :
           \E x \in S : /\ Cardinality(UpTo(S, R, x)) = n
                        /\ \A z \in S : Cardinality(UpTo(S, R, z)) = n => z = x
<1> DEFINE upTo(x) == UpTo(S, R, x)
           rank == [x \in S |-> Cardinality(upTo(x))]
<1> USE DEF StrictOrder
<1>1. \A x \in S : upTo(x) \in SUBSET S /\ x \in upTo(x)
  BY DEF UpTo
<1>2. ASSUME NEW x \in S, NEW z \in S, <<x, z>> \in R
      PROVE  Cardinality(upTo(x)) < Cardinality(upTo(z))
  <2>1. upTo(x) \subseteq upTo(z) /\ z \in upTo(z) /\ z \notin upTo(x)
    BY <1>2 DEF UpTo
  <2> HIDE DEF upTo
  <2>2. upTo(x) \in SUBSET S /\ upTo(z) \in SUBSET S /\ upTo(x) # upTo(z)
    BY <1>1, <2>1
  <2>3. QED
    BY <2>1, <2>2, StrictlyFewer
<1>3. \A x \in S : Cardinality(upTo(x)) \in 1 .. Cardinality(S)
  <2> SUFFICES ASSUME NEW x \in S PROVE Cardinality(upTo(x)) \in 1 .. Cardinality(S)
    OBVIOUS
  <2>1. upTo(x) \in SUBSET S /\ upTo(x) # {}
    BY <1>1
  <2> HIDE DEF upTo
  <2>2. IsFiniteSet(upTo(x)) /\ Cardinality(upTo(x)) <= Cardinality(S)
    BY <2>1, FS_Subset
  <2>3. Cardinality(upTo(x)) \in Nat /\ Cardinality(S) \in Nat /\ Cardinality(upTo(x)) # 0
    BY <2>1, <2>2, FS_CardinalityType, FS_EmptySet
  <2>4. QED
    BY <2>2, <2>3
<1>4. \A x, z \in S : Cardinality(upTo(x)) = Cardinality(upTo(z)) => x = z
  <2> SUFFICES ASSUME NEW x \in S, NEW z \in S, x # z
               PROVE  Cardinality(upTo(x)) # Cardinality(upTo(z))
    OBVIOUS
  <2>1. <<x, z>> \in R \/ <<z, x>> \in R
    OBVIOUS
  <2>2. Cardinality(upTo(x)) \in Int /\ Cardinality(upTo(z)) \in Int
    BY <1>3
  <2>3. Cardinality(upTo(x)) < Cardinality(upTo(z)) \/ Cardinality(upTo(z)) < Cardinality(upTo(x))
    BY <1>2, <2>1
  <2> HIDE DEF upTo
  <2>4. QED
    BY <2>2, <2>3
<1> HIDE DEF upTo
<1>5. rank \in Injection(S, 1 .. Cardinality(S))
  BY <1>3, <1>4 DEF Injection, IsInjective
<1>6. Cardinality(S) = Cardinality(1 .. Cardinality(S)) /\ IsFiniteSet(1 .. Cardinality(S))
  <2>1. Cardinality(S) \in Nat
    BY FS_CardinalityType
  <2>2. QED
    BY <2>1, FS_Interval
<1>7. rank \in Surjection(S, 1 .. Cardinality(S))
  BY <1>5, <1>6, FS_Injection
<1>8. \A n \in 1 .. Cardinality(S) : \E x \in S : Cardinality(upTo(x)) = n
  BY <1>7 DEF Surjection
<1>9. \A n \in 1 .. Cardinality(S) :
         \E x \in S : Cardinality(upTo(x)) = n /\ \A z \in S : Cardinality(upTo(z)) = n => z = x
  BY <1>4, <1>8
<1>10. QED
  BY <1>9 DEF upTo

\* It has a first member.
LEMMA FirstOf ==
  ASSUME NEW S, IsFiniteSet(S), S # {}, NEW R, StrictOrder(S, R)
  PROVE  \E x \in S : \A y \in S : y = x \/ <<x, y>> \in R
<1>1. 1 \in 1 .. Cardinality(S)
  BY FS_CardinalityType, FS_EmptySet
<1>2. PICK x \in S : Cardinality(UpTo(S, R, x)) = 1
  BY <1>1, RankOnto
<1>3. IsFiniteSet(UpTo(S, R, x)) /\ x \in UpTo(S, R, x)
  <2>1. UpTo(S, R, x) \in SUBSET S /\ x \in UpTo(S, R, x)
    BY DEF UpTo
  <2>2. QED
    BY <2>1, FS_Subset
<1>4. UpTo(S, R, x) = {x}
  BY <1>2, <1>3, FS_Singleton
<1>5. ASSUME NEW y \in S, y # x
      PROVE  <<x, y>> \in R
  <2>1. <<y, x>> \notin R
    BY <1>4, <1>5 DEF UpTo
  <2>2. QED
    BY <1>5, <2>1 DEF StrictOrder
<1>6. QED
  BY <1>5

\* Rows whose ids are small numbers, and tell them apart, are finitely many.
LEMMA RowsFinite ==
  ASSUME NEW rows, NEW m \in Nat, \A r \in rows : r.id \in 1 .. m,
         \A q, r \in rows : q.id = r.id => q = r
  PROVE  IsFiniteSet(rows)
<1> DEFINE f == [r \in rows |-> r.id]
<1>1. f \in Injection(rows, 1 .. m)
  BY DEF Injection, IsInjective
<1>2. IsFiniteSet(1 .. m)
  BY FS_Interval
<1>3. QED
  BY <1>1, <1>2, FS_Injection

LEMMA TablesFinite ==
  ASSUME TypeOK
  PROVE  IsFiniteSet(rules) /\ IsFiniteSet(txns)
<1>1. IsFiniteSet(rules)
  <2>1. /\ \A r \in rules : r.id \in 1 .. MaxRules
        /\ \A q, r \in rules : q.id = r.id => q = r
    BY DEF TypeOK, RuleRow
  <2>2. QED
    BY <2>1, BoundsAssumption, RowsFinite
<1>2. IsFiniteSet(txns)
  <2>1. /\ \A t \in txns : t.id \in 1 .. MaxTxns
        /\ \A t, u \in txns : t.id = u.id => t = u
    BY DEF TypeOK, TxnRow
  <2>2. QED
    BY <2>1, BoundsAssumption, RowsFinite
<1>3. QED
  BY <1>1, <1>2

\* Priority, then age, puts the rules in a strict total order.
LEMMA BeforeIsOrder ==
  ASSUME NEW rows \in SUBSET RuleRow, \A q, r \in rows : q.id = r.id => q = r
  PROVE  /\ \A r \in rows : ~Before(r, r)
         /\ \A p, q, r \in rows : Before(p, q) /\ Before(q, r) => Before(p, r)
         /\ \A q, r \in rows : q = r \/ Before(q, r) \/ Before(r, q)
         /\ \A q, r \in rows : ~(Before(q, r) /\ Before(r, q))
<1>1. \A r \in rows : r.id \in Int /\ r.priority \in Int
  BY DEF RuleRow
<1>2. \A r \in rows : ~Before(r, r)
  BY <1>1 DEF Before
<1>3. \A p, q, r \in rows : Before(p, q) /\ Before(q, r) => Before(p, r)
  BY <1>1 DEF Before
<1>4. \A q, r \in rows : q = r \/ Before(q, r) \/ Before(r, q)
  BY <1>1 DEF Before
<1>5. QED
  BY <1>2, <1>3, <1>4

\* If any rule fits, one is tried first, and it is the one whose category is taken.
LEMMA PickedRule ==
  ASSUME TypeOK, NEW shape
  PROVE  \/ Picked(rules, shape) = None
         \/ \E r \in rules : shape \in r.pattern /\ Picked(rules, shape) = r.category
<1> DEFINE fits == {r \in rules : shape \in r.pattern}
           R == {p \in fits \X fits : Before(p[1], p[2])}
<1>1. CASE fits = {}
  BY <1>1 DEF Picked
<1>2. CASE fits # {}
  <2>1. IsFiniteSet(fits) /\ fits \in SUBSET RuleRow /\ \A q, r \in fits : q.id = r.id => q = r
    <3>1. fits \in SUBSET rules
      OBVIOUS
    <3>2. QED
      BY <3>1, TablesFinite, FS_Subset DEF TypeOK
  <2>2. \A q, r \in fits : <<q, r>> \in R <=> Before(q, r)
    OBVIOUS
  <2>3. StrictOrder(fits, R)
    <3> HIDE DEF fits, R
    <3>1. QED
      BY <2>1, <2>2, BeforeIsOrder DEF StrictOrder
  <2>4. \E r \in fits : \A q \in fits : q = r \/ <<r, q>> \in R
    <3> HIDE DEF fits, R
    <3>1. QED
      BY <1>2, <2>1, <2>3, FirstOf
  <2>5. \E r \in fits : \A q \in fits : q = r \/ Before(r, q)
    BY <2>2, <2>4
  <2>6. (CHOOSE x \in fits : \A q \in fits : q = x \/ Before(x, q)) \in fits
    BY <2>5
  <2>7. Picked(rules, shape) = (CHOOSE x \in fits : \A q \in fits : q = x \/ Before(x, q)).category
    BY <1>2 DEF Picked
  <2>8. QED
    BY <2>6, <2>7
<1>3. QED
  BY <1>1, <1>2

LEMMA PickedType ==
  ASSUME TypeOK, NEW shape
  PROVE  Picked(rules, shape) \in Category \cup {None}
<1>1. \A r \in rules : r.category \in Category
  BY DEF TypeOK, RuleRow
<1>2. QED
  BY <1>1, PickedRule

\* The sets that make up the place of a rule in a new order.
LEMMA PlaceSets ==
  ASSUME NEW rows, IsFiniteSet(rows), NEW row, NEW n \in Nat, NEW list, DOMAIN list = 1 .. n
  PROVE  /\ IsFiniteSet(Listed(rows, list))
         /\ {i \in Listed(rows, list) : \E j \in DOMAIN list : list[j] = row.id /\ i <= j}
              \in SUBSET Listed(rows, list)
         /\ {r \in rows : r.id \notin Range(list) /\ ~Before(row, r)} \in SUBSET rows
<1>1. IsFiniteSet(1 .. n)
  BY FS_Interval
<1>2. Listed(rows, list) \in SUBSET (1 .. n)
  BY DEF Listed
<1>3. QED
  BY <1>1, <1>2, FS_Subset

LEMMA PlaceType ==
  ASSUME NEW rows, IsFiniteSet(rows), NEW row, NEW n \in Nat, NEW list, DOMAIN list = 1 .. n
  PROVE  Place(rows, row, list) \in Nat
<1> DEFINE L == Listed(rows, list)
           U == {i \in L : \E j \in DOMAIN list : list[j] = row.id /\ i <= j}
           V == {r \in rows : r.id \notin Range(list) /\ ~Before(row, r)}
<1>1. IsFiniteSet(L) /\ U \in SUBSET L /\ V \in SUBSET rows
  BY PlaceSets
<1>2. Cardinality(L) \in Nat /\ Cardinality(U) \in Nat /\ Cardinality(V) \in Nat
  BY <1>1, FS_Subset, FS_CardinalityType
<1>3. Place(rows, row, list) = IF row.id \in Range(list) THEN Cardinality(U)
                               ELSE Cardinality(L) + Cardinality(V)
  BY DEF Place
<1> HIDE DEF L, U, V
<1>4. QED
  BY <1>2, <1>3
-------------------------------------------------------------------------------
(* What a request brings to its commit *)

SameIds(edits) == \A e, f \in edits : e.old.id = f.old.id => e = f

KeepsIds(edits) == \A e \in edits : e.new.id = e.old.id

\* A row the user gave a category is entered as it is; one that a rule refiles had none, or every
\* row was asked for.
UserKept(r) ==
    /\ r.op = "addTxns" => \A e \in r.txns : e.old.category # None => e.new = e.old
    /\ r.op = "editTxns" => \A e \in r.txns :
                              e.new.by = "rule" => e.old.category = None \/ e.old \in r.seen

\* A new order gives each rule as it was the priority of its place among them.
ReorderSound(r) ==
    r.op = "editRules" /\ r.list # <<>> =>
       \A e \in r.rules : e.new.priority = Priority({f.old : f \in r.rules}, e.old, r.list)

NewOf(r, shape) == {e.new : e \in {f \in r.txns : f.new.shape = shape}}

\* An import brings one row for each text of the file that was not held, and no other.
ImportSound(r) ==
    r.op = "addTxns" /\ r.list # <<>> =>
       /\ \A e \in r.txns : e.new.text
       /\ \A shape \in Shapes :
            IF shape \in Range(r.list) /\ \A t \in r.seen : ~(t.text /\ t.shape = shape)
            THEN \E x : NewOf(r, shape) = {x}
            ELSE NewOf(r, shape) = {}

EditsSound(r) ==
    /\ SameIds(r.rules) /\ SameIds(r.txns) /\ KeepsIds(r.rules) /\ KeepsIds(r.txns)
    /\ UserKept(r) /\ ReorderSound(r) /\ ImportSound(r)

\* No two rows share an id, those to be inserted included.
IdsFresh ==
    /\ \A s \in Sessions : request[s].op = "addRule" =>
         \A e \in request[s].rules :
            /\ \A r \in rules : r.id # e.old.id
            /\ \A u \in Sessions \ {s} : request[u].op = "addRule" =>
                 \A f \in request[u].rules : f.old.id # e.old.id
    /\ \A s \in Sessions : request[s].op = "addTxns" =>
         \A e \in request[s].txns :
            /\ \A t \in txns : t.id # e.old.id
            /\ \A u \in Sessions \ {s} : request[u].op = "addTxns" =>
                 \A f \in request[u].txns : f.old.id # e.old.id

\* The inductive invariant behind the types of the rows and what the action properties say of them.
RowsInvariant ==
    /\ LedgerInvariant
    /\ TypeOK
    /\ IdsFresh
    /\ \A s \in Sessions : EditsSound(request[s])

\* A request to insert rows asks for ids that nobody has.
FreshFor(r) ==
    /\ r.op = "addRule" => \A e \in r.rules : NewRule(e.old.id)
    /\ r.op = "addTxns" => \A e \in r.txns : NewTxn(e.old.id)

Sound(r) == r \in RequestType /\ EditsSound(r) /\ FreshFor(r)

LEMMA NoRequestTyped == NoRequest \in RequestType /\ EditsSound(NoRequest)
<1>1. <<>> \in Seq(Shapes \cup (1 .. MaxRules))
  OBVIOUS
<1>2. NoRequest \in RequestType
  BY <1>1 DEF NoRequest, RequestType
<1>3. EditsSound(NoRequest)
  BY DEF NoRequest, EditsSound, SameIds, KeepsIds, UserKept, ReorderSound, ImportSound
<1>4. QED
  BY <1>2, <1>3

\* A request about a category brings no rows.
LEMMA CategoryRequestSound ==
  ASSUME NEW r \in RequestType,
         r.op \in {"addCategory", "moveCategory", "dropCategory", "putBudget"},
         r.rules = {}, r.txns = {}, r.list = <<>>
  PROVE  Sound(r)
BY DEF Sound, EditsSound, FreshFor, SameIds, KeepsIds, UserKept, ReorderSound, ImportSound

\* A request about rules brings rules only.
LEMMA RuleRequestSound ==
  ASSUME NEW r \in RequestType, r.op \in {"addRule", "editRules", "dropRule"}, r.txns = {},
         SameIds(r.rules), KeepsIds(r.rules),
         r.op = "addRule" => \A e \in r.rules : NewRule(e.old.id), ReorderSound(r)
  PROVE  Sound(r)
BY DEF Sound, EditsSound, FreshFor, SameIds, KeepsIds, UserKept, ImportSound

\* A request about transactions brings transactions only.
LEMMA TxnRequestSound ==
  ASSUME NEW r \in RequestType, r.op \in {"addTxns", "editTxns", "dropTxn"}, r.rules = {},
         SameIds(r.txns), KeepsIds(r.txns),
         r.op = "addTxns" => \A e \in r.txns : NewTxn(e.old.id), UserKept(r), ImportSound(r)
  PROVE  Sound(r)
BY DEF Sound, EditsSound, FreshFor, SameIds, KeepsIds, ReorderSound

LEMMA EditFields == \A old, new : Edit(old, new).old = old /\ Edit(old, new).new = new
BY DEF Edit

\* One edit, of one row.
LEMMA OneEdit ==
  ASSUME NEW rows, NEW old \in rows, NEW new \in rows, new.id = old.id
  PROVE  LET edits == {Edit(old, new)}
         IN  edits \in SUBSET EditType(rows) /\ SameIds(edits) /\ KeepsIds(edits)
BY DEF Edit, EditType, SameIds, KeepsIds

LEMMA AskedOfCategories ==
  ASSUME RowsInvariant, NEW s \in Sessions, AskCategories(s) \/ AskPutBudget(s)
  PROVE  \E r : Ask(s, r) /\ Sound(r)
<1>1. /\ Categories \subseteq Category /\ rules \subseteq RuleRow /\ budgets \subseteq Category
      /\ Custom \subseteq Category
  BY DEF RowsInvariant, TypeOK, Category
<1>2. CASE AskCreateCategory(s)
  <2>1. PICK c \in Custom, p \in Categories \cup {None} :
           Ask(s, [NoRequest EXCEPT !.op = "addCategory", !.category = c, !.parent = p])
    BY <1>2 DEF AskCreateCategory
  <2> DEFINE r == [NoRequest EXCEPT !.op = "addCategory", !.category = c, !.parent = p]
  <2>2. r \in RequestType
    BY <1>1, NoRequestTyped DEF RequestType
  <2>3. r.op = "addCategory" /\ r.rules = {} /\ r.txns = {} /\ r.list = <<>>
    BY DEF NoRequest
  <2>4. QED
    BY <2>1, <2>2, <2>3, CategoryRequestSound
<1>3. CASE AskMoveCategory(s)
  <2>1. PICK c \in Categories, p \in Categories \cup {None} :
           Ask(s, [NoRequest EXCEPT !.op = "moveCategory", !.category = c, !.parent = p])
    BY <1>3 DEF AskMoveCategory
  <2> DEFINE r == [NoRequest EXCEPT !.op = "moveCategory", !.category = c, !.parent = p]
  <2>2. r \in RequestType
    BY <1>1, NoRequestTyped DEF RequestType
  <2>3. r.op = "moveCategory" /\ r.rules = {} /\ r.txns = {} /\ r.list = <<>>
    BY DEF NoRequest
  <2>4. QED
    BY <2>1, <2>2, <2>3, CategoryRequestSound
<1>4. CASE AskDeleteCategory(s)
  <2> DEFINE seen == rules \cup budgets
  <2>1. PICK c \in Categories :
           Ask(s, [NoRequest EXCEPT !.op = "dropCategory", !.category = c, !.seen = seen])
    BY <1>4 DEF AskDeleteCategory
  <2>2. seen \in SUBSET (RuleRow \cup TxnRow \cup Category)
    BY <1>1
  <2> HIDE DEF seen
  <2> DEFINE r == [NoRequest EXCEPT !.op = "dropCategory", !.category = c, !.seen = seen]
  <2>3. r \in RequestType
    BY <1>1, <2>2, NoRequestTyped DEF RequestType
  <2>4. r.op = "dropCategory" /\ r.rules = {} /\ r.txns = {} /\ r.list = <<>>
    BY DEF NoRequest
  <2>5. QED
    BY <2>1, <2>3, <2>4, CategoryRequestSound
<1>5. CASE AskPutBudget(s)
  <2>1. PICK c \in Categories : Ask(s, [NoRequest EXCEPT !.op = "putBudget", !.category = c])
    BY <1>5 DEF AskPutBudget
  <2> DEFINE r == [NoRequest EXCEPT !.op = "putBudget", !.category = c]
  <2>2. r \in RequestType
    BY <1>1, NoRequestTyped DEF RequestType
  <2>3. r.op = "putBudget" /\ r.rules = {} /\ r.txns = {} /\ r.list = <<>>
    BY DEF NoRequest
  <2>4. QED
    BY <2>1, <2>2, <2>3, CategoryRequestSound
<1>6. QED
  BY <1>2, <1>3, <1>4, <1>5 DEF AskCategories

LEMMA AskedOfRules ==
  ASSUME RowsInvariant, NEW s \in Sessions, AskRules(s)
  PROVE  \E r : Ask(s, r) /\ Sound(r)
<1>1. /\ Categories \subseteq Category /\ rules \subseteq RuleRow
      /\ \A q, r \in rules : q.id = r.id => q = r
  BY DEF RowsInvariant, TypeOK
<1>2. CASE AskCreateRule(s)
  <2> DEFINE row(id, pattern, c, priority) ==
               [id |-> id, pattern |-> pattern, category |-> c, priority |-> priority]
  <2>1. PICK id \in 1 .. MaxRules, pattern \in Patterns, c \in Categories, priority \in Priorities :
           /\ NewRule(id)
           /\ Ask(s, [NoRequest EXCEPT !.op = "addRule", !.rules = {Kept(row(id, pattern, c, priority))}])
    BY <1>2 DEF AskCreateRule
  <2> DEFINE q == row(id, pattern, c, priority)
             edits == {Edit(q, q)}
             r == [NoRequest EXCEPT !.op = "addRule", !.rules = edits]
  <2>2. q \in RuleRow /\ q.id = id
    <3>1. priority \in Int
      BY PrioritiesAssumption
    <3>2. QED
      BY <1>1, <3>1 DEF RuleRow
  <2> HIDE DEF q
  <2>3. edits \in SUBSET EditType(RuleRow) /\ SameIds(edits) /\ KeepsIds(edits)
    BY <2>2, OneEdit
  <2>4. \A e \in edits : NewRule(e.old.id)
    BY <2>1, <2>2 DEF Edit
  <2>5. edits = {Kept(row(id, pattern, c, priority))}
    BY DEF Kept, q
  <2> HIDE DEF edits, row
  <2>6. r \in RequestType
    BY <2>3, NoRequestTyped DEF RequestType
  <2>7. r.op = "addRule" /\ r.rules = edits /\ r.txns = {}
    BY DEF NoRequest
  <2>8. Ask(s, r)
    BY <2>1, <2>5
  <2> HIDE DEF r
  <2>9. ReorderSound(r)
    BY <2>7 DEF ReorderSound
  <2>10. Sound(r)
    BY <2>3, <2>4, <2>6, <2>7, <2>9, RuleRequestSound
  <2>11. QED
    BY <2>8, <2>10
<1>3. CASE AskUpdateRule(s)
  <2>1. PICK q \in rules : \E row \in [id : {q.id}, pattern : Patterns, category : Categories,
                                       priority : Priorities \cup {q.priority}] :
           Ask(s, [NoRequest EXCEPT !.op = "editRules", !.rules = {Edit(q, row)}])
    BY <1>3 DEF AskUpdateRule
  <2>20. PICK new \in [id : {q.id}, pattern : Patterns, category : Categories,
                       priority : Priorities \cup {q.priority}] :
           Ask(s, [NoRequest EXCEPT !.op = "editRules", !.rules = {Edit(q, new)}])
    BY <2>1
  <2> DEFINE edits == {Edit(q, new)}
             r == [NoRequest EXCEPT !.op = "editRules", !.rules = edits]
  <2>2. q \in RuleRow /\ new \in RuleRow /\ new.id = q.id
    <3>1. q \in RuleRow /\ new.id = q.id /\ Priorities \cup {q.priority} \subseteq Int
      BY <1>1, PrioritiesAssumption DEF RuleRow
    <3>2. QED
      BY <1>1, <3>1 DEF RuleRow
  <2>3. Ask(s, r)
    BY <2>20
  <2>4. edits \in SUBSET EditType(RuleRow) /\ SameIds(edits) /\ KeepsIds(edits)
    BY <2>2, OneEdit
  <2> HIDE DEF edits
  <2>5. r \in RequestType
    BY <2>4, NoRequestTyped DEF RequestType
  <2>6. r.op = "editRules" /\ r.rules = edits /\ r.txns = {} /\ r.list = <<>>
    BY DEF NoRequest
  <2> HIDE DEF r
  <2>7. ReorderSound(r)
    BY <2>6 DEF ReorderSound
  <2>8. Sound(r)
    BY <2>4, <2>5, <2>6, <2>7, RuleRequestSound
  <2>9. QED
    BY <2>3, <2>8
<1>4. CASE AskDeleteRule(s)
  <2>1. PICK q \in rules : Ask(s, [NoRequest EXCEPT !.op = "dropRule", !.rules = {Kept(q)}])
    BY <1>4 DEF AskDeleteRule
  <2> DEFINE edits == {Edit(q, q)}
             r == [NoRequest EXCEPT !.op = "dropRule", !.rules = edits]
  <2>2. edits \in SUBSET EditType(RuleRow) /\ SameIds(edits) /\ KeepsIds(edits)
    BY <1>1, OneEdit
  <2>3. Ask(s, r)
    BY <2>1 DEF Kept
  <2> HIDE DEF edits
  <2>4. r \in RequestType
    BY <2>2, NoRequestTyped DEF RequestType
  <2>5. r.op = "dropRule" /\ r.rules = edits /\ r.txns = {}
    BY DEF NoRequest
  <2> HIDE DEF r
  <2>6. ReorderSound(r)
    BY <2>5 DEF ReorderSound
  <2>7. Sound(r)
    BY <2>2, <2>4, <2>5, <2>6, RuleRequestSound
  <2>8. QED
    BY <2>3, <2>7
<1>5. CASE AskReorder(s)
  <2> DEFINE renumbered(q, list) == [q EXCEPT !.priority = Priority(rules, q, list)]
             edits(list) == {Edit(q, renumbered(q, list)) : q \in rules}
  <2>1. PICK n \in 1 .. MaxRules : \E list \in [1 .. n -> 1 .. MaxRules] :
           Ask(s, [NoRequest EXCEPT !.op = "editRules", !.list = list, !.rules = edits(list)])
    BY <1>5 DEF AskReorder
  <2>2. PICK list \in [1 .. n -> 1 .. MaxRules] :
           Ask(s, [NoRequest EXCEPT !.op = "editRules", !.list = list, !.rules = edits(list)])
    BY <2>1
  <2> DEFINE new == edits(list)
             r == [NoRequest EXCEPT !.op = "editRules", !.list = list, !.rules = new]
  <2>3. list \in Seq(Shapes \cup (1 .. MaxRules)) /\ n \in Nat /\ DOMAIN list = 1 .. n
    OBVIOUS
  <2>4. \A q \in rules : Priority(rules, q, list) \in Int
    <3>1. \A q \in rules : Place(rules, q, list) \in Nat
      BY <2>3, TablesFinite, PlaceType DEF RowsInvariant
    <3>2. QED
      BY <3>1 DEF Priority
  <2>5. \A q \in rules : /\ renumbered(q, list) \in RuleRow /\ renumbered(q, list).id = q.id
                         /\ renumbered(q, list).priority = Priority(rules, q, list)
    BY <1>1, <2>4 DEF RuleRow
  <2> HIDE DEF renumbered
  <2>6. new \in SUBSET EditType(RuleRow) /\ SameIds(new) /\ KeepsIds(new)
    BY <1>1, <2>5 DEF Edit, EditType, SameIds, KeepsIds
  <2>7. /\ \A e \in new : \E q \in rules : e.old = q /\ e.new = renumbered(q, list)
        /\ \A q \in rules : \E e \in new : e.old = q
    <3>1. \A q \in rules : Edit(q, renumbered(q, list)) \in new
      OBVIOUS
    <3>2. \A e \in new : \E q \in rules : e = Edit(q, renumbered(q, list))
      OBVIOUS
    <3> HIDE DEF new
    <3>3. QED
      BY <3>1, <3>2, EditFields
  <2>8. Ask(s, r)
    BY <2>2
  <2> HIDE DEF edits, new
  <2>9. {f.old : f \in new} = rules
    BY <2>7
  <2>10. \A e \in new : e.new.priority = Priority({f.old : f \in new}, e.old, list)
    BY <2>5, <2>7, <2>9
  <2>11. r \in RequestType
    BY <2>3, <2>6, NoRequestTyped DEF RequestType
  <2>12. r.op = "editRules" /\ r.rules = new /\ r.txns = {} /\ r.list = list
    BY DEF NoRequest
  <2> HIDE DEF r
  <2>13. ReorderSound(r)
    BY <2>10, <2>12 DEF ReorderSound
  <2>14. Sound(r)
    BY <2>6, <2>11, <2>12, <2>13, RuleRequestSound
  <2>15. QED
    BY <2>8, <2>14
<1>6. QED
  BY <1>2, <1>3, <1>4, <1>5 DEF AskRules

\* The texts of a file that come first and are not held, in the order of the file: each once.
LEMMA ImportedRows ==
  ASSUME NEW file \in Seq(Shapes)
  PROVE  LET new == Imported(file)
             held == {t.shape : t \in {u \in txns : u.text}}
         IN  /\ \E m \in Nat : DOMAIN new = 1 .. m
             /\ \A n \in DOMAIN new : new[n] \in Range(file) \ held
             /\ \A m, n \in DOMAIN new : new[m] = new[n] => m = n
             /\ \A shape \in Range(file) \ held : \E n \in DOMAIN new : new[n] = shape
<1> DEFINE held == {t.shape : t \in {u \in txns : u.text}}
           firsts == {i \in DOMAIN file : file[i] \notin held /\ \A j \in 1 .. i - 1 : file[j] # file[i]}
           R == {p \in (DOMAIN file) \X (DOMAIN file) : p[1] < p[2]}
           pick(n) == CHOOSE i \in firsts : Cardinality({j \in firsts : j <= i}) = n
           new == Imported(file)
<1>1. /\ DOMAIN file = 1 .. Len(file) /\ Len(file) \in Nat
      /\ firsts \in SUBSET (1 .. Len(file)) /\ IsFiniteSet(1 .. Len(file))
  <2>1. DOMAIN file = 1 .. Len(file) /\ Len(file) \in Nat
    OBVIOUS
  <2>2. firsts \in SUBSET (DOMAIN file)
    OBVIOUS
  <2> HIDE DEF firsts
  <2>3. QED
    BY <2>1, <2>2, FS_Interval
<1>2. IsFiniteSet(firsts) /\ Cardinality(firsts) \in Nat
  BY <1>1, FS_Subset, FS_CardinalityType
<1>3. ASSUME NEW S \in SUBSET (1 .. Len(file)) PROVE StrictOrder(S, R)
  BY <1>1 DEF StrictOrder
<1>4. \A i \in firsts : UpTo(firsts, R, i) = {j \in firsts : j <= i}
  BY <1>1 DEF UpTo
<1>5. DOMAIN new = 1 .. Cardinality(firsts) /\ \A n \in DOMAIN new : new[n] = file[pick(n)]
  BY DEF Imported
<1>6. ASSUME NEW n \in 1 .. Cardinality(firsts)
      PROVE  pick(n) \in firsts /\ Cardinality(UpTo(firsts, R, pick(n))) = n
  <2>1. \E i \in firsts : Cardinality(UpTo(firsts, R, i)) = n
    <3> HIDE DEF firsts, R
    <3>1. StrictOrder(firsts, R)
      BY <1>1, <1>3
    <3>2. QED
      BY <1>2, <3>1, RankOnto
  <2>2. \E i \in firsts : Cardinality({j \in firsts : j <= i}) = n
    BY <1>4, <2>1
  <2> HIDE DEF firsts
  <2>3. pick(n) \in firsts /\ Cardinality({j \in firsts : j <= pick(n)}) = n
    BY <2>2
  <2>4. QED
    BY <1>4, <2>3
<1>7. \A i \in firsts : \E n \in 1 .. Cardinality(firsts) : pick(n) = i
  <2> SUFFICES ASSUME NEW i \in firsts PROVE \E n \in 1 .. Cardinality(firsts) : pick(n) = i
    OBVIOUS
  <2> DEFINE n == Cardinality(UpTo(firsts, R, i))
  <2>1. n \in 1 .. Cardinality(firsts)
    <3>1. UpTo(firsts, R, i) \in SUBSET firsts /\ UpTo(firsts, R, i) # {}
      BY DEF UpTo
    <3> HIDE DEF firsts, R
    <3>2. /\ IsFiniteSet(UpTo(firsts, R, i)) /\ n <= Cardinality(firsts)
          /\ n \in Nat /\ n # 0
      BY <1>2, <3>1, FS_Subset, FS_CardinalityType, FS_EmptySet
    <3> HIDE DEF n
    <3>3. QED
      BY <1>2, <3>2
  <2> HIDE DEF firsts, R
  <2>2. StrictOrder(firsts, R)
    BY <1>1, <1>3
  <2>3. \A k \in 1 .. Cardinality(firsts) :
           \E x \in firsts : /\ Cardinality(UpTo(firsts, R, x)) = k
                             /\ \A z \in firsts : Cardinality(UpTo(firsts, R, z)) = k => z = x
    BY <1>2, <2>2, RankOnto
  <2>4. pick(n) \in firsts /\ Cardinality(UpTo(firsts, R, pick(n))) = n
    BY <1>6, <2>1
  <2> HIDE DEF pick, n
  <2>5. Cardinality(UpTo(firsts, R, i)) = n
    BY DEF n
  <2>6. pick(n) = i
    BY <2>1, <2>3, <2>4, <2>5
  <2>7. QED
    BY <2>1, <2>6
<1>8. \A i, k \in firsts : file[i] = file[k] => i = k
  BY <1>1
<1>9. \A i \in firsts : file[i] \in Range(file) \ held
  BY <1>1 DEF Range
<1>10. ASSUME NEW shape \in Range(file) \ held PROVE \E i \in firsts : file[i] = shape
  <2> DEFINE at == {i \in 1 .. Len(file) : file[i] = shape}
  <2>1. at \in SUBSET (1 .. Len(file)) /\ at # {}
    BY <1>1 DEF Range
  <2>2. IsFiniteSet(at) /\ StrictOrder(at, R)
    BY <1>1, <1>3, <2>1, FS_Subset
  <2>3. PICK i \in at : \A j \in at : j = i \/ <<i, j>> \in R
    <3> HIDE DEF at, R
    <3>1. QED
      BY <2>1, <2>2, FirstOf
  <2>4. \A j \in at : i <= j
    <3>1. \A j, k \in 1 .. Len(file) : <<j, k>> \in R <=> j < k
      BY <1>1
    <3> HIDE DEF R, at
    <3>2. ASSUME NEW j \in at PROVE i <= j
      <4>1. i \in 1 .. Len(file) /\ j \in 1 .. Len(file)
        BY <2>1
      <4>2. j = i \/ i < j
        BY <2>3, <3>1, <4>1
      <4>3. i \in Int /\ j \in Int
        BY <4>1
      <4>4. QED
        BY <4>2, <4>3
    <3>3. QED
      BY <3>2
  <2>5. \A j \in 1 .. i - 1 : file[j] # shape
    BY <1>1, <2>4
  <2>6. i \in firsts
    BY <1>1, <2>5
  <2>7. QED
    BY <2>6
<1> HIDE DEF firsts, R, pick, held, new
<1>11. \A m, n \in DOMAIN new : new[m] = new[n] => m = n
  <2> SUFFICES ASSUME NEW m \in DOMAIN new, NEW n \in DOMAIN new, new[m] = new[n] PROVE m = n
    OBVIOUS
  <2>1. pick(m) \in firsts /\ pick(n) \in firsts /\ file[pick(m)] = file[pick(n)]
    BY <1>5, <1>6
  <2>2. pick(m) = pick(n)
    BY <1>8, <2>1
  <2>3. QED
    BY <1>5, <1>6, <2>2
<1>12. \A n \in DOMAIN new : new[n] \in Range(file) \ held
  BY <1>5, <1>6, <1>9
<1>13. \A shape \in Range(file) \ held : \E n \in DOMAIN new : new[n] = shape
  BY <1>5, <1>7, <1>10
<1>14. QED
  BY <1>2, <1>5, <1>11, <1>12, <1>13 DEF new, held

\* A rule gives a category to a row that has none, and changes nothing else.
LEMMA CategorizedKeeps ==
  ASSUME TypeOK, NEW t \in TxnRow
  PROVE  /\ Categorized(t) \in TxnRow /\ Categorized(t).id = t.id
         /\ Categorized(t).shape = t.shape /\ Categorized(t).text = t.text
         /\ t.category # None => Categorized(t) = t
<1> DEFINE c == Picked(rules, t.shape)
<1>1. c \in Category \cup {None}
  BY PickedType
<1>2. Categorized(t) = IF t.category = None /\ c # None
                       THEN [t EXCEPT !.category = c, !.by = "rule"] ELSE t
  BY DEF Categorized
<1> HIDE DEF c
<1>3. LET u == [t EXCEPT !.category = c, !.by = "rule"]
      IN  u \in TxnRow /\ u.id = t.id /\ u.shape = t.shape /\ u.text = t.text
  BY <1>1 DEF TxnRow
<1>4. QED
  BY <1>2, <1>3

\* An import brings each new text once, with ids that nobody has.
LEMMA AskedImport ==
  ASSUME RowsInvariant, NEW s \in Sessions, AskImport(s)
  PROVE  \E r : Ask(s, r) /\ Sound(r)
<1> DEFINE row(file, id, n) == [id |-> id + n - 1, shape |-> Imported(file)[n], category |-> None,
                                text |-> TRUE, by |-> "nobody"]
           edits(file, id) == {Edit(row(file, id, n), Categorized(row(file, id, n))) :
                                 n \in DOMAIN Imported(file)}
<1>1. PICK file \in Files, id \in 1 .. MaxTxns :
         /\ NewTxn(id)
         /\ id + Len(Imported(file)) - 1 <= MaxTxns
         /\ Ask(s, [NoRequest EXCEPT !.op = "addTxns", !.list = file, !.seen = txns,
                                     !.txns = edits(file, id)])
  BY DEF AskImport
<1> DEFINE new == Imported(file)
           old(n) == row(file, id, n)
           lines == edits(file, id)
           r == [NoRequest EXCEPT !.op = "addTxns", !.list = file, !.seen = txns, !.txns = lines]
           held == {t.shape : t \in {u \in txns : u.text}}
<1>2. file \in Seq(Shapes) /\ TypeOK
  BY FilesAssumption DEF RowsInvariant
<1>3. PICK m \in Nat : DOMAIN new = 1 .. m
  BY <1>2, ImportedRows
<1>4. Len(new) = m
  BY <1>3
<1>5. \A n \in DOMAIN new : new[n] \in Range(file) \ held /\ new[n] \in Shapes
  <2>1. \A n \in DOMAIN new : new[n] \in Range(file) \ held
    BY <1>2, ImportedRows
  <2>2. Range(file) \subseteq Shapes
    BY <1>2 DEF Range
  <2>3. QED
    BY <2>1, <2>2
<1>6. /\ \A i, n \in DOMAIN new : new[i] = new[n] => i = n
      /\ \A shape \in Range(file) \ held : \E n \in DOMAIN new : new[n] = shape
  BY <1>2, ImportedRows
<1>7. Ask(s, r)
  BY <1>1
<1>8. \A n \in DOMAIN new : id + n - 1 \in 1 .. MaxTxns
  BY <1>1, <1>3, <1>4, BoundsAssumption
<1>9. \A n \in DOMAIN new :
         /\ old(n) \in TxnRow /\ old(n).id = id + n - 1 /\ old(n).shape = new[n]
         /\ old(n).text /\ old(n).category = None
  BY <1>5, <1>8 DEF TxnRow
<1>10. \A e \in lines : \E n \in DOMAIN new : e.old = old(n) /\ e.new = Categorized(old(n))
  <2>1. \A e \in lines : \E n \in DOMAIN new : e = Edit(old(n), Categorized(old(n)))
    OBVIOUS
  <2> HIDE DEF lines, old
  <2>2. QED
    BY <2>1, EditFields
<1>11. \A n \in DOMAIN new : \E e \in lines : e.old = old(n) /\ e.new = Categorized(old(n))
  <2>1. \A n \in DOMAIN new : Edit(old(n), Categorized(old(n))) \in lines
    OBVIOUS
  <2> HIDE DEF lines, old
  <2>2. QED
    BY <2>1, EditFields
<1>12. lines \in SUBSET EditType(TxnRow)
  <2>1. \A n \in DOMAIN new : Categorized(old(n)) \in TxnRow
    BY <1>2, <1>9, CategorizedKeeps
  <2> HIDE DEF old
  <2>2. \A n \in DOMAIN new : Edit(old(n), Categorized(old(n))) \in EditType(TxnRow)
    BY <1>9, <2>1 DEF Edit, EditType
  <2>3. QED
    BY <2>2 DEF old
<1> HIDE DEF lines, old, held, new
<1>13. \A e \in lines : \E n \in DOMAIN new :
          /\ e.old = old(n) /\ e.new = Categorized(old(n)) /\ e.new.id = id + n - 1
          /\ e.old.id = id + n - 1 /\ e.new.shape = new[n] /\ e.new.text /\ e.old.category = None
  BY <1>2, <1>9, <1>10, CategorizedKeeps
<1>14. SameIds(lines)
  <2> SUFFICES ASSUME NEW e \in lines, NEW f \in lines, e.old.id = f.old.id PROVE e = f
    BY DEF SameIds
  <2>1. PICK i \in DOMAIN new : e.old = old(i) /\ e.new = Categorized(old(i)) /\ e.old.id = id + i - 1
    BY <1>13
  <2>2. PICK n \in DOMAIN new : f.old = old(n) /\ f.new = Categorized(old(n)) /\ f.old.id = id + n - 1
    BY <1>13
  <2>3. i = n
    <3>1. i \in Int /\ n \in Int /\ id \in Int
      BY <1>3
    <3>2. id + i - 1 = id + n - 1
      BY <2>1, <2>2
    <3>3. QED
      BY <3>1, <3>2
  <2>4. e = [old |-> e.old, new |-> e.new] /\ f = [old |-> f.old, new |-> f.new]
    BY <1>12 DEF EditType
  <2>5. QED
    BY <2>1, <2>2, <2>3, <2>4
<1>15. KeepsIds(lines)
  BY <1>13 DEF KeepsIds
<1>16. \A e \in lines : NewTxn(e.old.id)
  <2> SUFFICES ASSUME NEW e \in lines PROVE NewTxn(e.old.id)
    OBVIOUS
  <2>1. PICK n \in DOMAIN new : e.old.id = id + n - 1
    BY <1>13
  <2>2. id \in Int /\ e.old.id \in Int /\ id <= e.old.id
    BY <1>3, <2>1
  <2>3. \A t \in txns : t.id < e.old.id
    <3>1. \A t \in txns : t.id \in Int /\ t.id < id
      BY <1>1, <1>2 DEF NewTxn, TypeOK, TxnRow
    <3>2. QED
      BY <2>2, <3>1
  <2>4. ASSUME NEW u \in Sessions, NEW f \in request[u].txns PROVE f.old.id < e.old.id
    <3>1. f.old.id \in Int
      BY <1>2 DEF TypeOK, RequestType, EditType, TxnRow
    <3>2. f.old.id < id
      BY <1>1 DEF NewTxn
    <3>3. QED
      BY <2>2, <3>1, <3>2
  <2>5. QED
    BY <2>3, <2>4 DEF NewTxn
<1>17. r.op = "addTxns" /\ r.rules = {} /\ r.txns = lines /\ r.list = file /\ r.seen = txns
  BY DEF NoRequest
<1>18. r \in RequestType
  <2>1. file \in Seq(Shapes \cup (1 .. MaxRules)) /\ txns \in SUBSET (RuleRow \cup TxnRow \cup Category)
    BY <1>2 DEF TypeOK
  <2>2. QED
    BY <1>12, <2>1, NoRequestTyped DEF RequestType
<1> HIDE DEF r
<1>19. UserKept(r)
  BY <1>13, <1>17 DEF UserKept
<1>20. ImportSound(r)
  <2>1. \A e \in r.txns : e.new.text
    BY <1>13, <1>17
  <2>2. ASSUME NEW shape \in Range(file) \ held PROVE \E x : NewOf(r, shape) = {x}
    <3>1. PICK n \in DOMAIN new : new[n] = shape
      BY <1>6
    <3>2. PICK e \in lines : e.old = old(n) /\ e.new = Categorized(old(n))
      BY <1>11
    <3>3. e.new.shape = shape
      BY <1>2, <1>9, <3>1, <3>2, CategorizedKeeps
    <3>4. ASSUME NEW f \in lines, f.new.shape = shape PROVE f.new = e.new
      <4>1. PICK k \in DOMAIN new : f.new = Categorized(old(k)) /\ f.new.shape = new[k]
        BY <1>13
      <4>2. k = n
        BY <1>6, <3>1, <3>4, <4>1
      <4>3. QED
        BY <3>2, <4>1, <4>2
    <3>5. NewOf(r, shape) = {e.new}
      BY <1>17, <3>3, <3>4 DEF NewOf
    <3>6. QED
      BY <3>5
  <2>3. ASSUME NEW shape, shape \notin Range(file) \ held PROVE NewOf(r, shape) = {}
    BY <1>5, <1>13, <1>17, <2>3 DEF NewOf
  <2>4. \A shape : shape \in held <=> \E t \in txns : t.text /\ t.shape = shape
    BY DEF held
  <2>5. ASSUME NEW shape \in Shapes
        PROVE  IF shape \in Range(r.list) /\ \A t \in r.seen : ~(t.text /\ t.shape = shape)
               THEN \E x : NewOf(r, shape) = {x}
               ELSE NewOf(r, shape) = {}
    BY <1>17, <2>2, <2>3, <2>4
  <2>6. QED
    BY <2>1, <2>5 DEF ImportSound
<1>21. Sound(r)
  BY <1>14, <1>15, <1>16, <1>17, <1>18, <1>19, <1>20, TxnRequestSound
<1>22. QED
  BY <1>7, <1>21

LEMMA AskedOfTxns ==
  ASSUME RowsInvariant, NEW s \in Sessions, AskTxns(s)
  PROVE  \E r : Ask(s, r) /\ Sound(r)
<1>1. /\ TypeOK /\ Categories \subseteq Category /\ txns \subseteq TxnRow
      /\ \A t, u \in txns : t.id = u.id => t = u
  BY DEF RowsInvariant, TypeOK
<1>2. CASE AskCreateTxn(s)
  <2> DEFINE row(id, shape, c) == [id |-> id, shape |-> shape, category |-> c, text |-> FALSE,
                                   by |-> IF c = None THEN "nobody" ELSE "user"]
  <2>1. PICK id \in 1 .. MaxTxns, shape \in Shapes, c \in Categories \cup {None} :
           /\ NewTxn(id)
           /\ Ask(s, [NoRequest EXCEPT !.op = "addTxns",
                        !.txns = {Edit(row(id, shape, c), Categorized(row(id, shape, c)))}])
    BY <1>2 DEF AskCreateTxn
  <2> DEFINE typed == row(id, shape, c)
             new == Categorized(typed)
             edits == {Edit(typed, new)}
             r == [NoRequest EXCEPT !.op = "addTxns", !.txns = edits]
  <2>2. typed \in TxnRow /\ typed.id = id /\ typed.category = c
    BY <1>1 DEF TxnRow
  <2>3. Ask(s, r)
    BY <2>1
  <2> HIDE DEF row, typed
  <2>4. new \in TxnRow /\ new.id = typed.id /\ (c # None => new = typed)
    BY <1>1, <2>2, CategorizedKeeps
  <2> HIDE DEF new
  <2>5. edits \in SUBSET EditType(TxnRow) /\ SameIds(edits) /\ KeepsIds(edits)
    BY <2>2, <2>4, OneEdit
  <2>6. \A e \in edits : NewTxn(e.old.id) /\ (e.old.category # None => e.new = e.old)
    BY <2>1, <2>2, <2>4, EditFields
  <2> HIDE DEF edits
  <2>7. r \in RequestType
    BY <2>5, NoRequestTyped DEF RequestType
  <2>8. r.op = "addTxns" /\ r.rules = {} /\ r.txns = edits /\ r.list = <<>>
    BY DEF NoRequest
  <2> HIDE DEF r
  <2>9. UserKept(r) /\ ImportSound(r)
    BY <2>6, <2>8 DEF UserKept, ImportSound
  <2>10. Sound(r)
    BY <2>5, <2>6, <2>7, <2>8, <2>9, TxnRequestSound
  <2>11. QED
    BY <2>3, <2>10
<1>3. CASE AskUpdateTxn(s)
  <2>1. PICK t \in txns, c \in Categories \cup {None} :
           Ask(s, [NoRequest EXCEPT !.op = "editTxns",
                     !.txns = {Edit(t, [t EXCEPT !.category = c, !.by = "user"])}])
    BY <1>3 DEF AskUpdateTxn
  <2> DEFINE new == [t EXCEPT !.category = c, !.by = "user"]
             edits == {Edit(t, new)}
             r == [NoRequest EXCEPT !.op = "editTxns", !.txns = edits]
  <2>2. t \in TxnRow /\ new \in TxnRow /\ new.id = t.id /\ new.by = "user"
    BY <1>1 DEF TxnRow
  <2>3. Ask(s, r)
    BY <2>1
  <2> HIDE DEF new
  <2>4. edits \in SUBSET EditType(TxnRow) /\ SameIds(edits) /\ KeepsIds(edits)
    BY <2>2, OneEdit
  <2>5. \A e \in edits : e.new.by # "rule"
    BY <2>2, EditFields
  <2> HIDE DEF edits
  <2>6. r \in RequestType
    BY <2>4, NoRequestTyped DEF RequestType
  <2>7. r.op = "editTxns" /\ r.rules = {} /\ r.txns = edits /\ r.list = <<>>
    BY DEF NoRequest
  <2> HIDE DEF r
  <2>8. UserKept(r) /\ ImportSound(r)
    BY <2>5, <2>7 DEF UserKept, ImportSound
  <2>9. Sound(r)
    BY <2>4, <2>6, <2>7, <2>8, TxnRequestSound
  <2>10. QED
    BY <2>3, <2>9
<1>4. CASE AskDeleteTxn(s)
  <2>1. PICK t \in txns : Ask(s, [NoRequest EXCEPT !.op = "dropTxn", !.txns = {Kept(t)}])
    BY <1>4 DEF AskDeleteTxn
  <2> DEFINE edits == {Edit(t, t)}
             r == [NoRequest EXCEPT !.op = "dropTxn", !.txns = edits]
  <2>2. edits \in SUBSET EditType(TxnRow) /\ SameIds(edits) /\ KeepsIds(edits)
    BY <1>1, OneEdit
  <2>3. Ask(s, r)
    BY <2>1 DEF Kept
  <2> HIDE DEF edits
  <2>4. r \in RequestType
    BY <2>2, NoRequestTyped DEF RequestType
  <2>5. r.op = "dropTxn" /\ r.rules = {} /\ r.txns = edits /\ r.list = <<>>
    BY DEF NoRequest
  <2> HIDE DEF r
  <2>6. UserKept(r) /\ ImportSound(r)
    BY <2>5 DEF UserKept, ImportSound
  <2>7. Sound(r)
    BY <2>2, <2>4, <2>5, <2>6, TxnRequestSound
  <2>8. QED
    BY <2>3, <2>7
<1>5. CASE AskBackfill(s)
  <2> DEFINE seen(o) == IF o THEN {} ELSE txns
  <2>1. PICK o \in BOOLEAN :
           Ask(s, [NoRequest EXCEPT !.op = "editTxns", !.txns = Backfilled(o),
                                    !.seen = IF o THEN {} ELSE txns])
    BY <1>5 DEF AskBackfill
  <2> DEFINE refiled(t) == [t EXCEPT !.category = Picked(rules, t.shape), !.by = "rule"]
             rows == {u \in txns : /\ o => u.category = None
                                   /\ Picked(rules, u.shape) \notin {None, u.category}}
             edits == Backfilled(o)
             was == seen(o)
             r == [NoRequest EXCEPT !.op = "editTxns", !.txns = edits, !.seen = was]
  <2>2. Ask(s, r)
    BY <2>1
  <2>3. \A e \in edits : \E t \in rows : e = Edit(t, refiled(t))
    BY DEF Backfilled
  <2>4. \A t \in rows : t \in TxnRow /\ refiled(t) \in TxnRow /\ refiled(t).id = t.id
    <3> SUFFICES ASSUME NEW t \in rows
                 PROVE  t \in TxnRow /\ refiled(t) \in TxnRow /\ refiled(t).id = t.id
      OBVIOUS
    <3> DEFINE c == Picked(rules, t.shape)
    <3>1. c \in Category \cup {None} /\ t \in TxnRow
      BY <1>1, PickedType
    <3> HIDE DEF c
    <3>2. LET u == [t EXCEPT !.category = c, !.by = "rule"] IN u \in TxnRow /\ u.id = t.id
      BY <3>1 DEF TxnRow
    <3>3. QED
      BY <3>1, <3>2 DEF c
  <2>5. \A t \in rows : t \in txns /\ (t.category = None \/ t \in was)
    OBVIOUS
  <2>6. was \in SUBSET (RuleRow \cup TxnRow \cup Category)
    BY <1>1
  <2> HIDE DEF refiled, rows, edits, was
  <2>7. edits \in SUBSET EditType(TxnRow)
    BY <2>3, <2>4 DEF Edit, EditType
  <2>8. SameIds(edits) /\ KeepsIds(edits)
    BY <1>1, <2>3, <2>4, <2>5, EditFields DEF SameIds, KeepsIds
  <2>9. \A e \in edits : e.old.category = None \/ e.old \in was
    BY <2>3, <2>5, EditFields
  <2>10. r \in RequestType
    BY <2>6, <2>7, NoRequestTyped DEF RequestType
  <2>11. r.op = "editTxns" /\ r.rules = {} /\ r.txns = edits /\ r.list = <<>> /\ r.seen = was
    BY DEF NoRequest
  <2> HIDE DEF r
  <2>12. UserKept(r) /\ ImportSound(r)
    BY <2>9, <2>11 DEF UserKept, ImportSound
  <2>13. Sound(r)
    BY <2>7, <2>8, <2>10, <2>11, <2>12, TxnRequestSound
  <2>14. QED
    BY <2>2, <2>13
<1>6. QED
  BY <1>2, <1>3, <1>4, <1>5, AskedImport DEF AskTxns

\* Whatever is asked, the request is of its type and its rows keep their ids.
LEMMA AskedIsSound ==
  ASSUME RowsInvariant, NEW s \in Sessions, Request(s)
  PROVE  \E r : Ask(s, r) /\ Sound(r)
BY AskedOfCategories, AskedOfRules, AskedOfTxns DEF Request
-------------------------------------------------------------------------------
(* The rows after a commit *)

\* A stored row that is merged with an edit keeps its id.
LEMMA MergedRule ==
  ASSUME NEW row \in RuleRow, NEW e \in EditType(RuleRow)
  PROVE  /\ MergeRule(row, e) \in RuleRow /\ MergeRule(row, e).id = row.id
         /\ MergeRule(row, e).priority = Column(row.priority, e.old.priority, e.new.priority)
<1> DEFINE c == Column(row.category, e.old.category, e.new.category)
           p == Column(row.priority, e.old.priority, e.new.priority)
           shapes == Column(row.pattern, e.old.pattern, e.new.pattern)
<1>1. c \in Category /\ p \in Int /\ shapes \in Patterns
  BY DEF Column, EditType, RuleRow
<1>2. MergeRule(row, e) = [row EXCEPT !.pattern = shapes, !.category = c, !.priority = p]
  BY DEF MergeRule, RuleRow
<1> HIDE DEF c, p, shapes
<1>3. LET q == [row EXCEPT !.pattern = shapes, !.category = c, !.priority = p]
      IN  q \in RuleRow /\ q.id = row.id /\ q.priority = p
  BY <1>1 DEF RuleRow
<1>4. QED
  BY <1>2, <1>3 DEF p

LEMMA MergedTxn ==
  ASSUME NEW row \in TxnRow, NEW e \in EditType(TxnRow)
  PROVE  /\ MergeTxn(row, e) \in TxnRow /\ MergeTxn(row, e).id = row.id
         /\ MergeTxn(row, e).text = row.text /\ MergeTxn(row, e).shape = row.shape
         /\ \/ MergeTxn(row, e) = row
            \/ /\ e.new.category # e.old.category
               /\ MergeTxn(row, e).category = e.new.category /\ MergeTxn(row, e).by = e.new.by
<1> DEFINE c == e.new.category
           by == e.new.by
           u == [row EXCEPT !.category = c, !.by = by]
<1>1. c \in Category \cup {None} /\ by \in {"nobody", "rule", "user"}
  BY DEF EditType, TxnRow
<1>2. MergeTxn(row, e) = IF c = e.old.category THEN row ELSE u
  BY DEF MergeTxn
<1>3. /\ u \in TxnRow /\ u.id = row.id /\ u.text = row.text /\ u.shape = row.shape
      /\ u.category = c /\ u.by = by
  <2> HIDE DEF c, by
  <2>1. QED
    BY <1>1 DEF TxnRow
<1> HIDE DEF u
<1>4. QED
  BY <1>2, <1>3

\* The rows of an edited table.
LEMMA SavedRules ==
  ASSUME TypeOK, NEW edits \in SUBSET EditType(RuleRow)
  PROVE  /\ Saved(rules, edits, MergeRule) \in SUBSET RuleRow
         /\ \A r \in Saved(rules, edits, MergeRule) : \E q \in rules : q.id = r.id
         /\ \A q, r \in Saved(rules, edits, MergeRule) : q.id = r.id => q = r
<1> DEFINE after(row) == IF EditOf(row, edits) = {} THEN row
                         ELSE MergeRule(row, CHOOSE e \in EditOf(row, edits) : TRUE)
<1>1. Saved(rules, edits, MergeRule) = {after(row) : row \in rules}
  BY DEF Saved
<1>2. \A row \in rules : after(row) \in RuleRow /\ after(row).id = row.id
  <2> SUFFICES ASSUME NEW row \in rules PROVE after(row) \in RuleRow /\ after(row).id = row.id
    OBVIOUS
  <2> row \in RuleRow
    BY DEF TypeOK
  <2>1. CASE EditOf(row, edits) = {}
    BY <2>1
  <2>2. CASE EditOf(row, edits) # {}
    <3> DEFINE e == CHOOSE f \in EditOf(row, edits) : TRUE
    <3>1. e \in EditType(RuleRow)
      BY <2>2 DEF EditOf
    <3>2. after(row) = MergeRule(row, e)
      BY <2>2
    <3> HIDE DEF e, after
    <3>3. QED
      BY <3>1, <3>2, MergedRule
  <2>3. QED
    BY <2>1, <2>2
<1>3. \A q, r \in rules : q.id = r.id => q = r
  BY DEF TypeOK
<1> HIDE DEF after
<1>4. QED
  BY <1>1, <1>2, <1>3

LEMMA SavedTxns ==
  ASSUME TypeOK, NEW edits \in SUBSET EditType(TxnRow)
  PROVE  /\ Saved(txns, edits, MergeTxn) \in SUBSET TxnRow
         /\ \A u \in Saved(txns, edits, MergeTxn) : \E t \in txns :
              /\ t.id = u.id
              /\ \/ t = u
                 \/ \E e \in edits : /\ e.old.id = t.id /\ e.new.category # e.old.category
                                     /\ u.category = e.new.category /\ u.by = e.new.by
         /\ \A t, u \in Saved(txns, edits, MergeTxn) : t.id = u.id => t = u
<1> DEFINE after(row) == IF EditOf(row, edits) = {} THEN row
                         ELSE MergeTxn(row, CHOOSE e \in EditOf(row, edits) : TRUE)
<1>1. Saved(txns, edits, MergeTxn) = {after(row) : row \in txns}
  BY DEF Saved
<1>2. ASSUME NEW row \in txns
      PROVE  /\ after(row) \in TxnRow /\ after(row).id = row.id
             /\ \/ row = after(row)
                \/ \E e \in edits : /\ e.old.id = row.id /\ e.new.category # e.old.category
                                    /\ after(row).category = e.new.category
                                    /\ after(row).by = e.new.by
  <2> row \in TxnRow
    BY DEF TypeOK
  <2>1. CASE EditOf(row, edits) = {}
    BY <2>1
  <2>2. CASE EditOf(row, edits) # {}
    <3> DEFINE e == CHOOSE f \in EditOf(row, edits) : TRUE
    <3>1. e \in edits /\ e \in EditType(TxnRow) /\ e.old.id = row.id
      BY <2>2 DEF EditOf
    <3>2. after(row) = MergeTxn(row, e)
      BY <2>2
    <3> HIDE DEF e, after
    <3>3. QED
      BY <3>1, <3>2, MergedTxn
  <2>3. QED
    BY <2>1, <2>2
<1>3. \A t, u \in txns : t.id = u.id => t = u
  BY DEF TypeOK
<1> HIDE DEF after
<1>4. QED
  BY <1>1, <1>2, <1>3

\* The ids of the rows and of the requests are numbers.
LEMMA IdsAreNumbers ==
  ASSUME TypeOK
  PROVE  /\ \A r \in rules : r.id \in Int
         /\ \A t \in txns : t.id \in Int
         /\ \A s \in Sessions : /\ \A e \in request[s].rules : e.old.id \in Int
                                /\ \A e \in request[s].txns : e.old.id \in Int
<1>1. \A s \in Sessions : /\ request[s].rules \in SUBSET EditType(RuleRow)
                          /\ request[s].txns \in SUBSET EditType(TxnRow)
  BY DEF TypeOK, RequestType
<1>2. \A s \in Sessions : /\ \A e \in request[s].rules : e.old \in RuleRow
                          /\ \A e \in request[s].txns : e.old \in TxnRow
  BY <1>1 DEF EditType
<1>3. rules \subseteq RuleRow /\ txns \subseteq TxnRow
  BY DEF TypeOK
<1>4. (\A r \in RuleRow : r.id \in Int) /\ (\A t \in TxnRow : t.id \in Int)
  BY DEF RuleRow, TxnRow
<1>5. QED
  BY <1>2, <1>3, <1>4

LEMMA AskKeepsRows ==
  ASSUME RowsInvariant, LedgerInvariant', NEW s \in Sessions, NEW r, Ask(s, r), Sound(r)
  PROVE  RowsInvariant'
<1>1. /\ UNCHANGED tables
      /\ pc' = [pc EXCEPT ![s] = "asked"] /\ request' = [request EXCEPT ![s] = r]
  BY DEF Ask
<1>2. /\ request'[s] = r /\ \A u \in Sessions \ {s} : request'[u] = request[u]
      /\ rules' = rules /\ txns' = txns
  BY <1>1 DEF RowsInvariant, TypeOK, tables
<1>3. TypeOK'
  BY <1>1 DEF RowsInvariant, TypeOK, Sound, tables, Categories
<1>4. \A u \in Sessions : EditsSound(request'[u])
  BY <1>2 DEF RowsInvariant, Sound
<1>5. IdsFresh'
  <2>1. TypeOK /\ TypeOK' /\ IdsFresh
    BY <1>3 DEF RowsInvariant
  <2>2. ASSUME NEW u \in Sessions, request'[u].op = "addRule", NEW e \in request'[u].rules
        PROVE  /\ \A q \in rules : q.id # e.old.id
               /\ \A v \in Sessions \ {u} : request'[v].op = "addRule" =>
                    \A f \in request'[v].rules : f.old.id # e.old.id
    <3>1. ASSUME NEW v \in Sessions \ {s}, r.op = "addRule", NEW g \in r.rules,
                 NEW f \in request[v].rules
          PROVE  f.old.id # g.old.id
      <4>1. f.old.id < g.old.id
        BY <3>1 DEF Sound, FreshFor, NewRule
      <4>2. f.old.id \in Int
        BY <2>1, IdsAreNumbers
      <4>3. QED
        BY <4>1, <4>2
    <3>2. CASE u = s
      <4>1. \A q \in rules : q.id < e.old.id /\ q.id \in Int
        BY <1>2, <2>1, <2>2, <3>2, IdsAreNumbers DEF Sound, FreshFor, NewRule
      <4>2. QED
        BY <1>2, <2>2, <3>1, <3>2, <4>1
    <3>3. CASE u # s
      BY <1>2, <2>1, <2>2, <3>1, <3>3 DEF IdsFresh
    <3>4. QED
      BY <3>2, <3>3
  <2>3. ASSUME NEW u \in Sessions, request'[u].op = "addTxns", NEW e \in request'[u].txns
        PROVE  /\ \A t \in txns : t.id # e.old.id
               /\ \A v \in Sessions \ {u} : request'[v].op = "addTxns" =>
                    \A f \in request'[v].txns : f.old.id # e.old.id
    <3>1. ASSUME NEW v \in Sessions \ {s}, r.op = "addTxns", NEW g \in r.txns,
                 NEW f \in request[v].txns
          PROVE  f.old.id # g.old.id
      <4>1. f.old.id < g.old.id
        BY <3>1 DEF Sound, FreshFor, NewTxn
      <4>2. f.old.id \in Int
        BY <2>1, IdsAreNumbers
      <4>3. QED
        BY <4>1, <4>2
    <3>2. CASE u = s
      <4>1. \A t \in txns : t.id < e.old.id /\ t.id \in Int
        BY <1>2, <2>1, <2>3, <3>2, IdsAreNumbers DEF Sound, FreshFor, NewTxn
      <4>2. QED
        BY <1>2, <2>3, <3>1, <3>2, <4>1
    <3>3. CASE u # s
      BY <1>2, <2>1, <2>3, <3>1, <3>3 DEF IdsFresh
    <3>4. QED
      BY <3>2, <3>3
  <2>4. QED
    BY <1>2, <2>2, <2>3 DEF IdsFresh
<1>6. QED
  BY <1>3, <1>4, <1>5 DEF RowsInvariant, EditsSound, SameIds, KeepsIds, UserKept, ReorderSound, ImportSound

\* What a commit does to the rules and to the transactions, kind by kind.
LEMMA RulesAfterCommit ==
  ASSUME RowsInvariant, NEW s \in Sessions, Commit(s)
  PROVE  /\ rules' \in SUBSET RuleRow
         /\ \A q, r \in rules' : q.id = r.id => q = r
         /\ \A r \in rules' : \/ \E q \in rules : q.id = r.id
                              \/ request[s].op = "addRule" /\ \E e \in request[s].rules : e.old.id = r.id
<1> DEFINE r == request[s]
<1>1. /\ r \in RequestType /\ rules' = RulesAfter(r) /\ rules \in SUBSET RuleRow
      /\ \A p, q \in rules : p.id = q.id => p = q
      /\ KeepsIds(r.rules) /\ SameIds(r.rules)
  BY DEF RowsInvariant, TypeOK, EditsSound, Commit
<1>2. r.op = "addRule" => \A e \in r.rules : \A q \in rules : q.id # e.old.id
  BY DEF RowsInvariant, IdsFresh
<1> HIDE DEF r
<1>3. r.rules \in SUBSET EditType(RuleRow)
  BY <1>1 DEF RequestType
<1>4. CASE r.op = "addRule"
  <2>1. rules' = rules \cup {e.new : e \in r.rules}
    BY <1>1, <1>4 DEF RulesAfter
  <2>2. \A e \in r.rules : e.new \in RuleRow /\ e.new.id = e.old.id
    BY <1>1, <1>3 DEF EditType, KeepsIds
  <2>3. \A e, f \in r.rules : e.new.id = f.new.id => e = f
    BY <1>1, <2>2 DEF SameIds
  <2>4. QED
    BY <1>1, <1>2, <1>4, <2>1, <2>2, <2>3 DEF r
<1>5. CASE r.op = "editRules"
  <2>1. rules' = Saved(rules, r.rules, MergeRule)
    BY <1>1, <1>5 DEF RulesAfter
  <2>2. QED
    BY <1>3, <2>1, SavedRules DEF RowsInvariant
<1>6. CASE r.op \notin {"addRule", "editRules"}
  <2>1. rules' \subseteq rules
    BY <1>1, <1>6 DEF RulesAfter
  <2>2. QED
    BY <1>1, <2>1
<1>7. QED
  BY <1>4, <1>5, <1>6

LEMMA TxnsAfterCommit ==
  ASSUME RowsInvariant, NEW s \in Sessions, Commit(s)
  PROVE  /\ txns' \in SUBSET TxnRow
         /\ \A t, u \in txns' : t.id = u.id => t = u
         /\ \A u \in txns' : \/ \E t \in txns : t.id = u.id
                             \/ request[s].op = "addTxns" /\ \E e \in request[s].txns : e.old.id = u.id
<1> DEFINE r == request[s]
<1>1. /\ r \in RequestType /\ txns' = TxnsAfter(r) /\ txns \in SUBSET TxnRow
      /\ \A t, u \in txns : t.id = u.id => t = u
      /\ KeepsIds(r.txns) /\ SameIds(r.txns)
  BY DEF RowsInvariant, TypeOK, EditsSound, Commit
<1>2. r.op = "addTxns" => \A e \in r.txns : \A t \in txns : t.id # e.old.id
  BY DEF RowsInvariant, IdsFresh
<1> HIDE DEF r
<1>3. r.txns \in SUBSET EditType(TxnRow)
  BY <1>1 DEF RequestType
<1>4. CASE r.op = "addTxns"
  <2>1. txns' = txns \cup {e.new : e \in r.txns}
    BY <1>1, <1>4 DEF TxnsAfter
  <2>2. \A e \in r.txns : e.new \in TxnRow /\ e.new.id = e.old.id
    BY <1>1, <1>3 DEF EditType, KeepsIds
  <2>3. \A e, f \in r.txns : e.new.id = f.new.id => e = f
    BY <1>1, <2>2 DEF SameIds
  <2>4. QED
    BY <1>1, <1>2, <1>4, <2>1, <2>2, <2>3 DEF r
<1>5. CASE r.op = "editTxns"
  <2>1. txns' = Saved(txns, r.txns, MergeTxn)
    BY <1>1, <1>5 DEF TxnsAfter
  <2>2. QED
    BY <1>3, <2>1, SavedTxns DEF RowsInvariant
<1>6. CASE r.op \notin {"addTxns", "editTxns"}
  <2>1. txns' \subseteq txns
    BY <1>1, <1>6 DEF TxnsAfter
  <2>2. QED
    BY <1>1, <2>1
<1>7. QED
  BY <1>4, <1>5, <1>6

\* The session is as it was before it asked.
LEMMA DoneKeepsRows ==
  ASSUME RowsInvariant, NEW s \in Sessions, Done(s)
  PROVE  /\ pc' \in [Sessions -> {"idle", "asked"}] /\ request' \in [Sessions -> RequestType]
         /\ request'[s] = NoRequest /\ \A u \in Sessions \ {s} : request'[u] = request[u]
         /\ \A u \in Sessions : EditsSound(request'[u])
<1>1. pc' = [pc EXCEPT ![s] = "idle"] /\ request' = [request EXCEPT ![s] = NoRequest]
  BY DEF Done
<1>2. /\ pc' \in [Sessions -> {"idle", "asked"}] /\ request' \in [Sessions -> RequestType]
      /\ request'[s] = NoRequest /\ \A u \in Sessions \ {s} : request'[u] = request[u]
  BY <1>1, NoRequestTyped DEF RowsInvariant, TypeOK
<1>3. QED
  BY <1>2, NoRequestTyped DEF RowsInvariant

LEMMA CommitKeepsRows ==
  ASSUME RowsInvariant, LedgerInvariant', NEW s \in Sessions, Commit(s)
  PROVE  RowsInvariant'
<1> DEFINE r == request[s]
<1>1. /\ request'[s] = NoRequest /\ \A u \in Sessions \ {s} : request'[u] = request[u]
      /\ pc' \in [Sessions -> {"idle", "asked"}] /\ request' \in [Sessions -> RequestType]
      /\ \A u \in Sessions : EditsSound(request'[u])
  BY DoneKeepsRows DEF Commit
<1>2. /\ r \in RequestType /\ parent' = CategoriesAfter(r) /\ budgets' = BudgetsAfter(r)
      /\ parent \in [Categories -> Category \cup {None}] /\ budgets \in SUBSET Category
      /\ Categories \subseteq Category /\ TreeSound(r) /\ Allowed(r)
  BY DEF RowsInvariant, TypeOK, LedgerInvariant, RequestSound, Commit
<1> HIDE DEF r
<1>3. /\ Categories' \subseteq Category /\ parent' \in [Categories' -> Category \cup {None}]
  <2>1. CASE r.op \in {"addCategory", "moveCategory"}
    <3>1. r.category \in Category /\ r.parent \in Category \cup {None}
      BY <1>2, <2>1 DEF TreeSound, Category, RequestType
    <3>2. parent' = [c \in Categories \cup {r.category} |-> IF c = r.category THEN r.parent ELSE parent[c]]
      BY <1>2, <2>1 DEF CategoriesAfter
    <3>3. QED
      BY <1>2, <3>1, <3>2 DEF Categories
  <2>2. CASE r.op = "dropCategory"
    <3>1. parent' = [c \in Categories \ {r.category} |-> parent[c]]
      BY <1>2, <2>2 DEF CategoriesAfter
    <3>2. QED
      BY <1>2, <3>1 DEF Categories
  <2>3. CASE r.op \notin {"addCategory", "moveCategory", "dropCategory"}
    <3>1. parent' = parent
      BY <1>2, <2>3 DEF CategoriesAfter
    <3>2. QED
      BY <1>2, <3>1 DEF Categories
  <2>4. QED
    BY <2>1, <2>2, <2>3
<1>4. budgets' \in SUBSET Category
  BY <1>2 DEF BudgetsAfter, Allowed
<1>5. TypeOK'
  BY <1>1, <1>3, <1>4, RulesAfterCommit, TxnsAfterCommit DEF TypeOK
<1>6. IdsFresh'
  <2>1. ASSUME NEW u \in Sessions, request'[u].op = "addRule", NEW e \in request'[u].rules
        PROVE  /\ \A q \in rules' : q.id # e.old.id
               /\ \A v \in Sessions \ {u} : request'[v].op = "addRule" =>
                    \A f \in request'[v].rules : f.old.id # e.old.id
    <3>1. u # s /\ request'[u] = request[u]
      BY <1>1, <2>1 DEF NoRequest
    <3>2. /\ \A q \in rules : q.id # e.old.id
          /\ \A v \in Sessions \ {u} : request[v].op = "addRule" =>
                    \A f \in request[v].rules : f.old.id # e.old.id
      BY <2>1, <3>1 DEF RowsInvariant, IdsFresh
    <3>3. \A q \in rules' : q.id # e.old.id
      BY <3>1, <3>2, RulesAfterCommit
    <3>4. QED
      BY <1>1, <3>2, <3>3 DEF NoRequest
  <2>2. ASSUME NEW u \in Sessions, request'[u].op = "addTxns", NEW e \in request'[u].txns
        PROVE  /\ \A t \in txns' : t.id # e.old.id
               /\ \A v \in Sessions \ {u} : request'[v].op = "addTxns" =>
                    \A f \in request'[v].txns : f.old.id # e.old.id
    <3>1. u # s /\ request'[u] = request[u]
      BY <1>1, <2>2 DEF NoRequest
    <3>2. /\ \A t \in txns : t.id # e.old.id
          /\ \A v \in Sessions \ {u} : request[v].op = "addTxns" =>
                    \A f \in request[v].txns : f.old.id # e.old.id
      BY <2>2, <3>1 DEF RowsInvariant, IdsFresh
    <3>3. \A t \in txns' : t.id # e.old.id
      BY <3>1, <3>2, TxnsAfterCommit
    <3>4. QED
      BY <1>1, <3>2, <3>3 DEF NoRequest
  <2>3. QED
    BY <2>1, <2>2 DEF IdsFresh
<1>7. QED
  BY <1>1, <1>5, <1>6 DEF RowsInvariant, EditsSound, SameIds, KeepsIds, UserKept, ReorderSound, ImportSound

LEMMA RefuseKeepsRows ==
  ASSUME RowsInvariant, LedgerInvariant', NEW s \in Sessions, Refuse(s)
  PROVE  RowsInvariant'
<1>1. /\ request'[s] = NoRequest /\ \A u \in Sessions \ {s} : request'[u] = request[u]
      /\ pc' \in [Sessions -> {"idle", "asked"}] /\ request' \in [Sessions -> RequestType]
      /\ \A u \in Sessions : EditsSound(request'[u])
  BY DoneKeepsRows DEF Refuse
<1>2. parent' = parent /\ rules' = rules /\ txns' = txns /\ budgets' = budgets
  BY DEF Refuse, tables
<1>3. TypeOK'
  BY <1>1, <1>2 DEF RowsInvariant, TypeOK, Categories
<1>4. IdsFresh'
  BY <1>1, <1>2 DEF RowsInvariant, IdsFresh, NoRequest
<1>5. QED
  BY <1>1, <1>3, <1>4 DEF RowsInvariant, EditsSound, SameIds, KeepsIds, UserKept, ReorderSound, ImportSound

LEMMA RowsInit == Init => RowsInvariant
<1> SUFFICES ASSUME Init PROVE RowsInvariant
  OBVIOUS
<1>1. LedgerInvariant
  BY InvariantInit
<1>2. parent \in [System -> Groups \cup {None}] /\ Categories = System
  BY DEF Init, Categories
<1>3. TypeOK
  BY <1>2, NoRequestTyped DEF Init, TypeOK, System, Category
<1>4. IdsFresh /\ \A s \in Sessions : EditsSound(request[s])
  BY NoRequestTyped DEF Init, IdsFresh, NoRequest
<1>5. QED
  BY <1>1, <1>3, <1>4 DEF RowsInvariant

LEMMA RowsStep == RowsInvariant /\ [Next]_vars => RowsInvariant'
<1> SUFFICES ASSUME RowsInvariant, [Next]_vars PROVE RowsInvariant'
  OBVIOUS
<1>1. LedgerInvariant'
  BY InvariantStep DEF RowsInvariant
<1>2. ASSUME NEW s \in Sessions, Request(s) PROVE RowsInvariant'
  BY <1>1, <1>2, AskedIsSound, AskKeepsRows
<1>3. ASSUME NEW s \in Sessions, Commit(s) \/ Refuse(s) PROVE RowsInvariant'
  BY <1>1, <1>3, CommitKeepsRows, RefuseKeepsRows
<1>4. CASE UNCHANGED vars
  <2>1. TypeOK'
    BY <1>4 DEF vars, RowsInvariant, TypeOK, Categories
  <2>2. IdsFresh'
    BY <1>4 DEF vars, RowsInvariant, IdsFresh
  <2>3. QED
    BY <1>1, <1>4, <2>1, <2>2 DEF vars, RowsInvariant
<1>5. QED
  BY <1>2, <1>3, <1>4 DEF Next

\* Every table keeps its type, and no two rows of it ever share an id, though the sessions that
\* insert rows have not seen each other's.
THEOREM RowsTyped == Spec => []TypeOK
<1>1. RowsInvariant => TypeOK
  BY DEF RowsInvariant
<1>2. QED
  BY <1>1, RowsInit, RowsStep, PTL DEF Spec
-------------------------------------------------------------------------------
(* What a commit may not do *)

\* A row that is there was not typed under another category before, nor is it being entered.
LEMMA HeldIsKept ==
  ASSUME RowsInvariant, NEW t \in txns \cup Entered, NEW u \in txns, t.id = u.id
  PROVE  t = u
<1>1. CASE t \in txns
  BY <1>1 DEF RowsInvariant, TypeOK
<1>2. CASE t \in Entered
  <2>1. PICK v \in Sessions : request[v].op = "addTxns" /\ \E e \in request[v].txns : t = e.old
    BY <1>2 DEF Entered
  <2>2. QED
    BY <2>1 DEF RowsInvariant, IdsFresh
<1>3. QED
  BY <1>1, <1>2

LEMMA CommitKeepsTyped ==
  ASSUME RowsInvariant, NEW s \in Sessions, Commit(s), NEW t \in txns \cup Entered, NEW u \in txns',
         t.id = u.id, t.by = "user", t.category \notin {None, u.category}, u.by = "rule"
  PROVE  request[s].op = "editTxns" /\
           \E e \in request[s].txns :
              /\ e.old.id = t.id /\ e.new.category = u.category
              /\ e.old.category = None \/ e.old \in request[s].seen
<1> DEFINE r == request[s]
<1>1. /\ r \in RequestType /\ txns' = TxnsAfter(r) /\ KeepsIds(r.txns) /\ SameIds(r.txns) /\ UserKept(r)
  BY DEF RowsInvariant, TypeOK, EditsSound, Commit
<1>2. u \notin txns
  BY HeldIsKept
<1>3. CASE r.op = "addTxns"
  <2>1. txns' = txns \cup {e.new : e \in r.txns}
    BY <1>1, <1>3 DEF TxnsAfter
  <2>2. PICK e \in r.txns : u = e.new
    BY <1>2, <2>1
  <2>3. e.old.id = t.id
    BY <1>1, <2>2 DEF KeepsIds
  <2>4. t \notin txns
    BY <1>3, <2>3 DEF RowsInvariant, IdsFresh
  <2>5. PICK v \in Sessions : request[v].op = "addTxns" /\ \E f \in request[v].txns : t = f.old
    BY <2>4 DEF Entered
  <2>6. v = s
    BY <1>3, <2>3, <2>5 DEF RowsInvariant, IdsFresh
  <2>7. t = e.old
    BY <1>1, <2>3, <2>5, <2>6 DEF SameIds
  <2>8. u = t
    BY <1>1, <1>3, <2>2, <2>7 DEF UserKept
  <2>9. QED
    BY <2>8
<1>4. CASE r.op = "editTxns"
  <2>1. txns' = Saved(txns, r.txns, MergeTxn) /\ r.txns \in SUBSET EditType(TxnRow)
    BY <1>1, <1>4 DEF TxnsAfter, RequestType
  <2>2. PICK e \in r.txns : e.old.id = u.id /\ u.category = e.new.category /\ u.by = e.new.by
    BY <1>2, <2>1, SavedTxns DEF RowsInvariant
  <2>3. e.old.category = None \/ e.old \in r.seen
    BY <1>1, <1>4, <2>2 DEF UserKept
  <2>4. QED
    BY <1>4, <2>2, <2>3
<1>5. CASE r.op \notin {"addTxns", "editTxns"}
  <2>1. txns' \subseteq txns
    BY <1>1, <1>5 DEF TxnsAfter
  <2>2. QED
    BY <1>2, <2>1
<1>6. QED
  BY <1>3, <1>4, <1>5

\* "Typing one in by hand still wins over the rules": a rule's category takes the place of one the
\* user gave, to a row that is there or that is being entered, only in a backfill asked to go over
\* every row, or in one that had read this row while it had no category.
THEOREM TypedIsKept == Spec => TypedCategoryStays
<1>1. ASSUME RowsInvariant, [Next]_vars, NEW t \in txns \cup Entered, NEW u \in txns',
             t.id = u.id, t.by = "user", t.category \notin {None, u.category}, u.by = "rule"
      PROVE  \E s \in Sessions : Commit(s) /\ request[s].op = "editTxns" /\
               \E e \in request[s].txns :
                  /\ e.old.id = t.id /\ e.new.category = u.category
                  /\ e.old.category = None \/ e.old \in request[s].seen
  <2>1. CASE \E s \in Sessions : Commit(s)
    BY <1>1, <2>1, CommitKeepsTyped
  <2>2. CASE ~ \E s \in Sessions : Commit(s)
    <3>1. txns' = txns
      <4>1. ASSUME NEW s \in Sessions, Request(s) PROVE txns' = txns
        BY <1>1, <4>1, AskedIsSound DEF Ask, tables
      <4>2. ASSUME NEW s \in Sessions, Refuse(s) PROVE txns' = txns
        BY <4>2 DEF Refuse, tables
      <4>3. QED
        BY <1>1, <2>2, <4>1, <4>2 DEF Next, vars
    <3>2. t = u
      BY <1>1, <3>1, HeldIsKept
    <3>3. QED
      BY <1>1, <3>2
  <2>3. QED
    BY <2>1, <2>2
<1>2. RowsInvariant /\ [Next]_vars =>
        \A t \in txns \cup Entered, u \in txns' :
         t.id = u.id /\ t.by = "user" /\ t.category \notin {None, u.category} /\ u.by = "rule" =>
            \E s \in Sessions : Commit(s) /\ request[s].op = "editTxns" /\
               \E e \in request[s].txns :
                  /\ e.old.id = t.id /\ e.new.category = u.category
                  /\ e.old.category = None \/ e.old \in request[s].seen
  BY <1>1
<1>3. QED
  BY <1>2, RowsInit, RowsStep, PTL DEF Spec, TypedCategoryStays

\* One row more, of another shape or of this one.
LEMMA HeldRows ==
  ASSUME TypeOK, NEW shape
  PROVE  LET held == {t \in txns : t.text /\ t.shape = shape}
         IN  IsFiniteSet(held) /\ Held(txns, shape) = Cardinality(held) /\ Cardinality(held) \in Nat
             /\ (Cardinality(held) = 0 <=> held = {})
<1> DEFINE held == {t \in txns : t.text /\ t.shape = shape}
<1>1. held \in SUBSET txns
  OBVIOUS
<1>2. IsFiniteSet(held)
  BY <1>1, TablesFinite, FS_Subset
<1>3. QED
  BY <1>2, FS_CardinalityType, FS_EmptySet DEF Held

LEMMA ImportCommits ==
  ASSUME RowsInvariant, NEW s \in Sessions, Commit(s), request[s].op = "addTxns",
         request[s].list # <<>>, request[s].seen = txns, NEW shape \in Shapes
  PROVE  Held(txns', shape) = IF shape \in Range(request[s].list) /\ Held(txns, shape) = 0 THEN 1
                              ELSE Held(txns, shape)
<1> DEFINE r == request[s]
           held == {t \in txns : t.text /\ t.shape = shape}
           new == NewOf(r, shape)
           after == {t \in txns' : t.text /\ t.shape = shape}
<1>1. ImportSound(r) /\ txns' = TxnsAfter(r)
  BY DEF RowsInvariant, EditsSound, Commit
<1>2. txns' = txns \cup {e.new : e \in r.txns} /\ \A e \in r.txns : e.new.text
  BY <1>1 DEF TxnsAfter, ImportSound
<1>3. after = held \cup new
  BY <1>2 DEF NewOf
<1>4. IF shape \in Range(r.list) /\ held = {} THEN \E x : new = {x} ELSE new = {}
  BY <1>1 DEF ImportSound
<1>5. Held(txns, shape) = Cardinality(held) /\ (Cardinality(held) = 0 <=> held = {})
  BY HeldRows DEF RowsInvariant
<1>6. Held(txns', shape) = Cardinality(after)
  BY DEF Held
<1> HIDE DEF held, new, after
<1>7. CASE shape \in Range(r.list) /\ held = {}
  <2>1. PICK x : after = {x}
    BY <1>3, <1>4, <1>7
  <2>2. Cardinality(after) = 1
    BY <2>1, FS_Singleton
  <2>3. QED
    BY <1>5, <1>6, <1>7, <2>2
<1>8. CASE ~(shape \in Range(r.list) /\ held = {})
  <2>1. after = held
    BY <1>3, <1>4, <1>8
  <2>2. QED
    BY <1>5, <1>6, <1>8, <2>1
<1>9. QED
  BY <1>7, <1>8

\* An import that no other change to the table overtook leaves each text of the file held once, and
\* no text held more often than before: the same file again adds nothing.
THEOREM ImportsAddOnce == Spec => ImportAddsOnce
<1>1. RowsInvariant =>
        \A s \in Sessions :
          Commit(s) /\ request[s].op = "addTxns" /\ request[s].list # <<>> /\ request[s].seen = txns =>
            \A shape \in Shapes :
               Held(txns', shape) = IF shape \in Range(request[s].list) /\ Held(txns, shape) = 0 THEN 1
                                    ELSE Held(txns, shape)
  BY ImportCommits
<1>2. QED
  BY <1>1, RowsInit, RowsStep, PTL DEF Spec, ImportAddsOnce
-------------------------------------------------------------------------------
(* A new order of the rules *)

\* What the list asks of two rules.
Sooner(list, q, r) ==
    CASE {q.id, r.id} \subseteq Range(list) -> At(list, q.id) < At(list, r.id)
      [] {q.id, r.id} \cap Range(list) = {} -> Before(q, r)
      [] OTHER -> q.id \in Range(list)

\* Where an id that is listed once is found.
LEMMA FoundAt ==
  ASSUME NEW list, Injective(list), NEW id \in Range(list)
  PROVE  /\ At(list, id) \in DOMAIN list /\ list[At(list, id)] = id
         /\ \A j \in DOMAIN list : list[j] = id => j = At(list, id)
<1>1. \E i \in DOMAIN list : list[i] = id
  BY DEF Range
<1>2. At(list, id) \in DOMAIN list /\ list[At(list, id)] = id
  BY <1>1 DEF At
<1>3. QED
  BY <1>2 DEF Injective

LEMMA SoonerTotal ==
  ASSUME NEW rows \in SUBSET RuleRow, \A q, r \in rows : q.id = r.id => q = r,
         NEW n \in Nat, NEW list, DOMAIN list = 1 .. n, Injective(list),
         NEW q \in rows, NEW r \in rows, q # r
  PROVE  Sooner(list, q, r) \/ Sooner(list, r, q)
<1>1. q.id # r.id
  OBVIOUS
<1>2. CASE {q.id, r.id} \subseteq Range(list)
  <2>1. /\ At(list, q.id) \in 1 .. n /\ At(list, r.id) \in 1 .. n
        /\ list[At(list, q.id)] = q.id /\ list[At(list, r.id)] = r.id
    BY <1>2, FoundAt
  <2>2. At(list, q.id) # At(list, r.id)
    BY <1>1, <2>1
  <2>3. At(list, q.id) < At(list, r.id) \/ At(list, r.id) < At(list, q.id)
    BY <2>1, <2>2
  <2>4. QED
    BY <1>2, <2>3 DEF Sooner
<1>3. CASE {q.id, r.id} \cap Range(list) = {}
  <2>1. Before(q, r) \/ Before(r, q)
    BY BeforeIsOrder
  <2>2. QED
    BY <1>3, <2>1 DEF Sooner
<1>4. CASE ~({q.id, r.id} \subseteq Range(list)) /\ {q.id, r.id} \cap Range(list) # {}
  BY <1>4 DEF Sooner
<1>5. QED
  BY <1>2, <1>3, <1>4

LEMMA SoonerPlace ==
  ASSUME NEW rows \in SUBSET RuleRow, IsFiniteSet(rows), \A q, r \in rows : q.id = r.id => q = r,
         NEW n \in Nat, NEW list, DOMAIN list = 1 .. n, Injective(list),
         NEW q \in rows, NEW r \in rows, Sooner(list, q, r)
  PROVE  Place(rows, q, list) < Place(rows, r, list)
<1> DEFINE L == Listed(rows, list)
           U(x) == {i \in L : \E j \in DOMAIN list : list[j] = x.id /\ i <= j}
           V(x) == {y \in rows : y.id \notin Range(list) /\ ~Before(x, y)}
<1>1. IsFiniteSet(L) /\ \A x \in rows : U(x) \in SUBSET L /\ V(x) \in SUBSET rows
  BY PlaceSets
<1>2. \A x \in rows : Place(rows, x, list) = IF x.id \in Range(list) THEN Cardinality(U(x))
                                              ELSE Cardinality(L) + Cardinality(V(x))
  BY DEF Place
<1>3. CASE {q.id, r.id} \subseteq Range(list)
  <2> DEFINE a == At(list, q.id)
             b == At(list, r.id)
  <2>1. /\ a \in 1 .. n /\ b \in 1 .. n /\ list[a] = q.id /\ list[b] = r.id
        /\ \A j \in 1 .. n : (list[j] = q.id => j = a) /\ (list[j] = r.id => j = b)
    BY <1>3, FoundAt
  <2>2. a < b
    BY <1>3 DEF Sooner
  <2> HIDE DEF a, b
  <2>3. L \in SUBSET (1 .. n) /\ b \in L
    BY <2>1 DEF Listed
  <2> HIDE DEF L
  <2>4. U(q) = {i \in L : i <= a} /\ U(r) = {i \in L : i <= b}
    BY <2>1
  <2>5. U(q) \subseteq U(r) /\ b \in U(r) /\ b \notin U(q)
    <3>1. \A i \in 1 .. n : i <= a => i <= b
      BY <2>1, <2>2
    <3>2. b <= b /\ ~(b <= a)
      BY <2>1, <2>2
    <3> HIDE DEF U
    <3>3. QED
      BY <2>3, <2>4, <3>1, <3>2
  <2>6. Cardinality(U(q)) < Cardinality(U(r))
    <3>1. U(q) \in SUBSET L /\ U(r) \in SUBSET L /\ U(q) \subseteq U(r) /\ U(q) # U(r)
      BY <1>1, <2>5
    <3> HIDE DEF U
    <3>2. QED
      BY <1>1, <3>1, StrictlyFewer
  <2>7. QED
    BY <1>2, <1>3, <2>6
<1>4. CASE {q.id, r.id} \cap Range(list) = {}
  <2>1. Before(q, r)
    BY <1>4 DEF Sooner
  <2>2. r \in V(r) /\ r \notin V(q)
    BY <1>4, <2>1, BeforeIsOrder
  <2>3. V(q) \subseteq V(r)
    <3>1. \A y \in rows : Before(r, y) => Before(q, y)
      BY <2>1, BeforeIsOrder
    <3>2. QED
      BY <3>1
  <2>4. V(q) \in SUBSET rows /\ V(r) \in SUBSET rows /\ V(q) \subseteq V(r) /\ V(q) # V(r)
    BY <1>1, <2>2, <2>3
  <2>5. /\ Place(rows, q, list) = Cardinality(L) + Cardinality(V(q))
        /\ Place(rows, r, list) = Cardinality(L) + Cardinality(V(r))
    BY <1>2, <1>4
  <2> HIDE DEF L, V
  <2>6. /\ Cardinality(V(q)) \in Nat /\ Cardinality(V(r)) \in Nat
        /\ Cardinality(V(q)) < Cardinality(V(r))
    BY <2>4, StrictlyFewer
  <2>7. Cardinality(L) \in Nat
    BY <1>1, FS_CardinalityType
  <2>8. QED
    BY <2>5, <2>6, <2>7
<1>5. CASE ~({q.id, r.id} \subseteq Range(list)) /\ {q.id, r.id} \cap Range(list) # {}
  <2>1. q.id \in Range(list) /\ r.id \notin Range(list)
    BY <1>5 DEF Sooner
  <2>2. r \in V(r)
    BY <2>1, BeforeIsOrder
  <2>3. IsFiniteSet(V(r)) /\ V(r) # {}
    BY <1>1, <2>2, FS_Subset
  <2>4. U(q) \in SUBSET L
    BY <1>1
  <2>5. Place(rows, q, list) = Cardinality(U(q)) /\ Place(rows, r, list) = Cardinality(L) + Cardinality(V(r))
    BY <1>2, <2>1
  <2> HIDE DEF L, U, V
  <2>6. Cardinality(V(r)) \in Nat /\ Cardinality(V(r)) # 0
    BY <2>3, FS_CardinalityType, FS_EmptySet
  <2>7. Cardinality(L) \in Nat /\ Cardinality(U(q)) \in Nat /\ Cardinality(U(q)) <= Cardinality(L)
    BY <1>1, <2>4, FS_Subset, FS_CardinalityType
  <2>8. QED
    BY <2>5, <2>6, <2>7
<1>6. QED
  BY <1>3, <1>4, <1>5

\* Of a rule that is as it was loaded, the commit of a new order writes the priority of its place.
LEMMA Reordered ==
  ASSUME RowsInvariant, NEW s \in Sessions, Commit(s), request[s].op = "editRules",
         request[s].list # <<>>, rules = {e.old : e \in request[s].rules}, NEW q \in rules'
  PROVE  \E x \in rules : x.id = q.id /\ q.priority = Priority(rules, x, request[s].list)
<1> DEFINE r == request[s]
           edits == r.rules
           after(row) == IF EditOf(row, edits) = {} THEN row
                         ELSE MergeRule(row, CHOOSE e \in EditOf(row, edits) : TRUE)
<1>1. r \in RequestType /\ rules' = RulesAfter(r) /\ ReorderSound(r)
  BY DEF RowsInvariant, TypeOK, EditsSound, Commit
<1>2. rules' = Saved(rules, edits, MergeRule) /\ edits \in SUBSET EditType(RuleRow)
  BY <1>1 DEF RulesAfter, RequestType
<1>3. rules' = {after(row) : row \in rules}
  BY <1>2 DEF Saved
<1>4. PICK x \in rules : q = after(x)
  BY <1>3
<1>5. EditOf(x, edits) # {}
  BY DEF EditOf
<1> DEFINE e == CHOOSE f \in EditOf(x, edits) : TRUE
<1>6. e \in edits /\ e.old.id = x.id /\ q = MergeRule(x, e)
  BY <1>4, <1>5 DEF EditOf
<1> HIDE DEF after, e
<1>7. e.old = x
  BY <1>6 DEF RowsInvariant, TypeOK
<1>8. e.new.priority = Priority(rules, x, r.list)
  BY <1>1, <1>6, <1>7 DEF ReorderSound
<1>9. q.id = x.id /\ q.priority = Column(x.priority, e.old.priority, e.new.priority)
  <2>1. x \in RuleRow /\ e \in EditType(RuleRow)
    BY <1>2, <1>6 DEF RowsInvariant, TypeOK
  <2>2. QED
    BY <1>6, <2>1, MergedRule
<1>10. QED
  BY <1>7, <1>8, <1>9 DEF Column

LEMMA ReorderCommits ==
  ASSUME RowsInvariant, NEW s \in Sessions, Commit(s), request[s].op = "editRules",
         request[s].list # <<>>, Injective(request[s].list),
         rules = {e.old : e \in request[s].rules}, NEW q \in rules', NEW r \in rules', q # r
  PROVE  LET list == request[s].list
             before == CASE {q.id, r.id} \subseteq Range(list) -> At(list, q.id) < At(list, r.id)
                         [] {q.id, r.id} \cap Range(list) = {} ->
                              \E x, y \in rules : x.id = q.id /\ y.id = r.id /\ Before(x, y)
                         [] OTHER -> q.id \in Range(list)
         IN  before <=> q.priority < r.priority
<1> DEFINE list == request[s].list
           before == CASE {q.id, r.id} \subseteq Range(list) -> At(list, q.id) < At(list, r.id)
                       [] {q.id, r.id} \cap Range(list) = {} ->
                            \E x, y \in rules : x.id = q.id /\ y.id = r.id /\ Before(x, y)
                       [] OTHER -> q.id \in Range(list)
<1>1. PICK x \in rules : x.id = q.id /\ q.priority = Priority(rules, x, list)
  BY Reordered
<1>2. PICK y \in rules : y.id = r.id /\ r.priority = Priority(rules, y, list)
  BY Reordered
<1>3. x # y
  BY <1>1, <1>2, RulesAfterCommit
<1>4. /\ rules \in SUBSET RuleRow /\ IsFiniteSet(rules)
      /\ \A p, o \in rules : p.id = o.id => p = o
  BY TablesFinite DEF RowsInvariant, TypeOK
<1>5. before <=> Sooner(list, x, y)
  BY <1>1, <1>2, <1>4 DEF Sooner
<1>6. list \in Seq(Shapes \cup (1 .. MaxRules))
  BY DEF RowsInvariant, TypeOK, RequestType
<1>7. Len(list) \in Nat /\ DOMAIN list = 1 .. Len(list)
  BY <1>6
<1>8. Place(rules, x, list) \in Nat /\ Place(rules, y, list) \in Nat
  BY <1>4, <1>7, PlaceType
<1>9. Sooner(list, x, y) \/ Sooner(list, y, x)
  BY <1>3, <1>4, <1>7, SoonerTotal
<1>10. /\ Sooner(list, x, y) => Place(rules, x, list) < Place(rules, y, list)
       /\ Sooner(list, y, x) => Place(rules, y, list) < Place(rules, x, list)
  BY <1>4, <1>7, SoonerPlace
<1>11. Sooner(list, x, y) <=> Place(rules, x, list) < Place(rules, y, list)
  BY <1>8, <1>9, <1>10
<1>12. q.priority = 10 * Place(rules, x, list) /\ r.priority = 10 * Place(rules, y, list)
  BY <1>1, <1>2 DEF Priority
<1> HIDE DEF before, list
<1>13. Place(rules, x, list) < Place(rules, y, list) <=> q.priority < r.priority
  BY <1>8, <1>12
<1>14. before <=> q.priority < r.priority
  BY <1>5, <1>11, <1>13
<1>15. QED
  BY <1>14 DEF before, list

\* "Rewrite priority to match the given order. Ids not listed keep their place at the end, in their
\* existing order": where the rules are as they were loaded, they end in that order, and no two tie.
THEOREM ReorderGivesTheOrder == Spec => ReorderMatchesList
<1>1. RowsInvariant =>
        \A s \in Sessions :
         LET list == request[s].list
         IN  /\ Commit(s) /\ request[s].op = "editRules" /\ list # <<>> /\ Injective(list)
             /\ rules = {e.old : e \in request[s].rules}
             => \A q, r \in rules' : q # r =>
                  LET before == CASE {q.id, r.id} \subseteq Range(list) -> At(list, q.id) < At(list, r.id)
                                  [] {q.id, r.id} \cap Range(list) = {} ->
                                       \E x, y \in rules : x.id = q.id /\ y.id = r.id /\ Before(x, y)
                                  [] OTHER -> q.id \in Range(list)
                  IN  before <=> q.priority < r.priority
  BY ReorderCommits
<1>2. QED
  BY <1>1, RowsInit, RowsStep, PTL DEF Spec, ReorderMatchesList
===============================================================================
