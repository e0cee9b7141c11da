---------------------------- MODULE CategoryOptions ----------------------------
(***************************************************************************)
(* The options of a category and their copies in its products:             *)
(* categories.service.syncCategoryOptions writes both in one transaction,  *)
(* products.repository.syncOptions writes a product's other options.  Name,*)
(* price and availability of an option are one value.                      *)
(* Transactions run at Postgres' Read Committed: a statement sees what was *)
(* committed before it, a row somebody is writing is waited for, and so is *)
(* the deletion of a row that a new foreign key points to.                 *)
(***************************************************************************)
EXTENDS Naturals, Sequences, FiniteSets

CONSTANTS
  Products,
  Options,   \* ids of category options, 1..n
  Values,
  Requests,  \* updates of the category or of a product, with options
  None,
  CategoryPayloads, \* see Payloads
  Forms,     \* see CreateProduct
  Seeded,    \* how many options the category starts with
  MaxRows    \* bound on the ProductOption rows ever inserted

VARIABLES
  place,     \* of each product: "absent", "inside" the category, "outside" or "removed"
  options,   \* the CategoryOption rows: their value, None for no row
  nextId,    \* the next id of a category option
  rows,      \* the ProductOption rows by id; a deleted one is not live
  pc,
  payload,   \* of each request
  read,      \* what it read: see ReadCategory, LockOptions, CopyOptions and ReadProduct
  loose,     \* history: options whose copies need not match, see CopiesMatch
  doubled    \* history: options given to a product twice, see Overlapping and CreateProduct

data == <<place, options, nextId, rows>>
histories == <<loose, doubled>>
optionVars == <<data, pc, payload, read, histories>>

Ids == 1..Len(rows)
Present == {o \in Options : options[o] # None}
Inside == {p \in Products : place[p] = "inside"}
Exists(p) == place[p] \in {"inside", "outside"}
Live(i) == rows[i].live
CopiesOf(o) == {i \in Ids : Live(i) /\ rows[i].option = o}
Holders(o) == {rows[i].product : i \in CopiesOf(o)}

NothingRead == [options |-> {}, products |-> {}, holders |-> [o \in Options |-> {}],
                values |-> [o \in Options |-> None], copied |-> {}, behind |-> {}]

\* A category's payload: an action for some ids, and the value of a new option.
Actions == Values \cup {"bare", "delete", "absent"}
Payloads == [acts : [Options -> Actions], new : Values \cup {None}]
NoPayload == [acts |-> [o \in Options |-> "absent"], new |-> None]

\* The inserted rows in some order.
Inserted(pairs, valueOf) ==
  CHOOSE seq \in [1..Cardinality(pairs) ->
      {[product |-> pair[1], option |-> pair[2], value |-> valueOf[pair], live |-> TRUE] :
         pair \in pairs}] :
    \A pair \in pairs : \E i \in DOMAIN seq : seq[i].product = pair[1] /\ seq[i].option = pair[2]

\* The category as an earlier request left it, with copies in its products.
Init ==
  \E inside \in SUBSET Products :
    LET v == CHOOSE v \in Values : TRUE
        copies == inside \X (1..Seeded) IN
    /\ place = [p \in Products |-> IF p \in inside THEN "inside" ELSE "absent"]
    /\ options = [o \in Options |-> IF o <= Seeded THEN v ELSE None]
    /\ nextId = Seeded + 1
    /\ rows = Inserted(copies, [pair \in copies |-> v])
    /\ pc = [r \in Requests |-> "idle"]
    /\ payload = [r \in Requests |-> NoPayload]
    /\ read = [r \in Requests |-> NothingRead]
    /\ loose = {} /\ doubled = {}

Goto(r, label) == pc' = [pc EXCEPT ![r] = label]
\* What a finished request knew is dropped.
Finish(r, label) ==
  /\ Goto(r, label)
  /\ payload' = [payload EXCEPT ![r] = NoPayload]
  /\ read' = [read EXCEPT ![r] = NothingRead]

-----------------------------------------------------------------------------
(* syncCategoryOptions *)

Named(r) == {o \in Options : payload[r].acts[o] # "absent"}
\* Inputs with an id of no option are skipped.
Handled(r) == Named(r) \cap read[r].options
Written(r) == {o \in Handled(r) : payload[r].acts[o] # "bare"}
Deleted(r) == {o \in Handled(r) : payload[r].acts[o] = "delete"}
Ensured(r) == Handled(r) \ Deleted(r)

\* Its transaction has written options, uncommitted.
Writing(q) == pc[q] \in {"locked", "copied"}

\* The transaction begins, and reads the options and the products.
ReadCategory(r, input) ==
  /\ pc[r] = "idle"
  /\ payload' = [payload EXCEPT ![r] = input]
  /\ read' = [read EXCEPT ![r].options = Present,
                          ![r].products = IF input = NoPayload THEN {} ELSE Inside]
  /\ Goto(r, "sync")
  /\ UNCHANGED <<data, histories>>

\* The options it gives copies: without products none at all.
Updated(r) == IF read[r].products = {} THEN {}
              ELSE {o \in Ensured(r) : o \in Written(r) \/ read[r].values[o] # None}

\* The copies it inserts: for the products it read, without those that had one.
Missing(r) == {pair \in read[r].products \X Updated(r) : pair[1] \notin read[r].holders[pair[2]]}
New(r) == IF payload[r].new = None THEN {} ELSE {nextId}
Pairs(r) == Missing(r) \cup (read[r].products \X New(r))

\* A transaction that has copied its options holds them, by the foreign keys of
\* what it inserted and by the copies it updated.
Holds(q, o) == pc[q] = "copied" /\ (\/ \E pair \in Missing(q) : pair[2] = o
                                    \/ \E i \in read[q].copied : rows[i].option = o)
\* A copy somebody is writing or deleting.
Locked(i) == \E q \in Requests : \/ pc[q] = "copied" /\ i \in read[q].copied
                                 \/ Writing(q) /\ rows[i].option \in Deleted(q)

\* Mutant: the copies are looked up before the option is written.
LookWithoutLock(r) ==
  /\ pc[r] = "sync"
  /\ Goto(r, "locked")
  /\ read' = [read EXCEPT ![r].holders = [o \in Options |-> Holders(o)],
                          ![r].values = options]
  /\ UNCHANGED <<data, payload, histories>>

\* Updating or deleting an option waits for whoever is writing it, and fails
\* the transaction when it is gone by then.  After that its value and the
\* products with a copy are read.  An input that gives no field writes nothing
\* and waits for nobody.
LockOptions(r) ==
  /\ pc[r] = "sync"
  /\ \A q \in Requests : Writing(q) => Written(q) \cap Written(r) = {}
  /\ \A o \in Deleted(r), q \in Requests : ~Holds(q, o)
  /\ IF Written(r) \subseteq Present
       THEN /\ Goto(r, "locked")
            /\ read' = [read EXCEPT ![r].holders = [o \in Options |-> Holders(o)],
                                    ![r].values = options]
            /\ UNCHANGED payload
       ELSE Finish(r, "failed")
  /\ UNCHANGED <<data, histories>>

\* The missing copies are inserted, which fails when a product or an option is
\* gone, and the others updated: those that are committed by now, behind
\* whoever is updating them as well.
CopyOptions(r) ==
  LET copied == {i \in Ids : Live(i) /\ rows[i].option \in Updated(r)}
  IN
  /\ pc[r] = "locked"
  /\ \A q \in Requests \ {r} : Writing(q) =>
       \A o \in Deleted(q) : /\ \A pair \in Missing(r) : pair[2] # o
                             /\ \A i \in copied : rows[i].option # o
  /\ IF \A pair \in Pairs(r) : Exists(pair[1]) /\ pair[2] \in Present \cup New(r)
       THEN /\ Goto(r, "copied")
            /\ read' = [read EXCEPT ![r].copied = copied,
                 ![r].behind = {q \in Requests : pc[q] = "copied" /\ read[q].copied \cap copied # {}}]
            /\ UNCHANGED payload
       ELSE Finish(r, "failed")
  /\ UNCHANGED <<data, histories>>

ValueFor(r, o) ==
  CASE o \in New(r) -> payload[r].new
    [] o \in Written(r) -> payload[r].acts[o]
    [] OTHER -> read[r].values[o]

\* Mutant: all inputs count, those for new options too.
StaleByInputs(r) ==
  LET inputs == Cardinality(Named(r)) + Cardinality(New(r))
  IN IF inputs < Cardinality(read[r].options) THEN read[r].options \ Named(r) ELSE {}

\* Options the payload does not name are deleted, if it names fewer ids than
\* there were options; ids of no option count.
Stale(r) == IF Cardinality(Named(r)) < Cardinality(read[r].options)
              THEN read[r].options \ Named(r) ELSE {}

\* The copies of an option may differ from it when a request that wrote it has
\* not updated them all: those that others commit between its update of the
\* copies and its commit, and any copy if the category has no product.  And
\* when an input without fields writes the value it read earlier to the copies.
Loosened(r) ==
  {o \in Written(r) : CopiesOf(o) \ read[r].copied # {}}
  \cup {o \in Ensured(r) \ Written(r) : options[o] # read[r].values[o]}

\* Options this request copied without waiting, while another one copied them.
Overlapping(r) ==
  {o \in Ensured(r) \ Written(r) :
     \/ \E p \in Holders(o) : <<p, o>> \in Missing(r)
     \/ \E q \in Requests \ {r} : Writing(q) /\ o \in Ensured(q)}

\* Stale options are deleted with all their copies, and the transaction commits.
CommitSync(r) ==
  LET gone == Deleted(r) \cup Stale(r)
      kept == {pair \in Pairs(r) : pair[2] \notin gone}
  IN
  /\ pc[r] = "copied"
  /\ \A q \in read[r].behind : pc[q] # "copied"
  /\ \A o \in Stale(r), q \in Requests \ {r} :
       ~Holds(q, o) /\ ~(Writing(q) /\ o \in Written(q))
  /\ New(r) \subseteq Options /\ Len(rows) + Cardinality(Pairs(r)) <= MaxRows
  /\ options' = [o \in Options |->
       CASE o \in gone -> None
         [] o \in (New(r) \cup Written(r)) \ gone -> ValueFor(r, o)
         [] OTHER -> options[o]]
  /\ rows' = [i \in Ids |->
       CASE rows[i].option \in gone -> [rows[i] EXCEPT !.live = FALSE]
         [] i \in read[r].copied -> [rows[i] EXCEPT !.value = ValueFor(r, rows[i].option)]
         [] OTHER -> rows[i]]
       \o Inserted(kept, [pair \in kept |-> ValueFor(r, pair[2])])
  /\ nextId' = nextId + Cardinality(New(r))
  /\ loose' = (loose \ (Updated(r) \cap Written(r))) \cup Loosened(r)
  /\ doubled' = doubled \cup Overlapping(r)
  /\ Finish(r, "done")
  /\ UNCHANGED place

-----------------------------------------------------------------------------
(* syncOptions *)

\* A product's payload: the row it keeps, or a new one or both, and their value.
\* Its ids may be of any rows, those of other products too.
ProductPayloads(p) == [product : {p}, keep : Ids \cup {None}, value : Values, insert : BOOLEAN]

\* Which rows are copies is read before the transaction.
ReadProduct(r, input) ==
  /\ pc[r] = "idle" /\ Exists(input.product)
  /\ payload' = [payload EXCEPT ![r] = input]
  /\ read' = [read EXCEPT ![r].options =
                {i \in Ids : Live(i) /\ rows[i].product = input.product /\ rows[i].option # None}]
  /\ Goto(r, "edit")
  /\ UNCHANGED <<data, histories>>

UpdatedRows(r) == IF payload[r].keep = None THEN {} ELSE {payload[r].keep} \ read[r].options

\* The product's own options that are not kept are deleted, the kept row is
\* updated by its id alone and the new one inserted, all or nothing.
CommitProduct(r) ==
  LET p == payload[r].product
      v == payload[r].value
      updated == UpdatedRows(r)
      fresh == IF payload[r].insert
                 THEN <<[product |-> p, option |-> None, value |-> v, live |-> TRUE]>>
               ELSE <<>>
  IN
  /\ pc[r] = "edit"
  /\ \A i \in updated : ~Locked(i)
  /\ Len(rows) + Len(fresh) <= MaxRows
  /\ IF Exists(p) /\ \A i \in updated : Live(i)
       THEN /\ rows' = [i \in Ids |->
                 IF rows[i].product = p /\ rows[i].option = None /\ i # payload[r].keep
                   THEN [rows[i] EXCEPT !.live = FALSE]
                 ELSE IF i \in updated THEN [rows[i] EXCEPT !.value = v]
                 ELSE rows[i]] \o fresh
            /\ loose' = loose \cup {o \in Options : options[o] # v /\ CopiesOf(o) \cap updated # {}}
            /\ Finish(r, "done")
       ELSE UNCHANGED <<rows, loose>> /\ Finish(r, "failed")
  /\ UNCHANGED <<place, options, nextId, doubled>>

\* A database error, a deadlock, the time limit of a transaction or the death
\* of the process ends a request; its transaction rolls back.
Fail(r) ==
  /\ pc[r] \in {"sync", "locked", "copied", "edit"}
  /\ Finish(r, "failed")
  /\ UNCHANGED <<data, histories>>

-----------------------------------------------------------------------------
(* Products *)

\* A product is created with options as its form gives them, each of a category
\* option or its own, and with the values of the form.  The foreign keys want
\* the options, and wait for who is deleting one.
CreateProduct(p, where, form) ==
  LET lines == DOMAIN form IN
  /\ place[p] = "absent"
  /\ Len(rows) + Len(form) <= MaxRows
  /\ \A l \in lines : form[l].option # None =>
       /\ form[l].option \in Present
       /\ \A q \in Requests : Writing(q) => form[l].option \notin Deleted(q)
  /\ place' = [place EXCEPT ![p] = where]
  /\ rows' = rows \o [l \in lines |-> [product |-> p, option |-> form[l].option,
                                       value |-> form[l].value, live |-> TRUE]]
  /\ loose' = loose \cup {o \in Options : \E l \in lines :
                            form[l].option = o /\ form[l].value # options[o]}
  /\ doubled' = doubled \cup {o \in Options : \E k, l \in lines :
                                k # l /\ form[k].option = o /\ form[l].option = o}
  /\ UNCHANGED <<options, nextId, pc, payload, read>>

\* A product that changes its category keeps the copies of the old one.
MoveProduct(p) ==
  /\ Exists(p)
  /\ place' = [place EXCEPT ![p] = IF @ = "inside" THEN "outside" ELSE "inside"]
  /\ UNCHANGED <<options, nextId, rows, pc, payload, read, histories>>

\* Its options go with it.  Waits for who gives it copies or writes them.
RemoveProduct(p) ==
  /\ Exists(p)
  /\ \A q \in Requests : pc[q] = "copied" => \A pair \in Pairs(q) : pair[1] # p
  /\ \A i \in Ids : Live(i) /\ rows[i].product = p => ~Locked(i)
  /\ place' = [place EXCEPT ![p] = "removed"]
  /\ rows' = [i \in Ids |-> IF rows[i].product = p THEN [rows[i] EXCEPT !.live = FALSE] ELSE rows[i]]
  /\ UNCHANGED <<options, nextId, pc, payload, read, histories>>

Next ==
  \/ \E r \in Requests :
       \/ \E input \in CategoryPayloads : ReadCategory(r, input)
       \/ LockOptions(r) \/ CopyOptions(r) \/ CommitSync(r)
       \/ \E p \in Products : \E input \in ProductPayloads(p) : ReadProduct(r, input)
       \/ CommitProduct(r) \/ Fail(r)
  \/ \E p \in Products :
       \/ \E where \in {"inside", "outside"}, form \in Forms : CreateProduct(p, where, form)
       \/ MoveProduct(p) \/ RemoveProduct(p)

Spec == Init /\ [][Next]_optionVars

-----------------------------------------------------------------------------
(* Properties *)

\* Every copy of a category option has the option's value, however requests
\* that change the category, its products and their other options interleave,
\* but for options that were loosened and not written again since.  And no
\* product has two copies of one: requests that write an option wait for each
\* other before they look for copies; those that give no field do not, and the
\* form of a new product may name one twice.
\* Loosened are options with a copy their writer's update did not see, copies
\* of an older value, a copy a new product's form gave another value, or one
\* written by its id through another product.
CopiesMatch ==
  /\ \A i \in Ids :
       Live(i) /\ rows[i].option \notin loose \cup {None} => rows[i].value = options[rows[i].option]
  /\ \A o \in Options \ doubled : \A i, j \in CopiesOf(o) :
       rows[i].product = rows[j].product => i = j

\* A payload that names only options of the category replaces all of them.
ReplacesAll ==
  [][\A r \in Requests :
       pc[r] = "copied" /\ pc'[r] = "done" /\ Named(r) \subseteq read[r].options =>
         \A o \in read[r].options : options'[o] # None => o \in Ensured(r)]_optionVars
=============================================================================
