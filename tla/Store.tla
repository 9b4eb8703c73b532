------------------------------- MODULE Store -------------------------------
(***************************************************************************)
(* The store of the user interface in the browser (ui/store.ts): one kind  *)
(* of resource, the objects the browser holds of it, and the queries the   *)
(* pages make.  A page asks the store while it is drawn and is given what  *)
(* is held at once; when it has been drawn, fulfill() asks the server for  *)
(* what is missing, in one batch for all the queries of the page: first    *)
(* the counts and, for each query with a limit, its last row (the          *)
(* bookmark); when these have all been answered, the objects of the joined *)
(* filters that have not been asked for since the time stamp.              *)
(*                                                                         *)
(* A filter is the set of the rows it matches, a row an identifier and     *)
(* what the object says; the identifiers are in the order of the sort.     *)
(* The Boolean algebra on filters (union, difference, the rows ahead of    *)
(* the first gap) is modelled by its meaning on these sets.                *)
(***************************************************************************)
EXTENDS Integers, FiniteSets

CONSTANTS Ids,            \* the identifiers of objects, numbers
          Says,           \* what an object can say
          Queries,        \* the keys of queries
          Filter,         \* the filter of each
          Limit,          \* its limit, 0 for none
          Counting,       \* those that ask for the number of rows
          Pages,          \* the sets of queries pages make
          Null,
          MaxTimestamp, MaxChanges, MaxFailures, MaxBatches  \* bounds

VARIABLES db,               \* the collection of the server
          objects,          \* what the browser holds
          combinedFilter,   \* what has been asked for since the time stamp
          fulfillTimestamp,
          queries,          \* the answer held for each key, or Null
          page,             \* the queries of the page last drawn
          batches,          \* calls of fulfill() under way
          changes, failures,
          still             \* nothing disturbed the browser since the stamp

data == <<objects, combinedFilter, fulfillTimestamp, queries, page, batches, still>>
vars == <<db, data, changes, failures>>

Rows == Ids \X Says

(* What the constants must satisfy (Services assumes it). *)
StoreAssumption ==
  /\ Ids \subseteq Int /\ IsFiniteSet(Ids)
  /\ Null \notin Says
  /\ Filter \in [Queries -> SUBSET Rows] /\ Limit \in [Queries -> Nat]
  /\ Counting \subseteq Queries /\ Pages \subseteq SUBSET Queries

RowsOf(held) == {r \in Rows : held[r[1]] = r[2]}
Keep(held, rows) == [i \in Ids |-> IF \E s \in Says : <<i, s>> \in rows
                                   THEN CHOOSE s \in Says : <<i, s>> \in rows
                                   ELSE held[i]]

(***************************************************************************)
(* Sorting and paging: the rows up to a place, the row at a place, the     *)
(* rows of a filter that come before the first one not asked for yet.      *)
(***************************************************************************)
Place(r, rows) == Cardinality({s \in rows : s[1] <= r[1]})
FindMatches(held, filter, limit) ==
  LET rows == RowsOf(held) \cap filter
  IN  IF limit = 0 THEN rows ELSE {r \in rows : Place(r, rows) <= limit}
Bookmark(held, filter, place) ==
  {r[1] : r \in {s \in RowsOf(held) \cap filter :
                   Place(s, RowsOf(held) \cap filter) = place}}
UpTo(filter, bookmark) == {r \in filter : \A i \in bookmark : r[1] <= i}
Satisfied(fetched, wanted) ==
  IF fetched = {} THEN {}
  ELSE {r \in wanted : \A gap \in wanted \ fetched : r[1] < gap[1]}
UnionDiff(fetched, wanted) == <<fetched \cup wanted, wanted \ fetched>>

(***************************************************************************)
(* count() and fetch(): a query the page makes for the first time.         *)
(***************************************************************************)
Counted == [value |-> {}, count |-> 0, fulfilled |-> 0, fulfilling |-> FALSE,
            unsatisfied |-> {}]
Fetched(q) ==
  LET sat  == Satisfied(combinedFilter, Filter[q])
      diff == Filter[q] \ sat
      rows == FindMatches(objects, sat, Limit[q])
      full == diff = {} \/ (Limit[q] > 0 /\ Cardinality(rows) >= Limit[q])
  IN  [value |-> rows, count |-> 0,
       fulfilled |-> IF full THEN fulfillTimestamp ELSE 0,
       fulfilling |-> FALSE, unsatisfied |-> IF full THEN {} ELSE diff]
Asked(q) == IF q \in page THEN queries[q]
            ELSE IF q \in Counting THEN Counted ELSE Fetched(q)

(***************************************************************************)
(* The batches.  An ask is a query of the batch: live while the page still *)
(* shows that answer, waiting for its count or bookmark or not.            *)
(***************************************************************************)
NoBatch == [pc |-> "none", failed |-> FALSE, asks |-> {}, diff |-> {}, deleted |-> {},
            rows |-> {}]
Free == {b \in 1..MaxBatches : batches[b].pc = "none"}
Active == 1..MaxBatches \ Free
Ask(q, a) ==
  [query |-> q, live |-> TRUE,
   waits |-> q \in Counting \/ Limit[q] > 0,
   of |-> IF a.unsatisfied # {} THEN a.unsatisfied ELSE Filter[q],
   place |-> IF a.unsatisfied # {} THEN Limit[q] - Cardinality(a.value) ELSE Limit[q],
   bookmark |-> {}]
Unfulfilled(a) == ~a.fulfilling /\ a.fulfilled < fulfillTimestamp
Leave(batch, p) ==
  [batch EXCEPT !.asks = {[k EXCEPT !.live = k.live /\ k.query \in p] : k \in @}]

(***************************************************************************)
(* A page is drawn: its queries are made, those that it no longer makes    *)
(* are forgotten, and fulfill() asks for what is missing or out of date.   *)
(***************************************************************************)
Render(p) ==
  LET answers == [q \in p |-> Asked(q)]
      due     == {q \in p : Unfulfilled(answers[q])}
      fresh   == p \ page
  IN /\ due # {} => Free # {}
     /\ queries' = [q \in Queries |->
          IF q \notin p THEN Null
          ELSE [answers[q] EXCEPT !.fulfilling = @ \/ q \in due]]
     /\ batches' = [b \in 1..MaxBatches |->
          IF due # {} /\ b = CHOOSE f \in Free : \A g \in Free : f <= g
          THEN [NoBatch EXCEPT !.pc = "asked", !.asks = {Ask(q, answers[q]) : q \in due}]
          ELSE Leave(batches[b], p)]
     /\ page' = p
     /\ still' = (still /\ (Active = {} \/ (due = {} /\ fresh = {})))
     /\ UNCHANGED <<db, objects, combinedFilter, fulfillTimestamp, changes, failures>>

(* setTimestamp(): a page is opened, or something was changed from it *)
SetTimestamp ==
  /\ fulfillTimestamp < MaxTimestamp
  /\ fulfillTimestamp' = fulfillTimestamp + 1
  /\ combinedFilter' = {}
  /\ still' = (Active = {})
  /\ UNCHANGED <<db, objects, queries, page, batches, changes, failures>>

(* an object is created, changed or deleted, from here or elsewhere *)
Change(i) ==
  /\ changes < MaxChanges
  /\ \E s \in Says \cup {Null} : s # db[i] /\ db' = [db EXCEPT ![i] = s]
  /\ changes' = changes + 1
  /\ still' = FALSE
  /\ UNCHANGED <<objects, combinedFilter, fulfillTimestamp, queries, page, batches,
                 failures>>

Fulfilled(a, value, count) ==
  [a EXCEPT !.value = value, !.count = count, !.fulfilled = fulfillTimestamp,
            !.fulfilling = FALSE]

(* the number of rows of a query, or its bookmark *)
Answer(b, k) ==
  LET counts == k.query \in Counting
      count  == Cardinality(RowsOf(db) \cap Filter[k.query])
      rest   == batches[b].asks \ {k}
  IN /\ k.waits
     /\ batches' = [batches EXCEPT ![b].asks =
          IF counts THEN rest
          ELSE rest \cup {[k EXCEPT !.waits = FALSE,
                                    !.bookmark = Bookmark(db, k.of, k.place)]}]
     /\ queries' = IF ~k.live THEN queries
                   ELSE [queries EXCEPT ![k.query] =
                          IF counts THEN Fulfilled(@, {}, count)
                          ELSE [@ EXCEPT !.unsatisfied = {}]]
     /\ UNCHANGED <<db, objects, combinedFilter, fulfillTimestamp, page, changes,
                    failures, still>>

(* a request fails: the batch is given up, its other requests go on *)
Fail(b) ==
  /\ failures < MaxFailures
  /\ failures' = failures + 1
  /\ still' = FALSE
  /\ \/ /\ batches[b].pc = "fetching"
        /\ batches' = [batches EXCEPT ![b] = NoBatch]
     \/ \E k \in batches[b].asks :
          /\ batches[b].pc = "asked" /\ k.waits
          /\ batches' = [batches EXCEPT ![b].failed = TRUE, ![b].asks = @ \ {k}]
  /\ UNCHANGED <<db, objects, combinedFilter, fulfillTimestamp, queries, page, changes>>

(***************************************************************************)
(* The counts and bookmarks are all there: the objects are asked for that  *)
(* have not been since the time stamp, or the answers are made from what   *)
(* is held.                                                                *)
(***************************************************************************)
Wanted(k) == UpTo(Filter[k.query], k.bookmark)
Answers(asks, held) ==
  [q \in Queries |->
     IF \E k \in asks : k.live /\ k.query = q
     THEN LET k == CHOOSE k \in asks : k.live /\ k.query = q
          IN  Fulfilled(queries[q], FindMatches(held, Wanted(k), Limit[q]), 0)
     ELSE queries[q]]
Join(b) ==
  LET asks == batches[b].asks
      ud   == UnionDiff(combinedFilter, UNION {Wanted(k) : k \in asks})
  IN /\ batches[b].pc = "asked" /\ ~batches[b].failed
     /\ \A k \in asks : ~k.waits
     /\ IF ud[2] = {}
        THEN /\ queries' = Answers(asks, objects)
             /\ batches' = [batches EXCEPT ![b] = NoBatch]
             /\ UNCHANGED <<combinedFilter, still>>
        ELSE /\ combinedFilter' = ud[1]
             /\ batches' = [batches EXCEPT
                  ![b].pc = "fetching", ![b].diff = ud[2],
                  ![b].deleted = IF combinedFilter = {}
                                 THEN {i \in Ids : objects[i] # Null} ELSE {}]
             /\ still' = (still /\ (combinedFilter = {}
                                    \/ (RowsOf(objects) \cap ud[2]) \subseteq RowsOf(db)))
             /\ UNCHANGED queries
     /\ UNCHANGED <<db, objects, fulfillTimestamp, page, changes, failures>>

(* a batch that was given up ends when its last request has been answered *)
GiveUp(b) ==
  /\ batches[b].failed /\ \A k \in batches[b].asks : ~k.waits
  /\ batches' = [batches EXCEPT ![b] = NoBatch]
  /\ UNCHANGED <<db, objects, combinedFilter, fulfillTimestamp, queries, page, changes,
                 failures, still>>

(* the server reads the rows; they reach the browser later *)
Read(b) ==
  /\ batches[b].pc = "fetching"
  /\ batches' = [batches EXCEPT ![b].pc = "read",
                                ![b].rows = RowsOf(db) \cap batches[b].diff]
  /\ UNCHANGED <<db, objects, combinedFilter, fulfillTimestamp, queries, page, changes,
                 failures, still>>

DroppedNever(batch, held) == {}
(* objects that were held and did not come although they should have *)
Dropped(batch, held) ==
  {i \in batch.deleted \ {r[1] : r \in batch.rows} :
     \E s \in Says : held[i] = s /\ <<i, s>> \in batch.diff}
Arrive(b) ==
  LET batch == batches[b]
      held  == Keep(objects, batch.rows)
      gone  == Dropped(batch, held)
  IN /\ batch.pc = "read"
     /\ objects' = [i \in Ids |-> IF i \in gone THEN Null ELSE held[i]]
     /\ queries' = Answers(batch.asks, objects')
     /\ batches' = [batches EXCEPT ![b] = NoBatch]
     /\ UNCHANGED <<db, combinedFilter, fulfillTimestamp, page, changes, failures, still>>

Init ==
  /\ db \in [Ids -> Says \cup {Null}]
  /\ objects = [i \in Ids |-> Null]
  /\ combinedFilter = {}
  /\ fulfillTimestamp = 1
  /\ queries = [q \in Queries |-> Null]
  /\ page = {}
  /\ batches = [b \in 1..MaxBatches |-> NoBatch]
  /\ changes = 0 /\ failures = 0
  /\ still = TRUE

Request(b) ==
  \/ \E k \in batches[b].asks : Answer(b, k)
  \/ Join(b) \/ GiveUp(b) \/ Read(b) \/ Arrive(b)
Next ==
  \/ \E p \in Pages : Render(p)
  \/ SetTimestamp
  \/ \E i \in Ids : Change(i)
  \/ \E b \in Active : Request(b) \/ Fail(b)

(***************************************************************************)
(* Requests are answered or fail, and the page is drawn again after each   *)
(* of them.                                                                *)
(***************************************************************************)
Spec == Init /\ [][Next]_vars

(***************************************************************************)
(* What the page shows.  A query that says it is up to date shows exactly  *)
(* the rows, or the number of rows, that the collection has, the limit and *)
(* the pages fetched before taken into account (fetch, fulfill and         *)
(* paginate); as long as, since the time stamp, no request was made while  *)
(* another was under way, none failed, the collection did not change, and  *)
(* no deleted object is left from an older time stamp in rows asked for by *)
(* a second batch, which only the first batch clears.                      *)
(***************************************************************************)
Exact ==
  still => \A q \in page :
    queries[q].fulfilled = fulfillTimestamp =>
      IF q \in Counting THEN queries[q].count = Cardinality(RowsOf(db) \cap Filter[q])
      ELSE queries[q].value = FindMatches(db, Filter[q], Limit[q])

(***************************************************************************)
(* After a page is drawn, requests are sent for the queries that are not   *)
(* fulfilled: each has a batch that will answer it.  Does not hold: a      *)
(* batch that fails leaves the marks of its queries behind.                *)
(***************************************************************************)
Requested ==
  \A q \in page : queries[q].fulfilling =>
    \E b \in Active : \E k \in batches[b].asks : k.query = q /\ k.live
============================================================================
