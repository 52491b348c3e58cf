---------------------------- MODULE TaskListing ----------------------------
(***************************************************************************)
(* What clients read of the stored tasks and what retention takes away: a  *)
(* client walks the pages of ListTasks (task-list.ts over listTasks of     *)
(* in-memory.ts) while tasks are created, change state and are evicted by  *)
(* the retention sweep (retention.ts).  The clock is not trusted: a task   *)
(* may be stamped with any time.                                           *)
(***************************************************************************)
EXTENDS Integers, FiniteSets, SequencesExt

CONSTANTS
  Ids,         \* bound: ids of tasks, in their lexicographic order
  ContextOf,   \* the context of each
  Times,       \* bound: timestamps
  Filters,     \* filters a client may ask with
  PageSizes,   \* the page sizes it may ask for
  Caps,        \* retention caps: negative for none
  Unset        \* no filter, no cursor, no cap

ASSUME ListingConstants ==
  /\ Ids \subseteq Nat /\ Times \subseteq Nat /\ PageSizes \subseteq Nat \ {0}
  /\ Caps \subseteq Int \cup {Unset} /\ Unset \notin Times \X Ids

VARIABLES
  stock,  \* the stored tasks
  walk    \* the client's walk through the pages

listingVars == <<stock, walk>>

States == {"IN_PROGRESS", "COMPLETED", "FAILED"}
Unborn == [state |-> "unborn"]
Gone == [state |-> "gone"]

Present == {id \in Ids : stock[id].state \in States}

-----------------------------------------------------------------------------
(* listTasks and the pages of task-list.ts                                 *)

Key(id) == <<stock[id].created, id>>

(* Faulty variant: only the timestamp is compared with the cursor.         *)
compareTime(a, b) == a[1] < b[1]

compareKey(a, b) == a[1] < b[1] \/ (a[1] = b[1] /\ a[2] < b[2])

Matching(tasks, filter) ==
  {id \in Ids : /\ tasks[id].state \in States
                /\ filter.state \in {Unset, tasks[id].state}
                /\ filter.contextId \in {Unset, ContextOf[id]}}

(* By a time that each has, those of one time by their ids.                *)
SortedBy(time, ids) ==
  CHOOSE s \in SetToSeqs(ids) :
    \A i, j \in DOMAIN s :
      i < j => time[s[i]] < time[s[j]] \/ (time[s[i]] = time[s[j]] /\ s[i] < s[j])

listTasks(filter) ==
  LET matching == Matching(stock, filter)
  IN  SortedBy([id \in matching |-> stock[id].created], matching)

(* The first task strictly after the cursor, or past the end.              *)
findCursorStartIndex(all, cursor) ==
  IF cursor = Unset THEN 1
  ELSE LET after == {i \in DOMAIN all : compareKey(cursor, Key(all[i]))}
       IN  IF after = {} THEN Len(all) + 1 ELSE CHOOSE i \in after : \A j \in after : i <= j

(* Faulty variant: the next page starts at an offset, not at a key.        *)
PageByOffset ==
  /\ walk.phase = "open"
  /\ LET all == listTasks(walk.filter)
         start == Len(walk.got) + 1
         end == start + walk.pageSize - 1
         page == SubSeq(all, start, IF end < Len(all) THEN end ELSE Len(all))
     IN  walk' = [walk EXCEPT !.got = @ \o page,
                              !.phase = IF page # <<>> /\ end < Len(all) THEN "open" ELSE "done"]
  /\ UNCHANGED stock

(* One ListTasks request: a page, and the cursor of its last task while    *)
(* there are more.                                                         *)
Page ==
  /\ walk.phase = "open"
  /\ LET all == listTasks(walk.filter)
         start == findCursorStartIndex(all, walk.cursor)
         end == start + walk.pageSize - 1
         page == SubSeq(all, start, IF end < Len(all) THEN end ELSE Len(all))
     IN  walk' = IF page # <<>> /\ end < Len(all)
                 THEN [walk EXCEPT !.got = @ \o page, !.cursor = Key(Last(page))]
                 ELSE [walk EXCEPT !.got = @ \o page, !.phase = "done"]
  /\ UNCHANGED stock

(* A client begins a walk with a request of its own; `owed` is what the    *)
(* walk promises it.                                                       *)
BeginWalk(filter, pageSize) ==
  /\ walk.phase = "idle"
  /\ walk' = [phase |-> "open", filter |-> filter, pageSize |-> pageSize, cursor |-> Unset,
              got |-> <<>>, owed |-> Matching(stock, filter)]
  /\ UNCHANGED stock

-----------------------------------------------------------------------------
(* selectTasksForEviction                                                  *)

OldestFirst(ids) == SortedBy([id \in ids |-> stock[id].completed], ids)

(* Faulty variant: the newest tasks of the bucket go.                      *)
OverflowNewest(ids, cap) ==
  IF cap = Unset \/ cap < 0 \/ Cardinality(ids) <= cap THEN {}
  ELSE ToSet(SubSeq(Reverse(OldestFirst(ids)), 1, Cardinality(ids) - cap))

(* What a bucket has over its cap, from the oldest on.                     *)
Overflow(ids, cap) ==
  IF cap = Unset \/ cap < 0 \/ Cardinality(ids) <= cap THEN {}
  ELSE ToSet(SubSeq(OldestFirst(ids), 1, Cardinality(ids) - cap))

Bucket(states) == {id \in Ids : stock[id].state \in states}

selectTasksForEviction(completedCap, failedCap) ==
  Overflow(Bucket({"COMPLETED"}), completedCap) \cup Overflow(Bucket({"FAILED"}), failedCap)

-----------------------------------------------------------------------------
(* The tasks change under the walk.  A task stays owed while it matches; a *)
(* task that comes to match past the cursor is owed from then on.          *)
Owed(tasks) ==
  IF walk.phase # "open" THEN walk
  ELSE [walk EXCEPT !.owed =
          {id \in Matching(tasks, walk.filter) :
             \/ id \in @
             \/ /\ id \notin Matching(stock, walk.filter)
                /\ walk.cursor = Unset \/ compareKey(walk.cursor, <<tasks[id].created, id>>)}]

Changes(tasks) == stock' = tasks /\ walk' = Owed(tasks)

CreateTask(id, time) ==
  /\ stock[id] = Unborn
  /\ Changes([stock EXCEPT ![id] = [state |-> "IN_PROGRESS", created |-> time, completed |-> time]])

CompleteTask(id, state, time) ==
  /\ stock[id].state = "IN_PROGRESS"
  /\ Changes([stock EXCEPT ![id].state = state, ![id].completed = time])

Sweep(completedCap, failedCap) ==
  /\ selectTasksForEviction(completedCap, failedCap) # {}
  /\ Changes([id \in Ids |-> IF id \in selectTasksForEviction(completedCap, failedCap)
                             THEN Gone ELSE stock[id]])

ListingInit ==
  /\ stock = [id \in Ids |-> Unborn]
  /\ walk = [phase |-> "idle"]

ListingNext ==
  \/ \E id \in Ids, time \in Times :
       \/ CreateTask(id, time)
       \/ \E state \in States \ {"IN_PROGRESS"} : CompleteTask(id, state, time)
  \/ \E completedCap, failedCap \in Caps : Sweep(completedCap, failedCap)
  \/ \E filter \in Filters, pageSize \in PageSizes : BeginWalk(filter, pageSize)
  \/ Page

ListingSpec == ListingInit /\ [][ListingNext]_listingVars

-----------------------------------------------------------------------------
ListingTypeOK ==
  /\ \A id \in Ids : stock[id].state \in States \cup {"unborn", "gone"}
  /\ walk.phase \in {"idle", "open", "done"}

(* "Pagination is stable under concurrent inserts and deletes": whatever   *)
(* happens between the requests, no task is returned twice, and a finished *)
(* walk has returned every task that matched the filter all along or came  *)
(* to match past the cursor and has matched since (createTaskListHandler). *)
WalkComplete ==
  walk.phase # "idle" =>
    /\ Cardinality(ToSet(walk.got)) = Len(walk.got)
    /\ walk.phase = "done" => walk.owed \subseteq ToSet(walk.got)

Newer(a, b) ==
  stock[b].completed < stock[a].completed \/ (stock[a].completed = stock[b].completed /\ b < a)

(* Reference definition of the sweep: a task goes exactly when its bucket  *)
(* has a cap and at least that many tasks of the bucket completed after it *)
(* (selectTasksForEviction, for caps below, at and above the bucket, zero  *)
(* and negative ones).                                                     *)
EvictionExact ==
  \A completedCap, failedCap \in Caps :
    LET due(states, cap) ==
          {id \in Bucket(states) : /\ cap # Unset /\ cap >= 0
                                   /\ Cardinality({n \in Bucket(states) : Newer(n, id)}) >= cap}
    IN  selectTasksForEviction(completedCap, failedCap)
          = due({"COMPLETED"}, completedCap) \cup due({"FAILED"}, failedCap)
=============================================================================
