------------------------------ MODULE Listings ------------------------------
(***************************************************************************)
(* A client that reads a list page by page while others write to it:       *)
(*   newest   GET /tasks (every position is 0) and GET /workspaces, newest *)
(*            first                                                        *)
(*   members  GET /workspaces/:id/members, oldest first                    *)
(*   history  MessageRepository.FindByChannelID, newest first, below the   *)
(*            last message of the page before (no caller yet).             *)
(*                                                                         *)
(* The first two count the rows and then read one page, in two queries     *)
(* outside any transaction.  The order is by a time stamp that the server  *)
(* takes before the insertion commits, so rows may turn up in the middle   *)
(* of the order; rows of one stamp come in any order, query by query.      *)
(***************************************************************************)
EXTENDS Integers, FiniteSets

CONSTANTS Items,       \* the rows ever inserted, by id
          MaxClock,    \* bound: the time stamps are 0..MaxClock
          MaxSize,     \* the largest page a client may ask for (100)
          DefaultSize, \* the page size otherwise (20 or 50)
          NoStamp      \* the stamp of a row that has not been begun

ASSUME ListingAssumption ==
  /\ IsFiniteSet(Items) /\ MaxClock \in Nat /\ NoStamp \notin 0..MaxClock
  /\ MaxSize \in Nat \ {0} /\ DefaultSize \in 1..MaxSize

VARIABLES
  kind,    \* which list this is; it never changes
  clock,   \* the server's clock
  stamp,   \* stamp[i]: created_at or joined_at of row i
  rows,    \* the rows in the table
  walk     \* the client's walk through the pages

listVars == <<kind, clock, stamp, rows, walk>>

Kinds == {"newest", "members", "history"}
Stamps == 0..MaxClock

\* Row i comes before row j in every listing, or may come before it.
Before(i, j) == IF kind = "members" THEN stamp[i] < stamp[j] ELSE stamp[i] > stamp[j]
Ties == \E i, j \in rows : i # j /\ stamp[i] = stamp[j]

\* page, size and total are those of the last answer; got are the rows of all
\* answers and twice those that came in two.  For the properties: start are
\* the rows at the beginning, excuse what happened to the list meanwhile.
NoWalk == [pc |-> "idle", page |-> 1, asked |-> 0, total |-> 0, last |-> NoStamp,
           got |-> {}, twice |-> {}, start |-> {}, excuse |-> {}]
Walking == walk.pc \in {"count", "rows"}
Excuses == {"deleted", "raced", "shifted", "tied"}

\* The page size of the handler, for its meta, and of the service, for the
\* query: both replace what is out of range.
HandlerSize(n) == IF n \in 1..MaxSize THEN n ELSE DefaultSize

\* Mutant: the service falls back to a default of its own.
ServiceSize_Own(n) == IF n \in 1..MaxSize THEN n ELSE 1

ServiceSize(n) == IF n \in 1..MaxSize THEN n ELSE DefaultSize

\* Mutant: the page is not multiplied by its size.
Offset_Page(page, size) == page - 1

Offset(page, size) == (page - 1) * size

TotalPages(total, size) == (total + size - 1) \div size

\* The possible answers of a query for rows S with OFFSET o and LIMIT n: B
\* are the rows it skips.
Answers(S, o, n) ==
  {R \in SUBSET S : \E B \in SUBSET (S \ R) :
     /\ Cardinality(B) = IF o < Cardinality(S) THEN o ELSE Cardinality(S)
     /\ Cardinality(R) = IF n < Cardinality(S) - Cardinality(B)
                         THEN n ELSE Cardinality(S) - Cardinality(B)
     /\ \A i \in B, j \in S \ B : ~Before(j, i)
     /\ \A i \in R, j \in S \ (B \cup R) : ~Before(j, i)}

ListInit ==
  /\ kind \in Kinds
  /\ clock = 0
  /\ stamp = [i \in Items |-> NoStamp]
  /\ rows = {}
  /\ walk = NoWalk

Tick == /\ clock < MaxClock
        /\ clock' = clock + 1
        /\ UNCHANGED <<kind, stamp, rows, walk>>

\* Somebody creates row i (or a workspace that the client may be invited to
\* later): the server takes the time ...
Begin(i) == /\ stamp[i] = NoStamp
            /\ stamp' = [stamp EXCEPT ![i] = clock]
            /\ UNCHANGED <<kind, clock, rows, walk>>

\* What an insertion of row i means for a walk: it moves rows that the client
\* has to a later page, or changes the page between its two queries.
ExcuseOf(i) ==
  (IF \E j \in rows : stamp[j] = stamp[i] THEN {"tied"} ELSE {})
  \cup (IF \E j \in walk.got : Before(i, j) THEN {"shifted"} ELSE {})
  \cup (IF walk.pc = "rows" /\ \E j \in rows : Before(i, j) THEN {"raced"} ELSE {})

\* Mutant: a row is inserted before it is stamped.
Commit_NoStamp(i) ==
  /\ i \notin rows
  /\ rows' = rows \cup {i}
  /\ walk' = IF Walking THEN [walk EXCEPT !.excuse = @ \cup ExcuseOf(i)] ELSE walk
  /\ UNCHANGED <<kind, clock, stamp>>

\* ... and the insertion commits; or the client joins the workspace; or an
\* update that read row i before it was deleted writes it back (Save inserts
\* what is not there).
Commit(i) ==
  /\ stamp[i] # NoStamp /\ i \notin rows
  /\ rows' = rows \cup {i}
  /\ walk' = IF Walking THEN [walk EXCEPT !.excuse = @ \cup ExcuseOf(i)] ELSE walk
  /\ UNCHANGED <<kind, clock, stamp>>

\* A task or a workspace is deleted; members and messages are not.
Delete(i) ==
  /\ kind = "newest" /\ i \in rows
  /\ rows' = rows \ {i}
  /\ walk' = IF Walking THEN [walk EXCEPT !.excuse = @ \cup {"deleted"}] ELSE walk
  /\ UNCHANGED <<kind, clock, stamp>>

-----------------------------------------------------------------------------
\* The client asks for the first page of n rows; 0 stands for every number
\* out of range, and for none.
StartWalk(n) ==
  /\ walk.pc = "idle"
  /\ walk' = [NoWalk EXCEPT !.pc = IF kind = "history" THEN "rows" ELSE "count",
                            !.asked = n, !.start = rows,
                            !.excuse = IF Ties THEN {"tied"} ELSE {}]
  /\ UNCHANGED <<kind, clock, stamp, rows>>

\* The rows are counted.
Count ==
  /\ walk.pc = "count"
  /\ walk' = [walk EXCEPT !.pc = "rows", !.total = Cardinality(rows), !.excuse = @ \ {"raced"}]
  /\ UNCHANGED <<kind, clock, stamp, rows>>

\* The client has the rows R and goes on to the next page, or has finished.
GoOn(R, pc, last) ==
  walk' = [walk EXCEPT !.pc = pc, !.page = @ + 1, !.last = last,
                       !.got = @ \cup R, !.twice = @ \cup (walk.got \cap R)]
Finish(R) ==
  walk' = [NoWalk EXCEPT !.pc = "done", !.got = walk.got \cup R,
                         !.twice = walk.twice \cup (walk.got \cap R),
                         !.start = walk.start, !.excuse = walk.excuse]

\* The page is read; the client goes on while there are more pages.
PageRows ==
  /\ walk.pc = "rows" /\ kind # "history"
  /\ LET size == ServiceSize(walk.asked)
     IN  \E R \in Answers(rows, Offset(walk.page, size), size) :
           IF walk.page < TotalPages(walk.total, HandlerSize(walk.asked))
           THEN GoOn(R, "count", NoStamp) ELSE Finish(R)
  /\ UNCHANGED <<kind, clock, stamp, rows>>

\* The messages below the cursor.
Older(s) == {i \in rows : s = NoStamp \/ stamp[i] < s}

\* The next messages are read, the cursor being the last one of the page
\* before; a page that is not full is the last one.
NextMessages ==
  /\ walk.pc = "rows" /\ kind = "history"
  /\ \E R \in Answers(Older(walk.last), 0, HandlerSize(walk.asked)) :
       IF Cardinality(R) = HandlerSize(walk.asked)
       THEN \E i \in R : (\A j \in R : stamp[i] <= stamp[j]) /\ GoOn(R, "rows", stamp[i])
       ELSE Finish(R)
  /\ UNCHANGED <<kind, clock, stamp, rows>>

\* A request is refused or fails and the client gives up, or it has read all.
EndWalk ==
  /\ walk.pc # "idle"
  /\ walk' = NoWalk
  /\ UNCHANGED <<kind, clock, stamp, rows>>

ListNext ==
  \/ Tick \/ Count \/ PageRows \/ NextMessages \/ EndWalk
  \/ \E i \in Items : Begin(i) \/ Commit(i) \/ Delete(i)
  \/ \E n \in 0..MaxSize : StartWalk(n)

ListSpec == ListInit /\ [][ListNext]_listVars
-----------------------------------------------------------------------------
Walk == [pc : {"idle", "count", "rows", "done"}, page : Nat \ {0}, asked : 0..MaxSize,
         total : Nat, last : Stamps \cup {NoStamp}, got : SUBSET Items,
         twice : SUBSET Items, start : SUBSET Items, excuse : SUBSET Excuses]

ListTypeOK ==
  /\ kind \in Kinds /\ clock \in Stamps
  /\ stamp \in [Items -> 0..clock \cup {NoStamp}]
  /\ rows \subseteq {i \in Items : stamp[i] # NoStamp}
  /\ walk \in Walk
  /\ walk.twice \subseteq walk.got

\* Who reads all pages has seen every row that was there all the time, unless
\* a deletion moved a row to a page already read, an insertion came between
\* the two queries of the last page, or two rows had one stamp.
NoneMissed ==
  walk.pc = "done" =>
    walk.start \cap rows \subseteq walk.got \/ walk.excuse \cap {"deleted", "raced", "tied"} # {}

\* No row comes twice, unless an insertion before it moved it to the next
\* page or two rows had one stamp; a message never comes twice.
NoneTwice ==
  walk.twice = {} \/ (kind # "history" /\ walk.excuse \cap {"shifted", "tied"} # {})
=============================================================================
