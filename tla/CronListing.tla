----------------------------- MODULE CronListing -----------------------------
(***************************************************************************)
(* ListCrons, called page after page by a client that follows the page     *)
(* tokens, while crons are created, updated and deleted. Each page is one  *)
(* query of its own, ordered by create_time with the newest cron first.    *)
(*                                                                         *)
(* create_time does not order the rows for good. It is taken from the      *)
(* clock of some instance before the insert, it can be that of another     *)
(* cron, and an UpdateCron whose mask names it sets it to anything. Rows   *)
(* that share it come in any order, and in another one with the next page. *)
(***************************************************************************)
EXTENDS Integers, FiniteSets

CONSTANTS
    Crons,       \* the crons that may be created
    Owner,       \* the member each cron's policy binds
    System,      \* the caller that sees every cron
    Times,       \* the values of create_time
    PageSizes,   \* the page sizes clients ask for
    MaxLimit,    \* the largest page: 100 in the code
    MaxPages,    \* bound on the pages of one listing
    None         \* the empty page token

Callers == {Owner[c] : c \in Crons} \cup {System}

ASSUME ListingAssumption ==
    /\ IsFiniteSet(Crons)            \* their ids are UUIDs
    /\ Times \subseteq Int
    /\ MaxLimit \in Nat \ {0}
    /\ PageSizes \subseteq Int
    /\ None \notin Int

VARIABLES
    status,      \* "unborn", "stored", "gone"
    time,        \* the create_time of each cron, once it is stored
    listing      \* the listing in progress, or the last one

vars == <<status, time, listing>>

\* returned has the crons of the pages so far, repeated counts those that came
\* again. inserted counts the insertions since the first page that the caller
\* can see, changed tells whether the table has changed at all since.
Listing == [pc       : {"idle", "more", "ended"},
            caller   : Callers,
            size     : PageSizes \cup {0},
            token    : Nat \cup {None},
            pages    : Nat,
            returned : SUBSET Crons,
            repeated : Nat,
            inserted : Nat,
            changed  : BOOLEAN]

NoListing == [pc |-> "idle", caller |-> System, size |-> 0, token |-> None,
              pages |-> 0, returned |-> {}, repeated |-> 0, inserted |-> 0,
              changed |-> FALSE]

ListingTypeOK ==
    /\ status \in [Crons -> {"unborn", "stored", "gone"}]
    /\ time \in [Crons -> Times]
    /\ listing \in Listing

Init ==
    /\ status = [c \in Crons |-> "unborn"]
    /\ time \in [Crons -> Times]
    /\ listing = NoListing

-----------------------------------------------------------------------------
\* The page size: out of range means the largest.
Limit(size) == IF size < 1 \/ size > MaxLimit THEN MaxLimit ELSE size

Offset(token) == IF token = None THEN 0 ELSE token

Visible(c, caller) == caller \in {Owner[c], System}

\* The rows the query selects for a caller.
Selected(caller) == {c \in Crons : status[c] = "stored" /\ Visible(c, caller)}

\* order by create_time DESC: the place of each row, in any order that fits.
Rankings(rows) ==
    {rank \in [rows -> 0 .. Cardinality(rows) - 1] :
        \A c, d \in rows :
            c # d => rank[c] # rank[d] /\ (time[c] > time[d] => rank[c] < rank[d])}

\* limit @limit offset @offset
Page(rows, rank, limit, offset) ==
    {c \in rows : offset <= rank[c] /\ rank[c] < offset + limit}

\* Mutant: the token repeats the offset of the page it came with.
NextPageTokenStuck(page, limit, offset) ==
    IF Cardinality(page) < limit THEN offset ELSE None

\* Mutant: the next page starts at the last place of this one.
NextPageTokenOverlaps(page, limit, offset) ==
    IF Cardinality(page) < limit THEN offset + limit - 1 ELSE None

NextPageToken(page, limit, offset) ==
    IF Cardinality(page) < limit THEN offset + limit ELSE None

\* The listing before, after one more page of it.
WithPage(before, caller, size, page, next) ==
    [before EXCEPT !.pc = IF next = None THEN "ended" ELSE "more",
                   !.caller = caller,
                   !.size = size,
                   !.token = next,
                   !.pages = @ + 1,
                   !.returned = @ \cup page,
                   !.repeated = @ + Cardinality(page \cap before.returned)]

\* One call of ListCrons.
ListCrons(before, caller, size, token) ==
    \E rank \in Rankings(Selected(caller)) :
        LET limit == Limit(size)
            page  == Page(Selected(caller), rank, limit, Offset(token))
            next  == NextPageToken(page, limit, Offset(token))
        IN  /\ listing' = WithPage(before, caller, size, page, next)
            /\ UNCHANGED <<status, time>>

FirstPage(caller, size) ==
    /\ listing.pc = "idle"
    /\ ListCrons(NoListing, caller, size, None)

FollowToken ==
    /\ listing.pc = "more"
    /\ listing.pages < MaxPages
    /\ ListCrons(listing, listing.caller, listing.size, listing.token)

-----------------------------------------------------------------------------
Listed == listing.pc # "idle"

\* CreateCron inserts a row, with a create_time of its own choosing.
Insert(c, t) ==
    /\ status[c] = "unborn"
    /\ status' = [status EXCEPT ![c] = "stored"]
    /\ time' = [time EXCEPT ![c] = t]
    /\ listing' =
         [listing EXCEPT
            !.inserted = IF Listed /\ Visible(c, listing.caller) THEN @ + 1 ELSE @,
            !.changed = @ \/ Listed]

\* UpdateCron with create_time in its mask.
Retime(c, t) ==
    /\ status[c] = "stored"
    /\ time' = [time EXCEPT ![c] = t]
    /\ listing' = [listing EXCEPT !.changed = @ \/ Listed]
    /\ UNCHANGED status

Erase(c) ==
    /\ status[c] = "stored"
    /\ status' = [status EXCEPT ![c] = "gone"]
    /\ listing' = [listing EXCEPT !.changed = @ \/ Listed]
    /\ UNCHANGED time

Next ==
    \/ \E caller \in Callers, size \in PageSizes : FirstPage(caller, size)
    \/ FollowToken
    \/ \E c \in Crons, t \in Times : Insert(c, t) \/ Retime(c, t)
    \/ \E c \in Crons : Erase(c)

Spec == Init /\ [][Next]_vars

-----------------------------------------------------------------------------
(***************************************************************************)
(* How far paging by offset can go wrong: a listing returns fewer crons a  *)
(* second time than were inserted since its first page, and none if none   *)
(* was. Deletions, updates of create_time and the changing order of rows   *)
(* that share it never make it repeat one.                                 *)
(***************************************************************************)
RepeatsNeedInsertions ==
    listing.repeated # 0 => listing.repeated < listing.inserted

(***************************************************************************)
(* Why: a token comes with a short page, so it points past the end of the  *)
(* table as it was then. What stands beyond it later is no more than was   *)
(* inserted since, less one for every cron that has come again already.    *)
(***************************************************************************)
TokenIsPastTheEnd ==
    listing.pc = "more"
    => /\ listing.token # None
       /\ Cardinality(Selected(listing.caller)) + listing.repeated
             < listing.token + listing.inserted

ListingInv == ListingTypeOK /\ TokenIsPastTheEnd /\ RepeatsNeedInsertions

(***************************************************************************)
(* spec.md: ListCrons returns "a paginated list of Crons", and its token   *)
(* is there "to retrieve the next page of results". A listing that has     *)
(* come to a page without a token, over a table that did not change, has   *)
(* returned every cron the caller may see.                                 *)
(***************************************************************************)
ListingIsComplete ==
    listing.pc = "ended" /\ ~listing.changed
    => Selected(listing.caller) \subseteq listing.returned
=============================================================================
