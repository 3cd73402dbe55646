----------------------------- MODULE ListingProofs -----------------------------
(***************************************************************************)
(* Proof of how often a listing can repeat crons, for all crons, callers,  *)
(* page sizes and numbers of pages, whatever changes between the pages.    *)
(***************************************************************************)
EXTENDS CronListing, FiniteSetTheorems, TLAPS

LEMMA SelectedIsFinite ==
    ASSUME NEW caller
    PROVE  /\ Selected(caller) \subseteq Crons
           /\ IsFiniteSet(Selected(caller))
           /\ Cardinality(Selected(caller)) \in Nat
<1>1. Selected(caller) \subseteq Crons
  BY DEF Selected
<1> QED BY <1>1, ListingAssumption, FS_Subset, FS_CardinalityType

LEMMA LimitType ==
    ASSUME NEW size \in PageSizes \cup {0}
    PROVE  Limit(size) \in Nat \ {0}
BY ListingAssumption DEF Limit

\* No two rows share a place: between two offsets there are no more rows than
\* places.
LEMMA RowsBetween ==
    ASSUME NEW rows, IsFiniteSet(rows), NEW rank \in Rankings(rows),
           NEW some \in SUBSET rows, NEW first \in Int, NEW last \in Int,
           first <= last + 1,
           \A c \in some : rank[c] \in first .. last
    PROVE  Cardinality(some) <= last - first + 1
<1> DEFINE f == [c \in some |-> rank[c]]
<1>1. f \in [some -> first .. last]
  OBVIOUS
<1>2. \A c, d \in some : f[c] = f[d] => c = d
  BY DEF Rankings
<1>3. f \in Injection(some, first .. last)
  BY <1>1, <1>2 DEF Injection, IsInjective
<1>4. /\ IsFiniteSet(first .. last)
      /\ Cardinality(first .. last) = last - first + 1
  BY FS_Interval
<1> QED BY <1>3, <1>4, FS_Injection

\* A page has no more rows than stand from its offset on. If the first page is
\* short, it has all there are.
LEMMA PageRows ==
    ASSUME NEW rows, IsFiniteSet(rows), NEW rank \in Rankings(rows),
           NEW limit \in Nat \ {0}, NEW offset \in Nat,
           NEW page, page = Page(rows, rank, limit, offset)
    PROVE  /\ page \subseteq rows
           /\ IsFiniteSet(page)
           /\ Cardinality(page) \in Nat
           /\ Cardinality(rows) <= offset => page = {}
           /\ Cardinality(rows) > offset
              => Cardinality(page) <= Cardinality(rows) - offset
           /\ offset = 0 /\ Cardinality(page) < limit => Cardinality(rows) < limit
<1> DEFINE n == Cardinality(rows)
<1>1. n \in Nat
  BY FS_CardinalityType
<1>2. page \subseteq rows
  BY DEF Page
<1>3. IsFiniteSet(page) /\ Cardinality(page) \in Nat
  BY <1>2, FS_Subset, FS_CardinalityType
<1>4. \A c \in rows : rank[c] \in 0 .. n - 1
  BY DEF Rankings
<1>5. \A c \in page : offset <= rank[c] /\ rank[c] < offset + limit
  BY DEF Page
<1> HIDE DEF n
<1>6. n <= offset => page = {}
  BY <1>1, <1>2, <1>4, <1>5
<1>7. ASSUME n > offset
      PROVE  Cardinality(page) <= n - offset
  <2>1. \A c \in page : rank[c] \in offset .. n - 1
    BY <1>1, <1>2, <1>4, <1>5
  <2>2. Cardinality(page) <= (n - 1) - offset + 1
    BY <1>1, <1>2, <1>7, <2>1, RowsBetween
  <2> QED BY <1>1, <1>3, <2>2
<1>8. ASSUME offset = 0, n >= limit
      PROVE  Cardinality(page) >= limit
  <2>1. \A c \in rows \ page : rank[c] \in limit .. n - 1
    BY <1>1, <1>4, <1>8 DEF Page
  <2>2. Cardinality(rows \ page) <= (n - 1) - limit + 1
    BY <1>1, <1>8, <2>1, RowsBetween
  <2>3. Cardinality(rows \ page) = n - Cardinality(page)
    <3>1. rows \cap page = page
      BY <1>2
    <3>2. Cardinality(rows \ page) = Cardinality(rows) - Cardinality(rows \cap page)
      BY FS_Difference, Zenon
    <3> QED BY <3>1, <3>2 DEF n
  <2> QED BY <1>1, <1>3, <2>2, <2>3
<1> QED BY <1>1, <1>2, <1>3, <1>6, <1>7, <1>8 DEF n

-----------------------------------------------------------------------------
\* What one call of ListCrons tells, and what it leaves alone.
LEMMA CallResult ==
    ASSUME NEW before \in Listing, NEW caller \in Callers,
           NEW size \in PageSizes \cup {0}, NEW token \in Nat \cup {None},
           ListCrons(before, caller, size, token)
    PROVE  \E page \in SUBSET Selected(caller) :
              /\ UNCHANGED <<status, time>>
              /\ IsFiniteSet(page) /\ Cardinality(page) \in Nat
              /\ Cardinality(Selected(caller)) <= Offset(token) => page = {}
              /\ Cardinality(Selected(caller)) > Offset(token)
                 => Cardinality(page) <= Cardinality(Selected(caller)) - Offset(token)
              /\ Offset(token) = 0 /\ Cardinality(page) < Limit(size)
                 => Cardinality(Selected(caller)) < Limit(size)
              /\ listing' = WithPage(before, caller, size, page,
                                     NextPageToken(page, Limit(size), Offset(token)))
<1>1. PICK rank \in Rankings(Selected(caller)) :
         /\ listing' = WithPage(before, caller, size,
                          Page(Selected(caller), rank, Limit(size), Offset(token)),
                          NextPageToken(
                             Page(Selected(caller), rank, Limit(size), Offset(token)),
                             Limit(size), Offset(token)))
         /\ UNCHANGED <<status, time>>
  BY DEF ListCrons
<1>2. Offset(token) \in Nat
  BY ListingAssumption DEF Offset
<1> DEFINE page == Page(Selected(caller), rank, Limit(size), Offset(token))
<1>3. /\ page \subseteq Selected(caller)
      /\ IsFiniteSet(page) /\ Cardinality(page) \in Nat
      /\ Cardinality(Selected(caller)) <= Offset(token) => page = {}
      /\ Cardinality(Selected(caller)) > Offset(token)
         => Cardinality(page) <= Cardinality(Selected(caller)) - Offset(token)
      /\ Offset(token) = 0 /\ Cardinality(page) < Limit(size)
         => Cardinality(Selected(caller)) < Limit(size)
  BY <1>2, SelectedIsFinite, LimitType, PageRows
<1> HIDE DEF page
<1>4. listing' = WithPage(before, caller, size, page,
                          NextPageToken(page, Limit(size), Offset(token)))
  BY <1>1 DEF page
<1> QED BY <1>1, <1>3, <1>4

LEMMA NoListingType == NoListing \in Listing
BY DEF NoListing, Listing, Callers

LEMMA NextListingType ==
    ASSUME ListingTypeOK, [Next]_vars
    PROVE  ListingTypeOK'
<1> USE ListingAssumption DEF ListingTypeOK
<1>1. ASSUME NEW before \in Listing, NEW caller \in Callers,
             NEW size \in PageSizes \cup {0},
             NEW token \in Nat \cup {None}, ListCrons(before, caller, size, token)
      PROVE  ListingTypeOK'
  <2>1. PICK page \in SUBSET Selected(caller) :
           /\ UNCHANGED <<status, time>>
           /\ IsFiniteSet(page)
           /\ listing' = WithPage(before, caller, size, page,
                                  NextPageToken(page, Limit(size), Offset(token)))
    BY <1>1, CallResult
  <2>2. NextPageToken(page, Limit(size), Offset(token)) \in Nat \cup {None}
    BY LimitType DEF NextPageToken, Offset
  <2>3. page \in SUBSET Crons
    BY DEF Selected
  <2>4. Cardinality(page \cap before.returned) \in Nat
    BY <2>1, FS_Subset, FS_CardinalityType
  <2> DEFINE next == NextPageToken(page, Limit(size), Offset(token))
  <2>5. /\ (IF next = None THEN "ended" ELSE "more") \in {"idle", "more", "ended"}
        /\ before.pages + 1 \in Nat
        /\ before.returned \cup page \in SUBSET Crons
        /\ before.repeated + Cardinality(page \cap before.returned) \in Nat
    BY <2>3, <2>4 DEF Listing
  <2> HIDE DEF next
  <2>6. WithPage(before, caller, size, page, next) \in Listing
    BY <2>2, <2>5 DEF WithPage, Listing, next
  <2>7. listing' \in Listing
    BY <2>1, <2>6 DEF next
  <2> QED BY <2>1, <2>7
<1>2. ASSUME NEW caller \in Callers, NEW size \in PageSizes, FirstPage(caller, size)
      PROVE  ListingTypeOK'
  BY <1>1, <1>2, NoListingType DEF FirstPage
<1>3. CASE FollowToken
  <2>1. /\ listing.caller \in Callers /\ listing.size \in PageSizes \cup {0}
        /\ listing.token \in Nat \cup {None}
    BY DEF Listing
  <2>2. ListCrons(listing, listing.caller, listing.size, listing.token)
    BY <1>3 DEF FollowToken
  <2> QED BY <1>1, <2>1, <2>2
<1>4. ASSUME NEW c \in Crons, NEW t \in Times, Insert(c, t)
      PROVE  ListingTypeOK'
  <2>1. (IF Listed /\ Visible(c, listing.caller) THEN listing.inserted + 1
         ELSE listing.inserted) \in Nat
    BY DEF Listing
  <2>2. (listing.changed \/ Listed) \in BOOLEAN
    BY DEF Listing
  <2>3. listing' \in Listing
    BY <1>4, <2>1, <2>2 DEF Insert, Listing
  <2> QED BY <1>4, <2>3 DEF Insert
<1>5. ASSUME listing' = [listing EXCEPT !.changed = @ \/ Listed]
      PROVE  listing' \in Listing
  <2>1. (listing.changed \/ Listed) \in BOOLEAN
    BY DEF Listing
  <2> QED BY <1>5, <2>1 DEF Listing
<1>6. ASSUME NEW c \in Crons, NEW t \in Times, Retime(c, t)
      PROVE  ListingTypeOK'
  BY <1>5, <1>6 DEF Retime
<1>7. ASSUME NEW c \in Crons, Erase(c)
      PROVE  ListingTypeOK'
  BY <1>5, <1>7 DEF Erase
<1>8. CASE UNCHANGED vars
  BY <1>8 DEF vars
<1> QED BY <1>2, <1>3, <1>4, <1>6, <1>7, <1>8 DEF Next

-----------------------------------------------------------------------------
(***************************************************************************)
(* What stands beyond the token bounds what a page can repeat, and every   *)
(* repetition is taken off it.                                             *)
(***************************************************************************)

\* One more page.
LEMMA PageInv ==
    ASSUME NEW before \in Listing, NEW caller \in Callers,
           NEW size \in PageSizes \cup {0}, NEW token \in Nat \cup {None},
           ListCrons(before, caller, size, token),
           \/ token = None /\ before = NoListing
           \/ /\ token # None /\ (before.repeated # 0 => before.repeated < before.inserted)
              /\ Cardinality(Selected(caller)) + before.repeated
                    < token + before.inserted
    PROVE  TokenIsPastTheEnd' /\ RepeatsNeedInsertions'
<1> USE ListingAssumption
<1> DEFINE n      == Cardinality(Selected(caller))
           limit  == Limit(size)
           offset == Offset(token)
<1>1. PICK page \in SUBSET Selected(caller) :
         /\ UNCHANGED <<status, time>>
         /\ IsFiniteSet(page) /\ Cardinality(page) \in Nat
         /\ n <= offset => page = {}
         /\ n > offset => Cardinality(page) <= n - offset
         /\ offset = 0 /\ Cardinality(page) < limit => n < limit
         /\ listing' = WithPage(before, caller, size, page,
                                NextPageToken(page, limit, offset))
  BY CallResult
<1> DEFINE again == Cardinality(page \cap before.returned)
           size_ == Cardinality(page)
<1>2. n \in Nat /\ limit \in Nat \ {0} /\ offset \in Nat /\ size_ \in Nat
  BY <1>1, SelectedIsFinite, LimitType DEF Offset
<1>3. again \in Nat /\ again <= size_ /\ (page = {} => again = 0)
  BY <1>1, FS_Subset, FS_CardinalityType, FS_EmptySet
<1>4. before.repeated \in Nat /\ before.inserted \in Nat
  BY DEF Listing
<1>5. /\ listing'.caller = caller
      /\ listing'.repeated = before.repeated + again
      /\ listing'.inserted = before.inserted
      /\ listing'.pc = "more" => /\ size_ < limit
                                 /\ listing'.token = offset + limit
  BY <1>1, <1>2 DEF WithPage, NextPageToken, Listing
<1>6. Cardinality(Selected(listing.caller))' = n
  BY <1>1, <1>5 DEF Selected
<1>7. CASE token = None /\ before = NoListing
  <2>1. /\ offset = 0 /\ before.repeated = 0 /\ before.inserted = 0
        /\ page \cap before.returned = {}
    BY <1>7 DEF NoListing, Offset
  <2>2. again = 0
    BY <2>1, FS_EmptySet
  <2>3. listing'.pc = "more" => n < limit
    BY <1>1, <1>5, <2>1
  <2> HIDE DEF n, limit, offset, again, size_
  <2>4. TokenIsPastTheEnd'
    BY <1>2, <1>5, <1>6, <2>1, <2>2, <2>3 DEF TokenIsPastTheEnd
  <2>5. RepeatsNeedInsertions'
    BY <1>5, <2>1, <2>2 DEF RepeatsNeedInsertions
  <2> QED BY <2>4, <2>5
<1>8. CASE token # None
  <2>1. offset = token /\ n + before.repeated < offset + before.inserted
    BY <1>8 DEF Offset, NoListing
  <2>2. before.repeated # 0 => before.repeated < before.inserted
    BY <1>8
  <2>3. n > offset => size_ <= n - offset
    BY <1>1
  <2>4. n <= offset => again = 0
    BY <1>1, <1>3
  <2> HIDE DEF n, limit, offset, again, size_
  <2>5. TokenIsPastTheEnd'
    BY <1>2, <1>3, <1>4, <1>5, <1>6, <2>1 DEF TokenIsPastTheEnd
  <2>6. CASE n <= offset
    BY <1>4, <1>5, <2>2, <2>4, <2>5, <2>6 DEF RepeatsNeedInsertions
  <2>7. CASE n > offset
    BY <1>2, <1>3, <1>4, <1>5, <2>1, <2>3, <2>5, <2>7 DEF RepeatsNeedInsertions
  <2> QED BY <1>2, <2>6, <2>7
<1> QED BY <1>7, <1>8

\* A change of the table: rows come only by insertions, and the caller's are
\* counted.
LEMMA TableInv ==
    ASSUME ListingInv,
           listing'.pc = listing.pc, listing'.caller = listing.caller,
           listing'.token = listing.token, listing'.repeated = listing.repeated,
           listing.pc = "more"
           => /\ Cardinality(Selected(listing.caller))' \in Nat
              /\ Cardinality(Selected(listing.caller))'
                    <= Cardinality(Selected(listing.caller))
                       + (listing'.inserted - listing.inserted),
           listing'.inserted \in Nat, listing'.inserted >= listing.inserted
    PROVE  TokenIsPastTheEnd' /\ RepeatsNeedInsertions'
<1>1. listing.repeated \in Nat /\ listing.inserted \in Nat
  BY DEF ListingInv, ListingTypeOK, Listing
<1>2. RepeatsNeedInsertions'
  BY <1>1 DEF ListingInv, RepeatsNeedInsertions
<1>3. TokenIsPastTheEnd'
  <2>1. SUFFICES ASSUME listing.pc = "more"
                 PROVE  /\ listing.token # None
                        /\ Cardinality(Selected(listing.caller))' + listing.repeated
                              < listing.token + listing'.inserted
    BY DEF TokenIsPastTheEnd
  <2>2. /\ listing.token # None
        /\ Cardinality(Selected(listing.caller)) + listing.repeated
              < listing.token + listing.inserted
    BY <2>1 DEF ListingInv, TokenIsPastTheEnd
  <2>3. listing.token \in Nat
    BY <2>2 DEF ListingInv, ListingTypeOK, Listing
  <2>4. Cardinality(Selected(listing.caller)) \in Nat
    BY SelectedIsFinite
  <2> QED BY <1>1, <2>1, <2>2, <2>3, <2>4
<1> QED BY <1>2, <1>3

\* No row comes to a caller who selects none that it did not select before.
LEMMA FewerSelected ==
    ASSUME Selected(listing.caller)' \subseteq Selected(listing.caller)
    PROVE  /\ Cardinality(Selected(listing.caller))' \in Nat
           /\ Cardinality(Selected(listing.caller))'
                 <= Cardinality(Selected(listing.caller))
<1> DEFINE after == Selected(listing.caller)'
<1>1. IsFiniteSet(after)
  BY SelectedIsFinite, FS_Subset
<1> QED BY <1>1, SelectedIsFinite, FS_Subset, FS_CardinalityType

LEMMA NextListing ==
    ASSUME ListingInv, [Next]_vars
    PROVE  ListingInv'
<1> USE DEF ListingInv
<1>1. ListingTypeOK'
  BY NextListingType
<1>2. ASSUME NEW caller \in Callers, NEW size \in PageSizes, FirstPage(caller, size)
      PROVE  TokenIsPastTheEnd' /\ RepeatsNeedInsertions'
  BY <1>2, NoListingType, PageInv DEF FirstPage
<1>3. CASE FollowToken
  <2>1. /\ listing \in Listing /\ listing.caller \in Callers
        /\ listing.size \in PageSizes \cup {0} /\ listing.token \in Nat \cup {None}
    BY DEF ListingTypeOK, Listing
  <2>2. /\ ListCrons(listing, listing.caller, listing.size, listing.token)
        /\ listing.token # None
        /\ Cardinality(Selected(listing.caller)) + listing.repeated
              < listing.token + listing.inserted
        /\ listing.repeated # 0 => listing.repeated < listing.inserted
    BY <1>3 DEF FollowToken, TokenIsPastTheEnd, RepeatsNeedInsertions
  <2> QED BY <1>1, <2>1, <2>2, PageInv
<1>4. listing.inserted \in Nat
  BY DEF ListingTypeOK, Listing
<1>5. ASSUME NEW c \in Crons, NEW t \in Times, Insert(c, t)
      PROVE  TokenIsPastTheEnd' /\ RepeatsNeedInsertions'
  <2>1. /\ listing'.pc = listing.pc /\ listing'.caller = listing.caller
        /\ listing'.token = listing.token /\ listing'.repeated = listing.repeated
        /\ listing'.inserted = IF Listed /\ Visible(c, listing.caller)
                               THEN listing.inserted + 1 ELSE listing.inserted
    BY <1>5 DEF Insert, ListingTypeOK, Listing
  <2>2. Selected(listing.caller)'
        = IF Visible(c, listing.caller) THEN Selected(listing.caller) \cup {c}
          ELSE Selected(listing.caller)
    BY <1>5, <2>1 DEF Insert, Selected, Visible, ListingTypeOK
  <2>3. ASSUME listing.pc = "more"
        PROVE  /\ Cardinality(Selected(listing.caller))' \in Nat
               /\ Cardinality(Selected(listing.caller))'
                     <= Cardinality(Selected(listing.caller))
                        + (listing'.inserted - listing.inserted)
    <3>1. /\ IsFiniteSet(Selected(listing.caller))
          /\ Cardinality(Selected(listing.caller)) \in Nat
      BY SelectedIsFinite
    <3>2. CASE Visible(c, listing.caller)
      <4>1. listing'.inserted = listing.inserted + 1
        BY <2>1, <2>3, <3>2 DEF Listed
      <4>2. /\ Cardinality(Selected(listing.caller) \cup {c}) \in Nat
            /\ Cardinality(Selected(listing.caller) \cup {c})
                  <= Cardinality(Selected(listing.caller)) + 1
        BY <3>1, FS_AddElement
      <4> QED BY <1>4, <2>2, <3>2, <4>1, <4>2
    <3>3. CASE ~Visible(c, listing.caller)
      BY <1>4, <2>1, <2>2, <3>1, <3>3
    <3> QED BY <3>2, <3>3
  <2>4. listing'.inserted \in Nat /\ listing'.inserted >= listing.inserted
    BY <1>4, <2>1
  <2> QED BY <2>1, <2>3, <2>4, TableInv
<1>6. ASSUME listing' = [listing EXCEPT !.changed = @ \/ Listed],
             Selected(listing.caller)' \subseteq Selected(listing.caller)
      PROVE  TokenIsPastTheEnd' /\ RepeatsNeedInsertions'
  <2>1. /\ listing'.pc = listing.pc /\ listing'.caller = listing.caller
        /\ listing'.token = listing.token /\ listing'.repeated = listing.repeated
        /\ listing'.inserted = listing.inserted
    BY <1>6 DEF ListingTypeOK, Listing
  <2>2. /\ Cardinality(Selected(listing.caller))' \in Nat
        /\ Cardinality(Selected(listing.caller))'
              <= Cardinality(Selected(listing.caller))
    BY <1>6, FewerSelected
  <2>3. Cardinality(Selected(listing.caller)) \in Nat
    BY SelectedIsFinite
  <2> QED BY <1>4, <2>1, <2>2, <2>3, TableInv
<1>7. ASSUME NEW c \in Crons, NEW t \in Times, Retime(c, t)
      PROVE  TokenIsPastTheEnd' /\ RepeatsNeedInsertions'
  <2>1. listing'.caller = listing.caller
    BY <1>7 DEF Retime, ListingTypeOK, Listing
  <2>2. Selected(listing.caller)' = Selected(listing.caller)
    BY <1>7, <2>1 DEF Retime, Selected, Visible
  <2> QED BY <1>6, <1>7, <2>2 DEF Retime
<1>8. ASSUME NEW c \in Crons, Erase(c)
      PROVE  TokenIsPastTheEnd' /\ RepeatsNeedInsertions'
  <2>1. listing'.caller = listing.caller
    BY <1>8 DEF Erase, ListingTypeOK, Listing
  <2>2. Selected(listing.caller)' \subseteq Selected(listing.caller)
    BY <1>8, <2>1 DEF Erase, Selected, Visible, ListingTypeOK
  <2> QED BY <1>6, <1>8, <2>2 DEF Erase
<1>9. CASE UNCHANGED vars
  BY <1>1, <1>9 DEF vars, TokenIsPastTheEnd, RepeatsNeedInsertions, Selected
<1> QED BY <1>1, <1>2, <1>3, <1>5, <1>7, <1>8, <1>9 DEF Next

LEMMA InitListing == Init => ListingInv
<1> SUFFICES ASSUME Init
             PROVE  ListingInv
  OBVIOUS
<1>1. listing \in Listing /\ listing.pc = "idle" /\ listing.repeated = 0
  BY NoListingType DEF Init, NoListing
<1> QED
  BY <1>1 DEF Init, ListingInv, ListingTypeOK, TokenIsPastTheEnd, RepeatsNeedInsertions

(***************************************************************************)
(* The token of a page points past the end of the table as it was when the *)
(* page was read, and fewer rows stand beyond it later than were inserted  *)
(* since and have not been returned a second time.                         *)
(***************************************************************************)
THEOREM ListingInvariant == Spec => []ListingInv
BY InitListing, NextListing, PTL DEF Spec

(***************************************************************************)
(* A client that follows the page tokens of ListCrons is returned fewer    *)
(* crons a second time than were inserted since its first page, whatever   *)
(* else was deleted, updated or ordered anew meanwhile.                    *)
(***************************************************************************)
THEOREM RepeatsAreBounded == Spec => []RepeatsNeedInsertions
<1>1. ListingInv => RepeatsNeedInsertions
  BY DEF ListingInv
<1> QED BY <1>1, ListingInvariant, PTL
=============================================================================
