-------------------------- MODULE MailServiceProofs --------------------------
(***************************************************************************)
(* Proofs about what MailService does with a folder and its messages.      *)
(* About Paging: for any folder, any page size, any limit and any changes  *)
(* of the folder during the walk.  About Messages, whose specification is  *)
(* Conversion: for any UIDs asked for and any number of parts.             *)
(***************************************************************************)
EXTENDS Paging, Messages, FiniteSetTheorems, WellFoundedInduction, TLAPS

-----------------------------------------------------------------------------
(* Counting.                                                               *)

LEMMA WalkNumbers ==
    ASSUME TypeOK
    PROVE  /\ arrived \in Nat /\ offset \in Nat /\ items \in Nat /\ count \in Nat
           /\ PageSize \in Nat /\ PageSize > 0 /\ InitialMail \in Nat /\ InitialMail <= arrived
           /\ Reach \in Nat /\ Reach <= arrived
BY PagingAssumption DEF TypeOK, Reach

LEMMA MailFinite ==
    ASSUME TypeOK, NEW S \in SUBSET (1 .. arrived)
    PROVE  IsFiniteSet(S) /\ Cardinality(S) \in Nat /\ Cardinality(S) <= arrived
<1>1. IsFiniteSet(1 .. arrived) /\ Cardinality(1 .. arrived) = arrived
  BY WalkNumbers, FS_Interval
<1> QED
  BY <1>1, FS_Subset, FS_CardinalityType

LEMMA PlacesBetween ==
    ASSUME NEW a \in Nat, NEW b \in Nat, a <= b
    PROVE  IsFiniteSet(a .. (b - 1)) /\ Cardinality(a .. (b - 1)) = b - a
<1>1. a \in Int /\ b - 1 \in Int
  OBVIOUS
<1>2. /\ IsFiniteSet(a .. (b - 1))
      /\ Cardinality(a .. (b - 1)) = IF a > b - 1 THEN 0 ELSE (b - 1) - a + 1
  BY <1>1, FS_Interval
<1>3. (IF a > b - 1 THEN 0 ELSE (b - 1) - a + 1) = b - a
  OBVIOUS
<1> QED
  BY <1>2, <1>3

(* A set that gains at most what one set of at most one element holds.     *)
LEMMA OneMore ==
    ASSUME NEW S, IsFiniteSet(S), NEW E, IsFiniteSet(E), Cardinality(E) <= 1,
           NEW T \in SUBSET (S \cup E)
    PROVE  IsFiniteSet(T) /\ Cardinality(T) <= Cardinality(S) + 1
<1>1. /\ IsFiniteSet(S \cup E)
      /\ Cardinality(S \cup E) = Cardinality(S) + Cardinality(E) - Cardinality(S \cap E)
  BY FS_Union
<1>2. /\ Cardinality(S) \in Nat /\ Cardinality(E) \in Nat /\ Cardinality(S \cap E) \in Nat
      /\ Cardinality(S \cup E) \in Nat
  BY <1>1, FS_CardinalityType, FS_Intersection
<1>3. IsFiniteSet(T) /\ Cardinality(T) <= Cardinality(S \cup E) /\ Cardinality(T) \in Nat
  BY <1>1, FS_Subset, FS_CardinalityType
<1> QED
  BY <1>1, <1>2, <1>3

-----------------------------------------------------------------------------
(* The listing: every message has a place, and every place a message.      *)

LEMMA PlaceType ==
    ASSUME TypeOK, NEW m \in folder
    PROVE  Place(m) \in Nat /\ Place(m) < Cardinality(folder)
<1>1. IsFiniteSet(folder) /\ Cardinality(folder) \in Nat
  BY MailFinite DEF TypeOK
<1>2. {n \in folder : m < n} \in SUBSET (folder \ {m})
  BY DEF TypeOK
<1>3. IsFiniteSet(folder \ {m}) /\ Cardinality(folder \ {m}) = Cardinality(folder) - 1
  BY <1>1, FS_RemoveElement
<1> QED
  BY <1>1, <1>2, <1>3, FS_Subset, FS_CardinalityType DEF Place

LEMMA PlaceOrder ==
    ASSUME TypeOK, NEW m \in folder, NEW n \in folder, m < n
    PROVE  Place(n) < Place(m)
<1> DEFINE Newer == {k \in folder : n < k}
<1>1. IsFiniteSet(folder) /\ folder \subseteq Nat
  BY MailFinite DEF TypeOK
<1>2. Newer \in SUBSET folder /\ n \notin Newer
  BY <1>1
<1>3. IsFiniteSet(Newer) /\ Cardinality(Newer) \in Nat
  BY <1>1, <1>2, FS_Subset, FS_CardinalityType
<1>4. Cardinality(Newer \cup {n}) = Cardinality(Newer) + 1
  BY <1>2, <1>3, FS_AddElement
<1>5. Newer \cup {n} \in SUBSET {k \in folder : m < k}
  <2>1. \A k \in folder : n < k => m < k
    BY <1>1
  <2> QED
    BY <2>1
<1>6. {k \in folder : m < k} \in SUBSET folder
  OBVIOUS
<1>7. IsFiniteSet({k \in folder : m < k})
  BY <1>1, <1>6, FS_Subset
<1>8. Cardinality(Newer \cup {n}) <= Cardinality({k \in folder : m < k})
  BY <1>5, <1>7, FS_Subset
<1>9. Place(n) = Cardinality(Newer) /\ Place(m) \in Nat
  BY PlaceType DEF Place
<1> QED
  BY <1>3, <1>4, <1>8, <1>9 DEF Place

LEMMA PlaceUnique ==
    ASSUME TypeOK, NEW m \in folder, NEW n \in folder, Place(m) = Place(n)
    PROVE  m = n
<1>1. m \in Nat /\ n \in Nat /\ Place(m) \in Nat /\ Place(n) \in Nat
  BY PlaceType DEF TypeOK
<1>2. m < n \/ n < m \/ m = n
  BY <1>1
<1> QED
  BY <1>1, <1>2, PlaceOrder

(* A window of the listing holds no more messages than places.             *)
LEMMA WindowBound ==
    ASSUME TypeOK, NEW a \in Nat, NEW b \in Nat, a <= b,
           NEW S \in SUBSET folder, \A m \in S : a <= Place(m) /\ Place(m) < b
    PROVE  IsFiniteSet(S) /\ Cardinality(S) <= b - a
<1> DEFINE f == [m \in S |-> Place(m)]
<1>1. \A m \in S : Place(m) \in Nat
  BY PlaceType
<1>2. f \in [S -> a .. (b - 1)]
  BY <1>1
<1>3. f \in Injection(S, a .. (b - 1))
  BY <1>2, PlaceUnique DEF Injection, IsInjective
<1>4. IsFiniteSet(a .. (b - 1)) /\ Cardinality(a .. (b - 1)) = b - a
  BY PlacesBetween
<1>5. IsFiniteSet(S) /\ Cardinality(S) <= Cardinality(a .. (b - 1))
  BY <1>3, <1>4, FS_Injection
<1> QED
  BY <1>4, <1>5

LEMMA OnePerPlace ==
    ASSUME TypeOK, NEW k \in Int, NEW S \in SUBSET folder, \A m \in S : Place(m) = k
    PROVE  IsFiniteSet(S) /\ Cardinality(S) <= 1
<1>1. CASE S = {}
  BY <1>1, FS_EmptySet
<1>2. CASE S # {}
  <2>1. PICK m \in S : TRUE
    BY <1>2
  <2>2. S = {m}
    BY <2>1, PlaceUnique
  <2> QED
    BY <2>2, FS_Singleton
<1> QED
  BY <1>1, <1>2

(* Places are distinct and fewer than the messages: none is left out.      *)
LEMMA PlaceTaken ==
    ASSUME TypeOK, NEW k \in Nat, k < Cardinality(folder)
    PROVE  \E m \in folder : Place(m) = k
<1> DEFINE N == Cardinality(folder)
           f == [m \in folder |-> Place(m)]
<1>1. IsFiniteSet(folder) /\ N \in Nat
  BY MailFinite DEF TypeOK
<1>2. f \in [folder -> 0 .. (N - 1)]
  BY <1>1, PlaceType
<1>3. f \in Injection(folder, 0 .. (N - 1))
  BY <1>2, PlaceUnique DEF Injection, IsInjective
<1>4. IsFiniteSet(0 .. (N - 1)) /\ Cardinality(0 .. (N - 1)) = N
  BY <1>1, PlacesBetween
<1>5. f \in Surjection(folder, 0 .. (N - 1))
  BY <1>3, <1>4, FS_Injection
<1>6. k \in 0 .. (N - 1)
  BY <1>1
<1> QED
  BY <1>5, <1>6 DEF Surjection

(* A message this far down the listing proves that many rows before it.    *)
LEMMA RowsBefore ==
    ASSUME TypeOK, NEW k \in Nat, k < PageSize, NEW m \in folder, offset + k <= Place(m)
    PROVE  k + 1 <= Cardinality(Rows)
<1> DEFINE P == offset .. (offset + k)
           f == [p \in P |-> CHOOSE n \in folder : Place(n) = p]
<1>1. offset \in Nat /\ PageSize \in Nat /\ Place(m) \in Nat /\ Place(m) < Cardinality(folder)
  BY WalkNumbers, PlaceType
<1>2. IsFiniteSet(folder) /\ Cardinality(folder) \in Nat
  BY MailFinite DEF TypeOK
<1>3. ASSUME NEW p \in P
      PROVE  f[p] \in folder /\ Place(f[p]) = p
  <2>1. p \in Nat /\ p < Cardinality(folder)
    BY <1>1, <1>2
  <2>2. \E n \in folder : Place(n) = p
    BY <2>1, PlaceTaken
  <2> QED
    BY <2>2
<1>4. \A p \in P : f[p] \in Rows
  BY <1>1, <1>3 DEF Rows
<1>5. f \in Injection(P, Rows)
  <2>1. f \in [P -> Rows]
    BY <1>4
  <2>2. \A p, q \in P : f[p] = f[q] => p = q
    BY <1>3
  <2> QED
    BY <2>1, <2>2 DEF Injection, IsInjective
<1>6. Rows \in SUBSET folder
  BY DEF Rows
<1>7. IsFiniteSet(Rows)
  BY <1>2, <1>6, FS_Subset
<1>8. IsFiniteSet(P) /\ Cardinality(P) = k + 1
  BY <1>1, FS_Interval
<1>9. Cardinality(P) <= Cardinality(Rows)
  BY <1>5, <1>7, FS_Injection
<1> QED
  BY <1>8, <1>9

(* A page is the part of the listing from its offset on, and a page that is*)
(* not full reaches the end.                                               *)
LEMMA PageOfListing ==
    ASSUME TypeOK
    PROVE  LET c == Cardinality(Rows) IN
             /\ IsFiniteSet(Rows) /\ c \in Nat /\ c <= PageSize
             /\ Rows = {m \in folder : offset <= Place(m) /\ Place(m) < offset + c}
             /\ c < PageSize => \A m \in folder : Place(m) < offset + c
             /\ Rows # {} => offset + c <= arrived
<1> DEFINE c == Cardinality(Rows)
<1>1. offset \in Nat /\ PageSize \in Nat /\ PageSize > 0 /\ arrived \in Nat
  BY WalkNumbers
<1>2. Rows \in SUBSET folder /\ \A m \in folder : Place(m) \in Nat
  BY PlaceType DEF Rows
<1>3. IsFiniteSet(Rows) /\ c <= PageSize
  <2>1. \A m \in Rows : offset <= Place(m) /\ Place(m) < offset + PageSize
    BY DEF Rows
  <2>2. IsFiniteSet(Rows) /\ c <= (offset + PageSize) - offset
    BY <1>1, <1>2, <2>1, WindowBound
  <2> QED
    BY <1>1, <2>2
<1>4. c \in Nat
  BY <1>3, FS_CardinalityType
<1>5. ASSUME NEW m \in Rows
      PROVE  Place(m) < offset + c
  <2> DEFINE k == Place(m) - offset
  <2>1. m \in folder /\ offset <= Place(m) /\ Place(m) < offset + PageSize /\ Place(m) \in Nat
    BY <1>2 DEF Rows
  <2>2. k \in Nat /\ k < PageSize /\ offset + k <= Place(m)
    BY <1>1, <2>1
  <2>3. k + 1 <= c
    BY <2>1, <2>2, RowsBefore
  <2> QED
    BY <1>1, <1>4, <2>1, <2>3
<1>6. ASSUME NEW m \in folder, c < PageSize
      PROVE  Place(m) < offset + c
  <2>1. Place(m) \in Nat
    BY <1>2
  <2>2. SUFFICES ASSUME offset + c <= Place(m) PROVE FALSE
    BY <1>1, <1>4, <2>1
  <2>3. c + 1 <= c
    BY <1>4, <1>6, <2>2, RowsBefore
  <2> QED
    BY <1>4, <2>3
<1>7. Rows = {m \in folder : offset <= Place(m) /\ Place(m) < offset + c}
  <2>1. ASSUME NEW m \in folder, offset <= Place(m), Place(m) < offset + c
        PROVE  Place(m) < offset + PageSize
    BY <1>1, <1>2, <1>3, <1>4, <2>1
  <2> QED
    BY <1>5, <2>1 DEF Rows
<1>8. ASSUME Rows # {}
      PROVE  offset + c <= arrived
  <2>1. PICK m \in Rows : TRUE
    BY <1>8
  <2>2. Cardinality(folder) \in Nat /\ Cardinality(folder) <= arrived
    BY MailFinite DEF TypeOK
  <2>3. \A n \in Rows : offset <= Place(n) /\ Place(n) < Cardinality(folder)
    BY <1>2, PlaceType DEF Rows
  <2>4. offset <= Cardinality(folder)
    BY <1>1, <1>2, <2>1, <2>2, <2>3
  <2>5. c <= Cardinality(folder) - offset
    BY <1>1, <1>2, <2>2, <2>3, <2>4, WindowBound
  <2> QED
    BY <1>1, <1>4, <2>2, <2>5
<1> QED
  BY <1>3, <1>4, <1>6, <1>7, <1>8

-----------------------------------------------------------------------------
(* Types.                                                                  *)

LEMMA InitType == Init => TypeOK
BY PagingAssumption DEF Init, TypeOK, Reach

LEMMA NextType == TypeOK /\ [Next]_vars => TypeOK'
<1> SUFFICES ASSUME TypeOK, [Next]_vars PROVE TypeOK'
  OBVIOUS
<1> USE PagingAssumption DEF TypeOK, Reach, walk
<1>1. CASE Arrive
  BY <1>1 DEF Arrive
<1>2. CASE Expunge
  BY <1>2 DEF Expunge
<1>3. CASE List
  <2>1. /\ Cardinality(Rows) \in 0 .. PageSize
        /\ Rows # {} => offset + Cardinality(Rows) <= arrived
    BY WalkNumbers, PageOfListing
  <2>2. Rows \subseteq 1 .. arrived
    BY DEF Rows
  <2> QED
    BY <1>3, <2>1, <2>2 DEF List
<1>4. CASE LimitReached
  BY <1>4, WalkNumbers DEF LimitReached
<1>5. CASE YieldItem
  BY <1>5 DEF YieldItem, AtLimit
<1>6. CASE EndPage
  BY <1>6, WalkNumbers DEF EndPage, Advance
<1>7. CASE UNCHANGED vars
  BY <1>7 DEF vars
<1> QED
  BY <1>1, <1>2, <1>3, <1>4, <1>5, <1>6, <1>7 DEF Next, Generator

(* Every state of the walk is well typed: it never yields more than its    *)
(* limit, and never asks for a page past all mail that ever arrived.       *)
THEOREM WalkTyped == Spec => []TypeOK
BY InitType, NextType, PTL DEF Spec

-----------------------------------------------------------------------------
(* What a walk has missed so far and what it will meet again.              *)

(* Behind the walk without having been on a page.                          *)
Missed == {m \in there \ (yielded \cup page) : Place(m) < Reach}

(* Ahead of the walk although a page had it.                               *)
Ahead == {m \in folder \cap (yielded \cup page) : Reach <= Place(m)}

Expunged == arrived - Cardinality(folder)

(* Each message missed was pulled past the walk by an expunge.             *)
MissedBounded == pc # "done" => Cardinality(Missed) <= Expunged

(* A page that is not full leaves nothing out but what was missed.         *)
LastPage ==
    (pc = "item" /\ items < PageSize) =>
        Cardinality(there \ (yielded \cup page)) <= Expunged

(* Each repetition made and each one to come was pushed ahead by an        *)
(* arrival.                                                                *)
AheadBounded ==
    pc # "done" =>
        count + Cardinality(page \cap yielded) + Cardinality(Ahead)
            <= Cardinality(yielded) + (arrived - InitialMail)

WalkInv ==
    /\ pc = "list" => page = {}
    /\ MissedBounded
    /\ LastPage
    /\ AheadBounded
    /\ WalkBounded

(* The sets that are counted are finite. *)
LEMMA Counts ==
    ASSUME TypeOK
    PROVE  /\ IsFiniteSet(folder) /\ Cardinality(folder) \in Nat
           /\ IsFiniteSet(yielded) /\ Cardinality(yielded) \in Nat
           /\ IsFiniteSet(Missed) /\ Cardinality(Missed) \in Nat
           /\ IsFiniteSet(Ahead) /\ Cardinality(Ahead) \in Nat
           /\ IsFiniteSet(page \cap yielded) /\ Cardinality(page \cap yielded) \in Nat
           /\ IsFiniteSet(there \ (yielded \cup page))
           /\ Cardinality(there \ (yielded \cup page)) \in Nat
           /\ IsFiniteSet(there \ yielded) /\ Cardinality(there \ yielded) \in Nat
           /\ Expunged \in Nat
<1> DEFINE All == 1 .. arrived
<1>1. /\ folder \in SUBSET All /\ yielded \in SUBSET All /\ Missed \in SUBSET All
      /\ Ahead \in SUBSET All /\ page \cap yielded \in SUBSET All
      /\ there \ (yielded \cup page) \in SUBSET All /\ there \ yielded \in SUBSET All
  BY DEF TypeOK, Missed, Ahead
<1>2. Cardinality(folder) \in Nat /\ Cardinality(folder) <= arrived /\ arrived \in Nat
  BY <1>1, MailFinite, WalkNumbers
<1>3. Expunged \in Nat
  BY <1>2 DEF Expunged
<1> HIDE DEF All
<1> QED
  BY <1>1, <1>3, MailFinite DEF All

LEMMA InitWalk == Init => WalkInv
<1> SUFFICES ASSUME Init PROVE WalkInv
  OBVIOUS
<1>1. InitialMail \in Nat /\ Cardinality(1 .. InitialMail) = InitialMail
  BY PagingAssumption, FS_Interval
<1>2. TypeOK
  BY InitType
<1>3. Missed = {} /\ Ahead = {} /\ page \cap yielded = {} /\ yielded = {}
  <2>1. \A m \in folder : Place(m) \in Nat
    BY <1>2, PlaceType
  <2> QED
    BY <2>1 DEF Init, Missed, Ahead, Reach
<1>4. Expunged = 0
  BY <1>1 DEF Init, Expunged
<1> QED
  BY <1>1, <1>3, <1>4, FS_EmptySet
     DEF Init, WalkInv, MissedBounded, LastPage, AheadBounded, WalkBounded, SkipsBounded,
         RepeatsBounded

(* New mail moves every message one place down the listing. *)
LEMMA ArrivePlaces ==
    ASSUME TypeOK, Arrive
    PROVE  /\ arrived' = arrived + 1 /\ arrived' \notin folder
           /\ arrived' \notin yielded \cup page
           /\ Cardinality(folder') = Cardinality(folder) + 1
           /\ \A m \in folder : Place(m)' = Place(m) + 1
<1>1. /\ arrived' = arrived + 1 /\ arrived \in Nat /\ folder' = folder \cup {arrived'}
      /\ arrived' \notin folder /\ arrived' \notin yielded \cup page
  BY WalkNumbers DEF Arrive, TypeOK
<1>2. Cardinality(folder') = Cardinality(folder) + 1
  BY <1>1, Counts, FS_AddElement
<1>3. ASSUME NEW m \in folder
      PROVE  Place(m)' = Place(m) + 1
  <2> DEFINE Newer == {n \in folder : m < n}
  <2>1. m < arrived' /\ Newer \in SUBSET folder /\ arrived' \notin Newer
    BY <1>1 DEF TypeOK
  <2>2. {n \in folder' : m < n} = Newer \cup {arrived'}
    BY <1>1, <2>1
  <2>3. IsFiniteSet(Newer)
    BY <2>1, Counts, FS_Subset
  <2>4. Cardinality(Newer \cup {arrived'}) = Cardinality(Newer) + 1
    BY <2>1, <2>3, FS_AddElement
  <2> QED
    BY <2>2, <2>4 DEF Place
<1> QED
  BY <1>1, <1>2, <1>3

(* An expunge moves the older messages one place up. *)
LEMMA ExpungePlaces ==
    ASSUME TypeOK, NEW e \in folder, folder' = folder \ {e}
    PROVE  /\ Cardinality(folder') = Cardinality(folder) - 1
           /\ \A m \in folder' : Place(m)' \in {Place(m), Place(m) - 1}
<1>1. Cardinality(folder') = Cardinality(folder) - 1
  BY Counts, FS_RemoveElement
<1>2. ASSUME NEW m \in folder'
      PROVE  Place(m)' \in {Place(m), Place(m) - 1}
  <2> DEFINE Newer == {n \in folder : m < n}
  <2>1. {n \in folder' : m < n} = Newer \ {e} /\ Newer \in SUBSET folder
    OBVIOUS
  <2>2. IsFiniteSet(Newer)
    BY <2>1, Counts, FS_Subset
  <2>3. Cardinality(Newer \ {e}) \in {Cardinality(Newer), Cardinality(Newer) - 1}
    BY <2>2, FS_RemoveElement
  <2> QED
    BY <2>1, <2>3 DEF Place
<1> QED
  BY <1>1, <1>2

LEMMA ArriveWalk ==
    ASSUME TypeOK, TypeOK', WalkInv, Arrive
    PROVE  WalkInv'
<1> DEFINE Edge == {m \in folder : Place(m) = Reach - 1}
<1>1. UNCHANGED <<there, limit, offset, items, page, count, yielded, pc>> /\ Reach' = Reach
  BY DEF Arrive, walk, Reach
<1>2. Expunged' = Expunged
  BY ArrivePlaces, Counts, WalkNumbers DEF Expunged
<1>3. \A m \in folder : Place(m) \in Nat /\ Place(m)' = Place(m) + 1
  BY PlaceType, ArrivePlaces
<1>4. Missed' \in SUBSET Missed
  <2>1. there \subseteq folder /\ Reach \in Nat
    BY WalkNumbers DEF TypeOK
  <2>2. ASSUME NEW m \in folder, Place(m)' < Reach
        PROVE  Place(m) < Reach
    BY <1>3, <2>1, <2>2
  <2> QED
    BY <1>1, <2>1, <2>2 DEF Missed
<1>5. Cardinality(Missed') <= Cardinality(Missed)
  BY <1>4, Counts, FS_Subset
<1>6. Ahead' \in SUBSET (Ahead \cup Edge)
  <2>1. ASSUME NEW m \in folder, Reach <= Place(m)'
        PROVE  Reach <= Place(m) \/ Place(m) = Reach - 1
    BY <1>3, <2>1, WalkNumbers
  <2>2. folder' \cap (yielded \cup page) = folder \cap (yielded \cup page)
    BY ArrivePlaces DEF Arrive
  <2> QED
    BY <1>1, <2>1, <2>2 DEF Ahead
<1>7. IsFiniteSet(Edge) /\ Cardinality(Edge) <= 1
  <2>1. Reach - 1 \in Int /\ Edge \in SUBSET folder
    BY WalkNumbers
  <2> QED
    BY <2>1, OnePerPlace
<1>8. Cardinality(Ahead') <= Cardinality(Ahead) + 1 /\ Cardinality(Ahead') \in Nat
  BY <1>6, <1>7, Counts, OneMore, FS_CardinalityType
<1>9. arrived' = arrived + 1
  BY ArrivePlaces
<1>10. MissedBounded'
  <2>1. Cardinality(Missed') \in Nat
    BY <1>4, Counts, FS_Subset, FS_CardinalityType
  <2> QED
    BY <1>1, <1>2, <1>5, <2>1, Counts DEF WalkInv, MissedBounded
<1>11. LastPage' /\ SkipsBounded'
  BY <1>1, <1>2 DEF WalkInv, LastPage, WalkBounded, SkipsBounded, AtLimit, Expunged
<1>12. AheadBounded' /\ RepeatsBounded'
  BY <1>1, <1>8, <1>9, Counts, WalkNumbers DEF WalkInv, AheadBounded, WalkBounded, RepeatsBounded
<1> QED
  BY <1>1, <1>10, <1>11, <1>12 DEF WalkInv, WalkBounded

LEMMA ExpungeWalk ==
    ASSUME TypeOK, TypeOK', WalkInv, Expunge
    PROVE  WalkInv'
<1> DEFINE Edge == {m \in folder : Place(m) = Reach}
<1>1. /\ UNCHANGED <<arrived, limit, offset, items, page, count, yielded, pc>>
      /\ Reach' = Reach
  BY DEF Expunge, walk, Reach
<1>2. PICK e \in folder : folder' = folder \ {e} /\ there' = there \ {e}
  BY DEF Expunge
<1>3. Expunged' = Expunged + 1
  <2>1. Cardinality(folder') = Cardinality(folder) - 1
    BY <1>2, ExpungePlaces
  <2>2. Cardinality(folder) \in Nat /\ arrived \in Nat
    BY Counts, WalkNumbers
  <2> QED
    BY <1>1, <2>1, <2>2 DEF Expunged
<1>4. \A m \in folder' : m \in folder /\ Place(m) \in Nat /\ Place(m)' \in {Place(m), Place(m) - 1}
  BY <1>2, PlaceType, ExpungePlaces
<1>5. Missed' \in SUBSET (Missed \cup Edge)
  <2>1. there' \subseteq folder' /\ there' \subseteq there
    BY <1>2 DEF TypeOK
  <2>2. ASSUME NEW m \in folder', Place(m)' < Reach
        PROVE  Place(m) < Reach \/ Place(m) = Reach
    BY <1>4, <2>2, WalkNumbers
  <2> QED
    BY <1>1, <1>4, <2>1, <2>2 DEF Missed
<1>6. IsFiniteSet(Edge) /\ Cardinality(Edge) <= 1
  <2>1. Reach \in Int /\ Edge \in SUBSET folder
    BY WalkNumbers
  <2> QED
    BY <2>1, OnePerPlace
<1>7. Cardinality(Missed') <= Cardinality(Missed) + 1 /\ Cardinality(Missed') \in Nat
  BY <1>5, <1>6, Counts, OneMore, FS_CardinalityType
<1>8. Ahead' \in SUBSET Ahead
  <2>1. ASSUME NEW m \in folder', Reach <= Place(m)'
        PROVE  Reach <= Place(m)
    BY <1>4, <2>1, WalkNumbers
  <2> QED
    BY <1>1, <1>4, <2>1 DEF Ahead
<1>9. Cardinality(Ahead') <= Cardinality(Ahead) /\ Cardinality(Ahead') \in Nat
  BY <1>8, Counts, FS_Subset, FS_CardinalityType
<1>10. /\ Cardinality((there \ (yielded \cup page))') <= Cardinality(there \ (yielded \cup page))
       /\ Cardinality((there \ (yielded \cup page))') \in Nat
       /\ Cardinality((there \ yielded)') <= Cardinality(there \ yielded)
       /\ Cardinality((there \ yielded)') \in Nat
  <2>1. /\ (there \ (yielded \cup page))' \in SUBSET (there \ (yielded \cup page))
        /\ (there \ yielded)' \in SUBSET (there \ yielded)
    BY <1>1, <1>2
  <2> QED
    BY <2>1, Counts, FS_Subset, FS_CardinalityType
<1>11. MissedBounded'
  BY <1>1, <1>3, <1>7, Counts DEF WalkInv, MissedBounded
<1>12. LastPage'
  BY <1>1, <1>3, <1>10, Counts DEF WalkInv, LastPage
<1>13. SkipsBounded'
  BY <1>1, <1>3, <1>10, Counts DEF WalkInv, WalkBounded, SkipsBounded, AtLimit, Expunged
<1>14. AheadBounded' /\ RepeatsBounded'
  BY <1>1, <1>9, Counts, WalkNumbers DEF WalkInv, AheadBounded, WalkBounded, RepeatsBounded
<1> QED
  BY <1>1, <1>11, <1>12, <1>13, <1>14 DEF WalkInv, WalkBounded

(* Listing a page moves the walk past just what is on it.                  *)
LEMMA ListWalk ==
    ASSUME TypeOK, TypeOK', WalkInv, List
    PROVE  WalkInv'
<1> DEFINE c == Cardinality(Rows)
           Again == {m \in folder \cap yielded : offset + c <= Place(m)}
<1>1. /\ pc = "list" /\ page = {} /\ Reach = offset
      /\ page' = Rows /\ items' = c /\ pc' = IF Rows = {} THEN "done" ELSE "item"
      /\ UNCHANGED <<folder, arrived, there, limit, offset, count, yielded>>
  BY DEF List, WalkInv, Reach
<1>2. /\ IsFiniteSet(Rows) /\ c \in Nat /\ c <= PageSize
      /\ Rows = {m \in folder : offset <= Place(m) /\ Place(m) < offset + c}
      /\ c < PageSize => \A m \in folder : Place(m) < offset + c
  BY PageOfListing
<1>3. \A m \in folder : Place(m) \in Nat /\ Place(m)' = Place(m)
  BY <1>1, PlaceType DEF Place
<1>4. there \subseteq folder /\ offset \in Nat /\ PageSize \in Nat /\ PageSize > 0
  BY WalkNumbers DEF TypeOK
<1>5. Expunged' = Expunged
  BY <1>1 DEF Expunged
<1>6. ASSUME NEW m \in folder, Place(m) < offset + c, m \notin Rows
      PROVE  Place(m) < Reach
  BY <1>1, <1>2, <1>3, <1>4, <1>6
<1>7. Rows # {} => Reach' = offset + c
  BY <1>1 DEF Reach
<1>8. MissedBounded'
  <2>1. CASE Rows = {}
    BY <1>1, <2>1 DEF MissedBounded
  <2>2. CASE Rows # {}
    <3>1. Missed' \in SUBSET Missed
      BY <1>1, <1>3, <1>4, <1>6, <1>7, <2>2 DEF Missed
    <3>2. Cardinality(Missed') <= Cardinality(Missed) /\ Cardinality(Missed') \in Nat
      BY <3>1, Counts, FS_Subset, FS_CardinalityType
    <3> QED
      BY <1>1, <1>5, <3>2, Counts DEF WalkInv, MissedBounded
  <2> QED
    BY <2>1, <2>2
<1>9. c < PageSize => Cardinality(there \ (yielded \cup Rows)) <= Expunged
  <2> SUFFICES ASSUME c < PageSize PROVE Cardinality(there \ (yielded \cup Rows)) <= Expunged
    OBVIOUS
  <2>1. there \ (yielded \cup Rows) \in SUBSET Missed
    BY <1>1, <1>2, <1>4, <1>6 DEF Missed
  <2>2. /\ Cardinality(there \ (yielded \cup Rows)) <= Cardinality(Missed)
        /\ Cardinality(there \ (yielded \cup Rows)) \in Nat
    BY <2>1, Counts, FS_Subset, FS_CardinalityType
  <2>3. Cardinality(Missed) <= Expunged
    BY <1>1 DEF WalkInv, MissedBounded
  <2> QED
    BY <2>2, <2>3, Counts
<1>10. LastPage'
  BY <1>1, <1>5, <1>9 DEF LastPage
<1>11. SkipsBounded'
  <2>1. Rows = {} => c < PageSize
    BY <1>2, <1>4, FS_EmptySet
  <2>2. Rows = {} => there \ (yielded \cup Rows) = there \ yielded
    OBVIOUS
  <2>3. Rows = {} => Cardinality(there \ yielded) <= Expunged
    BY <1>9, <2>1, <2>2
  <2> QED
    BY <1>1, <1>5, <2>3 DEF SkipsBounded, Expunged
<1>12. Ahead = {m \in folder \cap yielded : offset <= Place(m)}
  BY <1>1 DEF Ahead
<1>13. (Rows \cap yielded) \cup Again = Ahead /\ (Rows \cap yielded) \cap Again = {}
  <2>1. \A m \in folder : offset + c <= Place(m) => offset <= Place(m)
    BY <1>2, <1>3, <1>4
  <2>2. \A m \in folder : ~(Place(m) < offset + c /\ offset + c <= Place(m))
    BY <1>2, <1>3, <1>4
  <2>3. \A m \in folder : Place(m) < offset + c \/ offset + c <= Place(m)
    BY <1>2, <1>3, <1>4
  <2> QED
    BY <1>2, <1>12, <2>1, <2>2, <2>3
<1>14. Cardinality(Rows \cap yielded) + Cardinality(Again) = Cardinality(Ahead)
  <2>1. IsFiniteSet(Rows \cap yielded) /\ IsFiniteSet(Again)
    BY <1>13, Counts, FS_Subset
  <2>2. Cardinality((Rows \cap yielded) \cap Again) = 0
    BY <1>13, FS_EmptySet
  <2>3. /\ Cardinality(Rows \cap yielded) \in Nat /\ Cardinality(Again) \in Nat
    BY <2>1, FS_CardinalityType
  <2>4. Cardinality((Rows \cap yielded) \cup Again)
          = Cardinality(Rows \cap yielded) + Cardinality(Again)
              - Cardinality((Rows \cap yielded) \cap Again)
    <3> HIDE DEF Again
    <3> QED
      BY <2>1, FS_Union
  <2>5. Cardinality((Rows \cap yielded) \cup Again) = Cardinality(Ahead)
    BY <1>13
  <2> HIDE DEF Again
  <2> QED
    BY <2>2, <2>3, <2>4, <2>5
<1>15. Rows # {} => Ahead' = Again
  <2>1. ASSUME NEW m \in Rows
        PROVE  ~(offset + c <= Place(m))
    <3>1. m \in folder /\ Place(m) < offset + c
      BY <1>2
    <3>2. Place(m) \in Nat /\ offset \in Nat /\ c \in Nat
      BY <1>2, <1>3, <1>4, <3>1
    <3> HIDE DEF c
    <3> QED
      BY <3>1, <3>2
  <2> QED
    BY <1>1, <1>3, <1>7, <2>1 DEF Ahead
<1>16. AheadBounded'
  <2>1. CASE Rows = {}
    BY <1>1, <2>1 DEF AheadBounded
  <2>2. CASE Rows # {}
    <3>1. Cardinality((page \cap yielded)') + Cardinality(Ahead') = Cardinality(Ahead)
      BY <1>1, <1>14, <1>15, <2>2
    <3>2. /\ Cardinality((page \cap yielded)') \in Nat /\ Cardinality(Ahead') \in Nat
          /\ Cardinality(page \cap yielded) = 0
      <4>1. IsFiniteSet((page \cap yielded)') /\ IsFiniteSet(Ahead')
        BY <1>1, <1>13, <1>15, <2>2, Counts, FS_Subset
      <4> QED
        BY <1>1, <4>1, FS_CardinalityType, FS_EmptySet
    <3>3. count + Cardinality(Ahead) <= Cardinality(yielded) + (arrived - InitialMail)
      BY <1>1, <3>2, Counts, WalkNumbers DEF WalkInv, AheadBounded
    <3> QED
      BY <1>1, <3>1, <3>2, <3>3, Counts, WalkNumbers DEF AheadBounded
  <2> QED
    BY <2>1, <2>2
<1>17. RepeatsBounded'
  BY <1>1 DEF WalkInv, WalkBounded, RepeatsBounded
<1> QED
  BY <1>1, <1>8, <1>10, <1>11, <1>16, <1>17 DEF WalkInv, WalkBounded

(* A yield moves one row from the page to what was yielded.                *)
LEMMA YieldWalk ==
    ASSUME TypeOK, TypeOK', WalkInv, YieldItem
    PROVE  WalkInv'
<1>1. /\ pc = "item" /\ pc' = "item" /\ count' = count + 1 /\ Reach' = Reach
      /\ UNCHANGED <<folder, arrived, there, limit, offset, items>>
  BY DEF YieldItem, Reach
<1>2. PICK m \in page : page' = page \ {m} /\ yielded' = yielded \cup {m}
  BY DEF YieldItem
<1>3. (yielded \cup page)' = yielded \cup page
  BY <1>2
<1>4. \A n : Place(n)' = Place(n)
  BY <1>1 DEF Place
<1>5. Missed' = Missed /\ Ahead' = Ahead /\ Expunged' = Expunged
  BY <1>1, <1>3, <1>4 DEF Missed, Ahead, Expunged
<1>6. MissedBounded' /\ LastPage' /\ SkipsBounded'
  BY <1>1, <1>3, <1>5 DEF WalkInv, MissedBounded, LastPage, SkipsBounded
<1>7. /\ Cardinality((page \cap yielded)') \in Nat /\ Cardinality(yielded') \in Nat
      /\ Cardinality(Ahead') \in Nat
  BY <1>5, Counts, MailFinite, <1>2 DEF TypeOK
<1>8. count' + Cardinality((page \cap yielded)') + Cardinality(Ahead')
         <= Cardinality(yielded') + (arrived - InitialMail)
  <2>0. /\ count + Cardinality(page \cap yielded) + Cardinality(Ahead)
             <= Cardinality(yielded) + (arrived - InitialMail)
        /\ count \in Nat /\ count' = count + 1
        /\ Cardinality(page \cap yielded) \in Nat /\ Cardinality(Ahead) \in Nat
        /\ Cardinality(yielded) \in Nat /\ arrived - InitialMail \in Int
        /\ Cardinality(Ahead') = Cardinality(Ahead)
    BY <1>1, <1>5, Counts, WalkNumbers DEF WalkInv, AheadBounded
  <2>1. CASE m \in yielded
    <3>1. (page \cap yielded)' = (page \cap yielded) \ {m} /\ yielded' = yielded
      BY <1>2, <2>1
    <3>2. Cardinality((page \cap yielded)') = Cardinality(page \cap yielded) - 1
      BY <3>1, <2>1, <1>2, Counts, FS_RemoveElement
    <3>3. Cardinality(yielded') = Cardinality(yielded)
      BY <3>1
    <3> QED
      BY <2>0, <3>2, <3>3
  <2>2. CASE m \notin yielded
    <3>1. (page \cap yielded)' = page \cap yielded
      BY <1>2, <2>2
    <3>2. Cardinality(yielded') = Cardinality(yielded) + 1
      BY <1>2, <2>2, Counts, FS_AddElement
    <3>3. Cardinality((page \cap yielded)') = Cardinality(page \cap yielded)
      BY <3>1
    <3> QED
      BY <2>0, <3>2, <3>3
  <2> QED
    BY <2>1, <2>2
<1>9. RepeatsBounded'
  BY <1>1, <1>7, <1>8, WalkNumbers DEF RepeatsBounded
<1>10. AheadBounded'
  BY <1>1, <1>8 DEF AheadBounded
<1> QED
  BY <1>1, <1>6, <1>9, <1>10 DEF WalkInv, WalkBounded

LEMMA EndPageWalk ==
    ASSUME TypeOK, TypeOK', WalkInv, EndPage
    PROVE  WalkInv'
<1>1. /\ pc = "item" /\ page = {}
      /\ UNCHANGED <<folder, arrived, there, limit, items, page, count, yielded>>
  BY DEF EndPage
<1>2. CASE items < PageSize /\ pc' = "done"
  <2>1. Cardinality(there \ yielded) <= Expunged
    <3>1. there \ (yielded \cup page) = there \ yielded
      BY <1>1
    <3> QED
      BY <1>1, <1>2, <3>1 DEF WalkInv, LastPage
  <2> QED
    BY <1>1, <1>2, <2>1
       DEF WalkInv, MissedBounded, LastPage, AheadBounded, WalkBounded, SkipsBounded,
           RepeatsBounded, Expunged
<1>3. CASE items = PageSize /\ pc' = "list" /\ Advance
  <2>1. Reach' = Reach
    BY <1>1, <1>3 DEF Reach, Advance
  <2>2. \A n : Place(n)' = Place(n)
    BY <1>1 DEF Place
  <2>3. Missed' = Missed /\ Ahead' = Ahead /\ Expunged' = Expunged
    BY <1>1, <2>1, <2>2 DEF Missed, Ahead, Expunged
  <2> QED
    BY <1>1, <1>3, <2>3
       DEF WalkInv, MissedBounded, LastPage, AheadBounded, WalkBounded, SkipsBounded,
           RepeatsBounded
<1> QED
  BY <1>2, <1>3 DEF EndPage

LEMMA NextWalk ==
    ASSUME TypeOK, WalkInv, [Next]_vars
    PROVE  WalkInv'
<1>0. TypeOK'
  BY NextType
<1>1. CASE LimitReached
  <2>1. pc' = "done" /\ AtLimit /\ AtLimit'
        /\ UNCHANGED <<folder, arrived, there, limit, offset, items, page, count, yielded>>
    BY <1>1 DEF LimitReached, AtLimit
  <2> QED
    BY <2>1 DEF WalkInv, MissedBounded, LastPage, AheadBounded, WalkBounded, SkipsBounded,
                RepeatsBounded
<1>2. CASE UNCHANGED vars
  BY <1>2 DEF vars, walk, WalkInv, MissedBounded, LastPage, AheadBounded, WalkBounded,
              SkipsBounded, RepeatsBounded, Missed, Ahead, Expunged, Reach, Place, AtLimit
<1> QED
  BY <1>0, <1>1, <1>2, ArriveWalk, ExpungeWalk, ListWalk, YieldWalk, EndPageWalk
     DEF Next, Generator

(* A walk skips no more of the messages that were there all along than were*)
(* expunged under it, and repeats no more rows than mail arrived, whatever *)
(* the page size and however the changes fall between its requests.        *)
THEOREM ChangesExplainWalk == Spec => []WalkBounded
<1>1. WalkInv => WalkBounded
  BY DEF WalkInv
<1>2. TypeOK /\ WalkInv /\ [Next]_vars => WalkInv'
  BY NextWalk
<1> QED
  BY <1>1, <1>2, InitWalk, WalkTyped, PTL DEF Spec

-----------------------------------------------------------------------------
(* What a conversion puts out is what its operators compute.               *)

RowsOut == input \in Answers /\ output = [rows |-> HeaderRows(Items(Data))]

FieldsOut ==
    /\ input \in Headers
    /\ input.date # Foreign /\ input.xPriority # <<"blank">>
    /\ output = [imap |-> FromMapping(HeaderRow(input)),
                 http |-> FromMapping(RowToMapping(OXRow(input)))]

DetailOut ==
    /\ input \in Contents
    /\ Decodes(input.parts)
    /\ output = [body |-> Body(Detail(input.parts))]

ConversionInv ==
    /\ input \in Answers \cup Headers \cup Contents
    /\ output \in {NotYet, Raises} \/ RowsOut \/ FieldsOut \/ DetailOut

LEMMA Tasks ==
    /\ \A i \in Answers : i.task = "headers"
    /\ \A i \in Headers : i.task = "fields"
    /\ \A i \in Contents : i.task = "detail"
BY DEF Answers, Headers, Contents

LEMMA ConvertsKnown == ConversionInv /\ [Convert]_conversion => ConversionInv'
<1> SUFFICES ASSUME ConversionInv, [Convert]_conversion PROVE ConversionInv'
  OBVIOUS
<1>1. CASE FetchHeaders
  <2>1. input \in Answers /\ input' = input /\ output' = [rows |-> HeaderRows(Items(Data))]
    BY <1>1, Tasks DEF FetchHeaders, ConversionInv
  <2>2. Data' = Data
    BY <2>1 DEF Data
  <2>3. RowsOut'
    BY <2>1, <2>2 DEF RowsOut
  <2> QED
    BY <2>1, <2>3 DEF ConversionInv
<1>2. CASE Fields
  <2>1. input \in Headers /\ input' = input
    BY <1>2, Tasks DEF Fields, ConversionInv
  <2>2. CASE HeaderRow(input) = Raises
    BY <1>2, <2>1, <2>2 DEF Fields, ConversionInv
  <2>3. CASE HeaderRow(input) # Raises
    <3>1. input.date # Foreign /\ input.xPriority # <<"blank">>
      BY <2>3 DEF HeaderRow
    <3>2. FieldsOut'
      BY <1>2, <2>1, <2>3, <3>1 DEF Fields, FieldsOut
    <3> QED
      BY <2>1, <3>2 DEF ConversionInv
  <2> QED
    BY <2>2, <2>3
<1>3. CASE FetchDetail
  <2>1. input \in Contents /\ input' = input
    BY <1>3, Tasks DEF FetchDetail, ConversionInv
  <2>2. output' = Raises \/ DetailOut'
    BY <1>3, <2>1 DEF FetchDetail, DetailOut
  <2> QED
    BY <2>1, <2>2 DEF ConversionInv
<1>4. CASE UNCHANGED conversion
  BY <1>4 DEF conversion, ConversionInv, RowsOut, FieldsOut, DetailOut, Data
<1> QED
  BY <1>1, <1>2, <1>3, <1>4 DEF Convert

LEMMA OutputKnown == Conversion => []ConversionInv
<1>1. Begin => ConversionInv
  BY DEF Begin, ConversionInv
<1> QED
  BY <1>1, ConvertsKnown, PTL DEF Conversion

LEMMA ConvertedTask ==
    ASSUME ConversionInv
    PROVE  /\ Converted("headers") => RowsOut
           /\ Converted("fields") => FieldsOut
           /\ Converted("detail") => DetailOut
BY Tasks DEF ConversionInv, Converted, RowsOut, FieldsOut, DetailOut

-----------------------------------------------------------------------------
(* Rows of an answer.                                                      *)

LEMMA AskedFor ==
    /\ \A m \in Asked \cup Others : m \in Nat /\ m # 0
    /\ \A m \in Asked : m \notin Others
BY MessagesAssumption

(* What the entries about one message say of it.                           *)
LEMMA EntriesAbout ==
    ASSUME NEW m \in Asked, NEW order \in Orders, NEW e \in EntriesFor(m, order)
    PROVE  /\ e \in Entry /\ order # "gone"
           /\ e.uid \in {m, 0} /\ e.literal \in {m, 0}
           /\ order = "leading" => e = [uid |-> m, flags |-> TRUE, literal |-> m]
           /\ (order = "split" /\ e.uid # 0) => e.literal = m
<1>0. m \in Asked \cup Others \cup {0} /\ m \in Asked \cup {0} /\ m # 0
  BY AskedFor
<1>1. CASE order = "leading"
  <2>1. e = [uid |-> m, flags |-> TRUE, literal |-> m]
    BY <1>1 DEF EntriesFor
  <2> QED
    BY <1>0, <1>1, <2>1 DEF Entry
<1>2. CASE order = "split"
  <2>1. e \in {[uid |-> m, flags |-> FALSE, literal |-> m], [uid |-> 0, flags |-> TRUE, literal |-> 0]}
    BY <1>2 DEF EntriesFor
  <2>2. CASE e = [uid |-> m, flags |-> FALSE, literal |-> m]
    BY <1>0, <1>2, <2>2 DEF Entry
  <2>3. CASE e = [uid |-> 0, flags |-> TRUE, literal |-> 0]
    BY <1>0, <1>2, <2>3 DEF Entry
  <2> QED
    BY <2>1, <2>2, <2>3
<1>3. CASE order = "trailing"
  <2>1. e \in {[uid |-> 0, flags |-> FALSE, literal |-> m], [uid |-> m, flags |-> TRUE, literal |-> 0]}
    BY <1>3 DEF EntriesFor
  <2>2. CASE e = [uid |-> 0, flags |-> FALSE, literal |-> m]
    BY <1>0, <1>3, <2>2 DEF Entry
  <2>3. CASE e = [uid |-> m, flags |-> TRUE, literal |-> 0]
    BY <1>0, <1>3, <2>3 DEF Entry
  <2> QED
    BY <2>1, <2>2, <2>3
<1>4. CASE order = "gone"
  BY <1>4 DEF EntriesFor
<1> QED
  BY <1>1, <1>2, <1>3, <1>4 DEF Orders

LEMMA Unasked ==
    ASSUME NEW e \in Unsolicited
    PROVE  e \in Entry /\ e.literal = 0
<1>1. /\ e = [uid |-> e.uid, flags |-> e.flags, literal |-> e.literal]
      /\ e.uid \in Asked \cup Others \cup {0} /\ e.flags \in {TRUE} /\ e.literal \in {0}
  BY DEF Unsolicited
<1>2. e.flags \in BOOLEAN /\ e.literal \in Asked \cup {0}
  BY <1>1
<1> QED
  BY <1>1, <1>2 DEF Entry

(* One of them names the message, unless it is gone.                       *)
LEMMA EntryNames ==
    ASSUME NEW m \in Asked, NEW order \in Orders, order # "gone"
    PROVE  \E e \in EntriesFor(m, order) : e.uid = m
<1>1. CASE order = "leading"
  BY <1>1 DEF EntriesFor
<1>2. CASE order = "split"
  BY <1>2 DEF EntriesFor
<1>3. CASE order = "trailing"
  BY <1>3 DEF EntriesFor
<1> QED
  BY <1>1, <1>2, <1>3 DEF Orders

RowOf(e) == [id |-> e.uid, header |-> e.literal, flags |-> e.flags]

(* Every entry that names a message is a row, and there are no others.     *)
LEMMA RowsOfData ==
    ASSUME RowsOut
    PROVE  /\ \A e \in Data : e.uid # 0 => RowOf(e) \in output.rows
           /\ \A r \in output.rows : \E e \in Data : e.uid # 0 /\ r = RowOf(e)
           /\ Data \subseteq Entry
           /\ \A m \in Asked : input.order[m] \in Orders
           /\ input.extra \subseteq Unsolicited
<1>1. input.order \in [Asked -> Orders] /\ input.extra \subseteq Unsolicited
  BY DEF RowsOut, Answers
<1>2. output.rows = {RowOf(e) : e \in {i \in Items(Data) : i.uid # 0}}
  BY DEF RowsOut, HeaderRows, RowOf
<1>3. {i \in Items(Data) : i.uid # 0} = {i \in Data : i.uid # 0}
  BY DEF Items
<1>4. Data \subseteq Entry
  <2> SUFFICES ASSUME NEW e \in Data PROVE e \in Entry
    OBVIOUS
  <2>1. CASE e \in input.extra
    BY <1>1, <2>1, Unasked
  <2>2. CASE e \notin input.extra
    <3>1. PICK m \in Asked : e \in EntriesFor(m, input.order[m])
      BY <2>2 DEF Data
    <3> QED
      BY <1>1, <3>1, EntriesAbout
  <2> QED
    BY <2>1, <2>2
<1> QED
  BY <1>1, <1>2, <1>3, <1>4

(* An entry that names a message is about it, or was not asked for.        *)
LEMMA NamedBy ==
    ASSUME RowsOut, NEW e \in Data, e.uid # 0
    PROVE  \/ e \in input.extra /\ e.literal = 0
           \/ /\ e.uid \in Asked /\ e \in EntriesFor(e.uid, input.order[e.uid])
              /\ input.order[e.uid] \in Orders
<1>1. CASE e \in input.extra
  BY <1>1, RowsOfData, Unasked
<1>2. CASE e \notin input.extra
  <2>1. PICK m \in Asked : e \in EntriesFor(m, input.order[m])
    BY <1>2 DEF Data
  <2>2. input.order[m] \in Orders
    BY RowsOfData
  <2>3. e.uid = m
    BY <2>1, <2>2, EntriesAbout
  <2> QED
    BY <2>1, <2>2, <2>3
<1> QED
  BY <1>1, <1>2

(* The row of a message that is there. *)
Own(m) == [id |-> m, header |-> IF input.order[m] = "trailing" THEN 0 ELSE m,
           flags |-> input.order[m] # "split"]

LEMMA EveryRow == ASSUME RowsOut PROVE RowPerMessage
<1> SUFFICES ASSUME NEW m \in Asked
             PROVE  LET rows == {r \in output.rows : r.id = m}
                        named == \E e \in input.extra : e.uid = m
                    IN /\ input.order[m] # "gone" => Own(m) \in rows
                       /\ input.order[m] = "leading" /\ ~named
                            => rows = {[id |-> m, header |-> m, flags |-> TRUE]}
                       /\ input.order[m] = "gone" /\ ~named => rows = {}
                       /\ \A r \in rows : r.header \in {m, 0}
  BY DEF RowPerMessage, Own
<1> DEFINE rows == {r \in output.rows : r.id = m}
           named == \E e \in input.extra : e.uid = m
<1>0. m # 0 /\ input.order[m] \in Orders
  BY AskedFor, RowsOfData
<1>1. ASSUME input.order[m] # "gone" PROVE Own(m) \in rows
  <2>1. PICK e \in EntriesFor(m, input.order[m]) : e.uid = m
    BY <1>0, <1>1, EntryNames
  <2>2. e \in Data
    BY <2>1 DEF Data
  <2>3. RowOf(e) \in output.rows
    BY <1>0, <2>1, <2>2, RowsOfData
  <2>4. RowOf(e) = Own(m)
    <3>1. CASE input.order[m] = "leading"
      <4>1. EntriesFor(m, input.order[m]) = {[uid |-> m, flags |-> TRUE, literal |-> m]}
        BY <3>1 DEF EntriesFor
      <4>2. e = [uid |-> m, flags |-> TRUE, literal |-> m]
        BY <1>0, <2>1, <4>1
      <4>3. RowOf(e) = [id |-> m, header |-> m, flags |-> TRUE]
        BY <4>2 DEF RowOf
      <4>4. (input.order[m] # "split") = TRUE
        BY <3>1
      <4>5. Own(m) = [id |-> m, header |-> m, flags |-> TRUE]
        BY <3>1, <4>4, Zenon DEF Own
      <4> QED
        BY <4>3, <4>5
    <3>2. CASE input.order[m] = "split"
      <4>1. EntriesFor(m, input.order[m]) = {[uid |-> m, flags |-> FALSE, literal |-> m],
                                             [uid |-> 0, flags |-> TRUE, literal |-> 0]}
        BY <3>2 DEF EntriesFor
      <4>2. e = [uid |-> m, flags |-> FALSE, literal |-> m]
        BY <1>0, <2>1, <4>1
      <4>3. RowOf(e) = [id |-> m, header |-> m, flags |-> FALSE]
        BY <4>2 DEF RowOf
      <4>4. (input.order[m] # "split") = FALSE
        BY <3>2
      <4>5. Own(m) = [id |-> m, header |-> m, flags |-> FALSE]
        BY <3>2, <4>4, Zenon DEF Own
      <4> QED
        BY <4>3, <4>5
    <3>3. CASE input.order[m] = "trailing"
      <4>1. EntriesFor(m, input.order[m]) = {[uid |-> 0, flags |-> FALSE, literal |-> m],
                                             [uid |-> m, flags |-> TRUE, literal |-> 0]}
        BY <3>3 DEF EntriesFor
      <4>2. e = [uid |-> m, flags |-> TRUE, literal |-> 0]
        BY <1>0, <2>1, <4>1
      <4>3. RowOf(e) = [id |-> m, header |-> 0, flags |-> TRUE]
        BY <4>2 DEF RowOf
      <4>4. (input.order[m] # "split") = TRUE
        BY <3>3
      <4>5. Own(m) = [id |-> m, header |-> 0, flags |-> TRUE]
        BY <3>3, <4>4, Zenon DEF Own
      <4> QED
        BY <4>3, <4>5
    <3> QED
      BY <1>0, <1>1, <3>1, <3>2, <3>3 DEF Orders
  <2>5. Own(m).id = m
    BY DEF Own
  <2> QED
    BY <2>3, <2>4, <2>5
<1>2. ASSUME NEW r \in rows
      PROVE  \E e \in Data : /\ e.uid = m /\ r = RowOf(e)
                             /\ \/ e \in input.extra /\ e.literal = 0
                                \/ e \in EntriesFor(m, input.order[m])
  <2>1. PICK e \in Data : e.uid # 0 /\ r = RowOf(e)
    BY RowsOfData
  <2>2. e.uid = m
    BY <2>1 DEF RowOf
  <2> QED
    BY <2>1, <2>2, NamedBy
<1>3. \A r \in rows : r.header \in {m, 0}
  <2> SUFFICES ASSUME NEW r \in rows PROVE r.header \in {m, 0}
    OBVIOUS
  <2>1. PICK e \in Data : /\ e.uid = m /\ r = RowOf(e)
                          /\ \/ e \in input.extra /\ e.literal = 0
                             \/ e \in EntriesFor(m, input.order[m])
    BY <1>2
  <2>2. e.literal \in {m, 0}
    BY <1>0, <2>1, EntriesAbout
  <2> QED
    BY <2>1, <2>2 DEF RowOf
<1>4. ASSUME input.order[m] = "gone", ~named PROVE rows = {}
  <2> SUFFICES ASSUME NEW r \in rows PROVE FALSE
    OBVIOUS
  <2> QED
    BY <1>0, <1>2, <1>4, EntriesAbout
<1>5. ASSUME input.order[m] = "leading", ~named
      PROVE  rows = {[id |-> m, header |-> m, flags |-> TRUE]}
  <2>1. \A r \in rows : r = [id |-> m, header |-> m, flags |-> TRUE]
    <3> SUFFICES ASSUME NEW r \in rows PROVE r = [id |-> m, header |-> m, flags |-> TRUE]
      OBVIOUS
    <3>1. PICK e \in EntriesFor(m, input.order[m]) : r = RowOf(e)
      BY <1>2, <1>5
    <3>2. e = [uid |-> m, flags |-> TRUE, literal |-> m]
      BY <1>0, <1>5, <3>1, EntriesAbout
    <3> QED
      BY <3>1, <3>2 DEF RowOf
  <2>2. rows # {}
    BY <1>1, <1>5
  <2> HIDE DEF rows
  <2> QED
    BY <2>1, <2>2
<1> QED
  BY <1>1, <1>3, <1>4, <1>5

LEMMA NoOtherRow == ASSUME RowsOut PROVE NoForeignRow
<1> SUFFICES ASSUME NEW r \in output.rows, r.id \notin Asked \/ r.header = 0
             PROVE  \/ \E e \in input.extra : e.uid = r.id
                    \/ r.id \in Asked /\ input.order[r.id] = "trailing"
  BY DEF NoForeignRow
<1>1. PICK e \in Data : e.uid # 0 /\ r = RowOf(e)
  BY RowsOfData
<1>2. r.id = e.uid /\ r.header = e.literal
  BY <1>1 DEF RowOf
<1>3. CASE e \in input.extra
  BY <1>2, <1>3
<1>4. CASE e \notin input.extra
  <2>1. e.uid \in Asked /\ e \in EntriesFor(e.uid, input.order[e.uid])
        /\ input.order[e.uid] \in Orders
    BY <1>1, <1>4, NamedBy
  <2>2. e.literal = 0
    BY <1>2, <2>1
  <2>3. input.order[e.uid] \notin {"leading", "split", "gone"}
    <3>1. e.uid # 0
      BY <1>1
    <3>2. input.order[e.uid] = "leading" => e.literal = e.uid
      BY <2>1, EntriesAbout
    <3> QED
      BY <2>1, <2>2, <3>1, <3>2, EntriesAbout
  <2> QED
    BY <1>2, <2>1, <2>3 DEF Orders
<1> QED
  BY <1>3, <1>4

(* A fetch of headers has a row for every message that is there, with its  *)
(* headers unless the server gives its UID behind them, and no row that the*)
(* order of the answer or an unasked line does not explain, for any set of *)
(* messages asked for and any such lines.                                  *)
THEOREM EveryMessageHasItsRow == Conversion => []RowsMatch
<1>1. ConversionInv => RowsMatch
  <2> SUFFICES ASSUME ConversionInv PROVE RowsMatch
    OBVIOUS
  <2>1. CASE Converted("headers")
    BY <2>1, ConvertedTask, EveryRow, NoOtherRow DEF RowsMatch
  <2>2. CASE ~Converted("headers")
    BY <2>2 DEF RowsMatch, RowPerMessage, NoForeignRow
  <2> QED
    BY <2>1, <2>2
<1> QED
  BY <1>1, OutputKnown, PTL

LEMMA RowsTyped ==
    ASSUME RowsOut
    PROVE  output.rows \subseteq [id : Asked \cup Others, header : Asked \cup {0}, flags : BOOLEAN]
<1> SUFFICES ASSUME NEW e \in Data, e.uid # 0
             PROVE  RowOf(e) \in [id : Asked \cup Others, header : Asked \cup {0}, flags : BOOLEAN]
  BY RowsOfData
<1>1. e.uid \in Asked \cup Others /\ e.literal \in Asked \cup {0} /\ e.flags \in BOOLEAN
  BY RowsOfData DEF Entry
<1> QED
  BY <1>1 DEF RowOf

-----------------------------------------------------------------------------
(* The fields of a message.                                                *)

LEMMA PriorityRange ==
    ASSUME NEW h \in Headers
    PROVE  Priority(h) \in 1 .. 5 \cup {None}
<1> DEFINE raw == IF h.xPriority \in Absent THEN h.importance ELSE h.xPriority
<1>1. CASE raw \in Numbers
  <2>1. PICK n \in 0 .. 6 : raw = <<"number", n>>
    BY <1>1 DEF Numbers
  <2>2. Priority(h) = IF n < 1 THEN 1 ELSE IF n > 5 THEN 5 ELSE n
    BY <1>1, <2>1 DEF Priority
  <2> QED
    BY <2>2
<1>2. CASE raw \notin Numbers
  <2>1. Priority(h) \in {1, 3, 5, None}
    BY <1>2 DEF Priority
  <2> QED
    BY <2>1
<1> QED
  BY <1>1, <1>2

(* A row of Open-Xchange has its columns by position.                      *)
LEMMA ColumnsOf ==
    ASSUME NEW h
    PROVE  LET row == RowToMapping(OXRow(h))
           IN /\ row.received_date = h.internal /\ row.date = h.internal
              /\ row.sent_date = IF h.date = Foreign THEN None ELSE h.date
              /\ row.priority = None
<1>1. /\ DOMAIN OXColumns = 1 .. 4
      /\ OXColumns[1] = "received_date" /\ OXColumns[2] = "date"
      /\ OXColumns[3] = "sent_date" /\ OXColumns[4] = "priority"
  BY DEF OXColumns
<1>2. /\ OXRow(h)[1] = h.internal /\ OXRow(h)[2] = h.internal
      /\ OXRow(h)[3] = IF h.date = Foreign THEN None ELSE h.date
      /\ OXRow(h)[4] = None
  BY DEF OXRow
<1>3. ASSUME NEW k \in 1 .. 4
      PROVE  RowToMapping(OXRow(h))[OXColumns[k]] = OXRow(h)[k]
  <2>1. (CHOOSE i \in DOMAIN OXColumns : OXColumns[i] = OXColumns[k]) = k
    BY <1>1
  <2> QED
    BY <1>1, <2>1 DEF RowToMapping
<1> QED
  BY <1>1, <1>2, <1>3

LEMMA FieldsTyped ==
    ASSUME FieldsOut
    PROVE  {output.imap.priority, output.http.priority} \subseteq 1 .. 5 \cup {None}
<1>1. output.imap.priority = Priority(input)
  BY DEF FieldsOut, FromMapping, HeaderRow
<1>2. output.http.priority = None
  BY ColumnsOf DEF FieldsOut, FromMapping
<1> QED
  BY <1>1, <1>2, PriorityRange DEF FieldsOut

(* Both backends show the INTERNALDATE of a message as its arrival; where  *)
(* they differ it is missing, or the epoch.                                *)
THEOREM ArrivalShown == Conversion => []ReceivedTimes
<1>1. ASSUME FieldsOut PROVE ReceivedTimes
  <2>1. output.imap.received = IF Received(input) \in {None, 0} THEN None ELSE Received(input)
    BY <1>1 DEF FieldsOut, FromMapping, HeaderRow
  <2>2. output.http.received = input.internal
    BY <1>1, ColumnsOf DEF FieldsOut, FromMapping
  <2>3. input.internal \in Times /\ input.date \in Times
    BY <1>1 DEF FieldsOut, Headers
  <2> QED
    BY <2>1, <2>2, <2>3 DEF ReceivedTimes, Received, Times, None
<1>2. ConversionInv => ReceivedTimes
  BY <1>1, ConvertedTask DEF ReceivedTimes
<1> QED
  BY <1>2, OutputKnown, PTL

-----------------------------------------------------------------------------
(* The body.                                                               *)

LEMMA LeastNumber ==
    ASSUME NEW S \in SUBSET Nat, S # {}
    PROVE  \E i \in S : \A j \in S : i <= j
<1>1. PICK i \in S : \A j \in S : ~(<<j, i>> \in OpToRel(<, Nat))
  BY NatLessThanWellFounded, WFMin, Zenon
<1>2. \A j \in S : ~(j < i)
  <2> SUFFICES ASSUME NEW j \in S, j < i PROVE <<j, i>> \in OpToRel(<, Nat)
    BY <1>1
  <2> QED
    BY DEF OpToRel
<1> QED
  BY <1>2

Shown(part) == part.disp = "inline" /\ part.type # "other"

LEMMA PartsOf ==
    ASSUME DetailOut
    PROVE  /\ DOMAIN input.parts \in SUBSET Nat /\ 0 \notin DOMAIN input.parts
           /\ DOMAIN input.parts = 1 .. Len(input.parts) /\ Len(input.parts) \in Nat
           /\ DOMAIN Detail(input.parts) = DOMAIN input.parts
           /\ \A i \in DOMAIN input.parts :
                /\ input.parts[i] \in Parts
                /\ Detail(input.parts)[i].type = input.parts[i].type
                /\ Shown(input.parts[i]) =>
                     Detail(input.parts)[i].content = input.parts[i].text
                /\ ~Shown(input.parts[i]) => Detail(input.parts)[i].content = "absent"
                /\ input.parts[i].text # "absent"
                /\ Shown(input.parts[i]) => input.parts[i].text \in {"some", "empty"}
<1>1. PICK n \in 1 .. MaxParts : input.parts \in [1 .. n -> Parts]
  BY DEF DetailOut, Contents
<1>2. n \in Nat /\ DOMAIN input.parts = 1 .. n
  BY <1>1, MessagesAssumption
<1>3. Len(input.parts) = n
  BY <1>1, <1>2
<1>4. \A i \in DOMAIN input.parts : input.parts[i] \in Parts
  BY <1>1
<1>5. ASSUME NEW i \in DOMAIN input.parts
      PROVE  /\ HasContent(input.parts[i]) <=> Shown(input.parts[i])
             /\ input.parts[i].text \in {"some", "empty", "unknown"}
  BY <1>4, <1>5 DEF HasContent, Shown, Parts
<1>6. ASSUME NEW i \in DOMAIN input.parts, Shown(input.parts[i])
      PROVE  input.parts[i].text # "unknown"
  BY <1>5, <1>6 DEF DetailOut, Decodes
<1>7. DOMAIN Detail(input.parts) = DOMAIN input.parts
  BY DEF Detail
<1>8. ASSUME NEW i \in DOMAIN input.parts
      PROVE  /\ Detail(input.parts)[i].type = input.parts[i].type
             /\ Detail(input.parts)[i].content =
                  IF HasContent(input.parts[i]) THEN input.parts[i].text ELSE "absent"
  BY <1>8 DEF Detail
<1> QED
  BY <1>2, <1>3, <1>4, <1>5, <1>6, <1>7, <1>8

(* The first part of the kind that is decoded, if there is one.            *)
LEMMA FirstOfKind ==
    ASSUME DetailOut, NEW type
    PROVE  LET b == BodyPart(Detail(input.parts), type)
               parts == input.parts
           IN \/ /\ b = 0
                 /\ \A i \in DOMAIN parts : ~(Shown(parts[i]) /\ parts[i].type = type)
              \/ /\ b \in DOMAIN parts
                 /\ Shown(parts[b]) /\ parts[b].type = type
                 /\ \A i \in DOMAIN parts : Shown(parts[i]) /\ parts[i].type = type => b <= i
<1> DEFINE those == {i \in DOMAIN Detail(input.parts) :
                       /\ Detail(input.parts)[i].type = type
                       /\ Detail(input.parts)[i].content # "absent"}
<1>1. those = {i \in DOMAIN input.parts : Shown(input.parts[i]) /\ input.parts[i].type = type}
  BY PartsOf
<1>2. CASE those = {}
  <2>1. BodyPart(Detail(input.parts), type) = 0
    BY <1>2 DEF BodyPart
  <2> QED
    BY <1>1, <1>2, <2>1
<1>3. CASE those # {}
  <2>1. those \in SUBSET Nat
    BY <1>1, PartsOf
  <2>2. \E i \in those : \A j \in those : i <= j
    BY <1>3, <2>1, LeastNumber
  <2>3. BodyPart(Detail(input.parts), type) = CHOOSE i \in those : \A j \in those : i <= j
    BY <1>3 DEF BodyPart
  <2>4. /\ BodyPart(Detail(input.parts), type) \in those
        /\ \A j \in those : BodyPart(Detail(input.parts), type) <= j
    BY <2>2, <2>3
  <2> HIDE DEF those
  <2> QED
    BY <1>1, <2>4
<1> QED
  BY <1>2, <1>3

(* The first decoded HTML part if it has text, else the first plain one.   *)
LEMMA BodyOf ==
    ASSUME DetailOut
    PROVE  LET parts == input.parts
               html == BodyPart(Detail(parts), "html")
               plain == BodyPart(Detail(parts), "plain")
           IN \/ html \in DOMAIN parts /\ parts[html].text = "some" /\ output.body = html
              \/ (html = 0 \/ parts[html].text = "empty") /\ output.body = plain
<1> DEFINE html == BodyPart(Detail(input.parts), "html")
<1>1. \/ html = 0
      \/ html \in DOMAIN input.parts /\ Shown(input.parts[html])
  BY FirstOfKind
<1>2. ASSUME html # 0
      PROVE  /\ html \in DOMAIN input.parts /\ input.parts[html].text \in {"some", "empty"}
             /\ Detail(input.parts)[html].content = input.parts[html].text
  BY <1>1, <1>2, PartsOf
<1> QED
  BY <1>2 DEF DetailOut, Body

(* The body is the first HTML part to be shown, if that has text, else the *)
(* first plain part, for any number of parts.                              *)
THEOREM BodyChosen == Conversion => []BodyShown
<1>1. ASSUME DetailOut PROVE BodyShown
  <2> DEFINE parts == input.parts
             html == BodyPart(Detail(parts), "html")
             plain == BodyPart(Detail(parts), "plain")
             Inline(type) == {i \in DOMAIN parts : parts[i].type = type /\ parts[i].disp = "inline"}
             First(i, type) == i \in Inline(type) /\ \A j \in Inline(type) : i <= j
  <2>1. \A type \in {"html", "plain"} :
          Inline(type) = {i \in DOMAIN parts : Shown(parts[i]) /\ parts[i].type = type}
    BY DEF Shown
  <2>2. \/ html = 0 /\ Inline("html") = {}
        \/ html \in DOMAIN parts /\ First(html, "html")
    BY <1>1, <2>1, FirstOfKind
  <2>3. \/ plain = 0 /\ Inline("plain") = {}
        \/ plain \in DOMAIN parts /\ First(plain, "plain")
    BY <1>1, <2>1, FirstOfKind
  <2>4. DOMAIN parts \in SUBSET Nat
    BY <1>1, PartsOf
  <2>5. \A i \in DOMAIN parts : First(i, "html") => html # 0 /\ i = html
    <3> SUFFICES ASSUME NEW i \in DOMAIN parts, First(i, "html")
                 PROVE  html # 0 /\ i = html
      OBVIOUS
    <3>1. html \in DOMAIN parts /\ First(html, "html")
      BY <2>2
    <3>2. i <= html /\ html <= i /\ i \in Nat /\ html \in Nat
      BY <2>4, <3>1
    <3>3. html # 0
      BY <1>1, <3>1, PartsOf
    <3> QED
      BY <3>2, <3>3
  <2> HIDE DEF html, plain, Inline, First
  <2>6. \/ html \in DOMAIN parts /\ parts[html].text = "some" /\ output.body = html
        \/ (html = 0 \/ parts[html].text = "empty") /\ output.body = plain
    BY <1>1, BodyOf DEF html, plain
  <2>7. CASE html \in DOMAIN parts /\ parts[html].text = "some" /\ output.body = html
    <3>1. First(output.body, "html") /\ parts[output.body].text = "some"
      BY <1>1, <2>2, <2>7, PartsOf
    <3> QED
      BY <3>1 DEF BodyShown, First, Inline
  <2>8. CASE (html = 0 \/ parts[html].text = "empty") /\ output.body = plain
    <3>1. \A i \in DOMAIN parts : First(i, "html") => parts[i].text = "empty"
      BY <2>5, <2>8
    <3>2. First(output.body, "plain") \/ (output.body = 0 /\ Inline("plain") = {})
      BY <2>3, <2>8
    <3> QED
      BY <3>1, <3>2 DEF BodyShown, First, Inline
  <2> QED
    BY <2>6, <2>7, <2>8
<1>2. ConversionInv => BodyShown
  BY <1>1, ConvertedTask DEF BodyShown
<1> QED
  BY <1>2, OutputKnown, PTL

(* What a conversion puts out is well typed.                               *)
THEOREM ConversionTyped == Conversion => []OutputOK
<1>1. ASSUME DetailOut PROVE output.body \in 0 .. Len(input.parts)
  BY <1>1, PartsOf, BodyOf, FirstOfKind
<1>2. ConversionInv => OutputOK
  BY <1>1, ConvertedTask, RowsTyped, FieldsTyped DEF OutputOK
<1> QED
  BY <1>2, OutputKnown, PTL
=============================================================================
