------------------------------- MODULE Paging --------------------------------
(***************************************************************************)
(* MailService.iter_messages (mail/service.py): a generator that walks a   *)
(* folder page by page, newest first, by the offset of the next page, while*)
(* mail arrives and is expunged between its requests and its yields.       *)
(* A message is the number of its arrival.                                 *)
(***************************************************************************)
EXTENDS Naturals, FiniteSets

CONSTANTS
    InitialMail,    \* messages in the folder at the start
    MaxMail,        \* bound: messages that ever arrive
    PageSize,       \* page_size
    Limits,         \* values of max_messages, Unlimited for None
    Unlimited

ASSUME PagingAssumption ==
    /\ {InitialMail, MaxMail} \subseteq Nat /\ InitialMail <= MaxMail
    /\ PageSize \in Nat \ {0}
    /\ Limits \subseteq Nat \cup {Unlimited}
    /\ Unlimited \notin Nat

VARIABLES
    folder,         \* the messages on the server
    arrived,        \* messages that have arrived so far
    there,          \* observer: messages that have been there all along
    limit,          \* max_messages
    offset,         \* the offset of the next page
    items,          \* len(page.items)
    page,           \* what the inner loop has not reached of page.items
    count,          \* yielded: how many rows the generator has yielded
    yielded,        \* observer: which ones
    pc              \* "list", "item" or "done"

walk == <<limit, offset, items, page, count, yielded, pc>>
vars == <<folder, arrived, there, walk>>

(* Where the walk stands in the listing: what it has seen came before.     *)
Reach == IF pc = "item" THEN offset + items ELSE offset

TypeOK ==
    /\ folder \subseteq 1 .. arrived /\ arrived \in InitialMail .. MaxMail
    /\ there \subseteq folder
    /\ limit \in Limits
    /\ offset \in Nat /\ Reach <= arrived
    /\ items \in 0 .. PageSize
    /\ page \subseteq 1 .. arrived
    /\ yielded \subseteq 1 .. arrived
    /\ count \in Nat /\ (limit # Unlimited => count <= limit)
    /\ pc \in {"list", "item", "done"}

Init ==
    /\ folder = 1 .. InitialMail /\ there = folder
    /\ arrived = InitialMail
    /\ limit \in Limits
    /\ offset = 0 /\ items = 0 /\ count = 0
    /\ page = {} /\ yielded = {}
    /\ pc = "list"

Arrive ==
    /\ arrived < MaxMail
    /\ arrived' = arrived + 1
    /\ folder' = folder \cup {arrived'}
    /\ UNCHANGED <<there, walk>>

Expunge ==
    /\ \E m \in folder : folder' = folder \ {m} /\ there' = there \ {m}
    /\ UNCHANGED <<arrived, walk>>

-----------------------------------------------------------------------------
(* The place of a message in the listing: how many newer ones there are.   *)
Place(m) == Cardinality({n \in folder : m < n})

(* mail?action=all with a descending sort and a limit of offset, PageSize. *)
Rows == {m \in folder : offset <= Place(m) /\ Place(m) < offset + PageSize}

(* Mutant: an empty page is asked for again.                               *)
List_EmptyAgain ==
    /\ pc = "list"
    /\ page' = Rows
    /\ items' = Cardinality(Rows)
    /\ pc' = IF page' = {} THEN "list" ELSE "item"
    /\ UNCHANGED <<folder, arrived, there, limit, offset, count, yielded>>

List ==
    /\ pc = "list"
    /\ page' = Rows
    /\ items' = Cardinality(Rows)
    /\ pc' = IF page' = {} THEN "done" ELSE "item"
    /\ UNCHANGED <<folder, arrived, there, limit, offset, count, yielded>>

(* Mutant: the limit is tested between pages only.                         *)
AtLimit_PerPage == limit # Unlimited /\ Cardinality(page) = items /\ count >= limit

AtLimit == limit # Unlimited /\ count >= limit

LimitReached ==
    /\ pc = "item" /\ page # {}
    /\ AtLimit
    /\ pc' = "done"
    /\ UNCHANGED <<folder, arrived, there, limit, offset, items, page, count, yielded>>

(* The rows of a page come newest first.                                   *)
YieldItem ==
    /\ pc = "item"
    /\ ~AtLimit
    /\ \E m \in page :
         /\ \A n \in page : n <= m
         /\ page' = page \ {m}
         /\ yielded' = yielded \cup {m}
    /\ count' = count + 1
    /\ UNCHANGED <<folder, arrived, there, limit, offset, items, pc>>

(* Mutant: a message between two pages is passed over.                     *)
Advance_PastOne == offset' = offset + items + 1
Advance == offset' = offset + items

(* A page that is not full is the last one.                                *)
EndPage ==
    /\ pc = "item" /\ page = {}
    /\ \/ items < PageSize /\ pc' = "done" /\ UNCHANGED offset
       \/ items = PageSize /\ pc' = "list" /\ Advance
    /\ UNCHANGED <<folder, arrived, there, limit, items, page, count, yielded>>

Generator == List \/ LimitReached \/ YieldItem \/ EndPage

Next == Arrive \/ Expunge \/ Generator

Spec == Init /\ [][Next]_vars

(* The consumer keeps asking for the next row.                             *)
LiveSpec == Spec /\ WF_vars(Generator)

-----------------------------------------------------------------------------
(* A walk that ends before its limit has yielded every message that was    *)
(* there all along, but for at most one for each message expunged under it *)
(* (an expunge moves the rest of the listing up past the next offset):     *)
(* where nothing is expunged it is the whole folder, whatever arrives.     *)
SkipsBounded ==
    pc = "done" /\ ~AtLimit
        => Cardinality(there \ yielded) <= arrived - Cardinality(folder)

(* A row is repeated only because mail that arrived pushed it onto the next*)
(* page: there are no more repetitions than arrivals.                      *)
RepeatsBounded ==
    count <= Cardinality(yielded) + (arrived - InitialMail)

(* docs/reading.md: iter_messages "pages automatically and yields raw      *)
(* rows"; a walk through a folder that changes skips and repeats no more of*)
(* them than the changes explain.                                          *)
WalkBounded == SkipsBounded /\ RepeatsBounded

(* The walk ends: it does not chase the end of the folder.                 *)
Ends == <>(pc = "done")
=============================================================================
