---------------------------- MODULE WatcherProofs ----------------------------
(***************************************************************************)
(* Proofs about Watcher, for every size of the folder, every batch size    *)
(* and every history length.                                               *)
(***************************************************************************)
EXTENDS Watcher, FiniteSetTheorems, TLAPS

-----------------------------------------------------------------------------
(* Facts about the operators of the poll. *)

(* The number of ids in a set of UIDs is a natural number. *)
LEMMA UidCount ==
    ASSUME NEW S \in SUBSET Uid
    PROVE  /\ IsFiniteSet(S)
           /\ Cardinality(S) \in Nat
<1>1. IsFiniteSet(Uid)
  BY FS_Interval, ConfigAssumption DEF Uid
<1> QED
  BY <1>1, FS_Subset, FS_CardinalityType

(* A checkpoint's seen_ids stay a list of UIDs when a poll adds to them.   *)
LEMMA RememberType ==
    ASSUME NEW seen \in SeenIds, NEW ids \in SUBSET Uid
    PROVE  Remember(seen, ids) \in SeenIds
<1> DEFINE new == {u \in ids : seen[u] = 0}
<1>1. /\ new \in SUBSET Uid
      /\ Cardinality(new) \in Nat
  BY UidCount
<1>2. ASSUME NEW u \in Uid
      PROVE  /\ Place(new, u) \in Nat
             /\ seen[u] \in Nat
  BY <1>1, UidCount DEF Place, SeenIds
<1> QED
  BY <1>1, <1>2, ConfigAssumption DEF Remember, SeenIds

LEMMA BacklogIdsType ==
    ASSUME NEW ids \in SUBSET Uid
    PROVE  BacklogIds(ids) \in SeenIds
<1>1. ASSUME NEW u \in Uid
      PROVE  Place(ids, u) \in Nat
  BY UidCount DEF Place
<1> QED
  BY <1>1 DEF BacklogIds, SeenIds

LEMMA BlankType == Blank \in Checkpoint /\ NoState \in FolderState
BY ConfigAssumption DEF Blank, Checkpoint, NoState, FolderState, Nothing, SeenIds

LEMMA StateOfType ==
    ASSUME TypeOK
    PROVE  StateOf(mailbox) \in FolderState
<1>1. Cardinality(mailbox.uids) \in Nat
  BY UidCount DEF TypeOK
<1> QED
  BY <1>1, ConfigAssumption DEF TypeOK, StateOf, FolderState

(* What Save writes is a checkpoint. *)
LEMMA NewCheckpointType ==
    ASSUME TypeOK
    PROVE  NewCheckpoint \in Checkpoint
<1>1. Ids(rows) \in SUBSET Uid
  BY DEF TypeOK, Ids, Row
<1>2. /\ BacklogIds(Ids(rows)) \in SeenIds
      /\ Remember(loaded.seen, Ids(rows)) \in SeenIds
  BY <1>1, BacklogIdsType, RememberType DEF TypeOK, Checkpoint
<1> QED
  BY <1>2 DEF TypeOK, NewCheckpoint, Checkpoint, FolderState

(* Fetched rows, asked for or not, are rows of the folder as it is.        *)
LEMMA FetchedType ==
    ASSUME TypeOK, NEW S
    PROVE  /\ HeaderRows(S) \in SUBSET Row
           /\ \A extra \in Unsolicited : extra \in SUBSET Row
BY DEF TypeOK, HeaderRows, Row, Unsolicited, FlagRows

-----------------------------------------------------------------------------
(* Every variable keeps its type. *)

LEMMA InitType == Init => TypeOK
<1> SUFFICES ASSUME Init PROVE TypeOK
  OBVIOUS
<1>1. mailbox \in [validity : 1..MaxValidity, next : 1..(MaxUid + 1), uids : SUBSET Uid]
  BY ConfigAssumption DEF Init
<1>2. delivered \in [Message -> 0..2]
  BY DEF Init
<1>3. checkpoint \in Checkpoint /\ loaded \in Checkpoint /\ snap \in FolderState
  BY BlankType DEF Init
<1> QED
  BY <1>1, <1>2, <1>3 DEF Init, TypeOK, Steps

LEMMA NextType == TypeOK /\ [Next]_vars => TypeOK'
<1> SUFFICES ASSUME TypeOK, [Next]_vars
             PROVE  TypeOK'
  OBVIOUS
<1> USE DEF TypeOK, Steps, PollSteps, poll, observed
<1> USE BlankType
<1>1. CASE Arrive
  <2>1. mailbox.next + 1 \in 1..(MaxUid + 1) /\ mailbox.next \in Uid
    BY <1>1, ConfigAssumption DEF Arrive, Uid
  <2>2. mailbox' \in [validity : 1..MaxValidity, next : 1..(MaxUid + 1), uids : SUBSET Uid]
    BY <1>1, <2>1 DEF Arrive
  <2> QED
    BY <1>1, <2>2 DEF Arrive
<1>2. CASE Expunge
  BY <1>2 DEF Expunge
<1>3. CASE Recreate
  BY <1>3, ConfigAssumption DEF Recreate
<1>4. CASE LoopTest
  BY <1>4 DEF LoopTest
<1>5. CASE ReadState
  BY <1>5, StateOfType DEF ReadState
<1>6. CASE LoadBaseline
  BY <1>6 DEF LoadBaseline
<1>7. CASE LoadUnchanged
  BY <1>7 DEF LoadUnchanged, ForgetPoll
<1>8. CASE LoadChanged
  <2>1. Candidates(checkpoint, snap) \in SUBSET Uid
    BY DEF Candidates
  <2> QED
    BY <1>8, <2>1 DEF LoadChanged
<1>9. CASE Recent
  <2>1. rows' \in SUBSET Row
    <3>1. CASE rows' = HeaderRows(RecentByCount)
      BY <3>1, FetchedType
    <3>2. CASE \E extra \in Unsolicited : rows' = Last(HeaderRows(RecentByUid) \cup extra)
      <4>1. PICK extra \in Unsolicited : rows' = Last(HeaderRows(RecentByUid) \cup extra)
        BY <3>2
      <4>2. HeaderRows(RecentByUid) \cup extra \in SUBSET Row
        BY FetchedType
      <4> QED
        BY <4>1, <4>2 DEF Last
    <3> QED
      BY <1>9, <3>1, <3>2 DEF Recent
  <2>2. /\ pc' \in {"detail", "save"}
        /\ UNCHANGED <<mailbox, checkpoint, looping, opened, stopped, snap, loaded, todo, observed>>
    BY <1>9 DEF Recent, AfterFetch
  <2> QED
    BY <2>1, <2>2
<1>10. CASE FetchChunk
  <2>1. rows' \in SUBSET Row
    BY <1>10, FetchedType DEF FetchChunk
  <2> QED
    BY <1>10, <2>1 DEF FetchChunk, AfterFetch
<1>11. CASE FetchBodies
  BY <1>11 DEF FetchBodies
<1>12. CASE Save
  <2>1. base' \in Nat
    BY <1>12 DEF Save, FolderState
  <2> QED
    BY <1>12, <2>1, NewCheckpointType DEF Save
<1>13. CASE Yield
  <2>1. delivered' \in [Message -> 0..2]
    <3>1. PICK r \in rows : delivered' = [delivered EXCEPT ![Message1(r)] = IF @ = 2 THEN 2 ELSE @ + 1]
      BY <1>13 DEF Yield
    <3>2. Message1(r) \in Message
      BY DEF Message1, Message, Row
    <3> QED
      BY <3>1, <3>2
  <2>2. rows' \in SUBSET Row
    BY <1>13 DEF Yield
  <2>3. /\ pc' = "handling"
        /\ UNCHANGED <<mailbox, checkpoint, looping, opened, stopped, snap, loaded, todo, lost, base>>
    BY <1>13 DEF Yield
  <2> QED
    BY <2>1, <2>2, <2>3
<1>14. CASE StopMidBatch \/ Abandon \/ Crash
  <2>1. Pending \in SUBSET Message
    BY DEF Pending, Message1, Row, Message
  <2> QED
    BY <1>14, <2>1 DEF StopMidBatch, Abandon, Crash, GiveUpPending, ForgetPoll
<1>15. CASE EndBatch
  BY <1>15 DEF EndBatch
<1>16. CASE HandlerReturns
  BY <1>16 DEF HandlerReturns
<1>17. CASE WaitReturns
  BY <1>17 DEF WaitReturns
<1>18. CASE BackoffEnds
  BY <1>18 DEF BackoffEnds
<1>19. CASE CallFails
  BY <1>19 DEF CallFails, ForgetPoll
<1>20. CASE Start
  BY <1>20 DEF Start
<1>21. CASE PollOnce
  BY <1>21 DEF PollOnce
<1>22. CASE Stop
  BY <1>22 DEF Stop
<1>23. CASE Close
  BY <1>23 DEF Close
<1>24. CASE Reset
  BY <1>24 DEF Reset
<1>25. CASE UNCHANGED vars
  BY <1>25 DEF vars
<1> QED
  BY <1>1, <1>2, <1>3, <1>4, <1>5, <1>6, <1>7, <1>8, <1>9, <1>10, <1>11, <1>12,
     <1>13, <1>14, <1>15, <1>16, <1>17, <1>18, <1>19, <1>20, <1>21, <1>22, <1>23,
     <1>24, <1>25
     DEF Next, MailboxNext, LoopNext, PollNext, ProgramNext, Interruption

(* In every reachable state every variable of the watcher has its type:    *)
(* candidates and rows stay within the UIDs the folder has handed out.     *)
THEOREM TypeCorrect == Spec => []TypeOK
BY InitType, NextType, PTL DEF Spec

-----------------------------------------------------------------------------
(* No message is handed over twice. *)

LEMMA InitClaim == Init => ClaimInvariant
BY ConfigAssumption
   DEF Init, ClaimInvariant, UidsGrow, PastKnown, PastCheckpointed, SnapCurrent,
       LoadedCurrent, RowsNew, RowsPlaced, PendingNew, NoDuplicate, Past, Pending,
       Claiming

(* The folder's own steps leave what was claimed alone and only move on.   *)
LEMMA MailboxClaim ==
    ASSUME TypeOK, ClaimInvariant, MailboxNext
    PROVE  ClaimInvariant'
<1> USE DEF TypeOK, ClaimInvariant, poll, observed
<1>1. /\ UNCHANGED <<checkpoint, pc, looping, opened, stopped, snap, loaded, todo, rows>>
      /\ UNCHANGED <<delivered, lost, base>>
  BY DEF MailboxNext, Arrive, Expunge, Recreate
<1>0. /\ mailbox.validity \in Nat /\ mailbox.next \in Nat
      /\ \A u \in mailbox.uids : u \in Nat
  BY ConfigAssumption DEF Uid
<1>2. /\ mailbox'.validity \in Nat /\ mailbox'.next \in Nat
      /\ \/ mailbox'.validity = mailbox.validity /\ mailbox.next <= mailbox'.next
         \/ mailbox.validity < mailbox'.validity
      /\ \A u \in mailbox'.uids : u < mailbox'.next
  <2>1. CASE Arrive
    <3>1. /\ mailbox'.validity = mailbox.validity
          /\ mailbox'.next = mailbox.next + 1
          /\ mailbox'.uids = mailbox.uids \cup {mailbox.next}
      BY <2>1 DEF Arrive
    <3> QED
      BY <1>0, <3>1 DEF UidsGrow
  <2>2. CASE Expunge
    <3>1. /\ mailbox'.validity = mailbox.validity
          /\ mailbox'.next = mailbox.next
          /\ mailbox'.uids \subseteq mailbox.uids
      BY <2>2 DEF Expunge
    <3> QED
      BY <1>0, <3>1 DEF UidsGrow
  <2>3. CASE Recreate
    <3>1. /\ mailbox'.validity = mailbox.validity + 1
          /\ mailbox'.next = 1
          /\ mailbox'.uids = {}
      BY <2>3 DEF Recreate
    <3> QED
      BY <1>0, <3>1
  <2> QED
    BY <2>1, <2>2, <2>3 DEF MailboxNext
<1>3. UidsGrow'
  BY <1>2 DEF UidsGrow
<1>4. ASSUME NEW m \in Message \cup Row, Before(m, mailbox)
      PROVE  Before(m, mailbox')
  <2>1. m.validity \in Nat /\ m.uid \in Nat
    BY ConfigAssumption DEF Message, Row, Uid
  <2> QED
    BY <1>0, <1>2, <1>4, <2>1 DEF Before
<1>5. \A m : Past(m)' <=> Past(m)
  BY <1>1 DEF Past, Pending
<1>6. Claiming' <=> Claiming
  BY <1>1 DEF Claiming
<1>7. PastKnown'
  BY <1>4, <1>5 DEF PastKnown
<1>8. PastCheckpointed'
  BY <1>1, <1>5 DEF PastCheckpointed
<1>9. SnapCurrent'
  <2>1. snap.validity \in Nat
    BY ConfigAssumption DEF FolderState
  <2> QED
    BY <1>0, <1>1, <1>2, <1>5, <1>6, <2>1 DEF SnapCurrent, Before
<1>10. LoadedCurrent'
  BY <1>1, <1>5, <1>6 DEF LoadedCurrent, Baseline
<1>11. RowsNew'
  BY <1>1, <1>4, <1>6 DEF RowsNew, Baseline
<1>12. RowsPlaced' /\ PendingNew' /\ NoDuplicate'
  BY <1>1, <1>6 DEF RowsPlaced, PendingNew, NoDuplicate, Pending
<1> QED
  BY <1>3, <1>7, <1>8, <1>9, <1>10, <1>11, <1>12

(* A step that keeps the folder, the checkpoint and the claimed messages,  *)
(* and leaves the poll outside of claiming, keeps the invariant.           *)
LEMMA QuietClaim ==
    ASSUME TypeOK, ClaimInvariant,
           UNCHANGED <<mailbox, delivered>>,
           checkpoint' \in {checkpoint, Blank},
           ~Claiming', pc' \notin {"load", "recent"},
           todo' = {},
           \/ rows' = {}
           \/ rows' = rows /\ {pc, pc'} \subseteq {"yield", "handling"},
           \/ GiveUpPending /\ rows' = {}
           \/ lost' = lost /\ Pending' = Pending
    PROVE  ClaimInvariant'
<1> USE DEF TypeOK, ClaimInvariant, GiveUpPending
<1>1. \A m : Past(m)' <=> Past(m)
  BY DEF Past, Pending
<1>2. UidsGrow' /\ PastKnown'
  BY <1>1 DEF UidsGrow, PastKnown, Before
<1>3. PastCheckpointed'
  <2>1. ASSUME NEW m \in Message
        PROVE  m.validity # Blank.validity
    BY <2>1 DEF Message, Blank
  <2> QED
    BY <1>1, <2>1 DEF PastCheckpointed
<1>4. SnapCurrent' /\ LoadedCurrent' /\ RowsNew'
  BY DEF SnapCurrent, LoadedCurrent, RowsNew
<1>5. RowsPlaced'
  BY DEF RowsPlaced
<1>6. PendingNew' /\ NoDuplicate'
  BY DEF PendingNew, NoDuplicate, Pending
<1> QED
  BY <1>2, <1>3, <1>4, <1>5, <1>6

(* A step that changes neither the folder nor the poll keeps it as well,   *)
(* even if the checkpoint is forgotten.                                    *)
LEMMA AsideClaim ==
    ASSUME TypeOK, ClaimInvariant,
           UNCHANGED <<mailbox, pc, poll, observed>>,
           checkpoint' \in {checkpoint, Blank}
    PROVE  ClaimInvariant'
<1> USE DEF TypeOK, ClaimInvariant, poll, observed
<1>1. \A m : Past(m)' <=> Past(m)
  BY DEF Past, Pending
<1>2. Claiming' <=> Claiming
  BY DEF Claiming
<1>3. UidsGrow' /\ PastKnown'
  BY <1>1 DEF UidsGrow, PastKnown, Before
<1>4. PastCheckpointed'
  <2>1. ASSUME NEW m \in Message
        PROVE  m.validity # Blank.validity
    BY <2>1 DEF Message, Blank
  <2> QED
    BY <1>1, <2>1 DEF PastCheckpointed
<1>5. SnapCurrent' /\ LoadedCurrent' /\ RowsNew'
  BY <1>1, <1>2 DEF SnapCurrent, LoadedCurrent, RowsNew, Baseline, Before
<1>6. RowsPlaced' /\ PendingNew' /\ NoDuplicate'
  BY <1>2 DEF RowsPlaced, PendingNew, NoDuplicate, Pending
<1> QED
  BY <1>3, <1>4, <1>5, <1>6

(* The folder state is read when every claimed message is in the folder's  *)
(* past, and becomes the bound of the poll.                                *)
LEMMA ReadStateClaim ==
    ASSUME TypeOK, ClaimInvariant, ReadState
    PROVE  ClaimInvariant'
<1> USE DEF TypeOK, ClaimInvariant, ReadState, observed
<1>1. rows = {} /\ todo = {}
  BY DEF RowsPlaced, Claiming
<1>2. \A m : Past(m)' <=> Past(m)
  BY <1>1 DEF Past, Pending
<1>3. UidsGrow' /\ PastKnown' /\ PastCheckpointed'
  BY <1>2 DEF UidsGrow, PastKnown, PastCheckpointed, Before
<1>4. SnapCurrent'
  <2>1. snap'.validity = mailbox.validity /\ snap'.next = mailbox.next
    BY DEF StateOf
  <2>2. mailbox.validity \in Nat
    BY ConfigAssumption
  <2> QED
    BY <1>2, <2>1, <2>2 DEF SnapCurrent, PastKnown, Before
<1>5. LoadedCurrent' /\ RowsNew'
  BY DEF LoadedCurrent, RowsNew, Claiming
<1>6. RowsPlaced' /\ PendingNew' /\ NoDuplicate'
  BY <1>1 DEF RowsPlaced, PendingNew, NoDuplicate, Pending
<1> QED
  BY <1>3, <1>4, <1>5, <1>6

(* The checkpoint is loaded: a baseline claims nothing, anything else      *)
(* claims from the checkpoint's next_id on.                                *)
LEMMA LoadClaim ==
    ASSUME TypeOK, ClaimInvariant, ~IncludeExisting, LoadBaseline \/ LoadChanged
    PROVE  ClaimInvariant'
<1> USE DEF TypeOK, ClaimInvariant, observed
<1>1. /\ pc = "load"
      /\ loaded' = checkpoint
      /\ pc' \in {"save", "fetch"}
      /\ pc' = "save" => todo' = {}
      /\ UNCHANGED <<mailbox, checkpoint, snap, rows, delivered, lost>>
  BY DEF LoadBaseline, LoadChanged, RowsPlaced
<1>2. rows = {} /\ todo = {}
  BY <1>1 DEF RowsPlaced, Claiming
<1>3. \A m : Past(m)' <=> Past(m)
  BY <1>1, <1>2 DEF Past, Pending
<1>4. UidsGrow' /\ PastKnown' /\ PastCheckpointed'
  BY <1>1, <1>3 DEF UidsGrow, PastKnown, PastCheckpointed, Before
<1>5. SnapCurrent'
  BY <1>1, <1>3 DEF SnapCurrent, Before
<1>6. LoadedCurrent'
  BY <1>1, <1>3 DEF LoadedCurrent, PastCheckpointed
<1>7. RowsNew'
  <2>1. CASE LoadBaseline
    BY <1>1, <1>2, <2>1 DEF LoadBaseline, RowsNew
  <2>2. CASE LoadChanged
    <3>1. ~Baseline(loaded, snap)'
      BY <1>1, <2>2 DEF LoadChanged, Baseline
    <3>2. todo' = Candidates(loaded', snap')
      BY <1>1, <2>2 DEF LoadChanged
    <3> QED
      BY <1>1, <1>2, <3>1, <3>2 DEF RowsNew, Candidates
  <2> QED
    BY <2>1, <2>2
<1>8. RowsPlaced' /\ PendingNew' /\ NoDuplicate'
  BY <1>1, <1>2 DEF RowsPlaced, PendingNew, NoDuplicate, Pending, Claiming
<1> QED
  BY <1>4, <1>5, <1>6, <1>7, <1>8

(* The server answers a chunk with rows of the chunk only. *)
LEMMA FetchClaim ==
    ASSUME TypeOK, ClaimInvariant, ~UnsolicitedFlags, FetchChunk
    PROVE  ClaimInvariant'
<1> USE DEF TypeOK, ClaimInvariant, observed
<1>1. /\ pc = "fetch"
      /\ rows' = rows \cup HeaderRows(Chunk(todo))
      /\ todo' \subseteq todo
      /\ pc' \in {"fetch", "detail", "save"}
      /\ todo' # {} => pc' = "fetch"
      /\ UNCHANGED <<mailbox, checkpoint, snap, loaded, delivered, lost>>
  BY DEF FetchChunk, Unsolicited, AfterFetch
<1>2. Claiming /\ Claiming'
  BY <1>1 DEF Claiming
<1>3. \A m : Past(m)' <=> Past(m)
  BY <1>1 DEF Past, Pending
<1>4. UidsGrow' /\ PastKnown' /\ PastCheckpointed'
  BY <1>1, <1>3 DEF UidsGrow, PastKnown, PastCheckpointed, Before
<1>5. SnapCurrent' /\ LoadedCurrent'
  BY <1>1, <1>2, <1>3 DEF SnapCurrent, LoadedCurrent, Baseline, Before
<1>6. ASSUME NEW r \in HeaderRows(Chunk(todo))
      PROVE  /\ r.uid \in todo /\ r.uid \in mailbox.uids
             /\ r.validity = mailbox.validity
             /\ r.kind = "header"
  BY <1>6 DEF HeaderRows, Chunk
<1>7. RowsNew'
  <2>1. \A r \in HeaderRows(Chunk(todo)) : Before(r, mailbox) /\ snap.validity <= r.validity
    BY <1>2, <1>6 DEF Before, UidsGrow, SnapCurrent
  <2>2. \A r \in HeaderRows(Chunk(todo)) : loaded.next <= r.uid /\ r.uid < snap.next
    BY <1>2, <1>6 DEF RowsNew
  <2>3. Baseline(loaded, snap) => HeaderRows(Chunk(todo)) = {}
    BY <1>2, <1>6 DEF RowsNew
  <2> QED
    BY <1>1, <1>2, <2>1, <2>2, <2>3 DEF RowsNew, Baseline, Before
<1>8. RowsPlaced'
  BY <1>1, <1>2, <1>6 DEF RowsPlaced
<1>9. PendingNew' /\ NoDuplicate'
  BY <1>1 DEF PendingNew, NoDuplicate, Pending
<1> QED
  BY <1>4, <1>5, <1>7, <1>8, <1>9

LEMMA FetchBodiesClaim ==
    ASSUME TypeOK, ClaimInvariant, FetchBodies
    PROVE  ClaimInvariant'
<1> USE DEF TypeOK, ClaimInvariant, FetchBodies, poll, observed
<1>1. \A m : Past(m)' <=> Past(m)
  BY DEF Past, Pending
<1>2. Claiming /\ Claiming'
  BY DEF Claiming
<1>3. UidsGrow' /\ PastKnown' /\ PastCheckpointed'
  BY <1>1 DEF UidsGrow, PastKnown, PastCheckpointed, Before
<1>4. SnapCurrent' /\ LoadedCurrent' /\ RowsNew'
  BY <1>1, <1>2 DEF SnapCurrent, LoadedCurrent, RowsNew, Baseline, Before
<1>5. RowsPlaced' /\ PendingNew' /\ NoDuplicate'
  BY <1>2 DEF RowsPlaced, PendingNew, NoDuplicate, Pending
<1> QED
  BY <1>3, <1>4, <1>5

(* What is fetched when the checkpoint is saved was never claimed before:  *)
(* in the folder's own incarnation it has a UID the loaded checkpoint did  *)
(* not reach, and a later incarnation has claimed nothing yet.             *)
LEMMA RowsUnclaimed ==
    ASSUME TypeOK, ClaimInvariant, pc = "save", NEW r \in rows
    PROVE  /\ Message1(r) \in Message
           /\ ~Past(Message1(r))
<1> DEFINE m == Message1(r)
<1> USE DEF TypeOK, ClaimInvariant
<1>1. /\ m \in Message
      /\ m.validity = r.validity /\ m.uid = r.uid
      /\ m.validity \in Nat /\ m.uid \in Nat
  BY ConfigAssumption DEF Message1, Message, Row, Uid
<1>2. /\ ~Baseline(loaded, snap)
      /\ loaded.next <= m.uid
      /\ snap.validity <= m.validity
  BY <1>1 DEF RowsNew, Claiming
<1>3. SUFFICES ASSUME Past(m) PROVE FALSE
  BY <1>1
<1>4. Before(m, snap)
  BY <1>1, <1>3 DEF SnapCurrent, Claiming
<1>5. snap.validity \in Nat /\ loaded.next \in Nat
  BY ConfigAssumption DEF FolderState, Checkpoint
<1>6. m.validity = snap.validity /\ snap.validity = loaded.validity
  BY <1>1, <1>2, <1>4, <1>5 DEF Before, Baseline
<1>7. m.uid < loaded.next
  BY <1>1, <1>2, <1>3, <1>6 DEF LoadedCurrent, Claiming
<1> QED
  BY <1>1, <1>2, <1>5, <1>7

(* Saving the checkpoint claims the fetched messages. *)
LEMMA SaveClaim ==
    ASSUME TypeOK, ClaimInvariant, Save
    PROVE  ClaimInvariant'
<1> USE DEF TypeOK, ClaimInvariant
<1>1. /\ pc = "save" /\ pc' = "yield"
      /\ checkpoint'.validity = snap.validity
      /\ checkpoint'.next = snap.next
      /\ UNCHANGED <<mailbox, todo, rows, delivered, lost>>
  BY DEF Save, NewCheckpoint
<1>2. /\ Claiming /\ ~Claiming'
      /\ todo = {}
  BY <1>1 DEF Claiming, RowsPlaced
<1>3. Pending = {} /\ Pending' = {Message1(r) : r \in rows}
  BY <1>1 DEF Pending
<1>4. \A m : Past(m)' <=> Past(m) \/ \E r \in rows : m = Message1(r)
  BY <1>1, <1>3 DEF Past
<1>5. \A r \in rows :
        /\ Message1(r).uid < snap.next
        /\ Before(Message1(r), mailbox)
        /\ Message1(r) \in Message
        /\ ~Past(Message1(r))
  BY <1>1, <1>2, RowsUnclaimed DEF RowsNew, Message1, Before
<1>6. UidsGrow' /\ PastKnown'
  BY <1>1, <1>4, <1>5 DEF UidsGrow, PastKnown, Before
<1>7. PastCheckpointed'
  <2>1. ASSUME NEW m \in Message, Past(m), m.validity = snap.validity
        PROVE  m.uid < snap.next
    <3>1. Before(m, snap)
      BY <1>2, <2>1 DEF SnapCurrent
    <3>2. snap.validity \in Nat
      BY ConfigAssumption DEF FolderState
    <3> QED
      BY <2>1, <3>1, <3>2 DEF Before
  <2> QED
    BY <1>1, <1>4, <1>5, <2>1 DEF PastCheckpointed
<1>8. SnapCurrent' /\ LoadedCurrent' /\ RowsNew'
  BY <1>1, <1>2 DEF SnapCurrent, LoadedCurrent, RowsNew
<1>9. RowsPlaced'
  BY <1>1, <1>2 DEF RowsPlaced
<1>10. PendingNew' /\ NoDuplicate'
  <2>1. \A m \in Message : ~Past(m) => delivered[m] = 0 /\ m \notin lost
    BY DEF Past, NoDuplicate
  <2> QED
    BY <1>1, <1>3, <1>5, <2>1 DEF PendingNew, NoDuplicate
<1> QED
  BY <1>6, <1>7, <1>8, <1>9, <1>10

(* A message leaves the batch when it is handed over. *)
LEMMA YieldClaim ==
    ASSUME TypeOK, ClaimInvariant, Yield
    PROVE  ClaimInvariant'
<1> USE DEF TypeOK, ClaimInvariant
<1>1. PICK r \in rows :
        /\ rows' = rows \ {r}
        /\ delivered' = [delivered EXCEPT ![Message1(r)] = IF @ = 2 THEN 2 ELSE @ + 1]
  BY DEF Yield
<1> DEFINE m == Message1(r)
<1>2. /\ pc = "yield" /\ pc' = "handling"
      /\ UNCHANGED <<mailbox, checkpoint, todo, lost>>
  BY DEF Yield
<1>3. /\ m \in Message
      /\ Pending = {Message1(s) : s \in rows}
      /\ m \in Pending
  BY <1>2 DEF Pending, Message1, Message, Row
<1>4. Pending' = Pending \ {m}
  <2>1. ASSUME NEW s \in rows, s # r
        PROVE  Message1(s) # m
    BY <2>1 DEF Row, Message1, RowsPlaced
  <2>2. Pending' = {Message1(s) : s \in rows \ {r}}
    BY <1>1, <1>2 DEF Pending
  <2> QED
    BY <1>3, <2>1, <2>2
<1>5. delivered[m] = 0 /\ m \notin lost
  BY <1>3 DEF PendingNew
<1>6. /\ delivered'[m] = 1
      /\ \A n \in Message \ {m} : delivered'[n] = delivered[n]
  BY <1>1, <1>3, <1>5
<1>7. \A n \in Message : Past(n)' <=> Past(n)
  BY <1>2, <1>3, <1>4, <1>5, <1>6 DEF Past
<1>8. UidsGrow' /\ PastKnown' /\ PastCheckpointed'
  BY <1>2, <1>7 DEF UidsGrow, PastKnown, PastCheckpointed, Before
<1>9. SnapCurrent' /\ LoadedCurrent' /\ RowsNew'
  BY <1>2 DEF SnapCurrent, LoadedCurrent, RowsNew, Claiming
<1>10. RowsPlaced'
  BY <1>1, <1>2 DEF RowsPlaced
<1>11. PendingNew' /\ NoDuplicate'
  BY <1>2, <1>4, <1>5, <1>6 DEF PendingNew, NoDuplicate
<1> QED
  BY <1>8, <1>9, <1>10, <1>11

(* The steps around the poll: the loop's own bookkeeping, failures, stops  *)
(* and crashes.                                                            *)
LEMMA AroundClaim ==
    ASSUME TypeOK, ClaimInvariant,
           \/ Start \/ PollOnce \/ LoopTest \/ LoadUnchanged \/ StopMidBatch
           \/ EndBatch \/ HandlerReturns \/ WaitReturns \/ BackoffEnds \/ CallFails
           \/ Abandon \/ Crash
    PROVE  ClaimInvariant'
<1> USE DEF poll, observed, ForgetPoll, Claiming
<1>0. /\ RowsPlaced
      /\ \A P \in {rows, todo} : P = {} \/ P # {}
  BY DEF ClaimInvariant
<1>1. CASE Start \/ PollOnce \/ LoopTest \/ WaitReturns \/ BackoffEnds
  <2>1. /\ pc \in {"idle", "test", "wait", "backoff"}
        /\ pc' \in {"idle", "test", "state"}
        /\ UNCHANGED <<mailbox, checkpoint, todo, rows, delivered, lost>>
    BY <1>1 DEF Start, PollOnce, LoopTest, WaitReturns, BackoffEnds
  <2>2. rows = {} /\ todo = {}
    BY <1>0, <2>1 DEF RowsPlaced
  <2> QED
    BY <2>1, <2>2, QuietClaim DEF Pending
<1>2. CASE LoadUnchanged \/ CallFails
  <2>1. /\ pc \notin {"yield", "handling"}
        /\ pc' \in {"idle", "backoff", "yield"}
        /\ todo' = {} /\ rows' = {}
        /\ UNCHANGED <<mailbox, checkpoint, delivered, lost>>
    BY <1>2 DEF LoadUnchanged, CallFails
  <2> QED
    BY <2>1, QuietClaim DEF Pending
<1>3. CASE EndBatch \/ HandlerReturns
  <2>1. /\ pc \in {"yield", "handling"}
        /\ pc' \in {"idle", "wait", "yield"}
        /\ pc' # "yield" => rows = {}
        /\ UNCHANGED <<mailbox, checkpoint, todo, rows, delivered, lost>>
    BY <1>3 DEF EndBatch, HandlerReturns
  <2>2. todo = {}
    BY <1>0, <2>1 DEF RowsPlaced
  <2> QED
    BY <2>1, <2>2, QuietClaim DEF Pending
<1>4. CASE StopMidBatch \/ Abandon \/ Crash
  <2>1. /\ pc' = "idle"
        /\ checkpoint' \in {checkpoint, Blank}
        /\ todo' = {} /\ rows' = {}
        /\ GiveUpPending
        /\ UNCHANGED <<mailbox, delivered>>
    BY <1>4 DEF StopMidBatch, Abandon, Crash
  <2> QED
    BY <2>1, QuietClaim
<1> QED
  BY <1>1, <1>2, <1>3, <1>4

LEMMA NextClaim ==
    ASSUME ~IncludeExisting, ~UnsolicitedFlags, TypeOK, ClaimInvariant, [Next]_vars
    PROVE  ClaimInvariant'
<1>1. CASE MailboxNext
  BY <1>1, MailboxClaim
<1>2. CASE \/ Start \/ PollOnce \/ LoopTest \/ LoadUnchanged \/ StopMidBatch
           \/ EndBatch \/ HandlerReturns \/ WaitReturns \/ BackoffEnds \/ CallFails
           \/ Abandon \/ Crash
  BY <1>2, AroundClaim
<1>3. CASE Stop \/ Close \/ Reset \/ UNCHANGED vars
  <2>1. UNCHANGED <<mailbox, pc, poll, observed>> /\ checkpoint' \in {checkpoint, Blank}
    BY <1>3 DEF Stop, Close, Reset, vars
  <2> QED
    BY <2>1, AsideClaim
<1>4. CASE ReadState
  BY <1>4, ReadStateClaim
<1>5. CASE LoadBaseline \/ LoadChanged
  BY <1>5, LoadClaim
<1>6. CASE FetchChunk
  BY <1>6, FetchClaim
<1>7. CASE FetchBodies
  BY <1>7, FetchBodiesClaim
<1>8. CASE Save
  BY <1>8, SaveClaim
<1>9. CASE Yield
  BY <1>9, YieldClaim
<1>10. CASE Recent
  BY <1>10 DEF Recent, ClaimInvariant, RowsPlaced
<1> QED
  BY <1>1, <1>2, <1>3, <1>4, <1>5, <1>6, <1>7, <1>8, <1>9, <1>10
     DEF Next, LoopNext, PollNext, ProgramNext, Interruption

(* The invariant the next theorem rests on: what a poll is about to claim  *)
(* is newer than everything any poll claimed before.                       *)
THEOREM ClaimsAreNew ==
    ASSUME ~IncludeExisting, ~UnsolicitedFlags
    PROVE  Spec => []ClaimInvariant
<1>1. Spec => []TypeOK
  BY TypeCorrect
<1>2. TypeOK /\ ClaimInvariant /\ [Next]_vars => ClaimInvariant'
  BY NextClaim
<1> QED
  BY <1>1, <1>2, InitClaim, PTL DEF Spec

(* A watcher that replays no backlog, on a server that answers a FETCH     *)
(* with the rows it was asked for, hands no message over twice: whatever   *)
(* the program does, whatever fails, with any store and any history.       *)
THEOREM AtMostOnce ==
    ASSUME ~IncludeExisting, ~UnsolicitedFlags
    PROVE  Spec => []NoDuplicate
<1>1. ClaimInvariant => NoDuplicate
  BY DEF ClaimInvariant
<1> QED
  BY <1>1, ClaimsAreNew, PTL

-----------------------------------------------------------------------------
(* Why no message is skipped, under every configuration.                   *)

(* m was claimed, and not silently: it was handed over, is about to be, or *)
(* was given up with its batch.                                            *)
Handled(m) == delivered[m] > 0 \/ m \in Pending \/ m \in lost

Here(u) == [validity |-> mailbox.validity, uid |-> u]

(* What the watcher has read is no newer than the folder. *)
NotAhead(state) ==
    /\ state.validity <= mailbox.validity
    /\ state.validity = mailbox.validity => state.next <= mailbox.next

KnowsPast(c) ==
    /\ NotAhead(c)
    /\ c.validity = mailbox.validity => \A u \in Uid : c.seen[u] > 0 => u < mailbox.next

Fetched == pc \in {"fetch", "detail", "save"}

PastOnly ==
    /\ KnowsPast(checkpoint) /\ KnowsPast(loaded) /\ NotAhead(snap)
    /\ \A u \in mailbox.uids : u < mailbox.next
    /\ \A r \in rows : /\ NotAhead([validity |-> r.validity, next |-> r.uid + 1])
                       /\ Fetched => snap.validity <= r.validity
    /\ rows # {} => Fetched \/ pc \in {"yield", "handling"}
    /\ pc = "recent" => Baseline(loaded, snap)

(* A checkpoint passes over nothing and knows nothing but what was handled.*)
Honest(c) ==
    c.validity = mailbox.validity =>
        \A u \in mailbox.uids :
            (base <= u /\ u < c.next) \/ c.seen[u] > 0 => Handled(Here(u))

(* A poll that continues its checkpoint fetches all that it will claim.    *)
Continued == Fetched /\ ~Baseline(loaded, snap)

Covered ==
    Continued =>
        /\ pc # "fetch" => todo = {}
        /\ snap.validity = mailbox.validity =>
             \A u \in mailbox.uids :
                 loaded.next <= u /\ u < snap.next /\ loaded.seen[u] = 0 =>
                     u \in todo \/ \E r \in rows : Message1(r) = Here(u)

HonestInv ==
    /\ Honest(checkpoint)
    /\ Continued => Honest(loaded)
    /\ Covered

(* The folder's UIDs only rise, and a new incarnation begins empty.        *)
LEMMA MailboxGrows ==
    ASSUME TypeOK, [Next]_vars
    PROVE  /\ mailbox'.validity >= mailbox.validity
           /\ mailbox'.validity = mailbox.validity =>
                /\ mailbox'.next >= mailbox.next
                /\ \A u \in mailbox'.uids : u \in mailbox.uids \/ u = mailbox.next
           /\ mailbox'.validity # mailbox.validity => mailbox'.uids = {}
<1> USE DEF TypeOK
<1>1. CASE Arrive
  BY <1>1 DEF Arrive
<1>2. CASE Expunge
  BY <1>2 DEF Expunge
<1>3. CASE Recreate
  BY <1>3 DEF Recreate
<1>4. CASE UNCHANGED mailbox
  BY <1>4
<1>5. LoopNext \/ CallFails \/ ProgramNext \/ UNCHANGED vars => UNCHANGED mailbox
  BY DEF LoopNext, LoopTest, PollNext, ReadState, LoadBaseline, LoadUnchanged, LoadChanged,
         Recent, FetchChunk, FetchBodies, Save, Yield, StopMidBatch, EndBatch, HandlerReturns,
         WaitReturns, BackoffEnds, CallFails, ProgramNext, Start, PollOnce, Interruption, Stop,
         Close, Abandon, Reset, Crash, vars
<1> QED
  BY <1>1, <1>2, <1>3, <1>4, <1>5 DEF Next, MailboxNext

(* What is known of the past stays past. *)
LEMMA PastKept ==
    ASSUME TypeOK, [Next]_vars
    PROVE  /\ \A s \in FolderState : NotAhead(s) => NotAhead(s)'
           /\ \A c \in Checkpoint : KnowsPast(c) => KnowsPast(c)'
           /\ \A r \in Row : NotAhead([validity |-> r.validity, next |-> r.uid + 1])
                               => NotAhead([validity |-> r.validity, next |-> r.uid + 1])'
<1>1. /\ mailbox'.validity >= mailbox.validity
      /\ mailbox'.validity = mailbox.validity => mailbox'.next >= mailbox.next
      /\ mailbox.validity \in Nat /\ mailbox'.validity \in Nat
      /\ mailbox.next \in Nat /\ mailbox'.next \in Nat
  BY MailboxGrows, NextType, ConfigAssumption DEF TypeOK
<1>2. \A v \in Nat, n \in Nat : NotAhead([validity |-> v, next |-> n])
                                 => NotAhead([validity |-> v, next |-> n])'
  BY <1>1 DEF NotAhead
<1>3. \A s \in FolderState : NotAhead(s) => NotAhead(s)'
  BY <1>1 DEF NotAhead, FolderState
<1>4. \A c \in Checkpoint : KnowsPast(c) => KnowsPast(c)'
  <2> SUFFICES ASSUME NEW c \in Checkpoint, KnowsPast(c) PROVE KnowsPast(c)'
    OBVIOUS
  <2>1. c.validity \in Nat /\ c.next \in Nat /\ \A u \in Uid : u \in Nat
    BY ConfigAssumption DEF Checkpoint, Uid
  <2> QED
    BY <1>1, <2>1 DEF KnowsPast, NotAhead
<1>5. \A r \in Row : r.validity \in Nat /\ r.uid + 1 \in Nat
  BY ConfigAssumption DEF Row, Uid
<1> QED
  BY <1>2, <1>3, <1>4, <1>5

(* No step forgets a message that was handled.                             *)
LEMMA HandledKept ==
    ASSUME TypeOK, PastOnly, [Next]_vars, NEW m \in Message, Handled(m)
    PROVE  Handled(m)'
<1> USE DEF TypeOK, Handled, Pending, poll, observed
<1>1. CASE MailboxNext
  BY <1>1 DEF MailboxNext, Arrive, Expunge, Recreate
<1>2. CASE PollNext
  BY <1>2 DEF PollNext, ReadState, LoadBaseline, LoadUnchanged, LoadChanged, Recent,
              FetchChunk, FetchBodies, Save
<1>3. CASE Yield
  <2>1. PICK r \in rows : /\ rows' = rows \ {r}
                          /\ delivered' = [delivered EXCEPT ![Message1(r)] = IF @ = 2 THEN 2 ELSE @ + 1]
    BY <1>3 DEF Yield
  <2>2. delivered[m] \in 0..2
    OBVIOUS
  <2>3. delivered[m] > 0 \/ m = Message1(r) => delivered'[m] > 0
    BY <2>1, <2>2
  <2>4. pc = "yield" /\ pc' = "handling" /\ lost' = lost
    BY <1>3 DEF Yield
  <2> QED
    BY <2>1, <2>3, <2>4
<1>4. CASE StopMidBatch \/ Abandon \/ Crash
  BY <1>4 DEF StopMidBatch, Abandon, Crash, GiveUpPending
<1>5. CASE LoopTest \/ EndBatch \/ HandlerReturns \/ WaitReturns \/ BackoffEnds
  BY <1>5 DEF LoopTest, EndBatch, HandlerReturns, WaitReturns, BackoffEnds
<1>6. CASE CallFails
  BY <1>6 DEF CallFails
<1>7. CASE Start \/ PollOnce \/ Stop \/ Close \/ Reset \/ UNCHANGED vars
  BY <1>7 DEF Start, PollOnce, Stop, Close, Reset, vars
<1> QED
  BY <1>1, <1>2, <1>3, <1>4, <1>5, <1>6, <1>7 DEF Next, LoopNext, ProgramNext, Interruption

(* A checkpoint that is kept stays honest, whatever happens in the folder. *)
LEMMA HonestKept ==
    ASSUME TypeOK, PastOnly, [Next]_vars, base' = base
    PROVE  \A c \in Checkpoint : KnowsPast(c) /\ Honest(c) => Honest(c)'
<1> SUFFICES ASSUME NEW c \in Checkpoint, KnowsPast(c), Honest(c),
                    c.validity = mailbox'.validity, NEW u \in mailbox'.uids,
                    (base <= u /\ u < c.next) \/ c.seen[u] > 0
             PROVE  Handled(Here(u))'
  BY DEF Honest
<1>1. /\ mailbox.validity \in Nat /\ mailbox'.validity \in Nat /\ mailbox.next \in Nat
      /\ mailbox'.uids \subseteq Uid /\ Uid \subseteq Nat /\ c.next \in Nat /\ c.validity \in Nat
  BY NextType, ConfigAssumption DEF TypeOK, Checkpoint, Uid
<1>2. mailbox'.validity = mailbox.validity
  BY <1>1, MailboxGrows DEF KnowsPast, NotAhead
<1>3. u < mailbox.next
  <2>1. u \in Uid /\ c.validity = mailbox.validity /\ NotAhead(c)
    BY <1>1, <1>2 DEF KnowsPast
  <2>2. CASE u < c.next
    <3>1. c.next <= mailbox.next
      BY <2>1 DEF NotAhead
    <3> QED
      BY <1>1, <2>1, <2>2, <3>1
  <2>3. CASE c.seen[u] > 0
    BY <2>1, <2>3 DEF KnowsPast
  <2> QED
    BY <2>2, <2>3
<1>4. u \in mailbox.uids
  BY <1>1, <1>2, <1>3, MailboxGrows
<1>5. Handled(Here(u)) /\ Here(u) \in Message
  BY <1>1, <1>2, <1>4 DEF Honest, Here, Message, TypeOK
<1>6. Here(u)' = Here(u)
  BY <1>2 DEF Here
<1>7. \A m \in Message : Handled(m) => Handled(m)'
  BY HandledKept
<1> QED
  BY <1>5, <1>6, <1>7 DEF Handled

(* A step outside of the poll leaves its knowledge alone or forgets it.    *)
LEMMA QuietPast ==
    ASSUME TypeOK, PastOnly, UNCHANGED mailbox,
           checkpoint' \in {checkpoint, Blank},
           \/ UNCHANGED <<snap, loaded, rows>> /\ pc' = pc
           \/ /\ UNCHANGED <<snap, loaded>> /\ rows' \subseteq rows
              /\ pc' \notin PollSteps
              /\ rows' # {} => pc' \in {"yield", "handling"}
           \/ /\ UNCHANGED <<snap, loaded, rows>>
              /\ {pc, pc'} \subseteq {"idle", "test", "state", "wait", "backoff"}
           \/ ForgetPoll /\ pc' # "recent"
    PROVE  PastOnly'
<1> USE DEF TypeOK
<1>1. KnowsPast(Blank)' /\ NotAhead(NoState)'
  BY DEF KnowsPast, NotAhead, Blank, NoState, Nothing
<1>2. KnowsPast(checkpoint)'
  BY <1>1 DEF PastOnly, KnowsPast, NotAhead
<1>3. KnowsPast(loaded)' /\ NotAhead(snap)'
  BY <1>1 DEF PastOnly, KnowsPast, NotAhead, ForgetPoll
<1>4. \A u \in mailbox'.uids : u < mailbox'.next
  BY DEF PastOnly
<1>5. \A r \in rows' : NotAhead([validity |-> r.validity, next |-> r.uid + 1])'
  BY DEF PastOnly, NotAhead, ForgetPoll
<1>6. /\ \A r \in rows' : Fetched' => snap'.validity <= r.validity
      /\ rows' # {} => Fetched' \/ pc' \in {"yield", "handling"}
      /\ pc' = "recent" => Baseline(loaded, snap)'
  BY DEF PastOnly, ForgetPoll, Fetched, PollSteps, Baseline
<1> QED
  BY <1>2, <1>3, <1>4, <1>5, <1>6 DEF PastOnly

(* Rows that come with an answer are messages of the folder as it is.      *)
LEMMA FetchedHere ==
    ASSUME NEW S
    PROVE  /\ \A r \in HeaderRows(S) : r.validity = mailbox.validity /\ r.uid \in mailbox.uids
           /\ \A extra \in Unsolicited : \A r \in extra :
                 r.validity = mailbox.validity /\ r.uid \in mailbox.uids
BY DEF HeaderRows, Unsolicited, FlagRows

(* A checkpoint to be saved knows what was fetched and what was known.     *)
LEMMA KnownIds ==
    ASSUME TypeOK, NEW u \in Uid, NewCheckpoint.seen[u] > 0
    PROVE  u \in Ids(rows) \/ (~Baseline(loaded, snap) /\ loaded.seen[u] > 0)
<1>1. loaded.seen[u] \in Nat
  BY DEF TypeOK, Checkpoint, SeenIds
<1>2. SUFFICES ASSUME u \notin Ids(rows)
               PROVE  ~Baseline(loaded, snap) /\ loaded.seen[u] > 0
  OBVIOUS
<1>3. BacklogIds(Ids(rows))[u] = 0
  BY <1>2 DEF BacklogIds
<1>4. loaded.seen[u] = 0 => Remember(loaded.seen, Ids(rows))[u] = 0
  BY <1>2 DEF Remember
<1>5. NewCheckpoint.seen = IF Baseline(loaded, snap) THEN BacklogIds(Ids(rows))
                           ELSE Remember(loaded.seen, Ids(rows))
  BY DEF NewCheckpoint
<1> QED
  BY <1>1, <1>3, <1>4, <1>5

(* What was read and fetched is never ahead of the folder. *)
LEMMA NextPast == TypeOK /\ PastOnly /\ [Next]_vars => PastOnly'
<1> SUFFICES ASSUME TypeOK, PastOnly, [Next]_vars
             PROVE  PastOnly'
  OBVIOUS
<1> USE DEF poll, observed
<1>1. CASE MailboxNext
  <2>1. UNCHANGED <<checkpoint, pc, snap, loaded, rows>>
    BY <1>1 DEF MailboxNext, Arrive, Expunge, Recreate
  <2>2. \A u \in mailbox'.uids : u < mailbox'.next
    <3>1. mailbox.next \in Nat /\ mailbox.uids \subseteq Nat
      BY ConfigAssumption DEF TypeOK, Uid
    <3>2. CASE Arrive
      <4>1. /\ mailbox'.next = mailbox.next + 1
            /\ mailbox'.uids = mailbox.uids \cup {mailbox.next}
        BY <3>2 DEF Arrive, TypeOK
      <4> QED
        BY <3>1, <4>1 DEF PastOnly
    <3>3. CASE Expunge
      BY <3>3 DEF Expunge, PastOnly, TypeOK
    <3>4. CASE Recreate
      BY <3>4 DEF Recreate
    <3> QED
      BY <1>1, <3>2, <3>3, <3>4 DEF MailboxNext
  <2>3. /\ checkpoint \in Checkpoint /\ loaded \in Checkpoint /\ snap \in FolderState
        /\ rows \subseteq Row
    BY DEF TypeOK
  <2>4. KnowsPast(checkpoint)' /\ KnowsPast(loaded)' /\ NotAhead(snap)'
    <3>1. KnowsPast(checkpoint) /\ KnowsPast(loaded) /\ NotAhead(snap)
      BY DEF PastOnly
    <3> QED
      BY <2>1, <2>3, <3>1, PastKept DEF KnowsPast, NotAhead
  <2>5. \A r \in rows : NotAhead([validity |-> r.validity, next |-> r.uid + 1])'
    BY <2>3, PastKept DEF PastOnly
  <2> QED
    BY <2>1, <2>2, <2>4, <2>5 DEF PastOnly, Fetched, Baseline
<1>2. CASE ReadState
  <2>1. NotAhead(snap)'
    BY <1>2, ConfigAssumption DEF ReadState, StateOf, NotAhead, TypeOK
  <2> QED
    BY <1>2, <2>1 DEF ReadState, PastOnly, KnowsPast, NotAhead, Fetched
<1>3. CASE LoadBaseline \/ LoadChanged
  BY <1>3 DEF LoadBaseline, LoadChanged, PastOnly, KnowsPast, NotAhead, Fetched, Baseline
<1>4. CASE Recent \/ FetchChunk
  <2>1. /\ \A r \in rows' : r \in rows \/ (r.validity = mailbox.validity /\ r.uid \in mailbox.uids)
        /\ pc' \in {"fetch", "detail", "save"}
        /\ UNCHANGED <<mailbox, checkpoint, snap, loaded>>
    <3>1. CASE Recent
      BY <3>1, FetchedHere DEF Recent, AfterFetch, Last
    <3>2. CASE FetchChunk
      BY <3>2, FetchedHere DEF FetchChunk, AfterFetch
    <3> QED
      BY <1>4, <3>1, <3>2
  <2>2. \A u \in mailbox.uids : u + 1 <= mailbox.next
    BY ConfigAssumption DEF PastOnly, TypeOK, Uid
  <2>3. mailbox.validity \in Nat
    BY ConfigAssumption DEF TypeOK
  <2>4. \A r \in rows : snap.validity <= r.validity
    BY <1>4 DEF Recent, FetchChunk, PastOnly, Fetched
  <2>5. \A r \in rows' : /\ NotAhead([validity |-> r.validity, next |-> r.uid + 1])
                         /\ snap.validity <= r.validity
    <3> SUFFICES ASSUME NEW r \in rows', r \notin rows
                 PROVE  /\ NotAhead([validity |-> r.validity, next |-> r.uid + 1])
                        /\ snap.validity <= r.validity
      BY <2>4 DEF PastOnly
    <3>1. r.validity = mailbox.validity /\ r.uid + 1 <= mailbox.next
      BY <2>1, <2>2
    <3> QED
      BY <2>3, <3>1 DEF NotAhead, PastOnly
  <2> QED
    BY <2>1, <2>5 DEF PastOnly, KnowsPast, NotAhead, Fetched
<1>5. CASE FetchBodies
  BY <1>5 DEF FetchBodies, PastOnly, KnowsPast, NotAhead, Fetched, Baseline
<1>6. CASE Save
  <2>1. /\ checkpoint' = NewCheckpoint /\ pc = "save" /\ pc' = "yield"
        /\ snap' = NoState /\ loaded' = Blank
        /\ UNCHANGED <<mailbox, rows>>
    BY <1>6 DEF Save
  <2>2. KnowsPast(Blank) /\ NotAhead(NoState) /\ NotAhead(snap)
    BY DEF KnowsPast, NotAhead, Blank, NoState, Nothing, PastOnly, TypeOK
  <2>3. ASSUME snap.validity = mailbox.validity, NEW u \in Uid, NewCheckpoint.seen[u] > 0
        PROVE  u < mailbox.next
    <3>1. (u \in Ids(rows)) \/ (~Baseline(loaded, snap) /\ loaded.seen[u] > 0)
      BY <2>3, KnownIds
    <3>2. CASE u \in Ids(rows)
      <4>1. PICK r \in rows : r.uid = u
        BY <3>2 DEF Ids
      <4>2. r.validity <= mailbox.validity /\ mailbox.validity <= r.validity
        BY <2>1, <2>3 DEF PastOnly, NotAhead, Fetched
      <4>3. r.validity \in Nat /\ mailbox.validity \in Nat /\ mailbox.next \in Nat /\ u \in Nat
        BY ConfigAssumption DEF TypeOK, Row, Uid
      <4>4. r.uid + 1 <= mailbox.next
        BY <4>2, <4>3 DEF PastOnly, NotAhead
      <4> QED
        BY <4>1, <4>3, <4>4
    <3>3. CASE ~Baseline(loaded, snap) /\ loaded.seen[u] > 0
      BY <2>3, <3>3 DEF Baseline, PastOnly, KnowsPast
    <3> QED
      BY <3>1, <3>2, <3>3
  <2>4. KnowsPast(NewCheckpoint)
    <3>1. NewCheckpoint.validity = snap.validity /\ NewCheckpoint.next = snap.next
      BY DEF NewCheckpoint
    <3> QED
      BY <2>2, <2>3, <3>1 DEF KnowsPast, NotAhead
  <2> QED
    BY <2>1, <2>2, <2>4 DEF PastOnly, KnowsPast, NotAhead, Fetched
<1>7. CASE Start \/ PollOnce \/ LoopTest \/ WaitReturns \/ BackoffEnds
  <2>1. /\ {pc, pc'} \subseteq {"idle", "test", "state", "wait", "backoff"}
        /\ UNCHANGED <<mailbox, checkpoint, snap, loaded, rows>>
    BY <1>7 DEF Start, PollOnce, LoopTest, WaitReturns, BackoffEnds
  <2> QED
    BY <2>1, QuietPast
<1>8. CASE Yield \/ EndBatch \/ HandlerReturns
  <2>1. /\ pc' \in {"yield", "handling", "idle", "wait"}
        /\ rows' # {} => pc' \in {"yield", "handling"}
        /\ rows' \subseteq rows
        /\ UNCHANGED <<mailbox, checkpoint, snap, loaded>>
    BY <1>8 DEF Yield, EndBatch, HandlerReturns
  <2> QED
    BY <2>1, QuietPast DEF PollSteps
<1>9. CASE LoadUnchanged \/ CallFails \/ StopMidBatch \/ Abandon \/ Crash
  <2>1. /\ pc' # "recent" /\ ForgetPoll /\ UNCHANGED mailbox
        /\ checkpoint' \in {checkpoint, Blank}
    BY <1>9 DEF LoadUnchanged, CallFails, StopMidBatch, Abandon, Crash
  <2> QED
    BY <2>1, QuietPast
<1>10. CASE Stop \/ Close \/ Reset \/ UNCHANGED vars
  <2>1. UNCHANGED <<mailbox, snap, loaded, rows, pc>> /\ checkpoint' \in {checkpoint, Blank}
    BY <1>10 DEF Stop, Close, Reset, vars
  <2> QED
    BY <2>1, QuietPast
<1> QED
  BY <1>1, <1>2, <1>3, <1>4, <1>5, <1>6, <1>7, <1>8, <1>9, <1>10
     DEF Next, LoopNext, PollNext, ProgramNext, Interruption

LEMMA NotSaved ==
    ASSUME [Next]_vars, ~Save
    PROVE  checkpoint' \in {checkpoint, Blank} /\ base' = base
<1> USE DEF poll, observed
<1>1. CASE MailboxNext
  BY <1>1 DEF MailboxNext, Arrive, Expunge, Recreate
<1>2. CASE PollNext
  BY <1>2 DEF PollNext, ReadState, LoadBaseline, LoadUnchanged, LoadChanged, Recent,
              FetchChunk, FetchBodies
<1>3. CASE LoopNext /\ ~PollNext
  BY <1>3 DEF LoopNext, LoopTest, Yield, StopMidBatch, EndBatch, HandlerReturns, WaitReturns,
              BackoffEnds
<1>4. CASE CallFails
  BY <1>4 DEF CallFails
<1>5. CASE ProgramNext
  BY <1>5 DEF ProgramNext, Start, PollOnce, Interruption, Stop, Close, Abandon, Reset, Crash
<1>6. CASE UNCHANGED vars
  BY <1>6 DEF vars
<1> QED
  BY <1>1, <1>2, <1>3, <1>4, <1>5, <1>6 DEF Next

(* What was fetched is about to be handed over when the checkpoint is      *)
(* saved.                                                                  *)
LEMMA FetchedHandled ==
    ASSUME TypeOK, PastOnly, Save, snap.validity = mailbox.validity,
           NEW r \in rows
    PROVE  Message1(r) = Here(r.uid) /\ Handled(Here(r.uid))'
<1>1. /\ pc = "save" /\ pc' = "yield"
      /\ UNCHANGED <<mailbox, rows, delivered, lost>>
  BY DEF Save
<1>2. r.validity <= mailbox.validity /\ mailbox.validity <= r.validity
  BY <1>1 DEF PastOnly, NotAhead, Fetched
<1>3. r.validity = mailbox.validity
  BY <1>2, ConfigAssumption DEF TypeOK, Row
<1>4. Message1(r) = Here(r.uid)
  BY <1>3 DEF Message1, Here
<1>5. Message1(r) \in Pending'
  BY <1>1 DEF Pending
<1> QED
  BY <1>1, <1>4, <1>5 DEF Handled, Here

(* A baseline claims nothing; a poll that continues claims what it fetched *)
(* and what was handled before.                                            *)
LEMMA SavedHonest ==
    ASSUME TypeOK, PastOnly, HonestInv, Save
    PROVE  Honest(checkpoint)'
<1>1. /\ pc = "save"
      /\ checkpoint' = NewCheckpoint
      /\ base' = IF Baseline(loaded, snap) THEN snap.next ELSE base
      /\ UNCHANGED mailbox
      /\ NewCheckpoint.validity = snap.validity /\ NewCheckpoint.next = snap.next
  BY DEF Save, NewCheckpoint
<1>2. SUFFICES ASSUME snap.validity = mailbox.validity, NEW u \in mailbox.uids,
                      (base' <= u /\ u < snap.next) \/ NewCheckpoint.seen[u] > 0
               PROVE  Handled(Here(u))'
  BY <1>1 DEF Honest, Here
<1>3. /\ u \in Uid /\ u \in Nat /\ snap.next \in Nat /\ loaded.next \in Nat
      /\ loaded.seen[u] \in Nat
  BY ConfigAssumption DEF TypeOK, Uid, FolderState, Checkpoint, SeenIds
<1>4. \A r \in rows : r.uid = u => Handled(Here(u))'
  BY <1>2, FetchedHandled
<1>5. u \in Ids(rows) => Handled(Here(u))'
  BY <1>4 DEF Ids
<1>6. CASE Baseline(loaded, snap)
  <2>1. NewCheckpoint.seen[u] > 0
    BY <1>1, <1>2, <1>3, <1>6
  <2> QED
    BY <1>3, <1>5, <1>6, <2>1, KnownIds
<1>7. CASE ~Baseline(loaded, snap)
  <2>1. Continued /\ base' = base
    BY <1>1, <1>7 DEF Continued, Fetched
  <2>2. Honest(loaded) /\ loaded.validity = mailbox.validity
    BY <1>2, <1>7, <2>1 DEF HonestInv, Baseline
  <2>3. Here(u) \in Message
    BY <1>3 DEF Here, Message, TypeOK, Uid
  <2>4. Handled(Here(u)) => Handled(Here(u))'
    <3>1. Here(u)' = Here(u)
      BY <1>1 DEF Here
    <3>2. [Next]_vars
      BY DEF Next, LoopNext, PollNext
    <3> QED
      BY <2>3, <3>1, <3>2, HandledKept DEF Handled
  <2>5. CASE loaded.seen[u] > 0 \/ (base <= u /\ u < loaded.next)
    BY <1>2, <2>2, <2>4, <2>5 DEF Honest
  <2>6. CASE u \in Ids(rows)
    BY <1>5, <2>6
  <2>7. CASE loaded.seen[u] = 0 /\ ~(base <= u /\ u < loaded.next) /\ u \notin Ids(rows)
    <3>1. ~(NewCheckpoint.seen[u] > 0)
      BY <1>3, <2>7, KnownIds
    <3>2. base <= u /\ u < snap.next
      BY <1>2, <2>1, <3>1
    <3>3. loaded.next <= u
      BY <1>3, <2>7, <3>2
    <3>4. todo = {}
      BY <1>1, <2>1 DEF HonestInv, Covered
    <3>5. \E r \in rows : Message1(r) = Here(u)
      BY <1>2, <2>1, <2>7, <3>2, <3>3, <3>4 DEF HonestInv, Covered
    <3> QED
      BY <2>7, <3>5 DEF Ids, Message1, Here
  <2> QED
    BY <1>3, <2>5, <2>6, <2>7
<1> QED
  BY <1>6, <1>7

(* A poll that goes on, goes on with what it loaded. *)
LEMMA ContinuedFrom ==
    ASSUME TypeOK, PastOnly, [Next]_vars, Continued'
    PROVE  \/ LoadChanged
           \/ /\ Continued
              /\ UNCHANGED <<loaded, snap>>
              /\ FetchChunk \/ UNCHANGED <<rows, todo>>
              /\ pc # "fetch" => pc' # "fetch"
              /\ pc = "fetch" => FetchChunk \/ pc' = "fetch"
<1> USE DEF poll, observed, Continued, Fetched
<1>1. CASE MailboxNext
  BY <1>1 DEF MailboxNext, Arrive, Expunge, Recreate, Baseline
<1>2. CASE ReadState \/ LoadUnchanged \/ Save
  BY <1>2 DEF ReadState, LoadUnchanged, Save
<1>3. CASE LoadBaseline \/ Recent
  BY <1>3 DEF LoadBaseline, Recent, PastOnly, Baseline
<1>4. CASE FetchChunk
  BY <1>4 DEF FetchChunk, Baseline
<1>5. CASE FetchBodies
  BY <1>5 DEF FetchBodies, Baseline
<1>6. CASE LoopNext /\ ~PollNext
  BY <1>6 DEF LoopNext, LoopTest, Yield, StopMidBatch, EndBatch, HandlerReturns, WaitReturns,
              BackoffEnds
<1>7. CASE CallFails
  BY <1>7 DEF CallFails
<1>8. CASE Start \/ PollOnce \/ Abandon \/ Crash
  BY <1>8 DEF Start, PollOnce, Abandon, Crash
<1>9. CASE Stop \/ Close \/ Reset \/ UNCHANGED vars
  BY <1>9 DEF Stop, Close, Reset, vars, Baseline
<1> QED
  BY <1>1, <1>2, <1>3, <1>4, <1>5, <1>6, <1>7, <1>8, <1>9
     DEF Next, LoopNext, PollNext, ProgramNext, Interruption

(* No message of the range is dropped between the checkpoint and the save: *)
(* it waits among the candidates or has been fetched.                      *)
LEMMA CoveredKept ==
    ASSUME TypeOK, PastOnly, HonestInv, [Next]_vars
    PROVE  Covered'
<1> SUFFICES ASSUME Continued' PROVE Covered'
  BY DEF Covered
<1>1. CASE LoadChanged
  <2>1. /\ loaded' = checkpoint /\ todo' = Candidates(checkpoint, snap)
        /\ pc' = IF todo' = {} THEN "save" ELSE "fetch"
        /\ UNCHANGED <<mailbox, snap>>
    BY <1>1 DEF LoadChanged
  <2>2. \A u \in mailbox.uids : u \in Uid
    BY DEF TypeOK
  <2> QED
    BY <2>1, <2>2 DEF Covered, Candidates
<1>2. CASE /\ Continued
           /\ UNCHANGED <<loaded, snap>>
           /\ FetchChunk \/ UNCHANGED <<rows, todo>>
           /\ pc # "fetch" => pc' # "fetch"
           /\ pc = "fetch" => FetchChunk \/ pc' = "fetch"
  <2>1. pc' # "fetch" => todo' = {}
    BY <1>2 DEF HonestInv, Covered, FetchChunk
  <2>2. SUFFICES ASSUME snap.validity = mailbox'.validity, NEW u \in mailbox'.uids,
                        loaded.next <= u, u < snap.next, loaded.seen[u] = 0
                 PROVE  u \in todo' \/ \E r \in rows' : Message1(r) = Here(u)'
    BY <1>2, <2>1 DEF Covered
  <2>3. /\ mailbox.validity \in Nat /\ mailbox'.validity \in Nat /\ mailbox.next \in Nat
        /\ snap.validity \in Nat /\ snap.next \in Nat
    BY NextType, ConfigAssumption DEF TypeOK, FolderState
  <2>4. mailbox'.validity = mailbox.validity
    BY <2>2, <2>3, MailboxGrows DEF PastOnly, NotAhead
  <2>5. snap.next <= mailbox.next
    BY <2>2, <2>4 DEF PastOnly, NotAhead
  <2>6. u # mailbox.next
    BY <2>2, <2>3, <2>5
  <2>7. u \in mailbox.uids
    BY <2>2, <2>4, <2>6, MailboxGrows
  <2>8. u \in todo \/ \E r \in rows : Message1(r) = Here(u)
    BY <1>2, <2>2, <2>4, <2>7 DEF HonestInv, Covered
  <2>9. Here(u)' = Here(u)
    BY <2>4 DEF Here
  <2>10. CASE FetchChunk
    <3>1. PICK extra \in Unsolicited : rows' = rows \cup HeaderRows(Chunk(todo)) \cup extra
      BY <2>10 DEF FetchChunk
    <3>2. todo' = todo \ Chunk(todo)
      BY <2>10 DEF FetchChunk
    <3>3. ASSUME u \in Chunk(todo)
          PROVE  \E r \in rows' : Message1(r) = Here(u)
      <4>1. [validity |-> mailbox.validity, uid |-> u, kind |-> "header"] \in HeaderRows(Chunk(todo))
        BY <2>7, <3>3 DEF HeaderRows
      <4> QED
        BY <3>1, <4>1 DEF Message1, Here
    <3> QED
      BY <2>8, <2>9, <3>1, <3>2, <3>3
  <2>11. CASE UNCHANGED <<rows, todo>>
    BY <2>8, <2>9, <2>11
  <2> QED
    BY <1>2, <2>10, <2>11
<1> QED
  BY <1>1, <1>2, ContinuedFrom

LEMMA NextHonest ==
    ASSUME TypeOK, PastOnly, HonestInv, [Next]_vars
    PROVE  HonestInv'
<1>1. checkpoint \in Checkpoint /\ loaded \in Checkpoint
  BY DEF TypeOK
<1>2. Honest(checkpoint)'
  <2>1. CASE Save
    BY <2>1, SavedHonest
  <2>2. CASE ~Save
    <3>1. checkpoint' \in {checkpoint, Blank} /\ base' = base
      BY <2>2, NotSaved
    <3>2. CASE checkpoint' = Blank
      BY <3>2, NextType DEF Honest, Blank, TypeOK
    <3>3. CASE checkpoint' = checkpoint
      <4>1. KnowsPast(checkpoint) /\ Honest(checkpoint)
        BY DEF PastOnly, HonestInv
      <4> QED
        BY <1>1, <3>1, <3>3, <4>1, HonestKept DEF Honest
    <3> QED
      BY <3>1, <3>2, <3>3
  <2> QED
    BY <2>1, <2>2
<1>3. ASSUME Continued'
      PROVE  Honest(loaded)'
  <2>1. base' = base
    BY <1>3, NotSaved DEF Save, Continued, Fetched
  <2>2. CASE LoadChanged
    <3>1. KnowsPast(checkpoint) /\ Honest(checkpoint) /\ loaded' = checkpoint
      BY <2>2 DEF PastOnly, HonestInv, LoadChanged
    <3> QED
      BY <1>1, <2>1, <3>1, HonestKept DEF Honest
  <2>3. CASE Continued /\ loaded' = loaded
    <3>1. KnowsPast(loaded) /\ Honest(loaded)
      BY <2>3 DEF PastOnly, HonestInv
    <3> QED
      BY <1>1, <2>1, <2>3, <3>1, HonestKept DEF Honest
  <2> QED
    BY <1>3, <2>2, <2>3, ContinuedFrom
<1> QED
  BY <1>2, <1>3, CoveredKept DEF HonestInv

(* Whatever fails, stops, crashes or is forgotten, with any store, any     *)
(* batch size, with or without a backlog, and even when the server sends   *)
(* rows nobody asked for: the checkpoint passes over no message of the     *)
(* folder that was not handed over, is not about to be and was not given up*)
(* with its batch.                                                         *)
THEOREM NothingSkipped == Spec => []Accounted
<1>1. Init => PastOnly /\ HonestInv
  BY ConfigAssumption
     DEF Init, PastOnly, HonestInv, KnowsPast, NotAhead, Honest, Covered, Continued, Fetched,
         Blank, NoState, Nothing
<1>2. TypeOK /\ PastOnly /\ HonestInv /\ [Next]_vars => (PastOnly /\ HonestInv)'
  BY NextPast, NextHonest
<1>3. HonestInv => Accounted
  BY DEF HonestInv, Honest, Handled, Here, Accounted
<1> QED
  BY <1>1, <1>2, <1>3, TypeCorrect, PTL DEF Spec
-----------------------------------------------------------------------------
(* Why no message comes twice when the first poll replays a backlog.       *)

(* Claimed, in a folder that is never re-created: handed over, about to be,*)
(* or given up.                                                            *)
Claimed == {m \in Message : Past(m)}

Answering == pc \in {"recent", "fetch", "detail", "save"}

(* A checkpoint that continues: its next UID and its seen ids exclude what *)
(* was claimed.  The seen ids are needed for what arrived between the state*)
(* and the backlog of the first poll.                                      *)
Excludes(c) ==
    \A m \in Claimed :
        /\ c.fingerprint # NoState /\ c.validity = 1
        /\ m.uid < c.next \/ c.seen[m.uid] > 0

(* A poll works on the checkpoint that is stored, on a state that is newer *)
(* than what was claimed.                                                  *)
PollCurrent ==
    /\ Answering => loaded = checkpoint
    /\ pc = "recent" => Baseline(loaded, snap)
    /\ pc = "load" \/ Answering =>
         snap.validity = 1 /\ \A m \in Claimed : m.uid < snap.next

(* What it fetches lies in its range, but for the rows of a backlog.       *)
InRange(u) == ~Baseline(loaded, snap) =>
    loaded.next <= u /\ u < snap.next /\ loaded.seen[u] = 0

RowsInRange ==
    /\ \A u \in todo : InRange(u)
    /\ \A r \in rows : /\ r.kind = "header" /\ r.uid < mailbox.next
                       /\ Answering => InRange(r.uid)
    /\ rows # {} => Answering \/ pc \in {"yield", "handling"}
    /\ todo # {} => pc = "fetch"

OnceInv ==
    /\ UidsGrow
    /\ \A m \in Claimed : m.uid < mailbox.next
    /\ Excludes(checkpoint)
    /\ PollCurrent
    /\ RowsInRange
    /\ PendingNew
    /\ NoDuplicate

(* A folder that is not re-created, a checkpoint that is not forgotten, a  *)
(* server that sends the rows it was asked for.                            *)
OneBaseline ==
    /\ MaxValidity = 1 /\ ~UnsolicitedFlags
    /\ "reset" \notin Calls /\ "resetAnytime" \notin Calls
    /\ "crash" \in Calls => Durable

LEMMA OneFolder ==
    ASSUME OneBaseline, TypeOK
    PROVE  /\ mailbox.validity = 1 /\ mailbox.next \in Nat /\ mailbox.uids \subseteq Uid
           /\ Uid \subseteq Nat
           /\ snap.next \in Nat /\ checkpoint.next \in Nat /\ loaded.next \in Nat
           /\ \A u \in Uid : loaded.seen[u] \in Nat /\ checkpoint.seen[u] \in Nat
           /\ \A m \in Message : m.validity = 1 /\ m.uid \in Uid /\ m.uid \in Nat
           /\ \A r \in rows : /\ Message1(r) \in Message /\ Message1(r).uid = r.uid
                              /\ r.validity = 1 /\ r.uid \in Uid /\ r.uid \in Nat
<1> USE ConfigAssumption DEF OneBaseline, TypeOK
<1>1. mailbox.validity = 1 /\ mailbox.next \in Nat /\ mailbox.uids \subseteq Uid
  OBVIOUS
<1>2. Uid \subseteq Nat
  BY DEF Uid
<1>3. snap.next \in Nat /\ checkpoint.next \in Nat /\ loaded.next \in Nat
  BY DEF FolderState, Checkpoint
<1>4. \A u \in Uid : loaded.seen[u] \in Nat /\ checkpoint.seen[u] \in Nat
  BY DEF Checkpoint, SeenIds
<1>5. \A m \in Message : m.validity = 1 /\ m.uid \in Uid
  BY DEF Message
<1>6. \A r \in rows : /\ Message1(r) \in Message /\ Message1(r).uid = r.uid
                      /\ r.validity = 1 /\ r.uid \in Uid
  BY DEF Row, Message1, Message
<1> QED
  BY <1>1, <1>2, <1>3, <1>4, <1>5, <1>6

LEMMA InitOnce == Init => OnceInv
<1> SUFFICES ASSUME Init PROVE OnceInv
  OBVIOUS
<1>1. Claimed = {}
  BY DEF Init, Claimed, Past, Pending
<1> QED
  BY <1>1 DEF Init, OnceInv, UidsGrow, Excludes, PollCurrent, RowsInRange, Answering,
              PendingNew, NoDuplicate, Pending

LEMMA MailboxOnce ==
    ASSUME OneBaseline, TypeOK, OnceInv, MailboxNext
    PROVE  OnceInv'
<1>1. /\ UNCHANGED <<checkpoint, pc, snap, loaded, todo, rows, delivered, lost>>
  BY DEF MailboxNext, Arrive, Expunge, Recreate, poll, observed
<1>2. /\ mailbox'.next \in Nat /\ mailbox.next <= mailbox'.next
      /\ \A u \in mailbox'.uids : u < mailbox'.next
  <2>1. ~Recreate
    BY OneFolder DEF Recreate, OneBaseline
  <2>2. CASE Arrive
    <3>1. /\ mailbox'.next = mailbox.next + 1
          /\ mailbox'.uids = mailbox.uids \cup {mailbox.next}
      BY <2>2 DEF Arrive, TypeOK
    <3> QED
      BY <3>1, OneFolder DEF OnceInv, UidsGrow
  <2>3. CASE Expunge
    BY <2>3, OneFolder DEF Expunge, OnceInv, UidsGrow, TypeOK
  <2> QED
    BY <2>1, <2>2, <2>3 DEF MailboxNext
<1>3. Claimed' = Claimed
  BY <1>1 DEF Claimed, Past, Pending
<1>4. UidsGrow' /\ \A m \in Claimed : m.uid < mailbox'.next
  BY <1>2, OneFolder DEF UidsGrow, OnceInv, Claimed
<1>5. Excludes(checkpoint)' /\ PollCurrent'
  BY <1>1, <1>3 DEF OnceInv, Excludes, PollCurrent, Answering
<1>6. RowsInRange'
  BY <1>1, <1>2, OneFolder DEF OnceInv, RowsInRange, InRange, Baseline, Answering
<1>7. PendingNew' /\ NoDuplicate'
  BY <1>1 DEF OnceInv, PendingNew, NoDuplicate, Pending
<1> QED
  BY <1>3, <1>4, <1>5, <1>6, <1>7 DEF OnceInv

(* A step that leaves the poll, or the batch where it is. *)
LEMMA QuietOnce ==
    ASSUME TypeOK, OnceInv,
           UNCHANGED <<mailbox, checkpoint, delivered>>,
           ~Answering', pc' # "load",
           todo' = {},
           \/ rows' = {}
           \/ rows' = rows /\ {pc, pc'} \subseteq {"yield", "handling"},
           \/ GiveUpPending /\ rows' = {}
           \/ lost' = lost /\ Pending' = Pending
    PROVE  OnceInv'
<1> USE DEF OnceInv, GiveUpPending
<1>1. Claimed' = Claimed
  BY DEF Claimed, Past, Pending
<1>2. UidsGrow' /\ (\A m \in Claimed : m.uid < mailbox.next)' /\ Excludes(checkpoint)'
  BY <1>1 DEF UidsGrow, Excludes
<1>3. PollCurrent' /\ RowsInRange'
  BY DEF PollCurrent, RowsInRange, Answering
<1>4. PendingNew' /\ NoDuplicate'
  BY DEF PendingNew, NoDuplicate, Pending
<1> QED
  BY <1>2, <1>3, <1>4

LEMMA AroundOnce ==
    ASSUME OneBaseline, TypeOK, OnceInv,
           \/ Start \/ PollOnce \/ LoopTest \/ LoadUnchanged \/ StopMidBatch
           \/ EndBatch \/ HandlerReturns \/ WaitReturns \/ BackoffEnds \/ CallFails
           \/ Abandon \/ Crash
    PROVE  OnceInv'
<1> USE DEF poll, observed, ForgetPoll, Answering
<1>0. RowsInRange /\ \A P \in {rows, todo} : P = {} \/ P # {}
  BY DEF OnceInv
<1>1. CASE Start \/ PollOnce \/ LoopTest \/ WaitReturns \/ BackoffEnds
  <2>1. /\ pc \in {"idle", "test", "wait", "backoff"}
        /\ pc' \in {"idle", "test", "state"}
        /\ UNCHANGED <<mailbox, checkpoint, todo, rows, delivered, lost>>
    BY <1>1 DEF Start, PollOnce, LoopTest, WaitReturns, BackoffEnds
  <2>2. rows = {} /\ todo = {}
    BY <1>0, <2>1 DEF RowsInRange
  <2> QED
    BY <2>1, <2>2, QuietOnce DEF Pending
<1>2. CASE LoadUnchanged \/ CallFails
  <2>1. /\ pc \notin {"yield", "handling"}
        /\ pc' \in {"idle", "backoff", "yield"}
        /\ todo' = {} /\ rows' = {}
        /\ UNCHANGED <<mailbox, checkpoint, delivered, lost>>
    BY <1>2 DEF LoadUnchanged, CallFails
  <2> QED
    BY <2>1, QuietOnce DEF Pending
<1>3. CASE EndBatch \/ HandlerReturns
  <2>1. /\ pc \in {"yield", "handling"}
        /\ pc' \in {"idle", "wait", "yield"}
        /\ pc' # "yield" => rows = {}
        /\ UNCHANGED <<mailbox, checkpoint, todo, rows, delivered, lost>>
    BY <1>3 DEF EndBatch, HandlerReturns
  <2>2. todo = {}
    BY <1>0, <2>1 DEF RowsInRange
  <2> QED
    BY <2>1, <2>2, QuietOnce DEF Pending
<1>4. CASE StopMidBatch \/ Abandon \/ Crash
  <2>1. /\ pc' = "idle" /\ checkpoint' = checkpoint
        /\ todo' = {} /\ rows' = {}
        /\ GiveUpPending
        /\ UNCHANGED <<mailbox, delivered>>
    BY <1>4 DEF StopMidBatch, Abandon, Crash, OneBaseline
  <2> QED
    BY <2>1, QuietOnce
<1> QED
  BY <1>1, <1>2, <1>3, <1>4

(* The steps of a poll before its save claim nothing.                      *)
LEMMA PollOnceMore ==
    ASSUME OneBaseline, TypeOK, OnceInv,
           \/ ReadState \/ LoadBaseline \/ LoadChanged \/ Recent \/ FetchChunk \/ FetchBodies
    PROVE  OnceInv'
<1> USE DEF OnceInv, observed
<1>1. /\ UNCHANGED <<mailbox, checkpoint, delivered, lost>>
      /\ {pc, pc'} \cap {"yield", "handling"} = {}
  BY DEF ReadState, LoadBaseline, LoadChanged, Recent, FetchChunk, FetchBodies, AfterFetch, poll
<1>2. Claimed' = Claimed
  BY <1>1 DEF Claimed, Past, Pending
<1>3. /\ UidsGrow' /\ (\A m \in Claimed : m.uid < mailbox.next)' /\ Excludes(checkpoint)'
      /\ PendingNew' /\ NoDuplicate'
  BY <1>1, <1>2 DEF UidsGrow, Excludes, PendingNew, NoDuplicate, Pending
<1>4. CASE ReadState
  <2>1. /\ pc' = "load" /\ snap'.validity = mailbox.validity /\ snap'.next = mailbox.next
        /\ rows = {} /\ todo = {} /\ UNCHANGED <<rows, todo>>
    BY <1>4 DEF ReadState, StateOf, RowsInRange, Answering
  <2> QED
    BY <1>2, <1>3, <2>1, OneFolder DEF PollCurrent, RowsInRange, Answering
<1>5. CASE LoadBaseline \/ LoadChanged
  <2>1. /\ pc = "load" /\ pc' \in {"recent", "fetch", "save"} /\ UNCHANGED <<snap, rows>>
        /\ loaded' = checkpoint /\ rows = {} /\ todo = {}
        /\ pc' # "fetch" => todo' = {}
        /\ pc' = "recent" => Baseline(loaded, snap)'
    BY <1>5 DEF LoadBaseline, LoadChanged, RowsInRange, Answering, Baseline
  <2>2. PollCurrent'
    BY <1>1, <1>2, <2>1 DEF PollCurrent, Answering
  <2>3. \A u \in todo' : InRange(u)'
    BY <1>5, <2>1 DEF LoadBaseline, LoadChanged, InRange, Candidates
  <2> QED
    BY <1>3, <2>1, <2>2, <2>3 DEF RowsInRange, Answering
<1>6. CASE Recent
  <2>1. /\ pc = "recent" /\ Baseline(loaded, snap) /\ todo = {}
        /\ pc' \in {"detail", "save"} /\ UNCHANGED <<snap, loaded, todo>>
    BY <1>6 DEF Recent, AfterFetch, RowsInRange, PollCurrent
  <2>2. \A r \in rows' : r.kind = "header" /\ r.uid \in mailbox.uids
    <3>1. \A U, E : \A r \in Last(HeaderRows(U) \cup E) : r \in HeaderRows(U) \cup E
      BY DEF Last
    <3>2. \A U : \A r \in HeaderRows(U) : r.kind = "header" /\ r.uid \in mailbox.uids
      BY DEF HeaderRows
    <3>3. Unsolicited = {{}}
      BY DEF Unsolicited, OneBaseline
    <3>4. \/ rows' = Last(HeaderRows(RecentByUid) \cup {})
          \/ rows' = HeaderRows(RecentByCount)
      BY <1>6, <3>3 DEF Recent
    <3>5. \A r \in Last(HeaderRows(RecentByUid) \cup {}) : r \in HeaderRows(RecentByUid)
      BY <3>1
    <3> QED
      BY <3>2, <3>4, <3>5
  <2>3. PollCurrent'
    BY <1>1, <1>2, <2>1 DEF PollCurrent, Answering
  <2>4. RowsInRange'
    BY <1>1, <2>1, <2>2 DEF RowsInRange, InRange, Baseline, Answering, UidsGrow
  <2> QED
    BY <1>3, <2>3, <2>4
<1>7. CASE FetchChunk
  <2>1. /\ pc = "fetch" /\ pc' \in {"fetch", "detail", "save"} /\ UNCHANGED <<snap, loaded>>
        /\ rows' = rows \cup HeaderRows(Chunk(todo)) /\ todo' \subseteq todo
        /\ todo' # {} => pc' = "fetch"
    BY <1>7 DEF FetchChunk, AfterFetch, Unsolicited, OneBaseline
  <2>2. \A r \in HeaderRows(Chunk(todo)) :
          r.kind = "header" /\ r.uid \in todo /\ r.uid \in mailbox.uids
    BY DEF HeaderRows, Chunk
  <2>3. PollCurrent'
    BY <1>1, <1>2, <2>1 DEF PollCurrent, Answering
  <2>4. \A u : InRange(u)' <=> InRange(u)
    BY <2>1 DEF InRange, Baseline
  <2>5. \A r \in rows' : r.kind = "header" /\ r.uid < mailbox.next /\ InRange(r.uid)
    BY <2>1, <2>2 DEF RowsInRange, UidsGrow, Answering
  <2>6. RowsInRange'
    BY <1>1, <2>1, <2>4, <2>5 DEF RowsInRange, Answering
  <2> QED
    BY <1>3, <2>3, <2>6
<1>8. CASE FetchBodies
  <2>1. /\ pc = "detail" /\ pc' = "save" /\ UNCHANGED <<snap, loaded, rows, todo>>
    BY <1>8 DEF FetchBodies, poll
  <2> QED
    BY <1>1, <1>2, <1>3, <2>1 DEF PollCurrent, RowsInRange, InRange, Baseline, Answering
<1> QED
  BY <1>4, <1>5, <1>6, <1>7, <1>8

(* What is fetched was not claimed before.  A first poll has claimed       *)
(* nothing yet; a later one asks for nothing that its checkpoint excludes. *)
LEMMA RowsNotClaimed ==
    ASSUME OneBaseline, TypeOK, OnceInv, pc = "save"
    PROVE  /\ Baseline(loaded, snap) => Claimed = {}
           /\ \A r \in rows : Message1(r) \notin Claimed
<1> USE DEF OnceInv
<1>1. loaded = checkpoint /\ snap.validity = 1
  BY DEF PollCurrent, Answering
<1>2. Baseline(loaded, snap) => Claimed = {}
  BY <1>1 DEF Excludes, Baseline
<1>3. ASSUME ~Baseline(loaded, snap), NEW r \in rows
      PROVE  Message1(r) \notin Claimed
  <2>1. /\ loaded.next <= r.uid /\ loaded.seen[r.uid] = 0
        /\ loaded.next \in Nat /\ r.uid \in Nat /\ Message1(r).uid = r.uid
    BY <1>3, OneFolder DEF RowsInRange, InRange, Answering
  <2> QED
    BY <1>1, <2>1 DEF Excludes
<1> QED
  BY <1>2, <1>3

LEMMA SaveOnce ==
    ASSUME OneBaseline, TypeOK, OnceInv, Save
    PROVE  OnceInv'
<1> USE DEF OnceInv
<1>1. /\ pc = "save" /\ pc' = "yield" /\ checkpoint' = NewCheckpoint
      /\ UNCHANGED <<mailbox, todo, rows, delivered, lost>>
  BY DEF Save
<1>2. Pending = {} /\ Pending' = {Message1(r) : r \in rows}
  BY <1>1 DEF Pending
<1>3. Claimed' = Claimed \cup {Message1(r) : r \in rows}
  BY <1>1, <1>2, OneFolder DEF Claimed, Past
<1>4. (\A m \in Claimed : m.uid < mailbox.next)'
  BY <1>1, <1>3, OneFolder DEF RowsInRange
<1>5. Excludes(checkpoint)'
  <2>1. /\ NewCheckpoint.fingerprint = snap /\ NewCheckpoint.validity = snap.validity
        /\ NewCheckpoint.next = snap.next
        /\ snap.validity = 1 /\ snap # NoState
    BY <1>1 DEF NewCheckpoint, PollCurrent, NoState, Answering
  <2>2. CASE ~Baseline(loaded, snap)
    <3>1. \A m \in Claimed' : m.uid < snap.next
      BY <1>1, <1>3, <2>2, OneFolder DEF PollCurrent, RowsInRange, InRange, Answering
    <3> QED
      BY <1>1, <2>1, <3>1 DEF Excludes
  <2>3. CASE Baseline(loaded, snap)
    <3>1. NewCheckpoint.seen = BacklogIds(Ids(rows))
      BY <2>3 DEF NewCheckpoint
    <3>2. \A m \in Claimed' : m.uid \in Ids(rows) /\ m.uid \in Uid
      BY <1>1, <1>3, <2>3, RowsNotClaimed, OneFolder DEF Ids
    <3>3. \A u \in Ids(rows) : BacklogIds(Ids(rows))[u] > 0
      <4> SUFFICES ASSUME NEW u \in Ids(rows) PROVE Place(Ids(rows), u) > 0 /\ u \in Uid
        BY DEF BacklogIds
      <4>1. Ids(rows) \in SUBSET Uid /\ u \in Nat
        BY OneFolder DEF Ids
      <4>2. u \in {v \in Ids(rows) : u <= v} /\ {v \in Ids(rows) : u <= v} \in SUBSET Uid
        BY <4>1
      <4>3. /\ IsFiniteSet({v \in Ids(rows) : u <= v})
            /\ Cardinality({v \in Ids(rows) : u <= v}) \in Nat
        BY <4>2, UidCount
      <4>4. Cardinality({v \in Ids(rows) : u <= v}) # 0
        BY <4>2, <4>3, FS_EmptySet
      <4> QED
        BY <4>1, <4>3, <4>4 DEF Place
    <3> QED
      BY <1>1, <2>1, <3>1, <3>2, <3>3 DEF Excludes
  <2> QED
    BY <2>2, <2>3
<1>6. PollCurrent' /\ RowsInRange'
  BY <1>1 DEF PollCurrent, RowsInRange, Answering
<1>7. PendingNew' /\ NoDuplicate'
  <2>1. \A r \in rows : delivered[Message1(r)] = 0 /\ Message1(r) \notin lost
    <3>1. \A r \in rows : Message1(r) \in Message /\ ~Past(Message1(r))
      BY <1>1, OneFolder, RowsNotClaimed DEF Claimed
    <3> QED
      BY <3>1 DEF Past, TypeOK
  <2> QED
    BY <1>1, <1>2, <2>1 DEF PendingNew, NoDuplicate
<1> QED
  BY <1>1, <1>4, <1>5, <1>6, <1>7 DEF UidsGrow

LEMMA YieldOnce ==
    ASSUME OneBaseline, TypeOK, OnceInv, Yield
    PROVE  OnceInv'
<1> USE DEF OnceInv
<1>1. PICK r \in rows :
        /\ rows' = rows \ {r}
        /\ delivered' = [delivered EXCEPT ![Message1(r)] = IF @ = 2 THEN 2 ELSE @ + 1]
  BY DEF Yield
<1> DEFINE m == Message1(r)
<1>2. /\ pc = "yield" /\ pc' = "handling"
      /\ UNCHANGED <<mailbox, checkpoint, todo, lost>>
  BY DEF Yield
<1>3. /\ m \in Message
      /\ Pending = {Message1(s) : s \in rows}
      /\ m \in Pending
  BY <1>2, OneFolder DEF Pending
<1>4. Pending' = Pending \ {m}
  <2>1. ASSUME NEW s \in rows, s # r
        PROVE  Message1(s) # m
    BY <2>1 DEF Row, Message1, RowsInRange, TypeOK
  <2>2. Pending' = {Message1(s) : s \in rows \ {r}}
    BY <1>1, <1>2 DEF Pending
  <2> QED
    BY <1>3, <2>1, <2>2
<1>5. delivered[m] = 0 /\ m \notin lost
  BY <1>3 DEF PendingNew
<1>6. /\ delivered'[m] = 1
      /\ \A n \in Message \ {m} : delivered'[n] = delivered[n]
  BY <1>1, <1>3, <1>5 DEF TypeOK
<1>7. Claimed' = Claimed
  BY <1>2, <1>3, <1>4, <1>5, <1>6 DEF Claimed, Past
<1>8. UidsGrow' /\ (\A n \in Claimed : n.uid < mailbox.next)' /\ Excludes(checkpoint)'
  BY <1>2, <1>7 DEF UidsGrow, Excludes
<1>9. PollCurrent' /\ RowsInRange'
  BY <1>1, <1>2 DEF PollCurrent, RowsInRange, Answering
<1>10. PendingNew' /\ NoDuplicate'
  BY <1>2, <1>4, <1>5, <1>6 DEF PendingNew, NoDuplicate
<1> QED
  BY <1>8, <1>9, <1>10

LEMMA NextOnce ==
    ASSUME OneBaseline, TypeOK, OnceInv, [Next]_vars
    PROVE  OnceInv'
<1>1. CASE MailboxNext
  BY <1>1, MailboxOnce
<1>2. CASE \/ Start \/ PollOnce \/ LoopTest \/ LoadUnchanged \/ StopMidBatch
           \/ EndBatch \/ HandlerReturns \/ WaitReturns \/ BackoffEnds \/ CallFails
           \/ Abandon \/ Crash
  BY <1>2, AroundOnce
<1>3. CASE Stop \/ Close \/ UNCHANGED vars
  <2>1. UNCHANGED <<mailbox, checkpoint, pc, poll, observed>>
    BY <1>3 DEF Stop, Close, vars
  <2>2. Claimed' = Claimed
    BY <2>1 DEF Claimed, Past, Pending, poll, observed
  <2> QED
    BY <2>1, <2>2 DEF OnceInv, UidsGrow, Excludes, PollCurrent, RowsInRange, InRange, Baseline,
                      Answering, PendingNew, NoDuplicate, Pending, poll, observed
<1>4. CASE ReadState \/ LoadBaseline \/ LoadChanged \/ Recent \/ FetchChunk \/ FetchBodies
  BY <1>4, PollOnceMore
<1>5. CASE Save
  BY <1>5, SaveOnce
<1>6. CASE Yield
  BY <1>6, YieldOnce
<1>7. ~Reset
  BY DEF Reset, OneBaseline
<1> QED
  BY <1>1, <1>2, <1>3, <1>4, <1>5, <1>6, <1>7
     DEF Next, LoopNext, PollNext, ProgramNext, Interruption

(* A watcher that does replay a backlog hands no message over twice either,*)
(* whatever arrives between the calls of its first poll and however short  *)
(* its seen history: as long as the folder is not re-created, the          *)
(* checkpoint is not forgotten and the server sends what it was asked for. *)
THEOREM BacklogOnce ==
    ASSUME OneBaseline
    PROVE  Spec => []NoDuplicate
<1>1. TypeOK /\ OnceInv /\ [Next]_vars => OnceInv'
  BY NextOnce
<1>2. OnceInv => NoDuplicate
  BY DEF OnceInv
<1> QED
  BY <1>1, <1>2, InitOnce, TypeCorrect, PTL DEF Spec

-----------------------------------------------------------------------------
(* A reset between polls.                                                  *)

StoredLoaded == Answering => loaded = checkpoint

LEMMA NextStored ==
    ASSUME "resetAnytime" \notin Calls, StoredLoaded, [Next]_vars
    PROVE  StoredLoaded'
<1> USE DEF StoredLoaded, Answering, poll, observed
<1>1. CASE MailboxNext
  BY <1>1 DEF MailboxNext, Arrive, Expunge, Recreate
<1>2. CASE PollNext
  BY <1>2 DEF PollNext, ReadState, LoadBaseline, LoadUnchanged, LoadChanged, Recent,
              FetchChunk, FetchBodies, Save
<1>3. CASE LoopNext /\ ~PollNext
  BY <1>3 DEF LoopNext, LoopTest, Yield, StopMidBatch, EndBatch, HandlerReturns, WaitReturns,
              BackoffEnds
<1>4. CASE CallFails
  BY <1>4 DEF CallFails
<1>5. CASE ProgramNext
  BY <1>5 DEF ProgramNext, Start, PollOnce, Interruption, Stop, Close, Abandon, Reset, Crash
<1>6. CASE UNCHANGED vars
  BY <1>6 DEF vars
<1> QED
  BY <1>1, <1>2, <1>3, <1>4, <1>5, <1>6 DEF Next

(* A forgotten checkpoint is replaced by a baseline only, when resets come *)
(* from the thread that polls: its polls save what they loaded, changed.   *)
THEOREM ResetIsKept ==
    ASSUME "resetAnytime" \notin Calls
    PROVE  Spec => ResetSticks
<1>1. Init => StoredLoaded
  BY DEF Init, StoredLoaded, Answering
<1>2. StoredLoaded /\ [Next]_vars => StoredLoaded'
  BY NextStored
<1>3. StoredLoaded /\ [Next]_vars =>
        [checkpoint = Blank /\ checkpoint' # Blank => pc = "save" /\ Baseline(loaded, snap)]_vars
  <2> SUFFICES ASSUME StoredLoaded, [Next]_vars, checkpoint = Blank, checkpoint' # Blank
               PROVE  pc = "save" /\ Baseline(loaded, snap)
    OBVIOUS
  <2>1. Save
    BY NotSaved
  <2>2. pc = "save" /\ loaded = Blank
    BY <2>1 DEF Save, StoredLoaded, Answering
  <2> QED
    BY <2>2 DEF Baseline, Blank
<1> QED
  BY <1>1, <1>2, <1>3, PTL DEF Spec, ResetSticks
-----------------------------------------------------------------------------
(* The refinement: every step of Watcher without a backlog is a step of    *)
(* MailStream or leaves it alone.  First the order of a batch.             *)

LEMMA InitOrdered == Init => BatchOrdered
BY DEF Init, BatchOrdered

(* A chunk is a beginning of the candidates. *)
LEMMA ChunkFirst ==
    ASSUME NEW S \in SUBSET Uid, NEW u \in Chunk(S), NEW v \in S \ Chunk(S)
    PROVE  u < v
<1>1. u \in Uid /\ v \in Uid /\ u \in Nat /\ v \in Nat
  BY ConfigAssumption DEF Chunk, Uid
<1>2. SUFFICES ASSUME v <= u PROVE FALSE
  BY <1>1
<1> DEFINE Below(x) == {w \in S : w < x}
<1>3. Below(u) \in SUBSET Uid /\ Below(v) \in SUBSET Below(u)
  <2>1. ASSUME NEW w \in S, w < v
        PROVE  w < u
    <3>1. w \in Nat
      BY ConfigAssumption DEF Uid
    <3> QED
      BY <1>1, <1>2, <2>1, <3>1
  <2>2. Below(u) \subseteq S /\ Below(v) \subseteq Below(u)
    BY <2>1
  <2> QED
    BY <2>2
<1>4. /\ Cardinality(Below(v)) <= Cardinality(Below(u))
      /\ Cardinality(Below(u)) \in Nat /\ Cardinality(Below(v)) \in Nat
  BY <1>3, UidCount, FS_Subset
<1>5. Cardinality(Below(u)) < BatchSize /\ ~(Cardinality(Below(v)) < BatchSize)
  BY DEF Chunk
<1> HIDE DEF Below
<1> QED
  BY <1>4, <1>5, ConfigAssumption

(* A chunk is fetched from the folder as it is now, which is no older than *)
(* the one any earlier chunk was fetched from.                             *)
LEMMA FetchOrdered ==
    ASSUME TypeOK, ClaimInvariant, BatchOrdered, ~UnsolicitedFlags, FetchChunk
    PROVE  BatchOrdered'
<1> USE DEF TypeOK
<1>1. /\ pc = "fetch"
      /\ rows' = rows \cup HeaderRows(Chunk(todo))
      /\ todo' = todo \ Chunk(todo)
  BY DEF FetchChunk, Unsolicited
<1>2. ASSUME NEW r \in HeaderRows(Chunk(todo))
      PROVE  /\ r.uid \in Chunk(todo) /\ r.uid \in todo /\ r.uid \in Nat
             /\ r.validity = mailbox.validity /\ r.validity \in Nat
             /\ r = [validity |-> mailbox.validity, uid |-> r.uid, kind |-> "header"]
  BY <1>2, ConfigAssumption DEF HeaderRows, Chunk, Uid
<1>3. ASSUME NEW r \in rows
      PROVE  r.validity <= mailbox.validity /\ r.uid \in Nat /\ r.validity \in Nat
  <2>1. /\ Before(r, mailbox)
        /\ r.uid \in Nat /\ r.validity \in Nat /\ mailbox.validity \in Nat
    BY <1>1, <1>3, ConfigAssumption DEF ClaimInvariant, RowsNew, Claiming, Row, Uid
  <2> QED
    BY <2>1 DEF Before
<1>4. \A r \in rows, u \in todo : r.uid < u
  BY DEF BatchOrdered
<1>5. ASSUME NEW r \in rows', NEW s \in rows', r.uid <= s.uid
      PROVE  r.validity <= s.validity /\ (r.uid = s.uid => r = s)
  <2>1. CASE r \in rows /\ s \in rows
    BY <1>5, <2>1 DEF BatchOrdered
  <2>2. CASE r \in rows /\ s \in HeaderRows(Chunk(todo))
    <3>1. r.uid < s.uid
      BY <1>2, <1>4, <2>2
    <3> QED
      BY <1>2, <1>3, <2>2, <3>1
  <2>3. CASE r \in HeaderRows(Chunk(todo)) /\ s \in rows
    <3>1. s.uid < r.uid
      BY <1>2, <1>4, <2>3
    <3> QED
      BY <1>2, <1>3, <1>5, <2>3, <3>1
  <2>4. CASE r \in HeaderRows(Chunk(todo)) /\ s \in HeaderRows(Chunk(todo))
    BY <1>2, <2>4
  <2> QED
    BY <1>1, <2>1, <2>2, <2>3, <2>4
<1>6. ASSUME NEW r \in rows', NEW u \in todo'
      PROVE  r.uid < u
  <2>1. CASE r \in rows
    BY <1>1, <1>4, <1>6, <2>1
  <2>2. CASE r \in HeaderRows(Chunk(todo))
    <3>1. todo \in SUBSET Uid /\ r.uid \in Chunk(todo) /\ u \in todo \ Chunk(todo)
      BY <1>1, <1>2, <1>6, <2>2
    <3> QED
      BY <3>1, ChunkFirst
  <2> QED
    BY <1>1, <2>1, <2>2
<1> QED
  BY <1>5, <1>6 DEF BatchOrdered

LEMMA NextOrdered ==
    ASSUME ~UnsolicitedFlags, TypeOK, ClaimInvariant, BatchOrdered, [Next]_vars
    PROVE  BatchOrdered'
<1> USE DEF poll, ForgetPoll
<1>1. CASE FetchChunk
  BY <1>1, FetchOrdered
<1>2. CASE LoadChanged
  <2>1. rows = {} /\ UNCHANGED rows
    BY <1>2 DEF LoadChanged, ClaimInvariant, RowsPlaced, Claiming
  <2> QED
    BY <2>1 DEF BatchOrdered
<1>3. CASE \/ MailboxNext \/ LoopTest \/ ReadState \/ LoadBaseline \/ FetchBodies \/ Save
           \/ HandlerReturns \/ EndBatch \/ WaitReturns \/ BackoffEnds
           \/ Start \/ PollOnce \/ Stop \/ Close \/ Reset \/ UNCHANGED vars
  <2>1. UNCHANGED <<rows, todo>>
    <3>1. CASE MailboxNext
      BY <3>1 DEF MailboxNext, Arrive, Expunge, Recreate
    <3>2. CASE LoopTest \/ ReadState \/ LoadBaseline \/ FetchBodies \/ Save
      BY <3>2 DEF LoopTest, ReadState, LoadBaseline, FetchBodies, Save
    <3>3. CASE HandlerReturns \/ EndBatch \/ WaitReturns \/ BackoffEnds
      BY <3>3 DEF HandlerReturns, EndBatch, WaitReturns, BackoffEnds
    <3>4. CASE Start \/ PollOnce \/ Stop \/ Close \/ Reset \/ UNCHANGED vars
      BY <3>4 DEF Start, PollOnce, Stop, Close, Reset, vars
    <3> QED
      BY <1>3, <3>1, <3>2, <3>3, <3>4
  <2> QED
    BY <2>1 DEF BatchOrdered
<1>4. CASE Yield
  <2>1. rows' \subseteq rows /\ UNCHANGED todo
    BY <1>4 DEF Yield
  <2> QED
    BY <2>1 DEF BatchOrdered
<1>5. CASE LoadUnchanged \/ StopMidBatch \/ CallFails \/ Abandon \/ Crash
  <2>1. rows' = {}
    BY <1>5 DEF LoadUnchanged, StopMidBatch, CallFails, Abandon, Crash
  <2> QED
    BY <2>1 DEF BatchOrdered
<1>6. CASE Recent
  BY <1>6 DEF Recent, ClaimInvariant, RowsPlaced
<1> QED
  BY <1>1, <1>2, <1>3, <1>4, <1>5, <1>6
     DEF Next, LoopNext, PollNext, ProgramNext, Interruption

(* A batch is in order of arrival, across re-creations of the folder.      *)
THEOREM BatchesOrdered ==
    ASSUME ~IncludeExisting, ~UnsolicitedFlags
    PROVE  Spec => []BatchOrdered
<1>1. Spec => [](TypeOK /\ ClaimInvariant)
  BY TypeCorrect, ClaimsAreNew, PTL
<1>2. TypeOK /\ ClaimInvariant /\ BatchOrdered /\ [Next]_vars => BatchOrdered'
  BY NextOrdered
<1> QED
  BY <1>1, <1>2, InitOrdered, PTL DEF Spec

-----------------------------------------------------------------------------
(* The steps of MailStream. *)

Handed == {m \in Message : delivered[m] > 0}

LEMMA InitStream == Init => Stream!Init
BY DEF Init, Stream!Init, Pending

(* Saving the checkpoint claims the batch. *)
LEMMA SaveStream ==
    ASSUME TypeOK, ClaimInvariant, Save
    PROVE  Stream!Claim
<1> USE DEF TypeOK
<1>1. /\ pc = "save" /\ pc' = "yield"
      /\ UNCHANGED <<rows, delivered, lost>>
  BY DEF Save
<1>2. Pending = {} /\ Pending' = {Message1(r) : r \in rows}
  BY <1>1 DEF Pending
<1>3. Pending' \in SUBSET Message
  BY <1>2 DEF Message1, Message, Row
<1>4. ASSUME NEW old \in Handed \cup lost, NEW m \in Pending'
      PROVE  Stream!Older(old, m)
  <2>1. old \in Message /\ Past(old)
    BY <1>4 DEF Past, Handed
  <2>2. PICK r \in rows : m = Message1(r)
    BY <1>2
  <2>3. /\ m.validity = r.validity /\ m.uid = r.uid
        /\ m.validity \in Nat /\ m.uid \in Nat
        /\ old.validity \in Nat /\ old.uid \in Nat
        /\ snap.validity \in Nat /\ loaded.next \in Nat
    BY <2>1, <2>2, ConfigAssumption DEF Message1, Message, Row, Uid, FolderState, Checkpoint
  <2>4. /\ Before(old, snap)
        /\ ~Baseline(loaded, snap)
        /\ loaded.next <= m.uid /\ snap.validity <= m.validity
    BY <1>1, <2>1, <2>2, <2>3 DEF ClaimInvariant, SnapCurrent, RowsNew, Claiming
  <2>5. old.validity = snap.validity => old.uid < loaded.next
    BY <1>1, <2>1, <2>4 DEF ClaimInvariant, LoadedCurrent, Baseline, Claiming
  <2> QED
    BY <2>3, <2>4, <2>5 DEF Before, Stream!Older
<1> QED
  BY <1>1, <1>2, <1>3, <1>4 DEF Stream!Claim, Stream!Message, Message, Uid, Handed

(* The message that is handed over is the oldest of the batch. *)
LEMMA YieldStream ==
    ASSUME TypeOK, ClaimInvariant, BatchOrdered, Yield
    PROVE  Stream!Deliver
<1> USE DEF TypeOK
<1>1. PICK r \in rows :
        /\ \A other \in rows : r.uid <= other.uid
        /\ rows' = rows \ {r}
        /\ delivered' = [delivered EXCEPT ![Message1(r)] = IF @ = 2 THEN 2 ELSE @ + 1]
  BY DEF Yield
<1> DEFINE m == Message1(r)
<1>2. /\ pc = "yield" /\ pc' = "handling"
      /\ lost' = lost
  BY DEF Yield
<1>3. /\ m \in Message
      /\ Pending = {Message1(s) : s \in rows}
      /\ m \in Pending
  BY <1>2 DEF Pending, Message1, Message, Row
<1>4. Pending' = Pending \ {m}
  <2>1. ASSUME NEW s \in rows, s # r
        PROVE  Message1(s) # m
    BY <2>1 DEF Row, Message1, ClaimInvariant, RowsPlaced
  <2>2. Pending' = {Message1(s) : s \in rows \ {r}}
    BY <1>1, <1>2 DEF Pending
  <2> QED
    BY <1>3, <2>1, <2>2
<1>5. Handed' = Handed \cup {m}
  <2>1. delivered[m] = 0
    BY <1>3 DEF ClaimInvariant, PendingNew
  <2>2. delivered'[m] = 1 /\ \A n \in Message \ {m} : delivered'[n] = delivered[n]
    BY <1>1, <1>3, <2>1
  <2> QED
    BY <1>3, <2>2 DEF Handed
<1>6. ASSUME NEW other \in Pending \ {m}
      PROVE  Stream!Older(m, other)
  <2>1. PICK s \in rows : other = Message1(s)
    BY <1>3
  <2>2. /\ m.validity = r.validity /\ m.uid = r.uid /\ s # r
        /\ other.validity = s.validity /\ other.uid = s.uid
        /\ r.validity \in Nat /\ r.uid \in Nat /\ s.validity \in Nat /\ s.uid \in Nat
    BY <1>6, <2>1, ConfigAssumption DEF Message1, Row, Uid
  <2>3. r.uid <= s.uid /\ r.validity <= s.validity /\ r.uid # s.uid
    BY <1>1, <2>2 DEF BatchOrdered
  <2> QED
    BY <2>2, <2>3 DEF Stream!Older
<1> QED
  BY <1>2, <1>3, <1>4, <1>5, <1>6 DEF Stream!Deliver, Handed

(* A step that ends a batch early gives its messages up. *)
LEMMA EndStream ==
    ASSUME StopMidBatch \/ Abandon \/ Crash
    PROVE  Stream!Lose
<1>1. /\ lost' = lost \cup Pending
      /\ pc' = "idle"
      /\ delivered' = delivered
  BY DEF StopMidBatch, Abandon, Crash, GiveUpPending
<1> QED
  BY <1>1 DEF Stream!Lose, Pending

(* All other steps are invisible to the consumer. *)
LEMMA QuietStream ==
    ASSUME TypeOK, ClaimInvariant, [Next]_vars,
           ~Save, ~Yield, ~(StopMidBatch \/ Abandon \/ Crash)
    PROVE  UNCHANGED Stream!vars
<1> USE DEF poll, observed, ForgetPoll
<1>1. CASE \/ MailboxNext \/ Stop \/ Close \/ Reset \/ UNCHANGED vars
  <2>1. UNCHANGED <<pc, rows, delivered, lost>>
    BY <1>1 DEF MailboxNext, Arrive, Expunge, Recreate, Stop, Close, Reset, vars
  <2> QED
    BY <2>1 DEF Stream!vars, Pending
<1>2. CASE \/ Start \/ PollOnce \/ LoopTest \/ WaitReturns \/ BackoffEnds
           \/ ReadState \/ LoadBaseline \/ LoadChanged \/ FetchChunk \/ FetchBodies
  <2>1. /\ {pc, pc'} \cap {"yield", "handling"} = {}
        /\ UNCHANGED <<delivered, lost>>
    <3>1. CASE Start \/ PollOnce \/ LoopTest \/ WaitReturns \/ BackoffEnds
      BY <3>1 DEF Start, PollOnce, LoopTest, WaitReturns, BackoffEnds
    <3>2. CASE ReadState \/ LoadBaseline \/ LoadChanged \/ FetchChunk \/ FetchBodies
      BY <3>2 DEF ReadState, LoadBaseline, LoadChanged, FetchChunk, FetchBodies, AfterFetch
    <3> QED
      BY <1>2, <3>1, <3>2
  <2> QED
    BY <2>1 DEF Stream!vars, Pending
<1>3. CASE LoadUnchanged \/ CallFails
  <2>1. /\ pc \notin {"yield", "handling"}
        /\ rows' = {}
        /\ UNCHANGED <<delivered, lost>>
    BY <1>3 DEF LoadUnchanged, CallFails
  <2> QED
    BY <2>1 DEF Stream!vars, Pending
<1>4. CASE EndBatch \/ HandlerReturns
  <2>1. /\ pc \in {"yield", "handling"}
        /\ pc' = "yield" \/ rows = {}
        /\ UNCHANGED <<rows, delivered, lost>>
    BY <1>4 DEF EndBatch, HandlerReturns
  <2> QED
    BY <2>1 DEF Stream!vars, Pending
<1>5. CASE Recent
  BY <1>5 DEF Recent, ClaimInvariant, RowsPlaced
<1> QED
  BY <1>1, <1>2, <1>3, <1>4, <1>5
     DEF Next, LoopNext, PollNext, ProgramNext, Interruption

(* The watcher implements MailStream: to its consumer it is a source that  *)
(* claims newer and newer messages, hands them over in order of arrival and*)
(* loses none but a batch that was interrupted.                            *)
THEOREM WatcherKeepsPromise ==
    ASSUME ~IncludeExisting, ~UnsolicitedFlags
    PROVE  Spec => ImplementsMailStream
<1>1. Spec => [](TypeOK /\ ClaimInvariant /\ BatchOrdered)
  BY TypeCorrect, ClaimsAreNew, BatchesOrdered, PTL
<1>2. TypeOK /\ ClaimInvariant /\ BatchOrdered /\ [Next]_vars
          => [Stream!Next]_(Stream!vars)
  <2> SUFFICES ASSUME TypeOK, ClaimInvariant, BatchOrdered, [Next]_vars
               PROVE  Stream!Next \/ UNCHANGED Stream!vars
    OBVIOUS
  <2>1. CASE Save
    BY <2>1, SaveStream DEF Stream!Next
  <2>2. CASE Yield
    BY <2>2, YieldStream DEF Stream!Next
  <2>3. CASE StopMidBatch \/ Abandon \/ Crash
    BY <2>3, EndStream DEF Stream!Next
  <2> QED
    BY <2>1, <2>2, <2>3, QuietStream
<1> QED
  BY <1>1, <1>2, InitStream, PTL DEF Spec, ImplementsMailStream, Stream!Spec
=============================================================================
