------------------------------- MODULE Watcher -------------------------------
(***************************************************************************)
(* The polling loop of InboxWatcher (mail/watch.py) over one folder, its   *)
(* checkpoint (mail/state.py) and a mailbox that changes while the loop    *)
(* runs.  Every call of the loop to its backend or to its store is a step  *)
(* of its own, so mail arrives, is expunged, and the folder is re-created  *)
(* between any two of them; other threads stop, close and reset the        *)
(* watcher, and the process crashes, at any step.                          *)
(***************************************************************************)
EXTENDS Naturals, FiniteSets

CONSTANTS
    MaxUid,             \* bound: UIDs a folder hands out per UIDVALIDITY
    MaxValidity,        \* bound: incarnations of the folder
    BatchSize,          \* UIDs per header fetch
    BacklogLimit,       \* messages replayed by the first poll
    SeenHistory,        \* ids a checkpoint remembers; 0 keeps them all
    IncludeExisting,    \* the first poll replays a backlog
    FetchBody,          \* every new message is completed with its body
    HasErrorHandler,    \* on_error is set: failed polls are retried
    Durable,            \* the checkpoint store is a file, not memory
    UnsolicitedFlags,   \* the server adds FETCH lines nobody asked for
    Calls               \* what the program around the watcher does to it

CallNames == {"poll", "stop", "close", "abandon", "crash", "reset", "resetAnytime"}

ASSUME ConfigAssumption ==
    /\ MaxUid \in Nat
    /\ MaxValidity \in Nat \ {0}
    /\ BatchSize \in Nat \ {0}
    /\ BacklogLimit \in Nat
    /\ SeenHistory \in Nat
    /\ {IncludeExisting, FetchBody, HasErrorHandler, Durable, UnsolicitedFlags} \subseteq BOOLEAN
    /\ Calls \subseteq CallNames

VARIABLES
    mailbox,            \* the folder on the server
    checkpoint,         \* what the store holds for this watcher
    pc,                 \* the next step of the loop; "idle" outside of it
    looping,            \* __iter__ drives the poll, not a direct poll() call
    opened,             \* InboxWatcher._opened
    stopped,            \* the stop event
    snap,               \* poll: the folder state it read
    loaded,             \* poll: the checkpoint it loaded
    todo,               \* poll: candidate UIDs still to fetch
    rows,               \* poll: what it fetched and has not handed over
    delivered,          \* observer: times each message was handed over
    lost,               \* observer: saved as seen, never handed over
    base                \* observer: next_id of the last baseline saved

poll == <<snap, loaded, todo, rows>>
observed == <<delivered, lost, base>>
vars == <<mailbox, checkpoint, pc, looping, opened, stopped, poll, observed>>

Uid == 1..MaxUid
Message == [validity : 1..MaxValidity, uid : Uid]
Row == [validity : 1..MaxValidity, uid : Uid, kind : {"header", "flags"}]
Message1(row) == [validity |-> row.validity, uid |-> row.uid]

PollSteps == {"state", "load", "recent", "fetch", "detail", "save"}
Steps == PollSteps \cup {"idle", "test", "yield", "handling", "wait", "backoff"}

NoState == [validity |-> 0, total |-> 0, next |-> 0]
FolderState == [validity : 0..MaxValidity, total : Nat, next : Nat]

(* A checkpoint's seen_ids is a list without repetitions: seen[u] is the   *)
(* place of u counted from its end, 0 when u is not in it.                 *)
SeenIds == [Uid -> Nat]
Nothing == [u \in Uid |-> 0]

(* Checkpoint(), and equally an absent entry: poll treats them alike.      *)
Blank == [validity |-> 0, next |-> 0, fingerprint |-> NoState, seen |-> Nothing]
Checkpoint == [validity : 0..MaxValidity, next : Nat, fingerprint : FolderState, seen : SeenIds]

TypeOK ==
    /\ mailbox \in [validity : 1..MaxValidity, next : 1..(MaxUid + 1), uids : SUBSET Uid]
    /\ checkpoint \in Checkpoint
    /\ pc \in Steps
    /\ looping \in BOOLEAN
    /\ opened \in BOOLEAN
    /\ stopped \in BOOLEAN
    /\ snap \in FolderState
    /\ loaded \in Checkpoint
    /\ todo \in SUBSET Uid
    /\ rows \in SUBSET Row
    /\ delivered \in [Message -> 0..2]
    /\ lost \in SUBSET Message
    /\ base \in Nat

Init ==
    /\ mailbox \in [validity : {1}, next : 1..(MaxUid + 1), uids : SUBSET Uid]
    /\ \A u \in mailbox.uids : u < mailbox.next
    /\ checkpoint = Blank
    /\ pc = "idle"
    /\ looping = FALSE
    /\ opened = FALSE
    /\ stopped = FALSE
    /\ snap = NoState
    /\ loaded = Blank
    /\ todo = {}
    /\ rows = {}
    /\ delivered = [m \in Message |-> 0]
    /\ lost = {}
    /\ base = 0

-----------------------------------------------------------------------------
(* The folder on the server. *)

Arrive ==
    /\ mailbox.next <= MaxUid
    /\ mailbox' = [mailbox EXCEPT !.next = @ + 1, !.uids = @ \cup {mailbox.next}]
    /\ UNCHANGED <<checkpoint, pc, looping, opened, stopped, poll, observed>>

Expunge ==
    /\ \E u \in mailbox.uids : mailbox' = [mailbox EXCEPT !.uids = @ \ {u}]
    /\ UNCHANGED <<checkpoint, pc, looping, opened, stopped, poll, observed>>

(* The folder is deleted and made again: UIDs restart under a new validity. *)
Recreate ==
    /\ mailbox.validity < MaxValidity
    /\ mailbox' = [validity |-> mailbox.validity + 1, next |-> 1, uids |-> {}]
    /\ UNCHANGED <<checkpoint, pc, looping, opened, stopped, poll, observed>>

-----------------------------------------------------------------------------
(* Operators of the poll. *)

(* Mutant: UIDNEXT guessed from the number of messages. *)
StateOf_CountedNext(box) ==
    [validity |-> box.validity, total |-> Cardinality(box.uids),
     next |-> Cardinality(box.uids) + 1]

StateOf(box) ==
    [validity |-> box.validity, total |-> Cardinality(box.uids), next |-> box.next]

(* No usable checkpoint, or one of an earlier incarnation of the folder.   *)
Baseline(ckpt, state) ==
    \/ ckpt.fingerprint = NoState
    \/ ckpt.validity # state.validity

(* Mutants: the range starts at the first UID; seen_ids is not consulted.  *)
Candidates_FromFirst(ckpt, state) ==
    {u \in Uid : u < state.next /\ ckpt.seen[u] = 0}
Candidates_IgnoringSeen(ckpt, state) ==
    {u \in Uid : ckpt.next <= u /\ u < state.next}

Candidates(ckpt, state) ==
    {u \in Uid : ckpt.next <= u /\ u < state.next /\ ckpt.seen[u] = 0}

(* The first chunk of the candidates in ascending order. *)
Chunk(uids) == {u \in uids : Cardinality({v \in uids : v < u}) < BatchSize}

HeaderRows(uids) ==
    [validity : {mailbox.validity}, uid : uids \cap mailbox.uids, kind : {"header"}]

(* At most one untagged FETCH line that reports another client's flag      *)
(* change comes with the answer; the parser makes a row of it.             *)
FlagRows ==
    [validity : {mailbox.validity}, uid : mailbox.uids, kind : {"flags"}]
Unsolicited ==
    {{}} \cup (IF UnsolicitedFlags THEN {{r} : r \in FlagRows} ELSE {})

(* The backlog: IMAP fetches the last UIDs, HTTP lists the last messages.  *)
RecentByUid == {u \in mailbox.uids : mailbox.next <= u + BacklogLimit}
RecentByCount ==
    {u \in mailbox.uids : Cardinality({v \in mailbox.uids : u < v}) < BacklogLimit}
Last(fetched) ==
    {r \in fetched : Cardinality({s \in fetched : r.uid < s.uid}) < BacklogLimit}

Ids(fetched) == {r.uid : r \in fetched}

(* Place of u, counted from the end, in the ascending list of ids. *)
Place(ids, u) == Cardinality({v \in ids : u <= v})

BacklogIds(ids) == [u \in Uid |-> IF u \in ids THEN Place(ids, u) ELSE 0]

(* Checkpoint.remember: unknown ids go to the end, the oldest fall off.    *)
Remember(seen, ids) ==
    LET new == {u \in ids : seen[u] = 0}
        place(u) == IF u \in new THEN Place(new, u)
                    ELSE IF seen[u] = 0 THEN 0 ELSE seen[u] + Cardinality(new)
    IN [u \in Uid |-> IF SeenHistory > 0 /\ place(u) > SeenHistory THEN 0 ELSE place(u)]

(* Mutant: the next UID is read again when the checkpoint is written. *)
NewCheckpoint_LiveNext ==
    [validity |-> snap.validity,
     next |-> mailbox.next,
     fingerprint |-> snap,
     seen |-> Remember(loaded.seen, Ids(rows))]

NewCheckpoint ==
    [validity |-> snap.validity,
     next |-> snap.next,
     fingerprint |-> snap,
     seen |-> IF Baseline(loaded, snap)
              THEN BacklogIds(Ids(rows))
              ELSE Remember(loaded.seen, Ids(rows))]

AfterFetch(fetched) == IF FetchBody /\ fetched # {} THEN "detail" ELSE "save"

ForgetPoll ==
    /\ snap' = NoState
    /\ loaded' = Blank
    /\ todo' = {}
    /\ rows' = {}

(* Saved as seen and not yet handed to the consumer. *)
Pending ==
    IF pc \in {"yield", "handling"} THEN {Message1(r) : r \in rows} ELSE {}

GiveUpPending == lost' = lost \cup Pending

-----------------------------------------------------------------------------
(* The loop and its poll. *)

(* __iter__ begins: it forgets an earlier stop. *)
Start ==
    /\ pc = "idle"
    /\ pc' = "test"
    /\ looping' = TRUE
    /\ stopped' = FALSE
    /\ UNCHANGED <<mailbox, checkpoint, opened, poll, observed>>

(* The program calls poll itself and walks through the tuple it returns.   *)
PollOnce ==
    /\ "poll" \in Calls
    /\ pc = "idle"
    /\ pc' = "state"
    /\ looping' = FALSE
    /\ UNCHANGED <<mailbox, checkpoint, opened, stopped, poll, observed>>

LoopTest ==
    /\ pc = "test"
    /\ pc' = IF stopped THEN "idle" ELSE "state"
    /\ UNCHANGED <<mailbox, checkpoint, looping, opened, stopped, poll, observed>>

(* _open, then source.state(). *)
ReadState ==
    /\ pc = "state"
    /\ opened' = TRUE
    /\ snap' = StateOf(mailbox)
    /\ pc' = "load"
    /\ UNCHANGED <<mailbox, checkpoint, looping, stopped, loaded, todo, rows, observed>>

(* No checkpoint, or a new UIDVALIDITY: _bootstrap. *)
LoadBaseline ==
    /\ pc = "load"
    /\ Baseline(checkpoint, snap)
    /\ loaded' = checkpoint
    /\ pc' = IF IncludeExisting /\ BacklogLimit > 0 THEN "recent" ELSE "save"
    /\ UNCHANGED <<mailbox, checkpoint, looping, opened, stopped, snap, todo, rows, observed>>

(* Nothing happened in the folder: poll returns the empty tuple. *)
LoadUnchanged ==
    /\ pc = "load"
    /\ ~Baseline(checkpoint, snap)
    /\ checkpoint.fingerprint = snap
    /\ ForgetPoll
    /\ pc' = "yield"
    /\ UNCHANGED <<mailbox, checkpoint, looping, opened, stopped, observed>>

LoadChanged ==
    /\ pc = "load"
    /\ ~Baseline(checkpoint, snap)
    /\ checkpoint.fingerprint # snap
    /\ loaded' = checkpoint
    /\ todo' = Candidates(checkpoint, snap)
    /\ pc' = IF todo' = {} THEN "save" ELSE "fetch"
    /\ UNCHANGED <<mailbox, checkpoint, looping, opened, stopped, snap, rows, observed>>

Recent ==
    /\ pc = "recent"
    /\ \/ \E extra \in Unsolicited : rows' = Last(HeaderRows(RecentByUid) \cup extra)
       \/ rows' = HeaderRows(RecentByCount)
    /\ pc' = AfterFetch(rows')
    /\ UNCHANGED <<mailbox, checkpoint, looping, opened, stopped, snap, loaded, todo, observed>>

FetchChunk ==
    /\ pc = "fetch"
    /\ \E extra \in Unsolicited : rows' = rows \cup HeaderRows(Chunk(todo)) \cup extra
    /\ todo' = todo \ Chunk(todo)
    /\ pc' = IF todo' = {} THEN AfterFetch(rows') ELSE "fetch"
    /\ UNCHANGED <<mailbox, checkpoint, looping, opened, stopped, snap, loaded, observed>>

(* fetch_detail for every message; a body that is gone leaves the headers. *)
FetchBodies ==
    /\ pc = "detail"
    /\ pc' = "save"
    /\ UNCHANGED <<mailbox, checkpoint, looping, opened, stopped, poll, observed>>

(* The checkpoint is saved before poll returns the messages.               *)
Save ==
    /\ pc = "save"
    /\ checkpoint' = NewCheckpoint
    /\ base' = IF Baseline(loaded, snap) THEN snap.next ELSE base
    /\ snap' = NoState
    /\ loaded' = Blank
    /\ pc' = "yield"
    /\ UNCHANGED <<mailbox, looping, opened, stopped, todo, rows, delivered, lost>>

StopSeen == looping /\ stopped

(* Mutant: newest first. *)
Yield_NewestFirst ==
    /\ pc = "yield"
    /\ ~StopSeen
    /\ \E r \in rows :
          /\ \A other \in rows : r.uid >= other.uid
          /\ rows' = rows \ {r}
          /\ delivered' = [delivered EXCEPT ![Message1(r)] = IF @ = 2 THEN 2 ELSE @ + 1]
    /\ pc' = "handling"
    /\ UNCHANGED <<mailbox, checkpoint, looping, opened, stopped, snap, loaded, todo, lost, base>>

(* The next message in UID order goes to the consumer. *)
Yield ==
    /\ pc = "yield"
    /\ ~StopSeen
    /\ \E r \in rows :
          /\ \A other \in rows : r.uid <= other.uid
          /\ rows' = rows \ {r}
          /\ delivered' = [delivered EXCEPT ![Message1(r)] = IF @ = 2 THEN 2 ELSE @ + 1]
    /\ pc' = "handling"
    /\ UNCHANGED <<mailbox, checkpoint, looping, opened, stopped, snap, loaded, todo, lost, base>>

(* Mutant: the loop writes its progress after each message. *)
HandlerReturns_SavesProgress ==
    /\ pc = "handling"
    /\ checkpoint' = [checkpoint EXCEPT !.next = mailbox.next]
    /\ pc' = "yield"
    /\ UNCHANGED <<mailbox, looping, opened, stopped, poll, observed>>

HandlerReturns ==
    /\ pc = "handling"
    /\ pc' = "yield"
    /\ UNCHANGED <<mailbox, checkpoint, looping, opened, stopped, poll, observed>>

(* The stop flag is set between two messages: the generator returns.       *)
StopMidBatch ==
    /\ pc = "yield"
    /\ StopSeen
    /\ GiveUpPending
    /\ ForgetPoll
    /\ pc' = "idle"
    /\ UNCHANGED <<mailbox, checkpoint, looping, opened, stopped, delivered, base>>

EndBatch ==
    /\ pc = "yield"
    /\ ~StopSeen
    /\ rows = {}
    /\ pc' = IF looping THEN "wait" ELSE "idle"
    /\ UNCHANGED <<mailbox, checkpoint, looping, opened, stopped, poll, observed>>

(* source.wait: a push, the interval, or the stop event. *)
WaitReturns ==
    /\ pc = "wait"
    /\ pc' = "test"
    /\ UNCHANGED <<mailbox, checkpoint, looping, opened, stopped, poll, observed>>

(* A call of the poll, or the wait, raises.  poll has no clean-up: what it *)
(* read is dropped and the checkpoint is as it was.                        *)
CallFails ==
    /\ pc \in {"state", "recent", "fetch", "detail", "save", "wait"}
    /\ ForgetPoll
    /\ opened' \in IF pc = "state" THEN {opened, TRUE} ELSE {opened}
    /\ pc' = IF looping /\ HasErrorHandler THEN "backoff" ELSE "idle"
    /\ UNCHANGED <<mailbox, checkpoint, looping, stopped, observed>>

(* _handle_error waits on the stop event: a stop ends the loop, the delay  *)
(* starts the next cycle.                                                  *)
BackoffEnds ==
    /\ pc = "backoff"
    /\ pc' \in IF stopped THEN {"idle"} ELSE {"test"}
    /\ UNCHANGED <<mailbox, checkpoint, looping, opened, stopped, poll, observed>>

-----------------------------------------------------------------------------
(* The program around the watcher. *)

Stop ==
    /\ "stop" \in Calls
    /\ ~stopped
    /\ stopped' = TRUE
    /\ UNCHANGED <<mailbox, checkpoint, pc, looping, opened, poll, observed>>

Close ==
    /\ "close" \in Calls
    /\ stopped' = TRUE
    /\ opened' = FALSE
    /\ UNCHANGED <<mailbox, checkpoint, pc, looping, poll, observed>>

(* The consumer breaks out of its loop, or its own code raises. *)
Abandon ==
    /\ "abandon" \in Calls
    /\ pc = "handling"
    /\ GiveUpPending
    /\ ForgetPoll
    /\ pc' = "idle"
    /\ UNCHANGED <<mailbox, checkpoint, looping, opened, stopped, delivered, base>>

(* reset by the thread that drives the watcher, or by any other thread.    *)
Reset ==
    /\ \/ "reset" \in Calls /\ pc \in {"idle", "handling", "backoff"}
       \/ "resetAnytime" \in Calls
    /\ checkpoint' = Blank
    /\ UNCHANGED <<mailbox, pc, looping, opened, stopped, poll, observed>>

(* The process dies and is started again, with the file if it kept one.    *)
Crash ==
    /\ "crash" \in Calls
    /\ GiveUpPending
    /\ ForgetPoll
    /\ checkpoint' = IF Durable THEN checkpoint ELSE Blank
    /\ pc' = "idle"
    /\ opened' = FALSE
    /\ stopped' = FALSE
    /\ UNCHANGED <<mailbox, looping, delivered, base>>

PollNext ==
    \/ ReadState \/ LoadBaseline \/ LoadUnchanged \/ LoadChanged
    \/ Recent \/ FetchChunk \/ FetchBodies \/ Save

LoopNext ==
    \/ LoopTest \/ PollNext \/ Yield \/ StopMidBatch \/ EndBatch
    \/ HandlerReturns \/ WaitReturns \/ BackoffEnds

MailboxNext == Arrive \/ Expunge \/ Recreate

Interruption == Stop \/ Close \/ Abandon \/ Reset \/ Crash

ProgramNext == Start \/ PollOnce \/ Interruption

Next == MailboxNext \/ LoopNext \/ CallFails \/ ProgramNext

Spec == Init /\ [][Next]_vars

(* The loop's thread runs and its calls and handlers return; the program   *)
(* iterates again whenever the loop has ended.                             *)
Fairness == WF_vars(LoopNext) /\ WF_vars(Start)

LiveSpec == Spec /\ Fairness

-----------------------------------------------------------------------------
(* Properties. *)

(* No message reaches the consumer twice, whatever fails, stops, restarts  *)
(* or is re-created in between.                                            *)
NoDuplicate == \A m \in Message : delivered[m] <= 1

(* Every message still in the folder that arrived after the baseline and   *)
(* that the checkpoint claims as seen was handed over, is about to be, or  *)
(* was given up with its batch: no failed call, chunk boundary, expunge or *)
(* restart makes the checkpoint skip one.                                  *)
Accounted ==
    checkpoint.validity = mailbox.validity =>
        \A u \in mailbox.uids :
            LET m == [validity |-> mailbox.validity, uid |-> u]
            IN (base <= u /\ u < checkpoint.next) =>
                   (delivered[m] > 0 \/ m \in Pending \/ m \in lost)

(* reset: "Forget the stored checkpoint; the next poll re-establishes a    *)
(* baseline."  A forgotten checkpoint is replaced by a baseline only, never*)
(* by the result of a poll that read the checkpoint before it was          *)
(* forgotten.                                                              *)
ResetSticks ==
    [][checkpoint = Blank /\ checkpoint' # Blank =>
           pc = "save" /\ Baseline(loaded, snap)]_vars

(* The watcher keeps the promise of MailStream: it claims newer messages   *)
(* only, one batch at a time, and hands them over oldest first.            *)
Stream == INSTANCE MailStream WITH
    pending <- Pending,
    delivered <- {m \in Message : delivered[m] > 0}

ImplementsMailStream == Stream!Spec

(* A message that is in the folder and arrived after the baseline.         *)
Due(m) ==
    /\ m.validity = mailbox.validity
    /\ m.validity = checkpoint.validity
    /\ m.uid \in mailbox.uids
    /\ base <= m.uid

(* Once outages and the program's own calls end, every such message is     *)
(* handed to the consumer, unless it was given up with its batch, or is    *)
(* expunged or its folder re-created first: backoff, retries and half-done *)
(* batches lose no mail.                                                   *)
NewMailDelivered ==
    <>[][~CallFails /\ ~Interruption]_vars =>
        \A m \in Message : Due(m) ~> (delivered[m] > 0 \/ m \in lost \/ ~Due(m))

-----------------------------------------------------------------------------
(* Why no message comes twice when the first poll replays nothing and the  *)
(* server sends only what it was asked for.                                *)

(* m was claimed: its UID is behind a checkpoint that was saved.           *)
Past(m) == delivered[m] > 0 \/ m \in lost \/ m \in Pending

(* m had its UID before the folder reached this state. *)
Before(m, state) ==
    \/ m.validity < state.validity
    \/ m.validity = state.validity /\ m.uid < state.next

Claiming == pc \in {"fetch", "detail", "save"}

UidsGrow == \A u \in mailbox.uids : u < mailbox.next

PastKnown == \A m \in Message : Past(m) => Before(m, mailbox)

PastCheckpointed ==
    \A m \in Message :
        Past(m) /\ m.validity = checkpoint.validity => m.uid < checkpoint.next

SnapCurrent ==
    pc = "load" \/ Claiming =>
        /\ snap.validity <= mailbox.validity
        /\ \A m \in Message : Past(m) => Before(m, snap)

LoadedCurrent ==
    Claiming /\ ~Baseline(loaded, snap) =>
        \A m \in Message :
            Past(m) /\ m.validity = loaded.validity => m.uid < loaded.next

RowsNew ==
    Claiming =>
        /\ Baseline(loaded, snap) => rows = {} /\ todo = {}
        /\ \A u \in todo : loaded.next <= u /\ u < snap.next
        /\ \A r \in rows :
              /\ loaded.next <= r.uid /\ r.uid < snap.next
              /\ snap.validity <= r.validity
              /\ Before(r, mailbox)

RowsPlaced ==
    /\ \A r \in rows : r.kind = "header"
    /\ pc # "recent"
    /\ rows # {} => Claiming \/ pc \in {"yield", "handling"}
    /\ todo # {} => pc = "fetch"

PendingNew ==
    \A m \in Message :
        /\ m \in Pending => delivered[m] = 0 /\ m \notin lost
        /\ m \in lost => delivered[m] = 0

(* With neither backlog nor unsolicited rows, what is about to be claimed  *)
(* is newer than everything claimed before.                                *)
ClaimInvariant ==
    /\ UidsGrow
    /\ PastKnown
    /\ PastCheckpointed
    /\ SnapCurrent
    /\ LoadedCurrent
    /\ RowsNew
    /\ RowsPlaced
    /\ PendingNew
    /\ NoDuplicate

(* One batch may hold messages of two incarnations of the folder, when it  *)
(* was re-created between two chunks.  Its UIDs then still rise with the   *)
(* incarnations, so that handing it over by UID is handing it over in order*)
(* of arrival.                                                             *)
BatchOrdered ==
    /\ \A r, s \in rows :
          r.uid <= s.uid => r.validity <= s.validity /\ (r.uid = s.uid => r = s)
    /\ \A r \in rows, u \in todo : r.uid < u
=============================================================================
