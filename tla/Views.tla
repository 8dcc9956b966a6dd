-------------------------------- MODULE Views ---------------------------------
(***************************************************************************)
(* The watcher's checkpoint over the two backends of a FailoverMailSource  *)
(* (mail/sources.py) that see the folder differently: either may be behind.*)
(* A call of InboxWatcher.poll (mail/watch.py) that fails on the primary is*)
(* repeated on the fallback within the call, so one poll can read the state*)
(* of one backend and fetch from the other, and the next poll can meet an  *)
(* older next UID than the checkpoint's.  Failover models when a switch    *)
(* happens; here it happens at any call.  How long a wait lasts, and what  *)
(* ends it early, is left open: that is IMAPIdle's.  A message is its UID. *)
(***************************************************************************)
EXTENDS Naturals, FiniteSets, FiniteSetsExt

CONSTANTS
    MaxMail,        \* bound: messages that ever arrive
    Histories       \* values of seen_history

ASSUME ViewsAssumption == MaxMail \in Nat \ {0, 1} /\ Histories \subseteq Nat \ {0}

VARIABLES
    lags,           \* setting: the backends that may be behind
    broken,         \* setting: a message whose IMAP header does not convert, or 0
    complete,       \* setting: every state has the next UID
    history,        \* setting: seen_history
    arrived,        \* messages 1 .. arrived are in the folder
    view,           \* messages 1 .. view[b] are visible through backend b
    active,         \* FailoverMailSource._active
    pc,             \* the next call of the loop: "state", "fetch", "recover", "wait"
    checkpoint,     \* the stored Checkpoint
    snap,           \* poll's state, when there is something to fetch
    delivered,      \* messages handed over
    repeated,       \* observer: messages handed over more than once
    base,           \* observer: the baseline of the first poll
    worst           \* observer: how far a backend has been behind

settings == <<lags, broken, complete, history>>
folder == <<arrived, view, worst>>
results == <<checkpoint, snap, delivered, repeated, base>>
vars == <<settings, folder, active, pc, results>>

Backends == {"primary", "fallback"}
Mail == 1 .. MaxMail

NoState == [next |-> 0, backend |-> "primary"]

(* seen_ids: the place of each message, counted from the newest; 0 when it *)
(* is not there.                                                           *)
Nothing == [m \in Mail |-> 0]
NoCheckpoint == [next |-> 0, backend |-> "none", seen |-> Nothing]
Seen == {m \in Mail : checkpoint.seen[m] > 0}

FolderOK ==
    /\ lags \subseteq Backends /\ arrived \in 0 .. MaxMail
    /\ view \in [Backends -> 0 .. arrived] /\ worst \in 0 .. arrived
    /\ \A b \in Backends \ lags : view[b] = arrived

SourceOK ==
    /\ active \in Backends
    /\ pc \in {"state", "fetch", "recover", "wait"}

ResultsOK ==
    /\ broken \in Mail \cup {0} /\ complete \in BOOLEAN /\ history \in Histories
    /\ checkpoint \in [next : 0 .. arrived + 1, backend : Backends \cup {"none"},
                       seen : [Mail -> 0 .. history]]
    /\ snap \in [next : 0 .. arrived + 1, backend : Backends]
    /\ repeated \subseteq delivered /\ delivered \subseteq 1 .. arrived
    /\ base \in 0 .. arrived

TypeOK == FolderOK /\ SourceOK /\ ResultsOK

Init ==
    /\ lags \in SUBSET Backends
    /\ broken \in {0, 2} /\ history \in Histories
    /\ complete \in BOOLEAN /\ (complete \/ <<lags, broken>> = <<{}, 0>>)
    /\ arrived = 1 /\ view = [b \in Backends |-> 1] /\ worst = 0
    /\ active = "primary" /\ pc = "state"
    /\ checkpoint = NoCheckpoint /\ snap = NoState
    /\ delivered = {} /\ repeated = {}
    /\ base = 0

-----------------------------------------------------------------------------
(* The folder and its views.                                               *)

Arrive ==
    /\ arrived < MaxMail
    /\ arrived' = arrived + 1
    /\ view' = [b \in Backends |-> IF b \in lags THEN view[b] ELSE arrived']
    /\ worst' = Max({worst} \cup {arrived' - view'[b] : b \in Backends})
    /\ UNCHANGED <<settings, active, pc, results>>

CatchUp ==
    /\ \E b \in lags : view[b] < arrived /\ view' = [view EXCEPT ![b] = @ + 1]
    /\ UNCHANGED <<settings, arrived, worst, active, pc, results>>

-----------------------------------------------------------------------------
(* FailoverMailSource.                                                     *)

(* _guard: the call is answered by the active backend, or by the fallback  *)
(* after the primary failed and was closed.                                *)
AnsweredBy(b) == b \in {active, "fallback"} /\ active' = b

(* Both fail: the fallback to open, or to answer the repeated call.        *)
Unanswered == active' \in {active, "fallback"}

(* The watcher is closed and iterated again: open tries the primary first. *)
Reopen ==
    /\ pc = "state" /\ active' \in Backends
    /\ UNCHANGED <<settings, folder, pc, results>>

-----------------------------------------------------------------------------
(* One poll, and the batch handed over.                                    *)

(* Mutant: the seen ids alone say what is new. *)
Candidates_FromStart(next) == (1 .. next - 1) \ Seen

(* range(checkpoint.next_id, state.next_id) without the ids already seen.  *)
Candidates(next) == (checkpoint.next .. next - 1) \ Seen

(* remember: the ids go to the end in order, the oldest fall off.          *)
Remember(ids) ==
    LET place(m) == IF m \in Seen THEN checkpoint.seen[m] + Cardinality(ids)
                    ELSE IF m \in ids THEN Cardinality({n \in ids : m <= n}) ELSE 0
    IN [m \in Mail |-> IF place(m) <= history THEN place(m) ELSE 0]

SaveAs(state, seen) ==
    checkpoint' = [next |-> state.next, backend |-> state.backend, seen |-> seen]

(* Mutant: the seen ids are dropped with every checkpoint that needs no    *)
(* fetch.                                                                  *)
KeptSeen_Dropped == Nothing

KeptSeen == checkpoint.seen

(* state: a next UID that is missing or is no number is read as 0.         *)
States(b) == [next : {view[b] + 1} \cup (IF complete THEN {} ELSE {0}), backend : {b}]

(* source.state, and the branches of poll that need no fetch: the baseline,*)
(* an equal fingerprint, nothing new.  The fingerprints of two backends are*)
(* never equal, HTTP's alone has a token.                                  *)
ReadState(b) ==
    /\ pc = "state" /\ AnsweredBy(b)
    /\ \E state \in States(b) :
         LET first == checkpoint.backend = "none"
             changed == <<checkpoint.next, checkpoint.backend>> # <<state.next, b>>
             fetches == ~first /\ changed /\ Candidates(state.next) # {}
         IN /\ pc' = IF fetches THEN "fetch" ELSE "recover"
            /\ snap' = IF fetches THEN state ELSE NoState
            /\ IF ~fetches /\ changed
               THEN SaveAs(state, KeptSeen) ELSE UNCHANGED checkpoint
            /\ base' = IF first THEN view[b] ELSE base
    /\ UNCHANGED <<settings, folder, delivered, repeated>>

(* Mutant: a row that does not convert is left out. *)
Rows_LeftOut(b) ==
    (Candidates(snap.next) \cap (1 .. view[b])) \ (IF b = "primary" THEN {broken} ELSE {})

(* Ids a backend does not know are skipped. *)
Rows(b) == Candidates(snap.next) \cap (1 .. view[b])

(* header_row raises on some headers, with no error that _guard handles.   *)
Converts(b) == b = "primary" => broken \notin Rows(b)

(* _fetch_new, remember, _save, and the messages handed over.              *)
Fetch(b) ==
    /\ pc = "fetch" /\ AnsweredBy(b)
    /\ Converts(b)
    /\ delivered' = delivered \cup Rows(b)
    /\ repeated' = repeated \cup (delivered \cap Rows(b))
    /\ SaveAs(snap, Remember(Rows(b)))
    /\ snap' = NoState
    /\ pc' = "recover"
    /\ UNCHANGED <<settings, folder, base>>

(* Mutant: the state of a poll that fails is saved all the same. *)
PollEnds_Claims ==
    /\ pc' = "state" /\ snap' = NoState
    /\ IF snap = NoState THEN UNCHANGED checkpoint ELSE SaveAs(snap, checkpoint.seen)
    /\ UNCHANGED <<settings, folder, delivered, repeated, base>>

(* A poll that fails changes nothing; the loop's next call is poll again.  *)
PollEnds ==
    /\ pc' = "state" /\ snap' = NoState
    /\ UNCHANGED <<settings, folder, checkpoint, delivered, repeated, base>>

PollFails == pc \in {"state", "fetch"} /\ Unanswered /\ PollEnds

FetchRaises ==
    /\ pc = "fetch" /\ active = "primary" /\ AnsweredBy("primary")
    /\ ~Converts("primary")
    /\ PollEnds

-----------------------------------------------------------------------------
(* The wait.                                                               *)

(* _maybe_recover, and the wait begins. *)
Recover ==
    /\ pc = "recover" /\ pc' = "wait"
    /\ active' \in {active, "primary"}
    /\ UNCHANGED <<settings, folder, results>>

(* The session has told of new mail, or the time is up. *)
WaitEnds ==
    /\ pc = "wait" /\ pc' = "state"
    /\ UNCHANGED <<settings, folder, active, results>>

(* The primary fails while it waits: the fallback waits, or backs off.     *)
WaitFails ==
    /\ pc = "wait" /\ active = "primary"
    /\ \/ active' = "fallback" /\ UNCHANGED pc
       \/ pc' = "state" /\ UNCHANGED active
    /\ UNCHANGED <<settings, folder, results>>

Loop ==
    \/ \E b \in Backends : ReadState(b) \/ Fetch(b)
    \/ PollFails \/ FetchRaises \/ Recover \/ WaitEnds \/ WaitFails

Next == Arrive \/ CatchUp \/ Reopen \/ Loop

Spec == Init /\ [][Next]_vars

(* Calls are answered, waits end, and a backend does not stay behind.      *)
LiveSpec ==
    /\ Spec
    /\ WF_vars(\E b \in Backends : ReadState(b))
    /\ WF_vars(Fetch(active)) /\ WF_vars(FetchRaises)
    /\ WF_vars(Recover) /\ WF_vars(WaitEnds)
    /\ WF_vars(CatchUp)

-----------------------------------------------------------------------------
(* Properties.                                                             *)

(* docs/watching.md: "a failover mid-run never replays or drops a message".*)
(* A message is handed over twice only when a backend was so far behind    *)
(* that the seen history does not reach: what came after it, and what was  *)
(* missed before it and fetched late, together push it out; or when a state*)
(* came without the next UID.                                              *)
NoReplay == complete /\ history >= 2 * worst - 1 => repeated = {}

(* No checkpoint passes a message that was not handed over, as long as the *)
(* fallback is not behind: only a call that is handed to it in the middle  *)
(* of a poll can miss what the poll's state promised.  It holds with a     *)
(* header that never converts as well: the watcher stays in front of it.   *)
NothingDropped ==
    "fallback" \notin lags => (base + 1 .. checkpoint.next - 1) \subseteq delivered

(* docs/watching.md, "The first poll", takes what is there as known.  Of   *)
(* that no more is handed over as new than a backend was ever behind.      *)
OldMailBounded == complete => \A m \in delivered : m + worst > base

(* All mail is handed over in the end when polls stop failing, the fallback*)
(* is not behind, and headers convert or the fallback serves for good.     *)
AllDelivered ==
    /\ "fallback" \notin lags /\ complete
    /\ <>[][~PollFails]_vars
    /\ broken = 0 \/ <>[](active = "fallback")
    => <>[](base + 1 .. arrived \subseteq delivered)
=============================================================================
