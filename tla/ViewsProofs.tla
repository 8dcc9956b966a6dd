----------------------------- MODULE ViewsProofs ------------------------------
(***************************************************************************)
(* Theorems about Views, for any number of messages, any seen history and  *)
(* any lag of the backends, and about Failover, which is the same source   *)
(* seen from its connections.                                              *)
(***************************************************************************)
EXTENDS Views, FiniteSetTheorems, TLAPS

LEMMA Bounds == MaxMail \in Nat /\ 2 <= MaxMail /\ Histories \subseteq Nat \ {0}
  BY ViewsAssumption

LEMMA MaxOfThree ==
    ASSUME NEW a \in Nat, NEW b \in Nat, NEW c \in Nat
    PROVE  LET m == Max({a} \cup {b, c}) IN m \in {a, b, c} /\ m >= a /\ m >= b /\ m >= c
<1> DEFINE S == {a} \cup {b, c}
<1>1. \E x \in S : \A y \in S : x >= y
  <2>1. CASE a >= b /\ a >= c
    BY <2>1
  <2>2. CASE b >= a /\ b >= c
    BY <2>2
  <2>3. CASE c >= a /\ c >= b
    BY <2>3
  <2> QED
    BY <2>1, <2>2, <2>3
<1> HIDE DEF S
<1>2. Max(S) \in S /\ \A y \in S : Max(S) >= y
  BY <1>1 DEF Max
<1> QED
  BY <1>2 DEF S

(* How far a backend is behind, and that worst never shrinks. *)
LEMMA WorstGrows ==
    ASSUME TypeOK, Arrive
    PROVE  /\ worst' \in 0 .. arrived' /\ worst' >= worst
           /\ \A b \in Backends : arrived' - view'[b] <= worst'
           /\ view' \in [Backends -> 0 .. arrived']
           /\ \A b \in Backends : view'[b] >= view[b]
           /\ arrived' = arrived + 1 /\ arrived' \in 0 .. MaxMail
<1> USE Bounds
<1>1. view' \in [Backends -> 0 .. arrived'] /\ \A b \in Backends : view'[b] >= view[b]
  BY DEF TypeOK, FolderOK, Arrive
<1>2. arrived \in Nat /\ worst \in 0 .. arrived /\ arrived' = arrived + 1 /\ arrived' \in 0 .. MaxMail
  BY DEF TypeOK, FolderOK, Arrive
<1> DEFINE p == arrived' - view'["primary"]
           f == arrived' - view'["fallback"]
<1>3. p \in 0 .. arrived' /\ f \in 0 .. arrived'
  BY <1>1, <1>2 DEF Backends
<1>4. worst' = Max({worst} \cup {p, f})
  <2>1. {arrived' - view'[b] : b \in Backends} = {p, f}
    BY DEF Backends
  <2> QED
    BY <2>1 DEF Arrive
<1> HIDE DEF p, f
<1>5. worst' \in {worst, p, f} /\ worst' >= worst /\ worst' >= p /\ worst' >= f
  BY <1>2, <1>3, <1>4, MaxOfThree
<1>6. worst' \in 0 .. arrived'
  BY <1>2, <1>3, <1>5
<1>7. \A b \in Backends : arrived' - view'[b] <= worst'
  BY <1>1, <1>3, <1>5 DEF Backends, p, f
<1> QED
  BY <1>1, <1>2, <1>5, <1>6, <1>7

-----------------------------------------------------------------------------
(* The seen history.                                                       *)

LEMMA CandidatesFinite ==
    ASSUME NEW n \in Nat, NEW ids, ids \subseteq 0 .. n
    PROVE  IsFiniteSet(ids) /\ Cardinality(ids) \in Nat
<1>1. IsFiniteSet(0 .. n)
  BY FS_Interval
<1> QED
  BY <1>1, FS_Subset, FS_CardinalityType

LEMMA RememberType ==
    ASSUME TypeOK, NEW n \in Nat, NEW ids, ids \subseteq 0 .. n
    PROVE  /\ Remember(ids) \in [Mail -> 0 .. history]
           /\ \A m \in Mail : Remember(ids)[m] > 0 => m \in Seen \cup ids
<1>1. history \in Nat /\ checkpoint.seen \in [Mail -> Nat]
  BY Bounds DEF TypeOK, ResultsOK
<1>2. Cardinality(ids) \in Nat
  BY CandidatesFinite
<1>3. \A m \in Mail : Cardinality({k \in ids : m <= k}) \in Nat
  <2> TAKE m \in Mail
  <2>1. {k \in ids : m <= k} \subseteq 0 .. n
    OBVIOUS
  <2> QED
    BY <2>1, CandidatesFinite
<1> DEFINE place(m) == IF m \in Seen THEN checkpoint.seen[m] + Cardinality(ids)
                       ELSE IF m \in ids THEN Cardinality({k \in ids : m <= k}) ELSE 0
<1>4. \A m \in Mail : place(m) \in Nat /\ (place(m) > 0 => m \in Seen \cup ids)
  BY <1>1, <1>2, <1>3
<1>5. Remember(ids) = [m \in Mail |-> IF place(m) <= history THEN place(m) ELSE 0]
  BY DEF Remember
<1> HIDE DEF place
<1> QED
  BY <1>1, <1>4, <1>5
-----------------------------------------------------------------------------
(* Types.                                                                  *)

LEMMA InitTyped == Init => TypeOK
<1> USE Bounds DEF Init
<1>1. Init => FolderOK
  <2>1. Init => view \in [Backends -> 0 .. arrived] /\ arrived = 1 /\ worst = 0
    OBVIOUS
  <2> QED
    BY <2>1 DEF FolderOK, Backends
<1>2. Init => SourceOK
  BY DEF SourceOK, Backends
<1>3. Init => ResultsOK
  <2>1. Init => checkpoint \in [next : 0 .. arrived + 1, backend : Backends \cup {"none"},
                                seen : [Mail -> 0 .. history]]
    BY DEF NoCheckpoint, Nothing
  <2>2. Init => snap \in [next : 0 .. arrived + 1, backend : Backends]
    BY DEF NoState, Backends
  <2>3. Init => broken \in Mail \cup {0}
    BY DEF Mail
  <2> QED
    BY <2>1, <2>2, <2>3 DEF ResultsOK
<1> QED
  BY <1>1, <1>2, <1>3 DEF TypeOK

LEMMA NextFolderOK ==
    ASSUME TypeOK, [Next]_vars
    PROVE  FolderOK'
<1> USE Bounds DEF TypeOK, FolderOK, SourceOK, settings, folder, results
<1>1. CASE Arrive
  <2>1. \A b \in Backends \ lags : view'[b] = arrived'
    BY <1>1 DEF Arrive
  <2> QED
    BY <1>1, <2>1, WorstGrows DEF Arrive
<1>2. CASE CatchUp
  BY <1>2 DEF CatchUp
<1>3. CASE UNCHANGED folder /\ UNCHANGED settings
  BY <1>3
<1>4. Reopen \/ Loop => UNCHANGED folder /\ UNCHANGED settings
  BY DEF Reopen, Loop, ReadState, Fetch, PollFails, FetchRaises, PollEnds, Recover,
         WaitEnds, WaitFails
<1>5. UNCHANGED vars => UNCHANGED folder /\ UNCHANGED settings
  BY DEF vars
<1> QED
  BY <1>1, <1>2, <1>3, <1>4, <1>5 DEF Next

LEMMA NextSourceOK ==
    ASSUME TypeOK, [Next]_vars
    PROVE  SourceOK'
<1> USE DEF TypeOK, SourceOK, Backends
<1>1. CASE Arrive \/ CatchUp \/ Reopen \/ UNCHANGED vars
  BY <1>1 DEF Arrive, CatchUp, Reopen, vars
<1>2. CASE \E b \in Backends : ReadState(b) \/ Fetch(b)
  BY <1>2 DEF ReadState, Fetch, AnsweredBy
<1>3. CASE PollFails \/ FetchRaises
  BY <1>3 DEF PollFails, FetchRaises, PollEnds, Unanswered, AnsweredBy
<1>4. CASE Recover \/ WaitEnds \/ WaitFails
  BY <1>4 DEF Recover, WaitEnds, WaitFails
<1> QED
  BY <1>1, <1>2, <1>3, <1>4 DEF Next, Loop

(* The messages that Fetch hands over. *)
LEMMA RowsType ==
    ASSUME TypeOK, NEW b \in Backends
    PROVE  /\ Rows(b) \subseteq 1 .. arrived /\ Rows(b) \subseteq 0 .. arrived
           /\ Rows(b) \cap Seen = {}
           /\ \A m \in Rows(b) : checkpoint.next <= m
<1>1. checkpoint.next \in Nat /\ view[b] \in 0 .. arrived /\ arrived \in Nat /\ snap.next \in Nat
  BY Bounds DEF TypeOK, FolderOK, ResultsOK
<1> QED
  BY <1>1 DEF Rows, Candidates

LEMMA NextResultsOK ==
    ASSUME TypeOK, [Next]_vars
    PROVE  ResultsOK'
<1> USE Bounds DEF TypeOK, FolderOK, ResultsOK, settings, folder, results
<1>1. CASE Arrive
  BY <1>1, WorstGrows DEF Arrive
<1>2. CASE CatchUp \/ Reopen \/ Recover \/ WaitEnds \/ WaitFails
  BY <1>2 DEF CatchUp, Reopen, Recover, WaitEnds, WaitFails
<1>3. ASSUME NEW b \in Backends, ReadState(b) PROVE ResultsOK'
  BY <1>3 DEF ReadState, States, SaveAs, KeptSeen, NoState, Backends
<1>4. ASSUME NEW b \in Backends, Fetch(b) PROVE ResultsOK'
  <2>1. Remember(Rows(b)) \in [Mail -> 0 .. history]
    BY RowsType, RememberType
  <2>2. checkpoint' = [next |-> snap.next, backend |-> snap.backend, seen |-> Remember(Rows(b))]
    BY <1>4 DEF Fetch, SaveAs
  <2>3. snap' = NoState /\ UNCHANGED <<settings, folder, base>>
    BY <1>4 DEF Fetch
  <2>4. checkpoint' \in [next : 0 .. arrived + 1, backend : Backends \cup {"none"},
                         seen : [Mail -> 0 .. history]]
    BY <2>1, <2>2
  <2>5. snap' \in [next : 0 .. arrived + 1, backend : Backends]
    BY <2>3 DEF NoState, Backends
  <2>6. repeated' \subseteq delivered' /\ delivered' \subseteq 1 .. arrived
    BY <1>4, RowsType DEF Fetch
  <2> QED
    BY <2>3, <2>4, <2>5, <2>6
<1>5. CASE PollFails \/ FetchRaises
  <2>1. snap' = NoState /\ UNCHANGED <<settings, folder, checkpoint, delivered, repeated, base>>
    BY <1>5 DEF PollFails, FetchRaises, PollEnds
  <2>2. snap' \in [next : 0 .. arrived + 1, backend : Backends]
    BY <2>1 DEF NoState, Backends
  <2> QED
    BY <2>1, <2>2
<1>6. CASE UNCHANGED vars
  BY <1>6 DEF vars
<1> QED
  BY <1>1, <1>2, <1>3, <1>4, <1>5, <1>6 DEF Next, Loop

(* Every reachable state of the watcher, its source and the folder is well *)
(* typed.                                                                  *)
THEOREM ViewsTyped == Spec => []TypeOK
<1>1. TypeOK /\ [Next]_vars => TypeOK'
  BY NextFolderOK, NextSourceOK, NextResultsOK DEF TypeOK
<1> QED
  BY InitTyped, <1>1, PTL DEF Spec

-----------------------------------------------------------------------------
(* What the checkpoint and the state that a poll has read are worth.       *)

(* A backend is behind by as much as it ever was, and what was seen was    *)
(* handed over.                                                            *)
Behind ==
    /\ \A b \in Backends : arrived - view[b] <= worst
    /\ Seen \subseteq delivered

(* The state of a poll shows no message that the backend which is about to *)
(* be asked for it does not know.                                          *)
Claims ==
    "fallback" \notin lags =>
        /\ (base + 1 .. checkpoint.next - 1) \subseteq delivered
        /\ pc = "fetch" /\ active = "primary" => snap.next <= view["primary"] + 1

(* Neither reaches further behind the baseline than a backend was behind.  *)
Reach ==
    /\ checkpoint.backend = "none" => delivered = {} /\ pc # "fetch"
    /\ complete =>
        /\ checkpoint.backend # "none" => base < checkpoint.next + worst
        /\ pc = "fetch" => base < snap.next + worst
        /\ OldMailBounded

ViewsInv == Behind /\ Claims /\ Reach

LEMMA Numbers ==
    ASSUME TypeOK
    PROVE  /\ arrived \in Nat /\ worst \in Nat /\ base \in Nat /\ base <= arrived
           /\ checkpoint.next \in Nat /\ snap.next \in Nat /\ snap.next <= arrived + 1
           /\ \A b \in Backends : view[b] \in Nat /\ view[b] <= arrived
           /\ "primary" \in Backends /\ "fallback" \in Backends /\ active \in Backends
           /\ delivered \subseteq Nat /\ Mail \subseteq Nat
           /\ \A m \in Mail : checkpoint.seen[m] \in Nat
<1> USE Bounds DEF TypeOK, FolderOK, SourceOK, ResultsOK
<1>1. arrived \in Nat /\ worst \in Nat /\ base \in Nat /\ base <= arrived
  OBVIOUS
<1>2. checkpoint.next \in Nat /\ snap.next \in Nat /\ snap.next <= arrived + 1
  BY <1>1
<1>3. \A b \in Backends : view[b] \in Nat /\ view[b] <= arrived
  BY <1>1
<1>4. "primary" \in Backends /\ "fallback" \in Backends /\ active \in Backends
  BY DEF Backends
<1>5. delivered \subseteq Nat /\ Mail \subseteq Nat
  BY <1>1 DEF Mail
<1>6. \A m \in Mail : checkpoint.seen[m] \in Nat
  BY <1>5
<1> QED
  BY <1>1, <1>2, <1>3, <1>4, <1>5, <1>6

LEMMA InitViews == Init => ViewsInv
<1> USE Bounds DEF Init
<1>1. Init => Behind
  BY DEF Behind, Seen, Nothing, NoCheckpoint, Backends
<1>2. Init => Claims /\ Reach
  BY DEF Claims, Reach, OldMailBounded, NoCheckpoint
<1> QED
  BY <1>1, <1>2 DEF ViewsInv

(* What ReadState does, whichever branch of poll it takes. *)
LEMMA StateRead ==
    ASSUME TypeOK, NEW b \in Backends, ReadState(b)
    PROVE  \E n \in Nat :
             /\ n \in {0, view[b] + 1} /\ (complete => n = view[b] + 1)
             /\ \/ /\ pc' = "fetch" /\ snap'.next = n /\ UNCHANGED <<checkpoint, base>>
                   /\ checkpoint.backend # "none"
                \/ /\ pc' = "recover" /\ checkpoint'.next = n
                   /\ checkpoint'.seen = checkpoint.seen /\ checkpoint'.backend # "none"
                   /\ \/ checkpoint.backend = "none" /\ base' = view[b]
                      \/ /\ checkpoint.backend # "none" /\ base' = base
                         /\ \A m \in checkpoint.next .. n - 1 : m \in Seen
<1> DEFINE first == checkpoint.backend = "none"
           changed(state) == <<checkpoint.next, checkpoint.backend>> # <<state.next, b>>
           fetches(state) == ~first /\ changed(state) /\ Candidates(state.next) # {}
<1>1. PICK state \in States(b) :
        /\ pc' = IF fetches(state) THEN "fetch" ELSE "recover"
        /\ snap' = IF fetches(state) THEN state ELSE NoState
        /\ IF ~fetches(state) /\ changed(state)
           THEN SaveAs(state, KeptSeen) ELSE UNCHANGED checkpoint
        /\ base' = IF first THEN view[b] ELSE base
  BY DEF ReadState
<1>2. /\ state.backend = b /\ state.next \in {0, view[b] + 1} /\ state.next \in Nat
      /\ complete => state.next = view[b] + 1
  BY Numbers DEF States
<1>3. b # "none"
  BY DEF Backends
<1>4. CASE fetches(state)
  BY <1>1, <1>2, <1>4
<1>5. CASE ~fetches(state) /\ changed(state)
  <2>1. checkpoint' = [next |-> state.next, backend |-> b, seen |-> checkpoint.seen]
    BY <1>1, <1>2, <1>5 DEF SaveAs, KeptSeen
  <2>2. ~first => \A m \in checkpoint.next .. state.next - 1 : m \in Seen
    BY <1>5 DEF Candidates
  <2> QED
    BY <1>1, <1>2, <1>3, <1>5, <2>1, <2>2
<1>6. CASE ~fetches(state) /\ ~changed(state)
  <2>1. checkpoint.next = state.next /\ checkpoint.backend = b /\ checkpoint' = checkpoint
    BY <1>1, <1>6
  <2>2. checkpoint.next .. state.next - 1 = {}
    BY <1>2, <2>1
  <2> QED
    BY <1>1, <1>2, <1>3, <1>6, <2>1, <2>2
<1> QED
  BY <1>4, <1>5, <1>6

(* The steps that leave the checkpoint, the poll's state and what was      *)
(* handed over alone, or begin the poll anew.                              *)
LEMMA Others ==
    ASSUME [Next]_vars
    PROVE  \/ Arrive
           \/ \E b \in Backends : ReadState(b) \/ Fetch(b)
           \/ /\ UNCHANGED <<settings, arrived, worst, checkpoint, delivered, repeated, base>>
              /\ pc' = "fetch" => pc = "fetch" /\ snap' = snap /\ active' = active
              /\ CatchUp \/ UNCHANGED view
<1> USE DEF settings, folder, results
<1>1. CASE CatchUp
  BY <1>1 DEF CatchUp
<1>2. CASE Reopen \/ Recover \/ WaitEnds \/ WaitFails
  BY <1>2 DEF Reopen, Recover, WaitEnds, WaitFails
<1>3. CASE PollFails \/ FetchRaises
  BY <1>3 DEF PollFails, FetchRaises, PollEnds
<1>4. CASE UNCHANGED vars
  BY <1>4 DEF vars
<1> QED
  BY <1>1, <1>2, <1>3, <1>4 DEF Next, Loop

LEMMA CatchUpGrows ==
    ASSUME TypeOK, CatchUp
    PROVE  \A b \in Backends : view'[b] \in Nat /\ view'[b] >= view[b]
  BY Numbers DEF CatchUp, TypeOK, FolderOK

LEMMA NextBehind ==
    ASSUME TypeOK, Behind, [Next]_vars
    PROVE  Behind'
<1> USE Numbers DEF settings, folder, results
<1>0. (\A b \in Backends : arrived' - view'[b] <= worst')
  <2>1. CASE Arrive
    BY <2>1, WorstGrows
  <2>2. CASE CatchUp
    BY <2>2, CatchUpGrows DEF CatchUp, Behind
  <2>3. CASE UNCHANGED <<arrived, worst, view>>
    BY <2>3 DEF Behind
  <2>4. \A b \in Backends : ReadState(b) \/ Fetch(b) => UNCHANGED <<arrived, worst, view>>
    BY DEF ReadState, Fetch
  <2> QED
    BY <2>1, <2>2, <2>3, <2>4, Others
<1>1. Seen' \subseteq delivered'
  <2>1. ASSUME NEW b \in Backends, Fetch(b) PROVE Seen' \subseteq delivered'
    <3>1. checkpoint'.seen = Remember(Rows(b)) /\ delivered' = delivered \cup Rows(b)
      BY <2>1 DEF Fetch, SaveAs
    <3>2. \A m \in Mail : Remember(Rows(b))[m] > 0 => m \in Seen \cup Rows(b)
      BY RowsType, RememberType
    <3> QED
      BY <3>1, <3>2 DEF Behind, Seen
  <2>2. ASSUME NEW b \in Backends, ReadState(b) PROVE Seen' \subseteq delivered'
    <3>1. checkpoint'.seen = checkpoint.seen
      BY <2>2, StateRead
    <3> QED
      BY <2>2, <3>1 DEF ReadState, Behind, Seen
  <2>3. CASE UNCHANGED <<checkpoint, delivered>>
    BY <2>3 DEF Behind, Seen
  <2>4. Arrive => UNCHANGED <<checkpoint, delivered>>
    BY DEF Arrive
  <2> QED
    BY <2>1, <2>2, <2>3, <2>4, Others
<1> QED
  BY <1>0, <1>1 DEF Behind

LEMMA NextClaims ==
    ASSUME TypeOK, Behind, Claims, [Next]_vars
    PROVE  Claims'
<1> SUFFICES ASSUME "fallback" \notin lags'
             PROVE  /\ (base' + 1 .. checkpoint'.next - 1) \subseteq delivered'
                    /\ pc' = "fetch" /\ active' = "primary" => snap'.next <= view'["primary"] + 1
  BY DEF Claims
<1> USE Numbers DEF settings, folder, results
<1>0. lags' = lags /\ view["fallback"] = arrived
  <2>1. lags' = lags
    BY Others DEF Arrive, ReadState, Fetch
  <2> QED
    BY <2>1 DEF TypeOK, FolderOK
<1>a. /\ (base + 1 .. checkpoint.next - 1) \subseteq delivered
      /\ pc = "fetch" /\ active = "primary" => snap.next <= view["primary"] + 1
  BY <1>0 DEF Claims
<1>1. ASSUME NEW b \in Backends, ReadState(b)
      PROVE  /\ (base' + 1 .. checkpoint'.next - 1) \subseteq delivered'
             /\ pc' = "fetch" /\ active' = "primary" => snap'.next <= view'["primary"] + 1
  <2>1. PICK n \in Nat :
          /\ n \in {0, view[b] + 1}
          /\ \/ /\ pc' = "fetch" /\ snap'.next = n /\ UNCHANGED <<checkpoint, base>>
             \/ /\ pc' = "recover" /\ checkpoint'.next = n
                /\ \/ base' = view[b]
                   \/ base' = base /\ \A m \in checkpoint.next .. n - 1 : m \in Seen
    BY <1>1, StateRead
  <2>2. active' = b /\ view' = view /\ delivered' = delivered
    BY <1>1 DEF ReadState, AnsweredBy
  <2> QED
    BY <1>a, <2>1, <2>2 DEF Behind
<1>2. ASSUME NEW b \in Backends, Fetch(b)
      PROVE  /\ (base' + 1 .. checkpoint'.next - 1) \subseteq delivered'
             /\ pc' = "fetch" /\ active' = "primary" => snap'.next <= view'["primary"] + 1
  <2>1. b \in {active, "fallback"} /\ pc = "fetch" /\ pc' = "recover"
    BY <1>2 DEF Fetch, AnsweredBy
  <2>2. snap.next <= view[b] + 1
    BY <1>0, <1>a, <2>1 DEF Backends
  <2>3. checkpoint'.next = snap.next /\ base' = base /\ delivered' = delivered \cup Rows(b)
    BY <1>2 DEF Fetch, SaveAs
  <2>4. \A m \in base + 1 .. snap.next - 1 :
          m < checkpoint.next \/ m \in Seen \/ m \in Rows(b)
    BY <2>2 DEF Rows, Candidates
  <2> QED
    BY <1>a, <2>1, <2>3, <2>4 DEF Behind
<1>3. CASE Arrive
  BY <1>3, <1>a, WorstGrows DEF Arrive
<1>4. CASE /\ UNCHANGED <<settings, arrived, worst, checkpoint, delivered, repeated, base>>
           /\ pc' = "fetch" => pc = "fetch" /\ snap' = snap /\ active' = active
           /\ CatchUp \/ UNCHANGED view
  BY <1>4, <1>a, CatchUpGrows
<1> QED
  BY <1>1, <1>2, <1>3, <1>4, Others

LEMMA NextReach ==
    ASSUME TypeOK, Behind, Reach, [Next]_vars
    PROVE  Reach'
<1> USE Numbers DEF settings, folder, results, Reach, OldMailBounded
<1>1. ASSUME NEW b \in Backends, ReadState(b) PROVE Reach'
  <2>1. PICK n \in Nat :
          /\ n \in {0, view[b] + 1} /\ (complete => n = view[b] + 1)
          /\ \/ /\ pc' = "fetch" /\ snap'.next = n /\ UNCHANGED <<checkpoint, base>>
                /\ checkpoint.backend # "none"
             \/ /\ pc' = "recover" /\ checkpoint'.next = n /\ checkpoint'.backend # "none"
                /\ \/ checkpoint.backend = "none" /\ base' = view[b]
                   \/ checkpoint.backend # "none" /\ base' = base
    BY <1>1, StateRead
  <2>2. UNCHANGED <<complete, worst, delivered>>
    BY <1>1 DEF ReadState
  <2>3. complete => base < n + worst /\ view[b] < n + worst
    BY <2>1 DEF Behind
  <2> QED
    BY <2>1, <2>2, <2>3
<1>2. ASSUME NEW b \in Backends, Fetch(b) PROVE Reach'
  <2>1. /\ pc = "fetch" /\ pc' = "recover" /\ checkpoint' = [next |-> snap.next,
              backend |-> snap.backend, seen |-> Remember(Rows(b))]
        /\ UNCHANGED <<complete, worst, base>> /\ delivered' = delivered \cup Rows(b)
    BY <1>2 DEF Fetch, SaveAs
  <2>2. snap.backend # "none"
    BY DEF TypeOK, ResultsOK, Backends
  <2>3. \A m \in Rows(b) : checkpoint.next <= m /\ m \in Nat
    BY RowsType
  <2>4. complete => \A m \in delivered' : m + worst > base
    BY <2>1, <2>3
  <2> QED
    BY <2>1, <2>2, <2>4
<1>3. CASE Arrive
  <2>1. UNCHANGED <<complete, checkpoint, delivered, pc, snap, base>>
    BY <1>3 DEF Arrive
  <2>2. worst' \in Nat /\ worst' >= worst
    BY <1>3, WorstGrows
  <2> QED
    BY <2>1, <2>2
<1>4. CASE /\ UNCHANGED <<settings, arrived, worst, checkpoint, delivered, repeated, base>>
           /\ pc' = "fetch" => pc = "fetch" /\ snap' = snap /\ active' = active
  BY <1>4
<1> QED
  BY <1>1, <1>2, <1>3, <1>4, Others

LEMMA ViewsInvariance == Spec => [](TypeOK /\ ViewsInv)
<1>1. Init => TypeOK /\ ViewsInv
  BY InitTyped, InitViews
<1>2. TypeOK /\ ViewsInv /\ [Next]_vars => TypeOK' /\ ViewsInv'
  BY NextFolderOK, NextSourceOK, NextResultsOK, NextBehind, NextClaims, NextReach
  DEF TypeOK, ViewsInv
<1> QED
  BY <1>1, <1>2, PTL DEF Spec

(* A failover drops no message, whatever the primary has missed and        *)
(* whenever it comes and goes, as long as the fallback shows all mail.     *)
THEOREM FailoverDropsNothing == Spec => []NothingDropped
<1>1. ViewsInv => NothingDropped
  BY DEF ViewsInv, Claims, NothingDropped
<1> QED
  BY <1>1, ViewsInvariance, PTL

(* Of the mail that was there before the first poll no more is handed over *)
(* as new than a backend was ever behind.                                  *)
THEOREM OldMailStaysOld == Spec => []OldMailBounded
<1>1. TypeOK /\ ViewsInv => OldMailBounded
  BY DEF ViewsInv, Reach, OldMailBounded
<1> QED
  BY <1>1, ViewsInvariance, PTL

-----------------------------------------------------------------------------
(* Why nothing is replayed: how far back the seen history reaches.         *)

(* What came into the seen history after m. *)
Newer(seen, m) == {n \in Mail : seen[n] > 0 /\ seen[n] < seen[m]}

(* Places are counted without gaps from the newest entry. *)
Placed(seen) == \A m \in Mail : seen[m] > 0 => seen[m] = 1 + Cardinality(Newer(seen, m))

(* Nothing comes late by more than a backend was ever behind.              *)
Near ==
    complete =>
        /\ \A m \in delivered : m < checkpoint.next + worst
        /\ pc = "fetch" => \A m \in delivered : m < snap.next + worst
        /\ \A m \in Mail : \A n \in Newer(checkpoint.seen, m) : m < n + worst

(* What a poll could fetch once more is in the seen history.               *)
Within(m) == \/ m >= checkpoint.next
             \/ m + worst > arrived
             \/ pc = "fetch" /\ m >= snap.next

Kept ==
    complete /\ history >= 2 * worst - 1 =>
        /\ repeated = {}
        /\ \A m \in delivered : Within(m) => m \in Seen

ReplayInv == Placed(checkpoint.seen) /\ Near /\ Kept

(* The place that remember gives to m among the rows that are new.         *)
Above(rows, m) == {n \in rows : m < n}
PlaceOf(rows, m) == Cardinality({n \in rows : m <= n})

(* At most w - 1 numbers below m and less than w away, and those above.    *)
LEMMA Surrounding ==
    ASSUME NEW m \in Nat, NEW w \in Nat \ {0}, NEW top \in Nat, m <= top,
           NEW S \in SUBSET Nat, m \notin S,
           \A n \in S : m < n + w /\ n <= top
    PROVE  IsFiniteSet(S) /\ Cardinality(S) \in Nat /\ Cardinality(S) <= (w - 1) + (top - m)
<1> DEFINE I == (m - w + 1) .. top
<1>1. IsFiniteSet(I) /\ Cardinality(I) = top - (m - w + 1) + 1
  BY FS_Interval
<1>2. m \in I
  OBVIOUS
<1>3. S \subseteq I \ {m}
  OBVIOUS
<1> HIDE DEF I
<1>4. IsFiniteSet(I \ {m}) /\ Cardinality(I \ {m}) = Cardinality(I) - 1
  BY <1>1, <1>2, FS_RemoveElement
<1>5. IsFiniteSet(S) /\ Cardinality(S) <= Cardinality(I \ {m})
  BY <1>3, <1>4, FS_Subset
<1>6. Cardinality(S) \in Nat
  BY <1>5, FS_CardinalityType
<1> QED
  BY <1>1, <1>4, <1>5, <1>6

LEMMA MailFinite ==
    ASSUME NEW S \in SUBSET Mail
    PROVE  IsFiniteSet(S) /\ Cardinality(S) \in Nat
<1>1. IsFiniteSet(Mail)
  BY Bounds, FS_Interval DEF Mail
<1> QED
  BY <1>1, FS_Subset, FS_CardinalityType

(* The new rows are placed by their number, the last one first.            *)
LEMMA RowPlaces ==
    ASSUME NEW rows \in SUBSET Mail, NEW m \in rows
    PROVE  /\ PlaceOf(rows, m) \in Nat /\ PlaceOf(rows, m) <= Cardinality(rows)
           /\ Cardinality(Above(rows, m)) \in Nat
           /\ PlaceOf(rows, m) = 1 + Cardinality(Above(rows, m))
<1>0. rows \subseteq Nat
  BY Bounds DEF Mail
<1>1. {n \in rows : m <= n} = Above(rows, m) \cup {m} /\ m \notin Above(rows, m)
  <2>1. \A n \in rows : m <= n <=> m < n \/ n = m
    BY <1>0
  <2>2. ~(m < m)
    BY <1>0
  <2> QED
    BY <2>1, <2>2 DEF Above
<1>2. Above(rows, m) \in SUBSET Mail /\ {n \in rows : m <= n} \in SUBSET rows
  BY DEF Above
<1>3. IsFiniteSet(Above(rows, m)) /\ Cardinality(Above(rows, m)) \in Nat
  BY <1>2, MailFinite
<1>4. Cardinality(Above(rows, m) \cup {m}) = Cardinality(Above(rows, m)) + 1
  BY <1>1, <1>3, FS_AddElement
<1>5. PlaceOf(rows, m) <= Cardinality(rows)
  BY <1>2, MailFinite, FS_Subset DEF PlaceOf
<1> QED
  BY <1>1, <1>3, <1>4, <1>5 DEF PlaceOf

LEMMA LaterIsNewer ==
    ASSUME NEW rows \in SUBSET Mail, NEW m \in rows, NEW n \in rows
    PROVE  PlaceOf(rows, n) < PlaceOf(rows, m) <=> m < n
<1>0. m \in Nat /\ n \in Nat
  BY Bounds DEF Mail
<1>1. ASSUME NEW i \in rows, NEW j \in rows, i < j
      PROVE  PlaceOf(rows, j) < PlaceOf(rows, i)
  <2>0. rows \subseteq Nat
    BY Bounds DEF Mail
  <2>1. {k \in rows : j <= k} \in SUBSET Above(rows, i)
    <3>1. \A k \in rows : j <= k => i < k
      BY <1>1, <2>0
    <3> QED
      BY <3>1 DEF Above
  <2>2. IsFiniteSet(Above(rows, i))
    BY MailFinite DEF Above
  <2>3. PlaceOf(rows, j) <= Cardinality(Above(rows, i))
    BY <2>1, <2>2, FS_Subset DEF PlaceOf
  <2>4. PlaceOf(rows, i) = 1 + Cardinality(Above(rows, i)) /\ Cardinality(Above(rows, i)) \in Nat
    BY RowPlaces
  <2>5. PlaceOf(rows, j) \in Nat
    BY RowPlaces
  <2> QED
    BY <2>3, <2>4, <2>5
<1>2. PlaceOf(rows, m) \in Nat /\ PlaceOf(rows, n) \in Nat
  BY RowPlaces
<1>3. m < n => PlaceOf(rows, n) < PlaceOf(rows, m)
  BY <1>1
<1>4. n < m => PlaceOf(rows, m) < PlaceOf(rows, n)
  BY <1>1
<1>5. CASE m = n
  BY <1>0, <1>2, <1>5
<1>6. CASE m # n
  BY <1>0, <1>2, <1>3, <1>4, <1>6
<1> QED
  BY <1>5, <1>6

(* Where remember puts everything. *)
LEMMA RememberPlaces ==
    ASSUME TypeOK, NEW rows \in SUBSET Mail, rows \cap Seen = {}, NEW m \in Mail
    PROVE  /\ m \in Seen => Remember(rows)[m] = IF checkpoint.seen[m] + Cardinality(rows) <= history
                                                THEN checkpoint.seen[m] + Cardinality(rows) ELSE 0
           /\ m \in rows => Remember(rows)[m] = IF PlaceOf(rows, m) <= history
                                                THEN PlaceOf(rows, m) ELSE 0
           /\ Remember(rows)[m] > 0 => m \in Seen \cup rows
<1>1. m \in Seen => m \notin rows
  OBVIOUS
<1>2. m \notin Seen \cup rows => Remember(rows)[m] = 0
  BY DEF Remember
<1>3. m \in Seen => Remember(rows)[m] = IF checkpoint.seen[m] + Cardinality(rows) <= history
                                        THEN checkpoint.seen[m] + Cardinality(rows) ELSE 0
  BY DEF Remember
<1>4. m \in rows => Remember(rows)[m] = IF PlaceOf(rows, m) <= history THEN PlaceOf(rows, m) ELSE 0
  BY <1>1 DEF Remember, PlaceOf
<1> QED
  BY <1>2, <1>3, <1>4

(* What comes after an entry of the new history. *)
LEMMA RememberNewer ==
    ASSUME TypeOK, NEW rows \in SUBSET Mail, rows \cap Seen = {},
           NEW m \in Mail, Remember(rows)[m] > 0
    PROVE  /\ m \in Seen => /\ Remember(rows)[m] = checkpoint.seen[m] + Cardinality(rows)
                            /\ Newer(Remember(rows), m) = rows \cup Newer(checkpoint.seen, m)
           /\ m \notin Seen => /\ m \in rows /\ Remember(rows)[m] = PlaceOf(rows, m)
                               /\ Newer(Remember(rows), m) = Above(rows, m)
<1> DEFINE c == Cardinality(rows)
           new == Remember(rows)
<1>1. c \in Nat /\ history \in Nat /\ \A k \in Mail : checkpoint.seen[k] \in Nat
  BY MailFinite, Bounds, Numbers DEF TypeOK, ResultsOK
<1>2. ASSUME NEW k \in Seen
      PROVE  /\ k \in Mail /\ checkpoint.seen[k] \in Nat /\ checkpoint.seen[k] >= 1
             /\ new[k] = IF checkpoint.seen[k] + c <= history
                         THEN checkpoint.seen[k] + c ELSE 0
  <2>1. k \in Mail /\ checkpoint.seen[k] > 0
    BY DEF Seen
  <2> QED
    BY <1>1, <2>1, RememberPlaces
<1>3. ASSUME NEW k \in rows
      PROVE  /\ PlaceOf(rows, k) \in Nat /\ 1 <= PlaceOf(rows, k) /\ PlaceOf(rows, k) <= c
             /\ new[k] = IF PlaceOf(rows, k) <= history THEN PlaceOf(rows, k) ELSE 0
  <2>1. /\ PlaceOf(rows, k) \in Nat /\ PlaceOf(rows, k) <= c
        /\ PlaceOf(rows, k) = 1 + Cardinality(Above(rows, k)) /\ Cardinality(Above(rows, k)) \in Nat
    BY RowPlaces
  <2> QED
    BY <2>1, RememberPlaces
<1>4. ASSUME NEW k \in Mail, new[k] > 0
      PROVE  k \in Seen \cup rows
  BY <1>4, RememberPlaces
<1> HIDE DEF c, new
<1>5. CASE m \in Seen
  <2>1. new[m] = checkpoint.seen[m] + c /\ checkpoint.seen[m] + c <= history
    BY <1>2, <1>5 DEF new
  <2>2. \A n \in rows : new[n] > 0 /\ new[n] < new[m]
    BY <1>1, <1>2, <1>3, <1>5, <2>1
  <2>3. \A n \in Seen : (new[n] > 0 /\ new[n] < new[m]) <=> checkpoint.seen[n] < checkpoint.seen[m]
    BY <1>1, <1>2, <1>5, <2>1
  <2>4. \A n \in Mail : n \in Seen <=> checkpoint.seen[n] > 0
    BY DEF Seen
  <2>5. \A n \in Mail : n \in Newer(new, m) <=> n \in rows \/ n \in Newer(checkpoint.seen, m)
    BY <1>4, <2>2, <2>3, <2>4 DEF Newer
  <2>6. Newer(new, m) = rows \cup Newer(checkpoint.seen, m)
    BY <2>5 DEF Newer
  <2> QED
    BY <1>5, <2>1, <2>6 DEF new, c
<1>6. CASE m \notin Seen
  <2>1. m \in rows
    BY <1>4, <1>6 DEF new
  <2>2. new[m] = PlaceOf(rows, m) /\ PlaceOf(rows, m) <= history
    BY <1>3, <2>1 DEF new
  <2>3. \A n \in rows : (new[n] > 0 /\ new[n] < new[m]) <=> m < n
    BY <1>1, <1>3, <2>1, <2>2, LaterIsNewer
  <2>4. \A n \in Seen : ~(new[n] > 0 /\ new[n] < new[m])
    BY <1>1, <1>2, <1>3, <2>1, <2>2
  <2>5. \A n \in Mail : n \in Newer(new, m) <=> n \in rows /\ m < n
    BY <1>4, <2>3, <2>4 DEF Newer
  <2>6. Newer(new, m) = Above(rows, m)
    BY <2>5 DEF Newer, Above
  <2> QED
    BY <1>6, <2>1, <2>2, <2>6 DEF new
<1> QED
  BY <1>5, <1>6

LEMMA RememberPlaced ==
    ASSUME TypeOK, Placed(checkpoint.seen), NEW rows \in SUBSET Mail, rows \cap Seen = {}
    PROVE  Placed(Remember(rows))
<1> SUFFICES ASSUME NEW m \in Mail, Remember(rows)[m] > 0
             PROVE  Remember(rows)[m] = 1 + Cardinality(Newer(Remember(rows), m))
  BY DEF Placed
<1>1. CASE m \in Seen
  <2> DEFINE older == Newer(checkpoint.seen, m)
  <2>1. /\ Remember(rows)[m] = checkpoint.seen[m] + Cardinality(rows)
        /\ Newer(Remember(rows), m) = rows \cup older
    BY <1>1, RememberNewer
  <2>2. checkpoint.seen[m] = 1 + Cardinality(older)
    BY <1>1 DEF Placed, Seen
  <2>3. older \in SUBSET Mail /\ rows \cap older = {}
    BY DEF Newer, Seen
  <2> HIDE DEF older
  <2>4. /\ IsFiniteSet(rows) /\ Cardinality(rows) \in Nat
        /\ IsFiniteSet(older) /\ Cardinality(older) \in Nat
    BY <2>3, MailFinite
  <2>5. Cardinality(rows \cup older) = Cardinality(rows) + Cardinality(older) - Cardinality(rows \cap older)
    BY <2>4, FS_Union
  <2>6. Cardinality(rows \cap older) = 0
    BY <2>3, FS_EmptySet
  <2> QED
    BY <2>1, <2>2, <2>4, <2>5, <2>6
<1>2. CASE m \notin Seen
  <2>1. m \in rows /\ Remember(rows)[m] = PlaceOf(rows, m)
        /\ Newer(Remember(rows), m) = Above(rows, m)
    BY <1>2, RememberNewer
  <2> QED
    BY <2>1, RowPlaces
<1> QED
  BY <1>1, <1>2

LEMMA WorstSteps ==
    ASSUME TypeOK, Behind, Arrive
    PROVE  worst' <= worst + 1
<1> USE Numbers
<1>1. \A b \in Backends : arrived' - view'[b] <= worst + 1
  <2>1. view \in [Backends -> Nat]
    BY DEF TypeOK, FolderOK
  <2>2. \A b \in Backends : arrived' = arrived + 1 /\ view'[b] >= view[b] /\ view'[b] \in Nat
    BY WorstGrows
  <2> QED
    BY <2>1, <2>2 DEF Behind
<1>2. \E x \in {worst} \cup {arrived' - view'[b] : b \in Backends} : worst' = x
  <2> DEFINE p == arrived' - view'["primary"]
             f == arrived' - view'["fallback"]
  <2>1. {arrived' - view'[b] : b \in Backends} = {p, f}
    BY DEF Backends
  <2>2. p \in Nat /\ f \in Nat
    BY WorstGrows DEF Backends
  <2>3. worst' = Max({worst} \cup {p, f})
    BY <2>1 DEF Arrive
  <2> HIDE DEF p, f
  <2>4. worst' \in {worst, p, f}
    BY <2>2, <2>3, MaxOfThree
  <2> QED
    BY <2>1, <2>4
<1> QED
  BY <1>1, <1>2

LEMMA LongerHistory ==
    ASSUME TypeOK, Arrive, history >= 2 * worst' - 1
    PROVE  history >= 2 * worst - 1
<1>1. worst' \in Nat /\ worst' >= worst
  BY WorstGrows
<1>2. worst \in Nat /\ history \in Nat
  BY Bounds DEF TypeOK, FolderOK, ResultsOK
<1> DEFINE w == worst'
<1> HIDE DEF w
<1>3. w \in Nat /\ w >= worst /\ history >= 2 * w - 1
  BY <1>1 DEF w
<1> QED
  BY <1>2, <1>3

(* Every message that a poll could fetch once more keeps a place: the rows *)
(* and what came after it are the worst - 1 below it and those above it.   *)
LEMMA PlaceKept ==
    ASSUME TypeOK, ViewsInv, ReplayInv, NEW b \in Backends, Fetch(b),
           complete, history >= 2 * worst - 1,
           NEW m \in delivered \cup Rows(b), m >= snap.next \/ m + worst > arrived
    PROVE  m \in Mail /\ Remember(Rows(b))[m] > 0
<1> DEFINE rows == Rows(b)
<1>1. /\ rows \subseteq Mail /\ rows \cap Seen = {}
      /\ \A n \in rows : n \in Nat /\ checkpoint.next <= n /\ n < snap.next /\ n <= arrived
  <2>1. rows \subseteq 1 .. arrived /\ rows \cap Seen = {} /\ \A n \in rows : checkpoint.next <= n
    BY RowsType
  <2>2. rows \subseteq Mail
    BY <2>1, Bounds DEF TypeOK, FolderOK, Mail
  <2>3. \A n \in rows : n < snap.next
    BY Numbers DEF Rows, Candidates
  <2> QED
    BY <2>1, <2>2, <2>3, Numbers
<1>2. delivered \subseteq Mail /\ \A n \in delivered : n \in Nat /\ n <= arrived
  BY Bounds DEF TypeOK, FolderOK, ResultsOK, Mail
<1>3. m \in Mail /\ m \in Nat /\ m <= arrived
  BY <1>1, <1>2
<1>4. worst \in Nat \ {0} /\ arrived \in Nat /\ checkpoint.next \in Nat /\ snap.next \in Nat
      /\ history \in Nat
  <2>1. worst \in Nat /\ arrived \in Nat /\ checkpoint.next \in Nat /\ snap.next \in Nat
    BY Numbers
  <2>2. history \in Nat
    BY Bounds DEF TypeOK, ResultsOK
  <2>3. m < snap.next + worst
    <3>1. m \in delivered => m < snap.next + worst
      BY DEF ReplayInv, Near, Fetch
    <3> QED
      BY <1>1, <1>3, <2>1, <3>1
  <2> QED
    BY <1>3, <2>1, <2>2, <2>3
<1> HIDE DEF rows
<1>5. CASE m \in rows
  <2>1. m + worst > arrived
    BY <1>1, <1>3, <1>4, <1>5
  <2>2. Above(rows, m) \in SUBSET ((m + 1) .. arrived)
    <3>1. \A n \in rows : m < n => n \in (m + 1) .. arrived
      BY <1>1, <1>3, <1>4
    <3> QED
      BY <3>1 DEF Above
  <2>3. IsFiniteSet((m + 1) .. arrived) /\ Cardinality((m + 1) .. arrived) <= arrived - m
    <3>1. m + 1 \in Int /\ arrived \in Int
      BY <1>3, <1>4
    <3>2. /\ IsFiniteSet((m + 1) .. arrived)
          /\ Cardinality((m + 1) .. arrived)
               = IF m + 1 > arrived THEN 0 ELSE arrived - (m + 1) + 1
      BY <3>1, FS_Interval
    <3> QED
      BY <1>3, <1>4, <3>2
  <2>4. Cardinality(Above(rows, m)) <= Cardinality((m + 1) .. arrived)
    BY <2>2, <2>3, FS_Subset
  <2>5. PlaceOf(rows, m) = 1 + Cardinality(Above(rows, m)) /\ Cardinality(Above(rows, m)) \in Nat
    BY <1>1, <1>5, RowPlaces
  <2>6. Cardinality((m + 1) .. arrived) \in Nat
    BY <2>3, FS_CardinalityType
  <2>7. 0 < PlaceOf(rows, m) /\ PlaceOf(rows, m) <= history
    BY <1>3, <1>4, <2>1, <2>3, <2>4, <2>5, <2>6
  <2>8. Remember(rows)[m] = IF PlaceOf(rows, m) <= history THEN PlaceOf(rows, m) ELSE 0
    BY <1>1, <1>3, <1>5, RememberPlaces
  <2> QED
    BY <1>3, <2>7, <2>8 DEF rows
<1>6. CASE m \notin rows
  <2> DEFINE older == Newer(checkpoint.seen, m)
             S == rows \cup older
  <2>0. pc = "fetch" /\ m \in delivered
    BY <1>6 DEF Fetch, rows
  <2>1. m \in Seen
    BY <2>0 DEF ReplayInv, Kept, Within
  <2>2. older \subseteq Seen /\ older \subseteq Mail /\ Seen \subseteq delivered
    BY DEF Newer, Seen, ViewsInv, Behind
  <2>3. m \notin S
    BY <1>3, <1>6, Numbers DEF Newer
  <2>4. /\ \A n \in delivered : n < checkpoint.next + worst /\ n < snap.next + worst
        /\ \A n \in older : m < n + worst
    BY <1>3, <2>0 DEF ReplayInv, Near
  <2>5. S \in SUBSET Nat /\ \A n \in S : m < n + worst /\ n <= arrived
    <3>1. \A n \in rows : m < n + worst
      BY <1>1, <1>3, <1>4, <2>0, <2>4
    <3> QED
      BY <1>1, <1>2, <2>2, <2>4, <3>1
  <2>6. checkpoint.seen[m] = 1 + Cardinality(older)
    BY <1>3, <2>1 DEF ReplayInv, Placed, Seen
  <2>7. /\ Cardinality(rows) \in Nat /\ Cardinality(older) \in Nat
        /\ Cardinality(S) = Cardinality(rows) + Cardinality(older)
    <3>1. rows \cap older = {}
      BY <1>1, <2>2
    <3>2. IsFiniteSet(rows) /\ Cardinality(rows) \in Nat
      BY <1>1, MailFinite
    <3>3. IsFiniteSet(older) /\ Cardinality(older) \in Nat
      BY <2>2, MailFinite
    <3> HIDE DEF older
    <3>4. Cardinality(S) = Cardinality(rows) + Cardinality(older) - Cardinality(rows \cap older)
      BY <3>2, <3>3, FS_Union
    <3>5. Cardinality(rows \cap older) = 0
      BY <3>1, FS_EmptySet
    <3> QED
      BY <3>2, <3>3, <3>4, <3>5
  <2>8. 1 + Cardinality(S) <= 2 * worst - 1
    <3>1. CASE m + worst > arrived
      <4> HIDE DEF S
      <4>1. Cardinality(S) \in Nat /\ Cardinality(S) <= (worst - 1) + (arrived - m)
        BY <1>3, <1>4, <2>3, <2>5, Surrounding
      <4> QED
        BY <1>3, <1>4, <3>1, <4>1
    <3>2. CASE m >= snap.next
      <4> DEFINE top == snap.next + worst - 1
      <4>1. top \in Nat /\ m <= top
        BY <1>3, <1>4, <2>0, <2>4
      <4>2. \A n \in S : m < n + worst /\ n <= top
        <5>1. \A n \in rows : n <= top
          BY <1>1, <1>4
        <5>2. \A n \in older : n \in Nat /\ n < snap.next + worst
          BY <1>2, <2>2, <2>4
        <5> HIDE DEF older
        <5> QED
          BY <1>4, <2>5, <5>1, <5>2
      <4> HIDE DEF S, top
      <4>3. Cardinality(S) \in Nat /\ Cardinality(S) <= (worst - 1) + (top - m)
        BY <1>3, <1>4, <2>3, <2>5, <4>1, <4>2, Surrounding
      <4> QED
        BY <1>3, <1>4, <3>2, <4>3 DEF top
    <3> QED
      BY <3>1, <3>2
  <2> HIDE DEF older, S
  <2>9. 0 < checkpoint.seen[m] + Cardinality(rows) /\ checkpoint.seen[m] + Cardinality(rows) <= history
    BY <1>4, <2>6, <2>7, <2>8
  <2>10. Remember(rows)[m] = IF checkpoint.seen[m] + Cardinality(rows) <= history
                             THEN checkpoint.seen[m] + Cardinality(rows) ELSE 0
    BY <1>1, <1>3, <2>1, RememberPlaces
  <2> QED
    BY <1>3, <2>9, <2>10 DEF rows
<1> QED
  BY <1>5, <1>6

LEMMA FetchReplays ==
    ASSUME TypeOK, ViewsInv, ReplayInv, NEW b \in Backends, Fetch(b)
    PROVE  ReplayInv'
<1> DEFINE rows == Rows(b)
<1>1. /\ pc = "fetch" /\ pc' = "recover" /\ checkpoint'.next = snap.next
      /\ checkpoint'.seen = Remember(rows)
      /\ delivered' = delivered \cup rows /\ repeated' = repeated \cup (delivered \cap rows)
      /\ UNCHANGED <<complete, history, arrived, worst>>
  BY DEF Fetch, SaveAs, settings, folder
<1>2. rows \subseteq Mail /\ rows \cap Seen = {}
      /\ \A n \in rows : n \in Nat /\ checkpoint.next <= n /\ n < snap.next
  <2>1. rows \subseteq 1 .. arrived /\ rows \cap Seen = {} /\ \A n \in rows : checkpoint.next <= n
    BY RowsType
  <2>2. rows \subseteq Mail
    BY <2>1, Bounds DEF TypeOK, FolderOK, Mail
  <2>3. \A n \in rows : n < snap.next
    BY Numbers DEF Rows, Candidates
  <2> QED
    BY <2>1, <2>2, <2>3, Numbers
<1> HIDE DEF rows
<1>3. Placed(checkpoint'.seen)
  BY <1>1, <1>2, RememberPlaced DEF ReplayInv
<1>4. Near'
  <2> SUFFICES ASSUME complete
               PROVE  /\ \A m \in delivered' : m < snap.next + worst
                      /\ \A m \in Mail : \A n \in Newer(Remember(rows), m) : m < n + worst
    BY <1>1 DEF Near, Newer
  <2>1. \A m \in delivered : m \in Nat /\ m < checkpoint.next + worst /\ m < snap.next + worst
    BY <1>1, Numbers DEF ReplayInv, Near
  <2>2. \A m \in Mail : \A n \in Newer(checkpoint.seen, m) : m < n + worst
    BY DEF ReplayInv, Near
  <2>3. \A m \in delivered' : m < snap.next + worst
    BY <1>1, <1>2, <2>1, Numbers
  <2>4. ASSUME NEW m \in Mail, NEW n \in Newer(Remember(rows), m)
        PROVE  m < n + worst
    <3>1. Remember(rows)[m] > 0
      <4>1. n \in Mail /\ Remember(rows)[n] > 0 /\ Remember(rows)[n] < Remember(rows)[m]
        BY <2>4 DEF Newer
      <4>2. Remember(rows) \in [Mail -> 0 .. history] /\ history \in Nat
        BY <1>2, RowsType, RememberType, Numbers, Bounds DEF rows, TypeOK, ResultsOK
      <4> QED
        BY <4>1, <4>2
    <3>2. CASE m \in Seen
      <4>1. n \in rows \/ n \in Newer(checkpoint.seen, m)
        BY <1>2, <2>4, <3>1, <3>2, RememberNewer
      <4>2. m \in delivered
        BY <3>2 DEF ViewsInv, Behind
      <4>3. n \in rows => m < n + worst
        BY <1>2, <2>1, <4>2, Numbers
      <4> QED
        BY <2>2, <4>1, <4>3
    <3>3. CASE m \notin Seen
      <4>1. n \in Above(rows, m)
        BY <1>2, <2>4, <3>1, <3>3, RememberNewer
      <4>2. m < n /\ n \in Nat /\ m \in Nat
        BY <1>2, <4>1, Numbers DEF Above
      <4> QED
        BY <4>2, Numbers
    <3> QED
      BY <3>2, <3>3
  <2> QED
    BY <2>3, <2>4
<1>5. Kept'
  <2> SUFFICES ASSUME complete, history >= 2 * worst - 1
               PROVE  repeated' = {} /\ \A m \in delivered' : Within(m)' => m \in Seen'
    BY <1>1 DEF Kept
  <2>1. repeated = {} /\ \A m \in delivered : Within(m) => m \in Seen
    BY DEF ReplayInv, Kept
  <2>2. delivered \cap rows = {}
    <3>1. \A m \in rows : Within(m)
      BY <1>2, Numbers DEF Within
    <3> QED
      BY <1>2, <2>1, <3>1
  <2>3. ASSUME NEW m \in delivered', Within(m)'
        PROVE  m \in Seen'
    <3>1. m \in delivered \cup Rows(b) /\ (m >= snap.next \/ m + worst > arrived)
      BY <1>1, <2>3 DEF Within, rows
    <3>2. m \in Mail /\ Remember(Rows(b))[m] > 0
      BY <3>1, PlaceKept
    <3> QED
      BY <1>1, <3>2 DEF Seen, rows
  <2> QED
    BY <1>1, <2>1, <2>2, <2>3
<1> QED
  BY <1>3, <1>4, <1>5 DEF ReplayInv

LEMMA NextReplays ==
    ASSUME TypeOK, ViewsInv, ReplayInv, [Next]_vars
    PROVE  ReplayInv'
<1> USE Numbers DEF settings, folder, results
<1>1. ASSUME NEW b \in Backends, ReadState(b) PROVE ReplayInv'
  <2>1. PICK n \in Nat :
          /\ complete => n = view[b] + 1
          /\ \/ pc' = "fetch" /\ snap'.next = n /\ checkpoint' = checkpoint
             \/ pc' = "recover" /\ checkpoint'.next = n /\ checkpoint'.seen = checkpoint.seen
    BY <1>1, StateRead
  <2>2. UNCHANGED <<complete, history, arrived, worst, delivered, repeated>> /\ pc = "state"
    BY <1>1 DEF ReadState
  <2>3. checkpoint'.seen = checkpoint.seen /\ Seen' = Seen
    BY <2>1 DEF Seen
  <2>4. complete => \A m \in delivered : m < n + worst /\ (m >= n => m + worst > arrived)
    <3>1. arrived - view[b] <= worst
      BY DEF ViewsInv, Behind
    <3>2. \A m \in delivered : m \in Nat /\ m <= arrived
      BY DEF TypeOK, ResultsOK
    <3> QED
      BY <2>1, <3>1, <3>2
  <2>5. Placed(checkpoint'.seen)
    BY <2>3 DEF ReplayInv
  <2>6. Near'
    BY <2>1, <2>2, <2>3, <2>4 DEF ReplayInv, Near
  <2>7. complete => \A m \in delivered : Within(m)' => Within(m)
    BY <2>1, <2>2, <2>4 DEF Within
  <2>8. Kept'
    BY <2>2, <2>3, <2>7 DEF ReplayInv, Kept
  <2> QED
    BY <2>5, <2>6, <2>8 DEF ReplayInv
<1>2. ASSUME NEW b \in Backends, Fetch(b) PROVE ReplayInv'
  BY <1>2, FetchReplays
<1>3. CASE Arrive
  <2>1. UNCHANGED <<complete, history, checkpoint, snap, pc, delivered, repeated>>
    BY <1>3 DEF Arrive
  <2>2. worst' \in Nat /\ worst' >= worst /\ worst' <= worst + 1 /\ arrived' = arrived + 1
    BY <1>3, WorstGrows, WorstSteps DEF ViewsInv
  <2>3. Seen' = Seen
    BY <2>1 DEF Seen
  <2>4. \A m \in delivered : Within(m)' => Within(m)
    BY <2>1, <2>2 DEF Within
  <2>5. Near'
    <3>1. complete => \A m \in delivered : m \in Nat /\ m < checkpoint.next + worst'
                                           /\ (pc = "fetch" => m < snap.next + worst')
      BY <2>2 DEF ReplayInv, Near
    <3>2. complete => \A m \in Mail : \A n \in Newer(checkpoint.seen, m) : m < n + worst'
      <4>1. \A m \in Mail : \A n \in Newer(checkpoint.seen, m) : m \in Nat /\ n \in Nat
        BY DEF Newer
      <4> QED
        BY <2>2, <4>1 DEF ReplayInv, Near
    <3> QED
      BY <2>1, <3>1, <3>2 DEF Near
  <2>6. history >= 2 * worst' - 1 => history >= 2 * worst - 1
    BY <1>3, LongerHistory
  <2>7. Kept'
    <3> SUFFICES ASSUME complete, history >= 2 * worst' - 1
                 PROVE  repeated = {} /\ \A m \in delivered : Within(m)' => m \in Seen
      BY <2>1, <2>3 DEF Kept
    <3> QED
      BY <2>4, <2>6 DEF ReplayInv, Kept
  <2> QED
    BY <2>1, <2>5, <2>7 DEF ReplayInv
<1>4. CASE /\ UNCHANGED <<settings, arrived, worst, checkpoint, delivered, repeated, base>>
           /\ pc' = "fetch" => pc = "fetch" /\ snap' = snap /\ active' = active
  <2>1. Near'
    BY <1>4 DEF ReplayInv, Near
  <2>2. Kept'
    BY <1>4 DEF ReplayInv, Kept, Within, Seen
  <2> QED
    BY <1>4, <2>1, <2>2 DEF ReplayInv
<1> QED
  BY <1>1, <1>2, <1>3, <1>4, Others

(* A message is handed over once when the seen history is as long as twice *)
(* what a backend was ever behind, less one, whenever the backends come    *)
(* and go.                                                                 *)
THEOREM FailoverReplaysNothing == Spec => []NoReplay
<1>1. Init => ReplayInv
  <2>1. Init => Placed(checkpoint.seen)
    BY DEF Init, Placed, NoCheckpoint, Nothing
  <2>2. Init => Near
    BY DEF Init, Near, Newer, NoCheckpoint, Nothing
  <2>3. Init => Kept
    BY DEF Init, Kept
  <2> QED
    BY <2>1, <2>2, <2>3 DEF ReplayInv
<1>2. TypeOK /\ ViewsInv /\ ReplayInv /\ [Next]_vars => ReplayInv'
  BY NextReplays
<1>3. ReplayInv => NoReplay
  BY DEF ReplayInv, Kept, NoReplay
<1> QED
  BY <1>1, <1>2, <1>3, ViewsInvariance, PTL DEF Spec
=============================================================================
