----------------------------- MODULE MailStream -----------------------------
(***************************************************************************)
(* What a mailbox watcher promises its consumer, with no polling, no       *)
(* checkpoint and no backend in it.  A message is identified by the        *)
(* UIDVALIDITY of its mailbox and its UID; UIDs grow in order of arrival,  *)
(* validities in order of re-creation.  The watcher claims sets of messages*)
(* that are newer than everything it claimed before, and hands the claimed *)
(* messages to the consumer oldest first.  What it claimed and did not hand*)
(* over may be lost (the consumer went away); it is never claimed again.   *)
(***************************************************************************)
EXTENDS Naturals

CONSTANTS MaxUid, MaxValidity

VARIABLES pending,      \* claimed, not yet handed over
          delivered,    \* handed to the consumer
          lost          \* claimed and given up

vars == <<pending, delivered, lost>>

Message == [validity : 1..MaxValidity, uid : 1..MaxUid]

(* m arrived before n. *)
Older(m, n) ==
    \/ m.validity < n.validity
    \/ m.validity = n.validity /\ m.uid < n.uid

Init ==
    /\ pending = {}
    /\ delivered = {}
    /\ lost = {}

(* Take responsibility for a set of messages newer than all earlier ones.  *)
Claim ==
    /\ pending = {}
    /\ pending' \in SUBSET Message
    /\ \A old \in delivered \cup lost, m \in pending' : Older(old, m)
    /\ UNCHANGED <<delivered, lost>>

(* Hand the oldest pending message to the consumer. *)
Deliver ==
    \E m \in pending :
        /\ \A other \in pending \ {m} : Older(m, other)
        /\ pending' = pending \ {m}
        /\ delivered' = delivered \cup {m}
        /\ UNCHANGED lost

(* The consumer stops or dies: what was claimed is not handed over. *)
Lose ==
    /\ lost' = lost \cup pending
    /\ pending' = {}
    /\ UNCHANGED delivered

Next == Claim \/ Deliver \/ Lose

Spec == Init /\ [][Next]_vars
=============================================================================
