------------------------- MODULE CheckpointFileProofs ------------------------
(***************************************************************************)
(* Theorems about CheckpointFile, for any set of watchers and any number of*)
(* saves.                                                                  *)
(***************************************************************************)
EXTENDS CheckpointFile, TLAPS

(* A watcher that is saving has a save left to make.                       *)
Within == \A w \in Watchers : pc[w] # "idle" => saved[w] < MaxSaves

(* One watcher at a time is inside the lock, and what it has read is the   *)
(* file as it still is.                                                    *)
OneHolder == \A v, w \in Watchers : Holds(v) /\ Holds(w) => v = w

ReadFresh ==
    \A w \in Watchers :
        pc[w] \in {"dump", "replace"} => entries[w] = [file EXCEPT ![w] = saved[w] + 1]

SharedInv == oneStore /\ ~readErrors => OneHolder /\ ReadFresh /\ file = saved

LEMMA InitTyped == Init => TypeOK /\ Within
  BY StoresAssumption DEF Init, TypeOK, Within, Entries, Empty

LEMMA NextTyped == TypeOK /\ Within /\ [Next]_vars => TypeOK' /\ Within'
<1> SUFFICES ASSUME TypeOK, Within, [Next]_vars PROVE TypeOK' /\ Within'
  OBVIOUS
<1> USE StoresAssumption DEF TypeOK, Within, Entries, Empty, Goto, setting
<1>1. CASE Crash
  BY <1>1 DEF Crash
<1>2. ASSUME NEW w \in Watchers, Save(w) PROVE TypeOK' /\ Within'
  BY <1>2 DEF Save
<1>3. ASSUME NEW w \in Watchers, Lock(w) PROVE TypeOK' /\ Within'
  BY <1>3 DEF Lock
<1>4. ASSUME NEW w \in Watchers, Read(w) PROVE TypeOK' /\ Within'
  BY <1>4 DEF Read
<1>5. ASSUME NEW w \in Watchers, Dump(w) PROVE TypeOK' /\ Within'
  BY <1>5 DEF Dump
<1>6. ASSUME NEW w \in Watchers, Replace(w) PROVE TypeOK' /\ Within'
  BY <1>6 DEF Replace
<1>7. ASSUME NEW w \in Watchers, WriteFails(w) PROVE TypeOK' /\ Within'
  BY <1>7 DEF WriteFails
<1>8. CASE UNCHANGED vars
  BY <1>8 DEF vars
<1> QED
  BY <1>1, <1>2, <1>3, <1>4, <1>5, <1>6, <1>7, <1>8 DEF Next, Step

(* Every reachable state of the saves is well typed.                       *)
THEOREM FileTyped == Spec => []TypeOK
<1>1. Spec => [](TypeOK /\ Within)
  BY InitTyped, NextTyped, PTL DEF Spec
<1> QED
  BY <1>1, PTL

LEMMA SettingsKept == [Next]_vars => UNCHANGED setting
<1>1. Crash => UNCHANGED setting
  BY DEF Crash
<1>2. \A w \in Watchers : Save(w) \/ Step(w) => UNCHANGED setting
  BY DEF Save, Step, Lock, Read, Dump, Replace, WriteFails
<1>3. UNCHANGED vars => UNCHANGED setting
  BY DEF vars
<1> QED
  BY <1>1, <1>2, <1>3 DEF Next

LEMMA InitShared == Init => SharedInv
  BY DEF Init, SharedInv, OneHolder, ReadFresh, Holds

LEMMA NextShared == TypeOK /\ SharedInv /\ [Next]_vars => SharedInv'
<1> SUFFICES ASSUME TypeOK, SharedInv, [Next]_vars, oneStore', ~readErrors'
             PROVE  (OneHolder /\ ReadFresh /\ file = saved)'
  BY DEF SharedInv
<1>0. oneStore /\ ~readErrors
  <2>1. oneStore' = oneStore /\ readErrors' = readErrors
    BY SettingsKept DEF setting
  <2> QED
    BY <2>1, Zenon
<1>a. OneHolder /\ ReadFresh /\ file = saved
  BY <1>0 DEF SharedInv
<1> USE <1>0, <1>a DEF TypeOK, Entries, OneHolder, ReadFresh, Holds, SameStore, Goto, setting
<1>1. CASE Crash
  BY <1>1 DEF Crash
<1>2. ASSUME NEW w \in Watchers, Save(w) PROVE (OneHolder /\ ReadFresh /\ file = saved)'
  BY <1>2 DEF Save
<1>3. ASSUME NEW w \in Watchers, Lock(w) PROVE (OneHolder /\ ReadFresh /\ file = saved)'
  BY <1>3 DEF Lock
<1>4. ASSUME NEW w \in Watchers, Read(w) PROVE (OneHolder /\ ReadFresh /\ file = saved)'
  <2>1. entries' = [entries EXCEPT ![w] = [file EXCEPT ![w] = saved[w] + 1]]
    <3>1. (IF readErrors THEN {file, Empty} ELSE {file}) = {file}
      BY <1>0, Zenon
    <3> QED
      BY <1>4, <3>1 DEF Read
  <2>2. pc' = [pc EXCEPT ![w] = "dump"] /\ pc[w] = "read" /\ UNCHANGED <<file, saved>>
    BY <1>4 DEF Read
  <2> QED
    BY <2>1, <2>2
<1>5. ASSUME NEW w \in Watchers, Dump(w) PROVE (OneHolder /\ ReadFresh /\ file = saved)'
  BY <1>5 DEF Dump
<1>6. ASSUME NEW w \in Watchers, Replace(w) PROVE (OneHolder /\ ReadFresh /\ file = saved)'
  BY <1>6 DEF Replace
<1>7. ASSUME NEW w \in Watchers, WriteFails(w) PROVE (OneHolder /\ ReadFresh /\ file = saved)'
  BY <1>7 DEF WriteFails
<1>8. CASE UNCHANGED vars
  BY <1>8 DEF vars
<1> QED
  BY <1>1, <1>2, <1>3, <1>4, <1>5, <1>6, <1>7, <1>8 DEF Next, Step

(* With one store object whose reads succeed, the file always holds what   *)
(* each of the watchers saved last, however many there are.                *)
THEOREM NoSaveUndone == Spec => []FileKeepsAll
<1>1. Spec => [](TypeOK /\ SharedInv)
  <2>1. Spec => []TypeOK
    BY FileTyped
  <2>2. TypeOK /\ SharedInv /\ [Next]_vars => SharedInv'
    BY NextShared
  <2> QED
    BY <2>1, <2>2, InitShared, PTL DEF Spec
<1>2. SharedInv => FileKeepsAll
  BY DEF SharedInv, FileKeepsAll
<1> QED
  BY <1>1, <1>2, PTL
=============================================================================
