--------------------------- MODULE CheckpointFile ----------------------------
(***************************************************************************)
(* JSONFileCheckpointStore (mail/state.py): watcher threads that keep their*)
(* checkpoints in one JSON file, each under a key of its own.  A save      *)
(* reads the file, replaces one entry and writes the whole file again,     *)
(* under the lock of the store object.  A checkpoint is the number of the  *)
(* save that wrote it; 0 is an entry that is not there.                    *)
(***************************************************************************)
EXTENDS Naturals

CONSTANTS
    Watchers,       \* watcher threads, one key each
    MaxSaves        \* bound: saves of each watcher

ASSUME StoresAssumption == MaxSaves \in Nat

VARIABLES
    oneStore,       \* setting: one store object for all; else one for each
    readErrors,     \* setting: reading the file may fail with an OSError
    file,           \* the entries in the file
    entries,        \* what each save read, with its own entry replaced
    pc,             \* the next step of each thread's save
    saved           \* the last checkpoint of each watcher whose save returned

setting == <<oneStore, readErrors>>
vars == <<setting, file, entries, pc, saved>>

Entries == [Watchers -> 0 .. MaxSaves]
Empty == [w \in Watchers |-> 0]

TypeOK ==
    /\ {oneStore, readErrors} \subseteq BOOLEAN
    /\ file \in Entries
    /\ entries \in [Watchers -> Entries]
    /\ pc \in [Watchers -> {"idle", "lock", "read", "dump", "replace"}]
    /\ saved \in Entries

Init ==
    /\ oneStore \in BOOLEAN /\ readErrors \in BOOLEAN
    /\ file = Empty
    /\ entries = [w \in Watchers |-> Empty]
    /\ pc = [w \in Watchers |-> "idle"]
    /\ saved = Empty

Goto(w, step) == pc' = [pc EXCEPT ![w] = step]

(* Inside "with self._lock" of a store that this watcher uses as well.     *)
Holds(v) == pc[v] \in {"read", "dump", "replace"}
SameStore(v, w) == oneStore \/ v = w

Save(w) ==
    /\ pc[w] = "idle"
    /\ saved[w] < MaxSaves
    /\ Goto(w, "lock")
    /\ UNCHANGED <<setting, file, entries, saved>>

(* Mutant: the lock is not taken. *)
Lock_Not(w) ==
    /\ pc[w] = "lock"
    /\ Goto(w, "read")
    /\ UNCHANGED <<setting, file, entries, saved>>

Lock(w) ==
    /\ pc[w] = "lock"
    /\ \A v \in Watchers : SameStore(v, w) => ~Holds(v)
    /\ Goto(w, "read")
    /\ UNCHANGED <<setting, file, entries, saved>>

(* _read: a file that cannot be read counts as an empty one.               *)
Read(w) ==
    /\ pc[w] = "read"
    /\ \E found \in IF readErrors THEN {file, Empty} ELSE {file} :
         entries' = [entries EXCEPT ![w] = [found EXCEPT ![w] = saved[w] + 1]]
    /\ Goto(w, "dump")
    /\ UNCHANGED <<setting, file, saved>>

(* _write: a temporary file first.                                         *)
Dump(w) ==
    /\ pc[w] = "dump"
    /\ Goto(w, "replace")
    /\ UNCHANGED <<setting, file, entries, saved>>

(* os.replace, and the save returns.                                       *)
Replace(w) ==
    /\ pc[w] = "replace"
    /\ file' = entries[w]
    /\ saved' = [saved EXCEPT ![w] = @ + 1]
    /\ Goto(w, "idle")
    /\ UNCHANGED <<setting, entries>>

(* Mutant: the lock stays with the thread whose write failed.              *)
WriteFails_KeepsLock(w) ==
    /\ pc[w] \in {"dump", "replace"}
    /\ Goto(w, "dump")
    /\ UNCHANGED <<setting, file, entries, saved>>

(* Writing or replacing raises: the temporary file is removed, and leaving *)
(* the with statement releases the lock.                                   *)
WriteFails(w) ==
    /\ pc[w] \in {"dump", "replace"}
    /\ Goto(w, "idle")
    /\ UNCHANGED <<setting, file, entries, saved>>

(* The process dies with all its threads and is started again.             *)
Crash ==
    /\ pc' = [w \in Watchers |-> "idle"]
    /\ UNCHANGED <<setting, file, entries, saved>>

Step(w) == Lock(w) \/ Read(w) \/ Dump(w) \/ Replace(w) \/ WriteFails(w)

Next == Crash \/ \E w \in Watchers : Save(w) \/ Step(w)

Spec == Init /\ [][Next]_vars

(* Threads run, and the lock is handed on.                                 *)
LiveSpec == Spec /\ \A w \in Watchers : SF_vars(Step(w))

-----------------------------------------------------------------------------
(* docs/recipes.md: "sharing one file across watcher threads is safe".     *)
(* The file holds the checkpoint that each watcher saved last: no save of  *)
(* another watcher, failed write or crash loses it or brings an older one  *)
(* back.  So it is for one store object whose reads succeed: two objects   *)
(* do not share a lock, and a file that could not be read is written anew  *)
(* with nothing but the entry of the save.                                 *)
FileKeepsAll == oneStore /\ ~readErrors => file = saved

(* A save returns or raises, whichever way the saves before it ended.      *)
SavesReturn == \A w \in Watchers : pc[w] = "lock" ~> pc[w] = "idle"
=============================================================================
