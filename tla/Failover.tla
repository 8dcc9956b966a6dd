------------------------------ MODULE Failover -------------------------------
(***************************************************************************)
(* FailoverMailSource (mail/sources.py) over an IMAP primary and an HTTP   *)
(* fallback, driven by the watcher's loop: open once, then polls (a state  *)
(* call and perhaps a fetch), each followed by a wait.  The servers go down*)
(* and come back between any two calls.                                    *)
(***************************************************************************)
EXTENDS Naturals

VARIABLES
    active,         \* FailoverMailSource._active
    degradedAt,     \* _degraded_at: None, within recover_after, or past it
    conn,           \* the primary's IMAP connection
    primary,        \* the IMAP server: one of ServerModes
    fallbackUp,     \* the HTTP server answers
    opened,         \* InboxWatcher._opened
    call,           \* the next call on the source
    resume          \* the call that _degrade is to repeat on the fallback

sourceVars == <<active, degradedAt, conn, primary, fallbackUp, opened, call, resume>>
servers == <<primary, fallbackUp>>

Operations == {"state", "fetch", "wait"}

(* A server that is "refusing" accepts a login and no SELECT, a "partial"  *)
(* one accepts the SELECT and refuses the STATUS that follows it.          *)
ServerModes == {"up", "down", "refusing", "partial"}

SourceOK ==
    /\ active \in {"primary", "fallback"}
    /\ degradedAt \in {"never", "recent", "elapsed"}
    /\ conn \in {"none", "auth", "selected", "stale"}
    /\ primary \in ServerModes
    /\ fallbackUp \in BOOLEAN
    /\ opened \in BOOLEAN
    /\ call \in Operations \cup {"open", "recover", "degrade", "backoff"}
    /\ resume \in Operations \cup {"open"}

SourceInit ==
    /\ active = "primary"
    /\ degradedAt = "never"
    /\ conn = "none"
    /\ primary \in ServerModes
    /\ fallbackUp \in BOOLEAN
    /\ opened = FALSE
    /\ call = "open"
    /\ resume = "open"

-----------------------------------------------------------------------------
(* The servers.  A connection does not survive its server.                 *)

PrimaryChanges ==
    /\ primary' \in ServerModes \ {primary}
    /\ conn' = IF primary' = "down" /\ conn # "none" THEN "stale" ELSE conn
    /\ UNCHANGED <<active, degradedAt, fallbackUp, opened, call, resume>>

FallbackChanges ==
    /\ fallbackUp' = ~fallbackUp
    /\ UNCHANGED <<active, degradedAt, conn, primary, opened, call, resume>>

(* recover_after seconds have passed since the primary was last tried.     *)
Tick ==
    /\ degradedAt = "recent"
    /\ degradedAt' = "elapsed"
    /\ UNCHANGED <<active, conn, servers, opened, call, resume>>

-----------------------------------------------------------------------------
(* IMAPMailSource: what its calls do to the connection, as pairs of the    *)
(* connection afterwards and whether the call succeeded.                   *)

(* connect keeps a connection there is, select a mailbox there is, and a   *)
(* STATUS ends both ways.  What is refused leaves the connection as it is, *)
(* logged in or selected; a command on a dead connection closes it.        *)
OpenResult ==
    CASE conn = "stale" -> <<"none", FALSE>>
      [] conn = "selected" -> <<"selected", primary # "partial">>
      [] OTHER ->
            IF primary = "down" THEN <<"none", FALSE>>
            ELSE IF primary = "refusing" THEN <<"auth", FALSE>>
            ELSE <<"selected", primary = "up">>

(* An operation opens the connection when there is none.  STATUS and IDLE  *)
(* are legal without a selected mailbox, FETCH is not.                     *)
OperationResult(operation) ==
    CASE conn = "none" -> OpenResult
      [] conn = "stale" -> <<"none", FALSE>>
      [] conn = "auth" /\ operation = "fetch" -> <<"none", FALSE>>
      [] OTHER -> <<conn, operation # "state" \/ primary # "partial">>

-----------------------------------------------------------------------------
(* FailoverMailSource, and the loop around it. *)

(* open: the primary first; when it fails, _degrade has closed it.         *)
Open ==
    /\ call = "open"
    /\ IF OpenResult[2]
       THEN /\ conn' = OpenResult[1]
            /\ active' = "primary"
            /\ opened' = TRUE
            /\ call' = "state"
            /\ UNCHANGED resume
       ELSE /\ conn' = "none"
            /\ call' = "degrade"
            /\ resume' = "open"
            /\ UNCHANGED <<active, opened>>
    /\ UNCHANGED <<degradedAt, servers>>

(* After a successful call: a poll that found something fetches, every poll*)
(* is followed by a wait, and wait tries to recover first.                 *)
Following(operation) ==
    CASE operation = "state" -> {"fetch", "recover"}
      [] operation = "fetch" -> {"recover"}
      [] operation = "wait" -> {"state"}

(* Mutant: the failed primary is left open. *)
CallPrimary_LeftOpen ==
    /\ call \in Operations
    /\ active = "primary"
    /\ conn' = OperationResult(call)[1]
    /\ IF OperationResult(call)[2]
       THEN call' \in Following(call) /\ UNCHANGED resume
       ELSE call' = "degrade" /\ resume' = call
    /\ UNCHANGED <<active, degradedAt, servers, opened>>

(* _guard on the primary: an error degrades to the fallback, which closes  *)
(* the primary first.                                                      *)
CallPrimary ==
    /\ call \in Operations
    /\ active = "primary"
    /\ IF OperationResult(call)[2]
       THEN /\ conn' = OperationResult(call)[1]
            /\ call' \in Following(call)
            /\ UNCHANGED resume
       ELSE /\ conn' = "none"
            /\ call' = "degrade"
            /\ resume' = call
    /\ UNCHANGED <<active, degradedAt, servers, opened>>

(* _guard on the fallback: an error is the caller's.  Its wait only sleeps.*)
CallFallback ==
    /\ call \in Operations
    /\ active = "fallback"
    /\ IF fallbackUp \/ call = "wait" THEN call' \in Following(call) ELSE call' = "backoff"
    /\ UNCHANGED <<active, degradedAt, conn, servers, opened, resume>>

(* Mutant: the fallback is opened and never used. *)
Degrade_NoSwitch ==
    /\ call = "degrade"
    /\ call' = "backoff"
    /\ opened' = fallbackUp
    /\ degradedAt' = "recent"
    /\ UNCHANGED <<active, conn, servers, resume>>

(* _degrade: open the fallback; when that fails the primary stays active.  *)
Degrade ==
    /\ call = "degrade"
    /\ IF fallbackUp
       THEN /\ active' = "fallback"
            /\ degradedAt' = "recent"
            /\ opened' = TRUE
            /\ call' = IF resume = "open" THEN "state" ELSE resume
       ELSE /\ call' = "backoff"
            /\ UNCHANGED <<active, degradedAt, opened>>
    /\ UNCHANGED <<conn, servers, resume>>

(* Mutant: a failed attempt to recover is the last one. *)
MaybeRecover_Once ==
    /\ call = "recover"
    /\ call' = "wait"
    /\ IF active = "fallback" /\ degradedAt = "elapsed"
       THEN /\ conn' = OpenResult[1]
            /\ IF OpenResult[2]
               THEN active' = "primary" /\ degradedAt' = "never"
               ELSE UNCHANGED active /\ degradedAt' = "never"
       ELSE UNCHANGED <<active, degradedAt, conn>>
    /\ UNCHANGED <<servers, opened, resume>>

(* _maybe_recover: once the time is up the primary is opened again; when it*)
(* fails it is left as it is until the time is up once more.               *)
MaybeRecover ==
    /\ call = "recover"
    /\ call' = "wait"
    /\ IF active = "fallback" /\ degradedAt = "elapsed"
       THEN /\ conn' = OpenResult[1]
            /\ IF OpenResult[2]
               THEN active' = "primary" /\ degradedAt' = "never"
               ELSE UNCHANGED active /\ degradedAt' = "recent"
       ELSE UNCHANGED <<active, degradedAt, conn>>
    /\ UNCHANGED <<servers, opened, resume>>

(* The loop's error handler has waited; the next cycle starts with _open.  *)
Backoff ==
    /\ call = "backoff"
    /\ call' = IF opened THEN "state" ELSE "open"
    /\ UNCHANGED <<active, degradedAt, conn, servers, opened, resume>>

(* The watcher is closed between two cycles and iterated again. *)
Close ==
    /\ call = "state"
    /\ opened
    /\ conn' = "none"
    /\ opened' = FALSE
    /\ call' = "open"
    /\ UNCHANGED <<active, degradedAt, servers, resume>>

LoopNext == Open \/ CallPrimary \/ CallFallback \/ Degrade \/ MaybeRecover \/ Backoff

SourceNext == LoopNext \/ Close \/ PrimaryChanges \/ FallbackChanges \/ Tick

Source == SourceInit /\ [][SourceNext]_sourceVars

(* The loop runs and time passes; nobody promises that servers come back,  *)
(* or that the program stops closing the watcher.                          *)
LiveSource == Source /\ WF_sourceVars(LoopNext) /\ WF_sourceVars(Tick)

-----------------------------------------------------------------------------
(* Properties. *)

(* The backends hand the watcher's folder over.  Whatever fails, and in    *)
(* whatever call, the primary is closed before the fallback serves, and it *)
(* serves again only with its mailbox selected.  There is one way in which *)
(* both hold the folder: a primary that is retried accepts the SELECT and  *)
(* refuses the STATUS; it is not closed then, and stays selected beside the*)
(* fallback until a retry, the connection or the watcher ends that.        *)
Handover ==
    /\ active' = "fallback" /\ active # "fallback" => conn' = "none"
    /\ active' = "primary" /\ active # "primary" => conn' = "selected"
    /\ active' = "primary" => conn' # "auth"
    /\ active' = "fallback" /\ conn' = "selected" /\ conn # "selected" =>
           call = "recover" /\ primary = "partial"

FolderHandedOver == [][Handover]_sourceVars

ClosedForGood == [][~Close]_sourceVars

(* FailoverMailSource: "After recover_after seconds the primary is retried,*)
(* so a transient IMAP outage does not pin the watcher to HTTP polling     *)
(* forever".  When both servers stay up, and the watcher is left open, the *)
(* primary serves again and goes on serving.  The fallback has to be up as *)
(* well: the primary is retried by wait only, which a loop whose polls fail*)
(* on the fallback does not reach.                                         *)
ReturnsToPrimary ==
    <>[](primary = "up" /\ fallbackUp) /\ <>ClosedForGood => <>[](active = "primary")

(* While the fallback is up polls go through, whatever the primary does.   *)
PollsGoThrough ==
    <>[]fallbackUp /\ <>ClosedForGood => []<>(call = "recover")
=============================================================================
