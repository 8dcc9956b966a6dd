------------------------------- MODULE IMAPIdle ------------------------------
(***************************************************************************)
(* One IMAP session as the watcher's loop drives it: IMAPMailSource        *)
(* (mail/sources.py) over IMAPConnection (imap/connection.py), whose IDLE  *)
(* is written by hand on top of imaplib, line by line.  The mailbox only   *)
(* grows; message n is the n-th to arrive.  The loop is a poll (STATUS,    *)
(* and a FETCH when it shows more mail) followed by a wait in IDLE.  The   *)
(* connection can die at any time.                                         *)
(***************************************************************************)
EXTENDS Naturals, SequencesExt

CONSTANTS
    MaxMail,        \* bound: messages that arrive
    MaxDrops,       \* bound: connections that die
    Quirks          \* what servers, sockets and settings may be like

(* The server may announce mail in its answer to a FETCH; one read of the  *)
(* socket may return several lines; the server may announce mail before it *)
(* accepts IDLE; it may refuse the SELECT that reopens the session, or a   *)
(* STATUS; one wait may issue several IDLEs (interval > idle_refresh).     *)
AllQuirks ==
    {"piggyback", "coalesce", "untaggedFirst", "refused", "longInterval"}

ASSUME IdleAssumption ==
    /\ MaxMail \in Nat \ {0}
    /\ MaxDrops \in Nat
    /\ Quirks \subseteq AllQuirks

VARIABLES
    quirks,         \* setting: those that apply
    idles,          \* setting: "IDLE" is among the capabilities
    arrived,        \* messages in the mailbox
    told,           \* how many of them the server has announced to the session
    serverIdle,     \* the server is in IDLE and waits for DONE
    session,        \* what IMAPConnection holds: "none", "auth" or "selected"
    dead,           \* the connection it holds no longer works
    wire,           \* lines sent by the server that no read has returned yet
    buffer,         \* lines in imaplib's buffered file, invisible to select()
    pc,             \* the next step of the watcher's thread
    seen,           \* the message count that this poll's STATUS returned
    known,          \* the one in the checkpoint
    woken,          \* what IMAPConnection._idle_wait is about to return
    drops           \* connections that have died

server == <<arrived, told, serverIdle>>
link == <<session, dead, wire, buffer, drops>>
loop == <<seen, known, woken>>
setting == <<quirks, idles>>
vars == <<setting, server, link, loop, pc>>

Commands == {"status", "fetch", "idle"}
Lines == {"plus", "exists", "tagged"}

TypeOK ==
    /\ arrived \in 0 .. MaxMail
    /\ told \in 0 .. arrived
    /\ known \in 0 .. seen /\ seen \in 0 .. arrived
    /\ session \in {"none", "auth", "selected"}
    /\ wire \in Seq(Lines) /\ buffer \in Seq(Lines)
    /\ quirks \subseteq Quirks
    /\ {serverIdle, dead, idles, woken} \subseteq BOOLEAN
    /\ pc \in Commands \cup {"idleFirst", "idleWait", "idleDone", "drain",
                             "sleep", "backoff"}
    /\ drops \in 0 .. MaxDrops

(* The source has been opened and nothing has arrived since.               *)
Init ==
    /\ arrived = 0 /\ told = 0 /\ seen = 0 /\ known = 0 /\ drops = 0
    /\ session = "selected"
    /\ wire = <<>> /\ buffer = <<>>
    /\ serverIdle = FALSE /\ dead = FALSE /\ woken = FALSE
    /\ quirks \in SUBSET Quirks
    /\ idles \in BOOLEAN
    /\ pc = "status"

-----------------------------------------------------------------------------
(* The server and the network.                                             *)

Arrive ==
    /\ arrived < MaxMail
    /\ arrived' = arrived + 1
    /\ UNCHANGED <<setting, told, serverIdle, link, loop, pc>>

CanPush == serverIdle /\ session = "selected" /\ ~dead /\ told < arrived

Push ==
    /\ CanPush
    /\ wire' = Append(wire, "exists")
    /\ told' = arrived
    /\ UNCHANGED <<setting, arrived, serverIdle, session, dead, buffer, drops, loop, pc>>

Drop ==
    /\ session # "none" /\ ~dead
    /\ drops < MaxDrops
    /\ drops' = drops + 1
    /\ dead' = TRUE
    /\ UNCHANGED <<setting, server, session, wire, buffer, loop, pc>>

(* The lines with which the server answers, and what the session has been  *)
(* told with them: an announcement may come before the answer proper.      *)
Answer(line, mayAnnounce) ==
    \/ /\ wire' = Append(wire, line)
       /\ told' = told
    \/ /\ mayAnnounce /\ session = "selected" /\ told < arrived
       /\ wire' = wire \o <<"exists", line>>
       /\ told' = arrived

-----------------------------------------------------------------------------
(* The commands of imaplib: IMAPConnection.status, fetch_headers and       *)
(* _run, behind IMAPMailSource._ready.                                     *)

(* A command fails on a dead connection, and on one whose server still     *)
(* waits for DONE; _run then closes the connection.                        *)
Usable == ~dead /\ ~serverIdle

Closed ==
    /\ session' = "none"
    /\ dead' = FALSE
    /\ serverIdle' = FALSE
    /\ wire' = <<>> /\ buffer' = <<>>
    /\ UNCHANGED <<arrived, told, drops>>

CommandFails ==
    /\ pc \in {"status", "fetch"} /\ session # "none"
    /\ ~Usable \/ (pc = "fetch" /\ session = "auth")
    /\ Closed
    /\ pc' = "backoff"
    /\ UNCHANGED <<setting, loop>>

(* connect, then select: a refused SELECT leaves the session logged in.    *)
Reopen ==
    /\ pc = "status" /\ session = "none"
    /\ \/ /\ session' = "selected"
          /\ told' = arrived
          /\ pc' = pc
       \/ /\ "refused" \in quirks
          /\ session' = "auth"
          /\ told' = told
          /\ pc' = "backoff"
    /\ UNCHANGED <<setting, arrived, serverIdle, dead, wire, buffer, drops, loop>>

(* imaplib reads up to the tagged answer and keeps what else it reads to   *)
(* itself.                                                                 *)
Status ==
    /\ pc = "status" /\ session # "none" /\ Usable
    /\ seen' = arrived
    /\ pc' = IF arrived = known THEN "idle" ELSE "fetch"
    /\ wire' = <<>> /\ buffer' = <<>>
    /\ UNCHANGED <<setting, server, session, dead, drops, known, woken>>

(* A STATUS that is refused, the one in select or the one in state, leaves *)
(* the connection as it is.                                                *)
StatusRefused ==
    /\ pc = "status" /\ session # "none" /\ Usable
    /\ "refused" \in quirks
    /\ wire' = <<>> /\ buffer' = <<>>
    /\ pc' = "backoff"
    /\ UNCHANGED <<setting, server, session, dead, drops, loop>>

(* Mutant: the checkpoint takes the count as of now, not the one STATUS    *)
(* returned to this poll.                                                  *)
Fetch_LiveCount ==
    /\ pc = "fetch" /\ session = "selected" /\ Usable
    /\ known' = arrived
    /\ told' \in IF "piggyback" \in quirks THEN {told, arrived} ELSE {told}
    /\ wire' = <<>> /\ buffer' = <<>>
    /\ pc' = "idle"
    /\ UNCHANGED <<setting, arrived, serverIdle, session, dead, drops, seen, woken>>

Fetch ==
    /\ pc = "fetch" /\ session = "selected" /\ Usable
    /\ known' = seen
    /\ told' \in IF "piggyback" \in quirks THEN {told, arrived} ELSE {told}
    /\ wire' = <<>> /\ buffer' = <<>>
    /\ pc' = "idle"
    /\ UNCHANGED <<setting, arrived, serverIdle, session, dead, drops, seen, woken>>

-----------------------------------------------------------------------------
(* IMAPConnection.idle, inside the loop of IMAPMailSource.wait.            *)

(* Without the capability, idle only sleeps.                               *)
Sleep ==
    /\ pc = "idle" /\ ~idles
    /\ pc' = "sleep"
    /\ UNCHANGED <<setting, server, link, loop>>

Slept ==
    /\ pc = "sleep"
    /\ pc' = "status"
    /\ UNCHANGED <<setting, server, link, loop>>

SendIdle ==
    /\ pc = "idle" /\ idles
    /\ pc' = "idleFirst"
    /\ IF dead
       THEN UNCHANGED <<wire, told, serverIdle>>
       ELSE Answer("plus", "untaggedFirst" \in quirks) /\ serverIdle' = TRUE
    /\ UNCHANGED <<setting, arrived, session, dead, buffer, drops, loop>>

(* readline: a line, and perhaps more of them in the buffer.               *)
ReadLine(line) ==
    /\ buffer \o wire # <<>>
    /\ line = Head(buffer \o wire)
    /\ \E k \in 0 .. Len(wire) :
         /\ k = 0 <=> buffer # <<>>
         /\ k > 1 => "coalesce" \in quirks
         /\ buffer' = Tail(buffer \o SubSeq(wire, 1, k))
         /\ wire' = SubSeq(wire, k + 1, Len(wire))

(* Any first line but the continuation is an error.  It leaves the         *)
(* connection open and the server in IDLE.                                 *)
ReadFirst ==
    /\ pc = "idleFirst"
    /\ \E line \in Lines :
         /\ ReadLine(line)
         /\ pc' = IF line = "plus" THEN "idleWait" ELSE "backoff"
    /\ UNCHANGED <<setting, server, session, dead, drops, loop>>

(* The end of the stream, or an error from the socket.                     *)
IdleRefused ==
    /\ pc = "idleFirst" /\ dead
    /\ pc' = "backoff"
    /\ UNCHANGED <<setting, server, link, loop>>

(* select() looks at the socket, not at the buffer.                        *)
Notified ==
    /\ pc = "idleWait" /\ wire # <<>>
    /\ \E line \in Lines : ReadLine(line)
    /\ woken' = TRUE
    /\ pc' = "idleDone"
    /\ UNCHANGED <<setting, server, session, dead, drops, seen, known>>

IdleTimesOut ==
    /\ pc = "idleWait"
    /\ woken' = FALSE
    /\ pc' = "idleDone"
    /\ UNCHANGED <<setting, server, link, seen, known>>

(* The stream ends inside IDLE: _idle_wait raises, and _idle_done either   *)
(* raises itself and closes the connection or finds the stream at its end. *)
IdleLost ==
    /\ pc = "idleWait" /\ dead
    /\ \/ Closed
       \/ UNCHANGED <<server, link>>
    /\ pc' = "backoff"
    /\ UNCHANGED <<setting, loop>>

SendDone ==
    /\ pc = "idleDone" /\ ~dead
    /\ Answer("tagged", TRUE)
    /\ serverIdle' = FALSE
    /\ pc' = "drain"
    /\ UNCHANGED <<setting, arrived, session, dead, buffer, drops, loop>>

(* Mutant: a wait goes back to IDLE until a notification ends it.          *)
AfterIdle_OnlyWoken ==
    IF woken THEN pc' = "status" ELSE pc' = "idle"

(* The rest of wait: idle returned woken.  False goes round its loop while *)
(* there is time left.                                                     *)
AfterIdle ==
    \/ pc' = "status"
    \/ /\ ~woken /\ "longInterval" \in quirks
       /\ pc' = "idle"

(* Mutant: idle returns without reading up to the tag.                  *)
Drain_Skipped ==
    /\ pc = "drain"
    /\ AfterIdle
    /\ UNCHANGED <<setting, server, link, loop>>

(* Everything up to the tagged answer is read and dropped.                 *)
Drain ==
    /\ pc = "drain"
    /\ Contains(wire, "tagged")
    /\ wire' = <<>> /\ buffer' = <<>>
    /\ AfterIdle
    /\ UNCHANGED <<setting, server, session, dead, drops, loop>>

(* A connection that dies around DONE: an error closes it, the end of the  *)
(* stream is taken for the end of IDLE.                                    *)
DoneLost ==
    /\ pc \in {"idleDone", "drain"} /\ dead
    /\ \/ Closed /\ pc' = "backoff"
       \/ /\ AfterIdle
          /\ UNCHANGED <<server, link>>
    /\ UNCHANGED <<setting, loop>>

BackoffEnds ==
    /\ pc = "backoff"
    /\ pc' = "status"
    /\ UNCHANGED <<setting, server, link, loop>>

-----------------------------------------------------------------------------
Command == CommandFails \/ Reopen \/ Status \/ StatusRefused \/ Fetch

Idle ==
    \/ Sleep \/ Slept \/ SendIdle \/ ReadFirst \/ IdleRefused
    \/ Notified \/ IdleTimesOut \/ IdleLost \/ SendDone \/ Drain \/ DoneLost

Next == Arrive \/ Push \/ Drop \/ Command \/ Idle \/ BackoffEnds

Spec == Init /\ [][Next]_vars

(* The thread keeps taking steps: every call in it has a timeout.  The     *)
(* server accepts a SELECT or a STATUS it is asked for again and again, and*)
(* the time of a wait runs out: its deadline is set once, when it begins.  *)
LiveSpec ==
    /\ Spec
    /\ WF_vars(Command \/ Idle \/ BackoffEnds)
    /\ SF_vars(Drain /\ pc' = "status")
    /\ SF_vars(Reopen /\ session' = "selected")
    /\ SF_vars(Status)

-----------------------------------------------------------------------------
(* When a command goes out on a working connection, no line of an earlier  *)
(* exchange is left to be read and the server is not in IDLE.  A wait that *)
(* returned without draining up to its tag would break this, several steps *)
(* later, by handing one command the answer to another.  The one exception *)
(* comes of an announcement before IDLE is accepted: idle gives up with the*)
(* server in IDLE.  The command that meets it is always the next poll's    *)
(* STATUS, which fails and closes the connection (CommandFails).           *)
InStep ==
    pc \in Commands /\ session # "none" /\ ~dead =>
        IF serverIdle
        THEN pc = "status" /\ "untaggedFirst" \in quirks
        ELSE wire = <<>> /\ buffer = <<>>

(* The server "pushes as soon as a message lands" (docs/watching.md): mail *)
(* that has arrived since the checkpoint ends a wait in IDLE on a working  *)
(* connection, because a line is there for select() to see or because the  *)
(* server has yet to announce it.                                          *)
WakesUp ==
    pc = "idleWait" /\ ~dead /\ arrived > known => wire # <<>> \/ CanPush

(* So it does where none of the other quirks applies.                      *)
WakesUpWhenPlain == quirks \subseteq {"untaggedFirst"} => WakesUp

(* Whatever is lost on the way, a wait is bounded, and the poll after it   *)
(* finds the mail: every message gets into the checkpoint.                 *)
MailSeen == \A n \in 1 .. MaxMail : arrived >= n ~> known >= n

=============================================================================
