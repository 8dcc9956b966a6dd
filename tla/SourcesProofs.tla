---------------------------- MODULE SourcesProofs ----------------------------
(***************************************************************************)
(* Proofs about the mail sources of mail/sources.py.  About IMAPIdle: for  *)
(* any amount of mail, any number of lost connections and any of the quirks*)
(* of servers.  About Failover, whose specification is Source.             *)
(***************************************************************************)
EXTENDS IMAPIdle, Failover, SequenceTheorems, TLAPS

-----------------------------------------------------------------------------
(* What is left of a session is known at each step of the thread.          *)

(* Without a session nothing is open, and the thread is about to open one. *)
Released ==
    session = "none" =>
        /\ ~dead /\ ~serverIdle
        /\ wire = <<>> /\ buffer = <<>>
        /\ pc \in {"status", "backoff"}

(* On a working connection the thread knows whether the server is in IDLE, *)
(* but for the IDLE it gave up because of an announcement before it.       *)
ServerKnown ==
    ~dead =>
        /\ pc \in {"idleFirst", "idleWait", "idleDone"} => serverIdle
        /\ pc \in {"fetch", "idle", "sleep", "drain"} => ~serverIdle
        /\ (pc \in {"status", "backoff"} /\ "untaggedFirst" \notin quirks) => ~serverIdle

(* And between its commands nothing is left to be read, unless the server  *)
(* was left in IDLE.                                                       *)
NothingUnread ==
    (/\ ~dead
     /\ \/ pc \in {"fetch", "idle", "sleep"}
        \/ pc \in {"status", "backoff"} /\ ~serverIdle)
    => wire = <<>> /\ buffer = <<>>

(* IDLE was answered, and first by the line that accepts it.               *)
IdleAnswered ==
    (pc = "idleFirst" /\ ~dead) =>
        /\ buffer = <<>> /\ wire # <<>>
        /\ "untaggedFirst" \notin quirks => Head(wire) = "plus"

(* In the plain case a wait begins when the server has announced no more   *)
(* than the checkpoint knows; a later announcement is a line on the wire.  *)
ToldKnown ==
    quirks \subseteq {"untaggedFirst"} =>
        /\ session # "auth"
        /\ pc = "fetch" => told <= seen
        /\ (pc = "idle" /\ ~dead) => told <= known
        /\ (pc = "idleFirst" /\ ~dead) => told <= known \/ Len(wire) > 1
        /\ (pc = "idleWait" /\ ~dead) => told <= known \/ Len(wire) > 0

SessionInv ==
    /\ Released
    /\ ServerKnown
    /\ NothingUnread
    /\ IdleAnswered
    /\ ToldKnown

-----------------------------------------------------------------------------
(* Lines that are sent and read.                                           *)

LEMMA LineSequences ==
    ASSUME NEW S, NEW s \in Seq(S), NEW t \in Seq(S)
    PROVE  /\ s \o t \in Seq(S) /\ Len(s \o t) = Len(s) + Len(t)
           /\ s # <<>> <=> Len(s) > 0
           /\ \A e \in S : /\ Append(s, e) \in Seq(S) /\ Len(Append(s, e)) = Len(s) + 1
                           /\ (s # <<>> => Head(Append(s, e)) = Head(s))
                           /\ (s = <<>> => Append(s, e) = <<e>>)
           /\ s # <<>> => Head(s) \in S /\ Tail(s) \in Seq(S) /\ Len(Tail(s)) = Len(s) - 1
           /\ <<>> \o s = s
<1>1. s \o t \in Seq(S) /\ Len(s \o t) = Len(s) + Len(t) /\ (s # <<>> <=> Len(s) > 0)
  BY EmptySeq, ConcatProperties
<1>2. ASSUME NEW e \in S
      PROVE  /\ Append(s, e) \in Seq(S) /\ Len(Append(s, e)) = Len(s) + 1
             /\ s # <<>> => Head(Append(s, e)) = Head(s)
             /\ s = <<>> => Append(s, e) = <<e>>
  <2>1. Append(s, e) \in Seq(S) /\ Len(Append(s, e)) = Len(s) + 1
    BY AppendProperties
  <2>2. s # <<>> => Head(Append(s, e)) = Head(s)
    BY HeadTailAppend
  <2>3. Append(<<>>, e) = <<e>>
    OBVIOUS
  <2> QED
    BY <2>1, <2>2, <2>3
<1>3. s # <<>> => Head(s) \in S /\ Tail(s) \in Seq(S) /\ Len(Tail(s)) = Len(s) - 1
  OBVIOUS
<1>4. <<>> \o s = s
  OBVIOUS
<1> QED
  BY <1>1, <1>2, <1>3, <1>4

(* The server's answer adds at least its line, and first of all that line  *)
(* unless it announces mail with it.                                       *)
LEMMA Answered ==
    ASSUME TypeOK, NEW line \in Lines, NEW mayAnnounce \in BOOLEAN, Answer(line, mayAnnounce)
    PROVE  /\ wire' \in Seq(Lines) /\ wire' # <<>>
           /\ told' \in {told, arrived}
           /\ (wire = <<>> /\ ~mayAnnounce) => Head(wire') = line
           /\ told' = told \/ Len(wire') > 1
<1>1. <<"exists", line>> \in Seq(Lines) /\ Len(<<"exists", line>>) = 2
  BY DEF Lines
<1>2. wire \in Seq(Lines)
  BY DEF TypeOK
<1>3. CASE wire' = Append(wire, line) /\ told' = told
  BY <1>2, <1>3, LineSequences
<1>4. CASE mayAnnounce /\ wire' = wire \o <<"exists", line>> /\ told' = arrived
  <2>1. wire' \in Seq(Lines) /\ Len(wire') = Len(wire) + 2
    BY <1>1, <1>2, <1>4, LineSequences
  <2>2. Len(wire) \in Nat
    BY <1>2
  <2> QED
    BY <1>4, <2>1, <2>2, LineSequences
<1> QED
  BY <1>3, <1>4 DEF Answer

(* A read takes the first line.  Where a read returns one line only, it    *)
(* leaves the others on the wire.                                          *)
LEMMA LineRead ==
    ASSUME TypeOK, NEW line \in Lines, ReadLine(line)
    PROVE  /\ wire' \in Seq(Lines) /\ buffer' \in Seq(Lines)
           /\ buffer = <<>> => wire # <<>> /\ line = Head(wire)
           /\ (buffer = <<>> /\ "coalesce" \notin quirks) => Len(wire') = Len(wire) - 1
<1>1. wire \in Seq(Lines) /\ buffer \in Seq(Lines) /\ Len(wire) \in Nat
  BY DEF TypeOK
<1>2. PICK k \in 0 .. Len(wire) :
        /\ k = 0 <=> buffer # <<>>
        /\ k > 1 => "coalesce" \in quirks
        /\ buffer' = Tail(buffer \o SubSeq(wire, 1, k))
        /\ wire' = SubSeq(wire, k + 1, Len(wire))
  BY DEF ReadLine
<1>3. /\ SubSeq(wire, 1, k) \in Seq(Lines) /\ Len(SubSeq(wire, 1, k)) = k
      /\ wire' \in Seq(Lines) /\ Len(wire') = Len(wire) - k
  BY <1>1, <1>2
<1>4. buffer' \in Seq(Lines)
  <2>1. buffer \o SubSeq(wire, 1, k) \in Seq(Lines)
    BY <1>1, <1>3, LineSequences
  <2>2. Len(buffer \o SubSeq(wire, 1, k)) = Len(buffer) + k
    BY <1>1, <1>3, LineSequences
  <2>3. Len(buffer) > 0 \/ k > 0
    BY <1>1, <1>2, LineSequences
  <2>4. buffer \o SubSeq(wire, 1, k) # <<>>
    BY <1>1, <2>1, <2>2, <2>3, LineSequences
  <2> QED
    BY <1>2, <2>1, <2>4, LineSequences
<1>5. buffer = <<>> => wire # <<>> /\ line = Head(wire)
  BY <1>1, LineSequences DEF ReadLine
<1>6. (buffer = <<>> /\ "coalesce" \notin quirks) => k = 1
  BY <1>2
<1> QED
  BY <1>3, <1>4, <1>5, <1>6

-----------------------------------------------------------------------------
(* Types.                                                                  *)

LEMMA InitType == Init => TypeOK
<1>1. <<>> \in Seq(Lines)
  OBVIOUS
<1>2. Init => /\ {serverIdle, dead, idles, woken} \subseteq BOOLEAN
              /\ quirks \subseteq Quirks
  BY DEF Init
<1> QED
  BY <1>1, <1>2, IdleAssumption DEF Init, TypeOK, Commands

LEMMA ServerType ==
    ASSUME TypeOK, Arrive \/ Push \/ Drop
    PROVE  TypeOK'
<1> USE IdleAssumption DEF TypeOK, setting, server, link, loop
<1>1. CASE Arrive
  BY <1>1 DEF Arrive
<1>2. CASE Push
  <2>1. "exists" \in Lines /\ wire' \in Seq(Lines)
    BY <1>2, LineSequences DEF Push, Lines
  <2> QED
    BY <1>2, <2>1 DEF Push
<1>3. CASE Drop
  BY <1>3 DEF Drop
<1> QED
  BY <1>1, <1>2, <1>3

LEMMA CommandType ==
    ASSUME TypeOK, Command
    PROVE  TypeOK'
<1> USE IdleAssumption DEF TypeOK, setting, server, link, loop, Commands
<1>0. <<>> \in Seq(Lines)
  OBVIOUS
<1>1. CASE CommandFails
  BY <1>0, <1>1 DEF CommandFails, Closed
<1>2. CASE Reopen
  BY <1>2 DEF Reopen
<1>3. CASE Status
  BY <1>0, <1>3 DEF Status
<1>4. CASE StatusRefused
  BY <1>0, <1>4 DEF StatusRefused
<1>5. CASE Fetch
  BY <1>0, <1>5 DEF Fetch
<1> QED
  BY <1>1, <1>2, <1>3, <1>4, <1>5 DEF Command

LEMMA IdleType ==
    ASSUME TypeOK, Idle
    PROVE  TypeOK'
<1> USE IdleAssumption DEF setting, server, link, loop, Commands
<1>0. <<>> \in Seq(Lines) /\ {"plus", "tagged"} \subseteq Lines
  BY DEF Lines
<1>1. CASE Sleep \/ Slept \/ IdleRefused \/ IdleTimesOut
  BY <1>1 DEF TypeOK, Sleep, Slept, IdleRefused, IdleTimesOut
<1>2. CASE SendIdle
  <2>1. ("untaggedFirst" \in quirks) \in BOOLEAN
    OBVIOUS
  <2>2. CASE dead
    BY <1>2, <2>2 DEF SendIdle, TypeOK
  <2>3. CASE ~dead
    <3>1. /\ Answer("plus", "untaggedFirst" \in quirks) /\ serverIdle' = TRUE /\ pc' = "idleFirst"
          /\ UNCHANGED <<setting, arrived, session, dead, buffer, drops, loop>>
      BY <1>2, <2>3 DEF SendIdle
    <3>2. wire' \in Seq(Lines) /\ told' \in {told, arrived}
      BY <1>0, <2>1, <3>1, Answered
    <3> QED
      BY <3>1, <3>2 DEF TypeOK
  <2> QED
    BY <2>2, <2>3
<1>3. CASE ReadFirst
  <2>1. wire' \in Seq(Lines) /\ buffer' \in Seq(Lines)
    BY <1>3, LineRead DEF ReadFirst
  <2> QED
    BY <1>3, <2>1 DEF ReadFirst, TypeOK
<1>4. CASE Notified
  <2>1. wire' \in Seq(Lines) /\ buffer' \in Seq(Lines)
    BY <1>4, LineRead DEF Notified
  <2> QED
    BY <1>4, <2>1 DEF Notified, TypeOK
<1>5. CASE IdleLost
  BY <1>0, <1>5 DEF IdleLost, Closed, TypeOK
<1>6. CASE SendDone
  <2>1. wire' \in Seq(Lines) /\ told' \in {told, arrived}
    BY <1>0, <1>6, Answered DEF SendDone
  <2>2. /\ serverIdle' = FALSE /\ pc' = "drain"
        /\ UNCHANGED <<setting, arrived, session, dead, buffer, drops, loop>>
    BY <1>6 DEF SendDone
  <2>3. (told \in 0 .. arrived)'
    BY <2>1, <2>2 DEF TypeOK
  <2> QED
    BY <2>1, <2>2, <2>3 DEF TypeOK
<1>7. CASE Drain
  BY <1>0, <1>7 DEF Drain, AfterIdle, TypeOK
<1>8. CASE DoneLost
  BY <1>0, <1>8 DEF DoneLost, Closed, AfterIdle, TypeOK
<1> QED
  BY <1>1, <1>2, <1>3, <1>4, <1>5, <1>6, <1>7, <1>8 DEF Idle

(* Every variable of the session keeps its type: the server has announced  *)
(* no more than arrived, the checkpoint knows no more than STATUS said.    *)
THEOREM SessionTyped == Spec => []TypeOK
<1>1. TypeOK /\ [Next]_vars => TypeOK'
  <2> SUFFICES ASSUME TypeOK, [Next]_vars PROVE TypeOK'
    OBVIOUS
  <2>1. CASE BackoffEnds
    BY <2>1 DEF BackoffEnds, TypeOK, setting, server, link, loop, Commands
  <2>2. CASE UNCHANGED vars
    BY <2>2 DEF vars, TypeOK, setting, server, link, loop
  <2> QED
    BY <2>1, <2>2, ServerType, CommandType, IdleType DEF Next
<1> QED
  BY <1>1, InitType, PTL DEF Spec

-----------------------------------------------------------------------------
(* The steps keep what is known of the session.                            *)

LEMMA InitSession == Init => SessionInv
BY DEF Init, SessionInv, Released, ServerKnown, NothingUnread, IdleAnswered, ToldKnown

(* Numbers and lines the steps compare. *)
LEMMA Sizes ==
    ASSUME TypeOK
    PROVE  /\ arrived \in Nat /\ told \in Nat /\ known \in Nat /\ seen \in Nat
           /\ told <= arrived /\ seen <= arrived
           /\ wire \in Seq(Lines) /\ buffer \in Seq(Lines) /\ Len(wire) \in Nat
           /\ wire # <<>> <=> Len(wire) > 0
BY IdleAssumption, LineSequences DEF TypeOK

LEMMA ServerSession ==
    ASSUME TypeOK, SessionInv, Arrive \/ Push \/ Drop
    PROVE  SessionInv'
<1> USE DEF SessionInv, setting, server, link, loop
<1>1. CASE Arrive
  BY <1>1 DEF Arrive, Released, ServerKnown, NothingUnread, IdleAnswered, ToldKnown
<1>2. CASE Push
  <2>1. /\ ~dead /\ serverIdle /\ session = "selected"
        /\ wire' = Append(wire, "exists") /\ told' = arrived
        /\ UNCHANGED <<setting, arrived, serverIdle, session, dead, buffer, drops, loop, pc>>
    BY <1>2 DEF Push, CanPush
  <2>2. /\ wire' \in Seq(Lines) /\ Len(wire') = Len(wire) + 1 /\ wire' # <<>>
        /\ wire # <<>> => Head(wire') = Head(wire)
    BY <2>1, Sizes, LineSequences, AppendProperties DEF Lines
  <2>3. pc \notin {"fetch", "idle", "sleep", "drain"}
    BY <2>1 DEF ServerKnown
  <2>4. Released' /\ ServerKnown'
    BY <2>1 DEF Released, ServerKnown
  <2>5. NothingUnread'
    BY <2>1, <2>3 DEF NothingUnread, ServerKnown
  <2>6. IdleAnswered'
    BY <2>1, <2>2 DEF IdleAnswered
  <2>7. Len(wire') > 0 /\ (pc = "idleFirst" => Len(wire') > 1)
    BY <2>1, <2>2, Sizes DEF IdleAnswered
  <2>8. ToldKnown'
    BY <2>1, <2>3, <2>7 DEF ToldKnown
  <2> QED
    BY <2>4, <2>5, <2>6, <2>8
<1>3. CASE Drop
  BY <1>3 DEF Drop, Released, ServerKnown, NothingUnread, IdleAnswered, ToldKnown
<1> QED
  BY <1>1, <1>2, <1>3

(* A session that was closed holds nothing. *)
LEMMA ClosedSession ==
    ASSUME TypeOK, SessionInv, Closed, pc' = "backoff", UNCHANGED <<setting, loop>>
    PROVE  SessionInv'
BY DEF SessionInv, Closed, Released, ServerKnown, NothingUnread, IdleAnswered, ToldKnown,
       setting, loop

LEMMA CommandSession ==
    ASSUME TypeOK, SessionInv, Command
    PROVE  SessionInv'
<1> USE DEF SessionInv, setting, server, link, loop
<1>1. CASE CommandFails
  BY <1>1, ClosedSession DEF CommandFails
<1>2. CASE Reopen
  BY <1>2 DEF Reopen, Released, ServerKnown, NothingUnread, IdleAnswered, ToldKnown
<1>3. CASE Status
  <2>1. /\ session # "none" /\ ~dead /\ ~serverIdle
        /\ pc' \in {"idle", "fetch"} /\ (pc' = "idle" => arrived = known)
        /\ seen' = arrived /\ wire' = <<>> /\ buffer' = <<>>
        /\ UNCHANGED <<setting, server, session, dead, drops, known, woken>>
    BY <1>3 DEF Status, Usable
  <2>2. Released' /\ ServerKnown' /\ NothingUnread' /\ IdleAnswered'
    BY <2>1 DEF Released, ServerKnown, NothingUnread, IdleAnswered
  <2>3. ToldKnown'
    BY <2>1, Sizes DEF ToldKnown
  <2> QED
    BY <2>2, <2>3
<1>4. CASE Fetch
  <2>1. /\ pc = "fetch" /\ session = "selected" /\ ~dead /\ ~serverIdle
        /\ pc' = "idle" /\ known' = seen /\ wire' = <<>> /\ buffer' = <<>>
        /\ "piggyback" \notin quirks => told' = told
        /\ UNCHANGED <<setting, arrived, serverIdle, session, dead, drops, seen, woken>>
    BY <1>4 DEF Fetch, Usable
  <2>2. Released' /\ ServerKnown' /\ NothingUnread' /\ IdleAnswered'
    BY <2>1 DEF Released, ServerKnown, NothingUnread, IdleAnswered
  <2>3. ToldKnown'
    BY <2>1 DEF ToldKnown
  <2> QED
    BY <2>2, <2>3
<1>5. CASE StatusRefused
  BY <1>5 DEF StatusRefused, Usable, Released, ServerKnown, NothingUnread, IdleAnswered, ToldKnown
<1> QED
  BY <1>1, <1>2, <1>3, <1>4, <1>5 DEF Command

LEMMA SendIdleSession ==
    ASSUME TypeOK, SessionInv, SendIdle
    PROVE  SessionInv'
<1> USE DEF SessionInv, setting, server, link, loop
<1>1. /\ pc = "idle" /\ pc' = "idleFirst"
      /\ UNCHANGED <<setting, arrived, session, dead, buffer, drops, loop>>
  BY DEF SendIdle
<1>2. CASE dead
  BY <1>1, <1>2 DEF SendIdle, Released, ServerKnown, NothingUnread, IdleAnswered, ToldKnown
<1>3. CASE ~dead
  <2>1. Answer("plus", "untaggedFirst" \in quirks) /\ serverIdle' = TRUE
    BY <1>3 DEF SendIdle
  <2>2. ("untaggedFirst" \in quirks) \in BOOLEAN /\ "plus" \in Lines
    BY DEF Lines
  <2>3. wire = <<>> /\ buffer = <<>>
    BY <1>1, <1>3 DEF NothingUnread
  <2>4. /\ wire' # <<>>
        /\ "untaggedFirst" \notin quirks => Head(wire') = "plus"
        /\ told' = told \/ Len(wire') > 1
    BY <2>1, <2>2, <2>3, Answered
  <2>5. Released' /\ ServerKnown' /\ NothingUnread'
    BY <1>1, <2>1 DEF Released, ServerKnown, NothingUnread
  <2>6. IdleAnswered'
    BY <1>1, <2>3, <2>4 DEF IdleAnswered
  <2>7. ToldKnown'
    BY <1>1, <1>3, <2>4 DEF ToldKnown
  <2> QED
    BY <2>5, <2>6, <2>7
<1> QED
  BY <1>2, <1>3

LEMMA ReadFirstSession ==
    ASSUME TypeOK, SessionInv, ReadFirst
    PROVE  SessionInv'
<1> USE DEF SessionInv, setting, server, link, loop
<1>1. PICK line \in Lines :
        ReadLine(line) /\ pc' = IF line = "plus" THEN "idleWait" ELSE "backoff"
  BY DEF ReadFirst
<1>2. /\ pc = "idleFirst" /\ pc' \in {"idleWait", "backoff"}
      /\ UNCHANGED <<setting, server, session, dead, drops, loop>>
  BY <1>1 DEF ReadFirst
<1>3. CASE dead
  BY <1>2, <1>3 DEF Released, ServerKnown, NothingUnread, IdleAnswered, ToldKnown
<1>4. CASE ~dead
  <2>1. buffer = <<>> /\ wire # <<>> /\ line = Head(wire)
    BY <1>1, <1>2, <1>4, LineRead DEF IdleAnswered
  <2>2. "untaggedFirst" \notin quirks => pc' = "idleWait"
    BY <1>1, <1>2, <1>4, <2>1 DEF IdleAnswered
  <2>3. Released' /\ ServerKnown' /\ NothingUnread' /\ IdleAnswered'
    BY <1>2, <1>4, <2>2 DEF Released, ServerKnown, NothingUnread, IdleAnswered
  <2>4. "coalesce" \notin quirks => Len(wire') = Len(wire) - 1
    BY <1>1, <2>1, LineRead
  <2>5. (quirks \subseteq {"untaggedFirst"} /\ pc' = "idleWait")
        => told <= known \/ Len(wire') > 0
    BY <1>2, <1>4, <2>4, Sizes DEF ToldKnown
  <2>6. ToldKnown'
    BY <1>2, <2>5 DEF ToldKnown
  <2> QED
    BY <2>3, <2>6
<1> QED
  BY <1>3, <1>4

LEMMA IdleSession ==
    ASSUME TypeOK, SessionInv, Idle
    PROVE  SessionInv'
<1> USE DEF SessionInv, setting, server, link, loop
<1>1. CASE Sleep \/ Slept \/ IdleRefused
  BY <1>1 DEF Sleep, Slept, IdleRefused, Released, ServerKnown, NothingUnread, IdleAnswered,
              ToldKnown
<1>2. CASE SendIdle
  BY <1>2, SendIdleSession
<1>3. CASE ReadFirst
  BY <1>3, ReadFirstSession
<1>4. CASE Notified \/ IdleTimesOut
  <2>1. /\ pc = "idleWait" /\ pc' = "idleDone"
        /\ UNCHANGED <<setting, server, session, dead, drops, seen, known>>
    BY <1>4 DEF Notified, IdleTimesOut
  <2> QED
    BY <2>1 DEF Released, ServerKnown, NothingUnread, IdleAnswered, ToldKnown
<1>5. CASE IdleLost
  <2>1. CASE Closed
    BY <1>5, <2>1, ClosedSession DEF IdleLost
  <2>2. CASE UNCHANGED <<server, link>>
    BY <1>5, <2>2 DEF IdleLost, Released, ServerKnown, NothingUnread, IdleAnswered, ToldKnown
  <2> QED
    BY <1>5, <2>1, <2>2 DEF IdleLost
<1>6. CASE SendDone
  <2>1. /\ pc = "idleDone" /\ pc' = "drain" /\ serverIdle' = FALSE
        /\ UNCHANGED <<setting, session, dead>>
    BY <1>6 DEF SendDone
  <2> QED
    BY <2>1 DEF Released, ServerKnown, NothingUnread, IdleAnswered, ToldKnown
<1>7. CASE Drain
  <2>1. /\ pc = "drain" /\ wire' = <<>> /\ buffer' = <<>>
        /\ pc' = "status" \/ (pc' = "idle" /\ "longInterval" \in quirks)
        /\ UNCHANGED <<setting, server, session, dead, drops, loop>>
    BY <1>7 DEF Drain, AfterIdle
  <2> QED
    BY <2>1 DEF Released, ServerKnown, NothingUnread, IdleAnswered, ToldKnown
<1>8. CASE DoneLost
  <2>1. CASE Closed /\ pc' = "backoff"
    BY <1>8, <2>1, ClosedSession DEF DoneLost
  <2>2. CASE AfterIdle /\ UNCHANGED <<server, link>>
    <3>1. /\ pc \in {"idleDone", "drain"} /\ dead /\ pc' \in {"status", "idle"}
          /\ UNCHANGED <<setting, loop, server, link>>
      BY <1>8, <2>2 DEF DoneLost, AfterIdle
    <3> QED
      BY <3>1 DEF Released, ServerKnown, NothingUnread, IdleAnswered, ToldKnown
  <2> QED
    BY <1>8, <2>1, <2>2 DEF DoneLost
<1> QED
  BY <1>1, <1>2, <1>3, <1>4, <1>5, <1>6, <1>7, <1>8 DEF Idle

LEMMA NextSession ==
    ASSUME TypeOK, SessionInv, [Next]_vars
    PROVE  SessionInv'
<1> USE DEF SessionInv, setting, server, link, loop
<1>1. CASE BackoffEnds
  BY <1>1 DEF BackoffEnds, Released, ServerKnown, NothingUnread, IdleAnswered, ToldKnown
<1>2. CASE UNCHANGED vars
  BY <1>2 DEF vars, Released, ServerKnown, NothingUnread, IdleAnswered, ToldKnown
<1> QED
  BY <1>1, <1>2, ServerSession, CommandSession, IdleSession DEF Next

(* A command that goes out on a working connection finds the server out of *)
(* IDLE and no line of an earlier exchange left to be read, whatever was   *)
(* lost or cut short before.  The exception is an IDLE that was given up   *)
(* because of an announcement before it was accepted: then the command is  *)
(* a poll's STATUS, and it finds the server in IDLE.                       *)
THEOREM CommandsInStep == Spec => []InStep
<1>1. SessionInv => InStep
  BY DEF SessionInv, Released, ServerKnown, NothingUnread, InStep, Commands
<1>2. TypeOK /\ SessionInv /\ [Next]_vars => SessionInv'
  BY NextSession
<1> QED
  BY <1>1, <1>2, InitSession, SessionTyped, PTL DEF Spec

(* Mail the checkpoint does not know ends a wait in IDLE on a working      *)
(* connection of a plain server.                                           *)
THEOREM MailWakes == Spec => []WakesUpWhenPlain
<1>1. TypeOK /\ SessionInv => WakesUpWhenPlain
  <2> SUFFICES ASSUME TypeOK, SessionInv, quirks \subseteq {"untaggedFirst"},
                      pc = "idleWait", ~dead, arrived > known
               PROVE  wire # <<>> \/ CanPush
    BY DEF WakesUpWhenPlain, WakesUp
  <2>1. serverIdle /\ session # "none" /\ session # "auth"
    BY DEF SessionInv, Released, ServerKnown, ToldKnown
  <2>2. session = "selected"
    BY <2>1 DEF TypeOK
  <2>3. told < arrived \/ wire # <<>>
    BY Sizes DEF SessionInv, ToldKnown
  <2> QED
    BY <2>1, <2>2, <2>3 DEF CanPush
<1>2. TypeOK /\ SessionInv /\ [Next]_vars => SessionInv'
  BY NextSession
<1> QED
  BY <1>1, <1>2, InitSession, SessionTyped, PTL DEF Spec

-----------------------------------------------------------------------------
(* Which backend serves, and what the other one holds open then.           *)

LEMMA OpenResultType ==
    ASSUME SourceOK
    PROVE  /\ OpenResult[1] \in {"none", "auth", "selected"}
           /\ OpenResult[2] \in BOOLEAN
           /\ OpenResult[2] => OpenResult[1] = "selected"
           /\ OpenResult[1] = "selected" /\ ~OpenResult[2] => primary = "partial"
<1>1. CASE conn = "stale"
  BY <1>1 DEF OpenResult
<1>2. CASE conn = "selected"
  BY <1>2 DEF OpenResult
<1>3. CASE conn \notin {"stale", "selected"}
  BY <1>3 DEF OpenResult, SourceOK, ServerModes
<1> QED
  BY <1>1, <1>2, <1>3

(* An operation that succeeds leaves the connection as it was, or opens it *)
(* with its mailbox selected.                                              *)
LEMMA OperationResultType ==
    ASSUME SourceOK, NEW operation
    PROVE  /\ OperationResult(operation)[1] \in {"none", "auth", "selected"}
           /\ OperationResult(operation)[2] =>
                 OperationResult(operation)[1] \in {conn, "selected"}
<1>1. CASE conn = "none"
  BY <1>1, OpenResultType DEF OperationResult
<1>2. CASE conn = "stale"
  BY <1>2 DEF OperationResult
<1>3. CASE conn = "auth" /\ operation = "fetch"
  BY <1>3 DEF OperationResult
<1>4. CASE conn \in {"auth", "selected"} /\ ~(conn = "auth" /\ operation = "fetch")
  BY <1>4 DEF OperationResult
<1> QED
  BY <1>1, <1>2, <1>3, <1>4 DEF SourceOK

(* What is left of the primary's connection when it serves, and when it is *)
(* about to be replaced.                                                   *)
FolderInv ==
    /\ active = "primary" => conn # "auth"
    /\ call = "degrade" => conn = "none"

LEMMA InitSource == SourceInit => SourceOK /\ FolderInv
BY DEF SourceInit, SourceOK, FolderInv, Operations

LEMMA ServersSource ==
    ASSUME SourceOK, FolderInv, PrimaryChanges \/ FallbackChanges \/ Tick
    PROVE  SourceOK' /\ FolderInv'
<1> USE DEF SourceOK, FolderInv, servers
<1>1. CASE PrimaryChanges
  BY <1>1 DEF PrimaryChanges, ServerModes
<1>2. CASE FallbackChanges
  BY <1>2 DEF FallbackChanges
<1>3. CASE Tick
  BY <1>3 DEF Tick
<1> QED
  BY <1>1, <1>2, <1>3

LEMMA OpenSource ==
    ASSUME SourceOK, FolderInv, Open
    PROVE  SourceOK' /\ FolderInv'
<1> USE OpenResultType DEF SourceOK, FolderInv, servers, Open, Operations
<1>1. CASE OpenResult[2]
  BY <1>1
<1>2. CASE ~OpenResult[2]
  BY <1>2
<1> QED
  BY <1>1, <1>2

LEMMA CallSource ==
    ASSUME SourceOK, FolderInv, CallPrimary \/ CallFallback
    PROVE  SourceOK' /\ FolderInv'
<1> USE DEF SourceOK, FolderInv, servers, Operations, Following
<1>1. CASE CallPrimary
  <2>1. CASE OperationResult(call)[2]
    BY <1>1, <2>1, OperationResultType DEF CallPrimary
  <2>2. CASE ~OperationResult(call)[2]
    BY <1>1, <2>2 DEF CallPrimary
  <2> QED
    BY <2>1, <2>2
<1>2. CASE CallFallback
  BY <1>2 DEF CallFallback
<1> QED
  BY <1>1, <1>2

LEMMA DegradeSource ==
    ASSUME SourceOK, FolderInv, Degrade
    PROVE  SourceOK' /\ FolderInv'
BY DEF SourceOK, FolderInv, servers, Operations, Degrade

LEMMA RecoverSource ==
    ASSUME SourceOK, FolderInv, MaybeRecover
    PROVE  SourceOK' /\ FolderInv'
<1> USE DEF SourceOK, FolderInv, servers, Operations, MaybeRecover
<1>1. CASE active = "fallback" /\ degradedAt = "elapsed"
  BY <1>1, OpenResultType
<1>2. CASE ~(active = "fallback" /\ degradedAt = "elapsed")
  BY <1>2
<1> QED
  BY <1>1, <1>2

LEMMA NextSource ==
    SourceOK /\ FolderInv /\ [SourceNext]_sourceVars => SourceOK' /\ FolderInv'
<1>1. ASSUME SourceOK, FolderInv, Backoff \/ Close \/ UNCHANGED sourceVars
      PROVE  SourceOK' /\ FolderInv'
  BY <1>1 DEF SourceOK, FolderInv, servers, Operations, Backoff,
              Close, sourceVars
<1> QED
  BY <1>1, ServersSource, OpenSource, CallSource, DegradeSource, RecoverSource
     DEF SourceNext, LoopNext

LEMMA SourceInvariance == Source => [](SourceOK /\ FolderInv)
BY InitSource, NextSource, PTL DEF Source

(* Every reachable state of the source and its backends is well typed.     *)
THEOREM SourceTyped == Source => []SourceOK
BY SourceInvariance, PTL

(* The calls that may change which backend serves, or select the mailbox.  *)
LEMMA OpenHandsOver ==
    ASSUME SourceOK, FolderInv, Open \/ MaybeRecover
    PROVE  Handover
<1>1. CASE Open
  <2>1. CASE OpenResult[2]
    BY <1>1, <2>1, OpenResultType DEF Open, Handover
  <2>2. CASE ~OpenResult[2]
    BY <1>1, <2>2 DEF Open, Handover, FolderInv
  <2> QED
    BY <2>1, <2>2
<1>2. CASE MaybeRecover
  <2>1. CASE active = "fallback" /\ degradedAt = "elapsed" /\ OpenResult[2]
    BY <1>2, <2>1, OpenResultType DEF MaybeRecover, Handover
  <2>2. CASE active = "fallback" /\ degradedAt = "elapsed" /\ ~OpenResult[2]
    BY <1>2, <2>2, OpenResultType DEF MaybeRecover, Handover
  <2>3. CASE ~(active = "fallback" /\ degradedAt = "elapsed")
    BY <1>2, <2>3 DEF MaybeRecover, Handover, FolderInv
  <2> QED
    BY <2>1, <2>2, <2>3
<1> QED
  BY <1>1, <1>2

LEMMA CallHandsOver ==
    ASSUME SourceOK, FolderInv, CallPrimary \/ CallFallback \/ Degrade
    PROVE  Handover
<1>1. CASE CallPrimary
  <2>1. CASE OperationResult(call)[2]
    BY <1>1, <2>1, OperationResultType DEF CallPrimary, Handover, FolderInv
  <2>2. CASE ~OperationResult(call)[2]
    BY <1>1, <2>2 DEF CallPrimary, Handover
  <2> QED
    BY <2>1, <2>2
<1>2. CASE CallFallback
  BY <1>2 DEF CallFallback, Handover, FolderInv
<1>3. CASE Degrade
  BY <1>3 DEF Degrade, Handover, FolderInv
<1> QED
  BY <1>1, <1>2, <1>3

LEMMA StepHandsOver == SourceOK /\ FolderInv /\ [SourceNext]_sourceVars => [Handover]_sourceVars
<1>1. ASSUME SourceOK, FolderInv, PrimaryChanges PROVE Handover
  BY <1>1 DEF PrimaryChanges, Handover, FolderInv
<1>2. ASSUME SourceOK, FolderInv, FallbackChanges \/ Tick \/ Backoff \/ Close PROVE Handover
  BY <1>2 DEF FallbackChanges, Tick, Backoff, Close, Handover, FolderInv
<1> QED
  BY <1>1, <1>2, OpenHandsOver, CallHandsOver DEF SourceNext, LoopNext

(* Whatever the servers do and in whatever call it shows, the primary is   *)
(* closed before the fallback serves and serves again only with its mailbox*)
(* selected; beside the fallback it becomes selected in one way only, by a *)
(* retry whose SELECT is accepted and whose STATUS is refused.             *)
THEOREM FolderHandover == Source => FolderHandedOver
BY SourceInvariance, StepHandsOver, PTL DEF Source, FolderHandedOver
=============================================================================
