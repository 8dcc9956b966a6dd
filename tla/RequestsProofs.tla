---------------------------- MODULE RequestsProofs ---------------------------
(***************************************************************************)
(* Theorems about Requests, for any number of repeats, attachments and     *)
(* sessions.                                                               *)
(***************************************************************************)
EXTENDS Requests, TLAPS

(* Sessions are numbered in the order in which the server makes them. *)
Numbered == /\ {info, token, leaving} \subseteq 0 .. handedOut
            /\ pc = "store" => token = handedOut
            /\ closing = "logout" => leaving # None

(* A request that is repeated after it may have been carried out is a read;*)
(* the attempt that the session refused was not carried out.               *)
Counted ==
    /\ pc # "idle" => outcome = "none"
    /\ kind # "read" => executed <= 1 /\ (pc # "idle" => executed = 0)
    /\ pc \notin {"request", "idle"} => executed <= (IF retried THEN Retries ELSE 0)
    /\ pc = "request" => /\ sent >= 1
                         /\ executed <= (IF retried THEN Retries ELSE 0) + sent - 1

FilesInv == FilesClosed /\ (pc = "files" => kind = "send")

(* A late call finds the transport closed: it neither sends nor logs in.   *)
LateInv ==
    /\ closing \in {"flag", "returned"} => closed
    /\ late => closing = "returned" /\ pc \notin OnTheWire \cup {"store"} /\ outcome # "ok"

(* What a worker knows of the client's session at each step of a call that *)
(* renews it.                                                              *)
Renewing == {"ensure", "refresh", "login", "loginRequest", "store"}

WorkerInv ==
    /\ pc \in Renewing => wrapped
    /\ pc \in {"check", "request"} => info \in {token, None}
    /\ pc \in {"login", "loginRequest", "store"} => info = None
    /\ pc = "refresh" => info \notin alive

(* Unless a renewal runs during close, the server holds no session but the *)
(* client's own, that which is about to become so, and the unanswered ones.*)
Held == unanswered \cup {info} \cup (IF pc = "store" THEN {token} ELSE {})

CloserInv ==
    /\ closing = "no" => ~overlap /\ leaving = None
    /\ closing \in {"clear", "shut", "flag", "returned"} => leaving \notin alive \ unanswered
    /\ ~overlap => alive \subseteq Held
    /\ ~overlap /\ closing # "no" /\ wrapped /\ pc # "idle" => late
    /\ ~overlap /\ closing \in {"logout", "clear"} => info \in {leaving, None}
    /\ ~overlap /\ closing \in {"shut", "flag", "returned"} /\ leaving # None => info = None

-----------------------------------------------------------------------------
LEMMA Bounds == Retries \in Nat /\ MaxFiles \in Nat /\ MaxLogins \in Nat
  BY RequestsAssumption

LEMMA InitInv ==
    Init => /\ TypeOK /\ Numbered /\ Counted /\ OutcomeKnown
            /\ FilesInv /\ LateInv /\ WorkerInv /\ CloserInv
<1> USE Bounds DEF Init, None, Session, Kinds, OnTheWire
<1>1. Init => CallOK
  BY DEF CallOK
<1>2. Init => CountsOK
  BY DEF CountsOK
<1>3. Init => SessionOK
  <2>1. Init => alive \subseteq 1 .. handedOut /\ unanswered \subseteq 1 .. handedOut
    OBVIOUS
  <2>2. Init => token = None /\ info = None /\ leaving = None /\ handedOut \in 0 .. MaxLogins
    OBVIOUS
  <2> QED
    BY <2>1, <2>2 DEF SessionOK
<1>4. Init => Counted /\ Numbered
  BY DEF Counted, Numbered
<1>5. Init => OutcomeKnown /\ FilesInv /\ LateInv
  BY DEF OutcomeKnown, Unsaid, FilesInv, FilesClosed, LateInv
<1>6. Init => WorkerInv /\ CloserInv
  BY DEF WorkerInv, Renewing, CloserInv, Held
<1> QED
  BY <1>1, <1>2, <1>3, <1>4, <1>5, <1>6 DEF TypeOK

LEMMA NextCallOK ==
    ASSUME CallOK, [Next]_vars
    PROVE  CallOK'
<1> USE Bounds DEF CallOK, None, Session, Kinds, OnTheWire,
    call, progress, wire, closer, server
<1>1. CASE Begin
  BY <1>1 DEF Begin, Operation
<1>2. CASE Expire
  BY <1>2 DEF Expire
<1>3. CASE Ensure
  BY <1>3 DEF Ensure, Operation
<1>4. CASE OpenFiles
  BY <1>4 DEF OpenFiles, End
<1>5. CASE ReadToken
  BY <1>5 DEF ReadToken, SessionError, End
<1>6. CASE Check
  BY <1>6 DEF Check, End
<1>7. CASE Request
  BY <1>7 DEF Request, NotReached, AnswerLost, ErrorStatus, Page, Answered,
     Fail, End, Again, Left, Repeatable, MayExecute, NotJson, SessionError
<1>8. CASE Refresh
  BY <1>8 DEF Refresh
<1>9. CASE Login
  BY <1>9 DEF Login, End
<1>10. CASE LoginAnswered
  BY <1>10 DEF LoginAnswered, NewSession, End
<1>11. CASE Store
  BY <1>11 DEF Store, Operation
<1>12. CASE Close \/ Closing
  BY <1>12 DEF Closing, Close, Logout, Clear, Shut
<1>13. CASE UNCHANGED vars
  BY <1>13 DEF vars
<1> QED
  BY <1>1, <1>2, <1>3, <1>4, <1>5, <1>6, <1>7, <1>8, <1>9, <1>10, <1>11,
     <1>12, <1>13 DEF Next, Call, Request, Closing

LEMMA NextCountsOK ==
    ASSUME CallOK, CountsOK, Counted, FilesClosed, [Next]_vars
    PROVE  CountsOK'
<1> USE Bounds DEF CallOK, CountsOK, Counted, FilesClosed, None, Session, Kinds, OnTheWire,
    call, progress, wire, closer, server
<1>1. CASE Begin
  BY <1>1 DEF Begin, Operation
<1>2. CASE Expire
  BY <1>2 DEF Expire
<1>3. CASE Ensure
  BY <1>3 DEF Ensure, Operation
<1>4. CASE OpenFiles
  BY <1>4 DEF OpenFiles, End
<1>5. CASE ReadToken
  BY <1>5 DEF ReadToken, SessionError, End
<1>6. CASE Check
  BY <1>6 DEF Check, End
<1>7. CASE NotReached
  BY <1>7 DEF NotReached, Fail, End, Again, Left
<1>8. CASE AnswerLost
  BY <1>8 DEF AnswerLost, Fail, End, Again, Left, Repeatable, MayExecute
<1>9. CASE ErrorStatus
  BY <1>9 DEF ErrorStatus, Fail, End, Again, Left, Repeatable, MayExecute
<1>10. CASE Page
  BY <1>10 DEF Page, Fail, End, MayExecute, NotJson
<1>11. CASE Answered
  BY <1>11 DEF Answered, SessionError, End
<1>12. CASE Refresh
  BY <1>12 DEF Refresh
<1>13. CASE Login
  BY <1>13 DEF Login, End
<1>14. CASE LoginAnswered
  BY <1>14 DEF LoginAnswered, NewSession, End
<1>15. CASE Store
  BY <1>15 DEF Store, Operation
<1>16. CASE Close \/ Closing
  BY <1>16 DEF Closing, Close, Logout, Clear, Shut
<1>17. CASE UNCHANGED vars
  BY <1>17 DEF vars
<1> QED
  BY <1>1, <1>2, <1>3, <1>4, <1>5, <1>6, <1>7, <1>8, <1>9, <1>10, <1>11,
     <1>12, <1>13, <1>14, <1>15, <1>16, <1>17 DEF Next, Call, Request, Closing

LEMMA NextSessionOK ==
    ASSUME CallOK, SessionOK, Numbered, [Next]_vars
    PROVE  SessionOK'
<1> USE Bounds DEF CallOK, SessionOK, Numbered, None, Session, Kinds, OnTheWire,
    call, progress, wire, closer, server
<1>1. CASE Begin
  BY <1>1 DEF Begin, Operation
<1>2. CASE Expire
  BY <1>2 DEF Expire
<1>3. CASE Ensure
  BY <1>3 DEF Ensure, Operation
<1>4. CASE OpenFiles
  BY <1>4 DEF OpenFiles, End
<1>5. CASE ReadToken
  BY <1>5 DEF ReadToken, SessionError, End
<1>6. CASE Check
  BY <1>6 DEF Check, End
<1>7. CASE Request
  BY <1>7 DEF Request, NotReached, AnswerLost, ErrorStatus, Page, Answered,
     Fail, End, Again, Left, Repeatable, MayExecute, NotJson, SessionError
<1>8. CASE Refresh
  BY <1>8 DEF Refresh
<1>9. CASE Login
  BY <1>9 DEF Login, End
<1>10. CASE LoginAnswered
  <2>1. CASE NewSession
    <3>1. handedOut' = handedOut + 1 /\ alive' = alive \cup {handedOut'}
      BY <2>1 DEF NewSession
    <3>2. handedOut' \in 0 .. MaxLogins /\ handedOut' \in Session
      BY <2>1 DEF NewSession, SessionOK
    <3>3. alive' \subseteq 1 .. handedOut' /\ unanswered' \subseteq 1 .. handedOut'
      <4>1. 1 .. handedOut \subseteq 1 .. handedOut' /\ handedOut' \in 1 .. handedOut'
        BY <3>1
      <4>2. unanswered' \subseteq unanswered \cup {handedOut'}
        BY <1>10 DEF LoginAnswered
      <4> QED
        BY <3>1, <4>1, <4>2
    <3> QED
      BY <1>10, <3>1, <3>2, <3>3 DEF LoginAnswered, End
  <2>2. CASE UNCHANGED server /\ End("login")
    BY <1>10, <2>2 DEF LoginAnswered, End
  <2> QED
    BY <1>10, <2>1, <2>2 DEF LoginAnswered
<1>11. CASE Store
  BY <1>11 DEF Store, Operation
<1>12. CASE Close
  BY <1>12 DEF Close
<1>13. CASE Logout
  <2>1. leaving \in 1 .. handedOut
    BY <1>13 DEF Logout
  <2>2. alive' \subseteq alive /\ unanswered' \subseteq unanswered \cup {leaving}
    BY <1>13 DEF Logout
  <2>3. alive' \subseteq 1 .. handedOut' /\ unanswered' \subseteq 1 .. handedOut'
    BY <1>13, <2>1, <2>2 DEF Logout
  <2> QED
    BY <1>13, <2>3 DEF Logout
<1>14. CASE Clear
  BY <1>14 DEF Clear
<1>15. CASE Shut
  BY <1>15 DEF Shut
<1>16. CASE UNCHANGED vars
  BY <1>16 DEF vars
<1> QED
  BY <1>1, <1>2, <1>3, <1>4, <1>5, <1>6, <1>7, <1>8, <1>9, <1>10, <1>11,
     <1>12, <1>13, <1>14, <1>15, <1>16 DEF Next, Call, Request, Closing

LEMMA NextNumbered ==
    ASSUME TypeOK, Numbered, [Next]_vars
    PROVE  Numbered'
<1> USE Bounds DEF TypeOK, CallOK, SessionOK, Numbered, None, Session, Kinds, OnTheWire,
    call, progress, wire, closer, server
<1>1. CASE Begin
  BY <1>1 DEF Begin, Operation
<1>2. CASE Expire
  BY <1>2 DEF Expire
<1>3. CASE Ensure
  BY <1>3 DEF Ensure, Operation
<1>4. CASE OpenFiles
  BY <1>4 DEF OpenFiles, End
<1>5. CASE ReadToken
  BY <1>5 DEF ReadToken, SessionError, End
<1>6. CASE Check
  BY <1>6 DEF Check, End
<1>7. CASE Request
  BY <1>7 DEF Request, NotReached, AnswerLost, ErrorStatus, Page, Answered,
     Fail, End, Again, Left, Repeatable, MayExecute, NotJson, SessionError
<1>8. CASE Refresh
  BY <1>8 DEF Refresh
<1>9. CASE Login
  BY <1>9 DEF Login, End
<1>10. CASE LoginAnswered
  BY <1>10 DEF LoginAnswered, NewSession, End
<1>11. CASE Store
  BY <1>11 DEF Store, Operation
<1>12. CASE Close \/ Closing
  BY <1>12 DEF Closing, Close, Logout, Clear, Shut
<1>13. CASE UNCHANGED vars
  BY <1>13 DEF vars
<1> QED
  BY <1>1, <1>2, <1>3, <1>4, <1>5, <1>6, <1>7, <1>8, <1>9, <1>10, <1>11,
     <1>12, <1>13 DEF Next, Call, Request, Closing

LEMMA NextCounted ==
    ASSUME TypeOK, Counted, [Next]_vars
    PROVE  Counted'
<1> USE Bounds DEF TypeOK, CallOK, CountsOK, SessionOK, Counted, None, Session, Kinds, OnTheWire,
    call, progress, wire, closer, server
<1>1. CASE Begin
  BY <1>1 DEF Begin, Operation
<1>2. CASE Expire
  BY <1>2 DEF Expire
<1>3. CASE Ensure
  BY <1>3 DEF Ensure, Operation
<1>4. CASE OpenFiles
  BY <1>4 DEF OpenFiles, End
<1>5. CASE ReadToken
  BY <1>5 DEF ReadToken, SessionError, End
<1>6. CASE Check
  BY <1>6 DEF Check, End
<1>7. CASE NotReached
  BY <1>7 DEF NotReached, Fail, End, Again, Left
<1>8. CASE AnswerLost
  BY <1>8 DEF AnswerLost, Fail, End, Again, Left, Repeatable, MayExecute
<1>9. CASE ErrorStatus
  BY <1>9 DEF ErrorStatus, Fail, End, Again, Left, Repeatable, MayExecute
<1>10. CASE Page
  BY <1>10 DEF Page, Fail, End, MayExecute, NotJson
<1>11. CASE Answered
  BY <1>11 DEF Answered, SessionError, End
<1>12. CASE Refresh
  BY <1>12 DEF Refresh
<1>13. CASE Login
  BY <1>13 DEF Login, End
<1>14. CASE LoginAnswered
  BY <1>14 DEF LoginAnswered, NewSession, End
<1>15. CASE Store
  BY <1>15 DEF Store, Operation
<1>16. CASE Close \/ Closing
  BY <1>16 DEF Closing, Close, Logout, Clear, Shut
<1>17. CASE UNCHANGED vars
  BY <1>17 DEF vars
<1> QED
  BY <1>1, <1>2, <1>3, <1>4, <1>5, <1>6, <1>7, <1>8, <1>9, <1>10, <1>11,
     <1>12, <1>13, <1>14, <1>15, <1>16, <1>17 DEF Next, Call, Request, Closing

LEMMA NextOutcome ==
    ASSUME TypeOK, Counted, OutcomeKnown, [Next]_vars
    PROVE  OutcomeKnown'
<1> USE Bounds DEF TypeOK, CallOK, CountsOK, SessionOK, Counted, OutcomeKnown, Unsaid, None,
    Session, Kinds, OnTheWire, call, progress, wire, closer, server
<1>1. CASE Begin
  BY <1>1 DEF Begin, Operation
<1>2. CASE Expire
  BY <1>2 DEF Expire
<1>3. CASE Ensure
  BY <1>3 DEF Ensure, Operation
<1>4. CASE OpenFiles
  BY <1>4 DEF OpenFiles, End
<1>5. CASE ReadToken
  BY <1>5 DEF ReadToken, SessionError, End
<1>6. CASE Check
  BY <1>6 DEF Check, End
<1>7. CASE NotReached
  BY <1>7 DEF NotReached, Fail, End, Again, Left
<1>8. CASE AnswerLost
  BY <1>8 DEF AnswerLost, Fail, End, Again, Left, Repeatable, MayExecute
<1>9. CASE ErrorStatus
  BY <1>9 DEF ErrorStatus, Fail, End, Again, Left, Repeatable, MayExecute
<1>10. CASE Page
  BY <1>10 DEF Page, Fail, End, MayExecute, NotJson
<1>11. CASE Answered
  BY <1>11 DEF Answered, SessionError, End
<1>12. CASE Refresh
  BY <1>12 DEF Refresh
<1>13. CASE Login
  BY <1>13 DEF Login, End
<1>14. CASE LoginAnswered
  BY <1>14 DEF LoginAnswered, NewSession, End
<1>15. CASE Store
  BY <1>15 DEF Store, Operation
<1>16. CASE Close \/ Closing
  BY <1>16 DEF Closing, Close, Logout, Clear, Shut
<1>17. CASE UNCHANGED vars
  BY <1>17 DEF vars
<1> QED
  BY <1>1, <1>2, <1>3, <1>4, <1>5, <1>6, <1>7, <1>8, <1>9, <1>10, <1>11,
     <1>12, <1>13, <1>14, <1>15, <1>16, <1>17 DEF Next, Call, Request, Closing

LEMMA NextFiles ==
    ASSUME TypeOK, FilesInv, [Next]_vars
    PROVE  FilesInv'
<1> USE Bounds DEF TypeOK, CallOK, CountsOK, FilesInv, FilesClosed, None, Session, Kinds, OnTheWire,
    call, progress, wire, closer, server
<1>1. CASE Begin
  BY <1>1 DEF Begin, Operation
<1>2. CASE Expire
  BY <1>2 DEF Expire
<1>3. CASE Ensure
  BY <1>3 DEF Ensure, Operation
<1>4. CASE OpenFiles
  BY <1>4 DEF OpenFiles, End
<1>5. CASE ReadToken
  BY <1>5 DEF ReadToken, SessionError, End
<1>6. CASE Check
  BY <1>6 DEF Check, End
<1>7. CASE Request
  BY <1>7 DEF Request, NotReached, AnswerLost, ErrorStatus, Page, Answered,
     Fail, End, Again, Left, Repeatable, MayExecute, NotJson, SessionError
<1>8. CASE Refresh
  BY <1>8 DEF Refresh
<1>9. CASE Login
  BY <1>9 DEF Login, End
<1>10. CASE LoginAnswered
  BY <1>10 DEF LoginAnswered, NewSession, End
<1>11. CASE Store
  BY <1>11 DEF Store, Operation
<1>12. CASE Close \/ Closing
  BY <1>12 DEF Closing, Close, Logout, Clear, Shut
<1>13. CASE UNCHANGED vars
  BY <1>13 DEF vars
<1> QED
  BY <1>1, <1>2, <1>3, <1>4, <1>5, <1>6, <1>7, <1>8, <1>9, <1>10, <1>11,
     <1>12, <1>13 DEF Next, Call, Request, Closing

LEMMA NextLate ==
    ASSUME TypeOK, LateInv, [Next]_vars
    PROVE  LateInv'
<1> USE Bounds DEF TypeOK, CallOK, SessionOK, LateInv, None, Session, Kinds, OnTheWire,
    call, progress, wire, closer, server
<1>1. CASE Begin
  BY <1>1 DEF Begin, Operation
<1>2. CASE Expire
  BY <1>2 DEF Expire
<1>3. CASE Ensure
  BY <1>3 DEF Ensure, Operation
<1>4. CASE OpenFiles
  BY <1>4 DEF OpenFiles, End
<1>5. CASE ReadToken
  BY <1>5 DEF ReadToken, SessionError, End
<1>6. CASE Check
  BY <1>6 DEF Check, End
<1>7. CASE Request
  BY <1>7 DEF Request, NotReached, AnswerLost, ErrorStatus, Page, Answered,
     Fail, End, Again, Left, Repeatable, MayExecute, NotJson, SessionError
<1>8. CASE Refresh
  BY <1>8 DEF Refresh
<1>9. CASE Login
  BY <1>9 DEF Login, End
<1>10. CASE LoginAnswered
  BY <1>10 DEF LoginAnswered, NewSession, End
<1>11. CASE Store
  BY <1>11 DEF Store, Operation
<1>12. CASE Close \/ Closing
  BY <1>12 DEF Closing, Close, Logout, Clear, Shut
<1>13. CASE UNCHANGED vars
  BY <1>13 DEF vars
<1> QED
  BY <1>1, <1>2, <1>3, <1>4, <1>5, <1>6, <1>7, <1>8, <1>9, <1>10, <1>11,
     <1>12, <1>13 DEF Next, Call, Request, Closing

LEMMA NextWorker ==
    ASSUME TypeOK, Numbered, WorkerInv, [Next]_vars
    PROVE  WorkerInv'
<1> USE Bounds DEF TypeOK, CallOK, SessionOK, Numbered, WorkerInv, Renewing, None, Session, Kinds, OnTheWire,
    call, progress, wire, closer, server
<1>1. CASE Begin
  BY <1>1 DEF Begin, Operation
<1>2. CASE Expire
  BY <1>2 DEF Expire
<1>3. CASE Ensure
  BY <1>3 DEF Ensure, Operation
<1>4. CASE OpenFiles
  BY <1>4 DEF OpenFiles, End
<1>5. CASE ReadToken
  BY <1>5 DEF ReadToken, SessionError, End
<1>6. CASE Check
  BY <1>6 DEF Check, End
<1>7. CASE Request
  BY <1>7 DEF Request, NotReached, AnswerLost, ErrorStatus, Page, Answered,
     Fail, End, Again, Left, Repeatable, MayExecute, NotJson, SessionError
<1>8. CASE Refresh
  BY <1>8 DEF Refresh
<1>9. CASE Login
  BY <1>9 DEF Login, End
<1>10. CASE LoginAnswered
  BY <1>10 DEF LoginAnswered, NewSession, End
<1>11. CASE Store
  BY <1>11 DEF Store, Operation
<1>12. CASE Close \/ Closing
  BY <1>12 DEF Closing, Close, Logout, Clear, Shut
<1>13. CASE UNCHANGED vars
  BY <1>13 DEF vars
<1> QED
  BY <1>1, <1>2, <1>3, <1>4, <1>5, <1>6, <1>7, <1>8, <1>9, <1>10, <1>11,
     <1>12, <1>13 DEF Next, Call, Request, Closing

LEMMA NextCloser ==
    ASSUME TypeOK, Numbered, LateInv, WorkerInv, CloserInv, [Next]_vars
    PROVE  CloserInv'
<1> USE Bounds DEF TypeOK, CallOK, SessionOK, Numbered, LateInv, WorkerInv, Renewing, CloserInv, Held, None, Session, Kinds, OnTheWire,
    call, progress, wire, closer, server
<1>1. CASE Begin
  BY <1>1 DEF Begin, Operation
<1>2. CASE Expire
  BY <1>2 DEF Expire
<1>3. CASE Ensure
  BY <1>3 DEF Ensure, Operation
<1>4. CASE OpenFiles
  BY <1>4 DEF OpenFiles, End
<1>5. CASE ReadToken
  BY <1>5 DEF ReadToken, SessionError, End
<1>6. CASE Check
  BY <1>6 DEF Check, End
<1>7. CASE NotReached
  BY <1>7 DEF NotReached, Fail, End, Again, Left
<1>8. CASE AnswerLost
  BY <1>8 DEF AnswerLost, Fail, End, Again, Left, Repeatable, MayExecute
<1>9. CASE ErrorStatus
  BY <1>9 DEF ErrorStatus, Fail, End, Again, Left, Repeatable, MayExecute
<1>10. CASE Page
  BY <1>10 DEF Page, Fail, End, MayExecute, NotJson
<1>11. CASE Answered
  BY <1>11 DEF Answered, SessionError, End
<1>12. CASE Refresh
  BY <1>12 DEF Refresh
<1>13. CASE Login
  BY <1>13 DEF Login, End
<1>14. CASE LoginAnswered
  <2>0. leaving # handedOut + 1 /\ leaving \in Nat
    OBVIOUS
  <2>1. CASE NewSession /\ pc' = "store" /\ token' = handedOut' /\ unanswered' = unanswered
    BY <1>14, <2>0, <2>1 DEF LoginAnswered, NewSession
  <2>2. CASE NewSession /\ unanswered' = unanswered \cup {handedOut'} /\ End("login")
    BY <1>14, <2>0, <2>2 DEF LoginAnswered, NewSession, End
  <2>3. CASE UNCHANGED server /\ End("login")
    BY <1>14, <2>3 DEF LoginAnswered, End
  <2> QED
    BY <1>14, <2>1, <2>2, <2>3 DEF LoginAnswered
<1>15. CASE Store
  BY <1>15 DEF Store, Operation
<1>16. CASE Close
  BY <1>16 DEF Close
<1>17. CASE Logout
  BY <1>17 DEF Logout
<1>18. CASE Clear
  BY <1>18 DEF Clear
<1>19. CASE Shut
  BY <1>19 DEF Shut
<1>20. CASE UNCHANGED vars
  BY <1>20 DEF vars
<1> QED
  BY <1>1, <1>2, <1>3, <1>4, <1>5, <1>6, <1>7, <1>8, <1>9, <1>10, <1>11,
     <1>12, <1>13, <1>14, <1>15, <1>16, <1>17, <1>18, <1>19, <1>20 DEF Next,
     Call, Request, Closing

-----------------------------------------------------------------------------
Invariant ==
    /\ TypeOK /\ Numbered /\ Counted /\ OutcomeKnown
    /\ FilesInv /\ LateInv /\ WorkerInv /\ CloserInv

LEMMA Invariance == Spec => []Invariant
<1>1. Init => Invariant
  BY InitInv DEF Invariant
<1>2. Invariant /\ [Next]_vars => Invariant'
  <2> SUFFICES ASSUME Invariant, [Next]_vars PROVE Invariant'
    OBVIOUS
  <2>1. TypeOK'
    BY NextCallOK, NextCountsOK, NextSessionOK DEF Invariant, TypeOK, FilesInv
  <2>2. Numbered' /\ Counted' /\ OutcomeKnown' /\ FilesInv'
    BY NextNumbered, NextCounted, NextOutcome, NextFiles DEF Invariant
  <2>3. LateInv' /\ WorkerInv' /\ CloserInv'
    BY NextLate, NextWorker, NextCloser DEF Invariant
  <2> QED
    BY <2>1, <2>2, <2>3 DEF Invariant
<1> QED
  BY <1>1, <1>2, PTL DEF Spec

(* Every reachable state of the calls, and of close, is well typed. *)
THEOREM CallsTyped == Spec => []TypeOK
<1>1. Invariant => TypeOK
  BY DEF Invariant
<1> QED
  BY <1>1, Invariance, PTL

(* The server carries out a send or a list at most once, however often the *)
(* adapter and the re-login repeat requests.                               *)
THEOREM NothingSentTwice == Spec => []SentOnce
<1>1. Invariant => SentOnce
  BY DEF Invariant, Counted, SentOnce
<1> QED
  BY <1>1, Invariance, PTL

(* What the caller is told of a call is what became of it, but for the     *)
(* outcomes that say nothing: TransportError, an error status and, where   *)
(* pages are not all Open-Xchange's JSON, InvalidResponseError and the "ok"*)
(* of a send.                                                              *)
THEOREM OutcomesKnown == Spec => []OutcomeKnown
<1>1. Invariant => OutcomeKnown
  BY DEF Invariant
<1> QED
  BY <1>1, Invariance, PTL

(* No attachment stays open behind a call or through a re-login. *)
THEOREM NoFileLeftOpen == Spec => []FilesClosed
<1>1. Invariant => FilesClosed
  BY DEF Invariant, FilesInv
<1> QED
  BY <1>1, Invariance, PTL

(* A call that begins after close has returned reaches no server. *)
THEOREM ClosedForCalls == Spec => []ClosedMeansClosed
<1>1. Invariant => ClosedMeansClosed
  BY DEF Invariant, LateInv, ClosedMeansClosed
<1> QED
  BY <1>1, Invariance, PTL

(* close(logout=True) leaves no session behind, unless a renewal runs, or  *)
(* an answer is lost.                                                      *)
THEOREM LoggedOut == Spec => []NoSessionLeft
<1>1. Invariant => NoSessionLeft
  <2> SUFFICES ASSUME Invariant, closing = "returned", leaving # None, ~overlap
               PROVE  alive \subseteq unanswered
    BY DEF NoSessionLeft
  <2>1. info = None /\ alive \subseteq Held
    BY DEF Invariant, CloserInv
  <2>2. pc # "store"
    BY DEF Invariant, CloserInv, WorkerInv, LateInv, Renewing
  <2>3. None \notin alive
    BY DEF Invariant, TypeOK, SessionOK, None
  <2> QED
    BY <2>1, <2>2, <2>3 DEF Held
<1> QED
  BY <1>1, Invariance, PTL
=============================================================================
