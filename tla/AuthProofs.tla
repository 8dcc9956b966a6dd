------------------------------ MODULE AuthProofs ------------------------------
(***************************************************************************)
(* Theorems about Auth, for any threads and any number of sessions.        *)
(***************************************************************************)
EXTENDS Auth, FiniteSetTheorems, TLAPS

LEMMA InitTyped == Init => TypeOK
  BY SessionsAssumption DEF Init, TypeOK, None, Session, Steps, Calls

LEMMA ThreadTyped ==
    ASSUME TypeOK, NEW t \in Threads, Thread(t)
    PROVE  TypeOK'
<1> USE SessionsAssumption
    DEF TypeOK, None, Session, Steps, Calls, service, server, local, observed, Goto, End
<1>1. CASE Operation(t) \/ EnsureCall(t) \/ RefreshCall(t) \/ LogoutCall(t)
  BY <1>1 DEF Operation, EnsureCall, RefreshCall, LogoutCall, Begin
<1>2. CASE LoginCall(t)
  BY <1>2 DEF LoginCall, Begin
<1>3. CASE ClearCall(t)
  BY <1>3 DEF ClearCall, Drop
<1>4. CASE GuardCall(t)
  BY <1>4 DEF GuardCall
<1>5. CASE Ensure(t)
  BY <1>5 DEF Ensure
<1>6. CASE ReadToken(t)
  BY <1>6 DEF ReadToken, SessionError
<1>7. CASE Request(t) \/ RequestFails(t)
  BY <1>7 DEF Request, RequestFails, SessionError
<1>8. CASE Refresh(t)
  BY <1>8 DEF Refresh, Drop
<1>9. CASE Login(t)
  BY <1>9 DEF Login
<1>10. CASE LoginFails(t)
  <2>1. alive' \subseteq Session /\ handedOut' \in 0 .. MaxLogins /\ unanswered' \subseteq Session
    <3>1. CASE UNCHANGED <<alive, handedOut, unanswered>>
      BY <3>1
    <3>2. CASE handedOut < MaxLogins /\ handedOut' = handedOut + 1
               /\ alive' = alive \cup {handedOut'} /\ unanswered' = unanswered \cup {handedOut'}
      <4>1. handedOut' \in Session /\ handedOut' \in 0 .. MaxLogins
        BY <3>2
      <4> QED
        BY <3>2, <4>1
    <3> QED
      BY <1>10, <3>1, <3>2 DEF LoginFails
  <2>2. /\ pc' = [pc EXCEPT ![t] = "idle"] /\ call' = [call EXCEPT ![t] = "none"]
        /\ own' = [own EXCEPT ![t] = None] /\ guarding' = [guarding EXCEPT ![t] = FALSE]
        /\ UNCHANGED <<active, info, oxguard, jar, tok, rejected, expired, ready, dropped>>
    BY <1>10 DEF LoginFails
  <2>3. oxguard' \in BOOLEAN /\ guarding' \in [Threads -> BOOLEAN]
    BY <2>2, Zenon
  <2>4. /\ pc' \in [Threads -> Steps] /\ call' \in [Threads -> Calls]
        /\ own' \in [Threads -> Session \cup {None}]
        /\ \A u \in Threads : pc'[u] = "request" => pc[u] = "request"
        /\ \A u \in Threads : pc'[u] = "store" => pc[u] = "store" /\ own'[u] = own[u]
    BY <2>2
  <2> QED
    BY <2>1, <2>2, <2>3, <2>4
<1>11. CASE Store(t)
  <2>1. info' \in Session \cup {None} /\ guarding' \in [Threads -> BOOLEAN]
    BY <1>11 DEF Store
  <2>2. dropped' \in SUBSET Session
    BY <1>11 DEF Store, Drop
  <2>3. /\ pc' \in [Threads -> Steps] /\ call' \in [Threads -> Calls]
        /\ rejected' = rejected /\ own' \in [Threads -> Session \cup {None}]
        /\ \A u \in Threads : pc'[u] = "request" => pc[u] = "request"
        /\ \A u \in Threads : pc'[u] = "store" => pc[u] = "store" /\ own'[u] = own[u]
    BY <1>11 DEF Store, LoggedIn
  <2>4. ready' \in SUBSET Session
    BY <1>11 DEF Store
  <2> QED
    BY <1>11, <2>1, <2>2, <2>3, <2>4 DEF Store
<1>12. CASE Guard(t)
  BY <1>12 DEF Guard, Accepts, LoggedIn
<1>13. CASE Logout(t) \/ Clear(t)
  BY <1>13 DEF Logout, Clear
<1> QED
  BY <1>1, <1>2, <1>3, <1>4, <1>5, <1>6, <1>7, <1>8, <1>9, <1>10, <1>11,
     <1>12, <1>13 DEF Thread, DirectCall

LEMMA ExpireTyped == TypeOK /\ Expire => TypeOK'
  BY DEF TypeOK, Expire, local, service

(* Every reachable state of the service and its threads is well typed. *)
THEOREM SessionsTyped == Spec => []TypeOK
<1>1. TypeOK /\ [Next]_vars => TypeOK'
  <2>1. TypeOK /\ UNCHANGED vars => TypeOK'
    BY DEF TypeOK, vars, service, server, local, observed
  <2>2. TypeOK => active \subseteq Threads
    BY DEF TypeOK
  <2> QED
    BY <2>1, <2>2, ExpireTyped, ThreadTyped DEF Next
<1> QED
  BY InitTyped, <1>1, PTL DEF Spec

-----------------------------------------------------------------------------
(* A session that is not ready has a thread that initialises OX Guard, or  *)
(* that is going to clear it, whatever the other threads do to the session *)
(* field.                                                                  *)
Responsible(t) == pc[t] \in {"guard", "logout", "clear"}

GuardInv == info \notin ready \cup {None} => \E t \in active : Responsible(t)

LEMMA ThreadGuard ==
    ASSUME TypeOK, GuardInv, NEW t \in active, Thread(t)
    PROVE  GuardInv'
<1>0. t \in Threads /\ active \subseteq Threads
  BY DEF TypeOK
<1> USE <1>0
    DEF TypeOK, GuardInv, Responsible, None, service, server, local, observed, Goto, End
<1>1. CASE Operation(t) \/ EnsureCall(t) \/ RefreshCall(t) \/ LogoutCall(t) \/ LoginCall(t)
  BY <1>1 DEF Operation, EnsureCall, RefreshCall, LogoutCall, LoginCall, Begin
<1>2. CASE ClearCall(t) \/ GuardCall(t)
  BY <1>2 DEF ClearCall, GuardCall
<1>3. CASE Ensure(t)
  BY <1>3 DEF Ensure
<1>4. CASE ReadToken(t)
  BY <1>4 DEF ReadToken, SessionError
<1>5. CASE Request(t) \/ RequestFails(t)
  BY <1>5 DEF Request, RequestFails, SessionError
<1>6. CASE Refresh(t)
  BY <1>6 DEF Refresh
<1>7. CASE Login(t)
  BY <1>7 DEF Login
<1>8. CASE LoginFails(t)
  BY <1>8 DEF LoginFails
<1>9. CASE Store(t)
  <2>1. CASE guarding[t]
    BY <1>9, <2>1 DEF Store
  <2>2. CASE ~guarding[t]
    BY <1>9, <2>2 DEF Store, LoggedIn
  <2> QED
    BY <2>1, <2>2
<1>10. CASE Guard(t)
  BY <1>10 DEF Guard, LoggedIn
<1>11. CASE Logout(t) \/ Clear(t)
  BY <1>11 DEF Logout, Clear
<1> QED
  BY <1>1, <1>2, <1>3, <1>4, <1>5, <1>6, <1>7, <1>8, <1>9, <1>10, <1>11
     DEF Thread, DirectCall

(* No half-initialised session is left once all calls have ended, whatever *)
(* is called directly and however the threads' logins interleave.          *)
THEOREM GuardedWhenIdle == Spec => []NoHalfSession
<1>1. Init => GuardInv
  BY DEF Init, GuardInv
<1>2. TypeOK /\ GuardInv /\ [Next]_vars => GuardInv'
  <2>1. GuardInv /\ Expire => GuardInv'
    BY DEF GuardInv, Responsible, Expire, local, service
  <2>2. GuardInv /\ UNCHANGED vars => GuardInv'
    BY DEF GuardInv, Responsible, vars, local, service, observed
  <2> QED
    BY <2>1, <2>2, ThreadGuard DEF Next
<1>3. TypeOK /\ GuardInv => NoHalfSession
  BY DEF TypeOK, GuardInv, Responsible, NoHalfSession
<1> QED
  BY <1>1, <1>2, <1>3, SessionsTyped, PTL DEF Spec

-----------------------------------------------------------------------------
(* What one thread that uses the service alone knows of its session at     *)
(* each step.                                                              *)

(* The cookies are those of the session held, and only a direct login is   *)
(* made while there is one.                                                *)
SameJar(a) ==
    /\ pc[a] # "store" => jar = info
    /\ pc[a] \in {"login", "store"} /\ call[a] # "login" => info = None
    /\ pc[a] = "store" => jar = own[a]
    /\ pc[a] = "request" => tok[a] = info

(* From its login to the end of the operation it works with the session of *)
(* that login, which nobody but the server takes from it.                  *)
OwnLogin(a) ==
    /\ pc[a] = "ensure" => call[a] # "retry"
    /\ pc[a] = "guard" \/ (call[a] = "retry" /\ pc[a] \in {"token", "request"}) => info = own[a]
    /\ pc[a] \in {"store", "guard"} \/ (call[a] = "retry" /\ pc[a] \in {"token", "request"})
         => own[a] \in alive \cup expired /\ own[a] # None

Refused(a) ==
    /\ pc[a] # "idle" => ~rejected[a]
    /\ \A t \in Threads : rejected[t] => t = a /\ own[t] \in expired

(* It forgets no session but those the server has given up, was asked to   *)
(* end, or did not answer for, and those a direct call drops.              *)
Forgets(a) ==
    /\ alive \subseteq {info} \cup unanswered \cup dropped
                   \cup (IF pc[a] = "store" THEN {own[a]} ELSE {})
    /\ pc[a] = "refresh" /\ call[a] # "login" => info \notin alive
    /\ pc[a] = "clear" => info \notin alive \/ info \in unanswered

AloneInv ==
    \A a \in Threads : active = {a} => SameJar(a) /\ OwnLogin(a) /\ Refused(a) /\ Forgets(a)

LEMMA ThreadAlone ==
    ASSUME TypeOK, NEW a \in Threads, Thread(a), SameJar(a), OwnLogin(a), Refused(a), Forgets(a)
    PROVE  SameJar(a)' /\ OwnLogin(a)' /\ Refused(a)' /\ Forgets(a)'
<1> USE SessionsAssumption
    DEF TypeOK, None, Session, service, server, local, observed, Goto, End,
        SameJar, OwnLogin, Refused, Forgets
<1>1. CASE Operation(a) \/ EnsureCall(a)
  BY <1>1 DEF Operation, EnsureCall, Begin
<1>2. CASE RefreshCall(a) \/ LogoutCall(a)
  BY <1>2 DEF RefreshCall, LogoutCall, Begin
<1>3. CASE LoginCall(a)
  BY <1>3 DEF LoginCall, Begin
<1>4. CASE ClearCall(a) \/ GuardCall(a)
  BY <1>4 DEF ClearCall, GuardCall, Drop
<1>5. CASE Ensure(a)
  BY <1>5 DEF Ensure
<1>6. CASE ReadToken(a)
  BY <1>6 DEF ReadToken, SessionError
<1>7. CASE Request(a)
  BY <1>7 DEF Request, SessionError, Accepts
<1>8. CASE RequestFails(a)
  BY <1>8 DEF RequestFails
<1>9. CASE Refresh(a)
  BY <1>9 DEF Refresh, Drop
<1>10. CASE Login(a)
  BY <1>10 DEF Login
<1>11. CASE LoginFails(a)
  BY <1>11 DEF LoginFails
<1>12. CASE Store(a)
  BY <1>12 DEF Store, Drop, LoggedIn
<1>13. CASE Guard(a)
  BY <1>13 DEF Guard, Accepts, LoggedIn
<1>14. CASE Logout(a)
  BY <1>14 DEF Logout
<1>15. CASE Clear(a)
  BY <1>15 DEF Clear
<1> QED
  BY <1>1, <1>2, <1>3, <1>4, <1>5, <1>6, <1>7, <1>8, <1>9, <1>10, <1>11,
     <1>12, <1>13, <1>14, <1>15 DEF Thread, DirectCall

LEMMA SettingKept == [Next]_vars => active' = active
<1>1. ASSUME NEW t, Thread(t) PROVE active' = active
  BY <1>1 DEF Thread, DirectCall, Operation, EnsureCall, RefreshCall, LogoutCall, LoginCall,
        Begin, ClearCall, GuardCall, Ensure, ReadToken, Request, RequestFails, Refresh,
        Login, LoginFails, Store, Guard, Logout, Clear
<1> QED
  BY <1>1 DEF Next, Expire, vars

LEMMA AloneInvariance == Spec => [](TypeOK /\ AloneInv)
<1>1. Init => AloneInv
  BY DEF Init, AloneInv, SameJar, OwnLogin, Refused, Forgets
<1>2. TypeOK /\ AloneInv /\ [Next]_vars => AloneInv'
  <2> SUFFICES ASSUME TypeOK, AloneInv, [Next]_vars, NEW a \in Threads, active' = {a}
               PROVE  SameJar(a)' /\ OwnLogin(a)' /\ Refused(a)' /\ Forgets(a)'
    BY DEF AloneInv
  <2>1. active' = active
    BY SettingKept
  <2>2. SameJar(a) /\ OwnLogin(a) /\ Refused(a) /\ Forgets(a)
    BY <2>1 DEF AloneInv
  <2>3. CASE Expire
    BY <2>2, <2>3 DEF Expire, SameJar, OwnLogin, Refused, Forgets, local, service
  <2>4. CASE Thread(a)
    BY <2>2, <2>4, ThreadAlone
  <2>5. CASE UNCHANGED vars
    BY <2>2, <2>5 DEF vars, service, server, local, observed, SameJar, OwnLogin, Refused, Forgets
  <2> QED
    BY <2>1, <2>3, <2>4, <2>5 DEF Next
<1> QED
  BY <1>1, <1>2, SessionsTyped, PTL DEF Spec

LEMMA OneThread == TypeOK /\ Alone => \E a \in Threads : active = {a}
<1> SUFFICES ASSUME TypeOK, Alone PROVE \E a \in Threads : active = {a}
  OBVIOUS
<1>1. IsFiniteSet(active)
  BY SessionsAssumption, FS_Subset DEF TypeOK
<1>2. \E a : active = {a}
  BY <1>1, FS_Singleton DEF Alone
<1> QED
  BY <1>2 DEF TypeOK

(* One thread alone is refused for its session only when the server gave   *)
(* up the session of the operation's own login.                            *)
THEOREM RenewalCoversExpiry == Spec => []RenewedWhenAlone
<1>1. TypeOK /\ AloneInv => RenewedWhenAlone
  BY OneThread DEF AloneInv, Refused, RenewedWhenAlone, RetryCoversExpiry
<1> QED
  BY <1>1, AloneInvariance, PTL

(* One thread alone leaves at the server the session it holds, those whose *)
(* login or logout got no answer and those a direct call dropped: its      *)
(* operations' re-logins and the rollbacks of its logins add none.         *)
THEOREM NothingForgotten == Spec => []NoOrphan
<1>1. TypeOK /\ AloneInv => NoOrphan
  BY OneThread DEF AloneInv, Forgets, NoOrphan
<1> QED
  BY <1>1, AloneInvariance, PTL
=============================================================================
