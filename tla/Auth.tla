-------------------------------- MODULE Auth ---------------------------------
(***************************************************************************)
(* AuthService (auth/service.py): one session and one cookie jar, used by  *)
(* every thread of the program that works through the same client (several *)
(* HTTP watchers, the main thread).  A thread runs an operation through    *)
(* run_with_session_retry, or calls login, ensure_authenticated, refresh,  *)
(* authenticate_oxguard, logout or clear_local_session directly.  Nothing  *)
(* in the service is locked, so threads interleave between any two reads,  *)
(* writes and requests.                                                    *)
(***************************************************************************)
EXTENDS Naturals, FiniteSets

CONSTANTS
    Threads,            \* threads that share the AuthService
    MaxLogins           \* bound: sessions the server hands out

ASSUME SessionsAssumption ==
    /\ IsFiniteSet(Threads)
    /\ MaxLogins \in Nat

VARIABLES
    active,             \* setting: the threads that use the service
    info,               \* AuthService._session_info: a token, or None
    oxguard,            \* AuthService._oxguard: the last login's argument
    jar,                \* the session whose cookies the transport holds
    alive,              \* sessions the server accepts
    handedOut,          \* sessions the server has made so far
    pc,                 \* the next step of each thread
    call,               \* the call it is in; "retry" is past the one re-login
    guarding,           \* the oxguard argument of the login it is in
    tok,                \* the token the thread's request carries
    rejected,           \* its last call was refused for its session
    own,                \* observer: the session of that call's last login
    expired,            \* observer: sessions the server gave up by itself
    ready,              \* observer: sessions OX Guard knows, or need not know
    unanswered,         \* observer: sessions whose login or logout was lost
    dropped             \* observer: sessions a direct call forgot

server == <<alive, handedOut>>
service == <<info, oxguard, jar>>
local == <<pc, call, guarding, tok, rejected, own>>
observed == <<expired, ready, unanswered, dropped>>
vars == <<active, service, server, local, observed>>

None == 0
Session == 1..MaxLogins

Steps == {"idle", "ensure", "token", "request", "refresh", "login", "store",
          "guard", "logout", "clear"}

(* "login" is a direct call that ends when there is a session.             *)
Calls == {"none", "operation", "retry", "login", "logout"}

TypeOK ==
    /\ active \in SUBSET Threads
    /\ info \in Session \cup {None}
    /\ oxguard \in BOOLEAN
    /\ jar \in Session \cup {None}
    /\ alive \in SUBSET Session
    /\ handedOut \in 0..MaxLogins
    /\ pc \in [Threads -> Steps]
    /\ call \in [Threads -> Calls]
    /\ guarding \in [Threads -> BOOLEAN]
    /\ tok \in [Threads -> Session \cup {None}]
    /\ rejected \in [Threads -> BOOLEAN]
    /\ own \in [Threads -> Session \cup {None}]
    /\ expired \in SUBSET Session
    /\ ready \in SUBSET Session
    /\ unanswered \in SUBSET Session
    /\ dropped \in SUBSET Session
    /\ \A t \in Threads : pc[t] = "request" => tok[t] \in Session
    /\ \A t \in Threads : pc[t] = "store" => own[t] \in Session

Init ==
    /\ active \in SUBSET Threads \ {{}}
    /\ info = None
    /\ oxguard = TRUE
    /\ jar = None
    /\ alive = {}
    /\ handedOut = 0
    /\ pc = [t \in Threads |-> "idle"]
    /\ call = [t \in Threads |-> "none"]
    /\ guarding = [t \in Threads |-> FALSE]
    /\ tok = [t \in Threads |-> None]
    /\ rejected = [t \in Threads |-> FALSE]
    /\ own = [t \in Threads |-> None]
    /\ expired = {}
    /\ ready = {}
    /\ unanswered = {}
    /\ dropped = {}

-----------------------------------------------------------------------------
(* The server accepts a request that carries the token of a session it     *)
(* knows together with the cookies of that session.                        *)
Accepts(token) == token \in alive /\ jar = token

(* The server gives up a session by itself. *)
Expire ==
    \E s \in alive :
        /\ alive' = alive \ {s}
        /\ expired' = expired \cup {s}
        /\ UNCHANGED <<active, service, handedOut, local, ready, unanswered, dropped>>

Goto(t, step) ==
    /\ pc' = [pc EXCEPT ![t] = step]
    /\ UNCHANGED <<call, rejected, own>>

(* The call returns, or raises what is not about the session. *)
End(t) ==
    /\ pc' = [pc EXCEPT ![t] = "idle"]
    /\ call' = [call EXCEPT ![t] = "none"]
    /\ own' = [own EXCEPT ![t] = None]
    /\ UNCHANGED rejected

(* What a direct call forgets of the session held. *)
Drop == dropped' = dropped \cup ({info} \ {None})

(* The operation raised NotAuthenticatedError or an SES error: the first   *)
(* time the session is refreshed, the second time the error is the caller's*)
SessionError(t) ==
    IF call[t] = "retry"
    THEN /\ pc' = [pc EXCEPT ![t] = "idle"]
         /\ call' = [call EXCEPT ![t] = "none"]
         /\ rejected' = [rejected EXCEPT ![t] = TRUE]
         /\ UNCHANGED own
    ELSE /\ pc' = [pc EXCEPT ![t] = "refresh"]
         /\ call' = [call EXCEPT ![t] = "retry"]
         /\ UNCHANGED <<rejected, own>>

-----------------------------------------------------------------------------
(* The calls a thread makes: an operation in run_with_session_retry, and   *)
(* the direct ones.                                                        *)

Begin(t, step, what) ==
    /\ pc[t] = "idle"
    /\ pc' = [pc EXCEPT ![t] = step]
    /\ call' = [call EXCEPT ![t] = what]
    /\ rejected' = [rejected EXCEPT ![t] = FALSE]
    /\ own' = [own EXCEPT ![t] = None]
    /\ UNCHANGED <<active, info, jar, server, tok, observed>>

Operation(t) == Begin(t, "ensure", "operation") /\ UNCHANGED <<oxguard, guarding>>
EnsureCall(t) == Begin(t, "ensure", "login") /\ UNCHANGED <<oxguard, guarding>>
RefreshCall(t) == Begin(t, "refresh", "login") /\ UNCHANGED <<oxguard, guarding>>
LogoutCall(t) == Begin(t, "logout", "logout") /\ UNCHANGED <<oxguard, guarding>>

(* login(oxguard=...) keeps its argument first, and whatever comes of it.  *)
LoginCall(t) ==
    /\ Begin(t, "login", "login")
    /\ oxguard' \in BOOLEAN
    /\ guarding' = [guarding EXCEPT ![t] = oxguard']

(* clear_local_session: the server is not told. *)
ClearCall(t) ==
    /\ pc[t] = "idle"
    /\ info' = None
    /\ jar' = None
    /\ Drop
    /\ UNCHANGED <<active, oxguard, server, local, expired, ready, unanswered>>

(* authenticate_oxguard: a refusal is the caller's, nothing is rolled back.*)
GuardCall(t) ==
    /\ pc[t] = "idle"
    /\ info # None /\ Accepts(info)
    /\ ready' = ready \cup {info}
    /\ UNCHANGED <<active, service, server, local, expired, unanswered, dropped>>

-----------------------------------------------------------------------------
(* run_with_session_retry in thread t. *)

(* ensure_authenticated: log in on first use, with the last login's flag. *)
Ensure(t) ==
    /\ pc[t] = "ensure"
    /\ IF info = None
       THEN Goto(t, "login") /\ guarding' = [guarding EXCEPT ![t] = oxguard]
       ELSE /\ IF call[t] = "login" THEN End(t) ELSE Goto(t, "token")
            /\ UNCHANGED guarding
    /\ UNCHANGED <<active, service, server, tok, observed>>

(* The operation reads auth.token when it builds its request. *)
ReadToken(t) ==
    /\ pc[t] = "token"
    /\ IF info = None
       THEN SessionError(t) /\ UNCHANGED tok
       ELSE Goto(t, "request") /\ tok' = [tok EXCEPT ![t] = info]
    /\ UNCHANGED <<active, service, server, guarding, observed>>

Request(t) ==
    /\ pc[t] = "request"
    /\ IF Accepts(tok[t]) THEN End(t) ELSE SessionError(t)
    /\ tok' = [tok EXCEPT ![t] = None]
    /\ UNCHANGED <<active, service, server, guarding, observed>>

(* Any other error of the request propagates. *)
RequestFails(t) ==
    /\ pc[t] = "request"
    /\ End(t)
    /\ tok' = [tok EXCEPT ![t] = None]
    /\ UNCHANGED <<active, service, server, guarding, observed>>

(* Mutant: a refresh uses the session that is there. *)
Refresh_Keeps(t) ==
    /\ pc[t] = "refresh"
    /\ Goto(t, "ensure")
    /\ UNCHANGED <<active, service, server, guarding, tok, observed>>

(* refresh: clear_local_session, then login with the last login's flag.    *)
Refresh(t) ==
    /\ pc[t] = "refresh"
    /\ info' = None
    /\ jar' = None
    /\ IF call[t] = "login" THEN Drop ELSE UNCHANGED dropped
    /\ guarding' = [guarding EXCEPT ![t] = oxguard]
    /\ Goto(t, "login")
    /\ UNCHANGED <<active, oxguard, server, tok, expired, ready, unanswered>>

-----------------------------------------------------------------------------
(* login and logout. *)

Login(t) ==
    /\ pc[t] = "login"
    /\ handedOut < MaxLogins
    /\ handedOut' = handedOut + 1
    /\ alive' = alive \cup {handedOut'}
    /\ jar' = handedOut'
    /\ own' = [own EXCEPT ![t] = handedOut']
    /\ pc' = [pc EXCEPT ![t] = "store"]
    /\ UNCHANGED <<active, info, oxguard, call, guarding, tok, rejected, observed>>

(* The login is refused, or its answer is lost after the server made the   *)
(* session.                                                                *)
LoginFails(t) ==
    /\ pc[t] = "login"
    /\ \/ UNCHANGED <<server, unanswered>>
       \/ /\ handedOut < MaxLogins
          /\ handedOut' = handedOut + 1
          /\ alive' = alive \cup {handedOut'}
          /\ unanswered' = unanswered \cup {handedOut'}
    /\ End(t)
    /\ guarding' = [guarding EXCEPT ![t] = FALSE]
    /\ UNCHANGED <<active, service, tok, expired, ready, dropped>>

(* What follows a login that succeeded: run_with_session_retry goes on.    *)
LoggedIn(t) == IF call[t] = "login" THEN End(t) ELSE Goto(t, "token")

(* A direct login may find a session, and then forgets it. *)
Store(t) ==
    /\ pc[t] = "store"
    /\ info' = own[t]
    /\ IF call[t] = "login" THEN Drop ELSE UNCHANGED dropped
    /\ IF guarding[t]
       THEN Goto(t, "guard") /\ UNCHANGED ready
       ELSE LoggedIn(t) /\ ready' = ready \cup {own[t]}
    /\ guarding' = [guarding EXCEPT ![t] = FALSE]
    /\ UNCHANGED <<active, oxguard, jar, server, tok, expired, unanswered>>

(* Mutant: the session is kept although OX Guard refused it. *)
Guard_KeepsSession(t) ==
    /\ pc[t] = "guard"
    /\ \/ info # None /\ Accepts(info) /\ LoggedIn(t) /\ ready' = ready \cup {info}
       \/ End(t) /\ UNCHANGED ready
    /\ UNCHANGED <<active, service, server, guarding, tok, expired, unanswered, dropped>>

(* authenticate_oxguard sends whatever token the service holds now; any    *)
(* failure rolls the login back.                                           *)
Guard(t) ==
    /\ pc[t] = "guard"
    /\ \/ /\ info # None
          /\ Accepts(info)
          /\ ready' = ready \cup {info}
          /\ LoggedIn(t)
       \/ /\ Goto(t, "logout")
          /\ UNCHANGED ready
    /\ UNCHANGED <<active, service, server, guarding, tok, expired, unanswered, dropped>>

(* Mutant: only the local state is cleared. *)
Logout_LocalOnly(t) ==
    /\ pc[t] = "logout"
    /\ Goto(t, "clear")
    /\ UNCHANGED <<active, service, server, guarding, tok, observed>>

(* logout, by the program or to roll a login back: nothing to do without a *)
(* session; the request may fail.                                          *)
Logout(t) ==
    /\ pc[t] = "logout"
    /\ IF info = None
       THEN End(t) /\ UNCHANGED <<alive, unanswered>>
       ELSE /\ \/ alive' = alive \ {info} /\ UNCHANGED unanswered
               \/ unanswered' = unanswered \cup {info} /\ UNCHANGED alive
            /\ Goto(t, "clear")
    /\ UNCHANGED <<active, service, handedOut, guarding, tok, expired, ready, dropped>>

(* Whatever became of the request, clear_local_session follows.            *)
Clear(t) ==
    /\ pc[t] = "clear"
    /\ info' = None
    /\ jar' = None
    /\ End(t)
    /\ UNCHANGED <<active, oxguard, server, guarding, tok, observed>>

DirectCall(t) ==
    \/ EnsureCall(t) \/ LoginCall(t) \/ RefreshCall(t) \/ LogoutCall(t)
    \/ ClearCall(t) \/ GuardCall(t)

Thread(t) ==
    \/ Operation(t) \/ DirectCall(t)
    \/ Ensure(t) \/ ReadToken(t) \/ Request(t) \/ RequestFails(t)
    \/ Refresh(t) \/ Login(t) \/ LoginFails(t) \/ Store(t) \/ Guard(t)
    \/ Logout(t) \/ Clear(t)

Next == Expire \/ \E t \in active : Thread(t)

Spec == Init /\ [][Next]_vars

-----------------------------------------------------------------------------
(* Properties. *)

(* docs/watching.md: "an expired Open-Xchange session is renewed and the   *)
(* request retried once, transparently".  An operation is refused for its  *)
(* session only when the server gave up the very session that the          *)
(* operation's own login obtained.                                         *)
RetryCoversExpiry ==
    \A t \in Threads : rejected[t] => own[t] \in expired

(* So it is while one thread uses the service, whatever it calls before.   *)
Alone == Cardinality(active) = 1

RenewedWhenAlone == Alone => RetryCoversExpiry

(* docs/authentication.md: a failed OX Guard login is rolled back, "so you *)
(* never end up holding a half-initialised session": whenever no call is   *)
(* running, the session held has OX Guard initialised, unless its login was*)
(* made without (oxguard=False, or by a call that remembered that flag).   *)
NoHalfSession ==
    (\A t \in Threads : pc[t] = "idle") => info \in ready \cup {None}

(* Which sessions the server keeps and the program has forgotten, when one *)
(* thread uses the service: those whose login or logout got no answer, and *)
(* those that a direct login, refresh or clear_local_session replaced or   *)
(* cleared, none of which logs out.  The re-login of an operation and the  *)
(* rollback of a login add none.                                           *)
NoOrphan ==
    Alone /\ (\A t \in Threads : pc[t] = "idle") =>
        alive \subseteq {info} \cup unanswered \cup dropped
=============================================================================
