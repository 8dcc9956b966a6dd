------------------------------- MODULE Requests -------------------------------
(***************************************************************************)
(* A call of MailService through HTTPTransport (transport/http.py), and    *)
(* OXMailClient.close (client.py) in another thread.  One worker makes     *)
(* calls one after the other: reads (GET), list_by_ids (PUT) and send (POST*)
(* with attachments), plain or inside run_with_session_retry.  A call may  *)
(* be lost before or after the server executed it, and what the server or  *)
(* something in front of it answers decides what the caller is told.  How  *)
(* threads share a session, and OX Guard, is module Auth.                  *)
(***************************************************************************)
EXTENDS Naturals

CONSTANTS
    Retries,        \* RetryConfig.total
    MaxFiles,       \* bound: attachments of a message
    MaxLogins       \* bound: sessions the server hands out

ASSUME RequestsAssumption == {Retries, MaxFiles, MaxLogins} \subseteq Nat

VARIABLES
    json,           \* setting: every answer of status 200 is OX's own JSON
    pc,             \* the worker's next step
    kind,           \* its call
    wrapped,        \* the call runs in run_with_session_retry
    retried,        \* its one re-login is used
    files,          \* attachments of the message; those open
    opened,
    token,          \* the session the request carries
    sent,           \* attempts of the request under way
    outcome,        \* how the call ended
    info,           \* AuthService._session_info
    closing,        \* the closer's next step
    leaving,        \* the token it logs out
    closed,         \* HTTPTransport._closed
    alive,          \* sessions the server accepts
    handedOut,      \* sessions it has made
    executed,       \* observer: times the server carried out the call
    late,           \* observer: the call began after close had returned
    overlap,        \* observer: a call that can log in ran during close
    unanswered      \* observer: sessions whose login or logout got no answer

call == <<kind, wrapped, late>>
progress == <<retried, files, opened, token>>
wire == <<sent, executed>>
closer == <<closing, leaving, closed>>
server == <<alive, handedOut, unanswered>>
vars == <<json, pc, call, progress, wire, outcome, info, closer, server, overlap>>

None == 0
Session == 1 .. MaxLogins
Kinds == {"read", "list", "send"}
OnTheWire == {"request", "loginRequest"}

CallOK ==
    /\ json \in BOOLEAN /\ kind \in Kinds /\ wrapped \in BOOLEAN /\ retried \in BOOLEAN
    /\ pc \in {"idle", "ensure", "files", "token", "check", "refresh", "login", "store"}
              \cup OnTheWire
    /\ outcome \in {"none", "ok", "transport", "http", "invalid", "api", "rejected",
                    "unauthenticated", "file", "closed", "login"}
    /\ late \in BOOLEAN /\ overlap \in BOOLEAN

CountsOK ==
    /\ files \in 0 .. MaxFiles /\ opened \in 0 .. files
    /\ sent \in 0 .. Retries + 1 /\ executed \in 0 .. 2 * (Retries + 1)

SessionOK ==
    /\ token \in Session \cup {None} /\ (pc \in {"check", "request"} => token # None)
    /\ info \in Session \cup {None} /\ leaving \in Session \cup {None}
    /\ closing \in {"no", "logout", "clear", "shut", "flag", "returned"} /\ closed \in BOOLEAN
    /\ alive \subseteq 1 .. handedOut /\ handedOut \in 0 .. MaxLogins
    /\ unanswered \subseteq 1 .. handedOut

TypeOK == CallOK /\ CountsOK /\ SessionOK

Init ==
    /\ json \in BOOLEAN
    /\ pc = "idle" /\ kind = "read" /\ wrapped = FALSE /\ retried = FALSE
    /\ files = 0 /\ opened = 0 /\ token = None /\ sent = 0 /\ outcome = "none"
    /\ info = None
    /\ closing = "no" /\ leaving = None /\ closed = FALSE
    /\ alive = {} /\ handedOut = 0
    /\ executed = 0 /\ late = FALSE /\ overlap = FALSE /\ unanswered = {}

-----------------------------------------------------------------------------
(* The server gives up a session. *)
Expire ==
    /\ \E s \in alive : alive' = alive \ {s}
    /\ UNCHANGED <<json, pc, call, progress, wire, outcome, info, closer, handedOut,
                   unanswered, overlap>>

(* The call ends; its with block closes the attachments. *)
End(result) ==
    /\ pc' = "idle" /\ outcome' = result
    /\ opened' = 0
    /\ UNCHANGED <<retried, files, token>>

(* run_with_session_retry: the session is refused, or there is none.       *)
SessionError(result) ==
    IF wrapped /\ ~retried
    THEN /\ pc' = "refresh" /\ retried' = TRUE
         /\ opened' = 0
         /\ UNCHANGED <<files, token, outcome>>
    ELSE End(result)

-----------------------------------------------------------------------------
(* The call, up to the request.                                            *)

Operation == IF kind = "send" THEN "files" ELSE "token"

Begin ==
    /\ pc = "idle"
    /\ kind' \in Kinds /\ wrapped' \in BOOLEAN
    /\ files' \in IF kind' = "send" THEN 0 .. MaxFiles ELSE {0}
    /\ pc' = IF wrapped' THEN "ensure" ELSE Operation'
    /\ retried' = FALSE /\ token' = None /\ outcome' = "none"
    /\ sent' = 0 /\ executed' = 0
    /\ late' = (closing = "returned")
    /\ overlap' = (overlap \/ (wrapped' /\ closing \notin {"no", "returned"}))
    /\ UNCHANGED <<json, opened, info, closer, server>>

(* Mutant: a login for every call. *)
Ensure_Always ==
    /\ pc = "ensure" /\ pc' = "login"
    /\ UNCHANGED <<json, call, progress, wire, outcome, info, closer, server, overlap>>

Ensure ==
    /\ pc = "ensure"
    /\ pc' = IF info = None THEN "login" ELSE Operation
    /\ UNCHANGED <<json, call, progress, wire, outcome, info, closer, server, overlap>>

(* Mutant: the attachments are opened outside of the with block. *)
OpenFiles_Leak ==
    /\ pc = "files"
    /\ \/ opened = files /\ pc' = "token" /\ UNCHANGED <<progress, outcome>>
       \/ opened < files /\ opened' = opened + 1 /\ UNCHANGED <<pc, retried, files, token, outcome>>
       \/ opened < files /\ pc' = "idle" /\ outcome' = "file" /\ UNCHANGED progress
    /\ UNCHANGED <<json, call, wire, info, closer, server, overlap>>

(* legacy_multipart enters one file after the other; any may fail to open. *)
OpenFiles ==
    /\ pc = "files"
    /\ \/ opened = files /\ pc' = "token" /\ UNCHANGED <<progress, outcome>>
       \/ opened < files /\ opened' = opened + 1 /\ UNCHANGED <<pc, retried, files, token, outcome>>
       \/ opened < files /\ End("file")
    /\ UNCHANGED <<json, call, wire, info, closer, server, overlap>>

ReadToken ==
    /\ pc = "token"
    /\ IF info = None
       THEN SessionError("unauthenticated")
       ELSE token' = info /\ pc' = "check" /\ UNCHANGED <<retried, files, opened, outcome>>
    /\ UNCHANGED <<json, call, wire, info, closer, server, overlap>>

(* Mutant: a closed transport opens its pool again. *)
Check_Reopens ==
    /\ pc = "check"
    /\ pc' = "request" /\ sent' = 1 /\ UNCHANGED <<progress, outcome>>
    /\ UNCHANGED <<json, call, executed, info, closer, server, overlap>>

(* HTTPTransport.request looks whether it is closed, once. *)
Check ==
    /\ pc = "check"
    /\ IF closed THEN End("closed") /\ UNCHANGED sent
       ELSE pc' = "request" /\ sent' = 1 /\ UNCHANGED <<progress, outcome>>
    /\ UNCHANGED <<json, call, executed, info, closer, server, overlap>>

-----------------------------------------------------------------------------
(* The request and its answer.                                             *)

(* Mutant: allowed_methods=None, every method is repeated. *)
Repeatable_All == TRUE

(* _SAFE_RETRY_METHODS: what may have reached the server is repeated for   *)
(* reads only.                                                             *)
Repeatable == kind = "read"

(* Retry.total counts the repeats of every cause together. *)
Left == sent <= Retries

(* The adapter sends the request once more, while it may. *)
Again == Left /\ sent' = sent + 1 /\ UNCHANGED <<pc, progress, outcome>>

Fail(result) == End(result) /\ UNCHANGED sent

MayExecute == executed' \in IF token \in alive THEN {executed, executed + 1} ELSE {executed}

(* No connection: every method is tried again. *)
NotReached ==
    /\ pc = "request"
    /\ IF Left THEN Again ELSE Fail("transport")
    /\ UNCHANGED <<json, call, executed, info, closer, server, overlap>>

(* The request was sent and no answer came. *)
AnswerLost ==
    /\ pc = "request" /\ MayExecute
    /\ IF Repeatable /\ Left THEN Again ELSE Fail("transport")
    /\ UNCHANGED <<json, call, info, closer, server, overlap>>

(* An answer of status 400 and above; those of status_forcelist are asked  *)
(* again, and the last one is handed to the caller (raise_on_status=False).*)
ErrorStatus ==
    /\ pc = "request" /\ MayExecute
    /\ (Repeatable /\ Again) \/ Fail("http")
    /\ UNCHANGED <<json, call, info, closer, server, overlap>>

(* Mutant: every answer is parsed the relaxed way. *)
NotJson_Relaxed == {"ok", "invalid"}

(* What an answer of status 200 that is not OX's JSON is taken for: an     *)
(* empty body or a page without braces is an empty object to the relaxed   *)
(* parser, and send is done.                                               *)
NotJson == IF kind = "send" THEN {"ok", "invalid"} ELSE {"invalid"}

Page ==
    /\ pc = "request" /\ ~json /\ MayExecute
    /\ \E result \in NotJson : Fail(result)
    /\ UNCHANGED <<json, call, info, closer, server, overlap>>

(* Open-Xchange answers: it refuses the session, refuses the call, or has  *)
(* done it.                                                                *)
Answered ==
    /\ pc = "request" /\ UNCHANGED sent
    /\ \/ token \notin alive /\ SessionError("rejected") /\ UNCHANGED executed
       \/ token \in alive /\ End("api") /\ UNCHANGED executed
       \/ token \in alive /\ End("ok") /\ executed' = executed + 1
    /\ UNCHANGED <<json, call, info, closer, server, overlap>>

-----------------------------------------------------------------------------
(* Logging in.                                                             *)

Refresh ==
    /\ pc = "refresh" /\ pc' = "login" /\ info' = None
    /\ UNCHANGED <<json, call, progress, wire, outcome, closer, server, overlap>>

Login ==
    /\ pc = "login"
    /\ IF closed THEN End("closed")
       ELSE pc' = "loginRequest" /\ UNCHANGED <<progress, outcome>>
    /\ UNCHANGED <<json, call, wire, info, closer, server, overlap>>

NewSession ==
    /\ handedOut < MaxLogins /\ handedOut' = handedOut + 1
    /\ alive' = alive \cup {handedOut'}

(* The login is a POST: its answer makes a session, or it fails, perhaps   *)
(* after the server made one.                                              *)
LoginAnswered ==
    /\ pc = "loginRequest"
    /\ \/ NewSession /\ pc' = "store" /\ token' = handedOut'
          /\ UNCHANGED <<unanswered, retried, files, opened, outcome>>
       \/ NewSession /\ unanswered' = unanswered \cup {handedOut'} /\ End("login")
       \/ UNCHANGED server /\ End("login")
    /\ UNCHANGED <<json, call, wire, info, closer, overlap>>

Store ==
    /\ pc = "store" /\ info' = token /\ pc' = Operation
    /\ UNCHANGED <<json, call, progress, wire, outcome, closer, server, overlap>>

-----------------------------------------------------------------------------
(* OXMailClient.close(logout=...).                                         *)

Close ==
    /\ closing = "no"
    /\ \/ closing' = "shut" /\ UNCHANGED leaving
       \/ info # None /\ closing' = "logout" /\ leaving' = info
    /\ overlap' = (wrapped /\ pc # "idle")
    /\ UNCHANGED <<json, pc, call, progress, wire, outcome, info, closed, server>>

(* Mutant: close has no finally, a logout that fails leaves the client open.*)
Logout_Propagates ==
    /\ closing = "logout"
    /\ \/ closing' = "clear" /\ alive' = alive \ {leaving} /\ UNCHANGED unanswered
       \/ closing' = "no" /\ UNCHANGED alive /\ unanswered' = unanswered \cup {leaving}
    /\ UNCHANGED <<json, pc, call, progress, wire, outcome, info, leaving, closed, handedOut,
                   overlap>>

(* AuthService.logout: a GET, answered or not. *)
Logout ==
    /\ closing = "logout" /\ closing' = "clear"
    /\ \/ alive' = alive \ {leaving} /\ UNCHANGED unanswered
       \/ alive' \in {alive, alive \ {leaving}} /\ unanswered' = unanswered \cup {leaving}
    /\ UNCHANGED <<json, pc, call, progress, wire, outcome, info, leaving, closed, handedOut,
                   overlap>>

Clear ==
    /\ closing = "clear" /\ closing' = "shut" /\ info' = None
    /\ UNCHANGED <<json, pc, call, progress, wire, outcome, leaving, closed, server, overlap>>

(* The transport is closed, then the client; another close returns at once.*)
Shut ==
    /\ \/ closing = "shut" /\ closing' = "flag" /\ closed' = TRUE
       \/ closing = "flag" /\ closing' = "returned" /\ UNCHANGED closed
    /\ UNCHANGED <<json, pc, call, progress, wire, outcome, info, leaving, server, overlap>>

Request == NotReached \/ AnswerLost \/ ErrorStatus \/ Page \/ Answered

Call ==
    \/ Ensure \/ OpenFiles \/ ReadToken \/ Check \/ Request
    \/ Refresh \/ Login \/ LoginAnswered \/ Store

Closing == Logout \/ Clear \/ Shut

Next == Begin \/ Expire \/ Call \/ Close \/ Closing

Spec == Init /\ [][Next]_vars

(* Files open or fail, requests time out (TimeoutConfig), threads run.     *)
LiveSpec == Spec /\ WF_vars(Call) /\ WF_vars(Closing)

-----------------------------------------------------------------------------
(* Properties.                                                             *)

(* docs/errors.md, "What retries, and what does not": a POST or PUT is not *)
(* repeated.  Whatever is repeated below or above it, the server carries   *)
(* out a send or a list at most once.                                      *)
SentOnce == kind # "read" => executed <= 1

(* The outcomes that do not say whether a send or a list was carried out:  *)
(* TransportError (docs/errors.md), an error status and, where something   *)
(* else than Open-Xchange answers, InvalidResponseError and a send's "ok", *)
(* which the relaxed parser gives for an empty body or a page.             *)
Unsaid ==
    {"none", "transport", "http"}
      \cup IF json THEN {} ELSE {"invalid"} \cup IF kind = "send" THEN {"ok"} ELSE {}

(* Every other outcome says it, through repeats, re-logins and close: "ok" *)
(* that the call was carried out, an error that a send or list was not.    *)
OutcomeKnown ==
    outcome \notin Unsaid =>
        IF outcome = "ok" THEN executed > 0 ELSE executed = 0 \/ kind = "read"

(* docs/sending.md: file handles are "opened only for the duration of the  *)
(* request and always closed, including on failure"; with a re-login, they *)
(* are closed before it.                                                   *)
FilesClosed ==
    opened > 0 => kind = "send" /\ pc \in {"files", "token", "check", "request"}

(* docs/errors.md, ClientClosedError: a call made after close has returned *)
(* reaches neither the server nor, by a renewal, its login.                *)
ClosedMeansClosed == late => pc \notin OnTheWire /\ outcome # "ok"

(* After close(logout=True) the server holds no session of the client but  *)
(* those whose login or logout got no answer, unless a call that renews    *)
(* its session ran meanwhile: it may log in behind the logout.             *)
NoSessionLeft ==
    closing = "returned" /\ leaving # None /\ ~overlap => alive \subseteq unanswered

(* Every call ends and close returns, whatever each meets in the other.    *)
Settles == (pc # "idle" ~> pc = "idle") /\ (closing # "no" ~> closing = "returned")
=============================================================================
