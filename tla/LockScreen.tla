------------------------------- MODULE LockScreen -------------------------------
(***************************************************************************)
(* The lock screen and main's wait for it: login attempts by form, browser *)
(* and PIN, each in a worker thread that reports to Qt's thread; timers;   *)
(* and the dictionary through which Qt's thread hands the login to main.   *)
(* A token and a user are named by the attempt they come from.             *)
(***************************************************************************)
EXTENDS Integers, Sequences

CONSTANT MaxAttempts   \* bound: login attempts

ASSUME MaxAttemptsAssumption == MaxAttempts \in Nat \ {0}

VARIABLES
  \* worker threads
  kind,         \* how each attempt logs in
  stage,        \* what its worker does
  granted,      \* the attempts accepted by the portal or the PIN check
  cancel,       \* _web_login_cancel, one event for all browser logins
  \* Qt's thread
  inbox,        \* signals and queued calls for Qt's thread
  form,         \* which widgets are shown
  enabled,      \* inputs can be used
  authDone,
  lastToken,
  lastUser,     \* written by PIN workers too
  guards,       \* the attempts whose 25 s timer has not fired
  closing,      \* the attempts whose 1.5 s timer has not fired
  qt,           \* handing: within on_authenticated
  call,         \* the user that on_authenticated was called with
  \* main
  result,       \* main's dictionary
  taken,        \* what main has read from it
  main,
  deviceToken,  \* a device token is stored
  session       \* the stored user

threads == <<kind, stage, granted, cancel>>
screen  == <<form, enabled, authDone, lastToken, guards, closing>>
hand    == <<qt, call, result>>
mainv   == <<taken, main, deviceToken, session>>
vars    == <<threads, inbox, screen, lastUser, hand, mainv>>

Attempt == 1 .. MaxAttempts
None == 0            \* no token, no user
Nothing == [token |-> None, user |-> None]

Kinds  == {"unused", "form", "browser", "pin"}
Stages == {"unused",
           "asking",       \* login, session init, PIN check
           "polling",      \* browser: between two polls
           "requesting",   \* browser: a poll is under way
           "done"}

Auth(a, ok) == [type |-> "auth", attempt |-> a, ok |-> ok]
User(a)     == [type |-> "user", attempt |-> a, ok |-> TRUE]
Restore(a)  == [type |-> "restore", attempt |-> a, ok |-> FALSE]
Messages == [type : {"auth", "user", "restore"}, attempt : Attempt, ok : BOOLEAN]

Init ==
  /\ kind = [a \in Attempt |-> "unused"] /\ stage = [a \in Attempt |-> "unused"]
  /\ granted = {} /\ cancel = FALSE /\ inbox = <<>>
  /\ form = "login" /\ enabled = TRUE /\ authDone = FALSE
  /\ lastToken = None /\ lastUser = None /\ guards = {} /\ closing = {}
  /\ qt = "loop" /\ call = None /\ result = Nothing
  /\ taken = Nothing /\ main = "waiting" /\ deviceToken \in BOOLEAN /\ session = None

-----------------------------------------------------------------------------
(* The user, in Qt's thread. *)

\* The a-th attempt is next, and the form accepts it.
Ready(a) ==
  /\ qt = "loop" /\ form = "login" /\ enabled
  /\ stage[a] = "unused" /\ \A b \in 1 .. a - 1 : stage[b] # "unused"

Begin(a, k) ==
  /\ kind' = [kind EXCEPT ![a] = k]
  /\ stage' = [stage EXCEPT ![a] = "asking"]

OnLoginClicked(a) ==
  /\ Ready(a) /\ Begin(a, "form")
  /\ enabled' = FALSE /\ guards' = guards \cup {a}
  /\ UNCHANGED <<granted, cancel, inbox, form, authDone, lastToken, closing, lastUser, hand, mainv>>

OnWebLoginClicked(a) ==
  /\ Ready(a) /\ Begin(a, "browser")
  /\ form' = "web" /\ cancel' = FALSE
  /\ UNCHANGED <<granted, inbox, enabled, authDone, lastToken, guards, closing, lastUser, hand, mainv>>

OnPinEntered(a) ==
  /\ Ready(a) /\ Begin(a, "pin")
  /\ enabled' = FALSE
  /\ UNCHANGED <<granted, cancel, inbox, form, authDone, lastToken, guards, closing, lastUser, hand, mainv>>

LeaveWebForm ==
  /\ cancel' = TRUE /\ form' = "login"
  /\ UNCHANGED <<kind, stage, granted, enabled, authDone, lastToken, guards, closing, lastUser, hand, mainv>>

OnWebLoginCancel ==
  /\ qt = "loop" /\ form = "web"
  /\ LeaveWebForm
  /\ UNCHANGED inbox

-----------------------------------------------------------------------------
(* The workers. *)

\* What worker a reports, and with it its end.
Report(a, messages, ok) ==
  /\ stage' = [stage EXCEPT ![a] = "done"]
  /\ inbox' = inbox \o messages
  /\ granted' = IF ok THEN granted \cup {a} ELSE granted
  /\ UNCHANGED <<kind, cancel, screen, hand, mainv>>

\* An answer, an error or the 20 s timeout; the token goes before the user.
DoDirectLogin(a) ==
  /\ kind[a] = "form" /\ stage[a] = "asking"
  /\ \/ Report(a, <<Auth(a, TRUE), User(a)>>, TRUE)
     \/ Report(a, <<Auth(a, FALSE)>>, FALSE)
  /\ UNCHANGED lastUser

\* Faulty: a PIN's user before the PIN is known to be right.
DoPinVerifyUserFirst(a) ==
  /\ kind[a] = "pin" /\ stage[a] = "asking"
  /\ lastUser' = a
  /\ \E ok \in BOOLEAN : Report(a, IF qt = "closed" THEN <<>> ELSE <<Auth(a, ok)>>, ok)

\* The PIN's user is set here, from the worker.
DoPinVerify(a) ==
  /\ kind[a] = "pin" /\ stage[a] = "asking"
  /\ \E ok \in BOOLEAN :
       /\ lastUser' = IF ok THEN a ELSE None
       /\ Report(a, IF qt = "closed" THEN <<>> ELSE <<Auth(a, ok)>>, ok)

\* Faulty: a failure shows its status and restores nothing.
FailWebLoginStatusOnly(a) ==
  /\ Report(a, <<[type |-> "status", attempt |-> a, ok |-> FALSE]>>, FALSE)
  /\ UNCHANGED lastUser

\* A queued call made in a thread without an event loop may not arrive.
FailWebLogin(a) ==
  /\ \/ qt # "closed" /\ Report(a, <<Restore(a)>>, FALSE)
     \/ Report(a, <<>>, FALSE)
  /\ UNCHANGED lastUser

\* session/init, then the browser.
InitWebLogin(a) ==
  /\ kind[a] = "browser" /\ stage[a] = "asking"
  /\ \/ /\ stage' = [stage EXCEPT ![a] = IF cancel THEN "done" ELSE "polling"]
        /\ UNCHANGED <<kind, granted, cancel, inbox, screen, lastUser, hand, mainv>>
     \/ FailWebLogin(a)

\* Faulty: the cancel event is tested before the browser is opened only.
PollWebLoginIgnoresCancel(a) ==
  /\ stage[a] = "polling"
  /\ \/ /\ stage' = [stage EXCEPT ![a] = "requesting"]
        /\ UNCHANGED <<kind, granted, cancel, inbox, screen, lastUser, hand, mainv>>
     \/ FailWebLogin(a)

\* Every 2 s until cancelled; after 5 minutes the login fails.
PollWebLogin(a) ==
  /\ stage[a] = "polling"
  /\ \/ /\ stage' = [stage EXCEPT ![a] = IF cancel THEN "done" ELSE "requesting"]
        /\ UNCHANGED <<kind, granted, cancel, inbox, screen, lastUser, hand, mainv>>
     \/ FailWebLogin(a)

\* Still pending or an error, claimed, or expired. Nothing is delivered to a
\* closed window; the user goes before the token.
AnswerPoll(a) ==
  /\ stage[a] = "requesting"
  /\ \/ /\ stage' = [stage EXCEPT ![a] = "polling"]
        /\ UNCHANGED <<kind, granted, cancel, inbox, screen, lastUser, hand, mainv>>
     \/ /\ Report(a, IF qt = "closed" THEN <<>> ELSE <<User(a), Auth(a, TRUE)>>, TRUE)
        /\ UNCHANGED lastUser
     \/ FailWebLogin(a)

-----------------------------------------------------------------------------
(* Qt's thread. *)

Delivered(type) == qt = "loop" /\ inbox # <<>> /\ Head(inbox).type = type /\ inbox' = Tail(inbox)

\* Faulty: any answer closes the screen.
HandleAuthResultAnyAnswer ==
  /\ Delivered("auth")
  /\ enabled' = TRUE /\ authDone' = TRUE
  /\ lastToken' = Head(inbox).attempt
  /\ closing' = closing \cup {Head(inbox).attempt}
  /\ UNCHANGED <<threads, form, guards, lastUser, hand, mainv>>

\* Faulty: a failure leaves the form to the timer.
HandleAuthResultLeavesForm ==
  /\ Delivered("auth")
  /\ IF Head(inbox).ok
     THEN /\ lastToken' = Head(inbox).attempt /\ authDone' = TRUE /\ enabled' = TRUE
          /\ closing' = closing \cup {Head(inbox).attempt}
     ELSE UNCHANGED <<lastToken, authDone, enabled, closing>>
  /\ UNCHANGED <<threads, form, guards, lastUser, hand, mainv>>

HandleAuthResult ==
  /\ Delivered("auth")
  /\ enabled' = TRUE
  /\ IF Head(inbox).ok
     THEN /\ lastToken' = Head(inbox).attempt /\ authDone' = TRUE
          /\ closing' = closing \cup {Head(inbox).attempt}
     ELSE UNCHANGED <<lastToken, authDone, closing>>
  /\ UNCHANGED <<threads, form, guards, lastUser, hand, mainv>>

HandleUserResult ==
  /\ Delivered("user")
  /\ lastUser' = Head(inbox).attempt
  /\ UNCHANGED <<threads, screen, hand, mainv>>

HandleRestore ==
  /\ Delivered("restore")
  /\ LeaveWebForm

\* 25 s after the click: the worker has reported 5 s before.
LoginTimeoutGuard(a) ==
  /\ qt = "loop" /\ a \in guards /\ guards' = guards \ {a}
  /\ stage[a] = "done" /\ \A i \in DOMAIN inbox : inbox[i].attempt # a
  /\ enabled' = (enabled \/ ~authDone)
  /\ UNCHANGED <<threads, inbox, form, authDone, lastToken, closing, lastUser, hand, mainv>>

\* on_authenticated stores the token into main's dictionary first.
CloseAndContinue ==
  /\ qt = "loop" /\ closing # {}
  /\ qt' = "handing" /\ call' = lastUser
  /\ result' = [result EXCEPT !.token = lastToken]
  /\ UNCHANGED <<threads, inbox, screen, lastUser, mainv>>

\* Faulty: the event loop is not told to end.
DoCloseKeepsLoop ==
  /\ qt = "handing" /\ qt' = "loop"
  /\ result' = [result EXCEPT !.user = call]
  /\ UNCHANGED <<threads, inbox, screen, lastUser, call, mainv>>

\* Then the user; the window is closed and the event loop ends.
DoClose ==
  /\ qt = "handing" /\ qt' = "closed"
  /\ result' = [result EXCEPT !.user = call]
  /\ UNCHANGED <<threads, inbox, screen, lastUser, call, mainv>>

-----------------------------------------------------------------------------
(* main: _run_auth_flow *)

\* The dictionary is not empty any more: all that is in it is read.
TakeResult ==
  /\ main = "waiting" /\ result # Nothing
  /\ main' = "taken" /\ taken' = result
  /\ UNCHANGED <<threads, inbox, screen, lastUser, hand, deviceToken, session>>

\* Faulty: a PIN without a device token waits again, on the closed screen.
PersistWaitsAgain ==
  /\ main = "taken"
  /\ IF kind[taken.token] = "pin"
     THEN /\ main' = IF deviceToken THEN "joining" ELSE "waiting"
          /\ UNCHANGED <<deviceToken, session>>
     ELSE /\ main' = "joining" /\ deviceToken' = TRUE
          /\ session' = IF taken.user = None THEN session ELSE taken.user
  /\ UNCHANGED <<threads, inbox, screen, lastUser, hand, taken>>

\* A PIN needs a device token from an earlier login.
Persist ==
  /\ main = "taken"
  /\ IF kind[taken.token] = "pin"
     THEN /\ main' = IF deviceToken THEN "joining" ELSE "refusing"
          /\ UNCHANGED <<deviceToken, session>>
     ELSE /\ main' = "joining" /\ deviceToken' = TRUE
          /\ session' = IF taken.user = None THEN session ELSE taken.user
  /\ UNCHANGED <<threads, inbox, screen, lastUser, hand, taken>>

RunService ==
  /\ main = "joining" /\ qt = "closed"
  /\ main' = "serving"
  /\ UNCHANGED <<threads, inbox, screen, lastUser, hand, taken, deviceToken, session>>

\* _run_auth_flow calls itself: a new overlay; the old one's workers report to
\* nobody.
ShowAgain ==
  /\ main = "refusing" /\ qt = "closed"
  /\ main' = "waiting" /\ taken' = Nothing
  /\ form' = "login" /\ enabled' = TRUE /\ authDone' = FALSE
  /\ lastToken' = None /\ lastUser' = None /\ guards' = {} /\ closing' = {}
  /\ cancel' = FALSE /\ inbox' = <<>>
  /\ qt' = "loop" /\ call' = None /\ result' = Nothing
  /\ stage' = [a \in Attempt |-> IF stage[a] = "unused" THEN "unused" ELSE "done"]
  /\ UNCHANGED <<kind, granted, deviceToken, session>>

-----------------------------------------------------------------------------
UserStep(a) == OnLoginClicked(a) \/ OnWebLoginClicked(a) \/ OnPinEntered(a)
WorkerStep(a) == DoDirectLogin(a) \/ DoPinVerify(a) \/ InitWebLogin(a) \/ PollWebLogin(a) \/ AnswerPoll(a)
Handle == HandleAuthResult \/ HandleUserResult \/ HandleRestore
Close == CloseAndContinue \/ DoClose
MainStep == TakeResult \/ Persist \/ RunService \/ ShowAgain

Next ==
  \/ \E a \in Attempt : UserStep(a) \/ WorkerStep(a) \/ LoginTimeoutGuard(a)
  \/ OnWebLoginCancel \/ Handle \/ Close \/ MainStep

Spec == Init /\ [][Next]_vars

\* Requests and checks end, by a timeout if need be; Qt's loop delivers what is
\* queued and closes the screen; main polls. The user owes nothing.
FairSpec ==
  /\ Spec
  /\ \A a \in Attempt : WF_vars(WorkerStep(a))
  /\ WF_vars(Handle) /\ WF_vars(Close) /\ WF_vars(MainStep)

-----------------------------------------------------------------------------
\* Type invariant.
TypeOK ==
  /\ kind \in [Attempt -> Kinds] /\ stage \in [Attempt -> Stages]
  /\ granted \subseteq Attempt /\ cancel \in BOOLEAN
  /\ inbox \in Seq(Messages)
  /\ form \in {"login", "web"} /\ enabled \in BOOLEAN /\ authDone \in BOOLEAN
  /\ lastToken \in Attempt \cup {None} /\ lastUser \in Attempt \cup {None}
  /\ guards \subseteq Attempt /\ closing \subseteq Attempt
  /\ qt \in {"loop", "handing", "closed"} /\ call \in Attempt \cup {None}
  /\ result \in [token : Attempt \cup {None}, user : Attempt \cup {None}]
  /\ taken \in [token : Attempt \cup {None}, user : Attempt \cup {None}]
  /\ main \in {"waiting", "taken", "joining", "refusing", "serving"}
  /\ deviceToken \in BOOLEAN /\ session \in Attempt \cup {None}

\* lockscreen.py:841 - however attempts overlap, time out, are cancelled and
\* answered late, the screen opens only for an attempt that was accepted.
OpensOnlyWhenGranted == qt # "loop" => result.token \in granted

\* main.py:212 - main goes on with the login the screen closed with: nothing that
\* arrives after it has read its dictionary replaces that login.
HandedOverOnce == main # "waiting" => taken.token = result.token

\* token_store.py:211 - the stored user is one who has been accepted, never
\* one of a failed attempt, however the workers and the handover interleave.
StoredUserGranted == session # None => session \in granted

\* lockscreen.py:506 - "so the user is never stuck": while the screen is open, a
\* form that is disabled is enabled again.
NeverStuck == ~enabled ~> enabled \/ qt = "closed"

\* main.py:211 - an accepted login ends the wait: the service starts, or the
\* screen is shown again for a PIN without a device token.
LoginEndsWait == authDone ~> main = "serving" \/ ~authDone

\* lockscreen.py:709 - after a cancel every browser login stops polling, unless
\* another one is started meanwhile.
CancelStopsPolling ==
  cancel ~> ~cancel \/ \A a \in Attempt : stage[a] \notin {"polling", "requesting"}

\* lockscreen.py:515 - "Re-enable the form if no auth result has arrived after
\* the timeout": the timer of an answered attempt leaves the form as it is.
GuardOnlyUnanswered ==
  [][\A a \in guards \ guards' : qt = "loop" /\ stage[a] = "done" => enabled' = enabled]_vars
=============================================================================
