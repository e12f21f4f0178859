--------------------------- MODULE LockScreenProofs ---------------------------
(***************************************************************************)
(* Proofs about LockScreen: its typing, and that the screen opens, main    *)
(* goes on and a user is stored for accepted logins only.                  *)
(***************************************************************************)
EXTENDS LockScreen, TLAPS

\* The messages that report nothing but what has been accepted.
Backed == {m \in Messages : m.ok \/ m.type = "user" => m.attempt \in granted}

\* Wherever a token or a user lies, it is that of an accepted attempt.
GrantInv ==
  /\ inbox \in Seq(Backed)
  /\ lastToken \in granted \cup {None} /\ lastUser \in granted \cup {None}
  /\ call \in granted \cup {None}
  /\ result.token \in granted \cup {None} /\ result.user \in granted \cup {None}
  /\ taken.user \in granted \cup {None} /\ session \in granted \cup {None}

\* The dictionary is filled when the screen closes, once, before main goes on.
HandInv ==
  /\ closing # {} => lastToken # None
  /\ IF qt = "loop" THEN result = Nothing ELSE result.token # None
  /\ main # "waiting" => qt # "loop" /\ taken.token = result.token

IInv == TypeOK /\ GrantInv /\ HandInv

\* The checked properties follow.
LEMMA IInvImplies ==
  IInv => OpensOnlyWhenGranted /\ HandedOverOnce /\ StoredUserGranted
BY DEF IInv, GrantInv, HandInv, OpensOnlyWhenGranted, HandedOverOnce, StoredUserGranted

\* A sequence over a set is one over any larger set.
LEMMA SeqMonotonic ==
  ASSUME NEW S, NEW T, S \subseteq T PROVE Seq(S) \subseteq Seq(T)
OBVIOUS

\* Short sequences over a set.
LEMMA ShortSeq ==
  ASSUME NEW S, NEW x \in S, NEW y \in S
  PROVE  <<>> \in Seq(S) /\ <<x>> \in Seq(S) /\ <<x, y>> \in Seq(S)
OBVIOUS

\* Nobody has logged in at the start.
LEMMA InitInv == Init => IInv
<1> SUFFICES ASSUME Init PROVE IInv
  OBVIOUS
<1>1. TypeOK
  <2>1. inbox \in Seq(Messages)
    BY DEF Init
  <2>2. cancel \in BOOLEAN /\ enabled \in BOOLEAN /\ authDone \in BOOLEAN /\ deviceToken \in BOOLEAN
    BY DEF Init
  <2>3. kind \in [Attempt -> Kinds] /\ stage \in [Attempt -> Stages]
    BY DEF Init, Kinds, Stages
  <2>4. /\ result \in [token : Attempt \cup {None}, user : Attempt \cup {None}]
        /\ taken \in [token : Attempt \cup {None}, user : Attempt \cup {None}]
    BY DEF Init, Nothing
  <2> QED BY <2>1, <2>2, <2>3, <2>4 DEF Init, TypeOK
<1>2. GrantInv
  BY DEF Init, GrantInv, None, Nothing
<1>3. HandInv
  BY DEF Init, HandInv
<1> QED BY <1>1, <1>2, <1>3 DEF IInv

\* Steps that touch neither what is granted nor what has been handed over.
LEMMA QuietStep ==
  ASSUME IInv, UNCHANGED <<granted, inbox, lastToken, closing, lastUser, hand, mainv>>, TypeOK'
  PROVE  IInv'
<1> USE DEF IInv, hand, mainv
<1>1. GrantInv'
  BY DEF GrantInv, Backed
<1>2. HandInv'
  BY DEF HandInv
<1> QED BY <1>1, <1>2

\* The user's clicks (lockscreen.py:497, 589, 743).
LEMMA UserStepInv ==
  ASSUME IInv, NEW a \in Attempt, UserStep(a) PROVE IInv'
<1> USE DEF IInv, hand, mainv
<1>1. ASSUME NEW k \in Kinds, Begin(a, k) PROVE kind' \in [Attempt -> Kinds] /\ stage' \in [Attempt -> Stages]
  BY <1>1 DEF Begin, TypeOK, Stages
<1>2. CASE OnLoginClicked(a)
  <2>1. kind' \in [Attempt -> Kinds] /\ stage' \in [Attempt -> Stages]
    BY <1>1, <1>2 DEF OnLoginClicked, Kinds
  <2>2. enabled' \in BOOLEAN /\ cancel' \in BOOLEAN
    BY <1>2 DEF OnLoginClicked, TypeOK
  <2>3. TypeOK'
    BY <1>2, <2>1, <2>2 DEF OnLoginClicked, TypeOK
  <2> QED BY <1>2, <2>3, QuietStep DEF OnLoginClicked
<1>3. CASE OnWebLoginClicked(a)
  <2>1. kind' \in [Attempt -> Kinds] /\ stage' \in [Attempt -> Stages]
    BY <1>1, <1>3 DEF OnWebLoginClicked, Kinds
  <2>2. enabled' \in BOOLEAN /\ cancel' \in BOOLEAN
    BY <1>3 DEF OnWebLoginClicked, TypeOK
  <2>3. TypeOK'
    BY <1>3, <2>1, <2>2 DEF OnWebLoginClicked, TypeOK
  <2> QED BY <1>3, <2>3, QuietStep DEF OnWebLoginClicked
<1>4. CASE OnPinEntered(a)
  <2>1. kind' \in [Attempt -> Kinds] /\ stage' \in [Attempt -> Stages]
    BY <1>1, <1>4 DEF OnPinEntered, Kinds
  <2>2. enabled' \in BOOLEAN /\ cancel' \in BOOLEAN
    BY <1>4 DEF OnPinEntered, TypeOK
  <2>3. TypeOK'
    BY <1>4, <2>1, <2>2 DEF OnPinEntered, TypeOK
  <2> QED BY <1>4, <2>3, QuietStep DEF OnPinEntered
<1> QED BY <1>2, <1>3, <1>4 DEF UserStep

\* A worker's report: its messages and the user it sets are backed by what it
\* has been granted.
LEMMA ReportStep ==
  ASSUME IInv, NEW a \in Attempt, NEW messages, NEW ok \in BOOLEAN, Report(a, messages, ok),
         messages \in Seq(Backed'), lastUser' \in granted' \cup {None}
  PROVE  IInv'
<1> USE DEF IInv, hand, mainv, screen
<1>1. granted \subseteq granted' /\ granted' \subseteq Attempt
  BY DEF Report, TypeOK
<1>2. Backed \subseteq Backed' /\ Backed' \subseteq Messages
  BY <1>1 DEF Backed
<1>3. inbox' \in Seq(Backed')
  <2>1. inbox \in Seq(Backed')
    BY <1>2, SeqMonotonic DEF GrantInv
  <2> QED BY <2>1 DEF Report
<1>4. TypeOK'
  <2>1. inbox' \in Seq(Messages)
    BY <1>2, <1>3, SeqMonotonic
  <2>2. stage' \in [Attempt -> Stages]
    BY DEF Report, TypeOK, Stages
  <2> QED BY <1>1, <2>1, <2>2 DEF Report, TypeOK
<1>5. GrantInv'
  BY <1>1, <1>3 DEF GrantInv, Report
<1>6. HandInv'
  BY DEF HandInv, Report
<1> QED BY <1>4, <1>5, <1>6

\* A worker that goes on, or ends without a report.
LEMMA StageStep ==
  ASSUME IInv, NEW a \in Attempt, NEW s \in Stages, stage' = [stage EXCEPT ![a] = s],
         UNCHANGED <<kind, granted, cancel, inbox, screen, lastUser, hand, mainv>>
  PROVE  IInv'
<1>1. TypeOK'
  BY DEF IInv, TypeOK, screen, hand, mainv
<1> QED BY <1>1, QuietStep DEF screen

\* The workers (lockscreen.py:522-587, 640-741, 753-772).
LEMMA WorkerStepInv ==
  ASSUME IInv, NEW a \in Attempt, WorkerStep(a) PROVE IInv'
<1>1. \A ok \in BOOLEAN : Auth(a, ok) \in Messages
  BY DEF Auth, Messages
<1>2. User(a) \in Messages /\ Restore(a) \in Messages
  BY DEF User, Restore, Messages
<1>3. ASSUME NEW ok \in BOOLEAN, NEW messages, Report(a, messages, ok) PROVE granted \subseteq granted' /\ (ok => a \in granted')
  BY <1>3 DEF Report
<1>4. Auth(a, FALSE) \in Backed' /\ (a \in granted' => Auth(a, TRUE) \in Backed')
  BY <1>1 DEF Auth, Backed, Messages
<1>5. ASSUME a \in granted' PROVE User(a) \in Backed'
  BY <1>2, <1>5 DEF Backed, User
<1>6. Restore(a) \in Backed'
  BY <1>2 DEF Backed, Restore
<1>7. lastUser \in granted \cup {None}
  BY DEF IInv, GrantInv
<1>8. ASSUME FailWebLogin(a) PROVE IInv'
  <2>1. <<Restore(a)>> \in Seq(Backed') /\ <<>> \in Seq(Backed')
    BY <1>6
  <2>2. PICK messages \in {<<Restore(a)>>, <<>>} : Report(a, messages, FALSE)
    BY <1>8 DEF FailWebLogin
  <2>3. lastUser' \in granted' \cup {None}
    BY <1>3, <1>7, <1>8, <2>2 DEF FailWebLogin
  <2> QED BY <2>1, <2>2, <2>3, ReportStep
<1>9. CASE DoDirectLogin(a)
  <2>1. ASSUME Report(a, <<Auth(a, TRUE), User(a)>>, TRUE) PROVE IInv'
    <3>1. a \in granted'
      BY <2>1 DEF Report
    <3>2. Auth(a, TRUE) \in Backed' /\ User(a) \in Backed'
      BY <1>4, <1>5, <3>1
    <3>3. <<Auth(a, TRUE), User(a)>> \in Seq(Backed')
      BY <3>2, ShortSeq, Zenon
    <3>4. lastUser' \in granted' \cup {None}
      BY <1>3, <1>7, <1>9, <2>1 DEF DoDirectLogin
    <3> QED BY <2>1, <3>3, <3>4, ReportStep
  <2>2. ASSUME Report(a, <<Auth(a, FALSE)>>, FALSE) PROVE IInv'
    <3>1. Auth(a, FALSE) \in Backed'
      BY <1>4
    <3>2. <<Auth(a, FALSE)>> \in Seq(Backed')
      BY <3>1, ShortSeq, Zenon
    <3>3. lastUser' \in granted' \cup {None}
      BY <1>3, <1>7, <1>9, <2>2 DEF DoDirectLogin
    <3> QED BY <2>2, <3>2, <3>3, ReportStep
  <2> QED BY <1>9, <2>1, <2>2 DEF DoDirectLogin
<1>10. CASE DoPinVerify(a)
  <2>1. PICK ok \in BOOLEAN :
          /\ lastUser' = IF ok THEN a ELSE None
          /\ Report(a, IF qt = "closed" THEN <<>> ELSE <<Auth(a, ok)>>, ok)
    BY <1>10 DEF DoPinVerify
  <2>2. (IF qt = "closed" THEN <<>> ELSE <<Auth(a, ok)>>) \in Seq(Backed')
    <3>1. Auth(a, ok) \in Backed'
      <4>1. CASE ok = TRUE
        BY <1>3, <1>4, <2>1, <4>1
      <4>2. CASE ok = FALSE
        BY <1>4, <4>2
      <4> QED BY <4>1, <4>2
    <3> QED BY <3>1
  <2>3. lastUser' \in granted' \cup {None}
    BY <1>3, <2>1
  <2> QED BY <2>1, <2>2, <2>3, ReportStep
<1>11. ASSUME NEW s \in Stages, stage' = [stage EXCEPT ![a] = s],
              UNCHANGED <<kind, granted, cancel, inbox, screen, lastUser, hand, mainv>>
       PROVE IInv'
  BY <1>11, StageStep
<1>12. \A p \in BOOLEAN : \A s \in Stages : (IF p THEN "done" ELSE s) \in Stages
  BY DEF Stages
<1>13. CASE InitWebLogin(a)
  BY <1>8, <1>11, <1>12, <1>13 DEF InitWebLogin, Stages, IInv, TypeOK
<1>14. CASE PollWebLogin(a)
  BY <1>8, <1>11, <1>12, <1>14 DEF PollWebLogin, Stages, IInv, TypeOK
<1>15. CASE AnswerPoll(a)
  <2>1. ASSUME Report(a, IF qt = "closed" THEN <<>> ELSE <<User(a), Auth(a, TRUE)>>, TRUE),
               UNCHANGED lastUser
        PROVE  IInv'
    <3>1. a \in granted'
      BY <2>1 DEF Report
    <3>2. Auth(a, TRUE) \in Backed' /\ User(a) \in Backed'
      BY <1>4, <1>5, <3>1
    <3>3. (IF qt = "closed" THEN <<>> ELSE <<User(a), Auth(a, TRUE)>>) \in Seq(Backed')
      BY <3>2, ShortSeq, Zenon
    <3>4. lastUser' \in granted' \cup {None}
      BY <1>3, <1>7, <2>1
    <3> QED BY <2>1, <3>3, <3>4, ReportStep
  <2> QED BY <1>8, <1>11, <1>15, <2>1 DEF AnswerPoll, Stages
<1> QED BY <1>9, <1>10, <1>13, <1>14, <1>15 DEF WorkerStep

\* What Qt's thread handles is backed, and so is what is left in its queue.
LEMMA DeliveredStep ==
  ASSUME IInv, NEW type, Delivered(type), UNCHANGED granted
  PROVE  Head(inbox) \in Backed /\ inbox' \in Seq(Backed') /\ inbox' \in Seq(Messages)
<1>1. inbox \in Seq(Backed) /\ inbox # <<>> /\ inbox' = Tail(inbox)
  BY DEF IInv, GrantInv, Delivered
<1>2. Head(inbox) \in Backed /\ Tail(inbox) \in Seq(Backed)
  BY <1>1
<1>3. Backed' = Backed /\ Backed \subseteq Messages
  BY DEF Backed
<1> QED BY <1>1, <1>2, <1>3, SeqMonotonic

\* Qt's thread: messages (lockscreen.py:803-836), timer (514), cancel (618).
LEMMA QtStepInv ==
  ASSUME IInv, Handle \/ OnWebLoginCancel \/ \E a \in Attempt : LoginTimeoutGuard(a)
  PROVE  IInv'
<1> USE DEF IInv, hand, mainv, screen, threads
<1>1. CASE HandleAuthResult
  <2>1. /\ Head(inbox) \in Backed /\ inbox' \in Seq(Backed') /\ inbox' \in Seq(Messages)
        /\ Head(inbox).type = "auth" /\ qt = "loop"
    BY <1>1, DeliveredStep DEF HandleAuthResult, Delivered
  <2>2. Head(inbox).attempt \in Attempt /\ (Head(inbox).ok => Head(inbox).attempt \in granted)
    BY <2>1 DEF Backed, Messages
  <2>3. TypeOK'
    <3>1. enabled' \in BOOLEAN /\ authDone' \in BOOLEAN
      BY <1>1 DEF HandleAuthResult, TypeOK
    <3>2. closing' \subseteq Attempt /\ lastToken' \in Attempt \cup {None}
      BY <1>1, <2>2 DEF HandleAuthResult, TypeOK
    <3> QED BY <1>1, <2>1, <3>1, <3>2 DEF HandleAuthResult, TypeOK
  <2>4. GrantInv'
    BY <1>1, <2>1, <2>2 DEF HandleAuthResult, GrantInv
  <2>5. HandInv'
    BY <1>1, <2>2 DEF HandleAuthResult, HandInv, Attempt, None
  <2> QED BY <2>3, <2>4, <2>5
<1>2. CASE HandleUserResult
  <2>1. /\ Head(inbox) \in Backed /\ inbox' \in Seq(Backed') /\ inbox' \in Seq(Messages)
        /\ Head(inbox).type = "user"
    BY <1>2, DeliveredStep DEF HandleUserResult, Delivered
  <2>2. Head(inbox).attempt \in Attempt /\ Head(inbox).attempt \in granted
    BY <2>1 DEF Backed, Messages
  <2>3. TypeOK'
    BY <1>2, <2>1, <2>2 DEF HandleUserResult, TypeOK
  <2>4. GrantInv'
    BY <1>2, <2>1, <2>2 DEF HandleUserResult, GrantInv
  <2>5. HandInv'
    BY <1>2 DEF HandleUserResult, HandInv
  <2> QED BY <2>3, <2>4, <2>5
<1>3. CASE HandleRestore
  <2>1. inbox' \in Seq(Backed') /\ inbox' \in Seq(Messages)
    BY <1>3, DeliveredStep DEF HandleRestore, LeaveWebForm
  <2>2. TypeOK'
    BY <1>3, <2>1 DEF HandleRestore, LeaveWebForm, TypeOK
  <2>3. GrantInv'
    BY <1>3, <2>1 DEF HandleRestore, LeaveWebForm, GrantInv
  <2>4. HandInv'
    BY <1>3 DEF HandleRestore, LeaveWebForm, HandInv
  <2> QED BY <2>2, <2>3, <2>4
<1>4. CASE OnWebLoginCancel
  <2>1. TypeOK'
    BY <1>4 DEF OnWebLoginCancel, LeaveWebForm, TypeOK
  <2> QED BY <1>4, <2>1, QuietStep DEF OnWebLoginCancel, LeaveWebForm
<1>5. ASSUME NEW a \in Attempt, LoginTimeoutGuard(a) PROVE IInv'
  <2>1. TypeOK'
    BY <1>5 DEF LoginTimeoutGuard, TypeOK
  <2> QED BY <1>5, <2>1, QuietStep DEF LoginTimeoutGuard
<1> QED BY <1>1, <1>2, <1>3, <1>4, <1>5 DEF Handle

\* Closing fills the dictionary (main.py:194-197, lockscreen.py:838-902).
LEMMA CloseInv ==
  ASSUME IInv, Close PROVE IInv'
<1> USE DEF IInv, mainv, screen, threads
<1>1. CASE CloseAndContinue
  <2>1. Backed' = Backed
    BY <1>1 DEF CloseAndContinue, Backed
  <2>2. result' = [token |-> lastToken, user |-> result.user]
    BY <1>1 DEF CloseAndContinue, TypeOK
  <2>3. TypeOK'
    BY <1>1, <2>2 DEF CloseAndContinue, TypeOK
  <2>4. GrantInv'
    BY <1>1, <2>1, <2>2 DEF CloseAndContinue, GrantInv
  <2>5. HandInv'
    BY <1>1, <2>2 DEF CloseAndContinue, HandInv
  <2> QED BY <2>3, <2>4, <2>5
<1>2. CASE DoClose
  <2>1. Backed' = Backed
    BY <1>2 DEF DoClose, Backed
  <2>2. result' = [token |-> result.token, user |-> call]
    BY <1>2 DEF DoClose, TypeOK
  <2>3. TypeOK'
    BY <1>2, <2>2 DEF DoClose, TypeOK
  <2>4. GrantInv'
    BY <1>2, <2>1, <2>2 DEF DoClose, GrantInv
  <2>5. HandInv'
    BY <1>2, <2>2 DEF DoClose, HandInv
  <2> QED BY <2>3, <2>4, <2>5
<1> QED BY <1>1, <1>2 DEF Close

\* main takes the login, stores it, serves or shows the screen again
\* (main.py:210-250).
LEMMA MainStepInv ==
  ASSUME IInv, MainStep PROVE IInv'
<1> USE DEF IInv, hand, screen, threads
<1>1. CASE TakeResult
  <2>1. Backed' = Backed
    BY <1>1 DEF TakeResult, Backed
  <2>2. TypeOK'
    BY <1>1 DEF TakeResult, TypeOK
  <2>3. GrantInv'
    BY <1>1, <2>1 DEF TakeResult, GrantInv
  <2>4. HandInv'
    BY <1>1 DEF TakeResult, HandInv
  <2> QED BY <2>2, <2>3, <2>4
<1>2. CASE Persist
  <2>1. Backed' = Backed
    BY <1>2 DEF Persist, Backed
  <2>2. /\ session' = session \/ session' = taken.user
        /\ deviceToken' \in BOOLEAN /\ main' \in {"joining", "refusing"} /\ main = "taken"
        /\ UNCHANGED <<threads, inbox, screen, lastUser, hand, taken>>
    BY <1>2 DEF Persist, TypeOK
  <2>3. TypeOK'
    BY <2>2 DEF TypeOK
  <2>4. GrantInv'
    BY <2>1, <2>2 DEF GrantInv
  <2>5. HandInv'
    BY <2>2 DEF HandInv
  <2> QED BY <2>3, <2>4, <2>5
<1>3. CASE RunService
  <2>1. Backed' = Backed
    BY <1>3 DEF RunService, Backed
  <2>2. TypeOK'
    BY <1>3 DEF RunService, TypeOK
  <2>3. GrantInv'
    BY <1>3, <2>1 DEF RunService, GrantInv
  <2>4. HandInv'
    BY <1>3 DEF RunService, HandInv
  <2> QED BY <2>2, <2>3, <2>4
<1>4. CASE ShowAgain
  <2>1. inbox' = <<>> /\ inbox' \in Seq(Messages) /\ inbox' \in Seq(Backed')
    BY <1>4 DEF ShowAgain
  <2>2. /\ result' \in [token : Attempt \cup {None}, user : Attempt \cup {None}]
        /\ taken' \in [token : Attempt \cup {None}, user : Attempt \cup {None}]
        /\ result' = Nothing /\ taken' = Nothing
    BY <1>4 DEF ShowAgain, Nothing
  <2>3. stage' \in [Attempt -> Stages]
    BY <1>4 DEF ShowAgain, Stages
  <2>4. TypeOK'
    BY <1>4, <2>1, <2>2, <2>3 DEF ShowAgain, TypeOK
  <2>5. GrantInv'
    BY <1>4, <2>1, <2>2 DEF ShowAgain, GrantInv, Nothing
  <2>6. HandInv'
    BY <1>4 DEF ShowAgain, HandInv
  <2> QED BY <2>4, <2>5, <2>6
<1> QED BY <1>1, <1>2, <1>3, <1>4 DEF MainStep

\* Every step keeps the invariant.
LEMMA Inductive == IInv /\ [Next]_vars => IInv'
<1> SUFFICES ASSUME IInv, [Next]_vars PROVE IInv'
  OBVIOUS
<1>1. CASE Next
  BY <1>1, UserStepInv, WorkerStepInv, QtStepInv, CloseInv, MainStepInv DEF Next
<1>2. CASE UNCHANGED vars
  <2>1. TypeOK'
    BY <1>2 DEF IInv, TypeOK, vars, threads, screen, hand, mainv
  <2> QED BY <1>2, <2>1, QuietStep DEF vars, threads, screen
<1> QED BY <1>1, <1>2

\* The invariant holds always.
LEMMA Invariant == Spec => []IInv
BY InitInv, Inductive, PTL DEF Spec

\* lockscreen.py: every attempt, message and field of main's dictionary is of
\* its type, for any number of attempts.
THEOREM TypeCorrect == Spec => []TypeOK
<1>1. IInv => TypeOK
  BY DEF IInv
<1> QED BY <1>1, Invariant, PTL

\* lockscreen.py:841 - whatever attempts overlap, the screen opens for an
\* accepted one only.
THEOREM OpensHolds == Spec => []OpensOnlyWhenGranted
BY Invariant, IInvImplies, PTL

\* main.py:212 - the login that main goes on with is the one the screen closed
\* with.
THEOREM HandedOverHolds == Spec => []HandedOverOnce
BY Invariant, IInvImplies, PTL

\* token_store.py:211 - only an accepted user is stored.
THEOREM StoredUserHolds == Spec => []StoredUserGranted
BY Invariant, IInvImplies, PTL
===============================================================================
