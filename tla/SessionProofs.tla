----------------------------- MODULE SessionProofs -----------------------------
(***************************************************************************)
(* Proofs about Session, for any number of the tray's threads and of       *)
(* grants: types, that an expiry is not a later token's, that a lock       *)
(* sticks, and that no rewrite of the file brings back an older refresh    *)
(* token.                                                                  *)
(***************************************************************************)
EXTENDS Session, TLAPS

Rec == [pc : Pcs, why : Whys, tok : Tokens, new : Tokens, refresh : Tokens, snap : Files]

\* What the threads do there is bound to the mode of the process.
Roles ==
  /\ \A t \in Threads : thread[t].why = "none" <=> thread[t].pc = "idle"
  /\ \A t \in Trays : thread[t].why \in {"none", "tickets"}
  /\ thread["main"].why # "tickets"
  /\ thread["main"].why = "startup" => mode = "starting"
  /\ thread["main"].why \in {"service", "forced"} => mode = "running"
  /\ thread["main"].why = "login" => mode = "login"

\* A log-in only stores what was granted to it, and returns it.
LoggingIn ==
  /\ \A t \in Threads : thread[t].pc = "storeUser" => thread[t].why = "login"
  /\ thread["main"].why = "login" =>
       \/ thread["main"].pc \in Storing \cup {"storeUser"} /\ thread["main"].new # 0
       \/ thread["main"].pc = "return" /\ thread["main"].tok # 0

\* No answer is stored that was not granted.
Granted == keyring.exp <= issued /\ \A t \in Threads : thread[t].new <= issued

\* One thread at a time stores an answer, and it is the newest.
OneStores ==
  ~raced =>
    /\ \A t, u \in Threads : thread[t].pc \in Storing /\ thread[u].pc \in Storing => t = u
    /\ \A t \in Threads :
         /\ thread[t].pc = "storeToken" => keyring.exp <= thread[t].new
         /\ thread[t].pc = "storeExpiry" => keyring.tok \in {0, thread[t].new}
    /\ keyring.tok # 0 => keyring.exp <= keyring.tok

\* A clearing that has begun and is not disturbed has cleared the token.
Cleared ==
  quiet /\ (\E t \in Threads : thread[t].pc \in Clearing \ {"clearToken"}) =>
    keyring.tok = 0 /\ \A t \in Threads : thread[t].pc \notin InFlight

\* After a lock nothing opens the desktop, and nothing is on its way to do so: a
\* thread that still looks for a refresh token finds none, unless another one is
\* writing it back.
Locked ==
  locked =>
    /\ keyring.tok = 0 /\ ~file.user
    /\ mode = "running" => thread["main"].pc = "return" /\ thread["main"].why = "forced"
    /\ thread["main"].why = "startup" => thread["main"].pc = "return" /\ thread["main"].tok = 0
    /\ thread["main"].why # "login"
    /\ \A t \in Threads : thread[t].pc \notin InFlight
    /\ \A t \in Threads : thread[t].pc \in {"expiry", "refresh"} /\ file.refresh # 0 => Busy(t, Clearing)

\* What was last put in the file is there.
Held == held # 0 => file.refresh = held

IInv == TypeOK /\ Roles /\ LoggingIn /\ Granted /\ OneStores /\ Cleared /\ Locked /\ Held
(* The initial states satisfy the invariant. *)
LEMMA InitInv == Init => IInv
<1> SUFFICES ASSUME Init PROVE IInv
  OBVIOUS
<1> USE MaxIssuedAssumption DEF Init
<1>1. 0 \in Tokens /\ NoFile \in Files /\ Idle \in Rec
  BY DEF Tokens, Files, NoFile, Idle, Rec, Pcs, Whys
<1>2. \A t \in Threads : thread[t] = Idle
  OBVIOUS
<1>3. "main" \in Threads /\ Trays \subseteq Threads
  BY DEF Threads
<1>4. TypeOK
  <2>1. keyring \in [tok : Tokens, exp : Tokens] /\ file \in Files /\ memory \in Tokens
    BY <1>1
  <2>2. thread \in [Threads -> Rec]
    BY <1>1
  <2>3. issued \in Tokens /\ live \in 0 .. issued /\ due \in 0 .. issued /\ held \in Tokens
    BY <1>1
  <2>4. quiet \in BOOLEAN /\ raced \in BOOLEAN /\ locked \in BOOLEAN
    BY Zenon
  <2>5. \A t \in Trays : At(t, "idle")
    BY <1>2, <1>3 DEF At, Idle
  <2> QED BY <2>1, <2>2, <2>3, <2>4, <2>5 DEF TypeOK, Rec
<1>5. Roles /\ LoggingIn /\ Granted /\ OneStores /\ Cleared /\ Locked /\ Held
  BY <1>2, <1>3 DEF Idle, Roles, LoggingIn, Granted, OneStores, Cleared, Locked, Held, Storing,
     InFlight, Clearing
<1> QED BY <1>4, <1>5 DEF IInv

(* What a step of thread t does to the threads. *)
Moves(t) ==
  /\ thread' \in [Threads -> Rec]
  /\ \A u \in Threads \ {t} : thread'[u] = thread[u]

LEMMA Updated ==
  ASSUME TypeOK, NEW t \in Threads, NEW r \in Rec, thread' = [thread EXCEPT ![t] = r]
  PROVE  Moves(t) /\ thread'[t] = r
<1>1. thread \in [Threads -> Rec]
  BY DEF TypeOK, Rec
<1> QED BY <1>1 DEF Moves

LEMMA GotoFacts ==
  ASSUME TypeOK, NEW t \in Threads, NEW pc \in Pcs, Goto(t, pc)
  PROVE  /\ Moves(t) /\ thread'[t].pc = pc
         /\ \A f \in {"why", "tok", "new", "refresh", "snap"} : thread'[t][f] = thread[t][f]
BY DEF TypeOK, Goto, Moves, Rec

LEMMA ReturnFacts ==
  ASSUME TypeOK, NEW t \in Threads, NEW tok \in Tokens, Return(t, tok)
  PROVE  /\ Moves(t) /\ thread'[t].pc = "return" /\ thread'[t].why = thread[t].why
         /\ thread'[t].new = 0 /\ thread'[t].tok = Kept(t, tok)
<1>1. 0 \in Tokens /\ NoFile \in Files
  BY MaxIssuedAssumption DEF Tokens, Files, NoFile
<1>2. [Idle EXCEPT !.pc = "return", !.why = thread[t].why, !.tok = Kept(t, tok)] \in Rec
  BY <1>1 DEF TypeOK, Idle, Kept, Rec, Pcs
<1> QED BY <1>2 DEF TypeOK, Return, Moves, Idle, Rec

(* One thread goes on, and the stores, the process and what is granted stay as *)
(* they are: what is to be shown of its new record.                            *)
LEMMA ThreadStep ==
  ASSUME IInv, NEW t \in Threads, Moves(t),
         UNCHANGED <<keyring, file, memory, mode, issued, due, held, raced>>,
         live' \in 0 .. issued, quiet' \in BOOLEAN, locked' \in BOOLEAN,
         quiet' => quiet, locked' => locked,
         thread[t].pc \notin Storing \cup {"idle", "return", "storeUser"},
         thread'[t].pc \notin Storing \cup {"idle", "storeUser"},
         thread'[t].why = thread[t].why, thread'[t].new <= issued,
         quiet' /\ thread'[t].pc \in Clearing \ {"clearToken"} => thread[t].pc \in Clearing \ {"clearToken"},
         thread'[t].pc \in InFlight => ~locked' /\ (thread[t].pc \in InFlight \/ ~Busy(t, Clearing) \/ ~quiet'),
         locked' /\ thread[t].pc \in Clearing => thread'[t].pc \in Clearing,
         thread'[t].pc \in {"expiry", "refresh"} => thread[t].pc \in {"expiry", "refresh"}
  PROVE  IInv'
<1> USE DEF IInv, Moves
<1>1. "main" \in Threads /\ Trays \subseteq Threads
  BY DEF Threads
<1>2. TypeOK'
  <2>1. mode # "running" => \A u \in Trays : thread'[u].pc = "idle"
    BY <1>1 DEF TypeOK, At
  <2> QED BY <2>1 DEF TypeOK, Rec, At
<1>3. Roles'
  BY <1>1 DEF Roles
<1>4. LoggingIn'
  BY <1>1 DEF LoggingIn
<1>5. Granted'
  BY DEF Granted
<1>6. OneStores'
  BY DEF OneStores, Storing
<1>7. Cleared'
  BY DEF Cleared, Busy, InFlight, Storing, Clearing
<1>8. Locked'
  BY <1>1 DEF Locked, Busy, InFlight, Storing, Clearing
<1>9. Held'
  BY DEF Held
<1> QED BY <1>2, <1>3, <1>4, <1>5, <1>6, <1>7, <1>8, <1>9

(* The reads before a refresh. *)
LEMMA ReadStep ==
  ASSUME IInv, NEW t \in Threads, ReadExpiry(t) \/ ReadRefresh(t)
  PROVE  IInv'
<1>0. TypeOK /\ 0 \in Tokens /\ thread[t].tok \in Tokens /\ issued \in Nat /\ live \in 0 .. issued
  BY MaxIssuedAssumption DEF IInv, TypeOK, Tokens
<1>1. /\ thread[t].pc \in {"expiry", "refresh"} /\ thread[t].new <= issued
      /\ UNCHANGED <<keyring, file, memory, mode, issued, live, due, held, raced>>
  BY DEF ReadExpiry, ReadRefresh, At, IInv, Granted, store, portal, history
<1>2. \/ \E tok \in Tokens : Return(t, tok) /\ UNCHANGED <<quiet, locked>>
      \/ Goto(t, "refresh") /\ UNCHANGED <<quiet, locked>>
      \/ /\ thread' = [thread EXCEPT ![t].pc = "post", ![t].refresh = file.refresh] /\ file.refresh # 0
         /\ quiet' = (quiet /\ ~Busy(t, Clearing)) /\ locked' = (locked /\ ~Busy(t, Clearing))
         /\ thread[t].pc = "refresh"
  BY <1>0 DEF ReadExpiry, ReadRefresh, At, history
<1>3. ASSUME NEW tok \in Tokens, Return(t, tok), UNCHANGED <<quiet, locked>> PROVE IInv'
  <2>1. /\ Moves(t) /\ thread'[t].pc = "return" /\ thread'[t].why = thread[t].why
        /\ thread'[t].new = 0
    BY <1>0, <1>3, ReturnFacts
  <2> QED BY <1>0, <1>1, <1>3, <2>1, ThreadStep DEF IInv, TypeOK, Storing, InFlight, Clearing
<1>4. CASE Goto(t, "refresh") /\ UNCHANGED <<quiet, locked>>
  <2>1. /\ Moves(t) /\ thread'[t].pc = "refresh" /\ thread'[t].why = thread[t].why
        /\ thread'[t].new = thread[t].new
    BY <1>0, <1>4, GotoFacts DEF Pcs
  <2> QED BY <1>0, <1>1, <1>4, <2>1, ThreadStep DEF IInv, TypeOK, Storing, InFlight, Clearing
<1>5. CASE /\ thread' = [thread EXCEPT ![t].pc = "post", ![t].refresh = file.refresh] /\ file.refresh # 0
           /\ quiet' = (quiet /\ ~Busy(t, Clearing)) /\ locked' = (locked /\ ~Busy(t, Clearing))
           /\ thread[t].pc = "refresh"
  <2>1. /\ Moves(t) /\ thread'[t].pc = "post" /\ thread'[t].why = thread[t].why
        /\ thread'[t].new = thread[t].new
    <3>1. thread \in [Threads -> Rec] /\ file.refresh \in Tokens /\ "post" \in Pcs
      <4>1. thread \in [Threads -> Rec] /\ file \in Files
        BY <1>0 DEF TypeOK, Rec
      <4>2. file.refresh \in Tokens
        BY <4>1 DEF Files
      <4>3. "post" \in Pcs
        BY DEF Pcs, InFlight
      <4> QED BY <4>1, <4>2, <4>3
    <3>2. [thread[t] EXCEPT !.pc = "post", !.refresh = file.refresh] \in Rec
      BY <3>1 DEF Rec
    <3>3. thread' = [thread EXCEPT ![t] = [thread[t] EXCEPT !.pc = "post", !.refresh = file.refresh]]
      BY <1>5
    <3>4. /\ thread' \in [Threads -> Rec] /\ \A u \in Threads \ {t} : thread'[u] = thread[u]
          /\ thread'[t] = [thread[t] EXCEPT !.pc = "post", !.refresh = file.refresh]
      BY <3>1, <3>2, <3>3
    <3> QED BY <3>1, <3>4 DEF Moves, Rec
  <2>2. ~locked'
    BY <1>5 DEF IInv, Locked
  <2> QED BY <1>0, <1>1, <1>5, <2>1, <2>2, ThreadStep DEF IInv, TypeOK, Storing, InFlight, Clearing
<1> QED BY <1>2, <1>3, <1>4, <1>5

(* What the portal grants. *)
LEMMA GrantFacts ==
  ASSUME TypeOK, NEW rotates \in BOOLEAN, Grant(rotates)
  PROVE  issued' = issued + 1 /\ issued' \in Tokens /\ live' \in 0 .. issued' /\ due \in 0 .. issued'
BY MaxIssuedAssumption DEF Grant, TypeOK, Tokens

(* A request that is not granted to the end. *)
LEMMA PostStep ==
  ASSUME IInv, NEW t \in Threads, PostAnswerLost(t) \/ PostFails(t) \/ PostRefused(t)
  PROVE  IInv'
<1>0. TypeOK /\ 0 \in Tokens /\ thread[t].tok \in Tokens /\ issued \in Nat /\ live \in 0 .. issued
  BY MaxIssuedAssumption DEF IInv, TypeOK, Tokens, Rec
<1>1. /\ thread[t].pc = "post" /\ thread[t].new <= issued
      /\ UNCHANGED <<keyring, file, memory, mode, due, held, raced, quiet, locked>>
  BY DEF PostAnswerLost, PostFails, PostRefused, At, IInv, Granted, store, history, portal
<1>2. CASE PostRefused(t)
  <2>1. /\ Moves(t) /\ thread'[t].pc = "clearToken" /\ thread'[t].why = thread[t].why
        /\ thread'[t].new = thread[t].new
    <3> DEFINE r == [thread[t] EXCEPT !.pc = "clearToken", !.refresh = 0]
    <3>1. thread[t] \in Rec /\ "clearToken" \in Pcs
      BY <1>0 DEF TypeOK, Rec, Pcs, Clearing
    <3>2. r \in Rec /\ r.pc = "clearToken" /\ r.why = thread[t].why /\ r.new = thread[t].new
      BY <1>0, <3>1 DEF Rec
    <3>3. thread' = [thread EXCEPT ![t] = r]
      BY <1>2 DEF PostRefused
    <3> HIDE DEF r
    <3>4. Moves(t) /\ thread'[t] = r
      BY <1>0, <3>2, <3>3, Updated
    <3> QED BY <3>2, <3>4
  <2>2. UNCHANGED <<issued, live>>
    BY <1>2 DEF PostRefused, portal
  <2> QED BY <1>0, <1>1, <2>1, <2>2, ThreadStep DEF IInv, TypeOK, Storing, InFlight, Clearing
<1>3. CASE PostAnswerLost(t) \/ PostFails(t)
  <2>1. /\ Moves(t) /\ thread'[t].pc = "return" /\ thread'[t].why = thread[t].why
        /\ thread'[t].new = 0
    BY <1>0, <1>3, ReturnFacts DEF PostAnswerLost, PostFails
  <2>2. CASE PostFails(t)
    BY <1>0, <1>1, <2>1, <2>2, ThreadStep DEF PostFails, portal, IInv, TypeOK, Storing, InFlight, Clearing
  <2>3. CASE PostAnswerLost(t)
    <3>1. issued' = issued + 1 /\ issued' \in Tokens /\ live' \in 0 .. issued' /\ due \in 0 .. issued'
      BY <1>0, <2>3, GrantFacts DEF PostAnswerLost
    <3>2. "main" \in Threads /\ Trays \subseteq Threads
      BY DEF Threads
    <3>4. TypeOK'
      BY <1>0, <1>1, <2>1, <3>1, <3>2 DEF Moves, TypeOK, Rec, At
    <3>5. Granted'
      BY <1>0, <1>1, <2>1, <3>1 DEF Moves, IInv, Granted, TypeOK, Tokens, Rec
    <3>6. Roles' /\ LoggingIn' /\ OneStores' /\ Held'
      BY <1>1, <2>1, <3>2 DEF Moves, IInv, Roles, LoggingIn, OneStores, Held, Storing
    <3>7. Cleared' /\ Locked'
      BY <1>1, <2>1, <3>2 DEF Moves, IInv, Cleared, Locked, Busy, InFlight, Storing, Clearing
    <3> QED BY <3>4, <3>5, <3>6, <3>7 DEF IInv
  <2> QED BY <1>3, <2>2, <2>3
<1> QED BY <1>2, <1>3

(* A thread with an answer goes on: no lock has happened, no clearing is *)
(* undisturbed, and the rest is what the step does to the stores.        *)
LEMMA StoringStep ==
  ASSUME IInv, NEW t \in Threads, Moves(t), thread[t].pc \in InFlight \cup {"storeUser"},
         thread'[t].pc \in Storing \cup {"storeUser", "return"}, thread'[t].why = thread[t].why,
         thread'[t].pc = "storeUser" => thread[t].why = "login",
         thread[t].pc = "storeUser" => thread'[t].pc = "return",
         thread[t].why = "login" =>
           IF thread'[t].pc = "return" THEN thread'[t].tok # 0 ELSE thread'[t].new # 0,
         keyring' \in [tok : Tokens, exp : Tokens], file' \in Files,
         issued' \in Tokens, live' \in 0 .. issued', due' \in 0 .. issued', held' \in Tokens,
         raced' \in BOOLEAN, UNCHANGED <<memory, mode, quiet, locked>>,
         Granted', OneStores', Held'
  PROVE  IInv'
<1> USE DEF IInv, Moves
<1>1. "main" \in Threads /\ Trays \subseteq Threads
  BY DEF Threads
<1>2. thread[t].pc = "storeUser" => mode = "login" /\ t = "main" /\ thread["main"].why = "login"
  BY DEF LoggingIn, Roles, Threads
<1>3. ~locked
  BY <1>2 DEF Locked
<1>4. TypeOK'
  BY <1>1, <1>2 DEF TypeOK, Rec, At, InFlight, Storing
<1>5. Roles'
  BY <1>1 DEF Roles, InFlight, Storing
<1>6. LoggingIn'
  BY <1>1 DEF LoggingIn, Storing, InFlight
<1>7. Cleared'
  <2>1. CASE thread[t].pc \in InFlight
    BY <2>1 DEF Cleared, Storing, InFlight, Clearing
  <2>2. CASE thread[t].pc = "storeUser"
    <3>1. \A u \in Threads : thread'[u].pc \notin Clearing
      BY <1>2, <2>2 DEF TypeOK, Threads, At, Clearing
    <3> QED BY <3>1 DEF Cleared
  <2> QED BY <2>1, <2>2
<1>8. Locked'
  BY <1>3 DEF Locked
<1> QED BY <1>4, <1>5, <1>6, <1>7, <1>8

(* A refresh is granted, and its answer is stored, entry by entry. *)
LEMMA GrantedStep ==
  ASSUME IInv, NEW t \in Threads, PostGranted(t)
  PROVE  IInv'
<1>0. TypeOK /\ issued \in Nat /\ 0 \in Tokens
  BY MaxIssuedAssumption DEF IInv, TypeOK, Tokens
<1>1. PICK rotates \in BOOLEAN :
        /\ Grant(rotates)
        /\ thread' = [thread EXCEPT ![t].pc = "storeToken", ![t].tok = 0, ![t].new = issued',
                                    ![t].refresh = IF rotates THEN issued' ELSE 0]
  BY DEF PostGranted
<1>2. issued' = issued + 1 /\ issued' \in Tokens /\ live' \in 0 .. issued' /\ due \in 0 .. issued'
  BY <1>0, <1>1, GrantFacts
<1>3. /\ Moves(t) /\ thread'[t].pc = "storeToken" /\ thread'[t].why = thread[t].why
      /\ thread'[t].new = issued'
  <2>1. thread[t] \in Rec /\ thread \in [Threads -> Rec]
    BY <1>0 DEF TypeOK, Rec
  <2>2. (IF rotates THEN issued' ELSE 0) \in Tokens /\ "storeToken" \in Pcs
    BY <1>0, <1>2 DEF Pcs, InFlight, Storing
  <2> DEFINE refresh == IF rotates THEN issued' ELSE 0
             r == [thread[t] EXCEPT !.pc = "storeToken", !.tok = 0, !.new = issued', !.refresh = refresh]
  <2>3. refresh \in Tokens /\ thread' = [thread EXCEPT ![t] = r]
    BY <1>1, <2>2
  <2> HIDE DEF refresh
  <2> DEFINE s == [thread[t] EXCEPT !.pc = "storeToken", !.tok = 0]
  <2>4. s \in Rec /\ s.pc = "storeToken" /\ s.why = thread[t].why
    BY <1>0, <2>1, <2>2 DEF Rec
  <2>7. r = [s EXCEPT !.new = issued', !.refresh = refresh]
    OBVIOUS
  <2> HIDE DEF s, r
  <2>5. r \in Rec /\ r.pc = "storeToken" /\ r.why = thread[t].why /\ r.new = issued'
    BY <1>2, <2>3, <2>4, <2>7 DEF Rec
  <2>6. Moves(t) /\ thread'[t] = r
    BY <1>0, <2>3, <2>5, Updated
  <2> QED BY <2>5, <2>6
<1>4. /\ thread[t].pc = "post" /\ raced' = (raced \/ Busy(t, Storing))
      /\ UNCHANGED <<keyring, file, memory, mode, due, held, quiet, locked>>
  BY DEF PostGranted, At, store
<1>5. Granted'
  BY <1>0, <1>2, <1>3, <1>4 DEF Moves, IInv, Granted, TypeOK, Tokens, Rec
<1>6. OneStores'
  <2> SUFFICES ASSUME ~raced' PROVE OneStores'
    BY DEF OneStores
  <2>1. ~raced /\ \A u \in Threads \ {t} : thread[u].pc \notin Storing
    BY <1>4 DEF Busy
  <2>2. keyring.exp <= issued'
    BY <1>0, <1>2 DEF IInv, Granted, TypeOK, Tokens
  <2> QED BY <1>3, <1>4, <2>1, <2>2 DEF Moves, IInv, OneStores, Storing
<1>7. Held'
  BY <1>4 DEF IInv, Held
<1>8. thread[t].why # "login"
  BY <1>4 DEF IInv, LoggingIn, Roles, Threads, Storing
<1> QED BY <1>0, <1>2, <1>3, <1>4, <1>5, <1>6, <1>7, <1>8, StoringStep DEF IInv, TypeOK, InFlight, Storing

(* What a thread does when its answer is stored. *)
LEMMA StoredFacts ==
  ASSUME TypeOK, NEW t \in Threads, Stored(t)
  PROVE  /\ Moves(t) /\ thread'[t].why = thread[t].why /\ thread'[t].new \in {0, thread[t].new}
         /\ thread'[t].pc = IF thread[t].why = "login" THEN "storeUser" ELSE "return"
         /\ thread[t].why = "login" => thread'[t].new = thread[t].new
<1>1. CASE thread[t].why = "login"
  <2>1. thread' = [thread EXCEPT ![t].pc = "storeUser", ![t].refresh = 0, ![t].snap = NoFile]
    BY <1>1 DEF Stored
  <2>2. 0 \in Tokens /\ NoFile \in Files
    BY MaxIssuedAssumption DEF Tokens, Files, NoFile
  <2> DEFINE r == [thread[t] EXCEPT !.pc = "storeUser", !.refresh = 0, !.snap = NoFile]
  <2>3. thread[t] \in Rec /\ "storeUser" \in Pcs
    BY DEF TypeOK, Rec, Pcs
  <2>4. r \in Rec /\ r.pc = "storeUser" /\ r.why = thread[t].why /\ r.new = thread[t].new
    BY <2>2, <2>3 DEF Rec
  <2>5. thread' = [thread EXCEPT ![t] = r]
    BY <2>1
  <2> HIDE DEF r
  <2>6. Moves(t) /\ thread'[t] = r
    BY <2>4, <2>5, Updated
  <2> QED BY <1>1, <2>4, <2>6
<1>2. CASE thread[t].why # "login"
  <2>1. Return(t, thread[t].new) /\ thread[t].new \in Tokens
    BY <1>2 DEF Stored, TypeOK, Rec
  <2> QED BY <1>2, <2>1, ReturnFacts
<1> QED BY <1>1, <1>2

\* An answer is being stored.
LEMMA AnswerFacts ==
  ASSUME IInv, NEW t \in Threads, thread[t].pc \in Storing
  PROVE  /\ thread[t].new \in Tokens /\ thread[t].new <= issued
         /\ thread[t].refresh \in Tokens /\ thread[t].snap \in Files
         /\ thread[t].why = "login" => thread[t].new # 0
BY DEF IInv, TypeOK, Rec, Granted, LoggingIn, Roles, Threads, Storing

(* The two writes to the keyring, or its refusal. *)
LEMMA KeyringStep ==
  ASSUME IInv, NEW t \in Threads,
         \/ StoreToken(t) \/ StoreExpiry(t)
         \/ thread[t].pc \in {"storeToken", "storeExpiry"} /\ KeyringFails(t)
  PROVE  IInv'
<1>0. TypeOK /\ issued \in Nat /\ 0 \in Tokens
  BY MaxIssuedAssumption DEF IInv, TypeOK, Tokens
<1>1. /\ thread[t].pc \in {"storeToken", "storeExpiry"}
      /\ UNCHANGED <<file, memory, mode, issued, live, due, held, quiet, raced, locked>>
  BY DEF StoreToken, StoreExpiry, KeyringFails, At, store, portal, history, Clearing
<1>2. /\ thread[t].new \in Tokens /\ thread[t].new <= issued
      /\ thread[t].why = "login" => thread[t].new # 0
  BY <1>1, AnswerFacts DEF Storing
<1>3. \/ thread[t].pc = "storeToken" /\ Goto(t, "storeExpiry")
         /\ keyring' = [keyring EXCEPT !.tok = thread[t].new]
      \/ /\ Goto(t, "readFile") \/ Stored(t)
         /\ \/ keyring' = keyring
            \/ thread[t].pc = "storeExpiry" /\ keyring' = [keyring EXCEPT !.exp = thread[t].new]
  BY <1>1 DEF StoreToken, StoreExpiry, KeyringFails, At, store, Clearing
<1>4. /\ Moves(t) /\ thread'[t].why = thread[t].why /\ thread'[t].new \in {0, thread[t].new}
      /\ thread'[t].pc \in {"storeExpiry", "readFile", "storeUser", "return"}
      /\ thread'[t].pc = "storeExpiry" =>
           /\ thread[t].pc = "storeToken" /\ thread'[t].new = thread[t].new
           /\ keyring' = [keyring EXCEPT !.tok = thread[t].new]
      /\ thread'[t].pc = "return" => thread[t].why # "login"
      /\ thread'[t].pc = "storeUser" => thread[t].why = "login"
      /\ thread[t].why = "login" => thread'[t].new = thread[t].new
  BY <1>0, <1>1, <1>3, GotoFacts, StoredFacts DEF Pcs, InFlight, Storing
<1>5. keyring' \in [tok : Tokens, exp : Tokens] /\ keyring \in [tok : Tokens, exp : Tokens]
  BY <1>0, <1>2, <1>3 DEF TypeOK
<1>6. Granted'
  BY <1>0, <1>1, <1>2, <1>3, <1>4, <1>5 DEF Moves, IInv, Granted
<1>7. OneStores'
  <2> SUFFICES ASSUME ~raced PROVE OneStores'
    BY <1>1 DEF OneStores
  <2>1. \A u \in Threads \ {t} : thread'[u].pc \notin Storing
    BY <1>1, <1>4 DEF Moves, IInv, OneStores, Storing
  <2>2. thread[t].pc = "storeToken" => keyring.exp <= thread[t].new
    BY DEF IInv, OneStores
  <2>3. thread[t].pc = "storeExpiry" => keyring.tok \in {0, thread[t].new}
    BY DEF IInv, OneStores
  <2>4. keyring.tok # 0 => keyring.exp <= keyring.tok
    BY DEF IInv, OneStores
  <2>5. keyring'.tok # 0 => keyring'.exp <= keyring'.tok
    BY <1>0, <1>2, <1>3, <1>5, <2>2, <2>3, <2>4 DEF Tokens
  <2>6. thread'[t].pc = "storeExpiry" => keyring'.tok = thread'[t].new
    BY <1>4, <1>5
  <2> QED BY <1>4, <2>1, <2>5, <2>6 DEF OneStores, Storing
<1>8. Held'
  BY <1>1 DEF IInv, Held
<1> QED BY <1>0, <1>1, <1>2, <1>4, <1>5, <1>6, <1>7, <1>8, StoringStep
        DEF IInv, TypeOK, InFlight, Storing

(* The token file is read and written back, and a log-in adds the user. *)
LEMMA FileStep ==
  ASSUME IInv, NEW t \in Threads, ReadFile(t) \/ WriteFile(t) \/ StoreUser(t)
  PROVE  IInv'
<1>0. TypeOK /\ issued \in Nat /\ 0 \in Tokens /\ NoFile \in Files
  BY MaxIssuedAssumption DEF IInv, TypeOK, Tokens, Files, NoFile
<1>1. /\ thread[t].pc \in {"readFile", "writeFile", "storeUser"}
      /\ UNCHANGED <<keyring, memory, mode, issued, live, due, quiet, raced, locked>>
  BY DEF ReadFile, WriteFile, StoreUser, At, store, portal, history
<1>2. /\ thread[t].new \in Tokens /\ thread[t].new <= issued
      /\ thread[t].why = "login" => thread[t].new # 0
  <2>1. CASE thread[t].pc \in Storing
    BY <2>1, AnswerFacts
  <2>2. CASE thread[t].pc = "storeUser"
    BY <2>2 DEF IInv, TypeOK, Rec, Granted, LoggingIn, Roles, Threads
  <2> QED BY <1>1, <2>1, <2>2 DEF Storing
<1>3. CASE ReadFile(t)
  <2>1. PICK f \in Readable(t) : thread' = [thread EXCEPT ![t].pc = "writeFile", ![t].snap = f]
    BY <1>3 DEF ReadFile
  <2>2. f \in Files
    BY <1>0, <2>1 DEF Readable, TypeOK
  <2>3. /\ Moves(t) /\ thread'[t].pc = "writeFile" /\ thread'[t].why = thread[t].why
        /\ thread'[t].new = thread[t].new
    <3> DEFINE r == [thread[t] EXCEPT !.pc = "writeFile", !.snap = f]
    <3>1. thread[t] \in Rec /\ "writeFile" \in Pcs
      BY <1>0 DEF TypeOK, Rec, Pcs, InFlight, Storing
    <3>2. r \in Rec /\ r.pc = "writeFile" /\ r.why = thread[t].why /\ r.new = thread[t].new
      BY <2>2, <3>1 DEF Rec
    <3>3. thread' = [thread EXCEPT ![t] = r]
      BY <2>1
    <3> HIDE DEF r
    <3>4. Moves(t) /\ thread'[t] = r
      BY <1>0, <3>2, <3>3, Updated
    <3> QED BY <3>2, <3>4
  <2>4. thread[t].pc = "readFile" /\ UNCHANGED <<file, held>>
    BY <1>3 DEF ReadFile, At, store, history
  <2>5. Granted' /\ OneStores' /\ Held'
    BY <1>1, <1>2, <2>3, <2>4 DEF Moves, IInv, Granted, OneStores, Held, Storing
  <2> QED BY <1>0, <1>1, <1>2, <2>3, <2>4, <2>5, StoringStep DEF IInv, TypeOK, InFlight, Storing
<1>4. CASE WriteFile(t)
  <2>1. /\ thread[t].pc = "writeFile" /\ Stored(t) /\ held' = thread[t].refresh
        /\ file' = [thread[t].snap EXCEPT !.refresh = thread[t].refresh]
    BY <1>4 DEF WriteFile, At
  <2>2. thread[t].refresh \in Tokens /\ thread[t].snap \in Files
    BY <2>1, AnswerFacts DEF Storing
  <2>3. file' \in Files /\ file'.refresh = held' /\ held' \in Tokens
    BY <2>1, <2>2 DEF Files
  <2>4. /\ Moves(t) /\ thread'[t].why = thread[t].why /\ thread'[t].new \in {0, thread[t].new}
        /\ thread'[t].pc = IF thread[t].why = "login" THEN "storeUser" ELSE "return"
        /\ thread[t].why = "login" => thread'[t].new = thread[t].new
    BY <1>0, <2>1, StoredFacts
  <2>5. Granted'
    BY <1>0, <1>1, <1>2, <2>4 DEF Moves, IInv, Granted
  <2>6. OneStores' /\ Held'
    BY <1>1, <2>1, <2>3, <2>4 DEF Moves, IInv, OneStores, Held, Storing
  <2> QED BY <1>0, <1>1, <1>2, <2>1, <2>3, <2>4, <2>5, <2>6, StoringStep DEF IInv, TypeOK, InFlight, Storing
<1>5. CASE StoreUser(t)
  <2>1. /\ thread[t].pc = "storeUser" /\ thread[t].why = "login"
        /\ Return(t, thread[t].new) /\ file' = [file EXCEPT !.user = TRUE] /\ held' = held
    BY <1>5 DEF StoreUser, At, history, IInv, LoggingIn
  <2>2. Kept(t, thread[t].new) = thread[t].new
    BY <2>1 DEF Kept, IInv, Roles, Threads
  <2>3. /\ Moves(t) /\ thread'[t].pc = "return" /\ thread'[t].why = thread[t].why
        /\ thread'[t].new = 0 /\ thread'[t].tok = thread[t].new
    BY <1>0, <1>2, <2>1, <2>2, ReturnFacts
  <2>4. file' \in Files /\ file'.refresh = file.refresh
    BY <1>0, <2>1 DEF TypeOK, Files
  <2>5. Granted'
    BY <1>0, <1>1, <2>3 DEF Moves, IInv, Granted
  <2>6. OneStores'
    BY <1>1, <2>3 DEF Moves, IInv, OneStores, Storing
  <2>7. Held'
    BY <2>1, <2>4 DEF IInv, Held
  <2> QED BY <1>0, <1>1, <1>2, <2>1, <2>3, <2>4, <2>5, <2>6, <2>7, StoringStep DEF IInv, TypeOK, InFlight, Storing
<1> QED BY <1>3, <1>4, <1>5

(* A clearing goes on.  Nothing of it brings a token, a user or an answer back. *)
LEMMA ClearingStep ==
  ASSUME IInv, NEW t \in Threads, Moves(t), thread[t].pc \in Clearing,
         thread'[t].pc \in (Clearing \ {"clearToken"}) \cup {"return"},
         thread'[t].why = thread[t].why, thread'[t].new <= issued,
         keyring' \in [tok : Tokens, exp : Tokens], file' \in Files, held' \in Tokens,
         keyring'.tok \in {0, keyring.tok}, keyring'.exp \in {0, keyring.exp},
         file'.user => file.user, quiet' \in BOOLEAN, locked' \in BOOLEAN,
         UNCHANGED <<memory, mode, portal, due, raced>>,
         quiet' => \/ quiet /\ thread[t].pc # "clearToken"
                   \/ keyring'.tok = 0 /\ ~Busy(t, InFlight),
         IF thread'[t].pc = "return"
         THEN /\ file'.refresh = 0 /\ ~file'.user
              /\ locked' => locked \/ (thread[t].why = "forced" /\ quiet /\ thread[t].pc # "clearToken")
         ELSE locked' => locked,
         Held'
  PROVE  IInv'
<1> USE DEF IInv, Moves, portal
<1>1. "main" \in Threads /\ Trays \subseteq Threads
  BY DEF Threads
<1>2. /\ keyring.tok \in Nat /\ keyring.exp \in Nat /\ issued \in Nat
      /\ \A u \in Threads : thread[u].new \in Nat
  BY MaxIssuedAssumption DEF TypeOK, Tokens
<1>3. TypeOK'
  BY <1>1 DEF TypeOK, Rec, At, Clearing
<1>4. Roles'
  BY <1>1 DEF Roles, Clearing
<1>5. LoggingIn'
  BY <1>1 DEF LoggingIn, Storing, Clearing
<1>6. Granted'
  BY <1>2 DEF Granted
<1>7. OneStores'
  <2> SUFFICES ASSUME ~raced PROVE OneStores'
    BY DEF OneStores
  <2>1. \A u \in Threads : thread'[u].pc \in Storing => u # t /\ thread'[u] = thread[u]
    BY DEF Storing, Clearing
  <2>2. keyring'.exp <= keyring.exp
    BY <1>2
  <2>3. keyring'.tok # 0 => keyring'.exp <= keyring'.tok
    BY <1>2, <2>2 DEF OneStores
  <2>4. \A u \in Threads :
          /\ thread'[u].pc = "storeToken" => keyring'.exp <= thread'[u].new
          /\ thread'[u].pc = "storeExpiry" => keyring'.tok \in {0, thread'[u].new}
    BY <1>2, <2>1, <2>2 DEF OneStores, Storing
  <2> QED BY <2>1, <2>3, <2>4 DEF OneStores
<1>8. Cleared'
  BY DEF Cleared, Busy, InFlight, Storing, Clearing
<1>9. Locked'
  <2>1. CASE locked
    BY <1>1, <2>1 DEF Locked, Busy, InFlight, Storing, Clearing
  <2>2. CASE ~locked /\ locked'
    <3>1. /\ thread'[t].pc = "return" /\ file'.refresh = 0 /\ ~file'.user
          /\ thread[t].why = "forced" /\ t = "main" /\ mode = "running"
      BY <1>1, <2>2 DEF Roles, Threads
    <3>2. keyring.tok = 0 /\ \A u \in Threads : thread[u].pc \notin InFlight
      BY <2>2 DEF Cleared
    <3> QED BY <1>1, <3>1, <3>2 DEF Locked, InFlight, Storing
  <2> QED BY <2>1, <2>2 DEF Locked
<1> QED BY <1>3, <1>4, <1>5, <1>6, <1>7, <1>8, <1>9

(* clear_all_credentials, step by step. *)
LEMMA ClearStep ==
  ASSUME IInv, NEW t \in Threads,
         \/ ClearToken(t) \/ ClearExpiry(t) \/ ClearReadUser(t) \/ ClearWriteUser(t) \/ ClearFile(t)
         \/ thread[t].pc \in {"clearToken", "clearExpiry"} /\ KeyringFails(t)
  PROVE  IInv'
<1>0. TypeOK /\ issued \in Nat /\ 0 \in Tokens /\ NoFile \in Files
  BY MaxIssuedAssumption DEF IInv, TypeOK, Tokens, Files, NoFile
<1>1. /\ thread[t].tok \in Tokens /\ thread[t].new <= issued /\ thread[t].snap \in Files
      /\ Clearing \subseteq Pcs
  BY <1>0 DEF TypeOK, Rec, IInv, Granted, Pcs
<1>2. CASE ClearToken(t)
  <2>1. \E pc \in {"clearReadUser", "clearExpiry"} : Goto(t, pc)
    BY <1>2 DEF ClearToken
  <2>2. /\ Moves(t) /\ thread'[t].pc \in {"clearReadUser", "clearExpiry"}
        /\ thread'[t].why = thread[t].why /\ thread'[t].new = thread[t].new
    BY <1>0, <1>1, <2>1, GotoFacts DEF Clearing
  <2>3. /\ keyring' = [keyring EXCEPT !.tok = 0] /\ thread[t].pc = "clearToken" /\ quiet' = ~Busy(t, InFlight)
        /\ UNCHANGED <<file, memory, mode, portal, due, held, raced, locked>>
    BY <1>2 DEF ClearToken, At
  <2> QED BY <1>0, <1>1, <2>2, <2>3, ClearingStep DEF IInv, TypeOK, Clearing, Held
<1>3. CASE ClearExpiry(t)
  <2>1. Goto(t, "clearReadUser") /\ "clearReadUser" \in Pcs
    BY <1>3 DEF ClearExpiry, Pcs, Clearing
  <2>2. /\ Moves(t) /\ thread'[t].pc = "clearReadUser"
        /\ thread'[t].why = thread[t].why /\ thread'[t].new = thread[t].new
    BY <1>0, <2>1, GotoFacts
  <2>3. /\ keyring' = [keyring EXCEPT !.exp = 0] /\ thread[t].pc = "clearExpiry"
        /\ UNCHANGED <<file, memory, mode, portal, due, held, quiet, raced, locked>>
    BY <1>3 DEF ClearExpiry, At, history
  <2> QED BY <1>0, <1>1, <2>2, <2>3, ClearingStep DEF IInv, TypeOK, Clearing, Held
<1>4. CASE ClearReadUser(t)
  <2>1. PICK f \in Readable(t) :
          thread' = [thread EXCEPT ![t].pc = IF f.user THEN "clearWriteUser" ELSE "clearFile",
                                   ![t].snap = IF f.user THEN f ELSE NoFile]
    BY <1>4 DEF ClearReadUser
  <2>2. f \in Files
    BY <1>0, <2>1 DEF Readable, TypeOK
  <2>3. /\ Moves(t) /\ thread'[t].pc \in {"clearWriteUser", "clearFile"}
        /\ thread'[t].why = thread[t].why /\ thread'[t].new = thread[t].new
    <3> DEFINE pc == IF f.user THEN "clearWriteUser" ELSE "clearFile"
               snap == IF f.user THEN f ELSE NoFile
               r == [thread[t] EXCEPT !.pc = pc, !.snap = snap]
    <3>1. thread[t] \in Rec /\ pc \in {"clearWriteUser", "clearFile"} /\ pc \in Pcs
      BY <1>0 DEF TypeOK, Rec, Pcs, Clearing
    <3>2. snap \in Files
      BY <1>1, <2>2, MaxIssuedAssumption DEF Files, NoFile, Tokens
    <3>3. thread' = [thread EXCEPT ![t] = r]
      BY <2>1
    <3> HIDE DEF pc, snap
    <3>4. r \in Rec /\ r.pc = pc /\ r.why = thread[t].why /\ r.new = thread[t].new
      BY <3>1, <3>2 DEF Rec
    <3> HIDE DEF r
    <3>5. Moves(t) /\ thread'[t] = r
      BY <1>0, <3>3, <3>4, Updated
    <3> QED BY <3>1, <3>4, <3>5
  <2>4. thread[t].pc = "clearReadUser" /\ UNCHANGED <<keyring, file, memory, mode, portal, due, held, quiet, raced, locked>>
    BY <1>4 DEF ClearReadUser, At, store, history
  <2> QED BY <1>0, <1>1, <2>3, <2>4, ClearingStep DEF IInv, TypeOK, Clearing, Held
<1>5. CASE ClearWriteUser(t)
  <2>1. /\ Moves(t) /\ thread'[t].pc = "clearFile"
        /\ thread'[t].why = thread[t].why /\ thread'[t].new = thread[t].new
    BY <1>0, <1>1, <1>5 DEF ClearWriteUser, Moves, TypeOK, Rec, Clearing
  <2>2. /\ thread[t].pc = "clearWriteUser" /\ file' = [thread[t].snap EXCEPT !.user = FALSE] /\ held' = 0
        /\ UNCHANGED <<keyring, memory, mode, portal, due, quiet, raced, locked>>
    BY <1>5 DEF ClearWriteUser, At
  <2>3. file' \in Files /\ ~file'.user
    BY <1>1, <2>2 DEF Files
  <2> QED BY <1>0, <1>1, <2>1, <2>2, <2>3, ClearingStep DEF IInv, TypeOK, Clearing, Held
<1>6. CASE ClearFile(t)
  <2>1. Return(t, thread[t].tok)
    BY <1>6 DEF ClearFile
  <2>2. /\ Moves(t) /\ thread'[t].pc = "return"
        /\ thread'[t].why = thread[t].why /\ thread'[t].new = 0
    BY <1>0, <1>1, <2>1, ReturnFacts
  <2>3. /\ thread[t].pc = "clearFile" /\ file' = NoFile /\ held' = 0
        /\ locked' = (locked \/ (thread[t].why = "forced" /\ quiet))
        /\ UNCHANGED <<keyring, memory, mode, portal, due, quiet, raced>>
    BY <1>6 DEF ClearFile, At
  <2>4. file' \in Files /\ file'.refresh = 0 /\ ~file'.user
    BY <1>0, <2>3 DEF NoFile
  <2> QED BY <1>0, <1>1, <2>2, <2>3, <2>4, ClearingStep DEF IInv, TypeOK, Clearing, Held
<1>7. CASE thread[t].pc \in {"clearToken", "clearExpiry"} /\ KeyringFails(t)
  <2>1. Goto(t, "clearReadUser") /\ "clearReadUser" \in Pcs /\ quiet' = FALSE
    BY <1>7 DEF KeyringFails, Pcs, Clearing
  <2>2. /\ Moves(t) /\ thread'[t].pc = "clearReadUser"
        /\ thread'[t].why = thread[t].why /\ thread'[t].new = thread[t].new
    BY <1>0, <2>1, GotoFacts
  <2>3. UNCHANGED <<keyring, file, memory, mode, portal, due, held, raced, locked>>
    BY <1>7 DEF KeyringFails, store
  <2> QED BY <1>0, <1>1, <1>7, <2>1, <2>2, <2>3, ClearingStep DEF IInv, TypeOK, Clearing, Held
<1> QED BY <1>2, <1>3, <1>4, <1>5, <1>6, <1>7

(* A look at the token: the first step of a refresh, for any of its reasons. *)
LEMMA CheckStep ==
  ASSUME IInv, NEW t \in Threads, NEW why \in {"startup", "service", "tickets"},
         Check(t, why), UNCHANGED mode,
         IF why = "tickets" THEN t \in Trays /\ mode = "running" /\ keyring.tok # 0 ELSE t = "main",
         why = "startup" => mode = "starting", why = "service" => mode = "running"
  PROVE  IInv'
<1>0. TypeOK /\ 0 \in Tokens /\ issued \in Nat /\ NoFile \in Files /\ "main" \in Threads /\ Trays \subseteq Threads
  BY MaxIssuedAssumption DEF IInv, TypeOK, Tokens, Files, NoFile, Threads
<1>1. thread[t].pc = "idle" /\ UNCHANGED <<keyring, file, memory, mode, issued, live, due, held, quiet, raced, locked>>
  BY DEF Check, At, store, portal, history
<1>2. Kept(t, keyring.tok) \in {0, keyring.tok} /\ keyring.tok \in Tokens
  BY <1>0 DEF Kept, TypeOK
<1>3. /\ Moves(t) /\ thread'[t].pc = (IF keyring.tok = 0 THEN "return" ELSE "expiry")
      /\ thread'[t].why = why /\ thread'[t].new = 0 /\ thread'[t].tok = Kept(t, keyring.tok)
  <2> DEFINE r == [Idle EXCEPT !.pc = IF keyring.tok = 0 THEN "return" ELSE "expiry", !.why = why,
                               !.tok = Kept(t, keyring.tok)]
  <2>1. r \in Rec
    BY <1>0, <1>2 DEF Idle, Rec, Pcs, Whys
  <2>2. thread' = [thread EXCEPT ![t] = r]
    BY DEF Check
  <2>3. /\ r.pc = (IF keyring.tok = 0 THEN "return" ELSE "expiry") /\ r.why = why /\ r.new = 0
        /\ r.tok = Kept(t, keyring.tok)
    BY DEF Idle
  <2> HIDE DEF r
  <2> QED BY <1>0, <2>1, <2>2, <2>3 DEF Moves, TypeOK, Rec
<1>4. TypeOK'
  BY <1>0, <1>1, <1>3, TraysAssumption DEF Moves, TypeOK, Rec, At
<1>5. Roles'
  BY <1>0, <1>1, <1>3, TraysAssumption DEF Moves, IInv, Roles
<1>6. LoggingIn'
  BY <1>0, <1>1, <1>3, TraysAssumption DEF Moves, IInv, LoggingIn
<1>7. Granted'
  BY <1>0, <1>1, <1>3 DEF Moves, IInv, Granted
<1>8. OneStores' /\ Held'
  BY <1>1, <1>3 DEF Moves, IInv, OneStores, Held, Storing
<1>9. Cleared'
  BY <1>1, <1>3 DEF Moves, IInv, Cleared, InFlight, Storing, Clearing
<1>10. Locked'
  BY <1>0, <1>1, <1>2, <1>3, TraysAssumption DEF Moves, IInv, Locked, Busy, InFlight, Storing, Clearing
<1> QED BY <1>4, <1>5, <1>6, <1>7, <1>8, <1>9, <1>10 DEF IInv

(* The process ends: no thread is left. *)
LEMMA KillStep == ASSUME IInv, Kill PROVE IInv'
<1>0. TypeOK /\ 0 \in Tokens /\ issued \in Nat /\ NoFile \in Files /\ "main" \in Threads /\ Trays \subseteq Threads
  BY MaxIssuedAssumption DEF IInv, TypeOK, Tokens, Files, NoFile, Threads
<1>1. /\ mode' = "down" /\ memory' = 0 /\ thread' = [t \in Threads |-> Idle]
      /\ UNCHANGED <<keyring, portal, due, quiet, raced, locked>>
      /\ \/ UNCHANGED <<file, held>>
         \/ file' = NoFile /\ held' = 0
  BY DEF Kill
<1>2. Idle \in Rec /\ Idle.pc = "idle" /\ Idle.why = "none" /\ Idle.new = 0
  BY <1>0 DEF Idle, Rec, Pcs, Whys
<1>3. thread' \in [Threads -> Rec] /\ \A t \in Threads : thread'[t] = Idle
  BY <1>1, <1>2
<1>4. /\ file' \in Files /\ held' \in Tokens /\ (~file.user => ~file'.user)
      /\ held' # 0 => file' = file /\ held' = held
  <2>1. CASE UNCHANGED <<file, held>>
    BY <1>0, <2>1 DEF TypeOK
  <2>2. CASE file' = NoFile /\ held' = 0
    BY <1>0, <2>2 DEF NoFile
  <2> QED BY <1>1, <2>1, <2>2
<1>5. TypeOK'
  BY <1>0, <1>1, <1>2, <1>3, <1>4 DEF TypeOK, Rec, At, portal
<1>6. Roles' /\ LoggingIn'
  BY <1>0, <1>2, <1>3 DEF Roles, LoggingIn
<1>7. Granted'
  BY <1>0, <1>1, <1>2, <1>3 DEF IInv, Granted, portal
<1>8. OneStores' /\ Cleared'
  BY <1>0, <1>1, <1>2, <1>3 DEF IInv, OneStores, Cleared, Storing, Clearing
<1>9. Locked' /\ Held'
  BY <1>0, <1>1, <1>2, <1>3, <1>4 DEF IInv, Locked, Held, InFlight, Storing
<1> QED BY <1>5, <1>6, <1>7, <1>8, <1>9 DEF IInv

(* The process starts, and a token opens the desktop at once. *)
LEMMA OpenStep == ASSUME IInv, Start \/ Restore \/ PinLogIn PROVE IInv'
<1>0. TypeOK /\ "main" \in Threads /\ Trays \subseteq Threads
  BY DEF IInv, Threads
<1>1. /\ mode # "running" /\ UNCHANGED <<keyring, file, thread, issued, live, due, held, quiet, raced, locked>>
      /\ \/ mode = "down" /\ mode' = "starting" /\ memory' = memory
         \/ /\ thread["main"].pc = "idle" /\ keyring.tok # 0
            /\ \/ mode' = "login" /\ memory' = memory
               \/ mode' = "running" /\ memory' = keyring.tok
  BY DEF Start, Restore, PinLogIn, Run, At, store, portal, history
<1>2. TypeOK'
  BY <1>0, <1>1 DEF TypeOK, At
<1>3. Roles' /\ LoggingIn'
  BY <1>0, <1>1 DEF IInv, Roles, LoggingIn
<1>4. Granted' /\ OneStores' /\ Cleared' /\ Held'
  BY <1>1 DEF IInv, Granted, OneStores, Cleared, Held
<1>5. Locked'
  BY <1>0, <1>1 DEF IInv, Locked, Roles, Busy
<1> QED BY <1>2, <1>3, <1>4, <1>5 DEF IInv

(* A log-in is granted: only the main thread is there to store it. *)
LEMMA LogInStep == ASSUME IInv, LogIn PROVE IInv'
<1>0. TypeOK /\ 0 \in Tokens /\ issued \in Nat /\ NoFile \in Files /\ "main" \in Threads /\ Trays \subseteq Threads
  BY MaxIssuedAssumption DEF IInv, TypeOK, Tokens, Files, NoFile, Threads
<1>1. PICK rotates \in BOOLEAN :
        /\ Grant(rotates)
        /\ thread' = [thread EXCEPT !["main"] =
             [Idle EXCEPT !.pc = "storeToken", !.why = "login", !.new = issued', !.refresh = IF rotates THEN issued' ELSE 0]]
  BY DEF LogIn
<1>2. issued' = issued + 1 /\ issued' \in Tokens /\ live' \in 0 .. issued' /\ due \in 0 .. issued'
  BY <1>0, <1>1, GrantFacts
<1>3. /\ mode = "login" /\ ~locked' /\ locked' \in BOOLEAN
      /\ UNCHANGED <<keyring, file, memory, mode, due, held, quiet, raced>>
  BY DEF LogIn, store
<1>4. \A t \in Threads : thread[t].pc = "idle"
  BY <1>0, <1>3 DEF LogIn, At, TypeOK, Threads
<1>5. /\ Moves("main") /\ thread'["main"].pc = "storeToken" /\ thread'["main"].why = "login"
      /\ thread'["main"].new = issued'
  <2> DEFINE r == [Idle EXCEPT !.pc = "storeToken", !.why = "login", !.new = issued',
                               !.refresh = IF rotates THEN issued' ELSE 0]
  <2>1. r \in Rec
    BY <1>0, <1>2 DEF Idle, Rec, Pcs, InFlight, Storing, Whys
  <2>2. thread' = [thread EXCEPT !["main"] = r] /\ r.pc = "storeToken" /\ r.why = "login" /\ r.new = issued'
    BY <1>1 DEF Idle
  <2> HIDE DEF r
  <2> QED BY <1>0, <2>1, <2>2 DEF Moves, TypeOK, Rec
<1>6. TypeOK'
  BY <1>0, <1>2, <1>3, <1>5, TraysAssumption DEF Moves, TypeOK, Rec, At
<1>7. Roles' /\ LoggingIn'
  BY <1>0, <1>2, <1>3, <1>4, <1>5, TraysAssumption DEF Moves, IInv, Roles, LoggingIn, Storing
<1>8. Granted'
  BY <1>0, <1>2, <1>3, <1>5 DEF Moves, IInv, Granted, TypeOK, Tokens, Rec
<1>9. OneStores'
  <2>1. \A t \in Threads : thread'[t].pc \in Storing => t = "main"
    BY <1>4, <1>5 DEF Moves, Storing
  <2>2. keyring.exp <= issued'
    BY <1>0, <1>2 DEF IInv, Granted, TypeOK, Tokens
  <2> QED BY <1>3, <1>5, <2>1, <2>2 DEF IInv, OneStores, Storing
<1>10. Cleared' /\ Locked' /\ Held'
  <2>1. \A t \in Threads : thread'[t].pc \notin Clearing
    BY <1>4, <1>5 DEF Moves, Clearing
  <2> QED BY <1>3, <2>1 DEF IInv, Cleared, Locked, Held
<1> QED BY <1>6, <1>7, <1>8, <1>9, <1>10 DEF IInv

(* The portal orders a clearing. *)
LEMMA ForcedStep == ASSUME IInv, Forced PROVE IInv'
<1>0. TypeOK /\ 0 \in Tokens /\ issued \in Nat /\ NoFile \in Files /\ "main" \in Threads /\ Trays \subseteq Threads
  BY MaxIssuedAssumption DEF IInv, TypeOK, Tokens, Files, NoFile, Threads
<1>1. /\ mode = "running" /\ thread["main"].pc = "idle"
      /\ UNCHANGED <<keyring, file, memory, mode, issued, live, due, held, quiet, raced, locked>>
  BY DEF Forced, At, store, portal, history
<1>2. ~locked
  BY <1>1 DEF IInv, Locked
<1>3. /\ Moves("main") /\ thread'["main"].pc = "clearToken" /\ thread'["main"].why = "forced"
      /\ thread'["main"].new = 0
  <2> DEFINE r == [Idle EXCEPT !.pc = "clearToken", !.why = "forced"]
  <2>1. r \in Rec
    BY <1>0 DEF Idle, Rec, Pcs, Clearing, Whys
  <2>2. thread' = [thread EXCEPT !["main"] = r] /\ r.pc = "clearToken" /\ r.why = "forced" /\ r.new = 0
    BY DEF Forced, Idle
  <2> HIDE DEF r
  <2> QED BY <1>0, <2>1, <2>2 DEF Moves, TypeOK, Rec
<1>4. TypeOK'
  BY <1>0, <1>1, <1>3, TraysAssumption DEF Moves, TypeOK, Rec, At
<1>5. Roles' /\ LoggingIn'
  BY <1>0, <1>1, <1>3, TraysAssumption DEF Moves, IInv, Roles, LoggingIn
<1>6. Granted'
  BY <1>0, <1>1, <1>3 DEF Moves, IInv, Granted
<1>7. OneStores' /\ Held'
  BY <1>1, <1>3 DEF Moves, IInv, OneStores, Held, Storing
<1>8. Cleared'
  BY <1>1, <1>3 DEF Moves, IInv, Cleared, InFlight, Storing, Clearing
<1>9. Locked'
  BY <1>1, <1>2 DEF Locked
<1> QED BY <1>4, <1>5, <1>6, <1>7, <1>8, <1>9 DEF IInv

(* A thread that is done goes idle; the main thread's token may open the desktop. *)
LEMMA IdleStep ==
  ASSUME IInv, NEW t \in Threads, thread[t].pc = "return",
         thread' = [thread EXCEPT ![t] = Idle],
         UNCHANGED <<keyring, file, issued, live, due, held, quiet, raced, locked>>,
         mode' \in {"login", "running"}, memory' \in Tokens, mode' = "running" <=> memory' # 0,
         mode # "running" => t = "main",
         mode' # mode => t = "main" /\ mode # "running",
         locked /\ t = "main" => mode' # "running"
  PROVE  IInv'
<1>0. TypeOK /\ 0 \in Tokens /\ issued \in Nat /\ NoFile \in Files /\ "main" \in Threads /\ Trays \subseteq Threads
  BY MaxIssuedAssumption DEF IInv, TypeOK, Tokens, Files, NoFile, Threads
<1>1. Idle \in Rec /\ Idle.pc = "idle" /\ Idle.why = "none" /\ Idle.new = 0
  BY <1>0 DEF Idle, Rec, Pcs, Whys
<1>2. Moves(t) /\ thread'[t] = Idle
  BY <1>0, <1>1 DEF Moves, TypeOK, Rec
<1>3. TypeOK'
  BY <1>0, <1>1, <1>2, TraysAssumption DEF Moves, TypeOK, Rec, At
<1>4. Roles' /\ LoggingIn'
  BY <1>0, <1>1, <1>2, TraysAssumption DEF Moves, IInv, Roles, LoggingIn
<1>5. Granted'
  BY <1>0, <1>1, <1>2 DEF Moves, IInv, Granted
<1>6. OneStores' /\ Held' /\ Cleared'
  BY <1>1, <1>2 DEF Moves, IInv, OneStores, Held, Cleared, InFlight, Storing, Clearing
<1>7. Locked'
  BY <1>0, <1>1, <1>2, TraysAssumption DEF Moves, IInv, Locked, Roles, Busy, InFlight, Storing, Clearing
<1> QED BY <1>3, <1>4, <1>5, <1>6, <1>7 DEF IInv

(* The ends of a refresh and of a log-in. *)
LEMMA ReturnStep ==
  ASSUME IInv,
         \/ ServiceReturns \/ StartupReturns \/ LoginReturns \/ \E t \in Trays : TicketsReturn(t)
  PROVE  IInv'
<1>0. TypeOK /\ 0 \in Tokens /\ "main" \in Threads /\ Trays \subseteq Threads /\ thread["main"].tok \in Tokens
  BY MaxIssuedAssumption DEF IInv, TypeOK, Tokens, Threads, Rec
<1>1. CASE ServiceReturns
  <2>1. thread["main"].why = "service" /\ mode = "running" /\ mode' = mode /\ ~locked
    BY <1>0, <1>1 DEF ServiceReturns, Done, IInv, Roles, Locked
  <2>2. memory' \in Tokens /\ memory' # 0
    BY <1>0, <1>1, <2>1 DEF ServiceReturns, TypeOK
  <2> QED BY <1>0, <1>1, <2>1, <2>2, IdleStep DEF ServiceReturns, Done, At, store, portal, history
<1>2. CASE StartupReturns
  <2>1. thread["main"].why = "startup" /\ mode = "starting" /\ memory = 0
    BY <1>0, <1>2 DEF StartupReturns, Done, IInv, Roles, TypeOK
  <2>2. /\ mode' \in {"login", "running"} /\ memory' \in Tokens
        /\ mode' = "running" <=> memory' # 0
        /\ mode' = "running" => thread["main"].tok # 0
    BY <1>0, <1>2, <2>1 DEF StartupReturns, Run
  <2>3. locked => mode' # "running"
    BY <2>1, <2>2 DEF IInv, Locked
  <2> QED BY <1>0, <1>2, <2>1, <2>2, <2>3, IdleStep DEF StartupReturns, Done, At, store, portal, history
<1>3. CASE LoginReturns
  <2>1. thread["main"].why = "login" /\ mode = "login" /\ ~locked /\ thread["main"].tok # 0
    BY <1>0, <1>3 DEF LoginReturns, Done, At, IInv, Roles, LoggingIn, Locked, Storing
  <2>2. mode' = "running" /\ memory' = thread["main"].tok
    BY <1>3 DEF LoginReturns, Run
  <2> QED BY <1>0, <1>3, <2>1, <2>2, IdleStep DEF LoginReturns, Done, At, store, portal, history
<1>4. ASSUME NEW t \in Trays, TicketsReturn(t) PROVE IInv'
  <2>1. mode = "running" /\ memory # 0 /\ memory \in Tokens /\ t # "main" /\ t \in Threads
    BY <1>0, <1>4, TraysAssumption DEF TicketsReturn, Done, At, TypeOK
  <2> QED BY <1>0, <1>4, <2>1, IdleStep DEF TicketsReturn, Done, At, store, portal, history
<1> QED BY <1>1, <1>2, <1>3, <1>4

(* The portal revokes, and time passes. *)
LEMMA OutsideStep == ASSUME IInv, Revoke \/ Age PROVE IInv'
<1>1. /\ UNCHANGED <<keyring, file, memory, mode, thread, issued, held, quiet, raced, locked>>
      /\ live' \in {0, live} /\ due' \in {due, due + 1}
      /\ due' # due => due < issued
  BY DEF Revoke, Age, store, portal, history
<1>2. TypeOK'
  BY <1>1, MaxIssuedAssumption DEF IInv, TypeOK, At, Tokens
<1> QED BY <1>1, <1>2 DEF IInv, Roles, LoggingIn, Granted, OneStores, Cleared, Locked, Held, Busy

(* Every step keeps the invariant. *)
LEMMA Inductive == IInv /\ [Next]_vars => IInv'
<1> SUFFICES ASSUME IInv, [Next]_vars PROVE IInv'
  OBVIOUS
<1>0. "main" \in Threads /\ Trays \subseteq Threads
  BY DEF Threads
<1>1. CASE UNCHANGED vars
  BY <1>1 DEF vars, store, portal, history, IInv, TypeOK, At, Roles, LoggingIn, Granted, OneStores,
     Cleared, Locked, Held, Busy
<1>2. ASSUME NEW t \in Threads, Step(t) PROVE IInv'
  <2>1. KeyringFails(t) => \/ thread[t].pc \in {"storeToken", "storeExpiry"}
                           \/ thread[t].pc \in {"clearToken", "clearExpiry"}
    BY DEF KeyringFails
  <2> QED BY <1>2, <2>1, ReadStep, PostStep, GrantedStep, KeyringStep, FileStep, ClearStep DEF Step
<1>3. CASE ServiceTick \/ RefreshAtStart \/ \E t \in Trays : TicketsRefresh(t)
  BY <1>0, <1>3, CheckStep DEF ServiceTick, RefreshAtStart, TicketsRefresh
<1>4. CASE Kill \/ ForcedReturns
  BY <1>4, KillStep DEF ForcedReturns
<1>5. CASE \/ ServiceReturns \/ StartupReturns \/ LoginReturns
           \/ \E t \in Trays : TicketsReturn(t)
  BY <1>5, ReturnStep
<1>6. CASE Start \/ Restore \/ PinLogIn \/ LogIn \/ Forced \/ Revoke \/ Age
  BY <1>6, OpenStep, LogInStep, ForcedStep, OutsideStep
<1> QED BY <1>0, <1>1, <1>2, <1>3, <1>4, <1>5, <1>6 DEF Next, MainStep

(* The bookkeeping of the threads and the stores. *)
LEMMA Invariant == Spec => []IInv
BY InitInv, Inductive, PTL DEF Spec

(* Types, and that only the main thread works while no service runs. *)
THEOREM TypeCorrect == Spec => []TypeOK
<1>1. IInv => TypeOK
  BY DEF IInv
<1> QED BY <1>1, Invariant, PTL

(* Wherever the two writes are interrupted, a stored expiry is never a later *)
(* token's, unless two threads stored answers at the same time.              *)
THEOREM ExpiryNotLaterHolds == Spec => []ExpiryNotLater
<1>1. IInv => ExpiryNotLater
  BY DEF IInv, OneStores, ExpiryNotLater
<1> QED BY <1>1, Invariant, PTL

(* After an undisturbed clearing on the portal's order nothing but a log-in *)
(* that is granted opens the desktop.                                       *)
THEOREM LockSticksHolds == Spec => []LockSticks
<1>1. IInv => LockSticks
  BY DEF IInv, Locked, LockSticks, At
<1> QED BY <1>1, Invariant, PTL

(* No rewrite of the token file puts an older refresh token over the one that *)
(* the portal accepts.                                                        *)
THEOREM RefreshUsableHolds == Spec => []RefreshUsable
<1>1. IInv => RefreshUsable
  BY DEF IInv, Held, RefreshUsable
<1> QED BY <1>1, Invariant, PTL
=============================================================================
