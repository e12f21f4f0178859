------------------------------- MODULE Session -------------------------------
(***************************************************************************)
(* The credentials of the device: the token and its expiry in the keyring, *)
(* the refresh token and the user in the token file, the token the running *)
(* service uses, and the portal's side of a refresh.  The main thread      *)
(* (start-up, log-in, the service's event loop) and the tray's threads     *)
(* refresh, store and clear them one write at a time, without a lock.  A   *)
(* token is the number of the answer that granted it; 0 is an absent one.  *)
(***************************************************************************)
EXTENDS Integers

CONSTANTS Trays,     \* the tray's worker threads
          MaxIssued  \* bound: how many tokens the portal grants

ASSUME TraysAssumption == "main" \notin Trays
ASSUME MaxIssuedAssumption == MaxIssued \in Nat

VARIABLES
  keyring,  \* device_token and device_token_expires; an expiry is its token's number
  file,     \* TOKEN_FILE: the refresh token, and whether a user is there
  memory,   \* AgentService.tokens.token
  mode,     \* of the agent process
  thread,   \* of each thread: what it does next, why, and its locals
  issued,   \* answers the portal has granted
  live,     \* the refresh token the portal accepts, 0 after a revocation
  due,      \* tokens up to this one are inside check_and_refresh_token's cushion
  \* History, which no action reads:
  held,     \* the refresh token last put in the file and neither cleared nor lost to a kill since
  quiet,    \* since the last clearing began: no refresh of another thread under way, no keyring error
  raced,    \* two granted answers were stored at the same time
  locked    \* cleared on the portal's order; since then nobody has logged in, and no
            \* refresh has read the token file while another thread was clearing

store   == <<keyring, file>>
portal  == <<issued, live>>
history == <<held, quiet, raced, locked>>
vars    == <<store, memory, mode, thread, portal, due, history>>

Threads == Trays \cup {"main"}
Tokens  == 0 .. MaxIssued
Files   == [refresh : Tokens, user : BOOLEAN]
NoFile  == [refresh |-> 0, user |-> FALSE]

Idle == [pc |-> "idle", why |-> "none", tok |-> 0, new |-> 0, refresh |-> 0, snap |-> NoFile]

Storing  == {"storeToken", "storeExpiry", "readFile", "writeFile"}
InFlight == Storing \cup {"post"}
Clearing == {"clearToken", "clearExpiry", "clearReadUser", "clearWriteUser", "clearFile"}

At(t, pc) == thread[t].pc = pc
Goto(t, pc) == thread' = [thread EXCEPT ![t].pc = pc]
\* A tray's thread does not keep the token: its retry reads the keyring anew.
Kept(t, tok) == IF t = "main" THEN tok ELSE 0
Return(t, tok) == thread' = [thread EXCEPT ![t] = [Idle EXCEPT !.pc = "return", !.why = thread[t].why, !.tok = Kept(t, tok)]]
Busy(t, pcs) == \E u \in Threads \ {t} : thread[u].pc \in pcs

\* _read_token_file: a file that another thread is writing may be empty, or not
\* whole, which is read as no data.
Rewriting == {"writeFile", "clearWriteUser"}
Readable(t) == {file} \cup (IF Busy(t, Rewriting) THEN {NoFile} ELSE {})

Init ==
  /\ keyring = [tok |-> 0, exp |-> 0] /\ file = NoFile /\ memory = 0
  /\ mode = "down" /\ thread = [t \in Threads |-> Idle]
  /\ issued = 0 /\ live = 0 /\ due = 0
  /\ held = 0 /\ quiet = TRUE /\ raced = FALSE /\ locked = FALSE

-----------------------------------------------------------------------------
(* check_and_refresh_token, refresh_token_action: one step per access. *)

\* get_device_token, the first read.
Check(t, why) ==
  /\ At(t, "idle")
  /\ thread' = [thread EXCEPT ![t] =
       [Idle EXCEPT !.pc = IF keyring.tok = 0 THEN "return" ELSE "expiry", !.why = why, !.tok = Kept(t, keyring.tok)]]
  /\ UNCHANGED <<store, memory, portal, due, history>>

ReadExpiry(t) ==
  /\ At(t, "expiry")
  /\ \/ keyring.exp > due /\ Return(t, thread[t].tok)
     \/ keyring.exp <= due /\ Goto(t, "refresh")   \* due, or no expiry stored
  /\ UNCHANGED <<store, memory, mode, portal, due, history>>

ReadRefresh(t) ==
  /\ At(t, "refresh")
  /\ \/ 0 \in {f.refresh : f \in Readable(t)} /\ Return(t, 0) /\ UNCHANGED <<quiet, locked>>
     \/ /\ file.refresh # 0
        /\ thread' = [thread EXCEPT ![t].pc = "post", ![t].refresh = file.refresh]
        /\ quiet' = (quiet /\ ~Busy(t, Clearing)) /\ locked' = (locked /\ ~Busy(t, Clearing))
  /\ UNCHANGED <<store, memory, mode, portal, due, held, raced>>

\* What the portal grants for the live refresh token: a device token, and a new
\* refresh token that replaces the one used, or none.
Grant(rotates) ==
  /\ issued < MaxIssued /\ issued' = issued + 1
  /\ live' = IF rotates THEN issued' ELSE live

PostGranted(t) ==
  /\ At(t, "post") /\ thread[t].refresh = live
  /\ \E rotates \in BOOLEAN :
       /\ Grant(rotates)
       /\ thread' = [thread EXCEPT ![t].pc = "storeToken", ![t].tok = 0, ![t].new = issued',
                                   ![t].refresh = IF rotates THEN issued' ELSE 0]
  /\ raced' = (raced \/ Busy(t, Storing))
  /\ UNCHANGED <<store, memory, mode, due, held, quiet, locked>>

\* Granted, and the answer is lost: a timeout, and the old token is returned.
PostAnswerLost(t) ==
  /\ At(t, "post") /\ thread[t].refresh = live
  /\ \E rotates \in BOOLEAN : Grant(rotates)
  /\ Return(t, thread[t].tok)
  /\ UNCHANGED <<store, memory, mode, due, history>>

\* No connection, or an error other than 401 and 403.
PostFails(t) ==
  /\ At(t, "post") /\ Return(t, thread[t].tok)
  /\ UNCHANGED <<store, memory, mode, portal, due, history>>

\* 401 or 403: the credentials are cleared, and the old token is still returned.
PostRefused(t) ==
  /\ At(t, "post") /\ thread[t].refresh # live
  /\ thread' = [thread EXCEPT ![t].pc = "clearToken", ![t].refresh = 0]
  /\ UNCHANGED <<store, memory, mode, portal, due, history>>

\* The answer is stored; a log-in goes on with the user.
Stored(t) ==
  IF thread[t].why = "login"
  THEN thread' = [thread EXCEPT ![t].pc = "storeUser", ![t].refresh = 0, ![t].snap = NoFile]
  ELSE Return(t, thread[t].new)

\* Faulty: an expiry is stored although its token was not.
KeyringFailsOnce(t) ==
  /\ At(t, "storeToken") /\ Goto(t, "storeExpiry")
  /\ UNCHANGED <<store, memory, mode, portal, due, history>>

\* The keyring raises: what is not stored or deleted yet is given up, silently.
KeyringFails(t) ==
  /\ \/ /\ thread[t].pc \in {"storeToken", "storeExpiry"}
        /\ IF thread[t].refresh # 0 THEN Goto(t, "readFile") ELSE Stored(t)
        /\ UNCHANGED quiet
     \/ thread[t].pc \in {"clearToken", "clearExpiry"} /\ Goto(t, "clearReadUser") /\ quiet' = FALSE
  /\ UNCHANGED <<store, memory, mode, portal, due, held, raced, locked>>

\* store_device_token_from_jwt: two entries, one after the other.
StoreToken(t) ==
  /\ At(t, "storeToken") /\ Goto(t, "storeExpiry")
  /\ keyring' = [keyring EXCEPT !.tok = thread[t].new]
  /\ UNCHANGED <<file, memory, mode, portal, due, history>>

StoreExpiry(t) ==
  /\ At(t, "storeExpiry")
  /\ keyring' = [keyring EXCEPT !.exp = thread[t].new]
  /\ IF thread[t].refresh # 0 THEN Goto(t, "readFile") ELSE Stored(t)
  /\ UNCHANGED <<file, memory, mode, portal, due, history>>

\* store_refresh_token: the whole file is read, changed and written back.
ReadFile(t) ==
  /\ At(t, "readFile")
  /\ \E f \in Readable(t) : thread' = [thread EXCEPT ![t].pc = "writeFile", ![t].snap = f]
  /\ UNCHANGED <<store, memory, mode, portal, due, history>>

\* Faulty: what was read is written back unchanged.
WriteFileUnchanged(t) ==
  /\ At(t, "writeFile")
  /\ file' = thread[t].snap /\ held' = thread[t].refresh
  /\ Stored(t)
  /\ UNCHANGED <<keyring, memory, mode, portal, due, quiet, raced, locked>>

WriteFile(t) ==
  /\ At(t, "writeFile")
  /\ file' = [thread[t].snap EXCEPT !.refresh = thread[t].refresh] /\ held' = thread[t].refresh
  /\ Stored(t)
  /\ UNCHANGED <<keyring, memory, mode, portal, due, quiet, raced, locked>>

\* store_user_session, after a log-in, when no other thread runs yet.
StoreUser(t) ==
  /\ At(t, "storeUser") /\ Return(t, thread[t].new)
  /\ file' = [file EXCEPT !.user = TRUE]
  /\ UNCHANGED <<keyring, memory, mode, portal, due, history>>

-----------------------------------------------------------------------------
(* clear_all_credentials *)

\* clear_device_token: a token that is not there raises, and the expiry stays.
ClearToken(t) ==
  /\ At(t, "clearToken")
  /\ keyring' = [keyring EXCEPT !.tok = 0]
  /\ Goto(t, IF keyring.tok = 0 THEN "clearReadUser" ELSE "clearExpiry")
  /\ quiet' = ~Busy(t, InFlight)
  /\ UNCHANGED <<file, memory, mode, portal, due, held, raced, locked>>

ClearExpiry(t) ==
  /\ At(t, "clearExpiry") /\ Goto(t, "clearReadUser")
  /\ keyring' = [keyring EXCEPT !.exp = 0]
  /\ UNCHANGED <<file, memory, mode, portal, due, history>>

\* Faulty: the keyring is cleared and the file is left.
ClearKeyringOnly(t) ==
  /\ At(t, "clearReadUser") /\ Return(t, thread[t].tok)
  /\ locked' = (locked \/ (thread[t].why = "forced" /\ quiet))
  /\ UNCHANGED <<store, memory, mode, portal, due, held, quiet, raced>>

\* clear_user_session: nothing is written when there is no user.
ClearReadUser(t) ==
  /\ At(t, "clearReadUser")
  /\ \E f \in Readable(t) :
       thread' = [thread EXCEPT ![t].pc = IF f.user THEN "clearWriteUser" ELSE "clearFile",
                                ![t].snap = IF f.user THEN f ELSE NoFile]
  /\ UNCHANGED <<store, memory, mode, portal, due, history>>

ClearWriteUser(t) ==
  /\ At(t, "clearWriteUser")
  /\ thread' = [thread EXCEPT ![t].pc = "clearFile", ![t].snap = NoFile]
  /\ file' = [thread[t].snap EXCEPT !.user = FALSE] /\ held' = 0
  /\ UNCHANGED <<keyring, memory, mode, portal, due, quiet, raced, locked>>

\* clear_refresh_token unlinks the file; the PIN's file is DevicePin's.
ClearFile(t) ==
  /\ At(t, "clearFile") /\ Return(t, thread[t].tok)
  /\ file' = NoFile
  /\ held' = 0 /\ locked' = (locked \/ (thread[t].why = "forced" /\ quiet))
  /\ UNCHANGED <<keyring, memory, mode, portal, due, quiet, raced>>

-----------------------------------------------------------------------------
(* The agent process. *)

Start ==
  /\ mode = "down" /\ mode' = "starting"
  /\ UNCHANGED <<store, memory, thread, portal, due, history>>

\* Faulty: the tray's threads outlive the process they belong to.
KillMainOnly ==
  /\ mode # "down" /\ mode' = "down" /\ memory' = 0
  /\ thread' = [thread EXCEPT !["main"] = Idle]
  /\ UNCHANGED <<store, portal, due, history>>

\* Killed, crashed or logged off, at any point; a file that was being written may
\* be left unreadable.
Kill ==
  /\ mode # "down" /\ mode' = "down" /\ memory' = 0
  /\ thread' = [t \in Threads |-> Idle]
  /\ \/ UNCHANGED <<file, held>>
     \/ (\E t \in Threads : thread[t].pc \in Rewriting \cup {"storeUser"}) /\ file' = NoFile /\ held' = 0
  /\ UNCHANGED <<keyring, portal, due, quiet, raced, locked>>

\* The tray starts, then the service with this token.
Run(tok) == mode' = "running" /\ memory' = tok

\* _try_restore_session: a token is good to 2 minutes before its expiry, so one
\* that is due may be good or not; without a stored expiry the token's own
\* decides.  No other thread runs yet.
StoredExpiry == IF keyring.exp # 0 THEN keyring.exp ELSE keyring.tok

Restore ==
  /\ mode = "starting" /\ At("main", "idle") /\ keyring.tok # 0
  /\ IF file.user THEN Run(keyring.tok) ELSE mode' = "login" /\ UNCHANGED memory
  /\ UNCHANGED <<store, thread, portal, due, history>>

RefreshAtStart ==
  /\ mode = "starting" /\ (keyring.tok = 0 \/ StoredExpiry <= due)
  /\ Check("main", "startup")
  /\ UNCHANGED mode

\* A form or browser log-in.  A user comes with every answer.
LogIn ==
  /\ mode = "login" /\ At("main", "idle")
  /\ \E rotates \in BOOLEAN :
       /\ Grant(rotates)
       /\ thread' = [thread EXCEPT !["main"] =
            [Idle EXCEPT !.pc = "storeToken", !.why = "login", !.new = issued', !.refresh = IF rotates THEN issued' ELSE 0]]
  /\ locked' = FALSE
  /\ UNCHANGED <<store, memory, mode, due, held, quiet, raced>>

\* A PIN opens with the stored token, if there is one, and stores nothing.
PinLogIn ==
  /\ mode = "login" /\ At("main", "idle") /\ keyring.tok # 0 /\ Run(keyring.tok)
  /\ UNCHANGED <<store, thread, portal, due, history>>

\* _token_refresh_loop, every 4 minutes, in the event loop itself.
ServiceTick == mode = "running" /\ Check("main", "service") /\ UNCHANGED mode

\* list_my_tickets got a 401.  Its retry changes nothing here.
TicketsRefresh(t) ==
  /\ mode = "running" /\ keyring.tok # 0 /\ Check(t, "tickets")
  /\ UNCHANGED mode

\* force_logout, force_reauth, force_lock, UNINSTALL_AGENT: clear, then exit.
Forced ==
  /\ mode = "running" /\ At("main", "idle")
  /\ thread' = [thread EXCEPT !["main"] = [Idle EXCEPT !.pc = "clearToken", !.why = "forced"]]
  /\ UNCHANGED <<store, memory, mode, portal, due, history>>

Done(t, why) == At(t, "return") /\ thread[t].why = why

\* Faulty: a token that is not due is kept.
ServiceReturnsWhenDue ==
  /\ Done("main", "service")
  /\ memory' = IF thread["main"].tok # 0 /\ memory <= due THEN thread["main"].tok ELSE memory
  /\ thread' = [thread EXCEPT !["main"] = Idle]
  /\ UNCHANGED <<store, mode, portal, due, history>>

ServiceReturns ==
  /\ Done("main", "service")
  /\ memory' = IF thread["main"].tok # 0 THEN thread["main"].tok ELSE memory
  /\ thread' = [thread EXCEPT !["main"] = Idle]
  /\ UNCHANGED <<store, mode, portal, due, history>>

\* Without a token, or without a user, the lock screen is shown.
StartupReturns ==
  /\ Done("main", "startup")
  /\ IF thread["main"].tok # 0 /\ file.user THEN Run(thread["main"].tok)
     ELSE mode' = "login" /\ UNCHANGED memory
  /\ thread' = [thread EXCEPT !["main"] = Idle]
  /\ UNCHANGED <<store, portal, due, history>>

LoginReturns ==
  /\ Done("main", "login") /\ Run(thread["main"].tok)
  /\ thread' = [thread EXCEPT !["main"] = Idle]
  /\ UNCHANGED <<store, portal, due, history>>

ForcedReturns == Done("main", "forced") /\ Kill

TicketsReturn(t) ==
  /\ Done(t, "tickets") /\ thread' = [thread EXCEPT ![t] = Idle]
  /\ UNCHANGED <<store, memory, mode, portal, due, history>>

-----------------------------------------------------------------------------
(* The portal and the clock. *)

Revoke ==
  /\ live # 0 /\ live' = 0
  /\ UNCHANGED <<store, memory, mode, thread, issued, due, history>>

Age ==
  /\ due < issued /\ due' = due + 1
  /\ UNCHANGED <<store, memory, mode, thread, portal, history>>

Step(t) ==
  \/ ReadExpiry(t) \/ ReadRefresh(t)
  \/ PostGranted(t) \/ PostAnswerLost(t) \/ PostFails(t) \/ PostRefused(t)
  \/ StoreToken(t) \/ StoreExpiry(t) \/ KeyringFails(t) \/ ReadFile(t) \/ WriteFile(t)
  \/ StoreUser(t)
  \/ ClearToken(t) \/ ClearExpiry(t) \/ ClearReadUser(t) \/ ClearWriteUser(t) \/ ClearFile(t)

MainStep ==
  \/ Step("main") \/ ServiceTick
  \/ ServiceReturns \/ StartupReturns \/ LoginReturns \/ ForcedReturns

Next ==
  \/ MainStep
  \/ \E t \in Trays : Step(t) \/ TicketsRefresh(t) \/ TicketsReturn(t)
  \/ Start \/ Kill \/ Restore \/ RefreshAtStart \/ LogIn \/ PinLogIn \/ Forced
  \/ Revoke \/ Age

Spec == Init /\ [][Next]_vars

\* The event loop runs on and every request ends; nothing else is promised.
FairSpec == Spec /\ WF_vars(MainStep)

-----------------------------------------------------------------------------
(* Properties. *)

Pcs == InFlight \cup Clearing \cup {"idle", "expiry", "refresh", "storeUser", "return"}
Whys == {"none", "startup", "service", "login", "forced", "tickets"}

\* Type correctness of the two stores, the process, its threads and the portal;
\* only the main thread works before the service runs, and one token's number
\* bounds the next.
TypeOK ==
  /\ keyring \in [tok : Tokens, exp : Tokens] /\ file \in Files /\ memory \in Tokens
  /\ mode \in {"down", "starting", "login", "running"}
  /\ thread \in [Threads -> [pc : Pcs, why : Whys, tok : Tokens, new : Tokens, refresh : Tokens, snap : Files]]
  /\ issued \in Tokens /\ live \in 0 .. issued /\ due \in 0 .. issued
  /\ held \in Tokens /\ quiet \in BOOLEAN /\ raced \in BOOLEAN /\ locked \in BOOLEAN
  /\ mode = "running" <=> memory # 0
  /\ mode # "running" => \A t \in Trays : At(t, "idle")

\* force_lock clears the stored token "so next login attempt requires server
\* verification" (socket_client.py:195): after a clearing on the portal's order
\* during which no other thread had a refresh under way and the keyring did not
\* fail, neither a start nor a PIN opens the desktop, and neither token nor user
\* comes back, until a log-in is granted.  Nothing is claimed of a third thread
\* that checks for a refresh token while another one clears as well: that one
\* writes back what it read.
LockSticks ==
  locked => /\ keyring.tok = 0 /\ ~file.user
            /\ mode = "running" => At("main", "return")

\* The token file is rewritten whole from what a thread read before
\* (token_store.py:174-188).  No such rewrite puts an older refresh token back
\* over the one that was stored and that the portal accepts.
RefreshUsable == file.user /\ held = live /\ live # 0 => file.refresh = live

\* Token and expiry are two writes (token_store.py:68-75).  Wherever they are
\* interrupted, the stored expiry is never a later token's, which would put the
\* refresh off until the portal refuses the token - unless two threads stored
\* answers at the same time.
ExpiryNotLater == keyring.tok # 0 /\ ~raced => keyring.exp <= keyring.tok

\* A tray thread may refresh behind the service's back (tickets.py:55).  The
\* service does not go on for ever with its older token while the keyring holds
\* another that is not due (agent_service.py:116).
Outdated == mode = "running" /\ keyring.tok \notin {0, memory} /\ keyring.exp > due
MemoryCatchesUp == Outdated ~> ~Outdated
=============================================================================
