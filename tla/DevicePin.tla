----------------------------- MODULE DevicePin -----------------------------
(***************************************************************************)
(* The PIN that IT sets for a device, and the USB storage it opens: the    *)
(* PIN's file, written by the portal's push and by the synchronisation of  *)
(* each connect handler; the tray's prompt, which works offline from the   *)
(* file; the portal's USB_CONTROL.  A PIN is the number of its setting.    *)
(***************************************************************************)
EXTENDS Integers, Sequences

CONSTANTS Sync,   \* bound: connect handlers that synchronise at a time
          MaxPin  \* bound: PINs are 1 .. MaxPin

ASSUME PinAssumption == MaxPin \in Nat

VARIABLES
  pin,       \* the PIN the portal holds, 0 for none
  expired,   \* PINs whose valid_until is past
  link,      \* the socket is connected
  pushes,    \* update_pin events under way, in order
  sync,      \* of each handler: asking or answered, and the answer
  pinFile,   \* PIN_FILE
  usb,       \* USBSTOR's Start value: locked (4) or enabled (3)
  prompt,    \* the tray's PIN prompt: the PIN it read when it opened, 0 if closed
  \* History, which no action reads:
  synced,    \* a synchronisation succeeded in this connection
  disturbed  \* an answer met a newer push or another handler, or the file a write error

pinVars == <<pin, expired, link, pushes, sync, pinFile, usb, prompt, synced, disturbed>>

Pins == 0 .. MaxPin
NoSync == [pc |-> "idle", got |-> 0]

PinInit ==
  /\ pin \in {0, 1} \cap Pins /\ expired = {} /\ link = FALSE /\ pushes = <<>>
  /\ sync = [s \in Sync |-> NoSync] /\ pinFile = 0 /\ usb \in {"locked", "enabled"} /\ prompt = 0
  /\ synced = FALSE /\ disturbed = FALSE

-----------------------------------------------------------------------------
(* The portal and the connection. *)

\* IT sets a PIN: pushed to a device that is connected, else left for the next
\* synchronisation.
SetPin ==
  /\ pin < MaxPin /\ pin' = pin + 1
  /\ pushes' = IF link THEN Append(pushes, pin') ELSE pushes
  /\ UNCHANGED <<expired, link, sync, pinFile, usb, prompt, synced, disturbed>>

Expire ==
  /\ \E p \in (1 .. pin) \ expired : expired' = expired \cup {p}
  /\ UNCHANGED <<pin, link, pushes, sync, pinFile, usb, prompt, synced, disturbed>>

\* The connect handler comes to _sync_pin_from_server; its GET is on its way.
Connect(s) ==
  /\ ~link /\ link' = TRUE /\ sync[s].pc = "idle"
  /\ sync' = [sync EXCEPT ![s].pc = "asking"] /\ synced' = FALSE
  /\ disturbed' = (disturbed \/ \E t \in Sync : sync[t].pc # "idle")
  /\ UNCHANGED <<pin, expired, pushes, pinFile, usb, prompt>>

\* Pushes not yet received are lost with the connection; a handler goes on.
Disconnect ==
  /\ link /\ link' = FALSE /\ pushes' = <<>>
  /\ UNCHANGED <<pin, expired, sync, pinFile, usb, prompt, synced, disturbed>>

\* The portal answers with the PIN of that moment.
Answer(s) ==
  /\ sync[s].pc = "asking"
  /\ sync' = [sync EXCEPT ![s] = [pc |-> "answered", got |-> pin]]
  /\ UNCHANGED <<pin, expired, link, pushes, pinFile, usb, prompt, synced, disturbed>>

SyncFails(s) ==
  /\ sync[s].pc # "idle" /\ sync' = [sync EXCEPT ![s] = NoSync]
  /\ UNCHANGED <<pin, expired, link, pushes, pinFile, usb, prompt, synced, disturbed>>

-----------------------------------------------------------------------------
(* The PIN's file. *)

StorePinHash(p) == pinFile' = p

\* Faulty: a PIN that is stored already is kept.
StoreAnswerIfNone(s) ==
  /\ sync[s].pc = "answered"
  /\ pinFile' = IF pinFile = 0 THEN sync[s].got ELSE pinFile
  /\ sync' = [sync EXCEPT ![s] = NoSync] /\ synced' = TRUE
  /\ UNCHANGED <<pin, expired, link, pushes, usb, prompt, disturbed>>

\* The handler stores what it got, if the portal has a PIN at all.
StoreAnswer(s) ==
  /\ sync[s].pc = "answered"
  /\ IF sync[s].got # 0 THEN StorePinHash(sync[s].got) ELSE UNCHANGED pinFile
  /\ sync' = [sync EXCEPT ![s] = NoSync] /\ synced' = TRUE
  /\ UNCHANGED <<pin, expired, link, pushes, usb, prompt, disturbed>>

\* on_update_pin: stored without an await in between, or the write's error is
\* swallowed.
UpdatePin ==
  /\ pushes # <<>> /\ pushes' = Tail(pushes)
  /\ \/ /\ StorePinHash(Head(pushes))
        /\ disturbed' = (disturbed \/ \E s \in Sync : sync[s].pc = "answered" /\ sync[s].got < Head(pushes))
     \/ pinFile' = pinFile /\ disturbed' = TRUE
  /\ UNCHANGED <<pin, expired, link, sync, usb, prompt, synced>>

\* The process ends with all it was doing; before that, clear_all_credentials may
\* have removed the file.  The next start connects anew.
ClearPin ==
  /\ pinFile' \in {0, pinFile} /\ link' = FALSE /\ pushes' = <<>> /\ synced' = FALSE
  /\ sync' = [s \in Sync |-> NoSync] /\ prompt' = 0
  /\ UNCHANGED <<pin, expired, usb, disturbed>>

\* get_pin_hash_and_expiry: an expired PIN is none.
StoredPin == IF pinFile \in expired THEN 0 ELSE pinFile

-----------------------------------------------------------------------------
(* USB storage. *)

\* get_usb_locked_sync; set_usb_enabled_sync, which the registry may refuse.
UsbLocked == usb = "locked"
SetUsbEnabled == usb' \in {usb, "enabled"}

\* USB_CONTROL from the portal, for a connected device with the rights.
UsbControl ==
  /\ link /\ usb' \in {"locked", "enabled"}
  /\ UNCHANGED <<pin, expired, link, pushes, sync, pinFile, prompt, synced, disturbed>>

\* _show_usb_pin_unlock, on- or offline, asks for the PIN only when the storage
\* is locked and a PIN is stored and valid.
OpenDialog ==
  /\ prompt = 0 /\ UsbLocked /\ StoredPin # 0 /\ prompt' = StoredPin
  /\ UNCHANGED <<pin, expired, link, pushes, sync, pinFile, usb, synced, disturbed>>

\* Cancelled, or another PIN than the one the prompt read.
DialogRefuses ==
  /\ prompt # 0 /\ prompt' = 0
  /\ UNCHANGED <<pin, expired, link, pushes, sync, pinFile, usb, synced, disturbed>>

\* The PIN the prompt read.
DialogUnlocks ==
  /\ prompt # 0 /\ prompt' = 0 /\ SetUsbEnabled
  /\ UNCHANGED <<pin, expired, link, pushes, sync, pinFile, synced, disturbed>>

PinNext ==
  \/ SetPin \/ Expire \/ Disconnect \/ UpdatePin \/ ClearPin
  \/ \E s \in Sync : Connect(s) \/ Answer(s) \/ SyncFails(s) \/ StoreAnswer(s)
  \/ UsbControl \/ OpenDialog \/ DialogRefuses \/ DialogUnlocks

PinSpec == PinInit /\ [][PinNext]_pinVars

-----------------------------------------------------------------------------
(* Properties. *)

PinTypeOK ==
  /\ pin \in Pins /\ pinFile \in Pins /\ prompt \in Pins /\ expired \subseteq Pins
  /\ pushes \in Seq(Pins) /\ sync \in [Sync -> [pc : {"idle", "asking", "answered"}, got : Pins]]
  /\ usb \in {"locked", "enabled"} /\ link \in BOOLEAN
  /\ synced \in BOOLEAN /\ disturbed \in BOOLEAN

\* "Handles offline-while-PIN-set case" (socket_client.py:220): once a connected
\* device has synchronised and nothing is under way, it holds the portal's PIN,
\* however often the PIN changed and the connection broke; except when an answer
\* was overtaken by a push or by another handler's, or a write failed.
PinCurrent ==
  link /\ synced /\ pushes = <<>> /\ (\A s \in Sync : sync[s] = NoSync) /\ ~disturbed
    => pin \in {0, pinFile}
=============================================================================
