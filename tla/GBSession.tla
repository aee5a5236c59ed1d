------------------------------ MODULE GBSession ------------------------------
(* One GB28181 device with one channel (gb28181/service.go, gb28181_runtime.go, *)
(* devices_gb28181.go, devices_blacklist.go): its row and its block, the session *)
(* of the SIP service, the play dialog, the RTP server of ZLM, and everyone who  *)
(* works on them without a common lock: the goroutines of its signals, the two   *)
(* runners that invite it, the offline scan and the requests of the operators.   *)
EXTENDS Naturals, FiniteSets

CONSTANTS
  GBSignals,     \* goroutines that handle a packet: the UDP reader, TCP connections
  GBAdmins,      \* requests
  MaxGBPackets,  \* bound: packets of the device, streams ZLM misses
  MaxGBRequests, \* bound: requests
  MaxGBEvents,   \* bound: packets, requests and faults together
  MaxGBOpens,    \* bound: RTP servers opened
  MaxGBFaults    \* bound: failing statements and calls, and restarts of the server

VARIABLES
  gbRow,         \* the row of gb_devices; fresh: its times are within the timeout
  gbBlocked,     \* a row of gb_device_blocks
  gbSources,     \* its rows of media_sources, the channel's with the channel's row
  gbSession,     \* sessions[device]
  gbDialog,      \* playDialogs[device|channel]: the port the call sends to, or 0
  gbPort,        \* ZLM's RTP server for the channel's stream, or 0
  gbOpened,      \* RTP servers opened so far
  gbAsked,       \* runners that are to make an attempt
  gbAt, gbDo,    \* where everyone is, and in the midst of what
  gbMy,          \* the port an invite is for
  gbSnap,        \* the row an update has read
  gbListed,      \* sources a request has listed
  gbStarting,    \* the server's start has still to mark the device offline
  gbLate,        \* history: somebody had passed his check when the device was refused
  gbPackets, gbRequests, gbFaults

gbRows == <<gbRow, gbBlocked, gbSources>>
gbCalls == <<gbSession, gbDialog, gbPort, gbOpened>>
gbLocal == <<gbMy, gbSnap, gbListed>>
gbBound == <<gbPackets, gbRequests, gbFaults>>
gbVars == <<gbRows, gbCalls, gbAsked, gbAt, gbDo, gbLocal, gbStarting, gbLate, gbBound>>

ASSUME GBAssumption ==
  /\ GBSignals \cap GBAdmins = {}
  /\ (GBSignals \cup GBAdmins) \cap {"device", "channel", "scan"} = {}
  /\ MaxGBPackets \in Nat /\ MaxGBRequests \in Nat /\ MaxGBEvents \in Nat /\ MaxGBOpens \in Nat /\ MaxGBFaults \in Nat

GBInvites == {"device", "channel"}  \* the runners of the device's and of the channel's invites
Scan == "scan"
GBProcs == GBSignals \cup GBInvites \cup GBAdmins \cup {Scan}
NoRow == [there |-> FALSE, enabled |-> FALSE, online |-> FALSE, fresh |-> FALSE]
NewRow(online) == [there |-> TRUE, enabled |-> TRUE, online |-> online, fresh |-> online]

\* UpsertCatalog: the channel's row and its source, in the transaction of the device's.
WithChannel == {"device", "channel"}

\* The server's start, for an unknown device and for one whose channel is known.
GBInit ==
  /\ \/ gbRow = NoRow /\ gbSources = {}
     \/ gbRow = NewRow(FALSE) /\ gbSources = WithChannel
  /\ gbBlocked = FALSE
  /\ gbSession = FALSE /\ gbDialog = 0 /\ gbPort = 0 /\ gbOpened = 0
  /\ gbAsked = {} /\ gbAt = [p \in GBProcs |-> "idle"] /\ gbDo = [p \in GBProcs |-> "none"]
  /\ gbMy = [v \in GBInvites |-> 0] /\ gbSnap = [a \in GBAdmins |-> NoRow]
  /\ gbListed = [a \in GBAdmins |-> {}]
  /\ gbStarting = FALSE /\ gbLate = FALSE /\ gbPackets = 0 /\ gbRequests = 0 /\ gbFaults = 0

GBRoom == gbPackets + gbRequests + gbFaults < MaxGBEvents
GBFault == GBRoom /\ gbFaults < MaxGBFaults /\ gbFaults' = gbFaults + 1
GBPacket ==
  GBRoom /\ gbPackets < MaxGBPackets /\ gbPackets' = gbPackets + 1 /\ UNCHANGED gbRequests
GBRequest ==
  GBRoom /\ gbRequests < MaxGBRequests /\ gbRequests' = gbRequests + 1 /\ UNCHANGED gbPackets
GBIdle(p) == gbAt[p] = "idle"
\* One of a kind that is free: which one makes no difference.
GBFree(p, kind) == GBIdle(p) /\ p = CHOOSE q \in kind : GBIdle(q)
GBGo(p, step) == gbAt' = [gbAt EXCEPT ![p] = step]
GBEnd(p) == GBGo(p, "idle") /\ gbDo' = [gbDo EXCEPT ![p] = "none"]
-----------------------------------------------------------------------------
(* The store.                                                              *)

\* GetDeviceForAuth: a known device by its row alone, an unknown one by its block.
LetIn == IF gbRow.there THEN gbRow.enabled ELSE ~gbBlocked

\* MarkRegistered, MarkKeepalive, UpsertCatalog: whatever enabled and the block say.
HeardRow == IF gbRow.there THEN [gbRow EXCEPT !.online = TRUE, !.fresh = TRUE]
                           ELSE NewRow(TRUE)

\* syncGBDeviceAndChannels, in one transaction, for the row it finds.
\* Mutant: the row is not looked for.
SyncedBlindly == gbSources' = gbSources \cup {"device"}

Synced == gbSources' = IF gbRow.there THEN gbSources \cup {"device"} ELSE gbSources

\* Who had passed his check before the device was refused, or counts as such: a source
\* that came up after the block's request had listed them, an update that finds the
\* row deleted.
LateAtRefusal(a, request) ==
  \/ \E p \in GBSignals \cup GBInvites : ~GBIdle(p)
  \/ request = "block" /\ gbListed[a] # gbSources
  \/ request = "update" /\ ~gbRow.there

\* A device that is let in again starts anew when nothing is left of the old times.
NoteLate(a, request, refused) ==
  gbLate' = IF refused THEN gbLate \/ LateAtRefusal(a, request)
            ELSE /\ gbLate
                 /\ \/ gbPort # 0 \/ gbDialog # 0 \/ gbSession
                    \/ \E p \in GBProcs \ {a} : ~GBIdle(p)
-----------------------------------------------------------------------------
(* Signals of the device: handleRegister, handleMessage.                   *)

Signals == {"register", "unregister", "keepalive", "catalog", "other"}

GBEnter(s) ==
  /\ GBFree(s, GBSignals) /\ GBPacket /\ LetIn
  /\ \E kind \in Signals :
       /\ gbDo' = [gbDo EXCEPT ![s] = kind]
       /\ GBGo(s, IF kind \in {"register", "unregister"} THEN "write" ELSE "remember")
  /\ UNCHANGED <<gbRows, gbCalls, gbAsked, gbLocal, gbStarting, gbLate, gbFaults>>

\* upsertSession: the last step of a registration, the first of a message.
GBRemember(s) ==
  /\ gbAt[s] = "remember"
  /\ gbSession' = TRUE
  /\ IF gbDo[s] \in {"keepalive", "catalog"} THEN GBGo(s, "write") /\ UNCHANGED gbDo ELSE GBEnd(s)
  /\ UNCHANGED <<gbRows, gbDialog, gbPort, gbOpened, gbAsked, gbLocal, gbStarting,
                 gbLate, gbBound>>

\* The upsert of the row; a catalog brings its channel in the same transaction.
GBWrite(s) ==
  /\ gbAt[s] = "write" /\ gbDo[s] # "unregister"
  /\ \/ /\ gbRow' = HeardRow
        /\ gbSources' = IF gbDo[s] = "catalog" THEN WithChannel ELSE gbSources
        /\ GBGo(s, "sync") /\ UNCHANGED <<gbDo, gbFaults>>
     \/ GBFault /\ GBEnd(s) /\ UNCHANGED <<gbRow, gbSources>>
  /\ UNCHANGED <<gbBlocked, gbCalls, gbAsked, gbLocal, gbStarting, gbLate, gbPackets, gbRequests>>

\* scheduleGBDeviceAutoInvite, scheduleGBChannelAutoInvite: what is asked for while the
\* runner is at it is merged into its next run.
GBAsk(v) == gbAsked' = gbAsked \cup {v}

\* The sources are brought up to date, and the invite of the device is asked for; a
\* registration that fails here has written its row and gets no session.
GBSync(s) ==
  /\ gbAt[s] = "sync"
  /\ \/ /\ Synced
        /\ IF gbDo[s] = "keepalive" THEN UNCHANGED gbAsked ELSE GBAsk("device")
        /\ IF gbDo[s] = "register" THEN GBGo(s, "remember") /\ UNCHANGED gbDo ELSE GBEnd(s)
        /\ UNCHANGED gbFaults
     \/ GBFault /\ GBEnd(s) /\ UNCHANGED <<gbSources, gbAsked>>
  /\ UNCHANGED <<gbRow, gbBlocked, gbCalls, gbLocal, gbStarting, gbLate, gbPackets, gbRequests>>

\* MarkOffline: by the device's id, whatever has happened to the row meanwhile; then the
\* sources.  Either of the two may fail.
MarkedOffline == gbRow' = [gbRow EXCEPT !.online = FALSE]
MarkFails == GBFault /\ UNCHANGED gbSources /\ (MarkedOffline \/ UNCHANGED gbRow)

\* An unregistration goes on when the statement fails.
GBUnregister(s) ==
  /\ gbAt[s] = "write" /\ gbDo[s] = "unregister"
  /\ \/ MarkedOffline /\ Synced /\ UNCHANGED gbFaults
     \/ MarkFails
  /\ GBGo(s, "drop")
  /\ UNCHANGED <<gbBlocked, gbCalls, gbAsked, gbDo, gbLocal, gbStarting, gbLate, gbPackets, gbRequests>>

\* dropSession: without a BYE, and without a word to ZLM.
GBDrop(p) ==
  /\ gbAt[p] = "drop"
  /\ gbSession' = FALSE /\ gbDialog' = 0
  /\ GBEnd(p)
  /\ UNCHANGED <<gbRows, gbPort, gbOpened, gbAsked, gbLocal, gbStarting, gbLate, gbBound>>
-----------------------------------------------------------------------------
(* scanOffline, every 15 s: one list, then device by device.               *)

GBAge ==
  /\ gbRow.fresh \/ \E a \in GBAdmins : gbSnap[a].fresh
  /\ gbRow' = [gbRow EXCEPT !.fresh = FALSE]
  /\ gbSnap' = [a \in GBAdmins |-> [gbSnap[a] EXCEPT !.fresh = FALSE]]
  /\ UNCHANGED <<gbBlocked, gbSources, gbCalls, gbAsked, gbAt, gbDo, gbMy, gbListed, gbStarting,
                 gbLate, gbBound>>

\* Mutant: only devices that have a session are looked at.
GBScanSessions ==
  /\ GBIdle(Scan)
  /\ gbRow.there /\ gbRow.enabled /\ gbRow.online /\ ~gbRow.fresh /\ gbSession
  /\ GBGo(Scan, "overdue")
  /\ UNCHANGED <<gbRows, gbCalls, gbAsked, gbDo, gbLocal, gbStarting, gbLate, gbBound>>

\* ListDeviceStates and shouldMarkOffline: rows that are enabled, online and overdue.
GBScan ==
  /\ GBIdle(Scan)
  /\ gbRow.there /\ gbRow.enabled /\ gbRow.online /\ ~gbRow.fresh
  /\ GBGo(Scan, "overdue")
  /\ UNCHANGED <<gbRows, gbCalls, gbAsked, gbDo, gbLocal, gbStarting, gbLate, gbBound>>

GBScanMark ==
  /\ gbAt[Scan] = "overdue"
  /\ \/ MarkedOffline /\ Synced /\ GBGo(Scan, "drop") /\ UNCHANGED gbFaults
     \/ MarkFails /\ GBGo(Scan, "idle")
  /\ UNCHANGED <<gbBlocked, gbCalls, gbAsked, gbDo, gbLocal, gbStarting, gbLate, gbPackets, gbRequests>>
-----------------------------------------------------------------------------
(* The invites.  That requests for one runner are merged is CoalescedRunner's   *)
(* subject; the two runners may be at the channel at once.                      *)

\* ZLM misses the stream of a channel; ZLM comes back after a restart.
GBStreamMissing ==
  /\ GBPacket /\ "channel" \in gbSources /\ GBAsk("channel")
  /\ UNCHANGED <<gbRows, gbCalls, gbAt, gbDo, gbLocal, gbStarting, gbLate, gbFaults>>
GBMediaRestart ==
  /\ GBFault
  /\ gbPort' = 0
  /\ IF gbRow.enabled /\ gbRow.online THEN GBAsk("device") ELSE UNCHANGED gbAsked
  /\ UNCHANGED <<gbRows, gbSession, gbDialog, gbOpened, gbAt, gbDo, gbLocal, gbStarting,
                 gbLate, gbPackets, gbRequests>>

\* The rows as the attempt finds them: it goes on with these.
\* Mutant: the row is not asked whether the device may take part.
GBInviteAny(v) ==
  /\ GBIdle(v) /\ v \in gbAsked
  /\ gbAsked' = gbAsked \ {v}
  /\ GBGo(v, IF gbRow.there /\ "channel" \in gbSources THEN "open" ELSE "idle")
  /\ UNCHANGED <<gbRows, gbCalls, gbDo, gbLocal, gbStarting, gbLate, gbBound>>

GBInvite(v) ==
  /\ GBIdle(v) /\ v \in gbAsked
  /\ gbAsked' = gbAsked \ {v}
  /\ GBGo(v, IF gbRow.there /\ gbRow.enabled /\ gbRow.online /\ "channel" \in gbSources
             THEN "open" ELSE "idle")
  /\ UNCHANGED <<gbRows, gbCalls, gbDo, gbLocal, gbStarting, gbLate, gbBound>>

\* The end of an attempt that failed: another one, or the last has been made.
GBAgain(v) ==
  /\ GBGo(v, "idle")
  /\ GBAsk(v) \/ UNCHANGED gbAsked

\* Nothing is done for a stream that is active: the device may or may not send to the
\* server.  openZLMRTPServer: one that is there for the stream is closed first.
GBOpen(v) ==
  /\ gbAt[v] = "open"
  /\ \/ /\ gbPort # 0
        /\ GBGo(v, "idle") /\ UNCHANGED <<gbPort, gbOpened, gbMy, gbAsked, gbFaults>>
     \/ /\ gbOpened < MaxGBOpens
        /\ gbOpened' = gbOpened + 1 /\ gbPort' = gbOpened' /\ gbMy' = [gbMy EXCEPT ![v] = gbOpened']
        /\ GBGo(v, "stop") /\ UNCHANGED <<gbAsked, gbFaults>>
     \/ GBFault /\ GBAgain(v) /\ UNCHANGED <<gbPort, gbOpened, gbMy>>
  /\ UNCHANGED <<gbRows, gbSession, gbDialog, gbDo, gbSnap, gbListed, gbStarting, gbLate,
                 gbPackets, gbRequests>>

\* stopPlayDialog: a BYE, which the device may not get, ...
GBBye(p, next) ==
  /\ gbAt[p] = "stop"
  /\ GBGo(p, IF gbDialog = 0 THEN next ELSE "unlink")
  /\ UNCHANGED <<gbRows, gbCalls, gbAsked, gbDo, gbLocal, gbStarting, gbLate, gbBound>>
\* ... and when it is answered, or is not, the dialog is deleted by its key: also
\* one that has replaced it.
GBUnlink(p, next) ==
  /\ gbAt[p] = "unlink"
  /\ gbDialog' = 0 /\ GBGo(p, next)
  /\ UNCHANGED <<gbRows, gbSession, gbPort, gbOpened, gbAsked, gbDo, gbLocal, gbStarting,
                 gbLate, gbBound>>

\* InvitePlay: without a session, or when it cannot be sent, it has failed.
GBSend(v) ==
  /\ gbAt[v] = "send"
  /\ GBGo(v, IF gbSession THEN "wait" ELSE "failed")
  /\ UNCHANGED <<gbRows, gbCalls, gbAsked, gbDo, gbLocal, gbStarting, gbLate, gbBound>>

\* The device accepts; it declines, or its answer is late or lost.  A call accepted too
\* late goes on without a dialog.
GBAnswer(v) ==
  /\ gbAt[v] = "wait"
  /\ GBGo(v, "accepted") \/ GBGo(v, "failed")
  /\ UNCHANGED <<gbRows, gbCalls, gbAsked, gbDo, gbLocal, gbStarting, gbLate, gbBound>>

\* upsertPlayDialog, and the source's addresses.
GBConnect(v) ==
  /\ gbAt[v] = "accepted"
  /\ gbDialog' = gbMy[v] /\ gbMy' = [gbMy EXCEPT ![v] = 0] /\ GBGo(v, "idle")
  /\ UNCHANGED <<gbRows, gbSession, gbPort, gbOpened, gbAsked, gbDo, gbSnap, gbListed,
                 gbStarting, gbLate, gbBound>>

\* closeZLMRTPServer goes by the stream: it closes whatever server there is.
GBGiveUp(v) ==
  /\ gbAt[v] = "failed"
  /\ gbPort' = 0 /\ gbMy' = [gbMy EXCEPT ![v] = 0] /\ GBAgain(v)
  /\ UNCHANGED <<gbRows, gbSession, gbDialog, gbOpened, gbDo, gbSnap, gbListed,
                 gbStarting, gbLate, gbBound>>

-----------------------------------------------------------------------------
(* The operators' requests.                                                *)

\* createGBDevice: the block goes in the transaction of the insert.  Whatever was asked
\* for, the device is enabled: an insert by gorm takes false for the column's default.
GBCreate(a) ==
  /\ GBFree(a, GBAdmins) /\ GBRequest /\ ~gbRow.there
  /\ gbRow' = NewRow(FALSE) /\ gbBlocked' = FALSE
  /\ NoteLate(a, "create", FALSE)
  /\ gbDo' = [gbDo EXCEPT ![a] = "create"] /\ GBGo(a, "sync")
  /\ UNCHANGED <<gbSources, gbCalls, gbAsked, gbLocal, gbStarting, gbFaults>>

\* updateGBDevice: the row is read, ...
GBUpdate(a) ==
  /\ GBFree(a, GBAdmins) /\ GBRequest /\ gbRow.there
  /\ gbSnap' \in {[gbSnap EXCEPT ![a] = row] :
                  row \in {gbRow, [gbRow EXCEPT !.enabled = TRUE],
                           [gbRow EXCEPT !.enabled = FALSE, !.online = FALSE]}}
  /\ gbDo' = [gbDo EXCEPT ![a] = "update"] /\ GBGo(a, "commit")
  /\ UNCHANGED <<gbRows, gbCalls, gbAsked, gbMy, gbListed, gbStarting, gbLate, gbFaults>>

\* ... and saved with all its columns, whatever has become of it meanwhile; a row that
\* is gone is inserted again, and enabled.
GBSave(a) ==
  /\ gbAt[a] = "commit" /\ gbDo[a] = "update"
  /\ gbRow' = [gbSnap[a] EXCEPT !.enabled = gbSnap[a].enabled \/ ~gbRow.there]
  /\ gbSnap' = [gbSnap EXCEPT ![a] = gbRow']
  /\ gbBlocked' = (gbBlocked /\ ~gbSnap[a].enabled)
  /\ NoteLate(a, "update", ~gbSnap[a].enabled)
  /\ GBGo(a, "sync")
  /\ UNCHANGED <<gbSources, gbCalls, gbAsked, gbDo, gbMy, gbListed, gbStarting, gbBound>>

\* deleteGBDevice: one transaction, unless a task uses a source.
GBDelete(a) ==
  /\ GBFree(a, GBAdmins) /\ GBRequest /\ gbRow.there
  /\ gbRow' = NoRow /\ gbBlocked' = TRUE /\ gbSources' = {}
  /\ gbListed' = [gbListed EXCEPT ![a] = gbSources]
  /\ NoteLate(a, "delete", TRUE)
  /\ gbDo' = [gbDo EXCEPT ![a] = "delete"] /\ GBGo(a, "stop")
  /\ UNCHANGED <<gbCalls, gbAsked, gbMy, gbSnap, gbStarting, gbFaults>>

\* addGBDeviceBlock: the sources are listed before the transaction.
GBBlock(a) ==
  /\ GBFree(a, GBAdmins) /\ GBRequest
  /\ gbListed' = [gbListed EXCEPT ![a] = IF gbRow.there THEN gbSources ELSE {}]
  /\ gbDo' = [gbDo EXCEPT ![a] = "block"] /\ GBGo(a, "commit")
  /\ UNCHANGED <<gbRows, gbCalls, gbAsked, gbMy, gbSnap, gbStarting, gbLate, gbFaults>>

GBBlockCommit(a) ==
  /\ gbAt[a] = "commit" /\ gbDo[a] = "block"
  /\ gbBlocked' = TRUE /\ gbRow' = [gbRow EXCEPT !.enabled = FALSE, !.online = FALSE]
  /\ NoteLate(a, "block", TRUE)
  /\ GBGo(a, "stop")
  /\ UNCHANGED <<gbSources, gbCalls, gbAsked, gbDo, gbLocal, gbStarting, gbBound>>

\* removeGBDeviceBlock: also of a device that was only disabled.
GBUnblock(a) ==
  /\ GBFree(a, GBAdmins) /\ GBRequest
  /\ gbBlocked' = FALSE
  /\ gbRow' = IF gbRow.there THEN [gbRow EXCEPT !.enabled = TRUE] ELSE gbRow
  /\ NoteLate(a, "unblock", FALSE)
  /\ gbDo' = [gbDo EXCEPT ![a] = "unblock"] /\ GBGo(a, "sync")
  /\ UNCHANGED <<gbSources, gbCalls, gbAsked, gbLocal, gbStarting, gbFaults>>

\* The sources are brought up to date: before an update stops what it has disabled,
\* at the end of the others.
GBAdminSync(a) ==
  /\ gbAt[a] = "sync"
  /\ Synced
  /\ IF gbDo[a] = "update" /\ ~gbSnap[a].enabled THEN GBGo(a, "stop") /\ UNCHANGED gbDo ELSE GBEnd(a)
  /\ gbSnap' = [gbSnap EXCEPT ![a] = NoRow] /\ gbListed' = [gbListed EXCEPT ![a] = {}]
  /\ UNCHANGED <<gbRow, gbBlocked, gbCalls, gbAsked, gbMy, gbStarting, gbLate, gbBound>>

\* ForgetDevice, after StopAllPlays (GBBye, GBUnlink).
GBForget(a) ==
  /\ gbAt[a] = "forget"
  /\ gbSession' = FALSE /\ gbDialog' = 0
  /\ GBGo(a, IF gbDo[a] = "update" THEN "list" ELSE "clean")
  /\ UNCHANGED <<gbRows, gbPort, gbOpened, gbAsked, gbDo, gbLocal, gbStarting, gbLate, gbBound>>

\* listGBDeviceRelatedSources finds nothing without a row.
GBList(a) ==
  /\ gbAt[a] = "list"
  /\ gbListed' = [gbListed EXCEPT ![a] = IF gbRow.there THEN gbSources ELSE {}]
  /\ GBGo(a, "clean")
  /\ UNCHANGED <<gbRows, gbCalls, gbAsked, gbDo, gbMy, gbSnap, gbStarting, gbLate, gbBound>>

\* cleanupMediaSourceStreams closes the stream and its RTP server, by name.
GBClean(a) ==
  /\ gbAt[a] = "clean"
  /\ gbPort' = IF "channel" \in gbListed[a] THEN 0 ELSE gbPort
  /\ IF gbDo[a] = "block" THEN GBGo(a, "sync") /\ UNCHANGED gbDo ELSE GBEnd(a)
  /\ gbListed' = [gbListed EXCEPT ![a] = {}]
  /\ UNCHANGED <<gbRows, gbSession, gbDialog, gbOpened, gbAsked, gbMy, gbSnap, gbStarting,
                 gbLate, gbBound>>
-----------------------------------------------------------------------------
(* The server's end and start.                                             *)

\* A request is cut short before it has cleaned up.
Cleaning(a) ==
  \/ gbAt[a] \in {"stop", "unlink", "forget", "list", "clean"}
  \/ gbAt[a] = "sync" /\ gbDo[a] = "update" /\ ~gbSnap[a].enabled

GBCrash ==
  /\ GBFault
  /\ gbSession' = FALSE /\ gbDialog' = 0 /\ gbAsked' = {}
  /\ gbAt' = [p \in GBProcs |-> "idle"] /\ gbDo' = [p \in GBProcs |-> "none"]
  /\ gbMy' = [v \in GBInvites |-> 0] /\ gbSnap' = [a \in GBAdmins |-> NoRow]
  /\ gbListed' = [a \in GBAdmins |-> {}]
  /\ gbStarting' = TRUE
  /\ gbLate' = (gbLate \/ \E a \in GBAdmins : Cleaning(a))
  /\ UNCHANGED <<gbRows, gbPort, gbOpened, gbPackets, gbRequests>>

\* markGBSourcesOfflineOnStartup, which may come after the first signals.
GBStart ==
  /\ gbStarting
  /\ gbStarting' = FALSE
  /\ gbRow' = [gbRow EXCEPT !.online = gbRow.online /\ ~gbRow.enabled]
  /\ UNCHANGED <<gbBlocked, gbSources, gbCalls, gbAsked, gbAt, gbDo, gbLocal, gbLate, gbBound>>
-----------------------------------------------------------------------------
GBSignalStep(s) == GBRemember(s) \/ GBWrite(s) \/ GBSync(s) \/ GBUnregister(s) \/ GBDrop(s)
GBScanStep == GBScan \/ GBScanMark \/ GBDrop(Scan)
GBInviteStep(v) ==
  \/ GBInvite(v) \/ GBOpen(v) \/ GBBye(v, "send") \/ GBUnlink(v, "send")
  \/ GBSend(v) \/ GBAnswer(v) \/ GBConnect(v) \/ GBGiveUp(v)
GBAdminStep(a) ==
  \/ GBSave(a) \/ GBBlockCommit(a) \/ GBAdminSync(a) \/ GBBye(a, "forget")
  \/ GBUnlink(a, "forget") \/ GBForget(a) \/ GBList(a) \/ GBClean(a)

GBNext ==
  \/ \E s \in GBSignals : GBEnter(s) \/ GBSignalStep(s)
  \/ GBAge \/ GBScanStep
  \/ \E v \in GBInvites : GBInviteStep(v)
  \/ GBStreamMissing \/ GBMediaRestart
  \/ \E a \in GBAdmins :
       GBCreate(a) \/ GBUpdate(a) \/ GBDelete(a) \/ GBBlock(a) \/ GBUnblock(a) \/ GBAdminStep(a)
  \/ GBCrash \/ GBStart

GBSpec == GBInit /\ [][GBNext]_gbVars

\* What the server does of its own accord, and that time passes.
GBWork ==
  \/ \E s \in GBSignals : GBSignalStep(s)
  \/ GBAge \/ GBScanStep \/ GBStart
  \/ \E v \in GBInvites : GBInviteStep(v)
  \/ \E a \in GBAdmins : GBAdminStep(a)
-----------------------------------------------------------------------------
(* Properties.                                                             *)

\* A device that is disabled, blocked or deleted is out, once the request that put it
\* out has ended: it is not let in again, nor has it a session, a dialog or an RTP
\* server (updateGBDevice, deleteGBDevice and addGBDeviceBlock write first and clean up
\* afterwards) - unless a signal or an invite had passed its check by then: nobody
\* looks again.
KeptOut ==
  (gbBlocked \/ (gbRow.there /\ ~gbRow.enabled)) /\ ~gbLate /\ (\A a \in GBAdmins : GBIdle(a))
  => ~LetIn /\ ~gbRow.online /\ ~gbSession /\ gbDialog = 0 /\ gbPort = 0

\* The media sources of a device are there only with its row, also when a registration
\* or an update overtakes the deletion (syncGBDeviceAndChannels looks for the row in
\* the transaction that writes the sources).
SourcesHaveDevice == gbSources # {} => gbRow.there

\* An enabled device that is shown online but has no session, as an overtaken
\* unregistration, a failed statement or a restart leaves it, does not stay so: it
\* is heard again, or the scan puts it offline (scanOffline).
OnlineIsHeard ==
  []<>~(gbRow.there /\ gbRow.enabled /\ gbRow.online /\ ~gbSession)

\* docs/backend-api-v1.md:85: registrations of a deleted device are refused until it is
\* created again by hand.
DeletedStaysRefused ==
  [][\A s \in GBSignals : GBIdle(s) /\ gbDo'[s] = "register" => ~gbBlocked]_gbVars
=============================================================================
