------------------------------- MODULE AlertHub -------------------------------
(* The WebSocket hub (ws/hub.go): a read-write lock around the map of clients. *)
(* A broadcast writes to every client under the read lock, which broadcasts    *)
(* share; clients join and leave, and broken ones are dropped, under the write *)
(* lock, which keeps new readers out as soon as someone waits for it.          *)
EXTENDS Naturals, FiniteSets

CONSTANTS
  Broadcasters,  \* goroutines with one message each: callbacks, patrols, notices
  HubClients     \* connections

VARIABLES
  hubAt,         \* where a broadcaster is
  hubLeft,       \* clients it has still to write to
  hubOn,         \* the client it is writing to
  hubBad,        \* clients whose write has failed
  hubMap,        \* clients in the map
  hubClient,     \* the goroutine of a client
  hubWaiting,    \* who waits for the write lock
  hubGot,        \* clients a message was written to
  hubDue,        \* clients in the map when a broadcast began
  hubCollided    \* two broadcasts have written to one connection at a time

hubVars == <<hubAt, hubLeft, hubOn, hubBad, hubMap, hubClient, hubWaiting, hubGot, hubDue,
             hubCollided>>

HubInit ==
  /\ hubAt = [b \in Broadcasters |-> "idle"]
  /\ hubLeft = [b \in Broadcasters |-> {}] /\ hubOn = [b \in Broadcasters |-> {}]
  /\ hubBad = [b \in Broadcasters |-> {}]
  /\ hubGot = [b \in Broadcasters |-> {}] /\ hubDue = [b \in Broadcasters |-> {}]
  /\ hubMap = {} /\ hubClient = [k \in HubClients |-> "none"]
  /\ hubWaiting = {} /\ hubCollided = FALSE

HubGo(b, step) == hubAt' = [hubAt EXCEPT ![b] = step]
HubBe(k, state) == hubClient' = [hubClient EXCEPT ![k] = state]
ReadLocked == \E b \in Broadcasters : hubAt[b] \in {"send", "stuck"}

\* The write lock is announced first, and taken when no reader is left.
Announce(p) == hubWaiting' = hubWaiting \cup {p}
Locked(p) == p \in hubWaiting /\ ~ReadLocked /\ hubWaiting' = hubWaiting \ {p}
-----------------------------------------------------------------------------
(* Handle: the goroutine of a client.                                      *)

HubConnect(k) ==
  /\ hubClient[k] = "none"
  /\ HubBe(k, "joining") /\ Announce(<<"client", k>>)
  /\ UNCHANGED <<hubAt, hubLeft, hubOn, hubBad, hubMap, hubGot, hubDue, hubCollided>>

HubJoin(k) ==
  /\ hubClient[k] = "joining" /\ Locked(<<"client", k>>)
  /\ hubMap' = hubMap \cup {k}
  /\ HubBe(k, "reading")
  /\ UNCHANGED <<hubAt, hubLeft, hubOn, hubBad, hubGot, hubDue, hubCollided>>

\* The peer goes away; the reader notices later.
HubBreak(k) ==
  /\ hubClient[k] = "reading"
  /\ HubBe(k, "broken")
  /\ UNCHANGED <<hubAt, hubLeft, hubOn, hubBad, hubMap, hubWaiting, hubGot, hubDue, hubCollided>>

HubReadError(k) ==
  /\ hubClient[k] = "broken"
  /\ HubBe(k, "leaving") /\ Announce(<<"client", k>>)
  /\ UNCHANGED <<hubAt, hubLeft, hubOn, hubBad, hubMap, hubGot, hubDue, hubCollided>>

HubLeave(k) ==
  /\ hubClient[k] = "leaving" /\ Locked(<<"client", k>>)
  /\ hubMap' = hubMap \ {k}
  /\ HubBe(k, "gone")
  /\ UNCHANGED <<hubAt, hubLeft, hubOn, hubBad, hubGot, hubDue, hubCollided>>
-----------------------------------------------------------------------------
(* Broadcast.                                                              *)

HubCall(b) ==
  /\ hubAt[b] = "idle"
  /\ HubGo(b, "called")
  /\ UNCHANGED <<hubLeft, hubOn, hubBad, hubMap, hubClient, hubWaiting, hubGot, hubDue, hubCollided>>

HubBegin(b) ==
  /\ hubAt[b] = "called" /\ hubWaiting = {}
  /\ HubGo(b, "send")
  /\ hubLeft' = [hubLeft EXCEPT ![b] = hubMap] /\ hubDue' = [hubDue EXCEPT ![b] = hubMap]
  /\ UNCHANGED <<hubOn, hubBad, hubMap, hubClient, hubWaiting, hubGot, hubCollided>>

HubWrite(b, k) ==
  /\ hubAt[b] = "send" /\ hubOn[b] = {} /\ k \in hubLeft[b]
  /\ hubOn' = [hubOn EXCEPT ![b] = {k}]
  /\ hubLeft' = [hubLeft EXCEPT ![b] = @ \ {k}]
  /\ hubCollided' = (hubCollided \/ \E c \in Broadcasters \ {b} : hubOn[c] = {k})
  /\ UNCHANGED <<hubAt, hubBad, hubMap, hubClient, hubWaiting, hubGot, hubDue>>

\* A write to a broken connection may fail.  A connection that is written to by
\* two at a time may panic: the request's recovery leaves the lock read-locked.
HubWritten(b, k) ==
  /\ hubAt[b] = "send" /\ hubOn[b] = {k}
  /\ hubOn' = [hubOn EXCEPT ![b] = {}]
  /\ \/ hubGot' = [hubGot EXCEPT ![b] = @ \cup {k}] /\ UNCHANGED <<hubAt, hubBad>>
     \/ /\ hubClient[k] # "reading"
        /\ hubBad' = [hubBad EXCEPT ![b] = @ \cup {k}] /\ UNCHANGED <<hubAt, hubGot>>
     \/ hubCollided /\ HubGo(b, "stuck") /\ UNCHANGED <<hubBad, hubGot>>
  /\ UNCHANGED <<hubLeft, hubMap, hubClient, hubWaiting, hubDue, hubCollided>>

Done(b) == hubAt[b] = "send" /\ hubOn[b] = {} /\ hubLeft[b] = {}

\* Mutant: broken clients are to be dropped before the read lock is given back.
HubEndLocked(b) ==
  /\ Done(b)
  /\ IF hubBad[b] = {} THEN HubGo(b, "done") /\ UNCHANGED hubWaiting
     ELSE Announce(<<"broadcast", b>>) /\ UNCHANGED hubAt
  /\ UNCHANGED <<hubLeft, hubOn, hubBad, hubMap, hubClient, hubGot, hubDue, hubCollided>>

HubEnd(b) ==
  /\ Done(b)
  /\ IF hubBad[b] = {} THEN HubGo(b, "done") /\ UNCHANGED hubWaiting
     ELSE HubGo(b, "drop") /\ Announce(<<"broadcast", b>>)
  /\ UNCHANGED <<hubLeft, hubOn, hubBad, hubMap, hubClient, hubGot, hubDue, hubCollided>>

HubDrop(b) ==
  /\ hubAt[b] = "drop" /\ Locked(<<"broadcast", b>>)
  /\ hubMap' = hubMap \ hubBad[b]
  /\ HubGo(b, "done")
  /\ UNCHANGED <<hubLeft, hubOn, hubBad, hubClient, hubGot, hubDue, hubCollided>>
-----------------------------------------------------------------------------
HubClientStep(k) == HubJoin(k) \/ HubReadError(k) \/ HubLeave(k)
HubBroadcast(b) ==
  \/ HubBegin(b) \/ HubEnd(b) \/ HubDrop(b)
  \/ \E k \in HubClients : HubWrite(b, k) \/ HubWritten(b, k)

HubWork == (\E k \in HubClients : HubClientStep(k)) \/ \E b \in Broadcasters : HubBroadcast(b)
HubNext ==
  \/ \E k \in HubClients : HubConnect(k) \/ HubBreak(k)
  \/ \E b \in Broadcasters : HubCall(b)
  \/ HubWork

HubSpec == HubInit /\ [][HubNext]_hubVars

\* Goroutines are scheduled, the lock is fair, and a write to a connection returns.
HubFairness == WF_hubVars(HubWork)
-----------------------------------------------------------------------------
\* Every broadcast ends, whoever joins, breaks or leaves meanwhile, and every
\* healthy client that was in the map when it began has the message, as long as no
\* two broadcasts have written to one connection at the same time.
HubDelivers ==
  []<>(\/ hubCollided
       \/ \A b \in Broadcasters :
            /\ hubAt[b] \in {"idle", "done"}
            /\ {k \in hubDue[b] : hubClient[k] = "reading"} \subseteq hubGot[b])

\* A broadcast that is over has reached every client that it found and that is still
\* healthy, whether or not it had others to drop.
HubReached ==
  \A b \in Broadcasters :
    hubAt[b] \in {"drop", "done"} => {k \in hubDue[b] : hubClient[k] = "reading"} \subseteq hubGot[b]

\* A healthy client stays in the map, whatever broadcasts drop or other clients leave.
HubKeepsHealthy == \A k \in HubClients : hubClient[k] = "reading" => k \in hubMap

\* Nobody waits for the write lock who holds the read lock: he would wait for himself, and
\* keep all broadcasts out.
HubNoSelfWait == \A b \in Broadcasters : <<"broadcast", b>> \in hubWaiting => hubAt[b] = "drop"
=============================================================================
