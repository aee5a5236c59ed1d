------------------------------ MODULE DeviceProofs ------------------------------
(* Proofs about what reaches the server from outside: the stream of a publisher  *)
(* (PushSource), the signals of a GB28181 device (GBSession) and the alarms of    *)
(* the AI service (AlarmIntake).                                                  *)
EXTENDS GBSession, PushSource, AlarmIntake, TLAPS
-----------------------------------------------------------------------------
(* A publisher.                                                                 *)

PushStatus == {"offline", "online"}

PushTypeOK ==
  /\ pushRow \in {"none", "offline", "online"}
  /\ pushBlocked \in BOOLEAN /\ pushLive \in BOOLEAN
  /\ pushNews \in Seq(PushStatus) /\ pushOld \in 0 .. Len(pushNews)
  /\ pushHook \in {"idle", "checked", "known", "unknown"}
  /\ pushAt \in [PushAdmins -> {"idle", "commit", "close"}]
  /\ pushDo \in [PushAdmins -> {"none", "create", "update", "delete", "block"}]
  /\ pushSnap \in [PushAdmins -> {"none", "offline", "online"}]
  /\ pushLate \in BOOLEAN /\ pushStale \in BOOLEAN

\* A block has been written, and the stream is still to be closed.
Closing == \E a \in PushAdmins : pushDo[a] = "block" /\ pushAt[a] = "close"

\* Who is still in when a stream is blocked is about to be closed.
PushOutInv == pushBlocked /\ ~pushLate => pushHook = "idle" /\ (pushLive => Closing)

\* A hook that none has overtaken is on its way, and the last one tells how things are;
\* or the row does, but for a stream that was blocked and is about to be closed.
PushShownInv ==
  /\ pushOld < Len(pushNews) => (pushNews[Len(pushNews)] = "online") = pushLive
  /\ pushRow # "none" /\ pushOld = Len(pushNews) /\ ~pushStale =>
       \/ (pushRow = "online") = pushLive
       \/ pushLive /\ Closing

\* A hook joins those on their way at the end, and nothing has overtaken it.
LEMMA HookSent ==
  ASSUME NEW news \in Seq(PushStatus), NEW old \in 0 .. Len(news), NEW status \in PushStatus
  PROVE  /\ Append(news, status) \in Seq(PushStatus)
         /\ old \in 0 .. Len(Append(news, status)) /\ old < Len(Append(news, status))
         /\ Append(news, status)[Len(Append(news, status))] = status
OBVIOUS

\* Taking a hook leaves the others, and the last one the last.
LEMMA HookTaken ==
  ASSUME NEW news \in Seq(PushStatus), NEW i \in 1 .. Len(news), NEW rest,
         rest = [j \in 1 .. Len(news) - 1 |-> news[IF j < i THEN j ELSE j + 1]]
  PROVE  /\ rest \in Seq(PushStatus) /\ Len(rest) = Len(news) - 1
         /\ i < Len(news) => rest[Len(rest)] = news[Len(news)]
<1>1. Len(news) \in Nat \ {0} /\ Len(news) - 1 \in Nat
  OBVIOUS
<1>2. \A j \in 1 .. Len(news) - 1 : (IF j < i THEN j ELSE j + 1) \in 1 .. Len(news)
  BY <1>1
<1>3. \A j \in 1 .. Len(news) - 1 : news[IF j < i THEN j ELSE j + 1] \in PushStatus
  BY <1>2
<1>4. rest \in [1 .. Len(news) - 1 -> PushStatus]
  BY <1>3
<1>5. rest \in Seq(PushStatus) /\ Len(rest) = Len(news) - 1
  BY <1>1, <1>4
<1>6. ASSUME i < Len(news)
      PROVE  rest[Len(rest)] = news[Len(news)]
  <2>1. Len(news) - 1 \in 1 .. Len(news) - 1 /\ ~(Len(news) - 1 < i)
    BY <1>1, <1>6
  <2>2. rest[Len(news) - 1] = news[Len(news) - 1 + 1]
    BY <2>1
  <2> QED BY <1>1, <1>5, <2>2
<1> QED BY <1>5, <1>6

\* How a hook is sent.
LEMMA ToldTyped ==
  ASSUME PushTypeOK, NEW status \in PushStatus, Told(status)
  PROVE  /\ pushNews' \in Seq(PushStatus) /\ pushOld' \in 0 .. Len(pushNews')
         /\ pushOld' < Len(pushNews') /\ pushNews'[Len(pushNews')] = status
BY HookSent DEF Told, PushTypeOK

\* How the stream is closed, and what is told about it.
LEMMA ClosedTyped ==
  ASSUME PushTypeOK, Closed
  PROVE  /\ pushLive' = FALSE /\ pushNews' \in Seq(PushStatus) /\ pushOld' \in 0 .. Len(pushNews')
         /\ pushLive => pushOld' < Len(pushNews') /\ pushNews'[Len(pushNews')] = "offline"
         /\ ~pushLive => UNCHANGED pushMail
<1>1. CASE pushLive
  <2>1. Told("offline") /\ pushLive' = FALSE /\ "offline" \in PushStatus
    BY <1>1 DEF Closed, PushStatus
  <2> QED BY <1>1, <2>1, ToldTyped
<1>2. CASE ~pushLive
  BY <1>2 DEF Closed, pushMail, PushTypeOK
<1> QED BY <1>1, <1>2

\* How a hook is taken.
LEMMA TakenTyped ==
  ASSUME PushTypeOK, NEW i \in 1 .. Len(pushNews),
         pushNews' = [j \in 1 .. Len(pushNews) - 1 |-> pushNews[IF j < i THEN j ELSE j + 1]],
         pushOld' = IF i > pushOld THEN i - 1 ELSE pushOld - 1
  PROVE  /\ pushNews' \in Seq(PushStatus) /\ Len(pushNews') = Len(pushNews) - 1
         /\ pushOld' \in 0 .. Len(pushNews') /\ pushNews[i] \in PushStatus
         /\ i < Len(pushNews) => pushNews'[Len(pushNews')] = pushNews[Len(pushNews)]
<1>1. /\ pushNews' \in Seq(PushStatus) /\ Len(pushNews') = Len(pushNews) - 1
      /\ i < Len(pushNews) => pushNews'[Len(pushNews')] = pushNews[Len(pushNews)]
  BY HookTaken DEF PushTypeOK
<1>2. Len(pushNews) \in Nat /\ pushNews[i] \in PushStatus /\ pushOld \in 0 .. Len(pushNews)
  BY DEF PushTypeOK
<1>3. pushOld' \in 0 .. Len(pushNews) - 1
  BY <1>2
<1> QED BY <1>1, <1>2, <1>3

\* Whatever a request does, its place and its kind stay among the known ones.
LEMMA PushTypeStep ==
  ASSUME PushTypeOK, [PushNext]_pushVars
  PROVE  PushTypeOK'
<1>1. CASE UNCHANGED pushVars
  BY <1>1 DEF pushVars, pushMail, pushReqs, PushTypeOK
<1>2. CASE Publish \/ FindPublished \/ PublisherLeaves
  BY <1>2, ClosedTyped DEF Publish, FindPublished, PublisherLeaves, pushReqs, pushMail, PushTypeOK
<1>3. CASE AdmitPublished
  <2>1. "online" \in PushStatus
    BY DEF PushStatus
  <2>2. pushLive' \in BOOLEAN /\ pushNews' \in Seq(PushStatus) /\ pushOld' \in 0 .. Len(pushNews')
    BY <1>3, <2>1, ToldTyped DEF AdmitPublished, pushMail, PushTypeOK
  <2> QED BY <1>3, <2>2 DEF AdmitPublished, pushReqs, PushTypeOK
<1>4. CASE StreamChanged
  <2>1. PICK i \in 1 .. Len(pushNews) :
          /\ pushNews' = [j \in 1 .. Len(pushNews) - 1 |-> pushNews[IF j < i THEN j ELSE j + 1]]
          /\ pushOld' = IF i > pushOld THEN i - 1 ELSE pushOld - 1
          /\ pushRow' = Written(i) \/ pushRow' = pushRow
          /\ pushStale' \in BOOLEAN
          /\ UNCHANGED <<pushBlocked, pushLive, pushHook, pushAt, pushDo, pushSnap, pushLate>>
    BY <1>4 DEF StreamChanged, pushReqs
  <2>2. /\ pushNews' \in Seq(PushStatus) /\ pushOld' \in 0 .. Len(pushNews')
        /\ pushNews[i] \in PushStatus
    BY <2>1, TakenTyped
  <2>3. pushRow' \in {"none", "offline", "online"}
    BY <2>1, <2>2 DEF Written, PushStatus, PushTypeOK
  <2> QED BY <2>1, <2>2, <2>3 DEF PushTypeOK
<1>5. CASE PushMediaRestart
  <2>1. Told("offline") /\ "offline" \in PushStatus
    BY <1>5 DEF PushMediaRestart, PushStatus
  <2>2. pushNews' \in Seq(PushStatus) /\ pushOld' \in 0 .. Len(pushNews')
    BY <2>1, ToldTyped
  <2> QED BY <1>5, <2>2 DEF PushMediaRestart, pushReqs, PushTypeOK
<1>6. CASE PushCrash
  <2>1. <<>> \in Seq(PushStatus) /\ 0 \in 0 .. Len(<<>>)
    OBVIOUS
  <2>2. pushStale' \in BOOLEAN /\ pushLate' \in BOOLEAN
    BY <1>6 DEF PushCrash
  <2> QED BY <1>6, <2>1, <2>2 DEF PushCrash, PushTypeOK
<1>7. ASSUME NEW a \in PushAdmins, PushCreate(a) \/ PushUpdate(a) \/ PushDelete(a) \/ PushBlock(a)
      PROVE  PushTypeOK'
  BY <1>7 DEF PushCreate, PushUpdate, PushDelete, PushBlock, PushBegin, PushGo, pushMail, PushTypeOK
<1>8. ASSUME NEW a \in PushAdmins, PushUnblock(a)
      PROVE  PushTypeOK'
  BY <1>8 DEF PushUnblock, pushMail, pushReqs, PushTypeOK
<1>9. ASSUME NEW a \in PushAdmins, PushSave(a)
      PROVE  PushTypeOK'
  BY <1>9 DEF PushSave, PushEnd, PushGo, pushMail, PushTypeOK
<1>10. ASSUME NEW a \in PushAdmins, PushDeleteCommit(a) \/ PushBlockCommit(a)
       PROVE  PushTypeOK'
  BY <1>10 DEF PushDeleteCommit, PushBlockCommit, PushIn, PushEnd, PushGo, pushMail, PushTypeOK
<1>11. ASSUME NEW a \in PushAdmins, PushClose(a)
       PROVE  PushTypeOK'
  <2>1. pushLive' \in BOOLEAN /\ pushNews' \in Seq(PushStatus) /\ pushOld' \in 0 .. Len(pushNews')
    BY <1>11, ClosedTyped DEF PushClose, pushMail, PushTypeOK
  <2> QED BY <1>11, <2>1 DEF PushClose, PushEnd, PushGo, PushTypeOK
<1> QED BY <1>1, <1>2, <1>3, <1>4, <1>5, <1>6, <1>7, <1>8, <1>9, <1>10, <1>11 DEF PushNext

\* A stream that is being closed by one request is still so after another one's step.
LEMMA ClosingStays ==
  ASSUME PushTypeOK, NEW a \in PushAdmins, ~(pushDo[a] = "block" /\ pushAt[a] = "close"),
         \A b \in PushAdmins \ {a} : pushDo'[b] = pushDo[b] /\ pushAt'[b] = pushAt[b]
  PROVE  Closing => Closing'
BY DEF Closing

\* A stream that is put out stays closed and blocked.
LEMMA PushOutStep ==
  ASSUME PushTypeOK, PushOutInv, [PushNext]_pushVars
  PROVE  PushOutInv'
<1>1. CASE UNCHANGED pushVars
  BY <1>1 DEF pushVars, pushReqs, PushOutInv, Closing
<1>2. CASE Publish \/ FindPublished \/ AdmitPublished \/ StreamChanged
  BY <1>2 DEF Publish, FindPublished, AdmitPublished, StreamChanged, pushReqs, PushOutInv, Closing
<1>3. CASE PublisherLeaves \/ PushMediaRestart
  BY <1>3 DEF PublisherLeaves, Closed, PushMediaRestart, pushReqs, PushOutInv, Closing
<1>4. CASE PushCrash
  BY <1>4 DEF PushCrash, PushOutInv, Closing
<1>5. ASSUME NEW a \in PushAdmins, PushCreate(a) \/ PushUpdate(a) \/ PushDelete(a) \/ PushBlock(a)
      PROVE  PushOutInv'
  <2>1. /\ pushAt[a] = "idle" /\ UNCHANGED <<pushBlocked, pushLive, pushHook, pushLate>>
        /\ \A b \in PushAdmins \ {a} : pushDo'[b] = pushDo[b] /\ pushAt'[b] = pushAt[b]
    BY <1>5 DEF PushCreate, PushUpdate, PushDelete, PushBlock, PushBegin, PushGo, PushTypeOK
  <2>2. Closing => Closing'
    BY <2>1, ClosingStays
  <2> QED BY <2>1, <2>2 DEF PushOutInv
<1>6. ASSUME NEW a \in PushAdmins, PushUnblock(a)
      PROVE  PushOutInv'
  BY <1>6 DEF PushUnblock, PushOutInv
<1>7. ASSUME NEW a \in PushAdmins, PushSave(a)
      PROVE  PushOutInv'
  <2>1. /\ pushAt[a] = "commit" /\ UNCHANGED <<pushLive, pushHook>>
        /\ \A b \in PushAdmins \ {a} : pushDo'[b] = pushDo[b] /\ pushAt'[b] = pushAt[b]
    BY <1>7 DEF PushSave, PushEnd, PushGo, PushTypeOK
  <2>2. Closing => Closing'
    BY <2>1, ClosingStays
  <2>3. ~pushBlocked' \/ UNCHANGED <<pushBlocked, pushLate>>
    BY <1>7 DEF PushSave
  <2> QED BY <2>1, <2>2, <2>3 DEF PushOutInv
<1>8. ASSUME NEW a \in PushAdmins, PushDeleteCommit(a)
      PROVE  PushOutInv'
  BY <1>8 DEF PushDeleteCommit, PushIn, PushOutInv
<1>9. ASSUME NEW a \in PushAdmins, PushBlockCommit(a)
      PROVE  PushOutInv'
  <2>1. Closing'
    BY <1>9 DEF PushBlockCommit, PushGo, PushTypeOK, Closing
  <2> QED BY <1>9, <2>1 DEF PushBlockCommit, PushOutInv
<1>10. ASSUME NEW a \in PushAdmins, PushClose(a)
       PROVE  PushOutInv'
  <2>1. CASE pushLive' = FALSE
    BY <1>10, <2>1 DEF PushClose, PushOutInv
  <2>2. CASE pushLive' # FALSE
    <3>1. /\ PushEnd(a) /\ UNCHANGED <<pushLive, pushBlocked, pushHook>>
          /\ pushLate' = (pushLate \/ pushDo[a] = "block")
      BY <1>10, <2>2 DEF PushClose, Closed
    <3>2. \A b \in PushAdmins \ {a} : pushDo'[b] = pushDo[b] /\ pushAt'[b] = pushAt[b]
      BY <3>1 DEF PushEnd, PushGo, PushTypeOK
    <3>3. pushDo[a] # "block" => (Closing => Closing')
      BY <3>2, ClosingStays
    <3> QED BY <3>1, <3>3 DEF PushOutInv
  <2> QED BY <2>1, <2>2
<1> QED BY <1>1, <1>2, <1>3, <1>4, <1>5, <1>6, <1>7, <1>8, <1>9, <1>10 DEF PushNext

\* The latest hook on its way, or else the row, tells whether the stream is there.
LEMMA PushShownStep ==
  ASSUME PushTypeOK, PushShownInv, [PushNext]_pushVars
  PROVE  PushShownInv'
<1>1. CASE UNCHANGED pushVars
  BY <1>1 DEF pushVars, pushMail, pushReqs, PushShownInv, Closing
<1>2. CASE Publish \/ FindPublished
  BY <1>2 DEF Publish, FindPublished, pushMail, pushReqs, PushShownInv, Closing
<1>3. CASE AdmitPublished
  <2>1. CASE pushLive' = TRUE /\ Told("online")
    <3>1. "online" \in PushStatus
      BY DEF PushStatus
    <3>2. pushOld' < Len(pushNews') /\ pushNews'[Len(pushNews')] = "online"
      BY <2>1, <3>1, ToldTyped
    <3>3. pushOld' # Len(pushNews')
      BY <2>1, <3>1, <3>2, ToldTyped
    <3> QED BY <2>1, <3>2, <3>3 DEF PushShownInv
  <2>2. CASE UNCHANGED <<pushRow, pushLive, pushMail>>
    BY <1>3, <2>2 DEF AdmitPublished, pushMail, pushReqs, PushShownInv, Closing
  <2> QED BY <1>3, <2>1, <2>2 DEF AdmitPublished
<1>4. ASSUME Closed, pushLive
      PROVE  PushShownInv'
  <2>1. pushLive' = FALSE /\ pushOld' < Len(pushNews') /\ pushNews'[Len(pushNews')] = "offline"
    BY <1>4, ClosedTyped
  <2>2. pushOld' # Len(pushNews')
    BY <1>4, <2>1, ClosedTyped
  <2> QED BY <2>1, <2>2 DEF PushShownInv
<1>5. CASE PublisherLeaves
  BY <1>4, <1>5 DEF PublisherLeaves
<1>6. CASE StreamChanged
  <2>1. PICK i \in 1 .. Len(pushNews) :
          /\ pushNews' = [j \in 1 .. Len(pushNews) - 1 |-> pushNews[IF j < i THEN j ELSE j + 1]]
          /\ pushOld' = IF i > pushOld THEN i - 1 ELSE pushOld - 1
          /\ \/ pushRow' = Written(i) /\ pushStale' = (i <= pushOld /\ (pushStale \/ pushRow' # pushRow))
             \/ pushRow' = pushRow /\ pushStale' = (i > pushOld \/ pushStale)
          /\ UNCHANGED <<pushLive, pushAt, pushDo>>
    BY <1>6 DEF StreamChanged, pushReqs
  <2>2. /\ Len(pushNews') = Len(pushNews) - 1 /\ pushNews[i] \in PushStatus
        /\ i < Len(pushNews) => pushNews'[Len(pushNews')] = pushNews[Len(pushNews)]
    BY <2>1, TakenTyped
  <2>3. Len(pushNews) \in Nat /\ pushOld \in 0 .. Len(pushNews)
    BY DEF PushTypeOK
  <2>4. Closing' = Closing
    BY <2>1 DEF Closing
  <2>5. CASE i > pushOld /\ i < Len(pushNews)
    <3>1. pushOld' < Len(pushNews') /\ pushOld < Len(pushNews)
      BY <2>1, <2>2, <2>3, <2>5
    <3>2. pushOld' # Len(pushNews')
      BY <2>1, <2>2, <2>3, <2>5
    <3> QED BY <2>1, <2>2, <2>5, <3>1, <3>2 DEF PushShownInv
  <2>6. CASE i > pushOld /\ i = Len(pushNews)
    <3>1. ~(pushOld' < Len(pushNews')) /\ pushOld < Len(pushNews)
      BY <2>1, <2>2, <2>3, <2>6
    <3>2. (pushNews[i] = "online") = pushLive
      BY <2>6, <3>1 DEF PushShownInv
    <3>3. pushRow' # "none" /\ ~pushStale' => pushRow' = pushNews[i]
      BY <2>1, <2>6 DEF Written
    <3> QED BY <2>1, <3>1, <3>2, <3>3 DEF PushShownInv
  <2>7. CASE ~(i > pushOld)
    <3>1. /\ i <= pushOld /\ (pushOld' < Len(pushNews') => pushOld < Len(pushNews) /\ i < Len(pushNews))
          /\ pushOld' = Len(pushNews') => pushOld = Len(pushNews)
      BY <2>1, <2>2, <2>3, <2>7
    <3>2. ~pushStale' => ~pushStale /\ pushRow' = pushRow
      BY <2>1, <3>1
    <3> QED BY <2>1, <2>2, <2>4, <3>1, <3>2 DEF PushShownInv
  <2>8. i = Len(pushNews) \/ i < Len(pushNews)
    BY <2>3
  <2> QED BY <2>5, <2>6, <2>7, <2>8
<1>7. CASE PushMediaRestart
  <2>1. Told("offline") /\ "offline" \in PushStatus /\ pushLive' = FALSE
    BY <1>7 DEF PushMediaRestart, PushStatus
  <2>2. pushOld' < Len(pushNews') /\ pushNews'[Len(pushNews')] = "offline" /\ pushOld' # Len(pushNews')
    BY <2>1, ToldTyped
  <2> QED BY <2>1, <2>2 DEF PushShownInv
<1>8. CASE PushCrash
  <2>1. Len(<<>>) = 0 /\ Len(pushNews) \in Nat /\ pushOld \in 0 .. Len(pushNews)
    BY DEF PushTypeOK
  <2>2. /\ ~(pushOld' < Len(pushNews')) /\ pushRow' = pushRow /\ pushLive' = pushLive
        /\ ~pushStale' => ~pushStale /\ ~(pushOld < Len(pushNews)) /\ ~Closing
    <3>1. pushNews' = <<>> /\ pushOld' = 0 /\ pushRow' = pushRow /\ pushLive' = pushLive
      BY <1>8 DEF PushCrash
    <3>2. Len(pushNews') = 0
      BY <2>1, <3>1
    <3>3. ~pushStale' => ~pushStale /\ ~(pushOld < Len(pushNews)) /\ ~Closing
      BY <1>8 DEF PushCrash, Closing
    <3> QED BY <3>1, <3>2, <3>3
  <2>3. ~pushStale' => pushOld = Len(pushNews)
    BY <2>1, <2>2
  <2> QED BY <2>2, <2>3 DEF PushShownInv
<1>9. ASSUME NEW a \in PushAdmins, PushCreate(a) \/ PushUpdate(a) \/ PushDelete(a) \/ PushBlock(a)
                                  \/ PushUnblock(a)
      PROVE  PushShownInv'
  <2>1. /\ pushAt[a] = "idle" /\ UNCHANGED <<pushRow, pushLive, pushNews, pushOld, pushStale>>
        /\ \A b \in PushAdmins \ {a} : pushDo'[b] = pushDo[b] /\ pushAt'[b] = pushAt[b]
    BY <1>9 DEF PushCreate, PushUpdate, PushDelete, PushBlock, PushBegin, PushGo, PushUnblock, pushMail, pushReqs, PushTypeOK
  <2>2. Closing => Closing'
    BY <2>1, ClosingStays
  <2> QED BY <2>1, <2>2 DEF PushShownInv
<1>10. ASSUME NEW a \in PushAdmins, PushSave(a)
       PROVE  PushShownInv'
  <2>1. /\ pushAt[a] = "commit" /\ UNCHANGED <<pushLive, pushNews, pushOld>>
        /\ \A b \in PushAdmins \ {a} : pushDo'[b] = pushDo[b] /\ pushAt'[b] = pushAt[b]
    BY <1>10 DEF PushSave, PushEnd, PushGo, pushMail, PushTypeOK
  <2>2. Closing => Closing'
    BY <2>1, ClosingStays
  <2>3. CASE pushRow' = pushRow /\ (pushStale => pushStale')
    BY <2>1, <2>2, <2>3 DEF PushShownInv
  <2>4. CASE pushRow' # pushRow
    <3>1. pushStale' \/ (pushRow' = "online") = pushLive
      BY <1>10, <2>4 DEF PushSave
    <3> QED BY <2>1, <3>1 DEF PushShownInv
  <2> QED BY <1>10, <2>3, <2>4 DEF PushSave
<1>11. ASSUME NEW a \in PushAdmins, PushDeleteCommit(a)
       PROVE  PushShownInv'
  BY <1>11 DEF PushDeleteCommit, pushMail, PushShownInv
<1>12. ASSUME NEW a \in PushAdmins, PushBlockCommit(a)
       PROVE  PushShownInv'
  <2>1. Closing'
    BY <1>12 DEF PushBlockCommit, PushGo, PushTypeOK, Closing
  <2> QED BY <1>12, <2>1 DEF PushBlockCommit, pushMail, PushShownInv, PushTypeOK
<1>13. ASSUME NEW a \in PushAdmins, PushClose(a)
       PROVE  PushShownInv'
  <2>1. pushRow' = pushRow
    BY <1>13 DEF PushClose
  <2>2. CASE Closed /\ pushLive
    BY <1>4, <2>2
  <2>3. CASE Closed /\ ~pushLive /\ pushStale' = pushStale
    BY <2>1, <2>3, ClosedTyped DEF pushMail, PushShownInv, PushTypeOK
  <2>4. CASE /\ PushEnd(a) /\ UNCHANGED <<pushLive, pushMail>>
             /\ pushStale' = (pushStale \/ (pushDo[a] = "block" /\ pushLive))
    <3>1. \A b \in PushAdmins \ {a} : pushDo'[b] = pushDo[b] /\ pushAt'[b] = pushAt[b]
      BY <2>4 DEF PushEnd, PushGo, PushTypeOK
    <3>2. pushDo[a] # "block" => (Closing => Closing')
      BY <3>1, ClosingStays
    <3> QED BY <2>1, <2>4, <3>2 DEF pushMail, PushShownInv
  <2> QED BY <1>13, <2>2, <2>3, <2>4 DEF PushClose
<1> QED BY <1>1, <1>2, <1>3, <1>5, <1>6, <1>7, <1>8, <1>9, <1>10, <1>11, <1>12, <1>13 DEF PushNext

\* Both hold throughout.
LEMMA PushAlways == PushSpec => [](PushTypeOK /\ PushOutInv /\ PushShownInv)
<1>1. PushInit => PushTypeOK /\ PushOutInv /\ PushShownInv
  <2> SUFFICES ASSUME PushInit PROVE PushTypeOK /\ PushOutInv /\ PushShownInv
    OBVIOUS
  <2>1. pushNews = <<>> /\ pushOld = 0
    BY DEF PushInit
  <2>2. pushNews \in Seq(PushStatus) /\ pushOld \in 0 .. Len(pushNews) /\ pushOld = Len(pushNews)
    BY <2>1
  <2>3. ~(pushOld < Len(pushNews))
    BY <2>1, <2>2
  <2>4. /\ pushRow \in {"none", "offline"} /\ pushBlocked = FALSE /\ pushLive = FALSE /\ pushHook = "idle"
        /\ pushAt = [a \in PushAdmins |-> "idle"] /\ pushDo = [a \in PushAdmins |-> "none"]
        /\ pushSnap = [a \in PushAdmins |-> "none"] /\ pushLate = FALSE /\ pushStale = FALSE
    BY DEF PushInit
  <2>5. PushTypeOK
    BY <2>2, <2>4 DEF PushTypeOK
  <2> QED BY <2>3, <2>4, <2>5 DEF PushOutInv, PushShownInv
<1> QED BY <1>1, PushTypeStep, PushOutStep, PushShownStep, PTL DEF PushSpec

\* A blocked or deleted stream is not published once its request has ended, and nobody
\* gets in, for any number of requests and publishers.
THEOREM PushOutStays == PushSpec => []PushKeptOut
<1>1. PushOutInv => PushKeptOut
  BY DEF PushOutInv, PushKeptOut, Closing
<1> QED BY <1>1, PushAlways, PTL

\* When hooks and requests are through, a row says whether its stream is published, for
\* any number of hooks in any order, unless what it says was written late or lost.
THEOREM PushRowShows == PushSpec => []PushShown
<1>1. PushTypeOK /\ PushShownInv => PushShown
  <2>1. PushTypeOK /\ pushNews = <<>> => pushOld = Len(pushNews)
    BY DEF PushTypeOK
  <2> QED BY <2>1 DEF PushShownInv, PushShown, Closing
<1> QED BY <1>1, PushAlways, PTL
-----------------------------------------------------------------------------
(* A GB28181 device.                                                            *)

GBPlaces ==
  {"idle", "write", "remember", "sync", "drop", "overdue", "open", "stop", "unlink", "send",
   "wait", "accepted", "failed", "commit", "forget", "list", "clean"}
GBTasks == Signals \cup {"none", "create", "update", "delete", "block", "unblock"}
GBRow == [there : BOOLEAN, enabled : BOOLEAN, online : BOOLEAN, fresh : BOOLEAN]

Refused == gbBlocked \/ (gbRow.there /\ ~gbRow.enabled)

GBTypeOK ==
  /\ gbRow \in GBRow
  /\ gbBlocked \in BOOLEAN /\ gbSources \subseteq WithChannel
  /\ gbSession \in BOOLEAN /\ gbDialog \in Nat /\ gbPort \in Nat /\ gbOpened \in Nat
  /\ gbAsked \subseteq GBInvites
  /\ gbAt \in [GBProcs -> GBPlaces] /\ gbDo \in [GBProcs -> GBTasks]
  /\ gbMy \in [GBInvites -> Nat]
  /\ gbSnap \in [GBAdmins -> GBRow]
  /\ gbListed \in [GBAdmins -> SUBSET WithChannel]
  /\ gbStarting \in BOOLEAN /\ gbLate \in BOOLEAN

\* An update has read a row that was there.
UpdateInv == \A a \in GBAdmins : gbAt[a] = "commit" /\ gbDo[a] = "update" => gbSnap[a].there

\* A request that is to forget the session and its calls, and one that is to close the
\* channel's RTP server, which it has listed or will.
Disabling(a) == gbDo[a] = "update" /\ gbAt[a] = "sync" /\ ~gbSnap[a].enabled
Forgets(a) == gbAt[a] \in {"stop", "unlink", "forget"} \/ Disabling(a)
HasListed(a) ==
  /\ "channel" \in gbListed[a]
  /\ gbAt[a] = "clean" \/ (gbDo[a] # "update" /\ gbAt[a] \in {"stop", "unlink", "forget"})
WillList(a) ==
  /\ "channel" \in gbSources
  /\ Disabling(a) \/ (gbDo[a] = "update" /\ gbAt[a] \in {"stop", "unlink", "forget", "list"})

\* An RTP server belongs to a channel that has its source, or is about to be closed;
\* what an update would save is not online if it is disabled.
KeepsOrder ==
  ~gbLate =>
    /\ \A v \in GBInvites : ~GBIdle(v) => "channel" \in gbSources
    /\ gbPort # 0 => "channel" \in gbSources \/ \E a \in GBAdmins : HasListed(a)
    /\ \A a \in GBAdmins : gbAt[a] = "commit" /\ gbDo[a] = "update" /\ ~gbSnap[a].enabled => ~gbSnap[a].online

\* Nobody works for a device that is out but those who put it out.
OutInv ==
  Refused /\ ~gbLate =>
    /\ ~LetIn /\ ~gbRow.online
    /\ \A p \in GBSignals \cup GBInvites : GBIdle(p)
    /\ gbSession \/ gbDialog # 0 => \E a \in GBAdmins : Forgets(a)
    /\ gbPort # 0 => \E a \in GBAdmins : HasListed(a) \/ WillList(a)

\* Who is who.
LEMMA Who ==
  /\ GBSignals \subseteq GBProcs /\ GBInvites \subseteq GBProcs /\ GBAdmins \subseteq GBProcs /\ Scan \in GBProcs
  /\ \A a \in GBAdmins : a \notin GBSignals /\ a \notin GBInvites /\ a # Scan
  /\ \A s \in GBSignals : s \notin GBInvites /\ s # Scan
  /\ Scan \notin GBInvites
BY GBAssumption DEF GBProcs, GBInvites, Scan

\* Whoever goes on, or ends, leaves the others where they are.
LEMMA Goes ==
  ASSUME GBTypeOK, NEW p \in GBProcs, NEW place \in GBPlaces, GBGo(p, place)
  PROVE  /\ gbAt' \in [GBProcs -> GBPlaces]
         /\ gbAt'[p] = place /\ \A q \in GBProcs \ {p} : gbAt'[q] = gbAt[q]
BY DEF GBGo, GBTypeOK

\* Who takes up a task leaves the tasks of the others.
LEMMA Takes ==
  ASSUME GBTypeOK, NEW p \in GBProcs, NEW kind \in GBTasks, gbDo' = [gbDo EXCEPT ![p] = kind]
  PROVE  /\ gbDo' \in [GBProcs -> GBTasks]
         /\ gbDo'[p] = kind /\ \A q \in GBProcs \ {p} : gbDo'[q] = gbDo[q]
BY DEF GBTypeOK

\* The row after a signal, an update of it or the start is a row.
LEMMA RowTyped ==
  ASSUME GBTypeOK
  PROVE  /\ HeardRow \in GBRow /\ HeardRow.there
         /\ MarkedOffline => /\ gbRow' \in GBRow
                             /\ gbRow'.there = gbRow.there /\ gbRow'.enabled = gbRow.enabled /\ ~gbRow'.online
         /\ Synced => gbSources' \subseteq WithChannel /\ gbSources \subseteq gbSources'
BY DEF GBTypeOK, GBRow, HeardRow, NewRow, MarkedOffline, Synced, WithChannel

\* Every step keeps the types.
LEMMA GBTypeStep ==
  ASSUME GBTypeOK, [GBNext]_gbVars
  PROVE  GBTypeOK'
<1> USE Who DEF gbRows, gbCalls, gbLocal, GBEnd, GBPlaces, GBTasks
<1>1. CASE UNCHANGED gbVars
  BY <1>1 DEF gbVars, GBTypeOK
<1>2. ASSUME NEW s \in GBSignals, GBEnter(s)
      PROVE  GBTypeOK'
  <2>1. PICK kind \in Signals : /\ gbDo' = [gbDo EXCEPT ![s] = kind]
                               /\ GBGo(s, IF kind \in {"register", "unregister"} THEN "write" ELSE "remember")
    BY <1>2 DEF GBEnter
  <2> QED BY <1>2, <2>1, Goes, Takes DEF GBEnter, GBTypeOK
<1>3. ASSUME NEW s \in GBSignals, GBRemember(s)
      PROVE  GBTypeOK'
  BY <1>3, Goes, Takes DEF GBRemember, GBTypeOK
<1>4. ASSUME NEW s \in GBSignals, GBWrite(s)
      PROVE  GBTypeOK'
  <2>1. gbSources' \subseteq WithChannel
    BY <1>4 DEF GBWrite, GBTypeOK
  <2> QED BY <1>4, <2>1, Goes, Takes, RowTyped DEF GBWrite, GBTypeOK
<1>5. ASSUME NEW s \in GBSignals, GBSync(s)
      PROVE  GBTypeOK'
  <2>1. gbSources' \subseteq WithChannel /\ gbAsked' \subseteq GBInvites
    BY <1>5, RowTyped DEF GBSync, GBAsk, GBInvites, GBTypeOK
  <2> QED BY <1>5, <2>1, Goes, Takes DEF GBSync, GBTypeOK
<1>6. ASSUME NEW s \in GBSignals, GBUnregister(s)
      PROVE  GBTypeOK'
  BY <1>6, Goes, RowTyped DEF GBUnregister, MarkFails, GBTypeOK
<1>7. ASSUME NEW p \in GBProcs, GBDrop(p)
      PROVE  GBTypeOK'
  BY <1>7, Goes, Takes DEF GBDrop, GBTypeOK
<1>8. CASE GBAge
  BY <1>8 DEF GBAge, GBRow, GBTypeOK
<1>9. CASE GBScan
  BY <1>9, Goes DEF GBScan, GBTypeOK
<1>10. CASE GBScanMark
  BY <1>10, Goes, RowTyped DEF GBScanMark, MarkFails, GBTypeOK
<1>11. ASSUME NEW v \in GBInvites, GBInvite(v)
       PROVE  GBTypeOK'
  <2>1. PICK place \in {"open", "idle"} : GBGo(v, place)
    BY <1>11 DEF GBInvite
  <2> QED BY <1>11, <2>1, Goes DEF GBInvite, GBTypeOK
<1>12. ASSUME NEW v \in GBInvites, GBOpen(v) \/ GBGiveUp(v)
       PROVE  GBTypeOK'
  <2>1. gbPort' \in Nat /\ gbOpened' \in Nat /\ gbMy' \in [GBInvites -> Nat] /\ gbAsked' \subseteq GBInvites
    BY <1>12 DEF GBOpen, GBGiveUp, GBAgain, GBAsk, GBTypeOK
  <2> QED BY <1>12, <2>1, Goes DEF GBOpen, GBGiveUp, GBAgain, GBTypeOK
<1>13. ASSUME NEW p \in GBProcs, NEW next \in GBPlaces, GBBye(p, next) \/ GBUnlink(p, next)
       PROVE  GBTypeOK'
  <2>1. PICK place \in {next, "unlink"} : GBGo(p, place)
    BY <1>13 DEF GBBye, GBUnlink
  <2> QED BY <1>13, <2>1, Goes DEF GBBye, GBUnlink, GBTypeOK
<1>14. ASSUME NEW v \in GBInvites, GBSend(v) \/ GBAnswer(v)
       PROVE  GBTypeOK'
  <2>1. PICK place \in {"wait", "accepted", "failed"} : GBGo(v, place)
    BY <1>14 DEF GBSend, GBAnswer
  <2> QED BY <1>14, <2>1, Goes DEF GBSend, GBAnswer, GBTypeOK
<1>15. ASSUME NEW v \in GBInvites, GBConnect(v)
       PROVE  GBTypeOK'
  <2>1. gbDialog' \in Nat /\ gbMy' \in [GBInvites -> Nat]
    BY <1>15 DEF GBConnect, GBTypeOK
  <2> QED BY <1>15, <2>1, Goes DEF GBConnect, GBTypeOK
<1>16. CASE GBStreamMissing \/ GBMediaRestart
  <2>1. gbAsked' \subseteq GBInvites
    BY <1>16 DEF GBStreamMissing, GBMediaRestart, GBAsk, GBInvites, GBTypeOK
  <2>2. gbPort' = gbPort \/ gbPort' = 0
    BY <1>16 DEF GBStreamMissing, GBMediaRestart
  <2>3. gbPort' \in Nat
    BY <2>2 DEF GBTypeOK
  <2> QED BY <1>16, <2>1, <2>3 DEF GBStreamMissing, GBMediaRestart, GBTypeOK
<1>17. ASSUME NEW a \in GBAdmins, GBCreate(a) \/ GBUnblock(a)
       PROVE  GBTypeOK'
  <2>1. gbLate' \in BOOLEAN
    BY <1>17 DEF GBCreate, GBUnblock, NoteLate, GBTypeOK
  <2>2. gbRow' \in GBRow
    <3>1. GBCreate(a) => gbRow' \in GBRow
      BY DEF GBCreate, NewRow, GBRow
    <3>2. GBUnblock(a) => gbRow' \in GBRow
      BY DEF GBUnblock, GBRow, GBTypeOK
    <3> QED BY <1>17, <3>1, <3>2
  <2> QED BY <1>17, <2>1, <2>2, Goes, Takes DEF GBCreate, GBUnblock, GBTypeOK
<1>18. ASSUME NEW a \in GBAdmins, GBUpdate(a)
       PROVE  GBTypeOK'
  <2>1. gbSnap' \in [GBAdmins -> GBRow]
    <3>1. PICK row \in {gbRow, [gbRow EXCEPT !.enabled = TRUE],
                       [gbRow EXCEPT !.enabled = FALSE, !.online = FALSE]} :
            gbSnap' = [gbSnap EXCEPT ![a] = row]
      BY <1>18 DEF GBUpdate
    <3>2. row \in GBRow
      BY <3>1 DEF GBRow, GBTypeOK
    <3> QED BY <3>1, <3>2 DEF GBTypeOK
  <2> QED BY <1>18, <2>1, Goes, Takes DEF GBUpdate, GBTypeOK
<1>19. ASSUME NEW a \in GBAdmins, GBSave(a)
       PROVE  GBTypeOK'
  <2>1. gbRow' \in GBRow
    BY <1>19 DEF GBSave, GBRow, GBTypeOK
  <2>2. gbLate' \in BOOLEAN /\ gbBlocked' \in BOOLEAN
    BY <1>19 DEF GBSave, NoteLate, GBTypeOK
  <2> QED BY <1>19, <2>1, <2>2, Goes DEF GBSave, GBTypeOK
<1>20. ASSUME NEW a \in GBAdmins, GBDelete(a)
       PROVE  GBTypeOK'
  <2>1. gbLate' \in BOOLEAN
    BY <1>20 DEF GBDelete, NoteLate, GBTypeOK
  <2> QED BY <1>20, <2>1, Goes, Takes DEF GBDelete, NoRow, GBRow, GBTypeOK
<1>21. ASSUME NEW a \in GBAdmins, GBBlock(a)
       PROVE  GBTypeOK'
  BY <1>21, Goes, Takes DEF GBBlock, GBTypeOK
<1>22. ASSUME NEW a \in GBAdmins, GBBlockCommit(a)
       PROVE  GBTypeOK'
  <2>1. gbLate' \in BOOLEAN
    BY <1>22 DEF GBBlockCommit, NoteLate, GBTypeOK
  <2> QED BY <1>22, <2>1, Goes DEF GBBlockCommit, GBRow, GBTypeOK
<1>23. ASSUME NEW a \in GBAdmins, GBAdminSync(a)
       PROVE  GBTypeOK'
  <2>1. gbSnap' \in [GBAdmins -> GBRow]
    BY <1>23 DEF GBAdminSync, NoRow, GBRow, GBTypeOK
  <2> QED BY <1>23, <2>1, Goes, Takes, RowTyped DEF GBAdminSync, GBTypeOK
<1>24. ASSUME NEW a \in GBAdmins, GBForget(a) \/ GBList(a)
       PROVE  GBTypeOK'
  <2>1. PICK place \in {"list", "clean"} : GBGo(a, place)
    BY <1>24 DEF GBForget, GBList
  <2>2. gbListed' \in [GBAdmins -> SUBSET WithChannel]
    BY <1>24 DEF GBForget, GBList, GBTypeOK
  <2>3. gbDialog' \in Nat /\ gbSession' \in BOOLEAN
    <3>1. gbDialog' = 0 \/ gbDialog' = gbDialog
      BY <1>24 DEF GBForget, GBList
    <3>2. gbDialog' \in Nat
      BY <3>1 DEF GBTypeOK
    <3>3. gbSession' = FALSE \/ gbSession' = gbSession
      BY <1>24 DEF GBForget, GBList
    <3> QED BY <3>2, <3>3 DEF GBTypeOK
  <2> QED BY <1>24, <2>1, <2>2, <2>3, Goes DEF GBForget, GBList, GBTypeOK
<1>25. ASSUME NEW a \in GBAdmins, GBClean(a)
       PROVE  GBTypeOK'
  BY <1>25, Goes, Takes DEF GBClean, GBTypeOK
<1>26. CASE GBCrash
  BY <1>26 DEF GBCrash, NoRow, GBRow, GBTypeOK
<1>27. CASE GBStart
  BY <1>27 DEF GBStart, GBRow, GBTypeOK
<1> QED BY <1>1, <1>2, <1>3, <1>4, <1>5, <1>6, <1>7, <1>8, <1>9, <1>10, <1>11, <1>12, <1>13, <1>14,
           <1>15, <1>16, <1>17, <1>18, <1>19, <1>20, <1>21, <1>22, <1>23, <1>24, <1>25, <1>26, <1>27
        DEF GBNext, GBSignalStep, GBScanStep, GBInviteStep, GBAdminStep

\* What happens without a request.
GBBackground ==
  \/ \E s \in GBSignals : GBEnter(s) \/ GBSignalStep(s)
  \/ GBAge \/ GBScanStep \/ GBStreamMissing \/ GBMediaRestart \/ GBStart
  \/ \E v \in GBInvites : GBInviteStep(v)

\* It leaves the requests alone, and no row is deleted by it.
LEMMA BackgroundRequests ==
  ASSUME GBTypeOK, GBBackground, NEW a \in GBAdmins
  PROVE  /\ gbAt'[a] = gbAt[a] /\ gbDo'[a] = gbDo[a] /\ gbListed'[a] = gbListed[a]
         /\ gbSnap'[a].there = gbSnap[a].there /\ gbSnap'[a].enabled = gbSnap[a].enabled
         /\ gbSnap'[a].online = gbSnap[a].online
         /\ gbLate' = gbLate /\ gbBlocked' = gbBlocked
<1> USE Who DEF gbRows, gbCalls, gbLocal, GBEnd, GBPlaces, GBTasks
<1>1. ASSUME NEW s \in GBSignals, GBEnter(s)
      PROVE  gbAt'[a] = gbAt[a] /\ gbDo'[a] = gbDo[a] /\ gbLocal' = gbLocal /\ gbLate' = gbLate /\ gbBlocked' = gbBlocked
  <2>1. PICK kind \in Signals : /\ gbDo' = [gbDo EXCEPT ![s] = kind]
                               /\ GBGo(s, IF kind \in {"register", "unregister"} THEN "write" ELSE "remember")
    BY <1>1 DEF GBEnter
  <2> QED BY <1>1, <2>1, Goes, Takes DEF GBEnter
<1>2. ASSUME NEW s \in GBSignals, GBSignalStep(s)
      PROVE  gbAt'[a] = gbAt[a] /\ gbDo'[a] = gbDo[a] /\ gbLocal' = gbLocal /\ gbLate' = gbLate /\ gbBlocked' = gbBlocked
  <2>1. CASE GBRemember(s)
    BY <2>1, Goes, Takes DEF GBRemember
  <2>2. CASE GBWrite(s)
    BY <2>2, Goes, Takes DEF GBWrite
  <2>3. CASE GBSync(s)
    BY <2>3, Goes, Takes DEF GBSync
  <2>4. CASE GBUnregister(s) \/ GBDrop(s)
    BY <2>4, Goes, Takes DEF GBUnregister, GBDrop
  <2> QED BY <1>2, <2>1, <2>2, <2>3, <2>4 DEF GBSignalStep
<1>3. ASSUME GBScanStep
      PROVE  gbAt'[a] = gbAt[a] /\ gbDo'[a] = gbDo[a] /\ gbLocal' = gbLocal /\ gbLate' = gbLate /\ gbBlocked' = gbBlocked
  <2>1. CASE GBScan \/ GBScanMark
    BY <2>1, Goes DEF GBScan, GBScanMark
  <2>2. CASE GBDrop(Scan)
    BY <2>2, Goes, Takes DEF GBDrop
  <2> QED BY <1>3, <2>1, <2>2 DEF GBScanStep
<1>4. ASSUME NEW v \in GBInvites, GBInviteStep(v)
      PROVE  /\ gbAt'[a] = gbAt[a] /\ gbDo'[a] = gbDo[a] /\ gbSnap' = gbSnap /\ gbListed' = gbListed
             /\ gbLate' = gbLate /\ gbBlocked' = gbBlocked
  <2>1. \E place \in GBPlaces : GBGo(v, place)
    BY <1>4 DEF GBInviteStep, GBInvite, GBOpen, GBBye, GBUnlink, GBSend, GBAnswer, GBConnect, GBGiveUp, GBAgain
  <2>2. gbAt'[a] = gbAt[a]
    BY <2>1, Goes
  <2> QED BY <1>4, <2>2 DEF GBInviteStep, GBInvite, GBOpen, GBBye, GBUnlink, GBSend, GBAnswer, GBConnect, GBGiveUp
<1>5. ASSUME GBStreamMissing \/ GBMediaRestart \/ GBStart
      PROVE  gbAt' = gbAt /\ gbDo' = gbDo /\ gbLocal' = gbLocal /\ gbLate' = gbLate /\ gbBlocked' = gbBlocked
  BY <1>5 DEF GBStreamMissing, GBMediaRestart, GBStart
<1>6. ASSUME GBAge
      PROVE  /\ gbAt' = gbAt /\ gbDo' = gbDo /\ gbListed' = gbListed /\ gbLate' = gbLate /\ gbBlocked' = gbBlocked
             /\ gbSnap'[a].there = gbSnap[a].there /\ gbSnap'[a].enabled = gbSnap[a].enabled
             /\ gbSnap'[a].online = gbSnap[a].online
  BY <1>6 DEF GBAge, GBTypeOK, GBRow
<1> QED BY <1>1, <1>2, <1>3, <1>4, <1>5, <1>6 DEF GBBackground

\* It adds sources to rows, and puts a row in the way of a signal only.
LEMMA BackgroundRow ==
  ASSUME GBTypeOK, GBBackground
  PROVE  /\ gbSources \subseteq gbSources' /\ (gbRow.there => gbRow'.there)
         /\ gbSources' # gbSources => gbRow'.there
         /\ (gbRow.there => gbRow'.enabled = gbRow.enabled) /\ (~gbRow.there /\ gbRow'.there => gbRow'.enabled)
<1> USE DEF gbRows
<1>1. UNCHANGED <<gbRow, gbSources>> =>
        /\ gbSources \subseteq gbSources' /\ (gbRow.there => gbRow'.there)
        /\ gbSources' # gbSources => gbRow'.there
        /\ (gbRow.there => gbRow'.enabled = gbRow.enabled) /\ (~gbRow.there /\ gbRow'.there => gbRow'.enabled)
  OBVIOUS
<1>2. ASSUME NEW s \in GBSignals, GBEnter(s) \/ GBRemember(s) \/ GBDrop(s)
      PROVE  UNCHANGED <<gbRow, gbSources>>
  BY <1>2 DEF GBEnter, GBRemember, GBDrop
<1>3. ASSUME NEW s \in GBSignals, GBWrite(s), gbRow' = HeardRow
      PROVE  /\ gbSources \subseteq gbSources' /\ gbRow'.there
             /\ (gbRow.there => gbRow'.enabled = gbRow.enabled) /\ (~gbRow.there /\ gbRow'.there => gbRow'.enabled)
  BY <1>3 DEF GBWrite, HeardRow, NewRow, WithChannel, GBTypeOK, GBRow
<1>4. ASSUME NEW s \in GBSignals, GBWrite(s), gbRow' # HeardRow
      PROVE  UNCHANGED <<gbRow, gbSources>>
  BY <1>4 DEF GBWrite
<1>5. MarkedOffline => gbRow'.there = gbRow.there /\ gbRow'.enabled = gbRow.enabled
  BY RowTyped
<1>6. Synced => gbSources \subseteq gbSources' /\ (gbSources' # gbSources => gbRow.there)
  BY DEF Synced
<1>7. ASSUME NEW s \in GBSignals, GBSync(s)
      PROVE  gbRow' = gbRow /\ (Synced \/ gbSources' = gbSources)
  BY <1>7 DEF GBSync
<1>8. ASSUME NEW s \in GBSignals, GBUnregister(s)
      PROVE  (MarkedOffline \/ gbRow' = gbRow) /\ (Synced \/ gbSources' = gbSources)
  BY <1>8 DEF GBUnregister, MarkFails
<1>9. ASSUME GBScanMark
      PROVE  (MarkedOffline \/ gbRow' = gbRow) /\ (Synced \/ gbSources' = gbSources)
  BY <1>9 DEF GBScanMark, MarkFails
<1>10. ASSUME GBScan \/ GBDrop(Scan) \/ GBStreamMissing \/ GBMediaRestart
       PROVE  UNCHANGED <<gbRow, gbSources>>
  BY <1>10 DEF GBScan, GBDrop, GBStreamMissing, GBMediaRestart
<1>11. ASSUME NEW v \in GBInvites, GBInviteStep(v)
       PROVE  UNCHANGED <<gbRow, gbSources>>
  BY <1>11 DEF GBInviteStep, GBInvite, GBOpen, GBBye, GBUnlink, GBSend, GBAnswer, GBConnect, GBGiveUp
<1>12. ASSUME GBAge \/ GBStart
       PROVE  gbSources' = gbSources /\ gbRow'.there = gbRow.there /\ gbRow'.enabled = gbRow.enabled
  <2>1. GBAge => gbSources' = gbSources /\ gbRow' = [gbRow EXCEPT !.fresh = FALSE]
    BY DEF GBAge
  <2>2. GBStart => gbSources' = gbSources /\ gbRow' = [gbRow EXCEPT !.online = gbRow.online /\ ~gbRow.enabled]
    BY DEF GBStart
  <2> QED BY <1>12, <2>1, <2>2 DEF GBTypeOK, GBRow
<1> QED BY <1>1, <1>2, <1>3, <1>4, <1>5, <1>6, <1>7, <1>8, <1>9, <1>10, <1>11, <1>12
        DEF GBBackground, GBSignalStep, GBScanStep

\* Requests.  A step of one leaves everybody else alone.
OthersLeft(a) ==
  /\ \A q \in GBProcs \ {a} : gbAt'[q] = gbAt[q] /\ gbDo'[q] = gbDo[q]
  /\ \A b \in GBAdmins \ {a} : gbSnap'[b] = gbSnap[b] /\ gbListed'[b] = gbListed[b]

GBOperator(a) ==
  GBCreate(a) \/ GBUpdate(a) \/ GBDelete(a) \/ GBBlock(a) \/ GBUnblock(a) \/ GBAdminStep(a)

\* A request leaves the places of the others.
LEMMA OneRequestAtATime ==
  ASSUME GBTypeOK, NEW a \in GBAdmins, GBOperator(a)
  PROVE  OthersLeft(a)
<1> USE Who DEF gbRows, gbCalls, gbLocal, GBEnd, GBPlaces, GBTasks, OthersLeft
<1>1. CASE GBCreate(a) \/ GBUnblock(a)
  BY <1>1, Goes, Takes DEF GBCreate, GBUnblock
<1>9. CASE GBBlock(a)
  BY <1>9, Goes, Takes DEF GBBlock, GBTypeOK
<1>2. CASE GBUpdate(a)
  <2>1. \A b \in GBAdmins \ {a} : gbSnap'[b] = gbSnap[b]
    BY <1>2 DEF GBUpdate, GBTypeOK
  <2> QED BY <1>2, <2>1, Goes, Takes DEF GBUpdate
<1>3. CASE GBDelete(a)
  BY <1>3, Goes, Takes DEF GBDelete, GBTypeOK
<1>4. CASE GBSave(a) \/ GBBlockCommit(a)
  BY <1>4, Goes DEF GBSave, GBBlockCommit, GBTypeOK
<1>5. CASE GBAdminSync(a)
  BY <1>5, Goes, Takes DEF GBAdminSync, GBTypeOK
<1>6. CASE GBBye(a, "forget") \/ GBUnlink(a, "forget") \/ GBForget(a)
  <2>1. PICK place \in {"forget", "unlink", "list", "clean"} : GBGo(a, place)
    BY <1>6 DEF GBBye, GBUnlink, GBForget
  <2> QED BY <1>6, <2>1, Goes DEF GBBye, GBUnlink, GBForget
<1>7. CASE GBList(a)
  BY <1>7, Goes DEF GBList, GBTypeOK
<1>8. CASE GBClean(a)
  BY <1>8, Goes, Takes DEF GBClean, GBTypeOK
<1> QED BY <1>1, <1>2, <1>3, <1>4, <1>5, <1>6, <1>7, <1>8, <1>9 DEF GBOperator, GBAdminStep

\* What the others were to clean up, they still are.
LEMMA OthersClean ==
  ASSUME NEW a \in GBAdmins, OthersLeft(a)
  PROVE  /\ \A p \in GBSignals \cup GBInvites : gbAt'[p] = gbAt[p]
         /\ \A b \in GBAdmins \ {a} :
              /\ Forgets(b) => Forgets(b)'
              /\ HasListed(b) <=> HasListed(b)'
              /\ ("channel" \in gbSources => "channel" \in gbSources') => (WillList(b) => WillList(b)')
              /\ gbAt'[b] = gbAt[b] /\ gbDo'[b] = gbDo[b] /\ gbSnap'[b] = gbSnap[b]
BY Who DEF OthersLeft, Forgets, HasListed, WillList, Disabling

GBInv == GBTypeOK /\ UpdateInv /\ SourcesHaveDevice /\ KeepsOrder /\ OutInv

\* A request that changes neither row nor block, and passes on what is to be cleaned up.
LEMMA RequestCarries ==
  ASSUME GBInv, NEW a \in GBAdmins, OthersLeft(a),
         gbRow' = gbRow, gbBlocked' = gbBlocked, gbLate' = gbLate, gbSources \subseteq gbSources',
         gbSession' => gbSession, gbDialog' \in {gbDialog, 0}, gbPort' \in {gbPort, 0},
         Forgets(a) => Forgets(a)' \/ (~gbSession' /\ gbDialog' = 0),
         HasListed(a) => HasListed(a)' \/ gbPort' = 0,
         WillList(a) => HasListed(a)' \/ WillList(a)' \/ gbPort' = 0,
         gbAt'[a] = "commit" /\ gbDo'[a] = "update" => gbSnap'[a].enabled \/ gbLate \/ ~gbSnap'[a].online
  PROVE  KeepsOrder' /\ OutInv'
<1>1. /\ \A p \in GBSignals \cup GBInvites : gbAt'[p] = gbAt[p]
      /\ \A b \in GBAdmins \ {a} :
           /\ Forgets(b) => Forgets(b)'
           /\ HasListed(b) => HasListed(b)'
           /\ WillList(b) => WillList(b)'
           /\ gbAt'[b] = gbAt[b] /\ gbDo'[b] = gbDo[b] /\ gbSnap'[b] = gbSnap[b]
  BY OthersClean
<1>2. (\E b \in GBAdmins : Forgets(b)) => (\E b \in GBAdmins : Forgets(b)') \/ (~gbSession' /\ gbDialog' = 0)
  BY <1>1
<1>3. (\E b \in GBAdmins : HasListed(b)) => (\E b \in GBAdmins : HasListed(b)') \/ gbPort' = 0
  BY <1>1
<1>4. (\E b \in GBAdmins : HasListed(b) \/ WillList(b)) =>
        (\E b \in GBAdmins : HasListed(b)' \/ WillList(b)') \/ gbPort' = 0
  BY <1>1
<1>5. KeepsOrder'
  <2> SUFFICES ASSUME ~gbLate PROVE KeepsOrder'
    BY DEF KeepsOrder
  <2>1. \A v \in GBInvites : gbAt'[v] # "idle" => "channel" \in gbSources'
    BY <1>1 DEF GBInv, KeepsOrder, GBIdle
  <2>2. gbPort' # 0 => "channel" \in gbSources' \/ \E b \in GBAdmins : HasListed(b)'
    BY <1>3 DEF GBInv, KeepsOrder
  <2>3. \A b \in GBAdmins : gbAt'[b] = "commit" /\ gbDo'[b] = "update" /\ ~gbSnap'[b].enabled => ~gbSnap'[b].online
    BY <1>1 DEF GBInv, KeepsOrder
  <2> QED BY <2>1, <2>2, <2>3 DEF KeepsOrder, GBIdle
<1>6. OutInv'
  <2> SUFFICES ASSUME Refused, ~gbLate PROVE OutInv'
    BY DEF OutInv, Refused
  <2>1. /\ ~LetIn /\ ~gbRow.online
        /\ \A p \in GBSignals \cup GBInvites : gbAt[p] = "idle"
        /\ gbSession \/ gbDialog # 0 => \E b \in GBAdmins : Forgets(b)
        /\ gbPort # 0 => \E b \in GBAdmins : HasListed(b) \/ WillList(b)
    BY DEF GBInv, OutInv, GBIdle
  <2>2. ~LetIn' /\ ~gbRow'.online
    BY <2>1 DEF LetIn
  <2>3. \A p \in GBSignals \cup GBInvites : gbAt'[p] = "idle"
    BY <2>1, <1>1
  <2>4. gbSession' \/ gbDialog' # 0 => \E b \in GBAdmins : Forgets(b)'
    BY <2>1, <1>2
  <2>5. gbPort' # 0 => \E b \in GBAdmins : HasListed(b)' \/ WillList(b)'
    BY <2>1, <1>4
  <2> QED BY <2>2, <2>3, <2>4, <2>5 DEF OutInv, GBIdle
<1> QED BY <1>5, <1>6

\* A request that lets the device in.
LEMMA RequestLetsIn ==
  ASSUME GBInv, NEW a \in GBAdmins, OthersLeft(a), NEW request, NoteLate(a, request, FALSE),
         ~Refused', gbSources' = gbSources, gbPort' = gbPort, ~HasListed(a), gbAt'[a] = "sync"
  PROVE  KeepsOrder' /\ OutInv'
<1>1. /\ \A p \in GBSignals \cup GBInvites : gbAt'[p] = gbAt[p]
      /\ \A b \in GBAdmins \ {a} :
           /\ HasListed(b) => HasListed(b)'
           /\ gbAt'[b] = gbAt[b] /\ gbDo'[b] = gbDo[b] /\ gbSnap'[b] = gbSnap[b]
  BY OthersClean
<1>2. gbLate /\ ~gbLate' => gbPort = 0 /\ \A p \in GBProcs \ {a} : gbAt[p] = "idle"
  BY DEF NoteLate, GBIdle
<1>3. ~gbLate' => \A v \in GBInvites : gbAt'[v] # "idle" => "channel" \in gbSources'
  <2>1. CASE gbLate
    BY <1>1, <1>2, <2>1, Who
  <2>2. CASE ~gbLate
    BY <1>1, <2>2 DEF GBInv, KeepsOrder, GBIdle
  <2> QED BY <2>1, <2>2
<1>4. ~gbLate' /\ gbPort' # 0 => "channel" \in gbSources' \/ \E b \in GBAdmins : HasListed(b)'
  BY <1>1, <1>2 DEF GBInv, KeepsOrder
<1>5. ~gbLate' => \A b \in GBAdmins : gbAt'[b] = "commit" /\ gbDo'[b] = "update" /\ ~gbSnap'[b].enabled => ~gbSnap'[b].online
  <2>1. CASE gbLate
    BY <1>1, <1>2, <2>1, Who
  <2>2. CASE ~gbLate
    BY <1>1, <2>2 DEF GBInv, KeepsOrder
  <2> QED BY <2>1, <2>2
<1> QED BY <1>3, <1>4, <1>5 DEF KeepsOrder, OutInv, GBIdle

\* A request that puts it out.
LEMMA RequestPutsOut ==
  ASSUME GBInv, NEW a \in GBAdmins, OthersLeft(a), NEW request, NoteLate(a, request, TRUE),
         ~gbLate' => ~LetIn' /\ ~gbRow'.online,
         ~HasListed(a), gbPort' = gbPort, Forgets(a)', gbAt'[a] # "commit",
         "channel" \in gbSources => "channel" \in gbSources' \/ HasListed(a)',
         ~gbLate' /\ "channel" \in gbSources => HasListed(a)' \/ WillList(a)'
  PROVE  KeepsOrder' /\ OutInv'
<1>1. /\ \A p \in GBSignals \cup GBInvites : gbAt'[p] = gbAt[p]
      /\ \A b \in GBAdmins \ {a} :
           /\ HasListed(b) => HasListed(b)'
           /\ gbAt'[b] = gbAt[b] /\ gbDo'[b] = gbDo[b] /\ gbSnap'[b] = gbSnap[b]
  BY OthersClean
<1>2. ~gbLate' => ~gbLate /\ \A p \in GBSignals \cup GBInvites : gbAt[p] = "idle"
  BY DEF NoteLate, LateAtRefusal, GBIdle
<1>3. ~gbLate' => \A p \in GBSignals \cup GBInvites : gbAt'[p] = "idle"
  BY <1>1, <1>2
<1>4. ~gbLate' /\ gbPort' # 0 => "channel" \in gbSources \/ \E b \in GBAdmins : HasListed(b)'
  BY <1>1, <1>2 DEF GBInv, KeepsOrder
<1>5. ~gbLate' => \A b \in GBAdmins : gbAt'[b] = "commit" /\ gbDo'[b] = "update" /\ ~gbSnap'[b].enabled => ~gbSnap'[b].online
  BY <1>1, <1>2 DEF GBInv, KeepsOrder
<1>6. KeepsOrder'
  BY <1>3, <1>4, <1>5 DEF KeepsOrder, GBIdle
<1>7. OutInv'
  <2>1. ~gbLate' /\ gbPort' # 0 => \E b \in GBAdmins : HasListed(b)' \/ WillList(b)'
    BY <1>4
  <2> QED BY <1>3, <2>1 DEF OutInv, GBIdle
<1> QED BY <1>6, <1>7

\* What a request may do to its own duties: by where it is.
LEMMA RequestStep ==
  ASSUME GBInv, NEW a \in GBAdmins, GBOperator(a)
  PROVE  KeepsOrder' /\ OutInv'
<1> USE DEF gbRows, gbCalls, gbLocal, GBPlaces, GBTasks
<1>1. OthersLeft(a) /\ GBTypeOK
  BY OneRequestAtATime DEF GBInv
<1>2. ASSUME GBCreate(a) \/ GBUnblock(a)
      PROVE  KeepsOrder' /\ OutInv'
  <2>1. gbAt[a] = "idle" /\ gbAt'[a] = "sync" /\ gbSources' = gbSources /\ gbPort' = gbPort
    BY <1>1, <1>2, Goes, Who DEF GBCreate, GBUnblock, GBFree, GBIdle
  <2>2. ~gbBlocked' /\ (gbRow'.there => gbRow'.enabled)
    <3>1. GBCreate(a) => ~gbBlocked' /\ (gbRow'.there => gbRow'.enabled)
      BY DEF GBCreate, NewRow
    <3>2. GBUnblock(a) => ~gbBlocked' /\ (gbRow'.there => gbRow'.enabled)
      BY <1>1 DEF GBUnblock, GBTypeOK, GBRow
    <3> QED BY <1>2, <3>1, <3>2
  <2>3. ~Refused' /\ ~HasListed(a)
    BY <2>1, <2>2 DEF Refused, HasListed
  <2>4. NoteLate(a, "create", FALSE) \/ NoteLate(a, "unblock", FALSE)
    BY <1>2 DEF GBCreate, GBUnblock
  <2> QED BY <1>1, <2>1, <2>3, <2>4, RequestLetsIn
<1>3. ASSUME GBUpdate(a)
      PROVE  KeepsOrder' /\ OutInv'
  <2>1. gbAt[a] = "idle" /\ UNCHANGED <<gbRows, gbCalls, gbLate>>
    BY <1>3 DEF GBUpdate, GBFree, GBIdle
  <2>2. ~Forgets(a) /\ ~HasListed(a) /\ ~WillList(a)
    BY <2>1 DEF Forgets, HasListed, WillList, Disabling
  <2>3. PICK row \in {gbRow, [gbRow EXCEPT !.enabled = TRUE],
                     [gbRow EXCEPT !.enabled = FALSE, !.online = FALSE]} :
          gbSnap' = [gbSnap EXCEPT ![a] = row]
    BY <1>3 DEF GBUpdate
  <2>4. gbSnap'[a] = row
    BY <1>1, <2>3 DEF GBTypeOK
  <2>5. gbRow.there
    BY <1>3 DEF GBUpdate
  <2>6. ~gbRow.enabled => gbLate \/ ~gbRow.online
    BY <2>5 DEF GBInv, OutInv, Refused
  <2>7. row.enabled \/ gbLate \/ ~row.online
    BY <1>1, <2>3, <2>6 DEF GBTypeOK, GBRow
  <2> QED BY <1>1, <2>1, <2>2, <2>4, <2>7, RequestCarries
<1>4. ASSUME GBSave(a), gbSnap[a].enabled
      PROVE  KeepsOrder' /\ OutInv'
  <2>1. gbAt'[a] = "sync" /\ gbSources' = gbSources /\ gbPort' = gbPort /\ NoteLate(a, "update", FALSE)
    BY <1>1, <1>4, Goes, Who DEF GBSave
  <2>2. ~HasListed(a)
    BY <1>4 DEF GBSave, HasListed
  <2>3. gbRow'.enabled /\ ~gbBlocked'
    BY <1>1, <1>4 DEF GBSave, GBTypeOK, GBRow
  <2> QED BY <1>1, <2>1, <2>2, <2>3, RequestLetsIn DEF Refused
<1>5. ASSUME GBSave(a), ~gbSnap[a].enabled
      PROVE  KeepsOrder' /\ OutInv'
  <2>1. gbAt'[a] = "sync" /\ gbSources' = gbSources /\ gbPort' = gbPort /\ NoteLate(a, "update", TRUE)
    BY <1>1, <1>5, Goes, Who DEF GBSave
  <2>2. ~HasListed(a)
    BY <1>5 DEF GBSave, HasListed
  <2>3. gbSnap[a].there /\ gbDo'[a] = "update"
    BY <1>5 DEF GBSave, GBInv, UpdateInv
  <2>4. ~gbLate' => gbRow.there /\ ~gbSnap[a].online
    BY <1>5, <2>1 DEF GBSave, NoteLate, LateAtRefusal, GBInv, KeepsOrder
  <2>5. gbRow'.there /\ gbSnap'[a] = gbRow'
    BY <1>1, <1>5, <2>3 DEF GBSave, GBTypeOK, GBRow
  <2>6. gbRow'.enabled = ~gbRow.there /\ gbRow'.online = gbSnap[a].online
    BY <1>1, <1>5 DEF GBSave, GBTypeOK, GBRow
  <2>7. ~gbLate' => ~LetIn' /\ ~gbRow'.online /\ Disabling(a)'
    BY <2>1, <2>3, <2>4, <2>5, <2>6 DEF LetIn, Disabling
  <2>8. ~gbLate' => Forgets(a)' /\ ("channel" \in gbSources => WillList(a)')
    BY <2>1, <2>7 DEF Forgets, WillList
  <2>9. CASE gbLate'
    BY <2>9 DEF KeepsOrder, OutInv
  <2>10. CASE ~gbLate'
    BY <1>1, <2>1, <2>2, <2>7, <2>8, <2>10, RequestPutsOut
  <2> QED BY <2>9, <2>10
<1>6. ASSUME GBDelete(a)
      PROVE  KeepsOrder' /\ OutInv'
  <2>1. gbAt[a] = "idle" /\ gbAt'[a] = "stop" /\ gbDo'[a] = "delete" /\ gbPort' = gbPort /\ NoteLate(a, "delete", TRUE)
    BY <1>1, <1>6, Goes, Takes, Who DEF GBDelete, GBFree, GBIdle
  <2>2. gbListed'[a] = gbSources
    BY <1>1, <1>6 DEF GBDelete, GBTypeOK
  <2>3. ~LetIn' /\ ~gbRow'.online
    BY <1>6 DEF GBDelete, NoRow, LetIn
  <2>4. ~HasListed(a) /\ Forgets(a)' /\ ("channel" \in gbSources => HasListed(a)')
    BY <2>1, <2>2 DEF HasListed, Forgets
  <2> QED BY <1>1, <2>1, <2>3, <2>4, RequestPutsOut
<1>7. ASSUME GBBlockCommit(a)
      PROVE  KeepsOrder' /\ OutInv'
  <2>1. /\ gbAt[a] = "commit" /\ gbAt'[a] = "stop" /\ gbDo'[a] = "block" /\ gbPort' = gbPort /\ gbSources' = gbSources
        /\ gbListed' = gbListed /\ NoteLate(a, "block", TRUE)
    BY <1>1, <1>7, Goes, Who DEF GBBlockCommit
  <2>2. ~gbLate' => gbListed'[a] = gbSources
    BY <2>1 DEF NoteLate, LateAtRefusal
  <2>3. ~LetIn' /\ ~gbRow'.online
    BY <1>1, <1>7 DEF GBBlockCommit, LetIn, GBTypeOK, GBRow
  <2>4. ~HasListed(a) /\ Forgets(a)' /\ (~gbLate' /\ "channel" \in gbSources => HasListed(a)')
    BY <2>1, <2>2 DEF HasListed, Forgets
  <2> QED BY <1>1, <2>1, <2>3, <2>4, RequestPutsOut
<1>8. ASSUME GBBlock(a)
      PROVE  KeepsOrder' /\ OutInv'
  <2>1. gbAt[a] = "idle" /\ gbDo'[a] = "block" /\ UNCHANGED <<gbRows, gbCalls, gbLate>>
    BY <1>1, <1>8, Takes, Who DEF GBBlock, GBFree, GBIdle
  <2>2. ~Forgets(a) /\ ~HasListed(a) /\ ~WillList(a)
    BY <2>1 DEF Forgets, HasListed, WillList, Disabling
  <2> QED BY <1>1, <2>1, <2>2, RequestCarries
<1>9. ASSUME GBAdminSync(a)
      PROVE  KeepsOrder' /\ OutInv'
  <2>1. gbAt[a] = "sync" /\ UNCHANGED <<gbRow, gbBlocked, gbCalls, gbLate>> /\ gbSources \subseteq gbSources'
    BY <1>1, <1>9, RowTyped DEF GBAdminSync
  <2>2. Disabling(a) => gbAt'[a] = "stop" /\ gbDo'[a] = "update"
    BY <1>1, <1>9, Goes, Who DEF GBAdminSync, Disabling
  <2>3. gbAt'[a] # "commit"
    BY <1>1, <1>9, Goes, Who DEF GBAdminSync, GBEnd
  <2>4. /\ Forgets(a) => Forgets(a)'
        /\ ~HasListed(a)
        /\ WillList(a) => WillList(a)'
    BY <2>1, <2>2 DEF Forgets, HasListed, WillList
  <2> QED BY <1>1, <2>1, <2>3, <2>4, RequestCarries
<1>10. ASSUME GBBye(a, "forget") \/ GBUnlink(a, "forget")
       PROVE  KeepsOrder' /\ OutInv'
  <2>1. PICK place \in {"forget", "unlink"} : GBGo(a, place)
    BY <1>10 DEF GBBye, GBUnlink
  <2>2. gbAt[a] \in {"stop", "unlink"} /\ gbAt'[a] \in {"unlink", "forget"}
    BY <1>1, <1>10, <2>1, Goes, Who DEF GBBye, GBUnlink
  <2>3. /\ UNCHANGED <<gbRows, gbSession, gbPort, gbDo, gbSnap, gbListed, gbLate>>
        /\ gbDialog' \in {gbDialog, 0}
    BY <1>10 DEF GBBye, GBUnlink
  <2>4. /\ Forgets(a) => Forgets(a)'
        /\ HasListed(a) => HasListed(a)'
        /\ WillList(a) => WillList(a)'
    BY <2>2, <2>3 DEF Forgets, HasListed, WillList, Disabling
  <2> QED BY <1>1, <2>2, <2>3, <2>4, RequestCarries
<1>11. ASSUME GBForget(a)
       PROVE  KeepsOrder' /\ OutInv'
  <2>1. gbAt[a] = "forget" /\ gbAt'[a] = IF gbDo[a] = "update" THEN "list" ELSE "clean"
    BY <1>1, <1>11, Goes, Who DEF GBForget
  <2>2. /\ UNCHANGED <<gbRows, gbPort, gbDo, gbSnap, gbListed, gbLate>>
        /\ ~gbSession' /\ gbDialog' = 0
    BY <1>11 DEF GBForget
  <2>3. /\ HasListed(a) => HasListed(a)'
        /\ WillList(a) => WillList(a)'
    BY <2>1, <2>2 DEF HasListed, WillList, Disabling
  <2> QED BY <1>1, <2>1, <2>2, <2>3, RequestCarries
<1>12. ASSUME GBList(a)
       PROVE  KeepsOrder' /\ OutInv'
  <2>1. gbAt[a] = "list" /\ gbAt'[a] = "clean"
    BY <1>1, <1>12, Goes, Who DEF GBList
  <2>2. UNCHANGED <<gbRows, gbCalls, gbDo, gbSnap, gbLate>>
    BY <1>12 DEF GBList
  <2>3. "channel" \in gbSources => "channel" \in gbListed'[a]
    BY <1>1, <1>12 DEF GBList, GBInv, SourcesHaveDevice, GBTypeOK
  <2>4. ~Forgets(a) /\ ~HasListed(a) /\ (WillList(a) => HasListed(a)')
    BY <2>1, <2>2, <2>3 DEF Forgets, HasListed, WillList, Disabling
  <2> QED BY <1>1, <2>1, <2>2, <2>4, RequestCarries
<1>13. ASSUME GBClean(a)
       PROVE  KeepsOrder' /\ OutInv'
  <2>1. gbAt[a] = "clean" /\ gbAt'[a] # "commit"
    BY <1>1, <1>13, Goes, Who DEF GBClean, GBEnd
  <2>2. /\ UNCHANGED <<gbRows, gbSession, gbDialog, gbSnap, gbLate>>
        /\ gbPort' \in {gbPort, 0}
    BY <1>13 DEF GBClean
  <2>3. ~Forgets(a) /\ ~WillList(a) /\ (HasListed(a) => gbPort' = 0)
    BY <1>13, <2>1 DEF GBClean, Forgets, HasListed, WillList, Disabling
  <2> QED BY <1>1, <2>1, <2>2, <2>3, RequestCarries
<1> QED BY <1>2, <1>3, <1>4, <1>5, <1>6, <1>7, <1>8, <1>9, <1>10, <1>11, <1>12, <1>13 DEF GBOperator, GBAdminStep

\* A restart closes nothing at ZLM: it leaves an RTP server that nobody will close only
\* when it cuts a request short.
LEMMA CrashStep ==
  ASSUME GBInv, GBCrash
  PROVE  KeepsOrder' /\ OutInv'
<1> USE DEF gbRows, gbCalls
<1>1. /\ \A p \in GBProcs : gbAt'[p] = "idle"
      /\ UNCHANGED <<gbRows, gbPort>> /\ ~gbSession' /\ gbDialog' = 0
      /\ gbLate' = (gbLate \/ \E a \in GBAdmins : Cleaning(a))
  BY DEF GBCrash
<1>2. \A a \in GBAdmins : HasListed(a) \/ WillList(a) => Cleaning(a)
  BY DEF HasListed, WillList, Disabling, Cleaning
<1>3. ~gbLate' => ~gbLate /\ ~\E a \in GBAdmins : HasListed(a) \/ WillList(a)
  BY <1>1, <1>2
<1>4. ~gbLate' => (gbPort' # 0 => "channel" \in gbSources')
  BY <1>1, <1>3 DEF GBInv, KeepsOrder
<1>5. KeepsOrder'
  BY <1>1, <1>4, Who DEF KeepsOrder, GBIdle
<1>6. Refused' /\ ~gbLate' => ~LetIn' /\ ~gbRow'.online /\ gbPort' = 0
  BY <1>1, <1>3 DEF GBInv, OutInv, Refused, LetIn
<1> QED BY <1>1, <1>5, <1>6, Who DEF OutInv, GBIdle

\* Without a request an invite starts, and an RTP server is opened, only for a channel
\* that has its source.
LEMMA BackgroundInvites ==
  ASSUME GBTypeOK, GBBackground
  PROVE  /\ \A v \in GBInvites : gbAt'[v] # "idle" => gbAt[v] # "idle" \/ "channel" \in gbSources
         /\ gbPort' # 0 => gbPort # 0 \/ \E v \in GBInvites : gbAt[v] # "idle"
<1> USE Who DEF gbRows, gbCalls, gbLocal, GBEnd, GBPlaces, GBTasks
<1>1. ASSUME NEW s \in GBSignals, GBEnter(s)
      PROVE  gbPort' = gbPort /\ \A v \in GBInvites : gbAt'[v] = gbAt[v]
  <2>1. PICK kind \in Signals : GBGo(s, IF kind \in {"register", "unregister"} THEN "write" ELSE "remember")
    BY <1>1 DEF GBEnter
  <2> QED BY <1>1, <2>1, Goes DEF GBEnter
<1>2. ASSUME NEW s \in GBSignals, GBSignalStep(s)
      PROVE  gbPort' = gbPort /\ \A v \in GBInvites : gbAt'[v] = gbAt[v]
  <2>1. GBRemember(s) => gbPort' = gbPort /\ \A v \in GBInvites : gbAt'[v] = gbAt[v]
    BY Goes DEF GBRemember
  <2>2. GBWrite(s) => gbPort' = gbPort /\ \A v \in GBInvites : gbAt'[v] = gbAt[v]
    BY Goes DEF GBWrite
  <2>3. GBSync(s) => gbPort' = gbPort /\ \A v \in GBInvites : gbAt'[v] = gbAt[v]
    BY Goes DEF GBSync
  <2>4. GBUnregister(s) => gbPort' = gbPort /\ \A v \in GBInvites : gbAt'[v] = gbAt[v]
    BY Goes DEF GBUnregister
  <2>5. GBDrop(s) => gbPort' = gbPort /\ \A v \in GBInvites : gbAt'[v] = gbAt[v]
    BY Goes DEF GBDrop
  <2> QED BY <1>2, <2>1, <2>2, <2>3, <2>4, <2>5 DEF GBSignalStep
<1>3. ASSUME GBScanStep
      PROVE  gbPort' = gbPort /\ \A v \in GBInvites : gbAt'[v] = gbAt[v]
  <2>1. GBScan \/ GBScanMark => gbPort' = gbPort /\ \A v \in GBInvites : gbAt'[v] = gbAt[v]
    BY Goes DEF GBScan, GBScanMark
  <2>2. GBDrop(Scan) => gbPort' = gbPort /\ \A v \in GBInvites : gbAt'[v] = gbAt[v]
    BY Goes DEF GBDrop
  <2> QED BY <1>3, <2>1, <2>2 DEF GBScanStep
<1>4. ASSUME GBStreamMissing \/ GBMediaRestart \/ GBStart \/ GBAge
      PROVE  gbAt' = gbAt /\ gbPort' \in {gbPort, 0}
  BY <1>4 DEF GBStreamMissing, GBMediaRestart, GBStart, GBAge
<1>5. ASSUME NEW v \in GBInvites, GBInviteStep(v)
      PROVE  /\ \A w \in GBInvites : gbAt'[w] # "idle" => gbAt[w] # "idle" \/ "channel" \in gbSources
             /\ gbPort' # 0 => gbPort # 0 \/ gbAt[v] # "idle"
  <2>1. PICK place \in GBPlaces : GBGo(v, place)
    BY <1>5 DEF GBInviteStep, GBInvite, GBOpen, GBBye, GBUnlink, GBSend, GBAnswer, GBConnect, GBGiveUp, GBAgain
  <2>2. \A w \in GBInvites \ {v} : gbAt'[w] = gbAt[w]
    BY <2>1, Goes
  <2>3. GBInvite(v) => gbPort' = gbPort /\ (gbAt'[v] # "idle" => "channel" \in gbSources)
    <3>1. GBInvite(v) => GBGo(v, IF gbRow.there /\ gbRow.enabled /\ gbRow.online /\ "channel" \in gbSources
                                 THEN "open" ELSE "idle")
      BY DEF GBInvite
    <3> QED BY <3>1, Goes DEF GBInvite
  <2>4. GBInvite(v) \/ gbAt[v] # "idle"
    BY <1>5 DEF GBInviteStep, GBOpen, GBBye, GBUnlink, GBSend, GBAnswer, GBConnect, GBGiveUp
  <2> QED BY <2>2, <2>3, <2>4
<1> QED BY <1>1, <1>2, <1>3, <1>4, <1>5 DEF GBBackground

\* A device that is out is not let in, and nothing of it comes up: who is idle stays idle.
LEMMA BackgroundStaysOut ==
  ASSUME GBTypeOK, GBBackground, Refused, ~LetIn, ~gbRow.online,
         \A p \in GBSignals \cup GBInvites : gbAt[p] = "idle"
  PROVE  /\ \A p \in GBSignals \cup GBInvites : gbAt'[p] = "idle"
         /\ ~LetIn' /\ ~gbRow'.online
         /\ gbSession' => gbSession
         /\ gbDialog' \in {gbDialog, 0} /\ gbPort' \in {gbPort, 0}
<1> USE Who DEF gbRows, gbCalls, gbLocal, GBEnd, GBPlaces, GBTasks
<1>1. ASSUME NEW s \in GBSignals
      PROVE  ~GBEnter(s) /\ ~GBSignalStep(s)
  BY DEF GBEnter, GBSignalStep, GBRemember, GBWrite, GBSync, GBUnregister, GBDrop
<1>2. ASSUME NEW v \in GBInvites, GBInviteStep(v)
      PROVE  UNCHANGED <<gbRows, gbCalls>> /\ \A p \in GBSignals \cup GBInvites : gbAt'[p] = "idle"
  <2>1. GBInvite(v)
    BY <1>2 DEF GBInviteStep, GBOpen, GBBye, GBUnlink, GBSend, GBAnswer, GBConnect, GBGiveUp
  <2>2. ~(gbRow.there /\ gbRow.enabled)
    BY DEF LetIn
  <2>3. GBGo(v, "idle")
    BY <2>1, <2>2 DEF GBInvite
  <2> QED BY <2>1, <2>3, Goes DEF GBInvite
<1>3. ASSUME GBScanStep
      PROVE  /\ \A p \in GBSignals \cup GBInvites : gbAt'[p] = gbAt[p]
             /\ MarkedOffline \/ gbRow' = gbRow
             /\ gbBlocked' = gbBlocked /\ (gbSession' => gbSession) /\ gbDialog' \in {gbDialog, 0} /\ gbPort' = gbPort
  <2>1. CASE GBScan
    BY <2>1, Goes DEF GBScan
  <2>2. CASE GBScanMark
    BY <2>2, Goes DEF GBScanMark, MarkFails
  <2>3. CASE GBDrop(Scan)
    BY <2>3, Goes DEF GBDrop
  <2> QED BY <1>3, <2>1, <2>2, <2>3 DEF GBScanStep
<1>4. MarkedOffline => gbRow'.there = gbRow.there /\ gbRow'.enabled = gbRow.enabled /\ ~gbRow'.online
  BY RowTyped
<1>5. ASSUME GBScanStep
      PROVE  ~LetIn' /\ ~gbRow'.online
  BY <1>3, <1>4, <1>5 DEF LetIn
<1>6. ASSUME GBStreamMissing \/ GBMediaRestart
      PROVE  UNCHANGED <<gbRows, gbAt, gbSession, gbDialog>> /\ gbPort' \in {gbPort, 0}
  BY <1>6 DEF GBStreamMissing, GBMediaRestart
<1>7. ASSUME GBStart \/ GBAge
      PROVE  /\ UNCHANGED <<gbAt, gbCalls, gbBlocked>>
             /\ gbRow'.there = gbRow.there /\ gbRow'.enabled = gbRow.enabled /\ ~gbRow'.online
  <2>1. GBStart => gbRow' = [gbRow EXCEPT !.online = gbRow.online /\ ~gbRow.enabled]
    BY DEF GBStart
  <2>2. GBAge => gbRow' = [gbRow EXCEPT !.fresh = FALSE]
    BY DEF GBAge
  <2>3. gbRow'.there = gbRow.there /\ gbRow'.enabled = gbRow.enabled /\ ~gbRow'.online
    BY <1>7, <2>1, <2>2 DEF GBTypeOK, GBRow
  <2> QED BY <1>7, <2>3 DEF GBStart, GBAge
<1>8. CASE GBStreamMissing \/ GBMediaRestart
  BY <1>6, <1>8 DEF LetIn
<1>9. CASE GBStart \/ GBAge
  BY <1>7, <1>9 DEF LetIn
<1>10. CASE GBScanStep
  BY <1>3, <1>5, <1>10
<1>11. CASE \E v \in GBInvites : GBInviteStep(v)
  BY <1>2, <1>11 DEF LetIn
<1> QED BY <1>1, <1>8, <1>9, <1>10, <1>11 DEF GBBackground

\* The block and the history are the requests' alone.
LEMMA BackgroundKeeps ==
  ASSUME GBBackground
  PROVE  gbLate' = gbLate /\ gbBlocked' = gbBlocked
<1> USE DEF gbRows
<1>1. ASSUME NEW s \in GBSignals, GBEnter(s) \/ GBSignalStep(s)
      PROVE  gbLate' = gbLate /\ gbBlocked' = gbBlocked
  BY <1>1 DEF GBEnter, GBSignalStep, GBRemember, GBWrite, GBSync, GBUnregister, GBDrop
<1>2. ASSUME GBScanStep
      PROVE  gbLate' = gbLate /\ gbBlocked' = gbBlocked
  BY <1>2 DEF GBScanStep, GBScan, GBScanMark, GBDrop
<1>3. ASSUME GBStreamMissing \/ GBMediaRestart \/ GBStart \/ GBAge
      PROVE  gbLate' = gbLate /\ gbBlocked' = gbBlocked
  BY <1>3 DEF GBStreamMissing, GBMediaRestart, GBStart, GBAge
<1>4. ASSUME NEW v \in GBInvites, GBInviteStep(v)
      PROVE  gbLate' = gbLate /\ gbBlocked' = gbBlocked
  BY <1>4 DEF GBInviteStep, GBInvite, GBOpen, GBBye, GBUnlink, GBSend, GBAnswer, GBConnect, GBGiveUp
<1> QED BY <1>1, <1>2, <1>3, <1>4 DEF GBBackground

\* Without a request a device that is out stays out, whatever the network and ZLM do.
LEMMA BackgroundStep ==
  ASSUME GBInv, GBBackground
  PROVE  UpdateInv' /\ SourcesHaveDevice' /\ KeepsOrder' /\ OutInv'
<1>1. GBTypeOK
  BY DEF GBInv
<1>2. \A a \in GBAdmins :
        /\ gbAt'[a] = gbAt[a] /\ gbDo'[a] = gbDo[a] /\ gbListed'[a] = gbListed[a]
        /\ gbSnap'[a].there = gbSnap[a].there /\ gbSnap'[a].enabled = gbSnap[a].enabled
        /\ gbSnap'[a].online = gbSnap[a].online
  BY <1>1, BackgroundRequests
<1>3. gbSources \subseteq gbSources'
  BY <1>1, BackgroundRow
<1>4. \A a \in GBAdmins :
        /\ Forgets(a) => Forgets(a)'
        /\ HasListed(a) => HasListed(a)'
        /\ WillList(a) => WillList(a)'
  BY <1>2, <1>3 DEF Forgets, HasListed, WillList, Disabling
<1>5. UpdateInv'
  BY <1>2 DEF GBInv, UpdateInv
<1>6. SourcesHaveDevice'
  BY <1>1, BackgroundRow DEF GBInv, SourcesHaveDevice
<1>7. gbLate' = gbLate /\ gbBlocked' = gbBlocked
  BY BackgroundKeeps
<1>8. KeepsOrder'
  <2> SUFFICES ASSUME ~gbLate PROVE KeepsOrder'
    BY <1>7 DEF KeepsOrder
  <2>1. \A v \in GBInvites : gbAt[v] # "idle" => "channel" \in gbSources
    BY DEF GBInv, KeepsOrder, GBIdle
  <2>2. \A v \in GBInvites : gbAt'[v] # "idle" => "channel" \in gbSources'
    BY <1>1, <1>3, <2>1, BackgroundInvites
  <2>3. gbPort' # 0 => gbPort # 0 \/ "channel" \in gbSources
    BY <1>1, <2>1, BackgroundInvites
  <2>4. gbPort' # 0 => "channel" \in gbSources' \/ \E a \in GBAdmins : HasListed(a)'
    BY <1>3, <1>4, <2>3 DEF GBInv, KeepsOrder
  <2>5. \A a \in GBAdmins : gbAt'[a] = "commit" /\ gbDo'[a] = "update" /\ ~gbSnap'[a].enabled => ~gbSnap'[a].online
    BY <1>2 DEF GBInv, KeepsOrder
  <2> QED BY <2>2, <2>4, <2>5 DEF KeepsOrder, GBIdle
<1>9. OutInv'
  <2> SUFFICES ASSUME Refused', ~gbLate PROVE OutInv'
    BY <1>7 DEF OutInv
  <2>1. Refused
    BY <1>1, <1>7, BackgroundRow DEF Refused, GBTypeOK, GBRow
  <2>2. /\ ~LetIn /\ ~gbRow.online
        /\ \A p \in GBSignals \cup GBInvites : gbAt[p] = "idle"
        /\ gbSession \/ gbDialog # 0 => \E a \in GBAdmins : Forgets(a)
        /\ gbPort # 0 => \E a \in GBAdmins : HasListed(a) \/ WillList(a)
    BY <2>1 DEF GBInv, OutInv, GBIdle
  <2>3. /\ \A p \in GBSignals \cup GBInvites : gbAt'[p] = "idle"
        /\ ~LetIn' /\ ~gbRow'.online
        /\ gbSession' => gbSession
        /\ gbDialog' \in {gbDialog, 0} /\ gbPort' \in {gbPort, 0}
    BY <1>1, <2>1, <2>2, BackgroundStaysOut
  <2>4. gbSession' \/ gbDialog' # 0 => \E a \in GBAdmins : Forgets(a)'
    BY <1>4, <2>2, <2>3
  <2>5. gbPort' # 0 => \E a \in GBAdmins : HasListed(a)' \/ WillList(a)'
    BY <1>4, <2>2, <2>3
  <2> QED BY <2>3, <2>4, <2>5 DEF OutInv, GBIdle
<1> QED BY <1>5, <1>6, <1>8, <1>9

\* Requests and a restart, for the row and the sources.
LEMMA RequestRow ==
  ASSUME GBInv, (\E a \in GBAdmins : GBOperator(a)) \/ GBCrash
  PROVE  UpdateInv' /\ SourcesHaveDevice'
<1> USE DEF gbRows, gbCalls, gbLocal, GBPlaces, GBTasks
<1>1. CASE GBCrash
  BY <1>1, Who DEF GBCrash, GBInv, UpdateInv, SourcesHaveDevice
<1>2. ASSUME NEW a \in GBAdmins, GBOperator(a)
      PROVE  UpdateInv' /\ SourcesHaveDevice'
  <2>1. GBTypeOK /\ OthersLeft(a)
    BY <1>2, OneRequestAtATime DEF GBInv
  <2>2. \A b \in GBAdmins \ {a} : gbAt'[b] = "commit" /\ gbDo'[b] = "update" => gbSnap'[b].there
    BY <2>1, OthersClean DEF GBInv, UpdateInv
  <2>3. gbAt'[a] = "commit" /\ gbDo'[a] = "update" => GBUpdate(a)
    <3>1. CASE GBCreate(a) \/ GBDelete(a) \/ GBUnblock(a)
      BY <2>1, <3>1, Goes, Who DEF GBCreate, GBDelete, GBUnblock
    <3>2. CASE GBBlock(a)
      BY <2>1, <3>2, Takes, Who DEF GBBlock
    <3>3. CASE GBSave(a) \/ GBBlockCommit(a)
      BY <2>1, <3>3, Goes, Who DEF GBSave, GBBlockCommit
    <3>4. CASE GBAdminSync(a) \/ GBClean(a)
      BY <2>1, <3>4, Goes, Who DEF GBAdminSync, GBClean, GBEnd
    <3>5. CASE GBBye(a, "forget") \/ GBUnlink(a, "forget") \/ GBForget(a) \/ GBList(a)
      <4>1. PICK place \in {"forget", "unlink", "list", "clean"} : GBGo(a, place)
        BY <3>5 DEF GBBye, GBUnlink, GBForget, GBList
      <4> QED BY <2>1, <4>1, Goes, Who
    <3> QED BY <1>2, <3>1, <3>2, <3>3, <3>4, <3>5 DEF GBOperator, GBAdminStep
  <2>4. GBUpdate(a) => gbSnap'[a].there
    <3> SUFFICES ASSUME GBUpdate(a) PROVE gbSnap'[a].there
      OBVIOUS
    <3>1. PICK row \in {gbRow, [gbRow EXCEPT !.enabled = TRUE],
                       [gbRow EXCEPT !.enabled = FALSE, !.online = FALSE]} :
            gbSnap' = [gbSnap EXCEPT ![a] = row]
      BY DEF GBUpdate
    <3>2. gbRow.there /\ row.there
      BY <2>1, <3>1 DEF GBUpdate, GBTypeOK, GBRow
    <3> QED BY <2>1, <3>1, <3>2 DEF GBTypeOK
  <2>5. UpdateInv'
    BY <2>2, <2>3, <2>4 DEF UpdateInv
  <2>6. SourcesHaveDevice'
    <3>1. CASE GBCreate(a) \/ GBUnblock(a)
      <4>1. GBCreate(a) => gbRow'.there /\ gbSources' = gbSources
        BY DEF GBCreate, NewRow
      <4>2. GBUnblock(a) => gbRow'.there = gbRow.there /\ gbSources' = gbSources
        BY <2>1 DEF GBUnblock, GBTypeOK, GBRow
      <4> QED BY <3>1, <4>1, <4>2 DEF GBInv, SourcesHaveDevice
    <3>2. CASE GBSave(a)
      <4>1. gbSnap[a].there
        BY <3>2 DEF GBSave, GBInv, UpdateInv
      <4>2. gbRow'.there
        BY <2>1, <3>2, <4>1 DEF GBSave, GBTypeOK, GBRow
      <4> QED BY <4>2 DEF SourcesHaveDevice
    <3>3. CASE GBDelete(a)
      BY <3>3 DEF GBDelete, SourcesHaveDevice
    <3>4. CASE GBBlockCommit(a)
      BY <2>1, <3>4 DEF GBBlockCommit, GBInv, SourcesHaveDevice, GBTypeOK, GBRow
    <3>5. CASE GBAdminSync(a)
      BY <3>5 DEF GBAdminSync, Synced, GBInv, SourcesHaveDevice
    <3>6. CASE GBUpdate(a) \/ GBBlock(a) \/ GBClean(a) \/ GBBye(a, "forget") \/ GBUnlink(a, "forget") \/ GBForget(a) \/ GBList(a)
      BY <3>6 DEF GBUpdate, GBBlock, GBClean, GBBye, GBUnlink, GBForget, GBList, GBInv, SourcesHaveDevice
    <3> QED BY <1>2, <3>1, <3>2, <3>3, <3>4, <3>5, <3>6 DEF GBOperator, GBAdminStep
  <2> QED BY <2>5, <2>6
<1> QED BY <1>1, <1>2

\* The invariant of the GB28181 device holds throughout.
LEMMA GBAlways == GBSpec => []GBInv
<1>1. GBInit => GBInv
  <2> SUFFICES ASSUME GBInit PROVE GBInv
    OBVIOUS
  <2>1. gbRow \in GBRow /\ ~gbRow.online /\ ~Refused /\ (gbSources # {} => gbRow.there) /\ gbSources \subseteq WithChannel
    <3>1. CASE gbRow = NoRow /\ gbSources = {}
      BY <3>1 DEF GBInit, NoRow, GBRow, Refused
    <3>2. CASE gbRow = NewRow(FALSE) /\ gbSources = WithChannel
      BY <3>2 DEF GBInit, NewRow, GBRow, Refused
    <3> QED BY <3>1, <3>2 DEF GBInit
  <2>2. 0 \in Nat /\ "idle" \in GBPlaces /\ "none" \in GBTasks /\ NoRow \in GBRow
    BY DEF GBPlaces, GBTasks, NoRow, GBRow
  <2>3. GBTypeOK
    BY <2>1, <2>2 DEF GBInit, GBTypeOK
  <2>4. \A p \in GBProcs : gbAt[p] = "idle"
    BY DEF GBInit
  <2>5. UpdateInv /\ KeepsOrder /\ OutInv
    BY <2>1, <2>4, Who DEF GBInit, UpdateInv, KeepsOrder, OutInv, GBIdle
  <2> QED BY <2>1, <2>3, <2>5 DEF GBInv, SourcesHaveDevice
<1>2. GBInv /\ [GBNext]_gbVars => GBInv'
  <2> SUFFICES ASSUME GBInv, [GBNext]_gbVars PROVE GBInv'
    OBVIOUS
  <2>1. GBTypeOK'
    BY GBTypeStep DEF GBInv
  <2>2. CASE UNCHANGED gbVars
    BY <2>1, <2>2
       DEF gbVars, gbRows, gbCalls, gbLocal, GBInv, UpdateInv, SourcesHaveDevice, KeepsOrder, OutInv, GBIdle,
           Refused, LetIn, Forgets, HasListed, WillList, Disabling
  <2>3. CASE GBBackground
    BY <2>1, <2>3, BackgroundStep DEF GBInv
  <2>4. CASE GBCrash
    BY <2>1, <2>4, RequestRow, CrashStep DEF GBInv
  <2>5. ASSUME NEW a \in GBAdmins, GBOperator(a)
        PROVE  GBInv'
    BY <2>1, <2>5, RequestRow, RequestStep DEF GBInv
  <2> QED BY <2>2, <2>3, <2>4, <2>5 DEF GBNext, GBBackground, GBOperator
<1> QED BY <1>1, <1>2, PTL DEF GBSpec

\* A device that is disabled, blocked or deleted is out, for any number of signals and
\* requests at once, unless somebody had passed his check when it was put out.
THEOREM RefusedStaysOut == GBSpec => []KeptOut
<1>1. GBInv => KeptOut
  BY DEF GBInv, OutInv, KeptOut, Refused, GBIdle, Forgets, HasListed, WillList, Disabling
<1> QED BY <1>1, GBAlways, PTL

\* No media source outlives its device.
THEOREM NoOrphanSources == GBSpec => []SourcesHaveDevice
<1>1. GBInv => SourcesHaveDevice
  BY DEF GBInv
<1> QED BY <1>1, GBAlways, PTL
-----------------------------------------------------------------------------
(* Alarms.                                                                      *)

AlarmNames == TaskAlgorithms \cup {"gone"}
EventRow == [boxes : {"llm", "small", "none"}, notified : Nat, clip : BOOLEAN, review : BOOLEAN]

IntakeTypeOK ==
  /\ intakeNow \in Nat /\ intakeFaults \in Nat
  /\ intakeAt \in [Callbacks -> {"none", "check", "create", "clip", "done"}]
  /\ intakePayload \in [Callbacks -> Payload \cup {NoPayload}]
  /\ intakeLeft \in [Callbacks -> SUBSET AlarmNames]
  /\ intakeTold \in [Callbacks -> [algorithm : AlarmNames \cup {"none"}, at : Nat]]
  /\ Events \subseteq Callbacks \X AlarmNames
  /\ intakeEvent \in [Events -> EventRow]
  /\ intakeReview \subseteq [event : Events, row : EventRow]

\* A callback writes one event for each algorithm it has decided on, once.
WorkInv ==
  \A c \in Callbacks :
    /\ intakeAt[c] = "none" => intakePayload[c] = NoPayload /\ intakeLeft[c] = {} /\ ~\E e \in Events : e[1] = c
    /\ intakeAt[c] \in {"clip", "done"} => intakeLeft[c] = {}
    /\ intakeAt[c] = "create" => intakeTold[c].algorithm \in intakeLeft[c]
    /\ intakeLeft[c] \subseteq Alarmed(intakePayload[c])
    /\ \A a \in Alarmed(intakePayload[c]) : intakeFaults = 0 => a \in intakeLeft[c] \/ <<c, a>> \in Events

EventInv ==
  \A e \in Events :
    /\ e[2] \in Alarmed(intakePayload[e[1]]) /\ e[2] \notin intakeLeft[e[1]]
    /\ intakeEvent[e].boxes = BoxSource(intakePayload[e[1]], e[2])

\* A review has read the row that is there, but for a clip that came meanwhile.
ReviewInv ==
  \A r \in intakeReview :
    /\ r.row.notified = intakeEvent[r.event].notified /\ r.row.boxes = intakeEvent[r.event].boxes
    /\ r.event \notin intakeOverrun => r.row = intakeEvent[r.event]

\* What has seen the rows has made its decision.
SeenInv ==
  /\ intakeSeen \subseteq Events \X (Callbacks \X AlarmNames)
  /\ \A x \in intakeSeen :
       LET c == x[2][1]
       IN  /\ intakeAt[c] # "none"
           /\ x[2][2] \in intakeLeft[c] => intakeAt[c] = "create" /\ intakeTold[c].algorithm = x[2][2]

\* Who decides to announce has seen no announcement within the cycle.
Stamp(f) == IF f \in Events THEN intakeEvent[f].notified ELSE intakeTold[f[1]].at
Decided(f) == f \in Events \/ (intakeAt[f[1]] = "create" /\ intakeTold[f[1]].algorithm = f[2])
Justified(x) ==
  x[2] \notin intakeBlind /\ Decided(x[2]) /\ intakeEvent[x[1]].notified > 0 =>
    Stamp(x[2]) = 0 \/ Stamp(x[2]) >= intakeEvent[x[1]].notified + Cycle
CycleInv == Cycle > 0 => \A x \in intakeSeen : Justified(x)

IntakeInv == IntakeTypeOK /\ WorkInv /\ EventInv /\ ReviewInv /\ SeenInv /\ CycleInv

\* One more row.
LEMMA PutFacts ==
  ASSUME NEW e, NEW row
  PROVE  /\ DOMAIN Put(e, row) = Events \cup {e}
         /\ Put(e, row)[e] = row
         /\ \A x \in Events \ {e} : Put(e, row)[x] = intakeEvent[x]
BY DEF Put

\* What is raised is an algorithm of the task or named by a result, and has its boxes.
LEMMA AlarmedNames ==
  ASSUME NEW p \in Payload \cup {NoPayload}
  PROVE  /\ Alarmed(p) \subseteq AlarmNames /\ Alarmed(NoPayload) = {}
         /\ p.mode # "small" => Alarmed(p) = p.objects
         /\ Alarmed(p) \subseteq TaskAlgorithms \cup {r.algorithm : r \in p.results}
         /\ \A a : BoxSource(p, a) \in {"llm", "small", "none"} /\ (a \in p.objects => BoxSource(p, a) = "llm")
<1>1. p.small \subseteq TaskAlgorithms /\ p.objects \subseteq TaskAlgorithms
  BY DEF Payload, NoPayload
<1>2. \A r \in p.results : r.algorithm \in AlarmNames
  BY DEF Payload, NoPayload, AlarmNames
<1>3. NoPayload.mode # "small" /\ NoPayload.objects = {}
  BY DEF NoPayload
<1>4. Alarmed(NoPayload) = {}
  BY <1>3 DEF Alarmed
<1>5. Alarmed(p) \subseteq AlarmNames
  BY <1>1, <1>2 DEF Alarmed, AlarmNames
<1>6. Alarmed(p) \subseteq TaskAlgorithms \cup {r.algorithm : r \in p.results}
  BY <1>1 DEF Alarmed
<1>7. p.mode # "small" => Alarmed(p) = p.objects
  BY DEF Alarmed
<1>8. \A a : BoxSource(p, a) \in {"llm", "small", "none"} /\ (a \in p.objects => BoxSource(p, a) = "llm")
  BY DEF BoxSource
<1> QED BY <1>4, <1>5, <1>6, <1>7, <1>8

\* A goroutine that goes on leaves the others where they are.
LEMMA StepsTo ==
  ASSUME IntakeTypeOK, NEW c \in Callbacks, NEW step \in {"none", "check", "create", "clip", "done"},
         StepTo(c, step)
  PROVE  /\ intakeAt' \in [Callbacks -> {"none", "check", "create", "clip", "done"}]
         /\ intakeAt'[c] = step /\ \A d \in Callbacks \ {c} : intakeAt'[d] = intakeAt[d]
BY DEF StepTo, IntakeTypeOK

\* Rows stay, with their boxes and the time of their announcement.
LEMMA RowsStay ==
  ASSUME IntakeTypeOK, WorkInv, EventInv, ReviewInv, [IntakeNext]_intakeVars
  PROVE  /\ Events \subseteq Events'
         /\ \A e \in Events :
              intakeEvent'[e].boxes = intakeEvent[e].boxes /\ intakeEvent'[e].notified = intakeEvent[e].notified
<1> USE DEF intakeRows
<1>1. CASE intakeEvent' = intakeEvent
  BY <1>1 DEF Events
<1>2. ASSUME NEW c \in Callbacks, Create(c)
      PROVE  Events \subseteq Events' /\ \A e \in Events : intakeEvent'[e] = intakeEvent[e]
  <2>1. intakeTold[c].algorithm \in intakeLeft[c]
    BY <1>2 DEF Create, WorkInv
  <2>2. <<c, intakeTold[c].algorithm>> \notin Events
    BY <2>1 DEF EventInv
  <2>3. PICK row : intakeEvent' = Put(<<c, intakeTold[c].algorithm>>, row) \/ intakeEvent' = intakeEvent
    BY <1>2 DEF Create
  <2>4. CASE intakeEvent' = intakeEvent
    BY <2>4 DEF Events
  <2>5. CASE intakeEvent' = Put(<<c, intakeTold[c].algorithm>>, row)
    BY <2>2, <2>5 DEF Events, Put
  <2> QED BY <2>3, <2>4, <2>5
<1>3. ASSUME NEW c \in Callbacks, ClipReady(c)
      PROVE  /\ Events \subseteq Events'
             /\ \A e \in Events :
                  intakeEvent'[e].boxes = intakeEvent[e].boxes /\ intakeEvent'[e].notified = intakeEvent[e].notified
  <2>1. intakeEvent' = [e \in Events |-> IF e[1] = c THEN [intakeEvent[e] EXCEPT !.clip = TRUE] ELSE intakeEvent[e]]
    BY <1>3 DEF ClipReady
  <2>2. \A e \in Events : intakeEvent[e] \in EventRow
    BY DEF IntakeTypeOK
  <2>3. Events' = Events
    BY <2>1 DEF Events
  <2>4. \A e \in Events : intakeEvent'[e].boxes = intakeEvent[e].boxes /\ intakeEvent'[e].notified = intakeEvent[e].notified
    BY <2>1, <2>2 DEF EventRow
  <2> QED BY <2>3, <2>4
<1>4. ASSUME ReviewSave
      PROVE  /\ Events \subseteq Events'
             /\ \A e \in Events :
                  intakeEvent'[e].boxes = intakeEvent[e].boxes /\ intakeEvent'[e].notified = intakeEvent[e].notified
  <2>1. PICK r \in intakeReview : intakeEvent' = Put(r.event, [r.row EXCEPT !.review = TRUE])
    BY <1>4 DEF ReviewSave
  <2>2. r.event \in Events /\ r.row \in EventRow
    BY DEF IntakeTypeOK
  <2>3. r.row.notified = intakeEvent[r.event].notified /\ r.row.boxes = intakeEvent[r.event].boxes
    BY DEF ReviewInv
  <2>4. Events' = Events
    BY <2>1, <2>2 DEF Events, Put
  <2>5. intakeEvent'[r.event] = [r.row EXCEPT !.review = TRUE] /\ \A x \in Events \ {r.event} : intakeEvent'[x] = intakeEvent[x]
    BY <2>1, <2>2 DEF Put
  <2> QED BY <2>2, <2>3, <2>4, <2>5 DEF EventRow
<1>5. CASE UNCHANGED intakeVars \/ Tick
  BY <1>1, <1>5 DEF intakeVars, Tick
<1>6. CASE \E c \in Callbacks : Receive(c) \/ TriggerClip(c)
  BY <1>1, <1>6 DEF Receive, TriggerClip
<1>7. CASE \/ \E c \in Callbacks, a \in TaskAlgorithms \cup {"gone"} : Check(c, a)
           \/ \E e \in Events : ReviewRead(e)
  BY <1>1, <1>7 DEF Check, ReviewRead
<1> QED BY <1>2, <1>3, <1>4, <1>5, <1>6, <1>7 DEF IntakeNext

\* Every step keeps the types.
LEMMA IntakeTypeStep ==
  ASSUME IntakeTypeOK, WorkInv, EventInv, ReviewInv, [IntakeNext]_intakeVars
  PROVE  IntakeTypeOK'
<1> USE IntakeAssumption DEF intakeRows, intakeWork, intakeDesk
<1>1. CASE UNCHANGED intakeVars
  BY <1>1 DEF intakeVars, IntakeTypeOK, Events
<1>2. CASE Tick
  <2>1. intakeNow' \in Nat
    BY <1>2 DEF Tick, IntakeTypeOK
  <2> QED BY <1>2, <2>1 DEF Tick, IntakeTypeOK, Events
<1>3. ASSUME NEW c \in Callbacks, Receive(c)
      PROVE  IntakeTypeOK'
  <2>1. UNCHANGED <<intakeNow, intakeFaults, intakeTold, intakeEvent, intakeReview>>
    BY <1>3 DEF Receive
  <2>2. \E place \in {"check", "done"} : StepTo(c, place)
    BY <1>3 DEF Receive
  <2>3. intakeAt' \in [Callbacks -> {"none", "check", "create", "clip", "done"}]
    BY <2>2, StepsTo
  <2>4. intakePayload' \in [Callbacks -> Payload \cup {NoPayload}] /\ intakeLeft' \in [Callbacks -> SUBSET AlarmNames]
    <3>1. CASE UNCHANGED <<intakePayload, intakeLeft>>
      BY <3>1 DEF IntakeTypeOK
    <3>2. ASSUME NEW p \in Payloads, intakePayload' = [intakePayload EXCEPT ![c] = p],
                 intakeLeft' = [intakeLeft EXCEPT ![c] = Alarmed(p)]
          PROVE  intakePayload' \in [Callbacks -> Payload \cup {NoPayload}] /\ intakeLeft' \in [Callbacks -> SUBSET AlarmNames]
      <4>1. p \in Payload
        OBVIOUS
      <4>2. Alarmed(p) \in SUBSET AlarmNames
        BY <4>1, AlarmedNames
      <4> QED BY <3>2, <4>1, <4>2 DEF IntakeTypeOK
    <3> QED BY <1>3, <3>1, <3>2 DEF Receive
  <2> QED BY <2>1, <2>3, <2>4 DEF IntakeTypeOK, Events
<1>4. ASSUME NEW c \in Callbacks, NEW a \in TaskAlgorithms \cup {"gone"}, Check(c, a)
      PROVE  IntakeTypeOK'
  <2>1. UNCHANGED <<intakeNow, intakePayload, intakeLeft, intakeEvent, intakeReview>>
    BY <1>4 DEF Check
  <2>2. intakeAt' \in [Callbacks -> {"none", "check", "create", "clip", "done"}]
    BY <1>4, StepsTo DEF Check
  <2>3. intakeFaults' \in Nat
    BY <1>4 DEF Check, IntakeFault, IntakeTypeOK
  <2>4. PICK at \in {intakeNow, 0} : intakeTold' = [intakeTold EXCEPT ![c] = [algorithm |-> a, at |-> at]]
    BY <1>4 DEF Check
  <2>5. at \in Nat /\ a \in AlarmNames \cup {"none"}
    BY DEF IntakeTypeOK, AlarmNames
  <2>6. intakeTold' \in [Callbacks -> [algorithm : AlarmNames \cup {"none"}, at : Nat]]
    BY <2>4, <2>5 DEF IntakeTypeOK
  <2> QED BY <2>1, <2>2, <2>3, <2>6 DEF IntakeTypeOK, Events
<1>5. ASSUME NEW c \in Callbacks, Create(c)
      PROVE  IntakeTypeOK'
  <2> DEFINE a == intakeTold[c].algorithm
             f == <<c, a>>
  <2>1. a \in intakeLeft[c] /\ a \in AlarmNames
    BY <1>5 DEF Create, WorkInv, IntakeTypeOK
  <2>2. UNCHANGED <<intakeNow, intakePayload, intakeReview>>
    BY <1>5 DEF Create
  <2>3. \E place \in {"check", "clip"} : StepTo(c, place)
    BY <1>5 DEF Create
  <2>4. intakeAt' \in [Callbacks -> {"none", "check", "create", "clip", "done"}]
    BY <2>3, StepsTo
  <2>5. intakeLeft' \in [Callbacks -> SUBSET AlarmNames]
    BY <1>5 DEF Create, IntakeTypeOK
  <2>6. NotTold \in [algorithm : AlarmNames \cup {"none"}, at : Nat]
    BY DEF NotTold
  <2>7. intakeTold' \in [Callbacks -> [algorithm : AlarmNames \cup {"none"}, at : Nat]]
    BY <1>5, <2>6 DEF Create, IntakeTypeOK
  <2>8. intakeFaults' \in Nat
    BY <1>5 DEF Create, IntakeFault, IntakeTypeOK
  <2>9. Row(c, a, NotifiedAt(c)) \in EventRow
    <3>1. intakePayload[c] \in Payload \cup {NoPayload} /\ intakeTold[c].at \in Nat
      BY DEF IntakeTypeOK
    <3>2. BoxSource(intakePayload[c], a) \in {"llm", "small", "none"}
      BY <3>1, AlarmedNames
    <3> QED BY <3>1, <3>2 DEF Row, NotifiedAt, EventRow
  <2>10. CASE intakeEvent' = intakeEvent
    BY <2>2, <2>4, <2>5, <2>7, <2>8, <2>10 DEF IntakeTypeOK, Events
  <2>11. CASE intakeEvent' = Put(f, Row(c, a, NotifiedAt(c)))
    <3>1. Events' = Events \cup {f}
      BY <2>11, PutFacts DEF Events
    <3>2. Events' \subseteq Callbacks \X AlarmNames
      BY <2>1, <3>1 DEF IntakeTypeOK
    <3>3. intakeEvent' \in [Events' -> EventRow]
      BY <2>9, <2>11, <3>1 DEF Put, IntakeTypeOK
    <3>4. intakeReview' \subseteq [event : Events', row : EventRow]
      <4>1. Events \subseteq Events'
        BY <3>1
      <4>2. intakeReview \subseteq [event : Events, row : EventRow]
        BY DEF IntakeTypeOK
      <4> QED BY <2>2, <4>1, <4>2
    <3> QED BY <2>2, <2>4, <2>5, <2>7, <2>8, <3>2, <3>3, <3>4 DEF IntakeTypeOK
  <2> QED BY <1>5, <2>10, <2>11 DEF Create
<1>6. ASSUME NEW c \in Callbacks, TriggerClip(c)
      PROVE  IntakeTypeOK'
  BY <1>6, StepsTo DEF TriggerClip, IntakeTypeOK, Events
<1>7. ASSUME NEW c \in Callbacks, ClipReady(c)
      PROVE  IntakeTypeOK'
  <2>1. intakeEvent' = [e \in Events |-> IF e[1] = c THEN [intakeEvent[e] EXCEPT !.clip = TRUE] ELSE intakeEvent[e]]
    BY <1>7 DEF ClipReady
  <2>2. \A e \in Events : [intakeEvent[e] EXCEPT !.clip = TRUE] \in EventRow /\ intakeEvent[e] \in EventRow
    BY DEF IntakeTypeOK, EventRow
  <2>3. Events' = Events /\ intakeEvent' \in [Events -> EventRow]
    BY <2>1, <2>2 DEF Events
  <2> QED BY <1>7, <2>3 DEF ClipReady, IntakeTypeOK
<1>8. ASSUME NEW e \in Events, ReviewRead(e)
      PROVE  IntakeTypeOK'
  <2>1. intakeReview' \subseteq [event : Events, row : EventRow]
    BY <1>8 DEF ReviewRead, IntakeTypeOK
  <2> QED BY <1>8, <2>1 DEF ReviewRead, IntakeTypeOK, Events
<1>9. CASE ReviewSave
  <2>1. PICK r \in intakeReview : intakeEvent' = Put(r.event, [r.row EXCEPT !.review = TRUE])
    BY <1>9 DEF ReviewSave
  <2>2. r.event \in Events /\ r.row \in EventRow
    BY DEF IntakeTypeOK
  <2>3. [r.row EXCEPT !.review = TRUE] \in EventRow
    BY <2>2 DEF EventRow
  <2>4. Events' = Events
    BY <2>1, <2>2 DEF Events, Put
  <2>5. intakeEvent' \in [Events -> EventRow]
    BY <2>1, <2>2, <2>3 DEF Put, IntakeTypeOK
  <2> QED BY <1>9, <2>4, <2>5 DEF ReviewSave, IntakeTypeOK
<1> QED BY <1>1, <1>2, <1>3, <1>4, <1>5, <1>6, <1>7, <1>8, <1>9 DEF IntakeNext

\* What a callback is left with.
LEMMA WorkStep ==
  ASSUME IntakeTypeOK, WorkInv, EventInv, ReviewInv, [IntakeNext]_intakeVars
  PROVE  WorkInv'
<1> USE DEF intakeRows, intakeWork, intakeDesk
<1>1. /\ Events \subseteq Events'
      /\ intakeFaults' = 0 => intakeFaults = 0
  <2>1. intakeFaults' = intakeFaults \/ IntakeFault
    BY DEF IntakeNext, intakeVars, Tick, Receive, Create, TriggerClip, ClipReady, Check, ReviewRead, ReviewSave
  <2> QED BY <2>1, RowsStay DEF IntakeFault, IntakeTypeOK
<1>2. ASSUME UNCHANGED <<intakeAt, intakePayload, intakeLeft, intakeTold>>, Events' = Events
      PROVE  WorkInv'
  BY <1>1, <1>2 DEF WorkInv
<1>3. CASE UNCHANGED intakeVars \/ Tick \/ \E e \in Events : ReviewRead(e)
  <2>1. UNCHANGED <<intakeAt, intakePayload, intakeLeft, intakeTold, intakeEvent>>
    BY <1>3 DEF intakeVars, Tick, ReviewRead
  <2> QED BY <1>2, <2>1 DEF Events
<1>4. ASSUME NEW c \in Callbacks, Receive(c)
      PROVE  WorkInv'
  <2>1. Events' = Events /\ UNCHANGED <<intakeTold, intakeFaults>> /\ intakeAt[c] = "none"
    BY <1>4 DEF Receive, Events
  <2>2. \E place \in {"check", "done"} : StepTo(c, place)
    BY <1>4 DEF Receive
  <2>3. intakeAt'[c] \in {"check", "done"} /\ \A d \in Callbacks \ {c} : intakeAt'[d] = intakeAt[d]
    BY <2>2, StepsTo
  <2>4. \A d \in Callbacks \ {c} : intakePayload'[d] = intakePayload[d] /\ intakeLeft'[d] = intakeLeft[d]
    BY <1>4 DEF Receive, IntakeTypeOK
  <2>5. intakeLeft'[c] = Alarmed(intakePayload'[c]) /\ (intakeAt'[c] = "done" => intakeLeft'[c] = {})
    <3>1. CASE UNCHANGED <<intakePayload, intakeLeft>>
      <4>1. intakeLeft[c] = {} /\ intakePayload[c] = NoPayload
        BY <2>1 DEF WorkInv
      <4> QED BY <3>1, <4>1, AlarmedNames
    <3>2. ASSUME NEW p \in Payloads, intakePayload' = [intakePayload EXCEPT ![c] = p],
                 intakeLeft' = [intakeLeft EXCEPT ![c] = Alarmed(p)],
                 StepTo(c, IF Alarmed(p) = {} THEN "done" ELSE "check")
          PROVE  intakeLeft'[c] = Alarmed(intakePayload'[c]) /\ (intakeAt'[c] = "done" => intakeLeft'[c] = {})
      <4>1. intakePayload'[c] = p /\ intakeLeft'[c] = Alarmed(p)
        BY <3>2 DEF IntakeTypeOK
      <4>2. Alarmed(p) # {} => intakeAt'[c] = "check"
        BY <3>2, StepsTo
      <4> QED BY <4>1, <4>2
    <3> QED BY <1>4, <3>1, <3>2 DEF Receive
  <2>6. ASSUME NEW d \in Callbacks
        PROVE  /\ intakeAt'[d] = "none" => intakePayload'[d] = NoPayload /\ intakeLeft'[d] = {} /\ ~\E e \in Events' : e[1] = d
               /\ intakeAt'[d] \in {"clip", "done"} => intakeLeft'[d] = {}
               /\ intakeAt'[d] = "create" => intakeTold'[d].algorithm \in intakeLeft'[d]
               /\ intakeLeft'[d] \subseteq Alarmed(intakePayload'[d])
               /\ \A a \in Alarmed(intakePayload'[d]) : intakeFaults' = 0 => a \in intakeLeft'[d] \/ <<d, a>> \in Events'
    <3>1. CASE d = c
      BY <2>3, <2>5, <3>1
    <3>2. CASE d # c
      BY <2>1, <2>3, <2>4, <3>2 DEF WorkInv
    <3> QED BY <3>1, <3>2
  <2> QED BY <2>6 DEF WorkInv
<1>5. ASSUME NEW c \in Callbacks, NEW a \in TaskAlgorithms \cup {"gone"}, Check(c, a)
      PROVE  WorkInv'
  <2>1. Events' = Events /\ UNCHANGED <<intakePayload, intakeLeft>> /\ intakeAt[c] = "check" /\ a \in intakeLeft[c]
    BY <1>5 DEF Check, Events
  <2>2. intakeAt'[c] = "create" /\ \A d \in Callbacks \ {c} : intakeAt'[d] = intakeAt[d]
    BY <1>5, StepsTo DEF Check
  <2>3. PICK at \in {intakeNow, 0} : intakeTold' = [intakeTold EXCEPT ![c] = [algorithm |-> a, at |-> at]]
    BY <1>5 DEF Check
  <2>4. intakeTold'[c].algorithm = a /\ \A d \in Callbacks \ {c} : intakeTold'[d] = intakeTold[d]
    BY <2>3 DEF IntakeTypeOK
  <2> QED BY <1>1, <2>1, <2>2, <2>4 DEF WorkInv
<1>6. ASSUME NEW c \in Callbacks, Create(c)
      PROVE  WorkInv'
  <2> DEFINE a == intakeTold[c].algorithm
  <2>1. UNCHANGED intakePayload /\ intakeAt[c] = "create" /\ a \in intakeLeft[c]
    BY <1>6 DEF Create, WorkInv
  <2>2. StepTo(c, IF intakeLeft[c] = {a} THEN "clip" ELSE "check")
    BY <1>6 DEF Create
  <2>3. /\ intakeAt'[c] = IF intakeLeft[c] = {a} THEN "clip" ELSE "check"
        /\ \A d \in Callbacks \ {c} : intakeAt'[d] = intakeAt[d]
    BY <2>2, StepsTo
  <2>4. intakeLeft'[c] = intakeLeft[c] \ {a} /\ \A d \in Callbacks \ {c} : intakeLeft'[d] = intakeLeft[d]
    BY <1>6 DEF Create, IntakeTypeOK
  <2>5. \A d \in Callbacks \ {c} : intakeTold'[d] = intakeTold[d]
    BY <1>6 DEF Create, IntakeTypeOK
  <2>6. /\ Events' \subseteq Events \cup {<<c, a>>}
        /\ intakeFaults' = 0 => <<c, a>> \in Events'
    <3>1. CASE intakeEvent' = Put(<<c, a>>, Row(c, a, NotifiedAt(c)))
      <4>1. Events' = Events \cup {<<c, a>>}
        BY <3>1, PutFacts DEF Events
      <4> QED BY <4>1
    <3>2. CASE IntakeFault /\ UNCHANGED intakeEvent
      BY <3>2 DEF IntakeFault, IntakeTypeOK, Events
    <3> QED BY <1>6, <3>1, <3>2 DEF Create
  <2>7. ASSUME NEW d \in Callbacks
        PROVE  /\ intakeAt'[d] = "none" => intakePayload'[d] = NoPayload /\ intakeLeft'[d] = {} /\ ~\E e \in Events' : e[1] = d
               /\ intakeAt'[d] \in {"clip", "done"} => intakeLeft'[d] = {}
               /\ intakeAt'[d] = "create" => intakeTold'[d].algorithm \in intakeLeft'[d]
               /\ intakeLeft'[d] \subseteq Alarmed(intakePayload'[d])
               /\ \A b \in Alarmed(intakePayload'[d]) : intakeFaults' = 0 => b \in intakeLeft'[d] \/ <<d, b>> \in Events'
    <3>1. CASE d = c
      <4>1. intakeAt'[d] \in {"clip", "check"} /\ (intakeAt'[d] = "clip" => intakeLeft'[d] = {})
        BY <2>3, <2>4, <3>1
      <4>2. intakeLeft'[d] \subseteq Alarmed(intakePayload'[d])
        BY <2>1, <2>4, <3>1 DEF WorkInv
      <4>3. \A b \in Alarmed(intakePayload'[d]) : intakeFaults' = 0 => b \in intakeLeft'[d] \/ <<d, b>> \in Events'
        BY <1>1, <2>1, <2>4, <2>6, <3>1 DEF WorkInv
      <4> QED BY <4>1, <4>2, <4>3
    <3>2. CASE d # c
      <4>1. ~(\E e \in Events : e[1] = d) => ~\E e \in Events' : e[1] = d
        BY <2>6, <3>2
      <4> QED BY <1>1, <2>1, <2>3, <2>4, <2>5, <3>2, <4>1 DEF WorkInv
    <3> QED BY <3>1, <3>2
  <2> QED BY <2>7 DEF WorkInv
<1>7. ASSUME NEW c \in Callbacks, TriggerClip(c)
      PROVE  WorkInv'
  <2>1. Events' = Events /\ UNCHANGED <<intakePayload, intakeLeft, intakeTold>> /\ intakeAt[c] = "clip"
    BY <1>7 DEF TriggerClip, Events
  <2>2. intakeAt'[c] = "done" /\ \A d \in Callbacks \ {c} : intakeAt'[d] = intakeAt[d]
    BY <1>7, StepsTo DEF TriggerClip
  <2> QED BY <1>1, <2>1, <2>2 DEF WorkInv
<1>8. CASE ReviewSave \/ \E c \in Callbacks : ClipReady(c)
  <2>1. UNCHANGED <<intakeAt, intakePayload, intakeLeft, intakeTold>>
    BY <1>8 DEF ReviewSave, ClipReady
  <2>2. ReviewSave => Events' = Events
    BY DEF ReviewSave, Events, Put, IntakeTypeOK
  <2>3. (\E c \in Callbacks : ClipReady(c)) => Events' = Events
    BY DEF ClipReady, Events
  <2> QED BY <1>2, <1>8, <2>1, <2>2, <2>3
<1> QED BY <1>3, <1>4, <1>5, <1>6, <1>7, <1>8 DEF IntakeNext

\* An event has what its callback's alarm has, and its turn is over.
LEMMA EventStep ==
  ASSUME IntakeTypeOK, WorkInv, EventInv, ReviewInv, [IntakeNext]_intakeVars
  PROVE  EventInv'
<1> USE DEF intakeRows, intakeWork, intakeDesk
<1>1. /\ Events \subseteq Events'
      /\ \A e \in Events : intakeEvent'[e].boxes = intakeEvent[e].boxes
  BY RowsStay
<1>2. \A e \in Events : e \in Callbacks \X AlarmNames
  BY DEF IntakeTypeOK
<1>3. ASSUME Events' = Events, UNCHANGED <<intakePayload, intakeLeft>>
      PROVE  EventInv'
  BY <1>1, <1>3 DEF EventInv
<1>4. CASE UNCHANGED intakeVars \/ Tick \/ (\E e \in Events : ReviewRead(e)) \/ \E c \in Callbacks : TriggerClip(c)
  <2>1. UNCHANGED <<intakePayload, intakeLeft, intakeEvent>>
    BY <1>4 DEF intakeVars, Tick, ReviewRead, TriggerClip
  <2> QED BY <1>3, <2>1 DEF Events
<1>5. ASSUME NEW c \in Callbacks, NEW a \in TaskAlgorithms \cup {"gone"}, Check(c, a)
      PROVE  EventInv'
  <2>1. UNCHANGED <<intakePayload, intakeLeft, intakeEvent>>
    BY <1>5 DEF Check
  <2> QED BY <1>3, <2>1 DEF Events
<1>6. CASE ReviewSave \/ \E c \in Callbacks : ClipReady(c)
  <2>1. UNCHANGED <<intakePayload, intakeLeft>>
    BY <1>6 DEF ReviewSave, ClipReady
  <2>2. ReviewSave => Events' = Events
    BY DEF ReviewSave, Events, Put, IntakeTypeOK
  <2>3. (\E c \in Callbacks : ClipReady(c)) => Events' = Events
    BY DEF ClipReady, Events
  <2> QED BY <1>3, <1>6, <2>1, <2>2, <2>3
<1>7. ASSUME NEW c \in Callbacks, Receive(c)
      PROVE  EventInv'
  <2>1. intakeEvent' = intakeEvent /\ intakeAt[c] = "none"
    BY <1>7 DEF Receive
  <2>2. \A d \in Callbacks \ {c} : intakePayload'[d] = intakePayload[d] /\ intakeLeft'[d] = intakeLeft[d]
    BY <1>7 DEF Receive, IntakeTypeOK
  <2>3. \A e \in Events : e[1] \in Callbacks \ {c}
    BY <1>2, <2>1 DEF WorkInv
  <2> QED BY <2>1, <2>2, <2>3 DEF EventInv, Events
<1>8. ASSUME NEW c \in Callbacks, Create(c)
      PROVE  EventInv'
  <2> DEFINE a == intakeTold[c].algorithm
             f == <<c, a>>
  <2>1. UNCHANGED intakePayload /\ a \in intakeLeft[c]
    BY <1>8 DEF Create, WorkInv
  <2>2. a \in Alarmed(intakePayload[c])
    BY <2>1 DEF WorkInv
  <2>3. intakeLeft'[c] = intakeLeft[c] \ {a} /\ \A d \in Callbacks \ {c} : intakeLeft'[d] = intakeLeft[d]
    BY <1>8 DEF Create, IntakeTypeOK
  <2>4. \A e \in Events : e[2] \notin intakeLeft'[e[1]]
    BY <1>2, <2>3 DEF EventInv
  <2>5. CASE UNCHANGED intakeEvent
    BY <2>1, <2>4, <2>5 DEF EventInv, Events
  <2>6. CASE intakeEvent' = Put(f, Row(c, a, NotifiedAt(c)))
    <3>1. Events' = Events \cup {f} /\ intakeEvent'[f] = Row(c, a, NotifiedAt(c))
      BY <2>6, PutFacts DEF Events
    <3>2. intakeEvent'[f].boxes = BoxSource(intakePayload[c], a)
      BY <3>1 DEF Row
    <3>3. f[1] = c /\ f[2] = a
      OBVIOUS
    <3>4. \A e \in Events : /\ e[2] \in Alarmed(intakePayload'[e[1]]) /\ e[2] \notin intakeLeft'[e[1]]
                            /\ intakeEvent'[e].boxes = BoxSource(intakePayload'[e[1]], e[2])
      BY <1>1, <2>1, <2>4 DEF EventInv
    <3>5. /\ f[2] \in Alarmed(intakePayload'[f[1]]) /\ f[2] \notin intakeLeft'[f[1]]
          /\ intakeEvent'[f].boxes = BoxSource(intakePayload'[f[1]], f[2])
      BY <2>1, <2>2, <2>3, <3>2, <3>3
    <3> HIDE DEF f
    <3> QED BY <3>1, <3>4, <3>5 DEF EventInv
  <2> QED BY <1>8, <2>5, <2>6 DEF Create
<1> QED BY <1>4, <1>5, <1>6, <1>7, <1>8 DEF IntakeNext

\* A review holds the row as it is, or the row has been overrun.
LEMMA ReviewStep ==
  ASSUME IntakeTypeOK, WorkInv, EventInv, ReviewInv, [IntakeNext]_intakeVars
  PROVE  ReviewInv'
<1> USE DEF intakeRows, intakeWork, intakeDesk
<1>1. \A r \in intakeReview : r.event \in Events /\ r.row \in EventRow
  BY DEF IntakeTypeOK
<1>2. \A e \in Events : intakeEvent'[e].boxes = intakeEvent[e].boxes /\ intakeEvent'[e].notified = intakeEvent[e].notified
  BY RowsStay
<1>3. ASSUME UNCHANGED <<intakeReview, intakeOverrun>>, \A e \in Events : intakeEvent'[e] = intakeEvent[e]
      PROVE  ReviewInv'
  BY <1>1, <1>3 DEF ReviewInv
<1>4. CASE UNCHANGED intakeVars \/ Tick \/ \E c \in Callbacks : Receive(c) \/ TriggerClip(c)
  <2>1. UNCHANGED <<intakeReview, intakeOverrun, intakeEvent>>
    BY <1>4 DEF intakeVars, Tick, Receive, TriggerClip
  <2> QED BY <1>3, <2>1
<1>5. ASSUME NEW c \in Callbacks, NEW a \in TaskAlgorithms \cup {"gone"}, Check(c, a)
      PROVE  ReviewInv'
  <2>1. UNCHANGED <<intakeReview, intakeOverrun, intakeEvent>>
    BY <1>5 DEF Check
  <2> QED BY <1>3, <2>1
<1>6. ASSUME NEW c \in Callbacks, Create(c)
      PROVE  ReviewInv'
  <2>1. <<c, intakeTold[c].algorithm>> \notin Events
    BY <1>6 DEF Create, WorkInv, EventInv
  <2>2. PICK row : intakeEvent' = Put(<<c, intakeTold[c].algorithm>>, row) \/ intakeEvent' = intakeEvent
    BY <1>6 DEF Create
  <2>3. \A e \in Events : intakeEvent'[e] = intakeEvent[e]
    BY <2>1, <2>2 DEF Put
  <2> QED BY <1>3, <1>6, <2>3 DEF Create
<1>7. ASSUME NEW c \in Callbacks, ClipReady(c)
      PROVE  ReviewInv'
  <2>1. \A e \in Events : e[1] # c => intakeEvent'[e] = intakeEvent[e]
    BY <1>7 DEF ClipReady
  <2>2. \A r \in intakeReview : r.event \notin intakeOverrun' => r.event \notin intakeOverrun /\ r.event[1] # c
    BY <1>7 DEF ClipReady
  <2>3. intakeReview' = intakeReview
    BY <1>7 DEF ClipReady
  <2> QED BY <1>1, <1>2, <2>1, <2>2, <2>3 DEF ReviewInv
<1>8. ASSUME NEW e \in Events, ReviewRead(e)
      PROVE  ReviewInv'
  BY <1>8 DEF ReviewRead, ReviewInv
<1>9. CASE ReviewSave
  BY <1>9 DEF ReviewSave, ReviewInv
<1> QED BY <1>4, <1>5, <1>6, <1>7, <1>8, <1>9 DEF IntakeNext

\* Who has seen rows has made that decision once and for all.
LEMMA SeenStep ==
  ASSUME IntakeTypeOK, WorkInv, EventInv, ReviewInv, SeenInv, [IntakeNext]_intakeVars
  PROVE  SeenInv'
<1> USE DEF intakeRows, intakeWork, intakeDesk
<1>1. Events \subseteq Events'
  BY RowsStay
<1>2. \A x \in intakeSeen : x \in Events \X (Callbacks \X AlarmNames) /\ x[2][1] \in Callbacks
  BY DEF SeenInv
<1>3. ASSUME UNCHANGED <<intakeSeen, intakeAt, intakeLeft, intakeTold>>
      PROVE  SeenInv'
  BY <1>1, <1>3 DEF SeenInv
<1>4. CASE UNCHANGED intakeVars \/ Tick \/ (\E e \in Events : ReviewRead(e)) \/ ReviewSave \/ \E c \in Callbacks : ClipReady(c)
  BY <1>3, <1>4 DEF intakeVars, Tick, ReviewRead, ReviewSave, ClipReady
<1>5. ASSUME NEW c \in Callbacks, intakeSeen' = intakeSeen,
             \A d \in Callbacks \ {c} : intakeAt'[d] = intakeAt[d] /\ intakeLeft'[d] = intakeLeft[d] /\ intakeTold'[d] = intakeTold[d],
             \A x \in intakeSeen : x[2][1] = c => intakeAt'[c] # "none" /\ x[2][2] \notin intakeLeft'[c]
      PROVE  SeenInv'
  <2>1. \A x \in intakeSeen : /\ intakeAt'[x[2][1]] # "none"
                              /\ x[2][2] \in intakeLeft'[x[2][1]] =>
                                   intakeAt'[x[2][1]] = "create" /\ intakeTold'[x[2][1]].algorithm = x[2][2]
    <3> SUFFICES ASSUME NEW x \in intakeSeen
                 PROVE  /\ intakeAt'[x[2][1]] # "none"
                        /\ x[2][2] \in intakeLeft'[x[2][1]] =>
                             intakeAt'[x[2][1]] = "create" /\ intakeTold'[x[2][1]].algorithm = x[2][2]
      OBVIOUS
    <3>1. CASE x[2][1] = c
      BY <1>5, <3>1
    <3>2. CASE x[2][1] # c
      BY <1>2, <1>5, <3>2 DEF SeenInv
    <3> QED BY <3>1, <3>2
  <2>2. intakeSeen' \subseteq Events' \X (Callbacks \X AlarmNames)
    BY <1>1, <1>5 DEF SeenInv
  <2> QED BY <1>5, <2>1, <2>2 DEF SeenInv
<1>6. ASSUME NEW c \in Callbacks, Receive(c)
      PROVE  SeenInv'
  <2>1. \A x \in intakeSeen : x[2][1] # c
    BY <1>6 DEF Receive, SeenInv
  <2>2. \E place \in {"check", "done"} : StepTo(c, place)
    BY <1>6 DEF Receive
  <2>3. \A d \in Callbacks \ {c} : intakeAt'[d] = intakeAt[d]
    BY <2>2, StepsTo
  <2>4. \A d \in Callbacks \ {c} : intakeLeft'[d] = intakeLeft[d]
    BY <1>6 DEF Receive, IntakeTypeOK
  <2> QED BY <1>5, <1>6, <2>1, <2>3, <2>4 DEF Receive
<1>7. ASSUME NEW c \in Callbacks, Create(c)
      PROVE  SeenInv'
  <2> DEFINE a == intakeTold[c].algorithm
  <2>1. StepTo(c, IF intakeLeft[c] = {a} THEN "clip" ELSE "check")
    BY <1>7 DEF Create
  <2>2. intakeAt'[c] # "none" /\ \A d \in Callbacks \ {c} : intakeAt'[d] = intakeAt[d]
    BY <2>1, StepsTo
  <2>3. intakeLeft'[c] = intakeLeft[c] \ {a} /\ \A d \in Callbacks \ {c} : intakeLeft'[d] = intakeLeft[d]
    BY <1>7 DEF Create, IntakeTypeOK
  <2>4. \A d \in Callbacks \ {c} : intakeTold'[d] = intakeTold[d]
    BY <1>7 DEF Create, IntakeTypeOK
  <2>5. \A x \in intakeSeen : x[2][1] = c => x[2][2] \notin intakeLeft'[c]
    BY <2>3 DEF SeenInv
  <2> QED BY <1>5, <1>7, <2>2, <2>3, <2>4, <2>5 DEF Create
<1>8. ASSUME NEW c \in Callbacks, TriggerClip(c)
      PROVE  SeenInv'
  <2>1. intakeAt'[c] = "done" /\ \A d \in Callbacks \ {c} : intakeAt'[d] = intakeAt[d]
    BY <1>8, StepsTo DEF TriggerClip
  <2>2. intakeLeft[c] = {}
    BY <1>8 DEF TriggerClip, WorkInv
  <2> QED BY <1>5, <1>8, <2>1, <2>2 DEF TriggerClip
<1>9. ASSUME NEW c \in Callbacks, NEW a \in TaskAlgorithms \cup {"gone"}, Check(c, a)
      PROVE  SeenInv'
  <2>1. /\ intakeAt[c] = "check" /\ a \in intakeLeft[c] /\ intakeLeft' = intakeLeft /\ intakeEvent' = intakeEvent
        /\ intakeSeen' = intakeSeen \cup ({e \in Events : e[2] = a} \X {<<c, a>>})
    BY <1>9 DEF Check
  <2>2. intakeAt'[c] = "create" /\ \A d \in Callbacks \ {c} : intakeAt'[d] = intakeAt[d]
    BY <1>9, StepsTo DEF Check
  <2>3. PICK at \in {intakeNow, 0} : intakeTold' = [intakeTold EXCEPT ![c] = [algorithm |-> a, at |-> at]]
    BY <1>9 DEF Check
  <2>4. intakeTold'[c].algorithm = a /\ \A d \in Callbacks \ {c} : intakeTold'[d] = intakeTold[d]
    BY <2>3 DEF IntakeTypeOK
  <2>5. ASSUME NEW x \in intakeSeen'
        PROVE  /\ x \in Events \X (Callbacks \X AlarmNames)
               /\ intakeAt'[x[2][1]] # "none"
               /\ x[2][2] \in intakeLeft'[x[2][1]] =>
                    intakeAt'[x[2][1]] = "create" /\ intakeTold'[x[2][1]].algorithm = x[2][2]
    <3>1. CASE x \in intakeSeen /\ x[2][1] # c
      BY <1>2, <2>1, <2>2, <2>4, <3>1 DEF SeenInv
    <3>2. CASE x \in intakeSeen /\ x[2][1] = c
      <4>1. x[2][2] \notin intakeLeft[c]
        BY <2>1, <3>2 DEF SeenInv
      <4> QED BY <1>2, <2>1, <2>2, <3>2, <4>1
    <3>3. CASE x \notin intakeSeen
      <4>1. PICK e \in Events : x = <<e, <<c, a>>>>
        BY <2>1, <3>3
      <4>2. x[2] = <<c, a>> /\ x[2][1] = c /\ x[2][2] = a
        BY <4>1
      <4>3. a \in AlarmNames
        BY DEF AlarmNames
      <4>4. x \in Events \X (Callbacks \X AlarmNames)
        BY <4>1, <4>3
      <4> QED BY <2>2, <2>4, <4>2, <4>4
    <3> QED BY <3>1, <3>2, <3>3
  <2> QED BY <1>1, <2>5 DEF SeenInv
<1> QED BY <1>4, <1>6, <1>7, <1>8, <1>9 DEF IntakeNext

\* Nobody decides to announce what he has seen announced within the cycle.
LEMMA CycleStep ==
  ASSUME IntakeTypeOK, WorkInv, EventInv, ReviewInv, SeenInv, CycleInv, [IntakeNext]_intakeVars
  PROVE  CycleInv'
<1> USE DEF intakeRows, intakeWork, intakeDesk
<1> SUFFICES ASSUME Cycle > 0, NEW x \in intakeSeen'
             PROVE  Justified(x)'
  BY DEF CycleInv
<1>1. /\ Events \subseteq Events'
      /\ \A e \in Events : intakeEvent'[e].notified = intakeEvent[e].notified
  BY RowsStay
<1>2. x \in intakeSeen => /\ x[1] \in Events /\ x[2] \in Callbacks \X AlarmNames /\ x[2][1] \in Callbacks
                          /\ x[2] = <<x[2][1], x[2][2]>> /\ Justified(x)
  BY DEF SeenInv, CycleInv
<1>3. intakeBlind \subseteq intakeBlind'
  BY DEF IntakeNext, intakeVars, Tick, Receive, Create, TriggerClip, ClipReady, Check, ReviewRead, ReviewSave
<1>4. ASSUME x \in intakeSeen, Decided(x[2])' => Decided(x[2]) /\ Stamp(x[2])' = Stamp(x[2])
      PROVE  Justified(x)'
  BY <1>1, <1>2, <1>3, <1>4 DEF Justified
<1>5. ASSUME x \in intakeSeen, Events' = Events,
             intakeAt'[x[2][1]] = "create" => intakeAt[x[2][1]] = "create" /\ intakeTold'[x[2][1]] = intakeTold[x[2][1]]
      PROVE  Justified(x)'
  <2>1. CASE x[2] \in Events
    BY <1>1, <1>4, <1>5, <2>1 DEF Decided, Stamp
  <2>2. CASE x[2] \notin Events
    BY <1>4, <1>5, <2>2 DEF Decided, Stamp
  <2> QED BY <2>1, <2>2
<1>6. CASE UNCHANGED intakeVars \/ Tick \/ (\E e \in Events : ReviewRead(e)) \/ ReviewSave \/ \E c \in Callbacks : ClipReady(c)
  <2>1. UNCHANGED <<intakeSeen, intakeAt, intakeTold>>
    BY <1>6 DEF intakeVars, Tick, ReviewRead, ReviewSave, ClipReady
  <2>2. intakeEvent' = intakeEvent \/ ReviewSave \/ \E c \in Callbacks : ClipReady(c)
    BY <1>6 DEF intakeVars, Tick, ReviewRead
  <2>3. ReviewSave => Events' = Events
    BY DEF ReviewSave, Events, Put, IntakeTypeOK
  <2>4. (\E c \in Callbacks : ClipReady(c)) => Events' = Events
    BY DEF ClipReady, Events
  <2>5. Events' = Events
    BY <2>2, <2>3, <2>4 DEF Events
  <2> QED BY <1>5, <2>1, <2>5
<1>7. ASSUME NEW c \in Callbacks, Receive(c) \/ TriggerClip(c)
      PROVE  Justified(x)'
  <2>1. \E place \in {"check", "done"} : StepTo(c, place)
    BY <1>7 DEF Receive, TriggerClip
  <2>2. intakeAt'[c] # "create" /\ \A d \in Callbacks \ {c} : intakeAt'[d] = intakeAt[d]
    BY <2>1, StepsTo
  <2>3. UNCHANGED <<intakeSeen, intakeTold, intakeEvent>>
    BY <1>7 DEF Receive, TriggerClip
  <2> QED BY <1>2, <1>5, <2>2, <2>3 DEF Events
<1>8. ASSUME NEW c \in Callbacks, Create(c)
      PROVE  Justified(x)'
  <2> DEFINE a == intakeTold[c].algorithm
             f == <<c, a>>
  <2>1. intakeSeen' = intakeSeen /\ intakeAt[c] = "create" /\ a \in intakeLeft[c]
    BY <1>8 DEF Create, WorkInv
  <2>2. StepTo(c, IF intakeLeft[c] = {a} THEN "clip" ELSE "check")
    BY <1>8 DEF Create
  <2>3. intakeAt'[c] # "create" /\ \A d \in Callbacks \ {c} : intakeAt'[d] = intakeAt[d]
    BY <2>2, StepsTo
  <2>4. \A d \in Callbacks \ {c} : intakeTold'[d] = intakeTold[d]
    BY <1>8 DEF Create, IntakeTypeOK
  <2>5. f \notin Events
    BY <2>1 DEF EventInv
  <2>6. CASE UNCHANGED intakeEvent
    BY <1>2, <1>5, <2>1, <2>3, <2>4, <2>6 DEF Events
  <2>7. CASE intakeEvent' = Put(f, Row(c, a, NotifiedAt(c)))
    <3>1. Events' = Events \cup {f} /\ intakeEvent'[f] = Row(c, a, NotifiedAt(c))
      BY <2>7, PutFacts DEF Events
    <3>2. intakeEvent'[f].notified = intakeTold[c].at
      BY <3>1 DEF Row, NotifiedAt
    <3>3. CASE x[2] = f
      <4>1. x[2][1] = c /\ x[2][2] = a
        BY <3>3
      <4>2. Decided(x[2]) /\ Stamp(x[2])' = Stamp(x[2])
        BY <2>1, <2>5, <3>1, <3>2, <3>3, <4>1 DEF Decided, Stamp
      <4> QED BY <1>4, <2>1, <4>2
    <3>4. CASE x[2] # f
      <4>1. Decided(x[2])' => Decided(x[2]) /\ Stamp(x[2])' = Stamp(x[2])
        <5>1. CASE x[2] \in Events
          BY <1>1, <3>1, <5>1 DEF Decided, Stamp
        <5>2. CASE x[2] \notin Events
          BY <1>2, <2>1, <2>3, <2>4, <3>1, <3>4, <5>2 DEF Decided, Stamp
        <5> QED BY <5>1, <5>2
      <4> QED BY <1>4, <2>1, <4>1
    <3> QED BY <3>3, <3>4
  <2> QED BY <1>8, <2>6, <2>7 DEF Create
<1>9. ASSUME NEW c \in Callbacks, NEW a \in TaskAlgorithms \cup {"gone"}, Check(c, a)
      PROVE  Justified(x)'
  <2>1. /\ intakeAt[c] = "check" /\ a \in intakeLeft[c] /\ intakeEvent' = intakeEvent
        /\ intakeSeen' = intakeSeen \cup ({e \in Events : e[2] = a} \X {<<c, a>>})
    BY <1>9 DEF Check
  <2>2. intakeAt'[c] = "create" /\ \A d \in Callbacks \ {c} : intakeAt'[d] = intakeAt[d]
    BY <1>9, StepsTo DEF Check
  <2>3. <<c, a>> \notin Events
    BY <2>1 DEF EventInv
  <2>4. \A at : intakeTold' = [intakeTold EXCEPT ![c] = [algorithm |-> a, at |-> at]] =>
          /\ intakeTold'[c].algorithm = a /\ intakeTold'[c].at = at
          /\ \A d \in Callbacks \ {c} : intakeTold'[d] = intakeTold[d]
    BY DEF IntakeTypeOK
  <2>5. /\ intakeTold'[c].algorithm = a
        /\ \A d \in Callbacks \ {c} : intakeTold'[d] = intakeTold[d]
        /\ intakeTold'[c].at = (IF Quiet(a) THEN intakeNow ELSE 0) \/ <<c, a>> \in intakeBlind'
    BY <1>9, <2>4 DEF Check
  <2>6. CASE x \notin intakeSeen
    <3>1. PICK e \in Events : e[2] = a /\ x = <<e, <<c, a>>>>
      BY <2>1, <2>6
    <3>2. x[1] = e /\ x[2] = <<c, a>>
      BY <3>1
    <3>3. intakeEvent[e].notified \in Nat /\ intakeNow \in Nat /\ Cycle \in Nat
      BY IntakeAssumption DEF IntakeTypeOK, EventRow
    <3>4. Quiet(a) /\ intakeEvent[e].notified > 0 => intakeNow >= intakeEvent[e].notified + Cycle
      <4>1. intakeEvent[e].notified # 0 => intakeEvent[e].notified \in Announced(a)
        BY <3>1 DEF Announced
      <4> QED BY <3>3, <4>1 DEF Quiet
    <3>5. Stamp(x[2])' = intakeTold'[c].at
      BY <2>1, <2>3, <3>2 DEF Stamp, Events
    <3> QED BY <2>1, <2>5, <3>2, <3>3, <3>4, <3>5 DEF Justified
  <2>7. CASE x \in intakeSeen /\ x[2][1] # c
    BY <1>2, <1>5, <2>1, <2>2, <2>5, <2>7 DEF Events
  <2>8. CASE x \in intakeSeen /\ x[2][1] = c
    <3>1. x[2][2] \notin intakeLeft[c]
      BY <2>1, <2>8 DEF SeenInv
    <3>2. x[2][2] # a
      BY <2>1, <3>1
    <3>3. Decided(x[2])' => x[2] \in Events
      BY <2>1, <2>5, <2>8, <3>2 DEF Decided, Events
    <3> QED BY <1>4, <2>1, <2>8, <3>3 DEF Decided, Stamp, Events
  <2> QED BY <2>6, <2>7, <2>8
<1> QED BY <1>6, <1>7, <1>8, <1>9 DEF IntakeNext

\* The invariant of the intake holds throughout.
LEMMA IntakeAlways == IntakeSpec => []IntakeInv
<1>1. IntakeInit => IntakeInv
  <2> SUFFICES ASSUME IntakeInit PROVE IntakeInv
    OBVIOUS
  <2>1. Events = {} /\ intakeReview = {} /\ intakeSeen = {}
    BY DEF IntakeInit, Events
  <2>2. intakeEvent \in [Events -> EventRow]
    BY <2>1 DEF IntakeInit, Events
  <2>3. NotTold \in [algorithm : AlarmNames \cup {"none"}, at : Nat]
    BY DEF NotTold
  <2>4. IntakeTypeOK
    BY <2>1, <2>2, <2>3 DEF IntakeInit, IntakeTypeOK
  <2>5. NoPayload \in Payload \cup {NoPayload}
    OBVIOUS
  <2>6. Alarmed(NoPayload) = {}
    BY <2>5, AlarmedNames
  <2>7. WorkInv
    BY <2>1, <2>6 DEF IntakeInit, WorkInv
  <2>8. EventInv /\ ReviewInv /\ SeenInv /\ CycleInv
    BY <2>1 DEF EventInv, ReviewInv, SeenInv, CycleInv
  <2> QED BY <2>4, <2>7, <2>8 DEF IntakeInv
<1>2. IntakeInv /\ [IntakeNext]_intakeVars => IntakeInv'
  BY IntakeTypeStep, WorkStep, EventStep, ReviewStep, SeenStep, CycleStep DEF IntakeInv
<1> QED BY <1>1, <1>2, PTL DEF IntakeSpec

\* An alarm is announced twice within a cycle only by callbacks that overlap, for any
\* number of callbacks, algorithms and payloads, and any length of the cycle.
THEOREM OncePerCycle == IntakeSpec => []QuietPeriod
<1>1. IntakeInv => QuietPeriod
  <2> SUFFICES ASSUME IntakeInv, NEW e \in Events, NEW f \in Events,
                      intakeEvent[e].notified > 0, <<e, f>> \in intakeSeen, f \notin intakeBlind,
                      intakeEvent[f].notified \in intakeEvent[e].notified .. intakeEvent[e].notified + Cycle - 1
               PROVE  FALSE
    BY DEF QuietPeriod
  <2>1. intakeEvent[e].notified \in Nat /\ intakeEvent[f].notified \in Nat /\ Cycle \in Nat
    BY IntakeAssumption DEF IntakeInv, IntakeTypeOK, EventRow
  <2>2. Cycle > 0
    BY <2>1
  <2>3. Justified(<<e, f>>)
    BY <2>2 DEF IntakeInv, CycleInv
  <2>4. intakeEvent[f].notified = 0 \/ intakeEvent[f].notified >= intakeEvent[e].notified + Cycle
    BY <2>3 DEF Justified, Decided, Stamp
  <2> QED BY <2>1, <2>4
<1> QED BY <1>1, IntakeAlways, PTL

\* A callback leaves the events its payload justifies, and all of them.
THEOREM AlarmsJustified == IntakeSpec => []EventsJustified
<1>1. IntakeInv => EventsJustified
  <2> SUFFICES ASSUME IntakeInv, NEW c \in Callbacks
               PROVE  LET p == intakePayload[c]
                          mine == {e[2] : e \in {x \in Events : x[1] = c}}
                      IN  /\ intakeAt[c] = "done" /\ intakeFaults = 0 => mine = Alarmed(p)
                          /\ p.mode # "small" => \A a \in mine : a \in p.objects /\ intakeEvent[<<c, a>>].boxes = "llm"
                          /\ mine \subseteq TaskAlgorithms \cup {r.algorithm : r \in p.results}
    BY DEF EventsJustified
  <2> DEFINE p == intakePayload[c]
             mine == {e[2] : e \in {x \in Events : x[1] = c}}
  <2>1. p \in Payload \cup {NoPayload}
    BY DEF IntakeInv, IntakeTypeOK
  <2>2. \A a \in mine : <<c, a>> \in Events
    BY DEF IntakeInv, IntakeTypeOK
  <2>3. mine \subseteq Alarmed(p)
    BY DEF IntakeInv, EventInv
  <2>4. intakeAt[c] = "done" /\ intakeFaults = 0 => Alarmed(p) \subseteq mine
    <3>1. intakeAt[c] = "done" /\ intakeFaults = 0 => \A a \in Alarmed(p) : <<c, a>> \in Events
      BY DEF IntakeInv, WorkInv
    <3>2. \A a : <<c, a>> \in Events => a \in mine
      <4> TAKE a
      <4>1. <<c, a>>[1] = c /\ <<c, a>>[2] = a
        OBVIOUS
      <4> QED BY <4>1
    <3> QED BY <3>1, <3>2
  <2>5. p.mode # "small" => \A a \in mine : a \in p.objects
    BY <2>1, <2>3, AlarmedNames
  <2>6. p.mode # "small" => \A a \in mine : intakeEvent[<<c, a>>].boxes = "llm"
    <3> SUFFICES ASSUME p.mode # "small", NEW a \in mine PROVE intakeEvent[<<c, a>>].boxes = "llm"
      OBVIOUS
    <3>1. intakeEvent[<<c, a>>].boxes = BoxSource(p, a)
      BY <2>2 DEF IntakeInv, EventInv
    <3> QED BY <2>1, <2>5, <3>1, AlarmedNames
  <2>7. mine \subseteq TaskAlgorithms \cup {r.algorithm : r \in p.results}
    BY <2>1, <2>3, AlarmedNames
  <2> QED BY <2>3, <2>4, <2>5, <2>6, <2>7
<1> QED BY <1>1, IntakeAlways, PTL

\* A review writes back the row it has read: it changes nothing but the review, unless
\* the row was updated between its read and its write.
THEOREM ReviewIsAll == IntakeSpec => ReviewKeepsRow
<1>1. ASSUME IntakeInv, [IntakeNext]_intakeVars, NEW e \in Events,
             intakeEvent'[e].review # intakeEvent[e].review, e \notin intakeOverrun
      PROVE  intakeEvent'[e] = [intakeEvent[e] EXCEPT !.review = intakeEvent'[e].review]
  <2> USE DEF intakeRows, intakeWork, intakeDesk
  <2>1. IntakeTypeOK /\ WorkInv /\ EventInv /\ ReviewInv
    BY <1>1 DEF IntakeInv
  <2>2. intakeEvent[e] \in EventRow
    BY <2>1 DEF IntakeTypeOK
  <2>3. intakeEvent'[e] # intakeEvent[e]
    BY <1>1
  <2>4. ASSUME NEW c \in Callbacks, Create(c)
        PROVE  FALSE
    <3>1. <<c, intakeTold[c].algorithm>> \notin Events
      BY <2>1, <2>4 DEF Create, WorkInv, EventInv
    <3>2. PICK row : intakeEvent' = Put(<<c, intakeTold[c].algorithm>>, row) \/ intakeEvent' = intakeEvent
      BY <2>4 DEF Create
    <3> QED BY <2>3, <3>1, <3>2 DEF Put
  <2>5. ASSUME NEW c \in Callbacks, ClipReady(c)
        PROVE  FALSE
    <3>1. intakeEvent'[e] = IF e[1] = c THEN [intakeEvent[e] EXCEPT !.clip = TRUE] ELSE intakeEvent[e]
      BY <2>5 DEF ClipReady
    <3>2. intakeEvent'[e].review = intakeEvent[e].review
      BY <2>2, <3>1 DEF EventRow
    <3> QED BY <1>1, <3>2
  <2>6. CASE ReviewSave
    <3>1. PICK r \in intakeReview : intakeEvent' = Put(r.event, [r.row EXCEPT !.review = TRUE])
      BY <2>6 DEF ReviewSave
    <3>2. e = r.event
      BY <2>3, <3>1 DEF Put
    <3>3. r.row = intakeEvent[e]
      BY <1>1, <2>1, <3>2 DEF ReviewInv
    <3>4. intakeEvent'[e] = [intakeEvent[e] EXCEPT !.review = TRUE]
      BY <3>1, <3>2, <3>3 DEF Put
    <3> QED BY <2>2, <3>4 DEF EventRow
  <2>7. ReviewSave \/ \E c \in Callbacks : Create(c) \/ ClipReady(c)
    BY <1>1, <2>3 DEF IntakeNext, intakeVars, Tick, Receive, TriggerClip, Check, ReviewRead
  <2> QED BY <2>4, <2>5, <2>6, <2>7
<1>2. IntakeInv /\ [IntakeNext]_intakeVars =>
        [\A e \in Events :
           intakeEvent'[e].review # intakeEvent[e].review /\ e \notin intakeOverrun =>
             intakeEvent'[e] = [intakeEvent[e] EXCEPT !.review = intakeEvent'[e].review]]_intakeVars
  BY <1>1
<1> QED BY <1>2, IntakeAlways, PTL DEF IntakeSpec, ReviewKeepsRow
=============================================================================
