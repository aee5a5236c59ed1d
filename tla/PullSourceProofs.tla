-------------------------- MODULE PullSourceProofs --------------------------
(* Theorems about PullSource, for any addresses, goroutines and bounds.    *)
EXTENDS PullSource, SequenceTheorems, TLAPS

Callers == {"create", "edit", "preview", "snapshot", "heal", "startup", "recover"}

\* Who is not idle and does not delete will want a proxy.
Places ==
  /\ pc \in [Workers -> Steps] /\ op \in [Workers -> Ops]
  /\ \A w \in Workers : pc[w] \in Steps \ {"idle", "delproxy", "delrow"} => op[w] \in Callers

\* The type invariant in parts.
Locals ==
  /\ addr \in [Workers -> Urls \cup {NoUrl}] /\ seen \in [Workers -> Statuses]
  /\ attempt \in [Workers -> 1 .. MaxAttempts]

RowsTyped ==
  /\ exists \in BOOLEAN /\ status \in Statuses /\ analyzing \in BOOLEAN /\ fresh \in BOOLEAN
  /\ url \in Urls \cup {NoUrl} /\ proxyUrl \in Urls \cup {NoUrl}

ZLMTyped ==
  /\ proxy \in Urls \cup {NoUrl} /\ up \in BOOLEAN /\ (up => proxy # NoUrl)
  /\ reachable \subseteq Urls /\ hooks \in Seq({"up", "down", "started"})

MarksTyped ==
  /\ lock \in Workers \cup {Free}
  /\ healPending \in BOOLEAN /\ recoverPending \in BOOLEAN
  /\ requests \in Nat /\ breaks \in Nat /\ faults \in Nat
  /\ calm \in {"yes", "maybe", "no"} /\ final \in {"yes", "maybe", "no"}

Inv == Places /\ Locals /\ RowsTyped /\ ZLMTyped /\ MarksTyped

\* The invariant implies the types.
LEMMA InvTypes == Inv => TypeOK
  BY DEF Inv, Places, Locals, RowsTyped, ZLMTyped, MarksTyped, TypeOK

\* The initial state satisfies it.
LEMMA InitInv == Init => Inv
<1> SUFFICES ASSUME Init PROVE Inv
  OBVIOUS
<1>1. Places
  BY DEF Init, Places, Steps, Guarded, Ops
<1>2. Locals
  BY PullAssumption DEF Init, Locals, Statuses
<1>3. RowsTyped /\ MarksTyped
  BY DEF Init, RowsTyped, MarksTyped, Statuses
<1>4. ZLMTyped
  <2>1. hooks \in Seq({"up", "down", "started"})
    BY DEF Init
  <2>2. proxy \in Urls \cup {NoUrl} /\ up = FALSE /\ reachable \subseteq Urls
    BY DEF Init
  <2> QED BY <2>1, <2>2 DEF ZLMTyped
<1> QED BY <1>1, <1>2, <1>3, <1>4 DEF Inv

-----------------------------------------------------------------------------
(* How goroutines move.                                                    *)

\* w goes to a step of S: in its operation, or it is done.
Moves(w, S) ==
  \E s \in S :
    /\ pc' = [pc EXCEPT ![w] = s]
    /\ \/ s \notin {"idle", "delproxy"} /\ op' = op
       \/ s = "idle" /\ op' = [op EXCEPT ![w] = "none"]

\* Whoever moves from a step before the proxy, or to the deletion, keeps its place.
LEMMA MovePlaces ==
  ASSUME Places, NEW w \in Workers, NEW S \in SUBSET Steps, Moves(w, S),
         op[w] \in Callers \/ S \subseteq {"idle", "delrow"}
  PROVE  Places'
<1>1. PICK s \in S : /\ pc' = [pc EXCEPT ![w] = s]
                     /\ \/ s \notin {"idle", "delproxy"} /\ op' = op
                        \/ s = "idle" /\ op' = [op EXCEPT ![w] = "none"]
  BY DEF Moves
<1>2. "none" \in Ops
  BY DEF Ops
<1> QED BY <1>1, <1>2 DEF Places

\* Who returns becomes idle.
LEMMA ReturnMoves ==
  ASSUME NEW w \in Workers, Return(w)
  PROVE  Moves(w, {"idle"})
  BY DEF Return, Goto, Moves

\* Who returns forgets what he held, and keeps the types.
LEMMA ReturnLocals ==
  ASSUME Locals, NEW w \in Workers, Return(w)
  PROVE  Locals'
  BY PullAssumption DEF Locals, Return, Statuses

\* Where ensureZLMProxy leads when it succeeds, ...
LEMMA ProceedMoves ==
  ASSUME Places, Locals, NEW w \in Workers, op[w] \in Callers, Proceed(w)
  PROVE  Moves(w, {"idle", "sync", "show", "healrow", "confirm"}) /\ Locals'
<1>1. CASE op[w] = "snapshot"
  <2>1. Return(w)
    BY <1>1 DEF Proceed
  <2> QED BY <2>1, ReturnLocals DEF Return, Goto, Moves
<1>2. CASE op[w] # "snapshot"
  <2>1. UNCHANGED localVars
    BY <1>2 DEF Proceed
  <2>2. \E s \in {"sync", "show", "healrow", "confirm"} : Goto(w, s)
    BY <1>2 DEF Proceed, Callers
  <2> QED BY <2>1, <2>2 DEF Goto, Moves, localVars, Locals
<1> QED BY <1>1, <1>2

\* ... and when it fails.
LEMMA FailMoves ==
  ASSUME Places, Locals, NEW w \in Workers, FailAttempt(w)
  PROVE  Moves(w, {"idle", "load", "lock", "end"}) /\ Locals'
<1>1. CASE op[w] \in {"heal", "startup", "recover"}
  <2>1. UNCHANGED <<op, addr, seen>>
    BY <1>1 DEF FailAttempt
  <2>2. CASE attempt[w] < MaxAttempts
    <3>1. /\ attempt' = [attempt EXCEPT ![w] = attempt[w] + 1]
          /\ Goto(w, IF op[w] = "heal" THEN "load" ELSE "lock")
      BY <1>1, <2>2 DEF FailAttempt
    <3>2. attempt[w] + 1 \in 1 .. MaxAttempts
      BY <2>2, PullAssumption DEF Locals
    <3>3. Locals'
      BY <2>1, <3>1, <3>2 DEF Locals
    <3> QED BY <2>1, <3>1, <3>3 DEF Goto, Moves
  <2>3. CASE ~(attempt[w] < MaxAttempts)
    BY <1>1, <2>1, <2>3 DEF FailAttempt, Goto, Moves, Locals
  <2> QED BY <2>2, <2>3
<1>2. CASE op[w] \notin {"heal", "startup", "recover"}
  <2>1. Return(w)
    BY <1>2 DEF FailAttempt
  <2> QED BY <2>1, ReturnLocals DEF Return, Goto, Moves
<1> QED BY <1>1, <1>2

\* The steps and the callers by name, for the provers.
LEMMA StepNames ==
  /\ Steps = {"check", "add", "recheck", "idle", "lock", "sync", "save", "show", "shown",
              "delproxy", "delrow", "load", "active", "healrow", "correct", "correctrow", "list",
              "confirm", "row", "end"}
  /\ Callers \subseteq Ops
  BY DEF Steps, Guarded, Callers, Ops

\* Steps that lead to other operations than the one of w.
LEMMA Caller ==
  ASSUME Places, NEW w \in Workers, pc[w] \notin {"idle", "delproxy", "delrow"}
  PROVE  op[w] \in Callers
  BY DEF Places

\* Spending a fault.
LEMMA AnswerTyped ==
  ASSUME MarksTyped, NEW active \in BOOLEAN, Answer(active)
  PROVE  /\ faults' \in Nat /\ calm' \in {"yes", "maybe", "no"}
         /\ active => up
  BY PullAssumption DEF MarksTyped, Answer, Fault

\* Hooks on their way.
LEMMA HooksGrow ==
  ASSUME ZLMTyped
  PROVE  /\ Append(hooks, "up") \in Seq({"up", "down", "started"})
         /\ Append(hooks, "down") \in Seq({"up", "down", "started"})
         /\ Append(hooks, "started") \in Seq({"up", "down", "started"})
         /\ <<"started">> \in Seq({"up", "down", "started"})
         /\ <<>> \in Seq({"up", "down", "started"})
         /\ hooks # <<>> => Tail(hooks) \in Seq({"up", "down", "started"})
  BY DEF ZLMTyped

\* Taking a hook out of the queue keeps its type.
LEMMA ReceiveTyped ==
  ASSUME ZLMTyped, NEW i \in 1 .. Len(hooks), Receive(i)
  PROVE  hooks' \in Seq({"up", "down", "started"})
<1> DEFINE n == Len(hooks) - 1
<1>1. hooks \in Seq({"up", "down", "started"}) /\ n \in Nat
  BY LenProperties DEF ZLMTyped
<1>2. hooks' = [j \in 1 .. n |-> IF j < i THEN hooks[j] ELSE hooks[j + 1]]
  BY DEF Receive
<1>3. \A j \in 1 .. n : (IF j < i THEN hooks[j] ELSE hooks[j + 1]) \in {"up", "down", "started"}
  <2> TAKE j \in 1 .. n
  <2>1. j \in 1 .. Len(hooks) /\ j + 1 \in 1 .. Len(hooks)
    BY <1>1
  <2> QED BY <1>1, <2>1, ElementOfSeq
<1> QED BY <1>1, <1>2, <1>3

-----------------------------------------------------------------------------
(* Every step keeps the types and the places.                              *)

\* The steps of ensureZLMProxy keep the invariant.
LEMMA EnsureTypes ==
  ASSUME Inv, NEW w \in Workers, Lock(w) \/ Ensure(w)
  PROVE  Inv'
<1> USE DEF Inv
<1>1. CASE Lock(w)
  <2>1. Places' /\ Locals'
    BY <1>1 DEF Lock, Goto, Places, Locals, localVars, Steps, Guarded
  <2>2. RowsTyped' /\ ZLMTyped' /\ MarksTyped'
    BY <1>1 DEF Lock, RowsTyped, ZLMTyped, MarksTyped, rowVars, zlmVars, markVars, boundVars
  <2> QED BY <2>1, <2>2
<1>2. CASE Check(w)
  <2>1. PICK active \in BOOLEAN :
          /\ Answer(active)
          /\ IF active THEN Proceed(w) /\ lock' = Free
                       ELSE Goto(w, "add") /\ UNCHANGED <<localVars, lock>>
    BY <1>2 DEF Check
  <2>2. op[w] \in Callers
    BY <1>2, Caller DEF Check
  <2>3. Places' /\ Locals'
    <3>1. CASE active
      BY <2>1, <2>2, <3>1, ProceedMoves, MovePlaces, StepNames
    <3>2. CASE ~active
      BY <2>1, <2>2, <3>2 DEF Goto, Places, Locals, localVars, Steps, Guarded
    <3> QED BY <3>1, <3>2
  <2>4. MarksTyped'
    BY <1>2, <2>1, AnswerTyped DEF Check, MarksTyped, markVars
  <2>5. RowsTyped' /\ ZLMTyped'
    BY <1>2 DEF Check, RowsTyped, ZLMTyped, rowVars, zlmVars
  <2> QED BY <2>3, <2>4, <2>5
<1>3. CASE Add(w)
  <2>1. op[w] \in Callers
    BY <1>3, Caller DEF Add
  <2>2. \/ Proceed(w) /\ lock' = Free
        \/ Goto(w, "recheck") /\ UNCHANGED <<localVars, lock>>
    BY <1>3 DEF Add
  <2>3. Places' /\ Locals'
    <3>1. CASE Proceed(w)
      BY <2>1, <3>1, ProceedMoves, MovePlaces, StepNames
    <3>2. CASE Goto(w, "recheck") /\ UNCHANGED localVars
      BY <2>1, <3>2 DEF Goto, Places, Locals, localVars, Steps, Guarded
    <3> QED BY <2>2, <3>1, <3>2
  <2>4. MarksTyped'
    BY <1>3, <2>2 DEF Add, MarksTyped, markVars, boundVars
  <2>5. ZLMTyped'
    BY <1>3, HooksGrow, PullAssumption DEF Add, Emit, ZLMTyped, Locals
  <2>6. RowsTyped'
    BY <1>3 DEF Add, RowsTyped, rowVars
  <2> QED BY <2>3, <2>4, <2>5, <2>6
<1>4. CASE AddReplyLost(w)
  <2>1. Places' /\ Locals'
    BY <1>4, Caller DEF AddReplyLost, Goto, Places, Locals, localVars, Steps, Guarded
  <2>2. ZLMTyped'
    BY <1>4, HooksGrow, PullAssumption DEF AddReplyLost, Emit, ZLMTyped, Locals
  <2>3. RowsTyped' /\ MarksTyped'
    BY <1>4, PullAssumption DEF AddReplyLost, Fault, RowsTyped, MarksTyped, rowVars, markVars
  <2> QED BY <2>1, <2>2, <2>3
<1>5. CASE Recheck(w)
  <2>1. PICK active \in BOOLEAN :
          Answer(active) /\ IF active THEN Proceed(w) ELSE FailAttempt(w)
    BY <1>5 DEF Recheck
  <2>2. op[w] \in Callers
    BY <1>5, Caller DEF Recheck
  <2>3. Places' /\ Locals'
    <3>1. CASE active
      BY <2>1, <2>2, <3>1, ProceedMoves, MovePlaces, StepNames
    <3>2. CASE ~active
      BY <2>1, <2>2, <3>2, FailMoves, MovePlaces, StepNames
    <3> QED BY <3>1, <3>2
  <2>4. MarksTyped'
    BY <1>5, <2>1, AnswerTyped DEF Recheck, MarksTyped, markVars
  <2>5. RowsTyped' /\ ZLMTyped'
    BY <1>5 DEF Recheck, RowsTyped, ZLMTyped, rowVars, zlmVars
  <2> QED BY <2>3, <2>4, <2>5
<1> QED BY <1>1, <1>2, <1>3, <1>4, <1>5 DEF Ensure

\* What a goroutine that deletes the proxy leaves of it.
LEMMA DropTyped ==
  ASSUME ZLMTyped, Drop, reachable' = reachable, proxy' \in Urls \cup {NoUrl}
  PROVE  ZLMTyped'
  BY HooksGrow DEF Drop, ZLMTyped

\* The steps of requests keep it.
LEMMA ServeTypes ==
  ASSUME Inv, NEW w \in Workers, Serve(w)
  PROVE  Inv'
<1> USE DEF Inv
<1>1. CASE Sync(w)
  <2>1. Places' /\ Locals'
    BY <1>1 DEF Sync, Goto, Places, Locals, Steps, Statuses
  <2>2. MarksTyped'
    BY <1>1, AnswerTyped DEF Sync, MarksTyped, markVars
  <2>3. RowsTyped' /\ ZLMTyped'
    BY <1>1 DEF Sync, RowsTyped, ZLMTyped, rowVars, zlmVars
  <2> QED BY <2>1, <2>2, <2>3
<1>2. CASE Save(w)
  <2>1. Places' /\ Locals'
    BY <1>2, ReturnMoves, ReturnLocals, MovePlaces, StepNames DEF Save
  <2>2. RowsTyped'
    BY <1>2 DEF Save, RowsTyped, Locals
  <2>3. ZLMTyped' /\ MarksTyped'
    BY <1>2 DEF Save, ZLMTyped, MarksTyped, zlmVars, markVars, boundVars
  <2> QED BY <2>1, <2>2, <2>3
<1>3. CASE Show(w)
  <2>1. PICK active \in BOOLEAN :
          Answer(active) /\ IF active THEN Goto(w, "shown") /\ UNCHANGED localVars ELSE Return(w)
    BY <1>3 DEF Show
  <2>2. Places' /\ Locals'
    <3>1. CASE active
      BY <1>3, <2>1, <3>1 DEF Show, Goto, Places, Locals, localVars, Steps
    <3>2. CASE ~active
      BY <2>1, <3>2, ReturnMoves, ReturnLocals, MovePlaces, StepNames
    <3> QED BY <3>1, <3>2
  <2>3. MarksTyped'
    BY <1>3, <2>1, AnswerTyped DEF Show, MarksTyped, markVars
  <2>4. RowsTyped' /\ ZLMTyped'
    BY <1>3 DEF Show, RowsTyped, ZLMTyped, rowVars, zlmVars
  <2> QED BY <2>2, <2>3, <2>4
<1>4. CASE Shown(w)
  <2>1. Places' /\ Locals'
    BY <1>4, ReturnMoves, ReturnLocals, MovePlaces, StepNames DEF Shown
  <2>2. RowsTyped'
    BY <1>4 DEF Shown, RowsTyped, Statuses
  <2>3. ZLMTyped' /\ MarksTyped'
    BY <1>4 DEF Shown, ZLMTyped, MarksTyped, zlmVars, markVars, boundVars
  <2> QED BY <2>1, <2>2, <2>3
<1>5. CASE DeleteProxy(w)
  <2>1. Places' /\ Locals'
    BY <1>5 DEF DeleteProxy, Goto, Places, Locals, localVars, Steps
  <2>2. ZLMTyped'
    BY <1>5, DropTyped DEF DeleteProxy
  <2>3. RowsTyped' /\ MarksTyped'
    BY <1>5 DEF DeleteProxy, RowsTyped, MarksTyped, rowVars, markVars, boundVars
  <2> QED BY <2>1, <2>2, <2>3
<1>6. CASE DeleteProxyFails(w)
  <2>1. Places' /\ Locals'
    BY <1>6, ReturnMoves, ReturnLocals, MovePlaces, StepNames DEF DeleteProxyFails
  <2>2. ZLMTyped'
    <3>1. CASE proxy' = NoUrl /\ Drop
      BY <1>6, <3>1, DropTyped DEF DeleteProxyFails
    <3>2. CASE UNCHANGED <<proxy, up, hooks>>
      BY <1>6, <3>2 DEF DeleteProxyFails, ZLMTyped
    <3> QED BY <1>6, <3>1, <3>2 DEF DeleteProxyFails
  <2>3. RowsTyped' /\ MarksTyped'
    BY <1>6, PullAssumption DEF DeleteProxyFails, Fault, RowsTyped, MarksTyped, rowVars, markVars
  <2> QED BY <2>1, <2>2, <2>3
<1>7. CASE DeleteRows(w)
  <2>1. Places' /\ Locals'
    BY <1>7, ReturnMoves, ReturnLocals, MovePlaces, StepNames DEF DeleteRows
  <2>2. RowsTyped'
    BY <1>7 DEF DeleteRows, RowsTyped, Statuses
  <2>3. ZLMTyped' /\ MarksTyped'
    BY <1>7 DEF DeleteRows, ZLMTyped, MarksTyped, zlmVars, markVars, boundVars
  <2> QED BY <2>1, <2>2, <2>3
<1> QED BY <1>1, <1>2, <1>3, <1>4, <1>5, <1>6, <1>7 DEF Serve

\* The steps of the heal keep it.
LEMMA HealTypes ==
  ASSUME Inv, NEW w \in Workers, Heal(w)
  PROVE  Inv'
<1> USE DEF Inv
<1>1. CASE Load(w)
  <2>1. Places' /\ Locals'
    BY <1>1, Caller DEF Load, Goto, Places, Locals, RowsTyped, OriginURL, Steps
  <2>2. RowsTyped' /\ ZLMTyped' /\ MarksTyped'
    BY <1>1 DEF Load, RowsTyped, ZLMTyped, MarksTyped, rowVars, zlmVars, markVars, boundVars
  <2> QED BY <2>1, <2>2
<1>2. CASE Active(w)
  <2>1. Places' /\ Locals'
    <3>1. CASE FailAttempt(w)
      BY <1>2, <3>1, Caller, FailMoves, MovePlaces, StepNames DEF Active
    <3>2. CASE Goto(w, IF up THEN "end" ELSE "lock") /\ UNCHANGED localVars
      BY <1>2, <3>2, Caller DEF Active, Goto, Places, Locals, localVars, Steps
    <3> QED BY <1>2, <3>1, <3>2 DEF Active
  <2>2. MarksTyped'
    BY <1>2, PullAssumption DEF Active, Fault, MarksTyped, markVars
  <2>3. RowsTyped' /\ ZLMTyped'
    BY <1>2 DEF Active, RowsTyped, ZLMTyped, rowVars, zlmVars
  <2> QED BY <2>1, <2>2, <2>3
<1>3. CASE HealRow(w)
  <2>1. Places' /\ Locals'
    BY <1>3 DEF HealRow, Goto, Places, Locals, localVars, Steps
  <2>2. RowsTyped'
    BY <1>3 DEF HealRow, RowsTyped, Locals
  <2>3. ZLMTyped' /\ MarksTyped'
    BY <1>3 DEF HealRow, ZLMTyped, MarksTyped, zlmVars, markVars, boundVars
  <2> QED BY <2>1, <2>2, <2>3
<1>4. CASE End(w)
  <2>1. Places' /\ Locals'
    <3>1. CASE Return(w)
      BY <3>1, ReturnMoves, ReturnLocals, MovePlaces, StepNames
    <3>2. CASE /\ \E s \in {"load", "list"} : Goto(w, s)
               /\ \E o \in {"heal", "recover"} : op' = [op EXCEPT ![w] = o]
               /\ attempt' = [attempt EXCEPT ![w] = 1] /\ UNCHANGED <<addr, seen>>
      BY <3>2, PullAssumption, StepNames DEF Goto, Places, Locals, Callers
    <3> QED BY <1>4, <3>1, <3>2 DEF End
  <2>2. RowsTyped' /\ ZLMTyped' /\ MarksTyped'
    BY <1>4 DEF End, RowsTyped, ZLMTyped, MarksTyped, rowVars, zlmVars, boundVars
  <2> QED BY <2>1, <2>2
<1> QED BY <1>1, <1>2, <1>3, <1>4 DEF Heal

\* The steps of the recoveries keep it.
LEMMA RecoverTypes ==
  ASSUME Inv, NEW w \in Workers, Recover(w)
  PROVE  Inv'
<1> USE DEF Inv
<1>1. CASE Correct(w)
  <2>1. Places' /\ Locals'
    BY <1>1, Caller DEF Correct, Goto, Places, Locals, localVars, Steps, Statuses
  <2>2. MarksTyped'
    BY <1>1, PullAssumption DEF Correct, Fault, MarksTyped, markVars
  <2>3. RowsTyped' /\ ZLMTyped'
    BY <1>1 DEF Correct, RowsTyped, ZLMTyped, rowVars, zlmVars
  <2> QED BY <2>1, <2>2, <2>3
<1>2. CASE CorrectRow(w)
  <2>1. Places' /\ Locals'
    BY <1>2 DEF CorrectRow, Goto, Places, Locals, localVars, Steps
  <2>2. RowsTyped'
    BY <1>2 DEF CorrectRow, RowsTyped, Locals
  <2>3. ZLMTyped' /\ MarksTyped'
    BY <1>2 DEF CorrectRow, ZLMTyped, MarksTyped, zlmVars, markVars, boundVars
  <2> QED BY <2>1, <2>2, <2>3
<1>3. CASE List(w)
  <2>1. Places' /\ Locals'
    BY <1>3, Caller DEF List, Goto, Places, Locals, RowsTyped, OriginURL, Steps
  <2>2. RowsTyped' /\ ZLMTyped' /\ MarksTyped'
    BY <1>3 DEF List, RowsTyped, ZLMTyped, MarksTyped, rowVars, zlmVars, markVars, boundVars
  <2> QED BY <2>1, <2>2
<1>4. CASE Confirm(w)
  <2>1. Places' /\ Locals'
    BY <1>4 DEF Confirm, Goto, Places, Locals, Steps, Statuses
  <2>2. MarksTyped'
    BY <1>4, AnswerTyped DEF Confirm, MarksTyped, markVars
  <2>3. RowsTyped' /\ ZLMTyped'
    BY <1>4 DEF Confirm, RowsTyped, ZLMTyped, rowVars, zlmVars
  <2> QED BY <2>1, <2>2, <2>3
<1>5. CASE RecoverRow(w)
  <2>1. Places' /\ Locals'
    BY <1>5 DEF RecoverRow, Goto, Places, Locals, localVars, Steps
  <2>2. RowsTyped'
    BY <1>5 DEF RecoverRow, RowsTyped, Locals
  <2>3. ZLMTyped' /\ MarksTyped'
    BY <1>5 DEF RecoverRow, ZLMTyped, MarksTyped, zlmVars, markVars, boundVars
  <2> QED BY <2>1, <2>2, <2>3
<1> QED BY <1>1, <1>2, <1>3, <1>4, <1>5 DEF Recover

\* An operation begins, at one of its first steps.
LEMMA BeginPlaces ==
  ASSUME Places, NEW w \in Workers, NEW o \in Ops, NEW s \in Steps,
         pc' = [pc EXCEPT ![w] = s], op' = [op EXCEPT ![w] = o], o \in Callers \/ s = "delproxy"
  PROVE  Places'
  BY DEF Places

\* A request begins at a step of its operation.
LEMMA RequestTypes ==
  ASSUME Inv, NEW t, NEW o, NEW s \in Steps, NEW a \in Urls \cup {NoUrl}, Request(t, o, s, a),
         o \in Callers \/ (o = "delete" /\ s = "delproxy"),
         seen' = seen \/ seen' = [seen EXCEPT ![t] = status], UNCHANGED attempt
  PROVE  /\ t \in Workers /\ Places' /\ Locals'
         /\ requests' \in Nat /\ UNCHANGED <<breaks, faults>> /\ calm' \in {"yes", "maybe", "no"}
<1>1. t \in Workers
  BY DEF Request, Workers
<1>2. pc' = [pc EXCEPT ![t] = s] /\ op' = [op EXCEPT ![t] = o] /\ addr' = [addr EXCEPT ![t] = a]
  BY DEF Request, Begin, Goto
<1>3. o \in Ops
  BY StepNames DEF Ops
<1>4. Places'
  BY <1>1, <1>2, <1>3, BeginPlaces DEF Inv
<1>5. Locals'
  BY <1>1, <1>2 DEF Inv, Locals, RowsTyped
<1>6. requests' \in Nat /\ UNCHANGED <<breaks, faults>> /\ calm' \in {"yes", "maybe", "no"}
  BY PullAssumption DEF Request, CountRequest, Begin, Inv, MarksTyped
<1> QED BY <1>1, <1>4, <1>5, <1>6

\* Whatever arrives keeps it.
LEMMA ArriveTypes ==
  ASSUME Inv, Arrive
  PROVE  Inv'
<1> USE DEF Inv
<1>1. ASSUME NEW t \in Threads, NEW u \in Urls, BeginCreate(t, u)
      PROVE  Inv'
  <2>1. Request(t, "create", "lock", u) /\ UNCHANGED <<seen, attempt>>
    BY <1>1 DEF BeginCreate
  <2>2. /\ Places' /\ Locals' /\ requests' \in Nat /\ UNCHANGED <<breaks, faults>>
        /\ calm' \in {"yes", "maybe", "no"}
    <3>1. "create" \in Callers /\ "lock" \in Steps
      BY StepNames DEF Callers
    <3> HIDE DEF Inv
    <3> QED BY <2>1, <3>1, RequestTypes
  <2>3. MarksTyped'
    BY <1>1, <2>2 DEF BeginCreate, Join, MarksTyped, markVars
  <2>4. RowsTyped' /\ ZLMTyped'
    BY <1>1 DEF BeginCreate, RowsTyped, ZLMTyped, zlmVars
  <2> QED BY <2>2, <2>3, <2>4
<1>2. ASSUME NEW t \in Threads, NEW u \in Urls, BeginEdit(t, u)
      PROVE  Inv'
  <2>1. /\ Request(t, "edit", "lock", u) /\ UNCHANGED attempt
        /\ seen' = [seen EXCEPT ![t] = status]
    BY <1>2 DEF BeginEdit
  <2>2. /\ Places' /\ Locals' /\ requests' \in Nat /\ UNCHANGED <<breaks, faults>>
        /\ calm' \in {"yes", "maybe", "no"}
    <3>1. "edit" \in Callers /\ "lock" \in Steps
      BY StepNames DEF Callers
    <3> HIDE DEF Inv
    <3> QED BY <2>1, <3>1, RequestTypes
  <2>3. MarksTyped'
    BY <1>2, <2>2 DEF BeginEdit, Join, MarksTyped, markVars
  <2>4. RowsTyped' /\ ZLMTyped'
    BY <1>2 DEF BeginEdit, RowsTyped, ZLMTyped, rowVars, zlmVars
  <2> QED BY <2>2, <2>3, <2>4
<1>3. ASSUME NEW t \in Threads, NEW o \in {"preview", "snapshot"}, BeginPreview(t, o)
      PROVE  Inv'
  <2>1. Request(t, o, "lock", OriginURL) /\ UNCHANGED <<seen, attempt>>
    BY <1>3 DEF BeginPreview
  <2>2. OriginURL \in Urls \cup {NoUrl}
    BY DEF OriginURL, RowsTyped
  <2>3. /\ Places' /\ Locals' /\ requests' \in Nat /\ UNCHANGED <<breaks, faults>>
        /\ calm' \in {"yes", "maybe", "no"}
    <3>1. o \in Callers /\ "lock" \in Steps
      BY StepNames DEF Callers
    <3> HIDE DEF Inv
    <3> QED BY <2>1, <2>2, <3>1, RequestTypes
  <2>4. MarksTyped'
    BY <1>3, <2>3 DEF BeginPreview, Join, MarksTyped, markVars
  <2>5. RowsTyped' /\ ZLMTyped'
    BY <1>3 DEF BeginPreview, RowsTyped, ZLMTyped, rowVars, zlmVars
  <2> QED BY <2>3, <2>4, <2>5
<1>4. ASSUME NEW t \in Threads, BeginDelete(t)
      PROVE  Inv'
  <2>1. Request(t, "delete", "delproxy", NoUrl) /\ UNCHANGED <<seen, attempt>>
    BY <1>4 DEF BeginDelete
  <2>2. Places' /\ Locals' /\ MarksTyped'
    BY <1>4, <2>1, RequestTypes, StepNames DEF BeginDelete, MarksTyped, markVars
  <2>3. RowsTyped' /\ ZLMTyped'
    BY <1>4 DEF BeginDelete, RowsTyped, ZLMTyped, rowVars, zlmVars
  <2> QED BY <2>2, <2>3
<1>5. ASSUME NEW i \in 1 .. Len(hooks), HandleStreamChanged(i)
      PROVE  Inv'
  <2>1. Places' /\ Locals' /\ RowsTyped'
    BY <1>5 DEF HandleStreamChanged, Places, Locals, localVars, RowsTyped, Statuses
  <2>2. ZLMTyped'
    BY <1>5, ReceiveTyped DEF HandleStreamChanged, ZLMTyped
  <2>3. MarksTyped'
    BY <1>5 DEF HandleStreamChanged, MarksTyped, markVars, boundVars
  <2> QED BY <2>1, <2>2, <2>3
<1>6. ASSUME NEW i \in 1 .. Len(hooks), HandleServerStarted(i)
      PROVE  Inv'
  <2>1. \/ Begin(Recoverer, "recover", "list", NoUrl, hooks') /\ Join
        \/ UNCHANGED <<pc, op, addr, final>> /\ calm' = "no"
    BY <1>6 DEF HandleServerStarted
  <2>2. Recoverer \in Workers /\ "list" \in Steps /\ "recover" \in Ops /\ "recover" \in Callers
    BY StepNames DEF Workers, Callers
  <2>3. Places'
    <3>1. CASE Begin(Recoverer, "recover", "list", NoUrl, hooks')
      BY <2>2, <3>1, BeginPlaces DEF Begin, Goto
    <3>2. CASE UNCHANGED <<pc, op>>
      BY <3>2 DEF Places
    <3> QED BY <2>1, <3>1, <3>2
  <2>4. Locals' /\ RowsTyped'
    BY <1>6, <2>1, <2>2 DEF HandleServerStarted, Begin, Locals, RowsTyped, Statuses
  <2>5. ZLMTyped'
    BY <1>6, ReceiveTyped DEF HandleServerStarted, ZLMTyped
  <2>6. MarksTyped'
    BY <1>6, <2>1 DEF HandleServerStarted, Begin, Join, MarksTyped, boundVars
  <2> QED BY <2>3, <2>4, <2>5, <2>6
<1> QED BY <1>1, <1>2, <1>3, <1>4, <1>5, <1>6 DEF Arrive

\* The world keeps it.
LEMMA EnvironmentTypes ==
  ASSUME Inv, Environment
  PROVE  Inv'
<1> USE DEF Inv
<1>1. ASSUME NEW u \in Urls, CameraFails(u) \/ CameraReturns(u)
      PROVE  Inv'
  <2>1. Places' /\ Locals' /\ RowsTyped'
    BY <1>1 DEF CameraFails, CameraReturns, Places, Locals, RowsTyped, localVars, rowVars
  <2>2. CASE CameraFails(u)
    <3>1. ZLMTyped'
      BY <2>2, HooksGrow DEF CameraFails, Drop, ZLMTyped
    <3>2. MarksTyped'
      BY <2>2, PullAssumption DEF CameraFails, Disturb, MarksTyped, markVars
    <3> QED BY <2>1, <3>1, <3>2
  <2>3. CASE CameraReturns(u)
    <3>1. ZLMTyped' /\ MarksTyped'
      BY <2>3 DEF CameraReturns, ZLMTyped, MarksTyped, markVars, boundVars
    <3> QED BY <2>1, <3>1
  <2> QED BY <1>1, <2>2, <2>3
<1>2. CASE Reconnect \/ GiveUp
  <2>1. Places' /\ Locals' /\ RowsTyped'
    BY <1>2 DEF Reconnect, GiveUp, Places, Locals, RowsTyped, localVars, rowVars
  <2>2. ZLMTyped'
    <3>1. CASE Reconnect
      BY <3>1, HooksGrow, PullAssumption DEF Reconnect, Emit, ZLMTyped
    <3>2. CASE GiveUp
      BY <3>2 DEF GiveUp, ZLMTyped
    <3> QED BY <1>2, <3>1, <3>2
  <2>3. MarksTyped'
    BY <1>2 DEF Reconnect, GiveUp, Disturb, MarksTyped, markVars, boundVars
  <2> QED BY <2>1, <2>2, <2>3
<1>3. CASE ZLMRestart \/ LoseHook
  <2>1. Places' /\ Locals' /\ RowsTyped'
    BY <1>3 DEF ZLMRestart, LoseHook, Places, Locals, RowsTyped, localVars, rowVars
  <2>2. ZLMTyped'
    <3>1. CASE ZLMRestart
      BY <3>1, HooksGrow DEF ZLMRestart, ZLMTyped
    <3>2. CASE LoseHook
      BY <3>2, HooksGrow DEF LoseHook, ZLMTyped
    <3> QED BY <1>3, <3>1, <3>2
  <2>3. MarksTyped'
    BY <1>3, PullAssumption DEF ZLMRestart, LoseHook, Fault, Disturb, MarksTyped, markVars
  <2> QED BY <2>1, <2>2, <2>3
<1>4. CASE StartAnalysis \/ StopAnalysis
  <2>1. Places' /\ Locals'
    BY <1>4 DEF StartAnalysis, StopAnalysis, Places, Locals, localVars
  <2>2. RowsTyped'
    BY <1>4 DEF StartAnalysis, StopAnalysis, RowsTyped
  <2>3. ZLMTyped'
    BY <1>4 DEF StartAnalysis, StopAnalysis, ZLMTyped, zlmVars
  <2>4. MarksTyped'
    BY <1>4, PullAssumption DEF StartAnalysis, StopAnalysis, CountRequest, Disturb, MarksTyped, markVars, boundVars
  <2> QED BY <2>1, <2>2, <2>3, <2>4
<1>5. CASE StreamNotFound
  <2>1. \/ Begin(Healer, "heal", "load", NoUrl, hooks) /\ Join /\ UNCHANGED healPending
        \/ healPending' = TRUE /\ UNCHANGED <<pc, op, addr, calm, final>>
    BY <1>5 DEF StreamNotFound
  <2>2. Healer \in Workers /\ "load" \in Steps /\ "heal" \in Ops /\ "heal" \in Callers
    BY StepNames DEF Workers, Callers
  <2>3. Places'
    <3>1. CASE Begin(Healer, "heal", "load", NoUrl, hooks)
      BY <2>2, <3>1, BeginPlaces DEF Begin, Goto
    <3>2. CASE UNCHANGED <<pc, op>>
      BY <3>2 DEF Places
    <3> QED BY <2>1, <3>1, <3>2
  <2>4. Locals' /\ RowsTyped' /\ ZLMTyped'
    BY <1>5, <2>1, <2>2 DEF StreamNotFound, Begin, Locals, RowsTyped, ZLMTyped, rowVars, zlmVars
  <2>5. MarksTyped'
    <3>1. requests' \in Nat /\ breaks' \in Nat /\ faults' \in Nat
      BY <1>5, PullAssumption DEF StreamNotFound, CountRequest, MarksTyped
    <3>2. calm' \in {"yes", "maybe", "no"} /\ final' \in {"yes", "maybe", "no"}
      BY <2>1 DEF Begin, Join, MarksTyped
    <3>3. lock' \in Workers \cup {Free} /\ recoverPending' \in BOOLEAN
      BY <1>5 DEF StreamNotFound, MarksTyped
    <3>4. healPending' \in BOOLEAN
      BY <2>1 DEF MarksTyped
    <3> QED BY <3>1, <3>2, <3>3, <3>4 DEF MarksTyped
  <2> QED BY <2>3, <2>4, <2>5
<1>6. CASE Crash
  <2>1. "correct" \in Steps /\ "startup" \in Ops /\ "startup" \in Callers /\ "none" \in Ops /\ "idle" \in Steps
    BY StepNames DEF Callers, Ops
  <2>2. Places'
    BY <1>6, <2>1 DEF Crash, Places
  <2>3. Locals' /\ RowsTyped'
    BY <1>6, PullAssumption DEF Crash, Locals, RowsTyped, Statuses, rowVars
  <2>4. ZLMTyped'
    BY <1>6, HooksGrow DEF Crash, ZLMTyped
  <2>5. MarksTyped'
    <3>1. requests' \in Nat /\ breaks' \in Nat /\ faults' \in Nat
      BY <1>6, PullAssumption DEF Crash, MarksTyped
    <3>2. calm' \in {"yes", "maybe", "no"} /\ final' \in {"yes", "maybe", "no"}
      BY <1>6 DEF Crash, Join, MarksTyped
    <3> QED BY <1>6, <3>1, <3>2 DEF Crash, MarksTyped
  <2> QED BY <2>2, <2>3, <2>4, <2>5
<1> QED BY <1>1, <1>2, <1>3, <1>4, <1>5, <1>6 DEF Environment

\* Every step keeps it.
LEMMA NextInv == Inv /\ [Next]_vars => Inv'
<1> SUFFICES ASSUME Inv, [Next]_vars PROVE Inv'
  OBVIOUS
<1>1. CASE Next
  BY <1>1, EnvironmentTypes, ArriveTypes, EnsureTypes, ServeTypes, HealTypes, RecoverTypes DEF Next, Work
<1>2. CASE UNCHANGED vars
  BY <1>2 DEF vars, Inv, Places, Locals, RowsTyped, ZLMTyped, MarksTyped,
              rowVars, zlmVars, markVars, localVars, boundVars
<1> QED BY <1>1, <1>2

\* Every goroutine is at a step of its operation, throughout.
LEMMA AlwaysInv == Spec => []Inv
  BY InitInv, NextInv, PTL DEF Spec

\* Rows, ZLM and goroutines keep their types, and nobody holds on to a step that is
\* not one of its operation.
THEOREM TypeCorrect == Spec => []TypeOK
  BY AlwaysInv, InvTypes, PTL

-----------------------------------------------------------------------------
(* The lock.                                                               *)

\* Who is between the steps of ensureZLMProxy holds the lock.
LockInv == \A w \in Workers : pc[w] \in Guarded => lock = w

\* w moves to a step outside the lock, and gives it back only if it had it.
LEMMA LockLeft ==
  ASSUME Places, LockInv, NEW w \in Workers, NEW s, s \notin Guarded,
         pc' = [pc EXCEPT ![w] = s], lock' = lock \/ pc[w] \in Guarded
  PROVE  LockInv'
  BY DEF Places, LockInv

\* w moves on under the lock.
LEMMA LockHeld ==
  ASSUME Places, LockInv, NEW w \in Workers, NEW s, pc[w] \in Guarded,
         pc' = [pc EXCEPT ![w] = s], lock' = lock
  PROVE  LockInv'
  BY DEF Places, LockInv

\* Who leaves the guarded steps gives the lock back, or had not got it.
LEMMA MoveLeft ==
  ASSUME Places, LockInv, NEW w \in Workers, NEW S, S \cap Guarded = {}, Moves(w, S),
         lock' = lock \/ pc[w] \in Guarded
  PROVE  LockInv'
<1>1. PICK s \in S : pc' = [pc EXCEPT ![w] = s]
  BY DEF Moves
<1> QED BY <1>1, LockLeft

\* Inside ensureZLMProxy the lock is held, by one.
LEMMA EnsureLock ==
  ASSUME Inv, LockInv, NEW w \in Workers, Lock(w) \/ Ensure(w)
  PROVE  LockInv'
<1> USE DEF Inv
<1>1. CASE Lock(w)
  BY <1>1, PullAssumption DEF Lock, Goto, Places, LockInv, Workers
<1>2. CASE pc[w] \in Guarded
  <2>1. op[w] \in Callers
    BY <1>2, Caller DEF Guarded
  <2>2. CASE Proceed(w)
    BY <1>2, <2>1, <2>2, ProceedMoves, MoveLeft DEF Guarded
  <2>3. CASE FailAttempt(w)
    BY <1>2, <2>3, FailMoves, MoveLeft DEF Guarded
  <2>4. CASE lock' = lock /\ \E s \in {"add", "recheck"} : Goto(w, s)
    BY <1>2, <2>4, LockHeld DEF Goto
  <2>5. Proceed(w) \/ FailAttempt(w) \/ (lock' = lock /\ \E s \in {"add", "recheck"} : Goto(w, s)) \/ Lock(w)
    BY DEF Ensure, Check, Add, AddReplyLost, Recheck
  <2> QED BY <1>1, <2>2, <2>3, <2>4, <2>5
<1>3. Lock(w) \/ pc[w] \in Guarded
  BY DEF Ensure, Check, Add, AddReplyLost, Recheck, Guarded
<1> QED BY <1>1, <1>2, <1>3

\* All other work is done without the lock.
LEMMA WorkLock ==
  ASSUME Inv, LockInv, NEW w \in Workers, Serve(w) \/ Heal(w) \/ Recover(w)
  PROVE  LockInv'
<1> USE DEF Inv
<1>1. lock' = lock
  BY DEF Serve, Sync, Save, Show, Shown, DeleteProxy, DeleteProxyFails, DeleteRows,
         Heal, Load, Active, HealRow, End, Recover, Correct, CorrectRow, List, Confirm, RecoverRow
<1>2. CASE FailAttempt(w)
  BY <1>1, <1>2, FailMoves, MoveLeft DEF Guarded
<1>3. CASE \E s \in Steps \ Guarded : pc' = [pc EXCEPT ![w] = s]
  BY <1>1, <1>3, LockLeft
<1>4. CASE Serve(w)
  <2>1. \E s \in {"save", "idle", "shown", "delrow"} : pc' = [pc EXCEPT ![w] = s]
    BY <1>4 DEF Serve, Sync, Save, Show, Shown, DeleteProxy, DeleteProxyFails, DeleteRows, Goto, Return
  <2> QED BY <1>3, <2>1 DEF Steps, Guarded
<1>5. CASE Heal(w)
  <2>1. \/ FailAttempt(w)
        \/ \E s \in {"active", "end", "lock", "load", "list", "idle"} : pc' = [pc EXCEPT ![w] = s]
    BY <1>5 DEF Heal, Load, Active, HealRow, End, Goto, Return
  <2> QED BY <1>2, <1>3, <2>1 DEF Steps, Guarded
<1>6. CASE Recover(w)
  <2>1. \E s \in {"correctrow", "list", "lock", "end", "row"} : pc' = [pc EXCEPT ![w] = s]
    BY <1>6 DEF Recover, Correct, CorrectRow, List, Confirm, RecoverRow, Goto
  <2> QED BY <1>3, <2>1 DEF Steps, Guarded
<1> QED BY <1>4, <1>5, <1>6

\* What arrives, and the world outside, touch the lock only in a crash.
LEMMA OtherLock ==
  ASSUME Inv, LockInv, Arrive \/ Environment
  PROVE  LockInv'
<1> USE DEF Inv
<1>1. CASE Crash
  BY <1>1 DEF Crash, LockInv, Guarded
<1>2. CASE UNCHANGED <<pc, lock>>
  BY <1>2 DEF LockInv
<1>3. CASE lock' = lock /\ \E w \in Workers, s \in {"lock", "delproxy", "load", "list"} :
                             pc' = [pc EXCEPT ![w] = s]
  BY <1>3, LockLeft DEF Guarded
<1>4. CASE Arrive
  <2>1. ASSUME NEW t \in Threads, NEW u \in Urls, BeginCreate(t, u) \/ BeginEdit(t, u)
        PROVE  lock' = lock /\ pc' = [pc EXCEPT ![t] = "lock"]
    BY <2>1 DEF BeginCreate, BeginEdit, Request, Begin, Goto
  <2>2. ASSUME NEW t \in Threads, NEW o \in {"preview", "snapshot"}, BeginPreview(t, o)
        PROVE  lock' = lock /\ pc' = [pc EXCEPT ![t] = "lock"]
    BY <2>2 DEF BeginPreview, Request, Begin, Goto
  <2>3. ASSUME NEW t \in Threads, BeginDelete(t)
        PROVE  lock' = lock /\ pc' = [pc EXCEPT ![t] = "delproxy"]
    BY <2>3 DEF BeginDelete, Request, Begin, Goto
  <2>4. ASSUME NEW i \in 1 .. Len(hooks), HandleStreamChanged(i) \/ HandleServerStarted(i)
        PROVE  lock' = lock /\ (pc' = pc \/ pc' = [pc EXCEPT ![Recoverer] = "list"])
    BY <2>4 DEF HandleStreamChanged, HandleServerStarted, Begin, Goto
  <2>5. Recoverer \in Workers /\ Threads \subseteq Workers
    BY DEF Workers
  <2> QED BY <1>2, <1>3, <1>4, <2>1, <2>2, <2>3, <2>4, <2>5 DEF Arrive
<1>5. CASE Environment
  <2>1. \/ Crash
        \/ UNCHANGED <<pc, lock>>
        \/ lock' = lock /\ pc' = [pc EXCEPT ![Healer] = "load"]
    BY <1>5 DEF Environment, CameraFails, CameraReturns, Reconnect, GiveUp, ZLMRestart, LoseHook,
                StartAnalysis, StopAnalysis, StreamNotFound, Begin, Goto
  <2>2. Healer \in Workers
    BY DEF Workers
  <2> QED BY <1>1, <1>2, <1>3, <2>1, <2>2
<1> QED BY <1>4, <1>5

\* Every step keeps the lock with who is inside.
LEMMA LockStep == Inv /\ LockInv /\ [Next]_vars => LockInv'
<1> SUFFICES ASSUME Inv, LockInv, [Next]_vars PROVE LockInv'
  OBVIOUS
<1>1. CASE Next
  BY <1>1, EnsureLock, WorkLock, OtherLock DEF Next, Work
<1>2. CASE UNCHANGED vars
  BY <1>2 DEF vars, LockInv
<1> QED BY <1>1, <1>2

\* Whoever is inside ensureZLMProxy holds the lock, throughout.
LEMMA AlwaysLock == Spec => [](Inv /\ LockInv)
<1>1. Init => LockInv
  BY DEF Init, LockInv, Guarded
<1> QED BY <1>1, LockStep, AlwaysInv, PTL DEF Spec

\* Only addStreamProxy makes a proxy.
LEMMA WhoAdds ==
  ASSUME Inv, [Next]_vars, proxy = NoUrl, proxy' # NoUrl
  PROVE  \E w \in Workers : Add(w) \/ AddReplyLost(w)
<1>1. ASSUME NEW w \in Workers, Lock(w) \/ Work(w)
      PROVE  Add(w) \/ AddReplyLost(w)
  BY <1>1 DEF Lock, Work, Ensure, Check, Recheck, Serve, Sync, Save, Show, Shown, DeleteProxy,
              DeleteProxyFails, DeleteRows, Heal, Load, Active, HealRow, End, Recover, Correct,
              CorrectRow, List, Confirm, RecoverRow, zlmVars
<1>2. ~Arrive
  BY DEF Arrive, BeginCreate, BeginEdit, BeginPreview, BeginDelete, HandleStreamChanged,
         HandleServerStarted, zlmVars
<1>3. ~Environment
  BY DEF Environment, CameraFails, CameraReturns, Reconnect, GiveUp, ZLMRestart, LoseHook,
         StartAnalysis, StopAnalysis, StreamNotFound, Crash, zlmVars
<1>4. ~UNCHANGED vars
  BY DEF vars, zlmVars
<1> QED BY <1>1, <1>2, <1>3, <1>4 DEF Next

\* Of those who asked ZLM and found no stream, only one makes the proxy: when it does,
\* nobody else is still about to (the lock of ensureZLMProxy).
THEOREM OnlyOneAdds == Spec => OneAdds
<1>1. ASSUME Inv, LockInv, [Next]_vars, proxy = NoUrl, proxy' # NoUrl,
             NEW w \in Workers, pc[w] = "add"
      PROVE  pc'[w] # "add"
  <2>1. PICK v \in Workers : Add(v) \/ AddReplyLost(v)
    BY <1>1, WhoAdds
  <2>2. pc[v] = "add"
    BY <2>1 DEF Add, AddReplyLost
  <2>3. v = w
    BY <1>1, <2>2 DEF LockInv, Guarded
  <2>4. op[v] \in Callers
    BY <1>1, <2>2, Caller DEF Inv
  <2>5. CASE Proceed(v)
    BY <1>1, <2>3, <2>4, <2>5, ProceedMoves DEF Inv, Places, Moves
  <2>6. CASE Goto(v, "recheck")
    BY <1>1, <2>3, <2>6 DEF Inv, Places, Goto
  <2> QED BY <2>1, <2>5, <2>6 DEF Add, AddReplyLost
<1>2. Inv /\ LockInv /\ [Next]_vars
        => [proxy = NoUrl /\ proxy' # NoUrl => \A w \in Workers : pc[w] = "add" => pc'[w] # "add"]_vars
  BY <1>1
<1> QED BY <1>2, AlwaysLock, PTL DEF Spec, OneAdds

-----------------------------------------------------------------------------
(* Deletion.                                                               *)

\* The steps of a recovery that finds no source.
Passing == {"correct", "correctrow", "list", "end"}

\* There is no source, and nobody works on one.
Quiet ==
  /\ ~exists
  /\ \A w \in Workers : pc[w] = "idle" \/ (w = Recoverer /\ pc[w] \in Passing)

\* Only t works, and it deletes.
Deleting(t) ==
  /\ \A w \in Workers \ {t} : pc[w] = "idle"
  /\ pc[t] \in {"idle", "delproxy", "delrow"}
  /\ pc[t] = "delrow" => proxy = NoUrl

\* The source is created once.
FinalInv ==
  /\ fresh => Quiet
  /\ final = "maybe" => ~fresh /\ \E t \in Threads : Deleting(t)
  /\ final = "yes" => ~fresh /\ Quiet /\ proxy = NoUrl

\* An id that has been used is not new again.
LEMMA FreshStays == [Next]_vars /\ fresh' => fresh
<1> SUFFICES ASSUME [Next]_vars, fresh' PROVE fresh
  OBVIOUS
<1>1. ASSUME NEW w \in Workers, Lock(w) \/ Work(w)
      PROVE  fresh' = fresh
  BY <1>1 DEF Lock, Work, Ensure, Check, Add, AddReplyLost, Recheck, Serve, Sync, Save, Show, Shown,
              DeleteProxy, DeleteProxyFails, DeleteRows, Heal, Load, Active, HealRow, End, Recover,
              Correct, CorrectRow, List, Confirm, RecoverRow, rowVars
<1>2. Arrive => fresh' = fresh \/ ~fresh'
  BY DEF Arrive, BeginCreate, BeginEdit, BeginPreview, BeginDelete, HandleStreamChanged,
         HandleServerStarted, rowVars
<1>3. Environment => fresh' = fresh
  BY DEF Environment, CameraFails, CameraReturns, Reconnect, GiveUp, ZLMRestart, LoseHook,
         StartAnalysis, StopAnalysis, StreamNotFound, Crash, rowVars
<1>4. UNCHANGED vars => fresh' = fresh
  BY DEF vars, rowVars
<1> QED BY <1>1, <1>2, <1>3, <1>4 DEF Next

\* A goroutine that is idle does nothing, ...
LEMMA IdleRests ==
  ASSUME NEW w \in Workers, Lock(w) \/ Work(w)
  PROVE  pc[w] # "idle"
  BY DEF Lock, Work, Ensure, Check, Add, AddReplyLost, Recheck, Serve, Sync, Save, Show, Shown,
         DeleteProxy, DeleteProxyFails, DeleteRows, Heal, Load, Active, HealRow, End, Recover,
         Correct, CorrectRow, List, Confirm, RecoverRow

\* ... one that deletes has these steps, ...
LEMMA DeleterSteps ==
  ASSUME NEW w \in Workers, Lock(w) \/ Work(w), pc[w] \in {"delproxy", "delrow"}
  PROVE  DeleteProxy(w) \/ DeleteProxyFails(w) \/ DeleteRows(w)
  BY DEF Lock, Work, Ensure, Check, Add, AddReplyLost, Recheck, Serve, Sync, Save, Show, Shown,
         Heal, Load, Active, HealRow, End, Recover, Correct, CorrectRow, List, Confirm, RecoverRow

\* ... and one that passes has those.
LEMMA PasserSteps ==
  ASSUME NEW w \in Workers, Lock(w) \/ Work(w), pc[w] \in Passing
  PROVE  Correct(w) \/ CorrectRow(w) \/ List(w) \/ End(w)
  BY DEF Passing, Lock, Work, Ensure, Check, Add, AddReplyLost, Recheck, Serve, Sync, Save, Show,
         Shown, DeleteProxy, DeleteProxyFails, DeleteRows, Heal, Load, Active, HealRow,
         Recover, Confirm, RecoverRow

\* Without a source, only a creation sets anybody to work; final stays what it is, or
\* becomes "no".
LEMMA QuietStep ==
  ASSUME Inv, Quiet, [Next]_vars, ~ \E t \in Threads, u \in Urls : BeginCreate(t, u)
  PROVE  Quiet' /\ (final' = final \/ final' = "no")
<1> USE DEF Inv
<1>1. ASSUME NEW w \in Workers, Lock(w) \/ Work(w)
      PROVE  Quiet' /\ final' = final
  <2>1. w = Recoverer /\ pc[w] \in Passing
    BY <1>1, IdleRests DEF Quiet
  <2>2. CASE Correct(w) \/ CorrectRow(w) \/ List(w)
    <3>1. \E s \in Passing : pc' = [pc EXCEPT ![w] = s]
      BY <2>1, <2>2 DEF Correct, CorrectRow, List, Goto, Passing, Quiet
    <3>2. exists' = exists /\ final' = final
      BY <2>2 DEF Correct, CorrectRow, List, rowVars
    <3> QED BY <2>1, <3>1, <3>2 DEF Quiet, Places
  <2>3. CASE End(w)
    <3>1. \E s \in {"list", "idle"} : pc' = [pc EXCEPT ![w] = s]
      BY <2>1, <2>3, PullAssumption DEF End, Goto, Return
    <3>2. exists' = exists /\ final' = final
      BY <2>3 DEF End, rowVars
    <3> QED BY <2>1, <3>1, <3>2 DEF Quiet, Places, Passing
  <2> QED BY <1>1, <2>1, <2>2, <2>3, PasserSteps
<1>2. CASE Arrive
  <2>1. PICK i \in 1 .. Len(hooks) : HandleStreamChanged(i) \/ HandleServerStarted(i)
    BY <1>2 DEF Arrive, BeginEdit, BeginPreview, BeginDelete, Quiet
  <2>2. pc' = pc \/ pc' = [pc EXCEPT ![Recoverer] = "list"]
    BY <2>1 DEF HandleStreamChanged, HandleServerStarted, Begin, Goto
  <2>3. exists' = exists /\ (final' = final \/ final' = "no")
    BY <2>1 DEF HandleStreamChanged, HandleServerStarted, Join
  <2> QED BY <2>2, <2>3 DEF Quiet, Places, Passing
<1>3. CASE Environment
  <2>1. CASE Crash
    BY <2>1 DEF Crash, Join, Quiet, Passing, rowVars
  <2>2. CASE ~Crash
    <3>1. UNCHANGED <<exists, pc, final>>
      BY <1>3, <2>2 DEF Environment, CameraFails, CameraReturns, Reconnect, GiveUp, ZLMRestart,
                LoseHook, StartAnalysis, StopAnalysis, StreamNotFound, Quiet, rowVars
    <3> QED BY <3>1 DEF Quiet
  <2> QED BY <2>1, <2>2
<1>4. CASE UNCHANGED vars
  BY <1>4 DEF vars, rowVars, Quiet
<1> QED BY <1>1, <1>2, <1>3, <1>4 DEF Next

\* No proxy comes to a source nobody works on.
LEMMA QuietProxy ==
  ASSUME Inv, [Next]_vars, proxy = NoUrl, \A w \in Workers : pc[w] # "add"
  PROVE  proxy' = NoUrl
  BY WhoAdds DEF Add, AddReplyLost

\* A lone delete stays alone, is done, or is noticed.
LEMMA DeletingStep ==
  ASSUME Inv, [Next]_vars, NEW t \in Threads, Deleting(t), final = "maybe", ~fresh
  PROVE  \/ final' = "no"
         \/ final' = "maybe" /\ \E d \in Threads : Deleting(d)'
         \/ final' = "yes" /\ Quiet' /\ proxy' = NoUrl
<1> USE DEF Inv
<1>1. proxy = NoUrl => proxy' = NoUrl
  BY QuietProxy DEF Deleting
<1>2. t \in Workers /\ Healer \in Workers \ {t} /\ Recoverer \in Workers \ {t}
  BY PullAssumption DEF Workers
<1>3. CASE UNCHANGED <<pc, final>>
  BY <1>1, <1>3 DEF Deleting
<1>4. ASSUME NEW w \in Workers, Lock(w) \/ Work(w)
      PROVE  \/ final' = "maybe" /\ Deleting(t)'
             \/ final' = "yes" /\ Quiet' /\ proxy' = NoUrl
  <2>1. w = t /\ pc[t] \in {"delproxy", "delrow"}
    BY <1>4, IdleRests DEF Deleting
  <2>2. CASE DeleteProxy(t)
    BY <1>2, <2>2 DEF DeleteProxy, Goto, Deleting, Places
  <2>3. CASE DeleteProxyFails(t)
    BY <1>2, <2>3 DEF DeleteProxyFails, Return, Goto, Deleting, Places
  <2>4. CASE DeleteRows(t)
    <3>1. final' = "yes" /\ ~exists' /\ pc' = [pc EXCEPT ![t] = "idle"] /\ pc[t] = "delrow"
      BY <2>4 DEF DeleteRows, Return, Goto
    <3> QED BY <1>1, <1>2, <3>1 DEF Deleting, Quiet, Places
  <2> QED BY <1>4, <2>1, <2>2, <2>3, <2>4, DeleterSteps
<1>5. CASE Arrive
  <2>1. ASSUME NEW d \in Threads, BeginDelete(d)
        PROVE  final' = "no" \/ (final' = "maybe" /\ Deleting(d)')
    <3>1. d \in Workers /\ pc' = [pc EXCEPT ![d] = "delproxy"]
      BY <2>1 DEF BeginDelete, Request, Begin, Goto, Workers
    <3>2. final' = IF Alone(d) THEN "maybe" ELSE "no"
      BY <2>1 DEF BeginDelete
    <3> QED BY <3>1, <3>2 DEF Alone, Deleting, Places
  <2>2. ASSUME NEW i \in 1 .. Len(hooks), HandleServerStarted(i)
        PROVE  final' = "no"
    BY <1>2, <2>2 DEF HandleServerStarted, Deleting, Join
  <2>3. ASSUME NEW i \in 1 .. Len(hooks), HandleStreamChanged(i)
        PROVE  UNCHANGED <<pc, final>>
    BY <2>3 DEF HandleStreamChanged
  <2>4. ASSUME NEW d \in Threads, NEW u \in Urls, BeginCreate(d, u) \/ BeginEdit(d, u)
        PROVE  final' = "no"
    BY <2>4 DEF BeginCreate, BeginEdit, Join
  <2>5. ASSUME NEW d \in Threads, NEW o \in {"preview", "snapshot"}, BeginPreview(d, o)
        PROVE  final' = "no"
    BY <2>5 DEF BeginPreview, Join
  <2> QED BY <1>3, <1>5, <2>1, <2>2, <2>3, <2>4, <2>5 DEF Arrive
<1>6. CASE Environment
  <2>1. CASE Crash
    BY <2>1 DEF Crash, Join
  <2>2. CASE StreamNotFound
    BY <1>2, <2>2 DEF StreamNotFound, Deleting, Join
  <2>3. CASE ~Crash /\ ~StreamNotFound
    <3>1. UNCHANGED <<pc, final>>
      BY <1>6, <2>3 DEF Environment, CameraFails, CameraReturns, Reconnect, GiveUp, ZLMRestart,
                LoseHook, StartAnalysis, StopAnalysis
    <3> QED BY <1>3, <3>1
  <2> QED BY <2>1, <2>2, <2>3
<1>7. CASE UNCHANGED vars
  <2>1. UNCHANGED <<pc, final>>
    BY <1>7 DEF vars
  <2> QED BY <1>3, <2>1
<1> QED BY <1>4, <1>5, <1>6, <1>7 DEF Next

\* Only a delete makes a history final.
LEMMA WhoDeletes ==
  ASSUME Inv, FinalInv, [Next]_vars, final = "no"
  PROVE  \/ final' = "no"
         \/ final' = "maybe" /\ ~fresh /\ \E t \in Threads : Deleting(t)'
<1> USE DEF Inv
<1>1. ASSUME NEW w \in Workers, Lock(w) \/ Work(w)
      PROVE  final' = "no"
  BY <1>1 DEF Lock, Work, Ensure, Check, Add, AddReplyLost, Recheck, Serve, Sync, Save, Show, Shown,
              DeleteProxy, DeleteProxyFails, DeleteRows, Heal, Load, Active, HealRow, End, Recover,
              Correct, CorrectRow, List, Confirm, RecoverRow
<1>2. ASSUME NEW t \in Threads, BeginDelete(t)
      PROVE  final' = "no" \/ (final' = "maybe" /\ ~fresh /\ Deleting(t)')
  <2>1. exists /\ t \in Workers /\ pc' = [pc EXCEPT ![t] = "delproxy"]
    BY <1>2 DEF BeginDelete, Request, Begin, Goto, Workers
  <2>2. final' = IF Alone(t) THEN "maybe" ELSE "no"
    BY <1>2 DEF BeginDelete
  <2>3. ~fresh
    BY <2>1 DEF FinalInv, Quiet
  <2> QED BY <2>1, <2>2, <2>3 DEF Alone, Deleting, Places
<1>3. Arrive => final' = "no" \/ \E t \in Threads : BeginDelete(t)
  BY DEF Arrive, BeginCreate, BeginEdit, BeginPreview, HandleStreamChanged, HandleServerStarted, Join
<1>4. Environment => final' = "no"
  BY DEF Environment, CameraFails, CameraReturns, Reconnect, GiveUp, ZLMRestart, LoseHook,
         StartAnalysis, StopAnalysis, StreamNotFound, Crash, Join
<1>5. UNCHANGED vars => final' = "no"
  BY DEF vars
<1> QED BY <1>1, <1>2, <1>3, <1>4, <1>5 DEF Next

\* After a lone delete nothing brings rows or proxy back.
LEMMA FinalStep == Inv /\ FinalInv /\ [Next]_vars => FinalInv'
<1> SUFFICES ASSUME Inv, FinalInv, [Next]_vars PROVE FinalInv'
  OBVIOUS
<1>1. fresh' => fresh
  BY FreshStays
<1>2. fresh' => Quiet'
  <2>1. SUFFICES ASSUME fresh' PROVE Quiet'
    OBVIOUS
  <2>2. ~ \E t \in Threads, u \in Urls : BeginCreate(t, u)
    BY <2>1 DEF BeginCreate
  <2> QED BY <1>1, <2>1, <2>2, QuietStep DEF FinalInv
<1>3. CASE final = "yes"
  <2>1. ~ \E t \in Threads, u \in Urls : BeginCreate(t, u)
    BY <1>3 DEF FinalInv, BeginCreate
  <2>2. Quiet' /\ (final' = final \/ final' = "no")
    BY <1>3, <2>1, QuietStep DEF FinalInv
  <2>3. proxy' = NoUrl
    BY <1>3, QuietProxy DEF FinalInv, Quiet, Passing
  <2> QED BY <1>1, <1>2, <1>3, <2>2, <2>3 DEF FinalInv
<1>4. CASE final = "maybe"
  <2>1. PICK t \in Threads : Deleting(t)
    BY <1>4 DEF FinalInv
  <2>2. \/ final' = "no"
        \/ final' = "maybe" /\ \E d \in Threads : Deleting(d)'
        \/ final' = "yes" /\ Quiet' /\ proxy' = NoUrl
    BY <1>4, <2>1, DeletingStep DEF FinalInv
  <2> QED BY <1>1, <1>2, <1>4, <2>2 DEF FinalInv
<1>5. CASE final = "no"
  BY <1>1, <1>2, <1>5, WhoDeletes DEF FinalInv
<1> QED BY <1>3, <1>4, <1>5 DEF Inv, MarksTyped

\* After a delete that nothing joined, source and proxy are gone for good, whatever
\* hooks, cameras, restarts and recoveries follow.
THEOREM DeletedStaysGone == Spec => []DeletedIsGone
<1>1. Init => FinalInv
  BY DEF Init, FinalInv, Quiet
<1>2. FinalInv => DeletedIsGone
  BY DEF FinalInv, Quiet, DeletedIsGone
<1> QED BY <1>1, <1>2, FinalStep, AlwaysInv, PTL DEF Spec

-----------------------------------------------------------------------------
(* The rows follow ZLM.  While the history is calm, at most one goroutine is at    *)
(* work, what it has read is still so, and the last hook on its way says what the  *)
(* stream is; from this each row that it writes is right.                          *)

\* On the way to a proxy.
Asking == {"lock", "check", "add", "recheck"}

\* Will write the source as it was read, with the address in hand, ...
Editing(w) == pc[w] \in {"sync", "save"} \/ (pc[w] \in Asking /\ op[w] \in {"create", "edit"})

\* ... or the address that it found in the rows.
Mending(w) ==
  \/ pc[w] \in {"active", "healrow", "confirm", "row"}
  \/ pc[w] \in Asking /\ op[w] \in {"heal", "startup", "recover"}

\* The rows of one source belong together.
RowsPaired == (exists => proxyUrl # NoUrl) /\ (~exists => ~analyzing)

\* What a goroutine has in hand is of its operation.
HandTyped(w) ==
  /\ Editing(w) => addr[w] \in Urls
  /\ pc[w] = "idle" => seen[w] = "offline"
  /\ pc[w] \in {"load", "active"} => op[w] = "heal"
  /\ pc[w] \in {"list", "correct", "correctrow"} => op[w] \in {"startup", "recover"}

OneBusy == \A v, w \in Workers : pc[v] # "idle" /\ pc[w] # "idle" => v = w

\* The last hook on its way says what the stream is.
HooksAgree == hooks # <<>> => (hooks[Len(hooks)] = "up" <=> up)

\* What a recovery or a heal has in hand, ...
MendsRightly(w) ==
  /\ Mending(w) => addr[w] = OriginURL
  /\ pc[w] \in {"row", "correctrow"} => (seen[w] = "online" <=> up)

\* ... and a request.
WritesRightly(w) ==
  /\ Editing(w) => (seen[w] = "online" => up)
  /\ pc[w] = "save" => (seen[w] = "online" <=> up)
  /\ pc[w] = "shown" => up
  /\ Editing(w) \/ pc[w] \in {"delproxy", "delrow"} => ~analyzing

Follows == exists => url = proxyUrl /\ (hooks = <<>> => (status = "online" <=> up))

FollowInv ==
  /\ RowsPaired /\ \A w \in Workers : HandTyped(w)
  /\ calm # "no" => OneBusy /\ HooksAgree /\ \A w \in Workers : MendsRightly(w)
  /\ calm = "yes" => Follows /\ \A w \in Workers : WritesRightly(w)

\* A goroutine with nothing to write.
LEMMA PlainRightly ==
  ASSUME NEW w \in Workers, pc[w] \in {"end", "show", "idle"}, pc[w] = "idle" => seen[w] = "offline"
  PROVE  HandTyped(w) /\ MendsRightly(w) /\ WritesRightly(w)
  BY DEF HandTyped, MendsRightly, WritesRightly, Editing, Mending, Asking

\* The others stay as they are while w makes a step.
OthersRest(w) ==
  \A v \in Workers \ {w} :
    pc'[v] = pc[v] /\ op'[v] = op[v] /\ addr'[v] = addr[v] /\ seen'[v] = seen[v]

\* A step of w that leaves only w at work: only what w writes and has in hand is to be
\* looked at.
LEMMA MovedAlone ==
  ASSUME FollowInv, NEW w \in Workers, OthersRest(w), RowsPaired', HandTyped(w)',
         calm' # "no" => /\ \A v \in Workers \ {w} : pc[v] = "idle"
                         /\ HooksAgree' /\ MendsRightly(w)',
         calm' = "yes" => Follows' /\ WritesRightly(w)'
  PROVE  FollowInv'
<1>1. \A v \in Workers : HandTyped(v)'
  <2>1. ASSUME NEW v \in Workers, v # w
        PROVE  HandTyped(v)'
    <3>1. HandTyped(v) /\ pc'[v] = pc[v] /\ op'[v] = op[v] /\ addr'[v] = addr[v] /\ seen'[v] = seen[v]
      BY <2>1 DEF OthersRest, FollowInv
    <3> QED BY <3>1 DEF HandTyped, Editing
  <2> QED BY <2>1
<1>2. ASSUME calm' # "no"
      PROVE  \A v \in Workers \ {w} : pc'[v] = "idle"
  BY <1>2 DEF OthersRest
<1>3. ASSUME NEW v \in Workers, pc'[v] = "idle"
      PROVE  MendsRightly(v)' /\ WritesRightly(v)'
  BY <1>3 DEF MendsRightly, WritesRightly, Editing, Mending, Asking
<1>4. ASSUME calm' # "no"
      PROVE  OneBusy' /\ HooksAgree' /\ \A v \in Workers : MendsRightly(v)'
  BY <1>2, <1>3, <1>4 DEF OneBusy
<1>5. ASSUME calm' = "yes"
      PROVE  Follows' /\ \A v \in Workers : WritesRightly(v)'
  BY <1>2, <1>3, <1>5
<1> QED BY <1>1, <1>4, <1>5 DEF FollowInv

\* A step of a goroutine at work, which is the only one as long as the history is calm.
LEMMA Moved ==
  ASSUME FollowInv, NEW w \in Workers, pc[w] # "idle", OthersRest(w),
         RowsPaired', HandTyped(w)',
         calm' # "no" => (calm # "no" \/ Alone(w)) /\ HooksAgree' /\ MendsRightly(w)',
         calm' = "yes" => Follows' /\ WritesRightly(w)'
  PROVE  FollowInv'
<1>1. calm' # "no" => \A v \in Workers \ {w} : pc[v] = "idle"
  BY DEF FollowInv, OneBusy, Alone
<1> QED BY <1>1, MovedAlone

\* Where a step leads a goroutine.
LEMMA GoneTo ==
  ASSUME Inv, NEW w \in Workers, NEW step, Goto(w, step)
  PROVE  /\ pc'[w] = step
         /\ UNCHANGED localVars => /\ OthersRest(w) /\ op'[w] = op[w]
                                   /\ addr'[w] = addr[w] /\ seen'[w] = seen[w]
  BY DEF Inv, Places, Goto, OthersRest, localVars

\* Who returns has nothing in hand that could be wrong.
LEMMA Returned ==
  ASSUME Inv, NEW w \in Workers, Return(w)
  PROVE  /\ pc'[w] = "idle" /\ OthersRest(w)
         /\ HandTyped(w)' /\ MendsRightly(w)' /\ WritesRightly(w)'
<1>1. pc'[w] = "idle" /\ seen'[w] = "offline" /\ OthersRest(w)
  BY DEF Inv, Places, Locals, Return, Goto, OthersRest
<1> QED BY <1>1 DEF HandTyped, MendsRightly, WritesRightly, Editing, Mending, Asking

\* What was right in hand stays right when ensureZLMProxy succeeds, ...
LEMMA ProceedRightly ==
  ASSUME Inv, NEW w \in Workers, op[w] \in Callers, pc[w] \in Asking, Proceed(w),
         UNCHANGED <<url, proxyUrl, analyzing>>, up => up', HandTyped(w)
  PROVE  /\ OthersRest(w) /\ HandTyped(w)'
         /\ MendsRightly(w) => MendsRightly(w)'
         /\ WritesRightly(w) => WritesRightly(w)'
<1>1. CASE op[w] = "snapshot"
  BY <1>1, Returned DEF Proceed
<1>2. CASE op[w] \in {"create", "edit"}
  <2>1. Goto(w, "sync") /\ UNCHANGED localVars
    BY <1>2 DEF Proceed
  <2>2. pc'[w] = "sync" /\ OthersRest(w) /\ op'[w] = op[w] /\ addr'[w] = addr[w] /\ seen'[w] = seen[w]
    BY <2>1, GoneTo
  <2>3. Editing(w)
    BY <1>2 DEF Editing
  <2> QED BY <2>2, <2>3 DEF HandTyped, MendsRightly, WritesRightly, Editing, Mending, Asking
<1>3. CASE op[w] = "preview"
  <2>1. Goto(w, "show") /\ UNCHANGED localVars
    BY <1>3 DEF Proceed
  <2>2. pc'[w] = "show" /\ OthersRest(w)
    BY <2>1, GoneTo
  <2> QED BY <2>2 DEF HandTyped, MendsRightly, WritesRightly, Editing, Mending, Asking
<1>4. CASE op[w] \in {"heal", "startup", "recover"}
  <2>1. \E s \in {"healrow", "confirm"} : Goto(w, s) /\ UNCHANGED localVars
    BY <1>4 DEF Proceed
  <2>2. /\ pc'[w] \in {"healrow", "confirm"} /\ OthersRest(w)
        /\ addr'[w] = addr[w] /\ OriginURL' = OriginURL
    BY <2>1, GoneTo DEF OriginURL
  <2>3. Mending(w)
    BY <1>4 DEF Mending
  <2> QED BY <2>2, <2>3 DEF HandTyped, MendsRightly, WritesRightly, Editing, Mending, Asking
<1> QED BY <1>1, <1>2, <1>3, <1>4 DEF Callers

\* ... and when it fails.
LEMMA FailRightly ==
  ASSUME Inv, NEW w \in Workers, op[w] \in Callers, pc[w] \in Asking \cup {"active"}, FailAttempt(w),
         UNCHANGED <<url, proxyUrl>>, HandTyped(w)
  PROVE  /\ OthersRest(w) /\ HandTyped(w)' /\ WritesRightly(w)'
         /\ MendsRightly(w) => MendsRightly(w)'
<1>1. CASE op[w] \in {"heal", "startup", "recover"}
  <2>1. UNCHANGED <<op, addr, seen>> /\ OriginURL' = OriginURL
    BY <1>1 DEF FailAttempt, OriginURL
  <2>2. \/ Goto(w, "end")
        \/ op[w] = "heal" /\ Goto(w, "load")
        \/ op[w] # "heal" /\ Goto(w, "lock")
    BY <1>1 DEF FailAttempt
  <2>3. Mending(w)
    BY <1>1 DEF Mending
  <2>4. OthersRest(w)
    BY <2>1, <2>2 DEF OthersRest, Goto, Inv, Places
  <2>5. CASE Goto(w, "end")
    <3>1. pc'[w] = "end"
      BY <2>5, GoneTo
    <3> QED BY <2>4, <3>1 DEF HandTyped, MendsRightly, WritesRightly, Editing, Mending, Asking
  <2>6. CASE op[w] = "heal" /\ Goto(w, "load")
    <3>1. pc'[w] = "load" /\ op'[w] = "heal"
      BY <2>1, <2>6, GoneTo
    <3> QED BY <2>4, <3>1 DEF HandTyped, MendsRightly, WritesRightly, Editing, Mending, Asking
  <2>7. CASE op[w] # "heal" /\ Goto(w, "lock")
    <3>1. pc'[w] = "lock" /\ op'[w] \in {"startup", "recover"} /\ addr'[w] = addr[w]
      BY <1>1, <2>1, <2>7, GoneTo
    <3> QED BY <2>1, <2>3, <2>4, <3>1 DEF HandTyped, MendsRightly, WritesRightly, Editing, Mending, Asking
  <2> QED BY <2>2, <2>5, <2>6, <2>7
<1>2. CASE op[w] \notin {"heal", "startup", "recover"}
  BY <1>2, Returned DEF FailAttempt
<1> QED BY <1>1, <1>2

\* A hook is sent: it is the last.
LEMMA Emitted ==
  ASSUME ZLMTyped, NEW kind \in {"up", "down", "started"}, hooks' = Append(hooks, kind)
  PROVE  hooks' # <<>> /\ hooks'[Len(hooks')] = kind
  BY DEF ZLMTyped

\* Rows and ZLM as they were.
LEMMA StillAgree ==
  ASSUME UNCHANGED <<rowVars, up, hooks>>
  PROVE  /\ (RowsPaired' <=> RowsPaired) /\ (HooksAgree' <=> HooksAgree) /\ (Follows' <=> Follows)
         /\ OriginURL' = OriginURL
  BY DEF rowVars, RowsPaired, HooksAgree, Follows, OriginURL

\* A question to ZLM that is answered truly, or is a fault.
LEMMA Answered ==
  ASSUME NEW active \in BOOLEAN, Answer(active)
  PROVE  (calm' = calm /\ active = up) \/ calm' = "no"
  BY DEF Answer, Fault

\* Asking, adding and asking again keep what a lone goroutine knows true.
LEMMA EnsureFollow ==
  ASSUME Inv, FollowInv, NEW w \in Workers, Lock(w) \/ Ensure(w)
  PROVE  FollowInv'
<1> USE DEF Inv
<1>0. HandTyped(w) /\ RowsPaired
  BY DEF FollowInv
<1>1. CASE Lock(w)
  <2>1. /\ pc[w] = "lock" /\ Goto(w, "check") /\ UNCHANGED <<rowVars, up, hooks>> /\ UNCHANGED localVars
        /\ UNCHANGED <<calm, analyzing>>
    BY <1>1 DEF Lock, zlmVars, rowVars
  <2>2. pc'[w] = "check" /\ OthersRest(w) /\ op'[w] = op[w] /\ addr'[w] = addr[w] /\ seen'[w] = seen[w]
    BY <2>1, GoneTo
  <2>3. HandTyped(w)' /\ (MendsRightly(w) => MendsRightly(w)') /\ (WritesRightly(w) => WritesRightly(w)')
    BY <1>0, <2>1, <2>2, StillAgree DEF HandTyped, MendsRightly, WritesRightly, Editing, Mending, Asking
  <2> QED BY <1>0, <2>1, <2>2, <2>3, StillAgree, Moved DEF FollowInv
<1>2. CASE Check(w)
  <2>1. PICK active \in BOOLEAN :
          /\ Answer(active)
          /\ IF active THEN Proceed(w) /\ lock' = Free
                       ELSE Goto(w, "add") /\ UNCHANGED <<localVars, lock>>
    BY <1>2 DEF Check
  <2>2. /\ pc[w] = "check" /\ op[w] \in Callers /\ UNCHANGED <<rowVars, up, hooks>>
        /\ UNCHANGED <<url, proxyUrl, analyzing>> /\ pc[w] \in Asking
    BY <1>2, Caller DEF Check, rowVars, zlmVars, Asking
  <2>3. /\ OthersRest(w) /\ HandTyped(w)'
        /\ MendsRightly(w) => MendsRightly(w)'
        /\ WritesRightly(w) => WritesRightly(w)'
    <3>1. CASE active
      BY <1>0, <2>1, <2>2, <3>1, ProceedRightly
    <3>2. CASE ~active
      <4>1. pc'[w] = "add" /\ OthersRest(w) /\ op'[w] = op[w] /\ addr'[w] = addr[w] /\ seen'[w] = seen[w]
        BY <2>1, <3>2, GoneTo
      <4> QED BY <1>0, <2>2, <4>1, StillAgree DEF HandTyped, MendsRightly, WritesRightly, Editing, Mending, Asking
    <3> QED BY <3>1, <3>2
  <2>4. calm' = calm \/ calm' = "no"
    BY <2>1, Answered
  <2> QED BY <1>0, <2>2, <2>3, <2>4, StillAgree, Moved DEF FollowInv
<1>3. CASE Add(w)
  <2>1. /\ pc[w] = "add" /\ op[w] \in Callers /\ calm' = calm /\ UNCHANGED rowVars
        /\ UNCHANGED <<url, proxyUrl, analyzing>> /\ pc[w] \in Asking
    BY <1>3, Caller DEF Add, rowVars, Asking
  <2>2. \/ UNCHANGED <<up, hooks>>
        \/ up' = TRUE /\ hooks' # <<>> /\ hooks'[Len(hooks')] = "up"
    BY <1>3, Emitted DEF Add, Emit
  <2>3. up => up'
    BY <2>2
  <2>4. /\ RowsPaired' /\ (calm # "no" => HooksAgree') /\ (calm = "yes" => Follows')
    <3>1. CASE UNCHANGED <<up, hooks>>
      BY <1>0, <2>1, <3>1, StillAgree DEF FollowInv
    <3>2. CASE up' = TRUE /\ hooks' # <<>> /\ hooks'[Len(hooks')] = "up"
      BY <1>0, <2>1, <3>2 DEF FollowInv, rowVars, RowsPaired, HooksAgree, Follows
    <3> QED BY <2>2, <3>1, <3>2
  <2>5. /\ OthersRest(w) /\ HandTyped(w)'
        /\ MendsRightly(w) => MendsRightly(w)'
        /\ WritesRightly(w) => WritesRightly(w)'
    <3>1. CASE Proceed(w)
      BY <1>0, <2>1, <2>3, <3>1, ProceedRightly
    <3>2. CASE Goto(w, "recheck") /\ UNCHANGED localVars
      <4>1. /\ pc'[w] = "recheck" /\ OthersRest(w) /\ op'[w] = op[w] /\ addr'[w] = addr[w] /\ seen'[w] = seen[w]
            /\ OriginURL' = OriginURL
        BY <2>1, <3>2, GoneTo DEF OriginURL
      <4> QED BY <1>0, <2>1, <2>3, <4>1 DEF HandTyped, MendsRightly, WritesRightly, Editing, Mending, Asking
    <3> QED BY <1>3, <3>1, <3>2 DEF Add
  <2> QED BY <2>1, <2>4, <2>5, Moved DEF FollowInv
<1>4. CASE AddReplyLost(w)
  <2>1. /\ pc[w] = "add" /\ Goto(w, "recheck") /\ UNCHANGED localVars /\ calm' = "no" /\ UNCHANGED rowVars
    BY <1>4 DEF AddReplyLost, Fault
  <2>2. pc'[w] = "recheck" /\ OthersRest(w) /\ op'[w] = op[w] /\ addr'[w] = addr[w]
    BY <2>1, GoneTo
  <2>3. HandTyped(w)' /\ RowsPaired'
    BY <1>0, <2>1, <2>2 DEF HandTyped, Editing, Asking, RowsPaired, rowVars
  <2> QED BY <2>1, <2>2, <2>3, Moved
<1>5. CASE Recheck(w)
  <2>1. PICK active \in BOOLEAN :
          Answer(active) /\ IF active THEN Proceed(w) ELSE FailAttempt(w)
    BY <1>5 DEF Recheck
  <2>2. /\ pc[w] = "recheck" /\ op[w] \in Callers /\ UNCHANGED <<rowVars, up, hooks>>
        /\ UNCHANGED <<url, proxyUrl, analyzing>> /\ pc[w] \in Asking
    BY <1>5, Caller DEF Recheck, rowVars, zlmVars, Asking
  <2>3. /\ OthersRest(w) /\ HandTyped(w)'
        /\ MendsRightly(w) => MendsRightly(w)'
        /\ WritesRightly(w) => WritesRightly(w)'
    <3>1. CASE active
      BY <1>0, <2>1, <2>2, <3>1, ProceedRightly
    <3>2. CASE ~active
      BY <1>0, <2>1, <2>2, <3>2, FailRightly
    <3> QED BY <3>1, <3>2
  <2>4. calm' = calm \/ calm' = "no"
    BY <2>1, Answered
  <2> QED BY <1>0, <2>2, <2>3, <2>4, StillAgree, Moved DEF FollowInv
<1> QED BY <1>1, <1>2, <1>3, <1>4, <1>5 DEF Ensure

\* A request by itself leaves both rows right.
LEMMA ServeFollow ==
  ASSUME Inv, FollowInv, NEW w \in Workers, Serve(w)
  PROVE  FollowInv'
<1> USE DEF Inv
<1>0. HandTyped(w) /\ RowsPaired
  BY DEF FollowInv
<1>1. CASE Sync(w)
  <2>1. PICK active \in BOOLEAN :
          Answer(active) /\ seen' = [seen EXCEPT ![w] = IF active THEN "online" ELSE seen[w]]
    BY <1>1 DEF Sync
  <2>2. /\ pc[w] = "sync" /\ Goto(w, "save") /\ UNCHANGED <<rowVars, up, hooks>>
        /\ analyzing' = analyzing /\ op' = op /\ addr' = addr
    BY <1>1 DEF Sync, rowVars, zlmVars
  <2>3. /\ pc'[w] = "save" /\ OthersRest(w) /\ addr'[w] = addr[w]
        /\ seen'[w] = IF active THEN "online" ELSE seen[w]
    BY <2>1, <2>2, GoneTo DEF OthersRest, Goto, Places, Locals
  <2>4. (calm' = calm /\ active = up) \/ calm' = "no"
    BY <2>1, Answered
  <2>5. HandTyped(w)' /\ MendsRightly(w)'
    BY <1>0, <2>2, <2>3 DEF HandTyped, MendsRightly, Editing, Mending, Asking
  <2>6. active = up /\ WritesRightly(w) => WritesRightly(w)'
    BY <2>2, <2>3 DEF WritesRightly, Editing
  <2> QED BY <1>0, <2>2, <2>3, <2>4, <2>5, <2>6, StillAgree, Moved DEF FollowInv
<1>2. CASE Save(w)
  <2>1. /\ pc[w] = "save" /\ exists' = TRUE /\ url' = addr[w] /\ proxyUrl' = addr[w]
        /\ status' = seen[w] /\ analyzing' = FALSE /\ Return(w)
        /\ UNCHANGED <<up, hooks, calm>>
    BY <1>2 DEF Save, zlmVars
  <2>2. addr[w] # NoUrl
    BY <1>0, <2>1, PullAssumption DEF HandTyped, Editing
  <2>3. RowsPaired' /\ (HooksAgree' <=> HooksAgree) /\ (WritesRightly(w) => Follows')
    BY <2>1, <2>2 DEF RowsPaired, HooksAgree, WritesRightly, Follows
  <2> QED BY <2>1, <2>3, Returned, Moved DEF FollowInv
<1>3. CASE Show(w)
  <2>1. PICK active \in BOOLEAN :
          Answer(active) /\ IF active THEN Goto(w, "shown") /\ UNCHANGED localVars ELSE Return(w)
    BY <1>3 DEF Show
  <2>2. pc[w] = "show" /\ UNCHANGED <<rowVars, up, hooks>>
    BY <1>3 DEF Show, zlmVars
  <2>3. (calm' = calm /\ active = up) \/ calm' = "no"
    BY <2>1, Answered
  <2>4. OthersRest(w) /\ HandTyped(w)' /\ MendsRightly(w)' /\ (active = up => WritesRightly(w)')
    <3>1. CASE active
      <4>1. pc'[w] = "shown" /\ OthersRest(w)
        BY <2>1, <3>1, GoneTo
      <4> QED BY <2>2, <3>1, <4>1 DEF HandTyped, MendsRightly, WritesRightly, Editing, Mending, Asking
    <3>2. CASE ~active
      BY <2>1, <3>2, Returned
    <3> QED BY <3>1, <3>2
  <2> QED BY <1>0, <2>2, <2>3, <2>4, StillAgree, Moved DEF FollowInv
<1>4. CASE Shown(w)
  <2>1. /\ pc[w] = "shown" /\ status' = (IF exists THEN "online" ELSE status) /\ Return(w)
        /\ UNCHANGED <<exists, url, analyzing, proxyUrl>> /\ UNCHANGED <<up, hooks, calm>>
    BY <1>4 DEF Shown, zlmVars
  <2>2. /\ RowsPaired' /\ (HooksAgree' <=> HooksAgree)
        /\ WritesRightly(w) /\ Follows => Follows'
    BY <1>0, <2>1 DEF RowsPaired, HooksAgree, WritesRightly, Follows
  <2> QED BY <2>1, <2>2, Returned, Moved DEF FollowInv
<1>5. CASE DeleteProxy(w)
  <2>1. /\ pc[w] = "delproxy" /\ Drop /\ Goto(w, "delrow")
        /\ UNCHANGED <<exists, url, status, analyzing, proxyUrl, calm>> /\ UNCHANGED localVars
    BY <1>5 DEF DeleteProxy, rowVars
  <2>2. /\ up' = FALSE
        /\ \/ ~up /\ hooks' = hooks
           \/ hooks' # <<>> /\ hooks'[Len(hooks')] = "down"
    BY <2>1, Emitted DEF Drop, ZLMTyped
  <2>3. RowsPaired' /\ (HooksAgree => HooksAgree') /\ (Follows => Follows')
    BY <1>0, <2>1, <2>2 DEF RowsPaired, HooksAgree, Follows
  <2>4. pc'[w] = "delrow" /\ OthersRest(w)
    BY <2>1, GoneTo
  <2>5. HandTyped(w)' /\ MendsRightly(w)' /\ (WritesRightly(w) => WritesRightly(w)')
    BY <2>1, <2>4 DEF HandTyped, MendsRightly, WritesRightly, Editing, Mending, Asking
  <2> QED BY <2>1, <2>3, <2>4, <2>5, Moved DEF FollowInv
<1>6. CASE DeleteProxyFails(w)
  <2>1. pc[w] = "delproxy" /\ Return(w) /\ calm' = "no" /\ UNCHANGED rowVars
    BY <1>6 DEF DeleteProxyFails, Fault
  <2>2. RowsPaired'
    BY <1>0, <2>1 DEF RowsPaired, rowVars
  <2> QED BY <2>1, <2>2, Returned, Moved
<1>7. CASE DeleteRows(w)
  <2>1. /\ pc[w] = "delrow" /\ exists' = FALSE /\ analyzing' = FALSE /\ Return(w)
        /\ UNCHANGED <<up, hooks, calm>>
    BY <1>7 DEF DeleteRows, zlmVars
  <2>2. RowsPaired' /\ (HooksAgree' <=> HooksAgree) /\ Follows'
    BY <2>1 DEF RowsPaired, HooksAgree, Follows
  <2> QED BY <2>1, <2>2, Returned, Moved DEF FollowInv
<1> QED BY <1>1, <1>2, <1>3, <1>4, <1>5, <1>6, <1>7 DEF Serve

\* A heal by itself leaves both rows right.
LEMMA HealFollow ==
  ASSUME Inv, FollowInv, NEW w \in Workers, Heal(w)
  PROVE  FollowInv'
<1> USE DEF Inv
<1>0. HandTyped(w) /\ RowsPaired
  BY DEF FollowInv
<1>1. CASE Load(w)
  <2>1. pc[w] = "load" /\ UNCHANGED <<rowVars, up, hooks>> /\ calm' = calm /\ op' = op /\ seen' = seen
    BY <1>1 DEF Load, zlmVars
  <2>2. CASE addr' = [addr EXCEPT ![w] = OriginURL] /\ Goto(w, "active")
    <3>1. pc'[w] = "active" /\ addr'[w] = OriginURL /\ op'[w] = "heal" /\ OthersRest(w)
      BY <1>0, <2>1, <2>2, GoneTo DEF OthersRest, Goto, Places, Locals, HandTyped
    <3>2. HandTyped(w)' /\ MendsRightly(w)' /\ WritesRightly(w)'
      BY <2>1, <3>1, StillAgree DEF HandTyped, MendsRightly, WritesRightly, Editing, Mending, Asking
    <3> QED BY <1>0, <2>1, <3>1, <3>2, StillAgree, Moved DEF FollowInv
  <2>3. CASE addr' = addr /\ Goto(w, "end")
    <3>1. pc'[w] = "end" /\ OthersRest(w)
      BY <2>1, <2>3, GoneTo DEF OthersRest, Goto, Places
    <3>2. HandTyped(w)' /\ MendsRightly(w)' /\ WritesRightly(w)'
      BY <3>1 DEF HandTyped, MendsRightly, WritesRightly, Editing, Mending, Asking
    <3> QED BY <1>0, <2>1, <3>1, <3>2, StillAgree, Moved DEF FollowInv
  <2> QED BY <1>1, <2>2, <2>3 DEF Load
<1>2. CASE Active(w)
  <2>1. pc[w] = "active" /\ UNCHANGED <<rowVars, up, hooks>> /\ op[w] = "heal" /\ UNCHANGED <<url, proxyUrl>>
    BY <1>0, <1>2 DEF Active, zlmVars, rowVars, HandTyped
  <2>2. CASE FailAttempt(w) /\ Fault
    <3>1. OthersRest(w) /\ HandTyped(w)' /\ calm' = "no"
      BY <1>0, <2>1, <2>2, FailRightly DEF Callers, Fault
    <3> QED BY <1>0, <2>1, <3>1, StillAgree, Moved
  <2>3. CASE Goto(w, IF up THEN "end" ELSE "lock") /\ UNCHANGED localVars /\ calm' = calm
    <3>1. /\ pc'[w] \in {"end", "lock"} /\ OthersRest(w) /\ op'[w] = "heal" /\ addr'[w] = addr[w]
      BY <2>1, <2>3, GoneTo
    <3>2. HandTyped(w)' /\ (MendsRightly(w) => MendsRightly(w)') /\ WritesRightly(w)'
      BY <2>1, <3>1, StillAgree DEF HandTyped, MendsRightly, WritesRightly, Editing, Mending, Asking
    <3> QED BY <1>0, <2>1, <2>3, <3>1, <3>2, StillAgree, Moved DEF FollowInv
  <2> QED BY <1>2, <2>2, <2>3 DEF Active
<1>3. CASE HealRow(w)
  <2>1. /\ pc[w] = "healrow" /\ url' = (IF exists THEN addr[w] ELSE url) /\ Goto(w, "end")
        /\ UNCHANGED <<exists, status, analyzing, proxyUrl>> /\ UNCHANGED <<up, hooks, calm>>
        /\ UNCHANGED localVars
    BY <1>3 DEF HealRow, zlmVars
  <2>2. pc'[w] = "end" /\ OthersRest(w)
    BY <2>1, GoneTo
  <2>3. HandTyped(w)' /\ MendsRightly(w)' /\ WritesRightly(w)'
    BY <2>2 DEF HandTyped, MendsRightly, WritesRightly, Editing, Mending, Asking
  <2>4. RowsPaired' /\ (HooksAgree' <=> HooksAgree) /\ (MendsRightly(w) /\ Follows => Follows')
    BY <1>0, <2>1 DEF RowsPaired, HooksAgree, Follows, MendsRightly, Mending, OriginURL
  <2> QED BY <2>1, <2>2, <2>3, <2>4, Moved DEF FollowInv
<1>4. CASE End(w)
  <2>1. pc[w] = "end" /\ UNCHANGED <<rowVars, up, hooks>> /\ calm' = calm
    BY <1>4 DEF End, zlmVars
  <2>2. CASE Return(w)
    BY <1>0, <2>1, <2>2, Returned, StillAgree, Moved DEF FollowInv
  <2>3. CASE /\ Goto(w, IF w = Healer THEN "load" ELSE "list")
             /\ op' = [op EXCEPT ![w] = IF w = Healer THEN "heal" ELSE "recover"]
             /\ UNCHANGED <<addr, seen>>
    <3>1. /\ OthersRest(w)
          /\ \/ pc'[w] = "load" /\ op'[w] = "heal"
             \/ pc'[w] = "list" /\ op'[w] = "recover"
      BY <2>3, GoneTo DEF OthersRest, Goto, Places, Locals
    <3>2. HandTyped(w)' /\ MendsRightly(w)' /\ WritesRightly(w)'
      BY <3>1 DEF HandTyped, MendsRightly, WritesRightly, Editing, Mending, Asking
    <3> QED BY <1>0, <2>1, <3>1, <3>2, StillAgree, Moved DEF FollowInv
  <2> QED BY <1>4, <2>2, <2>3 DEF End
<1> QED BY <1>1, <1>2, <1>3, <1>4 DEF Heal

\* A recovery by itself leaves both rows right, and one that nothing disturbs makes them
\* so.
LEMMA RecoverFollow ==
  ASSUME Inv, FollowInv, NEW w \in Workers, Recover(w)
  PROVE  FollowInv'
<1> USE DEF Inv
<1>0. HandTyped(w) /\ RowsPaired
  BY DEF FollowInv
<1>1. CASE Correct(w)
  <2>1. /\ pc[w] = "correct" /\ UNCHANGED <<rowVars, up, hooks>> /\ op' = op /\ addr' = addr
        /\ op[w] \in {"startup", "recover"}
    BY <1>0, <1>1 DEF Correct, zlmVars, HandTyped
  <2>2. CASE seen' = [seen EXCEPT ![w] = IF up THEN "online" ELSE "offline"] /\ Goto(w, "correctrow") /\ calm' = calm
    <3>1. /\ pc'[w] = "correctrow" /\ op'[w] = op[w] /\ seen'[w] = (IF up THEN "online" ELSE "offline")
          /\ OthersRest(w)
      BY <2>1, <2>2, GoneTo DEF OthersRest, Goto, Places, Locals
    <3>2. HandTyped(w)' /\ MendsRightly(w)' /\ WritesRightly(w)'
      BY <2>1, <3>1 DEF HandTyped, MendsRightly, WritesRightly, Editing, Mending, Asking
    <3> QED BY <1>0, <2>1, <2>2, <3>1, <3>2, StillAgree, Moved DEF FollowInv
  <2>3. CASE Goto(w, "list") /\ Fault /\ UNCHANGED seen
    <3>1. pc'[w] = "list" /\ OthersRest(w) /\ op'[w] = op[w] /\ calm' = "no"
      BY <2>1, <2>3, GoneTo DEF OthersRest, Goto, Places, Fault
    <3>2. HandTyped(w)'
      BY <2>1, <3>1 DEF HandTyped, Editing, Asking
    <3> QED BY <1>0, <2>1, <3>1, <3>2, StillAgree, Moved
  <2> QED BY <1>1, <2>2, <2>3 DEF Correct
<1>2. CASE CorrectRow(w)
  <2>1. /\ pc[w] = "correctrow" /\ status' = (IF exists THEN seen[w] ELSE status) /\ Goto(w, "list")
        /\ UNCHANGED <<exists, url, analyzing, proxyUrl>> /\ UNCHANGED <<up, hooks, calm>>
        /\ UNCHANGED localVars
    BY <1>2 DEF CorrectRow, zlmVars
  <2>2. pc'[w] = "list" /\ OthersRest(w) /\ op'[w] = op[w]
    BY <2>1, GoneTo
  <2>3. HandTyped(w)' /\ MendsRightly(w)' /\ WritesRightly(w)'
    BY <1>0, <2>1, <2>2 DEF HandTyped, MendsRightly, WritesRightly, Editing, Mending, Asking
  <2>4. RowsPaired' /\ (HooksAgree' <=> HooksAgree) /\ (MendsRightly(w) /\ Follows => Follows')
    BY <1>0, <2>1 DEF RowsPaired, HooksAgree, Follows, MendsRightly
  <2> QED BY <2>1, <2>2, <2>3, <2>4, Moved DEF FollowInv
<1>3. CASE List(w)
  <2>1. /\ pc[w] = "list" /\ UNCHANGED <<rowVars, up, hooks>> /\ op' = op /\ seen' = seen
        /\ op[w] \in {"startup", "recover"}
    BY <1>0, <1>3 DEF List, zlmVars, HandTyped
  <2>2. calm' = calm \/ (calm' = "maybe" /\ Alone(w) /\ hooks = <<>>)
    BY <1>3 DEF List
  <2>3. /\ OthersRest(w) /\ HandTyped(w)' /\ MendsRightly(w)' /\ WritesRightly(w)'
    <3>1. CASE addr' = [addr EXCEPT ![w] = OriginURL] /\ Goto(w, "lock")
      <4>1. pc'[w] = "lock" /\ addr'[w] = OriginURL /\ op'[w] = op[w] /\ OthersRest(w)
        BY <2>1, <3>1, GoneTo DEF OthersRest, Goto, Places, Locals
      <4> QED BY <2>1, <4>1, StillAgree DEF HandTyped, MendsRightly, WritesRightly, Editing, Mending, Asking
    <3>2. CASE addr' = addr /\ Goto(w, "end")
      <4>1. pc'[w] = "end" /\ OthersRest(w)
        BY <2>1, <3>2, GoneTo DEF localVars, OthersRest, Goto, Places
      <4> QED BY <4>1 DEF HandTyped, MendsRightly, WritesRightly, Editing, Mending, Asking
    <3> QED BY <1>3, <3>1, <3>2 DEF List
  <2>4. calm' # "no" => (calm # "no" \/ Alone(w)) /\ HooksAgree'
    BY <2>1, <2>2, StillAgree DEF FollowInv, HooksAgree
  <2> QED BY <1>0, <2>1, <2>2, <2>3, <2>4, StillAgree, Moved DEF FollowInv
<1>4. CASE Confirm(w)
  <2>1. PICK active \in BOOLEAN :
          Answer(active) /\ seen' = [seen EXCEPT ![w] = IF active THEN "online" ELSE "offline"]
    BY <1>4 DEF Confirm
  <2>2. pc[w] = "confirm" /\ Goto(w, "row") /\ UNCHANGED <<rowVars, up, hooks>> /\ op' = op /\ addr' = addr
    BY <1>4 DEF Confirm, zlmVars
  <2>3. /\ pc'[w] = "row" /\ OthersRest(w) /\ addr'[w] = addr[w]
        /\ seen'[w] = IF active THEN "online" ELSE "offline"
    BY <2>1, <2>2, GoneTo DEF OthersRest, Goto, Places, Locals
  <2>4. (calm' = calm /\ active = up) \/ calm' = "no"
    BY <2>1, Answered
  <2>5. HandTyped(w)' /\ WritesRightly(w)'
    BY <2>3 DEF HandTyped, WritesRightly, Editing, Asking
  <2>6. active = up /\ MendsRightly(w) => MendsRightly(w)'
    BY <2>2, <2>3, StillAgree DEF MendsRightly, Mending, Asking
  <2> QED BY <1>0, <2>2, <2>3, <2>4, <2>5, <2>6, StillAgree, Moved DEF FollowInv
<1>5. CASE RecoverRow(w)
  <2>1. /\ pc[w] = "row" /\ url' = (IF exists THEN addr[w] ELSE url)
        /\ status' = (IF exists THEN seen[w] ELSE status) /\ Goto(w, "end")
        /\ UNCHANGED <<exists, analyzing, proxyUrl>> /\ UNCHANGED <<up, hooks>>
        /\ UNCHANGED localVars
        /\ calm' = IF calm = "maybe" THEN "yes" ELSE calm
    BY <1>5 DEF RecoverRow, zlmVars
  <2>2. pc'[w] = "end" /\ OthersRest(w)
    BY <2>1, GoneTo
  <2>3. HandTyped(w)' /\ MendsRightly(w)' /\ WritesRightly(w)'
    BY <2>2 DEF HandTyped, MendsRightly, WritesRightly, Editing, Mending, Asking
  <2>4. RowsPaired' /\ (HooksAgree' <=> HooksAgree) /\ (MendsRightly(w) => Follows')
    BY <1>0, <2>1 DEF RowsPaired, HooksAgree, Follows, MendsRightly, Mending, OriginURL
  <2> QED BY <2>1, <2>2, <2>3, <2>4, Moved DEF FollowInv
<1> QED BY <1>1, <1>2, <1>3, <1>4, <1>5 DEF Recover

\* A goroutine begins an operation.
LEMMA Begun ==
  ASSUME Inv, FollowInv, NEW w \in Workers, NEW o, NEW step, NEW a, NEW rest, Begin(w, o, step, a, rest),
         \A v \in Workers \ {w} : seen'[v] = seen[v]
  PROVE  /\ pc'[w] = step /\ op'[w] = o /\ addr'[w] = a /\ seen[w] = "offline" /\ OthersRest(w)
         /\ calm' # "no" => calm' = calm /\ rest = <<>> /\ \A v \in Workers \ {w} : pc[v] = "idle"
<1>1. pc'[w] = step /\ op'[w] = o /\ addr'[w] = a /\ OthersRest(w)
  BY DEF Inv, Places, Locals, Begin, Goto, OthersRest
<1>2. pc[w] = "idle" /\ seen[w] = "offline"
  BY DEF Begin, FollowInv, HandTyped
<1>3. calm' # "no" => calm' = calm /\ rest = <<>> /\ \A v \in Workers \ {w} : pc[v] = "idle"
  BY DEF Begin, Alone
<1> QED BY <1>1, <1>2, <1>3

\* Nobody makes a step: what they have in hand is right as long as the stream is what it
\* was, or nobody has anything in hand.
LEMMA Unmoved ==
  ASSUME FollowInv, UNCHANGED <<pc, op, addr, seen, url, proxyUrl>>, RowsPaired',
         calm' # "no" => calm' = calm /\ HooksAgree' /\ (up' = up \/ AllIdle),
         calm' = "yes" => Follows' /\ (analyzing' = analyzing \/ ~analyzing' \/ AllIdle)
  PROVE  FollowInv'
<1>1. \A w \in Workers : HandTyped(w)'
  BY DEF FollowInv, HandTyped, Editing
<1>2. ASSUME calm' # "no"
      PROVE  OneBusy' /\ HooksAgree' /\ \A w \in Workers : MendsRightly(w)'
  <2>1. OneBusy'
    BY <1>2 DEF FollowInv, OneBusy
  <2>2. ASSUME NEW w \in Workers
        PROVE  MendsRightly(w)'
    <3>1. MendsRightly(w) /\ OriginURL' = OriginURL
      BY <1>2 DEF FollowInv, OriginURL
    <3>2. CASE up' = up
      BY <3>1, <3>2 DEF MendsRightly, Mending
    <3>3. CASE pc[w] = "idle"
      BY <3>3 DEF MendsRightly, Mending, Asking
    <3> QED BY <1>2, <3>2, <3>3 DEF AllIdle
  <2> QED BY <1>2, <2>1, <2>2
<1>3. ASSUME calm' = "yes"
      PROVE  Follows' /\ \A w \in Workers : WritesRightly(w)'
  <2>1. ASSUME NEW w \in Workers
        PROVE  WritesRightly(w)'
    <3>1. WritesRightly(w)
      BY <1>3 DEF FollowInv
    <3>2. CASE up' = up /\ (analyzing' = analyzing \/ ~analyzing')
      BY <3>1, <3>2 DEF WritesRightly, Editing
    <3>3. CASE pc[w] = "idle"
      BY <3>3 DEF WritesRightly, Editing, Asking
    <3> QED BY <1>3, <3>2, <3>3 DEF AllIdle
  <2> QED BY <1>3, <2>1
<1> QED BY <1>1, <1>2, <1>3 DEF FollowInv

\* The hooks after one has arrived, and after the first has.
LEMMA Received ==
  ASSUME ZLMTyped, NEW i \in 1 .. Len(hooks), Receive(i)
  PROVE  /\ hooks # <<>>
         /\ hooks' = <<>> => Len(hooks) = 1 /\ i = 1
         /\ i = 1 /\ hooks' # <<>> => hooks'[Len(hooks')] = hooks[Len(hooks)]
<1> DEFINE n == Len(hooks) - 1
<1>1. hooks \in Seq({"up", "down", "started"}) /\ Len(hooks) \in Nat /\ n \in Nat /\ hooks # <<>>
  BY LenProperties DEF ZLMTyped
<1>2. hooks' = [j \in 1 .. n |-> IF j < i THEN hooks[j] ELSE hooks[j + 1]]
  BY DEF Receive
<1>3. hooks' \in Seq({"up", "down", "started"})
  BY ReceiveTyped
<1>4. Len(hooks') = n
  BY <1>1, <1>2, <1>3
<1>5. hooks' = <<>> => Len(hooks) = 1 /\ i = 1
  <2>1. hooks' = <<>> => Len(hooks') = 0
    OBVIOUS
  <2>2. PICK len \in Nat : len = Len(hooks)
    BY <1>1
  <2>3. hooks' = <<>> => len - 1 = 0
    BY <1>4, <2>1, <2>2
  <2>4. i \in 1 .. len
    BY <2>2
  <2> QED BY <2>2, <2>3, <2>4
<1>6. ASSUME i = 1, hooks' # <<>>
      PROVE  hooks'[Len(hooks')] = hooks[Len(hooks)]
  <2>1. n # 0
    BY <1>3, <1>4, <1>6
  <2>2. PICK len \in Nat : len = Len(hooks)
    BY <1>1
  <2>3. n = len - 1
    BY <2>2
  <2>4. n \in 1 .. n /\ ~(n < 1) /\ n + 1 = len
    <3> HIDE DEF n
    <3> QED BY <1>1, <2>1, <2>2, <2>3
  <2>5. hooks'[n] = hooks[n + 1]
    BY <1>2, <1>6, <2>4
  <2> QED BY <1>4, <2>2, <2>4, <2>5
<1> QED BY <1>1, <1>5, <1>6

\* Who begins while another is at work disturbs it; who begins alone reads true rows.
LEMMA ArriveFollow ==
  ASSUME Inv, FollowInv, FinalInv, Arrive
  PROVE  FollowInv'
<1> USE DEF Inv
<1>0. RowsPaired /\ (Threads \subseteq Workers) /\ Recoverer \in Workers
  BY DEF FollowInv, Workers
<1>1. ASSUME NEW t \in Threads, NEW u \in Urls, BeginCreate(t, u)
      PROVE  FollowInv'
  <2>1. /\ Begin(t, "create", "lock", u, hooks) /\ seen' = seen /\ fresh
        /\ UNCHANGED <<exists, url, status, analyzing, proxyUrl, up, hooks>>
    BY <1>1 DEF BeginCreate, Request, zlmVars
  <2>2. /\ pc'[t] = "lock" /\ op'[t] = "create" /\ addr'[t] = u /\ seen[t] = "offline" /\ OthersRest(t)
        /\ calm' # "no" => calm' = calm /\ hooks = <<>> /\ \A v \in Workers \ {t} : pc[v] = "idle"
    BY <1>0, <2>1, Begun
  <2>3. ~analyzing
    BY <1>0, <2>1 DEF FinalInv, Quiet, RowsPaired
  <2>4. HandTyped(t)' /\ MendsRightly(t)' /\ WritesRightly(t)'
    BY <2>1, <2>2, <2>3 DEF HandTyped, MendsRightly, WritesRightly, Editing, Mending, Asking
  <2>5. RowsPaired' /\ (HooksAgree' <=> HooksAgree) /\ (Follows' <=> Follows)
    BY <1>0, <2>1 DEF RowsPaired, HooksAgree, Follows
  <2> QED BY <1>0, <2>2, <2>4, <2>5, MovedAlone DEF FollowInv
<1>2. ASSUME NEW t \in Threads, NEW u \in Urls, BeginEdit(t, u)
      PROVE  FollowInv'
  <2>1. /\ Begin(t, "edit", "lock", u, hooks) /\ seen' = [seen EXCEPT ![t] = status] /\ exists /\ ~analyzing
        /\ UNCHANGED <<rowVars, up, hooks>>
    BY <1>2 DEF BeginEdit, Request, zlmVars
  <2>2. seen'[t] = status /\ \A v \in Workers \ {t} : seen'[v] = seen[v]
    BY <1>0, <2>1 DEF Locals
  <2>3. /\ pc'[t] = "lock" /\ op'[t] = "edit" /\ addr'[t] = u /\ OthersRest(t)
        /\ calm' # "no" => calm' = calm /\ hooks = <<>> /\ \A v \in Workers \ {t} : pc[v] = "idle"
    BY <1>0, <2>1, <2>2, Begun
  <2>4. HandTyped(t)' /\ MendsRightly(t)'
    BY <2>3 DEF HandTyped, MendsRightly, Editing, Mending, Asking
  <2>5. calm' = "yes" => WritesRightly(t)'
    BY <2>1, <2>2, <2>3 DEF FollowInv, Follows, WritesRightly, rowVars
  <2> QED BY <1>0, <2>1, <2>3, <2>4, <2>5, StillAgree, MovedAlone DEF FollowInv
<1>3. ASSUME NEW t \in Threads, NEW o \in {"preview", "snapshot"}, BeginPreview(t, o)
      PROVE  FollowInv'
  <2>1. /\ Begin(t, o, "lock", OriginURL, hooks) /\ seen' = seen
        /\ UNCHANGED <<rowVars, up, hooks>>
    BY <1>3 DEF BeginPreview, Request, zlmVars
  <2>2. /\ pc'[t] = "lock" /\ op'[t] = o /\ OthersRest(t)
        /\ calm' # "no" => calm' = calm /\ hooks = <<>> /\ \A v \in Workers \ {t} : pc[v] = "idle"
    BY <1>0, <2>1, Begun
  <2>3. HandTyped(t)' /\ MendsRightly(t)' /\ WritesRightly(t)'
    BY <2>2 DEF HandTyped, MendsRightly, WritesRightly, Editing, Mending, Asking
  <2> QED BY <1>0, <2>1, <2>2, <2>3, StillAgree, MovedAlone DEF FollowInv
<1>4. ASSUME NEW t \in Threads, BeginDelete(t)
      PROVE  FollowInv'
  <2>1. /\ Begin(t, "delete", "delproxy", NoUrl, hooks) /\ seen' = seen /\ ~analyzing
        /\ UNCHANGED <<rowVars, up, hooks>>
    BY <1>4 DEF BeginDelete, Request, zlmVars
  <2>2. /\ pc'[t] = "delproxy" /\ OthersRest(t)
        /\ calm' # "no" => calm' = calm /\ hooks = <<>> /\ \A v \in Workers \ {t} : pc[v] = "idle"
    BY <1>0, <2>1, Begun
  <2>3. HandTyped(t)' /\ MendsRightly(t)' /\ WritesRightly(t)'
    BY <2>1, <2>2 DEF HandTyped, MendsRightly, WritesRightly, Editing, Mending, Asking, rowVars
  <2> QED BY <1>0, <2>1, <2>2, <2>3, StillAgree, MovedAlone DEF FollowInv
<1>5. ASSUME NEW i \in 1 .. Len(hooks), HandleStreamChanged(i)
      PROVE  FollowInv'
  <2>1. /\ Receive(i) /\ hooks[i] # "started" /\ up' = up /\ UNCHANGED <<exists, url, analyzing, proxyUrl>>
        /\ status' = IF ~exists THEN status ELSE IF hooks[i] = "up" THEN "online" ELSE "offline"
        /\ calm' = (IF i = 1 THEN calm ELSE "no") /\ UNCHANGED <<pc, op, addr, seen, url, proxyUrl>>
    BY <1>5 DEF HandleStreamChanged, localVars
  <2>2. /\ hooks # <<>>
        /\ hooks' = <<>> => Len(hooks) = 1 /\ i = 1
        /\ i = 1 /\ hooks' # <<>> => hooks'[Len(hooks')] = hooks[Len(hooks)]
    BY <2>1, Received
  <2>3. calm' # "no" => calm' = calm /\ HooksAgree'
    BY <2>1, <2>2 DEF FollowInv, HooksAgree
  <2>4. calm' = "yes" => Follows'
    BY <2>1, <2>2 DEF FollowInv, HooksAgree, Follows
  <2>5. RowsPaired'
    BY <1>0, <2>1 DEF RowsPaired
  <2> QED BY <2>1, <2>3, <2>4, <2>5, Unmoved
<1>6. ASSUME NEW i \in 1 .. Len(hooks), HandleServerStarted(i)
      PROVE  FollowInv'
  <2>1. /\ Receive(i) /\ hooks[i] = "started" /\ status' = "offline"
        /\ seen' = seen /\ up' = up /\ UNCHANGED <<exists, url, analyzing, proxyUrl>>
    BY <1>6 DEF HandleServerStarted
  <2>2. hooks # <<>> /\ (hooks' = <<>> => Len(hooks) = 1 /\ i = 1)
    BY <2>1, Received
  <2>3. RowsPaired'
    BY <1>0, <2>1 DEF RowsPaired
  <2>4. CASE Begin(Recoverer, "recover", "list", NoUrl, hooks')
    <3>1. /\ pc'[Recoverer] = "list" /\ op'[Recoverer] = "recover" /\ OthersRest(Recoverer)
          /\ calm' # "no" => calm' = calm /\ hooks' = <<>> /\ \A v \in Workers \ {Recoverer} : pc[v] = "idle"
      BY <1>0, <2>1, <2>4, Begun
    <3>2. HandTyped(Recoverer)' /\ MendsRightly(Recoverer)' /\ WritesRightly(Recoverer)'
      BY <3>1 DEF HandTyped, MendsRightly, WritesRightly, Editing, Mending, Asking
    <3>3. calm' # "no" => HooksAgree'
      BY <3>1 DEF HooksAgree
    <3>4. calm' = "yes" => Follows'
      BY <2>1, <2>2, <3>1 DEF FollowInv, HooksAgree, Follows
    <3> QED BY <1>0, <2>3, <3>1, <3>2, <3>3, <3>4, MovedAlone
  <2>5. CASE calm' = "no" /\ UNCHANGED <<pc, op, addr>>
    BY <2>1, <2>3, <2>5, Unmoved
  <2> QED BY <1>6, <2>4, <2>5 DEF HandleServerStarted
<1> QED BY <1>1, <1>2, <1>3, <1>4, <1>5, <1>6 DEF Arrive

\* Cameras, restarts and faults disturb whoever is at work, and send hooks when nobody
\* is.
LEMMA EnvironmentFollow ==
  ASSUME Inv, FollowInv, Environment
  PROVE  FollowInv'
<1> USE DEF Inv
<1>0. RowsPaired /\ Healer \in Workers /\ Recoverer \in Workers
  BY DEF FollowInv, Workers
<1>1. ASSUME NEW u \in Urls, CameraFails(u)
      PROVE  FollowInv'
  <2>1. /\ UNCHANGED <<pc, op, addr, seen, url, proxyUrl>> /\ UNCHANGED rowVars
        /\ \/ Drop /\ Disturb
           \/ UNCHANGED <<up, hooks, calm>>
    BY <1>1 DEF CameraFails, rowVars, localVars
  <2>2. CASE Drop /\ Disturb
    <3>1. /\ up' = FALSE
          /\ \/ ~up /\ hooks' = hooks
             \/ hooks' # <<>> /\ hooks'[Len(hooks')] = "down"
      BY <2>2, Emitted DEF Drop, ZLMTyped
    <3>2. calm' # "no" => calm' = calm /\ AllIdle
      BY <2>2 DEF Disturb
    <3>3. RowsPaired' /\ (HooksAgree => HooksAgree') /\ (Follows => Follows')
      BY <1>0, <2>1, <3>1 DEF RowsPaired, HooksAgree, Follows, rowVars
    <3> QED BY <2>1, <3>2, <3>3, Unmoved DEF FollowInv
  <2>3. CASE UNCHANGED <<up, hooks, calm>>
    BY <1>0, <2>1, <2>3, StillAgree, Unmoved DEF FollowInv, rowVars
  <2> QED BY <2>1, <2>2, <2>3
<1>2. CASE GiveUp \/ \E u \in Urls : CameraReturns(u)
  <2>1. /\ UNCHANGED <<pc, op, addr, seen, url, proxyUrl>> /\ analyzing' = analyzing
        /\ UNCHANGED <<rowVars, up, hooks>> /\ calm' = calm
    BY <1>2 DEF GiveUp, CameraReturns, rowVars, localVars
  <2> QED BY <1>0, <2>1, StillAgree, Unmoved DEF FollowInv
<1>3. CASE Reconnect
  <2>1. /\ UNCHANGED <<pc, op, addr, seen, url, proxyUrl>> /\ UNCHANGED rowVars
        /\ up' = TRUE /\ hooks' # <<>> /\ hooks'[Len(hooks')] = "up"
        /\ calm' # "no" => calm' = calm /\ AllIdle
    BY <1>3, Emitted DEF Reconnect, Emit, Disturb, rowVars, localVars
  <2>2. RowsPaired' /\ HooksAgree' /\ (Follows => Follows')
    BY <1>0, <2>1 DEF RowsPaired, HooksAgree, Follows, rowVars
  <2> QED BY <2>1, <2>2, Unmoved DEF FollowInv
<1>4. CASE ZLMRestart
  <2>1. /\ UNCHANGED <<pc, op, addr, seen, url, proxyUrl>> /\ UNCHANGED rowVars
        /\ up' = FALSE /\ hooks' \in {<<"started">>, Append(hooks, "started")}
        /\ calm' # "no" => calm' = calm /\ AllIdle
    BY <1>4 DEF ZLMRestart, Disturb, rowVars, localVars
  <2>2. hooks' # <<>> /\ hooks'[Len(hooks')] = "started"
    BY <2>1, Emitted
  <2>3. RowsPaired' /\ HooksAgree' /\ (Follows => Follows')
    BY <1>0, <2>1, <2>2 DEF RowsPaired, HooksAgree, Follows, rowVars
  <2> QED BY <2>1, <2>3, Unmoved DEF FollowInv
<1>5. CASE LoseHook
  <2>1. /\ UNCHANGED <<pc, op, addr, seen, url, proxyUrl>> /\ UNCHANGED rowVars /\ calm' = "no"
    BY <1>5 DEF LoseHook, Fault, rowVars, localVars
  <2> QED BY <1>0, <2>1, Unmoved DEF RowsPaired, rowVars
<1>6. CASE StartAnalysis \/ StopAnalysis
  <2>1. /\ UNCHANGED <<pc, op, addr, seen, url, proxyUrl>> /\ exists /\ UNCHANGED <<exists, status, up, hooks>>
        /\ \/ calm' # "no" => calm' = calm /\ AllIdle
           \/ calm' = calm /\ ~analyzing'
    BY <1>6 DEF StartAnalysis, StopAnalysis, Disturb, zlmVars, localVars
  <2>2. RowsPaired' /\ (HooksAgree' <=> HooksAgree) /\ (Follows' <=> Follows)
    BY <1>0, <2>1 DEF RowsPaired, HooksAgree, Follows
  <2> QED BY <2>1, <2>2, Unmoved DEF FollowInv
<1>7. CASE StreamNotFound
  <2>1. UNCHANGED <<rowVars, up, hooks>> /\ seen' = seen /\ UNCHANGED <<url, proxyUrl, analyzing>>
    BY <1>7 DEF StreamNotFound, zlmVars, rowVars
  <2>2. CASE Begin(Healer, "heal", "load", NoUrl, hooks)
    <3>1. /\ pc'[Healer] = "load" /\ op'[Healer] = "heal" /\ OthersRest(Healer)
          /\ calm' # "no" => calm' = calm /\ hooks = <<>> /\ \A v \in Workers \ {Healer} : pc[v] = "idle"
      BY <1>0, <2>1, <2>2, Begun
    <3>2. HandTyped(Healer)' /\ MendsRightly(Healer)' /\ WritesRightly(Healer)'
      BY <3>1 DEF HandTyped, MendsRightly, WritesRightly, Editing, Mending, Asking
    <3> QED BY <1>0, <2>1, <3>1, <3>2, StillAgree, MovedAlone DEF FollowInv
  <2>3. CASE UNCHANGED <<pc, op, addr, calm>>
    BY <1>0, <2>1, <2>3, StillAgree, Unmoved DEF FollowInv
  <2> QED BY <1>7, <2>2, <2>3 DEF StreamNotFound
<1>8. CASE Crash
  <2>1. /\ pc' = [w \in Workers |-> IF w = Recoverer THEN "correct" ELSE "idle"]
        /\ op' = [w \in Workers |-> IF w = Recoverer THEN "startup" ELSE "none"]
        /\ seen' = [w \in Workers |-> "offline"]
        /\ hooks' = <<>> /\ up' = up /\ UNCHANGED rowVars
        /\ calm' = IF AllIdle /\ hooks = <<>> THEN calm ELSE "no"
    BY <1>8 DEF Crash
  <2>2. RowsPaired' /\ HooksAgree' /\ (hooks = <<>> => (Follows' <=> Follows))
    BY <1>0, <2>1 DEF RowsPaired, HooksAgree, Follows, rowVars
  <2>3. ASSUME NEW w \in Workers
        PROVE  HandTyped(w)' /\ MendsRightly(w)' /\ WritesRightly(w)'
    <3>1. CASE w = Recoverer
      <4>1. pc'[w] = "correct" /\ op'[w] = "startup"
        BY <2>1, <3>1
      <4> QED BY <4>1 DEF HandTyped, MendsRightly, WritesRightly, Editing, Mending, Asking
    <3>2. CASE w # Recoverer
      <4>1. pc'[w] = "idle" /\ seen'[w] = "offline"
        BY <2>1, <3>2
      <4> QED BY <4>1 DEF HandTyped, MendsRightly, WritesRightly, Editing, Mending, Asking
    <3> QED BY <3>1, <3>2
  <2>4. OneBusy'
    BY <2>1 DEF OneBusy
  <2>5. calm' = "yes" => Follows'
    BY <2>1, <2>2 DEF FollowInv
  <2> QED BY <2>2, <2>3, <2>4, <2>5 DEF FollowInv
<1> QED BY <1>1, <1>2, <1>3, <1>4, <1>5, <1>6, <1>7, <1>8 DEF Environment

\* Every step keeps it.
LEMMA FollowStep == Inv /\ FollowInv /\ FinalInv /\ [Next]_vars => FollowInv'
<1> SUFFICES ASSUME Inv, FollowInv, FinalInv, [Next]_vars PROVE FollowInv'
  OBVIOUS
<1>1. CASE UNCHANGED vars
  <2>1. /\ UNCHANGED <<pc, op, addr, seen, url, proxyUrl>> /\ analyzing' = analyzing
        /\ UNCHANGED <<rowVars, up, hooks>> /\ calm' = calm
    BY <1>1 DEF vars, rowVars, zlmVars, localVars
  <2> QED BY <2>1, StillAgree, Unmoved DEF FollowInv
<1>2. CASE Next
  BY <1>2, EnsureFollow, ServeFollow, HealFollow, RecoverFollow, ArriveFollow, EnvironmentFollow DEF Next, Work
<1> QED BY <1>1, <1>2

\* While nothing disturbs, what the goroutines hold and the rows say is right.
LEMMA AlwaysFollow == Spec => [](Inv /\ FollowInv)
<1>1. Init => FollowInv
  <2> SUFFICES ASSUME Init PROVE FollowInv
    OBVIOUS
  <2>1. \A w \in Workers : HandTyped(w) /\ MendsRightly(w) /\ WritesRightly(w)
    BY DEF Init, HandTyped, MendsRightly, WritesRightly, Editing, Mending, Asking
  <2>2. RowsPaired /\ OneBusy /\ HooksAgree /\ Follows
    BY DEF Init, RowsPaired, OneBusy, HooksAgree, Follows
  <2> QED BY <2>1, <2>2 DEF FollowInv
<1>2. Init => FinalInv
  BY DEF Init, FinalInv, Quiet
<1> QED BY <1>1, <1>2, FollowStep, FinalStep, AlwaysInv, PTL DEF Spec

\* With nobody at work and no hook on its way, the status is that of the stream and both
\* rows have one address, if nothing has disturbed the operations since the start or the
\* latest undisturbed recovery: for any addresses, requests, heals, restarts and cameras.
THEOREM RowsFollowZLM == Spec => []RowsFollow
<1>1. FollowInv => RowsFollow
  BY DEF FollowInv, Follows, RowsFollow
<1> QED BY <1>1, AlwaysFollow, PTL

\* Only a save and a deletion touch the analysis of a source.
LEMMA WhoEndsAnalysis ==
  ASSUME [Next]_vars, analyzing, ~analyzing', pc' # pc
  PROVE  \E w \in Workers : Save(w) \/ DeleteRows(w)
<1>1. ASSUME NEW w \in Workers, Lock(w) \/ Work(w)
      PROVE  Save(w) \/ DeleteRows(w)
  BY <1>1 DEF Lock, Work, Ensure, Check, Add, AddReplyLost, Recheck, Serve, Sync, Show, Shown,
              DeleteProxy, DeleteProxyFails, Heal, Load, Active, HealRow, End, Recover,
              Correct, CorrectRow, List, Confirm, RecoverRow, rowVars
<1>2. ~Arrive
  BY DEF Arrive, BeginCreate, BeginEdit, BeginPreview, BeginDelete, HandleStreamChanged,
         HandleServerStarted, rowVars
<1>3. ~Environment
  BY DEF Environment, CameraFails, CameraReturns, Reconnect, GiveUp, ZLMRestart, LoseHook,
         StartAnalysis, StopAnalysis, StreamNotFound, Crash, rowVars
<1>4. ~UNCHANGED vars
  BY DEF vars
<1> QED BY <1>1, <1>2, <1>3, <1>4 DEF Next

\* An edit or a deletion that nothing has disturbed meets no analysis: it has looked, and
\* an analysis that begins while it is under way disturbs it.
THEOREM EditsKeepAnalysis == Spec => EditKeepsAnalysis
<1>1. ASSUME FollowInv, [Next]_vars, analyzing, ~analyzing', pc' # pc, calm = "yes"
      PROVE  FALSE
  <2>1. PICK w \in Workers : Save(w) \/ DeleteRows(w)
    BY <1>1, WhoEndsAnalysis
  <2>2. WritesRightly(w)
    BY <1>1 DEF FollowInv
  <2> QED BY <1>1, <2>1, <2>2 DEF Save, DeleteRows, WritesRightly, Editing
<1>2. Inv /\ FollowInv /\ [Next]_vars => [analyzing /\ ~analyzing' /\ pc' # pc => calm # "yes"]_vars
  BY <1>1
<1> QED BY <1>2, AlwaysFollow, PTL DEF Spec, EditKeepsAnalysis
=============================================================================
