-------------------------- MODULE AlarmClipPromise --------------------------
(***************************************************************************)
(* What a client of the event API may rely on (the clip rules of           *)
(* docs/backend-api-v1.md), without timers, goroutines, mutex or restarts: *)
(* an event joins at most one session, and only while that session         *)
(* records; its clip appears when the session is being closed; a session   *)
(* that ends with a clip has shown that clip to all its events.            *)
(***************************************************************************)
CONSTANTS Sessions, Events, NoSession

VARIABLES
  stage,   \* absent, recording, closing, then clip (sealed with one) or void
  member,  \* the session an event belongs to
  ready,   \* clip_ready
  clip     \* clip_path

promiseVars == <<stage, member, ready, clip>>

Init ==
  /\ stage = [s \in Sessions |-> "absent"]
  /\ member = [e \in Events |-> NoSession]
  /\ ready = [e \in Events |-> FALSE]
  /\ clip = [e \in Events |-> NoSession]

\* An event under policy none has no clip to wait for.
NoClip(e) ==
  /\ member[e] = NoSession /\ ~ready[e]
  /\ ready' = [ready EXCEPT ![e] = TRUE]
  /\ UNCHANGED <<stage, member, clip>>

\* An event opens session s or joins it.
Join(e, s) ==
  /\ member[e] = NoSession /\ ~ready[e]
  /\ stage[s] \in {"absent", "recording"}
  /\ stage' = [stage EXCEPT ![s] = "recording"]
  /\ member' = [member EXCEPT ![e] = s]
  /\ UNCHANGED <<ready, clip>>

Shut(s) ==
  /\ stage[s] = "recording"
  /\ stage' = [stage EXCEPT ![s] = "closing"]
  /\ UNCHANGED <<member, ready, clip>>

\* All events of a closing session get the same answer; a closing that was
\* interrupted may answer again.
Publish(s, c) ==
  /\ stage[s] = "closing" /\ c \in {s, NoSession}
  /\ ready' = [e \in Events |-> member[e] = s \/ ready[e]]
  /\ clip' = [e \in Events |-> IF member[e] = s THEN c ELSE clip[e]]
  /\ UNCHANGED <<stage, member>>

Seal(s) ==
  /\ stage[s] = "closing"
  /\ \/ /\ \A e \in Events : member[e] = s => ready[e] /\ clip[e] = s
        /\ stage' = [stage EXCEPT ![s] = "clip"]
     \/ stage' = [stage EXCEPT ![s] = "void"]
  /\ UNCHANGED <<member, ready, clip>>

Next ==
  \/ \E e \in Events : NoClip(e) \/ \E s \in Sessions : Join(e, s)
  \/ \E s \in Sessions : Shut(s) \/ Seal(s) \/ \E c \in {s, NoSession} : Publish(s, c)

Spec == Init /\ [][Next]_promiseVars
=============================================================================
