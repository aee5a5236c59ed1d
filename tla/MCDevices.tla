------------------------------- MODULE MCDevices -------------------------------
(* Instances for TLC of what reaches the server from outside: the signals of a       *)
(* GB28181 device, the stream of a publisher, the alarms of the AI service, requests *)
(* on areas, devices, tasks and algorithms, and requests on prompts, one of them at  *)
(* a time: a behaviour is one of the part it has chosen.                             *)
EXTENDS GBSession, PushSource, AlarmIntake, TaskPlans, AlgorithmStore

VARIABLE part

devicesVars == <<part, gbVars, pushVars, intakeVars, planVars, storeVars>>

\* Results of the LLM and of the small model, one for an algorithm the task has not
\* got any more; detections alone; an object of the LLM beside a result.
Hit(a, llm) == [algorithm |-> a, llm |-> llm, boxes |-> TRUE]
MCPayloads == {
  [mode |-> "small", small |-> {"a"}, objects |-> {}, results |-> {Hit("a", TRUE), Hit("gone", FALSE)}],
  [mode |-> "small", small |-> {"a"}, objects |-> {}, results |-> {}],
  [mode |-> "hybrid", small |-> {}, objects |-> {"a"}, results |-> {Hit("gone", FALSE)}]}

\* The first states of a part that is not chosen do not matter: one of them is taken; and
\* so of areas, which are alike.
DevicesInit ==
  /\ part \in {"gb", "push", "intake", "plans", "algorithms"}
  /\ GBInit /\ (part # "gb" => gbRow = NoRow)
  /\ PushInit /\ (part # "push" => pushRow = "none")
  /\ IntakeInit
  /\ PlanInit /\ (part # "plans" => planTasks = {})
  /\ planParent = [area \in {CHOOSE a \in PlanAreas : TRUE} |-> Root]
  /\ StoreInit /\ (part # "algorithms" => storeAlgorithms[1].provider = NoProvider)

Only(name) ==
  /\ part = name /\ UNCHANGED part
  /\ name # "gb" => UNCHANGED gbVars
  /\ name # "push" => UNCHANGED pushVars
  /\ name # "intake" => UNCHANGED intakeVars
  /\ name # "plans" => UNCHANGED planVars
  /\ name # "algorithms" => UNCHANGED storeVars

GBPart(A) == Only("gb") /\ A
PushPart(A) == Only("push") /\ A
IntakePart(A) == Only("intake") /\ A
PlanPart(A) == Only("plans") /\ A
StorePart(A) == Only("algorithms") /\ A

DevicesNext ==
  \/ GBPart(GBNext) \/ PushPart(PushNext) \/ IntakePart(IntakeNext)
  \/ PlanPart(PlanNext) \/ StorePart(StoreNext)

\* Somebody who works on the device goes on, and time passes.
DevicesSpec == DevicesInit /\ [][DevicesNext]_devicesVars /\ WF_devicesVars(GBPart(GBWork))
=============================================================================
