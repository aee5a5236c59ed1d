------------------------------ MODULE MCServices ------------------------------
(* Instances for TLC of what runs in the background of the server, one of them at a *)
(* time: they share nothing here, so a behaviour is one of the part it has chosen.   *)
EXTENDS CoalescedRunner, TestJobs, MemoryJobs, AlertHub, StartupRecovery, AlarmBuffer

VARIABLE part

servicesVars == <<part, vars, jobVars, memVars, hubVars, recVars, bufVars>>

\* Two videos of which one waits, holding a slot, and an image.
MCMedia == [i \in JobItems |-> IF i = 2 THEN "image" ELSE "video"]
MCMemMedia == [i \in MemItems |-> IF i = 1 THEN "video" ELSE "image"]

ServicesInit ==
  /\ part \in {"runner", "jobs", "memory", "hub", "recovery", "buffer"}
  /\ Init /\ (part # "runner" => \A w \in Workers : key[w] = CHOOSE k \in Keys : TRUE)
  /\ JobInit /\ HubInit
  /\ MemInit /\ (part # "memory" => memKind = "draft")
  /\ RecInit /\ (part # "recovery" => ~recUp)
  /\ BufInit /\ (part # "buffer" => ~bufTask)

Only(name) ==
  /\ part = name /\ UNCHANGED part
  /\ name # "runner" => UNCHANGED vars
  /\ name # "jobs" => UNCHANGED jobVars
  /\ name # "memory" => UNCHANGED memVars
  /\ name # "hub" => UNCHANGED hubVars
  /\ name # "recovery" => UNCHANGED recVars
  /\ name # "buffer" => UNCHANGED bufVars

RunnerPart(A) == Only("runner") /\ A
JobsPart(A) == Only("jobs") /\ A
MemoryPart(A) == Only("memory") /\ A
HubPart(A) == Only("hub") /\ A
RecoveryPart(A) == Only("recovery") /\ A
BufferPart(A) == Only("buffer") /\ A

ServicesNext ==
  \/ RunnerPart(Next) \/ JobsPart(JobNext) \/ MemoryPart(MemNext)
  \/ HubPart(HubNext) \/ RecoveryPart(RecNext) \/ BufferPart(BufNext)

\* Somebody who can go on does: goroutines and timers run, the AI service sends its
\* keepalives, the janitor comes round.  The work of jobs and broadcasts is finite, so
\* that no goroutine of them is overtaken for ever.
ServicesWork == JobsPart(JobWork) \/ HubPart(HubWork) \/ RecoveryPart(RecRun) \/ BufferPart(BufRun)

\* The container of the AI service has "restart: unless-stopped".
ServicesBack == RecoveryPart(RecAIReturns)

ServicesSpec ==
  /\ ServicesInit /\ [][ServicesNext]_servicesVars
  /\ WF_servicesVars(ServicesWork) /\ WF_servicesVars(ServicesBack)
=============================================================================
