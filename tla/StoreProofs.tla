------------------------------ MODULE StoreProofs ------------------------------
(* Proofs about rows that repeat each other: the older tables of the task plans    *)
(* (TaskPlans) and the active prompt of an algorithm (AlgorithmStore).             *)
EXTENDS TaskPlans, AlgorithmStore, FiniteSetTheorems, TLAPS
-----------------------------------------------------------------------------
(* Task plans: LegacyAgrees is inductive by itself.  Three actions write the       *)
(* tables; each removes what a task has and writes it again, in all four alike.    *)

\* What is written of a new or edited task: the older table of algorithms is that of the
\* links before and after (saveTaskDeviceConfigs).
LEMMA SaveTaskAgrees ==
  ASSUME LegacyAgrees, NEW p \in PlanRequests, SaveTask(p)
  PROVE  LegacyAgrees'
<1> DEFINE t == planDo[p].task
           config == planDo[p].config
<1>1. CASE Fits(t, config)
  <2>1. /\ planUses' = (planUses \ Of(t, planUses)) \cup {<<t, c[1]>> : c \in config}
        /\ planLinks' = (planLinks \ Of(t, planLinks)) \cup {<<t, c[1], c[2]>> : c \in config}
        /\ planDevicesOf' = (planDevicesOf \ Of(t, planDevicesOf)) \cup {<<t, c[1]>> : c \in config}
        /\ planAlgorithmsOf' = (planAlgorithmsOf \ Of(t, planAlgorithmsOf)) \cup {<<t, c[2]>> : c \in config}
    BY <1>1 DEF SaveTask
  <2>2. planDevicesOf' = planUses'
    BY <2>1 DEF LegacyAgrees
  <2>3. planAlgorithmsOf' = {<<l[1], l[3]>> : l \in planLinks'}
    <3>1. \A l \in planLinks \ Of(t, planLinks) : <<l[1], l[3]>> \in planAlgorithmsOf \ Of(t, planAlgorithmsOf)
      BY DEF LegacyAgrees, Of
    <3>2. \A x \in planAlgorithmsOf \ Of(t, planAlgorithmsOf) : \E l \in planLinks \ Of(t, planLinks) : x = <<l[1], l[3]>>
      BY DEF LegacyAgrees, Of
    <3>3. ASSUME NEW x \in planAlgorithmsOf'
          PROVE  \E l \in planLinks' : x = <<l[1], l[3]>>
      <4>1. CASE \E c \in config : x = <<t, c[2]>>
        <5>1. PICK c \in config : x = <<t, c[2]>>
          BY <4>1
        <5>2. <<t, c[1], c[2]>> \in planLinks'
          BY <2>1
        <5>3. QED
          BY <5>1, <5>2
      <4>2. CASE x \in planAlgorithmsOf \ Of(t, planAlgorithmsOf)
        BY <2>1, <3>2, <4>2
      <4>3. QED
        BY <2>1, <4>1, <4>2
    <3>4. ASSUME NEW l \in planLinks'
          PROVE  <<l[1], l[3]>> \in planAlgorithmsOf'
      BY <2>1, <3>1
    <3>5. QED
      BY <3>3, <3>4
  <2>4. QED
    BY <2>2, <2>3 DEF LegacyAgrees
<1>2. CASE ~Fits(t, config)
  BY <1>2 DEF SaveTask, RolledBack, planRows, planTables, LegacyAgrees
<1>3. QED
  BY <1>1, <1>2

\* A quick update writes the links of one device and rebuilds the older tables from what
\* it finds, whatever happened to the task since it asked (rebuildTaskLegacyRelations).
LEMMA SaveQuickAgrees ==
  ASSUME LegacyAgrees, NEW p \in PlanRequests, SaveQuick(p)
  PROVE  LegacyAgrees'
<1> DEFINE t == planDo[p].task
           d == planDo[p].device
           gs == planDo[p].algorithms
<1>1. /\ planUses' = planUses
      /\ planLinks' = {l \in planLinks : <<l[1], l[2]>> # <<t, d>>} \cup {<<t, d, g>> : g \in gs}
      /\ planDevicesOf' = (planDevicesOf \ Of(t, planDevicesOf)) \cup Of(t, planUses')
      /\ planAlgorithmsOf' = (planAlgorithmsOf \ Of(t, planAlgorithmsOf)) \cup {<<t, l[3]>> : l \in Of(t, planLinks')}
  BY DEF SaveQuick, Rebuilt
<1>2. planDevicesOf' = planUses'
  BY <1>1 DEF LegacyAgrees, Of
<1>3. planAlgorithmsOf' = {<<l[1], l[3]>> : l \in planLinks'}
  <2>1. \A l \in planLinks' : l[1] # t => l \in planLinks
    BY <1>1
  <2>2. \A l \in planLinks : l[1] # t => l \in planLinks'
    BY <1>1
  <2>3. \A x \in planAlgorithmsOf : x[1] # t => \E l \in planLinks : l[1] # t /\ x = <<l[1], l[3]>>
    BY DEF LegacyAgrees
  <2>4. \A l \in planLinks : l[1] # t => <<l[1], l[3]>> \in planAlgorithmsOf \ Of(t, planAlgorithmsOf)
    BY DEF LegacyAgrees, Of
  <2>5. ASSUME NEW x \in planAlgorithmsOf'
        PROVE  \E l \in planLinks' : x = <<l[1], l[3]>>
    BY <1>1, <2>2, <2>3 DEF Of
  <2>6. ASSUME NEW l \in planLinks'
        PROVE  <<l[1], l[3]>> \in planAlgorithmsOf'
    BY <1>1, <2>1, <2>4 DEF Of
  <2>7. QED
    BY <2>5, <2>6
<1>4. QED
  BY <1>2, <1>3 DEF LegacyAgrees

\* A task's rows go from all four tables.
LEMMA DeleteTaskAgrees ==
  ASSUME LegacyAgrees, NEW p \in PlanRequests, DeleteTask(p)
  PROVE  LegacyAgrees'
<1> DEFINE t == planDo[p].task
<1>1. /\ planUses' = planUses \ Of(t, planUses)
      /\ planLinks' = planLinks \ Of(t, planLinks)
      /\ planDevicesOf' = planDevicesOf \ Of(t, planDevicesOf)
      /\ planAlgorithmsOf' = planAlgorithmsOf \ Of(t, planAlgorithmsOf)
  BY DEF DeleteTask
<1>2. \A l \in planLinks' : <<l[1], l[3]>> \in planAlgorithmsOf'
  BY <1>1 DEF LegacyAgrees, Of
<1>3. \A x \in planAlgorithmsOf' : \E l \in planLinks' : x = <<l[1], l[3]>>
  BY <1>1 DEF LegacyAgrees, Of
<1>4. QED
  BY <1>1, <1>2, <1>3 DEF LegacyAgrees

\* Whatever overtakes whatever, the older tables repeat the profiles and the links.
THEOREM LegacyFollows == PlanSpec => []LegacyAgrees
<1>1. PlanInit => LegacyAgrees
  <2> SUFFICES ASSUME PlanInit PROVE LegacyAgrees
    OBVIOUS
  <2>1. PICK d \in PlanDevices : TRUE
    BY PlanAssumption
  <2>2. /\ planLinks = planTasks \X PlanDevices \X PlanAlgorithms
        /\ planAlgorithmsOf = planTasks \X PlanAlgorithms /\ planDevicesOf = planUses
    BY DEF PlanInit
  <2>3. \A t \in planTasks, g \in PlanAlgorithms : <<t, d, g>> \in planLinks
    BY <2>2
  <2>4. ASSUME NEW x \in planAlgorithmsOf
        PROVE  \E l \in planLinks : x = <<l[1], l[3]>>
    <3>1. PICK t \in planTasks, g \in PlanAlgorithms : x = <<t, g>>
      BY <2>2
    <3>2. <<t, d, g>> \in planLinks
      BY <2>3
    <3>3. QED
      BY <3>1, <3>2
  <2>5. \A l \in planLinks : <<l[1], l[3]>> \in planAlgorithmsOf
    BY <2>2
  <2>6. QED
    BY <2>2, <2>4, <2>5 DEF LegacyAgrees
<1>2. LegacyAgrees /\ [PlanNext]_planVars => LegacyAgrees'
  <2> SUFFICES ASSUME LegacyAgrees, [PlanNext]_planVars PROVE LegacyAgrees'
    OBVIOUS
  <2> USE DEF planTables
  <2>1. CASE UNCHANGED planVars
    BY <2>1 DEF LegacyAgrees, planVars, planRows
  <2>2. ASSUME NEW p \in PlanRequests,
               AskArea(p) \/ AskDeleteArea(p) \/ AskDevice(p) \/ AskDeleteDevice(p)
                 \/ AskAlgorithm(p) \/ AskDeleteAlgorithm(p) \/ AskTask(p) \/ AskQuick(p) \/ AskDeleteTask(p) \/ AskGB(p)
        PROVE  LegacyAgrees'
    BY <2>2 DEF LegacyAgrees, Asked, planRows, AskArea, AskDeleteArea, AskDevice, AskDeleteDevice,
                AskAlgorithm, AskDeleteAlgorithm, AskTask, AskQuick, AskDeleteTask, AskGB
  <2>3. ASSUME NEW p \in PlanRequests,
               SaveArea(p) \/ DeleteArea(p) \/ SaveDevice(p) \/ DeleteDevice(p) \/ AddAlgorithm(p) \/ DeleteAlgorithm(p)
        PROVE  LegacyAgrees'
    BY <2>3 DEF LegacyAgrees, SaveArea, DeleteArea, SaveDevice, DeleteDevice, AddAlgorithm, DeleteAlgorithm
  <2>4. ASSUME NEW p \in PlanRequests, SaveGB(p)
        PROVE  LegacyAgrees'
    BY <2>4 DEF LegacyAgrees, SaveGB, RolledBack, planRows
  <2>5. ASSUME NEW d \in PlanGB, HearGB(d) \/ SyncGB(d) \/ DeleteGB(d)
        PROVE  LegacyAgrees'
    BY <2>5 DEF LegacyAgrees, HearGB, SyncGB, DeleteGB
  <2>6. QED
    BY <2>1, <2>2, <2>3, <2>4, <2>5, SaveTaskAgrees, SaveQuickAgrees, DeleteTaskAgrees DEF PlanNext
<1>3. QED
  BY <1>1, <1>2, PTL DEF PlanSpec
-----------------------------------------------------------------------------
(* Prompts.  That one is active at most is not inductive by itself: a request      *)
(* switches off the others of the algorithm it has read, and writes the prompt     *)
(* later.  It has to be that algorithm's then, also when the prompt was deleted    *)
(* and saved again meanwhile.                                                      *)

\* Requests that will write a prompt they have read.
Naming(p) == storeDo[p].kind \in {"updatePrompt", "activate"}

PromptsInv ==
  /\ storeBorn \in Nat
  /\ storePrompts = [x \in Prompts |-> storePrompts[x]]
  /\ \A x \in Prompts : /\ x \in 1 .. storeBorn
                        /\ storePrompts[x] \in [of : 1 .. storeBorn, version : StoreVersions, active : BOOLEAN]

RequestsInv ==
  /\ storeDo = [p \in StoreRequests |-> storeDo[p]]
  /\ \A p \in StoreRequests :
       Naming(p) => /\ storeDo[p].prompt \in 1 .. storeBorn /\ storeDo[p].of \in 1 .. storeBorn
                    /\ storeDo[p].prompt \in Prompts => storePrompts[storeDo[p].prompt].of = storeDo[p].of
                    /\ storeDo[p].kind = "updatePrompt" =>
                         storeDo[p].version \in StoreVersions /\ storeDo[p].active \in BOOLEAN
  /\ \A p, q \in StoreRequests :
       (Naming(p) /\ Naming(q) /\ storeDo[p].prompt = storeDo[q].prompt) => storeDo[p].of = storeDo[q].of

OnePerAlgorithm ==
  \A x, y \in Prompts :
    (storePrompts[x].of = storePrompts[y].of /\ storePrompts[x].active /\ storePrompts[y].active) => x = y

StoreIInv == PromptsInv /\ RequestsInv /\ OnePerAlgorithm

\* A step that ends the request of p leaves what the others have read true, if each prompt
\* keeps its algorithm, is new, or is one that a request has read.
LEMMA RequestsKept ==
  ASSUME StoreIInv, NEW p \in StoreRequests,
         storeDo' = [storeDo EXCEPT ![p] = NoRequest] \/ storeDo' = storeDo,
         storeBorn' \in Nat, storeBorn' >= storeBorn,
         \A x \in Prompts' :
           \/ x \in Prompts /\ storePrompts'[x].of = storePrompts[x].of
           \/ x \notin 1 .. storeBorn
           \/ \E q \in StoreRequests : Naming(q) /\ storeDo[q].prompt = x /\ storePrompts'[x].of = storeDo[q].of
  PROVE  RequestsInv'
<1>1. \A q \in StoreRequests : Naming(q)' => Naming(q) /\ storeDo'[q] = storeDo[q]
  BY DEF StoreIInv, RequestsInv, Naming, NoRequest
<1>2. storeDo' = [q \in StoreRequests |-> storeDo'[q]]
  BY DEF StoreIInv, RequestsInv
<1>3. ASSUME NEW q \in StoreRequests, Naming(q)'
      PROVE  /\ storeDo'[q].prompt \in 1 .. storeBorn' /\ storeDo'[q].of \in 1 .. storeBorn'
             /\ storeDo'[q].prompt \in Prompts' => storePrompts'[storeDo'[q].prompt].of = storeDo'[q].of
             /\ storeDo'[q].kind = "updatePrompt" =>
                  storeDo'[q].version \in StoreVersions /\ storeDo'[q].active \in BOOLEAN
  <2>1. Naming(q) /\ storeDo'[q] = storeDo[q]
    BY <1>1, <1>3
  <2>2. storeDo[q].prompt \in 1 .. storeBorn /\ storeDo[q].of \in 1 .. storeBorn
    BY <2>1 DEF StoreIInv, RequestsInv
  <2>3. storeDo[q].prompt \in 1 .. storeBorn' /\ storeDo[q].of \in 1 .. storeBorn'
    BY <2>2 DEF StoreIInv, PromptsInv
  <2>4. storeDo[q].prompt \in Prompts' => storePrompts'[storeDo[q].prompt].of = storeDo[q].of
    BY <2>1, <2>2 DEF StoreIInv, RequestsInv
  <2>5. QED
    BY <2>1, <2>3, <2>4 DEF StoreIInv, RequestsInv
<1>4. \A q, r \in StoreRequests :
        (Naming(q)' /\ Naming(r)' /\ storeDo'[q].prompt = storeDo'[r].prompt) => storeDo'[q].of = storeDo'[r].of
  BY <1>1 DEF StoreIInv, RequestsInv
<1>5. QED
  BY <1>2, <1>3, <1>4 DEF RequestsInv, Naming

\* A request that has looked at the rows changes none; what it has read of a prompt is
\* that prompt's algorithm, as what the others have read is.
LEMMA AskedKeeps ==
  ASSUME StoreIInv, NEW p \in StoreRequests, NEW request, StoreAsked(p, request),
         request.kind \in {"updatePrompt", "activate"} =>
           /\ request.prompt \in Prompts /\ request.of = storePrompts[request.prompt].of
           /\ request.kind = "updatePrompt" => request.version \in StoreVersions /\ request.active \in BOOLEAN
  PROVE  StoreIInv'
<1>1. /\ storePrompts' = storePrompts /\ storeBorn' = storeBorn
      /\ storeDo' = [storeDo EXCEPT ![p] = request]
  BY DEF StoreAsked, storeRows
<1>2. PromptsInv' /\ OnePerAlgorithm'
  BY <1>1 DEF StoreIInv, PromptsInv, OnePerAlgorithm, Prompts
<1>3. RequestsInv'
  <2>1. /\ storeDo' = [q \in StoreRequests |-> storeDo'[q]] /\ storeDo'[p] = request
        /\ \A q \in StoreRequests \ {p} : storeDo'[q] = storeDo[q]
    BY <1>1 DEF StoreIInv, RequestsInv
  <2>2. Naming(p)' => /\ request.prompt \in 1 .. storeBorn /\ request.of \in 1 .. storeBorn
                      /\ request.prompt \in Prompts /\ request.of = storePrompts[request.prompt].of
                      /\ request.kind = "updatePrompt" => request.version \in StoreVersions /\ request.active \in BOOLEAN
    BY <2>1 DEF StoreIInv, PromptsInv, Naming
  <2>3. \A q \in StoreRequests \ {p} : Naming(q)' => Naming(q)
    BY <2>1 DEF Naming
  <2>4. ASSUME NEW q \in StoreRequests, NEW r \in StoreRequests, Naming(q)', Naming(r)',
               storeDo'[q].prompt = storeDo'[r].prompt
        PROVE  storeDo'[q].of = storeDo'[r].of
    <3>1. CASE q = p /\ r = p
      BY <3>1
    <3>2. CASE q = p /\ r # p
      BY <2>1, <2>2, <2>3, <2>4, <3>2 DEF StoreIInv, RequestsInv
    <3>3. CASE q # p /\ r = p
      BY <2>1, <2>2, <2>3, <2>4, <3>3 DEF StoreIInv, RequestsInv
    <3>4. CASE q # p /\ r # p
      BY <2>1, <2>3, <2>4, <3>4 DEF StoreIInv, RequestsInv
    <3>5. QED
      BY <3>1, <3>2, <3>3, <3>4
  <2>5. ASSUME NEW q \in StoreRequests, Naming(q)'
        PROVE  /\ storeDo'[q].prompt \in 1 .. storeBorn' /\ storeDo'[q].of \in 1 .. storeBorn'
               /\ storeDo'[q].prompt \in Prompts' => storePrompts'[storeDo'[q].prompt].of = storeDo'[q].of
               /\ storeDo'[q].kind = "updatePrompt" =>
                    storeDo'[q].version \in StoreVersions /\ storeDo'[q].active \in BOOLEAN
    <3>1. CASE q = p
      BY <1>1, <2>1, <2>2, <2>5, <3>1
    <3>2. CASE q # p
      BY <1>1, <2>1, <2>3, <2>5, <3>2 DEF StoreIInv, RequestsInv, Prompts
    <3>3. QED
      BY <3>1, <3>2
  <2>6. QED
    BY <2>1, <2>4, <2>5 DEF RequestsInv, Naming
<1>4. QED
  BY <1>2, <1>3 DEF StoreIInv

\* What is left of the prompts when those of an algorithm are switched off.
LEMMA OthersAre ==
  ASSUME PromptsInv, NEW g, NEW active \in BOOLEAN
  PROVE  /\ Others(g, active) = [x \in Prompts |-> Others(g, active)[x]]
         /\ \A x \in Prompts :
              /\ Others(g, active)[x] \in [of : 1 .. storeBorn, version : StoreVersions, active : BOOLEAN]
              /\ Others(g, active)[x].of = storePrompts[x].of
              /\ Others(g, active)[x].active <=> storePrompts[x].active /\ ~(active /\ storePrompts[x].of = g)
BY DEF Others, PromptsInv

\* A prompt is written over the rest: the others of its algorithm are off in the rest, or
\* the prompt is not on.
LEMMA PromptWritten ==
  ASSUME StoreIInv, storeBorn' \in Nat, storeBorn' >= storeBorn,
         NEW z \in 1 .. storeBorn', NEW g \in 1 .. storeBorn', NEW v \in StoreVersions, NEW active \in BOOLEAN,
         NEW rest, rest = [x \in Prompts |-> rest[x]],
         \A x \in Prompts : /\ rest[x] \in [of : 1 .. storeBorn, version : StoreVersions, active : BOOLEAN]
                            /\ rest[x].of = storePrompts[x].of
                            /\ rest[x].active => storePrompts[x].active /\ ~(active /\ storePrompts[x].of = g),
         storePrompts' = Saved(rest, z, Prompt(g, v, active))
  PROVE  /\ PromptsInv' /\ OnePerAlgorithm'
         /\ \A x \in Prompts' : \/ x = z /\ storePrompts'[x].of = g
                                \/ x \in Prompts /\ storePrompts'[x].of = storePrompts[x].of
<1>1. /\ Prompts' = {z} \cup Prompts
      /\ storePrompts' = [x \in Prompts' |-> storePrompts'[x]]
      /\ storePrompts'[z] = [of |-> g, version |-> v, active |-> active]
      /\ \A x \in Prompts \ {z} : storePrompts'[x] = rest[x]
  BY DEF Prompt, Prompts, Saved
<1>2. 1 .. storeBorn \subseteq 1 .. storeBorn'
  BY DEF StoreIInv, PromptsInv
<1>3. PromptsInv'
  <2>1. ASSUME NEW x \in Prompts'
        PROVE  /\ x \in 1 .. storeBorn'
               /\ storePrompts'[x] \in [of : 1 .. storeBorn', version : StoreVersions, active : BOOLEAN]
    <3>1. CASE x = z
      BY <1>1, <3>1
    <3>2. CASE x # z
      <4>1. x \in Prompts /\ x \in 1 .. storeBorn
        BY <1>1, <3>2 DEF StoreIInv, PromptsInv
      <4>2. rest[x] \in [of : 1 .. storeBorn, version : StoreVersions, active : BOOLEAN]
        BY <4>1
      <4>3. rest[x] \in [of : 1 .. storeBorn', version : StoreVersions, active : BOOLEAN]
        BY <1>2, <4>2
      <4>4. QED
        BY <1>1, <1>2, <3>2, <4>1, <4>3
    <3>3. QED
      BY <3>1, <3>2
  <2>2. QED
    BY <1>1, <2>1 DEF PromptsInv
<1>4. OnePerAlgorithm'
  BY <1>1 DEF StoreIInv, OnePerAlgorithm
<1>5. QED
  BY <1>1, <1>3, <1>4

\* Rows other than prompts are written, or nothing is.
LEMMA PromptsUntouched ==
  ASSUME StoreIInv, NEW p \in StoreRequests, storePrompts' = storePrompts,
         storeDo' = [storeDo EXCEPT ![p] = NoRequest] \/ storeDo' = storeDo,
         storeBorn' \in Nat, storeBorn' >= storeBorn
  PROVE  StoreIInv'
<1>1. 1 .. storeBorn \subseteq 1 .. storeBorn'
  BY DEF StoreIInv, PromptsInv
<1>2. PromptsInv'
  <2>1. ASSUME NEW x \in Prompts
        PROVE  /\ x \in 1 .. storeBorn'
               /\ storePrompts[x] \in [of : 1 .. storeBorn', version : StoreVersions, active : BOOLEAN]
    BY <1>1 DEF StoreIInv, PromptsInv
  <2>2. QED
    BY <2>1 DEF StoreIInv, PromptsInv, Prompts
<1>3. OnePerAlgorithm'
  BY DEF StoreIInv, OnePerAlgorithm, Prompts
<1>4. \A x \in Prompts' : x \in Prompts /\ storePrompts'[x].of = storePrompts[x].of
  BY DEF Prompts
<1>5. RequestsInv'
  BY <1>4, RequestsKept
<1>6. QED
  BY <1>2, <1>3, <1>5 DEF StoreIInv

\* createAlgorithm: the prompt is the first of an id no row has had.
LEMMA CreateAlgorithmKeeps ==
  ASSUME StoreIInv, NEW p \in StoreRequests, CreateAlgorithm(p)
  PROVE  StoreIInv'
<1> DEFINE r == storeDo[p]
           id == storeBorn + 1
<1>0. storeBorn \in Nat
  BY DEF StoreIInv, PromptsInv
<1>1. CASE NameFits(r.name, 0) /\ storeBorn' = id /\ r.prompt = "without" /\ UNCHANGED storePrompts /\ StoreCommitted(p)
  <2>1. /\ storePrompts' = storePrompts
        /\ storeDo' = [storeDo EXCEPT ![p] = NoRequest]
    BY <1>1 DEF StoreCommitted
  <2>2. storeBorn' \in Nat /\ storeBorn' >= storeBorn
    BY <1>0, <1>1
  <2>3. QED
    BY <2>1, <2>2, PromptsUntouched
<1>2. ASSUME storeBorn' = id, StoreCommitted(p), NEW v \in StoreVersions,
             storePrompts' = Saved(storePrompts, id, Prompt(id, v, r.prompt = "active"))
      PROVE  StoreIInv'
  <2>1. PICK active \in BOOLEAN : active = (r.prompt = "active")
    OBVIOUS
  <2>2. storePrompts' = Saved(storePrompts, id, Prompt(id, v, active))
    BY <1>2, <2>1
  <2>3. \A x \in Prompts : storePrompts[x].of # id /\ x \in 1 .. storeBorn
    BY <1>0 DEF StoreIInv, PromptsInv
  <2>4. storePrompts = [x \in Prompts |-> storePrompts[x]]
    BY DEF StoreIInv, PromptsInv
  <2>5. \A x \in Prompts : /\ storePrompts[x] \in [of : 1 .. storeBorn, version : StoreVersions, active : BOOLEAN]
                           /\ storePrompts[x].of = storePrompts[x].of
                           /\ storePrompts[x].active => storePrompts[x].active /\ ~(active /\ storePrompts[x].of = id)
    BY <2>3 DEF StoreIInv, PromptsInv
  <2>6. storeBorn' \in Nat /\ storeBorn' >= storeBorn /\ id \in 1 .. storeBorn' /\ id \notin 1 .. storeBorn
    BY <1>0, <1>2
  <2>7. /\ PromptsInv' /\ OnePerAlgorithm'
        /\ \A x \in Prompts' : \/ x = id /\ storePrompts'[x].of = id
                               \/ x \in Prompts /\ storePrompts'[x].of = storePrompts[x].of
    BY <2>2, <2>4, <2>5, <2>6, PromptWritten
  <2>8. RequestsInv'
    BY <1>2, <2>6, <2>7, RequestsKept DEF StoreCommitted
  <2>9. QED
    BY <2>7, <2>8 DEF StoreIInv
<1>3. CASE StoreFailed(p)
  <2>1. /\ storePrompts' = storePrompts /\ storeBorn' = storeBorn
        /\ storeDo' = [storeDo EXCEPT ![p] = NoRequest]
    BY <1>3 DEF StoreFailed, storeRows
  <2>2. storeBorn' \in Nat /\ storeBorn' >= storeBorn
    BY <1>0, <2>1
  <2>3. QED
    BY <2>1, <2>2, PromptsUntouched
<1>4. QED
  BY <1>1, <1>2, <1>3 DEF CreateAlgorithm

\* createAlgorithmPrompt switches off the others in the transaction that writes it.
LEMMA CreatePromptKeeps ==
  ASSUME StoreIInv, NEW p \in StoreRequests, CreatePrompt(p)
  PROVE  StoreIInv'
<1>1. PICK g \in 1 .. storeBorn, v \in StoreVersions, active \in BOOLEAN :
        /\ storeBorn' = storeBorn + 1 /\ storeDo' = storeDo
        /\ storePrompts' = Saved(Others(g, active), storeBorn', Prompt(g, v, active))
  BY DEF CreatePrompt
<1>2. /\ storeBorn \in Nat /\ storeBorn' \in Nat /\ storeBorn' >= storeBorn
      /\ storeBorn' \in 1 .. storeBorn' /\ storeBorn' \notin 1 .. storeBorn /\ g \in 1 .. storeBorn'
  BY <1>1 DEF StoreIInv, PromptsInv
<1>3. /\ PromptsInv' /\ OnePerAlgorithm'
      /\ \A x \in Prompts' : \/ x = storeBorn' /\ storePrompts'[x].of = g
                             \/ x \in Prompts /\ storePrompts'[x].of = storePrompts[x].of
  <2>1. PromptsInv
    BY DEF StoreIInv
  <2>2. QED
    BY <1>1, <1>2, <2>1, OthersAre, PromptWritten
<1>4. RequestsInv'
  BY <1>1, <1>2, <1>3, RequestsKept
<1>5. QED
  BY <1>3, <1>4 DEF StoreIInv

\* updateAlgorithmPrompt writes the prompt it has read, with that one's algorithm.
LEMMA UpdatePromptKeeps ==
  ASSUME StoreIInv, NEW p \in StoreRequests, UpdatePrompt(p)
  PROVE  StoreIInv'
<1> DEFINE r == storeDo[p]
<1>0. storeBorn \in Nat /\ PromptsInv
  BY DEF StoreIInv, PromptsInv
<1>1. CASE /\ storePrompts' = Saved(Others(r.of, r.active), r.prompt, Prompt(r.of, r.version, r.active))
           /\ storeBorn' = storeBorn /\ StoreCommitted(p)
  <2>1. /\ Naming(p) /\ r.prompt \in 1 .. storeBorn /\ r.of \in 1 .. storeBorn
        /\ r.version \in StoreVersions /\ r.active \in BOOLEAN
    BY DEF UpdatePrompt, StoreIInv, RequestsInv, Naming
  <2>2. storeBorn' \in Nat /\ storeBorn' >= storeBorn
    BY <1>0, <1>1
  <2>3. /\ PromptsInv' /\ OnePerAlgorithm'
        /\ \A x \in Prompts' : \/ x = r.prompt /\ storePrompts'[x].of = r.of
                               \/ x \in Prompts /\ storePrompts'[x].of = storePrompts[x].of
    BY <1>0, <1>1, <2>1, <2>2, OthersAre, PromptWritten
  <2>4. RequestsInv'
    BY <1>1, <2>1, <2>2, <2>3, RequestsKept DEF StoreCommitted
  <2>5. QED
    BY <2>3, <2>4 DEF StoreIInv
<1>2. CASE StoreFailed(p)
  <2>1. /\ storePrompts' = storePrompts /\ storeBorn' = storeBorn
        /\ storeDo' = [storeDo EXCEPT ![p] = NoRequest]
    BY <1>2 DEF StoreFailed, storeRows
  <2>2. storeBorn' \in Nat /\ storeBorn' >= storeBorn
    BY <1>0, <2>1
  <2>3. QED
    BY <2>1, <2>2, PromptsUntouched
<1>3. QED
  BY <1>1, <1>2 DEF UpdatePrompt

\* deleteAlgorithmPrompt takes one away.
LEMMA DeletePromptKeeps ==
  ASSUME StoreIInv, NEW p \in StoreRequests, DeletePrompt(p)
  PROVE  StoreIInv'
<1>1. /\ storePrompts' = [x \in Prompts \ {storeDo[p].prompt} |-> storePrompts[x]]
      /\ storeBorn' = storeBorn /\ storeDo' = [storeDo EXCEPT ![p] = NoRequest]
  BY DEF DeletePrompt, StoreCommitted
<1>2. /\ Prompts' \subseteq Prompts
      /\ storePrompts' = [x \in Prompts' |-> storePrompts'[x]]
      /\ \A x \in Prompts' : storePrompts'[x] = storePrompts[x]
  BY <1>1 DEF Prompts
<1>3. PromptsInv' /\ OnePerAlgorithm'
  BY <1>1, <1>2 DEF StoreIInv, PromptsInv, OnePerAlgorithm
<1>4. storeBorn' \in Nat /\ storeBorn' >= storeBorn
  BY <1>1 DEF StoreIInv, PromptsInv
<1>5. RequestsInv'
  BY <1>1, <1>2, <1>4, RequestsKept
<1>6. QED
  BY <1>3, <1>5 DEF StoreIInv

\* activateAlgorithmPrompt: the prompt that it switches on is of the algorithm whose
\* others it switches off, since no prompt changes its algorithm.
LEMMA ActivateKeeps ==
  ASSUME StoreIInv, NEW p \in StoreRequests, Activate(p)
  PROVE  StoreIInv'
<1> DEFINE r == storeDo[p]
           off == Others(r.of, TRUE)
<1>1. /\ storePrompts' = [x \in Prompts |-> [off[x] EXCEPT !.active = @ \/ x = r.prompt]]
      /\ storeBorn' = storeBorn /\ storeDo' = [storeDo EXCEPT ![p] = NoRequest]
  BY DEF Activate, StoreCommitted
<1>2. \A x \in Prompts : /\ off[x] \in [of : 1 .. storeBorn, version : StoreVersions, active : BOOLEAN]
                         /\ off[x].of = storePrompts[x].of
                         /\ off[x].active <=> storePrompts[x].active /\ storePrompts[x].of # r.of
  BY OthersAre DEF StoreIInv
<1>3. Prompts' = Prompts /\ storePrompts' = [x \in Prompts' |-> storePrompts'[x]]
  BY <1>1 DEF Prompts
<1>4. \A x \in Prompts : /\ storePrompts'[x] \in [of : 1 .. storeBorn, version : StoreVersions, active : BOOLEAN]
                         /\ storePrompts'[x].of = storePrompts[x].of
                         /\ storePrompts'[x].active => off[x].active \/ x = r.prompt
  BY <1>1, <1>2
<1>5. PromptsInv'
  BY <1>1, <1>3, <1>4 DEF StoreIInv, PromptsInv
<1>6. r.prompt \in Prompts => storePrompts[r.prompt].of = r.of
  BY DEF Activate, StoreIInv, RequestsInv, Naming
<1>7. OnePerAlgorithm'
  <2>1. ASSUME NEW x \in Prompts, NEW y \in Prompts, storePrompts'[x].of = storePrompts'[y].of,
               storePrompts'[x].active, storePrompts'[y].active
        PROVE  x = y
    <3>1. storePrompts[x].of = storePrompts[y].of
      BY <1>4, <2>1
    <3>2. CASE storePrompts[x].of = r.of
      BY <1>2, <1>4, <2>1, <3>1, <3>2
    <3>3. CASE storePrompts[x].of # r.of
      <4>1. off[x].active /\ off[y].active
        BY <1>4, <1>6, <2>1, <3>1, <3>3
      <4>2. QED
        BY <1>2, <2>1, <3>1, <4>1 DEF StoreIInv, OnePerAlgorithm
    <3>4. QED
      BY <3>2, <3>3
  <2>2. QED
    BY <1>3, <2>1 DEF OnePerAlgorithm
<1>8. RequestsInv'
  <2>1. storeBorn' \in Nat /\ storeBorn' >= storeBorn
    BY <1>1 DEF StoreIInv, PromptsInv
  <2>2. QED
    BY <1>1, <1>3, <1>4, <2>1, RequestsKept
<1>9. QED
  BY <1>5, <1>7, <1>8 DEF StoreIInv

\* A request that asks: what it has read of a prompt is in the row.
LEMMA AskKeeps ==
  ASSUME StoreIInv, NEW p \in StoreRequests,
         AskCreate(p) \/ AskUpdate(p) \/ AskDelete(p) \/ AskUpdatePrompt(p)
           \/ AskDeletePrompt(p) \/ AskActivate(p) \/ AskProvider(p)
  PROVE  StoreIInv'
<1>1. CASE AskCreate(p)
  BY <1>1, AskedKeeps DEF AskCreate
<1>2. CASE AskUpdate(p)
  <2>1. PICK g \in Algorithms, name \in StoreNames, code \in StoreCodes, kind \in {"update", "import"} :
          StoreAsked(p, [kind |-> kind, algorithm |-> g, name |-> name, code |-> code])
    BY <1>2 DEF AskUpdate
  <2>2. QED
    BY <2>1, AskedKeeps
<1>3. CASE AskDelete(p)
  BY <1>3, AskedKeeps DEF AskDelete
<1>4. CASE AskUpdatePrompt(p)
  BY <1>4, AskedKeeps DEF AskUpdatePrompt
<1>5. CASE AskDeletePrompt(p)
  BY <1>5, AskedKeeps DEF AskDeletePrompt
<1>6. CASE AskActivate(p)
  BY <1>6, AskedKeeps DEF AskActivate
<1>7. CASE AskProvider(p)
  BY <1>7, AskedKeeps DEF AskProvider
<1>8. QED
  BY <1>1, <1>2, <1>3, <1>4, <1>5, <1>6, <1>7

\* Algorithms and providers are written without the prompts; so a deleted algorithm's
\* prompts stay.
LEMMA RowsKeep ==
  ASSUME StoreIInv, NEW p \in StoreRequests, UpdateAlgorithm(p) \/ DeleteAlgorithmRow(p) \/ SaveProvider(p)
  PROVE  StoreIInv'
<1>1. storePrompts' = storePrompts /\ storeBorn' = storeBorn /\ storeDo' = [storeDo EXCEPT ![p] = NoRequest]
  BY DEF UpdateAlgorithm, DeleteAlgorithmRow, SaveProvider, StoreCommitted, StoreFailed, storeRows
<1>2. storeBorn' \in Nat /\ storeBorn' >= storeBorn
  BY <1>1 DEF StoreIInv, PromptsInv
<1>3. QED
  BY <1>1, <1>2, PromptsUntouched

\* What the rows and the requests always agree on.
THEOREM StoreInvariant == StoreSpec => []StoreIInv
<1>1. StoreInit => StoreIInv
  <2> SUFFICES ASSUME StoreInit PROVE StoreIInv
    OBVIOUS
  <2>1. PICK v \in StoreVersions : v = CHOOSE w \in StoreVersions : TRUE
    BY StoreAssumption
  <2>2. /\ storeBorn = 1 /\ storePrompts = [x \in {1} |-> [of |-> 1, version |-> v, active |-> TRUE]]
        /\ storeDo = [p \in StoreRequests |-> NoRequest]
    BY <2>1 DEF StoreInit, Prompt
  <2>3. PromptsInv /\ OnePerAlgorithm
    BY <2>2 DEF PromptsInv, OnePerAlgorithm, Prompts
  <2>4. RequestsInv
    BY <2>2 DEF RequestsInv, Naming, NoRequest
  <2>5. QED
    BY <2>3, <2>4 DEF StoreIInv
<1>2. StoreIInv /\ [StoreNext]_storeVars => StoreIInv'
  <2> SUFFICES ASSUME StoreIInv, [StoreNext]_storeVars PROVE StoreIInv'
    OBVIOUS
  <2>1. CASE UNCHANGED storeVars
    BY <2>1 DEF storeVars, storeRows, StoreIInv, PromptsInv, RequestsInv, OnePerAlgorithm, Naming, Prompts
  <2>2. CASE StoreNext
    BY <2>2, AskKeeps, CreateAlgorithmKeeps, RowsKeep, CreatePromptKeeps, UpdatePromptKeeps,
       DeletePromptKeeps, ActivateKeeps DEF StoreNext
  <2>3. QED
    BY <2>1, <2>2
<1>3. QED
  BY <1>1, <1>2, PTL DEF StoreSpec

\* However the requests overlap, an algorithm has one active prompt at most.
THEOREM OnePromptActive == StoreSpec => []OneActivePrompt
<1>1. StoreIInv => OneActivePrompt
  <2> SUFFICES ASSUME StoreIInv, NEW g \in 1 .. storeBorn PROVE Cardinality(ActiveOf(g)) <= 1
    BY DEF OneActivePrompt
  <2>1. \A x, y \in ActiveOf(g) : x = y
    BY DEF ActiveOf, StoreIInv, OnePerAlgorithm
  <2>2. CASE ActiveOf(g) = {}
    BY <2>2, FS_EmptySet
  <2>3. CASE ActiveOf(g) # {}
    <3>1. PICK x : ActiveOf(g) = {x}
      BY <2>1, <2>3
    <3>2. Cardinality({x}) = 1
      BY FS_Singleton
    <3>3. Cardinality(ActiveOf(g)) = 1
      BY <3>1, <3>2, Zenon
    <3>4. QED
      BY <3>3
  <2>4. QED
    BY <2>2, <2>3
<1>2. QED
  BY <1>1, StoreInvariant, PTL
-----------------------------------------------------------------------------
(* An algorithm keeps an active prompt.  A deletion and a switch write on what     *)
(* they have read before; that of a request nobody has overtaken is still so.      *)

\* What a request that deletes a prompt or switches to one has seen is as it was.
StillSo(p) ==
  /\ storeDo[p].kind = "deletePrompt" =>
       (storeDo[p].prompt \in Prompts => ~storePrompts[storeDo[p].prompt].active)
  /\ storeDo[p].kind = "activate" => storeDo[p].prompt \in Prompts

StoreChecked == ~storeCrossed => \A p \in StoreRequests \ storeStale : StillSo(p)

\* A request that asks has just seen the rows.
LEMMA AskedIsSo ==
  ASSUME StoreIInv, StoreChecked, NEW p \in StoreRequests, NEW request, StoreAsked(p, request),
         request.kind = "deletePrompt" => ~storePrompts[request.prompt].active,
         request.kind = "activate" => request.prompt \in Prompts
  PROVE  StoreChecked' /\ storePrompts' = storePrompts
<1>1. /\ storePrompts' = storePrompts /\ storeCrossed' = storeCrossed
      /\ storeStale' = storeStale \ {p} /\ storeDo' = [storeDo EXCEPT ![p] = request]
  BY DEF StoreAsked, storeRows
<1>2. /\ storeDo'[p] = request /\ \A q \in StoreRequests \ {p} : storeDo'[q] = storeDo[q]
  BY <1>1 DEF StoreIInv, RequestsInv
<1>3. ASSUME ~storeCrossed, NEW q \in StoreRequests \ storeStale'
      PROVE  StillSo(q)'
  <2>1. CASE q = p
    BY <1>1, <1>2, <2>1 DEF StillSo, Prompts
  <2>2. CASE q # p
    <3>1. StillSo(q)
      BY <1>1, <1>3, <2>2 DEF StoreChecked
    <3> QED BY <1>1, <1>2, <2>2, <3>1 DEF StillSo, Prompts
  <2> QED BY <2>1, <2>2
<1> QED BY <1>1, <1>3 DEF StoreChecked

\* Of every kind of request that asks.
LEMMA AskIsSo ==
  ASSUME StoreIInv, StoreChecked, NEW p \in StoreRequests,
         AskCreate(p) \/ AskUpdate(p) \/ AskDelete(p) \/ AskUpdatePrompt(p)
           \/ AskDeletePrompt(p) \/ AskActivate(p) \/ AskProvider(p)
  PROVE  StoreChecked' /\ storePrompts' = storePrompts
<1>1. CASE AskCreate(p)
  BY <1>1, AskedIsSo DEF AskCreate
<1>2. CASE AskUpdate(p)
  <2>1. PICK g \in Algorithms, name \in StoreNames, code \in StoreCodes, kind \in {"update", "import"} :
          StoreAsked(p, [kind |-> kind, algorithm |-> g, name |-> name, code |-> code])
    BY <1>2 DEF AskUpdate
  <2> QED BY <2>1, AskedIsSo
<1>3. CASE AskDelete(p)
  BY <1>3, AskedIsSo DEF AskDelete
<1>4. CASE AskUpdatePrompt(p)
  BY <1>4, AskedIsSo DEF AskUpdatePrompt
<1>5. CASE AskDeletePrompt(p)
  BY <1>5, AskedIsSo DEF AskDeletePrompt
<1>6. CASE AskActivate(p)
  BY <1>6, AskedIsSo DEF AskActivate
<1>7. CASE AskProvider(p)
  BY <1>7, AskedIsSo DEF AskProvider
<1> QED BY <1>1, <1>2, <1>3, <1>4, <1>5, <1>6, <1>7

\* A request is over: it has made what the others have seen old, or has changed nothing.
LEMMA OverIsSo ==
  ASSUME StoreIInv, StoreChecked, NEW p \in StoreRequests,
         \/ StoreCommitted(p)
         \/ StoreFailed(p)
         \/ CreatePrompt(p)
  PROVE  StoreChecked'
<1>1. CASE StoreFailed(p)
  <2>1. /\ storePrompts' = storePrompts /\ storeCrossed' = storeCrossed /\ storeStale' = storeStale
        /\ storeDo' = [storeDo EXCEPT ![p] = NoRequest]
    BY <1>1 DEF StoreFailed, storeRows
  <2>2. storeDo'[p].kind = "none" /\ \A q \in StoreRequests \ {p} : storeDo'[q] = storeDo[q]
    BY <2>1 DEF StoreIInv, RequestsInv, NoRequest
  <2>3. ASSUME ~storeCrossed, NEW q \in StoreRequests \ storeStale'
        PROVE  StillSo(q)'
    <3>1. StillSo(q)
      BY <2>1, <2>3 DEF StoreChecked
    <3>2. CASE q = p
      BY <2>2, <3>2 DEF StillSo
    <3>3. CASE q # p
      BY <2>1, <2>2, <3>1, <3>3 DEF StillSo, Prompts
    <3> QED BY <3>2, <3>3
  <2> QED BY <2>1, <2>3 DEF StoreChecked
<1>2. CASE StoreCommitted(p) \/ CreatePrompt(p)
  <2>1. \A q \in StoreRequests \ storeStale' : storeDo'[q] = NoRequest
    BY <1>2 DEF StoreCommitted, CreatePrompt, StoreIInv, RequestsInv
  <2>2. \A q \in StoreRequests \ storeStale' : storeDo'[q].kind = "none"
    BY <2>1 DEF NoRequest
  <2> QED BY <2>2 DEF StoreChecked, StillSo
<1> QED BY <1>1, <1>2

\* What the requests have seen stays so until another commits.
LEMMA CheckedStep ==
  ASSUME StoreIInv, StoreChecked, [StoreNext]_storeVars
  PROVE  StoreChecked'
<1>1. CASE UNCHANGED storeVars
  BY <1>1 DEF storeVars, storeRows, StoreChecked, StillSo, Prompts
<1>2. ASSUME NEW p \in StoreRequests,
             \/ CreateAlgorithm(p) \/ UpdateAlgorithm(p) \/ DeleteAlgorithmRow(p) \/ UpdatePrompt(p)
             \/ DeletePrompt(p) \/ Activate(p) \/ SaveProvider(p)
      PROVE  StoreCommitted(p) \/ StoreFailed(p)
  BY <1>2 DEF CreateAlgorithm, UpdateAlgorithm, DeleteAlgorithmRow, UpdatePrompt, DeletePrompt, Activate, SaveProvider
<1> QED BY <1>1, <1>2, AskIsSo, OverIsSo DEF StoreNext

\* What the algorithm had active is there, or the one it has been switched to is.
LEMMA ActiveStep ==
  ASSUME StoreIInv, StoreChecked, [StoreNext]_storeVars, ~storeCrossed',
         NEW g \in 1 .. storeBorn, NEW x \in ActiveOf(g),
         ~\E p \in StoreRequests : /\ storeDo[p].kind = "updatePrompt" /\ ~storeDo[p].active
                                   /\ storeDo'[p] = NoRequest
  PROVE  ActiveOf(g)' # {}
<1> DEFINE Stays == x \in Prompts' /\ storePrompts'[x] = storePrompts[x]
<1>0. /\ x \in Prompts /\ storePrompts[x].of = g /\ storePrompts[x].active
      /\ storeBorn \in Nat /\ storeBorn + 1 \notin 1 .. storeBorn /\ x \in 1 .. storeBorn
  BY DEF ActiveOf, StoreIInv, PromptsInv
<1>1. ASSUME NEW y \in Prompts', storePrompts'[y].of = g, storePrompts'[y].active
      PROVE  ActiveOf(g)' # {}
  BY <1>1 DEF ActiveOf
<1>2. ASSUME Stays PROVE ActiveOf(g)' # {}
  BY <1>0, <1>1, <1>2
<1> HIDE DEF Stays
<1>3. ASSUME storePrompts' = storePrompts PROVE Stays
  BY <1>0, <1>3 DEF Prompts, Stays
<1>4. CASE UNCHANGED storeVars
  BY <1>2, <1>3, <1>4 DEF storeVars, storeRows
<1>5. ASSUME NEW p \in StoreRequests,
             AskCreate(p) \/ AskUpdate(p) \/ AskDelete(p) \/ AskUpdatePrompt(p)
               \/ AskDeletePrompt(p) \/ AskActivate(p) \/ AskProvider(p)
      PROVE  ActiveOf(g)' # {}
  BY <1>2, <1>3, <1>5, AskIsSo
<1>6. ASSUME NEW p \in StoreRequests, UpdateAlgorithm(p) \/ DeleteAlgorithmRow(p) \/ SaveProvider(p)
      PROVE  ActiveOf(g)' # {}
  <2>1. storePrompts' = storePrompts
    BY <1>6 DEF UpdateAlgorithm, DeleteAlgorithmRow, SaveProvider, StoreFailed, storeRows
  <2> QED BY <1>2, <1>3, <2>1
<1>7. ASSUME NEW p \in StoreRequests, CreateAlgorithm(p)
      PROVE  ActiveOf(g)' # {}
  <2>1. CASE storePrompts' = storePrompts
    BY <1>2, <1>3, <2>1
  <2>2. CASE \E row : storePrompts' = Saved(storePrompts, storeBorn + 1, row)
    <3>1. Stays
      BY <1>0, <2>2 DEF Saved, Prompts, Stays
    <3> QED BY <1>2, <3>1
  <2> QED BY <1>7, <2>1, <2>2 DEF CreateAlgorithm, StoreFailed, storeRows
<1>8. ASSUME NEW p \in StoreRequests, CreatePrompt(p)
      PROVE  ActiveOf(g)' # {}
  <2>1. PICK h \in 1 .. storeBorn, v \in StoreVersions, active \in BOOLEAN :
          storeBorn' = storeBorn + 1 /\ storePrompts' = Saved(Others(h, active), storeBorn + 1, Prompt(h, v, active))
    BY <1>8 DEF CreatePrompt
  <2>2. /\ Prompts' = Prompts \cup {storeBorn + 1} /\ storePrompts'[x] = Others(h, active)[x]
        /\ storePrompts'[storeBorn + 1] = [of |-> h, version |-> v, active |-> active]
    BY <1>0, <2>1 DEF Saved, Others, Prompts, Prompt
  <2>3. CASE active /\ h = g
    BY <1>1, <2>2, <2>3
  <2>4. CASE ~(active /\ h = g)
    <3>1. storePrompts'[x].of = g /\ storePrompts'[x].active
      BY <1>0, <2>2, <2>4, OthersAre DEF StoreIInv
    <3> QED BY <1>0, <1>1, <2>2, <3>1
  <2> QED BY <2>3, <2>4
<1>9. ASSUME NEW p \in StoreRequests, UpdatePrompt(p)
      PROVE  ActiveOf(g)' # {}
  <2> DEFINE r == storeDo[p]
  <2>1. CASE StoreFailed(p)
    BY <1>2, <1>3, <2>1 DEF StoreFailed, storeRows
  <2>2. CASE /\ storePrompts' = Saved(Others(r.of, r.active), r.prompt, Prompt(r.of, r.version, r.active))
             /\ StoreCommitted(p)
    <3>1. storeDo'[p] = NoRequest
      BY <2>2 DEF StoreCommitted, StoreIInv, RequestsInv
    <3>2. r.active
      BY <1>9, <3>1 DEF UpdatePrompt
    <3>3. /\ Naming(p) /\ r.active \in BOOLEAN
          /\ r.prompt \in Prompts => storePrompts[r.prompt].of = r.of
      BY <1>9 DEF UpdatePrompt, StoreIInv, RequestsInv, Naming
    <3>4. /\ Prompts' = Prompts \cup {r.prompt}
          /\ x # r.prompt => storePrompts'[x] = Others(r.of, r.active)[x]
          /\ storePrompts'[r.prompt] = [of |-> r.of, version |-> r.version, active |-> r.active]
      BY <1>0, <2>2 DEF Saved, Others, Prompts, Prompt
    <3>5. CASE r.of = g
      BY <1>1, <3>2, <3>4, <3>5
    <3>6. CASE r.of # g
      <4>1. x # r.prompt
        BY <1>0, <3>3, <3>6
      <4>2. storePrompts'[x].of = g /\ storePrompts'[x].active
        BY <1>0, <3>3, <3>4, <3>6, <4>1, OthersAre DEF StoreIInv
      <4> QED BY <1>0, <1>1, <3>4, <4>2
    <3> QED BY <3>5, <3>6
  <2> QED BY <1>9, <2>1, <2>2 DEF UpdatePrompt
<1>10. ASSUME NEW p \in StoreRequests, DeletePrompt(p)
       PROVE  ActiveOf(g)' # {}
  <2>1. /\ storePrompts' = [y \in Prompts \ {storeDo[p].prompt} |-> storePrompts[y]]
        /\ storeDo[p].kind = "deletePrompt" /\ p \notin storeStale /\ ~storeCrossed
    BY <1>10 DEF DeletePrompt, StoreCommitted
  <2>2. x # storeDo[p].prompt
    BY <1>0, <2>1 DEF StoreChecked, StillSo
  <2>3. Stays
    BY <1>0, <2>1, <2>2 DEF Stays, Prompts
  <2> QED BY <1>2, <2>3
<1>11. ASSUME NEW p \in StoreRequests, Activate(p)
       PROVE  ActiveOf(g)' # {}
  <2> DEFINE r == storeDo[p]
             off == Others(r.of, TRUE)
  <2>1. /\ storePrompts' = [y \in Prompts |-> [off[y] EXCEPT !.active = @ \/ y = r.prompt]]
        /\ r.kind = "activate" /\ p \notin storeStale /\ ~storeCrossed
    BY <1>11 DEF Activate, StoreCommitted
  <2>2. r.prompt \in Prompts /\ storePrompts[r.prompt].of = r.of
    BY <2>1 DEF StoreChecked, StillSo, StoreIInv, RequestsInv, Naming
  <2>3. \A y \in Prompts : /\ off[y] \in [of : 1 .. storeBorn, version : StoreVersions, active : BOOLEAN]
                           /\ off[y].of = storePrompts[y].of
                           /\ off[y].active <=> storePrompts[y].active /\ storePrompts[y].of # r.of
    BY OthersAre DEF StoreIInv
  <2> HIDE DEF off
  <2>4. Prompts' = Prompts /\ \A y \in Prompts : /\ storePrompts'[y].of = storePrompts[y].of
                                                 /\ storePrompts'[y].active <=> off[y].active \/ y = r.prompt
    BY <2>1, <2>3 DEF Prompts
  <2>5. CASE r.of = g
    BY <1>1, <2>2, <2>4, <2>5
  <2>6. CASE r.of # g
    BY <1>0, <1>1, <2>3, <2>4, <2>6
  <2> QED BY <2>5, <2>6
<1> QED BY <1>4, <1>5, <1>6, <1>7, <1>8, <1>9, <1>10, <1>11 DEF StoreNext

\* An algorithm with an active prompt keeps one until an update switches it off or a
\* request that was overtaken commits, for any number of requests under way.
THEOREM ActiveStays == StoreSpec => ActiveKept
<1>1. StoreInit => StoreChecked
  <2> SUFFICES ASSUME StoreInit PROVE StoreChecked
    OBVIOUS
  <2>1. \A p \in StoreRequests : storeDo[p].kind = "none"
    BY DEF StoreInit, NoRequest
  <2> QED BY <2>1 DEF StoreChecked, StillSo
<1>2. StoreIInv /\ StoreChecked /\ [StoreNext]_storeVars => StoreChecked'
  BY CheckedStep
<1>3. StoreIInv /\ StoreChecked /\ [StoreNext]_storeVars =>
        [\A g \in 1 .. storeBorn :
           ActiveOf(g) # {} => \/ ActiveOf(g)' # {} \/ storeCrossed'
                               \/ \E p \in StoreRequests : /\ storeDo[p].kind = "updatePrompt" /\ ~storeDo[p].active
                                                           /\ storeDo'[p] = NoRequest]_storeVars
  BY ActiveStep
<1> QED BY <1>1, <1>2, <1>3, StoreInvariant, PTL DEF StoreSpec, ActiveKept
-----------------------------------------------------------------------------
(* Task plans: what is named is there.  Not inductive by itself: a request commits *)
(* on checks it has made before, and those of a request that nobody has overtaken  *)
(* still hold.                                                                     *)

\* Every row that is named is there.
Referenced ==
  /\ \A l \in planLinks : <<l[1], l[2]>> \in planUses /\ l[3] \in planAlgorithms
  /\ \A u \in planUses : u = <<u[1], u[2]>> /\ u[1] \in planTasks /\ u[2] \in Devices
  /\ \A d \in Devices : planArea[d] \in Areas \/ (d \in PlanGB /\ planArea[d] \in planLost)
  /\ \A d \in DOMAIN planHome : d \in PlanGB /\ planHome[d] \in Areas \cup planLost

\* What a request has looked at is as it was.
Checked(p) ==
  /\ planDo[p].kind = "deleteArea" => \A d \in Devices : planArea[d] # planDo[p].area
  /\ planDo[p].kind = "device" => planDo[p].area \in Areas
  /\ planDo[p].kind = "gb" => planDo[p].device \in PlanGB /\ planDo[p].area \in Areas \cup planLost
  /\ planDo[p].kind = "deleteDevice" => \A u \in planUses : u[2] # planDo[p].device
  /\ planDo[p].kind = "deleteAlgorithm" => \A l \in planLinks : l[3] # planDo[p].algorithm
  /\ planDo[p].kind = "task" =>
       /\ ~planDo[p].new => planDo[p].task \in planTasks
       /\ \A c \in planDo[p].config : c[1] \in Devices /\ c[2] \in planAlgorithms
  /\ planDo[p].kind = "quick" =>
       <<planDo[p].task, planDo[p].device>> \in planUses /\ planDo[p].algorithms \subseteq planAlgorithms

PlanInv ==
  /\ planDo = [p \in PlanRequests |-> planDo[p]]
  /\ ~planCrossed => Referenced /\ \A p \in PlanRequests \ planStale : Checked(p)

\* A request that looks at the rows changes none.
LEMMA PlanAsked ==
  ASSUME PlanInv, NEW p \in PlanRequests, NEW request, Asked(p, request),
         request.kind = "deleteArea" => \A d \in Devices : planArea[d] # request.area,
         request.kind = "device" => request.area \in Areas,
         (request.kind = "gb" /\ ~planCrossed) =>
           request.device \in PlanGB /\ request.area \in Areas \cup planLost,
         request.kind = "deleteDevice" => \A u \in planUses : u[2] # request.device,
         request.kind = "deleteAlgorithm" => \A l \in planLinks : l[3] # request.algorithm,
         request.kind = "task" =>
           /\ ~request.new => request.task \in planTasks
           /\ \A c \in request.config : c[1] \in Devices /\ c[2] \in planAlgorithms,
         (request.kind = "quick" /\ ~planCrossed) =>
           <<request.task, request.device>> \in planUses /\ request.algorithms \subseteq planAlgorithms
  PROVE  PlanInv'
<1>1. /\ planDo' = [planDo EXCEPT ![p] = request]
      /\ planStale' = planStale \ {p} /\ planCrossed' = planCrossed
      /\ UNCHANGED <<planParent, planArea, planHome, planLost, planAlgorithms, planTasks, planUses, planLinks>>
  BY DEF Asked, planRows, planPlaces, planTables
<1>2. /\ planDo' = [q \in PlanRequests |-> planDo'[q]] /\ planDo'[p] = request
      /\ \A q \in PlanRequests \ {p} : planDo'[q] = planDo[q]
  BY <1>1 DEF PlanInv
<1>3. Referenced' <=> Referenced
  BY <1>1 DEF Referenced, Devices, Areas
<1>4. Devices' = Devices /\ Areas' = Areas
  BY <1>1 DEF Devices, Areas
<1>5. ASSUME ~planCrossed, NEW q \in PlanRequests \ planStale'
      PROVE  Checked(q)'
  <2>1. CASE q = p
    BY <1>1, <1>2, <1>4, <1>5, <2>1 DEF Checked
  <2>2. CASE q # p
    <3>1. Checked(q)
      BY <1>1, <1>5, <2>2 DEF PlanInv
    <3> QED BY <1>1, <1>2, <1>4, <2>2, <3>1 DEF Checked
  <2> QED BY <2>1, <2>2
<1> QED BY <1>1, <1>2, <1>3, <1>5 DEF PlanInv

\* Who commits makes the checks of all others old.
LEMMA PlanCommits ==
  ASSUME PlanInv, NEW p \in PlanRequests, Committed(p), planDo[p].kind # "idle",
         Referenced /\ Checked(p) => Referenced'
  PROVE  PlanInv'
<1>1. /\ planDo' = [planDo EXCEPT ![p] = Idle]
      /\ planStale' = {q \in PlanRequests \ {p} : planDo[q] # Idle}
      /\ planCrossed' = (planCrossed \/ p \in planStale)
  BY DEF Committed
<1>2. planDo' = [q \in PlanRequests |-> planDo'[q]]
  BY <1>1 DEF PlanInv
<1>3. ASSUME NEW q \in PlanRequests \ planStale'
      PROVE  Checked(q)'
  <2>1. planDo'[q] = Idle
    BY <1>1 DEF PlanInv
  <2>2. planDo'[q].kind = "idle"
    BY <2>1 DEF Idle
  <2> QED BY <2>2 DEF Checked
<1>4. ~planCrossed' => Referenced'
  BY <1>1 DEF PlanInv
<1> QED BY <1>2, <1>3, <1>4 DEF PlanInv

\* What looks at nothing before its transaction makes the checks of all old.
LEMMA PlanOvertaken ==
  ASSUME PlanInv, Overtaking, Referenced => Referenced'
  PROVE  PlanInv'
<1>1. /\ planStale' = {q \in PlanRequests : planDo[q] # Idle}
      /\ planDo' = planDo /\ planCrossed' = planCrossed
  BY DEF Overtaking
<1>2. ASSUME NEW q \in PlanRequests \ planStale'
      PROVE  Checked(q)'
  <2>1. planDo'[q] = Idle
    BY <1>1
  <2>2. planDo'[q].kind = "idle"
    BY <2>1 DEF Idle
  <2> QED BY <2>2 DEF Checked
<1> QED BY <1>1, <1>2 DEF PlanInv

\* The areas and their devices.
LEMMA PlacesReferenced ==
  ASSUME Referenced, NEW p \in PlanRequests, Checked(p),
         \/ SaveArea(p) \/ DeleteArea(p) \/ SaveDevice(p) \/ DeleteDevice(p)
         \/ SaveGB(p) /\ ~(planDo[p].new /\ planDo[p].device \in DOMAIN planHome)
  PROVE  Referenced'
<1> USE DEF planTables
<1>1. CASE SaveArea(p)
  <2>1. planParent' = WithRow(planParent, planDo[p].area, planDo[p].parent)
    BY <1>1 DEF SaveArea
  <2>2. Areas' = Areas \cup {planDo[p].area}
    BY <2>1 DEF WithRow, Areas
  <2>3. /\ UNCHANGED <<planArea, planHome, planAlgorithms, planTasks, planUses, planLinks>>
        /\ planLost' = planLost \ {planDo[p].area} /\ Devices' = Devices
    BY <1>1 DEF SaveArea, Devices
  <2> QED BY <2>2, <2>3 DEF Referenced
<1>2. CASE DeleteArea(p)
  <2>1. /\ Areas \ {planDo[p].area} \subseteq Areas' /\ Devices' = Devices
        /\ planLost' = planLost \cup ({planDo[p].area} \cap {planHome[d] : d \in DOMAIN planHome})
        /\ UNCHANGED <<planArea, planHome, planAlgorithms, planTasks, planUses, planLinks>>
        /\ \A d \in Devices : planArea[d] # planDo[p].area
    BY <1>2 DEF DeleteArea, Checked, Areas, Devices
  <2>2. \A d \in Devices : planArea[d] \in Areas' \/ (d \in PlanGB /\ planArea[d] \in planLost')
    BY <2>1 DEF Referenced
  <2>3. \A d \in DOMAIN planHome : planHome[d] \in Areas' \cup planLost'
    <3>1. \A d \in DOMAIN planHome : planHome[d] = planDo[p].area => planHome[d] \in planLost'
      BY <2>1
    <3> QED BY <2>1, <3>1 DEF Referenced
  <2> QED BY <2>1, <2>2, <2>3 DEF Referenced
<1>3. CASE SaveDevice(p)
  <2>1. /\ planArea' = WithRow(planArea, planDo[p].device, planDo[p].area)
        /\ planDo[p].area \in Areas /\ Areas' = Areas
        /\ UNCHANGED <<planHome, planLost, planAlgorithms, planTasks, planUses, planLinks>>
    BY <1>3 DEF SaveDevice, Checked, Areas
  <2>2. /\ Devices' = Devices \cup {planDo[p].device} /\ planArea'[planDo[p].device] = planDo[p].area
        /\ \A d \in Devices : d # planDo[p].device => planArea'[d] = planArea[d]
    BY <2>1 DEF WithRow, Devices
  <2> QED BY <2>1, <2>2 DEF Referenced
<1>4. CASE DeleteDevice(p)
  <2>1. /\ planArea' = [d \in Devices \ {planDo[p].device} |-> planArea[d]]
        /\ Areas' = Areas /\ \A u \in planUses : u[2] # planDo[p].device
        /\ UNCHANGED <<planHome, planLost, planAlgorithms, planTasks, planUses, planLinks>>
    BY <1>4 DEF DeleteDevice, Checked, Areas
  <2>2. Devices' = Devices \ {planDo[p].device} /\ \A d \in Devices' : planArea'[d] = planArea[d]
    BY <2>1 DEF Devices
  <2> QED BY <2>1, <2>2 DEF Referenced
<1>5. CASE SaveGB(p) /\ ~(planDo[p].new /\ planDo[p].device \in DOMAIN planHome)
  <2>1. /\ planHome' = WithRow(planHome, planDo[p].device, planDo[p].area)
        /\ planDo[p].device \in PlanGB /\ planDo[p].area \in Areas \cup planLost
        /\ Areas' = Areas /\ Devices' = Devices
        /\ UNCHANGED <<planArea, planLost, planAlgorithms, planTasks, planUses, planLinks>>
    BY <1>5 DEF SaveGB, Checked, Areas, Devices
  <2>2. /\ DOMAIN planHome' = DOMAIN planHome \cup {planDo[p].device}
        /\ planHome'[planDo[p].device] = planDo[p].area
        /\ \A d \in DOMAIN planHome : d # planDo[p].device => planHome'[d] = planHome[d]
    BY <2>1 DEF WithRow
  <2> QED BY <2>1, <2>2 DEF Referenced
<1> QED BY <1>1, <1>2, <1>3, <1>4, <1>5

\* What is done to the row of a GB28181 device without a request that checks, and its
\* source following it.
LEMMA SignalsReferenced ==
  ASSUME Referenced, NEW d \in PlanGB, HearGB(d) \/ SyncGB(d) \/ DeleteGB(d)
  PROVE  Referenced'
<1> USE DEF planTables
<1>1. CASE HearGB(d)
  <2>1. /\ planHome' = WithRow(planHome, d, Root) /\ Root \in Areas /\ Areas' = Areas /\ Devices' = Devices
        /\ UNCHANGED <<planArea, planLost, planAlgorithms, planTasks, planUses, planLinks>>
    BY <1>1 DEF HearGB, Areas, Devices
  <2>2. /\ DOMAIN planHome' = DOMAIN planHome \cup {d} /\ planHome'[d] = Root
        /\ \A e \in DOMAIN planHome : e # d => planHome'[e] = planHome[e]
    BY <2>1 DEF WithRow
  <2> QED BY <2>1, <2>2 DEF Referenced
<1>2. CASE SyncGB(d)
  <2>1. /\ d \in DOMAIN planHome /\ planArea' = WithRow(planArea, d, planHome[d]) /\ Areas' = Areas
        /\ UNCHANGED <<planHome, planLost, planAlgorithms, planTasks, planUses, planLinks>>
    BY <1>2 DEF SyncGB, Areas
  <2>2. /\ Devices' = Devices \cup {d} /\ planArea'[d] = planHome[d]
        /\ \A e \in Devices : e # d => planArea'[e] = planArea[e]
    BY <2>1 DEF WithRow, Devices
  <2> QED BY <2>1, <2>2 DEF Referenced
<1>3. CASE DeleteGB(d)
  <2>1. /\ planHome' = [e \in DOMAIN planHome \ {d} |-> planHome[e]]
        /\ planArea' = [e \in Devices \ {d} |-> planArea[e]] /\ Areas' = Areas
        /\ \A u \in planUses : u[2] # d
        /\ UNCHANGED <<planLost, planAlgorithms, planTasks, planUses, planLinks>>
    BY <1>3 DEF DeleteGB, Areas
  <2>2. Devices' = Devices \ {d} /\ \A e \in Devices' : planArea'[e] = planArea[e]
    BY <2>1 DEF Devices
  <2>3. \A e \in DOMAIN planHome' : e \in DOMAIN planHome /\ planHome'[e] = planHome[e]
    BY <2>1
  <2> QED BY <2>1, <2>2, <2>3 DEF Referenced
<1> QED BY <1>1, <1>2, <1>3

\* The algorithms, and what a task has.
LEMMA TasksReferenced ==
  ASSUME Referenced, NEW p \in PlanRequests, Checked(p),
         \/ AddAlgorithm(p) \/ DeleteAlgorithm(p) \/ SaveQuick(p) \/ DeleteTask(p)
         \/ SaveTask(p) /\ Fits(planDo[p].task, planDo[p].config)
  PROVE  Referenced'
<1> USE DEF planTables, planPlaces
<1> DEFINE t == planDo[p].task
<1>0. (UNCHANGED <<planParent, planArea, planHome, planLost>>) /\ Devices' = Devices /\ Areas' = Areas
  BY DEF AddAlgorithm, DeleteAlgorithm, SaveQuick, DeleteTask, SaveTask, RolledBack, planRows, Devices, Areas
<1>1. CASE AddAlgorithm(p)
  BY <1>0, <1>1 DEF AddAlgorithm, Referenced
<1>2. CASE DeleteAlgorithm(p)
  BY <1>0, <1>2 DEF DeleteAlgorithm, Referenced, Checked
<1>3. CASE SaveQuick(p)
  <2> DEFINE d == planDo[p].device
  <2>1. /\ planUses' = planUses /\ planAlgorithms' = planAlgorithms /\ planTasks' = planTasks
        /\ planLinks' = {l \in planLinks : <<l[1], l[2]>> # <<t, d>>}
                          \cup {<<t, d, g>> : g \in planDo[p].algorithms}
        /\ <<t, d>> \in planUses /\ planDo[p].algorithms \subseteq planAlgorithms
    BY <1>3 DEF SaveQuick, Checked
  <2>2. \A l \in planLinks' : <<l[1], l[2]>> \in planUses /\ l[3] \in planAlgorithms
    <3>1. \A l \in planLinks : <<l[1], l[2]>> \in planUses /\ l[3] \in planAlgorithms
      BY DEF Referenced
    <3>2. ASSUME NEW l \in planLinks', l \notin planLinks
          PROVE  <<l[1], l[2]>> \in planUses /\ l[3] \in planAlgorithms
      <4>1. PICK g \in planDo[p].algorithms : l = <<t, d, g>>
        BY <2>1, <3>2
      <4>2. l[1] = t /\ l[2] = d /\ l[3] = g
        BY <4>1
      <4> HIDE DEF t, d
      <4> QED BY <2>1, <4>2
    <3> QED BY <3>1, <3>2
  <2> QED BY <1>0, <2>1, <2>2 DEF Referenced
<1>4. CASE DeleteTask(p)
  <2>1. /\ planTasks' = planTasks \ {t} /\ planAlgorithms' = planAlgorithms
        /\ planUses' = {u \in planUses : u[1] # t} /\ planLinks' = {l \in planLinks : l[1] # t}
    BY <1>4 DEF DeleteTask, Of
  <2> QED BY <1>0, <2>1 DEF Referenced
<1>5. CASE SaveTask(p) /\ Fits(planDo[p].task, planDo[p].config)
  <2> DEFINE config == planDo[p].config
  <2>1. /\ planTasks' = IF planDo[p].new THEN planTasks \cup {t} ELSE planTasks
        /\ planAlgorithms' = planAlgorithms
        /\ planUses' = {u \in planUses : u[1] # t} \cup {<<t, c[1]>> : c \in config}
        /\ planLinks' = {l \in planLinks : l[1] # t} \cup {<<t, c[1], c[2]>> : c \in config}
    BY <1>5 DEF SaveTask, Of
  <2>2. /\ t \in planTasks' /\ planTasks \subseteq planTasks'
        /\ \A c \in config : c[1] \in Devices /\ c[2] \in planAlgorithms
    BY <1>5, <2>1 DEF SaveTask, Checked
  <2>3. \A u \in planUses' : u = <<u[1], u[2]>> /\ u[1] \in planTasks' /\ u[2] \in Devices
    BY <2>1, <2>2 DEF Referenced
  <2>4. \A l \in planLinks' : <<l[1], l[2]>> \in planUses' /\ l[3] \in planAlgorithms
    <3>1. ASSUME NEW l \in planLinks, l[1] # t
          PROVE  <<l[1], l[2]>> \in planUses' /\ l[3] \in planAlgorithms
      BY <2>1, <3>1 DEF Referenced
    <3>2. ASSUME NEW c \in config
          PROVE  <<t, c[1]>> \in planUses' /\ c[2] \in planAlgorithms
      BY <2>1, <2>2
    <3>3. ASSUME NEW l \in planLinks', ~(l \in planLinks /\ l[1] # t)
          PROVE  <<l[1], l[2]>> \in planUses' /\ l[3] \in planAlgorithms
      <4>1. PICK c \in config : l = <<t, c[1], c[2]>>
        BY <2>1, <3>3
      <4>2. l[1] = t /\ l[2] = c[1] /\ l[3] = c[2]
        BY <4>1
      <4> HIDE DEF t, config
      <4> QED BY <3>2, <4>2
    <3> QED BY <3>1, <3>3
  <2> QED BY <1>0, <2>1, <2>3, <2>4 DEF Referenced
<1> QED BY <1>1, <1>2, <1>3, <1>4, <1>5

\* As long as no request commits on checks that another has overtaken, every row that is
\* named is there, for any number of areas, devices, tasks and requests under way, but for
\* an area that was deleted while the row of a GB28181 device named it.
THEOREM NothingDangles == PlanSpec => []ReferencesKept
<1>1. PlanInit => PlanInv
  <2> SUFFICES ASSUME PlanInit PROVE PlanInv
    OBVIOUS
  <2>1. PICK area \in PlanAreas : /\ planParent = [a \in {area} |-> Root] /\ planArea = [d \in PlanDevices |-> area]
                                 /\ planHome = [d \in PlanGB |-> area]
    BY DEF PlanInit
  <2>2. DOMAIN planParent = {area}
    BY <2>1
  <2>3. /\ planUses = planTasks \X PlanDevices /\ planAlgorithms = PlanAlgorithms
        /\ planLinks = planTasks \X PlanDevices \X PlanAlgorithms
    BY DEF PlanInit
  <2>4. Referenced
    <3>1. \A l \in planLinks : <<l[1], l[2]>> \in planUses /\ l[3] \in planAlgorithms
      BY <2>3
    <3>2. \A u \in planUses : u = <<u[1], u[2]>> /\ u[1] \in planTasks /\ u[2] \in Devices
      BY <2>1, <2>3 DEF Devices
    <3>3. \A d \in Devices : planArea[d] \in Areas
      BY <2>1, <2>2 DEF Devices, Areas
    <3>4. \A d \in DOMAIN planHome : d \in PlanGB /\ planHome[d] \in Areas
      BY <2>1, <2>2 DEF Areas
    <3> QED BY <3>1, <3>2, <3>3, <3>4 DEF Referenced
  <2>5. \A p \in PlanRequests : Checked(p)
    BY DEF PlanInit, Idle, Checked
  <2>6. planDo = [p \in PlanRequests |-> planDo[p]]
    BY DEF PlanInit
  <2> QED BY <2>4, <2>5, <2>6 DEF PlanInv
<1>2. PlanInv /\ [PlanNext]_planVars => PlanInv'
  <2> SUFFICES ASSUME PlanInv, [PlanNext]_planVars PROVE PlanInv'
    OBVIOUS
  <2>1. CASE UNCHANGED planVars
    BY <2>1 DEF planVars, planRows, planPlaces, planTables, PlanInv, Referenced, Checked, Devices, Areas
  <2>2. ASSUME NEW p \in PlanRequests, AskArea(p) \/ AskAlgorithm(p) \/ AskDeleteTask(p)
        PROVE  PlanInv'
    <3>1. CASE AskArea(p)
      <4>1. PICK area, parent : Asked(p, [kind |-> "area", area |-> area, parent |-> parent])
        BY <3>1 DEF AskArea
      <4> QED BY <4>1, PlanAsked
    <3>2. CASE AskAlgorithm(p)
      BY <3>2, PlanAsked DEF AskAlgorithm
    <3>3. CASE AskDeleteTask(p)
      BY <3>3, PlanAsked DEF AskDeleteTask
    <3> QED BY <2>2, <3>1, <3>2, <3>3
  <2>3. ASSUME NEW p \in PlanRequests,
               AskDeleteArea(p) \/ AskDevice(p) \/ AskDeleteDevice(p) \/ AskDeleteAlgorithm(p) \/ AskGB(p)
        PROVE  PlanInv'
    <3>1. CASE AskDeleteArea(p)
      BY <3>1, PlanAsked DEF AskDeleteArea
    <3>2. CASE AskDevice(p)
      BY <3>2, PlanAsked DEF AskDevice
    <3>3. CASE AskDeleteDevice(p)
      BY <3>3, PlanAsked DEF AskDeleteDevice
    <3>4. CASE AskDeleteAlgorithm(p)
      BY <3>4, PlanAsked DEF AskDeleteAlgorithm
    <3>5. CASE AskGB(p)
      <4>0. PICK d \in PlanGB : \E area \in Areas \cup {planHome[e] : e \in DOMAIN planHome \cap {d}} :
              Asked(p, [kind |-> "gb", device |-> d, new |-> d \notin DOMAIN planHome, area |-> area])
        BY <3>5 DEF AskGB
      <4>1. PICK area \in Areas \cup {planHome[e] : e \in DOMAIN planHome \cap {d}} :
              Asked(p, [kind |-> "gb", device |-> d, new |-> d \notin DOMAIN planHome, area |-> area])
        BY <4>0
      <4>2. ~planCrossed => area \in Areas \cup planLost
        BY DEF PlanInv, Referenced
      <4> DEFINE request == [kind |-> "gb", device |-> d, new |-> d \notin DOMAIN planHome, area |-> area]
      <4>3. request.kind = "gb" /\ request.device = d /\ request.area = area
        OBVIOUS
      <4>4. Asked(p, request)
        BY <4>1
      <4> HIDE DEF request
      <4> QED BY <4>2, <4>3, <4>4, PlanAsked
    <3> QED BY <2>3, <3>1, <3>2, <3>3, <3>4, <3>5
  <2>4. ASSUME NEW p \in PlanRequests, AskTask(p)
        PROVE  PlanInv'
    <3>1. PICK t \in PlanTasks, config \in Configs :
            /\ \A c \in config : c[1] \in Devices /\ c[2] \in planAlgorithms
            /\ Asked(p, [kind |-> "task", task |-> t, new |-> t \notin planTasks, config |-> config])
      BY <2>4 DEF AskTask, Valid
    <3> DEFINE request == [kind |-> "task", task |-> t, new |-> t \notin planTasks, config |-> config]
    <3>2. /\ request.kind = "task" /\ request.config = config /\ request.task = t
          /\ ~request.new => t \in planTasks
      OBVIOUS
    <3>3. Asked(p, request)
      BY <3>1
    <3> HIDE DEF request
    <3> QED BY <3>1, <3>2, <3>3, PlanAsked
  <2>5. ASSUME NEW p \in PlanRequests, AskQuick(p)
        PROVE  PlanInv'
    <3>1. PICK u \in planUses, algorithms \in SUBSET planAlgorithms \ {{}} :
            Asked(p, [kind |-> "quick", task |-> u[1], device |-> u[2], algorithms |-> algorithms])
      BY <2>5 DEF AskQuick
    <3>2. ~planCrossed => <<u[1], u[2]>> \in planUses
      BY DEF PlanInv, Referenced
    <3> DEFINE request == [kind |-> "quick", task |-> u[1], device |-> u[2], algorithms |-> algorithms]
    <3>3. /\ request.kind = "quick" /\ request.task = u[1] /\ request.device = u[2]
          /\ request.algorithms = algorithms
      OBVIOUS
    <3>4. Asked(p, request)
      BY <3>1
    <3> HIDE DEF request
    <3> QED BY <3>1, <3>2, <3>3, <3>4, PlanAsked
  <2>6. ASSUME NEW p \in PlanRequests,
               \/ SaveArea(p) \/ DeleteArea(p) \/ SaveDevice(p) \/ DeleteDevice(p)
               \/ AddAlgorithm(p) \/ DeleteAlgorithm(p) \/ SaveQuick(p) \/ DeleteTask(p)
               \/ SaveTask(p) /\ Fits(planDo[p].task, planDo[p].config)
               \/ SaveGB(p) /\ ~(planDo[p].new /\ planDo[p].device \in DOMAIN planHome)
        PROVE  PlanInv'
    <3>1. Referenced /\ Checked(p) => Referenced'
      BY <2>6, PlacesReferenced, TasksReferenced
    <3>2. Committed(p) /\ planDo[p].kind # "idle"
      BY <2>6 DEF SaveArea, DeleteArea, SaveDevice, DeleteDevice, AddAlgorithm, DeleteAlgorithm,
                  SaveQuick, DeleteTask, SaveTask, SaveGB
    <3> QED BY <3>1, <3>2, PlanCommits
  <2>7. ASSUME NEW p \in PlanRequests,
               \/ SaveTask(p) /\ ~Fits(planDo[p].task, planDo[p].config)
               \/ SaveGB(p) /\ planDo[p].new /\ planDo[p].device \in DOMAIN planHome
        PROVE  PlanInv'
    <3>1. RolledBack(p)
      BY <2>7 DEF SaveTask, SaveGB
    <3>2. /\ planDo' = [planDo EXCEPT ![p] = Idle] /\ planStale' = planStale /\ planCrossed' = planCrossed
          /\ UNCHANGED <<planParent, planArea, planHome, planLost, planAlgorithms, planTasks, planUses, planLinks>>
      BY <3>1 DEF RolledBack, planRows, planPlaces, planTables
    <3>3. /\ planDo' = [q \in PlanRequests |-> planDo'[q]] /\ planDo'[p].kind = "idle"
          /\ \A q \in PlanRequests \ {p} : planDo'[q] = planDo[q]
      BY <3>2 DEF PlanInv, Idle
    <3>4. (Referenced' <=> Referenced) /\ Devices' = Devices /\ Areas' = Areas
      BY <3>2 DEF Referenced, Devices, Areas
    <3>5. ASSUME NEW q \in PlanRequests, q # p => Checked(q)
          PROVE  Checked(q)'
      BY <3>2, <3>3, <3>4, <3>5 DEF Checked
    <3> QED BY <3>2, <3>3, <3>4, <3>5 DEF PlanInv
  <2>8. ASSUME NEW d \in PlanGB, HearGB(d) \/ SyncGB(d) \/ DeleteGB(d)
        PROVE  PlanInv'
    <3>1. Overtaking
      BY <2>8 DEF HearGB, SyncGB, DeleteGB
    <3> QED BY <2>8, <3>1, SignalsReferenced, PlanOvertaken
  <2> QED BY <2>1, <2>2, <2>3, <2>4, <2>5, <2>6, <2>7, <2>8 DEF PlanNext
<1>3. PlanInv => ReferencesKept
  BY DEF PlanInv, Referenced, ReferencesKept
<1> QED BY <1>1, <1>2, <1>3, PTL DEF PlanSpec
=============================================================================
