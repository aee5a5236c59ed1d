---------------------------- MODULE AlgorithmStore ----------------------------
(* Algorithms, the versions of their prompts and the model providers               *)
(* (algorithms.go): requests that look at the rows first and write them later,     *)
(* some in a transaction, some without one.                                        *)
EXTENDS Naturals, FiniteSets

CONSTANTS
  StoreNames, StoreCodes, StoreVersions,
  StoreProviders,    \* providers there may be
  StoreRequests,     \* requests under way at once
  MaxStoreRequests   \* bound: requests

VARIABLES
  storeAlgorithms,   \* algorithm id -> its name, code and provider
  storePrompts,      \* prompt id -> its algorithm, version and is_active
  storeProviders,
  storeBorn,         \* ids given out so far, to algorithms and prompts
  storeDo,           \* a request that has made its checks, or NoRequest
  storeStale,        \* requests whose checks are older than another's commit
  storeCrossed,      \* history: one of those has committed
  storeCount

storeRows == <<storeAlgorithms, storePrompts, storeProviders, storeBorn>>
storeVars == <<storeRows, storeDo, storeStale, storeCrossed, storeCount>>

ASSUME StoreAssumption ==
  /\ MaxStoreRequests \in Nat /\ "none" \notin StoreProviders
  /\ StoreNames # {} /\ StoreCodes # {} /\ StoreVersions # {}

NoRequest == [kind |-> "none"]
NoProvider == "none"
Algorithms == DOMAIN storeAlgorithms
Prompts == DOMAIN storePrompts
AlgorithmRow(name, code) == [name |-> name, code |-> code, provider |-> NoProvider]
Prompt(g, version, active) == [of |-> g, version |-> version, active |-> active]
\* A row is saved, among the others of its table.
Saved(rows, id, row) == [x \in DOMAIN rows \cup {id} |-> IF x = id THEN row ELSE rows[x]]
ActiveOf(g) == {x \in Prompts : storePrompts[x].of = g /\ storePrompts[x].active}

\* Algorithms are written without a provider; one of an older version may have one.
StoreInit ==
  /\ storeProviders = StoreProviders
  /\ \E provider \in StoreProviders \cup {NoProvider} :
       storeAlgorithms = [g \in {1} |-> [AlgorithmRow(CHOOSE n \in StoreNames : TRUE, CHOOSE c \in StoreCodes : TRUE)
                                            EXCEPT !.provider = provider]]
  /\ storePrompts = [x \in {1} |-> Prompt(1, CHOOSE v \in StoreVersions : TRUE, TRUE)]
  /\ storeBorn = 1
  /\ storeDo = [p \in StoreRequests |-> NoRequest] /\ storeStale = {} /\ storeCrossed = FALSE
  /\ storeCount = 0

StoreAsked(p, request) ==
  /\ storeDo[p] = NoRequest /\ storeCount < MaxStoreRequests /\ storeCount' = storeCount + 1
  /\ storeDo' = [storeDo EXCEPT ![p] = request] /\ storeStale' = storeStale \ {p}
  /\ UNCHANGED <<storeRows, storeCrossed>>

StoreCommitted(p) ==
  /\ storeDo' = [storeDo EXCEPT ![p] = NoRequest]
  /\ storeStale' = {q \in StoreRequests \ {p} : storeDo[q] # NoRequest}
  /\ storeCrossed' = (storeCrossed \/ p \in storeStale)
  /\ UNCHANGED storeCount

StoreFailed(p) ==
  /\ storeDo' = [storeDo EXCEPT ![p] = NoRequest]
  /\ UNCHANGED <<storeRows, storeStale, storeCrossed, storeCount>>
-----------------------------------------------------------------------------
(* Algorithms.                                                             *)

\* ensureAlgorithmCodeUnique: no index keeps the codes apart; 0 excludes nothing.
CodeFree(code, self) == \A g \in Algorithms \ {self} : storeAlgorithms[g].code # code

\* ensureAlgorithmNameUnique, and the index on the name.
NameFits(name, self) == \A g \in Algorithms \ {self} : storeAlgorithms[g].name # name

\* createAlgorithm, with a prompt if it comes with one.  The import of a new code has none,
\* and leaves the name to the index.
AskCreate(p) ==
  \E name \in StoreNames, code \in StoreCodes, prompt \in {"without", "active", "inactive"} :
    /\ CodeFree(code, 0) /\ (prompt = "without" \/ NameFits(name, 0))
    /\ StoreAsked(p, [kind |-> "create", name |-> name, code |-> code, prompt |-> prompt])

\* A transaction of both.
CreateAlgorithm(p) ==
  /\ storeDo[p].kind = "create"
  /\ LET r == storeDo[p]
         id == storeBorn + 1
     IN \/ /\ NameFits(r.name, 0)
           /\ storeBorn' = id
           /\ storeAlgorithms' = Saved(storeAlgorithms, id, AlgorithmRow(r.name, r.code))
           /\ \/ r.prompt = "without" /\ UNCHANGED storePrompts
              \/ /\ r.prompt # "without"
                 /\ \E v \in StoreVersions :
                      storePrompts' = Saved(storePrompts, id, Prompt(id, v, r.prompt = "active"))
           /\ UNCHANGED storeProviders /\ StoreCommitted(p)
        \/ ~NameFits(r.name, 0) /\ StoreFailed(p)

\* updateAlgorithm of one that is there, and the import of a code that is there.
AskUpdate(p) ==
  \E g \in Algorithms, name \in StoreNames, code \in StoreCodes, kind \in {"update", "import"} :
    /\ CodeFree(code, g)
    /\ IF kind = "import" THEN storeAlgorithms[g].code = code ELSE NameFits(name, g)
    /\ StoreAsked(p, [kind |-> kind, algorithm |-> g, name |-> name, code |-> code])

\* Updates changes the row if it is still there.  Of a struct it leaves out what is empty,
\* the provider here; the import selects every column.
UpdateAlgorithm(p) ==
  /\ storeDo[p].kind \in {"update", "import"}
  /\ LET r == storeDo[p]
         g == r.algorithm
     IN IF g \notin Algorithms THEN UNCHANGED storeRows /\ StoreCommitted(p)
        ELSE \/ /\ NameFits(r.name, g)
                /\ storeAlgorithms' = [storeAlgorithms EXCEPT ![g] =
                     [AlgorithmRow(r.name, r.code) EXCEPT !.provider = IF r.kind = "import" THEN NoProvider ELSE storeAlgorithms[g].provider]]
                /\ UNCHANGED <<storePrompts, storeProviders, storeBorn>> /\ StoreCommitted(p)
             \/ ~NameFits(r.name, g) /\ StoreFailed(p)

\* deleteAlgorithm, of one no task uses (TaskPlans): its prompts stay.
AskDelete(p) == \E g \in Algorithms : StoreAsked(p, [kind |-> "delete", algorithm |-> g])
DeleteAlgorithmRow(p) ==
  /\ storeDo[p].kind = "delete"
  /\ storeAlgorithms' = [g \in Algorithms \ {storeDo[p].algorithm} |-> storeAlgorithms[g]]
  /\ UNCHANGED <<storePrompts, storeProviders, storeBorn>> /\ StoreCommitted(p)
-----------------------------------------------------------------------------
(* Prompts.                                                                *)

\* ensurePromptVersionUnique, in the transaction that writes the version.
VersionFree(g, v, self) ==
  \A x \in Prompts \ {self} : ~(storePrompts[x].of = g /\ storePrompts[x].version = v)

\* The others of the algorithm are switched off in the transaction that switches one on.
\* Mutant: they are not.
Kept(g, active) == storePrompts

Others(g, active) ==
  [x \in Prompts |-> [storePrompts[x] EXCEPT !.active = @ /\ ~(active /\ storePrompts[x].of = g)]]

\* createAlgorithmPrompt: one transaction, and nobody asks whether the algorithm is there.
CreatePrompt(p) ==
  \E g \in 1 .. storeBorn, v \in StoreVersions, active \in BOOLEAN :
    /\ storeDo[p] = NoRequest /\ storeCount < MaxStoreRequests /\ storeCount' = storeCount + 1
    /\ VersionFree(g, v, 0)
    /\ storeBorn' = storeBorn + 1
    /\ storePrompts' = Saved(Others(g, active), storeBorn', Prompt(g, v, active))
    /\ storeStale' = {q \in StoreRequests : storeDo[q] # NoRequest}
    /\ UNCHANGED <<storeAlgorithms, storeProviders, storeDo, storeCrossed>>

\* updateAlgorithmPrompt: the row is read before the transaction, and saved in it, also
\* when it is gone.
AskUpdatePrompt(p) ==
  \E x \in Prompts, v \in StoreVersions, active \in BOOLEAN :
    StoreAsked(p, [kind |-> "updatePrompt", prompt |-> x, of |-> storePrompts[x].of, version |-> v, active |-> active])
UpdatePrompt(p) ==
  /\ storeDo[p].kind = "updatePrompt"
  /\ LET r == storeDo[p]
     IN \/ /\ VersionFree(r.of, r.version, r.prompt)
           /\ storePrompts' = Saved(Others(r.of, r.active), r.prompt, Prompt(r.of, r.version, r.active))
           /\ UNCHANGED <<storeAlgorithms, storeProviders, storeBorn>> /\ StoreCommitted(p)
        \/ ~VersionFree(r.of, r.version, r.prompt) /\ StoreFailed(p)

\* deleteAlgorithmPrompt: whether it is active is asked before.  Mutant: it is not.
AskDeleteAnyPrompt(p) == \E x \in Prompts : StoreAsked(p, [kind |-> "deletePrompt", prompt |-> x])

AskDeletePrompt(p) ==
  \E x \in Prompts : ~storePrompts[x].active /\ StoreAsked(p, [kind |-> "deletePrompt", prompt |-> x])
DeletePrompt(p) ==
  /\ storeDo[p].kind = "deletePrompt"
  /\ storePrompts' = [x \in Prompts \ {storeDo[p].prompt} |-> storePrompts[x]]
  /\ UNCHANGED <<storeAlgorithms, storeProviders, storeBorn>> /\ StoreCommitted(p)

\* activateAlgorithmPrompt: the others are off, and this one is on if it is still there.
AskActivate(p) ==
  \E x \in Prompts : StoreAsked(p, [kind |-> "activate", prompt |-> x, of |-> storePrompts[x].of])
Activate(p) ==
  /\ storeDo[p].kind = "activate"
  /\ LET r == storeDo[p]
         off == Others(r.of, TRUE)
     IN storePrompts' = [x \in Prompts |-> [off[x] EXCEPT !.active = @ \/ x = r.prompt]]
  /\ UNCHANGED <<storeAlgorithms, storeProviders, storeBorn>> /\ StoreCommitted(p)
-----------------------------------------------------------------------------
(* Model providers: createModelProvider, updateModelProvider, deleteModelProvider. *)

AskProvider(p) ==
  \/ \E m \in StoreProviders : StoreAsked(p, [kind |-> "provider", provider |-> m])
  \/ \E m \in storeProviders :
       /\ \A g \in Algorithms : storeAlgorithms[g].provider # m
       /\ StoreAsked(p, [kind |-> "deleteProvider", provider |-> m])
SaveProvider(p) ==
  /\ storeDo[p].kind \in {"provider", "deleteProvider"}
  /\ storeProviders' = IF storeDo[p].kind = "provider" THEN storeProviders \cup {storeDo[p].provider}
                       ELSE storeProviders \ {storeDo[p].provider}
  /\ UNCHANGED <<storeAlgorithms, storePrompts, storeBorn>> /\ StoreCommitted(p)
-----------------------------------------------------------------------------
StoreNext ==
  \E p \in StoreRequests :
    \/ AskCreate(p) \/ CreateAlgorithm(p) \/ AskUpdate(p) \/ UpdateAlgorithm(p)
    \/ AskDelete(p) \/ DeleteAlgorithmRow(p)
    \/ CreatePrompt(p) \/ AskUpdatePrompt(p) \/ UpdatePrompt(p)
    \/ AskDeletePrompt(p) \/ DeletePrompt(p) \/ AskActivate(p) \/ Activate(p)
    \/ AskProvider(p) \/ SaveProvider(p)

StoreSpec == StoreInit /\ [][StoreNext]_storeVars
-----------------------------------------------------------------------------
(* Properties.                                                             *)

\* An algorithm has at most one active prompt, however the requests overlap (the test of
\* an algorithm and the prompt of a task take the first one they find).
OneActivePrompt == \A g \in 1 .. storeBorn : Cardinality(ActiveOf(g)) <= 1

\* An algorithm that has an active prompt keeps one until an update switches it off
\* (docs/backend-api-v1.md:293: an active version cannot be deleted, another has to be
\* switched to first) - as long as no request commits on checks that another has
\* overtaken: a deletion that a switch has overtaken deletes the active one.
ActiveKept ==
  [][\A g \in 1 .. storeBorn :
       ActiveOf(g) # {} => \/ ActiveOf(g)' # {} \/ storeCrossed'
                           \/ \E p \in StoreRequests : /\ storeDo[p].kind = "updatePrompt" /\ ~storeDo[p].active
                                                       /\ storeDo'[p] = NoRequest]_storeVars
=============================================================================
