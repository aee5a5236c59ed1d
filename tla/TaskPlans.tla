------------------------------- MODULE TaskPlans -------------------------------
(* What belongs to what (areas.go, devices.go, devices_gb28181.go, tasks.go,        *)
(* algorithms.go): areas, devices, tasks, the devices a task has and the algorithms *)
(* that look at them, and the older tables that repeat the two.  A device is a row  *)
(* of media_sources; one of a GB28181 device has its area from the device's own row *)
(* too (gb28181_runtime.go).  There are no foreign keys: a request checks the rows  *)
(* it names, and commits later, in one transaction.                                 *)
EXTENDS Naturals, FiniteSets

CONSTANTS
  PlanAreas, PlanDevices, PlanTasks, PlanAlgorithms,  \* rows that may be there
  PlanGB,           \* the devices that are sources of GB28181 devices
  PlanRequests,     \* requests under way at once
  MaxPlanRequests   \* bound: requests

VARIABLES
  planParent,       \* an area's parent, of the areas there are
  planArea,         \* a device's area, of the devices there are
  planHome,         \* the area in the row of a GB28181 device, of those there are
  planLost,         \* history: areas that were deleted while such a row named them
  planAlgorithms, planTasks,
  planUses,         \* video_task_device_profiles: <<task, device>>
  planLinks,        \* video_task_device_algorithms: <<task, device, algorithm>>
  planDevicesOf,    \* video_task_devices: <<task, device>>
  planAlgorithmsOf, \* video_task_algorithms: <<task, algorithm>>
  planDo,           \* a request that has made its checks, or Idle
  planStale,        \* requests whose checks are older than another's commit
  planCrossed,      \* history: one of those has committed
  planCount

planPlaces == <<planParent, planArea, planHome, planLost>>
planTables == <<planUses, planLinks, planDevicesOf, planAlgorithmsOf>>
planRows == <<planPlaces, planAlgorithms, planTasks, planTables>>
planVars == <<planRows, planDo, planStale, planCrossed, planCount>>

ASSUME PlanAssumption ==
  /\ MaxPlanRequests \in Nat /\ IsFiniteSet(PlanAlgorithms) /\ PlanAreas # {} /\ PlanTasks # {}
  /\ PlanDevices # {} /\ PlanGB \subseteq PlanDevices
  /\ "root" \notin PlanAreas

Root == "root"
Areas == {Root} \cup DOMAIN planParent
Devices == DOMAIN planArea
Idle == [kind |-> "idle"]
\* A column of a row is written, of a new row or of one that is there.
WithRow(column, row, value) == [x \in DOMAIN column \cup {row} |-> IF x = row THEN value ELSE column[x]]
\* What a task may be asked to watch: devices and algorithms, the same of each device (a
\* quick update makes them differ).
Configs == {devices \X algorithms : devices \in SUBSET PlanDevices \ {{}}, algorithms \in SUBSET PlanAlgorithms \ {{}}}

PlanInit ==
  /\ \E area \in PlanAreas :
       /\ planParent = [a \in {area} |-> Root]
       /\ planArea = [d \in PlanDevices |-> area] /\ planHome = [d \in PlanGB |-> area]
  /\ planLost = {}
  /\ planAlgorithms = PlanAlgorithms
  /\ \/ planTasks = {}
     \/ planTasks = {CHOOSE t \in PlanTasks : TRUE}
  /\ planUses = planTasks \X PlanDevices
  /\ planLinks = planTasks \X PlanDevices \X PlanAlgorithms
  /\ planDevicesOf = planUses /\ planAlgorithmsOf = planTasks \X PlanAlgorithms
  /\ planDo = [p \in PlanRequests |-> Idle] /\ planStale = {} /\ planCrossed = FALSE
  /\ planCount = 0

Asked(p, request) ==
  /\ planDo[p] = Idle /\ planCount < MaxPlanRequests /\ planCount' = planCount + 1
  /\ planDo' = [planDo EXCEPT ![p] = request] /\ planStale' = planStale \ {p}
  /\ UNCHANGED <<planRows, planCrossed>>

\* The rows change: whoever has made his checks has made them on other rows.
Committed(p) ==
  /\ planDo' = [planDo EXCEPT ![p] = Idle]
  /\ planStale' = {q \in PlanRequests \ {p} : planDo[q] # Idle}
  /\ planCrossed' = (planCrossed \/ p \in planStale)
  /\ UNCHANGED planCount

\* The same for what looks at nothing before its transaction.
Overtaking ==
  /\ planStale' = {q \in PlanRequests : planDo[q] # Idle}
  /\ UNCHANGED <<planDo, planCrossed>>

\* The transaction fails, and nothing has happened.
RolledBack(p) ==
  /\ planDo' = [planDo EXCEPT ![p] = Idle]
  /\ UNCHANGED <<planRows, planStale, planCrossed, planCount>>
-----------------------------------------------------------------------------
(* Areas: createArea looks for the parent, updateArea does not.            *)

AskArea(p) ==
  \E area \in PlanAreas :
    \/ \E parent \in Areas : area \notin Areas /\ Asked(p, [kind |-> "area", area |-> area, parent |-> parent])
    \/ \E parent \in {Root} \cup (PlanAreas \ {area}) :
         area \in Areas /\ Asked(p, [kind |-> "area", area |-> area, parent |-> parent])

\* An update saves the row, also when it is gone by then.
SaveArea(p) ==
  /\ planDo[p].kind = "area"
  /\ planParent' = WithRow(planParent, planDo[p].area, planDo[p].parent)
  /\ planLost' = planLost \ {planDo[p].area}
  /\ UNCHANGED <<planArea, planHome, planAlgorithms, planTasks, planTables>> /\ Committed(p)

\* The sources are asked, and not the rows of the GB28181 devices.
AskDeleteArea(p) ==
  \E area \in DOMAIN planParent :
    /\ \A d \in Devices : planArea[d] # area
    /\ \A child \in DOMAIN planParent : planParent[child] # area
    /\ Asked(p, [kind |-> "deleteArea", area |-> area])

DeleteArea(p) ==
  /\ planDo[p].kind = "deleteArea"
  /\ planParent' = [area \in DOMAIN planParent \ {planDo[p].area} |-> planParent[area]]
  /\ planLost' = planLost \cup ({planDo[p].area} \cap {planHome[d] : d \in DOMAIN planHome})
  /\ UNCHANGED <<planArea, planHome, planAlgorithms, planTasks, planTables>> /\ Committed(p)
-----------------------------------------------------------------------------
(* Devices and algorithms, as far as others name them.                     *)

\* createDevice and updateDevice: the area is looked for.  A source of a GB28181 device
\* is only updated, and the device's row keeps its area.
AskDevice(p) ==
  \E d \in PlanDevices, area \in Areas :
    (d \in PlanGB => d \in Devices) /\ Asked(p, [kind |-> "device", device |-> d, area |-> area])

SaveDevice(p) ==
  /\ planDo[p].kind = "device"
  /\ planArea' = WithRow(planArea, planDo[p].device, planDo[p].area)
  /\ UNCHANGED <<planParent, planHome, planLost, planAlgorithms, planTasks, planTables>> /\ Committed(p)

\* Mutant: the tasks are not asked.
AskDeleteAnyDevice(p) ==
  \E d \in Devices \ PlanGB : Asked(p, [kind |-> "deleteDevice", device |-> d])

AskDeleteDevice(p) ==
  \E d \in Devices \ PlanGB :
    /\ \A u \in planUses : u[2] # d
    /\ Asked(p, [kind |-> "deleteDevice", device |-> d])

DeleteDevice(p) ==
  /\ planDo[p].kind = "deleteDevice"
  /\ planArea' = [d \in Devices \ {planDo[p].device} |-> planArea[d]]
  /\ UNCHANGED <<planParent, planHome, planLost, planAlgorithms, planTasks, planTables>> /\ Committed(p)

AskAlgorithm(p) ==
  \E g \in PlanAlgorithms \ planAlgorithms : Asked(p, [kind |-> "algorithm", algorithm |-> g])
AddAlgorithm(p) ==
  /\ planDo[p].kind = "algorithm"
  /\ planAlgorithms' = planAlgorithms \cup {planDo[p].algorithm}
  /\ UNCHANGED <<planPlaces, planTasks, planTables>> /\ Committed(p)

\* deleteAlgorithm asks the links, not the older table.
AskDeleteAlgorithm(p) ==
  \E g \in planAlgorithms :
    /\ \A l \in planLinks : l[3] # g
    /\ Asked(p, [kind |-> "deleteAlgorithm", algorithm |-> g])

DeleteAlgorithm(p) ==
  /\ planDo[p].kind = "deleteAlgorithm"
  /\ planAlgorithms' = planAlgorithms \ {planDo[p].algorithm}
  /\ UNCHANGED <<planPlaces, planTasks, planTables>> /\ Committed(p)
-----------------------------------------------------------------------------
(* GB28181 devices.  Whoever writes such a row has the sources follow it, most in   *)
(* a transaction of its own.                                                        *)

\* createGBDevice and updateGBDevice: an area that is given is looked for; else an update
\* saves the one it has read.
AskGB(p) ==
  \E d \in PlanGB :
    \E area \in Areas \cup {planHome[e] : e \in DOMAIN planHome \cap {d}} :
      Asked(p, [kind |-> "gb", device |-> d, new |-> d \notin DOMAIN planHome, area |-> area])

SaveGB(p) ==
  /\ planDo[p].kind = "gb"
  /\ IF planDo[p].new /\ planDo[p].device \in DOMAIN planHome
     THEN RolledBack(p)
     ELSE /\ planHome' = WithRow(planHome, planDo[p].device, planDo[p].area)
          /\ UNCHANGED <<planParent, planArea, planLost, planAlgorithms, planTasks, planTables>> /\ Committed(p)

\* MarkRegistered, MarkKeepalive, UpsertCatalog: a device that is not known gets a row.
HearGB(d) ==
  /\ d \notin DOMAIN planHome /\ planHome' = WithRow(planHome, d, Root)
  /\ UNCHANGED <<planParent, planArea, planLost, planAlgorithms, planTasks, planTables, planCount>> /\ Overtaking

\* syncGBDeviceAndChannels, after each of these and any signal of the device: its sources
\* are made, or get its row's area, which is not looked for.
SyncGB(d) ==
  /\ d \in DOMAIN planHome /\ planArea' = WithRow(planArea, d, planHome[d]) /\ planArea' # planArea
  /\ UNCHANGED <<planParent, planHome, planLost, planAlgorithms, planTasks, planTables, planCount>> /\ Overtaking

\* deleteGBDevice: the tasks are asked in the transaction that deletes the rows.
DeleteGB(d) ==
  /\ d \in DOMAIN planHome /\ \A u \in planUses : u[2] # d
  /\ planCount < MaxPlanRequests /\ planCount' = planCount + 1
  /\ planHome' = [e \in DOMAIN planHome \ {d} |-> planHome[e]]
  /\ planArea' = [e \in Devices \ {d} |-> planArea[e]]
  /\ UNCHANGED <<planParent, planLost, planAlgorithms, planTasks, planTables>> /\ Overtaking
-----------------------------------------------------------------------------
(* Tasks.  One that runs refuses to be edited or deleted.                  *)

Of(t, table) == {row \in table : row[1] = t}

\* validateTaskInput: the devices and algorithms are there, and no other task has them.
Valid(t, config) ==
  \A c \in config : c[1] \in Devices /\ c[2] \in planAlgorithms /\ \A u \in planUses : u[1] = t \/ u[2] # c[1]

\* The index on a profile's device.
Fits(t, config) == \A c \in config, u \in planUses : u[1] = t \/ u[2] # c[1]

\* createTask for a task that is new, updateTask for one that is there.
AskTask(p) ==
  \E t \in PlanTasks, config \in Configs :
    Valid(t, config) /\ Asked(p, [kind |-> "task", task |-> t, new |-> t \notin planTasks, config |-> config])

\* The task's row, and saveTaskDeviceConfigs: an update finds no row to change when the
\* task is gone, and goes on.
SaveTask(p) ==
  /\ planDo[p].kind = "task"
  /\ LET t == planDo[p].task
         config == planDo[p].config
     IN \/ /\ Fits(t, config)
           /\ planTasks' = IF planDo[p].new THEN planTasks \cup {t} ELSE planTasks
           /\ planUses' = (planUses \ Of(t, planUses)) \cup {<<t, c[1]>> : c \in config}
           /\ planLinks' = (planLinks \ Of(t, planLinks)) \cup {<<t, c[1], c[2]>> : c \in config}
           /\ planDevicesOf' = (planDevicesOf \ Of(t, planDevicesOf)) \cup {<<t, c[1]>> : c \in config}
           /\ planAlgorithmsOf' = (planAlgorithmsOf \ Of(t, planAlgorithmsOf)) \cup {<<t, c[2]>> : c \in config}
           /\ UNCHANGED <<planPlaces, planAlgorithms>> /\ Committed(p)
        \/ ~Fits(t, config) /\ RolledBack(p)

\* quickUpdateTaskDeviceConfig: of one device of a task.
AskQuick(p) ==
  \E u \in planUses, algorithms \in SUBSET planAlgorithms \ {{}} :
    /\ u[1] \in planTasks
    /\ Asked(p, [kind |-> "quick", task |-> u[1], device |-> u[2], algorithms |-> algorithms])

\* rebuildTaskLegacyRelations: from the profiles and the links, as they are in the
\* transaction.  Mutant: the older tables are left as they are.
NotRebuilt(t) == UNCHANGED <<planDevicesOf, planAlgorithmsOf>>

Rebuilt(t) ==
  /\ planDevicesOf' = (planDevicesOf \ Of(t, planDevicesOf)) \cup Of(t, planUses')
  /\ planAlgorithmsOf' = (planAlgorithmsOf \ Of(t, planAlgorithmsOf))
                           \cup {<<t, l[3]>> : l \in Of(t, planLinks')}

\* The device's links are written, whether or not its profile, the task and the
\* algorithms are still there.
SaveQuick(p) ==
  /\ planDo[p].kind = "quick"
  /\ LET t == planDo[p].task
         d == planDo[p].device
     IN /\ planUses' = planUses
        /\ planLinks' = {l \in planLinks : <<l[1], l[2]>> # <<t, d>>}
                          \cup {<<t, d, g>> : g \in planDo[p].algorithms}
        /\ Rebuilt(t)
  /\ UNCHANGED <<planPlaces, planAlgorithms, planTasks>> /\ Committed(p)

AskDeleteTask(p) == \E t \in planTasks : Asked(p, [kind |-> "deleteTask", task |-> t])

DeleteTask(p) ==
  /\ planDo[p].kind = "deleteTask"
  /\ LET t == planDo[p].task
     IN /\ planTasks' = planTasks \ {t}
        /\ planUses' = planUses \ Of(t, planUses) /\ planLinks' = planLinks \ Of(t, planLinks)
        /\ planDevicesOf' = planDevicesOf \ Of(t, planDevicesOf)
        /\ planAlgorithmsOf' = planAlgorithmsOf \ Of(t, planAlgorithmsOf)
  /\ UNCHANGED <<planPlaces, planAlgorithms>> /\ Committed(p)
-----------------------------------------------------------------------------
PlanNext ==
  \/ \E d \in PlanGB : HearGB(d) \/ SyncGB(d) \/ DeleteGB(d)
  \/ \E p \in PlanRequests :
      \/ AskArea(p) \/ SaveArea(p) \/ AskDeleteArea(p) \/ DeleteArea(p)
      \/ AskDevice(p) \/ SaveDevice(p) \/ AskDeleteDevice(p) \/ DeleteDevice(p)
      \/ AskAlgorithm(p) \/ AddAlgorithm(p) \/ AskDeleteAlgorithm(p) \/ DeleteAlgorithm(p)
      \/ AskGB(p) \/ SaveGB(p)
      \/ AskTask(p) \/ SaveTask(p) \/ AskQuick(p) \/ SaveQuick(p) \/ AskDeleteTask(p) \/ DeleteTask(p)

PlanSpec == PlanInit /\ [][PlanNext]_planVars
-----------------------------------------------------------------------------
(* Properties.                                                             *)

\* The older tables always say what the profiles and the links say, also after a quick
\* update that a deletion has overtaken (saveTaskDeviceConfigs, rebuildTaskLegacyRelations).
LegacyAgrees ==
  planDevicesOf = planUses /\ planAlgorithmsOf = {<<l[1], l[3]>> : l \in planLinks}

\* As long as no request has committed on checks that another had overtaken, every row
\* that is named is there: a link's profile and algorithm, a profile's task and device, a
\* device's area, unless the device is one of GB28181 and the area was deleted while the
\* device's own row named it: deleteArea asks the sources only, and the next signal has
\* the source follow that row.  (The parent of an area is not looked for; a request that
\* was overtaken may leave what names nothing, for good.)
ReferencesKept ==
  ~planCrossed =>
    /\ \A l \in planLinks : <<l[1], l[2]>> \in planUses /\ l[3] \in planAlgorithms
    /\ \A u \in planUses : u[1] \in planTasks /\ u[2] \in Devices
    /\ \A d \in Devices : planArea[d] \in Areas \/ (d \in PlanGB /\ planArea[d] \in planLost)

\* The same for every area: a source of a GB28181 device that was moved gets a deleted
\* area back, and no two requests have to overlap.  The code does not keep this.
AreasKept == ~planCrossed => \A d \in Devices : planArea[d] \in Areas
=============================================================================
