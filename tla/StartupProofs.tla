--------------------------- MODULE StartupProofs ----------------------------
(***************************************************************************)
(* What a process that serves knows of the directory, for any number of    *)
(* processes, payloads and restarts.                                       *)
(***************************************************************************)
EXTENDS Startup, TLAPS

(* The invariant: a process that has read the directory, and has the port  *)
(* or may get it, knows what is there.                                     *)
Knows(p) == stage[p] \in {"loaded", "serving"} /\ ~stale[p] => payloads[p] = disk
StartupInv == StartupTypeOK /\ \A p \in Processes : Knows(p)

(* What an accepted environment is turned into.                            *)
LEMMA AcceptedIsUsable ==
  ASSUME NEW d \in Deployments, accepts(d.env)
  PROVE  create_config(d.env) \in Configuration
  BY BoundsAssumption DEF accepts, create_config, NonZero, Configuration

LEMMA InitHolds == Init => StartupInv
  BY NoneAssumption, BoundsAssumption DEF Init, StartupInv, StartupTypeOK, Knows, Nothing, listening

(* The end of a process leaves the directory and the others alone.         *)
LEMMA LeaveKeeps ==
  ASSUME StartupInv, NEW p \in Processes, NEW code \in {None, 0, 2, 101, 137}, leave(p, code),
         deployed' \in [Processes -> Deployments \cup {None}],
         \A q \in Processes \ {p} : deployed'[q] = deployed[q],
         incidents' \in 0..MaxIncidents, UNCHANGED <<directory, now, widest>>
  PROVE  StartupInv'
<1>1. /\ stage' \in [Processes -> {"off", "configured", "loaded", "serving"}] /\ stage'[p] = "off"
      /\ config' \in [Processes -> Configuration \cup {None}] /\ config'[p] = None
      /\ \A q \in Processes \ {p} : stage'[q] = stage[q] /\ config'[q] = config[q]
  BY DEF leave, goto, StartupInv, StartupTypeOK
<1>2. /\ payloads' \in [Processes -> [Ids -> Record \cup {None}]]
      /\ stale' \in [Processes -> BOOLEAN] /\ exit' \in [Processes -> {None, 0, 2, 101, 137}]
      /\ \A q \in Processes \ {p} : payloads'[q] = payloads[q] /\ stale'[q] = stale[q]
  BY DEF leave, Nothing, StartupInv, StartupTypeOK
<1>3. ASSUME NEW q \in Processes
      PROVE  /\ stage'[q] # "off" <=> config'[q] # None
             /\ stage'[q] # "off" => deployed'[q] # None
             /\ \A r \in Processes \ {q} :
                  listening(q)' /\ listening(r)' => config'[q].port # config'[r].port
  <2>1. listening(q)' => q # p /\ listening(q)
    BY <1>1 DEF listening
  <2>2. \A r \in Processes : listening(r)' => r # p /\ listening(r)
    BY <1>1 DEF listening
  <2> QED
    BY <1>1, <2>1, <2>2 DEF StartupInv, StartupTypeOK
<1>4. StartupTypeOK'
  BY <1>1, <1>2, <1>3 DEF StartupInv, StartupTypeOK, directory
<1>5. \A q \in Processes : Knows(q)'
  BY <1>1, <1>2 DEF StartupInv, Knows, directory
<1> QED
  BY <1>4, <1>5 DEF StartupInv

LEMMA StartKeeps ==
  ASSUME StartupInv, NEW p \in Processes, NEW d \in Deployments, Start(p, d)
  PROVE  StartupInv'
<1>1. StartupTypeOK'
  BY NoneAssumption DEF Start, process, directory, listening, StartupInv, StartupTypeOK
<1>2. \A q \in Processes : Knows(q)'
  BY DEF Start, process, directory, StartupInv, Knows
<1> QED
  BY <1>1, <1>2 DEF StartupInv

LEMMA StopKeeps ==
  ASSUME StartupInv, NEW p \in Processes, Stop(p)
  PROVE  StartupInv'
<1>1. deployed' \in [Processes -> Deployments \cup {None}] /\ incidents' \in 0..MaxIncidents
  BY DEF Stop, StartupInv, StartupTypeOK
<1>2. leave(p, None) /\ \A q \in Processes \ {p} : deployed'[q] = deployed[q]
  BY DEF Stop, StartupInv, StartupTypeOK
<1> QED
  BY <1>1, <1>2, LeaveKeeps DEF Stop

LEMMA IncidentBounded ==
  ASSUME StartupInv, incident
  PROVE  incidents' \in 0..MaxIncidents
  BY BoundsAssumption DEF incident, StartupInv, StartupTypeOK

LEMMA CrashKeeps ==
  ASSUME StartupInv, NEW p \in Processes, Crash(p)
  PROVE  StartupInv'
<1>1. deployed' \in [Processes -> Deployments \cup {None}] /\ incidents' \in 0..MaxIncidents
  BY IncidentBounded DEF Crash, StartupInv, StartupTypeOK
<1> QED
  BY <1>1, LeaveKeeps DEF Crash

LEMMA RefuseKeeps ==
  ASSUME StartupInv, NEW p \in Processes, Refuse(p)
  PROVE  StartupInv'
<1>1. PICK code \in {0, 2, 101} : leave(p, code)
  BY DEF Refuse, startup_action
<1>2. deployed' \in [Processes -> Deployments \cup {None}] /\ incidents' \in 0..MaxIncidents
  BY DEF Refuse, StartupInv, StartupTypeOK
<1> QED
  BY <1>1, <1>2, LeaveKeeps DEF Refuse

LEMMA LaunchKeeps ==
  ASSUME StartupInv, NEW p \in Processes, Launch(p)
  PROVE  StartupInv'
<1> DEFINE c == create_config(deployed[p].env)
<1>1. deployed[p] \in Deployments
  BY DEF Launch, restarts, StartupInv, StartupTypeOK
<1>2. c \in Configuration
  BY <1>1, AcceptedIsUsable DEF Launch, runs
<1>3. /\ config' \in [Processes -> Configuration \cup {None}] /\ config'[p] # None
      /\ stage' \in [Processes -> {"off", "configured", "loaded", "serving"}] /\ stage'[p] = "configured"
      /\ \A q \in Processes \ {p} : stage'[q] = stage[q] /\ config'[q] = config[q]
  BY <1>2, NoneAssumption DEF Launch, goto, StartupInv, StartupTypeOK
<1>4. widest' \in Nat /\ exit' \in [Processes -> {None, 0, 2, 101, 137}]
  BY <1>2 DEF Launch, Configuration, StartupInv, StartupTypeOK
<1>5. deployed[p] # None
  BY DEF Launch, restarts
<1>6. StartupTypeOK'
  BY <1>3, <1>4, <1>5 DEF Launch, directory, listening, StartupInv, StartupTypeOK
<1>7. \A q \in Processes : Knows(q)'
  BY <1>3 DEF Launch, directory, StartupInv, Knows
<1> QED
  BY <1>6, <1>7 DEF StartupInv

LEMMA LoadKeeps ==
  ASSUME StartupInv, NEW p \in Processes, Load(p)
  PROVE  StartupInv'
<1>1. StartupTypeOK'
  BY DEF Load, goto, directory, listening, StartupInv, StartupTypeOK
<1>2. \A q \in Processes : Knows(q)'
  BY DEF Load, goto, directory, StartupInv, StartupTypeOK, Knows
<1> QED
  BY <1>1, <1>2 DEF StartupInv

LEMMA LoadFailsKeeps ==
  ASSUME StartupInv, NEW p \in Processes, LoadFails(p)
  PROVE  StartupInv'
<1>1. incidents' \in 0..MaxIncidents
  BY IncidentBounded DEF LoadFails, StartupInv, StartupTypeOK
<1>2. deployed' \in [Processes -> Deployments \cup {None}]
  BY DEF LoadFails, StartupInv, StartupTypeOK
<1> QED
  BY <1>1, <1>2, LeaveKeeps DEF LoadFails

LEMMA BindKeeps ==
  ASSUME StartupInv, NEW p \in Processes, Bind(p)
  PROVE  StartupInv'
<1>1. CASE taken(config[p].port)
  <2>1. leave(p, 0)
    BY <1>1 DEF Bind
  <2> QED
    BY <2>1, LeaveKeeps DEF Bind, StartupInv, StartupTypeOK
<1>2. CASE ~taken(config[p].port)
  <2>1. /\ stage[p] = "loaded" /\ goto(p, "serving")
        /\ UNCHANGED <<config, payloads, stale, exit, deployed, directory, now, incidents, widest>>
    BY <1>2 DEF Bind
  <2>2. /\ stage' \in [Processes -> {"off", "configured", "loaded", "serving"}] /\ stage'[p] = "serving"
        /\ \A q \in Processes \ {p} : stage'[q] = stage[q]
    BY <2>1 DEF goto, StartupInv, StartupTypeOK
  <2>3. \A q \in Processes \ {p} : listening(q)' => config[q].port # config[p].port
    BY <1>2, <2>2 DEF taken, listening
  <2>4. StartupTypeOK'
    BY <2>1, <2>2, <2>3 DEF directory, listening, StartupInv, StartupTypeOK
  <2>5. \A q \in Processes : Knows(q)'
    BY <2>1, <2>2 DEF directory, StartupInv, Knows
  <2> QED
    BY <2>4, <2>5 DEF StartupInv
<1> QED
  BY <1>1, <1>2

(* The one who writes knows the directory after it, if it did before.      *)
LEMMA WriteKeeps ==
  ASSUME StartupInv, NEW p \in Processes, NEW id \in Ids, NEW rec \in Record, listening(p),
         write(p, id, rec), created' \in [Ids -> Nat],
         UNCHANGED <<deployed, stage, config, exit, now, incidents, widest>>
  PROVE  StartupInv'
<1>1. disk' \in [Ids -> Record \cup {None}]
  BY DEF write, StartupInv, StartupTypeOK
<1>2. payloads[p] \in [Ids -> Record \cup {None}]
  BY DEF StartupInv, StartupTypeOK
<1>3. /\ payloads' \in [Processes -> [Ids -> Record \cup {None}]]
      /\ payloads'[p] = [payloads[p] EXCEPT ![id] = rec]
      /\ \A q \in Processes \ {p} : payloads'[q] = payloads[q]
  BY <1>2 DEF write, StartupInv, StartupTypeOK
<1>4. /\ stale' \in [Processes -> BOOLEAN]
      /\ \A q \in Processes : stale'[q] = (stale[q] \/ (q # p /\ stage[q] \in {"loaded", "serving"}))
  BY DEF write, StartupInv, StartupTypeOK
<1>5. StartupTypeOK'
  BY <1>1, <1>3, <1>4 DEF listening, StartupInv, StartupTypeOK
<1>6. ASSUME NEW q \in Processes PROVE Knows(q)'
  <2>1. CASE q = p
    BY <2>1, <1>3, <1>4 DEF write, StartupInv, Knows
  <2>2. CASE q # p
    BY <2>2, <1>4 DEF Knows
  <2> QED
    BY <2>1, <2>2
<1> QED
  BY <1>5, <1>6 DEF StartupInv

LEMMA SubmitNewKeeps ==
  ASSUME StartupInv, NEW p \in Processes, NEW id \in Ids, SubmitNew(p, id)
  PROVE  StartupInv'
<1>1. config[p] \in Configuration
  BY DEF SubmitNew, accepted, listening, StartupInv, StartupTypeOK
<1>2. fresh(p) \in Record
  BY <1>1 DEF fresh, Record, Configuration, StartupInv, StartupTypeOK
<1>3. created' \in [Ids -> Nat]
  BY DEF SubmitNew, StartupInv, StartupTypeOK
<1> QED
  BY <1>2, <1>3, WriteKeeps DEF SubmitNew, accepted

LEMMA SignedIsRecord ==
  ASSUME StartupInv, NEW p \in Processes, NEW id \in Ids, payloads[p][id] # None
  PROVE  [payloads[p][id] EXCEPT !.signed = TRUE] \in Record
<1>1. payloads[p][id] \in Record
  BY DEF StartupInv, StartupTypeOK
<1> QED
  BY <1>1 DEF Record

LEMMA SubmitKnownKeeps ==
  ASSUME StartupInv, NEW p \in Processes, NEW id \in Ids, SubmitKnown(p, id)
  PROVE  StartupInv'
<1>1. [payloads[p][id] EXCEPT !.signed = TRUE] \in Record
  BY SignedIsRecord DEF SubmitKnown
<1>2. created' \in [Ids -> Nat]
  BY DEF SubmitKnown, StartupInv, StartupTypeOK
<1> QED
  BY <1>1, <1>2, WriteKeeps DEF SubmitKnown, accepted

LEMMA NextKeeps == StartupInv /\ [Next]_vars => StartupInv'
<1> SUFFICES ASSUME StartupInv, [Next]_vars PROVE StartupInv'
  OBVIOUS
<1>1. CASE \E p \in Processes, d \in Deployments : Start(p, d)
  BY <1>1, StartKeeps
<1>2. CASE \E p \in Processes : Stop(p) \/ Crash(p)
  BY <1>2, StopKeeps, CrashKeeps
<1>3. CASE \E p \in Processes : Refuse(p) \/ Launch(p) \/ Load(p) \/ LoadFails(p) \/ Bind(p)
  BY <1>3, RefuseKeeps, LaunchKeeps, LoadKeeps, LoadFailsKeeps, BindKeeps
<1>4. CASE \E p \in Processes, id \in Ids : SubmitNew(p, id) \/ SubmitKnown(p, id)
  BY <1>4, SubmitNewKeeps, SubmitKnownKeeps
<1>5. CASE Tick
  BY <1>5, BoundsAssumption DEF Tick, process, directory, listening, StartupInv, StartupTypeOK, Knows
<1>6. CASE UNCHANGED vars
  BY <1>6 DEF vars, process, directory, listening, StartupInv, StartupTypeOK, Knows
<1> QED
  BY <1>1, <1>2, <1>3, <1>4, <1>5, <1>6 DEF Next

LEMMA InvariantHolds == Spec => []StartupInv
  BY InitHolds, NextKeeps, PTL DEF Spec
-----------------------------------------------------------------------------
(* Types, and the ports: whoever runs has a usable configuration, and no   *)
(* two processes serve on one port (create_config, TcpListener::bind).     *)
THEOREM PortAndConfiguration == Spec => []StartupTypeOK
<1>1. StartupInv => StartupTypeOK
  BY DEF StartupInv
<1> QED
  BY <1>1, InvariantHolds, PTL

(* However many processes share a directory, and however often they are    *)
(* replaced, one that serves knows what is in the directory unless another *)
(* one wrote there since its load.                                         *)
THEOREM ServersKnowTheDirectory == Spec => []ServingKnows
<1>1. StartupInv => ServingKnows
  BY DEF StartupInv, Knows, ServingKnows, listening
<1> QED
  BY <1>1, InvariantHolds, PTL

(* Only a submission writes, with what its process knows.                  *)
LEMMA StepWrites ==
  ASSUME StartupInv, [Next]_vars, NEW id \in Ids, ~(disk'[id] = disk[id] /\ created'[id] = created[id])
  PROVE  \E p \in Processes :
           /\ listening(p) /\ (~stale[p] => payloads[p] = disk)
           /\ SubmitNew(p, id) \/ SubmitKnown(p, id)
<1>1. PICK p \in Processes, i \in Ids : SubmitNew(p, i) \/ SubmitKnown(p, i)
  BY DEF Next, vars, process, directory, Start, Stop, Crash, Refuse, Launch, Load, LoadFails, Bind, Tick
<1>2. listening(p) /\ disk \in [Ids -> Record \cup {None}] /\ created \in [Ids -> Nat]
      /\ (~stale[p] => payloads[p] = disk)
  BY <1>1 DEF SubmitNew, SubmitKnown, accepted, listening, StartupInv, StartupTypeOK, Knows
<1>3. i = id
  BY <1>1, <1>2 DEF SubmitNew, SubmitKnown, write
<1> QED
  BY <1>1, <1>2, <1>3

(* A submission that writes changes what its process knows.                *)
LEMMA WriterLearns ==
  ASSUME StartupInv, NEW p \in Processes, NEW id \in Ids, NEW rec, write(p, id, rec),
         rec # payloads[p][id]
  PROVE  payloads'[p] # payloads[p]
<1>1. payloads'[p][id] = rec
  BY DEF write, StartupInv, StartupTypeOK
<1> QED
  BY <1>1

LEMMA StepRedates ==
  ASSUME StartupInv, [Next]_vars, NEW id \in Ids, disk[id] # None
  PROVE  /\ disk'[id] # None
         /\ \/ \E p \in Processes : listening(p) /\ stale[p] /\ payloads'[p] # payloads[p]
            \/ /\ disk'[id] # disk[id] => disk'[id] = [disk[id] EXCEPT !.signed = TRUE]
               /\ created'[id] = created[id]
<1>1. CASE disk'[id] = disk[id] /\ created'[id] = created[id]
  BY <1>1
<1>2. CASE ~(disk'[id] = disk[id] /\ created'[id] = created[id])
  <2>1. PICK p \in Processes :
          /\ listening(p) /\ (~stale[p] => payloads[p] = disk)
          /\ SubmitNew(p, id) \/ SubmitKnown(p, id)
    BY <1>2, StepWrites
  <2>2. disk \in [Ids -> Record \cup {None}]
    BY DEF StartupInv, StartupTypeOK
  <2>3. CASE SubmitNew(p, id)
    <3>1. config[p] \in Configuration
      BY <2>1 DEF listening, StartupInv, StartupTypeOK
    <3>2. fresh(p) \in Record
      BY <3>1 DEF fresh, Record, Configuration, StartupInv, StartupTypeOK
    <3>3. write(p, id, fresh(p)) /\ payloads[p][id] = None
      BY <2>3 DEF SubmitNew
    <3>4. disk'[id] # None /\ stale[p]
      BY <2>1, <2>2, <3>2, <3>3, NoneAssumption DEF write
    <3>5. payloads'[p] # payloads[p]
      BY <3>2, <3>3, WriterLearns, NoneAssumption
    <3> QED
      BY <2>1, <3>4, <3>5
  <2>4. CASE SubmitKnown(p, id)
    <3> DEFINE rec == [payloads[p][id] EXCEPT !.signed = TRUE]
    <3>1. write(p, id, rec) /\ payloads[p][id] # None /\ created' = created
      BY <2>4 DEF SubmitKnown
    <3>2. rec \in Record /\ disk'[id] = rec
      BY <2>2, <3>1, SignedIsRecord DEF write
    <3>3. disk'[id] # None /\ created'[id] = created[id]
      BY <3>1, <3>2, NoneAssumption
    <3>4. payloads[p][id] \in Record /\ ~payloads[p][id].signed
      BY <2>4, <3>1 DEF SubmitKnown, StartupInv, StartupTypeOK
    <3>5. rec # payloads[p][id]
      BY <3>4 DEF Record
    <3>6. CASE stale[p]
      BY <2>1, <3>1, <3>3, <3>5, <3>6, WriterLearns
    <3>7. CASE ~stale[p]
      <4>1. disk'[id] = [disk[id] EXCEPT !.signed = TRUE]
        BY <2>1, <3>2, <3>7
      <4> QED
        BY <3>3, <4>1
    <3> QED
      BY <3>6, <3>7
  <2> QED
    BY <2>1, <2>3, <2>4
<1> QED
  BY <1>1, <1>2

(* Records get receipts and are otherwise what they were written as, and   *)
(* only a process whose inventory is old writes over one with another date *)
(* or answers 201 for one.                                                 *)
THEOREM RecordsKeepTheirDate == Spec => OnlyStaleRedates
<1>1. StartupInv /\ [Next]_vars =>
        [\A id \in Ids : disk[id] # None =>
           /\ disk'[id] # None
           /\ \/ \E p \in Processes : listening(p) /\ stale[p] /\ payloads'[p] # payloads[p]
              \/ /\ disk'[id] # disk[id] => disk'[id] = [disk[id] EXCEPT !.signed = TRUE]
                 /\ created'[id] = created[id]]_vars
  BY StepRedates
<1> QED
  BY <1>1, InvariantHolds, PTL DEF Spec, OnlyStaleRedates
-----------------------------------------------------------------------------
(* No process had a larger limit than the largest, and it accepted no      *)
(* larger payload.                                                         *)
LimitInv ==
  /\ \A p \in Processes : config[p] # None => config[p].max <= widest
  /\ \A id \in Ids : disk[id] # None => Size[id] <= widest

LEMMA LimitInitHolds == Init => LimitInv
  BY DEF Init, LimitInv, Nothing

LEMMA LaunchKeepsLimit ==
  ASSUME StartupInv, LimitInv, NEW p \in Processes, Launch(p)
  PROVE  LimitInv'
<1> DEFINE c == create_config(deployed[p].env)
<1>1. c \in Configuration
  BY AcceptedIsUsable DEF Launch, restarts, runs, StartupInv, StartupTypeOK
<1>2. c.max \in Nat /\ widest \in Nat /\ widest' \in Nat /\ widest <= widest' /\ c.max <= widest'
  BY <1>1 DEF Launch, Configuration, StartupInv, StartupTypeOK
<1>3. ASSUME NEW q \in Processes, config'[q] # None PROVE config'[q].max <= widest'
  <2>1. CASE q = p
    BY <2>1, <1>2 DEF Launch, StartupInv, StartupTypeOK
  <2>2. CASE q # p
    <3>1. config'[q] = config[q] /\ config[q] \in Configuration
      BY <1>3, <2>2 DEF Launch, StartupInv, StartupTypeOK
    <3> HIDE DEF c
    <3> QED
      BY <1>2, <1>3, <3>1 DEF LimitInv, Configuration
  <2> QED
    BY <2>1, <2>2
<1>4. ASSUME NEW id \in Ids, disk'[id] # None PROVE Size[id] <= widest'
  <2>1. disk' = disk
    BY DEF Launch, directory
  <2> HIDE DEF c
  <2> QED
    BY <1>2, <1>4, <2>1, BoundsAssumption DEF LimitInv
<1> QED
  BY <1>3, <1>4 DEF LimitInv

LEMMA LeaveKeepsLimit ==
  ASSUME StartupInv, LimitInv, NEW p \in Processes, NEW code, leave(p, code),
         UNCHANGED <<directory, widest>>
  PROVE  LimitInv'
  BY DEF leave, directory, LimitInv, StartupInv, StartupTypeOK

LEMMA SubmitKeepsLimit ==
  ASSUME StartupInv, LimitInv, NEW p \in Processes, NEW id \in Ids,
         SubmitNew(p, id) \/ SubmitKnown(p, id)
  PROVE  LimitInv'
<1>1. config[p] \in Configuration /\ Size[id] <= config[p].max
  BY DEF SubmitNew, SubmitKnown, accepted, listening, StartupInv, StartupTypeOK
<1>2. Size[id] <= widest
  BY <1>1, NoneAssumption, BoundsAssumption DEF LimitInv, Configuration, StartupInv, StartupTypeOK
<1>3. \A i \in Ids \ {id} : disk'[i] = disk[i]
  BY DEF SubmitNew, SubmitKnown, write, StartupInv, StartupTypeOK
<1>4. UNCHANGED <<config, widest>>
  BY DEF SubmitNew, SubmitKnown
<1> QED
  BY <1>2, <1>3, <1>4 DEF LimitInv

LEMMA NextKeepsLimit == StartupInv /\ LimitInv /\ [Next]_vars => LimitInv'
<1> SUFFICES ASSUME StartupInv, LimitInv, [Next]_vars PROVE LimitInv'
  OBVIOUS
<1>1. CASE \E p \in Processes : Launch(p)
  BY <1>1, LaunchKeepsLimit
<1>2. CASE \E p \in Processes : Stop(p) \/ Crash(p) \/ Refuse(p) \/ LoadFails(p)
  <2>1. PICK p \in Processes : Stop(p) \/ Crash(p) \/ Refuse(p) \/ LoadFails(p)
    BY <1>2
  <2>2. (\E code : leave(p, code)) /\ UNCHANGED <<directory, widest>>
    BY <2>1 DEF Stop, Crash, Refuse, LoadFails, startup_action
  <2> QED
    BY <2>2, LeaveKeepsLimit
<1>3. CASE \E p \in Processes : Bind(p)
  BY <1>3, LeaveKeepsLimit DEF Bind, directory, LimitInv
<1>4. CASE \E p \in Processes, id \in Ids : SubmitNew(p, id) \/ SubmitKnown(p, id)
  BY <1>4, SubmitKeepsLimit
<1>5. CASE (\E p \in Processes, d \in Deployments : Start(p, d)) \/ (\E p \in Processes : Load(p)) \/ Tick
  BY <1>5 DEF Start, Load, Tick, process, directory, LimitInv
<1>6. CASE UNCHANGED vars
  BY <1>6 DEF vars, process, directory, LimitInv
<1> QED
  BY <1>1, <1>2, <1>3, <1>4, <1>5, <1>6 DEF Next

(* PayloadStore::load refuses no record to a process whose limit is not    *)
(* lower than that of any process before it.                               *)
WideLimitsLoad ==
  \A p \in Processes : stage[p] = "configured" /\ config[p].max >= widest => loadable(p)
THEOREM DirectoryLoads == Spec => []WideLimitsLoad
<1>1. StartupInv /\ LimitInv => WideLimitsLoad
  <2> SUFFICES ASSUME StartupInv, LimitInv, NEW p \in Processes,
                      stage[p] = "configured", config[p].max >= widest, NEW id \in Ids, disk[id] # None
               PROVE  Size[id] <= config[p].max
    BY DEF WideLimitsLoad, loadable
  <2>1. config[p] \in Configuration /\ widest \in Nat /\ Size[id] \in Nat
    BY BoundsAssumption DEF StartupInv, StartupTypeOK
  <2> QED
    BY <2>1 DEF LimitInv, Configuration
<1>2. Spec => []LimitInv
  BY LimitInitHolds, InvariantHolds, NextKeepsLimit, PTL DEF Spec
<1> QED
  BY <1>1, <1>2, InvariantHolds, PTL
=============================================================================
