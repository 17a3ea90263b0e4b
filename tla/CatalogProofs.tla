---------------------------- MODULE CatalogProofs ----------------------------
(***************************************************************************)
(* Theorems about Catalog, for any sets of stations, sensors, columns and  *)
(* requests, and any number of refreshes and schema changes.               *)
(***************************************************************************)
EXTENDS Catalog, TLAPS

\* TypeOK in two halves: the tables, and the sessions.
TableTypes ==
  /\ campaign \in {"unborn", "present", "deleted"}
  /\ station \in [Station -> {"unborn", "member", "orphan", "deleted"}]
  /\ sensor \in [Sensor -> {"unborn", "orphan", "deleted"} \union Station]
  /\ \A x \in Sensor : sensor[x] \in Station => sensor[x] \in Rows
  /\ Members # {} => campaign = "present"
  /\ row \in [Row -> [Field -> Request \union {None}]]
  /\ metadata \subseteq Rows
  /\ schema \in {"absent", "optional", "required"}
  /\ geometry \in [Station -> 0..MaxRefresh]
  /\ changes \in 0..MaxChanges
  /\ refreshed \in [Station -> 0..MaxRefresh]
  /\ overtaken \subseteq Station
  /\ late \subseteq Sensor
  /\ outdated \subseteq Station

SessionTypes ==
  /\ request \in [Request -> Session \union {None}]
  /\ begun \in 0..MaxRequests

LEMMA TypesOfBoth == TypeOK <=> TableTypes /\ SessionTypes
BY DEF TypeOK, TableTypes, SessionTypes

LEMMA TypesOfBothNext == TypeOK' <=> TableTypes' /\ SessionTypes'
BY DEF TypeOK, TableTypes, SessionTypes

-----------------------------------------------------------------------------
(* Sessions. *)

LEMMA BlankType ==
  ASSUME NEW op \in Op, NEW pc \in Step
  PROVE  Blank(op, pc) \in Session
BY BoundAssumption DEF Blank, Session, Gives

LEMMA BeginTypes ==
  ASSUME SessionTypes, NEW r \in Request, NEW s \in Session, Begin(r, s)
  PROVE  SessionTypes'
BY BoundAssumption DEF Begin, SessionTypes

LEMMA ContinueTypes ==
  ASSUME SessionTypes, NEW r \in Request, NEW s \in Session \union {None}, Continue(r, s)
  PROVE  SessionTypes'
BY DEF Continue, SessionTypes

LEMMA RunningType ==
  ASSUME SessionTypes, NEW r \in Running
  PROVE  r \in Request /\ request[r] \in Session
BY DEF Running, SessionTypes

LEMMA GetCampaignType ==
  ASSUME TableTypes, NEW s \in Session, NEW pc \in Step
  PROVE  get_campaign(s, pc) \in Session
<1> DEFINE d == [e \in Station |-> IF e \in Members THEN geometry[e] ELSE s.dirty[e]]
<1>1. d \in [Station -> 0..MaxRefresh]
  BY BoundAssumption DEF TableTypes, Session
<1>2. Members \in SUBSET Station
  BY DEF Members
<1> HIDE DEF d
<1>3. [s EXCEPT !.pc = pc, !.objects = Members, !.dirty = d] \in Session
  BY <1>1, <1>2 DEF Session
<1> QED
  BY <1>3 DEF get_campaign, d

LEMMA CommittedType ==
  ASSUME NEW s \in Session
  PROVE  Committed(s) \in Session
<1>1. [e \in Station |-> 0] \in [Station -> 0..MaxRefresh]
  BY BoundAssumption
<1> QED
  BY <1>1 DEF Committed, Session

LEMMA UpdateTypes ==
  ASSUME SessionTypes, NEW r \in Request, NEW e \in Row, NEW gives \in Gives,
         Update(r, e, gives)
  PROVE  SessionTypes'
<1>1. Blank("update", "load") \in Session
  BY BlankType DEF Op, Step
<1>2. [Blank("update", "load") EXCEPT !.at = e, !.gives = gives] \in Session
  BY <1>1 DEF Session
<1> QED
  BY <1>2, BeginTypes DEF Update

LEMMA GetCampaignKeeps ==
  ASSUME NEW s \in Session, NEW pc
  PROVE  get_campaign(s, pc).op = s.op /\ get_campaign(s, pc).pc = pc
BY DEF get_campaign, Session

LEMMA CommittedKeeps ==
  ASSUME NEW s \in Session
  PROVE  Committed(s).op = s.op /\ Committed(s).pc = s.pc /\ Committed(s).at = s.at
BY DEF Committed, Session

LEMMA BlankKeeps ==
  ASSUME NEW op \in Op, NEW pc \in Step
  PROVE  Blank(op, pc).op = op /\ Blank(op, pc).pc = pc
BY DEF Blank

\* An action that belongs to a request keeps the sessions' types.
LEMMA EditKeepsSessions ==
  ASSUME TypeOK, NEW r \in Request, Edit(r)
  PROVE  SessionTypes'
<1> USE TypesOfBoth
<1>e. ASSUME End(r) PROVE SessionTypes'
  BY <1>e, ContinueTypes DEF End
<1>1. CASE create_station(r)
  <2>1. PICK gives \in {"with", "without"} :
          Begin(r, [Blank("create", "insert") EXCEPT !.gives = gives])
    BY <1>1 DEF create_station
  <2>2. Blank("create", "insert") \in Session
    BY BlankType DEF Op, Step
  <2>3. [Blank("create", "insert") EXCEPT !.gives = gives] \in Session
    BY <2>2 DEF Session, Gives
  <2> QED
    BY <2>1, <2>3, BeginTypes
<1>2. CASE InsertStation(r) \/ InsertFails(r) \/ NotFound(r) \/ UpdateIsStale(r)
           \/ CommitCampaign(r) \/ CommitStation(r) \/ CommitSensor(r) \/ PublishFails(r)
  BY <1>2, <1>e DEF InsertStation, InsertFails, NotFound, UpdateIsStale, Fail, PublishFails,
     CommitUpdate, CommitCampaign, CommitStation, CommitSensor
<1>3. CASE update_campaign(r) \/ update_station(r)
           \/ partial_update_station(r) \/ update_sensor(r)
  <2>1. \E e \in Row, gives \in Gives : Update(r, e, gives)
    BY <1>3 DEF update_campaign, update_station,
       partial_update_station, update_sensor, Row, Gives
  <2> QED
    BY <2>1, UpdateTypes
<1>4. CASE Load(r)
  <2>1. request[r] \in Session /\ row[request[r].at] \in [Field -> Request \union {None}]
    BY <1>4, RunningType DEF Load, At, Alive, TableTypes, Row, Session
  <2>2. PICK names \in SUBSET Field, gives \in {request[r].gives, "nothing"} :
          Continue(r, [request[r] EXCEPT !.pc = "commit", !.loaded = row[request[r].at],
                                         !.names = names, !.gives = gives])
    BY <1>4 DEF Load
  <2>3. gives \in Gives
    BY <2>1 DEF Session, Gives
  <2>4. [request[r] EXCEPT !.pc = "commit", !.loaded = row[request[r].at],
                           !.names = names, !.gives = gives] \in Session
    BY <2>1, <2>3 DEF Session, Step
  <2> QED
    BY <2>2, <2>4, ContinueTypes
<1>5. CASE publish_station(r)
  <2>1. PICK s \in Members : Begin(r, [Blank("publish", "read") EXCEPT !.todo = {s}])
    BY <1>5 DEF publish_station
  <2>2. Blank("publish", "read") \in Session /\ s \in Station
    BY BlankType DEF Op, Step, Members
  <2>3. [Blank("publish", "read") EXCEPT !.todo = {s}] \in Session
    BY <2>2 DEF Session
  <2> QED
    BY <2>1, <2>3, BeginTypes
<1>6. CASE publish_campaign(r)
  <2>1. Blank("publish", "read") \in Session /\ Members \in SUBSET Station
    BY BlankType DEF Op, Step, Members
  <2>2. [Blank("publish", "read") EXCEPT !.todo = Members] \in Session
    BY <2>1 DEF Session
  <2>3. get_campaign([Blank("publish", "read") EXCEPT !.todo = Members], "read") \in Session
    BY <2>2, GetCampaignType DEF Step
  <2> QED
    BY <1>6, <2>3, BeginTypes DEF publish_campaign
<1>7. CASE ReadForPublish(r)
  <2>1. request[r] \in Session
    BY <1>7, RunningType DEF ReadForPublish, At
  <2>2. get_campaign(request[r], "commit") \in Session
    BY <2>1, GetCampaignType DEF Step
  <2> QED
    BY <1>7, <1>e, <2>2, ContinueTypes DEF ReadForPublish
<1>8. CASE set_publish_state(r)
  <2>1. request[r] \in Session
    BY <1>8, RunningType DEF set_publish_state, At
  <2>2. PICK s \in request[r].todo :
          Continue(r, Committed([request[r] EXCEPT !.pc = "read", !.todo = @ \ {s}]))
    BY <1>8 DEF set_publish_state
  <2>3. [request[r] EXCEPT !.pc = "read", !.todo = @ \ {s}] \in Session
    BY <2>1 DEF Session, Step
  <2> QED
    BY <2>2, <2>3, CommittedType, ContinueTypes
<1> QED
  BY <1>1, <1>2, <1>3, <1>4, <1>5, <1>6, <1>7, <1>8 DEF Edit

LEMMA DeleteKeepsSessions ==
  ASSUME TypeOK, NEW r \in Request, Delete(r)
  PROVE  SessionTypes'
<1> USE TypesOfBoth
<1>e. ASSUME End(r) PROVE SessionTypes'
  BY <1>e, ContinueTypes DEF End
<1>1. CASE delete_station(r)
  <2>1. PICK s \in Members :
          Begin(r, get_campaign([Blank("delete_station", "sensors") EXCEPT !.at = s], "sensors"))
    BY <1>1 DEF delete_station
  <2>2. Blank("delete_station", "sensors") \in Session /\ s \in Row
    BY BlankType DEF Op, Step, Members, Row
  <2>3. [Blank("delete_station", "sensors") EXCEPT !.at = s] \in Session
    BY <2>2 DEF Session
  <2> QED
    BY <2>1, <2>3, GetCampaignType, BeginTypes DEF Step
<1>2. CASE delete_station_sensors(r)
  <2>1. request[r] \in Session
    BY <1>2, RunningType DEF delete_station_sensors, At
  <2>2. [request[r] EXCEPT !.pc = "station"] \in Session
    BY <2>1 DEF Session, Step
  <2> QED
    BY <1>2, <2>2, CommittedType, ContinueTypes DEF delete_station_sensors
<1>3. CASE delete_stations(r)
  <2>1. Blank("delete_stations", "commit") \in Session
    BY BlankType DEF Op, Step
  <2>2. get_campaign(Blank("delete_stations", "commit"), "commit") \in Session
    BY <2>1, GetCampaignType DEF Step
  <2>3. \E s \in Session : Begin(r, s)
    BY <1>3, <2>1, <2>2 DEF delete_stations
  <2> QED
    BY <2>3, BeginTypes
<1>4. CASE delete_campaign(r)
  <2>1. Blank("delete_campaign", "commit") \in Session
    BY BlankType DEF Op, Step
  <2>2. get_campaign(Blank("delete_campaign", "commit"), "commit") \in Session
    BY <2>1, GetCampaignType DEF Step
  <2> QED
    BY <1>4, <2>2, BeginTypes DEF delete_campaign
<1>5. CASE SensorsStay(r) \/ DeleteStation(r) \/ StationIsGone(r) \/ delete_campaign_stations(r)
           \/ StationsStay(r) \/ CommitDeleteCampaign(r) \/ CampaignStays(r)
  BY <1>5, <1>e DEF SensorsStay, DeleteStation, StationIsGone, delete_campaign_stations,
     StationsStay, CommitDeleteCampaign, CampaignStays, Fail
<1> QED
  BY <1>1, <1>2, <1>3, <1>4, <1>5 DEF Delete
LEMMA TypeInit == Init => TypeOK
<1> SUFFICES ASSUME Init PROVE TypeOK
  OBVIOUS
<1>1. SessionTypes /\ changes \in 0..MaxChanges /\ overtaken = {} /\ late = {} /\ outdated = {}
  BY BoundAssumption DEF Init, SessionTypes
<1>2. /\ row \in [Row -> [Field -> Request \union {None}]]
      /\ schema \in {"absent", "optional", "required"}
  BY DEF Init
<1>3. refreshed \in [Station -> 0..MaxRefresh] /\ geometry = refreshed
  <2>1. \A s \in Station : (IF SensorsOf({s}) = {} THEN 0 ELSE 1) \in 0..MaxRefresh
    BY BoundAssumption
  <2>2. \/ refreshed = [s \in Station |-> 0]
        \/ refreshed = [s \in Station |-> IF SensorsOf({s}) = {} THEN 0 ELSE 1]
    BY Zenon DEF Init
  <2>3. geometry = refreshed
    BY DEF Init
  <2>4. 0 \in 0..MaxRefresh
    BY BoundAssumption
  <2> QED
    BY <2>1, <2>2, <2>3, <2>4
<1>4. /\ campaign \in {"unborn", "present", "deleted"}
      /\ station \in [Station -> {"unborn", "member", "orphan", "deleted"}]
      /\ sensor \in [Sensor -> {"unborn", "orphan", "deleted"} \union Station]
      /\ \A x \in Sensor : sensor[x] \in Station => sensor[x] \in Rows
      /\ Members # {} => campaign = "present"
      /\ metadata \subseteq Rows
  BY RowAssumption DEF Init, Members, Rows
<1> QED
  BY <1>1, <1>2, <1>3, <1>4, TypesOfBoth DEF TableTypes

\* A transaction that leaves the stations, their sensors and the campaign.
LEMMA QuietKeepsTables ==
  ASSUME TypeOK, UNCHANGED <<campaign, station, sensor>>,
         row' \in [Row -> [Field -> Request \union {None}]],
         metadata' \subseteq Rows,
         schema' \in {"absent", "optional", "required"},
         geometry' \in [Station -> 0..MaxRefresh],
         changes' \in 0..MaxChanges,
         refreshed' \in [Station -> 0..MaxRefresh],
         overtaken' \subseteq Station, late' \subseteq Sensor, outdated' \subseteq Station
  PROVE  TableTypes'
<1>1. Rows' = Rows /\ Members' = Members
  BY DEF Rows, Members
<1> QED
  BY <1>1 DEF TypeOK, TableTypes

LEMMA UnchangedKeepsTables ==
  ASSUME TypeOK, UNCHANGED <<database, history>>
  PROVE  TableTypes'
BY QuietKeepsTables DEF TypeOK, database, history

LEMMA FlushType ==
  ASSUME TypeOK, NEW r \in Running, NEW rows, Flush(r, rows)
  PROVE  geometry' \in [Station -> 0..MaxRefresh]
<1>1. request[r] \in Session
  BY RunningType, TypesOfBoth
<1> QED
  BY <1>1 DEF Flush, Session, TypeOK

\* What an edit's commit does to the columns.
LEMMA AssignedType ==
  ASSUME TypeOK, NEW r \in Running, request[r].at \in Row
  PROVE  Assigned(r) \in [Row -> [Field -> Request \union {None}]]
BY DEF Assigned, TypeOK, Running

LEMMA AliveStation ==
  ASSUME TypeOK, NEW s \in Station, Alive(s)
  PROVE  s \in Rows
BY RowAssumption DEF Alive, Rows, TypeOK

LEMMA EditKeepsTables ==
  ASSUME TypeOK, NEW r \in Request, Edit(r)
  PROVE  TableTypes'
<1>u. ASSUME UNCHANGED <<database, history>> PROVE TableTypes'
  BY <1>u, UnchangedKeepsTables
<1>1. CASE create_station(r) \/ InsertFails(r) \/ update_campaign(r) \/ update_station(r)
           \/ partial_update_station(r) \/ update_sensor(r) \/ Load(r) \/ NotFound(r) \/ UpdateIsStale(r)
           \/ publish_station(r) \/ publish_campaign(r) \/ ReadForPublish(r) \/ PublishFails(r)
  BY <1>1, <1>u DEF create_station, InsertFails, update_campaign, update_station,
     partial_update_station, update_sensor,
     Load, NotFound, UpdateIsStale, publish_station, publish_campaign, ReadForPublish,
     PublishFails, Fail
<1>2. CASE InsertStation(r)
  <2>1. PICK s \in Station :
          /\ station[s] = "unborn"
          /\ station' = [station EXCEPT ![s] = "member"]
          /\ metadata' = IF request[r].gives = "with" THEN metadata \union {s} ELSE metadata
          /\ outdated' = IF request[r].stale_check THEN outdated \union {s} ELSE outdated \ {s}
    BY <1>2 DEF InsertStation, Checked
  <2>2. Rows' = Rows \union {s} /\ campaign = "present"
    BY <1>2, <2>1 DEF InsertStation, Rows, TypeOK
  <2> QED
    BY <1>2, <2>1, <2>2 DEF InsertStation, TypeOK, TableTypes
<1>3. CASE CommitCampaign(r) \/ CommitStation(r) \/ CommitSensor(r)
  <2>1. r \in Running /\ request[r].at \in Row /\ row' = Assigned(r) /\ Alive(request[r].at)
    BY <1>3 DEF CommitCampaign, CommitStation, CommitSensor, CommitUpdate, At, Row
  <2>2. row' \in [Row -> [Field -> Request \union {None}]]
    BY <2>1, AssignedType
  <2>3. metadata' \subseteq Rows /\ outdated' \subseteq Station
    BY <1>3, <2>1, AliveStation DEF CommitCampaign, CommitStation, CommitSensor, CommitUpdate,
       Checked, TypeOK
  <2> QED
    BY <1>3, <2>2, <2>3, QuietKeepsTables DEF CommitCampaign, CommitStation, CommitSensor,
       CommitUpdate, TypeOK
<1>4. CASE set_publish_state(r)
  <2>1. r \in Running /\ Flush(r, Rows)
    BY <1>4 DEF set_publish_state, At
  <2> QED
    BY <1>4, <2>1, FlushType, QuietKeepsTables DEF set_publish_state, history, TypeOK
<1> QED
  BY <1>1, <1>2, <1>3, <1>4 DEF Edit

LEMMA DeleteKeepsTables ==
  ASSUME TypeOK, NEW r \in Request, Delete(r)
  PROVE  TableTypes'
<1>u. ASSUME UNCHANGED <<database, history>> PROVE TableTypes'
  BY <1>u, UnchangedKeepsTables
<1>1. CASE delete_station(r) \/ SensorsStay(r) \/ StationIsGone(r) \/ delete_stations(r)
           \/ StationsStay(r) \/ delete_campaign(r) \/ CampaignStays(r)
  BY <1>1, <1>u DEF delete_station, SensorsStay, StationIsGone, delete_stations,
     StationsStay, delete_campaign, CampaignStays, Fail
<1>2. CASE delete_station_sensors(r)
  <2>1. geometry' \in [Station -> 0..MaxRefresh]
    BY <1>2, FlushType DEF delete_station_sensors, At
  <2>2. Rows' = Rows /\ Members' = Members
    BY <1>2 DEF delete_station_sensors, Rows, Members
  <2> QED
    BY <1>2, <2>1, <2>2, RowAssumption DEF delete_station_sensors, history, TypeOK, TableTypes
<1>3. CASE DeleteStation(r)
  <2> DEFINE s == request[r].at
  <2>1. /\ s \in Rows
        /\ Rows' = Rows \ {s} /\ Members' = Members \ {s}
        /\ station' \in [Station -> {"unborn", "member", "orphan", "deleted"}]
    BY <1>3 DEF DeleteStation, Rows, Members, TypeOK
  <2>2. /\ sensor' = [x \in Sensor |-> IF sensor[x] = s THEN "orphan" ELSE sensor[x]]
        /\ metadata' = metadata \ {s}
        /\ UNCHANGED <<campaign, row, schema, geometry, history>>
    BY <1>3 DEF DeleteStation
  <2> HIDE DEF s
  <2> QED
    BY <2>1, <2>2, RowAssumption DEF history, TypeOK, TableTypes
<1>4. CASE delete_campaign_stations(r)
  <2>1. geometry' \in [Station -> 0..MaxRefresh]
    BY <1>4, FlushType DEF delete_campaign_stations, At
  <2>2. /\ Rows' = Rows \ Members /\ Members' = {}
        /\ station' \in [Station -> {"unborn", "member", "orphan", "deleted"}]
    BY <1>4 DEF delete_campaign_stations, Rows, Members, TypeOK
  <2> QED
    BY <1>4, <2>1, <2>2, RowAssumption DEF delete_campaign_stations, history, TypeOK, TableTypes
<1>5. CASE CommitDeleteCampaign(r)
  <2>1. geometry' \in [Station -> 0..MaxRefresh]
    BY <1>5, FlushType DEF CommitDeleteCampaign, At
  <2>2. /\ Rows' = Rows /\ Members' = {}
        /\ station' \in [Station -> {"unborn", "member", "orphan", "deleted"}]
    BY <1>5 DEF CommitDeleteCampaign, Rows, Members, TypeOK
  <2> QED
    BY <1>5, <2>1, <2>2 DEF CommitDeleteCampaign, history, TypeOK, TableTypes
<1> QED
  BY <1>1, <1>2, <1>3, <1>4, <1>5 DEF Delete

LEMMA RestKeepsTypes ==
  ASSUME TypeOK,
         \/ create_campaign \/ delete_sensors \/ create_sensors \/ refresh_geometry
         \/ create_metadata_schema \/ update_metadata_schema \/ delete_metadata_schema
  PROVE  TableTypes' /\ SessionTypes'
<1>1. CASE create_campaign
  <2>1. Rows' = Rows /\ Members' = Members
    BY <1>1 DEF create_campaign, Rows, Members
  <2> QED
    BY <1>1, <2>1 DEF create_campaign, history, TypeOK, TableTypes, SessionTypes
<1>2. CASE delete_sensors
  <2>1. Rows' = Rows /\ Members' = Members
    BY <1>2 DEF delete_sensors, Rows, Members
  <2> QED
    BY <1>2, <2>1, RowAssumption DEF delete_sensors, history, TypeOK, TableTypes, SessionTypes
<1>3. CASE create_sensors
  <2>1. Rows' = Rows /\ Members' = Members /\ Rows \subseteq Station
    BY <1>3 DEF create_sensors, Rows, Members
  <2> QED
    BY <1>3, <2>1 DEF create_sensors, TypeOK, TableTypes, SessionTypes
<1>4. CASE refresh_geometry
  <2>1. PICK s \in Rows :
          /\ refreshed[s] < MaxRefresh
          /\ refreshed' = [refreshed EXCEPT ![s] = refreshed[s] + 1]
          /\ geometry' = [geometry EXCEPT ![s] = refreshed'[s]]
          /\ overtaken' \in {overtaken \union {s}, overtaken \ {s}}
    BY <1>4 DEF refresh_geometry, update_station_geometry
  <2>2. s \in Station
    BY DEF Rows
  <2>3. refreshed' \in [Station -> 0..MaxRefresh] /\ geometry' \in [Station -> 0..MaxRefresh]
    BY <2>1, <2>2, BoundAssumption DEF TypeOK
  <2>4. TableTypes'
    BY <1>4, <2>1, <2>2, <2>3, QuietKeepsTables DEF refresh_geometry, TypeOK
  <2> QED
    BY <1>4, <2>4 DEF refresh_geometry, TypeOK, SessionTypes
<1>5. ASSUME NEW to \in {"absent", "optional", "required"}, ChangeSchema(to)
      PROVE  TableTypes' /\ SessionTypes'
  <2>1. TableTypes'
    BY <1>5, QuietKeepsTables, BoundAssumption DEF ChangeSchema, TypeOK, Rows
  <2>2. \A r \in Running : [request[r] EXCEPT !.stale_check = TRUE] \in Session
    BY RunningType, TypesOfBoth DEF Session
  <2> QED
    BY <1>5, <2>1, <2>2 DEF ChangeSchema, TypeOK, SessionTypes
<1> QED
  BY <1>1, <1>2, <1>3, <1>4, <1>5 DEF create_metadata_schema, update_metadata_schema,
     delete_metadata_schema

LEMMA TypeStep == TypeOK /\ [Next]_vars => TypeOK'
<1> SUFFICES ASSUME TypeOK, [Next]_vars PROVE TableTypes' /\ SessionTypes'
  BY TypesOfBothNext
<1>1. CASE \E r \in Request : Edit(r)
  BY <1>1, EditKeepsTables, EditKeepsSessions
<1>2. CASE \E r \in Request : Delete(r)
  BY <1>2, DeleteKeepsTables, DeleteKeepsSessions
<1>3. CASE UNCHANGED vars
  BY <1>3, UnchangedKeepsTables DEF vars, TypeOK, SessionTypes
<1> QED
  BY <1>1, <1>2, <1>3, RestKeepsTypes DEF Next

(***************************************************************************)
(* The catalogue keeps its types: a sensor's station exists, members have  *)
(* their campaign, and metadata belong to a row, whatever requests end in  *)
(* between.                                                                *)
(***************************************************************************)
THEOREM TypeCorrect == Spec => []TypeOK
BY TypeInit, TypeStep, PTL DEF Spec

-----------------------------------------------------------------------------
(***************************************************************************)
(* Orphans. A deletion that is between its two transactions has deleted    *)
(* every sensor that its station has, but for the late ones.               *)
(***************************************************************************)
Emptied ==
  \A r \in Request, x \in Sensor :
    At(r, "delete_station", "station") /\ sensor[x] \in Station /\ sensor[x] = request[r].at
      => x \in late

OrphanInv == TypeOK /\ OrphansAreLate /\ Emptied

LEMMA OrphanInit == Init => OrphanInv
<1> SUFFICES ASSUME Init PROVE OrphanInv
  OBVIOUS
<1>1. \A x \in Sensor : sensor[x] # "orphan"
  BY RowAssumption DEF Init, Members
<1>2. Running = {}
  BY DEF Init, Running
<1> QED
  BY <1>1, <1>2, TypeInit DEF OrphanInv, OrphansAreLate, Emptied, At

\* What keeps the invariant: no new orphan, no sensor that gets a station, and
\* no other deletion that is between its transactions.
LEMMA OrphanQuiet ==
  ASSUME OrphanInv, [Next]_vars,
         \A x \in Sensor : sensor'[x] = sensor[x] \/ sensor'[x] = "deleted",
         late \subseteq late',
         \A r \in Request : At(r, "delete_station", "station")' =>
            At(r, "delete_station", "station") /\ request'[r].at = request[r].at
  PROVE  OrphanInv'
<1>1. TypeOK'
  BY TypeStep DEF OrphanInv
<1>2. OrphansAreLate'
  BY DEF OrphanInv, OrphansAreLate
<1>3. ASSUME NEW r \in Request, NEW x \in Sensor,
             At(r, "delete_station", "station")', sensor'[x] \in Station,
             sensor'[x] = request'[r].at
      PROVE  x \in late'
  <2>1. At(r, "delete_station", "station") /\ request'[r].at = request[r].at
    BY <1>3
  <2>2. CASE sensor'[x] = sensor[x]
    BY <1>3, <2>1, <2>2 DEF OrphanInv, Emptied
  <2>3. CASE sensor'[x] = "deleted"
    BY <1>3, <2>3, RowAssumption
  <2> QED
    BY <2>2, <2>3
<1> QED
  BY <1>1, <1>2, <1>3 DEF OrphanInv, Emptied

\* A request that begins, goes on or ends elsewhere is not between the two.
LEMMA BeginIsNotBetween ==
  ASSUME TypeOK, NEW r \in Request, NEW s, Begin(r, s),
         s.op # "delete_station" \/ s.pc # "station"
  PROVE  \A q \in Request : At(q, "delete_station", "station")' =>
            At(q, "delete_station", "station") /\ request'[q].at = request[q].at
BY DEF Begin, At, Running, TypeOK

LEMMA ContinueIsNotBetween ==
  ASSUME TypeOK, NEW r \in Request, NEW s, Continue(r, s),
         s = None \/ s.op # "delete_station" \/ s.pc # "station"
  PROVE  \A q \in Request : At(q, "delete_station", "station")' =>
            At(q, "delete_station", "station") /\ request'[q].at = request[q].at
BY DEF Continue, At, Running, TypeOK

LEMMA OrphanStep == OrphanInv /\ [Next]_vars => OrphanInv'
<1> SUFFICES ASSUME OrphanInv, [Next]_vars PROVE OrphanInv'
  OBVIOUS
<1> DEFINE Same == \A q \in Request : At(q, "delete_station", "station")' =>
                      At(q, "delete_station", "station") /\ request'[q].at = request[q].at
<1>t. TypeOK /\ TypeOK'
  BY TypeStep DEF OrphanInv
<1>e. ASSUME NEW r \in Request, End(r) PROVE Same
  BY <1>e, <1>t, ContinueIsNotBetween DEF End
<1>q. ASSUME Same, UNCHANGED <<sensor, late>> PROVE OrphanInv'
  BY <1>q, OrphanQuiet
<1>1. ASSUME NEW r \in Request, Edit(r) PROVE OrphanInv'
  <2>1. UNCHANGED <<sensor, late>>
    BY <1>1 DEF Edit, create_station, InsertStation, InsertFails, update_campaign, update_station,
       partial_update_station, update_sensor,
       Load, NotFound, UpdateIsStale, publish_station, publish_campaign, ReadForPublish,
       PublishFails, Fail, CommitCampaign, CommitStation, CommitSensor, CommitUpdate,
       set_publish_state, database, history
  <2>b. ASSUME NEW s, Begin(r, s), s.op # "delete_station" PROVE Same
    BY <2>b, <1>t, BeginIsNotBetween
  <2>2. CASE create_station(r)
    <3>1. PICK gives : Begin(r, [Blank("create", "insert") EXCEPT !.gives = gives])
      BY <2>2 DEF create_station
    <3> DEFINE s == [Blank("create", "insert") EXCEPT !.gives = gives]
    <3>2. Begin(r, s) /\ s.op # "delete_station"
      BY <3>1 DEF Blank
    <3> HIDE DEF s
    <3> QED
      BY <3>2, <2>b, <2>1, <1>q
  <2>3. CASE update_campaign(r) \/ update_station(r)
             \/ partial_update_station(r) \/ update_sensor(r)
    <3>1. PICK e, gives : Update(r, e, gives)
      BY <2>3 DEF update_campaign, update_station,
         partial_update_station, update_sensor
    <3> DEFINE s == [Blank("update", "load") EXCEPT !.at = e, !.gives = gives]
    <3>2. Begin(r, s) /\ s.op # "delete_station"
      BY <3>1 DEF Update, Blank
    <3> HIDE DEF s
    <3> QED
      BY <3>2, <2>b, <2>1, <1>q
  <2>4. CASE publish_station(r)
    <3>1. PICK e : Begin(r, [Blank("publish", "read") EXCEPT !.todo = {e}])
      BY <2>4 DEF publish_station
    <3> DEFINE s == [Blank("publish", "read") EXCEPT !.todo = {e}]
    <3>2. Begin(r, s) /\ s.op # "delete_station"
      BY <3>1 DEF Blank
    <3> HIDE DEF s
    <3> QED
      BY <3>2, <2>b, <2>1, <1>q
  <2>5. CASE publish_campaign(r)
    <3>1. Blank("publish", "read") \in Session /\ Members \in SUBSET Station
      BY BlankType DEF Op, Step, Members
    <3>2. [Blank("publish", "read") EXCEPT !.todo = Members] \in Session
      BY <3>1 DEF Session
    <3>3. [Blank("publish", "read") EXCEPT !.todo = Members].op = "publish"
      BY DEF Blank
    <3> DEFINE s == get_campaign([Blank("publish", "read") EXCEPT !.todo = Members], "read")
    <3>4. Begin(r, s) /\ s.op # "delete_station"
      BY <2>5, <3>2, <3>3, GetCampaignKeeps DEF publish_campaign
    <3> HIDE DEF s
    <3> QED
      BY <3>4, <2>b, <2>1, <1>q
  <2>7. CASE Load(r)
    <3>1. request[r] \in Session
      BY <2>7, <1>t, RunningType, TypesOfBoth DEF Load, At
    <3>2. PICK names, gives :
            Continue(r, [request[r] EXCEPT !.pc = "commit", !.loaded = row[request[r].at],
                                           !.names = names, !.gives = gives])
      BY <2>7 DEF Load
    <3> DEFINE s == [request[r] EXCEPT !.pc = "commit", !.loaded = row[request[r].at],
                                       !.names = names, !.gives = gives]
    <3>3. Continue(r, s) /\ s.pc # "station"
      BY <3>1, <3>2 DEF Session
    <3> HIDE DEF s
    <3> QED
      BY <3>3, <1>t, <1>q, <2>1, ContinueIsNotBetween
  <2>8. CASE set_publish_state(r)
    <3>1. request[r] \in Session
      BY <2>8, <1>t, RunningType, TypesOfBoth DEF set_publish_state, At
    <3>2. PICK e :
            Continue(r, Committed([request[r] EXCEPT !.pc = "read", !.todo = @ \ {e}]))
      BY <2>8 DEF set_publish_state
    <3>3. /\ [request[r] EXCEPT !.pc = "read", !.todo = @ \ {e}] \in Session
          /\ [request[r] EXCEPT !.pc = "read", !.todo = @ \ {e}].pc = "read"
      BY <3>1 DEF Session, Step
    <3> DEFINE s == Committed([request[r] EXCEPT !.pc = "read", !.todo = @ \ {e}])
    <3>4. Continue(r, s) /\ s.pc # "station"
      BY <3>2, <3>3, CommittedKeeps
    <3> HIDE DEF s
    <3> QED
      BY <3>4, <1>t, <1>q, <2>1, ContinueIsNotBetween
  <2>9. CASE ReadForPublish(r)
    <3>1. request[r] \in Session
      BY <2>9, <1>t, RunningType, TypesOfBoth DEF ReadForPublish, At
    <3> DEFINE s == get_campaign(request[r], "commit")
    <3>2. (End(r) \/ Continue(r, s)) /\ s.pc # "station"
      BY <2>9, <3>1, GetCampaignKeeps DEF ReadForPublish
    <3> HIDE DEF s
    <3> QED
      BY <3>2, <1>e, <1>t, <1>q, <2>1, ContinueIsNotBetween
  <2>6. CASE InsertStation(r) \/ InsertFails(r) \/ NotFound(r) \/ UpdateIsStale(r)
             \/ CommitCampaign(r) \/ CommitStation(r) \/ CommitSensor(r) \/ PublishFails(r)
    BY <2>6, <1>e, <2>1, <1>q DEF InsertStation, InsertFails, NotFound, UpdateIsStale, Fail,
       PublishFails, CommitUpdate, CommitCampaign, CommitStation, CommitSensor
  <2> QED
    BY <1>1, <2>1, <2>2, <2>3, <2>4, <2>5, <2>6, <2>7, <2>8, <2>9 DEF Edit
<1>2. ASSUME NEW r \in Request, Delete(r) PROVE OrphanInv'
  <2>b. ASSUME NEW s, Begin(r, s), s.op # "delete_station" \/ s.pc # "station" PROVE Same
    BY <2>b, <1>t, BeginIsNotBetween
  <2>0. ASSUME NEW op \in {"delete_stations", "delete_campaign"}
        PROVE  /\ Blank(op, "commit").pc = "commit"
               /\ get_campaign(Blank(op, "commit"), "commit").pc = "commit"
    BY BlankType, BlankKeeps, GetCampaignKeeps DEF Op, Step
  <2>1. CASE delete_stations(r) \/ delete_campaign(r)
    BY <2>0, <2>1, <2>b, <1>q DEF delete_stations, delete_campaign, database, history
  <2>6. CASE delete_station(r)
    <3>1. PICK s \in Members :
            Begin(r, get_campaign([Blank("delete_station", "sensors") EXCEPT !.at = s], "sensors"))
      BY <2>6 DEF delete_station
    <3>2. Blank("delete_station", "sensors") \in Session /\ s \in Row
      BY BlankType DEF Op, Step, Members, Row
    <3>3. [Blank("delete_station", "sensors") EXCEPT !.at = s] \in Session
      BY <3>2 DEF Session
    <3> DEFINE new == get_campaign([Blank("delete_station", "sensors") EXCEPT !.at = s], "sensors")
    <3>4. Begin(r, new) /\ new.pc # "station"
      BY <3>1, <3>3, GetCampaignKeeps
    <3> HIDE DEF new
    <3>5. Same
      BY <3>4, <2>b
    <3> QED
      BY <2>6, <3>5, <1>q DEF delete_station, database, history
  <2>2. CASE SensorsStay(r) \/ StationIsGone(r) \/ StationsStay(r) \/ CampaignStays(r)
             \/ CommitDeleteCampaign(r)
    BY <2>2, <1>e, <1>q DEF SensorsStay, StationIsGone, StationsStay, CampaignStays,
       CommitDeleteCampaign, Fail, database, history
  <2>3. CASE delete_campaign_stations(r)
    BY <2>3, <1>e, <1>t, OrphanQuiet DEF delete_campaign_stations, history, TypeOK
  <2>4. CASE delete_station_sensors(r)
    <3>1. /\ sensor' = [x \in Sensor |-> IF sensor[x] = request[r].at THEN "deleted"
                                          ELSE sensor[x]]
          /\ late' = late
          /\ request' = [request EXCEPT ![r] = Committed([request[r] EXCEPT !.pc = "station"])]
          /\ r \in Running
      BY <2>4 DEF delete_station_sensors, Continue, history, At
    <3>2. OrphansAreLate'
      BY <3>1 DEF OrphanInv, OrphansAreLate
    <3>3. Committed([request[r] EXCEPT !.pc = "station"]).at = request[r].at
      BY <3>1, <1>t, RunningType, TypesOfBoth DEF Committed, Session
    <3>4. Emptied'
      BY <3>1, <3>3, <1>t, RowAssumption DEF OrphanInv, Emptied, At, Running, TypeOK
    <3> QED
      BY <1>t, <3>2, <3>4 DEF OrphanInv
  <2>5. CASE DeleteStation(r)
    <3> DEFINE s == request[r].at
    <3>1. /\ At(r, "delete_station", "station")
          /\ s \in Station
          /\ sensor' = [x \in Sensor |-> IF sensor[x] = s THEN "orphan" ELSE sensor[x]]
          /\ UNCHANGED late
          /\ Same
      BY <2>5, <1>e DEF DeleteStation, Rows, history
    <3>2. OrphansAreLate'
      BY <3>1 DEF OrphanInv, OrphansAreLate, Emptied
    <3>3. Emptied'
      BY <3>1, RowAssumption DEF OrphanInv, Emptied
    <3> QED
      BY <1>t, <3>2, <3>3 DEF OrphanInv
  <2> QED
    BY <1>2, <2>1, <2>2, <2>3, <2>4, <2>5, <2>6 DEF Delete
<1>3. CASE create_campaign \/ refresh_geometry \/ UNCHANGED vars
  BY <1>3, <1>q DEF create_campaign, refresh_geometry, history, vars, database, At, Running
<1>4. CASE delete_sensors
  <2>1. \A x \in Sensor : sensor'[x] = sensor[x] \/ sensor'[x] = "deleted"
    BY <1>4, <1>t DEF delete_sensors, TypeOK
  <2> QED
    BY <1>4, <2>1, OrphanQuiet DEF delete_sensors, history, At, Running
<1>5. CASE create_sensors
  <2>1. PICK x \in Sensor, s \in Rows :
          /\ sensor' = [sensor EXCEPT ![x] = s]
          /\ late' = IF \E r \in Running : At(r, "delete_station", "station")
                                           /\ request[r].at = s
                     THEN late \union {x} ELSE late
          /\ UNCHANGED request
    BY <1>5 DEF create_sensors
  <2>2. OrphansAreLate'
    BY <1>t, <2>1, RowAssumption DEF OrphanInv, OrphansAreLate, TypeOK, Rows
  <2>3. Emptied'
    BY <1>t, <2>1 DEF OrphanInv, Emptied, TypeOK, At, Running
  <2> QED
    BY <1>t, <2>2, <2>3 DEF OrphanInv
<1>6. ASSUME NEW to \in {"absent", "optional", "required"}, ChangeSchema(to) PROVE OrphanInv'
  <2>1. \A q \in Running : [request[q] EXCEPT !.stale_check = TRUE].at = request[q].at
                           /\ [request[q] EXCEPT !.stale_check = TRUE].op = request[q].op
                           /\ [request[q] EXCEPT !.stale_check = TRUE].pc = request[q].pc
    BY <1>t, RunningType, TypesOfBoth DEF Session
  <2>2. Same
    BY <1>6, <2>1 DEF ChangeSchema, At, Running
  <2> QED
    BY <1>6, <2>2, <1>q DEF ChangeSchema
<1> QED
  BY <1>1, <1>2, <1>3, <1>4, <1>5, <1>6 DEF Next, create_metadata_schema,
     update_metadata_schema, delete_metadata_schema

(***************************************************************************)
(* For any number of requests, uploads and deletions: a sensor loses its   *)
(* station only if an upload added it between the two transactions of the  *)
(* station's deletion.                                                     *)
(***************************************************************************)
THEOREM OrphansCameLate == Spec => []OrphansAreLate
<1>1. OrphanInv => OrphansAreLate
  BY DEF OrphanInv
<1> QED
  BY <1>1, OrphanInit, OrphanStep, PTL DEF Spec

-----------------------------------------------------------------------------
(***************************************************************************)
(* The columns of a row.                                                   *)
(***************************************************************************)
LEMMA NamedColumnsOnly ==
  ASSUME TypeOK, NEW r \in Request, CommitCampaign(r) \/ CommitStation(r) \/ CommitSensor(r),
         NEW e \in Row, NEW f \in Field, row'[e][f] # row[e][f]
  PROVE  request[r] # None /\ request[r].at = e /\ f \in request[r].names /\ request'[r] = None
<1>1. /\ row' = Assigned(r)
      /\ r \in Running
      /\ request' = [request EXCEPT ![r] = None]
  BY DEF CommitCampaign, CommitStation, CommitSensor, CommitUpdate, At, End, Continue
<1>2. request' [r] = None /\ request[r] # None
  BY <1>1 DEF Running, TypeOK
<1>3. row'[e] # row[e]
  OBVIOUS
<1>4. request[r].at = e
  BY <1>1, <1>3 DEF Assigned, TypeOK
<1>5. row'[e][f] = IF f \in request[r].names THEN r ELSE row[e][f]
  BY <1>1, <1>4 DEF Assigned, TypeOK
<1> QED
  BY <1>2, <1>4, <1>5

(***************************************************************************)
(* For any number of requests that edit a row at once, a column changes    *)
(* only as a request that gives it another value commits.                  *)
(***************************************************************************)
THEOREM EditsKeepToTheirColumns == Spec => PatchesDoNotCollide
<1> DEFINE Collides == \A e \in Row, f \in Field : row'[e][f] # row[e][f]
                         => \E r \in Request : request[r] # None /\ request[r].at = e
                                               /\ f \in request[r].names /\ request'[r] = None
<1>1. ASSUME TypeOK, [Next]_vars PROVE [Collides]_vars
  <2>u. ASSUME UNCHANGED row PROVE Collides
    BY <2>u
  <2>1. ASSUME NEW r \in Request, Edit(r) PROVE Collides
    <3>1. CASE CommitCampaign(r) \/ CommitStation(r) \/ CommitSensor(r)
      BY <1>1, <3>1, NamedColumnsOnly
    <3>2. CASE ~(CommitCampaign(r) \/ CommitStation(r) \/ CommitSensor(r))
      BY <2>1, <2>u, <3>2 DEF Edit, create_station, InsertStation, InsertFails, update_campaign,
         update_station, partial_update_station, update_sensor, Load, NotFound, UpdateIsStale, publish_station, publish_campaign,
         ReadForPublish, PublishFails, Fail, set_publish_state, database
    <3> QED
      BY <3>1, <3>2
  <2>2. ASSUME NEW r \in Request, Delete(r) PROVE Collides
    BY <2>2, <2>u DEF Delete, delete_station, delete_station_sensors, SensorsStay, DeleteStation,
       StationIsGone, delete_stations, delete_campaign_stations, StationsStay, delete_campaign,
       CommitDeleteCampaign, CampaignStays, Fail, database
  <2>3. CASE create_campaign \/ delete_sensors \/ create_sensors \/ refresh_geometry
             \/ create_metadata_schema \/ update_metadata_schema \/ delete_metadata_schema
    BY <2>3, <2>u DEF create_campaign, delete_sensors, create_sensors, refresh_geometry,
       create_metadata_schema, update_metadata_schema, delete_metadata_schema, ChangeSchema
  <2> QED
    BY <1>1, <2>1, <2>2, <2>3 DEF Next
<1> QED
  BY <1>1, TypeInit, TypeStep, PTL DEF Spec, PatchesDoNotCollide

-----------------------------------------------------------------------------
(***************************************************************************)
(* What a request's next session has from the one before or from the       *)
(* tables: a geometry that it holds, and metadata that the schema allows.  *)
(***************************************************************************)
Follows(r, new) ==
  /\ \A s \in Station : \/ new.dirty[s] \in {0, geometry[s]}
                        \/ r \in Running /\ new.dirty[s] = request[r].dirty[s]
  /\ \/ /\ r \in Running
        /\ new.gives = request[r].gives /\ new.op = request[r].op
        /\ new.stale_check = request[r].stale_check
     \/ /\ new.gives # "nothing" => Fits(new.gives = "with")
        /\ new.op = "create" => new.gives # "nothing"

AllFollow == \A q \in Running' : Follows(q, request'[q])

LEMMA BeginFollows ==
  ASSUME TypeOK, NEW r \in Request, NEW s \in Session, Begin(r, s), Follows(r, s)
  PROVE  AllFollow
BY DEF AllFollow, Begin, Follows, Running, TypeOK

LEMMA ContinueFollows ==
  ASSUME TypeOK, NEW r \in Request, NEW s \in Session, Continue(r, s), Follows(r, s)
  PROVE  AllFollow
BY DEF AllFollow, Continue, Follows, Running, TypeOK

LEMMA EndFollows ==
  ASSUME TypeOK, NEW r \in Request, End(r)
  PROVE  AllFollow
BY DEF AllFollow, End, Continue, Follows, Running, TypeOK

LEMMA BlankFollows ==
  ASSUME NEW r \in Request, NEW op \in Op \ {"create"}, NEW pc \in Step
  PROVE  Blank(op, pc) \in Session /\ Follows(r, Blank(op, pc))
<1>1. Blank(op, pc) \in Session
  BY BlankType
<1>2. \A s \in Station : Blank(op, pc).dirty[s] = 0
  BY DEF Blank
<1>3. Blank(op, pc).gives = "nothing" /\ Blank(op, pc).op # "create"
  BY DEF Blank
<1> QED
  BY <1>1, <1>2, <1>3 DEF Follows

LEMMA GetCampaignFollows ==
  ASSUME TypeOK, NEW r \in Request, NEW s \in Session, Follows(r, s), NEW pc \in Step
  PROVE  get_campaign(s, pc) \in Session /\ Follows(r, get_campaign(s, pc))
<1> DEFINE new == get_campaign(s, pc)
<1>1. new \in Session
  BY GetCampaignType, TypesOfBoth
<1>2. \A e \in Station : new.dirty[e] = IF e \in Members THEN geometry[e] ELSE s.dirty[e]
  BY DEF get_campaign, Session
<1>3. new.gives = s.gives /\ new.op = s.op /\ new.stale_check = s.stale_check
  BY DEF get_campaign, Session
<1> HIDE DEF new
<1> QED
  BY <1>1, <1>2, <1>3 DEF Follows, new

LEMMA CommittedFollows ==
  ASSUME NEW r \in Request, NEW s \in Session, Follows(r, s)
  PROVE  Committed(s) \in Session /\ Follows(r, Committed(s))
<1> DEFINE new == Committed(s)
<1>1. new \in Session
  BY CommittedType
<1>2. \A e \in Station : new.dirty[e] = 0
  BY DEF Committed, Session
<1>3. new.gives = s.gives /\ new.op = s.op /\ new.stale_check = s.stale_check
  BY DEF Committed, Session
<1> HIDE DEF new
<1> QED
  BY <1>1, <1>2, <1>3 DEF Follows, new

\* Other fields do not matter.
LEMMA OtherFieldsFollow ==
  ASSUME NEW r \in Request, NEW s \in Session, Follows(r, s), NEW new \in Session,
         new.dirty = s.dirty, new.op = s.op, new.gives = s.gives,
         new.stale_check = s.stale_check
  PROVE  Follows(r, new)
BY DEF Follows

LEMMA OwnSessionFollows ==
  ASSUME TypeOK, NEW r \in Running
  PROVE  request[r] \in Session /\ Follows(r, request[r])
BY RunningType, TypesOfBoth DEF Follows

LEMMA UpdateFollows ==
  ASSUME TypeOK, NEW r \in Request, NEW e \in Row, NEW gives \in Gives, Update(r, e, gives),
         gives # "nothing" => Fits(gives = "with")
  PROVE  AllFollow
<1> DEFINE old == Blank("update", "load")
           new == [old EXCEPT !.at = e, !.gives = gives]
<1>1. old \in Session /\ Follows(r, old)
  BY BlankFollows DEF Op, Step
<1>2. \A s \in Station : old.dirty[s] = 0
  BY DEF Blank
<1>3. old.op = "update"
  BY DEF Blank
<1>4. Begin(r, new)
  BY DEF Update
<1> HIDE DEF old
<1>5. /\ new \in Session /\ new.dirty = old.dirty /\ new.op = "update" /\ new.gives = gives
  BY <1>1, <1>3 DEF Session
<1> HIDE DEF new
<1>6. Follows(r, new)
  BY <1>2, <1>5 DEF Follows
<1> QED
  BY <1>4, <1>5, <1>6, BeginFollows

LEMMA EditFollows ==
  ASSUME TypeOK, NEW r \in Request, Edit(r)
  PROVE  AllFollow
<1>1. CASE create_station(r)
  <2>1. PICK gives \in {"with", "without"} :
          /\ Fits(gives = "with")
          /\ Begin(r, [Blank("create", "insert") EXCEPT !.gives = gives])
    BY <1>1 DEF create_station
  <2> DEFINE old == Blank("create", "insert")
             new == [old EXCEPT !.gives = gives]
  <2>2. old \in Session
    BY BlankType DEF Op, Step
  <2>3. \A s \in Station : old.dirty[s] = 0
    BY DEF Blank
  <2>4. Begin(r, new)
    BY <2>1
  <2> HIDE DEF old
  <2>5. new \in Session /\ new.dirty = old.dirty /\ new.gives = gives
    BY <2>2 DEF Session, Gives
  <2> HIDE DEF new
  <2>6. Follows(r, new)
    BY <2>1, <2>3, <2>5 DEF Follows
  <2> QED
    BY <2>4, <2>5, <2>6, BeginFollows
<1>2. CASE update_campaign(r) \/ update_station(r)
           \/ partial_update_station(r) \/ update_sensor(r)
  <2>1. \E e \in Row, gives \in Gives :
          Update(r, e, gives) /\ (gives # "nothing" => Fits(gives = "with"))
    BY <1>2 DEF update_campaign, update_station,
       partial_update_station, update_sensor, Row, Gives
  <2> QED
    BY <2>1, UpdateFollows
<1>3. CASE publish_station(r)
  <2>1. PICK e \in Members : Begin(r, [Blank("publish", "read") EXCEPT !.todo = {e}])
    BY <1>3 DEF publish_station
  <2> DEFINE old == Blank("publish", "read")
             new == [old EXCEPT !.todo = {e}]
  <2>2. old \in Session /\ Follows(r, old) /\ e \in Station
    BY BlankFollows DEF Op, Step, Members
  <2>3. Begin(r, new)
    BY <2>1
  <2> HIDE DEF old
  <2>4. /\ new \in Session /\ new.dirty = old.dirty /\ new.op = old.op
        /\ new.gives = old.gives /\ new.stale_check = old.stale_check
    BY <2>2 DEF Session
  <2> HIDE DEF new
  <2> QED
    BY <2>2, <2>3, <2>4, OtherFieldsFollow, BeginFollows
<1>4. CASE publish_campaign(r)
  <2> DEFINE old == Blank("publish", "read")
             new == [old EXCEPT !.todo = Members]
  <2>2. old \in Session /\ Follows(r, old) /\ Members \in SUBSET Station
    BY BlankFollows DEF Op, Step, Members
  <2>3. Begin(r, get_campaign(new, "read"))
    BY <1>4 DEF publish_campaign
  <2> HIDE DEF old
  <2>4. /\ new \in Session /\ new.dirty = old.dirty /\ new.op = old.op
        /\ new.gives = old.gives /\ new.stale_check = old.stale_check
    BY <2>2 DEF Session
  <2> HIDE DEF new
  <2>5. get_campaign(new, "read") \in Session /\ Follows(r, get_campaign(new, "read"))
    BY <2>2, <2>4, OtherFieldsFollow, GetCampaignFollows DEF Step
  <2> QED
    BY <2>3, <2>5, BeginFollows
<1>5. CASE Load(r)
  <2>1. request[r] \in Session /\ Follows(r, request[r]) /\ r \in Running
    BY <1>5, OwnSessionFollows DEF Load, At
  <2>2. /\ row[request[r].at] \in [Field -> Request \union {None}]
        /\ request[r].op = "update"
    BY <1>5, <2>1 DEF Load, Alive, TypeOK, Row, At
  <2>3. PICK names \in SUBSET Field, gives \in {request[r].gives, "nothing"} :
          Continue(r, [request[r] EXCEPT !.pc = "commit", !.loaded = row[request[r].at],
                                         !.names = names, !.gives = gives])
    BY <1>5 DEF Load
  <2> DEFINE old == request[r]
             new == [old EXCEPT !.pc = "commit", !.loaded = row[old.at],
                                !.names = names, !.gives = gives]
  <2>4. Continue(r, new)
    BY <2>3
  <2>5. old \in Session /\ Follows(r, old) /\ old.op = "update" /\ gives \in {old.gives, "nothing"}
    BY <2>1, <2>2
  <2>6. row[old.at] \in [Field -> Request \union {None}]
    BY <2>2
  <2> HIDE DEF old
  <2>7. /\ new \in Session /\ new.dirty = old.dirty /\ new.op = "update"
        /\ new.gives = gives /\ new.stale_check = old.stale_check
    BY <2>5, <2>6 DEF Session, Step, Gives
  <2> HIDE DEF new
  <2>8. Follows(r, new)
    BY <2>5, <2>7 DEF Follows
  <2> QED
    BY <2>4, <2>7, <2>8, ContinueFollows
<1>6. CASE ReadForPublish(r)
  <2>1. request[r] \in Session /\ Follows(r, request[r]) /\ r \in Running
    BY <1>6, OwnSessionFollows DEF ReadForPublish, At
  <2>2. /\ get_campaign(request[r], "commit") \in Session
        /\ Follows(r, get_campaign(request[r], "commit"))
    BY <2>1, GetCampaignFollows DEF Step
  <2> QED
    BY <1>6, <2>2, EndFollows, ContinueFollows DEF ReadForPublish
<1>7. CASE set_publish_state(r)
  <2>1. PICK e \in request[r].todo :
          Continue(r, Committed([request[r] EXCEPT !.pc = "read", !.todo = @ \ {e}]))
    BY <1>7 DEF set_publish_state
  <2> DEFINE old == request[r]
             new == [old EXCEPT !.pc = "read", !.todo = @ \ {e}]
  <2>2. old \in Session /\ Follows(r, old)
    BY <1>7, OwnSessionFollows DEF set_publish_state, At
  <2>3. Continue(r, Committed(new))
    BY <2>1
  <2> HIDE DEF old
  <2>4. /\ new \in Session /\ new.dirty = old.dirty /\ new.op = old.op
        /\ new.gives = old.gives /\ new.stale_check = old.stale_check
    BY <2>2 DEF Session, Step
  <2> HIDE DEF new
  <2>5. Committed(new) \in Session /\ Follows(r, Committed(new))
    BY <2>2, <2>4, OtherFieldsFollow, CommittedFollows
  <2> QED
    BY <2>3, <2>5, ContinueFollows
<1>8. CASE InsertStation(r) \/ InsertFails(r) \/ NotFound(r) \/ UpdateIsStale(r)
           \/ CommitCampaign(r) \/ CommitStation(r) \/ CommitSensor(r) \/ PublishFails(r)
  BY <1>8, EndFollows DEF InsertStation, InsertFails, NotFound, UpdateIsStale, Fail, PublishFails,
     CommitUpdate, CommitCampaign, CommitStation, CommitSensor
<1> QED
  BY <1>1, <1>2, <1>3, <1>4, <1>5, <1>6, <1>7, <1>8 DEF Edit

LEMMA DeleteFollows ==
  ASSUME TypeOK, NEW r \in Request, Delete(r)
  PROVE  AllFollow
<1>1. CASE delete_station(r)
  <2>1. PICK e \in Members :
          Begin(r, get_campaign([Blank("delete_station", "sensors") EXCEPT !.at = e], "sensors"))
    BY <1>1 DEF delete_station
  <2> DEFINE old == Blank("delete_station", "sensors")
             new == [old EXCEPT !.at = e]
  <2>2. old \in Session /\ Follows(r, old) /\ e \in Row
    BY BlankFollows DEF Op, Step, Members, Row
  <2>3. Begin(r, get_campaign(new, "sensors"))
    BY <2>1
  <2> HIDE DEF old
  <2>4. /\ new \in Session /\ new.dirty = old.dirty /\ new.op = old.op
        /\ new.gives = old.gives /\ new.stale_check = old.stale_check
    BY <2>2 DEF Session
  <2> HIDE DEF new
  <2>5. get_campaign(new, "sensors") \in Session /\ Follows(r, get_campaign(new, "sensors"))
    BY <2>2, <2>4, OtherFieldsFollow, GetCampaignFollows DEF Step
  <2> QED
    BY <2>3, <2>5, BeginFollows
<1>2. CASE delete_station_sensors(r)
  <2> DEFINE old == request[r]
             new == [old EXCEPT !.pc = "station"]
  <2>2. old \in Session /\ Follows(r, old)
    BY <1>2, OwnSessionFollows DEF delete_station_sensors, At
  <2>3. Continue(r, Committed(new))
    BY <1>2 DEF delete_station_sensors
  <2> HIDE DEF old
  <2>4. /\ new \in Session /\ new.dirty = old.dirty /\ new.op = old.op
        /\ new.gives = old.gives /\ new.stale_check = old.stale_check
    BY <2>2 DEF Session, Step
  <2> HIDE DEF new
  <2>5. Committed(new) \in Session /\ Follows(r, Committed(new))
    BY <2>2, <2>4, OtherFieldsFollow, CommittedFollows
  <2> QED
    BY <2>3, <2>5, ContinueFollows
<1>3. CASE delete_stations(r) \/ delete_campaign(r)
  <2>1. \E s \in Session : Begin(r, s) /\ Follows(r, s)
    BY <1>3, BlankFollows, GetCampaignFollows DEF delete_stations, delete_campaign, Op, Step
  <2> QED
    BY <2>1, BeginFollows
<1>4. CASE SensorsStay(r) \/ DeleteStation(r) \/ StationIsGone(r) \/ delete_campaign_stations(r)
           \/ StationsStay(r) \/ CommitDeleteCampaign(r) \/ CampaignStays(r)
  BY <1>4, EndFollows DEF SensorsStay, DeleteStation, StationIsGone, delete_campaign_stations,
     StationsStay, CommitDeleteCampaign, CampaignStays, Fail
<1> QED
  BY <1>1, <1>2, <1>3, <1>4 DEF Delete

LEMMA IdleFollows ==
  ASSUME TypeOK, UNCHANGED request
  PROVE  AllFollow
BY OwnSessionFollows DEF AllFollow, Running

-----------------------------------------------------------------------------
(***************************************************************************)
(* Geometries. A session that holds one holds the last one, or the station *)
(* was refreshed since.                                                    *)
(***************************************************************************)
Recent ==
  /\ \A s \in Station : \/ geometry[s] = refreshed[s]
                        \/ s \in overtaken /\ geometry[s] \in 1..refreshed[s]
  /\ \A r \in Running, s \in Station :
       \/ request[r].dirty[s] \in {0, refreshed[s]}
       \/ s \in overtaken /\ request[r].dirty[s] \in 1..refreshed[s]

LEMMA RecentInit == Init => Recent
BY DEF Init, Recent, Running

LEMMA RecentQuiet ==
  ASSUME TypeOK, Recent, AllFollow, UNCHANGED <<refreshed, overtaken>>,
         \A s \in Station : \/ geometry'[s] = geometry[s]
                            \/ \E q \in Running : s \in Dirty(q) /\ geometry'[s] = request[q].dirty[s]
  PROVE  Recent'
<1>1. \A s \in Station : \/ geometry'[s] = refreshed'[s]
                         \/ s \in overtaken' /\ geometry'[s] \in 1..refreshed'[s]
  BY DEF Recent, Dirty
<1>2. ASSUME NEW r \in Running', NEW s \in Station
      PROVE  \/ request'[r].dirty[s] \in {0, refreshed'[s]}
             \/ s \in overtaken' /\ request'[r].dirty[s] \in 1..refreshed'[s]
  BY <1>2 DEF Recent, AllFollow, Follows, TypeOK
<1> QED
  BY <1>1, <1>2 DEF Recent

LEMMA FlushOnly ==
  ASSUME NEW r \in Running, NEW rows, Flush(r, rows)
  PROVE  \A s \in Station : \/ geometry'[s] = geometry[s]
                            \/ \E q \in Running : s \in Dirty(q) /\ geometry'[s] = request[q].dirty[s]
BY DEF Flush

LEMMA RecentStep == TypeOK /\ Recent /\ [Next]_vars => Recent'
<1> SUFFICES ASSUME TypeOK, Recent, [Next]_vars PROVE Recent'
  OBVIOUS
<1>1. ASSUME NEW r \in Request, Edit(r) PROVE Recent'
  <2>1. UNCHANGED <<refreshed, overtaken>>
    BY <1>1 DEF Edit, create_station, InsertStation, InsertFails, update_campaign, update_station,
       partial_update_station, update_sensor,
       Load, NotFound, UpdateIsStale, publish_station, publish_campaign, ReadForPublish,
       PublishFails, Fail, CommitCampaign, CommitStation, CommitSensor, CommitUpdate,
       set_publish_state, history
  <2>2. CASE set_publish_state(r)
    BY <1>1, <2>1, <2>2, EditFollows, FlushOnly, RecentQuiet DEF set_publish_state, At
  <2>3. CASE ~set_publish_state(r)
    <3>1. UNCHANGED geometry
      BY <1>1, <2>3 DEF Edit, create_station, InsertStation, InsertFails, update_campaign,
         update_station, partial_update_station, update_sensor, Load, NotFound, UpdateIsStale, publish_station, publish_campaign,
         ReadForPublish, PublishFails, Fail, CommitCampaign, CommitStation, CommitSensor,
         CommitUpdate, database
    <3> QED
      BY <1>1, <2>1, <3>1, EditFollows, RecentQuiet
  <2> QED
    BY <2>2, <2>3
<1>2. ASSUME NEW r \in Request, Delete(r) PROVE Recent'
  <2>1. UNCHANGED <<refreshed, overtaken>>
    BY <1>2 DEF Delete, delete_station, delete_station_sensors, SensorsStay, DeleteStation,
       StationIsGone, delete_stations, delete_campaign_stations, StationsStay, delete_campaign,
       CommitDeleteCampaign, CampaignStays, Fail, history
  <2>2. CASE delete_station_sensors(r) \/ delete_campaign_stations(r) \/ CommitDeleteCampaign(r)
    BY <1>2, <2>1, <2>2, DeleteFollows, FlushOnly, RecentQuiet
    DEF delete_station_sensors, delete_campaign_stations, CommitDeleteCampaign, At
  <2>3. CASE ~(delete_station_sensors(r) \/ delete_campaign_stations(r) \/ CommitDeleteCampaign(r))
    <3>1. UNCHANGED geometry
      BY <1>2, <2>3 DEF Delete, delete_station, SensorsStay, DeleteStation, StationIsGone,
         delete_stations, StationsStay, delete_campaign, CampaignStays, Fail, database
    <3> QED
      BY <1>2, <2>1, <3>1, DeleteFollows, RecentQuiet
  <2> QED
    BY <2>2, <2>3
<1>3. CASE create_campaign \/ delete_sensors \/ create_sensors \/ UNCHANGED vars
  <2>1. UNCHANGED <<request, geometry, refreshed, overtaken>>
    BY <1>3 DEF create_campaign, delete_sensors, create_sensors, vars, database, history
  <2> QED
    BY <2>1, IdleFollows, RecentQuiet
<1>4. CASE refresh_geometry
  <2>1. PICK s \in Rows :
          /\ refreshed' = [refreshed EXCEPT ![s] = refreshed[s] + 1]
          /\ geometry' = [geometry EXCEPT ![s] = refreshed'[s]]
          /\ overtaken' = IF \E r \in Running : s \in Dirty(r)
                          THEN overtaken \union {s} ELSE overtaken \ {s}
          /\ UNCHANGED request
    BY <1>4 DEF refresh_geometry, update_station_geometry
  <2>2. s \in Station
    BY DEF Rows
  <2>3. /\ \A e \in Station \ {s} :
             /\ refreshed'[e] = refreshed[e] /\ geometry'[e] = geometry[e]
             /\ (e \in overtaken => e \in overtaken')
        /\ refreshed'[s] = refreshed[s] + 1 /\ geometry'[s] = refreshed'[s]
        /\ refreshed[s] \in Nat
    BY <2>1, <2>2 DEF TypeOK
  <2>4. \A e \in Station : \/ geometry'[e] = refreshed'[e]
                           \/ e \in overtaken' /\ geometry'[e] \in 1..refreshed'[e]
    BY <2>3 DEF Recent
  <2>5. ASSUME NEW r \in Running', NEW e \in Station
        PROVE  \/ request'[r].dirty[e] \in {0, refreshed'[e]}
               \/ e \in overtaken' /\ request'[r].dirty[e] \in 1..refreshed'[e]
    <3>0. r \in Running /\ request'[r] = request[r]
      BY <2>1 DEF Running
    <3>1. CASE e = s
      <4>1. request[r].dirty[s] \in {0, refreshed[s]} \/ request[r].dirty[s] \in 1..refreshed[s]
        BY <2>2, <3>0 DEF Recent
      <4>2. request[r].dirty[s] # 0 => s \in overtaken'
        BY <2>1, <2>2, <3>0 DEF Dirty
      <4> HIDE DEF Running
      <4> QED
        BY <2>3, <3>0, <3>1, <4>1, <4>2
    <3>2. CASE e # s
      BY <2>3, <3>0, <3>2 DEF Recent
    <3> QED
      BY <3>1, <3>2
  <2> QED
    BY <2>4, <2>5 DEF Recent
<1>5. ASSUME NEW to, ChangeSchema(to) PROVE Recent'
  <2>1. \A q \in Running : [request[q] EXCEPT !.stale_check = TRUE].dirty = request[q].dirty
    BY RunningType, TypesOfBoth DEF Session
  <2>2. \A q \in Running' : q \in Running /\ request'[q].dirty = request[q].dirty
    BY <1>5, <2>1 DEF ChangeSchema, Running
  <2> QED
    BY <1>5, <2>2 DEF ChangeSchema, Recent
<1> QED
  BY <1>1, <1>2, <1>3, <1>4, <1>5 DEF Next, create_metadata_schema, update_metadata_schema,
     delete_metadata_schema

(***************************************************************************)
(* For any requests that read the campaign and write its stations back: a  *)
(* station has the geometry of its last upload, or, if a session that held *)
(* an older one was open then, an older one of its own; it has one then.   *)
(***************************************************************************)
THEOREM GeometriesAreTheUploads == Spec => []GeometryIsTheUploads
<1>1. Recent => GeometryIsTheUploads
  BY DEF Recent, GeometryIsTheUploads, Rows
<1> QED
  BY <1>1, TypeInit, TypeStep, RecentInit, RecentStep, PTL DEF Spec

-----------------------------------------------------------------------------
(***************************************************************************)
(* Metadata. What a request is to store fits the schema of its check.      *)
(***************************************************************************)
Vetted ==
  /\ MetadataFitsTheSchema
  /\ \A r \in Running :
       /\ request[r].gives # "nothing" /\ ~request[r].stale_check
            => Fits(request[r].gives = "with")
       /\ request[r].op = "create" => request[r].gives # "nothing"

LEMMA VettedInit == Init => Vetted
<1> SUFFICES ASSUME Init PROVE Vetted
  OBVIOUS
<1>1. Running = {}
  BY DEF Init, Running
<1>2. MetadataFitsTheSchema
  BY DEF Init, MetadataFitsTheSchema, Rows, Members
<1> QED
  BY <1>1, <1>2 DEF Vetted

LEMMA VettedFollows ==
  ASSUME TypeOK, Vetted, AllFollow, UNCHANGED schema, MetadataFitsTheSchema'
  PROVE  Vetted'
BY DEF Vetted, AllFollow, Follows, Fits

LEMMA VettedQuiet ==
  ASSUME TypeOK, Vetted, AllFollow, UNCHANGED <<schema, outdated>>,
         \A s \in Rows' : s \in Rows /\ (s \in metadata' <=> s \in metadata)
  PROVE  Vetted'
<1>1. MetadataFitsTheSchema'
  BY DEF Vetted, MetadataFitsTheSchema
<1> QED
  BY <1>1, VettedFollows

LEMMA VettedEdit ==
  ASSUME TypeOK, Vetted, NEW r \in Request, Edit(r)
  PROVE  Vetted'
<1>1. AllFollow
  BY EditFollows
<1>2. UNCHANGED schema
  BY DEF Edit, create_station, InsertStation, InsertFails, update_campaign, update_station,
     partial_update_station, update_sensor,
     Load, NotFound, UpdateIsStale, publish_station, publish_campaign, ReadForPublish,
     PublishFails, Fail, CommitCampaign, CommitStation, CommitSensor, CommitUpdate,
     set_publish_state, database
<1>3. CASE ~InsertStation(r) /\ ~CommitStation(r)
  <2>1. UNCHANGED <<station, metadata, outdated>>
    BY <1>3 DEF Edit, create_station, InsertFails, update_campaign, update_station,
       partial_update_station, update_sensor,
       Load, NotFound, UpdateIsStale, publish_station, publish_campaign, ReadForPublish,
       PublishFails, Fail, CommitCampaign, CommitSensor, CommitUpdate, set_publish_state,
       database, history
  <2> QED
    BY <1>1, <1>2, <2>1, VettedQuiet DEF Rows
<1>4. CASE InsertStation(r)
  <2>1. /\ r \in Running /\ request[r].op = "create" /\ request[r] \in Session
    BY <1>4, RunningType, TypesOfBoth DEF InsertStation, At
  <2>2. PICK s \in Station :
          /\ station[s] = "unborn"
          /\ station' = [station EXCEPT ![s] = "member"]
          /\ metadata' = IF request[r].gives = "with" THEN metadata \union {s} ELSE metadata
          /\ outdated' = IF request[r].stale_check THEN outdated \union {s} ELSE outdated \ {s}
    BY <1>4 DEF InsertStation, Checked
  <2>3. Rows' = Rows \union {s} /\ s \notin Rows /\ s \notin metadata
    BY <2>2 DEF Rows, TypeOK
  <2>4. MetadataFitsTheSchema'
    <3>1. s \in metadata' <=> request[r].gives = "with"
      BY <2>2, <2>3
    <3>2. request[r].stale_check \/ Fits(request[r].gives = "with")
      BY <2>1 DEF Vetted
    <3>3. Allows(schema', s \in metadata') \/ s \in outdated'
      BY <1>2, <2>2, <3>1, <3>2 DEF Fits, Allows
    <3>4. ASSUME NEW e \in Rows
          PROVE  Allows(schema', e \in metadata') \/ e \in outdated'
      BY <1>2, <2>2, <2>3 DEF Vetted, MetadataFitsTheSchema, Allows
    <3> QED
      BY <2>3, <3>3, <3>4 DEF MetadataFitsTheSchema
  <2> QED
    BY <1>1, <1>2, <2>4, VettedFollows
<1>5. CASE CommitStation(r)
  <2> DEFINE s == request[r].at
  <2>1. r \in Running /\ request[r] \in Session /\ Rows' = Rows
    BY <1>5, RunningType, TypesOfBoth DEF CommitStation, CommitUpdate, At, Rows
  <2>2. \/ request[r].gives = "nothing" /\ UNCHANGED <<metadata, outdated>>
        \/ /\ request[r].gives = "with" /\ metadata' = metadata \union {s}
           /\ outdated' = IF request[r].stale_check THEN outdated \union {s} ELSE outdated \ {s}
        \/ /\ request[r].gives = "without" /\ metadata' = metadata \ {s}
           /\ outdated' = IF request[r].stale_check THEN outdated \union {s} ELSE outdated \ {s}
    BY <1>5 DEF CommitStation, Checked
  <2>3. request[r].gives # "nothing" =>
          request[r].stale_check \/ Fits(request[r].gives = "with")
    BY <2>1 DEF Vetted
  <2> HIDE DEF s
  <2>4. ASSUME NEW e \in Rows
        PROVE  Allows(schema', e \in metadata') \/ e \in outdated'
    <3>1. CASE e = s /\ request[r].gives # "nothing"
      BY <1>2, <2>2, <2>3, <3>1 DEF Fits, Allows
    <3>2. CASE e # s \/ request[r].gives = "nothing"
      BY <1>2, <2>2, <3>2 DEF Vetted, MetadataFitsTheSchema, Allows
    <3> QED
      BY <3>1, <3>2
  <2>5. MetadataFitsTheSchema'
    BY <2>1, <2>4 DEF MetadataFitsTheSchema
  <2> QED
    BY <1>1, <1>2, <2>5, VettedFollows
<1> QED
  BY <1>3, <1>4, <1>5

LEMMA VettedStep == TypeOK /\ Vetted /\ [Next]_vars => Vetted'
<1> SUFFICES ASSUME TypeOK, Vetted, [Next]_vars PROVE Vetted'
  OBVIOUS
<1>1. ASSUME NEW r \in Request, Edit(r) PROVE Vetted'
  BY <1>1, VettedEdit
<1>2. ASSUME NEW r \in Request, Delete(r) PROVE Vetted'
  <2>1. UNCHANGED <<schema, outdated>>
    BY <1>2 DEF Delete, delete_station, delete_station_sensors, SensorsStay, DeleteStation,
       StationIsGone, delete_stations, delete_campaign_stations, StationsStay, delete_campaign,
       CommitDeleteCampaign, CampaignStays, Fail, history, database
  <2>2. CASE DeleteStation(r)
    BY <1>2, <2>1, <2>2, DeleteFollows, VettedQuiet DEF DeleteStation, Rows, TypeOK
  <2>3. CASE delete_campaign_stations(r)
    BY <1>2, <2>1, <2>3, DeleteFollows, VettedQuiet DEF delete_campaign_stations, Rows, Members,
       TypeOK
  <2>4. CASE CommitDeleteCampaign(r)
    BY <1>2, <2>1, <2>4, DeleteFollows, VettedQuiet DEF CommitDeleteCampaign, Rows, TypeOK
  <2>5. CASE ~(DeleteStation(r) \/ delete_campaign_stations(r) \/ CommitDeleteCampaign(r))
    <3>1. UNCHANGED <<station, metadata>>
      BY <1>2, <2>5 DEF Delete, delete_station, delete_station_sensors, SensorsStay,
         StationIsGone, delete_stations, StationsStay, delete_campaign, CampaignStays, Fail,
         database
    <3> QED
      BY <1>2, <2>1, <3>1, DeleteFollows, VettedQuiet DEF Rows
  <2> QED
    BY <2>2, <2>3, <2>4, <2>5
<1>3. CASE create_campaign \/ delete_sensors \/ create_sensors \/ refresh_geometry
           \/ UNCHANGED vars
  <2>1. UNCHANGED <<request, station, metadata, schema, outdated>>
    BY <1>3 DEF create_campaign, delete_sensors, create_sensors, refresh_geometry, vars,
       database, history
  <2> QED
    BY <2>1, IdleFollows, VettedQuiet DEF Rows
<1>4. ASSUME NEW to, ChangeSchema(to) PROVE Vetted'
  <2>1. Rows' = Rows
    BY <1>4 DEF ChangeSchema, Rows
  <2>2. MetadataFitsTheSchema'
    BY <1>4, <2>1 DEF ChangeSchema, MetadataFitsTheSchema
  <2>3. \A q \in Running :
          /\ [request[q] EXCEPT !.stale_check = TRUE].stale_check = TRUE
          /\ [request[q] EXCEPT !.stale_check = TRUE].op = request[q].op
          /\ [request[q] EXCEPT !.stale_check = TRUE].gives = request[q].gives
    BY RunningType, TypesOfBoth DEF Session
  <2>4. \A q \in Running' :
          /\ q \in Running /\ request'[q].stale_check = TRUE
          /\ request'[q].op = request[q].op /\ request'[q].gives = request[q].gives
    BY <1>4, <2>3 DEF ChangeSchema, Running
  <2> QED
    BY <2>2, <2>4 DEF Vetted
<1> QED
  BY <1>1, <1>2, <1>3, <1>4 DEF Next, create_metadata_schema, update_metadata_schema,
     delete_metadata_schema

(***************************************************************************)
(* For any requests and schema changes: the metadata of a station satisfy  *)
(* the schema, unless it changed after they were checked.                  *)
(***************************************************************************)
THEOREM StoredMetadataFit == Spec => []MetadataFitsTheSchema
<1>1. Vetted => MetadataFitsTheSchema
  BY DEF Vetted
<1> QED
  BY <1>1, TypeInit, TypeStep, VettedInit, VettedStep, PTL DEF Spec
==============================================================================
