------------------------------- MODULE Catalog -------------------------------
(***************************************************************************)
(* The catalogue: one campaign, its stations and their sensors, and the    *)
(* requests that create, edit, publish and delete them, beside the uploads *)
(* that add sensors and set a station's geometry, and the administrator    *)
(* who edits the metadata schema of stations.                              *)
(*                                                                         *)
(* A request has a session of its own. What the session has read it keeps  *)
(* as objects until it commits; a commit updates only the columns whose    *)
(* values the request changed, and finds the row gone with StaleDataError. *)
(* The sessions are made with autoflush off, so that everything is written *)
(* at the commit. Requests interleave between their statements: those that    *)
(* are "def" run on threads, and several processes serve the API.          *)
(*                                                                         *)
(* get_campaign assigns the geometry of every station it has read, as      *)
(* GeoJSON, to the station's object: the next commit of that session       *)
(* writes these geometries back (rounded to the digits of ST_AsGeoJSON,    *)
(* which is left out). A campaign's own geometry is not changed by the     *)
(* application and stays NULL. Datasets are left to Publication;    *)
(* names, and their uniqueness, and the deletion of one sensor, are left   *)
(* out. An identifier is a serial number, and is not given twice.          *)
(***************************************************************************)
EXTENDS Naturals, FiniteSets

CONSTANTS
  Station, Sensor,
  Campaign,     \* the campaign's row
  Field,        \* the columns that a PUT or PATCH may set
  Request,
  None,
  MaxRequests,  \* bound: requests
  MaxRefresh,   \* bound: refreshes of each station's geometry
  MaxChanges    \* bound: changes of the schema

ASSUME BoundAssumption ==
  {MaxRequests, MaxChanges} \subseteq Nat /\ MaxRefresh \in Nat \ {0}
ASSUME NoneAssumption == None \notin Request \union Nat
ASSUME RowAssumption ==
  /\ Campaign \notin Station \union Sensor /\ Station \intersect Sensor = {}
  /\ {"unborn", "orphan", "deleted"} \intersect Station = {}

Row == {Campaign} \union Station \union Sensor

VARIABLES
  campaign,   \* "unborn", "present" or "deleted"
  station,    \* "unborn", "member" of the campaign, "orphan" (campaignid is NULL), "deleted"
  sensor,     \* its station, or "unborn", "orphan" (stationid is NULL), "deleted"
  row,        \* by column, the request whose value it holds
  metadata,   \* the stations that have the metadata field
  schema,     \* of stations: the field is "absent", "optional" or "required"
  geometry,   \* of a station: the number of the refresh that computed it; 0 is NULL
  request,
  begun,      \* the number of requests that have begun
  changes,    \* the number of changes of the schema
  \* history
  refreshed,  \* the number of the last refresh of a station's geometry
  overtaken,  \* stations refreshed while a session held an older geometry
  late,       \* sensors added between the two transactions of a deletion
  outdated    \* stations whose metadata the schema of their check allowed

database == <<campaign, station, sensor, row, metadata, schema, geometry>>
history == <<refreshed, overtaken, late, outdated, changes>>
vars == <<database, request, begun, history>>

Op == {"create", "update", "delete_station", "delete_stations", "delete_campaign",
       "publish"}
Step == {"insert", "load", "commit", "read", "sensors", "station"}

\* Metadata with the field, without it, or none: they are left alone.
Gives == {"with", "without", "nothing"}

Session == [op : Op, pc : Step,
            at : Row \union {None},                    \* the row it is about
            names : SUBSET Field,                      \* the columns whose values it changes
            gives : Gives,                             \* the metadata that it stores
            stale_check : BOOLEAN,                     \* history: the schema changed after its check
            loaded : [Field -> Request \union {None}], \* the object it edits
            objects : SUBSET Station,                  \* the stations of the campaign it read
            dirty : [Station -> 0..MaxRefresh],                  \* the geometries it assigned; 0: none
            todo : SUBSET Station]                     \* the stations still to publish

Alive(e) ==
  \/ e = Campaign /\ campaign = "present"
  \/ e \in Station /\ station[e] \in {"member", "orphan"}
  \/ e \in Sensor /\ sensor[e] \in Station \union {"orphan"}

Members == {s \in Station : station[s] = "member"}
Rows == {s \in Station : station[s] \in {"member", "orphan"}}
SensorsOf(ss) == {x \in Sensor : sensor[x] \in ss}

\* Types; a sensor's station is there.
TypeOK ==
  /\ campaign \in {"unborn", "present", "deleted"}
  /\ station \in [Station -> {"unborn", "member", "orphan", "deleted"}]
  /\ sensor \in [Sensor -> {"unborn", "orphan", "deleted"} \union Station]
  /\ \A x \in Sensor : sensor[x] \in Station => sensor[x] \in Rows
  /\ Members # {} => campaign = "present"
  /\ row \in [Row -> [Field -> Request \union {None}]]
  /\ metadata \subseteq Rows
  /\ schema \in {"absent", "optional", "required"}
  /\ geometry \in [Station -> 0..MaxRefresh]
  /\ request \in [Request -> Session \union {None}]
  /\ begun \in 0..MaxRequests
  /\ changes \in 0..MaxChanges
  /\ refreshed \in [Station -> 0..MaxRefresh]
  /\ overtaken \subseteq Station
  /\ late \subseteq Sensor
  /\ outdated \subseteq Station

\* validate_metadata: a required field is there, and no other than those of
\* the schema. That a value has its type is part of having the field.
Allows(kind, has) == (kind = "required" => has) /\ (has => kind # "absent")

\* A variant of Fits: required fields are not asked for.
FitsIfKnown(has) == has => schema # "absent"

Fits(has) == Allows(schema, has)

\* The campaign is yet to be created, or has stations whose sensors, columns
\* and metadata came before.
Init ==
  /\ row = [e \in Row |-> [f \in Field |-> None]]
  /\ schema \in {"absent", "optional", "required"}
  /\ \/ /\ campaign = "unborn"
        /\ station = [s \in Station |-> "unborn"]
        /\ sensor = [x \in Sensor |-> "unborn"]
        /\ metadata = {}
        /\ refreshed = [s \in Station |-> 0]
     \/ /\ campaign = "present"
        /\ station \in [Station -> {"unborn", "member"}]
        /\ sensor \in [Sensor -> {"unborn"} \union Members]
        /\ metadata \in SUBSET Members
        /\ \A s \in Members : Allows(schema, s \in metadata)
        /\ refreshed = [s \in Station |-> IF SensorsOf({s}) = {} THEN 0 ELSE 1]
  /\ geometry = refreshed
  /\ request = [r \in Request |-> None]
  /\ begun = 0
  /\ changes = 0
  /\ overtaken = {}
  /\ late = {}
  /\ outdated = {}

-----------------------------------------------------------------------------
(* Sessions. *)

Running == {r \in Request : request[r] # None}

Blank(op, pc) ==
  [op |-> op, pc |-> pc, at |-> None, names |-> {}, gives |-> "nothing", stale_check |-> FALSE,
   loaded |-> [f \in Field |-> None], objects |-> {}, dirty |-> [s \in Station |-> 0],
   todo |-> {}]

Begin(r, session) ==
  /\ request[r] = None
  /\ begun < MaxRequests
  /\ begun' = begun + 1
  /\ request' = [request EXCEPT ![r] = session]

At(r, op, pc) == r \in Running /\ request[r].op = op /\ request[r].pc = pc

Continue(r, session) ==
  /\ request' = [request EXCEPT ![r] = session]
  /\ UNCHANGED begun

\* The request has its answer, and the session is closed.
End(r) == Continue(r, None)

\* The objects that get_campaign assigned a geometry to.
Dirty(r) == {s \in Station : request[r].dirty[s] # 0}

\* A commit writes these geometries to their rows, which have to be there;
\* rows are those that the rest of the transaction leaves.
Flush(r, rows) ==
  /\ Dirty(r) \subseteq rows
  /\ geometry' = [s \in Station |-> IF s \in Dirty(r) THEN request[r].dirty[s] ELSE geometry[s]]

\* After a commit every object is read again before it is used.
Committed(session) == [session EXCEPT !.objects = {}, !.dirty = [s \in Station |-> 0]]

\* A transaction that fails changes nothing, and the answer is an error.
Fail(r) ==
  /\ End(r)
  /\ UNCHANGED <<database, history>>

\* A variant of get_campaign: the geometry is selected without the station's id.
get_campaign_any_geometry(session, pc) ==
  LET any == CHOOSE s \in Members : TRUE
  IN  [session EXCEPT !.pc = pc, !.objects = Members,
         !.dirty = [s \in Station |-> IF s \in Members THEN geometry[any]
                                      ELSE session.dirty[s]]]

\* get_campaign: the campaign, its stations, and the geometries they get.
get_campaign(session, pc) ==
  [session EXCEPT !.pc = pc, !.objects = Members,
     !.dirty = [s \in Station |-> IF s \in Members THEN geometry[s]
                                  ELSE session.dirty[s]]]

-----------------------------------------------------------------------------
(* Creation and editing. *)

create_campaign ==
  /\ campaign = "unborn"
  /\ campaign' = "present"
  /\ UNCHANGED <<station, sensor, row, metadata, schema, geometry,
                 request, begun, history>>

\* create_station: the metadata are checked, and then the row is inserted.
create_station(r) ==
  \E gives \in {"with", "without"} :
    /\ Fits(gives = "with")
    /\ Begin(r, [Blank("create", "insert") EXCEPT !.gives = gives])
    /\ UNCHANGED <<database, history>>

\* What a transaction that stores metadata leaves of the history.
Checked(r, s) ==
  outdated' = IF request[r].stale_check
              THEN outdated \union {s} ELSE outdated \ {s}

InsertStation(r) ==
  /\ At(r, "create", "insert")
  /\ campaign = "present"          \* the foreign key
  /\ \E s \in Station :
       /\ station[s] = "unborn"
       /\ station' = [station EXCEPT ![s] = "member"]
       /\ metadata' = IF request[r].gives = "with" THEN metadata \union {s} ELSE metadata
       /\ Checked(r, s)
  /\ End(r)
  /\ UNCHANGED <<campaign, sensor, row, schema, geometry,
                 refreshed, overtaken, late, changes>>

InsertFails(r) ==
  /\ At(r, "create", "insert")
  /\ campaign # "present"
  /\ Fail(r)

Update(r, e, gives) ==
  Begin(r, [Blank("update", "load") EXCEPT !.at = e, !.gives = gives])

\* PUT: every column, and the metadata, {} when they are not given.
update_station(r) ==
  \E s \in Station, gives \in {"with", "without"} :
    /\ station[s] # "unborn"
    /\ Fits(gives = "with")
    /\ Update(r, s, gives)
    /\ UNCHANGED <<database, history>>

\* PATCH: the columns that the request sets; metadata that are not given
\* are checked as {}, and left alone.
partial_update_station(r) ==
  \E s \in Station, gives \in Gives :
    /\ station[s] # "unborn"
    /\ Fits(gives = "with")
    /\ Update(r, s, gives)
    /\ UNCHANGED <<database, history>>

\* PUT and PATCH of the campaign and of a sensor, without their metadata.
update_campaign(r) ==
  /\ campaign # "unborn"
  /\ Update(r, Campaign, "nothing")
  /\ UNCHANGED <<database, history>>

update_sensor(r) ==
  \E x \in Sensor :
    /\ sensor[x] # "unborn"
    /\ Update(r, x, "nothing")
    /\ UNCHANGED <<database, history>>

\* The row is read into the session's object, and the columns that the request
\* sets are assigned: those that get another value than the one read are to be
\* written. Metadata that are the ones read are not.
Load(r) ==
  LET e == request[r].at
      given == request[r].gives
  IN  /\ At(r, "update", "load")
      /\ Alive(e)
      /\ \E names \in SUBSET Field, gives \in {given, "nothing"} :
           /\ gives = given \/ (given = "with" <=> e \in metadata)
           /\ Continue(r, [request[r] EXCEPT !.pc = "commit", !.loaded = row[e],
                                             !.names = names, !.gives = gives])
      /\ UNCHANGED <<database, history>>

NotFound(r) ==
  /\ At(r, "update", "load")
  /\ ~Alive(request[r].at)
  /\ Fail(r)

\* A variant of Assigned: the whole object is written.
AssignedWhole(r) ==
  LET e == request[r].at
  IN  [row EXCEPT ![e] = [f \in Field |-> IF f \in request[r].names THEN r
                                          ELSE request[r].loaded[f]]]

\* UPDATE ... SET the columns that have another value.
Assigned(r) ==
  LET e == request[r].at
  IN  [row EXCEPT ![e] = [f \in Field |-> IF f \in request[r].names THEN r ELSE row[e][f]]]

CommitUpdate(r, rows) ==
  /\ At(r, "update", "commit")
  /\ request[r].at \in rows
  /\ Alive(request[r].at)
  /\ row' = Assigned(r)
  /\ End(r)
  /\ UNCHANGED <<campaign, station, sensor, schema, geometry, refreshed, overtaken, late, changes>>

\* update_campaign, update_sensor and update_station of the repositories.
CommitCampaign(r) ==
  /\ CommitUpdate(r, {Campaign})
  /\ UNCHANGED <<metadata, outdated>>

CommitSensor(r) ==
  /\ CommitUpdate(r, Sensor)
  /\ UNCHANGED <<metadata, outdated>>

CommitStation(r) ==
  LET s == request[r].at
  IN  /\ CommitUpdate(r, Station)
      /\ \/ request[r].gives = "nothing" /\ UNCHANGED <<metadata, outdated>>
         \/ request[r].gives = "with" /\ metadata' = metadata \union {s} /\ Checked(r, s)
         \/ request[r].gives = "without" /\ metadata' = metadata \ {s} /\ Checked(r, s)

\* The row was deleted after it was read: StaleDataError.
UpdateIsStale(r) ==
  /\ At(r, "update", "commit")
  /\ ~Alive(request[r].at)
  /\ Fail(r)

-----------------------------------------------------------------------------
(* Publication and its end, of one station or of every station of the      *)
(* campaign: is_published itself is left to Publication.                   *)

publish_station(r) ==
  \E s \in Members :
    /\ Begin(r, [Blank("publish", "read") EXCEPT !.todo = {s}])
    /\ UNCHANGED <<database, history>>

publish_campaign(r) ==
  /\ campaign = "present"
  /\ Begin(r, get_campaign([Blank("publish", "read") EXCEPT !.todo = Members], "read"))
  /\ UNCHANGED <<database, history>>

\* The next station: its campaign is read (again).
ReadForPublish(r) ==
  /\ At(r, "publish", "read")
  /\ IF request[r].todo = {} \/ campaign # "present" THEN End(r)
     ELSE Continue(r, get_campaign(request[r], "commit"))
  /\ UNCHANGED <<database, history>>

\* set_publish_state; the session's geometries go with it.
set_publish_state(r) ==
  /\ At(r, "publish", "commit")
  /\ \E s \in request[r].todo :
       /\ s \in Rows
       /\ Flush(r, Rows)
       /\ Continue(r, Committed([request[r] EXCEPT !.pc = "read", !.todo = @ \ {s}]))
  /\ UNCHANGED <<campaign, station, sensor, row, metadata, schema, history>>

\* A station of the list, or one whose geometry is to be written, is gone.
PublishFails(r) ==
  /\ At(r, "publish", "commit")
  /\ ~(request[r].todo \union Dirty(r) \subseteq Rows)
  /\ Fail(r)

-----------------------------------------------------------------------------
(* Deletion. *)

\* delete_station: the campaign is read, with the station in it. Then two
\* transactions: its sensors, and the row.
delete_station(r) ==
  \E s \in Members :
    /\ Begin(r, get_campaign([Blank("delete_station", "sensors") EXCEPT !.at = s], "sensors"))
    /\ UNCHANGED <<database, history>>

\* A variant of delete_station_sensors: the sensors are left to the foreign key.
delete_station_sensors_later(r) ==
  /\ At(r, "delete_station", "sensors")
  /\ Flush(r, Rows)
  /\ Continue(r, Committed([request[r] EXCEPT !.pc = "station"]))
  /\ UNCHANGED <<campaign, station, sensor, row, metadata, schema, history>>

delete_station_sensors(r) ==
  /\ At(r, "delete_station", "sensors")
  /\ Flush(r, Rows)
  /\ sensor' = [x \in Sensor |-> IF sensor[x] = request[r].at THEN "deleted" ELSE sensor[x]]
  /\ Continue(r, Committed([request[r] EXCEPT !.pc = "station"]))
  /\ UNCHANGED <<campaign, station, row, metadata, schema, history>>

SensorsStay(r) ==
  /\ At(r, "delete_station", "sensors")
  /\ ~(Dirty(r) \subseteq Rows)
  /\ Fail(r)

\* The row goes, and the stationid of the sensors it has now becomes NULL.
DeleteStation(r) ==
  LET s == request[r].at
  IN  /\ At(r, "delete_station", "station")
      /\ s \in Rows
      /\ station' = [station EXCEPT ![s] = "deleted"]
      /\ sensor' = [x \in Sensor |-> IF sensor[x] = s THEN "orphan" ELSE sensor[x]]
      /\ metadata' = metadata \ {s}
      /\ End(r)
      /\ UNCHANGED <<campaign, row, schema, geometry, history>>

StationIsGone(r) ==
  /\ At(r, "delete_station", "station")
  /\ request[r].at \notin Rows
  /\ Fail(r)

\* DELETE .../sensors, of any station.
delete_sensors ==
  /\ \E s \in Rows : SensorsOf({s}) # {} /\
       sensor' = [x \in Sensor |-> IF sensor[x] = s THEN "deleted" ELSE sensor[x]]
  /\ UNCHANGED <<campaign, station, row, metadata, schema, geometry,
                 request, begun, history>>

\* DELETE .../stations: with CKAN and a token the campaign is read first.
delete_stations(r) ==
  /\ campaign = "present"
  /\ \E token \in BOOLEAN :
       Begin(r, IF token THEN get_campaign(Blank("delete_stations", "commit"), "commit")
                ELSE Blank("delete_stations", "commit"))
  /\ UNCHANGED <<database, history>>

\* One transaction: the sensors of the stations, and the stations; what the
\* session is to write back has to be there after that.
delete_campaign_stations(r) ==
  /\ At(r, "delete_stations", "commit")
  /\ Flush(r, Rows \ Members)
  /\ sensor' = [x \in Sensor |-> IF sensor[x] \in Members THEN "deleted" ELSE sensor[x]]
  /\ station' = [s \in Station |-> IF s \in Members THEN "deleted" ELSE station[s]]
  /\ metadata' = metadata \ Members
  /\ End(r)
  /\ UNCHANGED <<campaign, row, schema, history>>

StationsStay(r) ==
  /\ At(r, "delete_stations", "commit")
  /\ ~(Dirty(r) \subseteq Rows \ Members)
  /\ Fail(r)

\* DELETE .../campaigns/{campaign_id}: the campaign is read, with its stations.
delete_campaign(r) ==
  /\ campaign = "present"
  /\ Begin(r, get_campaign(Blank("delete_campaign", "commit"), "commit"))
  /\ UNCHANGED <<database, history>>

\* The campaignid of the stations that were read becomes NULL. A station
\* that came later refers to the campaign, and one that went is missed.
CommitDeleteCampaign(r) ==
  /\ At(r, "delete_campaign", "commit")
  /\ Members \subseteq request[r].objects
  /\ request[r].objects \subseteq Rows
  /\ Flush(r, Rows)
  /\ campaign' = "deleted"
  /\ station' = [s \in Station |-> IF s \in request[r].objects THEN "orphan" ELSE station[s]]
  /\ End(r)
  /\ UNCHANGED <<sensor, row, metadata, schema, history>>

CampaignStays(r) ==
  /\ At(r, "delete_campaign", "commit")
  /\ ~(Members \subseteq request[r].objects /\ request[r].objects \subseteq Rows)
  /\ Fail(r)

-----------------------------------------------------------------------------
(* Uploads, and the administrator. *)

\* create_sensors, by an upload: a station's deletion may be half done.
create_sensors ==
  \E x \in Sensor, s \in Rows :
    /\ sensor[x] = "unborn"
    /\ sensor' = [sensor EXCEPT ![x] = s]
    /\ late' = IF \E r \in Running : At(r, "delete_station", "station") /\ request[r].at = s
               THEN late \union {x} ELSE late
    /\ UNCHANGED <<campaign, station, row, metadata, schema, geometry,
                   request, begun, refreshed, overtaken, outdated, changes>>

\* The SQL function: the extent of the readings that there are now.
update_station_geometry(s) ==
  /\ refreshed' = [refreshed EXCEPT ![s] = @ + 1]
  /\ geometry' = [geometry EXCEPT ![s] = refreshed'[s]]

\* refresh_geometry, after an upload.
refresh_geometry ==
  \E s \in Rows :
    /\ SensorsOf({s}) # {}
    /\ refreshed[s] < MaxRefresh
    /\ update_station_geometry(s)
    /\ overtaken' = IF \E r \in Running : s \in Dirty(r)
                    THEN overtaken \union {s} ELSE overtaken \ {s}
    /\ UNCHANGED <<campaign, station, sensor, row, metadata, schema,
                   request, begun, late, outdated, changes>>

\* A change of the schema: nothing checks what is stored.
ChangeSchema(to) ==
  /\ changes < MaxChanges
  /\ changes' = changes + 1
  /\ schema' = to
  /\ outdated' = outdated \union {s \in Rows : ~Allows(to, s \in metadata)}
  /\ request' = [r \in Request |-> IF r \in Running
                                   THEN [request[r] EXCEPT !.stale_check = TRUE]
                                   ELSE None]
  /\ UNCHANGED <<campaign, station, sensor, row, metadata, geometry,
                 begun, refreshed, overtaken, late>>

create_metadata_schema ==
  schema = "absent" /\ \E to \in {"optional", "required"} : ChangeSchema(to)

update_metadata_schema ==
  schema # "absent" /\ \E to \in {"absent", "optional", "required"} \ {schema} : ChangeSchema(to)

delete_metadata_schema == schema # "absent" /\ ChangeSchema("absent")

-----------------------------------------------------------------------------

Edit(r) ==
  \/ create_station(r) \/ InsertStation(r) \/ InsertFails(r)
  \/ update_campaign(r) \/ update_station(r) \/ partial_update_station(r) \/ update_sensor(r)
  \/ Load(r) \/ NotFound(r) \/ UpdateIsStale(r)
  \/ CommitCampaign(r) \/ CommitStation(r) \/ CommitSensor(r)
  \/ publish_station(r) \/ publish_campaign(r) \/ ReadForPublish(r)
  \/ set_publish_state(r) \/ PublishFails(r)

Delete(r) ==
  \/ delete_station(r) \/ delete_station_sensors(r) \/ SensorsStay(r)
  \/ DeleteStation(r) \/ StationIsGone(r)
  \/ delete_stations(r) \/ delete_campaign_stations(r) \/ StationsStay(r)
  \/ delete_campaign(r) \/ CommitDeleteCampaign(r) \/ CampaignStays(r)

Next ==
  \/ create_campaign
  \/ \E r \in Request : Edit(r) \/ Delete(r)
  \/ delete_sensors
  \/ create_sensors
  \/ refresh_geometry
  \/ create_metadata_schema \/ update_metadata_schema \/ delete_metadata_schema

Spec == Init /\ [][Next]_vars

-----------------------------------------------------------------------------
(* Properties. *)

\* A sensor without a station was added to it while its deletion was between
\* its two transactions: every sensor that was there before goes with it.
OrphansAreLate == \A x \in Sensor : sensor[x] = "orphan" => x \in late

\* An edit changes the columns to which its request gave another value and no
\* other, however many requests edit the row at once.
PatchesDoNotCollide ==
  [][\A e \in Row, f \in Field : row'[e][f] # row[e][f]
       => \E r \in Request : request[r] # None /\ request[r].at = e
                             /\ f \in request[r].names /\ request'[r] = None]_vars

\* A station's geometry is the one that the last upload computed; if a session
\* that had read the campaign was open when it did, it may be an older one of
\* the station, but the station does not lose its geometry.
GeometryIsTheUploads ==
  \A s \in Rows :
    \/ geometry[s] = refreshed[s]
    \/ s \in overtaken /\ geometry[s] \in 1..refreshed[s]

\* Stored metadata satisfy the schema, unless the schema changed after they
\* were checked.
MetadataFitsTheSchema ==
  \A s \in Rows : Allows(schema, s \in metadata) \/ s \in outdated

=============================================================================
