---------------------------- MODULE Publication ----------------------------
(***************************************************************************)
(* The publication of one station: is_published of the station and of its  *)
(* sensors in the database, and the station's datasets in CKAN, which the  *)
(* handlers that create, publish, unpublish and delete it and the task     *)
(* that follows an upload change one remote call at a time.                *)
(*                                                                         *)
(* A handler that is "async def" never gives up the only event loop, so    *)
(* at most one of these runs; the deletion ("def") and the upload's task   *)
(* run on threads beside it. Every remote call may go unanswered, executed *)
(* or not, and is then sent again; a call is not executed later than that. *)
(*                                                                         *)
(* A sensor has one resource in a dataset (the code registers two, one     *)
(* after the other in the same way). force only refreshes published_at,    *)
(* and the figures and metadata that a dataset carries are left out.       *)
(***************************************************************************)
EXTENDS Naturals, Sequences

CONSTANTS
  Sensor,
  Nil,
  Initially,     \* {"absent"}: a new station; {"published"}: by an earlier version
  max_retries,   \* CKAN_MAX_RETRIES
  MaxJobs,       \* bound: requests and tasks
  MaxFaults      \* bound: unanswered or refused calls, and restarts

ASSUME InitiallyAssumption == Initially \subseteq {"absent", "published"}
ASSUME JobsAssumption == {max_retries, MaxJobs, MaxFaults} \subseteq Nat

\* The name build_station_dataset_identity computes, the one that earlier
\* versions gave, and the one that a publish request may ask for.
Name == {"own", "legacy", "other"}

Async == {"create", "publish", "unpublish", "sensor"}
Kind == Async \union {"sync", "delete"}

VARIABLES
  \* the database
  station,   \* "absent", "private", "published" or "deleted"
  sensors,
  exposed,   \* the sensors whose is_published is set
  \* CKAN
  dataset,   \* by name: Nil, or its id, visibility, owner and resources
  created,   \* the ids CKAN has given
  \* the API
  job,       \* the requests and tasks, in the order in which they began
  faults

publicationVars == <<station, sensors, exposed, dataset, created, job, faults>>
database == <<station, sensors, exposed>>

Dataset == [id : Nat, private : BOOLEAN, ours : BOOLEAN, resources : [Sensor -> Nat]]

ASSUME NilAssumption == Nil \notin Nat \union Dataset

Candidate == [name : Name, id : Nat \union {Nil}]

Ended == {"success", "failure", "dead"}
Calls == {"organization", "show", "package_create", "show_again", "patch", "visibility",
          "resources", "show_own", "show_legacy", "hide", "search", "remove"}
Transactions == {"flag", "list", "cascade", "unflag", "delete_sensors", "delete_station"}

Job == [kind : Kind, pc : Calls \union Transactions \union Ended,
        token : BOOLEAN,              \* a Tapis token came with the request
        name : Name,                  \* the dataset it works on
        may_patch : BOOLEAN,          \* patch_existing_ckan_dataset
        cascade : BOOLEAN,
        snapshot : SUBSET Sensor,     \* the sensors to register
        handled : SUBSET Sensor,      \* those it has dealt with
        known : SUBSET Sensor,        \* existing_resources_by_name
        id : Nat \union {Nil},        \* dataset_id
        errors : BOOLEAN,
        todo : SUBSET Sensor,         \* the sensors still to publish
        candidates : Seq(Candidate),  \* the datasets still to try to delete
        tries : Nat,                  \* attempt, of _request
        \* history: a call was not answered or refused; another job ran with it
        faulty : BOOLEAN, overlapped : BOOLEAN]

Exists == station \in {"private", "published"}

\* Types; there are sensors only of a station that exists, and no two datasets
\* have one id.
PublicationTypes ==
  /\ station \in {"absent", "private", "published", "deleted"}
  /\ sensors \subseteq Sensor
  /\ exposed \subseteq sensors
  /\ ~Exists => sensors = {}
  /\ dataset \in [Name -> Dataset \union {Nil}]
  /\ \A m, n \in Name : m # n /\ Nil \notin {dataset[m], dataset[n]}
                          => dataset[m].id # dataset[n].id
  /\ \A n \in Name : dataset[n] # Nil => dataset[n].id < created
  /\ created \in Nat
  /\ job \in Seq(Job)
  /\ \A j \in DOMAIN job : job[j].pc = "remove" => job[j].candidates # <<>>
  /\ faults \in 0..MaxFaults

NewDataset(id, private) ==
  [id |-> id, private |-> private, ours |-> TRUE, resources |-> [s \in Sensor |-> 0]]

\* A station is yet to be created, or was published by an earlier version,
\* under the earlier name; the name that a request asks for may be taken by
\* a dataset that is not this station's.
PublicationInit ==
  /\ station \in Initially
  /\ sensors = {}
  /\ exposed = {}
  /\ \E taken \in {Nil, [NewDataset(1, FALSE) EXCEPT !.ours = FALSE]} :
       dataset = [n \in Name |->
         CASE n = "own"    -> Nil
           [] n = "legacy" -> IF station = "absent" THEN Nil ELSE NewDataset(0, FALSE)
           [] n = "other"  -> taken]
  /\ created = 2
  /\ job = <<>>
  /\ faults = 0

-----------------------------------------------------------------------------
(* Requests and tasks. *)

Active == {j \in DOMAIN job : job[j].pc \notin Ended}

Idle(kind, pc) ==
  [kind |-> kind, pc |-> pc, token |-> TRUE, name |-> "own", may_patch |-> TRUE,
   cascade |-> FALSE, snapshot |-> {}, handled |-> {}, known |-> {}, id |-> Nil,
   errors |-> FALSE, todo |-> {}, candidates |-> <<>>, tries |-> 0,
   faulty |-> FALSE, overlapped |-> FALSE]

\* What a job leaves once the next one has begun, or when it fails: history.
Trace(r) == [Idle(r.kind, r.pc) EXCEPT !.faulty = r.faulty, !.overlapped = r.overlapped]

\* The event loop is free, unless the job runs on a thread.
Enter(r) ==
  /\ Len(job) < MaxJobs
  /\ r.kind \in Async => \A j \in Active : job[j].kind \notin Async
  /\ job' = Append([j \in DOMAIN job |->
                      IF j \in Active THEN [job[j] EXCEPT !.overlapped = TRUE]
                      ELSE Trace(job[j])],
                   [r EXCEPT !.overlapped = Active # {}])
  /\ UNCHANGED <<dataset, created, faults>>

\* create_station commits the row; with a token it registers a dataset.
create_station ==
  /\ station = "absent"
  /\ station' = "private"
  /\ \E token \in BOOLEAN :
       Enter([Idle("create", IF token THEN "show" ELSE "success") EXCEPT !.token = token])
  /\ UNCHANGED <<sensors, exposed>>

\* publish_station, up to the first call; the station and its sensors are read.
Publish(name, may_patch, cascade, token) ==
  /\ Exists
  /\ Enter([Idle("publish", IF token THEN "organization" ELSE "flag") EXCEPT
              !.token = token, !.name = name, !.may_patch = may_patch,
              !.cascade = cascade, !.snapshot = sensors])
  /\ UNCHANGED database

publish_station ==
  \E name \in {"own", "other"}, may_patch, cascade, token \in BOOLEAN :
    Publish(name, may_patch, cascade, token)

\* publish_campaign calls publish_station for every station; it passes no
\* dataset name, and without cascade it changes nothing.
publish_campaign ==
  \E may_patch, token \in BOOLEAN : Publish("own", may_patch, TRUE, token)

\* unpublish_station, up to the first call; unpublish_campaign calls it for
\* every station.
Unpublish(token) ==
  /\ Exists
  /\ Enter([Idle("unpublish", IF token THEN "show_own" ELSE "unflag") EXCEPT !.token = token])
  /\ UNCHANGED database

unpublish_station == \E token \in BOOLEAN : Unpublish(token)
unpublish_campaign == \E token \in BOOLEAN : Unpublish(token)

\* An upload has created sensors, and its task reads them and the station.
run_ckan_sync_upload ==
  /\ Exists
  /\ \E uploaded \in SUBSET Sensor \ {{}} :
       /\ sensors' = sensors \union uploaded
       /\ Enter([Idle("sync", "show") EXCEPT !.snapshot = uploaded])
  /\ UNCHANGED <<station, exposed>>

delete_station ==
  /\ Exists
  /\ Enter(Idle("delete", "search"))
  /\ UNCHANGED database

\* One transaction each; a sensor that is in that state already is refused.
publish_sensor ==
  /\ \E s \in sensors \ exposed : exposed' = exposed \union {s}
  /\ Enter(Idle("sensor", "success"))
  /\ UNCHANGED <<station, sensors>>

unpublish_sensor ==
  /\ \E s \in exposed : exposed' = exposed \ {s}
  /\ Enter(Idle("sensor", "success"))
  /\ UNCHANGED <<station, sensors>>

-----------------------------------------------------------------------------
(* Remote calls. *)

IsAt(j, pc) == job[j].pc = pc
To(j, pc) == [job[j] EXCEPT !.pc = pc]
Failing(j, pc) == [To(j, pc) EXCEPT !.errors = TRUE]

\* The local variables of a request or task end with it; a success keeps what
\* its response was asked for.
Settled(r) ==
  CASE r.pc \notin Ended -> r
    [] r.pc = "success" ->
         [Trace(r) EXCEPT !.token = r.token, !.name = r.name,
                          !.cascade = r.cascade, !.snapshot = r.snapshot]
    [] OTHER -> Trace(r)

Goto(j, r) == job' = [job EXCEPT ![j] = Settled([r EXCEPT !.tries = 0])]
Faulty(r) == [r EXCEPT !.faulty = TRUE]

\* _request: CKAN executes the call, which leaves the datasets as in after, or
\* it rejects it; or there is no answer (or a 429 or 5xx), whether it was
\* executed or not, and it is sent again while attempts remain; or it is
\* refused (401, 403 or another error).
_request(j, accepted, after, answered, rejected, failed) ==
  /\ \/ /\ accepted
        /\ dataset' = after
        /\ Goto(j, answered)
        /\ UNCHANGED faults
     \/ /\ ~accepted
        /\ Goto(j, rejected)
        /\ UNCHANGED <<dataset, faults>>
     \/ /\ faults < MaxFaults
        /\ faults' = faults + 1
        /\ \/ UNCHANGED dataset
           \/ accepted /\ dataset' = after
        /\ IF job[j].tries < max_retries
           THEN job' = [job EXCEPT ![j] = Faulty([job[j] EXCEPT !.tries = @ + 1])]
           ELSE Goto(j, Faulty(failed))
     \/ /\ faults < MaxFaults
        /\ faults' = faults + 1
        /\ Goto(j, Faulty(failed))
        /\ UNCHANGED dataset
  /\ created' = IF \E n \in Name : dataset[n] = Nil /\ dataset'[n] # Nil
                THEN created + 1 ELSE created
  /\ UNCHANGED database

Present(n) == dataset[n] # Nil
\* A dataset is addressed by the id that an answer gave; it may have been
\* deleted, and created again, since.
Same(j) == Present(job[j].name) /\ dataset[job[j].name].id = job[j].id

WithPrivate(n, private) == [dataset EXCEPT ![n].private = private]

\* The organization the request names, or the campaign's. A failed lookup is
\* an error, but only an organization that the user is not in stops the rest.
list_user_organizations(j) ==
  /\ IsAt(j, "organization")
  /\ \E member \in BOOLEAN :
       _request(j, TRUE, dataset,
                IF member THEN To(j, "show") ELSE Failing(j, "flag"),
                Failing(j, "show"), Failing(j, "show"))

-----------------------------------------------------------------------------
(* ensure_station_dataset and sync_sensor_resources. *)

Private(j) == job[j].kind # "publish"

\* The error is collected and the handler goes on without a dataset, or, in
\* the task, ends it (raise_on_error).
DatasetFails(j) ==
  CASE job[j].kind = "publish" -> Failing(j, "flag")
    [] job[j].kind = "create"  -> To(j, "success")
    [] OTHER                   -> To(j, "failure")   \* "sync"

\* Goes on with the sensors, or with what follows the last one.
Sync(r) ==
  [r EXCEPT !.pc = IF r.kind # "create" /\ r.handled # r.snapshot THEN "resources"
                   ELSE IF r.kind = "publish" THEN "flag" ELSE "success"]

\* _patch_existing_dataset: a dataset of another station is never patched, and
\* one of this station only if the request allows it.
Found(j) ==
  IF dataset[job[j].name].ours /\ job[j].may_patch THEN To(j, "patch") ELSE DatasetFails(j)

\* Any error of the first look is taken for "there is none".
Show(j) ==
  /\ IsAt(j, "show")
  /\ _request(j, Present(job[j].name), dataset,
              Found(j), To(j, "package_create"), To(j, "package_create"))

package_create(j) ==
  /\ IsAt(j, "package_create")
  /\ _request(j, ~Present(job[j].name),
              [dataset EXCEPT ![job[j].name] = NewDataset(created, Private(j))],
              [To(j, "visibility") EXCEPT !.id = created],
              To(j, "show_again"), DatasetFails(j))

\* The name was taken since the first look, perhaps by this call's own first
\* attempt.
ShowAgain(j) ==
  /\ IsAt(j, "show_again")
  /\ _request(j, Present(job[j].name), dataset, Found(j), DatasetFails(j), DatasetFails(j))

Registered(d) == {s \in Sensor : d.resources[s] > 0}

_patch_dataset(j) ==
  LET n == job[j].name IN
  /\ IsAt(j, "patch")
  /\ _request(j, Present(n), WithPrivate(n, Private(j)),
              [To(j, "visibility") EXCEPT !.id = dataset[n].id,
                                          !.known = Registered(dataset[n])],
              DatasetFails(j), DatasetFails(j))

\* dataset_id is set by now: a publication registers its sensors all the same.
VisibilityFails(j) ==
  IF job[j].kind = "publish" THEN Sync(Failing(j, "visibility")) ELSE DatasetFails(j)

ensure_dataset_visibility(j) ==
  /\ IsAt(j, "visibility")
  /\ _request(j, Same(j), WithPrivate(job[j].name, Private(j)),
              Sync(job[j]), VisibilityFails(j), VisibilityFails(j))

ResourceIgnored(j, s) ==   \* Mutant: the error is only logged.
  IF job[j].kind = "sync" THEN To(j, "failure")
  ELSE Sync([job[j] EXCEPT !.handled = @ \union {s}])

\* The error is collected and the next sensor follows, or, in the task, it is
\* the end (fail_fast).
ResourceFails(j, s) ==
  IF job[j].kind = "sync" THEN To(j, "failure")
  ELSE Sync([job[j] EXCEPT !.errors = TRUE, !.handled = @ \union {s}])

\* A known resource is updated, another one is created, and CKAN does not mind
\* if there is one of that name.
ensure_resource(j) ==
  LET n == job[j].name IN
  /\ IsAt(j, "resources")
  /\ \E s \in job[j].snapshot \ job[j].handled :
       _request(j, Same(j),
                IF s \in job[j].known THEN dataset
                ELSE [dataset EXCEPT ![n].resources[s] = @ + 1],
                Sync([job[j] EXCEPT !.handled = @ \union {s}, !.known = @ \union {s}]),
                ResourceFails(j, s), ResourceFails(j, s))

-----------------------------------------------------------------------------
(* publish_station, after its calls. *)

\* A response that says so; the database is left alone.
PublishFails(j) ==
  /\ IsAt(j, "flag")
  /\ job[j].errors
  /\ Goto(j, To(j, "failure"))
  /\ UNCHANGED <<database, dataset, created, faults>>

set_publish_state(j) ==
  /\ IsAt(j, "flag")
  /\ ~job[j].errors
  /\ station' = IF Exists THEN "published" ELSE station
  /\ Goto(j, To(j, IF ~Exists THEN "failure"
                   ELSE IF job[j].cascade THEN "list" ELSE "success"))
  /\ UNCHANGED <<sensors, exposed, dataset, created, faults>>

\* The next sensor is published, or the request is answered.
Cascade(r) == [r EXCEPT !.pc = IF r.todo = {} THEN "success" ELSE "cascade"]

get_sensors_by_station_chunked(j) ==
  /\ IsAt(j, "list")
  /\ Goto(j, Cascade([job[j] EXCEPT !.todo = sensors]))
  /\ UNCHANGED <<database, dataset, created, faults>>

\* A sensor that is gone is reported and skipped; or, if a commit has expired
\* its object, it ends the request (ObjectDeletedError). Either is taken here.
PublishNextSensor(j) ==
  /\ IsAt(j, "cascade")
  /\ \E s \in job[j].todo :
       /\ exposed' = exposed \union ({s} \intersect sensors)
       /\ \/ Goto(j, Cascade([job[j] EXCEPT !.todo = @ \ {s}]))
          \/ s \notin sensors /\ Goto(j, To(j, "failure"))
  /\ UNCHANGED <<station, sensors, dataset, created, faults>>

-----------------------------------------------------------------------------
(* unpublish_station, after its start. No failure of CKAN stops it. *)

Shown(j, n) == [To(j, "hide") EXCEPT !.name = n, !.id = dataset[n].id]

ShowOwnOnly(j) ==   \* Mutant: the earlier name is not tried.
  /\ IsAt(j, "show_own")
  /\ _request(j, Present("own"), dataset,
              Shown(j, "own"), To(j, "unflag"), To(j, "unflag"))

ShowOwn(j) ==
  /\ IsAt(j, "show_own")
  /\ _request(j, Present("own"), dataset,
              Shown(j, "own"), To(j, "show_legacy"), To(j, "show_legacy"))

ShowLegacy(j) ==
  /\ IsAt(j, "show_legacy")
  /\ _request(j, Present("legacy"), dataset,
              Shown(j, "legacy"), To(j, "unflag"), To(j, "unflag"))

Hide(j) ==
  /\ IsAt(j, "hide")
  /\ _request(j, Same(j), WithPrivate(job[j].name, TRUE),
              To(j, "unflag"), To(j, "unflag"), To(j, "unflag"))

clear_publish_state(j) ==
  /\ IsAt(j, "unflag")
  /\ station' = IF Exists THEN "private" ELSE station
  /\ Goto(j, To(j, IF Exists THEN "success" ELSE "failure"))
  /\ UNCHANGED <<sensors, exposed, dataset, created, faults>>

-----------------------------------------------------------------------------
(* delete_station, after its start. *)

\* The two names first, then what the search has found; a dataset of the
\* station's own name would be met there again, and be gone.
Candidates(found) ==
  <<[name |-> "own", id |-> Nil], [name |-> "legacy", id |-> Nil]>>
    \o IF Present("other") /\ dataset["other"].ours /\ found
       THEN <<[name |-> "other", id |-> dataset["other"].id]>> ELSE <<>>

find_datasets_by_extra(j) ==
  LET With(found) == [To(j, "remove") EXCEPT !.candidates = Candidates(found)] IN
  /\ IsAt(j, "search")
  /\ _request(j, TRUE, dataset, With(TRUE), With(FALSE), With(FALSE))

\* One that is not found is skipped; a deletion, or any other error, is the end.
_delete_station_dataset(j) ==
  LET c == Head(job[j].candidates)
      rest == Tail(job[j].candidates) IN
  /\ IsAt(j, "remove")
  /\ _request(j, Present(c.name) /\ c.id \in {Nil, dataset[c.name].id},
              [dataset EXCEPT ![c.name] = Nil],
              To(j, "delete_sensors"),
              [To(j, IF rest = <<>> THEN "delete_sensors" ELSE "remove")
                 EXCEPT !.candidates = rest],
              To(j, "delete_sensors"))

delete_station_sensors(j) ==
  /\ IsAt(j, "delete_sensors")
  /\ sensors' = {}
  /\ exposed' = {}
  /\ Goto(j, To(j, "delete_station"))
  /\ UNCHANGED <<station, dataset, created, faults>>

\* A station that another request has deleted is not found, and one that an
\* upload has given a sensor cannot be deleted (foreign key).
DeleteRow(j) ==
  /\ IsAt(j, "delete_station")
  /\ LET deleted == Exists /\ sensors = {} IN
       /\ station' = IF deleted THEN "deleted" ELSE station
       /\ Goto(j, To(j, IF deleted THEN "success" ELSE "failure"))
  /\ UNCHANGED <<sensors, exposed, dataset, created, faults>>

-----------------------------------------------------------------------------
\* The process restarts: requests and tasks are lost, and none is resumed.
Restart ==
  /\ faults < MaxFaults
  /\ faults' = faults + 1
  /\ Active # {}
  /\ job' = [j \in DOMAIN job |->
              IF j \in Active THEN Trace(To(j, "dead")) ELSE job[j]]
  /\ UNCHANGED <<database, dataset, created>>

Starts ==
  \/ create_station \/ publish_station \/ publish_campaign
  \/ unpublish_station \/ unpublish_campaign
  \/ run_ckan_sync_upload \/ delete_station \/ publish_sensor \/ unpublish_sensor

Step(j) ==
  \/ list_user_organizations(j)
  \/ Show(j) \/ package_create(j) \/ ShowAgain(j) \/ _patch_dataset(j)
  \/ ensure_dataset_visibility(j) \/ ensure_resource(j)
  \/ PublishFails(j) \/ set_publish_state(j)
  \/ get_sensors_by_station_chunked(j) \/ PublishNextSensor(j)
  \/ ShowOwn(j) \/ ShowLegacy(j) \/ Hide(j) \/ clear_publish_state(j)
  \/ find_datasets_by_extra(j) \/ _delete_station_dataset(j)
  \/ delete_station_sensors(j) \/ DeleteRow(j)

PublicationNext == Starts \/ Restart \/ \E j \in Active : Step(j)

PublicationSpec == PublicationInit /\ [][PublicationNext]_publicationVars

-----------------------------------------------------------------------------
(* Properties. *)

\* The latest job ran on its own, and was answered with success.
Undisturbed(j, kind) ==
  /\ j = Len(job)
  /\ job[j].kind = kind
  /\ IsAt(j, "success")
  /\ ~job[j].overlapped

\* A publication that is reported a success and that nothing disturbed is one,
\* whatever calls were lost, repeated or refused on the way: the station is
\* published and, with a token, its dataset is public and has a resource for
\* every sensor; with cascade every sensor is published.
PublishHolds ==
  \A j \in DOMAIN job : Undisturbed(j, "publish") =>
    /\ station = "published"
    /\ job[j].cascade => job[j].snapshot \subseteq exposed
    /\ job[j].token =>
         LET d == dataset[job[j].name] IN
         /\ d # Nil
         /\ d.ours /\ ~d.private
         /\ job[j].snapshot \subseteq Registered(d)

\* An undisturbed unpublish request whose calls CKAN answered has made the
\* station's dataset private, under its present name or else the earlier one,
\* whatever failed or was lost before it.
UnpublishHolds ==
  \A j \in DOMAIN job :
    Undisturbed(j, "unpublish") /\ job[j].token /\ ~job[j].faulty =>
      /\ station = "private"
      /\ IF Present("own") THEN dataset["own"].private
         ELSE Present("legacy") => dataset["legacy"].private
=============================================================================
