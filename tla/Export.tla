------------------------------- MODULE Export -------------------------------
(***************************************************************************)
(* The streamed CSV exports of one station beside the writers of its rows. *)
(* The generator runs on a thread while the client reads, and every page   *)
(* and every line's values come from a statement of their own (READ        *)
(* COMMITTED): LIMIT/OFFSET counts in a table that others change between   *)
(* two pages.                                                              *)
(*                                                                         *)
(* A key stands for one combination of time, latitude and longitude, and   *)
(* the order of keys for the ORDER BY. The date filter only narrows them.  *)
(* Left out: quoting, the section of notes (one query at the end), and the *)
(* aliases that the generator reads a second time, which its caller drops. *)
(***************************************************************************)
EXTENDS Naturals, Sequences, FiniteSets, FiniteSetsExt

CONSTANTS
  Combination,    \* combinations of time and place, as numbers in their order
  Alias, Value,
  None,           \* SQL NULL: a sensor without alias, an empty cell
  ChunkSize,      \* chunk_size
  Sensors,        \* bound: sensor ids ever created
  MaxWrites       \* bound: writes while the export runs

ASSUME CombinationAssumption == Combination \subseteq Nat /\ IsFiniteSet(Combination)
ASSUME WritesAssumption == {Sensors, MaxWrites} \subseteq Nat /\ ChunkSize \in Nat \ {0}
ASSUME NoneAssumption == None \notin Alias \union Value

VARIABLES
  alias,     \* the station's sensors, by id, with their alias
  used,      \* ids of sensors that ever could be seen: none is used again
  rows,      \* measurements [sensor, key, value]
  \* the export
  kind,      \* "measurements" or "sensors"
  stage,
  header,    \* aliases of the header line
  offset,
  chunk,     \* keys of the chunk whose values are still to be read
  built,     \* lines of the chunk, not yet sent
  out,       \* lines sent
  \* history, since the request
  steady,    \* lines that could be listed all the time
  everTrue,  \* <<alias, key, value>> that were stored at some time
  removed,   \* a line could no longer be listed
  inserted,  \* a line could be listed that was not, before one that ever was
  writes

stationTables == <<alias, used, rows>>
export == <<kind, stage, header, offset, chunk, built, out>>
history == <<steady, everTrue, removed, inserted, writes>>
exportVars == <<stationTables, export, history>>

Sensor == DOMAIN alias
Named == {r \in rows : alias[r.sensor] # None}
Groups == {r.key : r \in Named}
Pairs == {<<alias[r.sensor], r.key>> : r \in Named}
Facts == {<<alias[r.sensor], r.key, r.value>> : r \in Named}

\* What the statement behind the pages selects, in its order.
Ordered(S) == [i \in 1..Cardinality(S) |-> CHOOSE x \in S : Cardinality({y \in S : y < x}) = i - 1]
Listable == IF kind = "sensors" THEN Sensor ELSE Groups
Listed == Ordered(Listable)
Slice(list, from) == SubSeq(list, from + 1, Min({from + ChunkSize, Len(list)}))
\* Mutant: OFFSET counted from one.
PageSkippingFirst(list) == Slice(list, offset + 1)
PageOf(list) == Slice(list, offset)

\* Mutant: the values of the alias at any time.
ValuesOfAlias(a, k) == {r.value : r \in {q \in Named : alias[q.sensor] = a}}
ValuesOf(a, k) == {r.value : r \in {q \in Named : alias[q.sensor] = a /\ q.key = k}}

Row == [sensor : 1..Sensors, key : Combination, value : Value]

ExportInit ==
  /\ used \in SUBSET (1..Sensors)
  /\ alias \in UNION {[S -> Alias \union {None}] : S \in SUBSET used}
  /\ rows \in SUBSET [sensor : Sensor, key : Combination, value : Value]
  /\ kind = "none" /\ stage = "idle"
  /\ header = {} /\ offset = 0 /\ chunk = <<>> /\ built = <<>> /\ out = <<>>
  /\ steady = {} /\ everTrue = {} /\ removed = FALSE /\ inserted = FALSE /\ writes = 0

-----------------------------------------------------------------------------
\* The export

\* The route finds the station in the campaign; the generator starts.
export_csv(k) ==
  /\ stage = "idle"
  /\ kind' = k
  /\ stage' = IF k = "sensors" THEN "page" ELSE "header"
  /\ steady' = IF k = "sensors" THEN Sensor ELSE Pairs
  /\ everTrue' = Facts
  /\ UNCHANGED <<stationTables, header, offset, chunk, built, out, removed, inserted, writes>>

get_unique_sensor_aliases_for_station ==
  /\ stage = "header"
  /\ header' = {alias[s] : s \in Sensor} \ {None}
  /\ stage' = "page"
  /\ UNCHANGED <<stationTables, kind, offset, chunk, built, out, history>>

NextCombinations ==
  /\ stage = "page" /\ kind = "measurements"
  /\ chunk' = PageOf(Listed)
  /\ stage' = IF chunk' = <<>> THEN "done" ELSE "values"
  /\ UNCHANGED <<stationTables, kind, header, offset, built, out, history>>

\* Of several values with one alias, the one the database returns last stays.
\* A cell is filled for the header's aliases only.
ReadValues ==
  /\ stage = "values"
  /\ \E cells \in [header -> Value \union {None}] :
       /\ \A a \in header :
            LET found == ValuesOf(a, Head(chunk)) IN
            IF found = {} THEN cells[a] = None ELSE cells[a] \in found
       /\ LET lines == Append(built, [key |-> Head(chunk), cells |-> cells]) IN
          IF Len(chunk) > 1
            THEN /\ chunk' = Tail(chunk) /\ built' = lines
                 /\ UNCHANGED <<stage, out, offset>>
            ELSE /\ chunk' = <<>> /\ built' = <<>>
                 /\ out' = out \o lines
                 /\ offset' = offset + ChunkSize
                 /\ stage' = "page"
  /\ UNCHANGED <<stationTables, kind, header, history>>

get_sensors_by_station_chunked ==
  /\ stage = "page" /\ kind = "sensors"
  /\ LET ids == PageOf(Listed) IN
     /\ stage' = IF ids = <<>> THEN "done" ELSE "page"
     /\ out' = out \o [i \in 1..Len(ids) |-> [key |-> ids[i], cells |-> alias[ids[i]]]]
     /\ offset' = IF ids = <<>> THEN offset ELSE offset + ChunkSize
  /\ UNCHANGED <<stationTables, kind, header, chunk, built, history>>

\* A statement fails: a comment becomes the last line, lines of the chunk are
\* lost. Or the client goes away, and the generator is closed.
Stops ==
  /\ stage \in {"header", "page", "values"}
  /\ stage' = "stopped" /\ built' = <<>> /\ chunk' = <<>>
  /\ UNCHANGED <<stationTables, kind, header, offset, out, history>>

-----------------------------------------------------------------------------
\* Writers, each step a transaction. What they did before the request is in
\* the initial state.

\* What ever could be listed.
Ever == IF kind = "sensors" THEN used ELSE {f[2] : f \in everTrue}

\* What the change of the tables means for the listing, and the bound.
Writes ==
  /\ stage \notin {"idle", "done", "stopped"} /\ writes < MaxWrites
  /\ writes' = writes + 1
  /\ UNCHANGED export
  /\ steady' = steady \intersect (IF kind = "sensors" THEN Sensor' ELSE Pairs')
  /\ everTrue' = everTrue \union Facts'
  /\ removed' = (removed \/ Listable \ Listable' # {})
  /\ inserted' = (inserted \/ \E x \in Listable' \ Listable, y \in Ever : x < y)

\* An upload or a request adds a measurement.
create_measurement(r) ==
  /\ r.sensor \in Sensor /\ r \notin rows
  /\ rows' = rows \union {r}
  /\ UNCHANGED <<alias, used>>
  /\ Writes

\* All of it but the sensor can be changed.
update_measurement(r, new) ==
  /\ r \in rows /\ new \notin rows /\ new.sensor = r.sensor
  /\ rows' = (rows \ {r}) \union {new}
  /\ UNCHANGED <<alias, used>>
  /\ Writes

delete_sensor_measurements(s) ==
  /\ s \in Sensor
  /\ rows' = {r \in rows : r.sensor # s}
  /\ UNCHANGED <<alias, used>>
  /\ Writes

\* An upload adds a sensor. Its id comes from a sequence, and the sensor is
\* seen from the commit on: perhaps after that of a later id.
create_sensors(new, a) ==
  /\ new \notin used
  /\ used' = used \union {new}
  /\ alias' = [s \in Sensor \union {new} |-> IF s = new THEN a ELSE alias[s]]
  /\ UNCHANGED rows
  /\ Writes

update_sensor(s, a) ==
  /\ s \in Sensor /\ alias[s] # a
  /\ alias' = [alias EXCEPT ![s] = a]
  /\ UNCHANGED <<used, rows>>
  /\ Writes

\* The request deletes the measurements in a transaction before this one.
delete_sensor(s) ==
  /\ s \in Sensor
  /\ alias' = [t \in Sensor \ {s} |-> alias[t]]
  /\ rows' = {r \in rows : r.sensor # s}
  /\ UNCHANGED used
  /\ Writes

Reads ==
  \/ get_unique_sensor_aliases_for_station
  \/ NextCombinations
  \/ ReadValues
  \/ get_sensors_by_station_chunked

ExportNext ==
  \/ \E k \in {"measurements", "sensors"} : export_csv(k)
  \/ Reads
  \/ Stops
  \/ \E r \in Row : create_measurement(r)
  \/ \E r, new \in Row : update_measurement(r, new)
  \/ \E s \in 1..Sensors : \/ delete_sensor_measurements(s)
                           \/ delete_sensor(s)
                           \/ \E a \in Alias \union {None} :
                                create_sensors(s, a) \/ update_sensor(s, a)

ExportSpec == ExportInit /\ [][ExportNext]_exportVars

-----------------------------------------------------------------------------
\* Properties

LineFor(x) ==
  \E i \in DOMAIN out :
    IF kind = "sensors" THEN out[i].key = x
    ELSE /\ out[i].key = x[2]
         /\ x[1] \in header /\ out[i].cells[x[1]] # None

\* However many rows arrive, an export that came to its end lists all that
\* could be listed from the request on, if nothing was taken away: what is
\* added before the offset moves others to a later page, never to an earlier.
\* No line comes twice if what was added lay behind all that ever was, as new
\* readings do. A removal may hide a line that stays; an upload of older
\* readings, or a sensor that is committed after one of a later id, repeats one. (export_measurements_csv, export_sensors_csv)
EachLineOnce ==
  /\ stage = "done" /\ ~removed => \A x \in steady : LineFor(x)
  /\ ~inserted => \A i, j \in DOMAIN out : i < j => out[i].key < out[j].key

\* A cell of a line was, at some time since the request, the value of that
\* sensor's alias at that time and place, though key and value come from two
\* statements; and an empty cell had no value at some time.
\* (get_measurements_pivot_by_station_chunked)
CellsWereTrue ==
  kind = "measurements" =>
    \A i \in DOMAIN out : \A a \in header :
      LET cell == out[i].cells[a] IN
      IF cell # None THEN <<a, out[i].key, cell>> \in everTrue
      ELSE <<a, out[i].key>> \notin steady
=============================================================================
