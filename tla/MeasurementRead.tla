--------------------------- MODULE MeasurementRead ---------------------------
(***************************************************************************)
(* Reading the measurements of one sensor: a client that walks the pages   *)
(* of the list, whose count, page, minimum, maximum and average come from  *)
(* five statements (READ COMMITTED) beside the writers; a list that is     *)
(* downsampled; and the list of intervals that a SQL function aggregates.  *)
(*                                                                         *)
(* A time is a number of half seconds. An area of the downsampling is a    *)
(* float: of the largest areas any may win. Left out: the filters, which   *)
(* narrow the rows for all statements alike, and the percentiles.          *)
(***************************************************************************)
EXTENDS Integers, Sequences, FiniteSets, FiniteSetsExt, Functions, SequencesExt

CONSTANTS
  Opening,        \* Opening[i]: time of row i when the client begins
  Time,           \* times that the writers write
  Value,
  MaxRows,        \* bound: rows when the client begins
  Limits,         \* limit of requests
  Thresholds,     \* downsample_threshold of requests
  Minute,         \* seconds of a minute
  Widths,         \* interval_value of requests, in seconds
  MaxWrites       \* bound: writes while the client reads

ASSUME TimeAssumption == Time \subseteq Nat /\ Opening \in [1..MaxRows -> Nat] /\ Value \subseteq Int
ASSUME CountsAssumption ==
  /\ {MaxRows, MaxWrites} \subseteq Nat /\ Limits \subseteq Nat \ {0}
  /\ Minute \in Nat \ {0} /\ Widths \subseteq Nat \ {0} /\ Thresholds \subseteq Nat

VARIABLES
  rows,      \* [id, time, value]
  \* the client's request and where it is
  kind,      \* "list" or "intervals"
  by,        \* downsample_threshold, or interval_value
  limit, page,
  doing,
  total,     \* the answer so far
  items,
  least, greatest, mean,
  intervals, \* [start, count, least, greatest, sum]
  walked,    \* ids listed by the pages so far, in order
  \* lttb
  cut,       \* cut[k] = int(k * bucket_size)
  sampled,
  \* history, since the walk began
  steady,    \* ids that kept their time
  upset,     \* what happened: "write", "changed", "moved", "late", "tie"
  writes

request == <<kind, by, limit>>
response == <<total, items, least, greatest, mean, intervals>>
lttbVars == <<cut, sampled>>
history == <<steady, upset, writes>>
readVars == <<rows, request, doing, page, response, walked, lttbVars, history>>

Ids(set) == {r.id : r \in set}
Tied(set) == \E r, q \in set : r # q /\ r.time = q.time
ValuesOf(set) == {r.value : r \in set}
Total(set) == SumFunction([r \in set |-> r.value])

ReadInit ==
  /\ \E n \in 0..MaxRows : \E v \in [1..n -> Value] :
       rows = {[id |-> i, time |-> Opening[i], value |-> v[i]] : i \in 1..n}
  /\ kind = "none" /\ by = 0 /\ limit = 1 /\ page = 1 /\ doing = "idle"
  /\ total = 0 /\ items = <<>> /\ least = 0 /\ greatest = 0 /\ mean = <<0, 1>>
  /\ intervals = {} /\ walked = <<>> /\ cut = <<>> /\ sampled = <<>>
  /\ steady = {} /\ upset = {} /\ writes = 0

-----------------------------------------------------------------------------
\* list_measurements, one statement a step

Ask(k, n, l) ==
  /\ doing = "idle"
  /\ kind' = k /\ by' = n /\ limit' = l
  /\ doing' = IF k = "list" THEN "count" ELSE "intervals"
  /\ steady' = Ids(rows)
  /\ upset' = IF Tied(rows) THEN {"tie"} ELSE {}
  /\ UNCHANGED <<rows, page, response, walked, lttbVars, writes>>

Count ==
  /\ doing = "count"
  /\ total' = Cardinality(rows)
  /\ upset' = upset \ {"late"}
  /\ doing' = "page"
  /\ UNCHANGED <<rows, request, page, items, least, greatest, mean, intervals, walked,
                 lttbVars, steady, writes>>

\* ORDER BY collectiontime DESC alone: rows of one time come in any order.
\* Mutant: the offset of the next page.
OffsetOfNext(p) == p * limit
OffsetOf(p) == (p - 1) * limit
PageOf(list) ==
  SubSeq(list, OffsetOf(page) + 1, Min({OffsetOf(page) + limit, Len(list)}))
Before(r, q, upwards) ==
  \/ r.time > q.time
  \/ r.time = q.time /\ (IF upwards THEN r.id < q.id ELSE r.id > q.id)
Ordered(upwards) ==
  [i \in 1..Cardinality(rows) |->
     CHOOSE r \in rows : Cardinality({q \in rows : Before(q, r, upwards)}) = i - 1]
FetchPage ==
  /\ doing = "page"
  /\ \E upwards \in BOOLEAN : items' = PageOf(Ordered(upwards))
  /\ doing' = "least"
  /\ UNCHANGED <<rows, request, page, total, least, greatest, mean, intervals, walked,
                 lttbVars, history>>

\* Mutant: statistics of the rows of the page.
StatsRowsOfPage == {r \in rows : r \in Range(items)}
\* The rows of the statistics: those of all pages.
StatsRows == rows
StatsMin ==
  /\ doing = "least"
  /\ least' = IF StatsRows = {} THEN 0 ELSE Min(ValuesOf(StatsRows))
  /\ doing' = "greatest"
  /\ UNCHANGED <<rows, request, page, total, items, greatest, mean, intervals, walked,
                 lttbVars, history>>
StatsMax ==
  /\ doing = "greatest"
  /\ greatest' = IF StatsRows = {} THEN 0 ELSE Max(ValuesOf(StatsRows))
  /\ doing' = "mean"
  /\ UNCHANGED <<rows, request, page, total, items, least, mean, intervals, walked,
                 lttbVars, history>>
StatsAverage ==
  /\ doing = "mean"
  /\ mean' = IF StatsRows = {} THEN <<0, 1>> ELSE <<Total(StatsRows), Cardinality(StatsRows)>>
  /\ doing' = IF by > 2 THEN "lttb" ELSE "reply"
  /\ UNCHANGED <<rows, request, page, total, items, least, greatest, intervals, walked,
                 lttbVars, history>>

\* The client asks for the next page until it has had as many as there are.
Pages == total \div limit + 1
Respond ==
  /\ doing = "reply"
  /\ walked' = walked \o [i \in DOMAIN items |-> items[i].id]
  /\ IF page < Pages /\ by <= 2
       THEN page' = page + 1 /\ doing' = "count"
       ELSE UNCHANGED page /\ doing' = "done"
  /\ UNCHANGED <<rows, request, response, lttbVars, history>>

-----------------------------------------------------------------------------
\* lttb, one bucket a step

\* int(k * bucket_size) of a float: where the product is whole and the quotient
\* is not, the float may fall short of it.
CutsAt(k) ==
  LET whole == (k * (Len(items) - 2)) \div (by - 2) IN
  IF /\ (k * (Len(items) - 2)) % (by - 2) = 0
     /\ (Len(items) - 2) % (by - 2) # 0 /\ k > 0
  THEN {whole, whole - 1} ELSE {whole}

LttbStart ==
  /\ doing = "lttb"
  /\ IF by >= Len(items)
       THEN doing' = "reply" /\ sampled' = items /\ UNCHANGED cut
       ELSE /\ doing' = "bucket" /\ sampled' = <<items[1]>>
            /\ cut' \in [0..(by - 2) -> 0..Len(items)]
            /\ \A k \in 0..(by - 2) : cut'[k] \in CutsAt(k)
  /\ UNCHANGED <<rows, request, page, response, walked, history>>

\* Mutant: bucket_start and bucket_end without + 1.
BucketFromFirst(k) == SubSeq(items, cut[k] + 1, cut[k + 1])

\* The slice [cut + 1, next cut + 1) of a list that counts from zero.
Bucket(k) == SubSeq(items, cut[k] + 2, cut[k + 1] + 1)
\* Twice the area with the average of the bucket, times the bucket's length.
AreaOf(p1, p2, bucket) ==
  LET m == Len(bucket)
      x3 == FoldLeft(LAMBDA sum, p : sum + p.time, 0, bucket)
      y3 == FoldLeft(LAMBDA sum, p : sum + p.value, 0, bucket)
      area == p1.time * (m * p2.value - y3) + p2.time * (y3 - m * p1.value)
              + x3 * (p1.value - p2.value)
  IN IF area < 0 THEN -area ELSE area

LttbBucket ==
  /\ doing = "bucket" /\ Len(sampled) <= by - 2
  /\ LET bucket == Bucket(Len(sampled) - 1)
         area(p) == AreaOf(Last(sampled), p, bucket) IN
     \E p \in Range(bucket) :
       /\ \A q \in Range(bucket) : area(q) <= area(p)
       /\ sampled' = Append(sampled, p)
  /\ UNCHANGED <<rows, request, doing, page, response, walked, cut, history>>

LttbEnd ==
  /\ doing = "bucket" /\ Len(sampled) = by - 1
  /\ sampled' = Append(sampled, Last(items))
  /\ doing' = "reply"
  /\ UNCHANGED <<rows, request, page, response, walked, cut, history>>

-----------------------------------------------------------------------------
\* get_sensor_aggregated_measurements, with an interval of seconds

\* date_trunc('minute'), and EXTRACT(EPOCH)::INTEGER % 60 / width: the cast
\* rounds half a second up, and the last half second of a minute to zero. One
\* second, or minute or hour, is date_trunc; several of these truncate.
MinuteOf(t) == (t \div (2 * Minute)) * (2 * Minute)
SecondOf(t) == ((t + 1) \div 2) % Minute
IntervalStart(t) ==
  IF by = 1 THEN (t \div 2) * 2 ELSE MinuteOf(t) + 2 * by * (SecondOf(t) \div by)

\* Mutant: the function of the version before, which wanted two.
CountedIfTwo(group) == Cardinality(group) > 1
\* WHERE a.point_count >= 1
Counted(group) == Cardinality(group) >= 1
GroupOf(s) == {r \in rows : IntervalStart(r.time) = s}
IntervalOf(s) ==
  LET group == GroupOf(s) IN
  [start |-> s, count |-> Cardinality(group), sum |-> Total(group),
   least |-> Min(ValuesOf(group)), greatest |-> Max(ValuesOf(group))]
Starts == {s \in {IntervalStart(r.time) : r \in rows} : Counted(GroupOf(s))}
Aggregate ==
  /\ doing = "intervals"
  /\ intervals' = {IntervalOf(s) : s \in Starts}
  /\ doing' = "done"
  /\ UNCHANGED <<rows, request, page, total, items, least, greatest, mean, walked,
                 lttbVars, history>>

-----------------------------------------------------------------------------
\* Writers. What they did before is in the initial state.

Writes(kept, added) ==
  /\ doing \in {"page", "least", "greatest", "mean", "count"} /\ writes < MaxWrites
  /\ writes' = writes + 1
  /\ steady' = steady \intersect kept
  /\ upset' = upset \union {"write"}
                    \union (IF \A r \in rows : \E q \in rows' : q.id = r.id /\ q.value = r.value
                              THEN {} ELSE {"changed"})
                    \union (IF kept # Ids(rows) THEN {"moved"} ELSE {})
                    \union (IF doing = "page" /\ added THEN {"late"} ELSE {})
                    \union (IF Tied(rows') THEN {"tie"} ELSE {})
  /\ UNCHANGED <<request, doing, page, response, walked, lttbVars>>

create_measurement(t, v) ==
  /\ LET id == MaxRows + writes + 1 IN rows' = rows \union {[id |-> id, time |-> t, value |-> v]}
  /\ Writes(Ids(rows), TRUE)

\* A change of the time moves the reading to another place of the order.
update_measurement(r, t, v) ==
  /\ r \in rows /\ <<t, v>> # <<r.time, r.value>>
  /\ rows' = (rows \ {r}) \union {[r EXCEPT !.time = t, !.value = v]}
  /\ Writes(IF t = r.time THEN Ids(rows) ELSE Ids(rows \ {r}), FALSE)

delete_sensor_measurements ==
  /\ rows # {} /\ rows' = {}
  /\ Writes({}, FALSE)

Reads ==
  \/ Count \/ FetchPage \/ StatsMin \/ StatsMax \/ StatsAverage \/ Respond
  \/ LttbStart \/ LttbBucket \/ LttbEnd
  \/ Aggregate

ReadNext ==
  \/ \E l \in Limits : \/ \E n \in Thresholds \union {0} : Ask("list", n, l)
                      \/ \E n \in Widths : Ask("intervals", n, l)
  \/ Reads
  \/ \E t \in Time, v \in Value :
       \/ create_measurement(t, v)
       \/ \E r \in rows : update_measurement(r, t, v)
  \/ delete_sensor_measurements

ReadSpec == ReadInit /\ [][ReadNext]_readVars

-----------------------------------------------------------------------------
\* Properties

\* A walk over the pages lists every reading that was there and kept its time,
\* and each once if nothing was written; unless two readings have one time, a
\* reading was taken away or moved, or one came between the count and the page
\* of the last request. (list_measurements)
WalkListsAll ==
  doing = "done" /\ kind = "list" /\ by <= 2 =>
    /\ upset = {} => /\ IsInjective(walked) /\ Range(walked) = Ids(rows)
                     /\ total = Len(walked)
    /\ upset \subseteq {"write", "changed"} => steady \subseteq Range(walked)

\* The minimum, maximum and average of a list come from statements of their own
\* after that of its page. While readings only come or move, the extremes bound
\* every reading of the page and the average is over no fewer than were counted;
\* while nothing is written, all answer for the same readings. (stats_query)
StatisticsBoundThePages ==
  doing = "reply" /\ "changed" \notin upset =>
    /\ \A i \in DOMAIN items : items[i].value \in least..greatest
    /\ total <= mean[2]
    /\ "write" \notin upset /\ rows # {} =>
         /\ mean[2] * least <= mean[1] /\ mean[1] <= mean[2] * greatest
         /\ mean[2] = total

\* Downsampling keeps the first and the last reading, the order, and as many
\* readings as were asked for, none twice: no bucket is empty. (lttb)
SampleIsASelection ==
  /\ doing = "bucket" /\ Len(sampled) <= by - 2 => Bucket(Len(sampled) - 1) # <<>>
  /\ doing = "reply" /\ by > 2 /\ items # <<>> =>
    /\ Len(sampled) = Min({by, Len(items)})
    /\ sampled[1] = items[1] /\ Last(sampled) = Last(items)
    /\ \A i, j \in DOMAIN sampled : i < j =>
         \E m, n \in DOMAIN items : m < n /\ items[m] = sampled[i] /\ items[n] = sampled[j]

\* Every reading is counted once, in an interval of its own minute, which holds
\* it, except for half seconds: rounding may put it into the next interval or,
\* at the end of the minute, into the first. (the SQL function's buckets)
IntervalsHoldAll ==
  doing = "done" /\ kind = "intervals" =>
    /\ SumFunction([b \in intervals |-> b.count]) = Cardinality(rows)
    /\ SumFunction([b \in intervals |-> b.sum]) = Total(rows)
    /\ \A r \in rows : \E b \in intervals :
         /\ r.value \in b.least..b.greatest
         /\ MinuteOf(b.start) = MinuteOf(r.time)
         /\ r.time % 2 = 0 \/ by = 1 => r.time \in b.start..(b.start + 2 * by - 1)
=============================================================================
