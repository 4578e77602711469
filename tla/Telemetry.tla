----------------------------- MODULE Telemetry -----------------------------
(***************************************************************************)
(* What a node measures: the engine's metrics and the rates between two    *)
(* scrapes (metralectl-core/src/metrics.rs, metralectl-control/src/        *)
(* launchstats.rs, measure.rs), the devices and their memory               *)
(* (hardware/capture.rs, telemetry/nvidia.rs), and the fingerprint of the  *)
(* machine (fingerprint.rs).                                               *)
(*                                                                         *)
(* A reading that is missing is None.  A fraction is a pair of a numerator *)
(* and a denominator.                                                      *)
(***************************************************************************)
EXTENDS Integers, Sequences, FiniteSets, SequencesExt, FiniteSetsExt

None     == <<>>
Some(x)  == <<x>>
IsSome(o) == o # None
Value(o) == o[1]

NoEdge   == -1
Infinity == 1000000

-----------------------------------------------------------------------------
(***************************************************************************)
(* parse.  A line has a name, a suffix that says what it counts for, the   *)
(* edge of a bucket, and a value; a value that is not finite is skipped.   *)
(***************************************************************************)

\* The lines of one base name and suffix that carry a number.
LinesOf(lines, name, suffix) ==
    SelectSeq(lines, LAMBDA l : l.name = name /\ l.suffix = suffix /\ l.finite)

Total(lines, name, suffix) ==
    LET own == LinesOf(lines, name, suffix) IN
    IF own = <<>> THEN None ELSE Some(MapThenSumSet(LAMBDA i : own[i].value, DOMAIN own))

Buckets(lines, name) ==
    LET own == SelectSeq(LinesOf(lines, name, "_bucket"), LAMBDA l : l.le # NoEdge) IN
    SortSeq(own, LAMBDA x, y : x.le < y.le)

\* sum_where, over one label of a series.
SumWhere(lines, name, label) ==
    LET own == LinesOf(lines, name, "") IN
    IF own = <<>> THEN None
    ELSE Some(MapThenSumSet(LAMBDA i : own[i].value, {i \in DOMAIN own : own[i].label = label}))


Rate(previous, current, seconds) ==
    IF seconds <= 0 \/ current < previous THEN None
    ELSE Some(<<current - previous, seconds>>)

MeanPerRequest(prev_total, cur_total, prev_requests, cur_requests) ==
    IF cur_total < prev_total \/ cur_requests <= prev_requests THEN None
    ELSE Some(<<cur_total - prev_total, cur_requests - prev_requests>>)

\* quantile, q in percent: inside the first bucket that holds the wanted count,
\* between its edges in proportion.
Quantile(buckets, q) ==
    IF buckets = <<>> THEN None
    ELSE LET total == Last(buckets).value
             hits  == {i \in DOMAIN buckets : 100 * buckets[i].value >= q * total}
         IN  IF total <= 0 \/ hits = {} THEN None
             ELSE LET i     == Min(hits)
                      lower == IF i = 1 THEN 0 ELSE buckets[i - 1].le
                      below == IF i = 1 THEN 0 ELSE buckets[i - 1].value
                      span  == buckets[i].value - below
                  IN  IF buckets[i].le = Infinity THEN None
                      ELSE IF span <= 0 THEN Some(<<buckets[i].le, 1>>)
                      ELSE Some(<<lower * 100 * span
                                  + (buckets[i].le - lower) * (q * total - 100 * below),
                                  100 * span>>)

AcceptRate(accepted, drafted) ==
    IF drafted <= 0 THEN None
    ELSE Some(<<IF accepted > drafted THEN drafted ELSE IF accepted < 0 THEN 0 ELSE accepted,
                drafted>>)

LISTENING   == 11
WEIGHT_LOAD == 5

\* phase, from the engine's startup phase and the requests it has.
PhaseOf(startup, active) ==
    CASE startup = None                  -> None
      [] Value(startup) = WEIGHT_LOAD    -> Some("LoadingWeights")
      [] Value(startup) = LISTENING      ->
            Some(IF IsSome(active) /\ Value(active) > 0 THEN "Serving" ELSE "Ready")
      [] Value(startup) < LISTENING /\ Value(startup) # WEIGHT_LOAD -> Some("Starting")
      [] OTHER                           -> None

\* point_in_time, the readings that need one scrape.
PointInTime(lines) ==
    [active |-> Total(lines, "requests_active", ""),
     p50    |-> Quantile(Buckets(lines, "ttft"), 50),
     p90    |-> Quantile(Buckets(lines, "ttft"), 90),
     accept |-> LET drafted  == Total(lines, "verify", "")
                    accepted == SumWhere(lines, "verify", "accept")
                IN  IF drafted = None THEN None ELSE AcceptRate(Value(accepted), Value(drafted)),
     phase  |-> PhaseOf(Total(lines, "phase", ""), Total(lines, "requests_active", ""))]

MAX_WINDOW == 60

RateOf(previous, current, name, seconds) ==
    LET then == Total(previous, name, "")
        now  == Total(current, name, "")
    IN  IF then = None \/ now = None THEN None ELSE Rate(Value(then), Value(now), seconds)

\* LaunchSampler::sample: against the last scrape when that is neither too old
\* nor from this very moment; the slot holds the new scrape whatever came out.
Sample(slot, lines, now) ==
    LET seconds == IF slot = None THEN 0 ELSE now - Value(slot).at
        windowed == slot # None /\ seconds > 0 /\ seconds <= MAX_WINDOW
    IN  [slot   |-> Some([at |-> now, lines |-> lines]),
         point  |-> PointInTime(lines),
         window |-> IF windowed THEN Some(seconds) ELSE None,
         decode |-> IF windowed THEN RateOf(Value(slot).lines, lines, "tokens", seconds)
                    ELSE None]

-----------------------------------------------------------------------------
(***************************************************************************)
(* Devices.                                                                *)
(***************************************************************************)
\* parse_nvidia_identity, on one row: a memory of 0 is none.
Identity(row) ==
    [name |-> row.name, driver |-> row.driver, cap |-> row.cap,
     memory |-> IF row.memory = Some(0) THEN None ELSE row.memory]

MemoryIsUnified(answered, framebuffer, host_known) ==
    IF ~answered THEN None
    ELSE IF IsSome(framebuffer) THEN Some(FALSE)
    ELSE IF host_known THEN Some(TRUE) ELSE None

\* parse_meminfo.
MemInfo(total, available) ==
    [total |-> total,
     used  |-> IF total = None \/ available = None THEN None
               ELSE Some(IF Value(total) < Value(available) THEN 0
                         ELSE Value(total) - Value(available))]

AcceleratorOf(gpu, unified, host) ==
    [vendor |-> "nvidia", product |-> gpu.name, architecture |-> gpu.cap,
     memory |-> CASE unified = Some(TRUE)  -> host
                  [] unified = Some(FALSE) -> gpu.memory
                  [] OTHER                 -> None]

\* The loop of capture: one entry for every kind, in the order they are met.
Grouped(kinds) ==
    LET firsts == {i \in DOMAIN kinds : \A j \in 1 .. i - 1 : kinds[j] # kinds[i]}
        order  == SetToSortSeq(firsts, <)
    IN  [i \in DOMAIN order |->
            [kind  |-> kinds[order[i]],
             count |-> Cardinality({j \in DOMAIN kinds : kinds[j] = kinds[order[i]]})]]

Capture(rows, host, arch) ==
    LET gpus    == [i \in DOMAIN rows |-> Identity(rows[i])]
        unified == MemoryIsUnified(gpus # <<>>, IF gpus = <<>> THEN None ELSE gpus[1].memory,
                                   IsSome(host))
    IN  [accelerators |-> Grouped([i \in DOMAIN gpus |-> AcceleratorOf(gpus[i], unified, host)]),
         class   |-> IF gpus = <<>> \/ gpus[1].name # Some("gb10") THEN None ELSE Some("gb10"),
         arch    |-> arch,
         unified |-> unified,
         driver  |-> IF gpus = <<>> THEN None ELSE gpus[1].driver,
         memory  |-> host]

\* Capture::fingerprint: what is missing, or the document.
Missing(c) ==
    LET lacks(f) == {<<f, i>> : i \in {j \in DOMAIN c.accelerators :
                                         c.accelerators[j].kind[f] = None}}
    IN  lacks("product") \cup lacks("architecture")
        \cup {<<f, 0>> : f \in {g \in {"class", "arch", "unified"} : c[g] = None}}
        \cup (IF c.accelerators = <<>> THEN {<<"accelerators", 0>>} ELSE {})

Fingerprint(c) ==
    IF Missing(c) # {} THEN <<"missing", Missing(c)>>
    ELSE <<"ok", [class |-> Value(c.class), accelerators |-> c.accelerators,
                  arch |-> Value(c.arch), unified |-> Value(c.unified), driver |-> c.driver,
                  memory |-> c.memory]>>

\* measure::caps, from what the tool answers at the start; a device that is not
\* there has none.
Caps(device, host_readable) ==
    [framebuffer |-> device # None /\ IsSome(Value(device).memory),
     clock       |-> device # None /\ IsSome(Value(device).clock),
     unified     |-> device # None /\ host_readable]

HEALTHY_CLOCK_MHZ == 1500

DeviceUnified(caps, host) ==
    IF caps.framebuffer THEN Some(FALSE)
    ELSE MemoryIsUnified(TRUE, None, caps.unified /\ IsSome(host.total))

\* measure::device: one sample, read by what the tool could answer at the start.
DeviceStats(d, caps, host, busy) ==
    LET unified == DeviceUnified(caps, host) IN
    [clamped |-> IF ~caps.clock \/ d.clock = None THEN None
                 ELSE Some(busy /\ Value(d.clock) < HEALTHY_CLOCK_MHZ),
     unified |-> unified,
     total   |-> CASE unified = Some(FALSE) -> d.memory
                   [] unified = Some(TRUE)  -> host.total
                   [] OTHER                 -> None,
     used    |-> CASE unified = Some(FALSE) -> d.used
                   [] unified = Some(TRUE)  -> host.used
                   [] OTHER                 -> None]

\* vitals_from_device: the share of the memory in use.
UsedShare(stats) ==
    IF stats.used = None \/ stats.total = None \/ stats.total = Some(0) THEN None
    ELSE Some(<<Value(stats.used), Value(stats.total)>>)

\* parse_throttle_thermal, of the lines of the section that lists the reasons.
ThrottleThermal(reasons) ==
    LET known == {r \in reasons : r[1] \in {"SwThermal", "HwThermal", "HwPowerBrake"}
                                  /\ r[2] \in {"Active", "NotActive"}}
    IN  IF known = {} THEN None ELSE Some(\E r \in known : r[2] = "Active")
=============================================================================
