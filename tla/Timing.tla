------------------------------- MODULE Timing -------------------------------
(***************************************************************************)
(* When the receiver plays a motion frame: the clock mapper                 *)
(* (core/clock.rs), the probes that train it (session/receive.rs), and the  *)
(* adaptive delay of core/playout.rs.  Time is the sender's clock, in       *)
(* ticks since it activated; the receiver's own clock starts when its       *)
(* session is ready, receiverStart ticks later (or earlier, if negative).   *)
(*                                                                         *)
(* Abstractions.  Both clocks run at one rate, so the fit is an offset; the *)
(* weighted mean of the samples' offsets is any value between them.  Totals *)
(* and catch-up are those of Playout, watermarks are applied.               *)
(***************************************************************************)
EXTENDS Integers, Sequences, FiniteSets

CONSTANTS
  ReceiverStarts,     \* when the receiver's session may be ready, from the activation
  NetDelay,           \* ticks a datagram takes at most; it may also be lost
  PROBE_INTERVAL, MAX_PENDING_PROBES, PROBE_MAX_AGE,
  SampleWindow,       \* ClockConfig.sample_window and PlayoutConfig.delay_sample_window
  MinimumDelay, MaximumDelay, Margin, ContractionDivisor, DelaySampleAge,
  MaxTimingFrames, MaxTimingTime   \* bounds

ASSUME TimingAssumption ==
  /\ {NetDelay, PROBE_MAX_AGE, Margin, DelaySampleAge, MaxTimingFrames, MaxTimingTime} \subseteq Nat
  /\ {PROBE_INTERVAL, MAX_PENDING_PROBES, ContractionDivisor} \subseteq Nat \ {0}
  /\ SampleWindow \in Nat \ {0, 1} /\ ReceiverStarts \subseteq Int
  /\ MinimumDelay \in Nat /\ MaximumDelay \in Nat /\ MinimumDelay <= MaximumDelay

VARIABLES
  now, receiverStart,
  sentFrames,   \* capture times of the motion frames sent, by sequence
  wire,         \* datagrams under way
  probing,      \* the probes the receiver waits for, and when it sends the next
  mapper,       \* ClockMapper: samples, the fit's offset, arrival_bootstrap
  jitter,       \* delay_samples and adaptive_delay_micros
  queued,       \* ReceiverPlayout.queue
  target,       \* the selected target: its sequence and capture times
  broken        \* which error ended the session: "order" of playout, "range" of the mapper, or "no"

timingVars == <<now, receiverStart, sentFrames, wire, probing, mapper, jitter, queued, target, broken>>

Here == now - receiverStart    \* MonotonicClock::now at the receiver

NewJitter == [samples |-> <<>>, delay |-> MinimumDelay]

TimingInit ==
  /\ receiverStart \in ReceiverStarts /\ now = 0 /\ sentFrames = <<>> /\ wire = {}
  /\ probing = [sent |-> <<>>, waiting |-> {},
              next |-> PROBE_INTERVAL + IF receiverStart > 0 THEN receiverStart ELSE 0]
  /\ mapper = [samples |-> <<>>, offset |-> 0, bootstrap |-> FALSE]
  /\ jitter = NewJitter /\ queued = {} /\ broken = "no"
  /\ target = [seq |-> 0, at |-> <<>>, mapped |-> 0]

-----------------------------------------------------------------------------
(* ClockMapper.  A sample pairs a sender time with a receiver time.          *)
Ready == mapper.samples # <<>>
Newest(s) == IF Len(s) > SampleWindow THEN SubSeq(s, Len(s) - SampleWindow + 1, Len(s)) ELSE s

(* refit: the weighted mean lies between the samples.                        *)
Fits_(samples, bootstrap) ==
  LET offsets == {samples[i].r - samples[i].s : i \in DOMAIN samples} IN
  {[samples |-> samples, offset |-> o, bootstrap |-> bootstrap] : o \in UNION {l .. h : l, h \in offsets}}

(* bootstrap_from_arrival                                                    *)
Bootstrapped(at) == IF Ready THEN {mapper} ELSE Fits_(<<[s |-> at, r |-> Here, u |-> 0]>>, TRUE)

(* ingest_probe: one midpoint sample, which replaces a bootstrap.            *)
Midpoint(a, b) == a + (b - a) \div 2

Kept_Bootstrap == mapper.samples

Kept == IF mapper.bootstrap THEN <<>> ELSE mapper.samples

Probed(sent, echoed) ==
  Fits_(Newest(Append(Kept, [s |-> echoed, r |-> Midpoint(sent, Here), u |-> (Here - sent) \div 2])), FALSE)

map(m, at) == at + m.offset
Checked(m, times) == IF \A at \in times : map(m, at) >= 0 THEN "no" ELSE "range"

-----------------------------------------------------------------------------
(* The sender stamps a frame with when it was captured, never before the     *)
(* last one (run_session).  A capture may be handled late.                   *)
Stamp_Unclamped(captured) == captured

Stamp(captured) ==
  IF sentFrames = <<>> \/ captured >= sentFrames[Len(sentFrames)] THEN captured
  ELSE sentFrames[Len(sentFrames)]

SendFrame ==
  /\ Len(sentFrames) < MaxTimingFrames /\ broken = "no"
  /\ \E captured \in {now, now - 1} \cap Nat :
       /\ sentFrames' = Append(sentFrames, Stamp(captured))
       /\ wire' = wire \cup {[type |-> "motion", seq |-> Len(sentFrames) + 1, at |-> Stamp(captured), sent |-> now]}
  /\ UNCHANGED <<now, receiverStart, probing, mapper, jitter, queued, target, broken>>

(* tick: the receiver's next probe, once its session is ready.               *)
SendProbe ==
  /\ broken = "no" /\ now >= probing.next
  /\ LET sequence == Len(probing.sent) + 1
         waiting == {p \in probing.waiting : probing.sent[p] + PROBE_MAX_AGE >= Here}
         room == Cardinality(waiting) < MAX_PENDING_PROBES IN
     /\ probing' = [sent |-> IF room THEN Append(probing.sent, Here) ELSE probing.sent,
                    waiting |-> IF room THEN waiting \cup {sequence} ELSE waiting,
                    next |-> now + PROBE_INTERVAL]
     /\ wire' = IF room THEN wire \cup {[type |-> "probe", seq |-> sequence, sent |-> now]} ELSE wire
  /\ UNCHANGED <<now, receiverStart, sentFrames, mapper, jitter, queued, target, broken>>

(* The sender echoes with its own clock.                                     *)
Echo(d) ==
  /\ d \in wire /\ d.type = "probe" /\ broken = "no"
  /\ wire' = (wire \ {d}) \cup {[type |-> "echo", seq |-> d.seq, echoed |-> now, sent |-> now]}
  /\ UNCHANGED <<now, receiverStart, sentFrames, probing, mapper, jitter, queued, target, broken>>

LoseDatagram(d) ==
  /\ d \in wire /\ wire' = wire \ {d}
  /\ UNCHANGED <<now, receiverStart, sentFrames, probing, mapper, jitter, queued, target, broken>>

-----------------------------------------------------------------------------
(* recompute_adaptive_delay: the nearest-rank 80th percentile of the delay   *)
(* variation, and a margin, within the configured limits; it grows at once   *)
(* and contracts slowly.                                                     *)
Percentile(delays) ==
  LET n == Len(delays)
      rank == (n * 80 + 99) \div 100
      least == CHOOSE d \in {delays[i] : i \in 1 .. n} : \A i \in 1 .. n : d <= delays[i] IN
  CHOOSE v \in {delays[i] - least : i \in 1 .. n} :
    /\ Cardinality({i \in 1 .. n : delays[i] - least <= v}) >= rank
    /\ Cardinality({i \in 1 .. n : delays[i] - least < v}) < rank

approach_asymmetrically(current, to) ==
  IF to > current THEN to ELSE current - (current - to + ContractionDivisor - 1) \div ContractionDivisor

clamp(d) == IF d < MinimumDelay THEN MinimumDelay ELSE IF d > MaximumDelay THEN MaximumDelay ELSE d

record_delay_sample(delay) ==
  LET Fresh(sample) == Here - sample.received <= DelaySampleAge
      samples == Newest(SelectSeq(Append(jitter.samples, [received |-> Here, delay |-> delay]), Fresh)) IN
  [samples |-> samples,
   delay |-> approach_asymmetrically(jitter.delay, clamp(Percentile([i \in DOMAIN samples |-> samples[i].delay]) + Margin))]

(* validate_capture_order                                                    *)
InOrder(d) ==
  /\ target.at = <<>> \/ d.at >= target.at[1]
  /\ \A f \in queued : (f.seq < d.seq => f.at <= d.at) /\ (f.seq > d.seq => f.at >= d.at)

SaturatingSub(a, b) == IF a > b THEN a - b ELSE 0

(* receive_motion and ingest_frame: a retired frame is still evidence of the *)
(* path's delay.                                                             *)
ReceiveMotion(d) ==
  /\ d \in wire /\ d.type = "motion" /\ now >= receiverStart /\ broken = "no" /\ wire' = wire \ {d}
  /\ \E m \in Bootstrapped(d.at) :
       /\ mapper' = m /\ jitter' = record_delay_sample(SaturatingSub(Here, map(m, d.at)))
       /\ IF d.seq <= target.seq
          THEN broken' = Checked(m, {d.at}) /\ UNCHANGED queued
          ELSE /\ broken' = IF InOrder(d) THEN Checked(m, {d.at}) ELSE "order"
               /\ queued' = queued \cup {[seq |-> d.seq, at |-> d.at, mapped |-> map(m, d.at), received |-> Here]}
  /\ UNCHANGED <<now, receiverStart, sentFrames, probing, target>>

(* receive_probe: an awaited echo trains the clock; the first one replaces   *)
(* the bootstrap, and remap_clock then maps what playout stores again.       *)
ReceiveEcho(d) ==
  LET stored == {f.at : f \in queued} \cup {target.at[i] : i \in DOMAIN target.at} IN
  /\ d \in wire /\ d.type = "echo" /\ broken = "no" /\ wire' = wire \ {d}
  /\ IF d.seq \in probing.waiting
     THEN /\ probing' = [probing EXCEPT !.waiting = @ \ {d.seq}]
          /\ \E m \in Probed(probing.sent[d.seq], d.echoed) :
               /\ mapper' = m
               /\ IF mapper.bootstrap
                  THEN /\ broken' = Checked(m, stored) /\ jitter' = NewJitter
                       /\ queued' = {[f EXCEPT !.mapped = map(m, f.at)] : f \in queued}
                       /\ target' = IF target.at = <<>> THEN target ELSE [target EXCEPT !.mapped = map(m, target.at[1])]
                  ELSE UNCHANGED <<broken, jitter, queued, target>>
     ELSE UNCHANGED <<probing, mapper, jitter, queued, target, broken>>
  /\ UNCHANGED <<now, receiverStart, sentFrames>>

(* poll and select_newest_mature_target                                      *)
Mature == {f \in queued : f.mapped + jitter.delay <= Here}

Poll ==
  /\ Mature # {} /\ broken = "no"
  /\ \E f \in Mature : /\ \A g \in Mature : g.seq <= f.seq
                       /\ target' = [seq |-> f.seq, at |-> <<f.at>>, mapped |-> f.mapped]
                       /\ queued' = {g \in queued : g.seq > f.seq}
  /\ UNCHANGED <<now, receiverStart, sentFrames, wire, probing, mapper, jitter, broken>>

(* Time passes; the session's timer is not late, and datagrams arrive within *)
(* NetDelay or never.                                                        *)
TimingTick ==
  /\ now < MaxTimingTime /\ broken = "no" /\ Mature = {} /\ now < probing.next
  /\ \A d \in wire : now < d.sent + NetDelay
  /\ now' = now + 1
  /\ UNCHANGED <<receiverStart, sentFrames, wire, probing, mapper, jitter, queued, target, broken>>

TimingNext ==
  \/ SendFrame \/ SendProbe \/ Poll \/ TimingTick
  \/ \E d \in wire : Echo(d) \/ LoseDatagram(d) \/ ReceiveMotion(d) \/ ReceiveEcho(d)

TimingSpec == TimingInit /\ [][TimingNext]_timingVars

-----------------------------------------------------------------------------
(* A sender that runs this code never breaks a session by its timing, under  *)
(* any delay, loss and reordering: frames keep their capture order, and      *)
(* every time that is mapped lies in the receiver's clock, unless a frame    *)
(* was captured before the receiver's session had been ready for half the    *)
(* time a datagram may take.  Such a frame ends the session when the first   *)
(* probe replaces the bootstrap (clock.rs:208).                              *)
NeverBroken ==
  /\ broken # "order"
  /\ broken = "range" => \E i \in DOMAIN sentFrames : sentFrames[i] < receiverStart + (NetDelay + 1) \div 2

(* Once a probe replaced the arrival bootstrap, the fit is off by no more    *)
(* than the uncertainty of its probes (and a tick of rounding): nothing of   *)
(* the network's one-way delay stays in it.                                  *)
ClockIsHonest ==
  Ready /\ ~mapper.bootstrap =>
    \E i \in DOMAIN mapper.samples :
      LET error == mapper.offset + receiverStart IN
      error <= mapper.samples[i].u + 1 /\ -error <= mapper.samples[i].u + 1
=============================================================================
