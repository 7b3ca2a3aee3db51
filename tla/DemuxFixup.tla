------------------------------ MODULE DemuxFixup ------------------------------
(***************************************************************************)
(* The ffmpeg CLI's correction of packet timestamps (cfr.rs, DemuxFixup):  *)
(* where a format may jump in time, a dts too far from the predicted one   *)
(* starts a shift of everything after it; elsewhere a timestamp too far    *)
(* off is dropped.                                                         *)
(*                                                                         *)
(* Stream timestamps are in ticks, predictions in microseconds.  A tick is *)
(* TickNum / TickDen of a microsecond, seldom a whole number of them (100  *)
(* ninths in MPEG-TS), so every change of unit rounds, either way.         *)
(***************************************************************************)
EXTENDS Integers

CONSTANTS
  TickNum, TickDen,   \* microseconds in a tick of the stream's time base
  FieldNum, FieldDen, \* microseconds of a field, by the frame rate
  DtsDelta,       \* DTS_DELTA_THRESHOLD
  DtsError,       \* DTS_ERROR_THRESHOLD
  Behind,         \* AV_TIME_BASE / 10
  StartTimes,     \* start times of the input (microseconds)
  InitialDts,     \* first dts by the decoder's delay (microseconds)
  PacketStamps,   \* dts the packets have, in ticks
  Reorder,        \* how far a packet's pts is from its dts
  PacketDurations, \* durations of packets, in ticks; 0 is unknown
  Fields,         \* numbers of fields in a packet
  MaxPackets,     \* packets read (a model bound)
  None

ASSUME DemuxAssumption ==
  /\ TickNum \in Nat \ {0} /\ TickDen \in Nat \ {0} /\ MaxPackets \in Nat
  /\ FieldNum \in Nat \ {0} /\ FieldDen \in Nat \ {0}
  /\ DtsDelta \in Nat /\ DtsError \in Nat /\ Behind \in Nat
  /\ StartTimes \subseteq Nat /\ InitialDts \subseteq Int
  /\ PacketStamps \subseteq Int /\ Reorder \in Nat
  /\ PacketDurations \subseteq Nat /\ Fields \subseteq Nat
  /\ None \notin Int

(* Half a tick and a microsecond are within the thresholds: the stream     *)
(* counts time in sixths of a second or finer.                             *)
ASSUME FineTicks ==
  /\ TickNum + 2 * TickDen <= 2 * (TickDen * DtsDelta)
  /\ TickNum + 2 * TickDen <= 2 * (TickDen * Behind)

VARIABLES
  tsDiscont,      \* whether the format may jump
  hasRate,        \* whether the field rate is known
  tsOffset,       \* in ticks
  discontOffset,  \* the shifts so far
  nextDts,        \* predicted dts of the next packet, or None
  dts,            \* dts of the previous packet
  sawFirst,
  read,           \* packets read
  packet,         \* what became of the last one
  anchor          \* the last one before it that kept its dts, or None

demuxVars == <<tsDiscont, hasRate, tsOffset, discontOffset, nextDts, dts, sawFirst, read,
          packet, anchor>>

Magnitude(x) == IF x < 0 THEN -x ELSE x

(* rescale: num / den of x, rounded half away from zero; to ticks and to   *)
(* microseconds.                                                           *)
Rescale(x, num, den) ==
  LET rounded == (Magnitude(x) * num + den \div 2) \div den
  IN IF x < 0 THEN -rounded ELSE rounded
Ticks(us) == Rescale(us, TickDen, TickNum)
Micros(ticks) == Rescale(ticks, TickNum, TickDen)
Plus(stamp, x) == IF stamp = None THEN None ELSE stamp + x

DemuxInit ==
  /\ tsDiscont \in BOOLEAN
  /\ hasRate \in BOOLEAN
  /\ \E start \in StartTimes : tsOffset = Ticks(-start)
  /\ discontOffset = 0
  /\ nextDts = None
  /\ dts \in InitialDts
  /\ sawFirst = FALSE
  /\ read = 0
  /\ packet = None
  /\ anchor = None

-------------------------------------------------------------------------------
(* fix: a packet with pts p and dts d.                                     *)

Shift == tsOffset + Ticks(discontOffset)
Delta(d) == Micros(d + Shift) - nextDts

(* ts_discontinuity_detect: a new shift where the format may jump,         *)
JumpsEitherWay(d) ==               \* mutant: a small step back is let through
  tsDiscont /\ d # None /\ nextDts # None /\ Magnitude(Delta(d)) > DtsDelta
Jumps(d) ==
  /\ tsDiscont /\ d # None /\ nextDts # None
  /\ Magnitude(Delta(d)) > DtsDelta \/ Micros(d + Shift) + Behind < dts
Correction(d) == IF Jumps(d) THEN Ticks(Delta(d)) ELSE 0

LatestShift(d) ==                  \* mutant: earlier shifts are lost
  IF Jumps(d) THEN -Delta(d) ELSE discontOffset
Shifted(d) == IF Jumps(d) THEN discontOffset - Delta(d) ELSE discontOffset

(* and a dropped timestamp where it may not.                               *)
Off(stamp) ==
  /\ ~ tsDiscont /\ stamp # None /\ nextDts # None
  /\ Magnitude(Micros(stamp + Shift) - nextDts) > DtsError

Fixed(stamp, d) ==
  IF d # None /\ Off(stamp) THEN None ELSE Plus(stamp, Shift - Correction(d))

(* ist_dts_update.                                                         *)
First(p, d) == IF sawFirst \/ Fixed(p, d) = None THEN dts ELSE dts + Micros(Fixed(p, d))
Current(p, d) ==
  IF Fixed(d, d) # None THEN Micros(Fixed(d, d))
  ELSE IF nextDts = None THEN First(p, d) ELSE nextDts
Length(duration, fields) ==
  IF duration # 0 THEN Micros(duration)
  ELSE IF hasRate THEN Rescale(fields, FieldNum, FieldDen) ELSE 0

Fix(p, d, duration, fields) ==
  /\ read < MaxPackets
  /\ duration # 0 => fields = 2
  /\ discontOffset' = Shifted(d)
  /\ sawFirst' = TRUE
  /\ dts' = Current(p, d)
  /\ nextDts' = Current(p, d) + Length(duration, fields)
  /\ read' = read + 1
  /\ packet' =
       [pts |-> p, dts |-> d, jump |-> Jumps(d), previous |-> dts, predicted |-> nextDts,
        fixedPts |-> Plus(Fixed(p, d), -tsOffset), fixedDts |-> Plus(Fixed(d, d), -tsOffset)]
  /\ anchor' = IF read > 0 /\ packet.fixedDts # None THEN packet ELSE anchor
  /\ UNCHANGED <<tsDiscont, hasRate, tsOffset>>

Done == read = MaxPackets /\ UNCHANGED demuxVars

DemuxNext ==
  \/ \E d \in PacketStamps \union {None}, duration \in PacketDurations, fields \in Fields :
       \/ Fix(None, d, duration, fields)
       \/ \E base \in IF d = None THEN PacketStamps ELSE {d} :
            Fix(base + Reorder, d, duration, fields)
  \/ Done

DemuxSpec == DemuxInit /\ [][DemuxNext]_demuxVars

-------------------------------------------------------------------------------
(* Properties.                                                             *)

(* A dts as the CLI sees it, whose timestamps start at 0.                  *)
Seen == Micros(packet.fixedDts + tsOffset)

(* Where the format may jump, the fixed timestamps do not: a dts is within *)
(* the threshold of its prediction and hardly behind the one before, or,   *)
(* where the format jumped, as predicted but for what rounding it to ticks *)
(* and twice to microseconds adds: half a tick and a microsecond.          *)
Continuous ==
  read > 0 /\ tsDiscont =>
    (packet.dts # None /\ packet.predicted # None =>
       LET off == Magnitude(Seen - packet.predicted)
       IN /\ off <= DtsDelta
          /\ Seen + Behind >= packet.previous
          /\ packet.jump => 2 * (TickDen * off) <= TickNum + 2 * TickDen)

(* Unless the format jumps the fixed timestamps keep the pace of the       *)
(* stream: the same distance from packet to packet, but for one tick of    *)
(* rounding from a packet where it jumped, and from dts to pts always.     *)
KeepsPace ==
  read > 0 =>
    /\ packet.fixedDts # None /\ packet.fixedPts # None =>
         packet.fixedPts - packet.fixedDts = packet.pts - packet.dts
    /\ packet.fixedDts # None /\ anchor # None /\ ~ packet.jump =>
         Magnitude((packet.fixedDts - anchor.fixedDts) - (packet.dts - anchor.dts))
           <= IF anchor.jump THEN 1 ELSE 0
===============================================================================
