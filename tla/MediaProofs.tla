---------------------------- MODULE MediaProofs ----------------------------
(***************************************************************************)
(* What is proved of MediaRelay: a relay keeps to its ceilings, and a      *)
(* frame reaches everyone a relay undertook to reach, once, for any nodes, *)
(* calls, rosters, ceilings, frames and readings of the clock.             *)
(*                                                                         *)
(* Neither is inductive alone.  A refill earns what the rate yields from   *)
(* one reading of the clock to the next, rounded down, while the promise   *)
(* is about the time that ran forward in all.  The invariant of a guard    *)
(* (MeterOK) sets aside the part of that time that no refill has counted   *)
(* yet: a clock that is set back only makes that part smaller, and         *)
(* rounding the parts down comes to no more than rounding their sum.  The  *)
(* invariant of the frames (FrameInv) has a frame in one envelope that no  *)
(* relay has handled, or in copies of one relay, one for each participant. *)
(***************************************************************************)
EXTENDS MediaRelay, FiniteSetTheorems, TLAPS

----------------------------------------------------------------------------
\* What a relay may forward

Guard == [limits : Ceilings, calls : [Call -> Rosters \cup {NoRoster}], allowance : Nat,
          lastRefill : Int, forwarded : Nat, topRate : Nat, topBurst : Nat]

\* The time that the next refill of g would count, at time t.
Uncounted(g, t) == IF g.lastRefill = -1 \/ t <= g.lastRefill THEN 0 ELSE t - g.lastRefill

\* What a rate yields in a time, rounded down.
Yield(rate, time) == (rate * time) \div MilliPerSec

MeterOK(g, t, a) ==
    /\ g \in Guard
    /\ g.allowance <= g.limits.burst
    /\ g.limits.rate <= g.topRate /\ g.limits.burst <= g.topBurst
    /\ Uncounted(g, t) <= a
    /\ g.forwarded + g.allowance
          <= g.topBurst + Yield(g.topRate, a - Uncounted(g, t))

MeterInv ==
    /\ clock \in Nat /\ advanced \in Nat
    /\ guard \in [MediaNode -> Guard]
    /\ \A n \in MediaNode : MeterOK(guard[n], clock, advanced)
    /\ \A n \in MediaNode : IsFiniteSet(Carried(guard[n]))

\* Division rounds down.
LEMMA DivIs ==
    ASSUME NEW x \in Nat, NEW M \in Nat \ {0}
    PROVE  /\ x \div M \in Nat
           /\ M * (x \div M) <= x
           /\ x < M * (x \div M) + M
  OBVIOUS

\* Less than one multiple more is at most as many multiples.
LEMMA LessThanNext ==
    ASSUME NEW p \in Int, NEW q \in Int, NEW M \in Nat \ {0}, M * p < M * q + M
    PROVE  p <= q
<1> SUFFICES ASSUME q + 1 <= p PROVE FALSE
  OBVIOUS
<1>1. M * (q + 1) <= M * p
  OBVIOUS
<1>2. M * (q + 1) = M * q + M
  OBVIOUS
<1>3. M * p \in Int /\ M * q \in Int
  OBVIOUS
<1> QED BY <1>1, <1>2, <1>3

\* Division keeps the order.
LEMMA DivGrows ==
    ASSUME NEW x \in Nat, NEW y \in Nat, NEW M \in Nat \ {0}, x <= y
    PROVE  x \div M <= y \div M
<1>1. /\ x \div M \in Nat /\ y \div M \in Nat
      /\ M * (x \div M) <= x /\ y < M * (y \div M) + M
  BY DivIs
<1>2. M * (x \div M) < M * (y \div M) + M
  <2>1. M * (x \div M) \in Int /\ M * (y \div M) \in Int
    BY <1>1
  <2> QED BY <1>1, <2>1
<1> QED BY <1>1, <1>2, LessThanNext

\* Rounding the parts down comes to no more than rounding their sum.
LEMMA DivSum ==
    ASSUME NEW x \in Nat, NEW y \in Nat, NEW M \in Nat \ {0}
    PROVE  (x \div M) + (y \div M) <= (x + y) \div M
<1>1. PICK p \in Nat : p = x \div M /\ M * p <= x
  BY DivIs
<1>2. PICK q \in Nat : q = y \div M /\ M * q <= y
  BY DivIs
<1>3. PICK r \in Nat : r = (x + y) \div M /\ x + y < M * r + M
  <2>1. x + y \in Nat
    OBVIOUS
  <2> QED BY <2>1, DivIs
<1>4. M * p \in Int /\ M * q \in Int /\ M * r \in Int /\ M * (p + q) = M * p + M * q
  OBVIOUS
<1>5. M * (p + q) < M * r + M
  BY <1>1, <1>2, <1>3, <1>4
<1>6. p + q \in Int /\ r \in Int
  OBVIOUS
<1>7. p + q <= r
  BY <1>5, <1>6, LessThanNext
<1> QED BY <1>1, <1>2, <1>3, <1>7

\* Products of natural numbers keep the order.
LEMMA TimesGrows ==
    ASSUME NEW x \in Nat, NEW y \in Nat, NEW k \in Nat, x <= y
    PROVE  k * x <= k * y /\ x * k <= y * k /\ k * x \in Nat /\ k * y \in Nat
  OBVIOUS

\* What a rate yields is a natural number.
LEMMA YieldType ==
    ASSUME NEW r \in Nat, NEW x \in Nat
    PROVE  Yield(r, x) \in Nat
<1>1. r * x \in Nat
  OBVIOUS
<1> QED BY <1>1, DivIs, MediaAssumption DEF Yield

\* A higher rate yields more, and so does a longer time.
LEMMA YieldGrows ==
    ASSUME NEW r \in Nat, NEW s \in Nat, NEW x \in Nat, NEW y \in Nat, r <= s, x <= y
    PROVE  Yield(r, x) <= Yield(s, y)
<1>1. r * x \in Nat /\ s * x \in Nat /\ s * y \in Nat /\ r * x <= s * x /\ s * x <= s * y
  BY TimesGrows
<1>2. r * x <= s * y
  BY <1>1
<1> QED BY <1>1, <1>2, DivGrows, MediaAssumption DEF Yield

\* Two times yield together no more than their sum.
LEMMA YieldSum ==
    ASSUME NEW s \in Nat, NEW p \in Nat, NEW q \in Nat
    PROVE  Yield(s, p) + Yield(s, q) <= Yield(s, p + q)
<1>1. s * p \in Nat /\ s * q \in Nat /\ s * (p + q) = s * p + s * q
  OBVIOUS
<1>2. (s * p) \div MilliPerSec + (s * q) \div MilliPerSec <= (s * p + s * q) \div MilliPerSec
  BY <1>1, DivSum, MediaAssumption
<1> QED BY <1>1, <1>2 DEF Yield

\* The least and the greatest of two natural numbers.
LEMMA MinMax ==
    ASSUME NEW x \in Nat, NEW y \in Nat
    PROVE  /\ Min({x, y}) \in Nat /\ Min({x, y}) <= x /\ Min({x, y}) <= y
           /\ Max({x, y}) \in Nat /\ x <= Max({x, y}) /\ y <= Max({x, y})
<1>1. \E m \in {x, y} : \A k \in {x, y} : m <= k
  OBVIOUS
<1>2. \E m \in {x, y} : \A k \in {x, y} : m >= k
  OBVIOUS
<1>3. Min({x, y}) \in {x, y} /\ \A k \in {x, y} : Min({x, y}) <= k
  BY <1>1, Zenon DEF Min
<1>4. Max({x, y}) \in {x, y} /\ \A k \in {x, y} : Max({x, y}) >= k
  BY <1>2, Zenon DEF Max
<1> QED BY <1>3, <1>4

\* The time that no refill has counted is a natural number.
LEMMA UncountedType ==
    ASSUME NEW g \in Guard, NEW t \in Nat
    PROVE  Uncounted(g, t) \in Nat
  BY DEF Uncounted, Guard

\* A change of the guard after which no more has been forwarded or may be, under
\* ceilings that are remembered.
LEMMA MeterKeeps ==
    ASSUME NEW g, NEW h \in Guard, NEW t \in Nat, NEW a \in Nat, MeterOK(g, t, a),
           h.allowance <= h.limits.burst,
           h.limits.rate <= h.topRate, h.limits.burst <= h.topBurst,
           h.lastRefill = g.lastRefill,
           h.forwarded + h.allowance <= g.forwarded + g.allowance,
           g.topRate <= h.topRate, g.topBurst <= h.topBurst
    PROVE  MeterOK(h, t, a)
<1>1. Uncounted(h, t) = Uncounted(g, t) /\ Uncounted(g, t) \in Nat /\ Uncounted(g, t) <= a
  BY UncountedType DEF MeterOK, Uncounted
<1>2. PICK x \in Nat : x = a - Uncounted(g, t)
  BY <1>1
<1>3. g.topRate \in Nat /\ h.topRate \in Nat /\ g.topBurst \in Nat /\ h.topBurst \in Nat /\ x <= x
  BY DEF MeterOK, Guard
<1>4. /\ Yield(g.topRate, x) <= Yield(h.topRate, x)
      /\ Yield(g.topRate, x) \in Nat /\ Yield(h.topRate, x) \in Nat
  BY <1>3, YieldGrows, YieldType, Zenon
<1>5. g.forwarded + g.allowance <= g.topBurst + Yield(g.topRate, x)
  BY <1>2 DEF MeterOK
<1>6. g.forwarded + g.allowance \in Nat /\ h.forwarded + h.allowance \in Nat
  BY DEF MeterOK, Guard
<1>7. h.forwarded + h.allowance <= h.topBurst + Yield(h.topRate, x)
  BY <1>3, <1>4, <1>5, <1>6
<1> QED BY <1>1, <1>2, <1>7 DEF MeterOK

\* A refill turns the time it counts into allowance, and no more (refill).
LEMMA RefillKeeps ==
    ASSUME NEW g, NEW h \in Guard, NEW t \in Nat, NEW a \in Nat, MeterOK(g, t, a),
           h.limits = g.limits, h.forwarded = g.forwarded, h.lastRefill = t,
           h.topRate = g.topRate, h.topBurst = g.topBurst,
           h.allowance = IF Earned(g, t) = 0 THEN g.allowance
                         ELSE Min({g.allowance + Earned(g, t), g.limits.burst})
    PROVE  MeterOK(h, t, a)
<1>1. PICK p \in Nat : p = Uncounted(g, t) /\ p <= a
  BY UncountedType DEF MeterOK
<1>2. /\ g.limits.rate \in Nat /\ g.limits.burst \in Nat /\ g.topRate \in Nat
      /\ g.topBurst \in Nat /\ g.allowance \in Nat /\ g.forwarded \in Nat
      /\ g.limits.rate <= g.topRate /\ g.allowance <= g.limits.burst
  BY MediaAssumption DEF MeterOK, Guard
<1>3. Earned(g, t) = Yield(g.limits.rate, p) /\ Earned(g, t) \in Nat
  <2>1. CASE g.lastRefill = -1 \/ t <= g.lastRefill
    <3>1. p = 0 /\ Earned(g, t) = 0
      BY <1>1, <2>1 DEF Uncounted, Earned
    <3>2. g.limits.rate * p = 0
      BY <1>2, <3>1
    <3>3. 0 \div MilliPerSec = 0
      BY MediaAssumption
    <3> QED BY <3>1, <3>2, <3>3 DEF Yield
  <2>2. CASE ~(g.lastRefill = -1 \/ t <= g.lastRefill)
    <3>1. Earned(g, t) = Yield(g.limits.rate, p)
      BY <1>1, <2>2 DEF Uncounted, Earned, Yield
    <3> QED BY <1>2, <3>1, YieldType, ZenonT(40)
  <2> QED BY <2>1, <2>2
<1>4. /\ h.allowance \in Nat /\ h.allowance <= g.limits.burst
      /\ h.allowance <= g.allowance + Earned(g, t)
  <2>1. g.allowance + Earned(g, t) \in Nat
    BY <1>2, <1>3
  <2>2. LET m == Min({g.allowance + Earned(g, t), g.limits.burst})
        IN  m \in Nat /\ m <= g.allowance + Earned(g, t) /\ m <= g.limits.burst
    BY <1>2, <2>1, MinMax
  <2> QED BY <1>2, <1>3, <2>2
<1>5. Yield(g.limits.rate, p) + Yield(g.topRate, a - p) <= Yield(g.topRate, a)
  <2>1. a - p \in Nat /\ p + (a - p) = a /\ p <= p
    BY <1>1
  <2>2. Yield(g.topRate, p) + Yield(g.topRate, a - p) <= Yield(g.topRate, a)
    BY <1>2, <2>1, YieldSum, Zenon
  <2>3. Yield(g.limits.rate, p) <= Yield(g.topRate, p)
    BY <1>2, <2>1, YieldGrows
  <2>4. /\ Yield(g.topRate, p) \in Nat /\ Yield(g.topRate, a - p) \in Nat
        /\ Yield(g.topRate, a) \in Nat /\ Yield(g.limits.rate, p) \in Nat
    BY <1>2, <2>1, YieldType, Zenon
  <2> QED BY <2>2, <2>3, <2>4
<1>6. Yield(g.topRate, a - p) \in Nat /\ Yield(g.topRate, a) \in Nat
  <2>1. a - p \in Nat
    BY <1>1
  <2> QED BY <1>2, <2>1, YieldGrows, YieldType, Zenon
<1>7. g.forwarded + g.allowance <= g.topBurst + Yield(g.topRate, a - p)
  BY <1>1 DEF MeterOK
<1>8. h.forwarded + h.allowance <= h.topBurst + Yield(h.topRate, a)
  BY <1>2, <1>3, <1>4, <1>5, <1>6, <1>7
<1>9. Uncounted(h, t) = 0 /\ a - 0 = a
  BY DEF Uncounted
<1> QED BY <1>4, <1>8, <1>9 DEF MeterOK

\* The clock runs forward, or is set back.
LEMMA ClockKeeps ==
    ASSUME NEW g, NEW t \in Nat, NEW a \in Nat, MeterOK(g, t, a), NEW u \in Nat, NEW b \in Nat,
           (u = t + 1 /\ b = a + 1) \/ (u = t - 1 /\ b = a)
    PROVE  MeterOK(g, u, b)
<1>1. g \in Guard /\ Uncounted(g, t) \in Nat /\ Uncounted(g, u) \in Nat /\ Uncounted(g, t) <= a
  BY UncountedType DEF MeterOK
<1>2. Uncounted(g, u) <= b /\ a - Uncounted(g, t) <= b - Uncounted(g, u)
  <2>1. g.lastRefill \in Int
    BY <1>1 DEF Guard
  <2> QED BY <1>1, <2>1 DEF Uncounted
<1>3. PICK x \in Nat, y \in Nat :
          x = a - Uncounted(g, t) /\ y = b - Uncounted(g, u) /\ x <= y
  BY <1>1, <1>2
<1>4. /\ g.topRate \in Nat /\ g.topRate <= g.topRate
      /\ g.topBurst \in Nat /\ g.forwarded \in Nat /\ g.allowance \in Nat
  BY <1>1 DEF Guard
<1>5. /\ Yield(g.topRate, x) <= Yield(g.topRate, y)
      /\ Yield(g.topRate, x) \in Nat /\ Yield(g.topRate, y) \in Nat
  BY <1>3, <1>4, YieldGrows, YieldType, Zenon
<1>6. g.forwarded + g.allowance <= g.topBurst + Yield(g.topRate, x)
  BY <1>3 DEF MeterOK
<1>7. g.forwarded + g.allowance <= g.topBurst + Yield(g.topRate, y)
  BY <1>4, <1>6, <1>5
<1> QED BY <1>2, <1>3, <1>7 DEF MeterOK

----------------------------------------------------------------------------
\* Frames on their way.  A frame is in one envelope that nobody has handled, or in
\* copies that one relay made, each addressed to the participant it goes to; whoever
\* a copy is for has not heard the frame.

Frame == [call : Call, from : MediaNode, size : FrameSize, to : MediaNode \cup {Everyone}]

Addressed(e, sent) ==
    /\ e.frame \in DOMAIN sent
    /\ e = Envelope(e.frame, sent[e.frame], e.to, e.peer, e.at)
    /\ e.to \in MediaNode \cup {Everyone} /\ e.at \in MediaNode
    /\ e.from \notin {e.to, e.at}

FrameInv ==
    /\ frames \in Seq(Frame) /\ Len(frames) <= MaxFrames
    /\ heard \in [MediaNode -> [1 .. MaxFrames -> Nat]]
    /\ fanned \in [1 .. MaxFrames -> SUBSET MediaNode]
    /\ \A f \in 1 .. MaxFrames : f > Len(frames) =>
          fanned[f] = {} /\ \A n \in MediaNode : heard[n][f] = 0
    /\ \A e \in envelopes : Addressed(e, frames)
    /\ \A e \in envelopes : e.peer = e.from =>
          /\ fanned[e.frame] = {} /\ \A n \in MediaNode : heard[n][e.frame] = 0
          /\ \A d \in envelopes : d.frame = e.frame => d = e
    /\ \A e \in envelopes : e.peer # e.from =>
          /\ e.to = e.at /\ heard[e.at][e.frame] = 0
          /\ \A d \in envelopes : d.frame = e.frame => d.peer = e.peer
    /\ MediaArrivesOnce

\* An envelope's frame, sender and size.
LEMMA EnvelopeFacts ==
    ASSUME FrameInv, NEW e \in envelopes
    PROVE  /\ e.frame \in 1 .. Len(frames) /\ e.frame \in 1 .. MaxFrames
           /\ frames[e.frame] \in Frame
           /\ e.call = frames[e.frame].call /\ e.from = frames[e.frame].from
           /\ e.size = frames[e.frame].size
           /\ e.call \in Call /\ e.from \in MediaNode /\ e.size \in FrameSize
           /\ e.to \in MediaNode \cup {Everyone} /\ e.at \in MediaNode
           /\ e.from # e.to /\ e.from # e.at
<1>1. Addressed(e, frames) /\ frames \in Seq(Frame) /\ Len(frames) <= MaxFrames /\ MaxFrames \in Nat
  BY MediaAssumption DEF FrameInv
<1>2. e.frame \in 1 .. Len(frames) /\ e.frame \in 1 .. MaxFrames
  BY <1>1 DEF Addressed
<1>3. frames[e.frame] \in Frame
  BY <1>1, <1>2
<1>4. e.call = frames[e.frame].call /\ e.from = frames[e.frame].from /\ e.size = frames[e.frame].size
  BY <1>1 DEF Addressed, Envelope
<1> QED BY <1>1, <1>2, <1>3, <1>4 DEF Addressed, Frame

\* The copies of a frame go to different participants.
LEMMA OneCopyEach ==
    ASSUME FrameInv, NEW e \in envelopes, NEW d \in envelopes, e.frame = d.frame, e.at = d.at
    PROVE  e = d
<1>1. CASE e.peer = e.from
  BY <1>1 DEF FrameInv
<1>2. CASE e.peer # e.from
  <2>1. d.peer = e.peer /\ d.from = e.from
    BY <1>2, EnvelopeFacts DEF FrameInv
  <2>2. d.to = d.at /\ e.to = e.at
    BY <1>2, <2>1 DEF FrameInv
  <2> QED BY <2>1, <2>2 DEF FrameInv, Addressed
<1> QED BY <1>1, <1>2

\* An envelope goes that nobody was promised, or that is lost.
Goes(e) ==
    /\ envelopes' = envelopes \ {e}
    /\ UNCHANGED <<frames, heard, fanned>> /\ lost \subseteq lost'
    /\ e.peer = e.from \/ <<e.at, e.frame>> \in lost'

\* Frames after one envelope is dropped by the relay it came to first, or lost.
LEMMA EnvelopeGoes ==
    ASSUME FrameInv, NEW e \in envelopes, Goes(e)
    PROVE  FrameInv'
<1>1. HeardAtMostOnce'
  BY DEF Goes, FrameInv, MediaArrivesOnce, HeardAtMostOnce
<1>2. FanOutIsWhole'
  <2> SUFFICES ASSUME NEW f \in 1 .. Len(frames'), NEW n \in fanned'[f]
               PROVE  \/ heard'[n][f] = 1 \/ <<n, f>> \in lost'
                      \/ \E d \in envelopes' : d.frame = f /\ d.to = n /\ d.at = n
    BY Zenon DEF FanOutIsWhole
  <2>1. \/ heard[n][f] = 1 \/ <<n, f>> \in lost
        \/ \E d \in envelopes : d.frame = f /\ d.to = n /\ d.at = n
    BY DEF Goes, FrameInv, MediaArrivesOnce, FanOutIsWhole
  <2>2. ASSUME NEW d \in envelopes, d.frame = f, d.to = n, d.at = n
        PROVE  <<n, f>> \in lost' \/ d \in envelopes'
    <3>1. CASE d = e
      <4>1. e.peer # e.from
        BY <2>2, <3>1, ZenonT(40) DEF Goes, FrameInv
      <4> QED BY <2>2, <3>1, <4>1 DEF Goes
    <3>2. CASE d # e
      BY <3>2 DEF Goes
    <3> QED BY <3>1, <3>2
  <2> QED BY <2>1, <2>2 DEF Goes
<1>3. \A d \in envelopes' : d \in envelopes
  BY DEF Goes
<1>4. \A d \in envelopes' : Addressed(d, frames')
  BY <1>3 DEF Goes, FrameInv
<1>5. \A d \in envelopes' : d.peer = d.from =>
          /\ fanned'[d.frame] = {} /\ \A n \in MediaNode : heard'[n][d.frame] = 0
          /\ \A x \in envelopes' : x.frame = d.frame => x = d
  BY <1>3 DEF Goes, FrameInv
<1>6. \A d \in envelopes' : d.peer # d.from =>
          /\ d.to = d.at /\ heard'[d.at][d.frame] = 0
          /\ \A x \in envelopes' : x.frame = d.frame => x.peer = d.peer
  BY <1>3 DEF Goes, FrameInv
<1> QED BY <1>1, <1>2, <1>4, <1>5, <1>6, SMTT(40) DEF Goes, FrameInv, MediaArrivesOnce

\* Frames after send_media.
LEMMA SendKeeps ==
    ASSUME FrameInv, NEW n \in MediaNode, NEW c \in Call, NEW to \in MediaNode \cup {Everyone},
           NEW size \in FrameSize, NEW at \in MediaNode, SendMedia(n, c, to, size, at)
    PROVE  FrameInv'
<1> DEFINE frame == [call |-> c, from |-> n, size |-> size, to |-> to]
           k == Len(frames) + 1
           new == Envelope(k, frame, to, n, at)
<1>1. /\ Len(frames) < MaxFrames /\ n # to /\ n # at
      /\ frames' = Append(frames, frame) /\ envelopes' = envelopes \cup {new}
      /\ UNCHANGED <<heard, fanned, lost>>
  BY DEF SendMedia
<1>2. frame \in Frame /\ frames \in Seq(Frame)
  BY DEF Frame, FrameInv
<1>3. /\ frames' \in Seq(Frame) /\ Len(frames') = k /\ k \in 1 .. MaxFrames /\ Len(frames) \in Nat
      /\ frames'[k] = frame /\ \A f \in 1 .. Len(frames) : frames'[f] = frames[f]
      /\ DOMAIN frames' = 1 .. k /\ DOMAIN frames = 1 .. Len(frames)
  BY <1>1, <1>2, MediaAssumption
<1>4. fanned[k] = {} /\ \A m \in MediaNode : heard[m][k] = 0
  <2>1. \A f \in 1 .. MaxFrames : f > Len(frames) =>
          fanned[f] = {} /\ \A m \in MediaNode : heard[m][f] = 0
    BY DEF FrameInv
  <2>2. k > Len(frames)
    BY <1>3
  <2> QED BY <1>3, <2>1, <2>2
<1>5. /\ new.frame = k /\ new.to = to /\ new.peer = n /\ new.at = at /\ new.from = n
      /\ new = Envelope(k, frames'[k], new.to, new.peer, new.at)
  BY <1>3 DEF Envelope
<1> HIDE DEF new, frame, k
<1>6. \A e \in envelopes : e.frame \in 1 .. Len(frames) /\ e.frame # k
  <2>1. ASSUME NEW e \in envelopes PROVE e.frame \in 1 .. Len(frames)
    BY EnvelopeFacts
  <2> QED BY <2>1, <1>3 DEF k
<1>7. ASSUME NEW e \in envelopes' PROVE Addressed(e, frames')
  <2>1. CASE e \in envelopes
    <3>1. Addressed(e, frames) /\ frames'[e.frame] = frames[e.frame] /\ e.frame \in DOMAIN frames'
      BY <1>3, <1>6, <2>1 DEF FrameInv, k
    <3> QED BY <3>1 DEF Addressed
  <2>2. CASE e = new
    BY <1>1, <1>3, <1>5, <2>2 DEF Addressed
  <2> QED BY <1>1, <2>1, <2>2
<1>8. ASSUME NEW e \in envelopes', e.peer = e.from
      PROVE  /\ fanned'[e.frame] = {} /\ \A m \in MediaNode : heard'[m][e.frame] = 0
             /\ \A d \in envelopes' : d.frame = e.frame => d = e
  BY <1>1, <1>4, <1>5, <1>6, <1>8 DEF FrameInv
<1>9. ASSUME NEW e \in envelopes', e.peer # e.from
      PROVE  /\ e.to = e.at /\ heard'[e.at][e.frame] = 0
             /\ \A d \in envelopes' : d.frame = e.frame => d.peer = e.peer
  BY <1>1, <1>5, <1>6, <1>9 DEF FrameInv
<1>10. HeardAtMostOnce'
  <2> SUFFICES ASSUME NEW m \in MediaNode, NEW f \in 1 .. Len(frames')
               PROVE  heard'[m][f] <= 1 /\ (heard'[m][f] = 1 => m # frames'[f].from)
    BY DEF HeardAtMostOnce
  <2>1. CASE f = k
    BY <1>1, <1>4, <2>1
  <2>2. CASE f # k
    <3>1. f \in 1 .. Len(frames) /\ frames'[f] = frames[f]
      BY <1>3, <2>2 DEF k
    <3> QED BY <1>1, <3>1 DEF FrameInv, MediaArrivesOnce, HeardAtMostOnce
  <2> QED BY <2>1, <2>2
<1>11. FanOutIsWhole'
  <2> SUFFICES ASSUME NEW f \in 1 .. Len(frames'), NEW m \in fanned'[f]
               PROVE  \/ heard'[m][f] = 1 \/ <<m, f>> \in lost'
                      \/ \E e \in envelopes' : e.frame = f /\ e.to = m /\ e.at = m
    BY Zenon DEF FanOutIsWhole
  <2>1. f # k /\ f \in 1 .. Len(frames)
    BY <1>1, <1>3, <1>4 DEF k
  <2> QED BY <1>1, <2>1 DEF FrameInv, MediaArrivesOnce, FanOutIsWhole
<1>12. \A f \in 1 .. MaxFrames : f > Len(frames') =>
          fanned'[f] = {} /\ \A m \in MediaNode : heard'[m][f] = 0
  BY <1>1, <1>3 DEF FrameInv, k
<1>13. Len(frames') <= MaxFrames
  BY <1>3, MediaAssumption
<1> QED BY <1>1, <1>3, <1>7, <1>8, <1>9, <1>10, <1>11, <1>12, <1>13, ZenonT(40)
        DEF FrameInv, MediaArrivesOnce

\* Frame f is handed to S.
LEMMA Heard ==
    ASSUME FrameInv, NEW S, NEW f \in 1 .. MaxFrames, Hear(S, f)
    PROVE  /\ heard' \in [MediaNode -> [1 .. MaxFrames -> Nat]]
           /\ \A n \in MediaNode, g \in 1 .. MaxFrames :
                 heard'[n][g] = IF n \in S /\ g = f THEN heard[n][g] + 1 ELSE heard[n][g]
<1>1. /\ heard \in [MediaNode -> [1 .. MaxFrames -> Nat]]
      /\ heard' = [n \in MediaNode |-> [g \in 1 .. MaxFrames |->
                     heard[n][g] + IF n \in S /\ g = f THEN 1 ELSE 0]]
  BY DEF Hear, FrameInv
<1>2. \A n \in MediaNode, g \in 1 .. MaxFrames :
          /\ heard[n][g] \in Nat
          /\ heard'[n][g] = heard[n][g] + IF n \in S /\ g = f THEN 1 ELSE 0
  BY <1>1, Zenon
<1>3. \A n \in MediaNode, g \in 1 .. MaxFrames :
          heard'[n][g] = IF n \in S /\ g = f THEN heard[n][g] + 1 ELSE heard[n][g]
  BY <1>2
<1>4. heard' \in [MediaNode -> [1 .. MaxFrames -> Nat]]
  <2>1. \A n \in MediaNode, g \in 1 .. MaxFrames : heard'[n][g] \in Nat
    BY <1>2
  <2> QED BY <1>1, <2>1
<1> QED BY <1>3, <1>4

\* Frames after an envelope has reached the node it is for.
LEMMA OwnKeeps ==
    ASSUME FrameInv, NEW e \in envelopes, HandleOwn(e.at, e)
    PROVE  FrameInv'
<1>1. /\ e.to = e.at /\ envelopes' = envelopes \ {e} /\ UNCHANGED <<frames, fanned, lost>>
      /\ Hear({e.at}, e.frame)
  BY DEF HandleOwn
<1>2. /\ e.frame \in 1 .. Len(frames) /\ e.frame \in 1 .. MaxFrames /\ e.at \in MediaNode
      /\ frames[e.frame].from # e.at
  BY EnvelopeFacts
<1>3. /\ heard' \in [MediaNode -> [1 .. MaxFrames -> Nat]]
      /\ \A n \in MediaNode, g \in 1 .. MaxFrames :
            heard'[n][g] = IF n = e.at /\ g = e.frame THEN heard[n][g] + 1 ELSE heard[n][g]
  BY <1>1, <1>2, Heard
<1>4. heard[e.at][e.frame] = 0 /\ heard'[e.at][e.frame] = 1
  <2>1. heard[e.at][e.frame] = 0
    BY <1>2 DEF FrameInv
  <2> QED BY <1>2, <1>3, <2>1
<1>5. /\ Len(frames) \in Nat /\ Len(frames) <= MaxFrames /\ MaxFrames \in Nat
      /\ 1 .. Len(frames) \subseteq 1 .. MaxFrames
  BY MediaAssumption DEF FrameInv
<1>6. \A d \in envelopes' : d \in envelopes /\ ~(d.frame = e.frame /\ d.at = e.at)
  BY <1>1, OneCopyEach
<1>7. ASSUME NEW d \in envelopes', d.peer = d.from
      PROVE  /\ fanned'[d.frame] = {} /\ \A m \in MediaNode : heard'[m][d.frame] = 0
             /\ \A x \in envelopes' : x.frame = d.frame => x = d
  <2>1. d \in envelopes /\ d.frame # e.frame /\ d.frame \in 1 .. MaxFrames
    BY <1>1, <1>7, EnvelopeFacts DEF FrameInv
  <2> QED BY <1>1, <1>3, <1>7, <2>1 DEF FrameInv
<1>8. ASSUME NEW d \in envelopes', d.peer # d.from
      PROVE  /\ d.to = d.at /\ heard'[d.at][d.frame] = 0
             /\ \A x \in envelopes' : x.frame = d.frame => x.peer = d.peer
  <2>1. d \in envelopes /\ ~(d.frame = e.frame /\ d.at = e.at)
        /\ d.frame \in 1 .. MaxFrames /\ d.at \in MediaNode
    BY <1>6, EnvelopeFacts
  <2> QED BY <1>1, <1>3, <1>8, <2>1 DEF FrameInv
<1>9. HeardAtMostOnce'
  <2> SUFFICES ASSUME NEW m \in MediaNode, NEW f \in 1 .. Len(frames)
               PROVE  heard'[m][f] <= 1 /\ (heard'[m][f] = 1 => m # frames[f].from)
    BY <1>1 DEF HeardAtMostOnce
  <2>1. CASE m = e.at /\ f = e.frame
    BY <1>2, <1>4, <2>1
  <2>2. CASE ~(m = e.at /\ f = e.frame)
    <3>1. heard'[m][f] = heard[m][f]
      BY <1>3, <1>5, <2>2, Zenon
    <3> QED BY <3>1 DEF FrameInv, MediaArrivesOnce, HeardAtMostOnce
  <2> QED BY <2>1, <2>2
<1>10. FanOutIsWhole'
  <2> SUFFICES ASSUME NEW f \in 1 .. Len(frames'), NEW m \in fanned'[f]
               PROVE  \/ heard'[m][f] = 1 \/ <<m, f>> \in lost'
                      \/ \E d \in envelopes' : d.frame = f /\ d.to = m /\ d.at = m
    BY Zenon DEF FanOutIsWhole
  <2>1. m \in MediaNode /\ f \in 1 .. MaxFrames /\ f \in 1 .. Len(frames) /\ m \in fanned[f]
    BY <1>1, <1>5 DEF FrameInv
  <2>2. CASE m = e.at /\ f = e.frame
    BY <1>4, <2>2
  <2>3. CASE ~(m = e.at /\ f = e.frame)
    <3>1. heard'[m][f] = heard[m][f]
      BY <1>3, <2>1, <2>3
    <3>2. \/ heard[m][f] = 1 \/ <<m, f>> \in lost
          \/ \E d \in envelopes : d.frame = f /\ d.to = m /\ d.at = m
      BY <2>1 DEF FrameInv, MediaArrivesOnce, FanOutIsWhole
    <3> QED BY <1>1, <2>3, <3>1, <3>2
  <2> QED BY <2>2, <2>3
<1>11. \A f \in 1 .. MaxFrames : f > Len(frames') =>
          fanned'[f] = {} /\ \A m \in MediaNode : heard'[m][f] = 0
  BY <1>1, <1>2, <1>3 DEF FrameInv
<1>12. \A d \in envelopes' : Addressed(d, frames')
  BY <1>1 DEF FrameInv
<1> QED BY <1>1, <1>3, <1>7, <1>8, <1>9, <1>10, <1>11, <1>12, ZenonT(40) DEF FrameInv, MediaArrivesOnce

\* Whom a relay sends copies to: participants, and neither itself nor the sender.
LEMMA RecipientsAre ==
    ASSUME MeterInv, FrameInv, NEW e \in envelopes, e.to # e.at,
           AuthorizeRefusal(e.at, guard[e.at], e) = "none"
    PROVE  /\ guard[e.at].calls[e.call] \in Rosters
           /\ Recipients(e.at, guard[e.at], e) \subseteq MediaNode \ {e.from, e.at}
           /\ Cost(e.at, guard[e.at], e) \in Nat
           /\ Cost(e.at, guard[e.at], e) <= guard[e.at].allowance
<1> DEFINE g == guard[e.at]
           to == Recipients(e.at, g, e)
<1>1. /\ e.at \in MediaNode /\ e.call \in Call /\ e.size \in FrameSize /\ e.from # e.to
      /\ e.to \in MediaNode \cup {Everyone}
  BY EnvelopeFacts
<1>2. g \in Guard
  BY <1>1 DEF MeterInv
<1>3. /\ e.call \in Carried(g) /\ ~(Cost(e.at, g, e) > g.allowance)
      /\ ~(e.to # Everyone /\ e.to \notin g.calls[e.call])
  BY DEF AuthorizeRefusal
<1>4. g.calls[e.call] \in Rosters
  BY <1>1, <1>2, <1>3 DEF Guard, Carried
<1>5. g.calls[e.call] \subseteq MediaNode /\ IsFiniteSet(g.calls[e.call])
  BY <1>4, MediaAssumption
<1>6. to \subseteq MediaNode \ {e.from, e.at} /\ to \subseteq g.calls[e.call]
  <2>1. CASE e.to = Everyone
    BY <1>5, <2>1 DEF Recipients
  <2>2. CASE e.to # Everyone
    BY <1>1, <1>3, <1>5, <2>2 DEF Recipients
  <2> QED BY <2>1, <2>2
<1>7. Cardinality(to) \in Nat
  BY <1>5, <1>6, FS_Subset, FS_CardinalityType
<1>8. Cost(e.at, g, e) \in Nat
  <2>1. e.size \in Nat
    BY <1>1, MediaAssumption, ZenonT(40)
  <2> QED BY <1>7, <2>1 DEF Cost
<1>9. Cost(e.at, g, e) <= g.allowance
  <2>1. g.allowance \in Nat
    BY <1>2 DEF Guard
  <2> QED BY <1>3, <1>8, <2>1
<1> QED BY <1>4, <1>6, <1>8, <1>9

\* Frames after a relay has sent its copies: the envelope they come from was the
\* only one of its frame.
LEMMA ForwardKeeps ==
    ASSUME MeterInv, FrameInv, NEW e \in envelopes, HandleForward(e.at, e)
    PROVE  FrameInv'
<1> DEFINE n == e.at
           to == Recipients(n, guard[n], e)
           Copied(t) == CopyFor(t, n, e)
           copies == {Copied(t) : t \in to}
           here == IF DeliverLocally(n, guard[n], e) THEN {n} ELSE {}
           f == e.frame
<1>1. /\ e.to # n /\ e.from = e.peer /\ AuthorizeRefusal(n, guard[n], e) = "none"
      /\ Hear(here, f)
      /\ envelopes' = (envelopes \ {e}) \cup copies
      /\ fanned' = [fanned EXCEPT ![f] = @ \cup to]
      /\ UNCHANGED <<frames, lost>>
  BY DEF HandleForward
<1>2. to \subseteq MediaNode \ {e.from, n}
  BY <1>1, RecipientsAre
<1>3. /\ f \in 1 .. Len(frames) /\ f \in 1 .. MaxFrames /\ n \in MediaNode
      /\ e.from = frames[f].from /\ e.from # n
  BY EnvelopeFacts
<1>4. /\ fanned[f] = {} /\ \A m \in MediaNode : heard[m][f] = 0
      /\ \A d \in envelopes : d.frame = f => d = e
  BY <1>1, ZenonT(40) DEF FrameInv
<1>5. ASSUME NEW t \in to
      PROVE  /\ Copied(t) = Envelope(f, frames[f], t, n, t)
             /\ Copied(t).frame = f /\ Copied(t).to = t /\ Copied(t).at = t
             /\ Copied(t).peer = n /\ Copied(t).from = e.from
  <2>1. e = Envelope(f, frames[f], e.to, e.peer, e.at)
    BY DEF FrameInv, Addressed
  <2>2. Copied(t) = Envelope(f, frames[f], t, n, t)
    BY <1>3, <2>1, EnvelopeFacts DEF CopyFor, Envelope
  <2> HIDE DEF Copied, n, f
  <2> QED BY <1>3, <2>2 DEF Envelope
<1> HIDE DEF Copied, to, here, n, f
<1>6. /\ heard' \in [MediaNode -> [1 .. MaxFrames -> Nat]]
      /\ \A m \in MediaNode, g \in 1 .. MaxFrames :
            heard'[m][g] = IF m \in here /\ g = f THEN heard[m][g] + 1 ELSE heard[m][g]
  BY <1>1, <1>3, Heard, SMTT(40)
<1>7. here \subseteq {n}
  BY DEF here
<1>8. ASSUME NEW d \in envelopes'
      PROVE  \/ d \in envelopes /\ d.frame # f
             \/ \E t \in to : d = Copied(t)
  BY <1>1, <1>4
<1>9. /\ fanned' \in [1 .. MaxFrames -> SUBSET MediaNode] /\ fanned'[f] = to
      /\ \A g \in 1 .. MaxFrames : g # f => fanned'[g] = fanned[g]
  BY <1>1, <1>2, <1>3, <1>4 DEF FrameInv
<1>10. /\ Len(frames) \in Nat /\ Len(frames) <= MaxFrames /\ MaxFrames \in Nat
       /\ DOMAIN frames = 1 .. Len(frames)
  BY MediaAssumption DEF FrameInv
<1>11. ASSUME NEW d \in envelopes' PROVE Addressed(d, frames')
  <2>1. CASE d \in envelopes
    BY <1>1, <2>1 DEF FrameInv
  <2>2. ASSUME NEW t \in to, d = Copied(t) PROVE Addressed(d, frames')
    BY <1>1, <1>2, <1>3, <1>5, <1>10, <2>2 DEF Addressed
  <2> QED BY <1>8, <2>1, <2>2
<1>12. ASSUME NEW d \in envelopes', d.peer = d.from
       PROVE  /\ fanned'[d.frame] = {} /\ \A m \in MediaNode : heard'[m][d.frame] = 0
              /\ \A x \in envelopes' : x.frame = d.frame => x = d
  <2>1. d \in envelopes /\ d.frame # f
    BY <1>3, <1>5, <1>8, <1>12
  <2>2. d.frame \in 1 .. MaxFrames
    BY <2>1, EnvelopeFacts
  <2>3. /\ fanned[d.frame] = {} /\ \A m \in MediaNode : heard[m][d.frame] = 0
        /\ \A x \in envelopes : x.frame = d.frame => x = d
    BY <1>12, <2>1 DEF FrameInv
  <2>4. \A x \in envelopes' : x.frame = d.frame => x \in envelopes
    BY <1>5, <1>8, <2>1
  <2> QED BY <1>6, <1>9, <2>1, <2>2, <2>3, <2>4
<1>13. ASSUME NEW d \in envelopes', d.peer # d.from
       PROVE  /\ d.to = d.at /\ heard'[d.at][d.frame] = 0
              /\ \A x \in envelopes' : x.frame = d.frame => x.peer = d.peer
  <2>1. CASE d \in envelopes /\ d.frame # f
    <3>1. d.frame \in 1 .. MaxFrames /\ d.at \in MediaNode
      BY <2>1, EnvelopeFacts
    <3>2. /\ d.to = d.at /\ heard[d.at][d.frame] = 0
          /\ \A x \in envelopes : x.frame = d.frame => x.peer = d.peer
      BY <1>13, <2>1 DEF FrameInv
    <3>3. \A x \in envelopes' : x.frame = d.frame => x \in envelopes
      BY <1>5, <1>8, <2>1
    <3> QED BY <1>6, <2>1, <3>1, <3>2, <3>3
  <2>2. ASSUME NEW t \in to, d = Copied(t)
        PROVE  /\ d.to = d.at /\ heard'[d.at][d.frame] = 0
               /\ \A x \in envelopes' : x.frame = d.frame => x.peer = d.peer
    <3>1. d.to = t /\ d.at = t /\ d.frame = f /\ d.peer = n /\ t \in MediaNode /\ t # n
      BY <1>2, <1>5, <2>2
    <3>2. heard'[t][f] = 0
      BY <1>3, <1>4, <1>6, <1>7, <3>1
    <3>3. \A x \in envelopes' : x.frame = f => x.peer = n
      BY <1>5, <1>8
    <3> QED BY <3>1, <3>2, <3>3
  <2> QED BY <1>8, <2>1, <2>2
<1>14. HeardAtMostOnce'
  <2> SUFFICES ASSUME NEW m \in MediaNode, NEW g \in 1 .. Len(frames)
               PROVE  heard'[m][g] <= 1 /\ (heard'[m][g] = 1 => m # frames[g].from)
    BY <1>1 DEF HeardAtMostOnce
  <2>1. CASE m \in here /\ g = f
    BY <1>3, <1>4, <1>6, <1>7, <2>1
  <2>2. CASE ~(m \in here /\ g = f)
    <3>1. g \in 1 .. MaxFrames
      BY <1>10
    <3>2. heard'[m][g] = heard[m][g]
      BY <1>6, <2>2, <3>1
    <3> QED BY <3>2 DEF FrameInv, MediaArrivesOnce, HeardAtMostOnce
  <2> QED BY <2>1, <2>2
<1>15. FanOutIsWhole'
  <2> SUFFICES ASSUME NEW g \in 1 .. Len(frames'), NEW m \in fanned'[g]
               PROVE  \/ heard'[m][g] = 1 \/ <<m, g>> \in lost'
                      \/ \E d \in envelopes' : d.frame = g /\ d.to = m /\ d.at = m
    BY Zenon DEF FanOutIsWhole
  <2>1. CASE g = f
    <3>1. m \in to /\ Copied(m) \in envelopes'
      BY <1>1, <1>9, <2>1
    <3> QED BY <1>5, <2>1, <3>1
  <2>2. CASE g # f
    <3>1. g \in 1 .. Len(frames) /\ g \in 1 .. MaxFrames /\ m \in fanned[g] /\ m \in MediaNode
      BY <1>1, <1>9, <1>10, <2>2 DEF FrameInv
    <3>2. \/ heard[m][g] = 1 \/ <<m, g>> \in lost
          \/ \E d \in envelopes : d.frame = g /\ d.to = m /\ d.at = m
      BY <3>1 DEF FrameInv, MediaArrivesOnce, FanOutIsWhole
    <3>3. heard'[m][g] = heard[m][g] /\ lost' = lost /\ \A d \in envelopes : d.frame = g => d \in envelopes'
      BY <1>1, <1>6, <2>2, <3>1 DEF f
    <3> QED BY <3>2, <3>3
  <2> QED BY <2>1, <2>2
<1>16. \A g \in 1 .. MaxFrames : g > Len(frames') =>
          fanned'[g] = {} /\ \A m \in MediaNode : heard'[m][g] = 0
  <2> TAKE g \in 1 .. MaxFrames
  <2> HAVE g > Len(frames')
  <2>1. g # f /\ fanned[g] = {} /\ \A m \in MediaNode : heard[m][g] = 0
    BY <1>1, <1>3, <1>10 DEF FrameInv
  <2> QED BY <1>6, <1>9, <2>1
<1> QED BY <1>1, <1>6, <1>9, <1>11, <1>12, <1>13, <1>14, <1>15, <1>16, Zenon DEF FrameInv, MediaArrivesOnce

----------------------------------------------------------------------------
\* The steps of a media node

MediaInv == MeterInv /\ FrameInv

\* The invariant holds when nothing is carried and nothing was sent.
LEMMA MediaInvInit == MediaInit => MediaInv
<1> SUFFICES ASSUME MediaInit PROVE MediaInv
  OBVIOUS
<1>1. PICK l \in Ceilings : guard = [n \in MediaNode |-> NewGuard(l)]
  BY DEF MediaInit
<1>2. l.rate \in Nat /\ l.burst \in Nat
  BY MediaAssumption
<1>3. NewGuard(l) \in Guard
  BY <1>2 DEF NewGuard, Guard
<1>4. MeterOK(NewGuard(l), 0, 0)
  <2>1. Uncounted(NewGuard(l), 0) = 0
    BY DEF Uncounted, NewGuard
  <2>2. Yield(l.rate, 0) \in Nat
    BY <1>2, YieldType, Zenon
  <2>3. /\ NewGuard(l).allowance = l.burst /\ NewGuard(l).forwarded = 0
        /\ NewGuard(l).topRate = l.rate /\ NewGuard(l).topBurst = l.burst
        /\ NewGuard(l).limits = l
    BY DEF NewGuard
  <2> HIDE DEF NewGuard
  <2> QED BY <1>2, <1>3, <2>1, <2>2, <2>3 DEF MeterOK
<1>5. Carried(NewGuard(l)) = {} /\ IsFiniteSet({})
  BY FS_EmptySet DEF Carried, NewGuard
<1>6. MeterInv
  BY <1>1, <1>3, <1>4, <1>5, ZenonT(40) DEF MeterInv, MediaInit
<1>7. FrameInv
  <2>1. HeardAtMostOnce /\ FanOutIsWhole
    BY DEF MediaInit, HeardAtMostOnce, FanOutIsWhole
  <2> QED BY <2>1, MediaAssumption DEF FrameInv, MediaArrivesOnce, MediaInit
<1> QED BY <1>6, <1>7 DEF MediaInv

\* A step that changes the guard of one node.
LEMMA GuardChanges ==
    ASSUME MeterInv, NEW n \in MediaNode, UNCHANGED <<clock, advanced>>,
           NEW h \in Guard, guard' = [guard EXCEPT ![n] = h],
           MeterOK(h, clock, advanced), IsFiniteSet(Carried(h))
    PROVE  MeterInv'
<1>1. guard \in [MediaNode -> Guard]
  BY DEF MeterInv
<1>2. \A m \in MediaNode : guard'[m] = h \/ guard'[m] = guard[m]
  BY <1>1
<1>3. \A m \in MediaNode : MeterOK(guard'[m], clock', advanced') /\ IsFiniteSet(Carried(guard'[m]))
  BY <1>2 DEF MeterInv
<1>4. guard' \in [MediaNode -> Guard]
  BY <1>1
<1> QED BY <1>3, <1>4 DEF MeterInv

\* Guards after set_limits.
LEMMA SetLimitsKeeps ==
    ASSUME MeterInv, NEW n \in MediaNode, NEW l \in Ceilings, SetLimits(n, l)
    PROVE  MeterInv' /\ \A m \in MediaNode : guard'[m].calls = guard[m].calls
<1>1. PICK g \in Guard : g = guard[n]
  BY DEF MeterInv
<1>2. /\ MeterOK(g, clock, advanced) /\ clock \in Nat /\ advanced \in Nat
      /\ guard \in [MediaNode -> Guard] /\ IsFiniteSet(Carried(g))
  BY <1>1 DEF MeterInv
<1>3. /\ l.rate \in Nat /\ l.burst \in Nat /\ g.allowance \in Nat /\ g.topRate \in Nat
      /\ g.topBurst \in Nat /\ g.forwarded \in Nat
  BY MediaAssumption DEF Guard
<1>4. PICK a \in Nat : a = Min({g.allowance, l.burst}) /\ a <= g.allowance /\ a <= l.burst
  BY <1>3, MinMax
<1>5. PICK r \in Nat : r = Max({g.topRate, l.rate}) /\ g.topRate <= r /\ l.rate <= r
  BY <1>3, MinMax
<1>6. PICK b \in Nat : b = Max({g.topBurst, l.burst}) /\ g.topBurst <= b /\ l.burst <= b
  BY <1>3, MinMax
<1> DEFINE h == [g EXCEPT !.limits = l, !.allowance = a, !.topRate = r, !.topBurst = b]
<1>7. guard' = [guard EXCEPT ![n] = h] /\ UNCHANGED <<clock, advanced>>
  BY <1>1, <1>2, <1>4, <1>5, <1>6, Zenon DEF SetLimits, timing
<1>8. h \in Guard
  BY ZenonT(40) DEF Guard
<1>9. /\ h.limits = l /\ h.allowance = a /\ h.topRate = r /\ h.topBurst = b
      /\ h.calls = g.calls /\ h.lastRefill = g.lastRefill /\ h.forwarded = g.forwarded
  BY DEF Guard
<1> HIDE DEF h
<1>10. h.forwarded + h.allowance <= g.forwarded + g.allowance
  BY <1>3, <1>4, <1>9
<1>11. MeterOK(h, clock, advanced)
  BY <1>2, <1>4, <1>5, <1>6, <1>8, <1>9, <1>10, MeterKeeps
<1>12. Carried(h) = Carried(g)
  BY <1>9 DEF Carried
<1>13. MeterInv' /\ \A m \in MediaNode : guard'[m].calls = guard[m].calls
  BY <1>1, <1>2, <1>7, <1>8, <1>9, <1>11, <1>12, GuardChanges, Zenon
<1> QED BY <1>13

\* Guards after refill.
LEMMA MeterRefill ==
    ASSUME MeterInv, NEW n \in MediaNode, Refill(n)
    PROVE  MeterInv' /\ \A m \in MediaNode : guard'[m].calls = guard[m].calls
<1>1. PICK g \in Guard : g = guard[n]
  BY DEF MeterInv
<1>2. /\ MeterOK(g, clock, advanced) /\ clock \in Nat /\ advanced \in Nat
      /\ guard \in [MediaNode -> Guard] /\ IsFiniteSet(Carried(g))
  BY <1>1 DEF MeterInv
<1> DEFINE a == IF Earned(g, clock) = 0 THEN g.allowance
                ELSE Min({g.allowance + Earned(g, clock), g.limits.burst})
<1>3. a \in Nat
  <2>1. g.allowance \in Nat /\ g.limits.burst \in Nat /\ g.limits.rate \in Nat /\ g.lastRefill \in Int
    BY MediaAssumption DEF Guard
  <2>2. Earned(g, clock) \in Nat
    <3>1. CASE g.lastRefill = -1 \/ clock <= g.lastRefill
      BY <3>1 DEF Earned
    <3>2. CASE ~(g.lastRefill = -1 \/ clock <= g.lastRefill)
      <4>1. clock - g.lastRefill \in Nat
        BY <1>2, <2>1, <3>2
      <4>2. Yield(g.limits.rate, clock - g.lastRefill) \in Nat
        BY <2>1, <4>1, YieldType, Zenon
      <4> QED BY <3>2, <4>2 DEF Earned, Yield
    <3> QED BY <3>1, <3>2
  <2>3. g.allowance + Earned(g, clock) \in Nat
    BY <2>1, <2>2
  <2> QED BY <2>1, <2>3, MinMax
<1> DEFINE h == [g EXCEPT !.allowance = a, !.lastRefill = clock]
<1>4. guard' = [guard EXCEPT ![n] = h] /\ UNCHANGED <<clock, advanced>>
  BY <1>1, <1>2, Zenon DEF Refill, timing
<1> HIDE DEF a
<1>5. h \in Guard
  <2>1. clock \in Int
    BY <1>2
  <2> QED BY <1>3, <2>1, Zenon DEF Guard
<1>6. /\ h.allowance = a /\ h.lastRefill = clock /\ h.limits = g.limits /\ h.calls = g.calls
      /\ h.forwarded = g.forwarded /\ h.topRate = g.topRate /\ h.topBurst = g.topBurst
  BY DEF Guard
<1> HIDE DEF h
<1>7. MeterOK(h, clock, advanced)
  BY <1>2, <1>5, <1>6, RefillKeeps, Zenon DEF a
<1>8. Carried(h) = Carried(g)
  BY <1>6 DEF Carried
<1> QED BY <1>1, <1>2, <1>4, <1>5, <1>6, <1>7, <1>8, GuardChanges, ZenonT(40)

\* A call that is taken on, taken on with another roster, or given up.
LEMMA RosterChanges ==
    ASSUME MeterInv, NEW n \in MediaNode, NEW c \in Call, NEW roster \in Rosters \cup {NoRoster},
           guard' = [guard EXCEPT ![n].calls[c] = roster], UNCHANGED <<clock, advanced>>
    PROVE  /\ MeterInv'
           /\ \A m \in MediaNode : m # n => guard'[m] = guard[m]
           /\ guard'[n].limits = guard[n].limits
           /\ Carried(guard'[n]) \subseteq Carried(guard[n]) \cup {c}
           /\ roster = NoRoster => Carried(guard'[n]) \subseteq Carried(guard[n])
<1>1. PICK g \in Guard : g = guard[n]
  BY DEF MeterInv
<1>2. /\ MeterOK(g, clock, advanced) /\ clock \in Nat /\ advanced \in Nat
      /\ guard \in [MediaNode -> Guard] /\ IsFiniteSet(Carried(g))
  BY <1>1 DEF MeterInv
<1>3. g.calls \in [Call -> Rosters \cup {NoRoster}]
  BY DEF Guard
<1> DEFINE k == [g.calls EXCEPT ![c] = roster]
<1>4. k \in [Call -> Rosters \cup {NoRoster}] /\ k[c] = roster
      /\ \A x \in Call : x # c => k[x] = g.calls[x]
  BY <1>3
<1> DEFINE h == [g EXCEPT !.calls = k]
<1>5. guard' = [guard EXCEPT ![n] = h]
  BY <1>1, <1>2
<1> HIDE DEF k
<1>6. h \in Guard
  BY <1>4 DEF Guard
<1>7. /\ h.calls = k /\ h.allowance = g.allowance /\ h.lastRefill = g.lastRefill
      /\ h.limits = g.limits /\ h.forwarded = g.forwarded
      /\ h.topRate = g.topRate /\ h.topBurst = g.topBurst
  BY DEF Guard
<1> HIDE DEF h
<1>8. MeterOK(h, clock, advanced)
  <2>1. g.forwarded + g.allowance \in Nat /\ g.topRate \in Nat /\ g.topBurst \in Nat
    BY DEF Guard
  <2>2. /\ h.allowance <= h.limits.burst /\ h.forwarded + h.allowance <= g.forwarded + g.allowance
        /\ h.limits.rate <= h.topRate /\ h.limits.burst <= h.topBurst
        /\ g.topRate <= h.topRate /\ g.topBurst <= h.topBurst
    BY <1>2, <1>7, <2>1 DEF MeterOK
  <2> QED BY <1>2, <1>6, <1>7, <2>2, MeterKeeps
<1>9. /\ Carried(h) \subseteq Carried(g) \cup {c}
      /\ roster = NoRoster => Carried(h) \subseteq Carried(g)
  BY <1>4, <1>7 DEF Carried
<1>10. IsFiniteSet(Carried(h))
  <2>1. IsFiniteSet(Carried(g) \cup {c})
    BY <1>2, FS_Union, FS_Singleton, Zenon
  <2> QED BY <1>9, <2>1, FS_Subset
<1>11. MeterInv'
  BY <1>5, <1>6, <1>8, <1>10, GuardChanges, Zenon
<1>12. guard'[n] = h /\ \A m \in MediaNode : m # n => guard'[m] = guard[m]
  BY <1>2, <1>5
<1> QED BY <1>1, <1>7, <1>9, <1>11, <1>12

\* Guards after authorize has charged an envelope.
LEMMA MeterForward ==
    ASSUME MeterInv, FrameInv, NEW e \in envelopes, HandleForward(e.at, e)
    PROVE  MeterInv' /\ \A m \in MediaNode : guard'[m].calls = guard[m].calls
<1> DEFINE n == e.at
           cost == Cost(n, guard[n], e)
<1>1. n \in MediaNode
  BY EnvelopeFacts
<1>2. PICK g \in Guard : g = guard[n]
  BY <1>1 DEF MeterInv
<1>3. /\ MeterOK(g, clock, advanced) /\ clock \in Nat /\ advanced \in Nat
      /\ guard \in [MediaNode -> Guard] /\ IsFiniteSet(Carried(g))
  BY <1>1, <1>2 DEF MeterInv
<1>4. cost \in Nat /\ cost <= g.allowance /\ g.allowance \in Nat /\ g.forwarded \in Nat
  BY <1>2, RecipientsAre DEF HandleForward, Guard
<1>5. /\ guard' = [guard EXCEPT ![n].allowance = @ - cost, ![n].forwarded = @ + cost]
      /\ UNCHANGED <<clock, advanced>>
  BY DEF HandleForward, timing
<1> HIDE DEF n, cost
<1> DEFINE a == g.allowance - cost
           f == g.forwarded + cost
<1>6. a \in Nat /\ f \in Nat /\ f + a = g.forwarded + g.allowance /\ a <= g.allowance
  BY <1>4
<1> DEFINE h == [g EXCEPT !.allowance = a, !.forwarded = f]
<1>7. guard' = [guard EXCEPT ![n] = h]
  BY <1>1, <1>2, <1>3, <1>5, Zenon
<1> HIDE DEF a, f
<1>8. h \in Guard
  BY <1>6, Zenon DEF Guard
<1>9. /\ h.allowance = a /\ h.forwarded = f /\ h.calls = g.calls /\ h.lastRefill = g.lastRefill
      /\ h.limits = g.limits /\ h.topRate = g.topRate /\ h.topBurst = g.topBurst
  BY DEF Guard
<1> HIDE DEF h
<1>10. MeterOK(h, clock, advanced)
  <2>1. g.topRate \in Nat /\ g.topBurst \in Nat /\ g.limits.burst \in Nat
    BY MediaAssumption DEF Guard
  <2>2. h.allowance <= h.limits.burst
    BY <1>3, <1>4, <1>6, <1>9, <2>1 DEF MeterOK
  <2>3. h.forwarded + h.allowance <= g.forwarded + g.allowance
    BY <1>4, <1>6, <1>9
  <2>4. /\ h.limits.rate <= h.topRate /\ h.limits.burst <= h.topBurst
        /\ g.topRate <= h.topRate /\ g.topBurst <= h.topBurst
    BY <1>3, <1>9, <2>1 DEF MeterOK
  <2> QED BY <1>3, <1>8, <1>9, <2>2, <2>3, <2>4, MeterKeeps
<1>11. Carried(h) = Carried(g)
  BY <1>9 DEF Carried
<1> QED BY <1>1, <1>2, <1>3, <1>5, <1>7, <1>8, <1>9, <1>10, <1>11, GuardChanges, ZenonT(40)

\* Frames when only guards or the clock change.
LEMMA FramesSame ==
    ASSUME FrameInv, UNCHANGED network
    PROVE  FrameInv'
<1>1. UNCHANGED <<envelopes, frames, heard, fanned, lost>>
  BY DEF network
<1>2. MediaArrivesOnce'
  BY <1>1, SMTT(40) DEF FrameInv, MediaArrivesOnce, HeardAtMostOnce, FanOutIsWhole
<1> QED BY <1>1, <1>2, SMTT(40) DEF FrameInv

\* Guards when only frames change.
LEMMA MetersSame ==
    ASSUME MeterInv, UNCHANGED <<guard, timing>>
    PROVE  MeterInv' /\ CallsAreKept
<1>1. UNCHANGED <<guard, clock, advanced>>
  BY DEF timing
<1> QED BY <1>1 DEF MeterInv, CallsAreKept

\* A step that changes no call keeps to the ceiling of calls.
LEMMA CallsStay ==
    ASSUME \A m \in MediaNode : guard'[m].calls = guard[m].calls
    PROVE  CallsAreKept
  BY DEF CallsAreKept, Carried

\* Guards after try_carry and stop_carrying: one call more, counted before it is
\* taken on.
LEMMA CarryingKeeps ==
    ASSUME MeterInv, NEW n \in MediaNode, Carrying(n)
    PROVE  MeterInv' /\ CallsAreKept
<1>1. PICK c \in Call : StopCarrying(n, c) \/ \E roster \in Rosters : TryCarry(n, c, roster)
  BY DEF Carrying
<1>2. CASE StopCarrying(n, c)
  <2>1. guard' = [guard EXCEPT ![n].calls[c] = NoRoster] /\ UNCHANGED <<clock, advanced>>
    BY <1>2 DEF StopCarrying, timing
  <2>2. /\ MeterInv'
        /\ \A m \in MediaNode : m # n => guard'[m] = guard[m]
        /\ guard'[n].limits = guard[n].limits
        /\ Carried(guard'[n]) \subseteq Carried(guard[n])
    BY <2>1, RosterChanges, ZenonT(40)
  <2> QED BY <2>2 DEF CallsAreKept
<1>3. ASSUME NEW roster \in Rosters, TryCarry(n, c, roster)
      PROVE  MeterInv' /\ CallsAreKept
  <2>1. CASE CarryRefusal(guard[n], c, roster) # "none"
    BY <1>3, <2>1, MetersSame DEF TryCarry
  <2>2. CASE CarryRefusal(guard[n], c, roster) = "none"
    <3>1. guard' = [guard EXCEPT ![n].calls[c] = roster] /\ UNCHANGED <<clock, advanced>>
      BY <1>3, <2>2 DEF TryCarry, timing
    <3>2. /\ MeterInv'
          /\ \A m \in MediaNode : m # n => guard'[m] = guard[m]
          /\ guard'[n].limits = guard[n].limits
          /\ Carried(guard'[n]) \subseteq Carried(guard[n]) \cup {c}
      BY <3>1, RosterChanges, ZenonT(40)
    <3>3. ASSUME ~(Carried(guard'[n]) \subseteq Carried(guard[n]))
          PROVE  Cardinality(Carried(guard'[n])) <= guard[n].limits.calls
      <4>1. c \notin Carried(guard[n])
        BY <3>2, <3>3
      <4>2. ~(Cardinality(Carried(guard[n])) >= guard[n].limits.calls)
        BY <2>2, <4>1 DEF CarryRefusal
      <4>3. guard[n].limits.calls \in Nat /\ IsFiniteSet(Carried(guard[n]))
        BY MediaAssumption DEF MeterInv, Guard
      <4>4. /\ IsFiniteSet(Carried(guard[n]) \cup {c})
            /\ Cardinality(Carried(guard[n]) \cup {c}) = Cardinality(Carried(guard[n])) + 1
        BY <4>1, <4>3, FS_AddElement, ZenonT(40)
      <4>5. Cardinality(Carried(guard[n])) \in Nat
        BY <4>3, FS_CardinalityType
      <4>6. /\ IsFiniteSet(Carried(guard'[n]))
            /\ Cardinality(Carried(guard'[n])) <= Cardinality(Carried(guard[n]) \cup {c})
        BY <3>2, <4>4, FS_Subset
      <4>7. Cardinality(Carried(guard'[n])) \in Nat
        BY <4>6, FS_CardinalityType
      <4> QED BY <4>2, <4>3, <4>4, <4>5, <4>6, <4>7
    <3> QED BY <3>2, <3>3 DEF CallsAreKept
  <2> QED BY <2>1, <2>2
<1> QED BY <1>1, <1>2, <1>3

\* Guards when the clock runs forward or is set back.
LEMMA ClockMoves ==
    ASSUME MeterInv, ClockForward \/ ClockBack
    PROVE  MeterInv' /\ CallsAreKept
<1>1. /\ clock \in Nat /\ advanced \in Nat /\ UNCHANGED guard
      /\ clock' \in Nat /\ advanced' \in Nat
      /\ (clock' = clock + 1 /\ advanced' = advanced + 1) \/ (clock' = clock - 1 /\ advanced' = advanced)
  BY DEF MeterInv, ClockForward, ClockBack
<1>2. ASSUME NEW n \in MediaNode
      PROVE  MeterOK(guard[n], clock', advanced')
  BY <1>1, ClockKeeps DEF MeterInv
<1>3. MeterInv'
  BY <1>1, <1>2 DEF MeterInv
<1> QED BY <1>1, <1>3, CallsStay

\* The invariant after the handler of Media, or after a loss.
LEMMA HandlingKeeps ==
    ASSUME MediaInv, NEW e \in envelopes, Handling(e) \/ LoseEnvelope(e)
    PROVE  MediaInv' /\ CallsAreKept
<1>1. MeterInv /\ FrameInv
  BY DEF MediaInv
<1>2. CASE HandleOwn(e.at, e)
  <2>1. UNCHANGED <<guard, timing>>
    BY <1>2 DEF HandleOwn
  <2> QED BY <1>1, <1>2, <2>1, OwnKeeps, MetersSame DEF MediaInv
<1>3. CASE HandleForward(e.at, e)
  BY <1>1, <1>3, ForwardKeeps, MeterForward, CallsStay DEF MediaInv
<1>4. CASE HandleForeign(e.at, e)
  \* Whatever a relay sends on is addressed to the node it is sent to.
  BY <1>1, <1>4 DEF HandleForeign, FrameInv
<1>5. CASE HandleRefused(e.at, e)
  <2>1. UNCHANGED <<guard, timing>> /\ Goes(e)
    BY <1>5 DEF HandleRefused, Goes
  <2> QED BY <1>1, <2>1, EnvelopeGoes, MetersSame DEF MediaInv
<1>6. CASE LoseEnvelope(e)
  <2>1. UNCHANGED <<guard, timing>> /\ Goes(e)
    BY <1>6 DEF LoseEnvelope, Goes
  <2> QED BY <1>1, <2>1, EnvelopeGoes, MetersSame DEF MediaInv
<1> QED BY <1>2, <1>3, <1>4, <1>5, <1>6 DEF Handling

\* Every step keeps the invariant and the calls.
LEMMA MediaInvNext ==
    ASSUME MediaInv, [MediaNext]_mediaVars
    PROVE  MediaInv' /\ CallsAreKept
<1>1. MeterInv /\ FrameInv
  BY DEF MediaInv
<1>2. ASSUME NEW n \in MediaNode, Metering(n)
      PROVE  MediaInv' /\ CallsAreKept
  <2>1. UNCHANGED network
    BY <1>2, ZenonT(40) DEF Metering, SetLimits, Refill
  <2>2. MeterInv' /\ \A m \in MediaNode : guard'[m].calls = guard[m].calls
    BY <1>1, <1>2, SetLimitsKeeps, MeterRefill DEF Metering
  <2> QED BY <1>1, <2>1, <2>2, FramesSame, CallsStay DEF MediaInv
<1>3. ASSUME NEW n \in MediaNode, Carrying(n)
      PROVE  MediaInv' /\ CallsAreKept
  <2>1. UNCHANGED network
    BY <1>3 DEF Carrying, StopCarrying, TryCarry
  <2> QED BY <1>1, <1>3, <2>1, FramesSame, CarryingKeeps DEF MediaInv
<1>4. ASSUME NEW n \in MediaNode, Sending(n)
      PROVE  MediaInv' /\ CallsAreKept
  <2>1. PICK c \in Call, size \in FrameSize, at \in MediaNode, to \in MediaNode \cup {Everyone} :
            SendMedia(n, c, to, size, at)
    BY <1>4 DEF Sending
  <2>2. UNCHANGED <<guard, timing>>
    BY <2>1 DEF SendMedia
  <2> QED BY <1>1, <2>1, <2>2, SendKeeps, MetersSame DEF MediaInv
<1>5. CASE ClockForward \/ ClockBack
  <2>1. UNCHANGED network
    BY <1>5 DEF ClockForward, ClockBack
  <2> QED BY <1>1, <1>5, <2>1, FramesSame, ClockMoves DEF MediaInv
<1>6. CASE UNCHANGED mediaVars
  <2>1. UNCHANGED network /\ UNCHANGED <<guard, timing>>
    BY <1>6 DEF mediaVars, network, timing
  <2> QED BY <1>1, <2>1, FramesSame, MetersSame DEF MediaInv
<1> QED BY <1>2, <1>3, <1>4, <1>5, <1>6, HandlingKeeps DEF MediaNext

\* The invariant says what the properties say.
LEMMA MediaInvSays == MediaInv => MediaTypeOK /\ ForwardedWithinPromise /\ MediaArrivesOnce
<1> SUFFICES ASSUME MediaInv PROVE MediaTypeOK /\ ForwardedWithinPromise /\ MediaArrivesOnce
  OBVIOUS
<1>1. MediaArrivesOnce
  BY DEF MediaInv, FrameInv
<1>2. ASSUME NEW n \in MediaNode
      PROVE  /\ guard[n].allowance \in 0 .. guard[n].limits.burst
             /\ guard[n].forwarded \in Nat
             /\ guard[n].calls \in [Call -> (SUBSET MediaNode) \cup {NoRoster}]
             /\ guard[n].forwarded + guard[n].allowance
                   <= guard[n].topBurst + Yield(guard[n].topRate, advanced)
  <2>1. PICK g \in Guard : g = guard[n] /\ MeterOK(g, clock, advanced)
    BY DEF MediaInv, MeterInv
  <2>2. clock \in Nat /\ advanced \in Nat
    BY DEF MediaInv, MeterInv
  <2>3. /\ g.allowance \in Nat /\ g.limits.burst \in Nat /\ g.forwarded \in Nat
        /\ g.topRate \in Nat /\ g.topBurst \in Nat /\ g.topRate <= g.topRate
        /\ g.calls \in [Call -> Rosters \cup {NoRoster}]
    BY MediaAssumption DEF Guard
  <2>4. Uncounted(g, clock) \in Nat /\ Uncounted(g, clock) <= advanced
    BY <2>1, <2>2, UncountedType DEF MeterOK
  <2>5. PICK x \in Nat : x = advanced - Uncounted(g, clock) /\ x <= advanced
    BY <2>2, <2>4
  <2>6. /\ Yield(g.topRate, x) <= Yield(g.topRate, advanced)
        /\ Yield(g.topRate, x) \in Nat /\ Yield(g.topRate, advanced) \in Nat
    BY <2>2, <2>3, <2>5, YieldGrows, YieldType, ZenonT(40)
  <2>7. /\ g.allowance <= g.limits.burst
        /\ g.forwarded + g.allowance <= g.topBurst + Yield(g.topRate, x)
    BY <2>1, <2>5 DEF MeterOK
  <2>8. g.forwarded + g.allowance <= g.topBurst + Yield(g.topRate, advanced)
    BY <2>3, <2>6, <2>7
  <2>9. g.allowance \in 0 .. g.limits.burst
    BY <2>3, <2>7
  <2>10. g.calls \in [Call -> (SUBSET MediaNode) \cup {NoRoster}]
    BY <2>3, MediaAssumption
  <2> QED BY <2>1, <2>3, <2>8, <2>9, <2>10
<1> QED BY <1>1, <1>2 DEF MediaTypeOK, ForwardedWithinPromise, Yield

\* Nobody is handed a frame twice or their own frame back, and a fan-out is served
\* whole but for what is lost, for any nodes, calls, rosters and frames (node.rs,
\* the handler of Media).
THEOREM FramesArriveOnce == MediaSpec => []MediaArrivesOnce
<1>1. MediaInv /\ [MediaNext]_mediaVars => MediaInv'
  BY MediaInvNext
<1> QED BY <1>1, MediaInvInit, MediaInvSays, PTL DEF MediaSpec

\* A media relay keeps to its ceilings for any ceilings, frame sizes and readings of
\* the clock (media_limits.rs, MediaRelayGuard).
THEOREM RelaysKeepToTheirCeilings == MediaSpec => MediaCeilingsHold
<1>1. MediaInv /\ [MediaNext]_mediaVars => MediaInv'
  BY MediaInvNext
<1>2. MediaInv /\ [MediaNext]_mediaVars => [CallsAreKept]_mediaVars
  BY MediaInvNext
<1> QED BY <1>1, <1>2, MediaInvInit, MediaInvSays, PTL DEF MediaSpec, MediaCeilingsHold
=============================================================================
