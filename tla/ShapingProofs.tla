---------------------------- MODULE ShapingProofs ----------------------------
(***************************************************************************)
(* Proofs about Shaping for every rate, transfer size and finite set of    *)
(* streams: the bandwidth cap, and that the chaos settings in force are    *)
(* those last reported.                                                    *)
(***************************************************************************)
EXTENDS Shaping, FiniteSetTheorems, TLAPS

Bound == Larger(Rate, MaxChunk)

StreamState ==
    [at : {"idle", "delayed", "throttled"}, n : 0..MaxChunk, left : Nat]

(* The bytes that the streams of T hold in f, as a set, and how many. *)
Bytes(f, T) == {b \in T \X (1..MaxChunk) : b[2] <= f[b[1]].n}
Size(f, T) == Cardinality(Bytes(f, T))

LEMMA SizeOfInterval ==
    ASSUME NEW k \in Nat
    PROVE  IsFiniteSet(1..k) /\ Cardinality(1..k) = k
<1>1. 1 \in Int /\ k \in Int
  OBVIOUS
<1>2. IsFiniteSet(1..k) /\ Cardinality(1..k) = IF 1 > k THEN 0 ELSE k - 1 + 1
  BY <1>1, FS_Interval, Zenon
<1>3. QED
  BY <1>2

(* The size of a set of streams is a number, and no smaller than a part's. *)
LEMMA SizeType ==
    ASSUME NEW f, NEW T \in SUBSET Stream
    PROVE  /\ IsFiniteSet(Bytes(f, T))
           /\ Size(f, T) \in Nat
           /\ \A U \in SUBSET T : Size(f, U) \in Nat /\ Size(f, U) <= Size(f, T)
<1>1. IsFiniteSet(Stream \X (1..MaxChunk))
  <2>1. IsFiniteSet(1..MaxChunk)
    BY SizeOfInterval, ShapingAssumption
  <2>2. QED
    BY <2>1, ShapingAssumption, FS_Product, Zenon
<1>2. \A U \in SUBSET Stream :
        Bytes(f, U) \in SUBSET (Stream \X (1..MaxChunk))
  BY DEF Bytes
<1>3. \A U \in SUBSET Stream : IsFiniteSet(Bytes(f, U)) /\ Size(f, U) \in Nat
  BY <1>1, <1>2, FS_Subset, FS_CardinalityType DEF Size
<1>4. \A U \in SUBSET T : Bytes(f, U) \in SUBSET Bytes(f, T)
  BY DEF Bytes
<1>5. \A U \in SUBSET T : Size(f, U) <= Size(f, T)
  BY <1>3, <1>4, FS_Subset DEF Size
<1>6. QED
  BY <1>3, <1>5

(* Only how much each stream of the set holds matters. *)
LEMMA SizeSame ==
    ASSUME NEW f, NEW g, NEW T \in SUBSET Stream, \A t \in T : f[t].n = g[t].n
    PROVE  Size(f, T) = Size(g, T)
<1>1. Bytes(f, T) = Bytes(g, T)
  BY DEF Bytes
<1>2. QED
  BY <1>1 DEF Size

LEMMA SizeEmpty == \A f : Size(f, {}) = 0
<1>1. \A f : Bytes(f, {}) = {}
  BY DEF Bytes
<1>2. QED
  BY <1>1, FS_EmptySet DEF Size

(* A stream that joins a set adds what it holds. *)
LEMMA SizeAdd ==
    ASSUME NEW f, NEW T \in SUBSET Stream, NEW s \in Stream, s \notin T,
           f[s].n \in 0..MaxChunk
    PROVE  Size(f, T \cup {s}) = Size(f, T) + f[s].n
<1> DEFINE own == {s} \X (1..f[s].n)
<1>1. Bytes(f, T \cup {s}) = Bytes(f, T) \cup own
  BY ShapingAssumption DEF Bytes
<1>2. Bytes(f, T) \cap own = {}
  BY DEF Bytes
<1>3. f[s].n \in Nat /\ IsFiniteSet(1..f[s].n) /\ Cardinality(1..f[s].n) = f[s].n
  BY SizeOfInterval
<1>4. IsFiniteSet({s}) /\ Cardinality({s}) = 1
  BY FS_Singleton
<1>5. IsFiniteSet(own) /\ Cardinality(own) = Cardinality({s}) * Cardinality(1..f[s].n)
  BY <1>3, <1>4, FS_Product
<1>6. Cardinality(own) = f[s].n
  BY <1>3, <1>4, <1>5
<1>7. IsFiniteSet(Bytes(f, T)) /\ Cardinality(Bytes(f, T)) \in Nat
  BY SizeType DEF Size
<1> HIDE DEF own
<1>8. Cardinality(Bytes(f, T) \cup own)
        = Cardinality(Bytes(f, T)) + Cardinality(own) - Cardinality({})
  BY <1>2, <1>5, <1>7, FS_Union
<1>9. Cardinality({}) = 0
  BY FS_EmptySet
<1>10. Cardinality(Bytes(f, T) \cup own) = Cardinality(Bytes(f, T)) + f[s].n
  BY <1>3, <1>6, <1>7, <1>8, <1>9
<1>11. QED
  BY <1>1, <1>10 DEF Size

-----------------------------------------------------------------------------
(* The streams that have taken their tokens and sleep off the debt, those  *)
(* that are through within L, and those that are after K and by L.         *)
Throttled == {s \in Stream : stream[s].at = "throttled"}
DueBy(L) == {s \in Throttled : stream[s].left <= L}
Between(K, L) == {s \in Throttled : K < stream[s].left /\ stream[s].left <= L}

PathTypeOK ==
    /\ tokens \in Int /\ tokens <= Rate
    /\ excess \in Nat
    /\ stream \in [Stream -> StreamState]

(* Tokens taken are either through or held by a sleeping stream. *)
Conserved == tokens + excess + Size(stream, Throttled) <= Bound

(* However far one looks ahead, no more is due than the bound allows. *)
DueBounded == \A L \in Nat : excess + Size(stream, DueBy(L)) <= Bound + L

(* A stream in debt is through when the bucket is out of it, or before. *)
DebtBehind == \A s \in Throttled : stream[s].left > 0 => stream[s].left + tokens <= 0

(* Streams in debt are through one after another, at the rate: in any      *)
(* period ahead, those due hold its length and less than one transfer.     *)
Spaced ==
    \A K, L \in Nat : K < L => Size(stream, Between(K, L)) <= L - K + MaxChunk - 1

PathInv == PathTypeOK /\ Conserved /\ DueBounded /\ DebtBehind /\ Spaced

LEMMA ThrottledSubset ==
    /\ Throttled \in SUBSET Stream
    /\ \A L : DueBy(L) \in SUBSET Throttled /\ DueBy(L) \in SUBSET Stream
    /\ \A K, L : Between(K, L) \in SUBSET Stream
BY DEF Throttled, DueBy, Between

LEMMA BoundType ==
    /\ Bound \in Nat /\ Rate \in Nat /\ MaxChunk \in Nat
    /\ Rate <= Bound /\ MaxChunk <= Bound /\ 1 <= MaxChunk /\ 1 <= Rate
BY ShapingAssumption DEF Bound, Larger

LEMMA PathInit == Init => PathInv
<1> SUFFICES ASSUME Init PROVE PathInv
  OBVIOUS
<1>1. PathTypeOK
  BY ShapingAssumption DEF Init, PathTypeOK, Idle, StreamState
<1>2. Throttled = {}
  BY DEF Init, Throttled, Idle
<1>3. \A K, L : DueBy(L) = {} /\ Between(K, L) = {}
  BY <1>2 DEF DueBy, Between
<1>4. Conserved
  BY <1>2, SizeEmpty, BoundType DEF Init, Conserved
<1>5. DueBounded
  BY <1>3, SizeEmpty, BoundType DEF Init, DueBounded
<1>6. DebtBehind
  BY <1>2 DEF DebtBehind
<1>7. ASSUME NEW K \in Nat, NEW L \in Nat, K < L
      PROVE  Size(stream, Between(K, L)) <= L - K + MaxChunk - 1
  <2>1. Size(stream, Between(K, L)) = 0
    BY <1>3, SizeEmpty
  <2>2. QED
    BY <1>7, <2>1, BoundType
<1>8. QED
  BY <1>1, <1>4, <1>5, <1>6, <1>7 DEF PathInv, Spaced

(* Wait puts the stream behind all those in debt. *)
LEMMA WaitKeeps ==
    ASSUME PathInv, NEW s \in Stream, NEW n \in 0..MaxChunk,
           stream[s].at # "throttled", Wait(s, n), excess' = excess
    PROVE  PathInv'
<1> USE BoundType
<1> DEFINE l == IF tokens' < 0 THEN -tokens' ELSE 0
<1>1. /\ tokens \in Int /\ tokens' \in Int /\ tokens' = tokens - n /\ n \in Nat
      /\ l \in Nat /\ l >= -tokens' /\ (l > 0 => l = -tokens')
  BY DEF PathInv, PathTypeOK, Wait
<1>2. /\ stream'[s].at = "throttled" /\ stream'[s].n = n /\ stream'[s].left = l
      /\ \A t \in Stream \ {s} : stream'[t] = stream[t]
  BY DEF PathInv, PathTypeOK, Wait
<1>3. PathTypeOK'
  <2>1. [at |-> "throttled", n |-> n, left |-> l] \in StreamState
    BY <1>1 DEF StreamState
  <2>2. stream' \in [Stream -> StreamState]
    BY <2>1 DEF PathInv, PathTypeOK, Wait
  <2>3. QED
    BY <1>1, <2>2 DEF PathInv, PathTypeOK
<1> HIDE DEF l
<1>4. s \notin Throttled /\ Throttled' = Throttled \cup {s}
  BY <1>2 DEF Throttled
<1>5. ASSUME NEW T \in SUBSET Throttled
      PROVE  /\ Size(stream', T) = Size(stream, T)
             /\ Size(stream', T \cup {s}) = Size(stream, T) + n
             /\ Size(stream, T) \in Nat
  <2>1. T \in SUBSET Stream /\ s \notin T
    BY <1>4 DEF Throttled
  <2>2. Size(stream', T) = Size(stream, T)
    BY <1>2, <2>1, SizeSame
  <2>3. Size(stream', T \cup {s}) = Size(stream', T) + n
    BY <1>2, <2>1, SizeAdd
  <2>4. QED
    BY <2>1, <2>2, <2>3, SizeType
<1>6. Conserved'
  BY <1>1, <1>4, <1>5 DEF PathInv, PathTypeOK, Conserved
<1>7. DebtBehind'
  BY <1>1, <1>2, <1>4, ThrottledSubset DEF PathInv, PathTypeOK, DebtBehind, StreamState
<1>8. ASSUME NEW L \in Nat
      PROVE  excess' + Size(stream', DueBy(L)') <= Bound + L
  <2>1. CASE L < l
    <3>1. DueBy(L)' = DueBy(L)
      BY <1>1, <1>2, <1>4, <2>1, ThrottledSubset DEF DueBy
    <3>2. QED
      BY <1>5, <3>1, ThrottledSubset DEF PathInv, DueBounded
  <2>2. CASE L >= l
    <3>1. DueBy(L)' \in SUBSET Throttled' /\ Throttled' \in SUBSET Stream
      BY DEF DueBy, Throttled
    <3>2. /\ Size(stream', DueBy(L)') <= Size(stream', Throttled')
          /\ Size(stream', DueBy(L)') \in Nat /\ Size(stream', Throttled') \in Nat
      BY <3>1, SizeType
    <3>3. QED
      BY <1>1, <1>3, <1>6, <2>2, <3>2 DEF Conserved, PathTypeOK
  <2>3. QED
    BY <1>1, <2>1, <2>2
<1>9. ASSUME NEW K \in Nat, NEW L \in Nat, K < L
      PROVE  Size(stream', Between(K, L)') <= L - K + MaxChunk - 1
  <2>1. Between(K, L) \in SUBSET Throttled
    BY DEF Between
  <2>2. CASE ~(K < l /\ l <= L)
    <3>1. Between(K, L)' = Between(K, L)
      BY <1>1, <1>2, <1>4, <2>2, ThrottledSubset DEF Between
    <3>2. QED
      BY <1>5, <1>9, <2>1, <3>1 DEF PathInv, Spaced
  <2>3. CASE K < l /\ l <= L
    <3>1. Between(K, L)' = Between(K, L) \cup {s}
      BY <1>1, <1>2, <1>4, <2>3, ThrottledSubset DEF Between
    <3>2. Size(stream', Between(K, L)') = Size(stream, Between(K, L)) + n
      BY <1>5, <2>1, <3>1
    <3>3. CASE K < -tokens
      <4>1. Between(K, L) = Between(K, -tokens)
        BY <1>1, <2>3, <3>3, ThrottledSubset
           DEF Between, PathInv, PathTypeOK, DebtBehind, StreamState
      <4>2. -tokens \in Nat
        BY <1>1, <3>3
      <4>3. Size(stream, Between(K, L)) <= -tokens - K + MaxChunk - 1
        BY <3>3, <4>1, <4>2 DEF PathInv, Spaced
      <4>4. l = n - tokens /\ n - tokens <= L
        BY <1>1, <2>3
      <4>5. Size(stream, Between(K, L)) \in Nat
        BY <1>5, <2>1
      <4>6. Size(stream, Between(K, L)) + n <= L - K + MaxChunk - 1
        BY <1>1, <4>3, <4>4, <4>5
      <4>7. QED
        BY <3>2, <4>6
    <3>4. CASE K >= -tokens
      <4>1. Between(K, L) = {}
        BY <1>1, <3>4, ThrottledSubset DEF Between, PathInv, PathTypeOK, DebtBehind, StreamState
      <4>2. QED
        BY <1>1, <1>9, <3>2, <4>1, SizeEmpty
    <3>5. QED
      BY <1>1, <3>3, <3>4
  <2>4. QED
    BY <2>2, <2>3
<1>10. QED
  BY <1>3, <1>6, <1>7, <1>8, <1>9 DEF PathInv, DueBounded, Spaced

(* A stream that wakes takes its bytes along: through, or nowhere. *)
LEMMA WakeKeeps ==
    ASSUME PathInv, NEW s \in Stream, WaitEnds(s) \/ Interrupted(s)
    PROVE  PathInv'
<1> USE BoundType
<1>1. /\ tokens' = tokens
      /\ stream'[s] = Idle /\ \A t \in Stream \ {s} : stream'[t] = stream[t]
      /\ stream' \in [Stream -> StreamState]
  BY DEF WaitEnds, Interrupted, PathInv, PathTypeOK, Idle, StreamState
<1>2. stream[s].n \in 0..MaxChunk /\ stream[s].left \in Nat
  BY DEF PathInv, PathTypeOK, StreamState
<1>3. \/ /\ s \in Throttled /\ stream[s].left = 0
         /\ excess' = excess + stream[s].n
      \/ excess' = excess
  BY DEF WaitEnds, Interrupted, Throttled
<1>4. PathTypeOK'
  BY <1>1, <1>2, <1>3 DEF PathInv, PathTypeOK
<1>5. Throttled' = Throttled \ {s}
  BY <1>1 DEF Throttled, Idle
<1>6. ASSUME NEW T \in SUBSET Throttled
      PROVE  /\ Size(stream', T \ {s}) \in Nat /\ Size(stream, T) \in Nat
             /\ Size(stream', T \ {s}) <= Size(stream, T)
             /\ s \in T => Size(stream, T) = Size(stream', T \ {s}) + stream[s].n
  <2>1. T \in SUBSET Stream /\ T \ {s} \in SUBSET Stream /\ T \ {s} \in SUBSET T
    BY ThrottledSubset
  <2>2. Size(stream', T \ {s}) = Size(stream, T \ {s})
    BY <1>1, <2>1, SizeSame
  <2>3. ASSUME s \in T PROVE Size(stream, T) = Size(stream, T \ {s}) + stream[s].n
    <3>1. Size(stream, (T \ {s}) \cup {s}) = Size(stream, T \ {s}) + stream[s].n
      BY <1>2, <2>1, SizeAdd
    <3>2. (T \ {s}) \cup {s} = T
      BY <2>3
    <3>3. QED
      BY <3>1, <3>2
  <2>4. QED
    BY <2>1, <2>2, <2>3, SizeType
<1>7. ASSUME NEW T \in SUBSET Throttled,
             excess' # excess => s \in T
      PROVE  excess' + Size(stream', T \ {s}) <= excess + Size(stream, T)
  BY <1>2, <1>3, <1>6, <1>7 DEF PathInv, PathTypeOK
<1>8. Conserved'
  <2>1. excess' + Size(stream', Throttled \ {s}) <= excess + Size(stream, Throttled)
    BY <1>3, <1>7
  <2>2. QED
    BY <1>1, <1>4, <1>5, <1>6, <2>1 DEF PathInv, PathTypeOK, Conserved
<1>9. DebtBehind'
  BY <1>1, <1>5, ThrottledSubset DEF PathInv, DebtBehind
<1>10. ASSUME NEW L \in Nat
       PROVE  excess' + Size(stream', DueBy(L)') <= Bound + L
  <2>1. DueBy(L)' = DueBy(L) \ {s}
    BY <1>1, <1>5, ThrottledSubset DEF DueBy
  <2>2. excess' # excess => s \in DueBy(L)
    BY <1>3 DEF DueBy
  <2>3. DueBy(L) \in SUBSET Throttled
    BY ThrottledSubset
  <2>4. excess' + Size(stream', DueBy(L) \ {s}) <= excess + Size(stream, DueBy(L))
    BY <1>7, <2>2, <2>3
  <2>5. /\ Size(stream', DueBy(L) \ {s}) \in Nat /\ Size(stream, DueBy(L)) \in Nat
        /\ excess \in Nat /\ excess' \in Nat
    BY <1>4, <1>6, <2>3 DEF PathInv, PathTypeOK
  <2>6. excess + Size(stream, DueBy(L)) <= Bound + L
    BY DEF PathInv, DueBounded
  <2>7. QED
    BY <2>1, <2>4, <2>5, <2>6
<1>11. ASSUME NEW K \in Nat, NEW L \in Nat, K < L
       PROVE  Size(stream', Between(K, L)') <= L - K + MaxChunk - 1
  <2>1. Between(K, L)' = Between(K, L) \ {s} /\ Between(K, L) \in SUBSET Throttled
    BY <1>1, <1>5, ThrottledSubset DEF Between
  <2>2. Size(stream, Between(K, L)) <= L - K + MaxChunk - 1
    BY <1>11 DEF PathInv, Spaced
  <2>3. QED
    BY <1>6, <2>1, <2>2
<1>12. QED
  BY <1>4, <1>8, <1>9, <1>10, <1>11 DEF PathInv, DueBounded, Spaced

(* A period passes: a token for the bucket, a unit off every sleep, and a  *)
(* byte off what is through.                                               *)
LEMMA TickKeeps ==
    ASSUME PathInv, Tick
    PROVE  PathInv'
<1> USE BoundType
<1>1. /\ tokens \in Int /\ tokens' \in Int /\ tokens' <= tokens + 1 /\ tokens' <= Rate
      /\ excess \in Nat /\ excess' \in Nat
      /\ excess > 0 => excess' = excess - 1
      /\ excess = 0 => excess' = 0
  BY DEF PathInv, PathTypeOK, Tick, Refilled, Smaller
<1>2. ASSUME NEW s \in Stream
      PROVE  /\ stream'[s] \in StreamState
             /\ stream'[s].at = stream[s].at
             /\ s \in Throttled =>
                   /\ stream[s].left \in Nat /\ stream[s].left > 0
                   /\ stream'[s].left = stream[s].left - 1
                   /\ stream'[s].n = stream[s].n
  <2>1. stream[s] \in StreamState
    BY DEF PathInv, PathTypeOK
  <2>2. CASE Asleep(s)
    <3>1. stream'[s] = [stream[s] EXCEPT !.left = @ - 1] /\ stream[s].left > 0
      BY <2>2 DEF Tick
    <3>2. QED
      BY <2>1, <3>1 DEF StreamState
  <2>3. CASE ~Asleep(s)
    <3>1. stream'[s] = Idle /\ stream[s].at = "idle" /\ s \notin Throttled
      BY <2>3 DEF Tick, Asleep, Throttled
    <3>2. Idle \in StreamState /\ Idle.at = "idle"
      BY DEF Idle, StreamState
    <3>3. QED
      BY <3>1, <3>2
  <2>4. QED
    BY <2>2, <2>3
<1>3. PathTypeOK'
  <2>1. stream' = [s \in Stream |-> stream'[s]]
    BY DEF Tick
  <2>2. QED
    BY <1>1, <1>2, <2>1 DEF PathTypeOK
<1>4. Throttled' = Throttled
  BY <1>2 DEF Throttled
<1>5. ASSUME NEW T \in SUBSET Throttled
      PROVE  Size(stream', T) = Size(stream, T) /\ Size(stream, T) \in Nat
  <2>1. T \in SUBSET Stream
    BY ThrottledSubset
  <2>2. QED
    BY <1>2, <2>1, SizeSame, SizeType
<1>6. \A L \in Nat : DueBy(L)' = DueBy(L + 1) /\ DueBy(L + 1) = Between(0, L + 1)
  BY <1>2, <1>4, ThrottledSubset DEF DueBy, Between
<1>7. \A K, L \in Nat : Between(K, L)' = Between(K + 1, L + 1)
  BY <1>2, <1>4, ThrottledSubset DEF Between
<1>8. DebtBehind'
  BY <1>1, <1>2, <1>4, ThrottledSubset DEF PathInv, DebtBehind
<1>9. ASSUME NEW K \in Nat, NEW L \in Nat, K < L
      PROVE  Size(stream', Between(K, L)') <= L - K + MaxChunk - 1
  <2>1. Between(K + 1, L + 1) \in SUBSET Throttled
    BY DEF Between
  <2>2. Size(stream, Between(K + 1, L + 1)) <= (L + 1) - (K + 1) + MaxChunk - 1
    BY <1>9 DEF PathInv, Spaced
  <2>3. QED
    BY <1>5, <1>7, <2>1, <2>2
<1>10. ASSUME NEW L \in Nat
       PROVE  excess' + Size(stream', DueBy(L)') <= Bound + L
  <2>1. DueBy(L + 1) \in SUBSET Throttled /\ L + 1 \in Nat
    BY ThrottledSubset
  <2>2. Size(stream', DueBy(L)') = Size(stream, DueBy(L + 1))
        /\ Size(stream, DueBy(L + 1)) \in Nat
    BY <1>5, <1>6, <2>1
  <2>3. CASE excess > 0
    <3>1. excess + Size(stream, DueBy(L + 1)) <= Bound + (L + 1)
      BY <2>1 DEF PathInv, DueBounded
    <3>2. QED
      BY <1>1, <2>2, <2>3, <3>1
  <2>4. CASE excess = 0
    <3>1. Size(stream, Between(0, L + 1)) <= (L + 1) - 0 + MaxChunk - 1
      BY <2>1 DEF PathInv, Spaced
    <3>2. Size(stream, DueBy(L + 1)) <= L + MaxChunk
      BY <1>6, <3>1
    <3>3. QED
      BY <1>1, <2>2, <2>4, <3>2
  <2>5. QED
    BY <1>1, <2>3, <2>4
<1>11. Conserved'
  <2>1. Size(stream', Throttled') = Size(stream, Throttled)
        /\ Size(stream, Throttled) \in Nat
    BY <1>4, <1>5
  <2>2. CASE excess > 0
    BY <1>1, <2>1, <2>2 DEF PathInv, Conserved
  <2>3. CASE excess = 0 /\ Throttled = {}
    BY <1>1, <2>1, <2>3, SizeEmpty DEF Conserved
  <2>4. CASE excess = 0 /\ Throttled # {}
    <3>1. -tokens \in Nat /\ -tokens > 0
      BY <1>1, <1>2, <2>4, ThrottledSubset DEF PathInv, DebtBehind
    <3>2. Throttled = Between(0, -tokens)
      BY <1>1, <1>2, ThrottledSubset DEF PathInv, DebtBehind, Between
    <3>3. Size(stream, Throttled) <= -tokens - 0 + MaxChunk - 1
      BY <3>1, <3>2 DEF PathInv, Spaced
    <3>4. tokens + Size(stream, Throttled) + 1 <= MaxChunk
      BY <1>1, <2>1, <3>3
    <3>5. QED
      BY <1>1, <2>1, <2>4, <3>4 DEF Conserved
  <2>5. QED
    BY <1>1, <2>2, <2>3, <2>4
<1>12. QED
  BY <1>3, <1>8, <1>9, <1>10, <1>11 DEF PathInv, DueBounded, Spaced

(* Writes and Reads that begin, and latency that delays a Write. *)
LEMMA StreamsKeep ==
    ASSUME PathInv, NEW s \in Stream, NEW n \in 1..MaxChunk, NEW d \in Latency,
           WriteDelayed(s, n, d)
    PROVE  PathInv'
<1>1. /\ tokens' = tokens /\ excess' = excess
      /\ stream[s].at = "idle" /\ stream'[s].at = "delayed"
      /\ \A t \in Stream \ {s} : stream'[t] = stream[t]
  BY DEF WriteDelayed, PathInv, PathTypeOK, Idle
<1>2. [at |-> "delayed", n |-> n, left |-> d] \in StreamState
  BY ShapingAssumption DEF StreamState
<1>3. PathTypeOK'
  <2>1. stream' \in [Stream -> StreamState]
    BY <1>2 DEF WriteDelayed, PathInv, PathTypeOK
  <2>2. QED
    BY <1>1, <2>1 DEF PathInv, PathTypeOK
<1>4. Throttled' = Throttled /\ \A t \in Throttled : stream'[t] = stream[t]
  BY <1>1 DEF Throttled
<1>5. \A T \in SUBSET Throttled : Size(stream', T) = Size(stream, T)
  BY <1>4, ThrottledSubset, SizeSame
<1>6. \A K, L : DueBy(L)' = DueBy(L) /\ Between(K, L)' = Between(K, L)
                /\ Between(K, L) \in SUBSET Throttled /\ DueBy(L) \in SUBSET Throttled
  BY <1>4 DEF DueBy, Between
<1>7. QED
  BY <1>1, <1>3, <1>4, <1>5, <1>6
     DEF PathInv, Conserved, DueBounded, DebtBehind, Spaced

LEMMA PathUnchanged ==
    ASSUME PathInv, UNCHANGED <<tokens, stream, excess>>
    PROVE  PathInv'
BY DEF PathInv, PathTypeOK, Conserved, DueBounded, DebtBehind, Spaced, Throttled, DueBy,
       Between, Size, Bytes

LEMMA PathNext == PathInv /\ [Next]_vars => PathInv'
<1> SUFFICES ASSUME PathInv, [Next]_vars PROVE PathInv'
  OBVIOUS
<1>1. CASE UNCHANGED vars \/ CancelContext \/ Calls \/ DialTest \/ DialStore
  <2>1. UNCHANGED <<tokens, stream, excess>>
    BY <1>1 DEF vars, pathVars, CancelContext, Calls, Request, StoreFirst, StoreSecond,
                DialTest, DialStore
  <2>2. QED
    BY <2>1, PathUnchanged
<1>2. CASE Tick
  BY <1>2, TickKeeps
<1>3. CASE Streams
  <2>1. PICK s \in Stream :
           \/ WriteInjected(s)
           \/ \E n \in 1..MaxChunk : Transfer(s, n) \/ \E d \in Latency : WriteDelayed(s, n, d)
    BY <1>3 DEF Streams
  <2>2. CASE WriteInjected(s)
    BY <2>2, PathUnchanged DEF WriteInjected, vars, pathVars
  <2>3. ASSUME NEW n \in 1..MaxChunk, Transfer(s, n) PROVE PathInv'
    <3>1. stream[s].at # "throttled" /\ excess' = excess /\ Wait(s, n)
      BY <2>3 DEF Transfer, Idle
    <3>2. QED
      BY <3>1, WaitKeeps, BoundType
  <2>4. ASSUME NEW n \in 1..MaxChunk, NEW d \in Latency, WriteDelayed(s, n, d)
        PROVE  PathInv'
    BY <2>4, StreamsKeep
  <2>5. QED
    BY <2>1, <2>2, <2>3, <2>4
<1>4. CASE Wakes
  <2>1. ASSUME NEW s \in Stream, DelayEnds(s) PROVE PathInv'
    <3>1. stream[s].at # "throttled" /\ excess' = excess /\ Wait(s, stream[s].n)
      BY <2>1 DEF DelayEnds
    <3>2. stream[s].n \in 0..MaxChunk
      BY DEF PathInv, PathTypeOK, StreamState
    <3>3. QED
      BY <3>1, <3>2, WaitKeeps
  <2>2. ASSUME NEW s \in Stream, WaitEnds(s) \/ Interrupted(s) PROVE PathInv'
    BY <2>2, WakeKeeps
  <2>3. QED
    BY <1>4, <2>1, <2>2 DEF Wakes
<1>5. QED
  BY <1>1, <1>2, <1>3, <1>4 DEF Next

(* The bandwidth cap holds for any number of streams sharing the bucket:   *)
(* in no period do more bytes go through than its length at the rate, and  *)
(* one second's burst or one transfer.                                     *)
THEOREM BandwidthIsBounded == Spec => []BandwidthBounded
<1>1. PathInv => BandwidthBounded
  <2> SUFFICES ASSUME PathInv PROVE BandwidthBounded
    OBVIOUS
  <2>1. Size(stream, DueBy(0)) \in Nat
    BY ThrottledSubset, SizeType
  <2>2. excess + Size(stream, DueBy(0)) <= Bound + 0
    BY DEF PathInv, DueBounded
  <2>3. QED
    BY <2>1, <2>2, BoundType DEF PathInv, PathTypeOK, BandwidthBounded, Bound
<1>2. QED
  BY <1>1, PathInit, PathNext, PTL DEF Spec

-----------------------------------------------------------------------------
(* When no RPC and no reconnect overlap, an RPC's two stores meet nobody.  *)
AloneWhileUnraced ==
    ~raced =>
        /\ \A c, d \in Caller : call[c] # NoCall /\ call[d] # NoCall => c = d
        /\ Busy => dialer # "tested"

(* Between its stores an RPC has done the first one. *)
HalfStored ==
    ~raced => \A c \in Caller : call[c].at = "second" =>
        IF call[c].value = Nil THEN ~hasOverride ELSE chaos = call[c].value

(* The override flag tells which settings are in force. *)
FlagTells ==
    ~raced /\ ~Busy =>
        \/ hasOverride /\ chaos = promised /\ dialer # "tested"
        \/ ~hasOverride /\ promised = ConfigChaos /\ chaos \in {ConfigChaos, Nil}

CallTypeOK ==
    /\ call \in [Caller -> [at : {"idle", "first", "second"},
                            value : Requests \cup {Nil}]]
    /\ hasOverride \in BOOLEAN /\ raced \in BOOLEAN

ChaosInv == CallTypeOK /\ AloneWhileUnraced /\ HalfStored /\ FlagTells

LEMMA NoCallIdle == NoCall.at = "idle"
BY DEF NoCall

LEMMA ChaosInit == Init => ChaosInv
<1> SUFFICES ASSUME Init PROVE ChaosInv
  OBVIOUS
<1>1. NoCall \in [at : {"idle", "first", "second"}, value : Requests \cup {Nil}]
  BY DEF NoCall
<1>2. CallTypeOK
  BY <1>1 DEF Init, CallTypeOK
<1>3. ~Busy /\ \A c \in Caller : call[c].at # "second"
  BY NoCallIdle DEF Init, Busy
<1>4. QED
  BY <1>2, <1>3 DEF Init, ChaosInv, AloneWhileUnraced, HalfStored, FlagTells, Busy

(* A request that finds nobody in its way starts with a clean slate. *)
LEMMA RequestKeeps ==
    ASSUME ChaosInv, NEW c \in Caller, NEW v \in Requests \cup {Nil}, Request(c, v)
    PROVE  ChaosInv'
<1>1. /\ call'[c] = [at |-> "first", value |-> v]
      /\ \A d \in Caller \ {c} : call'[d] = call[d]
      /\ raced' = (Busy \/ dialer = "tested")
      /\ UNCHANGED <<chaos, hasOverride, dialer, promised>>
  BY DEF Request, ChaosInv, CallTypeOK
<1>2. [at |-> "first", value |-> v]
        \in [at : {"idle", "first", "second"}, value : Requests \cup {Nil}]
  OBVIOUS
<1>3. CallTypeOK'
  <2>1. raced' \in BOOLEAN
    BY <1>1, Zenon DEF Busy
  <2>2. call' \in [Caller -> [at : {"idle", "first", "second"},
                              value : Requests \cup {Nil}]]
    BY <1>2 DEF Request, ChaosInv, CallTypeOK
  <2>3. QED
    BY <1>1, <2>1, <2>2 DEF ChaosInv, CallTypeOK
<1>4. Busy'
  BY <1>1, NoCallIdle DEF Busy
<1>5. ~raced' => dialer' # "tested" /\ \A d \in Caller \ {c} : call'[d] = NoCall
  BY <1>1 DEF Busy
<1>6. QED
  BY <1>1, <1>3, <1>4, <1>5, NoCallIdle
     DEF ChaosInv, AloneWhileUnraced, HalfStored, FlagTells

(* Each of an RPC's two stores, with nobody between them. *)
LEMMA StoreKeeps ==
    ASSUME ChaosInv, NEW c \in Caller, StoreFirst(c) \/ StoreSecond(c)
    PROVE  ChaosInv'
<1>1. /\ call[c] \in [at : {"idle", "first", "second"}, value : Requests \cup {Nil}]
      /\ call[c] # NoCall /\ Busy
      /\ UNCHANGED <<dialer, raced>>
      /\ \A d \in Caller \ {c} : call'[d] = call[d]
  BY NoCallIdle DEF StoreFirst, StoreSecond, ChaosInv, CallTypeOK, Busy
<1>2. ~raced => dialer' # "tested" /\ \A d \in Caller \ {c} : call'[d] = NoCall
  BY <1>1 DEF ChaosInv, AloneWhileUnraced
<1>3. hasOverride' \in {hasOverride, TRUE, FALSE}
  BY DEF StoreFirst, StoreSecond
<1>4. CASE StoreFirst(c)
  <2>1. call'[c] = [at |-> "second", value |-> call[c].value]
    BY <1>1, <1>4 DEF StoreFirst, ChaosInv, CallTypeOK
  <2>2. call' \in [Caller -> [at : {"idle", "first", "second"},
                              value : Requests \cup {Nil}]]
    BY <1>1, <1>4, <2>1 DEF StoreFirst, ChaosInv, CallTypeOK
  <2>3. CallTypeOK'
    BY <1>1, <1>3, <2>2 DEF ChaosInv, CallTypeOK
  <2>4. Busy'
    BY <2>1, NoCallIdle DEF Busy
  <2>5. IF call'[c].value = Nil THEN ~hasOverride' ELSE chaos' = call'[c].value
    BY <1>4, <2>1 DEF StoreFirst
  <2>6. QED
    BY <1>1, <1>2, <2>1, <2>3, <2>4, <2>5, NoCallIdle
       DEF ChaosInv, AloneWhileUnraced, HalfStored, FlagTells
<1>5. CASE StoreSecond(c)
  <2>1. call'[c] = NoCall
    BY <1>5 DEF StoreSecond, ChaosInv, CallTypeOK
  <2>2. call' \in [Caller -> [at : {"idle", "first", "second"},
                              value : Requests \cup {Nil}]]
    <3>1. NoCall \in [at : {"idle", "first", "second"}, value : Requests \cup {Nil}]
      BY DEF NoCall
    <3>2. QED
      BY <1>5, <3>1 DEF StoreSecond, ChaosInv, CallTypeOK
  <2>3. CallTypeOK'
    BY <1>1, <1>3, <2>2 DEF ChaosInv, CallTypeOK
  <2>4. ~raced => \A d \in Caller : call'[d] = NoCall
    BY <1>2, <2>1
  <2>5. ~raced => \/ hasOverride' /\ chaos' = promised'
                  \/ ~hasOverride' /\ promised' = ConfigChaos /\ chaos' = ConfigChaos
    BY <1>5 DEF StoreSecond, ChaosInv, HalfStored
  <2>6. QED
    BY <1>1, <1>2, <2>3, <2>4, <2>5, NoCallIdle
       DEF ChaosInv, AloneWhileUnraced, HalfStored, FlagTells, Busy
<1>6. QED
  BY <1>4, <1>5

(* A reconnect initialises the settings only while nothing overrides them. *)
LEMMA DialKeeps ==
    ASSUME ChaosInv, DialTest \/ DialStore
    PROVE  ChaosInv'
<1>1. UNCHANGED <<call, hasOverride, promised>>
  BY DEF DialTest, DialStore
<1>2. CASE DialTest
  <2>1. raced' = (raced \/ Busy)
    BY <1>2 DEF DialTest
  <2>2. raced' \in BOOLEAN
    BY <2>1, Zenon DEF ChaosInv, CallTypeOK, Busy
  <2>3. ~raced' => ~raced /\ ~Busy /\ ~Busy'
    BY <1>1, <2>1 DEF Busy
  <2>4. ~raced' => \A c \in Caller : call[c] = NoCall /\ call'[c] = NoCall
    BY <1>1, <2>3 DEF Busy
  <2>5. QED
    BY <1>1, <1>2, <2>2, <2>3, <2>4, NoCallIdle
       DEF DialTest, Initialises, ChaosInv, CallTypeOK, AloneWhileUnraced, HalfStored,
           FlagTells
<1>3. CASE DialStore
  <2>1. raced' = raced /\ dialer = "tested" /\ dialer' = "idle" /\ chaos' = ConfigChaos
    BY <1>3 DEF DialStore
  <2>2. ~raced => ~Busy /\ ~Busy'
    BY <1>1, <2>1 DEF ChaosInv, AloneWhileUnraced, Busy
  <2>3. ~raced => \A c \in Caller : call[c] = NoCall /\ call'[c] = NoCall
    BY <1>1, <2>2 DEF Busy
  <2>4. QED
    BY <1>1, <2>1, <2>2, <2>3, NoCallIdle
       DEF ChaosInv, CallTypeOK, AloneWhileUnraced, HalfStored, FlagTells
<1>4. QED
  BY <1>2, <1>3

LEMMA ChaosNext == ChaosInv /\ [Next]_vars => ChaosInv'
<1> SUFFICES ASSUME ChaosInv, [Next]_vars PROVE ChaosInv'
  OBVIOUS
<1>1. CASE UNCHANGED vars \/ Tick \/ Streams \/ Wakes \/ CancelContext
  <2>1. UNCHANGED chaosVars
    BY <1>1 DEF vars, Tick, Streams, WriteInjected, Transfer, WriteDelayed, Wakes,
                DelayEnds, WaitEnds, Interrupted, CancelContext
  <2>2. QED
    BY <2>1 DEF chaosVars, ChaosInv, CallTypeOK, AloneWhileUnraced, HalfStored,
                FlagTells, Busy
<1>2. CASE Calls
  BY <1>2, RequestKeeps, StoreKeeps DEF Calls
<1>3. CASE DialTest \/ DialStore
  BY <1>3, DialKeeps
<1>4. QED
  BY <1>1, <1>2, <1>3 DEF Next

(* "Changes take effect immediately" and stay, through any number of       *)
(* reconnects: with no RPC under way, what is in force is what the last    *)
(* one reported, unless it overlapped another or an initialisation.        *)
THEOREM OverrideIsHeld == Spec => []OverrideHeld
<1>1. ChaosInv => OverrideHeld
  BY DEF ChaosInv, FlagTells, OverrideHeld
<1>2. QED
  BY <1>1, ChaosInit, ChaosNext, PTL DEF Spec
=============================================================================
